----------------------------- MODULE BootServer -----------------------------
(***************************************************************************)
(* The boot server (server/bootserver.go, server/helper.go): the HTTP      *)
(* endpoints /ipxe/<uuid>, /ignition/<uuid> and /httpboot.                 *)
(*                                                                         *)
(* net/http runs every request in a goroutine of its own, beside the       *)
(* reconcilers, and a request is a chain of reads from the informer        *)
(* caches: list the boot configs of the machine, look up the owners of     *)
(* several, the Server behind them, the Secret of the one selected.  The   *)
(* world may change between any two of them, and a successful delivery is  *)
(* recorded in the status conditions by a merge patch against the object   *)
(* as it was listed.  main starts the boot server before the manager, so   *)
(* the first requests meet caches that have not started.                   *)
(*                                                                         *)
(* One machine is modelled: all its configs are found by its UUID, written *)
(* in lower, upper or mixed case, or by one of its addresses.              *)
(***************************************************************************)
EXTENDS Informer, FiniteSets, SequencesExt

CONSTANTS Requests,        \* the requests, each served once
          Configs,         \* the names of the boot configs of the machine
          Object,          \* what does not change of each of them
          SBCs,            \* keys of ServerBootConfigurations
          ServerOf,        \* spec.serverRef of each
          Servers,         \* names of Servers
          Secrets,         \* names of secrets
          Addresses,       \* client addresses
          NoRef,           \* a reference that is nil, or an owner without name
          Gone,            \* no such object
          Paths,           \* the endpoints that are called
          DefaultAnswers,  \* what /httpboot says to an unknown machine
          MaxChanges       \* bound on changes of the objects read

Types == {"IPXEScriptFetched", "IgnitionDataFetched"}
Cases == {"lower", "upper", "mixed"}
ObjectVal == [kind: {"IPXE", "HTTP"}, uuid: Cases, addresses: SUBSET Addresses,
              owner: SBCs \cup {NoRef}, ignition: Secrets \cup {NoRef},
              script: Secrets \cup {NoRef}]

ASSUME ObjectAssumption ==
  /\ IsFiniteSet(Configs)
  /\ Object \in [Configs -> ObjectVal]
  /\ ServerOf \in [SBCs -> Servers]
  /\ NoRef \notin SBCs \cup Secrets
  /\ Paths \subseteq {"ipxe", "ignition", "httpboot"}
  /\ DefaultAnswers \subseteq {"default", "500"}
  /\ MaxChanges \in Nat

VARIABLES conf,      \* the configs, as Informer histories
          sbcs,      \* the ServerBootConfigurations in the cache
          servers,   \* the Servers in the cache
          secrets,   \* the secrets in the cache
          started,   \* the manager has started its caches
          req,       \* the requests
          recorded,  \* history: the conditions patched into each config
          delivered, \* history: objects whose ignition was the answer
          late,      \* history: objects patched for a former one of the name
          changes    \* changes so far

world == <<conf, sbcs, servers, secrets, started>>
history == <<recorded, delivered, late>>
vars == <<conf, sbcs, servers, secrets, started, req, recorded, delivered, late,
          changes>>

-----------------------------------------------------------------------------
(***************************************************************************)
(* Objects.                                                                *)
(***************************************************************************)
ConditionLists == {q \in UNION {[1..n -> Types] : n \in 0..Cardinality(Types)} :
                     \A i, j \in DOMAIN q : q[i] = q[j] => i = j}

\* An object of a config's name, each with a UID of its own, or Gone.
UIDs == 0..MaxChanges
ObjectOfName == [uid: UIDs, conditions: ConditionLists]
ConfVal == ObjectOfName \cup {Gone}
New(u) == [uid |-> u, conditions |-> <<>>]

\* The references are to different ServerBootConfigurations.
ServerVal == {s \in [boot: SBCs \cup {NoRef}, maintenance: SBCs \cup {NoRef},
                     state: {"Maintenance", "Reserved"}] :
                s.boot = s.maintenance => s.boot = NoRef}

\* A secret is missing, lacks the key that is read, has Butane that does not
\* translate, or has data to deliver.
SecretVal == {"absent", "noKey", "untranslatable", "data"}

Exists(c) == Cached(conf[c]) # Gone

\* What an index lookup returns for a UUID or an address.
Lookup(kind, key) ==
  {c \in Configs : /\ Exists(c) /\ Object[c].kind = kind
                   /\ key \in {Object[c].uuid} \cup Object[c].addresses}

-----------------------------------------------------------------------------
(***************************************************************************)
(* Requests.  at is the function that handles the request, asked what the  *)
(* client sent: its UUID, or the addresses of X-Forwarded-For.             *)
(***************************************************************************)
Handlers == {"ipxe", "dispatch", "ignitionIPXE", "ignitionHTTP", "httpboot"}
Answers == {"none", "200", "default", "404", "500", "aborted", "broken"}

\* An item of a listing: the object as it was listed.
Item == [name: Configs, object: ObjectOfName]
Listings(S) ==
  {[i \in DOMAIN q |-> [name |-> q[i], object |-> Cached(conf[q[i]])]] : q \in SetToSeqs(S)}

RequestVal ==
  [pc: {"idle", "list", "owner", "server", "serve", "patch", "answered"},
   at: Handlers, asked: Seq(Addresses \cup Cases), next: Nat, items: Seq(Item),
   server: ServerVal \cup {Gone}, chosen: Nat, answer: Answers,
   steady: SUBSET Configs, early: BOOLEAN]

IdleReq == [pc |-> "idle", at |-> "ipxe", asked |-> <<>>, next |-> 1, items |-> <<>>,
            server |-> Gone, chosen |-> 0, answer |-> "none", steady |-> {},
            early |-> FALSE]

\* The addresses X-Forwarded-For may list.
AddressLists == UNION {[1..n -> Addresses] : n \in 0..2}

KindOf(q) == IF q.at \in {"ignitionHTTP", "httpboot"} THEN "HTTP" ELSE "IPXE"

\* Mutation: the handlers rely on the spelling of the client.
KeysWithoutUpper(q) ==
  CASE q.at \in {"ipxe", "httpboot"} -> q.asked
    [] q.at = "dispatch" -> q.asked \o <<"upper">>
    [] q.at \in {"ignitionIPXE", "ignitionHTTP"} -> q.asked \o <<"lower">>

\* The keys a handler looks up, until one of them has items.
Keys(q) ==
  CASE q.at \in {"ipxe", "httpboot"} -> q.asked
    [] q.at = "dispatch" -> q.asked \o <<"upper">>
    [] q.at \in {"ignitionIPXE", "ignitionHTTP"} -> q.asked \o <<"upper", "lower">>

Answered(q, a) == [q EXCEPT !.pc = "answered", !.answer = a]

\* No key has an item: the dispatcher turns to the HTTPBootConfigs.
NoneFound(q) ==
  CASE q.at = "dispatch" -> {[q EXCEPT !.at = "ignitionHTTP", !.next = 1]}
    [] q.at = "httpboot" -> {Answered(q, a) : a \in DefaultAnswers}
    [] OTHER -> {Answered(q, "404")}

\* The lookup of the current key had no items.
NextKey(q) ==
  IF q.next < Len(Keys(q)) THEN {[q EXCEPT !.next = @ + 1]} ELSE NoneFound(q)

\* List failed: /httpboot goes on with the next address.
ListFailed(q) ==
  CASE q.at = "httpboot" -> NextKey(q)
    [] q.at = "ignitionHTTP" /\ q.next = 1 -> {Answered(q, "404")}
    [] OTHER -> {Answered(q, "500")}

-----------------------------------------------------------------------------
(***************************************************************************)
(* selectBootConfig: which of several configs to serve.                    *)
(***************************************************************************)
Owner(q, i) == Object[q.items[i].name].owner

Listed(q, items) ==
  IF q.at = "dispatch" THEN [q EXCEPT !.at = "ignitionIPXE", !.next = 1]
  ELSE IF Len(items) = 1 THEN [q EXCEPT !.pc = "serve", !.items = items, !.chosen = 1]
  ELSE [q EXCEPT !.pc = "owner", !.items = items, !.next = 1]

\* Mutation: the maintenance config is preferred in every state.
preferredInEveryState(q, s) ==
  LET named(refs) == {i \in DOMAIN q.items : Owner(q, i) \in refs \ {NoRef}}
      choice == IF named({s.maintenance}) # {} THEN named({s.maintenance}) ELSE named({s.boot})
  IN IF choice = {} THEN 0 ELSE CHOOSE i \in choice : \A j \in choice : i <= j

\* preferredBootConfigIndex for the server s, or 0 for an error.
preferredBootConfigIndex(q, s) ==
  LET named(refs) == {i \in DOMAIN q.items : Owner(q, i) \in refs \ {NoRef}}
      valid == named({s.boot, s.maintenance})
      forMaintenance == IF s.state = "Maintenance" THEN named({s.maintenance}) ELSE {}
      first(S) == CHOOSE i \in S : \A j \in S : i <= j
  IN IF valid = {} THEN 0
     ELSE IF Cardinality(valid) = 1 THEN first(valid)
     ELSE IF forMaintenance # {} THEN first(forMaintenance)
     ELSE IF named({s.boot}) # {} THEN first(named({s.boot})) ELSE 0

\* The next owner to resolve, or 0.
NextOwner(q) ==
  LET named == {i \in q.next..Len(q.items) : Owner(q, i) # NoRef}
  IN IF named = {} THEN 0 ELSE CHOOSE i \in named : \A j \in named : i <= j

-----------------------------------------------------------------------------
Init ==
  /\ conf \in [Configs -> {<<New(0)>>, <<Gone>>}]
  /\ sbcs \in SUBSET SBCs
  /\ servers \in [Servers -> ServerVal \cup {Gone}]
  /\ secrets \in [Secrets -> SecretVal]
  /\ started = FALSE
  /\ req = [r \in Requests |-> IdleReq]
  /\ recorded = [c \in Configs |-> {}]
  /\ delivered = {}
  /\ late = {}
  /\ changes = 0

\* The request as its handler has it is replaced by one of the requests in S.
Steps(r, S) ==
  /\ \E q \in S : req' = [req EXCEPT ![r] = q]
  /\ UNCHANGED <<world, changes>>

(***************************************************************************)
(* The mux calls the handler of the endpoint.  A /httpboot request without *)
(* X-Forwarded-For has no key to look up.                                  *)
(***************************************************************************)
Arrive(r, path) ==
  /\ req[r].pc = "idle"
  /\ \E asked \in IF path = "httpboot" THEN AddressLists ELSE {<<u>> : u \in Cases} :
       LET q == [IdleReq EXCEPT !.pc = "list", !.asked = asked, !.early = ~started,
                                !.at = IF path = "ignition" THEN "dispatch" ELSE path,
                                !.steady = {c \in Configs : Exists(c)}]
       IN Steps(r, IF asked = <<>> THEN NoneFound(q) ELSE {q})
  /\ UNCHANGED history

\* One List by an index.
List(r) ==
  LET q == req[r]
      S == Lookup(KindOf(q), Keys(q)[q.next])
  IN /\ q.pc = "list"
     /\ Steps(r, IF ~started THEN ListFailed(q)
                 ELSE IF S = {} THEN NextKey(q)
                 ELSE {Listed(q, items) : items \in Listings(S)})
     /\ UNCHANGED history

\* resolveServer: Get the next named owner ...
GetOwner(r) ==
  LET q == req[r]
      i == NextOwner(q)
  IN /\ q.pc = "owner"
     /\ Steps(r, {IF i = 0 THEN Answered(q, "500")
                  ELSE IF Owner(q, i) \in sbcs THEN [q EXCEPT !.pc = "server", !.next = i]
                  ELSE [q EXCEPT !.next = i + 1]})
     /\ UNCHANGED history

\* ... and the Server it refers to, which decides between the items.
GetServer(r) ==
  LET q == req[r]
      s == servers[ServerOf[Owner(q, q.next)]]
      found == [q EXCEPT !.server = s, !.chosen = preferredBootConfigIndex(q, s)]
  IN /\ q.pc = "server"
     /\ Steps(r, {IF s = Gone THEN [q EXCEPT !.pc = "owner", !.next = @ + 1]
                  ELSE IF found.chosen = 0 THEN Answered(found, "500")
                  ELSE [found EXCEPT !.pc = "serve"]})
     /\ UNCHANGED history

(***************************************************************************)
(* The answer.  A config selected among several or alone is served without *)
(* another look at it.  The write fails when the client has gone.          *)
(***************************************************************************)
ChosenItem(q) == q.items[q.chosen]
Chosen(q) == ChosenItem(q).name
Identity(item) == <<item.name, item.object.uid>>
Recorder(q) == IF q.at = "ipxe" THEN "IPXEScriptFetched" ELSE "IgnitionDataFetched"

Delivers(r, S) ==
  /\ Steps(r, S)
  /\ delivered' = IF req'[r].answer = "200" /\ req[r].at # "ipxe"
                    THEN delivered \cup {Identity(ChosenItem(req[r]))} ELSE delivered
  /\ UNCHANGED <<recorded, late>>

\* handleIPXE with a custom script, which is not recorded.
ServeScript(r) ==
  LET q == req[r]
  IN /\ q.pc = "serve" /\ q.at = "ipxe" /\ Object[Chosen(q)].script # NoRef
     /\ Delivers(r, IF secrets[Object[Chosen(q)].script] \in {"absent", "noKey"}
                    THEN {Answered(q, "500")} ELSE {Answered(q, a) : a \in {"200", "broken"}})

\* handleIPXE with the template, which may fail: it is recorded either way.
ServeTemplate(r) ==
  LET q == req[r]
  IN /\ q.pc = "serve" /\ q.at = "ipxe" /\ Object[Chosen(q)].script = NoRef
     /\ Delivers(r, {[q EXCEPT !.pc = "patch", !.answer = a] : a \in {"200", "500"}})

\* Mutation: no return after the failed write.
ServeIgnitionWithoutReturn(r) ==
  LET q == req[r]
  IN /\ q.pc = "serve" /\ q.at \in {"ignitionIPXE", "ignitionHTTP"}
     /\ Object[Chosen(q)].ignition # NoRef
     /\ Delivers(r, {[q EXCEPT !.pc = "patch", !.answer = a] : a \in {"200", "broken"}})

\* handleIgnitionIPXEBoot and handleIgnitionHTTPBoot.  A reference that is nil
\* panics; net/http recovers and drops the connection.
ServeIgnition(r) ==
  LET q == req[r]
      ref == Object[Chosen(q)].ignition
      failure == CASE ref = NoRef -> "aborted"
                   [] ref # NoRef /\ secrets[ref] \in {"absent", "noKey"} -> "404"
                   [] ref # NoRef /\ secrets[ref] = "untranslatable" -> "500"
                   [] OTHER -> "broken"
  IN /\ q.pc = "serve" /\ q.at \in {"ignitionIPXE", "ignitionHTTP"}
     /\ Delivers(r, {Answered(q, failure)} \cup
                    IF failure = "broken" THEN {[q EXCEPT !.pc = "patch", !.answer = "200"]} ELSE {})

\* handleHTTPBoot with the UKI of a config.
ServeUKI(r) ==
  /\ req[r].pc = "serve" /\ req[r].at = "httpboot"
  /\ Steps(r, {Answered(req[r], a) : a \in {"200", "broken"}})
  /\ UNCHANGED history

\* Mutation: the condition is appended, whatever the list holds.
appendCondition(conditions, type) == Append(conditions, type)

\* The conditions with one of them set.
updateCondition(conditions, type) ==
  IF type \in ToSet(conditions) THEN conditions ELSE Append(conditions, type)

(***************************************************************************)
(* SetStatusCondition.  A merge patch replaces the list as a whole, by the *)
(* one computed from the listed object.  It goes by the name: an object    *)
(* that has been created anew meanwhile is patched like the former one.    *)
(* It fails when there is none, or for any other reason, which is logged.  *)
(***************************************************************************)
SetStatusCondition(r) ==
  LET q == req[r]
      c == Chosen(q)
      item == ChosenItem(q)
      stored == Stored(conf[c])
      list == updateCondition(item.object.conditions, Recorder(q))
  IN /\ q.pc = "patch"
     /\ req' = [req EXCEPT ![r].pc = "answered"]
     /\ \/ /\ stored # Gone
           /\ conf' = [conf EXCEPT ![c] = Write(@, [uid |-> stored.uid, conditions |-> list])]
           /\ recorded' = [recorded EXCEPT ![c] = @ \cup {Recorder(q)}]
           /\ late' = IF item.object.uid = stored.uid THEN late
                                                      ELSE late \cup {<<c, stored.uid>>}
        \/ UNCHANGED <<conf, recorded, late>>
     /\ UNCHANGED <<sbcs, servers, secrets, started, delivered, changes>>

-----------------------------------------------------------------------------
(***************************************************************************)
(* The rest of the world: mgr.Start, users, the reconcilers of this and of *)
(* the metal operator, and the watches that bring their writes.            *)
(***************************************************************************)
StartCaches ==
  /\ ~started
  /\ started' = TRUE
  /\ UNCHANGED <<conf, sbcs, servers, secrets, req, history, changes>>

Change == changes < MaxChanges /\ changes' = changes + 1

\* A config is deleted, or created anew.
ChangeConfig(c) ==
  /\ Change
  /\ conf' = [conf EXCEPT ![c] = Write(@, IF Stored(@) = Gone THEN New(changes') ELSE Gone)]
  /\ recorded' = [recorded EXCEPT ![c] = {}]
  /\ UNCHANGED <<sbcs, servers, secrets, started, req, delivered, late>>

\* A watch event of a config reaches the cache.
Deliver(c) ==
  /\ ~InSync(conf[c])
  /\ conf' = [conf EXCEPT ![c] = Advance(@)]
  /\ req' = [r \in Requests |-> [req[r] EXCEPT !.steady =
                IF Cached(conf[c]') = Gone THEN @ \ {c} ELSE @]]
  /\ UNCHANGED <<sbcs, servers, secrets, started, history, changes>>

\* A ServerBootConfiguration comes or goes, a Server or a secret is edited.
ChangeOther ==
  /\ Change
  /\ \/ /\ \E s \in SBCs : sbcs' = IF s \in sbcs THEN sbcs \ {s} ELSE sbcs \cup {s}
        /\ UNCHANGED <<servers, secrets>>
     \/ /\ \E s \in Servers, v \in ServerVal \cup {Gone} : servers' = [servers EXCEPT ![s] = v]
        /\ UNCHANGED <<sbcs, secrets>>
     \/ /\ \E s \in Secrets, v \in SecretVal : secrets' = [secrets EXCEPT ![s] = v]
        /\ UNCHANGED <<sbcs, servers>>
  /\ UNCHANGED <<conf, started, req, history>>

Handle(r) ==
  \/ List(r) \/ GetOwner(r) \/ GetServer(r)
  \/ ServeScript(r) \/ ServeTemplate(r) \/ ServeIgnition(r) \/ ServeUKI(r)
  \/ SetStatusCondition(r)

Next ==
  \/ \E r \in Requests : Handle(r) \/ \E path \in Paths : Arrive(r, path)
  \/ \E c \in Configs : ChangeConfig(c) \/ Deliver(c)
  \/ StartCaches \/ ChangeOther

Spec == Init /\ [][Next]_vars

-----------------------------------------------------------------------------
(***************************************************************************)
(* Properties.                                                             *)
(***************************************************************************)

\* Every variable has its type.  In particular no config ever shows a
\* condition type twice, whichever requests patch it at the same time
\* (updateCondition replaces the condition of the same type).
TypeOK ==
  /\ conf \in [Configs -> Hist(ConfVal)]
  /\ sbcs \subseteq SBCs
  /\ servers \in [Servers -> ServerVal \cup {Gone}]
  /\ secrets \in [Secrets -> SecretVal]
  /\ started \in BOOLEAN
  /\ req \in [Requests -> RequestVal]
  /\ recorded \in [Configs -> SUBSET Types]
  /\ delivered \subseteq Configs \X UIDs
  /\ late \subseteq Configs \X UIDs
  /\ changes \in UIDs

Preferred(q) ==
  LET s == q.server
      listed(sbc) == sbc # NoRef /\ \E i \in DOMAIN q.items : Owner(q, i) = sbc
  IN q.chosen # 0 /\ Len(q.items) > 1 =>
       /\ Owner(q, q.chosen) \in {s.boot, s.maintenance} \ {NoRef}
       /\ s.state = "Maintenance" /\ listed(s.maintenance)
            => Owner(q, q.chosen) = s.maintenance
       /\ s.state # "Maintenance" /\ listed(s.boot) => Owner(q, q.chosen) = s.boot

\* Among several configs of a machine, in whatever order they are listed and
\* whichever owners have been deleted meanwhile, the one selected belongs to
\* a ServerBootConfiguration that the Server names; it is the maintenance
\* config if the Server is in maintenance and has one, and the workload config
\* if the Server is not in maintenance and has one (preferredBootConfigIndex).
ServedIsPreferred == \A r \in Requests : Preferred(req[r])

\* The configs that are the machine's own for a request.  /ipxe/ asks for the
\* spelling that its script was given; for /ignition/ upper and lower case are
\* two spellings of one UUID, as "Some OSes standardizes SystemUUIDs" to either.
Matching(q) ==
  {c \in Configs :
     CASE q.at = "ipxe"     -> Object[c].kind = "IPXE" /\ q.asked = <<Object[c].uuid>>
       [] q.at = "httpboot" -> /\ Object[c].kind = "HTTP"
                               /\ Object[c].addresses \cap ToSet(q.asked) # {}
       [] OTHER             -> \/ Object[c].uuid \in {"lower", "upper"}
                               \/ q.asked = <<Object[c].uuid>>}
Unknown(q) == q.answer \in {"404", "default"} /\ q.chosen = 0

\* Two ways in which /ignition/ overlooks a config of the machine.  An
\* IPXEBootConfig in lower case is missed by the dispatcher if the client sends
\* another spelling, and never gets to the handler that would find it.
MissedInLowerCase(q, c) ==
  /\ q.at = "ignitionHTTP"
  /\ Object[c].kind = "IPXE" /\ Object[c].uuid = "lower" /\ q.asked # <<"lower">>

\* An HTTPBootConfig is not looked for if the dispatcher saw an IPXEBootConfig,
\* also if that is gone when its handler lists again.
NotFallenBackTo(q, c) == q.at = "ignitionIPXE" /\ Object[c].kind = "HTTP"

\* A request that met started caches is answered as one of an unknown machine
\* only if no config of the machine was there from its arrival to its answer,
\* although dispatcher and handler list several times, by several spellings -
\* or if all that was there are configs which /ignition/ overlooks.
UnknownIsReal ==
  \A r \in Requests :
    LET q == req[r]
    IN Unknown(q) /\ ~q.early =>
         \A c \in q.steady \cap Matching(q) : MissedInLowerCase(q, c) \/ NotFallenBackTo(q, c)

\* An object says IgnitionDataFetched ("successfully delivered to the client")
\* only if a request was answered with its own ignition, whatever was read,
\* edited, deleted and patched meanwhile (the early returns of the two ignition
\* handlers).  The exception: a request that had listed a former object of the
\* name, deleted since, has patched this one (SetStatusCondition).
FetchedWasDelivered ==
  \A c \in Configs :
    LET object == Stored(conf[c])
    IN object # Gone /\ "IgnitionDataFetched" \in ToSet(object.conditions)
         => <<c, object.uid>> \in delivered \cup late

(***************************************************************************)
(* What the code says of itself and does not do.                           *)
(***************************************************************************)

\* "Conditions represent the latest available observations": what has been
\* recorded of a config stays.  SetStatusCondition replaces the list by one
\* made from the listed object, and what another request recorded is lost.
ConditionsKept ==
  \A c \in Configs :
    Stored(conf[c]) # Gone => recorded[c] \subseteq ToSet(Stored(conf[c]).conditions)
=============================================================================
