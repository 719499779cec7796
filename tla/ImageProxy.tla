----------------------------- MODULE ImageProxy -----------------------------
(***************************************************************************)
(* The image proxy server (server/imageproxyserver.go).                    *)
(*                                                                         *)
(* A machine asks for a layer; the proxy finds out how the registry        *)
(* authenticates, gets a token, and passes the layer on.  net/http runs    *)
(* every request in a goroutine of its own; they share the map             *)
(* registryCache of what was detected, by registry and repository, whose   *)
(* entries expire and are removed by a goroutine that runs every five      *)
(* minutes.  The lock of the map is not held while a registry is asked:    *)
(* requests detect at the same time, and the slowest stores last.          *)
(*                                                                         *)
(* Time passes in steps.  Entries have the time that is left to them, and  *)
(* histories say how old information is.                                   *)
(***************************************************************************)
EXTENDS Integers

CONSTANTS Requests,      \* the requests; one that was answered may come again
          Keys,          \* registry and repository of an image, the cache key
          RegistryOf,    \* its registry
          Registries,
          Policies,      \* how registries may authenticate and answer
          None,          \* nothing cached, no token
          TTL,           \* registryCacheTTL
          CleanupEvery,  \* the ticker of cleanupExpiredCacheEntries
          MaxLatency,    \* ResponseHeaderTimeout
          MaxChanges,    \* bound on changes of a registry's policy
          MaxFaults      \* bound on calls that fail

\* auth is the answer to the probe: 200, a Bearer challenge, or anything else
\* (another challenge, none, another status).  realm is where tokens come from,
\* None if the challenge names none.  blobs is how a layer is answered: with
\* its content or with a redirect.
PolicyVal == [auth: {"none", "bearer", "other"}, realm: STRING \cup {None},
              blobs: {"direct", "sameHost", "otherHost", "downgrade"}]

ASSUME ProxyAssumption ==
  /\ RegistryOf \in [Keys -> Registries]
  /\ Policies \subseteq PolicyVal
  /\ TTL \in Nat \ {0} /\ CleanupEvery \in Nat \ {0} /\ MaxLatency \in Nat
  /\ MaxChanges \in Nat /\ MaxFaults \in Nat

VARIABLES policy,   \* the policy of each registry
          version,  \* history: how often it has changed
          cache,    \* registryCache
          clean,    \* time until the next cleanup
          req,      \* the requests
          faults    \* failed calls so far

vars == <<policy, version, cache, clean, req, faults>>

-----------------------------------------------------------------------------
(***************************************************************************)
(* Data.  RegistryInfo with the repository of its token URL and, as a      *)
(* history, the version of the policy it was detected from.                *)
(***************************************************************************)
Info == [auth: {"none", "bearer"}, realm: STRING \cup {None}, scope: Keys, version: Nat]
Entry == [info: Info, left: Int, age: Nat]
Token == [realm: STRING, scope: Keys]

Answers == {"200", "401", "502"}

\* None is neither information nor an answer.
ASSUME NoneAssumption == None \notin Info \cup Answers

Request ==
  [pc: {"idle", "lookup", "detect", "store", "token", "blob"},
   key: Keys \cup {None},
   info: Info \cup {None},
   age: Nat,                  \* history: the age of info as it was obtained, until
                              \* a token is asked for
   token: Token \cup {None},
   answer: Answers \cup {None}]   \* to the request before

Idle(a) ==
  [pc |-> "idle", key |-> None, info |-> None, age |-> 0, token |-> None, answer |-> a]

Init ==
  /\ policy \in [Registries -> Policies]
  /\ version = [g \in Registries |-> 0]
  /\ cache = [k \in Keys |-> None]
  /\ clean = CleanupEvery
  /\ req = [r \in Requests |-> Idle(None)]
  /\ faults = 0

\* A request goes on as q.
Do(r, q) ==
  /\ req' = [req EXCEPT ![r] = q]
  /\ UNCHANGED <<policy, version, cache, clean, faults>>

-----------------------------------------------------------------------------
(***************************************************************************)
(* /image and /httpboot/.  A URL that does not parse (404) and a registry  *)
(* that is not allowed (403) are answered without a look at the cache and  *)
(* are left out: module ImageDelivery has them.                            *)
(***************************************************************************)
Arrive(r) ==
  /\ req[r].pc = "idle"
  /\ \E k \in Keys : Do(r, [Idle(None) EXCEPT !.pc = "lookup", !.key = k])

\* Mutation: an entry is used as long as it is there.
LookupExpired(r) ==
  LET q == req[r]
      e == cache[q.key]
  IN /\ q.pc = "lookup"
     /\ Do(r, IF e # None
              THEN [q EXCEPT !.pc = "token", !.info = e.info, !.age = e.age]
              ELSE [q EXCEPT !.pc = "detect"])

\* Mutation: every use of an entry renews it as if it was just detected.
LookupRenewing(r) ==
  LET q == req[r]
      e == cache[q.key]
  IN /\ q.pc = "lookup"
     /\ IF e # None /\ e.left > 0
        THEN /\ req' = [req EXCEPT ![r].pc = "token", ![r].info = e.info]
             /\ cache' = [cache EXCEPT ![q.key] = [info |-> e.info, left |-> TTL, age |-> 0]]
        ELSE /\ req' = [req EXCEPT ![r].pc = "detect"]
             /\ UNCHANGED cache
     /\ UNCHANGED <<policy, version, clean, faults>>

\* getOrDetectRegistry reads the cache under the read lock ...
Lookup(r) ==
  LET q == req[r]
      e == cache[q.key]
  IN /\ q.pc = "lookup"
     /\ Do(r, IF e # None /\ e.left > 0
              THEN [q EXCEPT !.pc = "token", !.info = e.info, !.age = e.age]
              ELSE [q EXCEPT !.pc = "detect"])

\* Mutation: the token URL has the scope of another repository.
DetectedForAny(k) ==
  LET g == RegistryOf[k]
  IN [auth |-> policy[g].auth, realm |-> policy[g].realm,
      scope |-> CHOOSE any \in Keys : RegistryOf[any] = g, version |-> version[g]]

\* What a probe for k finds out.
Detected(k) ==
  LET g == RegistryOf[k]
  IN [auth |-> policy[g].auth, realm |-> policy[g].realm, scope |-> k,
      version |-> version[g]]

\* Mutation: an answer that is no use is cached like any other.
DetectUnchecked(r) ==
  /\ req[r].pc = "detect"
  /\ Do(r, [req[r] EXCEPT !.pc = "store", !.info = Detected(req[r].key), !.age = 0])

\* ... asks the registry without any lock (detectRegistryAuth) ...
Detect(r) ==
  LET q == req[r]
  IN /\ q.pc = "detect"
     /\ Do(r, IF policy[RegistryOf[q.key]].auth = "other" THEN Idle("502")
              ELSE [q EXCEPT !.pc = "store", !.info = Detected(q.key), !.age = 0])

\* ... and stores what came back, whatever is there by then.
Store(r) ==
  LET q == req[r]
  IN /\ q.pc = "store"
     /\ cache' = [cache EXCEPT ![q.key] = [info |-> q.info, left |-> TTL, age |-> q.age]]
     /\ req' = [req EXCEPT ![r].pc = "token"]
     /\ UNCHANGED <<policy, version, clean, faults>>

\* getBearerToken.  A realm that the registry has left may have gone.
GetToken(r) ==
  LET q == req[r]
      token == [realm |-> q.info.realm, scope |-> q.info.scope]
  IN /\ q.pc = "token"
     /\ \/ /\ q.info.auth = "none"
           /\ Do(r, [q EXCEPT !.pc = "blob", !.age = 0])
        \/ /\ q.info.auth = "bearer" /\ q.info.realm # None
           /\ Do(r, [q EXCEPT !.pc = "blob", !.age = 0, !.token = token])
        \/ /\ q.info.auth = "bearer"
           /\ q.info.realm # policy[RegistryOf[q.key]].realm \/ q.info.realm = None
           /\ Do(r, Idle("401"))

\* What a request for a layer of k with this token is answered by its registry.
Served(k, token) ==
  LET p == policy[RegistryOf[k]]
  IN \/ p.auth = "none"
     \/ p.auth = "bearer" /\ token = [realm |-> p.realm, scope |-> k]

\* handleDockerRegistry passes the request on; buildModifyResponse follows a
\* redirect itself, with the token if it stays on the host and on HTTPS.  Storage
\* on another host has its own credentials in the location.
Blob(k, token) ==
  LET p == policy[RegistryOf[k]]
      kept == IF p.blobs = "downgrade" THEN None ELSE token
  IN IF /\ Served(k, token)
        /\ p.blobs \in {"direct", "otherHost"} \/ Served(k, kept)
     THEN "200" ELSE "401"

Proxy(r) ==
  /\ req[r].pc = "blob"
  /\ Do(r, Idle(Blob(req[r].key, req[r].token)))

\* A call fails or times out: 502 from detection and from the ReverseProxy,
\* 401 if there is no token.
CallFails(r) ==
  LET q == req[r]
  IN /\ faults < MaxFaults
     /\ faults' = faults + 1
     /\ q.pc \in {"detect", "blob"} \/ (q.pc = "token" /\ q.info.auth = "bearer")
     /\ req' = [req EXCEPT ![r] = Idle(IF q.pc = "token" THEN "401" ELSE "502")]
     /\ UNCHANGED <<policy, version, cache, clean>>

-----------------------------------------------------------------------------
(***************************************************************************)
(* Time, the cleanup, and the registries.                                  *)
(***************************************************************************)

\* Mutation: entries stay until they are a whole period old.
ExpiredForLong(e) == e.left < -CleanupEvery

\* now.After(expiresAt), which is not the opposite of Before.
Expired(e) == e.left < 0

\* cleanupExpiredCacheEntries, when its ticker fires.
Cleanup ==
  /\ clean = 0
  /\ clean' = CleanupEvery
  /\ cache' = [k \in Keys |-> IF cache[k] # None /\ Expired(cache[k]) THEN None ELSE cache[k]]
  /\ UNCHANGED <<policy, version, req, faults>>

\* Time does not pass a cleanup that is due, nor the timeout of a detection
\* that has been answered.
Tick ==
  /\ clean > 0
  /\ \A r \in Requests : req[r].pc = "store" => req[r].age < MaxLatency
  /\ clean' = clean - 1
  /\ cache' = [k \in Keys |-> IF cache[k] = None THEN None
                              ELSE [cache[k] EXCEPT !.left = @ - 1, !.age = @ + 1]]
  /\ req' = [r \in Requests |-> IF req[r].pc = "store" THEN [req[r] EXCEPT !.age = @ + 1]
                                ELSE req[r]]
  /\ UNCHANGED <<policy, version, faults>>

ChangePolicy(g) ==
  /\ version[g] < MaxChanges
  /\ version' = [version EXCEPT ![g] = @ + 1]
  /\ policy' \in {[policy EXCEPT ![g] = p] : p \in Policies \ {policy[g]}}
  /\ UNCHANGED <<cache, clean, req, faults>>

Handle(r) == Lookup(r) \/ Detect(r) \/ Store(r) \/ GetToken(r) \/ Proxy(r)

Next ==
  \/ \E r \in Requests : Arrive(r) \/ Handle(r) \/ CallFails(r)
  \/ \E g \in Registries : ChangePolicy(g)
  \/ Cleanup \/ Tick

\* Goroutines are scheduled, calls come to an end, the ticker fires and time
\* passes; nothing makes requests come, calls fail or policies change.
Fairness ==
  /\ \A r \in Requests : WF_vars(Handle(r))
  /\ WF_vars(Cleanup)
  /\ WF_vars(Tick)

Spec == Init /\ [][Next]_vars /\ Fairness

-----------------------------------------------------------------------------
(***************************************************************************)
(* Properties.                                                             *)
(***************************************************************************)

\* Every variable has its type.  In particular what is cached is always a way to
\* authenticate that the proxy knows: a failed detection is not remembered
\* (the error returns of detectRegistryAuth).
TypeOK ==
  /\ policy \in [Registries -> Policies]
  /\ version \in [Registries -> 0..MaxChanges]
  /\ cache \in [Keys -> Entry \cup {None}]
  /\ clean \in 0..CleanupEvery
  /\ req \in [Requests -> Request]
  /\ faults \in 0..MaxFaults

\* No entry outlives its expiry by more than the period of the cleanup, although
\* an entry that expires just as the cleanup runs is kept (Before and After).
CacheIsCleaned ==
  \A k \in Keys : cache[k] # None => cache[k].left >= -CleanupEvery

\* What a request goes by was the registry's answer less than registryCacheTTL
\* and the time of one call ago, even if a slow detection stored what it had
\* learnt after a faster one (getOrDetectRegistry).
InfoIsRecent ==
  \A r \in Requests : req[r].info # None => req[r].age < TTL + MaxLatency

\* A registry from which the proxy can fetch.
Supported(p) ==
  /\ p.auth = "none" \/ (p.auth = "bearer" /\ p.realm # None)
  /\ p.auth = "bearer" => p.blobs # "downgrade"

\* A request is refused only if one of its calls failed, the registry is not one
\* the proxy supports, or the registry changed since it was asked how to
\* authenticate; never by what other requests put into the cache.
RefusedForAReason == [][\A r \in Requests :
  LET q == req[r]
      g == RegistryOf[q.key]
  IN q.pc # "idle" /\ req'[r].answer \in {"401", "502"} =>
       \/ faults' # faults
       \/ ~Supported(policy[g])
       \/ q.info # None /\ q.info.version # version[g]]_vars

\* A request to the registry is answered otherwise than with the layer.
Refuses(g) ==
  \E r \in Requests : /\ req[r].pc # "idle" /\ RegistryOf[req[r].key] = g
                      /\ req'[r].answer \in {"401", "502"}

\* Once a registry no longer changes and is one the proxy supports, the proxy
\* comes to serve every request for it, however the cache was filled.
Recovers ==
  \A g \in Registries : <>[]Supported(policy[g]) => <>[][~Refuses(g)]_vars
=============================================================================
