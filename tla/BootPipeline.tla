---------------------------- MODULE BootPipeline ----------------------------
(***************************************************************************)
(* The reconciliation pipeline.  A ServerBootConfiguration (SBC) belongs   *)
(* to metal-operator and names a server, an OS image and an ignition       *)
(* secret.  Two reconcilers of internal/controller watch it, both enabled  *)
(* by default:                                                             *)
(*                                                                         *)
(*   ServerBootConfigurationPXEReconciler   applies an IPXEBootConfig      *)
(*   ServerBootConfigurationHTTPReconciler  applies an HTTPBootConfig      *)
(*                                                                         *)
(* as a child of the same name.  The child's own reconciler sets its state *)
(* and is taken here by what it promises (module BootConfigStatus, which   *)
(* BootConfigController implements): it may write a verdict at any time,   *)
(* a stale one too, and in the end writes the right one.  The child's      *)
(* state is copied to the SBC, where both reconcilers also report an image *)
(* they cannot use.                                                        *)
(*                                                                         *)
(* A child c stands also for the work of the SBC reconciler of its kind on *)
(* the SBC OwnerOf[c]: its request in that controller's queue is c.  An    *)
(* informer puts the request into the queue as it updates its cache: the   *)
(* handlers of For and Owns read nothing but the name.                     *)
(***************************************************************************)
EXTENDS Informer, FiniteSets

CONSTANTS Configs,   \* the children
          KindOf,    \* the kind of each of them
          SBCs,      \* the names of ServerBootConfigurations
          OwnerOf,   \* the SBC of the same name as the child
          Secrets,   \* the names of ignition secrets
          NoRef,     \* spec.ignitionSecretRef is nil
          Images,    \* OS images
          Outcome,   \* what a reconciler of a kind makes of an image
          Nets,      \* the network identifiers of a server, over time
          MaxEdits,  \* bound on the edits of users and other controllers
          MaxFaults, \* bound on failed calls, stale verdicts, restarts
          MaxLag     \* bound on the watch events of an object under way

Kinds == {"HTTP", "IPXE"}
Refs == Secrets \cup {NoRef}
States == {"", "Ready", "Error"}
Verdicts == {"Ready", "Error"}

\* An image can be used; it cannot (unparsable, registry not allowed or not
\* answering, no manifest for the architecture, no UKI layer); or it resolves
\* but lacks a kernel or an initrd layer, which only the PXE reconciler allows.
Outcomes == {"ok", "unusable", "noKernel"}

ASSUME PipelineAssumption ==
  /\ KindOf \in [Configs -> Kinds]
  /\ OwnerOf \in [Configs -> SBCs]
  /\ NoRef \notin Secrets
  /\ Outcome \in [Kinds -> [Images -> Outcomes]]
  /\ \A i \in Images : Outcome["HTTP"][i] # "noKernel"
  /\ Images # {} /\ Nets # {}
  /\ "absent" \notin Nets
  /\ MaxEdits \in Nat
  /\ MaxFaults \in Nat
  /\ MaxLag \in Nat \ {0}

\* The SBC reconcilers that are enabled.
Controllers == {KindOf[c] : c \in Configs}

VARIABLES sbc,       \* the SBCs, as Informer histories
          cfg,       \* the children, as Informer histories
          srv,       \* the server of each SBC, as an Informer history
          ignition,  \* whether a secret holds ignition data
          secEv,     \* secrets with an event a controller has not handled
          queue,     \* requests in the work queues
          retry,     \* requests waiting for their rate limited requeue
          run,       \* reconciliations under way
          edits,     \* edits so far
          faults     \* faults so far

apiVars == <<sbc, cfg, srv, ignition>>
ctrlVars == <<secEv, queue, retry, run>>
vars == <<sbc, cfg, srv, ignition, secEv, queue, retry, run, edits, faults>>

-----------------------------------------------------------------------------
(***************************************************************************)
(* Objects.                                                                *)
(***************************************************************************)
SBCVal == [exists: BOOLEAN, deleting: BOOLEAN, uid: 0..MaxEdits, image: Images,
           ref: Refs, state: States,
           iv: Kinds \cup {"none"},  \* ImageValidation=False, by its writer
           fetched: SUBSET Kinds]    \* conditions copied from the children

ServerVal == Nets \cup {"absent"}

ChildVal == [exists: BOOLEAN, uid: 0..MaxEdits, image: Images, net: Nets, ref: Refs,
             state: States,
             fetched: BOOLEAN]   \* a condition the boot server has set

\* Cache and API server are no further apart than the bound when a write is
\* made: without it, a reconciliation on an outdated cache and the garbage
\* collector could undo each other's work for any number of times.
WithinLag(h) == Len(h) <= MaxLag

Live(v) == v.exists /\ ~v.deleting

NewSBC(u, i, r) ==
  [exists |-> TRUE, deleting |-> FALSE, uid |-> u, image |-> i, ref |-> r,
   state |-> "", iv |-> "none", fetched |-> {}]

RemovedSBC(v) == [NewSBC(0, v.image, NoRef) EXCEPT !.exists = FALSE]

RemovedChild(v) ==
  [v EXCEPT !.exists = FALSE, !.uid = 0, !.ref = NoRef, !.state = "", !.fetched = FALSE]

ChildrenOf(b) == {c \in Configs : OwnerOf[c] = b}

-----------------------------------------------------------------------------
(***************************************************************************)
(* The operator starts in a cluster whose SBCs have no children yet.       *)
(***************************************************************************)
Listed == {c \in Configs : Stored(sbc[OwnerOf[c]]).exists \/ Stored(cfg[c]).exists}

IdleRun == [pc |-> "idle"]
NothingRunning == [c \in Configs |-> IdleRun]
Running(c) == run[c].pc # "idle"

Init ==
  /\ sbc \in [SBCs -> {<<v>> : v \in
                {NewSBC(0, i, r) : i \in Images, r \in Refs}
                  \cup {RemovedSBC(NewSBC(0, i, NoRef)) : i \in Images}}]
  /\ srv \in [SBCs -> {<<n>> : n \in ServerVal}]
  /\ LET none == CHOOSE v \in ChildVal : v = RemovedChild(v)
     IN  cfg = [c \in Configs |-> <<none>>]
  /\ ignition \in [Secrets -> BOOLEAN]
  /\ secEv = {}
  /\ queue = Listed
  /\ retry = {}
  /\ run = NothingRunning
  /\ edits = 0
  /\ faults = 0

-----------------------------------------------------------------------------
(***************************************************************************)
(* Users, metal-operator, the garbage collector and the boot server.       *)
(***************************************************************************)
Edit == edits < MaxEdits /\ edits' = edits + 1 /\ UNCHANGED faults

SetSBC(b, v) ==
  /\ v # Stored(sbc[b])
  /\ WithinLag(sbc[b])
  /\ sbc' = [sbc EXCEPT ![b] = Write(@, v)]
  /\ UNCHANGED <<cfg, srv, ignition, secEv>>

CreateSBC(b, i, r) ==
  /\ ~Stored(sbc[b]).exists
  /\ SetSBC(b, NewSBC(edits', i, r))

UpdateSBC(b, i, r) ==
  /\ Stored(sbc[b]).exists
  /\ SetSBC(b, [Stored(sbc[b]) EXCEPT !.image = i, !.ref = r])

MarkSBCDeleted(b) ==
  /\ Stored(sbc[b]).exists
  /\ SetSBC(b, [Stored(sbc[b]) EXCEPT !.deleting = TRUE])

RemoveSBC(b) ==
  /\ Stored(sbc[b]).exists
  /\ SetSBC(b, RemovedSBC(Stored(sbc[b])))

SetServer(b, n) ==
  /\ n # Stored(srv[b])
  /\ WithinLag(srv[b])
  /\ srv' = [srv EXCEPT ![b] = Write(@, n)]
  /\ UNCHANGED <<cfg, sbc, ignition, secEv>>

SetSecret(s) ==
  /\ ignition' = [ignition EXCEPT ![s] = ~@]
  /\ secEv' = secEv \cup (Controllers \X {s})
  /\ UNCHANGED <<cfg, sbc, srv>>

\* The boot server has served the child's data and says so in a condition.
MarkFetched(c) ==
  /\ Stored(cfg[c]).exists
  /\ ~Stored(cfg[c]).fetched
  /\ WithinLag(cfg[c])
  /\ cfg' = [cfg EXCEPT ![c] = Write(@, [Stored(@) EXCEPT !.fetched = TRUE])]
  /\ UNCHANGED <<sbc, srv, ignition, secEv>>

EditObjects ==
  /\ Edit
  /\ \/ \E b \in SBCs :
          \/ \E i \in Images, r \in Refs : CreateSBC(b, i, r) \/ UpdateSBC(b, i, r)
          \/ MarkSBCDeleted(b)
          \/ RemoveSBC(b)
          \/ \E n \in ServerVal : SetServer(b, n)
     \/ \E s \in Secrets : SetSecret(s)
     \/ \E c \in Configs : MarkFetched(c)
  /\ UNCHANGED <<queue, retry, run>>

\* The garbage collector removes a child whose controller reference names an
\* SBC, by UID, that is no more.
Orphan(c) ==
  LET b == Stored(sbc[OwnerOf[c]])
  IN  Stored(cfg[c]).exists /\ ~(b.exists /\ b.uid = Stored(cfg[c]).uid)

SetChild(c, v) ==
  /\ WithinLag(cfg[c])
  /\ cfg' = [cfg EXCEPT ![c] = Write(@, v)]
  /\ UNCHANGED <<sbc, srv, ignition, ctrlVars, edits>>

GarbageCollect(c) ==
  /\ Orphan(c)
  /\ SetChild(c, RemovedChild(Stored(cfg[c])))
  /\ UNCHANGED faults

\* The child's own reconciler reports on its ignition secret ...
EnsuredState(r) == IF r = NoRef \/ ignition[r] THEN "Ready" ELSE "Error"

Correct(c) == Stored(cfg[c]).state = EnsuredState(Stored(cfg[c]).ref)

ReportState(c) ==
  /\ Stored(cfg[c]).exists
  /\ ~Correct(c)
  /\ SetChild(c, [Stored(cfg[c]) EXCEPT !.state = EnsuredState(Stored(cfg[c]).ref)])
  /\ UNCHANGED faults

FaultHere == faults < MaxFaults /\ faults' = faults + 1

\* ... or, for a while, on what it was.
ReportStaleState(c) ==
  /\ FaultHere
  /\ Stored(cfg[c]).exists
  /\ \E v \in Verdicts : SetChild(c, [Stored(cfg[c]) EXCEPT !.state = v])

-----------------------------------------------------------------------------
(***************************************************************************)
(* Events.  The SBC reconcilers watch SBCs, the children they own and      *)
(* secrets; they do not watch servers.                                     *)
(***************************************************************************)
DeliverSBC(b) ==
  /\ ~InSync(sbc[b])
  /\ sbc' = [sbc EXCEPT ![b] = Advance(@)]
  /\ queue' = queue \cup ChildrenOf(b)
  /\ UNCHANGED <<cfg, srv, ignition, secEv, retry, run, edits, faults>>

DeliverServer(b) ==
  /\ ~InSync(srv[b])
  /\ srv' = [srv EXCEPT ![b] = Advance(@)]
  /\ UNCHANGED <<sbc, cfg, ignition, ctrlVars, edits, faults>>

\* Mutation: Owns is missing in SetupWithManager.
DeliverChildUnwatched(c) ==
  /\ ~InSync(cfg[c])
  /\ cfg' = [cfg EXCEPT ![c] = Advance(@)]
  /\ UNCHANGED <<sbc, srv, ignition, ctrlVars, edits, faults>>

DeliverChild(c) ==
  /\ ~InSync(cfg[c])
  /\ cfg' = [cfg EXCEPT ![c] = Advance(@)]
  /\ queue' = queue \cup {c}
  /\ UNCHANGED <<sbc, srv, ignition, secEv, retry, run, edits, faults>>

\* EnqueueServerBootConfigsReferencingSecret
enqueueReferencing(k, s) ==
  {c \in Configs : /\ KindOf[c] = k
                   /\ Cached(sbc[OwnerOf[c]]).exists
                   /\ Cached(sbc[OwnerOf[c]]).ref = s}

HandleSecretEvent(k, s) ==
  /\ <<k, s>> \in secEv
  /\ secEv' = secEv \ {<<k, s>>}
  /\ queue' = queue \cup enqueueReferencing(k, s)
  /\ UNCHANGED <<apiVars, retry, run, edits, faults>>

RetryDue(c) ==
  /\ c \in retry
  /\ retry' = retry \ {c}
  /\ queue' = queue \cup {c}
  /\ UNCHANGED <<apiVars, secEv, run, edits, faults>>

\* A request without a change: the informers' periodic resync.
Resync(c) ==
  /\ FaultHere
  /\ c \notin queue
  /\ queue' = queue \cup {c}
  /\ UNCHANGED <<apiVars, secEv, retry, run, edits>>

-----------------------------------------------------------------------------
(***************************************************************************)
(* A reconciliation of the SBC by the reconciler of c's kind.  It reads    *)
(* the SBC and the server, resolves the image with the registry, applies   *)
(* the child, reads the child back from the cache and patches the status   *)
(* of the SBC; other steps come between.                                   *)
(***************************************************************************)
WorkerFree(k) == \A c \in Configs : KindOf[c] = k => ~Running(c)

\* Reconcile up to the calls to the registry.  A server that is not there is
\* an error that only the work queue gets to know.
Reconcile(c) ==
  LET b == Cached(sbc[OwnerOf[c]])
      n == Cached(srv[OwnerOf[c]])
  IN  /\ c \in queue
      /\ WorkerFree(KindOf[c])
      /\ queue' = queue \ {c}
      /\ IF Live(b) /\ n # "absent"
           THEN /\ run' = [run EXCEPT ![c] = [pc |-> "image", base |-> b, net |-> n]]
                /\ UNCHANGED retry
           ELSE /\ retry' = IF Live(b) THEN retry \cup {c} ELSE retry
                /\ UNCHANGED run
      /\ UNCHANGED <<apiVars, secEv, edits, faults>>

\* Mutation: an error is logged and not returned.
FinishWithoutError(c, failed) ==
  /\ run' = [run EXCEPT ![c] = IdleRun]
  /\ retry' = retry

Finish(c, failed) ==
  /\ run' = [run EXCEPT ![c] = IdleRun]
  /\ retry' = IF failed THEN retry \cup {c} ELSE retry

\* The SBC after the merge patch from base to new.  The list of conditions is
\* replaced as a whole if the reconciler changed any of it.
MergePatch(stored, base, new) ==
  LET conditions == <<new.iv, new.fetched>> # <<base.iv, base.fetched>>
  IN  [stored EXCEPT !.state = IF new.state = base.state THEN @ ELSE new.state,
                     !.iv = IF conditions THEN new.iv ELSE @,
                     !.fetched = IF conditions THEN new.fetched ELSE @]

\* The status patch of b from base to new; an error whatever happens if err.
PatchSBC(c, b, base, new, err) ==
  \/ /\ Stored(sbc[b]).exists
     /\ WithinLag(sbc[b])
     /\ sbc' = [sbc EXCEPT ![b] = Write(@, MergePatch(Stored(@), base, new))]
     /\ Finish(c, err)
     /\ UNCHANGED faults
  \/ /\ ~Stored(sbc[b]).exists
     /\ Finish(c, TRUE)
     /\ UNCHANGED <<sbc, faults>>
  \/ /\ FaultHere
     /\ Finish(c, TRUE)
     /\ UNCHANGED sbc

\* Mutations: the state is one metal-operator does not have; or only the
\* condition is set.
PatchServerBootConfigFailed(c) ==
  LET b == OwnerOf[c]
      cur == Cached(sbc[b])
  IN  IF cur.exists
        THEN PatchSBC(c, b, cur, [cur EXCEPT !.state = "Failed", !.iv = KindOf[c]], TRUE)
        ELSE Finish(c, TRUE) /\ UNCHANGED <<sbc, faults>>

PatchServerBootConfigCondition(c) ==
  LET b == OwnerOf[c]
      cur == Cached(sbc[b])
  IN  IF cur.exists
        THEN PatchSBC(c, b, cur, [cur EXCEPT !.iv = KindOf[c]], TRUE)
        ELSE Finish(c, TRUE) /\ UNCHANGED <<sbc, faults>>


\* PatchServerBootConfigWithError: on the SBC as the cache has it by now.
PatchServerBootConfigWithError(c) ==
  LET b == OwnerOf[c]
      cur == Cached(sbc[b])
  IN  IF cur.exists
        THEN PatchSBC(c, b, cur, [cur EXCEPT !.state = "Error", !.iv = KindOf[c]], TRUE)
        ELSE Finish(c, TRUE) /\ UNCHANGED <<sbc, faults>>

\* getImageDetailsFromConfig and constructUKIURL fail.
ImageUnusable(c) ==
  /\ run[c].pc = "image"
  /\ Outcome[KindOf[c]][run[c].base.image] = "unusable"
  /\ PatchServerBootConfigWithError(c)
  /\ UNCHANGED <<cfg, srv, ignition, secEv, queue, edits>>

\* They fail for a reason that will pass: the registry does not answer.
RegistryFails(c) ==
  /\ run[c].pc = "image"
  /\ FaultHere
  /\ LET b == OwnerOf[c]
         cur == Cached(sbc[b])
     IN  IF cur.exists /\ Stored(sbc[b]).exists
           THEN /\ WithinLag(sbc[b])
                /\ sbc' = [sbc EXCEPT ![b] = Write(@, MergePatch(Stored(@), cur,
                             [cur EXCEPT !.state = "Error", !.iv = KindOf[c]]))]
           ELSE UNCHANGED sbc
  /\ Finish(c, TRUE)
  /\ UNCHANGED <<cfg, srv, ignition, secEv, queue, edits>>

\* Mutation: the controller reference of an existing child is left alone.
AppliedKeepingOwner(c) ==
  [Stored(cfg[c]) EXCEPT
     !.exists = TRUE,
     !.image = run[c].base.image,
     !.net = run[c].net,
     !.ref = run[c].base.ref]

\* The child after the server-side apply with forced ownership: the spec and
\* the controller reference are the SBC's, the status stays as it is.
Applied(c) ==
  [Stored(cfg[c]) EXCEPT
     !.exists = TRUE,
     !.uid = run[c].base.uid,
     !.image = run[c].base.image,
     !.net = run[c].net,
     !.ref = run[c].base.ref]

\* The CRD rejects an IPXEBootConfig without a kernel and an initrd URL; the
\* error goes to the work queue and not to the SBC.
ApplyChild(c) ==
  /\ run[c].pc = "image"
  /\ Outcome[KindOf[c]][run[c].base.image] # "unusable"
  /\ \/ /\ Outcome[KindOf[c]][run[c].base.image] = "ok"
        /\ WithinLag(cfg[c])
        /\ cfg' = [cfg EXCEPT ![c] = Write(@, Applied(c))]
        /\ run' = [run EXCEPT ![c].pc = "status"]
        /\ UNCHANGED <<retry, faults>>
     \/ /\ Outcome[KindOf[c]][run[c].base.image] = "noKernel"
        /\ Finish(c, TRUE)
        /\ UNCHANGED <<cfg, faults>>
     \/ /\ FaultHere
        /\ Finish(c, TRUE)
        /\ UNCHANGED cfg
  /\ UNCHANGED <<sbc, srv, ignition, secEv, queue, edits>>

\* Mutation: the child's conditions are not copied.
FromChildStateOnly(cur, child, k) ==
  [cur EXCEPT
     !.state = IF child.state = "" THEN @ ELSE child.state,
     !.iv = IF child.state = "Ready" THEN "none" ELSE @]

\* The status copied from the child: Ready also drops ImageValidation.
FromChildState(cur, child, k) ==
  [cur EXCEPT
     !.state = IF child.state = "" THEN @ ELSE child.state,
     !.iv = IF child.state = "Ready" THEN "none" ELSE @,
     !.fetched = IF child.fetched THEN @ \cup {k} ELSE @]

\* Get the child, which the cache may not have yet, and patch from the SBC that
\* Reconcile read (PXE) or that the cache has now (HTTP).
PatchFromChild(c, base) ==
  LET child == Cached(cfg[c])
  IN  IF child.exists /\ base.exists
        THEN PatchSBC(c, OwnerOf[c], base, FromChildState(base, child, KindOf[c]), FALSE)
        ELSE Finish(c, TRUE) /\ UNCHANGED <<sbc, faults>>

patchConfigStateFromIPXEState(c) ==
  /\ KindOf[c] = "IPXE"
  /\ run[c].pc = "status"
  /\ PatchFromChild(c, run[c].base)
  /\ UNCHANGED <<cfg, srv, ignition, secEv, queue, edits>>

patchConfigStateFromHTTPState(c) ==
  /\ KindOf[c] = "HTTP"
  /\ run[c].pc = "status"
  /\ PatchFromChild(c, Cached(sbc[OwnerOf[c]]))
  /\ UNCHANGED <<cfg, srv, ignition, secEv, queue, edits>>

ReconcileStep(c) ==
  \/ Reconcile(c)
  \/ ImageUnusable(c)
  \/ RegistryFails(c)
  \/ ApplyChild(c)
  \/ patchConfigStateFromIPXEState(c)
  \/ patchConfigStateFromHTTPState(c)

-----------------------------------------------------------------------------
\* The operator restarts: its memory is lost, its caches list everything anew.
Restart ==
  /\ FaultHere
  /\ sbc' = [b \in SBCs |-> Relisted(sbc[b])]
  /\ srv' = [b \in SBCs |-> Relisted(srv[b])]
  /\ cfg' = [c \in Configs |-> Relisted(cfg[c])]
  /\ secEv' = {}
  /\ queue' = Listed
  /\ retry' = {}
  /\ run' = NothingRunning
  /\ UNCHANGED <<ignition, edits>>

Next ==
  \/ EditObjects
  \/ Restart
  \/ \E c \in Configs : \/ DeliverChild(c) \/ RetryDue(c) \/ Resync(c) \/ ReconcileStep(c)
                        \/ GarbageCollect(c) \/ ReportState(c) \/ ReportStaleState(c)
  \/ \E b \in SBCs : DeliverSBC(b) \/ DeliverServer(b)
  \/ \E k \in Controllers, s \in Secrets : HandleSecretEvent(k, s)

Spec == Init /\ [][Next]_vars

\* Watches, handlers, timers, registry calls, the garbage collector and the
\* child's own reconciler get their turn, and the work queues, being first in
\* first out, reach every request.  Edits and faults are owed nothing.
Fairness ==
  /\ \A c \in Configs : /\ WF_vars(DeliverChild(c))
                        /\ WF_vars(RetryDue(c))
                        /\ SF_vars(Reconcile(c))
                        /\ WF_vars(ReconcileStep(c) /\ Running(c))
                        /\ WF_vars(GarbageCollect(c))
                        /\ WF_vars(ReportState(c))
  /\ \A b \in SBCs : WF_vars(DeliverSBC(b)) /\ WF_vars(DeliverServer(b))
  /\ \A k \in Controllers, s \in Secrets : WF_vars(HandleSecretEvent(k, s))

FairSpec == Spec /\ Fairness

-----------------------------------------------------------------------------
(***************************************************************************)
(* Properties.                                                             *)
(***************************************************************************)
RunVal == [pc: {"idle"}] \cup [pc: {"image", "status"}, base: SBCVal, net: Nets]

\* Type correctness of the pipeline: what the reconcilers write into SBCs and
\* children are such objects, and a reconciliation works on an SBC it read.
TypeOK ==
  /\ sbc \in [SBCs -> Hist(SBCVal)]
  /\ cfg \in [Configs -> Hist(ChildVal)]
  /\ srv \in [SBCs -> Hist(ServerVal)]
  /\ ignition \in [Secrets -> BOOLEAN]
  /\ secEv \subseteq Controllers \X Secrets
  /\ queue \subseteq Configs
  /\ retry \subseteq Configs
  /\ run \in [Configs -> RunVal]
  /\ edits \in 0..MaxEdits
  /\ faults \in 0..MaxFaults

\* No SBC reconciler has a reason to look at b again.
SBCSettled(b) ==
  /\ InSync(sbc[b])
  /\ \A c \in ChildrenOf(b) :
       InSync(cfg[c]) /\ c \notin queue \cup retry /\ ~Running(c)

\* The child has the spec and the owner that v, an SBC, asks for.
ChildMatches(c, v) ==
  LET child == Stored(cfg[c])
  IN  child.exists /\ child.ref = v.ref /\ child.image = v.image /\ child.uid = v.uid

\* The status of v, an SBC, is the one of the child.
StatusMatches(c, v) ==
  LET child == Stored(cfg[c])
  IN  /\ child.state # "" => v.state = child.state
      /\ child.state = "Ready" => v.iv = "none"
      /\ child.fetched => KindOf[c] \in v.fetched

\* No update is lost on the way to the child and back: an SBC that is left
\* alone has children with its image, ignition secret and UID, and shows
\* their state and conditions, although its status is patched from a base
\* that may be stale (both reconcile functions and their watches).
SBCSettledIsCorrect ==
  \A b \in SBCs :
    SBCSettled(b) /\ Live(Stored(sbc[b])) =>
      \A c \in ChildrenOf(b) :
        ChildMatches(c, Stored(sbc[b])) /\ StatusMatches(c, Stored(sbc[b]))

\* An SBC that reports Ready has no ImageValidation condition: both reconcilers
\* remove it "when transitioning to Ready" (patchConfigStateFromIPXEState,
\* patchConfigStateFromHTTPState).
ReadyHasNoImageValidation ==
  \A b \in SBCs : Stored(sbc[b]).state = "Ready" => Stored(sbc[b]).iv = "none"

\* The reconcilers of b that cannot use the image.
Rejecting(b, i) == {k \in {KindOf[c] : c \in ChildrenOf(b)} : Outcome[k][i] = "unusable"}

\* What the SBC should come to show, seen by the reconciler of c's kind: the
\* child's state, or the message of one that cannot use the image.
RightStatus(c, v) ==
  CASE Outcome[KindOf[c]][v.image] = "ok" ->
         ChildMatches(c, v) /\ Correct(c) /\ StatusMatches(c, v)
    [] Outcome[KindOf[c]][v.image] = "unusable" ->
         v.state = "Error" /\ v.iv \in Rejecting(OwnerOf[c], v.image)
    [] OTHER -> TRUE

\* An image with the layers of one boot method only is usable to one of the
\* SBC's reconcilers and unusable to the other.
Split(b, i) == {Outcome[KindOf[c]][i] : c \in ChildrenOf(b)} = {"ok", "unusable"}

\* Once users stop, an SBC whose server exists comes to show for good whether
\* the server can boot: the child's state, or that the image is unusable.
SBCConverges ==
  \A c \in Configs :
    <>[](LET v == Stored(sbc[OwnerOf[c]])
         IN  /\ Live(v)
             /\ Stored(srv[OwnerOf[c]]) # "absent"
             /\ ~Split(OwnerOf[c], v.image)
             => RightStatus(c, v))

\* The SBC is there, and so is its server, for good.
Stays(b) == Live(Stored(sbc[b])) /\ Stored(srv[b]) # "absent"

\* With both reconcilers enabled, as they are by default, an SBC with a split
\* image reports Ready and Error in turns for ever: each reconciler's patch is
\* an event for the other one (Reconcile, PatchServerBootConfigWithError).
SplitImageFlaps ==
  \A b \in SBCs :
    <>[](Stays(b) /\ Split(b, Stored(sbc[b]).image))
      => []<>(Stored(sbc[b]).state = "Ready") /\ []<>(Stored(sbc[b]).state = "Error")


\* A child never outlives its SBC for good, even if a reconciliation that read
\* the SBC before it was deleted applies the child afterwards.
NoOrphans == \A c \in Configs : <>[]~Orphan(c)
=============================================================================
