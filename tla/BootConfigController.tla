------------------------ MODULE BootConfigController ------------------------
(***************************************************************************)
(* The two leaf reconcilers of the operator: HTTPBootConfigReconciler and  *)
(* IPXEBootConfigReconciler (internal/controller).  Each checks that the   *)
(* Secret its object refers to exists and holds ignition data, and reports *)
(* the outcome in status.state.                                            *)
(*                                                                         *)
(* Modelled with them, from how they use it: the informer caches they read *)
(* from (module Informer), the event handlers SetupWithManager registers,  *)
(* and the deduplicating, rate limited work queue with one worker for each *)
(* controller.  Users and other controllers edit configs and secrets at    *)
(* any time; API calls may fail and the operator may restart.              *)
(***************************************************************************)
EXTENDS Informer, FiniteSets

CONSTANTS Configs,    \* the names of boot configs, of either kind
          KindOf,     \* the kind of each of them
          Secrets,    \* the names of ignition secrets
          NoRef,      \* spec.ignitionSecretRef is nil
          Payloads,   \* all of a config the reconcilers neither read nor write
          MaxEdits,   \* bound on the edits of users and other controllers
          MaxFaults   \* bound on failed API calls, broken watches, restarts

Kinds == {"HTTP", "IPXE"}

ASSUME ConfigsAssumption == KindOf \in [Configs -> Kinds]
\* The controllers that have anything to do.
Controllers == {KindOf[c] : c \in Configs}

ASSUME NoRefAssumption == NoRef \notin Secrets
ASSUME BoundsAssumption == MaxEdits \in Nat /\ MaxFaults \in Nat

VARIABLES cfg,     \* the boot configs, as Informer histories
          sec,     \* the secrets, as Informer histories
          cfgEv,   \* events of a config its controller has not yet handled
          secEv,   \* events of a secret a controller has not yet handled
          queue,   \* configs in the work queue of their controller
          retry,   \* configs waiting for their rate limited requeue
          run,     \* the reconciliation of a config under way
          edits,   \* edits so far
          faults   \* faults so far

apiVars == <<cfg, sec>>
ctrlVars == <<cfgEv, secEv, queue, retry, run>>
vars == <<cfg, sec, cfgEv, secEv, queue, retry, run, edits, faults>>

-----------------------------------------------------------------------------
(***************************************************************************)
(* Objects.                                                                *)
(***************************************************************************)
States == {"", "Ready", "Error"}
Verdicts == {"Ready", "Error"}
Refs == Secrets \cup {NoRef}

ConfigVal == [exists: BOOLEAN, deleting: BOOLEAN, ref: Refs,
              payload: Payloads, state: States]

\* A secret is missing, lacks the ignition key, or has it.
SecretVal == {"absent", "noKey", "ignition"}

Live(v) == v.exists /\ ~v.deleting

\* No object under that name.
Removed(v) == [v EXCEPT !.exists = FALSE, !.deleting = FALSE, !.ref = NoRef, !.state = ""]

\* Mutation: a missing secret is reported as the state Pending, which the API
\* type has and no reader of it expects.
EnsuredStatePending(r, S) ==
  IF r = NoRef \/ S[r] = "ignition" THEN "Ready" ELSE "Pending"

\* ensureIgnition on a config that refers to r when the cached secrets are S.
EnsuredState(r, S) ==
  IF r = NoRef \/ S[r] = "ignition" THEN "Ready" ELSE "Error"

CachedSecrets == [s \in Secrets |-> Cached(sec[s])]
StoredSecrets == [s \in Secrets |-> Stored(sec[s])]

-----------------------------------------------------------------------------
(***************************************************************************)
(* The state right after the caches synced: every existing object has been *)
(* listed and its create event is on its way to the handlers.              *)
(***************************************************************************)
RunVal == [pc: {"idle", "ensure", "patch"},
           ref: Refs,         \* the secret reference and
           base: States,      \* the state that Reconcile read
           state: States]     \* the state that ensureIgnition found

IdleRun == [pc |-> "idle", ref |-> NoRef, base |-> "", state |-> ""]
Running(c) == run[c].pc # "idle"

ConfigsListed == [c \in Configs |-> IF Stored(cfg[c]).exists THEN 1 ELSE 0]
SecretsListed ==
  [k \in Controllers |-> [s \in Secrets |-> IF Stored(sec[s]) = "absent" THEN 0 ELSE 1]]
NothingRunning == [c \in Configs |-> IdleRun]

Init ==
  /\ cfg \in [Configs -> {<<v>> : v \in {u \in ConfigVal : u.exists \/ u = Removed(u)}}]
  /\ sec \in [Secrets -> {<<v>> : v \in SecretVal}]
  /\ cfgEv = ConfigsListed
  /\ secEv = SecretsListed
  /\ queue = {}
  /\ retry = {}
  /\ run = NothingRunning
  /\ edits = 0
  /\ faults = 0

-----------------------------------------------------------------------------
(***************************************************************************)
(* Users and other controllers.                                            *)
(***************************************************************************)
Edit == edits < MaxEdits /\ edits' = edits + 1 /\ UNCHANGED faults

SetConfig(c, v) ==
  /\ v # Stored(cfg[c])
  /\ cfg' = [cfg EXCEPT ![c] = Write(@, v)]
  /\ UNCHANGED sec

\* A create request carries no status.
CreateConfig(c, r, p) ==
  /\ ~Stored(cfg[c]).exists
  /\ SetConfig(c, [exists |-> TRUE, deleting |-> FALSE, ref |-> r,
                   payload |-> p, state |-> ""])

UpdateConfig(c, r, p) ==
  /\ Stored(cfg[c]).exists
  /\ SetConfig(c, [Stored(cfg[c]) EXCEPT !.ref = r, !.payload = p])

\* Deletion that waits for a finalizer or for foreground deletion.
MarkConfigDeleted(c) ==
  /\ Stored(cfg[c]).exists
  /\ SetConfig(c, [Stored(cfg[c]) EXCEPT !.deleting = TRUE])

RemoveConfig(c) ==
  /\ Stored(cfg[c]).exists
  /\ SetConfig(c, Removed(Stored(cfg[c])))

SetSecret(s, v) ==
  /\ v # Stored(sec[s])
  /\ sec' = [sec EXCEPT ![s] = Write(@, v)]
  /\ UNCHANGED cfg

EditObjects ==
  /\ Edit
  /\ \/ \E c \in Configs :
          \/ \E r \in Refs, p \in Payloads : CreateConfig(c, r, p) \/ UpdateConfig(c, r, p)
          \/ MarkConfigDeleted(c)
          \/ RemoveConfig(c)
     \/ \E s \in Secrets, v \in SecretVal : SetSecret(s, v)
  /\ UNCHANGED ctrlVars

-----------------------------------------------------------------------------
(***************************************************************************)
(* Informers and event handlers.  An informer first updates its cache and  *)
(* then hands the event to the handler of each controller, which runs on   *)
(* its own: the handler of a secret lists the configs only then.           *)
(***************************************************************************)
NotifySecret(s) == [k \in Controllers |-> [secEv[k] EXCEPT ![s] = @ + 1]]

DeliverConfig(c) ==
  /\ ~InSync(cfg[c])
  /\ cfg' = [cfg EXCEPT ![c] = Advance(@)]
  /\ cfgEv' = [cfgEv EXCEPT ![c] = @ + 1]
  /\ UNCHANGED <<sec, secEv, queue, retry, run, edits, faults>>

DeliverSecret(s) ==
  /\ ~InSync(sec[s])
  /\ sec' = [sec EXCEPT ![s] = Advance(@)]
  /\ secEv' = NotifySecret(s)
  /\ UNCHANGED <<cfg, cfgEv, queue, retry, run, edits, faults>>

\* Mutation: configs that are Ready are not looked at again.
enqueueReferencingUnready(k, s) ==
  {c \in Configs : /\ KindOf[c] = k
                   /\ Cached(cfg[c]).exists
                   /\ Cached(cfg[c]).ref = s
                   /\ Cached(cfg[c]).state # "Ready"}

\* enqueue...BootConfigReferencingIgnitionSecret: the cached configs of the
\* controller's kind that refer to the secret.
enqueueReferencing(k, s) ==
  {c \in Configs : /\ KindOf[c] = k
                   /\ Cached(cfg[c]).exists
                   /\ Cached(cfg[c]).ref = s}

HandleConfigEvent(c) ==
  /\ cfgEv[c] > 0
  /\ cfgEv' = [cfgEv EXCEPT ![c] = @ - 1]
  /\ queue' = queue \cup {c}
  /\ UNCHANGED <<cfg, sec, secEv, retry, run, edits, faults>>

HandleSecretEvent(k, s) ==
  /\ secEv[k][s] > 0
  /\ secEv' = [secEv EXCEPT ![k][s] = @ - 1]
  /\ queue' = queue \cup enqueueReferencing(k, s)
  /\ UNCHANGED <<cfg, sec, cfgEv, retry, run, edits, faults>>

RetryDue(c) ==
  /\ c \in retry
  /\ retry' = retry \ {c}
  /\ queue' = queue \cup {c}
  /\ UNCHANGED <<cfg, sec, cfgEv, secEv, run, edits, faults>>

-----------------------------------------------------------------------------
(***************************************************************************)
(* A reconciliation: Reconcile reads the config, ensureIgnition reads the  *)
(* secret, patchStatus writes the status; other steps come between.        *)
(***************************************************************************)
WorkerFree(k) == \A c \in Configs : KindOf[c] = k => ~Running(c)

\* A config that is gone, or being deleted, needs no work (delete is empty).
Reconcile(c) ==
  /\ c \in queue
  /\ WorkerFree(KindOf[c])
  /\ queue' = queue \ {c}
  /\ run' = IF Live(Cached(cfg[c]))
              THEN [run EXCEPT ![c] = [pc |-> "ensure", ref |-> Cached(cfg[c]).ref,
                                       base |-> Cached(cfg[c]).state, state |-> ""]]
              ELSE run
  /\ UNCHANGED <<cfg, sec, cfgEv, secEv, retry, edits, faults>>

ensureIgnition(c) ==
  /\ run[c].pc = "ensure"
  /\ run' = [run EXCEPT ![c].pc = "patch",
                         ![c].state = EnsuredState(run[c].ref, CachedSecrets)]
  /\ UNCHANGED <<cfg, sec, cfgEv, secEv, queue, retry, edits, faults>>

\* Mutations: an error is logged and not returned; every request comes back.
RequeueNever(c, failed) == retry' = retry
RequeueAlways(c, failed) == retry' = retry \cup {c}

Requeue(c, failed) == retry' = IF failed THEN retry \cup {c} ELSE retry

Finish(c) == run' = [run EXCEPT ![c] = IdleRun]

\* Mutation: an update of the object that was read, not a patch.
PatchedAsRead(c) ==
  [Stored(cfg[c]) EXCEPT !.state = run[c].state, !.ref = run[c].ref]

\* The object after the merge patch from base: the patch holds status.state
\* only if the reconciliation changed it, and carries no resource version.
Patched(c) ==
  [Stored(cfg[c]) EXCEPT !.state = IF run[c].state = run[c].base
                                     THEN @ ELSE run[c].state]

\* The patch request.  It fails if the object is gone; it may also fail, before
\* or after it took effect, because of the API server or the connection.
\* ignitionErr says that the reconciliation returns an error whatever happens.
PatchRequest(c, ignitionErr) ==
  \/ /\ Stored(cfg[c]).exists
     /\ cfg' = [cfg EXCEPT ![c] = Write(@, Patched(c))]
     /\ Requeue(c, ignitionErr)
     /\ UNCHANGED faults
  \/ /\ ~Stored(cfg[c]).exists
     /\ Requeue(c, TRUE)
     /\ UNCHANGED <<cfg, faults>>
  \/ /\ faults < MaxFaults
     /\ faults' = faults + 1
     /\ \/ cfg' = cfg
        \/ Stored(cfg[c]).exists /\ cfg' = [cfg EXCEPT ![c] = Write(@, Patched(c))]
     /\ Requeue(c, TRUE)

\* Mutation: the HTTP reconciler returns the ignition error, like the other one.
HTTPPatchStatusThenError(c) ==
  /\ KindOf[c] = "HTTP"
  /\ run[c].pc = "patch"
  /\ PatchRequest(c, run[c].state = "Error")
  /\ Finish(c)
  /\ UNCHANGED <<sec, cfgEv, secEv, queue, edits>>

\* The HTTP reconciler sends no patch when the state it read is the one it
\* found, and does not report an ignition error to the work queue.
HTTPPatchStatus(c) ==
  /\ KindOf[c] = "HTTP"
  /\ run[c].pc = "patch"
  /\ IF run[c].base = run[c].state
       THEN UNCHANGED <<cfg, retry, faults>>
       ELSE PatchRequest(c, FALSE)
  /\ Finish(c)
  /\ UNCHANGED <<sec, cfgEv, secEv, queue, edits>>

\* The IPXE reconciler always sends the patch, and returns an ignition error.
IPXEPatchStatus(c) ==
  /\ KindOf[c] = "IPXE"
  /\ run[c].pc = "patch"
  /\ PatchRequest(c, run[c].state = "Error")
  /\ Finish(c)
  /\ UNCHANGED <<sec, cfgEv, secEv, queue, edits>>

ReconcileStep(c) ==
  \/ Reconcile(c)
  \/ ensureIgnition(c)
  \/ HTTPPatchStatus(c)
  \/ IPXEPatchStatus(c)

-----------------------------------------------------------------------------
(***************************************************************************)
(* Faults of the surroundings: a broken watch, and a restart of the        *)
(* operator (or a change of leader), which loses all it had in memory.     *)
(***************************************************************************)
Fault == faults < MaxFaults /\ faults' = faults + 1 /\ UNCHANGED edits

RelistConfig(c) ==
  /\ Fault
  /\ ~InSync(cfg[c])
  /\ cfg' = [cfg EXCEPT ![c] = Relisted(@)]
  /\ cfgEv' = [cfgEv EXCEPT ![c] = @ + 1]
  /\ UNCHANGED <<sec, secEv, queue, retry, run>>

RelistSecret(s) ==
  /\ Fault
  /\ ~InSync(sec[s])
  /\ sec' = [sec EXCEPT ![s] = Relisted(@)]
  /\ secEv' = NotifySecret(s)
  /\ UNCHANGED <<cfg, cfgEv, queue, retry, run>>

Restart ==
  /\ Fault
  /\ cfg' = [c \in Configs |-> Relisted(cfg[c])]
  /\ sec' = [s \in Secrets |-> Relisted(sec[s])]
  /\ cfgEv' = ConfigsListed
  /\ secEv' = SecretsListed
  /\ queue' = {}
  /\ retry' = {}
  /\ run' = NothingRunning

-----------------------------------------------------------------------------
\* What the operator and its informers do by themselves.
Step ==
  \/ \E c \in Configs : DeliverConfig(c) \/ HandleConfigEvent(c) \/ RetryDue(c) \/ ReconcileStep(c)
  \/ \E s \in Secrets : DeliverSecret(s)
  \/ \E k \in Controllers, s \in Secrets : HandleSecretEvent(k, s)

FaultStep ==
  \/ \E c \in Configs : RelistConfig(c)
  \/ \E s \in Secrets : RelistSecret(s)
  \/ Restart

Next == EditObjects \/ Step \/ FaultStep

Spec == Init /\ [][Next]_vars

\* Watches deliver, handlers run, timers fire; and the work queue, being first
\* in first out, reaches every config in it.  Edits and faults are owed nothing.
Fairness ==
  /\ \A c \in Configs : /\ WF_vars(DeliverConfig(c))
                        /\ WF_vars(HandleConfigEvent(c))
                        /\ WF_vars(RetryDue(c))
                        /\ SF_vars(Reconcile(c))
                        /\ WF_vars(ensureIgnition(c))
                        /\ WF_vars(HTTPPatchStatus(c) \/ IPXEPatchStatus(c))
  /\ \A s \in Secrets : /\ WF_vars(DeliverSecret(s))
                        /\ \A k \in Controllers : WF_vars(HandleSecretEvent(k, s))

FairSpec == Spec /\ Fairness

\* What the API server stores, which is all that others see.
Status == INSTANCE BootConfigStatus
            WITH object <- [c \in Configs |-> Stored(cfg[c])], content <- StoredSecrets

-----------------------------------------------------------------------------
(***************************************************************************)
(* Properties.                                                             *)
(***************************************************************************)
\* Type correctness of the state of both reconcilers: among others, they
\* write no state but Ready and Error, and requeue only configs.
TypeOK ==
  /\ cfg \in [Configs -> Hist(ConfigVal)]
  /\ sec \in [Secrets -> Hist(SecretVal)]
  /\ cfgEv \in [Configs -> Nat]
  /\ secEv \in [Controllers -> [Secrets -> Nat]]
  /\ queue \subseteq Configs
  /\ retry \subseteq Configs
  /\ run \in [Configs -> RunVal]
  /\ \A c \in Configs : run[c].pc = "patch" => run[c].state \in Verdicts
  /\ edits \in 0..MaxEdits
  /\ faults \in 0..MaxFaults

\* The state the object should report.
Correct(c) ==
  Stored(cfg[c]).state = EnsuredState(Stored(cfg[c]).ref, StoredSecrets)

\* The secret of c has no event that the controller of c does not know of.
SecretQuiet(c, r) == r # NoRef => InSync(sec[r]) /\ secEv[KindOf[c]][r] = 0

\* Nothing is under way that would make the controller look at c again.
Settled(c) ==
  /\ InSync(cfg[c])
  /\ cfgEv[c] = 0
  /\ c \notin queue \cup retry
  /\ ~Running(c)
  /\ SecretQuiet(c, Stored(cfg[c]).ref)

\* No wake-up is lost.  Whatever the order of edits of the config and of its
\* secret, of watch events, handlers, failed patches and restarts, a config
\* its controller has no reason to look at again reports the state its
\* secret deserves: Ready if it refers to none or to one with ignition data,
\* else Error (reconcile, patchStatus and the secret watch together).
SettledIsCorrect ==
  \A c \in Configs : Settled(c) /\ Live(Stored(cfg[c])) => Correct(c)

\* The strengthening that makes SettledIsCorrect inductive.  Unless the
\* controller of c is going to look at c again, a reconciliation under way
\* works on the cached config; its verdict is right for the cached secret; and
\* so is the state of a config at rest, as far as the cache knows.
WillLookAgain(c) == cfgEv[c] > 0 \/ c \in queue

SecretEventFor(c, r) == r # NoRef /\ secEv[KindOf[c]][r] > 0

RunIsFresh(c) ==
  Running(c) /\ ~WillLookAgain(c) =>
    /\ Live(Cached(cfg[c]))
    /\ run[c].ref = Cached(cfg[c]).ref
    /\ run[c].base = Cached(cfg[c]).state
    /\ run[c].pc = "patch" /\ ~SecretEventFor(c, run[c].ref) =>
         run[c].state = EnsuredState(run[c].ref, CachedSecrets)

RestIsFresh(c) ==
  /\ ~Running(c)
  /\ ~WillLookAgain(c)
  /\ c \notin retry
  /\ InSync(cfg[c])
  /\ Live(Cached(cfg[c]))
  /\ ~SecretEventFor(c, Cached(cfg[c]).ref)
  => Cached(cfg[c]).state = EnsuredState(Cached(cfg[c]).ref, CachedSecrets)

\* Work in progress is never based on stale reads without a wake-up pending:
\* the inductive core of SettledIsCorrect, about the time between the reads of
\* Reconcile and ensureIgnition and the write of patchStatus.
WorkIsFresh == \A c \in Configs : RunIsFresh(c) /\ RestIsFresh(c)

\* The reconcilers implement BootConfigStatus: mapped to what the API server
\* stores, every step of caches, queues and workers is one of its steps or
\* none.  So a patch that was computed long ago changes nothing but the state
\* of an object that still exists (patchStatus).
ImplementsStatus == Status!Spec

\* Once users stop, every config that is not being deleted reports the right
\* state for good, including an IPXE config whose ignition error makes it
\* come back for ever, and whatever a late patch overwrote before.
Converges == Status!Promise

\* The reconcilers' own status patches do not keep them busy: in the end a
\* config is left alone, save an IPXE config whose secret has no ignition
\* data, which its reconciler retries (HTTP: reconcile returns nil).
ComesToRest ==
  \A c \in Configs :
    <>[](\/ c \notin queue \cup retry /\ ~Running(c)
         \/ KindOf[c] = "IPXE" /\ Stored(cfg[c]).state = "Error")
=============================================================================
