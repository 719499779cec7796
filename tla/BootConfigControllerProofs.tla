--------------------- MODULE BootConfigControllerProofs ---------------------
(***************************************************************************)
(* For any set of configs and secrets, and any number of edits and faults: *)
(* the reconcilers of HTTPBootConfig and IPXEBootConfig lose no wake-up.   *)
(***************************************************************************)
EXTENDS BootConfigController, InformerProofs

-----------------------------------------------------------------------------
(***************************************************************************)
(* Facts about the operators.                                              *)
(***************************************************************************)
\* ensureIgnition returns Ready or Error.
LEMMA EnsuredStateType ==
  ASSUME NEW r, NEW S
  PROVE  EnsuredState(r, S) \in Verdicts
  BY DEF EnsuredState, Verdicts

\* The verdict on a config depends on its own secret only.
LEMMA EnsuredStateLocal ==
  ASSUME NEW r \in Refs, NEW S, NEW T, r # NoRef => S[r] = T[r]
  PROVE  EnsuredState(r, S) = EnsuredState(r, T)
  BY DEF EnsuredState

-----------------------------------------------------------------------------
(***************************************************************************)
(* Types.                                                                  *)
(***************************************************************************)
\* A patch request writes a state that ensureIgnition found, to the stored
\* object or not at all, and does not touch other configs (PatchRequest).
LEMMA PatchRequestType ==
  ASSUME TypeOK, NEW c \in Configs, NEW e \in BOOLEAN,
         run[c].state \in Verdicts, PatchRequest(c, e)
  PROVE  /\ cfg' \in [Configs -> Hist(ConfigVal)]
         /\ retry' \subseteq Configs
         /\ faults' \in 0..MaxFaults
         /\ cfg' = cfg \/ cfg' = [cfg EXCEPT ![c] = Write(@, Patched(c))]
         /\ Patched(c) \in ConfigVal
  <1>1. Stored(cfg[c]) \in ConfigVal
    BY ReadType DEF TypeOK
  <1>2. Patched(c) \in ConfigVal
    BY <1>1 DEF Patched, ConfigVal, States, Verdicts
  <1>3. Write(cfg[c], Patched(c)) \in Hist(ConfigVal)
    BY <1>2, WriteType DEF TypeOK
  <1>4. cfg' = cfg \/ cfg' = [cfg EXCEPT ![c] = Write(@, Patched(c))]
    BY DEF PatchRequest
  <1>5. cfg' \in [Configs -> Hist(ConfigVal)]
    BY <1>3, <1>4 DEF TypeOK
  <1>6. retry' \subseteq Configs
    BY DEF PatchRequest, Requeue, TypeOK
  <1>7. faults' \in 0..MaxFaults
    <2>1. faults \in 0..MaxFaults
      BY DEF TypeOK
    <2>2. CASE faults' = faults
      BY <2>1, <2>2
    <2>3. CASE faults < MaxFaults /\ faults' = faults + 1
      BY <2>1, <2>3, BoundsAssumption
    <2> QED
      BY <2>2, <2>3 DEF PatchRequest
  <1> QED
    BY <1>2, <1>4, <1>5, <1>6, <1>7

\* Users write well-formed objects (EditObjects).
LEMMA EditObjectsType ==
  ASSUME TypeOK, EditObjects
  PROVE  /\ cfg' \in [Configs -> Hist(ConfigVal)]
         /\ sec' \in [Secrets -> Hist(SecretVal)]
         /\ \/ /\ sec' = sec
               /\ \E c \in Configs, v \in ConfigVal :
                    v # Stored(cfg[c]) /\ cfg' = [cfg EXCEPT ![c] = Write(@, v)]
            \/ /\ cfg' = cfg
               /\ \E s \in Secrets, v \in SecretVal : sec' = [sec EXCEPT ![s] = Write(@, v)]
  <1>1. ASSUME NEW c \in Configs, NEW v \in ConfigVal, SetConfig(c, v)
        PROVE  /\ cfg' \in [Configs -> Hist(ConfigVal)]
               /\ sec' = sec
               /\ v # Stored(cfg[c]) /\ cfg' = [cfg EXCEPT ![c] = Write(@, v)]
    <2>1. Write(cfg[c], v) \in Hist(ConfigVal)
      BY WriteType DEF TypeOK
    <2> QED
      BY <2>1, <1>1 DEF SetConfig, TypeOK
  <1>2. ASSUME NEW c \in Configs, NEW r \in Refs, NEW p \in Payloads
        PROVE  /\ [exists |-> TRUE, deleting |-> FALSE, ref |-> r,
                   payload |-> p, state |-> ""] \in ConfigVal
               /\ [Stored(cfg[c]) EXCEPT !.ref = r, !.payload = p] \in ConfigVal
               /\ [Stored(cfg[c]) EXCEPT !.deleting = TRUE] \in ConfigVal
               /\ Removed(Stored(cfg[c])) \in ConfigVal
    <2>1. Stored(cfg[c]) \in ConfigVal
      BY ReadType DEF TypeOK
    <2> QED
      BY <2>1 DEF ConfigVal, States, Removed, Refs
  <1>3. ASSUME NEW c \in Configs, NEW r \in Refs, NEW p \in Payloads,
               CreateConfig(c, r, p) \/ UpdateConfig(c, r, p)
        PROVE  \E v \in ConfigVal : SetConfig(c, v)
    BY <1>2, <1>3 DEF CreateConfig, UpdateConfig
  <1>4. ASSUME NEW c \in Configs, MarkConfigDeleted(c) \/ RemoveConfig(c)
        PROVE  \E v \in ConfigVal : SetConfig(c, v)
    <2>1. PICK p \in Payloads : TRUE
      BY ReadType DEF TypeOK, ConfigVal
    <2> QED
      BY <1>2, <1>4, <2>1 DEF MarkConfigDeleted, RemoveConfig, Refs
  <1>5. CASE \E c \in Configs, v \in ConfigVal : SetConfig(c, v)
    BY <1>1, <1>5 DEF TypeOK
  <1>6. CASE \E s \in Secrets, v \in SecretVal : SetSecret(s, v)
    <2>1. PICK s \in Secrets, v \in SecretVal : SetSecret(s, v)
      BY <1>6
    <2>2. Write(sec[s], v) \in Hist(SecretVal)
      BY WriteType DEF TypeOK
    <2> QED
      BY <2>1, <2>2 DEF SetSecret, TypeOK
  <1> QED
    BY <1>3, <1>4, <1>5, <1>6 DEF EditObjects

\* Every step keeps the types.
LEMMA TypeStep == TypeOK /\ [Next]_vars => TypeOK'
  <1> SUFFICES ASSUME TypeOK, [Next]_vars PROVE TypeOK'
    OBVIOUS
  <1>1. CASE EditObjects
    BY <1>1, EditObjectsType, BoundsAssumption
       DEF TypeOK, EditObjects, Edit, ctrlVars
  <1>2. ASSUME NEW c \in Configs, DeliverConfig(c)
        PROVE  TypeOK'
    <2>1. Advance(cfg[c]) \in Hist(ConfigVal)
      BY <1>2, AdvanceType DEF DeliverConfig, TypeOK
    <2> QED
      BY <1>2, <2>1 DEF DeliverConfig, TypeOK
  <1>3. ASSUME NEW s \in Secrets, DeliverSecret(s)
        PROVE  TypeOK'
    <2>1. Advance(sec[s]) \in Hist(SecretVal)
      BY <1>3, AdvanceType DEF DeliverSecret, TypeOK
    <2> QED
      BY <1>3, <2>1 DEF DeliverSecret, NotifySecret, TypeOK
  <1>4. ASSUME NEW c \in Configs, HandleConfigEvent(c)
        PROVE  TypeOK'
    BY <1>4 DEF HandleConfigEvent, TypeOK
  <1>5. ASSUME NEW k \in Controllers, NEW s \in Secrets, HandleSecretEvent(k, s)
        PROVE  TypeOK'
    BY <1>5 DEF HandleSecretEvent, enqueueReferencing, TypeOK
  <1>6. ASSUME NEW c \in Configs, RetryDue(c)
        PROVE  TypeOK'
    BY <1>6 DEF RetryDue, TypeOK
  <1>7. ASSUME NEW c \in Configs, Reconcile(c)
        PROVE  TypeOK'
    <2>1. Cached(cfg[c]) \in ConfigVal
      BY ReadType DEF TypeOK
    <2>2. [pc |-> "ensure", ref |-> Cached(cfg[c]).ref,
           base |-> Cached(cfg[c]).state, state |-> ""] \in RunVal
      BY <2>1 DEF ConfigVal, RunVal, States
    <2> QED
      BY <1>7, <2>2 DEF Reconcile, TypeOK
  <1>8. ASSUME NEW c \in Configs, ensureIgnition(c)
        PROVE  TypeOK'
    <2>1. EnsuredState(run[c].ref, CachedSecrets) \in Verdicts
      BY EnsuredStateType
    <2> QED
      BY <1>8, <2>1 DEF ensureIgnition, TypeOK, RunVal, States, Verdicts
  <1>9. ASSUME NEW c \in Configs, HTTPPatchStatus(c) \/ IPXEPatchStatus(c)
        PROVE  TypeOK'
    <2>1. run[c].state \in Verdicts
      BY <1>9 DEF HTTPPatchStatus, IPXEPatchStatus, TypeOK
    <2>2. \/ UNCHANGED <<cfg, retry, faults>>
          \/ \E e \in BOOLEAN : PatchRequest(c, e)
      BY <1>9 DEF HTTPPatchStatus, IPXEPatchStatus
    <2>3. /\ cfg' \in [Configs -> Hist(ConfigVal)]
          /\ retry' \subseteq Configs
          /\ faults' \in 0..MaxFaults
      BY <2>1, <2>2, PatchRequestType DEF TypeOK
    <2>4. IdleRun \in RunVal /\ IdleRun.pc # "patch"
      BY DEF IdleRun, RunVal, Refs, States
    <2>5. /\ run' \in [Configs -> RunVal]
          /\ \A d \in Configs : run'[d].pc = "patch" => run'[d].state \in Verdicts
      BY <1>9, <2>4 DEF HTTPPatchStatus, IPXEPatchStatus, Finish, TypeOK
    <2> QED
      BY <1>9, <2>3, <2>5 DEF HTTPPatchStatus, IPXEPatchStatus, TypeOK
  <1>10. ASSUME NEW c \in Configs, RelistConfig(c)
         PROVE  TypeOK'
    <2>1. Relisted(cfg[c]) \in Hist(ConfigVal)
      BY RelistedType DEF TypeOK
    <2> QED
      BY <1>10, <2>1, BoundsAssumption DEF RelistConfig, Fault, TypeOK
  <1>11. ASSUME NEW s \in Secrets, RelistSecret(s)
         PROVE  TypeOK'
    <2>1. Relisted(sec[s]) \in Hist(SecretVal)
      BY RelistedType DEF TypeOK
    <2> QED
      BY <1>11, <2>1, BoundsAssumption DEF RelistSecret, NotifySecret, Fault, TypeOK
  <1>12. CASE Restart
    <2>1. /\ cfg' \in [Configs -> Hist(ConfigVal)]
          /\ sec' \in [Secrets -> Hist(SecretVal)]
      BY <1>12, RelistedType DEF Restart, TypeOK
    <2>2. /\ cfgEv' \in [Configs -> Nat]
          /\ secEv' \in [Controllers -> [Secrets -> Nat]]
      BY <1>12 DEF Restart, ConfigsListed, SecretsListed
    <2>3. IdleRun \in RunVal /\ IdleRun.pc # "patch"
      BY DEF IdleRun, RunVal, Refs, States
    <2>4. /\ run' \in [Configs -> RunVal]
          /\ \A d \in Configs : run'[d].pc # "patch"
      BY <1>12, <2>3 DEF Restart, NothingRunning
    <2> QED
      BY <1>12, <2>1, <2>2, <2>4, BoundsAssumption DEF Restart, Fault, TypeOK
  <1>13. CASE UNCHANGED vars
    BY <1>13 DEF vars, TypeOK
  <1> QED
    BY <1>1, <1>2, <1>3, <1>4, <1>5, <1>6, <1>7, <1>8, <1>9, <1>10, <1>11, <1>12, <1>13
       DEF Next, Step, FaultStep, ReconcileStep

\* The caches have synced and nothing runs yet.
LEMMA TypeInit == Init => TypeOK
  <1> SUFFICES ASSUME Init PROVE TypeOK
    OBVIOUS
  <1>1. cfg \in [Configs -> Hist(ConfigVal)]
    BY FreshType DEF Init
  <1>2. sec \in [Secrets -> Hist(SecretVal)]
    BY FreshType DEF Init
  <1>3. cfgEv \in [Configs -> Nat]
    BY DEF Init, ConfigsListed
  <1>4. secEv \in [Controllers -> [Secrets -> Nat]]
    BY DEF Init, SecretsListed
  <1>5. IdleRun \in RunVal
    BY DEF IdleRun, RunVal, Refs, States
  <1>6. run \in [Configs -> RunVal] /\ \A c \in Configs : run[c].pc # "patch"
    BY <1>5 DEF Init, NothingRunning, IdleRun
  <1>7. edits \in 0..MaxEdits /\ faults \in 0..MaxFaults
    BY BoundsAssumption DEF Init
  <1> QED
    BY <1>1, <1>2, <1>3, <1>4, <1>6, <1>7 DEF TypeOK, Init

\* The variables keep their types: what patchStatus writes is a state, what is
\* requeued is a config, and no count goes below zero.
THEOREM TypeCorrect == Spec => []TypeOK
  BY TypeInit, TypeStep, PTL DEF Spec

-----------------------------------------------------------------------------
(***************************************************************************)
(* No lost wake-up.                                                        *)
(***************************************************************************)
Inv == TypeOK /\ WorkIsFresh

\* A config that keeps its cached value, its pending events and its run, and
\* whose cached secret is the same, stays fresh.
LEMMA FreshFrame ==
  ASSUME TypeOK, NEW c \in Configs, RunIsFresh(c), RestIsFresh(c),
         Cached(cfg'[c]) = Cached(cfg[c]),
         InSync(cfg'[c]) => InSync(cfg[c]),
         WillLookAgain(c) => WillLookAgain(c)',
         run'[c] = run[c],
         c \in retry => c \in retry' \/ WillLookAgain(c)',
         \A s \in Secrets :
           \/ secEv'[KindOf[c]][s] > 0
           \/ Cached(cfg[c]).ref = s => WillLookAgain(c)'
           \/ secEv'[KindOf[c]][s] = secEv[KindOf[c]][s] /\ Cached(sec'[s]) = Cached(sec[s])
  PROVE  RunIsFresh(c)' /\ RestIsFresh(c)'
  <1> USE DEF Refs
  <1>1. Cached(cfg[c]).ref \in Refs
    <2>1. Cached(cfg[c]) \in ConfigVal
      BY ReadType DEF TypeOK
    <2> QED
      BY <2>1 DEF ConfigVal
  <1>2. ASSUME NEW r \in Refs, r = Cached(cfg[c]).ref, ~WillLookAgain(c)', ~SecretEventFor(c, r)'
        PROVE  /\ ~SecretEventFor(c, r)
               /\ EnsuredState(r, CachedSecrets)' = EnsuredState(r, CachedSecrets)
    <2>1. CASE r = NoRef
      BY <2>1 DEF SecretEventFor, EnsuredState
    <2>2. CASE r # NoRef
      <3>1. r \in Secrets /\ ~(secEv'[KindOf[c]][r] > 0)
        BY <1>2, <2>2 DEF SecretEventFor
      <3>2. secEv'[KindOf[c]][r] = secEv[KindOf[c]][r] /\ Cached(sec'[r]) = Cached(sec[r])
        BY <1>2, <3>1
      <3>3. CachedSecrets'[r] = CachedSecrets[r]
        BY <3>1, <3>2 DEF CachedSecrets
      <3> QED
        BY <3>1, <3>2, <3>3 DEF SecretEventFor, EnsuredState
    <2> QED
      BY <2>1, <2>2
  <1>3. RunIsFresh(c)'
    <2> SUFFICES ASSUME Running(c)', ~WillLookAgain(c)'
                 PROVE  /\ Live(Cached(cfg[c]))'
                        /\ run'[c].ref = Cached(cfg'[c]).ref
                        /\ run'[c].base = Cached(cfg'[c]).state
                        /\ run'[c].pc = "patch" /\ ~SecretEventFor(c, run[c].ref)' =>
                             run'[c].state = EnsuredState(run[c].ref, CachedSecrets)'
      BY DEF RunIsFresh
    <2>1. Running(c) /\ ~WillLookAgain(c)
      BY DEF Running
    <2>2. /\ Live(Cached(cfg[c]))
          /\ run[c].ref = Cached(cfg[c]).ref
          /\ run[c].base = Cached(cfg[c]).state
          /\ run[c].pc = "patch" /\ ~SecretEventFor(c, run[c].ref) =>
               run[c].state = EnsuredState(run[c].ref, CachedSecrets)
      BY <2>1 DEF RunIsFresh
    <2> QED
      BY <1>1, <1>2, <2>2
  <1>4. RestIsFresh(c)'
    <2> SUFFICES ASSUME ~Running(c)', ~WillLookAgain(c)', c \notin retry', InSync(cfg'[c]),
                        Live(Cached(cfg'[c])), ~SecretEventFor(c, Cached(cfg[c]).ref)'
                 PROVE  Cached(cfg'[c]).state = EnsuredState(Cached(cfg[c]).ref, CachedSecrets)'
      BY DEF RestIsFresh
    <2>1. ~Running(c) /\ ~WillLookAgain(c) /\ c \notin retry /\ InSync(cfg[c])
      BY DEF Running
    <2>2. ~SecretEventFor(c, Cached(cfg[c]).ref)
      BY <1>1, <1>2
    <2>3. Cached(cfg[c]).state = EnsuredState(Cached(cfg[c]).ref, CachedSecrets)
      BY <2>1, <2>2 DEF RestIsFresh
    <2> QED
      BY <1>1, <1>2, <2>3
  <1> QED
    BY <1>3, <1>4

\* A config that the controller is going to look at again owes nothing.
LEMMA FreshWhenPending ==
  ASSUME NEW c \in Configs, WillLookAgain(c)'
  PROVE  RunIsFresh(c)' /\ RestIsFresh(c)'
  BY DEF RunIsFresh, RestIsFresh

\* After the patch of c a config that nothing wakes up again has the right
\* state: a patch that leaves the object as it was had nothing to say, and
\* one that changes it will come back as an event (HTTP and IPXE patchStatus).
LEMMA FreshAfterPatch ==
  ASSUME Inv, NEW c \in Configs, HTTPPatchStatus(c) \/ IPXEPatchStatus(c)
  PROVE  RunIsFresh(c)' /\ RestIsFresh(c)'
  <1>1. /\ run[c].pc = "patch" /\ Running(c) /\ run[c].state \in Verdicts
        /\ UNCHANGED <<sec, cfgEv, secEv, queue>>
        /\ run'[c].pc = "idle"
    <2>1. run[c].pc = "patch" /\ Finish(c) /\ UNCHANGED <<sec, cfgEv, secEv, queue>>
      BY DEF HTTPPatchStatus, IPXEPatchStatus
    <2> QED
      BY <2>1 DEF Inv, TypeOK, Finish, IdleRun, Running
  <1>2. RunIsFresh(c)'
    BY <1>1 DEF RunIsFresh, Running
  <1>3. RestIsFresh(c)'
    <2> SUFFICES ASSUME ~WillLookAgain(c)', c \notin retry', InSync(cfg'[c]),
                        ~SecretEventFor(c, Cached(cfg[c]).ref)'
                 PROVE  Cached(cfg'[c]).state =
                          EnsuredState(Cached(cfg[c]).ref, CachedSecrets)'
      BY DEF RestIsFresh
    <2>1. ~WillLookAgain(c)
      BY <1>1 DEF WillLookAgain
    <2>2. /\ run[c].ref = Cached(cfg[c]).ref
          /\ run[c].base = Cached(cfg[c]).state
          /\ ~SecretEventFor(c, run[c].ref) =>
               run[c].state = EnsuredState(run[c].ref, CachedSecrets)
      BY <1>1, <2>1 DEF Inv, WorkIsFresh, RunIsFresh
    <2>3. /\ Cached(cfg'[c]) = Cached(cfg[c])
          /\ run[c].state = run[c].base
      <3>1. CASE cfg' = cfg /\ run[c].state = run[c].base
        BY <3>1
      <3>2. CASE \E e \in BOOLEAN : PatchRequest(c, e)
        <4>1. /\ Stored(cfg[c]).exists
              /\ cfg' = [cfg EXCEPT ![c] = Write(@, Patched(c))]
          BY <3>2 DEF PatchRequest, Requeue
        <4>2. /\ cfg[c] \in Hist(ConfigVal) /\ Stored(cfg[c]) \in ConfigVal
              /\ Patched(c) \in ConfigVal
          BY <1>1, <3>2, PatchRequestType, ReadType DEF Inv, TypeOK
        <4>3. cfg'[c] = Write(cfg[c], Patched(c))
          BY <4>1 DEF Inv, TypeOK
        <4>4. Patched(c) = Cached(cfg[c]) /\ cfg'[c] = cfg[c]
          BY <4>2, <4>3, WriteType
        <4>5. Patched(c).state = IF run[c].state = run[c].base
                                   THEN Stored(cfg[c]).state ELSE run[c].state
          BY <4>2 DEF Patched, ConfigVal
        <4> QED
          BY <2>2, <4>4, <4>5
      <3> QED
        BY <3>1, <3>2 DEF HTTPPatchStatus, IPXEPatchStatus
    <2>4. ~SecretEventFor(c, run[c].ref)
      BY <1>1, <2>2, <2>3 DEF SecretEventFor
    <2>5. CachedSecrets' = CachedSecrets
      BY <1>1 DEF CachedSecrets
    <2> QED
      BY <2>2, <2>3, <2>4, <2>5 DEF EnsuredState
  <1> QED
    BY <1>2, <1>3

\* Every step keeps WorkIsFresh.
LEMMA FreshStep == Inv /\ [Next]_vars => WorkIsFresh'
  <1> SUFFICES ASSUME Inv, [Next]_vars, NEW d \in Configs
               PROVE  RunIsFresh(d)' /\ RestIsFresh(d)'
    BY DEF WorkIsFresh
  <1> USE DEF Inv
  <1>0. /\ RunIsFresh(d) /\ RestIsFresh(d)
        /\ KindOf[d] \in Controllers
        /\ cfg[d] \in Hist(ConfigVal)
        /\ Cached(cfg[d]) \in ConfigVal
    BY ReadType DEF WorkIsFresh, Controllers, TypeOK
  <1>1. CASE EditObjects
    <2>1. UNCHANGED <<cfgEv, secEv, queue, retry, run>>
      BY <1>1 DEF EditObjects, ctrlVars
    <2>2. /\ Cached(cfg'[d]) = Cached(cfg[d])
          /\ InSync(cfg'[d]) => InSync(cfg[d])
      BY <1>0, <1>1, EditObjectsType, WriteType DEF TypeOK
    <2>3. \A s \in Secrets : Cached(sec'[s]) = Cached(sec[s])
      BY <1>1, EditObjectsType, WriteType DEF TypeOK
    <2>4. WillLookAgain(d) => WillLookAgain(d)'
      BY <2>1 DEF WillLookAgain
    <2> QED
      BY <1>0, <2>1, <2>2, <2>3, <2>4, FreshFrame
  <1>2. ASSUME NEW c \in Configs, DeliverConfig(c) \/ RelistConfig(c)
        PROVE  RunIsFresh(d)' /\ RestIsFresh(d)'
    <2>1. /\ UNCHANGED <<sec, secEv, queue, retry, run>>
          /\ cfgEv' = [cfgEv EXCEPT ![c] = @ + 1]
          /\ \A b \in Configs : b # c => cfg'[b] = cfg[b]
      BY <1>2 DEF DeliverConfig, RelistConfig, TypeOK
    <2>2. CASE d = c
      BY <2>1, <2>2, FreshWhenPending DEF WillLookAgain, TypeOK
    <2>3. CASE d # c
      <3>1. cfg'[d] = cfg[d] /\ (WillLookAgain(d) => WillLookAgain(d)')
        BY <2>1, <2>3 DEF WillLookAgain, TypeOK
      <3> QED
        BY <1>0, <2>1, <3>1, FreshFrame
    <2> QED
      BY <2>2, <2>3
  <1>3. ASSUME NEW s \in Secrets, DeliverSecret(s) \/ RelistSecret(s)
        PROVE  RunIsFresh(d)' /\ RestIsFresh(d)'
    <2>1. /\ UNCHANGED <<cfg, cfgEv, queue, retry, run>>
          /\ secEv' = NotifySecret(s)
          /\ \A t \in Secrets : t # s => sec'[t] = sec[t]
      BY <1>3 DEF DeliverSecret, RelistSecret, TypeOK
    <2>2. /\ secEv'[KindOf[d]][s] = secEv[KindOf[d]][s] + 1
          /\ secEv[KindOf[d]][s] \in Nat
          /\ \A t \in Secrets : t # s => secEv'[KindOf[d]][t] = secEv[KindOf[d]][t]
      BY <1>0, <2>1 DEF NotifySecret, TypeOK
    <2>3. WillLookAgain(d) => WillLookAgain(d)'
      BY <2>1 DEF WillLookAgain
    <2>4. \A t \in Secrets :
            \/ secEv'[KindOf[d]][t] > 0
            \/ secEv'[KindOf[d]][t] = secEv[KindOf[d]][t] /\ Cached(sec'[t]) = Cached(sec[t])
      BY <2>1, <2>2
    <2> QED
      BY <1>0, <2>1, <2>3, <2>4, FreshFrame
  <1>4. ASSUME NEW c \in Configs, HandleConfigEvent(c) \/ RetryDue(c)
        PROVE  RunIsFresh(d)' /\ RestIsFresh(d)'
    <2>1. /\ UNCHANGED <<cfg, sec, secEv, run>>
          /\ queue' = queue \cup {c}
          /\ d # c => cfgEv'[d] = cfgEv[d] /\ (d \in retry => d \in retry')
      BY <1>4 DEF HandleConfigEvent, RetryDue, TypeOK
    <2>2. CASE d = c
      BY <2>1, <2>2, FreshWhenPending DEF WillLookAgain
    <2>3. CASE d # c
      <3>1. WillLookAgain(d) => WillLookAgain(d)'
        BY <2>1, <2>3 DEF WillLookAgain
      <3> QED
        BY <1>0, <2>1, <2>3, <3>1, FreshFrame
    <2> QED
      BY <2>2, <2>3
  <1>5. ASSUME NEW k \in Controllers, NEW s \in Secrets, HandleSecretEvent(k, s)
        PROVE  RunIsFresh(d)' /\ RestIsFresh(d)'
    <2>1. /\ UNCHANGED <<cfg, sec, cfgEv, retry, run>>
          /\ queue' = queue \cup enqueueReferencing(k, s)
          /\ secEv' = [secEv EXCEPT ![k][s] = @ - 1]
      BY <1>5 DEF HandleSecretEvent
    <2>2. WillLookAgain(d) => WillLookAgain(d)'
      BY <2>1 DEF WillLookAgain
    <2>3. CASE ~Live(Cached(cfg[d]))
      BY <1>0, <2>1, <2>2, <2>3, FreshWhenPending DEF RunIsFresh, RestIsFresh, Running
    <2>4. CASE Live(Cached(cfg[d])) /\ KindOf[d] = k /\ Cached(cfg[d]).ref = s
      <3>1. d \in queue'
        BY <2>1, <2>4 DEF enqueueReferencing, Live
      <3> QED
        BY <3>1, FreshWhenPending DEF WillLookAgain
    <2>5. CASE Live(Cached(cfg[d])) /\ ~(KindOf[d] = k /\ Cached(cfg[d]).ref = s)
      <3>1. \A t \in Secrets :
              \/ Cached(cfg[d]).ref # t
              \/ secEv'[KindOf[d]][t] = secEv[KindOf[d]][t] /\ Cached(sec'[t]) = Cached(sec[t])
        BY <1>0, <2>1, <2>5 DEF TypeOK
      <3> QED
        BY <1>0, <2>1, <2>2, <3>1, FreshFrame
    <2> QED
      BY <2>3, <2>4, <2>5
  <1>6. ASSUME NEW c \in Configs, Reconcile(c)
        PROVE  RunIsFresh(d)' /\ RestIsFresh(d)'
    <2>1. /\ UNCHANGED <<cfg, sec, cfgEv, secEv, retry>>
          /\ queue' = queue \ {c}
          /\ d # c => run'[d] = run[d]
          /\ ~Running(c)
      BY <1>6 DEF Reconcile, WorkerFree, TypeOK
    <2>2. CASE d # c
      <3>1. WillLookAgain(d) => WillLookAgain(d)'
        BY <2>1, <2>2 DEF WillLookAgain
      <3> QED
        BY <1>0, <2>1, <2>2, <3>1, FreshFrame
    <2>3. CASE d = c /\ Live(Cached(cfg[c]))
      <3>2. /\ run'[c].pc = "ensure"
            /\ run'[c].ref = Cached(cfg[c]).ref
            /\ run'[c].base = Cached(cfg[c]).state
        BY <1>6, <2>3 DEF Reconcile, TypeOK
      <3>3. RunIsFresh(c)'
        <4>1. Live(Cached(cfg[c]))'
          BY <2>1, <2>3
        <4> QED
          BY <2>1, <3>2, <4>1 DEF RunIsFresh
      <3>4. RestIsFresh(c)'
        BY <3>2 DEF RestIsFresh, Running
      <3> QED
        BY <2>3, <3>3, <3>4
    <2>4. CASE d = c /\ ~Live(Cached(cfg[c]))
      BY <1>6, <2>1, <2>4 DEF Reconcile, RunIsFresh, RestIsFresh, Running
    <2> QED
      BY <2>2, <2>3, <2>4
  <1>7. ASSUME NEW c \in Configs, ensureIgnition(c)
        PROVE  RunIsFresh(d)' /\ RestIsFresh(d)'
    <2>1. /\ UNCHANGED <<cfg, sec, cfgEv, secEv, queue, retry>>
          /\ d # c => run'[d] = run[d]
          /\ run[c].pc = "ensure"
      BY <1>7 DEF ensureIgnition, TypeOK
    <2>2. WillLookAgain(d) => WillLookAgain(d)'
      BY <2>1 DEF WillLookAgain
    <2>3. CASE d # c
      BY <1>0, <2>1, <2>2, <2>3, FreshFrame
    <2>4. CASE d = c
      <3>1. /\ run'[c].pc = "patch"
            /\ run'[c].ref = run[c].ref
            /\ run'[c].base = run[c].base
            /\ run'[c].state = EnsuredState(run[c].ref, CachedSecrets)
        BY <1>7 DEF ensureIgnition, TypeOK, RunVal
      <3>2. CachedSecrets' = CachedSecrets /\ (WillLookAgain(d) => WillLookAgain(d)')
        BY <2>1 DEF CachedSecrets, WillLookAgain
      <3>3. RunIsFresh(c)'
        BY <1>0, <2>1, <2>4, <3>1, <3>2 DEF RunIsFresh, Running, EnsuredState
      <3> QED
        BY <2>4, <3>1, <3>3 DEF RestIsFresh, Running
    <2> QED
      BY <2>3, <2>4
  <1>8. ASSUME NEW c \in Configs, HTTPPatchStatus(c) \/ IPXEPatchStatus(c)
        PROVE  RunIsFresh(d)' /\ RestIsFresh(d)'
    <2>1. CASE d = c
      BY <1>8, <2>1, FreshAfterPatch
    <2>2. CASE d # c
      <3>1. /\ run[c].pc = "patch" /\ Finish(c) /\ UNCHANGED <<sec, cfgEv, secEv, queue>>
            /\ UNCHANGED <<cfg, retry>> \/ \E e \in BOOLEAN : PatchRequest(c, e)
        BY <1>8 DEF HTTPPatchStatus, IPXEPatchStatus
      <3>2. run[c].state \in Verdicts
        BY <3>1 DEF TypeOK
      <3>3. cfg'[d] = cfg[d]
        BY <2>2, <3>1, <3>2, PatchRequestType DEF TypeOK
      <3>4. d \in retry => d \in retry'
        BY <3>1 DEF PatchRequest, Requeue
      <3>5. run'[d] = run[d] /\ (WillLookAgain(d) => WillLookAgain(d)')
        BY <2>2, <3>1 DEF Finish, WillLookAgain
      <3> QED
        BY <1>0, <3>1, <3>3, <3>4, <3>5, FreshFrame
    <2> QED
      BY <2>1, <2>2
  <1>9. CASE Restart
    <2>1. /\ run'[d].pc = "idle"
          /\ cfg'[d] = Relisted(cfg[d])
          /\ cfgEv'[d] = IF Stored(cfg[d]).exists THEN 1 ELSE 0
      BY <1>9 DEF Restart, NothingRunning, IdleRun, ConfigsListed
    <2>2. Cached(cfg'[d]) = Stored(cfg[d])
      BY <1>0, <2>1, RelistedType
    <2> QED
      BY <2>1, <2>2 DEF RunIsFresh, RestIsFresh, Running, WillLookAgain, Live
  <1>10. CASE UNCHANGED vars
    <2>1. WillLookAgain(d) => WillLookAgain(d)'
      BY <1>10 DEF vars, WillLookAgain
    <2> QED
      BY <1>0, <1>10, <2>1, FreshFrame DEF vars
  <1> QED
    BY <1>1, <1>2, <1>3, <1>4, <1>5, <1>6, <1>7, <1>8, <1>9, <1>10
       DEF Next, Step, FaultStep, ReconcileStep

\* Before the first event every config awaits its create event.
LEMMA FreshInit == Init => WorkIsFresh
  <1> SUFFICES ASSUME Init, NEW c \in Configs
               PROVE  RunIsFresh(c) /\ RestIsFresh(c)
    BY DEF WorkIsFresh
  <1>1. run[c].pc = "idle" /\ cfgEv[c] = IF Stored(cfg[c]).exists THEN 1 ELSE 0
    BY DEF Init, NothingRunning, IdleRun, ConfigsListed
  <1>2. Cached(cfg[c]) = Stored(cfg[c])
    BY FreshType DEF Init
  <1> QED
    BY <1>1, <1>2 DEF RunIsFresh, RestIsFresh, Running, WillLookAgain, Live

\* A reconciliation never works on reads that are out of date unless a wake-up
\* is pending: what lets the reconcilers read from caches and patch without
\* a resource version.
THEOREM FreshWork == Spec => []WorkIsFresh
  <1>1. Inv /\ [Next]_vars => Inv'
    BY TypeStep, FreshStep DEF Inv
  <1>2. Init => Inv
    BY TypeInit, FreshInit DEF Inv
  <1>3. Inv => WorkIsFresh
    BY DEF Inv
  <1> QED
    BY <1>1, <1>2, <1>3, PTL DEF Spec

\* No wake-up is lost: a config its reconciler has no reason to look at again
\* reports the state its ignition secret deserves.
THEOREM NoLostWakeUp == Spec => []SettledIsCorrect
  <1>1. TypeOK /\ WorkIsFresh => SettledIsCorrect
    <2> SUFFICES ASSUME TypeOK, WorkIsFresh, NEW c \in Configs, Settled(c),
                        Live(Stored(cfg[c]))
                 PROVE  Correct(c)
      BY DEF SettledIsCorrect
    <2> DEFINE r == Stored(cfg[c]).ref
    <2>1. Cached(cfg[c]) = Stored(cfg[c]) /\ Stored(cfg[c]) \in ConfigVal
      BY ReadType DEF Settled, TypeOK
    <2>2. KindOf[c] \in Controllers /\ r \in Refs
      BY <2>1 DEF Controllers, ConfigVal
    <2>3. ~SecretEventFor(c, r)
      BY <2>2 DEF SecretEventFor, Settled, SecretQuiet, TypeOK
    <2>4. Stored(cfg[c]).state = EnsuredState(r, CachedSecrets)
      <3>1. ~Running(c) /\ c \notin retry /\ InSync(cfg[c])
        BY DEF Settled
      <3>2. ~WillLookAgain(c)
        BY DEF Settled, WillLookAgain, TypeOK
      <3> QED
        BY <2>1, <2>3, <3>1, <3>2 DEF WorkIsFresh, RestIsFresh
    <2>5. r # NoRef => CachedSecrets[r] = StoredSecrets[r]
      BY <2>2, ReadType DEF Settled, SecretQuiet, CachedSecrets, StoredSecrets, TypeOK, Refs
    <2> QED
      BY <2>2, <2>4, <2>5, EnsuredStateLocal DEF Correct
  <1> QED
    BY <1>1, TypeCorrect, FreshWork, PTL
=============================================================================
