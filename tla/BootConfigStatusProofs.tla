----------------------- MODULE BootConfigStatusProofs -----------------------
(***************************************************************************)
(* BootConfigController implements the safety part of BootConfigStatus.    *)
(***************************************************************************)
EXTENDS BootConfigControllerProofs

\* What the API server stores.
Objects == [c \in Configs |-> Stored(cfg[c])]

\* An object or a secret that is written becomes what was written, and the
\* others stay (Write).
LEMMA StoredWrite ==
  ASSUME TypeOK
  PROVE  /\ \A c \in Configs, v \in ConfigVal :
              cfg' = [cfg EXCEPT ![c] = Write(@, v)] => Objects' = [Objects EXCEPT ![c] = v]
         /\ \A s \in Secrets, v \in SecretVal :
              sec' = [sec EXCEPT ![s] = Write(@, v)] =>
                StoredSecrets' = [StoredSecrets EXCEPT ![s] = v]
  <1>1. ASSUME NEW c \in Configs, NEW v \in ConfigVal, cfg' = [cfg EXCEPT ![c] = Write(@, v)]
        PROVE  Objects' = [Objects EXCEPT ![c] = v]
    <2>1. Stored(Write(cfg[c], v)) = v
      BY WriteType DEF TypeOK
    <2> QED
      BY <1>1, <2>1 DEF Objects, TypeOK
  <1>2. ASSUME NEW s \in Secrets, NEW v \in SecretVal, sec' = [sec EXCEPT ![s] = Write(@, v)]
        PROVE  StoredSecrets' = [StoredSecrets EXCEPT ![s] = v]
    <2>1. Stored(Write(sec[s], v)) = v
      BY WriteType DEF TypeOK
    <2> QED
      BY <1>2, <2>1 DEF StoredSecrets, TypeOK
  <1> QED
    BY <1>1, <1>2

\* An edit that creates, changes, marks or removes an object is one of the
\* abstract specification: the state is kept, or empty (EditObjects).
LEMMA EditRefines ==
  ASSUME TypeOK, EditObjects
  PROVE  Status!Next
  <1>1. ASSUME NEW c \in Configs, NEW v \in ConfigVal, SetConfig(c, v),
               v.state = IF Stored(cfg[c]).exists /\ v.exists THEN Stored(cfg[c]).state ELSE ""
        PROVE  Status!EditSpec(c)
    <2>1. Objects' = [Objects EXCEPT ![c] = v] /\ StoredSecrets' = StoredSecrets
      BY <1>1, StoredWrite DEF SetConfig, StoredSecrets
    <2>2. v \in Status!Objects
      BY DEF ConfigVal, States, Refs, Status!Objects, Status!Refs, Status!Verdicts
    <2>3. Objects[c] = Stored(cfg[c])
      BY DEF Objects
    <2> QED
      BY <1>1, <2>1, <2>2, <2>3 DEF Status!EditSpec, Objects
  <1>2. ASSUME NEW c \in Configs, NEW r \in Refs, NEW p \in Payloads,
               CreateConfig(c, r, p) \/ UpdateConfig(c, r, p)
        PROVE  Status!EditSpec(c)
    <2>1. Stored(cfg[c]) \in ConfigVal
      BY ReadType DEF TypeOK
    <2> DEFINE new == [exists |-> TRUE, deleting |-> FALSE, ref |-> r,
                       payload |-> p, state |-> ""]
               upd == [Stored(cfg[c]) EXCEPT !.ref = r, !.payload = p]
    <2>2. new \in ConfigVal /\ new.state = "" /\ upd \in ConfigVal
          /\ upd.state = Stored(cfg[c]).state /\ upd.exists = Stored(cfg[c]).exists
      BY <2>1 DEF ConfigVal, States
    <2>3. CASE CreateConfig(c, r, p)
      BY <1>1, <2>2, <2>3 DEF CreateConfig
    <2>4. CASE UpdateConfig(c, r, p)
      BY <1>1, <2>2, <2>4 DEF UpdateConfig
    <2> QED
      BY <1>2, <2>3, <2>4
  <1>3. ASSUME NEW c \in Configs, MarkConfigDeleted(c) \/ RemoveConfig(c)
        PROVE  Status!EditSpec(c)
    <2>1. Stored(cfg[c]) \in ConfigVal
      BY ReadType DEF TypeOK
    <2> DEFINE gone == Removed(Stored(cfg[c]))
               marked == [Stored(cfg[c]) EXCEPT !.deleting = TRUE]
    <2>2. gone \in ConfigVal /\ gone.state = "" /\ gone.exists = FALSE
      BY <2>1 DEF ConfigVal, States, Refs, Removed
    <2>3. /\ marked \in ConfigVal
          /\ marked.state = Stored(cfg[c]).state
          /\ marked.exists = Stored(cfg[c]).exists
      BY <2>1 DEF ConfigVal
    <2>4. CASE MarkConfigDeleted(c)
      BY <1>1, <2>3, <2>4 DEF MarkConfigDeleted
    <2>5. CASE RemoveConfig(c)
      BY <1>1, <2>2, <2>5 DEF RemoveConfig
    <2> QED
      BY <1>3, <2>4, <2>5
  <1>4. ASSUME NEW s \in Secrets, NEW v \in SecretVal, SetSecret(s, v)
        PROVE  Status!EditSecret(s)
    <2>1. StoredSecrets' = [StoredSecrets EXCEPT ![s] = v] /\ Objects' = Objects
      BY <1>4, StoredWrite DEF SetSecret, Objects
    <2> QED
      BY <2>1 DEF Status!EditSecret, Status!Contents, SecretVal, Objects
  <1> QED
    BY <1>2, <1>3, <1>4 DEF EditObjects, Status!Next

\* A status patch is a report on an object that exists, or nothing: nothing
\* if the object is gone, if the request is lost, or if the state that was
\* found is the one that was read (PatchRequest).
LEMMA PatchRefines ==
  ASSUME TypeOK, NEW c \in Configs, NEW e \in BOOLEAN,
         run[c].state \in Verdicts, PatchRequest(c, e), UNCHANGED sec
  PROVE  Status!Report(c) \/ UNCHANGED Status!vars
  <1>1. StoredSecrets' = StoredSecrets
    BY DEF StoredSecrets
  <1>2. CASE cfg' = cfg
    BY <1>1, <1>2 DEF Status!vars
  <1>3. CASE Stored(cfg[c]).exists /\ cfg' = [cfg EXCEPT ![c] = Write(@, Patched(c))]
    <2>1. Patched(c) \in ConfigVal /\ Stored(cfg[c]) \in ConfigVal
      BY PatchRequestType, ReadType DEF TypeOK
    <2>2. Objects' = [Objects EXCEPT ![c] = Patched(c)] /\ Objects[c] = Stored(cfg[c])
      BY <1>3, <2>1, StoredWrite DEF Objects
    <2>3. CASE run[c].state = run[c].base
      <3>1. Patched(c) = Stored(cfg[c])
        BY <2>1, <2>3 DEF Patched, ConfigVal
      <3>2. Objects' = Objects
        BY <2>2, <3>1 DEF Objects
      <3> QED
        BY <1>1, <3>2 DEF Status!vars, Objects
    <2>4. CASE run[c].state # run[c].base
      <3>1. Patched(c) = [Stored(cfg[c]) EXCEPT !.state = run[c].state]
        BY <2>1, <2>4 DEF Patched
      <3>2. Objects' = [Objects EXCEPT ![c].state = run[c].state]
        BY <2>2, <3>1 DEF Objects
      <3> QED
        BY <1>1, <1>3, <2>2, <3>2 DEF Status!Report, Status!Verdicts, Verdicts, Objects
    <2> QED
      BY <2>3, <2>4
  <1> QED
    BY <1>2, <1>3 DEF PatchRequest

\* A watch event, a new list or a restart changes what caches hold and not
\* what the API server stores.
LEMMA CacheStutters ==
  ASSUME TypeOK,
         \/ \E c \in Configs : DeliverConfig(c) \/ RelistConfig(c)
         \/ \E s \in Secrets : DeliverSecret(s) \/ RelistSecret(s)
         \/ Restart
  PROVE  UNCHANGED Status!vars
  <1>1. ASSUME NEW c \in Configs, DeliverConfig(c) \/ RelistConfig(c)
        PROVE  UNCHANGED Status!vars
    <2>1. /\ ~InSync(cfg[c]) => Stored(Advance(cfg[c])) = Stored(cfg[c])
          /\ Stored(Relisted(cfg[c])) = Stored(cfg[c])
      BY AdvanceType, RelistedType DEF TypeOK
    <2>2. \A d \in Configs : Stored(cfg'[d]) = Stored(cfg[d])
      BY <1>1, <2>1 DEF DeliverConfig, RelistConfig, TypeOK
    <2> QED
      BY <1>1, <2>2 DEF DeliverConfig, RelistConfig, StoredSecrets, Status!vars
  <1>2. ASSUME NEW s \in Secrets, DeliverSecret(s) \/ RelistSecret(s)
        PROVE  UNCHANGED Status!vars
    <2>1. /\ ~InSync(sec[s]) => Stored(Advance(sec[s])) = Stored(sec[s])
          /\ Stored(Relisted(sec[s])) = Stored(sec[s])
      BY AdvanceType, RelistedType DEF TypeOK
    <2>2. \A d \in Secrets : Stored(sec'[d]) = Stored(sec[d])
      BY <1>2, <2>1 DEF DeliverSecret, RelistSecret, TypeOK
    <2> QED
      BY <1>2, <2>2 DEF DeliverSecret, RelistSecret, StoredSecrets, Status!vars
  <1>3. CASE Restart
    <2>1. /\ \A c \in Configs : Stored(cfg'[c]) = Stored(cfg[c])
          /\ \A s \in Secrets : Stored(sec'[s]) = Stored(sec[s])
      BY <1>3, RelistedType DEF Restart, TypeOK
    <2> QED
      BY <2>1 DEF StoredSecrets, Status!vars
  <1> QED
    BY <1>1, <1>2, <1>3

\* Every step is one of the abstract specification or invisible in it.
LEMMA StepRefines == TypeOK /\ [Next]_vars => [Status!Next]_Status!vars
  <1> SUFFICES ASSUME TypeOK, [Next]_vars PROVE Status!Next \/ UNCHANGED Status!vars
    OBVIOUS
  <1>1. CASE EditObjects
    BY <1>1, EditRefines
  <1>2. ASSUME NEW c \in Configs, HTTPPatchStatus(c) \/ IPXEPatchStatus(c)
        PROVE  Status!Next \/ UNCHANGED Status!vars
    <2>1. run[c].state \in Verdicts
      BY <1>2 DEF HTTPPatchStatus, IPXEPatchStatus, TypeOK
    <2>2. \/ UNCHANGED cfg
          \/ \E e \in BOOLEAN : PatchRequest(c, e)
      BY <1>2 DEF HTTPPatchStatus, IPXEPatchStatus
    <2>3. UNCHANGED sec
      BY <1>2 DEF HTTPPatchStatus, IPXEPatchStatus
    <2>4. CASE UNCHANGED cfg
      BY <2>3, <2>4 DEF Status!vars, StoredSecrets
    <2>5. CASE \E e \in BOOLEAN : PatchRequest(c, e)
      BY <2>1, <2>3, <2>5, PatchRefines DEF Status!Next
    <2> QED
      BY <2>2, <2>4, <2>5
  <1>3. ASSUME UNCHANGED <<cfg, sec>>
        PROVE  UNCHANGED Status!vars
    BY <1>3 DEF Status!vars, StoredSecrets
  <1>4. ASSUME NEW c \in Configs, \/ HandleConfigEvent(c) \/ RetryDue(c)
                                  \/ Reconcile(c) \/ ensureIgnition(c)
        PROVE  UNCHANGED <<cfg, sec>>
    BY <1>4 DEF HandleConfigEvent, RetryDue, Reconcile, ensureIgnition
  <1>5. ASSUME NEW k \in Controllers, NEW s \in Secrets, HandleSecretEvent(k, s)
        PROVE  UNCHANGED <<cfg, sec>>
    BY <1>5 DEF HandleSecretEvent
  <1>6. CASE UNCHANGED vars
    BY <1>3, <1>6 DEF vars
  <1> QED
    BY <1>1, <1>2, <1>3, <1>4, <1>5, <1>6, CacheStutters
       DEF Next, Step, FaultStep, ReconcileStep

\* The reconcilers implement what BootConfigStatus promises about every step:
\* they write Ready or Error into the state of an object that exists, and
\* nothing else, ever.
THEOREM StatusRefinement == Spec => ImplementsStatus
  <1>1. Init => Status!Init
    <2> SUFFICES ASSUME Init PROVE Status!Init
      OBVIOUS
    <2>1. TypeOK
      BY TypeInit
    <2>2. /\ \A c \in Configs : Stored(cfg[c]) \in ConfigVal
          /\ \A s \in Secrets : Stored(sec[s]) \in SecretVal
      BY <2>1, ReadType DEF TypeOK
    <2>3. ConfigVal = Status!Objects /\ SecretVal = Status!Contents
      BY DEF ConfigVal, SecretVal, States, Refs, Status!Objects, Status!Contents,
             Status!Refs, Status!Verdicts
    <2> QED
      BY <2>2, <2>3 DEF Status!Init, StoredSecrets
  <1> QED
    BY <1>1, StepRefines, TypeCorrect, PTL DEF Spec, ImplementsStatus, Status!Spec
=============================================================================
