------------------------- MODULE BootPipelineProofs -------------------------
(***************************************************************************)
(* For any set of SBCs and children, any images and any number of edits    *)
(* and faults: the reconcilers of ServerBootConfigurations write objects   *)
(* of the right form, and an SBC they leave alone is right.                *)
(***************************************************************************)
EXTENDS BootPipeline, InformerProofs

-----------------------------------------------------------------------------
(***************************************************************************)
(* Facts about the operators.                                              *)
(***************************************************************************)
\* What is read from the caches and from the API server.
LEMMA ReadValues ==
  ASSUME TypeOK
  PROVE  /\ \A b \in SBCs : /\ Cached(sbc[b]) \in SBCVal /\ Stored(sbc[b]) \in SBCVal
                            /\ Cached(srv[b]) \in ServerVal
         /\ \A c \in Configs : /\ Cached(cfg[c]) \in ChildVal /\ Stored(cfg[c]) \in ChildVal
                               /\ OwnerOf[c] \in SBCs
                               /\ KindOf[c] \in Controllers /\ KindOf[c] \in Kinds
  BY ReadType, PipelineAssumption DEF TypeOK, Controllers

\* Users and metal-operator create and remove SBCs.
LEMMA SBCValues ==
  /\ \A u \in 0..MaxEdits, i \in Images, r \in Refs : NewSBC(u, i, r) \in SBCVal
  /\ \A v \in SBCVal : RemovedSBC(v) \in SBCVal
  <1>1. ASSUME NEW u \in 0..MaxEdits, NEW i \in Images, NEW r \in Refs
        PROVE  NewSBC(u, i, r) \in SBCVal
    BY <1>1 DEF NewSBC, SBCVal, States
  <1>2. ASSUME NEW v \in SBCVal
        PROVE  RemovedSBC(v) \in SBCVal
    <2> DEFINE w == NewSBC(0, v.image, NoRef)
    <2>1. v.image \in Images /\ NoRef \in Refs /\ 0 \in 0..MaxEdits
      BY PipelineAssumption DEF SBCVal, Refs
    <2>2. w \in SBCVal
      BY <2>1, <1>1
    <2> HIDE DEF w
    <2>3. [w EXCEPT !.exists = FALSE] \in SBCVal
      BY <2>2 DEF SBCVal
    <2> QED
      BY <2>3 DEF RemovedSBC, w
  <1> QED
    BY <1>1, <1>2

\* The garbage collector leaves a child that is not there.
LEMMA RemovedChildType ==
  ASSUME NEW v \in ChildVal
  PROVE  RemovedChild(v) \in ChildVal
  <1>1. 0 \in 0..MaxEdits
    BY PipelineAssumption
  <1> QED
    BY <1>1 DEF RemovedChild, ChildVal, States, Refs

\* A merge patch of an SBC's status gives an SBC.
LEMMA MergePatchType ==
  ASSUME NEW stored \in SBCVal, NEW base \in SBCVal, NEW new \in SBCVal
  PROVE  MergePatch(stored, base, new) \in SBCVal
  BY DEF MergePatch, SBCVal

\* A child's status as it is copied into an SBC.
LEMMA FromChildStateType ==
  ASSUME NEW cur \in SBCVal, NEW child \in ChildVal, NEW k \in Kinds
  PROVE  FromChildState(cur, child, k) \in SBCVal
  BY DEF FromChildState, SBCVal, ChildVal

\* The error status of an SBC (PatchServerBootConfigWithError).
LEMMA ErrorStatusType ==
  ASSUME NEW cur \in SBCVal, NEW k \in Kinds
  PROVE  [cur EXCEPT !.state = "Error", !.iv = k] \in SBCVal
  BY DEF SBCVal, States

\* The end of a reconciliation.
LEMMA FinishType ==
  ASSUME TypeOK, NEW c \in Configs, NEW failed \in BOOLEAN, Finish(c, failed)
  PROVE  run' \in [Configs -> RunVal] /\ retry' \subseteq Configs
  <1>1. IdleRun \in RunVal
    BY DEF IdleRun, RunVal
  <1> QED
    BY <1>1 DEF Finish, TypeOK

\* Edits and faults stay within their bounds.
LEMMA CountersType ==
  ASSUME TypeOK
  PROVE  /\ Edit => edits' \in 0..MaxEdits /\ faults' \in 0..MaxFaults
         /\ FaultHere => faults' \in 0..MaxFaults
         /\ UNCHANGED faults => faults' \in 0..MaxFaults
  BY PipelineAssumption DEF TypeOK, Edit, FaultHere

-----------------------------------------------------------------------------
(***************************************************************************)
(* Types.                                                                  *)
(***************************************************************************)
\* What a step may do to an object besides delivering its events: write it.
Written(h, g, S) == g = h \/ \E v \in S : g = Write(h, v)

SBCsWritten == \A b \in SBCs : Written(sbc[b], sbc'[b], SBCVal)
ChildrenWritten == \A c \in Configs : Written(cfg[c], cfg'[c], ChildVal)

\* Writes keep the type of the history.
LEMMA WrittenType ==
  ASSUME NEW S, NEW h \in Hist(S), NEW g, Written(h, g, S)
  PROVE  /\ g \in Hist(S)
         /\ Cached(g) = Cached(h)
         /\ InSync(g) => g = h
  BY WriteType DEF Written

\* The status patch writes an SBC or nothing (PatchSBC).
LEMMA PatchSBCType ==
  ASSUME TypeOK, NEW c \in Configs, NEW b \in SBCs, NEW base \in SBCVal,
         NEW new \in SBCVal, NEW err \in BOOLEAN, PatchSBC(c, b, base, new, err)
  PROVE  /\ sbc' \in [SBCs -> Hist(SBCVal)] /\ SBCsWritten
         /\ run' \in [Configs -> RunVal] /\ retry' \subseteq Configs
         /\ faults' \in 0..MaxFaults
         /\ \/ /\ Finish(c, err)
               /\ sbc'[b] = Write(sbc[b], MergePatch(Stored(sbc[b]), base, new))
            \/ Finish(c, TRUE)
  <1>1. /\ run' \in [Configs -> RunVal] /\ retry' \subseteq Configs
        /\ faults' \in 0..MaxFaults
    BY FinishType, CountersType DEF PatchSBC
  <1>2. CASE UNCHANGED sbc /\ Finish(c, TRUE)
    BY <1>1, <1>2 DEF SBCsWritten, Written, TypeOK
  <1>3. CASE /\ sbc' = [sbc EXCEPT ![b] = Write(@, MergePatch(Stored(@), base, new))]
             /\ Finish(c, err)
    <2> DEFINE v == MergePatch(Stored(sbc[b]), base, new)
    <2>1. v \in SBCVal
      BY ReadValues, MergePatchType
    <2> HIDE DEF v
    <2>2. sbc' = [sbc EXCEPT ![b] = Write(sbc[b], v)]
      BY <1>3 DEF v
    <2>3. Write(sbc[b], v) \in Hist(SBCVal)
      BY <2>1, WriteType DEF TypeOK
    <2>4. sbc' \in [SBCs -> Hist(SBCVal)] /\ SBCsWritten
      BY <2>1, <2>2, <2>3 DEF SBCsWritten, Written, TypeOK
    <2>5. sbc'[b] = Write(sbc[b], v)
      BY <2>2 DEF TypeOK
    <2> QED
      BY <1>1, <1>3, <2>4, <2>5 DEF v
  <1> QED
    BY <1>2, <1>3 DEF PatchSBC

\* Reporting an unusable image writes an SBC or nothing, and fails
\* (PatchServerBootConfigWithError).
LEMMA PatchWithErrorType ==
  ASSUME TypeOK, NEW c \in Configs, PatchServerBootConfigWithError(c)
  PROVE  /\ sbc' \in [SBCs -> Hist(SBCVal)] /\ SBCsWritten
         /\ run' \in [Configs -> RunVal] /\ retry' \subseteq Configs
         /\ faults' \in 0..MaxFaults
         /\ Finish(c, TRUE)
  <1> DEFINE b == OwnerOf[c]
             cur == Cached(sbc[b])
  <1>1. b \in SBCs /\ cur \in SBCVal /\ KindOf[c] \in Kinds
    BY ReadValues
  <1>2. CASE cur.exists
    <2>1. PatchSBC(c, b, cur, [cur EXCEPT !.state = "Error", !.iv = KindOf[c]], TRUE)
      BY <1>2 DEF PatchServerBootConfigWithError
    <2>2. [cur EXCEPT !.state = "Error", !.iv = KindOf[c]] \in SBCVal
      BY <1>1, ErrorStatusType
    <2> HIDE DEF b, cur
    <2> QED
      BY <1>1, <2>1, <2>2, PatchSBCType
  <1>3. CASE ~cur.exists
    <2>1. Finish(c, TRUE) /\ UNCHANGED <<sbc, faults>>
      BY <1>3 DEF PatchServerBootConfigWithError
    <2> QED
      BY <2>1, FinishType DEF SBCsWritten, Written, TypeOK
  <1> QED
    BY <1>2, <1>3

\* So does copying the child's status (patchConfigStateFromIPXEState,
\* patchConfigStateFromHTTPState).
LEMMA PatchFromChildType ==
  ASSUME TypeOK, NEW c \in Configs, NEW base \in SBCVal, PatchFromChild(c, base)
  PROVE  /\ sbc' \in [SBCs -> Hist(SBCVal)] /\ SBCsWritten
         /\ run' \in [Configs -> RunVal] /\ retry' \subseteq Configs
         /\ faults' \in 0..MaxFaults
         /\ \/ Finish(c, TRUE)
            \/ /\ Finish(c, FALSE)
               /\ Cached(cfg[c]).exists
               /\ sbc'[OwnerOf[c]] =
                    Write(sbc[OwnerOf[c]],
                          MergePatch(Stored(sbc[OwnerOf[c]]), base,
                                     FromChildState(base, Cached(cfg[c]), KindOf[c])))
  <1> DEFINE b == OwnerOf[c]
             child == Cached(cfg[c])
             new == FromChildState(base, child, KindOf[c])
  <1>1. b \in SBCs /\ new \in SBCVal
    BY ReadValues, FromChildStateType
  <1>2. CASE child.exists /\ base.exists
    <2>1. PatchSBC(c, b, base, new, FALSE)
      BY <1>2 DEF PatchFromChild
    <2> HIDE DEF b, new
    <2>2. /\ sbc' \in [SBCs -> Hist(SBCVal)] /\ SBCsWritten
          /\ run' \in [Configs -> RunVal] /\ retry' \subseteq Configs
          /\ faults' \in 0..MaxFaults
          /\ \/ /\ Finish(c, FALSE)
                /\ sbc'[b] = Write(sbc[b], MergePatch(Stored(sbc[b]), base, new))
             \/ Finish(c, TRUE)
      BY <1>1, <2>1, PatchSBCType
    <2> QED
      BY <1>2, <2>2 DEF b, new
  <1>3. CASE ~(child.exists /\ base.exists)
    <2>1. Finish(c, TRUE) /\ UNCHANGED <<sbc, faults>>
      BY <1>3 DEF PatchFromChild
    <2> QED
      BY <2>1, FinishType DEF SBCsWritten, Written, TypeOK
  <1> QED
    BY <1>2, <1>3

\* Users, metal-operator and the boot server write SBCs, children and servers
\* of the right form (EditObjects).
LEMMA EditObjectsType ==
  ASSUME TypeOK, EditObjects
  PROVE  /\ sbc' \in [SBCs -> Hist(SBCVal)] /\ SBCsWritten
         /\ cfg' \in [Configs -> Hist(ChildVal)] /\ ChildrenWritten
         /\ srv' \in [SBCs -> Hist(ServerVal)]
         /\ ignition' \in [Secrets -> BOOLEAN]
         /\ secEv' \subseteq Controllers \X Secrets
  <1>1. ASSUME NEW b \in SBCs, NEW v \in SBCVal, SetSBC(b, v)
        PROVE  sbc' \in [SBCs -> Hist(SBCVal)] /\ SBCsWritten
    <2>1. Write(sbc[b], v) \in Hist(SBCVal) /\ sbc' = [sbc EXCEPT ![b] = Write(@, v)]
      BY <1>1, WriteType DEF TypeOK, SetSBC
    <2> QED
      BY <2>1 DEF SBCsWritten, Written, TypeOK
  <1>2. ASSUME NEW b \in SBCs, NEW i \in Images, NEW r \in Refs,
               \/ CreateSBC(b, i, r) \/ UpdateSBC(b, i, r)
               \/ MarkSBCDeleted(b) \/ RemoveSBC(b)
        PROVE  \E v \in SBCVal : SetSBC(b, v)
    <2>1. Stored(sbc[b]) \in SBCVal /\ edits' \in 0..MaxEdits
      BY ReadValues, CountersType DEF EditObjects
    <2>2. /\ [Stored(sbc[b]) EXCEPT !.image = i, !.ref = r] \in SBCVal
          /\ [Stored(sbc[b]) EXCEPT !.deleting = TRUE] \in SBCVal
      BY <2>1 DEF SBCVal
    <2>3. NewSBC(edits', i, r) \in SBCVal /\ RemovedSBC(Stored(sbc[b])) \in SBCVal
      BY <2>1, SBCValues
    <2> QED
      BY <1>2, <2>2, <2>3 DEF CreateSBC, UpdateSBC, MarkSBCDeleted, RemoveSBC
  <1>3. CASE \E b \in SBCs, v \in SBCVal : SetSBC(b, v)
    <2>1. UNCHANGED <<cfg, srv, ignition, secEv>>
      BY <1>3 DEF SetSBC
    <2> QED
      BY <1>1, <1>3, <2>1 DEF TypeOK, ChildrenWritten, Written
  <1>4. CASE \E b \in SBCs, n \in ServerVal : SetServer(b, n)
    <2>1. PICK b \in SBCs, n \in ServerVal : SetServer(b, n)
      BY <1>4
    <2>2. Write(srv[b], n) \in Hist(ServerVal)
      BY WriteType DEF TypeOK
    <2> QED
      BY <2>1, <2>2 DEF SetServer, TypeOK, SBCsWritten, ChildrenWritten, Written
  <1>5. CASE \E s \in Secrets : SetSecret(s)
    BY <1>5 DEF SetSecret, TypeOK, SBCsWritten, ChildrenWritten, Written
  <1>6. CASE \E c \in Configs : MarkFetched(c)
    <2>1. PICK c \in Configs : MarkFetched(c)
      BY <1>6
    <2> DEFINE v == [Stored(cfg[c]) EXCEPT !.fetched = TRUE]
    <2>2. v \in ChildVal
      BY ReadValues DEF ChildVal
    <2> HIDE DEF v
    <2>3. /\ Write(cfg[c], v) \in Hist(ChildVal)
          /\ cfg' = [cfg EXCEPT ![c] = Write(cfg[c], v)]
          /\ UNCHANGED <<sbc, srv, ignition, secEv>>
      BY <2>1, <2>2, WriteType DEF TypeOK, MarkFetched, v
    <2> QED
      BY <2>2, <2>3 DEF TypeOK, SBCsWritten, ChildrenWritten, Written
  <1>7. PICK i \in Images, r \in Refs : TRUE
    BY PipelineAssumption DEF Refs
  <1> QED
    BY <1>2, <1>3, <1>4, <1>5, <1>6, <1>7 DEF EditObjects

\* The garbage collector and the child's own reconciler write children
\* (GarbageCollect, ReportState, ReportStaleState).
LEMMA ChildWriters ==
  ASSUME TypeOK, NEW c \in Configs,
         GarbageCollect(c) \/ ReportState(c) \/ ReportStaleState(c)
  PROVE  /\ cfg' \in [Configs -> Hist(ChildVal)] /\ ChildrenWritten
         /\ UNCHANGED <<sbc, srv, ignition, ctrlVars, edits>>
         /\ faults' \in 0..MaxFaults
  <1>1. \E v \in ChildVal : SetChild(c, v)
    <2>1. /\ Stored(cfg[c]) \in ChildVal
          /\ RemovedChild(Stored(cfg[c])) \in ChildVal
      BY ReadValues, RemovedChildType
    <2>2. \A s \in States : [Stored(cfg[c]) EXCEPT !.state = s] \in ChildVal
      BY <2>1 DEF ChildVal
    <2>3. EnsuredState(Stored(cfg[c]).ref) \in States /\ Verdicts \subseteq States
      BY DEF EnsuredState, States, Verdicts
    <2> QED
      BY <2>1, <2>2, <2>3 DEF GarbageCollect, ReportState, ReportStaleState
  <1>2. PICK v \in ChildVal : SetChild(c, v)
    BY <1>1
  <1>3. /\ Write(cfg[c], v) \in Hist(ChildVal)
        /\ cfg' = [cfg EXCEPT ![c] = Write(cfg[c], v)]
    BY <1>2, WriteType DEF SetChild, TypeOK
  <1>4. faults' \in 0..MaxFaults
    BY CountersType DEF GarbageCollect, ReportState, ReportStaleState
  <1> QED
    BY <1>2, <1>3, <1>4 DEF SetChild, TypeOK, ChildrenWritten, Written

\* A reconciliation that has read the SBC carries an SBC and its server's
\* networks.
LEMMA RunType ==
  ASSUME TypeOK, NEW c \in Configs, run[c].pc # "idle"
  PROVE  /\ run[c].base \in SBCVal /\ run[c].net \in Nets
         /\ run[c].pc \in {"image", "status"}
         /\ [run[c] EXCEPT !.pc = "status"] \in RunVal
         /\ [run[c] EXCEPT !.pc = "status"].pc = "status"
         /\ [run[c] EXCEPT !.pc = "status"].base = run[c].base
  <1>1. run[c] \in [pc: {"image", "status"}, base: SBCVal, net: Nets]
    BY DEF TypeOK, RunVal
  <1> QED
    BY <1>1 DEF RunVal

\* The server-side apply writes a child or fails (ApplyChild).
LEMMA ApplyChildType ==
  ASSUME TypeOK, NEW c \in Configs, ApplyChild(c)
  PROVE  /\ cfg' \in [Configs -> Hist(ChildVal)] /\ ChildrenWritten
         /\ run' \in [Configs -> RunVal] /\ retry' \subseteq Configs
         /\ faults' \in 0..MaxFaults
         /\ \/ Finish(c, TRUE)
            \/ /\ Stored(cfg'[c]) = Applied(c)
               /\ run' = [run EXCEPT ![c] = [@ EXCEPT !.pc = "status"]]
               /\ retry' = retry
  <1>1. run[c].pc = "image"
    BY DEF ApplyChild
  <1>2. Applied(c) \in ChildVal
    <2>1. Stored(cfg[c]) \in ChildVal /\ run[c].base \in SBCVal /\ run[c].net \in Nets
      BY <1>1, ReadValues, RunType
    <2>2. /\ run[c].base.uid \in 0..MaxEdits /\ run[c].base.image \in Images
          /\ run[c].base.ref \in Refs
      BY <2>1 DEF SBCVal
    <2> QED
      BY <2>1, <2>2 DEF Applied, ChildVal
  <1>3. CASE Finish(c, TRUE) /\ UNCHANGED cfg /\ (UNCHANGED faults \/ FaultHere)
    BY <1>3, FinishType, CountersType DEF TypeOK, ChildrenWritten, Written
  <1>4. CASE /\ cfg' = [cfg EXCEPT ![c] = Write(@, Applied(c))]
             /\ run' = [run EXCEPT ![c].pc = "status"]
             /\ UNCHANGED <<retry, faults>>
    <2>1. /\ Write(cfg[c], Applied(c)) \in Hist(ChildVal)
          /\ Stored(Write(cfg[c], Applied(c))) = Applied(c)
      BY <1>2, WriteType DEF TypeOK
    <2>2. /\ cfg' \in [Configs -> Hist(ChildVal)] /\ ChildrenWritten
          /\ Stored(cfg'[c]) = Applied(c)
      BY <1>2, <1>4, <2>1 DEF TypeOK, ChildrenWritten, Written
    <2>3. run' \in [Configs -> RunVal]
      BY <1>1, <1>4, RunType DEF TypeOK
    <2> QED
      BY <1>4, <2>2, <2>3, CountersType DEF TypeOK
  <1> QED
    BY <1>3, <1>4 DEF ApplyChild

\* So does a registry that does not answer (RegistryFails).
LEMMA RegistryFailsType ==
  ASSUME TypeOK, NEW c \in Configs, RegistryFails(c)
  PROVE  /\ sbc' \in [SBCs -> Hist(SBCVal)] /\ SBCsWritten
         /\ run' \in [Configs -> RunVal] /\ retry' \subseteq Configs
         /\ faults' \in 0..MaxFaults
         /\ Finish(c, TRUE)
  <1> DEFINE b == OwnerOf[c]
             cur == Cached(sbc[b])
             v == MergePatch(Stored(sbc[b]), cur,
                             [cur EXCEPT !.state = "Error", !.iv = KindOf[c]])
  <1>1. b \in SBCs /\ v \in SBCVal
    BY ReadValues, ErrorStatusType, MergePatchType
  <1>2. \/ UNCHANGED sbc
        \/ sbc' = [sbc EXCEPT ![b] = Write(sbc[b], v)]
    BY DEF RegistryFails
  <1> HIDE DEF b, v
  <1>3. Write(sbc[b], v) \in Hist(SBCVal)
    BY <1>1, WriteType DEF TypeOK
  <1>4. sbc' \in [SBCs -> Hist(SBCVal)] /\ SBCsWritten
    BY <1>1, <1>2, <1>3 DEF TypeOK, SBCsWritten, Written
  <1>5. Finish(c, TRUE) /\ FaultHere
    BY DEF RegistryFails
  <1> QED
    BY <1>4, <1>5, FinishType, CountersType

\* The first half of a reconciliation reads an SBC and a server (Reconcile).
LEMMA ReconcileType ==
  ASSUME TypeOK, NEW c \in Configs, Reconcile(c)
  PROVE  /\ run' \in [Configs -> RunVal] /\ retry' \subseteq Configs
         /\ queue' = queue \ {c} /\ ~Running(c)
         /\ UNCHANGED <<apiVars, secEv, edits, faults>>
         /\ \A d \in Configs : d # c => run'[d] = run[d]
         /\ \/ /\ Live(Cached(sbc[OwnerOf[c]]))
               /\ run'[c].pc = "image" /\ run'[c].base = Cached(sbc[OwnerOf[c]])
               /\ retry' = retry
            \/ Live(Cached(sbc[OwnerOf[c]])) /\ run' = run /\ retry' = retry \cup {c}
            \/ ~Live(Cached(sbc[OwnerOf[c]])) /\ run' = run /\ retry' = retry
  <1> DEFINE b == Cached(sbc[OwnerOf[c]])
             n == Cached(srv[OwnerOf[c]])
  <1>1. b \in SBCVal /\ n \in ServerVal
    BY ReadValues
  <1>2. /\ queue' = queue \ {c} /\ ~Running(c)
        /\ UNCHANGED <<apiVars, secEv, edits, faults>>
    BY DEF Reconcile, WorkerFree
  <1>3. CASE Live(b) /\ n # "absent"
    <2>1. [pc |-> "image", base |-> b, net |-> n] \in RunVal
      BY <1>1, <1>3 DEF RunVal, ServerVal
    <2>2. /\ run' = [run EXCEPT ![c] = [pc |-> "image", base |-> b, net |-> n]]
          /\ retry' = retry
      BY <1>3 DEF Reconcile
    <2> HIDE DEF b, n
    <2>3. /\ run' \in [Configs -> RunVal]
          /\ \A d \in Configs : d # c => run'[d] = run[d]
          /\ run'[c].pc = "image" /\ run'[c].base = b
      BY <2>1, <2>2 DEF TypeOK
    <2> QED
      BY <1>2, <1>3, <2>2, <2>3 DEF TypeOK, b
  <1>4. CASE ~(Live(b) /\ n # "absent")
    <2>1. run' = run /\ retry' = IF Live(b) THEN retry \cup {c} ELSE retry
      BY <1>4 DEF Reconcile
    <2> QED
      BY <1>2, <1>4, <2>1 DEF TypeOK
  <1> QED
    BY <1>3, <1>4

\* Every step keeps the types.
LEMMA TypeStep == TypeOK /\ [Next]_vars => TypeOK'
  <1> SUFFICES ASSUME TypeOK, [Next]_vars PROVE TypeOK'
    OBVIOUS
  <1>1. CASE EditObjects
    BY <1>1, EditObjectsType, CountersType DEF EditObjects, TypeOK
  <1>2. CASE Restart
    <2>1. /\ sbc' \in [SBCs -> Hist(SBCVal)] /\ srv' \in [SBCs -> Hist(ServerVal)]
          /\ cfg' \in [Configs -> Hist(ChildVal)]
      BY <1>2, RelistedType DEF Restart, TypeOK
    <2>2. IdleRun \in RunVal
      BY DEF IdleRun, RunVal
    <2>3. queue' \subseteq Configs /\ faults' \in 0..MaxFaults
      BY <1>2, CountersType DEF Restart, Listed
    <2> QED
      BY <1>2, <2>1, <2>2, <2>3 DEF Restart, NothingRunning, TypeOK
  <1>3. ASSUME NEW c \in Configs, DeliverChild(c)
        PROVE  TypeOK'
    <2>1. Advance(cfg[c]) \in Hist(ChildVal)
      BY <1>3, AdvanceType DEF DeliverChild, TypeOK
    <2> QED
      BY <1>3, <2>1 DEF DeliverChild, TypeOK
  <1>4. ASSUME NEW b \in SBCs, DeliverSBC(b)
        PROVE  TypeOK'
    <2>1. Advance(sbc[b]) \in Hist(SBCVal)
      BY <1>4, AdvanceType DEF DeliverSBC, TypeOK
    <2> QED
      BY <1>4, <2>1 DEF DeliverSBC, ChildrenOf, TypeOK
  <1>5. ASSUME NEW b \in SBCs, DeliverServer(b)
        PROVE  TypeOK'
    <2>1. Advance(srv[b]) \in Hist(ServerVal)
      BY <1>5, AdvanceType DEF DeliverServer, TypeOK
    <2> QED
      BY <1>5, <2>1 DEF DeliverServer, ctrlVars, TypeOK
  <1>6. ASSUME NEW c \in Configs, RetryDue(c) \/ Resync(c)
        PROVE  TypeOK'
    BY <1>6, CountersType DEF RetryDue, Resync, apiVars, TypeOK
  <1>7. ASSUME NEW k \in Controllers, NEW s \in Secrets, HandleSecretEvent(k, s)
        PROVE  TypeOK'
    BY <1>7 DEF HandleSecretEvent, enqueueReferencing, apiVars, TypeOK
  <1>8. ASSUME NEW c \in Configs,
               GarbageCollect(c) \/ ReportState(c) \/ ReportStaleState(c)
        PROVE  TypeOK'
    BY <1>8, ChildWriters DEF ctrlVars, TypeOK
  <1>9. ASSUME NEW c \in Configs, Reconcile(c)
        PROVE  TypeOK'
    <2>1. queue' \subseteq Configs /\ UNCHANGED <<apiVars, secEv, edits, faults>>
      BY <1>9, ReconcileType DEF TypeOK
    <2>2. run' \in [Configs -> RunVal] /\ retry' \subseteq Configs
      BY <1>9, ReconcileType
    <2> QED
      BY <2>1, <2>2 DEF apiVars, TypeOK
  <1>10. ASSUME NEW c \in Configs, ImageUnusable(c)
         PROVE  TypeOK'
    BY <1>10, PatchWithErrorType DEF ImageUnusable, TypeOK
  <1>11. ASSUME NEW c \in Configs, RegistryFails(c)
         PROVE  TypeOK'
    <2>1. UNCHANGED <<cfg, srv, ignition, secEv, queue, edits>>
      BY <1>11 DEF RegistryFails
    <2> QED
      BY <1>11, <2>1, RegistryFailsType DEF TypeOK
  <1>12. ASSUME NEW c \in Configs, ApplyChild(c)
         PROVE  TypeOK'
    <2>1. UNCHANGED <<sbc, srv, ignition, secEv, queue, edits>>
      BY <1>12 DEF ApplyChild
    <2> QED
      BY <1>12, <2>1, ApplyChildType DEF TypeOK
  <1>13. ASSUME NEW c \in Configs,
                patchConfigStateFromIPXEState(c) \/ patchConfigStateFromHTTPState(c)
         PROVE  TypeOK'
    <2>1. UNCHANGED <<cfg, srv, ignition, secEv, queue, edits>>
      BY <1>13 DEF patchConfigStateFromIPXEState, patchConfigStateFromHTTPState
    <2>2. \E base \in SBCVal : PatchFromChild(c, base)
      BY <1>13, RunType, ReadValues
         DEF patchConfigStateFromIPXEState, patchConfigStateFromHTTPState
    <2> QED
      BY <2>1, <2>2, PatchFromChildType DEF TypeOK
  <1>14. CASE UNCHANGED vars
    BY <1>14 DEF vars, TypeOK
  <1> QED
    BY <1>1, <1>2, <1>3, <1>4, <1>5, <1>6, <1>7, <1>8, <1>9, <1>10, <1>11, <1>12, <1>13, <1>14
       DEF Next, ReconcileStep

\* The caches have synced, no SBC has a child and nothing runs yet.
LEMMA TypeInit == Init => TypeOK
  <1> SUFFICES ASSUME Init PROVE TypeOK
    OBVIOUS
  <1>1. sbc \in [SBCs -> Hist(SBCVal)]
    <2>1. 0 \in 0..MaxEdits /\ NoRef \in Refs
      BY PipelineAssumption DEF Refs
    <2>2. \A i \in Images, r \in Refs : <<NewSBC(0, i, r)>> \in Hist(SBCVal)
      BY <2>1, SBCValues, FreshType
    <2>3. \A i \in Images : <<RemovedSBC(NewSBC(0, i, NoRef))>> \in Hist(SBCVal)
      BY <2>1, SBCValues, FreshType
    <2> QED
      BY <2>2, <2>3 DEF Init
  <1>2. srv \in [SBCs -> Hist(ServerVal)]
    BY FreshType DEF Init
  <1>3. cfg \in [Configs -> Hist(ChildVal)]
    <2> DEFINE none == CHOOSE v \in ChildVal : v = RemovedChild(v)
    <2>1. \E v \in ChildVal : v = RemovedChild(v)
      <3>1. PICK i \in Images, n \in Nets : TRUE
        BY PipelineAssumption
      <3> DEFINE v == [exists |-> FALSE, uid |-> 0, image |-> i, net |-> n, ref |-> NoRef,
                       state |-> "", fetched |-> FALSE]
      <3>2. 0 \in 0..MaxEdits /\ NoRef \in Refs
        BY PipelineAssumption DEF Refs
      <3>3. v \in ChildVal
        BY <3>2 DEF ChildVal, States
      <3>4. /\ v.exists = FALSE /\ v.uid = 0 /\ v.ref = NoRef
            /\ v.state = "" /\ v.fetched = FALSE
        OBVIOUS
      <3> HIDE DEF v
      <3>5. v = RemovedChild(v)
        BY <3>3, <3>4 DEF RemovedChild, ChildVal
      <3> QED
        BY <3>3, <3>5
    <2>2. none \in ChildVal
      BY <2>1
    <2>3. cfg = [c \in Configs |-> <<none>>]
      BY DEF Init
    <2> HIDE DEF none
    <2> QED
      BY <2>2, <2>3, FreshType
  <1>4. run \in [Configs -> RunVal]
    BY DEF Init, NothingRunning, IdleRun, RunVal
  <1>5. queue \subseteq Configs
    BY DEF Init, Listed
  <1>6. edits \in 0..MaxEdits /\ faults \in 0..MaxFaults
    BY PipelineAssumption DEF Init
  <1> QED
    BY <1>1, <1>2, <1>3, <1>4, <1>5, <1>6 DEF Init, TypeOK

\* What the reconcilers write into SBCs and children are such objects,
\* whichever step of whom comes between two steps of a reconciliation.
THEOREM TypeCorrect == Spec => []TypeOK
  BY TypeInit, TypeStep, PTL DEF Spec

-----------------------------------------------------------------------------
(***************************************************************************)
(* No update is lost.                                                      *)
(*                                                                         *)
(* SBCSettledIsCorrect is not inductive: it says nothing of an SBC that is *)
(* being reconciled, on what the caches showed some steps ago.  WorkIsFresh *)
(* adds what such a reconciliation has in its hands.                       *)
(***************************************************************************)
\* A reconciliation that no later event will repeat works on the SBC that the
\* cache has, and if no event of the child it has applied is under way that
\* child is still the one it has applied.
RunIsFresh(c) ==
  Running(c) /\ c \notin queue =>
    /\ run[c].base = Cached(sbc[OwnerOf[c]])
    /\ run[c].pc = "status" /\ InSync(cfg[c]) => ChildMatches(c, run[c].base)

\* A child that its SBC's reconciler has no reason to look at again is right,
\* and so is what the SBC shows of it.
RestIsFresh(c) ==
  /\ ~Running(c)
  /\ c \notin queue \cup retry
  /\ InSync(sbc[OwnerOf[c]]) /\ InSync(cfg[c])
  /\ Live(Stored(sbc[OwnerOf[c]]))
  => /\ ChildMatches(c, Stored(sbc[OwnerOf[c]]))
     /\ StatusMatches(c, Stored(sbc[OwnerOf[c]]))

WorkIsFresh == \A c \in Configs : RunIsFresh(c) /\ RestIsFresh(c)

\* What a step may do to the SBC and the child of c without c noticing: write
\* them, which leaves an event under way unless it changes nothing.
SeenAsBefore(c) ==
  /\ Cached(sbc'[OwnerOf[c]]) = Cached(sbc[OwnerOf[c]])
  /\ InSync(sbc'[OwnerOf[c]]) => sbc'[OwnerOf[c]] = sbc[OwnerOf[c]]
  /\ InSync(cfg'[c]) => cfg'[c] = cfg[c]

\* Writes of others, the reconciler of the SBC's other kind among them, are
\* noticed by the event they leave.
LEMMA WritesAreSeen ==
  ASSUME TypeOK, SBCsWritten \/ UNCHANGED sbc, ChildrenWritten \/ UNCHANGED cfg,
         NEW c \in Configs
  PROVE  SeenAsBefore(c)
  <1>1. /\ OwnerOf[c] \in SBCs
        /\ sbc[OwnerOf[c]] \in Hist(SBCVal) /\ cfg[c] \in Hist(ChildVal)
    BY PipelineAssumption DEF TypeOK
  <1>2. /\ Written(sbc[OwnerOf[c]], sbc'[OwnerOf[c]], SBCVal)
        /\ Written(cfg[c], cfg'[c], ChildVal)
    BY <1>1 DEF SBCsWritten, ChildrenWritten, Written
  <1> QED
    BY <1>1, <1>2, WrittenType DEF SeenAsBefore

\* A request that stays as it is, on an SBC and a child that are seen as
\* before, stays fresh.
LEMMA FreshFrame ==
  ASSUME NEW c \in Configs, RunIsFresh(c), RestIsFresh(c), SeenAsBefore(c),
         run'[c] = run[c], c \in queue => c \in queue',
         c \in retry => c \in retry' \cup queue'
  PROVE  RunIsFresh(c)' /\ RestIsFresh(c)'
  <1>1. InSync(cfg'[c]) => Stored(cfg'[c]) = Stored(cfg[c]) /\ InSync(cfg[c])
    BY DEF SeenAsBefore
  <1>2. InSync(sbc'[OwnerOf[c]]) =>
          Stored(sbc'[OwnerOf[c]]) = Stored(sbc[OwnerOf[c]]) /\ InSync(sbc[OwnerOf[c]])
    BY DEF SeenAsBefore
  <1>3. RunIsFresh(c)'
    BY <1>1 DEF RunIsFresh, Running, ChildMatches, SeenAsBefore
  <1>4. RestIsFresh(c)'
    BY <1>1, <1>2 DEF RestIsFresh, Running, ChildMatches, StatusMatches
  <1> QED
    BY <1>3, <1>4

\* A request that waits in the work queue owes nothing.
LEMMA FreshWhenQueued ==
  ASSUME NEW c \in Configs, c \in queue'
  PROVE  RunIsFresh(c)' /\ RestIsFresh(c)'
  BY DEF RunIsFresh, RestIsFresh

\* Nor does one that failed and is to be tried again.
LEMMA FreshWhenFailed ==
  ASSUME TypeOK, NEW c \in Configs, Finish(c, TRUE)
  PROVE  /\ RunIsFresh(c)' /\ RestIsFresh(c)'
         /\ \A d \in Configs : d # c => run'[d] = run[d] /\ (d \in retry => d \in retry')
  <1>1. run'[c].pc = "idle" /\ c \in retry'
    BY DEF Finish, IdleRun, TypeOK
  <1> QED
    BY <1>1 DEF RunIsFresh, RestIsFresh, Running, Finish, TypeOK

\* A patch that leaves the SBC as it was had nothing to say: its state and
\* conditions are what was to be copied from the child (FromChildState).
LEMMA NothingToCopy ==
  ASSUME NEW v \in SBCVal, NEW child \in ChildVal, NEW k \in Kinds,
         MergePatch(v, v, FromChildState(v, child, k)) = v
  PROVE  /\ child.state # "" => v.state = child.state
         /\ child.state = "Ready" => v.iv = "none"
         /\ child.fetched => k \in v.fetched
  <1> DEFINE new == FromChildState(v, child, k)
             m == MergePatch(v, v, new)
  <1>1. /\ new.state = IF child.state = "" THEN v.state ELSE child.state
        /\ new.iv = IF child.state = "Ready" THEN "none" ELSE v.iv
        /\ new.fetched = IF child.fetched THEN v.fetched \cup {k} ELSE v.fetched
    BY DEF FromChildState, SBCVal
  <1>2. new \in SBCVal
    BY FromChildStateType
  <1> HIDE DEF new
  <1>3. m.state = new.state /\ m.iv = new.iv /\ m.fetched = new.fetched
    BY <1>2 DEF MergePatch, SBCVal
  <1>4. m = v
    BY DEF new
  <1> HIDE DEF m
  <1>5. v.state = new.state /\ v.iv = new.iv /\ v.fetched = new.fetched
    BY <1>3, <1>4
  <1> QED
    BY <1>1, <1>5

\* After the last step of a reconciliation that nothing will repeat the child
\* and the SBC agree (both patchConfigStateFrom functions).
LEMMA FreshAfterPatch ==
  ASSUME TypeOK, WorkIsFresh, NEW c \in Configs,
         patchConfigStateFromIPXEState(c) \/ patchConfigStateFromHTTPState(c)
  PROVE  RunIsFresh(c)' /\ RestIsFresh(c)'
  <1> DEFINE b == OwnerOf[c]
  <1>1. /\ run[c].pc = "status" /\ Running(c)
        /\ UNCHANGED <<cfg, queue>>
        /\ PatchFromChild(c, run[c].base) \/ PatchFromChild(c, Cached(sbc[b]))
    BY DEF patchConfigStateFromIPXEState, patchConfigStateFromHTTPState, Running
  <1>2. CASE c \in queue
    BY <1>1, <1>2, FreshWhenQueued
  <1>3. CASE c \notin queue
    <2>1. /\ run[c].base = Cached(sbc[b])
          /\ InSync(cfg[c]) => ChildMatches(c, Cached(sbc[b]))
      BY <1>1, <1>3 DEF WorkIsFresh, RunIsFresh
    <2>2. /\ b \in SBCs /\ sbc[b] \in Hist(SBCVal) /\ cfg[c] \in Hist(ChildVal)
          /\ Cached(sbc[b]) \in SBCVal /\ Stored(sbc[b]) \in SBCVal
          /\ Cached(cfg[c]) \in ChildVal /\ KindOf[c] \in Kinds
      BY ReadValues DEF TypeOK
    <2>3. PatchFromChild(c, Cached(sbc[b]))
      BY <1>1, <2>1
    <2> DEFINE new == FromChildState(Cached(sbc[b]), Cached(cfg[c]), KindOf[c])
               v == MergePatch(Stored(sbc[b]), Cached(sbc[b]), new)
    <2>4. Finish(c, TRUE) \/ (Finish(c, FALSE) /\ sbc'[b] = Write(sbc[b], v))
      BY <2>2, <2>3, PatchFromChildType
    <2>5. CASE Finish(c, TRUE)
      BY <2>5, FreshWhenFailed
    <2>6. CASE Finish(c, FALSE) /\ sbc'[b] = Write(sbc[b], v)
      <3>1. RunIsFresh(c)' /\ ~Running(c)'
        BY <2>6 DEF Finish, IdleRun, RunIsFresh, Running, TypeOK
      <3>2. SUFFICES ASSUME InSync(sbc'[b]), InSync(cfg'[c])
                     PROVE  /\ ChildMatches(c, Stored(sbc[b]))'
                            /\ StatusMatches(c, Stored(sbc[b]))'
        BY <3>1 DEF RestIsFresh
      <3>3. v \in SBCVal
        BY <2>2, FromChildStateType, MergePatchType
      <3>4. v = Cached(sbc[b]) /\ sbc'[b] = sbc[b] /\ InSync(sbc[b])
        <4> HIDE DEF v
        <4> QED
          BY <2>2, <2>6, <3>2, <3>3, WriteType
      <3>5. Cached(sbc[b]) = Stored(sbc[b]) /\ Cached(cfg[c]) = Stored(cfg[c]) /\ InSync(cfg[c])
        BY <1>1, <2>2, <3>2, <3>4, ReadType
      <3>6. StatusMatches(c, Stored(sbc[b]))
        <4>1. MergePatch(Stored(sbc[b]), Stored(sbc[b]),
                FromChildState(Stored(sbc[b]), Stored(cfg[c]), KindOf[c])) = Stored(sbc[b])
          BY <3>4, <3>5
        <4> QED
          BY <2>2, <3>5, <4>1, NothingToCopy DEF StatusMatches
      <3>7. ChildMatches(c, Stored(sbc[b]))
        BY <2>1, <3>5
      <3> QED
        BY <1>1, <3>4, <3>6, <3>7 DEF ChildMatches, StatusMatches
    <2> QED
      BY <2>4, <2>5, <2>6
  <1> QED
    BY <1>2, <1>3

\* Every step keeps WorkIsFresh.
LEMMA FreshStep == TypeOK /\ WorkIsFresh /\ [Next]_vars => WorkIsFresh'
  <1> SUFFICES ASSUME TypeOK, WorkIsFresh, [Next]_vars, NEW d \in Configs
               PROVE  RunIsFresh(d)' /\ RestIsFresh(d)'
    BY DEF WorkIsFresh
  <1>0. RunIsFresh(d) /\ RestIsFresh(d) /\ OwnerOf[d] \in SBCs
    BY PipelineAssumption DEF WorkIsFresh
  <1>1. CASE EditObjects
    <2>1. SeenAsBefore(d)
      BY <1>1, EditObjectsType, WritesAreSeen
    <2> QED
      BY <1>0, <1>1, <2>1, FreshFrame DEF EditObjects
  <1>2. CASE Restart
    <2> DEFINE b == OwnerOf[d]
    <2>1. /\ ~Running(d)' /\ queue' = Listed
          /\ sbc'[b] = Relisted(sbc[b])
      BY <1>0, <1>2 DEF Restart, NothingRunning, IdleRun, Running
    <2>2. Stored(sbc'[b]) = Stored(sbc[b])
      BY <1>0, <2>1, RelistedType DEF TypeOK
    <2>3. Live(Stored(sbc'[b])) => d \in queue'
      BY <2>1, <2>2 DEF Live, Listed
    <2> QED
      BY <2>1, <2>3 DEF RunIsFresh, RestIsFresh
  <1>3. ASSUME NEW c \in Configs, DeliverChild(c)
        PROVE  RunIsFresh(d)' /\ RestIsFresh(d)'
    <2>1. CASE d = c
      BY <1>3, <2>1, FreshWhenQueued DEF DeliverChild
    <2>2. CASE d # c
      <3>1. UNCHANGED sbc /\ cfg'[d] = cfg[d]
        BY <1>3, <2>2 DEF DeliverChild, TypeOK
      <3>2. SeenAsBefore(d)
        BY <3>1 DEF SeenAsBefore
      <3> QED
        BY <1>0, <1>3, <3>2, FreshFrame DEF DeliverChild
    <2> QED
      BY <2>1, <2>2
  <1>4. ASSUME NEW b \in SBCs, DeliverSBC(b)
        PROVE  RunIsFresh(d)' /\ RestIsFresh(d)'
    <2>1. CASE OwnerOf[d] = b
      BY <1>4, <2>1, FreshWhenQueued DEF DeliverSBC, ChildrenOf
    <2>2. CASE OwnerOf[d] # b
      <3>1. UNCHANGED cfg /\ sbc'[OwnerOf[d]] = sbc[OwnerOf[d]]
        BY <1>0, <1>4, <2>2 DEF DeliverSBC, TypeOK
      <3>2. SeenAsBefore(d)
        BY <3>1 DEF SeenAsBefore
      <3> QED
        BY <1>0, <1>4, <3>2, FreshFrame DEF DeliverSBC
    <2> QED
      BY <2>1, <2>2
  <1>5. ASSUME UNCHANGED <<sbc, cfg, run>>, d \in queue => d \in queue',
               d \in retry => d \in retry' \cup queue'
        PROVE  RunIsFresh(d)' /\ RestIsFresh(d)'
    BY <1>0, <1>5, FreshFrame DEF SeenAsBefore
  <1>6. ASSUME NEW b \in SBCs, DeliverServer(b)
        PROVE  RunIsFresh(d)' /\ RestIsFresh(d)'
    BY <1>5, <1>6 DEF DeliverServer, ctrlVars
  <1>7. ASSUME NEW c \in Configs, RetryDue(c) \/ Resync(c)
        PROVE  RunIsFresh(d)' /\ RestIsFresh(d)'
    BY <1>5, <1>7 DEF RetryDue, Resync, apiVars
  <1>8. ASSUME NEW k \in Controllers, NEW s \in Secrets, HandleSecretEvent(k, s)
        PROVE  RunIsFresh(d)' /\ RestIsFresh(d)'
    BY <1>5, <1>8 DEF HandleSecretEvent, apiVars
  <1>9. ASSUME NEW c \in Configs,
               GarbageCollect(c) \/ ReportState(c) \/ ReportStaleState(c)
        PROVE  RunIsFresh(d)' /\ RestIsFresh(d)'
    <2>1. SeenAsBefore(d) /\ UNCHANGED <<queue, retry, run>>
      BY <1>9, ChildWriters, WritesAreSeen DEF ctrlVars
    <2> QED
      BY <1>0, <2>1, FreshFrame
  <1>10. ASSUME NEW c \in Configs, Reconcile(c)
         PROVE  RunIsFresh(d)' /\ RestIsFresh(d)'
    <2> DEFINE b == OwnerOf[c]
    <2>1. /\ queue' = queue \ {c} /\ ~Running(c) /\ UNCHANGED <<sbc, cfg>>
          /\ \A e \in Configs : e # c => run'[e] = run[e]
          /\ \/ Live(Cached(sbc[b])) /\ run'[c].pc = "image" /\ run'[c].base = Cached(sbc[b])
                /\ retry' = retry
             \/ Live(Cached(sbc[b])) /\ run' = run /\ retry' = retry \cup {c}
             \/ ~Live(Cached(sbc[b])) /\ run' = run /\ retry' = retry
      BY <1>10, ReconcileType DEF apiVars
    <2>2. CASE d # c
      <3>1. SeenAsBefore(d)
        BY <2>1 DEF SeenAsBefore
      <3> QED
        BY <1>0, <2>1, <2>2, <3>1, FreshFrame
    <2>3. CASE d = c /\ run'[c].pc = "image" /\ run'[c].base = Cached(sbc[b])
      BY <2>1, <2>3 DEF RunIsFresh, RestIsFresh, Running
    <2>4. CASE d = c /\ run' = run /\ c \in retry'
      BY <2>1, <2>4 DEF RunIsFresh, RestIsFresh, Running
    <2>5. CASE d = c /\ run' = run /\ ~Live(Cached(sbc[b]))
      <3>1. InSync(sbc[b]) => ~Live(Stored(sbc[b]))
        BY <1>0, <2>5, ReadType DEF TypeOK
      <3> QED
        BY <2>1, <2>5, <3>1 DEF RunIsFresh, RestIsFresh, Running
    <2> QED
      BY <2>1, <2>2, <2>3, <2>4, <2>5
  <1>11. ASSUME NEW c \in Configs, Finish(c, TRUE), SeenAsBefore(d), queue' = queue
         PROVE  RunIsFresh(d)' /\ RestIsFresh(d)'
    BY <1>0, <1>11, FreshWhenFailed, FreshFrame
  <1>12. ASSUME NEW c \in Configs, ImageUnusable(c) \/ RegistryFails(c)
         PROVE  RunIsFresh(d)' /\ RestIsFresh(d)'
    <2>1. Finish(c, TRUE) /\ SBCsWritten /\ UNCHANGED <<cfg, queue>>
      BY <1>12, PatchWithErrorType, RegistryFailsType DEF ImageUnusable, RegistryFails
    <2> QED
      BY <1>11, <2>1, WritesAreSeen
  <1>13. ASSUME NEW c \in Configs, ApplyChild(c)
         PROVE  RunIsFresh(d)' /\ RestIsFresh(d)'
    <2>1. run[c].pc = "image" /\ UNCHANGED <<sbc, queue>>
      BY <1>13 DEF ApplyChild
    <2>2. SeenAsBefore(d)
      BY <1>13, <2>1, ApplyChildType, WritesAreSeen
    <2>3. CASE Finish(c, TRUE)
      BY <1>11, <2>1, <2>2, <2>3
    <2>4. CASE /\ Stored(cfg'[c]) = Applied(c)
               /\ run' = [run EXCEPT ![c] = [@ EXCEPT !.pc = "status"]]
               /\ retry' = retry
      <3>1. CASE d # c
        BY <1>0, <2>1, <2>2, <2>4, <3>1, FreshFrame DEF TypeOK
      <3>2. CASE d = c
        <4>1. run'[c].pc = "status" /\ run'[c].base = run[c].base
          BY <2>1, <2>4, RunType DEF TypeOK
        <4>2. Running(c) /\ Stored(cfg[c]) \in ChildVal
          BY <2>1, ReadValues DEF Running
        <4>3. ChildMatches(c, run[c].base)'
          BY <2>4, <4>1, <4>2 DEF ChildMatches, Applied, ChildVal
        <4>4. RunIsFresh(c)'
          BY <1>0, <2>1, <3>2, <4>1, <4>2, <4>3 DEF RunIsFresh
        <4>5. RestIsFresh(c)'
          BY <4>1 DEF RestIsFresh, Running
        <4> QED
          BY <3>2, <4>4, <4>5
      <3> QED
        BY <3>1, <3>2
    <2> QED
      BY <1>13, <2>3, <2>4, ApplyChildType
  <1>14. ASSUME NEW c \in Configs,
                patchConfigStateFromIPXEState(c) \/ patchConfigStateFromHTTPState(c)
         PROVE  RunIsFresh(d)' /\ RestIsFresh(d)'
    <2>1. CASE d = c
      BY <1>14, <2>1, FreshAfterPatch
    <2>2. CASE d # c
      <3>1. UNCHANGED <<cfg, queue>> /\ run[c].pc = "status"
        BY <1>14 DEF patchConfigStateFromIPXEState, patchConfigStateFromHTTPState
      <3>2. \E base \in SBCVal : PatchFromChild(c, base)
        BY <1>14, <3>1, RunType, ReadValues
           DEF patchConfigStateFromIPXEState, patchConfigStateFromHTTPState
      <3>3. SBCsWritten /\ (Finish(c, TRUE) \/ Finish(c, FALSE))
        BY <3>2, PatchFromChildType
      <3>4. run'[d] = run[d] /\ (d \in retry => d \in retry')
        BY <2>2, <3>3 DEF Finish, TypeOK
      <3>5. SeenAsBefore(d)
        BY <3>1, <3>3, WritesAreSeen
      <3> QED
        BY <1>0, <3>1, <3>4, <3>5, FreshFrame
    <2> QED
      BY <2>1, <2>2
  <1>15. CASE UNCHANGED vars
    BY <1>5, <1>15 DEF vars
  <1> QED
    BY <1>1, <1>2, <1>3, <1>4, <1>6, <1>7, <1>8, <1>9, <1>10, <1>12, <1>13, <1>14, <1>15
       DEF Next, ReconcileStep

\* Before the first reconciliation every SBC awaits its create event.
LEMMA FreshInit == Init => WorkIsFresh
  <1> SUFFICES ASSUME Init, NEW c \in Configs
               PROVE  RunIsFresh(c) /\ RestIsFresh(c)
    BY DEF WorkIsFresh
  <1>1. ~Running(c) /\ queue = Listed
    BY DEF Init, NothingRunning, IdleRun, Running
  <1>2. Live(Stored(sbc[OwnerOf[c]])) => c \in queue
    BY <1>1 DEF Live, Listed
  <1> QED
    BY <1>1, <1>2 DEF RunIsFresh, RestIsFresh

\* A reconciliation never works on an SBC that is out of date, nor copies the
\* status of another child than the one it applied, unless an event that will
\* repeat it is pending: what lets both reconcilers read from caches and patch
\* without a resource version, the HTTP one from a base it reads once more.
THEOREM FreshWork == Spec => []WorkIsFresh
  <1>1. TypeOK /\ WorkIsFresh /\ [Next]_vars => (TypeOK /\ WorkIsFresh)'
    BY TypeStep, FreshStep
  <1>2. Init => TypeOK /\ WorkIsFresh
    BY TypeInit, FreshInit
  <1> QED
    BY <1>1, <1>2, PTL DEF Spec

\* No update is lost on the way to the child and back: an SBC that no SBC
\* reconciler has a reason to look at again has children with its image,
\* ignition secret and UID, and shows their state and conditions.
THEOREM NoLostUpdate == Spec => []SBCSettledIsCorrect
  <1>1. WorkIsFresh => SBCSettledIsCorrect
    BY DEF WorkIsFresh, RestIsFresh, SBCSettledIsCorrect, SBCSettled, ChildrenOf
  <1> QED
    BY <1>1, FreshWork, PTL
=============================================================================
