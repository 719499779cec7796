----------------------------- MODULE MoveProofs -----------------------------
(***************************************************************************)
(* For any clusters, any interference that creates objects, and any number *)
(* of runs and faults: bootctl move touches only what it created, leaves   *)
(* nothing behind but what a failed request left, and is complete when it  *)
(* reports success.                                                        *)
(***************************************************************************)
EXTENDS Move, TLAPS

\* The list of the source cluster's configs holds configs.
LEMMA OrderType ==
  /\ Len(Order) \in Nat
  /\ \A i \in 1..Len(Order) : Order[i] \in Configs
  <1>1. Order \in Seq(Configs)
    BY OrderAssumption
  <1> QED
    BY <1>1

\* A created config has the spec of its source and the owner it should have; a
\* created secret is a copy (moveObjs).
LEMMA CreatedType ==
  ASSUME TypeOK, NEW o \in Objects
  PROVE  /\ Created(o) \in ObjectVal
         /\ o \notin Configs => Created(o) = source[o]
         /\ o \in Configs =>
              /\ Created(o) # Absent
              /\ Created(o).ref = source[o].ref
              /\ source[o].owner = "source" =>
                   Created(o).owner = IF o \in owners THEN "target" ELSE "none"
              /\ source[o].owner # "source" => Created(o).owner = source[o].owner
  <1>1. CASE o \notin Configs
    BY <1>1 DEF Created, TypeOK
  <1>2. CASE o \in Configs
    <2>1. source[o] \in ConfigVal
      BY <1>2 DEF TypeOK
    <2> DEFINE owner == CASE source[o].owner = "source" /\ o \in owners    -> "target"
                          [] source[o].owner = "source" /\ o \notin owners -> "none"
                          [] OTHER                                         -> source[o].owner
    <2>2. Created(o) = [source[o] EXCEPT !.owner = owner, !.state = ""]
      BY <1>2 DEF Created
    <2>3. /\ owner \in {"none", "source", "target", "several"}
          /\ source[o].owner = "source" => owner = IF o \in owners THEN "target" ELSE "none"
          /\ source[o].owner # "source" => owner = source[o].owner
      BY <2>1 DEF ConfigVal
    <2> HIDE DEF owner
    <2>4. /\ Created(o) \in ConfigVal
          /\ Created(o).ref = source[o].ref
          /\ Created(o).owner = owner
      BY <2>1, <2>2, <2>3, NamesAssumption DEF ConfigVal
    <2>5. Created(o) # Absent
      BY <2>4, NamesAssumption
    <2> QED
      BY <1>2, <2>3, <2>4, <2>5 DEF ObjectVal
  <1> QED
    BY <1>1, <1>2

-----------------------------------------------------------------------------
(***************************************************************************)
(* Types.                                                                  *)
(***************************************************************************)
\* The parts of TypeOK that arithmetic is about.
LEMMA Numbers ==
  ASSUME TypeOK
  PROVE  /\ next \in Nat /\ next >= 1
         /\ plan \in Seq(Objects)
         /\ runs \in 0..MaxRuns
         /\ edits \in 0..MaxEdits
         /\ faults \in 0..MaxFaults
  <1>1. next \in Nat \ {0}
    BY DEF TypeOK
  <1>2. next \in Nat /\ next >= 1
    BY <1>1
  <1>3. plan \in Seq(Objects)
    BY DEF TypeOK
  <1>4. runs \in 0..MaxRuns /\ edits \in 0..MaxEdits /\ faults \in 0..MaxFaults
    BY DEF TypeOK
  <1> QED
    BY <1>2, <1>3, <1>4

\* Counting a fault stays within the bound.
LEMMA FaultType ==
  ASSUME TypeOK, Fault \/ UNCHANGED faults
  PROVE  faults' \in 0..MaxFaults
  <1>1. CASE Fault
    BY <1>1, Numbers, BoundsAssumption DEF Fault
  <1> QED
    BY <1>1, Numbers

\* The reference of a config is the name of a secret or nil.
LEMMA RefType ==
  ASSUME TypeOK, NEW c \in Configs
  PROVE  source[c].ref \in Refs
  BY DEF TypeOK, ConfigVal

\* The plan stays, or an object is added at its end.
LEMMA PlanType ==
  ASSUME TypeOK, NEW o \in Objects, plan' \in {plan, Append(plan, o)}
  PROVE  plan' \in Seq(Objects)
  <1>1. plan \in Seq(Objects)
    BY Numbers
  <1>2. Append(plan, o) \in Seq(Objects)
    BY <1>1
  <1> QED
    BY <1>1, <1>2

\* Every step keeps the types.
LEMMA TypeStep == TypeOK /\ [Next]_vars => TypeOK'
  <1> SUFFICES ASSUME TypeOK, [Next]_vars PROVE TypeOK'
    OBVIOUS
  <1>1. ASSUME NEW r \in BOOLEAN, NEW d \in BOOLEAN,
               getCrs([requireOwners |-> r, dryRun |-> d])
        PROVE  TypeOK'
    <2>1. faults' \in 0..MaxFaults
      BY <1>1, FaultType DEF getCrs
    <2>2. runs < MaxRuns /\ runs' = runs + 1
      BY <1>1 DEF getCrs
    <2>3. runs' \in 0..MaxRuns
      BY <2>2, Numbers, BoundsAssumption
    <2>4. /\ flags' \in [requireOwners: BOOLEAN, dryRun: BOOLEAN]
          /\ pc' \in {"idle", "config"}
          /\ outcome' \in {"", "error"}
          /\ moved' = {} /\ leaked' = {} /\ theirs' = target
      BY <1>1 DEF getCrs, Return
    <2>5. next' \in Nat \ {0} /\ plan' \in Seq(Objects)
      <3>1. next' = 1 /\ plan' = <<>>
        BY <1>1 DEF getCrs
      <3> QED
        BY <3>1
    <2>6. UNCHANGED <<source, owners, target, edits>>
      BY <1>1 DEF getCrs, clusterVars
    <2> QED
      BY <2>1, <2>3, <2>4, <2>5, <2>6 DEF TypeOK
  <1>2. CASE getObjsToBeMoved
    <2>1. faults' \in 0..MaxFaults
      BY <1>2, FaultType DEF getObjsToBeMoved
    <2>2. Order[next] \in Configs /\ Order[next] \in Objects /\ next \in 1..Len(Order)
      BY <1>2, Numbers, OrderType DEF getObjsToBeMoved, Objects
    <2>3. plan' \in Seq(Objects)
      <3>1. plan' \in {plan, Append(plan, Order[next])}
        BY <1>2, Zenon DEF getObjsToBeMoved
      <3> QED
        BY <2>2, <3>1, PlanType
    <2>4. next' \in Nat \ {0} /\ pc' \in {"idle", "config", "secret"}
      BY <1>2, Numbers DEF getObjsToBeMoved, Return
    <2>5. pc' = "secret" => next' <= Len(Order) /\ source[Order[next']].ref # NoRef
      BY <1>2 DEF getObjsToBeMoved, Return
    <2>6. outcome' \in {outcome, "differs", "error"}
      BY <1>2 DEF getObjsToBeMoved, Return
    <2> QED
      BY <1>2, <2>1, <2>3, <2>4, <2>5, <2>6
         DEF getObjsToBeMoved, clusterVars, boundVars, TypeOK
  <1>3. CASE getSecret
    <2>1. faults' \in 0..MaxFaults
      BY <1>3, FaultType DEF getSecret
    <2>0. next <= Len(Order)
      BY <1>3 DEF getSecret, TypeOK
    <2>2. Order[next] \in Configs
      BY <2>0, Numbers, OrderType
    <2>3. source[Order[next]].ref \in Objects
      BY <1>3, <2>2, RefType DEF getSecret, TypeOK, Refs, Objects
    <2>4. plan' \in Seq(Objects)
      <3>1. plan' \in {plan, Append(plan, source[Order[next]].ref)}
        BY <1>3, Zenon DEF getSecret
      <3> QED
        BY <2>3, <3>1, PlanType
    <2>5. next' \in Nat \ {0} /\ pc' \in {"idle", "config"}
      BY <1>3, Numbers DEF getSecret, Return
    <2>6. outcome' \in {outcome, "error"}
      BY <1>3 DEF getSecret, Return
    <2> QED
      BY <1>3, <2>1, <2>4, <2>5, <2>6 DEF getSecret, clusterVars, boundVars, TypeOK
  <1>4. CASE Planned
    <2>1. next' \in Nat \ {0}
      BY <1>4 DEF Planned
    <2>2. /\ pc' \in {"idle", "move"} /\ outcome' \in {outcome, "planned"}
          /\ UNCHANGED <<source, owners, target, plan, moved, flags, theirs, leaked,
                         runs, edits, faults>>
      BY <1>4 DEF Planned, Return, clusterVars, boundVars
    <2> QED
      BY <2>1, <2>2 DEF TypeOK
  <1>5. CASE moveObjs
    <2>1. faults' \in 0..MaxFaults
      BY <1>5, FaultType DEF moveObjs
    <2>2. plan[next] \in Objects
      BY <1>5, Numbers DEF moveObjs
    <2>3. target' \in [Objects -> ObjectVal]
      BY <1>5, <2>2, CreatedType DEF moveObjs, TypeOK
    <2>4. next' \in Nat \ {0} /\ pc' \in {"move", "cleanup"}
      BY <1>5, Numbers DEF moveObjs
    <2>5. moved' \subseteq Objects /\ leaked' \subseteq Objects
      BY <1>5, <2>2 DEF moveObjs, TypeOK
    <2> QED
      BY <1>5, <2>1, <2>3, <2>4, <2>5 DEF moveObjs, clusterVars, boundVars, TypeOK
  <1>6. CASE Moved
    BY <1>6 DEF Moved, Return, clusterVars, boundVars, TypeOK
  <1>7. CASE cleanup
    <2>1. faults' \in 0..MaxFaults
      BY <1>7, FaultType DEF cleanup
    <2>2. target' \in [Objects -> ObjectVal]
      BY <1>7 DEF cleanup, TypeOK, ObjectVal
    <2>3. moved' \subseteq Objects /\ leaked' \subseteq Objects
      BY <1>7 DEF cleanup, TypeOK
    <2> QED
      BY <1>7, <2>1, <2>2, <2>3 DEF cleanup, clusterVars, boundVars, TypeOK
  <1>8. CASE CleanedUp
    BY <1>8 DEF CleanedUp, Return, clusterVars, boundVars, TypeOK
  <1>9. CASE Killed
    <2>1. faults' \in 0..MaxFaults
      BY <1>9, FaultType DEF Killed
    <2> QED
      BY <1>9, <2>1 DEF Killed, Return, clusterVars, boundVars, TypeOK
  <1>10. ASSUME NEW o \in Objects, NEW v \in TargetOf(o), OtherCreates(o, v)
         PROVE  TypeOK'
    <2>1. v \in ObjectVal
      BY DEF TargetOf, ObjectVal
    <2>2. edits' \in 0..MaxEdits
      BY <1>10, Numbers, BoundsAssumption DEF OtherCreates
    <2> QED
      BY <1>10, <2>1, <2>2 DEF OtherCreates, clusterVars, TypeOK
  <1>11. CASE UNCHANGED vars
    BY <1>11 DEF vars, TypeOK
  <1> QED
    BY <1>1, <1>2, <1>3, <1>4, <1>5, <1>6, <1>7, <1>8, <1>9, <1>10, <1>11 DEF Next

\* A run of the command has not begun.
LEMMA TypeInit == Init => TypeOK
  <1> SUFFICES ASSUME Init PROVE TypeOK
    OBVIOUS
  <1>1. next \in Nat \ {0} /\ plan \in Seq(Objects)
    <2>1. next = 1 /\ plan = <<>>
      BY DEF Init
    <2> QED
      BY <2>1
  <1>2. runs \in 0..MaxRuns /\ edits \in 0..MaxEdits /\ faults \in 0..MaxFaults
    <2>1. runs = 0 /\ edits = 0 /\ faults = 0
      BY DEF Init
    <2> QED
      BY <2>1, BoundsAssumption
  <1> QED
    BY <1>1, <1>2 DEF Init, TypeOK, SourceOf

\* The plan and the clean-up list name objects of the source cluster, and the
\* loops stay within them.
THEOREM TypeCorrect == Spec => []TypeOK
  BY TypeInit, TypeStep, PTL DEF Spec
-----------------------------------------------------------------------------
(***************************************************************************)
(* The target cluster: what differs from before is what this run created   *)
(* or a failed request left.                                               *)
(***************************************************************************)
Clean ==
  /\ OthersUntouched
  /\ \A o \in moved : theirs[o] = Absent /\ target[o] # Absent
  /\ pc \in {"config", "secret"} => moved = {} /\ leaked = {}
  /\ pc # "idle" => \A o \in Objects \ (moved \cup leaked) : target[o] = theirs[o]
  /\ OnlyFaultsLeak

\* The plan names objects that the source cluster has.
PlanExists == \A j \in 1..Len(plan) : source[plan[j]] # Absent

\* A config of the source cluster exists.
LEMMA ConfigExists ==
  ASSUME TypeOK, NEW c \in Configs
  PROVE  source[c] \in ConfigVal /\ source[c] # Absent
  BY NamesAssumption DEF TypeOK

\* getObjsToBeMoved and getSecret append what they found in the source cluster.
LEMMA PlanStep == TypeOK /\ PlanExists /\ [Next]_vars => PlanExists'
  <1> SUFFICES ASSUME TypeOK, PlanExists, [Next]_vars PROVE PlanExists'
    OBVIOUS
  <1>1. UNCHANGED source
    BY DEF Next, vars, clusterVars, getCrs, getObjsToBeMoved, getSecret, Planned,
           moveObjs, Moved, cleanup, CleanedUp, Killed, OtherCreates
  <1>2. ASSUME NEW o \in Objects, plan' = Append(plan, o), source[o] # Absent
        PROVE  PlanExists'
    <2>1. \A j \in 1..Len(plan') : plan'[j] = o \/ (j \in 1..Len(plan) /\ plan'[j] = plan[j])
      BY <1>2, Numbers
    <2> QED
      BY <1>1, <1>2, <2>1 DEF PlanExists
  <1>3. CASE plan' = plan
    BY <1>1, <1>3 DEF PlanExists
  <1>4. CASE plan' = <<>>
    BY <1>4 DEF PlanExists
  <1>5. CASE getObjsToBeMoved
    <2>1. Order[next] \in Configs /\ Order[next] \in Objects
      BY <1>5, Numbers, OrderType DEF getObjsToBeMoved, Objects
    <2>2. plan' = plan \/ plan' = Append(plan, Order[next])
      BY <1>5 DEF getObjsToBeMoved
    <2> QED
      BY <1>2, <1>3, <2>1, <2>2, ConfigExists
  <1>6. CASE getSecret
    <2>1. pc = "secret" /\ next <= Len(Order) /\ source[Order[next]].ref # NoRef
      BY <1>6 DEF getSecret, TypeOK
    <2>2. source[Order[next]].ref \in Objects
      BY <2>1, Numbers, OrderType, RefType DEF Refs, Objects
    <2>3. \/ plan' = plan
          \/ /\ plan' = Append(plan, source[Order[next]].ref)
             /\ source[source[Order[next]].ref] # Absent
      BY <1>6 DEF getSecret
    <2> QED
      BY <1>2, <1>3, <2>2, <2>3
  <1>7. plan' = plan \/ plan' = <<>> \/ getObjsToBeMoved \/ getSecret
    BY DEF Next, vars, clusterVars, getCrs, Planned,
           moveObjs, Moved, cleanup, CleanedUp, Killed, OtherCreates
  <1> QED
    BY <1>3, <1>4, <1>5, <1>6, <1>7

\* Every step keeps Clean.
LEMMA CleanStep == TypeOK /\ PlanExists /\ Clean /\ [Next]_vars => Clean'
  <1> SUFFICES ASSUME TypeOK, PlanExists, Clean, [Next]_vars PROVE Clean'
    OBVIOUS
  <1>1. ASSUME NEW f, getCrs(f)
        PROVE  Clean'
    BY <1>1 DEF getCrs, Return, Clean, OthersUntouched, OnlyFaultsLeak
  <1>2. CASE getObjsToBeMoved \/ getSecret \/ Planned
    <2>1. /\ pc \in {"config", "secret"}
          /\ UNCHANGED <<target, theirs, moved, leaked>>
      BY <1>2 DEF getObjsToBeMoved, getSecret, Planned
    <2> QED
      BY <2>1 DEF Clean, OthersUntouched, OnlyFaultsLeak
  <1>3. CASE moveObjs
    <2>1. plan[next] \in Objects
      BY <1>3, Numbers DEF moveObjs
    <2>2. UNCHANGED theirs /\ pc = "move" /\ pc' \in {"move", "cleanup"}
      BY <1>3 DEF moveObjs
    <2>3. CASE UNCHANGED <<target, moved, leaked>>
      BY <2>2, <2>3 DEF Clean, OthersUntouched, OnlyFaultsLeak
    <2>4. CASE /\ target[plan[next]] = Absent
               /\ target' = [target EXCEPT ![plan[next]] = Created(plan[next])]
               /\ moved' \cup leaked' = moved \cup leaked \cup {plan[next]}
               /\ moved' \subseteq moved \cup {plan[next]}
      <3>1. theirs[plan[next]] = Absent
        BY <2>1, <2>4 DEF Clean, OthersUntouched
      <3>2. \A o \in Objects \ {plan[next]} : target'[o] = target[o]
        BY <2>1, <2>4 DEF TypeOK
      <3>3. target'[plan[next]] # Absent
        <4>1. next \in 1..Len(plan)
          BY <1>3, Numbers DEF moveObjs
        <4>2. Created(plan[next]) # Absent
          BY <2>1, <4>1, CreatedType DEF PlanExists
        <4> QED
          BY <2>1, <2>4, <4>2 DEF TypeOK
      <3>4. moved \subseteq Objects
        BY DEF TypeOK
      <3> QED
        BY <2>1, <2>2, <2>4, <3>1, <3>2, <3>3, <3>4 DEF Clean, OthersUntouched, OnlyFaultsLeak
    <2> QED
      BY <1>3, <2>3, <2>4 DEF moveObjs
  <1>4. CASE cleanup
    <2>1. PICK o \in moved :
            /\ moved' = moved \ {o}
            /\ \/ target' = [target EXCEPT ![o] = Absent] /\ UNCHANGED leaked
               \/ leaked' = leaked \cup {o} /\ UNCHANGED target
      BY <1>4 DEF cleanup
    <2>2. UNCHANGED <<theirs, pc>> /\ pc = "cleanup" /\ o \in Objects /\ theirs[o] = Absent
      BY <1>4, <2>1 DEF cleanup, Clean, TypeOK
    <2>3. \A p \in Objects : target'[p] = target[p] \/ (p = o /\ target'[p] = Absent)
      BY <2>1, <2>2 DEF TypeOK
    <2>4. CASE target' = [target EXCEPT ![o] = Absent] /\ UNCHANGED leaked
      <3>1. target'[o] = Absent
        BY <2>2, <2>4 DEF TypeOK
      <3> QED
        BY <2>1, <2>2, <2>3, <2>4, <3>1 DEF Clean, OthersUntouched, OnlyFaultsLeak
    <2>5. CASE leaked' = leaked \cup {o} /\ UNCHANGED target
      BY <2>1, <2>2, <2>5 DEF Clean, OthersUntouched, OnlyFaultsLeak
    <2> QED
      BY <2>1, <2>4, <2>5
  <1>5. CASE Moved \/ CleanedUp \/ Killed
    <2>1. /\ UNCHANGED <<target, theirs, moved, leaked>>
          /\ pc # "idle" /\ pc' = "idle"
          /\ outcome' = "error" => moved = {}
          /\ outcome' \notin {"differs", "planned"}
      BY <1>5 DEF Moved, CleanedUp, Killed, Return
    <2> QED
      BY <2>1 DEF Clean, OthersUntouched, OnlyFaultsLeak
  <1>6. ASSUME NEW o \in Objects, NEW v \in TargetOf(o), OtherCreates(o, v)
        PROVE  Clean'
    <2>1. /\ target[o] = Absent
          /\ UNCHANGED <<pc, moved, leaked, outcome>>
          /\ \A p \in Objects : IF p = o THEN target'[p] = v /\ theirs'[p] = v
                                         ELSE target'[p] = target[p] /\ theirs'[p] = theirs[p]
      BY <1>6 DEF OtherCreates, TypeOK
    <2>2. moved \subseteq Objects
      BY DEF TypeOK
    <2> QED
      BY <2>1, <2>2 DEF Clean, OthersUntouched, OnlyFaultsLeak
  <1>7. CASE UNCHANGED vars
    BY <1>7 DEF vars, Clean, OthersUntouched, OnlyFaultsLeak
  <1> QED
    BY <1>1, <1>2, <1>3, <1>4, <1>5, <1>6, <1>7 DEF Next
\* A run has not created anything before it begins.
LEMMA CleanInit == Init => PlanExists /\ Clean
  <1> SUFFICES ASSUME Init PROVE PlanExists /\ Clean
    OBVIOUS
  <1>1. plan = <<>> /\ moved = {} /\ leaked = {} /\ theirs = target
    BY DEF Init
  <1> QED
    BY <1>1 DEF PlanExists, Clean, OthersUntouched, OnlyFaultsLeak

\* The target cluster is clean in every reachable state.
LEMMA AlwaysClean == Spec => [](TypeOK /\ PlanExists /\ Clean)
  BY TypeInit, TypeStep, PlanStep, CleanStep, CleanInit, PTL DEF Spec

\* An object of the target cluster that a run has not created is never changed
\* and never deleted by it, whatever other clients create in the meantime: a
\* Create that finds the object there fails, and cleanup deletes only what a
\* Create has returned.
THEOREM NeverTouchesOthers == Spec => []OthersUntouched
  <1>1. Clean => OthersUntouched
    BY DEF Clean
  <1> QED
    BY <1>1, AlwaysClean, PTL

\* After an error the target cluster is as it was before the run, but for the
\* objects whose Create or Delete request was answered with an error.
THEOREM ErrorsLeaveNothing == Spec => []OnlyFaultsLeak
  <1>1. Clean => OnlyFaultsLeak
    BY DEF Clean
  <1> QED
    BY <1>1, AlwaysClean, PTL
-----------------------------------------------------------------------------
(***************************************************************************)
(* Completeness.                                                           *)
(***************************************************************************)
InPlan(o) == \E j \in 1..Len(plan) : plan[j] = o

\* The secret r of a planned config is there, or will be.
SecretHandled(r) ==
  r # NoRef => source[r] # Absent /\ (InPlan(r) \/ theirs[r] = source[r])

\* The config is there and refers to no other secret.
Kept(c) == theirs[c] # Absent /\ theirs[c].ref \in {source[c].ref, NoRef}

\* After success every config has arrived or was there.
Successful ==
  pc = "idle" /\ outcome = "moved" => \A c \in Configs : Kept(c) \/ Arrived(c)

\* The config needs no move, or is planned together with its secret.
Handled(c) == Kept(c) \/ (InPlan(c) /\ SecretHandled(source[c].ref))

Complete ==
  /\ pc \in {"config", "secret"} =>
       \A i \in 1..Len(Order) : i < next => Handled(Order[i])
  /\ pc = "secret" => InPlan(Order[next])
  /\ pc = "move" =>
       /\ \A c \in Configs : Handled(c)
       /\ \A j \in 1..Len(plan) : j < next => plan[j] \in moved
       /\ \A o \in moved : target[o] = Created(o) /\ ~OwnerMissing(o)
  /\ Successful

\* What is handled stays so while the plan grows and others create objects.
LEMMA HandledStays ==
  ASSUME TypeOK, UNCHANGED source,
         \A o : InPlan(o) => InPlan(o)',
         \A o \in Objects : theirs[o] # Absent => theirs'[o] = theirs[o],
         NEW c \in Configs, Handled(c)
  PROVE  Handled(c)'
  <1>1. source[c] # Absent /\ c \in Objects
    BY ConfigExists DEF Objects
  <1>2. CASE Kept(c)
    BY <1>1, <1>2 DEF Handled, Kept
  <1>3. CASE InPlan(c) /\ SecretHandled(source[c].ref)
    <2>1. source[c].ref # NoRef => source[c].ref \in Objects
      BY RefType DEF Refs, Objects
    <2>2. SecretHandled(source[c].ref)'
      BY <1>3, <2>1 DEF SecretHandled
    <2> QED
      BY <1>3, <2>2 DEF Handled
  <1> QED
    BY <1>2, <1>3 DEF Handled

\* A config that was there has arrived, or something of it is overlooked.
LEMMA KeptIsDone ==
  ASSUME TypeOK, OthersUntouched, NEW c \in Configs, Kept(c)
  PROVE  Arrived(c) \/ ReferenceOverlooked(c) \/ SecretOverlooked(c)
  <1> DEFINE r == source[c].ref
  <1>1. c \in Objects /\ target[c] = theirs[c] /\ theirs[c] # Absent
    BY DEF Objects, Kept, OthersUntouched
  <1>2. CASE theirs[c].ref # r
    BY <1>1, <1>2 DEF Kept, ReferenceOverlooked
  <1>3. CASE theirs[c].ref = r /\ r = NoRef
    BY <1>1, <1>3 DEF Arrived
  <1>4. CASE theirs[c].ref = r /\ r # NoRef
    <2>1. r \in Objects
      BY <1>4, RefType DEF Refs, Objects
    <2>2. CASE theirs[r] = Absent \/ theirs[r] # source[r]
      BY <1>1, <1>4, <2>2 DEF SecretOverlooked
    <2>3. CASE theirs[r] # Absent /\ theirs[r] = source[r]
      <3>1. target[r] # Absent /\ target[r] = source[r]
        BY <2>1, <2>3 DEF OthersUntouched
      <3> QED
        BY <1>1, <1>4, <3>1 DEF Arrived
    <2> QED
      BY <2>2, <2>3
  <1> QED
    BY <1>2, <1>3, <1>4

\* When all that was planned is created, every config has arrived or was there.
LEMMA AllArrived ==
  ASSUME TypeOK, Clean, Complete, pc = "move", next > Len(plan), NEW c \in Configs
  PROVE  Kept(c) \/ Arrived(c)
  <1>1. /\ c \in Objects /\ source[c] \in ConfigVal /\ source[c] # Absent
        /\ Handled(c)
    BY ConfigExists DEF Objects, Complete
  <1>2. ASSUME NEW o \in Objects, InPlan(o)
        PROVE  target[o] = Created(o) /\ ~OwnerMissing(o) /\ target[o] # Absent
    <2>1. PICK j \in 1..Len(plan) : plan[j] = o
      BY <1>2 DEF InPlan
    <2>2. j < next
      BY <2>1, Numbers
    <2>3. o \in moved
      BY <2>1, <2>2 DEF Complete
    <2> QED
      BY <2>3 DEF Complete, Clean
  <1>4. CASE InPlan(c) /\ SecretHandled(source[c].ref)
    <2>1. target[c] = Created(c) /\ ~OwnerMissing(c) /\ target[c] # Absent
      BY <1>1, <1>2, <1>4
    <2>2. /\ target[c].ref = source[c].ref
          /\ source[c].owner = "source" =>
               target[c].owner = IF c \in owners THEN "target" ELSE "none"
          /\ source[c].owner # "source" => target[c].owner = source[c].owner
      BY <1>1, <2>1, CreatedType
    <2>3. flags.requireOwners => target[c].owner # "none" \/ source[c].owner = "none"
      BY <2>1, <2>2 DEF OwnerMissing
    <2>4. ASSUME source[c].ref # NoRef
          PROVE  /\ target[source[c].ref] # Absent
                 /\ target[source[c].ref] = source[source[c].ref]
      <3> DEFINE r == source[c].ref
      <3>1. r \in Objects /\ r \notin Configs
        BY <2>4, RefType, NamesAssumption DEF Refs, Objects
      <3>2. source[r] # Absent /\ (InPlan(r) \/ theirs[r] = source[r])
        BY <1>4, <2>4 DEF SecretHandled
      <3>3. CASE InPlan(r)
        BY <1>2, <3>1, <3>2, <3>3, CreatedType
      <3>4. CASE theirs[r] = source[r]
        BY <3>1, <3>2, <3>4 DEF Clean, OthersUntouched
      <3> QED
        BY <3>2, <3>3, <3>4
    <2> QED
      BY <2>1, <2>2, <2>3, <2>4 DEF Arrived
  <1> QED
    BY <1>1, <1>4 DEF Handled

\* A plan that grows by one object holds it and all it held.
LEMMA AppendPlan ==
  ASSUME TypeOK, NEW o \in Objects, plan' = Append(plan, o)
  PROVE  InPlan(o)' /\ \A p : InPlan(p) => InPlan(p)'
  <1>1. /\ Len(plan) \in Nat
        /\ Len(plan') = Len(plan) + 1
        /\ plan'[Len(plan) + 1] = o
        /\ \A j \in 1..Len(plan) : plan'[j] = plan[j]
    BY Numbers
  <1>2. InPlan(o)'
    BY <1>1 DEF InPlan
  <1>3. \A p : InPlan(p) => InPlan(p)'
    BY <1>1 DEF InPlan
  <1> QED
    BY <1>2, <1>3

\* The loop of getObjsToBeMoved handles one config after the other.
LEMMA PlanningStep ==
  ASSUME TypeOK, Clean, Complete, getObjsToBeMoved \/ getSecret
  PROVE  Complete'
  <1>1. pc \in {"config", "secret"} /\ next <= Len(Order)
    BY DEF getObjsToBeMoved, getSecret, TypeOK
  <1> PICK c \in Configs : c = Order[next]
    BY <1>1, Numbers, OrderType
  <1>2. c \in Objects /\ source[c] # Absent
    BY ConfigExists DEF Objects
  <1>3. \A o \in Objects : target[o] = theirs[o]
    BY <1>1 DEF Clean
  <1>4. UNCHANGED <<source, theirs>>
    BY DEF getObjsToBeMoved, getSecret, clusterVars
  <1>5. CASE pc' = "idle" /\ outcome' # "moved"
    BY <1>5 DEF Complete, Successful
  <1>6. ASSUME plan' = plan \/ \E o \in Objects : plan' = Append(plan, o)
        PROVE  \A p : InPlan(p) => InPlan(p)'
    BY <1>6, AppendPlan DEF InPlan
  <1>7. ASSUME plan' = plan \/ \E o \in Objects : plan' = Append(plan, o)
        PROVE  \A d \in Configs : Handled(d) => Handled(d)'
    BY <1>4, <1>6, <1>7, HandledStays
  <1>8. ASSUME plan' = plan \/ \E o \in Objects : plan' = Append(plan, o),
               pc' = "config", next' = next + 1, Handled(c)'
        PROVE  Complete'
    <2>1. ASSUME NEW i \in 1..Len(Order), i < next'
          PROVE  Handled(Order[i])'
      <3>1. CASE i = next
        BY <1>8, <3>1
      <3>2. CASE i # next
        <4>1. i < next
          BY <1>8, <2>1, <3>2, Numbers
        <4>2. Handled(Order[i]) /\ Order[i] \in Configs
          BY <1>1, <4>1, OrderType DEF Complete
        <4> QED
          BY <1>7, <1>8, <4>2
      <3> QED
        BY <3>1, <3>2
    <2> QED
      BY <1>8, <2>1 DEF Complete, Successful
  <1>9. CASE getObjsToBeMoved
    <2>1. CASE plan' = Append(plan, c) /\ pc' = "config" /\ next' = next + 1
                 /\ source[c].ref = NoRef
      BY <1>2, <1>4, <1>8, <2>1, AppendPlan DEF Handled, SecretHandled
    <2>2. CASE plan' = Append(plan, c) /\ pc' = "secret" /\ next' = next
      <3>1. InPlan(c)'
        BY <1>2, <2>2, AppendPlan
      <3>2. \A i \in 1..Len(Order) : i < next' => Handled(Order[i])'
        BY <1>1, <1>2, <1>7, <2>2, OrderType DEF Complete
      <3> QED
        BY <2>2, <3>1, <3>2 DEF Complete, Successful
    <2>3. CASE Same(c) /\ plan' = plan /\ pc' = pc /\ next' = next + 1
      <3>1. Handled(c)'
        BY <1>2, <1>3, <1>4, <2>3 DEF Same, Handled, Kept
      <3> QED
        BY <1>8, <1>9, <2>3, <3>1 DEF getObjsToBeMoved
    <2> QED
      BY <1>5, <1>9, <2>1, <2>2, <2>3 DEF getObjsToBeMoved, Return
  <1>10. CASE getSecret
    <2> PICK s \in Objects : s = source[c].ref
      BY <1>10, RefType DEF getSecret, TypeOK, Refs, Objects
    <2>1. InPlan(c) /\ s # NoRef
      BY <1>10 DEF getSecret, Complete, TypeOK
    <2>2. CASE source[s] # Absent /\ plan' = Append(plan, s) /\ pc' = "config"
                 /\ next' = next + 1
      <3>1. InPlan(c)' /\ InPlan(s)'
        BY <2>1, <2>2, AppendPlan
      <3>2. Handled(c)'
        BY <1>4, <2>2, <3>1 DEF Handled, SecretHandled
      <3> QED
        BY <1>8, <2>1, <2>2, <3>2
    <2>3. CASE source[s] # Absent /\ Same(s) /\ plan' = plan /\ pc' = "config"
                 /\ next' = next + 1
      <3>0. s \in Objects /\ s \notin Configs
        BY <2>1, RefType, NamesAssumption DEF Refs, Objects
      <3>1. theirs[s] = source[s] /\ InPlan(c)'
        BY <1>3, <1>6, <2>1, <2>3, <3>0 DEF Same
      <3>2. Handled(c)'
        BY <1>4, <2>3, <3>1 DEF Handled, SecretHandled
      <3> QED
        BY <1>8, <2>3, <3>2
    <2> QED
      BY <1>5, <1>10, <2>2, <2>3 DEF getSecret, Return
  <1> QED
    BY <1>9, <1>10

\* moveObjs creates one object after the other, as planned.
LEMMA MovingStep ==
  ASSUME TypeOK, Clean, Complete, moveObjs
  PROVE  Complete'
  <1> DEFINE o == plan[next]
  <1>1. pc = "move" /\ UNCHANGED <<source, owners, plan, flags, theirs>>
    BY DEF moveObjs, clusterVars
  <1>2. CASE pc' = "cleanup"
    BY <1>2 DEF Complete, Successful
  <1>3. CASE /\ pc' = "move" /\ ~OwnerMissing(o) /\ next' = next + 1
             /\ target' = [target EXCEPT ![o] = Created(o)]
             /\ moved' = moved \cup {o}
    <2>1. \A c \in Configs : Handled(c)'
      BY <1>1, HandledStays DEF Complete, InPlan
    <2>2. ASSUME NEW j \in 1..Len(plan), j < next'
          PROVE  plan[j] \in moved'
      <3>1. j = next \/ j < next
        BY <1>3, <2>2, Numbers
      <3> QED
        BY <1>1, <1>3, <3>1 DEF Complete
    <2>3. ASSUME NEW p \in moved'
          PROVE  target'[p] = Created(p) /\ ~OwnerMissing(p)
      <3>1. p \in Objects /\ (p = o \/ p \in moved)
        <4>1. o \in Objects
          BY Numbers DEF moveObjs
        <4> QED
          BY <1>3, <4>1 DEF TypeOK
      <3>2. CASE p = o
        BY <1>3, <3>1, <3>2 DEF TypeOK
      <3>3. CASE p # o
        BY <1>1, <1>3, <3>1, <3>3 DEF Complete, TypeOK
      <3> QED
        BY <3>2, <3>3
    <2>4. \A p : Created(p)' = Created(p) /\ OwnerMissing(p)' = OwnerMissing(p)
      BY <1>1 DEF Created, OwnerMissing
    <2> QED
      BY <1>1, <1>3, <2>1, <2>2, <2>3, <2>4 DEF Complete, Successful
  <1> QED
    BY <1>1, <1>2, <1>3 DEF moveObjs

\* What has arrived stays: others only create objects that are not there.
LEMMA ArrivedStays ==
  ASSUME TypeOK, OthersUntouched, NEW c \in Configs, Kept(c) \/ Arrived(c),
         UNCHANGED <<source, owners, flags>>,
         \A o \in Objects : target[o] # Absent => target'[o] = target[o] /\ theirs'[o] = theirs[o]
  PROVE  (Kept(c) \/ Arrived(c))'
  <1>1. c \in Objects
    BY DEF Objects
  <1>2. source[c].ref # NoRef => source[c].ref \in Objects
    BY RefType DEF Refs, Objects
  <1>3. CASE Kept(c)
    BY <1>1, <1>3 DEF Kept, OthersUntouched
  <1>4. CASE Arrived(c)
    BY <1>1, <1>2, <1>4 DEF Arrived
  <1> QED
    BY <1>3, <1>4

\* Every step keeps Complete.
LEMMA CompleteStep == TypeOK /\ Clean /\ Complete /\ [Next]_vars => Complete'
  <1> SUFFICES ASSUME TypeOK, Clean, Complete, [Next]_vars PROVE Complete'
    OBVIOUS
  <1>1. ASSUME NEW f, getCrs(f)
        PROVE  Complete'
    <2>1. next' = 1 /\ pc' \in {"idle", "config"} /\ outcome' # "moved"
      BY <1>1 DEF getCrs, Return
    <2>2. \A i \in 1..Len(Order) : ~(i < next')
      BY <2>1, OrderType
    <2> QED
      BY <2>1, <2>2 DEF Complete, Successful
  <1>2. CASE getObjsToBeMoved \/ getSecret
    BY <1>2, PlanningStep
  <1>3. CASE Planned
    <2>1. /\ pc = "config" /\ next > Len(Order) /\ next' = 1
          /\ UNCHANGED <<source, owners, target, plan, moved, flags, theirs>>
          /\ pc' = "move" \/ (pc' = "idle" /\ outcome' = "planned")
      BY <1>3 DEF Planned, Return, clusterVars
    <2>2. ASSUME NEW c \in Configs
          PROVE  Handled(c)'
      <3>1. PICK i \in 1..Len(Order) : Order[i] = c
        BY OrderAssumption
      <3>2. i < next
        BY <2>1, <3>1, Numbers, OrderType
      <3>3. Handled(c)
        BY <2>1, <3>1, <3>2 DEF Complete
      <3> QED
        BY <2>1, <3>3, HandledStays DEF InPlan
    <2>3. \A j \in 1..Len(plan') : ~(j < next')
      BY <2>1, Numbers
    <2>4. moved' = {}
      BY <2>1 DEF Clean
    <2> QED
      BY <2>1, <2>2, <2>3, <2>4 DEF Complete, Successful
  <1>4. CASE moveObjs
    BY <1>4, MovingStep
  <1>5. CASE Moved
    <2>1. /\ pc = "move" /\ next > Len(plan) /\ pc' = "idle"
          /\ UNCHANGED <<source, owners, target, flags, theirs>>
      BY <1>5 DEF Moved, Return, clusterVars
    <2>2. \A c \in Configs : (Kept(c) \/ Arrived(c))'
      BY <2>1, AllArrived, ArrivedStays DEF Clean
    <2> QED
      BY <2>1, <2>2 DEF Complete, Successful
  <1>6. CASE cleanup \/ CleanedUp \/ Killed
    <2>1. pc' = "cleanup" \/ (pc' = "idle" /\ outcome' # "moved")
      BY <1>6 DEF cleanup, CleanedUp, Killed, Return
    <2> QED
      BY <2>1 DEF Complete, Successful
  <1>7. ASSUME NEW o \in Objects, NEW v \in TargetOf(o), OtherCreates(o, v)
        PROVE  Complete'
    <2>1. /\ target[o] = Absent
          /\ UNCHANGED <<source, owners, pc, next, plan, moved, flags, outcome>>
          /\ \A p \in Objects : p # o => target'[p] = target[p] /\ theirs'[p] = theirs[p]
      BY <1>7 DEF OtherCreates, clusterVars, TypeOK
    <2>2. \A p \in Objects : theirs[p] # Absent => theirs'[p] = theirs[p]
      BY <2>1 DEF Clean, OthersUntouched
    <2>3. \A c \in Configs : Handled(c) => Handled(c)'
      BY <2>1, <2>2, HandledStays DEF InPlan
    <2>4. \A c \in Configs : Kept(c) \/ Arrived(c) => (Kept(c) \/ Arrived(c))'
      BY <2>1, ArrivedStays DEF Clean
    <2>5. \A p \in moved : p \in Objects /\ p # o
      BY <2>1 DEF Clean, TypeOK
    <2>6. \A p : Created(p)' = Created(p) /\ OwnerMissing(p)' = OwnerMissing(p)
      BY <2>1 DEF Created, OwnerMissing
    <2>7. /\ pc' \in {"config", "secret"} =>
               \A i \in 1..Len(Order) : i < next' => Handled(Order[i])'
          /\ pc' = "secret" => InPlan(Order[next])'
      BY <2>1, <2>3, OrderType DEF Complete, InPlan
    <2>8. pc' = "move" =>
            /\ \A c \in Configs : Handled(c)'
            /\ \A j \in 1..Len(plan') : j < next' => plan'[j] \in moved'
            /\ \A p \in moved' : target'[p] = Created(p)' /\ ~OwnerMissing(p)'
      BY <2>1, <2>3, <2>5, <2>6 DEF Complete
    <2>9. Successful'
      BY <2>1, <2>4 DEF Complete, Successful
    <2> QED
      BY <2>7, <2>8, <2>9 DEF Complete
  <1>8. CASE UNCHANGED vars
    <2>1. UNCHANGED <<source, target, owners, pc, next, plan, moved, flags,
                      outcome, theirs>>
      BY <1>8 DEF vars
    <2>2. \A c \in Configs :
            Handled(c)' = Handled(c) /\ Kept(c)' = Kept(c) /\ Arrived(c)' = Arrived(c)
      BY <2>1 DEF Handled, Kept, SecretHandled, InPlan, Arrived
    <2>3. \A p : Created(p)' = Created(p) /\ OwnerMissing(p)' = OwnerMissing(p)
      BY <2>1 DEF Created, OwnerMissing
    <2>4. /\ pc' \in {"config", "secret"} =>
               \A i \in 1..Len(Order) : i < next' => Handled(Order[i])'
          /\ pc' = "secret" => InPlan(Order[next])'
      BY <2>1, <2>2, OrderType DEF Complete, InPlan
    <2>5. Successful'
      BY <2>1, <2>2 DEF Complete, Successful
    <2>6. pc' = "move" =>
            /\ \A c \in Configs : Handled(c)'
            /\ \A j \in 1..Len(plan') : j < next' => plan'[j] \in moved'
            /\ \A p \in moved' : target'[p] = Created(p)' /\ ~OwnerMissing(p)'
      BY <2>1, <2>2, <2>3 DEF Complete
    <2> QED
      BY <2>4, <2>5, <2>6 DEF Complete
  <1> QED
    BY <1>1, <1>2, <1>3, <1>4, <1>5, <1>6, <1>7, <1>8 DEF Next

\* A run of Move (cmdutils/move.go) that reports success has put every config of
\* the source cluster, with its secret and the owner it should have, into the
\* target cluster, even if others create objects between plan and creation.  The
\* exceptions are configs that were there already, without the reference or with
\* another secret or none.
THEOREM SuccessMeansMoved == Spec => []SuccessIsComplete
  <1>1. Init => Complete
    BY DEF Init, Complete, Successful
  <1>2. TypeOK /\ Clean /\ Complete => SuccessIsComplete
    BY KeptIsDone DEF Complete, Successful, SuccessIsComplete, Clean
  <1> QED
    BY <1>1, <1>2, AlwaysClean, CompleteStep, PTL DEF Spec
-----------------------------------------------------------------------------
(***************************************************************************)
(* Failures: a move into an empty cluster is not in its own way.           *)
(***************************************************************************)
\* Nothing but a shared secret would be to blame for an error.
Favourable ==
  /\ SecretsAreApart
  /\ faults = 0
  /\ \A o \in Objects : theirs[o] = Absent
  /\ \A c \in Configs : source[c].ref # NoRef => source[source[c].ref] # Absent
  /\ ~flags.requireOwners

\* The object is one that the loop in getObjsToBeMoved has met by now: a config,
\* or the secret of one that is done.
Met(o) ==
  \E i \in 1..Len(Order) :
    \/ o = Order[i] /\ (i < next \/ (i = next /\ pc = "secret"))
    \/ o = source[Order[i]].ref /\ o # NoRef /\ i < next

NoRepeats == \A j, k \in 1..Len(plan) : plan[j] = plan[k] => j = k

Smooth ==
  /\ faults = 0 => leaked = {}
  /\ Favourable =>
       /\ pc # "cleanup" /\ outcome # "error"
       /\ NoRepeats
       /\ pc \in {"config", "secret"} => \A j \in 1..Len(plan) : Met(plan[j])
       /\ pc = "move" => \A o \in moved : \E j \in 1..Len(plan) : j < next /\ plan[j] = o

\* A plan that grows by an object it does not hold has no repeats.
LEMMA AppendNew ==
  ASSUME TypeOK, NoRepeats, NEW o \in Objects, plan' = Append(plan, o), ~InPlan(o)
  PROVE  /\ NoRepeats'
         /\ \A j \in 1..Len(plan') : plan'[j] = o \/ \E k \in 1..Len(plan) : plan'[j] = plan[k]
  <1>1. /\ Len(plan) \in Nat
        /\ Len(plan') = Len(plan) + 1
        /\ plan'[Len(plan) + 1] = o
        /\ \A j \in 1..Len(plan) : plan'[j] = plan[j]
    BY Numbers
  <1>2. \A j \in 1..Len(plan') : j \in 1..Len(plan) \/ j = Len(plan) + 1
    BY <1>1
  <1>3. \A j \in 1..Len(plan) : plan[j] # o
    BY DEF InPlan
  <1> QED
    BY <1>1, <1>2, <1>3 DEF NoRepeats

\* The circumstances change with a new run and with what others do only.
LEMMA FavourableStays ==
  ASSUME UNCHANGED <<source, theirs, flags>>, faults' = 0 => faults = 0, Favourable'
  PROVE  Favourable
  BY DEF Favourable, SecretsAreApart

\* While planning nothing is in the target cluster, and what is met next has not
\* been met.
LEMMA SmoothPlanning ==
  ASSUME TypeOK, Clean, Smooth, getObjsToBeMoved \/ getSecret
  PROVE  Smooth'
  <1>1. /\ pc \in {"config", "secret"} /\ next \in 1..Len(Order)
        /\ UNCHANGED <<source, theirs, flags, leaked, moved>>
        /\ faults' = faults \/ Fault
    <2>1. /\ pc \in {"config", "secret"} /\ next <= Len(Order)
          /\ UNCHANGED <<source, theirs, flags, leaked, moved>>
      BY DEF getObjsToBeMoved, getSecret, clusterVars, TypeOK
    <2>2. faults' = faults \/ Fault
      BY DEF getObjsToBeMoved, getSecret
    <2> QED
      BY <2>1, <2>2, Numbers, OrderType
  <1>2. faults' = 0 => faults = 0 /\ ~Fault
    BY <1>1, Numbers DEF Fault
  <1>3. SUFFICES ASSUME Favourable'
                 PROVE  /\ pc' # "cleanup" /\ outcome' # "error"
                        /\ NoRepeats'
                        /\ pc' \in {"config", "secret"} =>
                             (\A j \in 1..Len(plan) : Met(plan[j]))'
                        /\ pc' = "move" => FALSE
    BY <1>1, <1>2 DEF Smooth
  <1>4. Favourable /\ ~Fault
    BY <1>1, <1>2, <1>3, FavourableStays DEF Favourable
  <1>5. /\ outcome # "error" /\ NoRepeats
        /\ \A j \in 1..Len(plan) : Met(plan[j])
    BY <1>1, <1>4 DEF Smooth
  <1>6. \A o \in Objects : target[o] = Absent
    BY <1>1, <1>4 DEF Clean, Favourable
  <1> PICK c \in Configs : c = Order[next]
    BY <1>1, OrderType
  <1>7. c \in Objects /\ target[c] = Absent /\ ~Same(c)
    BY <1>6 DEF Objects, Same
  <1>8. \A i \in 1..Len(Order) : 
          i < next => Order[i] # c /\ source[Order[i]].ref \notin Configs \ {NoRef}
    <2>1. ASSUME NEW i \in 1..Len(Order), i < next
          PROVE  Order[i] # c /\ source[Order[i]].ref \notin Configs \ {NoRef}
      <3>1. i # next
        BY <1>1, <2>1, OrderType
      <3>2. Order[i] # c
        BY <1>1, <3>1, OrderAssumption
      <3>3. source[Order[i]].ref \notin Configs \ {NoRef}
        BY OrderType, RefType, NamesAssumption DEF Refs
      <3> QED
        BY <3>2, <3>3
    <2> QED
      BY <2>1
  <1>9. CASE getObjsToBeMoved
    <2>1. /\ pc = "config" /\ plan' = Append(plan, c) /\ UNCHANGED outcome
          /\ IF source[c].ref = NoRef THEN next' = next + 1 /\ pc' = "config"
             ELSE next' = next /\ pc' = "secret"
      BY <1>4, <1>7, <1>9 DEF getObjsToBeMoved
    <2>2. ~InPlan(c)
      BY <1>5, <1>8, <2>1 DEF InPlan, Met
    <2>3. NoRepeats' /\ \A j \in 1..Len(plan') :
                          plan'[j] = c \/ \E k \in 1..Len(plan) : plan'[j] = plan[k]
      BY <1>5, <1>7, <2>1, <2>2, AppendNew
    <2>4. \A o : Met(o) => Met(o)'
      BY <1>1, <2>1, OrderType DEF Met
    <2>5. Met(c)'
      BY <1>1, <2>1 DEF Met
    <2> QED
      BY <1>5, <2>1, <2>3, <2>4, <2>5
  <1>10. CASE getSecret
    <2> PICK s \in Secrets : s = source[c].ref
      BY <1>10, RefType DEF getSecret, TypeOK, Refs
    <2>1. pc = "secret" /\ s # NoRef
      BY <1>10 DEF getSecret, TypeOK
    <2>2. s \in Objects /\ source[s] # Absent /\ target[s] = Absent
      BY <1>4, <1>6, <2>1 DEF Objects, Favourable
    <2>3. s \notin Configs /\ ~Same(s)
      BY <2>2, NamesAssumption DEF Same
    <2>4. /\ plan' = Append(plan, s) /\ next' = next + 1 /\ pc' = "config"
          /\ UNCHANGED outcome
      BY <1>4, <1>10, <2>2, <2>3 DEF getSecret
    <2>5. ASSUME NEW i \in 1..Len(Order), i < next
          PROVE  source[Order[i]].ref # s
      <3>1. Order[i] # c /\ Order[i] \in Configs
        BY <1>8, <2>5, OrderType
      <3> QED
        BY <1>4, <2>1, <3>1 DEF Favourable, SecretsAreApart
    <2>6. ~InPlan(s)
      <3>1. \A i \in 1..Len(Order) : Order[i] # s
        BY <2>3, OrderType
      <3> QED
        BY <1>5, <2>5, <3>1 DEF InPlan, Met
    <2>7. NoRepeats' /\ \A j \in 1..Len(plan') :
                          plan'[j] = s \/ \E k \in 1..Len(plan) : plan'[j] = plan[k]
      BY <1>5, <2>2, <2>4, <2>6, AppendNew
    <2>8. next < next' /\ \A i \in 1..Len(Order) : i <= next => i < next'
      BY <1>1, <2>4, OrderType
    <2>9. \A o : Met(o) => Met(o)'
      BY <1>1, <2>8, OrderType DEF Met
    <2>10. Met(s)'
      BY <1>1, <2>1, <2>8 DEF Met
    <2> QED
      BY <1>5, <2>4, <2>7, <2>9, <2>10
  <1> QED
    BY <1>9, <1>10

\* What is to be created next is not there: nobody else has created it, and the
\* plan holds it once.
LEMMA SmoothMoving ==
  ASSUME TypeOK, Clean, Smooth, moveObjs
  PROVE  Smooth'
  <1> DEFINE o == plan[next]
  <1>1. /\ pc = "move" /\ next \in 1..Len(plan) /\ o \in Objects
        /\ UNCHANGED <<source, theirs, flags, plan, outcome>>
        /\ (faults' = faults /\ leaked' = leaked) \/ Fault
    BY Numbers DEF moveObjs, clusterVars
  <1>2. faults' = 0 => faults = 0 /\ ~Fault /\ leaked' = leaked
    BY <1>1, Numbers DEF Fault
  <1>3. SUFFICES ASSUME Favourable'
                 PROVE  /\ pc' # "cleanup" /\ outcome' # "error"
                        /\ NoRepeats'
                        /\ pc' = "move"
                        /\ \A p \in moved' : \E j \in 1..Len(plan') : j < next' /\ plan'[j] = p
    BY <1>1, <1>2 DEF Smooth
  <1>4. Favourable /\ ~Fault /\ leaked = {}
    BY <1>1, <1>2, <1>3, FavourableStays DEF Favourable, Smooth
  <1>5. /\ outcome # "error" /\ NoRepeats
        /\ \A p \in moved : \E j \in 1..Len(plan) : j < next /\ plan[j] = p
    BY <1>1, <1>4 DEF Smooth
  <1>6. o \notin moved
    <2>1. \A j \in 1..Len(plan) : j < next => plan[j] # o
      BY <1>1, <1>5, Numbers DEF NoRepeats
    <2> QED
      BY <1>5, <2>1
  <1>7. target[o] = Absent /\ ~OwnerMissing(o)
    BY <1>1, <1>4, <1>6 DEF Clean, Favourable, OwnerMissing
  <1>8. pc' = pc /\ moved' = moved \cup {o} /\ next' = next + 1
    BY <1>4, <1>7 DEF moveObjs
  <1>9. next < next' /\ \A j \in 1..Len(plan) : j < next => j < next'
    BY <1>1, <1>8, Numbers
  <1>10. NoRepeats'
    BY <1>1, <1>5 DEF NoRepeats
  <1> QED
    BY <1>1, <1>5, <1>8, <1>9, <1>10

\* Every step keeps Smooth.
LEMMA SmoothStep == TypeOK /\ Clean /\ Smooth /\ [Next]_vars => Smooth'
  <1> SUFFICES ASSUME TypeOK, Clean, Smooth, [Next]_vars PROVE Smooth'
    OBVIOUS
  <1>0. faults \in Nat
    BY Numbers, BoundsAssumption
  <1>1. ASSUME NEW f, getCrs(f)
        PROVE  Smooth'
    <2>1. /\ plan' = <<>> /\ leaked' = {} /\ pc' \in {"idle", "config"}
          /\ (outcome' = "" \/ faults' = faults + 1)
      BY <1>1 DEF getCrs, Return, Fault
    <2>2. 1..Len(plan') = {}
      <3>1. Len(plan') = 0
        BY <2>1
      <3> QED
        BY <3>1
    <2>3. faults' = 0 => outcome' = ""
      <3>1. faults + 1 # 0
        BY <1>0
      <3> QED
        BY <2>1, <3>1
    <2> QED
      BY <2>1, <2>2, <2>3 DEF Smooth, Favourable, NoRepeats
  <1>2. CASE getObjsToBeMoved \/ getSecret
    BY <1>2, SmoothPlanning
  <1>3. CASE Planned
    <2>1. /\ pc = "config" /\ pc' \in {"idle", "move"} /\ outcome' \in {outcome, "planned"}
          /\ UNCHANGED <<source, theirs, flags, plan, moved, leaked, faults>>
      BY <1>3 DEF Planned, Return, clusterVars
    <2>2. moved' = {}
      BY <2>1 DEF Clean
    <2>3. Favourable' => Favourable
      BY <2>1, FavourableStays
    <2> QED
      BY <2>1, <2>2, <2>3 DEF Smooth, NoRepeats
  <1>4. CASE moveObjs
    BY <1>4, SmoothMoving
  <1>5. CASE Moved \/ cleanup \/ CleanedUp \/ Killed
    <2>1. /\ UNCHANGED <<source, theirs, flags, plan>>
          /\ (faults' = faults /\ leaked' = leaked) \/ faults' = faults + 1
          /\ \/ pc = "cleanup"
             \/ pc' = "idle" /\ outcome' \in {"moved", "killed"}
      BY <1>5 DEF Moved, cleanup, CleanedUp, Killed, Return, Fault, clusterVars
    <2>2. faults' = 0 => faults = 0 /\ leaked' = leaked
      BY <1>0, <2>1
    <2>3. Favourable' => Favourable
      BY <2>1, <2>2, FavourableStays
    <2> QED
      BY <2>1, <2>2, <2>3 DEF Smooth, NoRepeats
  <1>6. ASSUME NEW o \in Objects, NEW v \in TargetOf(o), OtherCreates(o, v)
        PROVE  Smooth'
    <2>1. theirs'[o] = v /\ UNCHANGED <<faults, leaked>>
      BY <1>6 DEF OtherCreates, TypeOK
    <2>2. v # Absent
      BY NamesAssumption DEF TargetOf
    <2> QED
      BY <2>1, <2>2 DEF Smooth, Favourable
  <1>7. CASE UNCHANGED vars
    <2>1. Favourable' => Favourable
      BY <1>7, FavourableStays DEF vars
    <2> QED
      BY <1>7, <2>1 DEF vars, Smooth, NoRepeats, Met
  <1> QED
    BY <1>1, <1>2, <1>3, <1>4, <1>5, <1>6, <1>7 DEF Next

\* A secret that configs share is all that makes a move into an empty cluster
\* fail, if no request fails, the secrets exist and owners are not required:
\* getObjsToBeMoved plans every other object once, so that Create never finds
\* an object of the run's own.
THEOREM SharingIsToBlame == Spec => []OnlySharingFails
  <1>1. Init => Smooth
    <2> SUFFICES ASSUME Init PROVE Smooth
      OBVIOUS
    <2>1. pc = "idle" /\ plan = <<>> /\ outcome = "" /\ leaked = {}
      BY DEF Init
    <2>2. NoRepeats
      <3>1. Len(plan) = 0
        BY <2>1
      <3> QED
        BY <3>1 DEF NoRepeats
    <2> QED
      BY <2>1, <2>2 DEF Smooth
  <1>2. Smooth => OnlySharingFails
    BY DEF Smooth, Favourable, OnlySharingFails, MoveIntoEmptySucceeds
  <1> QED
    BY <1>1, <1>2, AlwaysClean, SmoothStep, PTL DEF Spec
=============================================================================
