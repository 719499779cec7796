-------------------------------- MODULE Move --------------------------------
(***************************************************************************)
(* bootctl move (cmdutils/move.go): it copies the boot configs of a source *)
(* cluster, and the ignition secrets they refer to, to a target cluster.   *)
(* It first plans, by comparing the clusters object by object, then        *)
(* creates what the plan holds, and on an error deletes what it created.   *)
(*                                                                         *)
(* The source cluster is stable, as the documentation demands.  Requests   *)
(* may fail, with or without an effect, the command may be killed at any   *)
(* time and run again, and another client, such as an operator that runs   *)
(* in the target cluster, may create objects there meanwhile.              *)
(***************************************************************************)
EXTENDS Integers, Sequences

CONSTANTS Configs,      \* the boot configs of the source cluster
          Order,        \* and the order in which they are listed
          Secrets,      \* the names of ignition secrets
          NoRef,        \* spec.ignitionSecretRef is nil
          Data,         \* contents of a secret
          Absent,       \* there is no such object
          States,       \* values of status.state
          MaxRuns,      \* bound on the runs of the command
          MaxEdits,     \* bound on the objects other clients create
          MaxFaults     \* bound on failed requests and kills

VARIABLES source,    \* the objects of the source cluster
          target,    \* the objects of the target cluster
          owners,    \* configs with an SBC of their name in the target cluster
          pc,        \* what the command is doing
          next,      \* the position in the loop it is in
          plan,      \* objsToMove
          moved,     \* movedObjs
          flags,     \* the options of the command line
          outcome,   \* how the last run ended
          theirs,    \* the target cluster without the objects of this run
          leaked,    \* objects whose creation or deletion failed
          runs, edits, faults

clusterVars == <<source, owners>>
boundVars == <<runs, edits>>
vars == <<source, target, owners, pc, next, plan, moved, flags, outcome,
          theirs, leaked, runs, edits, faults>>

Objects == Configs \cup Secrets
Refs == Secrets \cup {NoRef}

\* Owner references: none, one to the SBC of the same name in the source or in
\* the target cluster (their UIDs differ), or several.
ConfigVal == [ref: Refs, owner: {"none", "source", "target", "several"},
              state: States]

ObjectVal == ConfigVal \cup Data \cup {Absent}

ASSUME OrderAssumption ==
  /\ Order \in Seq(Configs)
  /\ \A c \in Configs : \E i \in 1..Len(Order) : Order[i] = c
  /\ \A i, j \in 1..Len(Order) : Order[i] = Order[j] => i = j
ASSUME NamesAssumption ==
  /\ Configs \cap Secrets = {}
  /\ NoRef \notin Secrets
  /\ Absent \notin ConfigVal \cup Data
  /\ "" \in States
ASSUME BoundsAssumption == MaxRuns \in Nat /\ MaxEdits \in Nat /\ MaxFaults \in Nat

\* The objects a cluster may hold, configs being all there or not.
SourceOf(c) == {v \in ConfigVal : v.owner # "target"}
TargetOf(o) == IF o \in Configs THEN {v \in ConfigVal : v.owner \in {"none", "target"}}
                                ELSE Data

Init ==
  /\ source \in [Objects -> ObjectVal]
  /\ \A c \in Configs : source[c] \in SourceOf(c)
  /\ \A s \in Secrets : source[s] \in Data \cup {Absent}
  /\ target \in [Objects -> ObjectVal]
  /\ \A o \in Objects : target[o] \in TargetOf(o) \cup {Absent}
  /\ owners \in SUBSET Configs
  /\ pc = "idle"
  /\ next = 1
  /\ plan = <<>>
  /\ moved = {}
  /\ flags = [requireOwners |-> FALSE, dryRun |-> FALSE]
  /\ outcome = ""
  /\ theirs = target
  /\ leaked = {}
  /\ runs = 0 /\ edits = 0 /\ faults = 0

-----------------------------------------------------------------------------
Fault == faults < MaxFaults /\ faults' = faults + 1

\* The run ends.
Return(how) == pc' = "idle" /\ outcome' = how

\* Move up to the lists of the source cluster's configs.
getCrs(f) ==
  /\ pc = "idle"
  /\ runs < MaxRuns
  /\ runs' = runs + 1
  /\ flags' = f
  /\ next' = 1
  /\ plan' = <<>>
  /\ moved' = {}
  /\ theirs' = target
  /\ leaked' = {}
  /\ \/ pc' = "config" /\ outcome' = "" /\ UNCHANGED faults
     \/ Return("error") /\ Fault
  /\ UNCHANGED <<clusterVars, target, edits>>

\* The comparison of a config covers spec, status and owner references.  The
\* target object is read into a deep copy of the source object, and decoding
\* leaves alone what the answer does not have: what the target object lacks
\* counts as equal.  Secrets are read into fresh objects.
Same(o) ==
  IF o \in Configs
    THEN /\ target[o] # Absent
         /\ target[o].ref \in {source[o].ref, NoRef}
         /\ target[o].owner \in {source[o].owner, "none"}
         /\ target[o].state \in {source[o].state, ""}
    ELSE source[o] = target[o]

\* Mutation: a config without an ignition secret is not told apart.
getObjsToBeMovedWithSecret ==
  /\ pc = "config"
  /\ next <= Len(Order)
  /\ target[Order[next]] = Absent
  /\ plan' = Append(plan, Order[next])
  /\ pc' = "secret"
  /\ UNCHANGED <<clusterVars, target, next, moved, flags, outcome, theirs, leaked,
                 boundVars, faults>>

\* One config of the loop in getObjsToBeMoved, up to the call of getSecret.
getObjsToBeMoved ==
  /\ pc = "config"
  /\ next <= Len(Order)
  /\ LET c == Order[next]
     IN  \/ /\ target[c] = Absent
            /\ plan' = Append(plan, c)
            /\ IF source[c].ref = NoRef
                 THEN next' = next + 1 /\ pc' = "config"
                 ELSE next' = next /\ pc' = "secret"
            /\ UNCHANGED <<outcome, faults>>
         \/ /\ Same(c)
            /\ next' = next + 1
            /\ UNCHANGED <<plan, pc, outcome, faults>>
         \/ /\ target[c] # Absent /\ ~Same(c)
            /\ Return("differs")
            /\ UNCHANGED <<next, plan, faults>>
         \/ /\ Fault
            /\ Return("error")
            /\ UNCHANGED <<next, plan>>
  /\ UNCHANGED <<clusterVars, target, moved, flags, theirs, leaked, boundVars>>

getSecret ==
  /\ pc = "secret"
  /\ LET s == source[Order[next]].ref
     IN  \/ /\ source[s] # Absent /\ target[s] = Absent
            /\ plan' = Append(plan, s)
            /\ next' = next + 1
            /\ pc' = "config"
            /\ UNCHANGED <<outcome, faults>>
         \/ /\ source[s] # Absent /\ Same(s)
            /\ next' = next + 1
            /\ pc' = "config"
            /\ UNCHANGED <<plan, outcome, faults>>
         \/ /\ source[s] = Absent \/ (target[s] # Absent /\ ~Same(s))
            /\ Return("error")
            /\ UNCHANGED <<next, plan, faults>>
         \/ /\ Fault
            /\ Return("error")
            /\ UNCHANGED <<next, plan>>
  /\ UNCHANGED <<clusterVars, target, moved, flags, theirs, leaked, boundVars>>

\* Mutation: the loop ends one config too early.
PlannedEarly ==
  /\ pc = "config"
  /\ next >= Len(Order)
  /\ IF flags.dryRun THEN Return("planned") ELSE pc' = "move" /\ UNCHANGED outcome
  /\ next' = 1
  /\ UNCHANGED <<clusterVars, target, plan, moved, flags, theirs, leaked, boundVars, faults>>

\* The plan is complete.
Planned ==
  /\ pc = "config"
  /\ next > Len(Order)
  /\ IF flags.dryRun THEN Return("planned") ELSE pc' = "move" /\ UNCHANGED outcome
  /\ next' = 1
  /\ UNCHANGED <<clusterVars, target, plan, moved, flags, theirs, leaked, boundVars, faults>>

\* Mutation: the owner reference is dropped and not set again.
CreatedWithoutOwner(o) ==
  IF o \in Configs THEN [source[o] EXCEPT !.owner = "none", !.state = ""] ELSE source[o]

\* The object that is created: a config's single owner reference becomes one to
\* the SBC in the target cluster, if there is one; a create drops the status.
Created(o) ==
  IF o \in Configs
    THEN [source[o] EXCEPT
            !.owner = CASE @ = "source" /\ o \in owners    -> "target"
                        [] @ = "source" /\ o \notin owners -> "none"
                        [] OTHER                           -> @,
            !.state = ""]
    ELSE source[o]

\* Mutation: owners are required, whatever the flag says.
OwnerMissingAnyway(o) ==
  /\ o \in Configs
  /\ source[o].owner = "source"
  /\ o \notin owners

OwnerMissing(o) ==
  /\ o \in Configs
  /\ source[o].owner = "source"
  /\ o \notin owners
  /\ flags.requireOwners

\* One object of the loop in moveObjs.
moveObjs ==
  /\ pc = "move"
  /\ next <= Len(plan)
  /\ LET o == plan[next]
     IN  \/ /\ ~OwnerMissing(o)
            /\ target[o] = Absent
            /\ target' = [target EXCEPT ![o] = Created(o)]
            /\ moved' = moved \cup {o}
            /\ next' = next + 1
            /\ UNCHANGED <<pc, leaked, faults>>
         \/ /\ OwnerMissing(o) \/ target[o] # Absent
            /\ pc' = "cleanup"
            /\ UNCHANGED <<target, moved, next, leaked, faults>>
         \/ /\ Fault
            /\ pc' = "cleanup"
            /\ UNCHANGED <<target, moved, next, leaked>>
         \/ /\ Fault     \* the object is created and the answer is lost
            /\ ~OwnerMissing(o)
            /\ target[o] = Absent
            /\ target' = [target EXCEPT ![o] = Created(o)]
            /\ leaked' = leaked \cup {o}
            /\ pc' = "cleanup"
            /\ UNCHANGED <<moved, next>>
  /\ UNCHANGED <<clusterVars, plan, flags, outcome, theirs, boundVars>>

\* All is created.
Moved ==
  /\ pc = "move"
  /\ next > Len(plan)
  /\ Return("moved")
  /\ UNCHANGED <<clusterVars, target, next, plan, moved, flags, theirs, leaked, boundVars, faults>>

\* Mutation: cleanup deletes what was planned, not what was created.
cleanupPlan ==
  /\ pc = "cleanup"
  /\ moved # {}
  /\ moved' = {}
  /\ target' = [o \in Objects |-> IF \E j \in 1..Len(plan) : plan[j] = o
                                   THEN Absent ELSE target[o]]
  /\ UNCHANGED <<clusterVars, pc, next, plan, flags, outcome, theirs, leaked,
                 boundVars, faults>>

\* One object of the loop in cleanup, which goes on after an error.
cleanup ==
  /\ pc = "cleanup"
  /\ \E o \in moved :
       /\ moved' = moved \ {o}
       /\ \/ /\ target' = [target EXCEPT ![o] = Absent]
             /\ UNCHANGED <<leaked, faults>>
          \/ /\ Fault
             /\ leaked' = leaked \cup {o}
             /\ UNCHANGED target
  /\ UNCHANGED <<clusterVars, pc, next, plan, flags, outcome, theirs, boundVars>>

\* Mutation: cleanup may stop before its last object.
CleanedUpEarly ==
  /\ pc = "cleanup"
  /\ Return("error")
  /\ UNCHANGED <<clusterVars, target, next, plan, moved, flags, theirs, leaked, boundVars, faults>>

CleanedUp ==
  /\ pc = "cleanup"
  /\ moved = {}
  /\ Return("error")
  /\ UNCHANGED <<clusterVars, target, next, plan, moved, flags, theirs, leaked, boundVars, faults>>

-----------------------------------------------------------------------------
\* The command is killed: nothing is cleaned up.
Killed ==
  /\ pc # "idle"
  /\ Fault
  /\ Return("killed")
  /\ UNCHANGED <<clusterVars, target, next, plan, moved, flags, theirs, leaked, boundVars>>

\* Another client creates an object in the target cluster.
OtherCreates(o, v) ==
  /\ edits < MaxEdits
  /\ edits' = edits + 1
  /\ target[o] = Absent
  /\ target' = [target EXCEPT ![o] = v]
  /\ theirs' = [theirs EXCEPT ![o] = v]
  /\ UNCHANGED <<clusterVars, pc, next, plan, moved, flags, outcome, leaked, runs, faults>>

Next ==
  \/ \E r, d \in BOOLEAN : getCrs([requireOwners |-> r, dryRun |-> d])
  \/ getObjsToBeMoved \/ getSecret \/ Planned
  \/ moveObjs \/ Moved
  \/ cleanup \/ CleanedUp
  \/ Killed
  \/ \E o \in Objects : \E v \in TargetOf(o) : OtherCreates(o, v)

Spec == Init /\ [][Next]_vars

-----------------------------------------------------------------------------
(***************************************************************************)
(* Properties.                                                             *)
(***************************************************************************)
\* Type correctness: the plan holds objects of the source cluster, and what is
\* to be cleaned up is an object too.
TypeOK ==
  /\ source \in [Objects -> ObjectVal]
  /\ \A c \in Configs : source[c] \in ConfigVal
  /\ \A s \in Secrets : source[s] \in Data \cup {Absent}
  /\ target \in [Objects -> ObjectVal]
  /\ theirs \in [Objects -> ObjectVal]
  /\ owners \subseteq Configs
  /\ pc \in {"idle", "config", "secret", "move", "cleanup"}
  /\ next \in Nat \ {0}
  /\ pc = "secret" => next <= Len(Order) /\ source[Order[next]].ref # NoRef
  /\ plan \in Seq(Objects)
  /\ moved \subseteq Objects
  /\ leaked \subseteq Objects
  /\ flags \in [requireOwners: BOOLEAN, dryRun: BOOLEAN]
  /\ outcome \in {"", "planned", "moved", "differs", "error", "killed"}
  /\ runs \in 0..MaxRuns /\ edits \in 0..MaxEdits /\ faults \in 0..MaxFaults

\* An object of the target cluster that this run has not created is never
\* changed and never deleted, also if it appears after the plan was made or
\* if the plan names an object twice (Create in moveObjs, Delete in cleanup).
OthersUntouched ==
  \A o \in Objects : theirs[o] # Absent => target[o] = theirs[o]

\* A run that ends with an error has restored the target cluster, but for
\* objects whose creation or deletion was answered with an error.  Neither
\* a missing owner, nor a conflict, nor a failed read leaves anything behind.
OnlyFaultsLeak ==
  pc = "idle" /\ outcome \in {"error", "differs", "planned"} =>
    \A o \in Objects \ leaked : target[o] = theirs[o]

\* The config is in the target cluster with all its spec refers to: its secret
\* is there too and is the one of the source cluster.  If the run has put it
\* there, it has an owner if the source cluster knows one and the target cluster
\* has it; "no ownership [...] will be set" on one that was found.
Arrived(c) ==
  LET ref == source[c].ref
  IN /\ target[c] # Absent
     /\ target[c].ref = ref
     /\ ref # NoRef => target[ref] # Absent /\ target[ref] = source[ref]
     /\ theirs[c] = Absent =>
          /\ source[c].owner = "source" =>
               target[c].owner = IF c \in owners THEN "target" ELSE "none"
          /\ flags.requireOwners => target[c].owner # "none" \/ source[c].owner = "none"

\* Two ways in which a config was in the target cluster without having arrived,
\* and the run takes it for done.  It lacks the reference to its secret, which
\* the Get into a copy of the source object fills in before they are compared.
ReferenceOverlooked(c) ==
  theirs[c] # Absent /\ theirs[c].ref = NoRef /\ source[c].ref # NoRef

\* Or its secret is missing or another one, as a run leaves it that is killed
\* after the config: the secret of a config that was found is not looked at.
SecretOverlooked(c) ==
  LET ref == source[c].ref
  IN /\ theirs[c] # Absent /\ theirs[c].ref = ref /\ ref # NoRef
     /\ theirs[ref] = Absent \/ theirs[ref] # source[ref]

\* A run that reports success ("all CRs with theirs secrets [...] were moved")
\* has moved everything it was to move, also if other clients created objects
\* after the plan was made - except for what it overlooks in a target cluster
\* that was not empty.
SuccessIsComplete ==
  pc = "idle" /\ outcome = "moved" =>
    \A c \in Configs : Arrived(c) \/ ReferenceOverlooked(c) \/ SecretOverlooked(c)

-----------------------------------------------------------------------------
(***************************************************************************)
(* What the documentation says, which the code does not do.                *)
(***************************************************************************)
\* A move of configs whose secrets exist into an empty target cluster succeeds
\* unless owners are required or a request fails.
MoveIntoEmptySucceeds ==
  /\ faults = 0
  /\ \A o \in Objects : theirs[o] = Absent
  /\ \A c \in Configs : source[c].ref # NoRef => source[source[c].ref] # Absent
  /\ ~flags.requireOwners
  => outcome # "error"

\* No two configs refer to the same ignition secret.
SecretsAreApart ==
  \A c, d \in Configs : source[c].ref # NoRef /\ source[c].ref = source[d].ref => c = d

\* A secret that configs share is all that makes such a move fail: otherwise
\* what a run has planned and created is never in its own way, in whichever
\* order the configs are listed (getObjsToBeMoved, moveObjs).
OnlySharingFails == SecretsAreApart => MoveIntoEmptySucceeds
=============================================================================
