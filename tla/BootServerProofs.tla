-------------------------- MODULE BootServerProofs --------------------------
(***************************************************************************)
(* For any number of requests and boot configs, any owners, spellings and  *)
(* addresses, and any changes of the world between two reads: what the     *)
(* boot server selects, answers and records.                               *)
(***************************************************************************)
EXTENDS BootServer, InformerProofs, FiniteSetTheorems, SequenceTheorems,
        WellFoundedInduction

-----------------------------------------------------------------------------
(***************************************************************************)
(* Facts about the operators.                                              *)
(***************************************************************************)
\* A set of positions that is not empty has a first one.
LEMMA FirstExists ==
  ASSUME NEW S \in SUBSET Nat, S # {}
  PROVE  \E i \in S : \A j \in S : i <= j
  <1> DEFINE less == {p \in Nat \X Nat : p[1] < p[2]}
  <1>1. less = OpToRel(<, Nat)
    BY DEF OpToRel
  <1>2. IsWellFoundedOn(less, Nat)
    BY <1>1, NatLessThanWellFounded
  <1>3. PICK i \in S : \A j \in S : ~(<<j, i>> \in less)
    <2> HIDE DEF less
    <2> QED
      BY <1>2, WFMin
  <1>4. \A j \in S : i \in Nat /\ j \in Nat /\ ~(j < i)
    BY <1>3
  <1> QED
    BY <1>4

\* There are two condition types.
LEMMA TwoTypes == Cardinality(Types) = 2
  <1>1. Types = {"IPXEScriptFetched"} \cup {"IgnitionDataFetched"}
    BY DEF Types
  <1>2. /\ IsFiniteSet({"IPXEScriptFetched"})
        /\ Cardinality({"IPXEScriptFetched"}) = 1
        /\ "IgnitionDataFetched" \notin {"IPXEScriptFetched"}
    BY FS_Singleton
  <1> QED
    BY <1>1, <1>2, FS_AddElement

\* A list of conditions is a sequence of types without a repetition.
LEMMA ConditionListsType ==
  \A q \in ConditionLists :
    q \in Seq(Types) /\ \A i, j \in DOMAIN q : q[i] = q[j] => i = j
  BY TwoTypes, SeqDef DEF ConditionLists

\* A new config has no conditions.
LEMMA NewType ==
  ASSUME NEW u \in UIDs
  PROVE  New(u) \in ObjectOfName /\ New(u).conditions = <<>>
  <1>1. <<>> \in ConditionLists
    BY TwoTypes DEF ConditionLists
  <1> QED
    BY <1>1 DEF New, ObjectOfName

\* Setting a condition does not repeat a type (updateCondition).
LEMMA UpdateConditionType ==
  ASSUME NEW q \in ConditionLists, NEW type \in Types
  PROVE  /\ updateCondition(q, type) \in ConditionLists
         /\ ToSet(updateCondition(q, type)) = ToSet(q) \cup {type}
  <1>1. CASE type \in ToSet(q)
    BY <1>1 DEF updateCondition
  <1>2. CASE type \notin ToSet(q)
    <2>1. updateCondition(q, type) = Append(q, type)
      BY <1>2 DEF updateCondition
    <2>2. PICK n \in 0..2 : q \in [1..n -> Types]
      BY TwoTypes DEF ConditionLists
    <2>3. \A i, j \in 1..n : q[i] = q[j] => i = j
      BY <2>2 DEF ConditionLists
    <2>4. \A i \in 1..n : q[i] # type
      BY <1>2, <2>2 DEF ToSet
    <2>5. n # 2
      <3> SUFFICES ASSUME n = 2 PROVE FALSE
        OBVIOUS
      <3>1. q[1] \in Types /\ q[2] \in Types /\ q[1] # q[2] /\ q[1] # type /\ q[2] # type
        BY <2>2, <2>3, <2>4
      <3> QED
        BY <3>1 DEF Types
    <2>6. q \in Seq(Types) /\ Len(q) = n
      BY <2>2, SeqDef
    <2>7. /\ Append(q, type) \in [1..n + 1 -> Types]
          /\ \A i \in 1..n : Append(q, type)[i] = q[i]
          /\ Append(q, type)[n + 1] = type
      <3>1. /\ Append(q, type) \in Seq(Types)
            /\ Len(Append(q, type)) = n + 1
            /\ \A i \in 1..n : Append(q, type)[i] = q[i]
            /\ Append(q, type)[n + 1] = type
        BY <2>6, AppendProperties
      <3>2. Append(q, type) \in [1..n + 1 -> Types]
        BY <3>1, LenProperties
      <3> QED
        BY <3>1, <3>2
    <2>8. n + 1 \in 0..2
      BY <2>5
    <2>9. \A i, j \in 1..n + 1 : Append(q, type)[i] = Append(q, type)[j] => i = j
      BY <2>2, <2>3, <2>4, <2>7
    <2>10. Append(q, type) \in ConditionLists
      BY <2>7, <2>8, <2>9, TwoTypes DEF ConditionLists
    <2>11. ToSet(Append(q, type)) = ToSet(q) \cup {type}
      BY <2>2, <2>7 DEF ToSet
    <2> QED
      BY <2>1, <2>10, <2>11
  <1> QED
    BY <1>1, <1>2

\* The items of a request that the given ServerBootConfigurations own.
OwnedBy(q, refs) == {i \in DOMAIN q.items : Owner(q, i) \in refs \ {NoRef}}
FirstOf(S) == CHOOSE i \in S : \A j \in S : i <= j

\* What a listing knows of its items: their names, and who owns them.
LEMMA OwnerType ==
  ASSUME NEW q \in RequestVal, NEW i \in DOMAIN q.items
  PROVE  /\ q.items \in Seq(Item)
         /\ i \in 1..Len(q.items)
         /\ q.items[i] \in Item
         /\ q.items[i].name \in Configs
         /\ Owner(q, i) \in SBCs \cup {NoRef}
  <1>1. q.items \in Seq(Item)
    BY DEF RequestVal
  <1>2. i \in 1..Len(q.items) /\ q.items[i] \in Item
    BY <1>1
  <1>3. q.items[i].name \in Configs
    BY <1>2 DEF Item
  <1> QED
    BY <1>1, <1>2, <1>3, ObjectAssumption DEF Owner, ObjectVal

\* The first of some items is one of them.
LEMMA FirstOfType ==
  ASSUME NEW q \in RequestVal, NEW S \in SUBSET (DOMAIN q.items), S # {}
  PROVE  FirstOf(S) \in S
  <1>1. S \in SUBSET Nat
    BY OwnerType
  <1>2. \E i \in S : \A j \in S : i <= j
    BY <1>1, FirstExists
  <1> QED
    BY <1>2 DEF FirstOf

\* resolveServer goes on with an item that has an owner, and passes the items
\* before it.
LEMMA NextOwnerType ==
  ASSUME NEW q \in RequestVal, q.next # 0, NextOwner(q) # 0
  PROVE  NextOwner(q) \in DOMAIN q.items /\ Owner(q, NextOwner(q)) \in SBCs
  <1> DEFINE named == {i \in q.next..Len(q.items) : Owner(q, i) # NoRef}
  <1>1. q.next \in Nat /\ q.items \in Seq(Item)
    BY DEF RequestVal
  <1>2. named \in SUBSET (DOMAIN q.items)
    BY <1>1
  <1>3. named # {} /\ NextOwner(q) = FirstOf(named)
    BY DEF NextOwner, FirstOf
  <1>4. NextOwner(q) \in named
    BY <1>2, <1>3, FirstOfType
  <1> QED
    BY <1>2, <1>4, OwnerType

\* preferredBootConfigIndex selects an item whose owner the Server names: the
\* one for maintenance in maintenance, the workload's otherwise, where listed.
LEMMA PreferredIndex ==
  ASSUME NEW q \in RequestVal, NEW s \in ServerVal,
         preferredBootConfigIndex(q, s) # 0
  PROVE  LET i == preferredBootConfigIndex(q, s)
             listed(sbc) == sbc # NoRef /\ \E j \in DOMAIN q.items : Owner(q, j) = sbc
         IN /\ i \in DOMAIN q.items
            /\ Owner(q, i) \in {s.boot, s.maintenance} \ {NoRef}
            /\ s.state = "Maintenance" /\ listed(s.maintenance)
                 => Owner(q, i) = s.maintenance
            /\ s.state # "Maintenance" /\ listed(s.boot) => Owner(q, i) = s.boot
  <1> DEFINE i == preferredBootConfigIndex(q, s)
             M == OwnedBy(q, {s.maintenance})
             B == OwnedBy(q, {s.boot})
             V == OwnedBy(q, {s.boot, s.maintenance})
             inMaintenance == s.state = "Maintenance" /\ M # {}
  <1>1. /\ V # {}
        /\ Cardinality(V) = 1 => i = FirstOf(V)
        /\ Cardinality(V) # 1 /\ inMaintenance => i = FirstOf(M)
        /\ Cardinality(V) # 1 /\ ~inMaintenance => B # {} /\ i = FirstOf(B)
    <2> DEFINE F == IF s.state = "Maintenance" THEN M ELSE {}
    <2>1. i = IF V = {} THEN 0
              ELSE IF Cardinality(V) = 1 THEN FirstOf(V)
              ELSE IF F # {} THEN FirstOf(F)
              ELSE IF B # {} THEN FirstOf(B) ELSE 0
      BY DEF preferredBootConfigIndex, OwnedBy, FirstOf
    <2>2. i # 0
      OBVIOUS
    <2>3. inMaintenance <=> F # {}
      OBVIOUS
    <2>4. inMaintenance => F = M
      OBVIOUS
    <2> HIDE DEF i, M, B, V, F, inMaintenance
    <2> QED
      BY <2>1, <2>2, <2>3, <2>4
  <1>2. /\ M \in SUBSET (DOMAIN q.items) /\ B \in SUBSET (DOMAIN q.items)
        /\ V \in SUBSET (DOMAIN q.items) /\ V = M \cup B
        /\ \A j \in M : Owner(q, j) = s.maintenance /\ s.maintenance # NoRef
        /\ \A j \in B : Owner(q, j) = s.boot /\ s.boot # NoRef
    BY DEF OwnedBy
  <1>3. IsFiniteSet(V)
    <2> HIDE DEF M, B, V
    <2>1. DOMAIN q.items = 1..Len(q.items) /\ Len(q.items) \in Nat
      BY DEF RequestVal
    <2>2. IsFiniteSet(DOMAIN q.items)
      BY <2>1, FS_Interval
    <2> QED
      BY <1>2, <2>2, FS_Subset
  <1>4. /\ s.state = "Maintenance" /\ M # {} => i \in M
        /\ s.state # "Maintenance" /\ B # {} => i \in B
        /\ i \in M \cup B
    <2> HIDE DEF i, M, B, V
    <2>1. CASE Cardinality(V) = 1
      <3>1. PICK x : V = {x}
        BY <1>3, <2>1, FS_Singleton
      <3>2. i \in V
        BY <1>1, <1>2, <2>1, FirstOfType
      <3> QED
        BY <1>2, <3>1, <3>2
    <2>2. CASE Cardinality(V) # 1 /\ inMaintenance
      BY <1>1, <1>2, <2>2, FirstOfType
    <2>3. CASE Cardinality(V) # 1 /\ ~inMaintenance
      BY <1>1, <1>2, <2>3, FirstOfType
    <2> QED
      BY <2>1, <2>2, <2>3
  <1>5. /\ \A j \in DOMAIN q.items : Owner(q, j) = s.maintenance /\ s.maintenance # NoRef => j \in M
        /\ \A j \in DOMAIN q.items : Owner(q, j) = s.boot /\ s.boot # NoRef => j \in B
    BY DEF OwnedBy
  <1> QED
    <2> HIDE DEF i, M, B, V
    <2>1. /\ i \in DOMAIN q.items
          /\ Owner(q, i) \in {s.boot, s.maintenance} \ {NoRef}
      BY <1>2, <1>4
    <2>2. ASSUME s.state = "Maintenance", s.maintenance # NoRef,
                 NEW j \in DOMAIN q.items, Owner(q, j) = s.maintenance
          PROVE  Owner(q, i) = s.maintenance
      BY <1>2, <1>4, <1>5, <2>2
    <2>3. ASSUME s.state # "Maintenance", s.boot # NoRef,
                 NEW j \in DOMAIN q.items, Owner(q, j) = s.boot
          PROVE  Owner(q, i) = s.boot
      BY <1>2, <1>4, <1>5, <2>3
    <2> QED
      BY <2>1, <2>2, <2>3 DEF i

\* A listing shows every config found, with the conditions of the cache.
LEMMA ListingType ==
  ASSUME TypeOK, NEW S \in SUBSET Configs, \A c \in S : Exists(c),
         NEW items \in Listings(S)
  PROVE  /\ items \in Seq(Item)
         /\ \A i \in DOMAIN items : /\ items[i].name \in S
                                    /\ items[i].object = Cached(conf[items[i].name])
  <1>1. PICK q \in SetToSeqs(S) :
          items = [i \in DOMAIN q |-> [name |-> q[i], object |-> Cached(conf[q[i]])]]
    BY DEF Listings
  <1>2. Cardinality(S) \in Nat
    BY ObjectAssumption, FS_Subset, FS_CardinalityType
  <1>3. q \in [1..Cardinality(S) -> S]
    BY DEF SetToSeqs
  <1>4. ASSUME NEW i \in 1..Cardinality(S)
        PROVE  items[i] \in Item /\ items[i].name \in S
               /\ items[i].object = Cached(conf[items[i].name])
    <2>1. items[i] = [name |-> q[i], object |-> Cached(conf[q[i]])] /\ q[i] \in S
      BY <1>1, <1>3
    <2>2. Cached(conf[q[i]]) \in ConfVal /\ Cached(conf[q[i]]) # Gone
      BY <2>1, ReadType DEF TypeOK, Exists
    <2> QED
      BY <2>1, <2>2 DEF Item, ConfVal
  <1>5. DOMAIN items = 1..Cardinality(S) /\ items = [i \in 1..Cardinality(S) |-> items[i]]
    BY <1>1, <1>3
  <1>6. items \in [1..Cardinality(S) -> Item]
    BY <1>4, <1>5
  <1>7. items \in Seq(Item)
    BY <1>2, <1>6, SeqDef
  <1> QED
    BY <1>4, <1>5, <1>7

-----------------------------------------------------------------------------
(***************************************************************************)
(* What the operators make of a request.                                   *)
(***************************************************************************)
\* What the client sent, and what was there when it asked, stay.
SameQuestion(q, n) == n.asked = q.asked /\ n.steady = q.steady /\ n.early = q.early

\* What has been selected stays.
SameSelection(q, n) == n.items = q.items /\ n.server = q.server /\ n.chosen = q.chosen

\* An answer ends the request and leaves the rest of it as it is.
LEMMA AnsweredType ==
  ASSUME NEW q \in RequestVal, NEW a \in Answers
  PROVE  /\ Answered(q, a) \in RequestVal
         /\ SameQuestion(q, Answered(q, a))
         /\ SameSelection(q, Answered(q, a))
         /\ Answered(q, a).at = q.at /\ Answered(q, a).next = q.next
         /\ Answered(q, a).pc = "answered" /\ Answered(q, a).answer = a
  BY DEF Answered, RequestVal, SameQuestion, SameSelection

\* A handler that finds nothing under its last key answers, except the
\* dispatcher, which turns to the HTTPBootConfigs.
LEMMA NoneFoundType ==
  ASSUME NEW q \in RequestVal, NEW n \in NoneFound(q)
  PROVE  /\ n \in RequestVal
         /\ SameQuestion(q, n)
         /\ SameSelection(q, n)
         /\ \/ /\ q.at = "dispatch" /\ n.at = "ignitionHTTP" /\ n.next = 1
               /\ n.pc = q.pc /\ n.answer = q.answer
            \/ /\ q.at # "dispatch" /\ n.at = q.at /\ n.pc = "answered"
               /\ n.answer \in {"404", "default", "500"}
  <1>1. CASE q.at = "dispatch"
    <2>1. n = [q EXCEPT !.at = "ignitionHTTP", !.next = 1]
      BY <1>1 DEF NoneFound
    <2> QED
      BY <1>1, <2>1 DEF RequestVal, Handlers, SameQuestion, SameSelection
  <1>2. CASE q.at # "dispatch"
    <2>1. PICK a \in {"404", "default", "500"} : n = Answered(q, a)
      BY <1>2, ObjectAssumption DEF NoneFound
    <2>2. a \in Answers
      BY DEF Answers
    <2> QED
      BY <1>2, <2>1, <2>2, AnsweredType
  <1> QED
    BY <1>1, <1>2

\* A handler that finds nothing under one key takes the next one.
LEMMA NextKeyType ==
  ASSUME NEW q \in RequestVal, NEW n \in NextKey(q)
  PROVE  \/ /\ q.next < Len(Keys(q))
            /\ n \in RequestVal
            /\ SameQuestion(q, n) /\ SameSelection(q, n)
            /\ n.at = q.at /\ n.next = q.next + 1 /\ n.pc = q.pc /\ n.answer = q.answer
         \/ ~(q.next < Len(Keys(q))) /\ n \in NoneFound(q)
  <1>1. CASE q.next < Len(Keys(q))
    <2>1. n = [q EXCEPT !.next = q.next + 1]
      BY <1>1 DEF NextKey
    <2>2. q.next + 1 \in Nat
      BY DEF RequestVal
    <2> QED
      BY <1>1, <2>1, <2>2 DEF RequestVal, SameQuestion, SameSelection
  <1>2. CASE ~(q.next < Len(Keys(q)))
    BY <1>2 DEF NextKey
  <1> QED
    BY <1>1, <1>2

\* A request whose keys have no items: what NoneFound, NextKey and ListFailed
\* can make of it.
LEMMA ListFailedType ==
  ASSUME NEW q \in RequestVal, NEW n \in ListFailed(q)
  PROVE  \/ n \in NextKey(q)
         \/ \E a \in {"404", "500"} : n = Answered(q, a)
  BY DEF ListFailed

\* A handler that finds items selects among several; the dispatcher calls one.
LEMMA ListedType ==
  ASSUME NEW q \in RequestVal, NEW items \in Seq(Item), NEW n, n = Listed(q, items)
  PROVE  /\ n \in RequestVal
         /\ SameQuestion(q, n)
         /\ n.server = q.server /\ n.answer = q.answer
         /\ \/ /\ q.at = "dispatch" /\ n.at = "ignitionIPXE" /\ n.next = 1
               /\ n.pc = q.pc /\ SameSelection(q, n)
            \/ /\ q.at # "dispatch" /\ n.at = q.at /\ n.pc = "serve"
               /\ n.items = items /\ Len(items) = 1 /\ n.chosen = 1
            \/ /\ q.at # "dispatch" /\ n.at = q.at /\ n.pc = "owner"
               /\ n.items = items /\ n.chosen = q.chosen /\ n.next = 1
  <1>1. CASE q.at = "dispatch"
    <2>1. n = [q EXCEPT !.at = "ignitionIPXE", !.next = 1]
      BY <1>1 DEF Listed
    <2>2. [q EXCEPT !.at = "ignitionIPXE", !.next = 1] \in RequestVal
      BY DEF RequestVal, Handlers
    <2>3. /\ n.at = "ignitionIPXE" /\ n.next = 1 /\ n.pc = q.pc /\ n.answer = q.answer
          /\ SameQuestion(q, n) /\ SameSelection(q, n)
      BY <2>1 DEF RequestVal, SameQuestion, SameSelection
    <2> QED
      BY <1>1, <2>1, <2>2, <2>3 DEF SameSelection
  <1>2. CASE q.at # "dispatch" /\ Len(items) = 1
    <2>1. n = [q EXCEPT !.pc = "serve", !.items = items, !.chosen = 1]
      BY <1>2 DEF Listed
    <2>2. [q EXCEPT !.pc = "serve", !.items = items, !.chosen = 1] \in RequestVal
      BY DEF RequestVal
    <2>3. /\ n.at = q.at /\ n.pc = "serve" /\ n.items = items /\ n.chosen = 1
          /\ n.server = q.server /\ n.answer = q.answer /\ SameQuestion(q, n)
      BY <2>1 DEF RequestVal, SameQuestion
    <2> QED
      BY <1>2, <2>1, <2>2, <2>3
  <1>3. CASE q.at # "dispatch" /\ Len(items) # 1
    <2>1. n = [q EXCEPT !.pc = "owner", !.items = items, !.next = 1]
      BY <1>3 DEF Listed
    <2>2. [q EXCEPT !.pc = "owner", !.items = items, !.next = 1] \in RequestVal
      BY DEF RequestVal
    <2>3. /\ n.at = q.at /\ n.pc = "owner" /\ n.items = items /\ n.next = 1
          /\ n.chosen = q.chosen
          /\ n.server = q.server /\ n.answer = q.answer /\ SameQuestion(q, n)
      BY <2>1 DEF RequestVal, SameQuestion
    <2> QED
      BY <1>3, <2>1, <2>2, <2>3
  <1> QED
    BY <1>1, <1>2, <1>3

-----------------------------------------------------------------------------
(***************************************************************************)
(* What a step makes of the request it moves.                              *)
(***************************************************************************)
\* How far a request is, by its pc: what has been asked, listed, selected and
\* answered.  Nothing is selected before pc is "serve", every step after it
\* looks at an item that was listed, and only the last one answers.
Progress(q) ==
  /\ q.pc \in {"idle", "list", "owner", "server"} => q.chosen = 0
  /\ q.pc \in {"serve", "patch"} => q.chosen \in DOMAIN q.items
  /\ q.pc \in {"idle", "list", "owner", "server", "serve"} => q.answer = "none"
  /\ q.pc = "list" => q.next \in 1..Len(Keys(q))
  /\ q.pc = "owner" => q.next # 0
  /\ q.pc = "server" => q.next \in DOMAIN q.items /\ Owner(q, q.next) \in SBCs
  /\ q.at = "dispatch" => q.pc \in {"list", "answered"}
  /\ q.at # "httpboot" /\ q.pc # "idle" => \E u \in Cases : q.asked = <<u>>

TypeInv == TypeOK /\ \A r \in Requests : Progress(req[r])

\* The other requests stay where they are.
LEMMA OneRequest ==
  ASSUME TypeOK, NEW r \in Requests, NEW n \in RequestVal, req' = [req EXCEPT ![r] = n]
  PROVE  /\ req' \in [Requests -> RequestVal]
         /\ req'[r] = n
         /\ \A o \in Requests : o # r => req'[o] = req[o]
  BY DEF TypeOK

\* The keys a handler looks up, and in which order.
LEMMA KeysType ==
  ASSUME NEW q \in RequestVal
  PROVE  /\ q.at \in {"ipxe", "httpboot"} => Keys(q) = q.asked
         /\ \A u \in Cases : q.asked = <<u>> =>
              /\ q.at = "ipxe" => Len(Keys(q)) = 1
              /\ q.at = "dispatch" =>
                   Len(Keys(q)) = 2 /\ Keys(q)[1] = u /\ Keys(q)[2] = "upper"
              /\ q.at \in {"ignitionIPXE", "ignitionHTTP"} =>
                   /\ Len(Keys(q)) = 3 /\ Keys(q)[1] = u
                   /\ Keys(q)[2] = "upper" /\ Keys(q)[3] = "lower"
  <1>1. q.at \in {"ipxe", "httpboot"} => Keys(q) = q.asked
    BY DEF Keys
  <1>2. ASSUME NEW u \in Cases, q.asked = <<u>>, q.at = "ipxe"
        PROVE  Len(Keys(q)) = 1
    BY <1>1, <1>2
  <1>3. ASSUME NEW u \in Cases, q.asked = <<u>>, q.at = "dispatch"
        PROVE  Len(Keys(q)) = 2 /\ Keys(q)[1] = u /\ Keys(q)[2] = "upper"
    <2>1. Keys(q) = <<u>> \o <<"upper">>
      BY <1>3 DEF Keys
    <2>2. /\ <<u>> \in Seq(Cases) /\ <<"upper">> \in Seq(Cases)
          /\ Len(<<u>>) = 1 /\ Len(<<"upper">>) = 1
          /\ <<u>>[1] = u /\ <<"upper">>[1] = "upper"
      BY DEF Cases
    <2> QED
      BY <2>1, <2>2, ConcatProperties
  <1>4. ASSUME NEW u \in Cases, q.asked = <<u>>, q.at \in {"ignitionIPXE", "ignitionHTTP"}
        PROVE  /\ Len(Keys(q)) = 3 /\ Keys(q)[1] = u
               /\ Keys(q)[2] = "upper" /\ Keys(q)[3] = "lower"
    <2> DEFINE first == <<u>>
               others == <<"upper", "lower">>
    <2>1. Keys(q) = first \o others
      BY <1>4 DEF Keys
    <2>2. /\ first \in Seq(Cases) /\ others \in Seq(Cases)
          /\ Len(first) = 1 /\ Len(others) = 2
          /\ first[1] = u /\ others[1] = "upper" /\ others[2] = "lower"
      BY DEF Cases
    <2> HIDE DEF first, others
    <2>3. /\ Len(first \o others) = Len(first) + Len(others)
          /\ \A i \in 1..Len(first) + Len(others) :
               (first \o others)[i] = IF i <= Len(first) THEN first[i] ELSE others[i - Len(first)]
      <3>1. first \in Seq(Cases) /\ others \in Seq(Cases)
        BY <2>2
      <3> QED
        BY <3>1, ConcatProperties
    <2> QED
      BY <2>1, <2>2, <2>3
  <1> QED
    BY <1>1, <1>2, <1>3, <1>4

\* A request arrives with a key to look up, or is answered at once.
LEMMA ArriveStep ==
  ASSUME TypeOK, NEW r \in Requests, NEW path \in Paths, Arrive(r, path)
  PROVE  \E n \in RequestVal :
           /\ req' = [req EXCEPT ![r] = n]
           /\ n.items = <<>> /\ n.chosen = 0 /\ n.server = Gone
           /\ n.steady = {c \in Configs : Exists(c)} /\ n.early = ~started
           /\ \/ /\ n.pc = "list" /\ n.next = 1 /\ n.answer = "none"
                 /\ n.at \in {"ipxe", "dispatch", "httpboot"} /\ Len(n.asked) # 0
                 /\ n.at # "httpboot" => \E u \in Cases : n.asked = <<u>>
              \/ /\ n.at = "httpboot" /\ n.asked = <<>> /\ n.pc = "answered"
                 /\ n.answer \in {"default", "500", "404"}
           /\ UNCHANGED <<world, changes, history>>
  <1>1. PICK asked \in IF path = "httpboot" THEN AddressLists ELSE {<<u>> : u \in Cases} :
          LET q == [IdleReq EXCEPT !.pc = "list", !.asked = asked, !.early = ~started,
                                   !.at = IF path = "ignition" THEN "dispatch" ELSE path,
                                   !.steady = {c \in Configs : Exists(c)}]
          IN Steps(r, IF asked = <<>> THEN NoneFound(q) ELSE {q})
    BY DEF Arrive
  <1>2. UNCHANGED <<world, changes, history>>
    BY <1>1 DEF Arrive, Steps
  <1> DEFINE at == IF path = "ignition" THEN "dispatch" ELSE path
             there == {c \in Configs : Exists(c)}
             early == ~started
             q == [IdleReq EXCEPT !.pc = "list", !.asked = asked, !.early = early,
                                  !.at = at, !.steady = there]
  <1>3. /\ at \in {"ipxe", "dispatch", "httpboot"}
        /\ at = "httpboot" <=> path = "httpboot"
    BY ObjectAssumption
  <1>4. asked \in Seq(Addresses \cup Cases)
    <2>1. CASE path = "httpboot"
      <3>1. PICK n \in 0..2 : asked \in [1..n -> Addresses]
        BY <1>1, <2>1 DEF AddressLists
      <3>2. asked \in [1..n -> Addresses \cup Cases]
        BY <3>1
      <3> QED
        BY <3>2, SeqDef
    <2>2. CASE path # "httpboot"
      <3>1. PICK u \in Addresses \cup Cases : asked = <<u>>
        BY <1>1, <2>2
      <3> QED
        BY <3>1
    <2> QED
      BY <2>1, <2>2
  <1>5. IdleReq \in RequestVal
    BY DEF IdleReq, RequestVal, Handlers, Answers
  <1>6. /\ at \in Handlers /\ early \in BOOLEAN /\ there \in SUBSET Configs
    BY <1>3 DEF Handlers
  <1>7. /\ q \in RequestVal
        /\ q.pc = "list" /\ q.next = 1 /\ q.answer = "none" /\ q.at = at
        /\ q.asked = asked /\ q.items = <<>> /\ q.server = Gone
        /\ q.chosen = 0 /\ q.steady = there /\ q.early = early
    <2> HIDE DEF at, there, early
    <2>1. q \in RequestVal
      BY <1>4, <1>5, <1>6 DEF RequestVal
    <2>2. /\ q.pc = "list" /\ q.at = at /\ q.asked = asked /\ q.steady = there /\ q.early = early
          /\ q.next = IdleReq.next /\ q.answer = IdleReq.answer /\ q.items = IdleReq.items
          /\ q.server = IdleReq.server /\ q.chosen = IdleReq.chosen
      BY <1>5 DEF RequestVal
    <2> QED
      BY <2>1, <2>2 DEF IdleReq
  <1>8. at # "httpboot" => \E u \in Cases : asked = <<u>>
    BY <1>1, <1>3
  <1>9. CASE asked = <<>>
    <2>1. at = "httpboot"
      BY <1>8, <1>9
    <2>2. PICK n \in NoneFound(q) : req' = [req EXCEPT ![r] = n]
      BY <1>1, <1>9 DEF Steps
    <2> HIDE DEF q
    <2>3. /\ n \in RequestVal
          /\ SameQuestion(q, n)
          /\ SameSelection(q, n)
          /\ \/ q.at = "dispatch"
             \/ /\ n.at = q.at /\ n.pc = "answered" /\ n.answer \in {"404", "default", "500"}
      BY <1>7, <2>2, NoneFoundType
    <2> QED
      BY <1>2, <1>7, <1>9, <2>1, <2>2, <2>3 DEF SameQuestion, SameSelection
  <1>10. CASE asked # <<>>
    <2>1. req' = [req EXCEPT ![r] = q]
      BY <1>1, <1>10 DEF Steps
    <2>2. Len(asked) # 0
      BY <1>4, <1>10
    <2> HIDE DEF q, at
    <2> QED
      BY <1>2, <1>3, <1>7, <1>8, <2>1, <2>2
  <1> QED
    BY <1>9, <1>10

\* What a List finds.
Found(q) == Lookup(KindOf(q), Keys(q)[q.next])

\* A List takes the request to the items found, to the next key or handler, or
\* to an answer; with started caches it passes no key that has items.
LEMMA ListStep ==
  ASSUME TypeInv, NEW r \in Requests, List(r)
  PROVE  \E n \in RequestVal :
           LET q == req[r]
               failed == \E a \in {"404", "500"} : n = Answered(q, a)
           IN /\ req' = [req EXCEPT ![r] = n]
              /\ q.pc = "list"
              /\ SameQuestion(q, n)
              /\ \/ /\ Found(q) # {}
                    /\ \E items \in Listings(Found(q)) : n = Listed(q, items)
                 \/ Found(q) = {} /\ n \in NextKey(q)
                 \/ ~started /\ (n \in NextKey(q) \/ failed)
              /\ UNCHANGED <<world, changes, history>>
  <1> DEFINE q == req[r]
  <1>1. q \in RequestVal /\ q.pc = "list"
    BY DEF TypeInv, TypeOK, List
  <1>2. UNCHANGED <<world, changes, history>>
    BY DEF List, Steps
  <1> HIDE DEF q
  <1>3. CASE ~started
    <2>1. PICK n \in ListFailed(q) : req' = [req EXCEPT ![r] = n]
      BY <1>3 DEF List, Steps, q
    <2>2. \/ n \in NextKey(q)
          \/ \E a \in {"404", "500"} : n = Answered(q, a)
      BY <1>1, <2>1, ListFailedType
    <2>3. n \in RequestVal /\ SameQuestion(q, n)
      <3>1. {"404", "500"} \subseteq Answers
        BY DEF Answers
      <3> QED
        BY <1>1, <2>2, <3>1, NextKeyType, NoneFoundType, AnsweredType
    <2> QED
      BY <1>1, <1>2, <1>3, <2>1, <2>2, <2>3 DEF q
  <1>4. CASE started /\ Found(q) = {}
    <2>1. PICK n \in NextKey(q) : req' = [req EXCEPT ![r] = n]
      BY <1>4 DEF List, Steps, Found, q
    <2>2. n \in RequestVal /\ SameQuestion(q, n)
      BY <1>1, <2>1, NextKeyType, NoneFoundType
    <2> QED
      BY <1>1, <1>2, <1>4, <2>1, <2>2 DEF q
  <1>5. CASE started /\ Found(q) # {}
    <2>1. PICK items \in Listings(Found(q)) : req' = [req EXCEPT ![r] = Listed(q, items)]
      BY <1>5 DEF List, Steps, Found, q
    <2>2. Found(q) \in SUBSET Configs /\ \A c \in Found(q) : Exists(c)
      BY DEF Found, Lookup
    <2>3. items \in Seq(Item)
      BY <2>1, <2>2, ListingType DEF TypeInv
    <2>4. Listed(q, items) \in RequestVal /\ SameQuestion(q, Listed(q, items))
      BY <1>1, <2>3, ListedType
    <2> QED
      BY <1>1, <1>2, <1>5, <2>1, <2>4 DEF q
  <1> QED
    BY <1>3, <1>4, <1>5

\* resolveServer takes the next owner, gives up, or gets the Server.
LEMMA GetOwnerStep ==
  ASSUME TypeInv, NEW r \in Requests, GetOwner(r)
  PROVE  \E n \in RequestVal :
           LET q == req[r]
           IN /\ req' = [req EXCEPT ![r] = n]
              /\ q.pc = "owner"
              /\ SameQuestion(q, n) /\ SameSelection(q, n) /\ n.at = q.at
              /\ \/ n.pc = "answered" /\ n.answer = "500"
                 \/ /\ n.pc = "server" /\ n.answer = q.answer
                    /\ n.next \in DOMAIN n.items /\ Owner(n, n.next) \in SBCs
                 \/ n.pc = "owner" /\ n.answer = q.answer /\ n.next # 0
              /\ UNCHANGED <<world, changes, history>>
  <1> DEFINE q == req[r]
             i == NextOwner(q)
             n == IF i = 0 THEN Answered(q, "500")
                  ELSE IF Owner(q, i) \in sbcs THEN [q EXCEPT !.pc = "server", !.next = i]
                  ELSE [q EXCEPT !.next = i + 1]
  <1>1. q \in RequestVal /\ q.pc = "owner" /\ q.next # 0
    BY DEF TypeInv, TypeOK, GetOwner, Progress
  <1>2. req' = [req EXCEPT ![r] = n] /\ UNCHANGED <<world, changes, history>>
    BY DEF GetOwner, Steps
  <1>3. i # 0 => i \in DOMAIN q.items /\ i \in Nat /\ Owner(q, i) \in SBCs
    <2> HIDE DEF q
    <2> QED
      BY <1>1, NextOwnerType, OwnerType
  <1> HIDE DEF q, i
  <1>4. CASE i = 0
    <2>1. "500" \in Answers
      BY DEF Answers
    <2> QED
      BY <1>1, <1>2, <1>4, <2>1, AnsweredType DEF q
  <1>5. CASE i # 0 /\ Owner(q, i) \in sbcs
    <2> DEFINE m == [q EXCEPT !.pc = "server", !.next = i]
    <2>1. m \in RequestVal
      BY <1>1, <1>3, <1>5 DEF RequestVal
    <2>2. /\ SameQuestion(q, m) /\ SameSelection(q, m) /\ m.at = q.at
          /\ m.pc = "server" /\ m.answer = q.answer /\ m.next = i
      BY <1>1 DEF RequestVal, SameQuestion, SameSelection
    <2>3. m.next \in DOMAIN m.items /\ Owner(m, m.next) \in SBCs
      <3> HIDE DEF m
      <3> QED
        BY <1>3, <1>5, <2>2 DEF SameSelection, Owner
    <2>4. n = m
      BY <1>5
    <2> HIDE DEF m, n
    <2> QED
      BY <1>1, <1>2, <2>1, <2>2, <2>3, <2>4 DEF q
  <1>6. CASE i # 0 /\ Owner(q, i) \notin sbcs
    <2> DEFINE m == [q EXCEPT !.next = i + 1]
    <2>1. m \in RequestVal
      <3>1. i + 1 \in Nat
        BY <1>3, <1>6
      <3> QED
        BY <1>1, <3>1 DEF RequestVal
    <2>2. /\ SameQuestion(q, m) /\ SameSelection(q, m) /\ m.at = q.at
          /\ m.pc = q.pc /\ m.answer = q.answer /\ m.next = i + 1
      BY <1>1 DEF RequestVal, SameQuestion, SameSelection
    <2>3. n = m /\ i + 1 # 0
      BY <1>3, <1>6
    <2> HIDE DEF m, n
    <2> QED
      BY <1>1, <1>2, <2>1, <2>2, <2>3 DEF q
  <1> QED
    BY <1>4, <1>5, <1>6

\* The Server that decides between the items, if it is there.
LEMMA GetServerStep ==
  ASSUME TypeInv, NEW r \in Requests, GetServer(r)
  PROVE  \E n \in RequestVal :
           LET q == req[r]
           IN /\ req' = [req EXCEPT ![r] = n]
              /\ q.pc = "server"
              /\ SameQuestion(q, n) /\ n.at = q.at /\ n.items = q.items
              /\ \/ /\ n.pc = "owner" /\ n.answer = q.answer /\ n.next # 0
                    /\ n.chosen = q.chosen
                 \/ n.pc = "answered" /\ n.answer = "500" /\ n.chosen = 0
                 \/ /\ n.pc = "serve" /\ n.answer = q.answer
                    /\ n.server \in ServerVal
                    /\ n.chosen # 0 /\ n.chosen = preferredBootConfigIndex(q, n.server)
              /\ UNCHANGED <<world, changes, history>>
  <1> DEFINE q == req[r]
             s == servers[ServerOf[Owner(q, q.next)]]
             i == preferredBootConfigIndex(q, s)
             found == [q EXCEPT !.server = s, !.chosen = i]
             n == IF s = Gone THEN [q EXCEPT !.pc = "owner", !.next = q.next + 1]
                  ELSE IF found.chosen = 0 THEN Answered(found, "500")
                  ELSE [found EXCEPT !.pc = "serve"]
  <1>1. q \in RequestVal /\ q.pc = "server" /\ Owner(q, q.next) \in SBCs
    BY DEF TypeInv, TypeOK, GetServer, Progress
  <1>2. req' = [req EXCEPT ![r] = n] /\ UNCHANGED <<world, changes, history>>
    BY DEF GetServer, Steps
  <1>3. s \in ServerVal \cup {Gone}
    BY <1>1, ObjectAssumption DEF TypeInv, TypeOK
  <1> HIDE DEF q, s, i
  <1>4. CASE s = Gone
    <2> DEFINE m == [q EXCEPT !.pc = "owner", !.next = q.next + 1]
    <2>1. q.next + 1 \in Nat /\ q.next + 1 # 0
      BY <1>1 DEF RequestVal
    <2>2. m \in RequestVal
      BY <1>1, <2>1 DEF RequestVal
    <2>3. /\ SameQuestion(q, m) /\ m.at = q.at /\ m.items = q.items
          /\ m.pc = "owner" /\ m.answer = q.answer /\ m.next = q.next + 1
          /\ m.chosen = q.chosen
      BY <1>1 DEF RequestVal, SameQuestion
    <2>4. n = m
      BY <1>4
    <2> HIDE DEF m, n
    <2> QED
      BY <1>1, <1>2, <2>1, <2>2, <2>3, <2>4 DEF q
  <1>5. CASE s # Gone
    <2>1. s \in ServerVal
      BY <1>3, <1>5
    <2>2. i \in Nat
      <3>1. i # 0 => i \in DOMAIN q.items
        BY <1>1, <2>1, PreferredIndex DEF i
      <3> QED
        BY <1>1, <3>1, OwnerType
    <2>3. found \in RequestVal
      BY <1>1, <2>1, <2>2 DEF RequestVal
    <2>4. /\ SameQuestion(q, found) /\ found.at = q.at /\ found.items = q.items
          /\ found.answer = q.answer /\ found.server = s /\ found.chosen = i
      BY <1>1 DEF RequestVal, SameQuestion
    <2>5. n = IF i = 0 THEN Answered(found, "500") ELSE [found EXCEPT !.pc = "serve"]
      BY <1>5, <2>4
    <2> HIDE DEF found, n
    <2>6. CASE i = 0
      <3>1. "500" \in Answers
        BY DEF Answers
      <3>2. n = Answered(found, "500")
        BY <2>5, <2>6
      <3>3. /\ n \in RequestVal /\ SameQuestion(found, n) /\ SameSelection(found, n)
            /\ n.at = found.at /\ n.pc = "answered" /\ n.answer = "500"
        BY <2>3, <3>1, <3>2, AnsweredType
      <3>4. SameQuestion(q, n) /\ n.at = q.at /\ n.items = q.items /\ n.chosen = 0
        BY <2>4, <2>6, <3>3 DEF SameQuestion, SameSelection
      <3> QED
        BY <1>1, <1>2, <3>3, <3>4 DEF q
    <2>7. CASE i # 0
      <3>1. n = [found EXCEPT !.pc = "serve"]
        BY <2>5, <2>7
      <3>2. [found EXCEPT !.pc = "serve"] \in RequestVal
        BY <2>3 DEF RequestVal
      <3>3. /\ SameQuestion(found, n) /\ SameSelection(found, n) /\ n.at = found.at
            /\ n.pc = "serve" /\ n.answer = found.answer
        BY <2>3, <3>1 DEF RequestVal, SameQuestion, SameSelection
      <3>4. /\ n \in RequestVal /\ SameQuestion(q, n) /\ n.at = q.at /\ n.items = q.items
            /\ n.pc = "serve" /\ n.answer = q.answer /\ n.server \in ServerVal
            /\ n.chosen # 0 /\ n.chosen = preferredBootConfigIndex(q, n.server)
        BY <2>1, <2>4, <2>7, <3>1, <3>2, <3>3 DEF SameQuestion, SameSelection, i
      <3> QED
        BY <1>1, <1>2, <3>4 DEF q
    <2> QED
      BY <2>6, <2>7
  <1> QED
    BY <1>4, <1>5

\* The config is answered with, and what is recorded next has been delivered.
LEMMA ServeStep ==
  ASSUME TypeInv, NEW r \in Requests,
         ServeScript(r) \/ ServeTemplate(r) \/ ServeIgnition(r) \/ ServeUKI(r)
  PROVE  \E n \in RequestVal :
           LET q == req[r]
           IN /\ req' = [req EXCEPT ![r] = n]
              /\ q.pc = "serve" /\ n.pc \in {"patch", "answered"}
              /\ SameQuestion(q, n) /\ SameSelection(q, n) /\ n.at = q.at
              /\ \/ delivered' = delivered
                 \/ delivered' = delivered \cup {Identity(ChosenItem(q))}
              /\ n.pc = "patch" /\ n.at # "ipxe" =>
                   delivered' = delivered \cup {Identity(ChosenItem(q))}
              /\ UNCHANGED <<world, changes, recorded, late>>
  <1> DEFINE q == req[r]
             moved(p, a) == [q EXCEPT !.pc = p, !.answer = a]
  <1>1. q \in RequestVal /\ q.pc = "serve"
    BY DEF TypeInv, TypeOK, ServeScript, ServeTemplate, ServeIgnition, ServeUKI
  <1>2. UNCHANGED <<world, changes, recorded, late>>
    BY DEF ServeScript, ServeTemplate, ServeIgnition, ServeUKI, Delivers, Steps, history
  <1>3. ASSUME NEW p \in {"patch", "answered"}, NEW a \in Answers
        PROVE  /\ moved(p, a) \in RequestVal
               /\ SameQuestion(q, moved(p, a)) /\ SameSelection(q, moved(p, a))
               /\ moved(p, a).pc = p /\ moved(p, a).answer = a /\ moved(p, a).at = q.at
    <2> HIDE DEF q
    <2> QED
      BY <1>1, <1>3 DEF RequestVal, SameQuestion, SameSelection
  <1>4. \A a : Answered(q, a) = moved("answered", a)
    BY DEF Answered
  <1> HIDE DEF q, moved
  <1>5. {"200", "404", "500", "aborted", "broken"} \subseteq Answers
    BY DEF Answers
  \* Whatever is delivered goes with the answer of the step.
  <1>6. ASSUME NEW S, Delivers(r, S),
               NEW p \in {"patch", "answered"}, NEW a \in Answers, req' = [req EXCEPT ![r] = moved(p, a)]
        PROVE  IF a = "200" /\ q.at # "ipxe"
               THEN delivered' = delivered \cup {Identity(ChosenItem(q))}
               ELSE delivered' = delivered
    <2>1. req'[r] = moved(p, a) /\ moved(p, a).answer = a
      BY <1>3, <1>6, OneRequest DEF TypeInv
    <2> QED
      BY <1>6, <2>1 DEF Delivers, q
  \* It remains to name the step that was taken.
  <1>7. ASSUME NEW p \in {"patch", "answered"}, NEW a \in Answers,
               req' = [req EXCEPT ![r] = moved(p, a)],
               \/ delivered' = delivered
               \/ delivered' = delivered \cup {Identity(ChosenItem(q))},
               p = "patch" /\ q.at # "ipxe" =>
                 delivered' = delivered \cup {Identity(ChosenItem(q))}
        PROVE  \E n \in RequestVal :
                 /\ req' = [req EXCEPT ![r] = n]
                 /\ n.pc \in {"patch", "answered"}
                 /\ SameQuestion(q, n) /\ SameSelection(q, n) /\ n.at = q.at
                 /\ \/ delivered' = delivered
                    \/ delivered' = delivered \cup {Identity(ChosenItem(q))}
                 /\ n.pc = "patch" /\ n.at # "ipxe" =>
                      delivered' = delivered \cup {Identity(ChosenItem(q))}
    <2> DEFINE n == moved(p, a)
    <2>1. /\ n \in RequestVal /\ SameQuestion(q, n) /\ SameSelection(q, n)
          /\ n.pc = p /\ n.at = q.at
      BY <1>3, <1>7
    <2> HIDE DEF n
    <2>2. req' = [req EXCEPT ![r] = n]
      BY <1>7 DEF n
    <2> QED
      BY <1>7, <2>1, <2>2
  <1>8. CASE ServeScript(r)
    <2> DEFINE S == IF secrets[Object[Chosen(q)].script] \in {"absent", "noKey"}
                    THEN {Answered(q, "500")} ELSE {Answered(q, a) : a \in {"200", "broken"}}
    <2>1. Delivers(r, S)
      BY <1>8 DEF ServeScript, q
    <2>2. PICK a \in Answers : req' = [req EXCEPT ![r] = moved("answered", a)]
      BY <1>4, <1>5, <2>1 DEF Delivers, Steps
    <2> HIDE DEF S
    <2> QED
      BY <1>1, <1>2, <1>6, <1>7, <2>1, <2>2 DEF q
  <1>9. CASE ServeTemplate(r)
    <2> DEFINE S == {moved("patch", a) : a \in {"200", "500"}}
    <2>1. Delivers(r, S) /\ q.at = "ipxe"
      BY <1>9 DEF ServeTemplate, q, moved
    <2>2. PICK a \in Answers : req' = [req EXCEPT ![r] = moved("patch", a)]
      BY <1>5, <2>1 DEF Delivers, Steps
    <2> HIDE DEF S
    <2> QED
      BY <1>1, <1>2, <1>6, <1>7, <2>1, <2>2 DEF q
  <1>10. CASE ServeIgnition(r)
    <2>1. PICK failure \in {"aborted", "404", "500", "broken"} :
            Delivers(r, {Answered(q, failure)} \cup
                        IF failure = "broken" THEN {moved("patch", "200")} ELSE {})
      BY <1>10 DEF ServeIgnition, q, moved
    <2> DEFINE S == {Answered(q, failure)} \cup
                    IF failure = "broken" THEN {moved("patch", "200")} ELSE {}
    <2>2. \/ req' = [req EXCEPT ![r] = moved("answered", failure)]
          \/ req' = [req EXCEPT ![r] = moved("patch", "200")]
      BY <1>4, <2>1 DEF Delivers, Steps
    <2>3. Delivers(r, S) /\ failure \in Answers /\ "200" \in Answers
      BY <1>5, <2>1
    <2> HIDE DEF S
    <2> QED
      BY <1>1, <1>2, <1>6, <1>7, <2>2, <2>3 DEF q
  <1>11. CASE ServeUKI(r)
    <2>1. PICK a \in Answers : req' = [req EXCEPT ![r] = moved("answered", a)]
      BY <1>4, <1>5, <1>11 DEF ServeUKI, Steps, q
    <2>2. delivered' = delivered
      BY <1>11 DEF ServeUKI, history
    <2> QED
      BY <1>1, <1>2, <1>7, <2>1, <2>2 DEF q
  <1> QED
    BY <1>8, <1>9, <1>10, <1>11

\* The patch ends the request, and replaces the conditions or nothing.
LEMMA PatchStep ==
  ASSUME TypeInv, NEW r \in Requests, SetStatusCondition(r)
  PROVE  \E n \in RequestVal :
           LET q == req[r]
               c == Chosen(q)
               item == ChosenItem(q)
               stored == Stored(conf[c])
               list == updateCondition(item.object.conditions, Recorder(q))
           IN /\ req' = [req EXCEPT ![r] = n]
              /\ q.pc = "patch" /\ n.pc = "answered"
              /\ SameQuestion(q, n) /\ SameSelection(q, n) /\ n.at = q.at /\ n.answer = q.answer
              /\ c \in Configs /\ item \in Item /\ item.name = c /\ list \in ConditionLists
              /\ ToSet(list) = ToSet(item.object.conditions) \cup {Recorder(q)}
              /\ \/ conf' = conf /\ recorded' = recorded /\ late' = late
                 \/ /\ stored \in ObjectOfName
                    /\ conf' = [conf EXCEPT
                          ![c] = Write(@, [uid |-> stored.uid, conditions |-> list])]
                    /\ recorded' = [recorded EXCEPT ![c] = @ \cup {Recorder(q)}]
                    /\ late' = IF item.object.uid = stored.uid
                                 THEN late ELSE late \cup {<<c, stored.uid>>}
              /\ UNCHANGED <<sbcs, servers, secrets, started, delivered, changes>>
  <1> DEFINE q == req[r]
             c == Chosen(q)
             item == ChosenItem(q)
             stored == Stored(conf[c])
             list == updateCondition(item.object.conditions, Recorder(q))
             n == [q EXCEPT !.pc = "answered"]
  <1>1. /\ q \in RequestVal /\ q.pc = "patch" /\ q.chosen \in DOMAIN q.items
        /\ req' = [req EXCEPT ![r] = n]
    BY DEF TypeInv, TypeOK, SetStatusCondition, Progress
  <1> HIDE DEF q, n
  <1>2. /\ n \in RequestVal /\ n.pc = "answered"
        /\ SameQuestion(q, n) /\ SameSelection(q, n) /\ n.at = q.at /\ n.answer = q.answer
    <2>1. [q EXCEPT !.pc = "answered"] \in RequestVal
      BY <1>1 DEF RequestVal
    <2>2. /\ n.pc = "answered" /\ n.at = q.at /\ n.answer = q.answer
          /\ SameQuestion(q, n) /\ SameSelection(q, n)
      BY <1>1 DEF n, RequestVal, SameQuestion, SameSelection
    <2> QED
      BY <2>1, <2>2 DEF n
  <1>3. /\ c \in Configs /\ item \in Item /\ item.name = c
        /\ item.object.conditions \in ConditionLists
    <2>1. q.items[q.chosen] \in Item
      BY <1>1, OwnerType
    <2> QED
      BY <2>1 DEF Item, ObjectOfName, Chosen, ChosenItem
  <1>4. Recorder(q) \in Types
    BY DEF Recorder, Types
  <1>5. /\ list \in ConditionLists
        /\ ToSet(list) = ToSet(item.object.conditions) \cup {Recorder(q)}
    BY <1>3, <1>4, UpdateConditionType
  <1>6. /\ \/ conf' = conf /\ recorded' = recorded /\ late' = late
           \/ /\ stored # Gone
              /\ conf' = [conf EXCEPT ![c] = Write(@, [uid |-> stored.uid, conditions |-> list])]
              /\ recorded' = [recorded EXCEPT ![c] = @ \cup {Recorder(q)}]
              /\ late' = IF item.object.uid = stored.uid
                           THEN late ELSE late \cup {<<c, stored.uid>>}
        /\ UNCHANGED <<sbcs, servers, secrets, started, delivered, changes>>
    BY DEF SetStatusCondition, q
  <1>7. stored # Gone => stored \in ObjectOfName
    BY <1>3, ReadType DEF TypeInv, TypeOK, ConfVal
  <1> HIDE DEF c, list, item, stored
  <1> QED
    BY <1>1, <1>2, <1>3, <1>5, <1>6, <1>7 DEF q, c, list, item, stored

-----------------------------------------------------------------------------
(***************************************************************************)
(* Types.                                                                  *)
(***************************************************************************)
\* A handler lists by at least one key, /httpboot by as many as there are
\* addresses.
LEMMA KeysLength ==
  ASSUME NEW q \in RequestVal, q.at # "httpboot" => \E u \in Cases : q.asked = <<u>>
  PROVE  /\ Len(Keys(q)) \in Nat
         /\ q.at # "httpboot" => Len(Keys(q)) \in 1..3
         /\ q.at = "httpboot" => Len(Keys(q)) = Len(q.asked)
  <1>1. Len(q.asked) \in Nat /\ q.at \in Handlers
    BY DEF RequestVal
  <1>2. CASE q.at = "httpboot"
    <2>1. Keys(q) = q.asked
      BY <1>2, KeysType
    <2> QED
      BY <1>1, <1>2, <2>1
  <1>3. CASE q.at # "httpboot"
    <2>1. PICK u \in Cases : q.asked = <<u>>
      BY <1>3
    <2>2. q.at \in {"ipxe", "dispatch", "ignitionIPXE", "ignitionHTTP"}
      BY <1>1, <1>3 DEF Handlers
    <2>3. Len(Keys(q)) = 1 \/ Len(Keys(q)) = 2 \/ Len(Keys(q)) = 3
      BY <2>1, <2>2, KeysType
    <2>4. Len(Keys(q)) \in 1..3
      BY <2>3
    <2> QED
      BY <1>3, <2>4
  <1> QED
    BY <1>2, <1>3

\* A handler that has been called has a first key to look up.
LEMMA FirstKeyProgress ==
  ASSUME NEW n \in RequestVal, n.pc = "list", n.next = 1, n.answer = "none",
         n.chosen = 0, n.at = "httpboot" => Len(n.asked) # 0,
         n.at # "httpboot" => \E u \in Cases : n.asked = <<u>>
  PROVE  Progress(n)
  <1> DEFINE len == Len(Keys(n))
  <1>1. /\ len \in Nat
        /\ n.at # "httpboot" => len \in 1..3
        /\ n.at = "httpboot" => len = Len(n.asked)
    BY KeysLength
  <1> HIDE DEF len
  <1>2. n.next \in 1..len
    BY <1>1
  <1> QED
    BY <1>2 DEF Progress, len

\* List keeps the order of a request's steps.
LEMMA ListProgress ==
  ASSUME NEW q \in RequestVal, Progress(q), q.pc = "list",
         NEW n \in RequestVal, SameQuestion(q, n),
         \/ n \in NextKey(q)
         \/ \E a \in {"404", "500"} : n = Answered(q, a)
         \/ \E items \in Seq(Item) : n = Listed(q, items)
  PROVE  Progress(n)
  <1>1. /\ q.chosen = 0 /\ q.answer = "none" /\ q.next \in 1..Len(Keys(q))
        /\ q.at # "httpboot" => \E u \in Cases : q.asked = <<u>>
        /\ n.asked = q.asked
    BY DEF Progress, SameQuestion
  <1>2. ASSUME n.at = q.at, n.pc = "answered"
        PROVE  Progress(n)
    BY <1>1, <1>2 DEF Progress
  <1>3. CASE n \in NextKey(q) /\ q.next < Len(Keys(q))
    <2>1. /\ n.at = q.at /\ n.next = q.next + 1 /\ n.pc = "list"
          /\ n.answer = q.answer /\ n.chosen = q.chosen
      BY <1>3, NextKeyType DEF SameSelection
    <2>2. Keys(n) = Keys(q)
      BY <1>1, <2>1 DEF Keys
    <2>3. q.next \in Nat /\ Len(Keys(n)) \in Int
      <3>1. Len(Keys(q)) \in Nat
        BY <1>1, KeysLength
      <3> QED
        BY <2>2, <3>1 DEF RequestVal
    <2>4. n.next \in 1..Len(Keys(n))
      BY <1>3, <2>1, <2>2, <2>3
    <2> QED
      BY <1>1, <2>1, <2>4 DEF Progress
  <1>4. CASE n \in NextKey(q) /\ ~(q.next < Len(Keys(q)))
    <2>1. n \in NoneFound(q)
      BY <1>4, NextKeyType
    <2>2. CASE q.at = "dispatch"
      <3>1. n.at = "ignitionHTTP" /\ n.next = 1 /\ n.pc = "list" /\ n.answer = "none" /\ n.chosen = 0
        BY <1>1, <2>1, <2>2, NoneFoundType DEF SameSelection
      <3> QED
        BY <1>1, <2>2, <3>1, FirstKeyProgress
    <2>3. CASE q.at # "dispatch"
      BY <1>2, <2>1, <2>3, NoneFoundType
    <2> QED
      BY <2>2, <2>3
  <1>5. CASE \E a \in {"404", "500"} : n = Answered(q, a)
    <2>1. {"404", "500"} \subseteq Answers
      BY DEF Answers
    <2> QED
      BY <1>2, <1>5, <2>1, AnsweredType
  <1>6. CASE \E items \in Seq(Item) : n = Listed(q, items)
    <2>1. PICK items \in Seq(Item) : n = Listed(q, items)
      BY <1>6
    <2>2. n.answer = q.answer
      BY <2>1, ListedType
    <2>3. CASE q.at = "dispatch"
      <3>1. n.at = "ignitionIPXE" /\ n.next = 1 /\ n.pc = "list" /\ n.chosen = 0
        BY <1>1, <2>1, <2>3, ListedType DEF SameSelection
      <3> QED
        BY <1>1, <2>2, <2>3, <3>1, FirstKeyProgress
    <2>4. CASE q.at # "dispatch"
      <3>1. /\ n.at = q.at /\ n.items = items
            /\ \/ n.pc = "serve" /\ Len(items) = 1 /\ n.chosen = 1
               \/ n.pc = "owner" /\ n.chosen = q.chosen /\ n.next = 1
        BY <2>1, <2>4, ListedType
      <3>2. n.pc = "serve" => n.chosen \in DOMAIN n.items
        BY <3>1
      <3> QED
        BY <1>1, <2>2, <2>4, <3>1, <3>2 DEF Progress
    <2> QED
      BY <2>3, <2>4
  <1> QED
    BY <1>3, <1>4, <1>5, <1>6

\* One request that moves as it should leaves all of them in order.
LEMMA OneProgress ==
  ASSUME TypeInv, NEW r \in Requests, NEW n \in RequestVal, Progress(n),
         req' = [req EXCEPT ![r] = n]
  PROVE  req' \in [Requests -> RequestVal] /\ \A o \in Requests : Progress(req'[o])
  <1>1. /\ req' \in [Requests -> RequestVal] /\ req'[r] = n
        /\ \A o \in Requests : o # r => req'[o] = req[o]
    BY OneRequest DEF TypeInv
  <1>2. ASSUME NEW o \in Requests PROVE Progress(req'[o])
    BY <1>1 DEF TypeInv
  <1> QED
    BY <1>1, <1>2

\* Every step of a handler keeps types and order.
LEMMA HandleType ==
  ASSUME TypeInv, NEW r \in Requests, Handle(r)
  PROVE  TypeInv'
  <1> DEFINE q == req[r]
  <1>1. q \in RequestVal /\ Progress(q)
    BY DEF TypeInv, TypeOK
  <1> HIDE DEF q
  <1>2. ASSUME NEW n \in RequestVal, Progress(n), req' = [req EXCEPT ![r] = n],
               UNCHANGED <<world, changes, recorded, late>>,
               delivered' \subseteq Configs \X UIDs
        PROVE  TypeInv'
    <2>1. req' \in [Requests -> RequestVal] /\ \A o \in Requests : Progress(req'[o])
      BY <1>2, OneProgress
    <2>2. TypeOK'
      BY <1>2, <2>1 DEF TypeInv, TypeOK, world
    <2> QED
      BY <2>1, <2>2 DEF TypeInv
  <1>3. CASE List(r)
    <2>1. PICK n \in RequestVal :
            LET failed == \E a \in {"404", "500"} : n = Answered(q, a)
            IN /\ req' = [req EXCEPT ![r] = n] /\ q.pc = "list" /\ SameQuestion(q, n)
               /\ \/ /\ Found(q) # {}
                     /\ \E items \in Listings(Found(q)) : n = Listed(q, items)
                  \/ Found(q) = {} /\ n \in NextKey(q)
                  \/ ~started /\ (n \in NextKey(q) \/ failed)
               /\ UNCHANGED <<world, changes, history>>
      BY <1>3, ListStep DEF q
    <2>2. Listings(Found(q)) \subseteq Seq(Item)
      <3>1. Found(q) \in SUBSET Configs /\ \A c \in Found(q) : Exists(c)
        BY DEF Found, Lookup
      <3> QED
        BY <3>1, ListingType DEF TypeInv
    <2>3. Progress(n)
      BY <1>1, <2>1, <2>2, ListProgress
    <2> QED
      BY <1>2, <2>1, <2>3 DEF history, TypeInv, TypeOK
  <1>4. CASE GetOwner(r)
    <2>1. PICK n \in RequestVal :
            /\ req' = [req EXCEPT ![r] = n] /\ q.pc = "owner"
            /\ SameQuestion(q, n) /\ SameSelection(q, n) /\ n.at = q.at
            /\ \/ n.pc = "answered" /\ n.answer = "500"
               \/ /\ n.pc = "server" /\ n.answer = q.answer
                  /\ n.next \in DOMAIN n.items /\ Owner(n, n.next) \in SBCs
               \/ n.pc = "owner" /\ n.answer = q.answer /\ n.next # 0
            /\ UNCHANGED <<world, changes, history>>
      BY <1>4, GetOwnerStep DEF q
    <2>2. Progress(n)
      BY <1>1, <2>1 DEF Progress, SameQuestion, SameSelection
    <2> QED
      BY <1>2, <2>1, <2>2 DEF history, TypeInv, TypeOK
  <1>5. CASE GetServer(r)
    <2>1. PICK n \in RequestVal :
            /\ req' = [req EXCEPT ![r] = n] /\ q.pc = "server"
            /\ SameQuestion(q, n) /\ n.at = q.at /\ n.items = q.items
            /\ \/ /\ n.pc = "owner" /\ n.answer = q.answer /\ n.next # 0
                  /\ n.chosen = q.chosen
               \/ n.pc = "answered" /\ n.answer = "500" /\ n.chosen = 0
               \/ /\ n.pc = "serve" /\ n.answer = q.answer
                  /\ n.server \in ServerVal
                  /\ n.chosen # 0 /\ n.chosen = preferredBootConfigIndex(q, n.server)
            /\ UNCHANGED <<world, changes, history>>
      BY <1>5, GetServerStep DEF q
    <2>2. n.pc = "serve" => n.chosen \in DOMAIN n.items
      BY <1>1, <2>1, PreferredIndex
    <2>3. Progress(n)
      BY <1>1, <2>1, <2>2 DEF Progress, SameQuestion
    <2> QED
      BY <1>2, <2>1, <2>3 DEF history, TypeInv, TypeOK
  <1>6. CASE ServeScript(r) \/ ServeTemplate(r) \/ ServeIgnition(r) \/ ServeUKI(r)
    <2>1. PICK n \in RequestVal :
            /\ req' = [req EXCEPT ![r] = n]
            /\ q.pc = "serve" /\ n.pc \in {"patch", "answered"}
            /\ SameQuestion(q, n) /\ SameSelection(q, n) /\ n.at = q.at
            /\ \/ delivered' = delivered
               \/ delivered' = delivered \cup {Identity(ChosenItem(q))}
            /\ UNCHANGED <<world, changes, recorded, late>>
      BY <1>6, ServeStep DEF q
    <2>2. Progress(n)
      BY <1>1, <2>1 DEF Progress, SameQuestion, SameSelection
    <2>3. delivered' \subseteq Configs \X UIDs
      <3>1. ChosenItem(q) \in Item
        BY <1>1, <2>1, OwnerType DEF Progress, ChosenItem
      <3>2. Identity(ChosenItem(q)) \in Configs \X UIDs
        BY <3>1 DEF Item, ObjectOfName, Identity
      <3> QED
        BY <2>1, <3>2 DEF TypeInv, TypeOK
    <2> QED
      BY <1>2, <2>1, <2>2, <2>3
  <1>7. CASE SetStatusCondition(r)
    <2> DEFINE c == Chosen(q)
               stored == Stored(conf[c])
               list == updateCondition(ChosenItem(q).object.conditions, Recorder(q))
               v == [uid |-> stored.uid, conditions |-> list]
    <2>1. PICK n \in RequestVal :
            /\ req' = [req EXCEPT ![r] = n]
            /\ q.pc = "patch" /\ n.pc = "answered"
            /\ SameQuestion(q, n) /\ SameSelection(q, n) /\ n.at = q.at
            /\ c \in Configs /\ list \in ConditionLists
            /\ \/ conf' = conf /\ recorded' = recorded /\ late' = late
               \/ /\ stored \in ObjectOfName
                  /\ conf' = [conf EXCEPT ![c] = Write(@, v)]
                  /\ recorded' = [recorded EXCEPT ![c] = @ \cup {Recorder(q)}]
                  /\ late' = late \/ late' = late \cup {<<c, stored.uid>>}
            /\ UNCHANGED <<sbcs, servers, secrets, started, delivered, changes>>
      BY <1>7, PatchStep DEF q
    <2>2. Progress(n)
      BY <1>1, <2>1 DEF Progress, SameQuestion
    <2>3. stored \in ObjectOfName => stored.uid \in UIDs /\ Write(conf[c], v) \in Hist(ConfVal)
      BY <2>1, WriteType DEF TypeInv, TypeOK, ConfVal, ObjectOfName
    <2>4. Recorder(q) \in Types
      BY DEF Recorder, Types
    <2> HIDE DEF c, list, stored, v
    <2>5. /\ conf' \in [Configs -> Hist(ConfVal)] /\ recorded' \in [Configs -> SUBSET Types]
          /\ late' \subseteq Configs \X UIDs
      BY <2>1, <2>3, <2>4 DEF TypeInv, TypeOK
    <2>6. req' \in [Requests -> RequestVal] /\ \A o \in Requests : Progress(req'[o])
      BY <2>1, <2>2, OneProgress
    <2>7. TypeOK'
      BY <2>1, <2>5, <2>6 DEF TypeInv, TypeOK
    <2> QED
      BY <2>6, <2>7 DEF TypeInv
  <1> QED
    BY <1>3, <1>4, <1>5, <1>6, <1>7 DEF Handle

\* An arriving request keeps types and order.
LEMMA ArriveType ==
  ASSUME TypeInv, NEW r \in Requests, NEW path \in Paths, Arrive(r, path)
  PROVE  TypeInv'
  <1>1. PICK n \in RequestVal :
          /\ req' = [req EXCEPT ![r] = n]
          /\ n.items = <<>> /\ n.chosen = 0 /\ n.server = Gone
          /\ n.steady = {c \in Configs : Exists(c)} /\ n.early = ~started
          /\ \/ /\ n.pc = "list" /\ n.next = 1 /\ n.answer = "none"
                /\ n.at \in {"ipxe", "dispatch", "httpboot"} /\ Len(n.asked) # 0
                /\ n.at # "httpboot" => \E u \in Cases : n.asked = <<u>>
             \/ /\ n.at = "httpboot" /\ n.asked = <<>> /\ n.pc = "answered"
                /\ n.answer \in {"default", "500", "404"}
          /\ UNCHANGED <<world, changes, history>>
    BY ArriveStep DEF TypeInv
  <1>2. Progress(n)
    <2>1. CASE n.pc = "list"
      BY <1>1, <2>1, FirstKeyProgress
    <2>2. CASE n.pc = "answered" /\ n.at = "httpboot"
      BY <2>2 DEF Progress
    <2> QED
      BY <1>1, <2>1, <2>2
  <1>3. req' \in [Requests -> RequestVal] /\ \A o \in Requests : Progress(req'[o])
    BY <1>1, <1>2, OneProgress
  <1>4. TypeOK'
    BY <1>1, <1>3 DEF TypeInv, TypeOK, world, history
  <1> QED
    BY <1>3, <1>4 DEF TypeInv

\* n is q, but for configs that are not there any more.
Forgets(q, n) ==
  /\ n.pc = q.pc /\ n.at = q.at /\ n.asked = q.asked /\ n.next = q.next
  /\ n.early = q.early /\ n.answer = q.answer
  /\ SameSelection(q, n)
  /\ n.steady \subseteq q.steady

\* A watch event moves the cache of one config, and no request.
LEMMA DeliverStep ==
  ASSUME TypeOK, NEW c \in Configs, Deliver(c)
  PROVE  /\ conf' \in [Configs -> Hist(ConfVal)]
         /\ conf' = [conf EXCEPT ![c] = Advance(@)] /\ ~InSync(conf[c])
         /\ Stored(conf'[c]) = Stored(conf[c])
         /\ req' \in [Requests -> RequestVal]
         /\ \A r \in Requests :
              /\ Forgets(req[r], req'[r])
              /\ c \in req'[r].steady => Cached(conf'[c]) # Gone
         /\ UNCHANGED <<sbcs, servers, secrets, started, history, changes>>
  <1>1. /\ conf' = [conf EXCEPT ![c] = Advance(@)] /\ ~InSync(conf[c])
        /\ UNCHANGED <<sbcs, servers, secrets, started, history, changes>>
    BY DEF Deliver
  <1>2. Advance(conf[c]) \in Hist(ConfVal) /\ Stored(Advance(conf[c])) = Stored(conf[c])
    BY <1>1, AdvanceType DEF TypeOK
  <1>3. /\ conf' \in [Configs -> Hist(ConfVal)] /\ conf'[c] = Advance(conf[c])
        /\ Stored(conf'[c]) = Stored(conf[c])
    BY <1>1, <1>2 DEF TypeOK
  <1> DEFINE left(r) == IF Cached(conf[c]') = Gone THEN req[r].steady \ {c} ELSE req[r].steady
  <1>4. req' = [r \in Requests |-> [req[r] EXCEPT !.steady = left(r)]]
    BY DEF Deliver
  <1>5. ASSUME NEW r \in Requests
        PROVE  /\ req'[r] \in RequestVal
               /\ Forgets(req[r], req'[r])
               /\ c \in req'[r].steady => Cached(conf'[c]) # Gone
    <2> DEFINE q == req[r]
               n == [q EXCEPT !.steady = left(r)]
    <2>1. q \in RequestVal
      BY DEF TypeOK
    <2>2. req'[r] = n
      BY <1>4
    <2>3. left(r) \subseteq q.steady /\ left(r) \in SUBSET Configs
      BY <2>1 DEF RequestVal
    <2>4. c \in left(r) => Cached(conf'[c]) # Gone
      OBVIOUS
    <2> HIDE DEF left, q
    <2>5. n \in RequestVal
      BY <2>1, <2>3 DEF RequestVal
    <2>6. Forgets(q, n) /\ n.steady = left(r)
      BY <2>1, <2>3 DEF RequestVal, Forgets, SameSelection
    <2> HIDE DEF n
    <2> QED
      BY <2>2, <2>4, <2>5, <2>6 DEF q
  <1>6. req' \in [Requests -> RequestVal]
    <2> HIDE DEF left
    <2>1. req' = [r \in Requests |-> req'[r]]
      BY <1>4
    <2> QED
      BY <1>5, <2>1
  <1> QED
    BY <1>1, <1>3, <1>5, <1>6

\* A config is deleted or created on the API server, the cache does not know.
LEMMA ChangeConfigStep ==
  ASSUME TypeOK, NEW c \in Configs, ChangeConfig(c)
  PROVE  /\ conf' \in [Configs -> Hist(ConfVal)]
         /\ \E v \in ConfVal : /\ conf' = [conf EXCEPT ![c] = Write(@, v)]
                               /\ v # Gone => v.conditions = <<>>
                               /\ v # Gone => Stored(conf[c]) = Gone
         /\ recorded' \in [Configs -> SUBSET Types]
         /\ changes' \in UIDs
         /\ UNCHANGED <<sbcs, servers, secrets, started, req, delivered, late>>
  <1>1. changes' \in UIDs
    BY ObjectAssumption DEF ChangeConfig, Change, TypeOK, UIDs
  <1> DEFINE v == IF Stored(conf[c]) = Gone THEN New(changes') ELSE Gone
  <1>2. /\ conf' = [conf EXCEPT ![c] = Write(@, v)] /\ v \in ConfVal
        /\ v # Gone => v.conditions = <<>> /\ Stored(conf[c]) = Gone
    BY <1>1, NewType DEF ChangeConfig, ConfVal
  <1> HIDE DEF v
  <1>3. conf' \in [Configs -> Hist(ConfVal)]
    BY <1>2, WriteType DEF TypeOK
  <1>4. recorded' \in [Configs -> SUBSET Types]
    BY DEF ChangeConfig, TypeOK
  <1> QED
    BY <1>1, <1>2, <1>3, <1>4 DEF ChangeConfig

\* Every step keeps types and order.
LEMMA TypeStep == TypeInv /\ [Next]_vars => TypeInv'
  <1> SUFFICES ASSUME TypeInv, [Next]_vars PROVE TypeInv'
    OBVIOUS
  <1>1. CASE \E r \in Requests : Handle(r) \/ \E path \in Paths : Arrive(r, path)
    BY <1>1, HandleType, ArriveType
  <1>2. ASSUME NEW c \in Configs, ChangeConfig(c)
        PROVE  TypeInv'
    BY <1>2, ChangeConfigStep DEF TypeInv, TypeOK
  <1>3. ASSUME NEW c \in Configs, Deliver(c)
        PROVE  TypeInv'
    <2>1. /\ conf' \in [Configs -> Hist(ConfVal)]
          /\ req' \in [Requests -> RequestVal]
          /\ \A r \in Requests : Forgets(req[r], req'[r])
          /\ UNCHANGED <<sbcs, servers, secrets, started, history, changes>>
      BY <1>3, DeliverStep DEF TypeInv
    <2>2. TypeOK'
      BY <2>1 DEF TypeInv, TypeOK, history
    <2>3. ASSUME NEW r \in Requests PROVE Progress(req'[r])
      <3>1. Keys(req'[r]) = Keys(req[r])
        BY <2>1 DEF Keys, Forgets
      <3> QED
        BY <2>1, <3>1 DEF TypeInv, Progress, Forgets, SameSelection, Owner
    <2> QED
      BY <2>2, <2>3 DEF TypeInv
  <1>4. CASE StartCaches
    BY <1>4 DEF StartCaches, TypeInv, TypeOK, history
  <1>5. CASE ChangeOther
    <2>1. /\ sbcs' \subseteq SBCs
          /\ servers' \in [Servers -> ServerVal \cup {Gone}]
          /\ secrets' \in [Secrets -> SecretVal]
          /\ changes' \in UIDs
      BY <1>5, ObjectAssumption DEF ChangeOther, Change, TypeInv, TypeOK, UIDs
    <2> QED
      BY <1>5, <2>1 DEF ChangeOther, TypeInv, TypeOK, history
  <1>6. CASE UNCHANGED vars
    BY <1>6 DEF vars, TypeInv, TypeOK
  <1> QED
    BY <1>1, <1>2, <1>3, <1>4, <1>5, <1>6 DEF Next

\* The first state has its types, and no request has been made.
LEMMA TypeInit == Init => TypeInv
  <1> SUFFICES ASSUME Init PROVE TypeInv
    OBVIOUS
  <1>1. 0 \in UIDs /\ New(0) \in ConfVal /\ Gone \in ConfVal
    BY ObjectAssumption, NewType DEF ConfVal, UIDs
  <1>2. {<<New(0)>>, <<Gone>>} \subseteq Hist(ConfVal)
    BY <1>1, FreshType
  <1>3. IdleReq \in RequestVal
    BY DEF IdleReq, RequestVal, Handlers, Answers
  <1>4. Progress(IdleReq)
    BY DEF IdleReq, Progress
  <1>5. TypeOK
    BY <1>1, <1>2, <1>3 DEF Init, TypeOK
  <1> QED
    BY <1>4, <1>5 DEF Init, TypeInv

\* No config ever shows a condition type twice, whichever requests patch it
\* at the same time (updateCondition, SetStatusCondition).
THEOREM TypeCorrect == Spec => []TypeOK
  <1>1. TypeInv => TypeOK
    BY DEF TypeInv
  <1> QED
    BY <1>1, TypeInit, TypeStep, PTL DEF Spec

-----------------------------------------------------------------------------
(***************************************************************************)
(* Which config is served.                                                 *)
(***************************************************************************)
\* A step moves one request, and the others forget configs at most.
LEMMA RequestStep ==
  ASSUME TypeInv, [Next]_vars, NEW r \in Requests
  PROVE  \/ Forgets(req[r], req'[r])
         \/ Handle(r)
         \/ \E path \in Paths : Arrive(r, path)
  <1>1. ASSUME req' = req PROVE Forgets(req[r], req'[r])
    BY <1>1 DEF Forgets, SameSelection
  <1>2. ASSUME NEW o \in Requests, Handle(o) \/ \E path \in Paths : Arrive(o, path), o # r
        PROVE  Forgets(req[r], req'[r])
    <2>1. PICK n : req' = [req EXCEPT ![o] = n]
      <3>1. CASE Handle(o)
        <4>1. CASE SetStatusCondition(o)
          BY <4>1 DEF SetStatusCondition
        <4>2. CASE ~SetStatusCondition(o)
          BY <3>1, <4>2, ListStep, GetOwnerStep, GetServerStep, ServeStep DEF Handle
        <4> QED
          BY <4>1, <4>2
      <3>2. CASE \E path \in Paths : Arrive(o, path)
        BY <3>2, ArriveStep DEF TypeInv
      <3> QED
        BY <1>2, <3>1, <3>2
    <2>2. req'[r] = req[r]
      BY <1>2, <2>1 DEF TypeInv, TypeOK
    <2> QED
      BY <2>2 DEF Forgets, SameSelection
  <1>3. ASSUME NEW c \in Configs, ChangeConfig(c) PROVE req' = req
    BY <1>3 DEF ChangeConfig
  <1>4. ASSUME NEW c \in Configs, Deliver(c) PROVE Forgets(req[r], req'[r])
    BY <1>4, DeliverStep DEF TypeInv
  <1>5. StartCaches \/ ChangeOther \/ UNCHANGED vars => req' = req
    BY DEF StartCaches, ChangeOther, vars
  <1> QED
    BY <1>1, <1>2, <1>3, <1>4, <1>5 DEF Next

\* A selection that stays is as good as it was.
LEMMA PreferredKept ==
  ASSUME NEW q, NEW n, Preferred(q), SameSelection(q, n)
  PROVE  Preferred(n)
  BY DEF Preferred, SameSelection, Owner

\* What preferredBootConfigIndex selects is preferred.
LEMMA PreferredSelected ==
  ASSUME NEW q \in RequestVal, NEW n, n.items = q.items, n.server \in ServerVal,
         n.chosen # 0, n.chosen = preferredBootConfigIndex(q, n.server)
  PROVE  Preferred(n)
  <1>1. \A i : Owner(q, i) = Owner(n, i)
    BY DEF Owner
  <1> DEFINE s == n.server
             i == n.chosen
             listed(sbc) == sbc # NoRef /\ \E j \in DOMAIN q.items : Owner(q, j) = sbc
  <1>2. /\ Owner(q, i) \in {s.boot, s.maintenance} \ {NoRef}
        /\ s.state = "Maintenance" /\ listed(s.maintenance) => Owner(q, i) = s.maintenance
        /\ s.state # "Maintenance" /\ listed(s.boot) => Owner(q, i) = s.boot
    BY PreferredIndex
  <1> QED
    BY <1>1, <1>2 DEF Preferred

\* Every step selects a preferred config or keeps the selection.
LEMMA PreferredStep ==
  TypeInv /\ ServedIsPreferred /\ [Next]_vars => ServedIsPreferred'
  <1> SUFFICES ASSUME TypeInv, ServedIsPreferred, [Next]_vars, NEW r \in Requests
               PROVE  Preferred(req'[r])
    BY DEF ServedIsPreferred
  <1> DEFINE q == req[r]
             m == req'[r]
  <1>1. q \in RequestVal /\ Progress(q) /\ Preferred(q)
    BY DEF TypeInv, TypeOK, ServedIsPreferred
  <1>2. ASSUME NEW n \in RequestVal, req' = [req EXCEPT ![r] = n]
        PROVE  m = n
    BY <1>2, OneRequest DEF TypeInv
  <1>3. \A n : n.chosen = 0 => Preferred(n)
    BY DEF Preferred
  <1> HIDE DEF q, m
  <1>4. CASE Forgets(q, m)
    BY <1>1, <1>4, PreferredKept DEF Forgets, m
  <1>5. CASE List(r)
    <2>1. PICK n \in RequestVal :
            LET failed == \E a \in {"404", "500"} : n = Answered(q, a)
            IN /\ req' = [req EXCEPT ![r] = n] /\ q.pc = "list" /\ SameQuestion(q, n)
               /\ \/ /\ Found(q) # {}
                     /\ \E items \in Listings(Found(q)) : n = Listed(q, items)
                  \/ Found(q) = {} /\ n \in NextKey(q)
                  \/ ~started /\ (n \in NextKey(q) \/ failed)
               /\ UNCHANGED <<world, changes, history>>
      BY <1>5, ListStep DEF q
    <2>2. q.chosen = 0
      BY <1>1, <2>1 DEF Progress
    <2>3. CASE n \in NextKey(q) \/ \E a \in {"404", "500"} : n = Answered(q, a)
      <3>1. {"404", "500"} \subseteq Answers
        BY DEF Answers
      <3>2. SameSelection(q, n)
        BY <1>1, <2>3, <3>1, NextKeyType, NoneFoundType, AnsweredType
      <3> QED
        BY <1>1, <1>2, <2>1, <3>2, PreferredKept DEF m
    <2>4. CASE \E items \in Listings(Found(q)) : n = Listed(q, items)
      <3>1. PICK items \in Listings(Found(q)) : n = Listed(q, items)
        BY <2>4
      <3>2. items \in Seq(Item)
        <4>1. Found(q) \in SUBSET Configs /\ \A c \in Found(q) : Exists(c)
          BY DEF Found, Lookup
        <4> QED
          BY <3>1, <4>1, ListingType DEF TypeInv
      <3>3. n.chosen = 0 \/ Len(n.items) = 1
        BY <1>1, <2>2, <3>1, <3>2, ListedType DEF SameSelection
      <3>4. Preferred(n)
        <4>1. CASE Len(n.items) = 1
          BY <4>1 DEF Preferred
        <4> QED
          BY <1>3, <3>3, <4>1
      <3> QED
        BY <1>2, <2>1, <3>4 DEF m
    <2> QED
      BY <2>1, <2>3, <2>4
  <1>6. CASE GetOwner(r) \/ ServeScript(r) \/ ServeTemplate(r) \/ ServeIgnition(r)
             \/ ServeUKI(r) \/ SetStatusCondition(r)
    <2>1. PICK n \in RequestVal : req' = [req EXCEPT ![r] = n] /\ SameSelection(q, n)
      BY <1>6, GetOwnerStep, ServeStep, PatchStep DEF q
    <2> QED
      BY <1>1, <1>2, <2>1, PreferredKept DEF m
  <1>7. CASE GetServer(r)
    <2>1. PICK n \in RequestVal :
            /\ req' = [req EXCEPT ![r] = n] /\ q.pc = "server"
            /\ SameQuestion(q, n) /\ n.at = q.at /\ n.items = q.items
            /\ \/ /\ n.pc = "owner" /\ n.answer = q.answer /\ n.next # 0
                  /\ n.chosen = q.chosen
               \/ n.pc = "answered" /\ n.answer = "500" /\ n.chosen = 0
               \/ /\ n.pc = "serve" /\ n.answer = q.answer
                  /\ n.server \in ServerVal
                  /\ n.chosen # 0 /\ n.chosen = preferredBootConfigIndex(q, n.server)
            /\ UNCHANGED <<world, changes, history>>
      BY <1>7, GetServerStep DEF q
    <2>2. n.chosen = 0 \/ Preferred(n)
      BY <1>1, <2>1, PreferredSelected DEF Progress
    <2> QED
      BY <1>2, <1>3, <2>1, <2>2 DEF m
  <1>8. ASSUME NEW path \in Paths, Arrive(r, path)
        PROVE  Preferred(m)
    <2>1. PICK n \in RequestVal : req' = [req EXCEPT ![r] = n] /\ n.chosen = 0
      BY <1>8, ArriveStep DEF TypeInv
    <2> QED
      BY <1>2, <1>3, <2>1 DEF m
  <1> QED
    BY <1>4, <1>5, <1>6, <1>7, <1>8, RequestStep DEF Handle, q, m

\* Among several configs of a machine the one served is the one its Server
\* prefers, in whatever order they are listed and whatever has been deleted
\* between the reads (preferredBootConfigIndex, resolveServer).
THEOREM SelectionIsPreferred == Spec => []ServedIsPreferred
  <1>1. Init => ServedIsPreferred
    BY DEF Init, ServedIsPreferred, Preferred, IdleReq
  <1> QED
    BY <1>1, TypeInit, TypeStep, PreferredStep, PTL DEF Spec

-----------------------------------------------------------------------------
(***************************************************************************)
(* What is recorded has been delivered.                                    *)
(***************************************************************************)
\* An object whose conditions say that its ignition has been fetched.
SaysFetched(object) == object # Gone /\ "IgnitionDataFetched" \in ToSet(object.conditions)

\* The objects of which that is no wonder.
Accounted == delivered \cup late

\* What a request has read, or is about to record, is true.
RecordsTruth(q) ==
  /\ \A i \in DOMAIN q.items :
       "IgnitionDataFetched" \in ToSet(q.items[i].object.conditions)
         => Identity(q.items[i]) \in Accounted
  /\ q.pc = "patch" /\ q.at # "ipxe" => Identity(ChosenItem(q)) \in Accounted

\* So is every revision of a config that a request may still read.
DeliveredInv ==
  /\ \A c \in Configs : \A i \in DOMAIN conf[c] :
       SaysFetched(conf[c][i]) => <<c, conf[c][i].uid>> \in Accounted
  /\ \A r \in Requests : RecordsTruth(req[r])

\* Nothing delivered is taken back.
LEMMA DeliveredGrows ==
  ASSUME TypeInv, [Next]_vars
  PROVE  Accounted \subseteq Accounted'
  <1>1. ASSUME UNCHANGED <<delivered, late>> PROVE Accounted \subseteq Accounted'
    BY <1>1 DEF Accounted
  <1>2. ASSUME NEW r \in Requests, Handle(r)
        PROVE  Accounted \subseteq Accounted'
    <2>1. CASE ServeScript(r) \/ ServeTemplate(r) \/ ServeIgnition(r) \/ ServeUKI(r)
      <3>1. /\ \/ delivered' = delivered
               \/ delivered' = delivered \cup {Identity(ChosenItem(req[r]))}
            /\ late' = late
        BY <2>1, ServeStep
      <3> QED
        BY <3>1 DEF Accounted
    <2>2. CASE SetStatusCondition(r)
      <3>1. PICK x : delivered' = delivered /\ (late' = late \/ late' = late \cup {x})
        BY <2>2, PatchStep
      <3> QED
        BY <3>1 DEF Accounted
    <2>3. CASE List(r) \/ GetOwner(r) \/ GetServer(r)
      BY <1>1, <2>3 DEF List, GetOwner, GetServer, history
    <2> QED
      BY <1>2, <2>1, <2>2, <2>3 DEF Handle
  <1>3. ASSUME NEW r \in Requests, NEW path \in Paths, Arrive(r, path)
        PROVE  UNCHANGED <<delivered, late>>
    BY <1>3 DEF Arrive, history
  <1>4. ASSUME NEW c \in Configs, ChangeConfig(c) \/ Deliver(c)
        PROVE  UNCHANGED <<delivered, late>>
    BY <1>4 DEF ChangeConfig, Deliver, history
  <1>5. StartCaches \/ ChangeOther \/ UNCHANGED vars => UNCHANGED <<delivered, late>>
    BY DEF StartCaches, ChangeOther, vars, history
  <1> QED
    BY <1>1, <1>2, <1>3, <1>4, <1>5 DEF Next

\* A request that reads nothing knows nothing new.
LEMMA TruthKept ==
  ASSUME NEW q \in RequestVal, NEW n, RecordsTruth(q), SameSelection(q, n),
         Accounted \subseteq Accounted',
         n.pc = "patch" => q.pc = "patch" /\ n.at = q.at
  PROVE  RecordsTruth(n)'
  <1>1. n.items = q.items /\ ChosenItem(n) = ChosenItem(q)
    BY DEF SameSelection, ChosenItem
  <1> QED
    BY <1>1 DEF RecordsTruth

\* What a request reads, and is about to record, is true.
LEMMA TruthStep ==
  ASSUME TypeInv, DeliveredInv, [Next]_vars, NEW r \in Requests
  PROVE  RecordsTruth(req[r])'
  <1> DEFINE q == req[r]
             m == req'[r]
  <1>1. q \in RequestVal /\ Progress(q) /\ RecordsTruth(q)
    BY DEF TypeInv, TypeOK, DeliveredInv
  <1>2. ASSUME NEW n \in RequestVal, req' = [req EXCEPT ![r] = n]
        PROVE  m = n
    BY <1>2, OneRequest DEF TypeInv
  <1>3. Accounted \subseteq Accounted'
    BY DeliveredGrows
  <1>4. ASSUME NEW n, m = n, RecordsTruth(n)'
        PROVE  RecordsTruth(req[r])'
    BY <1>4 DEF RecordsTruth
  <1>5. ASSUME NEW n, m = n, SameSelection(q, n), n.pc = "patch" => q.pc = "patch" /\ n.at = q.at
        PROVE  RecordsTruth(req[r])'
    <2> HIDE DEF q, m
    <2>1. RecordsTruth(n)'
      BY <1>1, <1>3, <1>5, TruthKept
    <2> QED
      BY <1>4, <1>5, <2>1
  <1> HIDE DEF q, m
  <1>6. CASE Forgets(q, m)
    <2>1. PICK n : m = n
      OBVIOUS
    <2> QED
      BY <1>5, <1>6, <2>1 DEF Forgets
  <1>7. CASE List(r)
    <2>1. PICK n \in RequestVal :
            LET failed == \E a \in {"404", "500"} : n = Answered(q, a)
            IN /\ req' = [req EXCEPT ![r] = n] /\ q.pc = "list" /\ SameQuestion(q, n)
               /\ \/ /\ Found(q) # {}
                     /\ \E items \in Listings(Found(q)) : n = Listed(q, items)
                  \/ Found(q) = {} /\ n \in NextKey(q)
                  \/ ~started /\ (n \in NextKey(q) \/ failed)
               /\ UNCHANGED <<world, changes, history>>
      BY <1>7, ListStep DEF q
    <2>2. m = n
      BY <1>2, <2>1
    <2>3. CASE n \in NextKey(q) \/ \E a \in {"404", "500"} : n = Answered(q, a)
      <3>1. {"404", "500"} \subseteq Answers
        BY DEF Answers
      <3>2. SameSelection(q, n) /\ n.pc # "patch"
        BY <1>1, <2>1, <2>3, <3>1, NextKeyType, NoneFoundType, AnsweredType
      <3> QED
        BY <1>5, <2>2, <3>2
    <2>4. CASE \E items \in Listings(Found(q)) : n = Listed(q, items)
      <3>1. PICK items \in Listings(Found(q)) : n = Listed(q, items)
        BY <2>4
      <3>2. Found(q) \in SUBSET Configs /\ \A c \in Found(q) : Exists(c)
        BY DEF Found, Lookup
      <3>3. /\ items \in Seq(Item)
            /\ \A i \in DOMAIN items : /\ items[i].name \in Found(q)
                                       /\ items[i].object = Cached(conf[items[i].name])
        BY <3>1, <3>2, ListingType DEF TypeInv
      <3>4. n.pc # "patch" /\ (SameSelection(q, n) \/ n.items = items)
        BY <1>1, <2>1, <3>1, <3>3, ListedType
      <3>5. CASE SameSelection(q, n)
        BY <1>5, <2>2, <3>4, <3>5
      <3>6. CASE n.items = items
        <4>1. ASSUME NEW i \in DOMAIN n.items,
                     "IgnitionDataFetched" \in ToSet(n.items[i].object.conditions)
              PROVE  Identity(n.items[i]) \in Accounted'
          <5> DEFINE c == n.items[i].name
          <5>1. c \in Configs /\ Exists(c) /\ n.items[i].object = Cached(conf[c])
            BY <3>2, <3>3, <3>6, <4>1
          <5>0. Identity(n.items[i]) = <<c, n.items[i].object.uid>>
            BY DEF Identity
          <5> HIDE DEF c
          <5>2. conf[c] \in Hist(ConfVal)
            BY <5>1 DEF TypeInv, TypeOK
          <5>3. SaysFetched(conf[c][1]) /\ 1 \in DOMAIN conf[c]
            BY <4>1, <5>1, <5>2, HistoryValues DEF SaysFetched, Exists
          <5>4. <<c, conf[c][1].uid>> \in Accounted /\ conf[c][1] = n.items[i].object
            BY <5>1, <5>2, <5>3, HistoryValues DEF DeliveredInv
          <5> QED
            BY <1>3, <5>0, <5>4
        <4>2. RecordsTruth(n)'
          BY <3>4, <4>1 DEF RecordsTruth
        <4> QED
          BY <1>4, <2>2, <4>2
      <3> QED
        BY <3>4, <3>5, <3>6
    <2> QED
      BY <2>1, <2>3, <2>4
  <1>8. CASE GetOwner(r) \/ SetStatusCondition(r)
    <2>1. PICK n \in RequestVal :
            req' = [req EXCEPT ![r] = n] /\ SameSelection(q, n) /\ n.pc # "patch"
      BY <1>8, GetOwnerStep, PatchStep DEF q
    <2> QED
      BY <1>2, <1>5, <2>1
  <1>9. CASE GetServer(r)
    <2>1. PICK n \in RequestVal :
            req' = [req EXCEPT ![r] = n] /\ n.items = q.items /\ n.pc # "patch"
      BY <1>9, GetServerStep DEF q
    <2>2. ASSUME NEW i \in DOMAIN n.items,
                 "IgnitionDataFetched" \in ToSet(n.items[i].object.conditions)
          PROVE  Identity(n.items[i]) \in Accounted'
      BY <1>1, <1>3, <2>1, <2>2 DEF RecordsTruth
    <2>3. RecordsTruth(n)'
      BY <2>1, <2>2 DEF RecordsTruth
    <2> QED
      BY <1>2, <1>4, <2>1, <2>3
  <1>10. CASE ServeScript(r) \/ ServeTemplate(r) \/ ServeIgnition(r) \/ ServeUKI(r)
    <2>1. PICK n \in RequestVal :
            /\ req' = [req EXCEPT ![r] = n]
            /\ q.pc = "serve" /\ n.pc \in {"patch", "answered"}
            /\ SameSelection(q, n) /\ n.at = q.at
            /\ n.pc = "patch" /\ n.at # "ipxe" =>
                 delivered' = delivered \cup {Identity(ChosenItem(q))}
      BY <1>10, ServeStep DEF q
    <2>2. CASE n.pc # "patch"
      BY <1>2, <1>5, <2>1, <2>2
    <2>3. CASE n.pc = "patch"
      <3>1. ASSUME NEW i \in DOMAIN n.items,
                   "IgnitionDataFetched" \in ToSet(n.items[i].object.conditions)
            PROVE  Identity(n.items[i]) \in Accounted'
        BY <1>1, <1>3, <2>1, <3>1 DEF RecordsTruth, SameSelection
      <3>2. ASSUME n.at # "ipxe"
            PROVE  Identity(ChosenItem(n)) \in Accounted'
        <4>1. ChosenItem(n) = ChosenItem(q)
          BY <2>1 DEF ChosenItem, SameSelection
        <4> QED
          BY <2>1, <2>3, <3>2, <4>1 DEF Accounted
      <3>3. RecordsTruth(n)'
        BY <3>1, <3>2 DEF RecordsTruth
      <3> QED
        BY <1>2, <1>4, <2>1, <3>3
    <2> QED
      BY <2>2, <2>3
  <1>11. ASSUME NEW path \in Paths, Arrive(r, path)
         PROVE  RecordsTruth(req[r])'
    <2>1. PICK n \in RequestVal :
            req' = [req EXCEPT ![r] = n] /\ n.items = <<>> /\ n.pc # "patch"
      BY <1>11, ArriveStep DEF TypeInv
    <2>2. RecordsTruth(n)'
      BY <2>1 DEF RecordsTruth
    <2> QED
      BY <1>2, <1>4, <2>1, <2>2
  <1> QED
    BY <1>6, <1>7, <1>8, <1>9, <1>10, <1>11, RequestStep DEF Handle, q, m

\* So is every revision of a config.
LEMMA RevisionsStep ==
  ASSUME TypeInv, DeliveredInv, [Next]_vars, NEW c \in Configs, NEW i \in DOMAIN conf'[c],
         SaysFetched(conf'[c][i])
  PROVE  <<c, conf'[c][i].uid>> \in Accounted'
  <1> DEFINE goal == <<c, conf'[c][i].uid>> \in Accounted'
  <1>1. conf \in [Configs -> Hist(ConfVal)] /\ conf[c] \in Hist(ConfVal)
    BY DEF TypeInv, TypeOK
  <1>2. ASSUME NEW j \in DOMAIN conf[c], conf[c][j] = conf'[c][i]
        PROVE  goal
    BY <1>2, DeliveredGrows DEF DeliveredInv
  <1>3. ASSUME conf'[c] = conf[c]
        PROVE  goal
    BY <1>2, <1>3
  <1> HIDE DEF goal
  <1>4. ASSUME NEW o \in Configs, ChangeConfig(o)
        PROVE  goal
    <2>1. PICK v \in ConfVal : /\ conf' = [conf EXCEPT ![o] = Write(@, v)]
                               /\ v # Gone => v.conditions = <<>>
      BY <1>4, ChangeConfigStep DEF TypeInv
    <2>2. CASE o = c
      <3>1. conf'[c] = Write(conf[c], v)
        BY <1>1, <2>1, <2>2
      <3>2. conf'[c][i] # v
        BY <2>1 DEF SaysFetched, ToSet
      <3> QED
        BY <1>1, <1>2, <2>1, <3>1, <3>2, HistoryValues
    <2>3. CASE o # c
      BY <1>1, <1>3, <2>1, <2>3
    <2> QED
      BY <2>2, <2>3
  <1>5. ASSUME NEW o \in Configs, Deliver(o)
        PROVE  goal
    <2>1. conf' = [conf EXCEPT ![o] = Advance(@)]
      BY <1>5, DeliverStep DEF TypeInv
    <2>2. CASE o = c
      <3>1. conf'[c] = Advance(conf[c])
        BY <1>1, <2>1, <2>2
      <3> QED
        BY <1>1, <1>2, <3>1, HistoryValues
    <2>3. CASE o # c
      BY <1>1, <1>3, <2>1, <2>3
    <2> QED
      BY <2>2, <2>3
  <1>6. ASSUME NEW r \in Requests, SetStatusCondition(r)
        PROVE  goal
    <2> DEFINE q == req[r]
               o == Chosen(q)
               item == ChosenItem(q)
               stored == Stored(conf[o])
               list == updateCondition(item.object.conditions, Recorder(q))
               v == [uid |-> stored.uid, conditions |-> list]
    <2>1. /\ q.pc = "patch" /\ o \in Configs /\ list \in ConditionLists /\ item.name = o
          /\ ToSet(list) = ToSet(item.object.conditions) \cup {Recorder(q)}
          /\ \/ conf' = conf
             \/ /\ stored \in ObjectOfName
                /\ conf' = [conf EXCEPT ![o] = Write(@, v)]
                /\ late' = IF item.object.uid = stored.uid
                             THEN late ELSE late \cup {<<o, stored.uid>>}
      BY <1>6, PatchStep
    <2>2. RecordsTruth(q) /\ q.chosen \in DOMAIN q.items
      BY <2>1 DEF TypeInv, TypeOK, Progress, DeliveredInv
    <2>3. v.uid = stored.uid /\ v.conditions = list /\ Identity(item) = <<o, item.object.uid>>
      BY <2>1 DEF Identity
    <2>4. stored \in ObjectOfName => v \in ConfVal
      BY <2>1 DEF ConfVal, ObjectOfName
    <2>5. "IgnitionDataFetched" \in ToSet(list) => Identity(item) \in Accounted
      <3>1. CASE "IgnitionDataFetched" \in ToSet(item.object.conditions)
        BY <2>2, <3>1 DEF RecordsTruth, ChosenItem
      <3>2. CASE Recorder(q) = "IgnitionDataFetched"
        BY <2>1, <2>2, <3>2 DEF RecordsTruth, Recorder
      <3> QED
        BY <2>1, <3>1, <3>2
    <2> HIDE DEF q, o, item, stored, list, v
    <2>6. CASE o = c /\ conf' # conf
      <3>1. conf'[c] = Write(conf[c], v) /\ v \in ConfVal
        BY <1>1, <2>1, <2>4, <2>6
      <3>2. CASE conf'[c][i] = v
        <4>1. Identity(item) \in Accounted
          BY <2>3, <2>5, <3>2 DEF SaysFetched
        <4>2. <<o, stored.uid>> \in Accounted'
          BY <2>1, <2>3, <2>6, <4>1, DeliveredGrows DEF Accounted
        <4> QED
          BY <2>3, <2>6, <3>2, <4>2 DEF goal
      <3>3. CASE conf'[c][i] # v
        BY <1>1, <1>2, <3>1, <3>3, HistoryValues
      <3> QED
        BY <3>2, <3>3
    <2>7. CASE o # c \/ conf' = conf
      <3>1. conf' = conf \/ conf' = [conf EXCEPT ![o] = Write(@, v)]
        BY <2>1
      <3>2. conf'[c] = conf[c]
        BY <1>1, <2>7, <3>1
      <3> QED
        BY <1>3, <3>2
    <2> QED
      BY <2>6, <2>7
  <1>7. ASSUME NEW r \in Requests, Handle(r), ~SetStatusCondition(r)
        PROVE  conf' = conf
    <2>1. UNCHANGED world
      BY <1>7, ListStep, GetOwnerStep, GetServerStep, ServeStep DEF Handle
    <2> QED
      BY <2>1 DEF world
  <1>8. ASSUME NEW r \in Requests, NEW path \in Paths, Arrive(r, path)
        PROVE  conf' = conf
    BY <1>8, ArriveStep DEF TypeInv, world
  <1>9. StartCaches \/ ChangeOther \/ UNCHANGED vars => conf' = conf
    BY DEF StartCaches, ChangeOther, vars
  <1> QED
    BY <1>3, <1>4, <1>5, <1>6, <1>7, <1>8, <1>9 DEF Next, goal

\* An object says IgnitionDataFetched only if a request was answered with its
\* own ignition, whatever was read, edited, deleted, created anew and patched
\* meanwhile (handleIgnitionIPXEBoot, handleIgnitionHTTPBoot), or if the patch
\* for a former object of its name has hit it (SetStatusCondition).
THEOREM RecordedWasDelivered == Spec => []FetchedWasDelivered
  <1>1. Init => DeliveredInv
    <2> SUFFICES ASSUME Init PROVE DeliveredInv
      OBVIOUS
    <2>1. ASSUME NEW c \in Configs, NEW i \in DOMAIN conf[c] PROVE ~SaysFetched(conf[c][i])
      <3>1. conf[c] = <<New(0)>> \/ conf[c] = <<Gone>>
        BY DEF Init
      <3>2. conf[c][i] = New(0) \/ conf[c][i] = Gone
        BY <2>1, <3>1
      <3> QED
        BY <3>2 DEF SaysFetched, ToSet, New
    <2>2. ASSUME NEW r \in Requests PROVE RecordsTruth(req[r])
      <3>1. req[r].items = <<>> /\ req[r].pc = "idle"
        BY DEF Init, IdleReq
      <3> QED
        BY <3>1 DEF RecordsTruth
    <2> QED
      BY <2>1, <2>2 DEF DeliveredInv
  <1>2. TypeInv /\ DeliveredInv /\ [Next]_vars => DeliveredInv'
    BY TruthStep, RevisionsStep DEF DeliveredInv, SaysFetched
  <1>3. TypeInv /\ DeliveredInv => FetchedWasDelivered
    <2> SUFFICES ASSUME TypeInv, DeliveredInv, NEW c \in Configs, SaysFetched(Stored(conf[c]))
                 PROVE  <<c, Stored(conf[c]).uid>> \in delivered \cup late
      BY DEF FetchedWasDelivered, SaysFetched
    <2>1. Stored(conf[c]) = conf[c][Len(conf[c])] /\ Len(conf[c]) \in DOMAIN conf[c]
      BY HistoryValues DEF TypeInv, TypeOK
    <2> QED
      BY <2>1 DEF DeliveredInv, Accounted
  <1> QED
    BY <1>1, <1>2, <1>3, TypeInit, TypeStep, PTL DEF Spec

-----------------------------------------------------------------------------
(***************************************************************************)
(* Who is told that the machine is unknown.                                *)
(***************************************************************************)
\* What an index lookup finds a config by.
HasKey(c, kind, key) == Object[c].kind = kind /\ key \in {Object[c].uuid} \cup Object[c].addresses

\* A request that met started caches has passed no key of a config that has
\* been there since it arrived.
PassedNone(q) ==
  /\ q.pc # "idle" => started
  /\ q.pc = "list" =>
       \A k \in 1..q.next - 1 : \A c \in q.steady : ~HasKey(c, KindOf(q), Keys(q)[k])
  /\ q.pc = "list" /\ q.at = "ignitionHTTP" =>
       \A c \in q.steady : Object[c].kind = "IPXE" =>
          q.asked # <<Object[c].uuid>> /\ Object[c].uuid # "upper"

KnownInv ==
  \A r \in Requests :
    /\ \A c \in req[r].steady : Exists(c)
    /\ ~req[r].early => PassedNone(req[r])

\* No config that a request knows to be there is told to be unknown, except
\* those that /ignition/ overlooks.
UnknownReal(q) ==
  Unknown(q) /\ ~q.early =>
    \A c \in q.steady \cap Matching(q) : MissedInLowerCase(q, c) \/ NotFallenBackTo(q, c)

\* The cache of a config moves with its watch events only.
LEMMA CacheMoves ==
  ASSUME TypeInv, [Next]_vars, NEW c \in Configs
  PROVE  Cached(conf'[c]) = Cached(conf[c]) \/ Deliver(c)
  <1>1. conf \in [Configs -> Hist(ConfVal)] /\ conf[c] \in Hist(ConfVal)
    BY DEF TypeInv, TypeOK
  <1>2. ASSUME NEW o \in Configs, NEW v \in ConfVal, conf' = [conf EXCEPT ![o] = Write(@, v)]
        PROVE  Cached(conf'[c]) = Cached(conf[c])
    <2>1. conf'[c] = conf[c] \/ conf'[c] = Write(conf[c], v)
      BY <1>1, <1>2
    <2> QED
      BY <1>1, <2>1, WriteType
  <1>3. ASSUME NEW o \in Configs, ChangeConfig(o)
        PROVE  Cached(conf'[c]) = Cached(conf[c])
    <2>1. PICK v \in ConfVal : conf' = [conf EXCEPT ![o] = Write(@, v)]
      BY <1>3, ChangeConfigStep DEF TypeInv
    <2> QED
      BY <1>2, <2>1
  <1>4. ASSUME NEW o \in Configs, Deliver(o)
        PROVE  Cached(conf'[c]) = Cached(conf[c]) \/ Deliver(c)
    <2>1. conf' = [conf EXCEPT ![o] = Advance(@)]
      BY <1>4, DeliverStep DEF TypeInv
    <2> QED
      BY <1>1, <1>4, <2>1
  <1>5. ASSUME NEW r \in Requests, SetStatusCondition(r)
        PROVE  Cached(conf'[c]) = Cached(conf[c])
    <2> DEFINE q == req[r]
               o == Chosen(q)
               list == updateCondition(ChosenItem(q).object.conditions, Recorder(q))
    <2>1. /\ o \in Configs /\ list \in ConditionLists
          /\ \/ conf' = conf
             \/ /\ Stored(conf[o]) \in ObjectOfName
                /\ conf' = [conf EXCEPT
                     ![o] = Write(@, [uid |-> Stored(conf[o]).uid, conditions |-> list])]
      BY <1>5, PatchStep
    <2> HIDE DEF q, o, list
    <2>2. Stored(conf[o]) \in ObjectOfName =>
            [uid |-> Stored(conf[o]).uid, conditions |-> list] \in ConfVal
      BY <2>1 DEF ConfVal, ObjectOfName
    <2> QED
      BY <1>2, <2>1, <2>2
  <1>6. ASSUME NEW r \in Requests, Handle(r), ~SetStatusCondition(r)
        PROVE  conf' = conf
    <2>1. UNCHANGED world
      BY <1>6, ListStep, GetOwnerStep, GetServerStep, ServeStep DEF Handle
    <2> QED
      BY <2>1 DEF world
  <1>7. ASSUME NEW r \in Requests, NEW path \in Paths, Arrive(r, path)
        PROVE  conf' = conf
    BY <1>7, ArriveStep DEF TypeInv, world
  <1>8. StartCaches \/ ChangeOther \/ UNCHANGED vars => conf' = conf
    BY DEF StartCaches, ChangeOther, vars
  <1> QED
    BY <1>3, <1>4, <1>5, <1>6, <1>7, <1>8 DEF Next

\* Started caches stay so.
LEMMA StartedStays ==
  ASSUME TypeInv, [Next]_vars, started
  PROVE  started'
  <1>1. ASSUME NEW r \in Requests, Handle(r) PROVE started' = started
    BY <1>1, ListStep, GetOwnerStep, GetServerStep, ServeStep, PatchStep DEF Handle, world
  <1>2. ASSUME NEW r \in Requests, NEW path \in Paths, Arrive(r, path) PROVE started' = started
    BY <1>2, ArriveStep DEF TypeInv, world
  <1>3. ASSUME NEW c \in Configs, ChangeConfig(c) \/ Deliver(c) PROVE started' = started
    BY <1>3 DEF ChangeConfig, Deliver
  <1>4. StartCaches \/ ChangeOther \/ UNCHANGED vars => started'
    BY DEF StartCaches, ChangeOther, vars
  <1> QED
    BY <1>1, <1>2, <1>3, <1>4 DEF Next

\* What a request takes for there is there.
LEMMA SteadyStep ==
  ASSUME TypeInv, KnownInv, [Next]_vars, NEW r \in Requests, NEW c \in req'[r].steady
  PROVE  Exists(c)'
  <1>1. TypeInv'
    BY TypeStep
  <1>2. c \in Configs
    BY <1>1 DEF TypeInv, TypeOK, RequestVal
  <1>3. CASE \E path \in Paths : Arrive(r, path)
    <2>1. PICK n \in RequestVal :
            /\ req' = [req EXCEPT ![r] = n] /\ n.steady = {o \in Configs : Exists(o)}
            /\ UNCHANGED world
      BY <1>3, ArriveStep DEF TypeInv
    <2>2. Exists(c)
      BY <2>1, OneRequest DEF TypeInv
    <2> QED
      BY <2>1, <2>2 DEF world, Exists
  <1>4. CASE Forgets(req[r], req'[r]) \/ Handle(r)
    <2>1. c \in req[r].steady
      <3>1. CASE Handle(r)
        <4>1. PICK n \in RequestVal : req' = [req EXCEPT ![r] = n] /\ SameQuestion(req[r], n)
          BY <3>1, ListStep, GetOwnerStep, GetServerStep, ServeStep, PatchStep DEF Handle
        <4> QED
          BY <4>1, OneRequest DEF TypeInv, SameQuestion
      <3> QED
        BY <1>4, <3>1 DEF Forgets
    <2>2. Exists(c)
      BY <2>1 DEF KnownInv
    <2>3. CASE Cached(conf'[c]) = Cached(conf[c])
      BY <2>2, <2>3 DEF Exists
    <2>4. CASE Deliver(c)
      BY <1>2, <2>4, DeliverStep DEF TypeInv, Exists
    <2> QED
      BY <1>2, <2>3, <2>4, CacheMoves
  <1> QED
    BY <1>3, <1>4, RequestStep

\* A lookup in a started cache that finds nothing proves that no config with
\* the key has been there all the time.
LEMMA NotFound ==
  ASSUME NEW q \in RequestVal, NEW c \in q.steady, Exists(c), Found(q) = {}
  PROVE  ~HasKey(c, KindOf(q), Keys(q)[q.next])
  BY DEF RequestVal, Found, Lookup, HasKey

\* A handler that has passed all its keys has looked for every config that
\* matches the question.
LEMMA AllPassed ==
  ASSUME NEW q \in RequestVal, Progress(q), q.pc = "list", PassedNone(q),
         \A c \in q.steady : Exists(c), Found(q) = {}, ~(q.next < Len(Keys(q))),
         NEW n \in NoneFound(q)
  PROVE  PassedNone(n) /\ UnknownReal(n)
  <1>1. /\ q.next \in Nat /\ q.next <= Len(Keys(q)) /\ Len(Keys(q)) \in Nat
        /\ q.at # "httpboot" => \E u \in Cases : q.asked = <<u>>
        /\ q.chosen = 0 /\ q.answer = "none"
    <2>1. /\ q.next \in 1..Len(Keys(q)) /\ q.chosen = 0 /\ q.answer = "none"
          /\ q.at # "httpboot" => \E u \in Cases : q.asked = <<u>>
      BY DEF Progress
    <2>2. Len(Keys(q)) \in Nat
      BY <2>1, KeysLength
    <2> HIDE DEF Keys
    <2> QED
      BY <2>1, <2>2
  <1>2. /\ n \in RequestVal
        /\ n.asked = q.asked /\ n.steady = q.steady /\ n.early = q.early
        /\ n.chosen = 0
        /\ \/ /\ q.at = "dispatch" /\ n.at = "ignitionHTTP" /\ n.next = 1
              /\ n.pc = "list" /\ n.answer = "none"
           \/ /\ q.at # "dispatch" /\ n.at = q.at /\ n.pc = "answered"
    BY <1>1, NoneFoundType DEF SameQuestion, SameSelection
  <1>3. ASSUME NEW c \in q.steady, NEW k \in 1..Len(Keys(q))
        PROVE  ~HasKey(c, KindOf(q), Keys(q)[k])
    <2> DEFINE len == Len(Keys(q))
    <2> HIDE DEF len
    <2>1. k \in 1..q.next - 1 \/ k = q.next
      BY <1>1, <1>3 DEF len
    <2> QED
      BY <2>1, NotFound DEF PassedNone
  <1>4. \A c \in q.steady : Object[c].kind \in {"IPXE", "HTTP"}
    BY ObjectAssumption DEF RequestVal, ObjectVal
  <1>5. CASE q.at = "dispatch"
    <2>1. PICK u \in Cases : q.asked = <<u>>
      BY <1>1, <1>5
    <2>2. Len(Keys(q)) = 2 /\ Keys(q)[1] = u /\ Keys(q)[2] = "upper"
      BY <1>5, <2>1, KeysType
    <2>3. ASSUME NEW c \in q.steady, Object[c].kind = "IPXE"
          PROVE  q.asked # <<Object[c].uuid>> /\ Object[c].uuid # "upper"
      <3>1. KindOf(q) = "IPXE"
        BY <1>5 DEF KindOf
      <3>2. ~HasKey(c, "IPXE", u) /\ ~HasKey(c, "IPXE", "upper")
        BY <1>3, <2>2, <3>1
      <3> QED
        BY <2>1, <2>3, <3>2 DEF HasKey
    <2>4. PassedNone(n)
      <3>1. 1..n.next - 1 = {}
        BY <1>2, <1>5
      <3> QED
        BY <1>2, <1>5, <2>3, <3>1 DEF PassedNone
    <2>5. UnknownReal(n)
      BY <1>2, <1>5 DEF UnknownReal, Unknown
    <2> QED
      BY <2>4, <2>5
  <1>6. CASE q.at # "dispatch"
    <2>1. PassedNone(n)
      BY <1>2, <1>6 DEF PassedNone
    <2>2. ASSUME NEW c \in q.steady, c \in Matching(n),
                 ~MissedInLowerCase(n, c), ~NotFallenBackTo(n, c)
          PROVE  FALSE
      <3>1. q.at \in {"ipxe", "ignitionIPXE", "ignitionHTTP", "httpboot"} /\ n.at = q.at
        BY <1>2, <1>6 DEF RequestVal, Handlers
      <3>2. CASE q.at = "ipxe"
        <4>1. Object[c].kind = "IPXE" /\ q.asked = <<Object[c].uuid>>
          BY <1>2, <2>2, <3>1, <3>2 DEF Matching
        <4>2. Keys(q) = <<Object[c].uuid>> /\ KindOf(q) = "IPXE"
          BY <3>2, <4>1, KeysType DEF KindOf
        <4>3. ~HasKey(c, "IPXE", Object[c].uuid)
          BY <1>3, <4>2
        <4> QED
          BY <4>1, <4>3 DEF HasKey
      <3>3. CASE q.at \in {"ignitionIPXE", "ignitionHTTP"}
        <4>1. PICK u \in Cases : q.asked = <<u>>
          BY <1>1, <3>3
        <4>2. /\ Len(Keys(q)) = 3 /\ Keys(q)[1] = u
              /\ Keys(q)[2] = "upper" /\ Keys(q)[3] = "lower"
          BY <3>3, <4>1, KeysType
        <4>3. /\ ~HasKey(c, KindOf(q), u) /\ ~HasKey(c, KindOf(q), "upper")
              /\ ~HasKey(c, KindOf(q), "lower")
          BY <1>3, <4>2
        <4>4. Object[c].uuid \in {"lower", "upper"} \/ u = Object[c].uuid
          BY <1>2, <2>2, <3>1, <3>3, <4>1 DEF Matching
        <4>5. CASE Object[c].kind = KindOf(q)
          BY <4>3, <4>4, <4>5 DEF HasKey
        <4>6. CASE Object[c].kind # KindOf(q)
          <5>1. q.at = "ignitionHTTP" /\ Object[c].kind = "IPXE"
            BY <1>4, <2>2, <3>1, <3>3, <4>6 DEF KindOf, NotFallenBackTo
          <5>2. q.asked # <<Object[c].uuid>> /\ Object[c].uuid # "upper"
            BY <5>1 DEF PassedNone
          <5>3. Object[c].uuid = "lower"
            BY <4>1, <4>4, <5>2
          <5> QED
            BY <1>2, <2>2, <3>1, <5>1, <5>2, <5>3 DEF MissedInLowerCase
        <4> QED
          BY <4>5, <4>6
      <3>4. CASE q.at = "httpboot"
        <4>1. Object[c].kind = "HTTP" /\ Object[c].addresses \cap ToSet(q.asked) # {}
          BY <1>2, <2>2, <3>1, <3>4 DEF Matching
        <4>2. PICK j \in DOMAIN q.asked : q.asked[j] \in Object[c].addresses
          BY <4>1 DEF ToSet
        <4>3. Keys(q) = q.asked /\ KindOf(q) = "HTTP" /\ j \in 1..Len(q.asked)
          BY <3>4, <4>2, KeysType DEF KindOf, RequestVal
        <4>4. ~HasKey(c, "HTTP", q.asked[j])
          BY <1>3, <4>3
        <4> QED
          BY <4>1, <4>2, <4>4 DEF HasKey
      <3> QED
        BY <3>1, <3>2, <3>3, <3>4
    <2>3. UnknownReal(n)
      BY <1>2, <1>6, <2>2 DEF UnknownReal
    <2> QED
      BY <2>1, <2>3
  <1> QED
    BY <1>5, <1>6

\* One List.
LEMMA ListKnown ==
  ASSUME TypeInv, NEW q \in RequestVal, Progress(q), q.pc = "list", PassedNone(q),
         \A c \in q.steady : Exists(c),
         NEW n \in RequestVal, SameQuestion(q, n),
         \/ \E items \in Seq(Item) : n = Listed(q, items)
         \/ Found(q) = {} /\ n \in NextKey(q)
  PROVE  PassedNone(n) /\ UnknownReal(n)
  <1>1. /\ started /\ q.next \in 1..Len(Keys(q)) /\ q.answer = "none"
        /\ n.asked = q.asked /\ n.steady = q.steady
    BY DEF Progress, PassedNone, SameQuestion
  <1>2. CASE \E items \in Seq(Item) : n = Listed(q, items)
    <2>1. /\ n.answer = "none"
          /\ \/ n.at = "ignitionIPXE" /\ n.next = 1
             \/ n.pc \in {"serve", "owner"}
      BY <1>1, <1>2, ListedType
    <2>2. n.next = 1 => 1..n.next - 1 = {}
      OBVIOUS
    <2>3. PassedNone(n)
      BY <1>1, <2>1, <2>2 DEF PassedNone
    <2>4. UnknownReal(n)
      BY <2>1 DEF UnknownReal, Unknown
    <2> QED
      BY <2>3, <2>4
  <1>3. CASE Found(q) = {} /\ n \in NextKey(q) /\ q.next < Len(Keys(q))
    <2>1. n.at = q.at /\ n.next = q.next + 1 /\ n.pc = "list" /\ n.answer = "none"
      BY <1>1, <1>3, NextKeyType
    <2>2. Keys(n) = Keys(q) /\ KindOf(n) = KindOf(q)
      BY <1>1, <2>1 DEF Keys, KindOf
    <2>3. ASSUME NEW k \in 1..n.next - 1, NEW c \in n.steady
          PROVE  ~HasKey(c, KindOf(n), Keys(n)[k])
      <3>1. q.next \in Nat
        BY DEF RequestVal
      <3>2. k \in 1..q.next - 1 \/ k = q.next
        BY <2>1, <2>3, <3>1
      <3> QED
        BY <1>1, <1>3, <2>2, <2>3, <3>2, NotFound DEF PassedNone
    <2>4. PassedNone(n)
      <3> HIDE DEF Keys
      <3> QED
        BY <1>1, <2>1, <2>3 DEF PassedNone
    <2>5. UnknownReal(n)
      BY <2>1 DEF UnknownReal, Unknown
    <2> QED
      BY <2>4, <2>5
  <1>4. CASE Found(q) = {} /\ n \in NextKey(q) /\ ~(q.next < Len(Keys(q)))
    <2>1. n \in NoneFound(q)
      BY <1>4, NextKeyType
    <2> QED
      BY <1>4, <2>1, AllPassed
  <1> QED
    BY <1>2, <1>3, <1>4

\* Every step of a request that met started caches.
LEMMA KnownStep ==
  ASSUME TypeInv, KnownInv, UnknownIsReal, [Next]_vars, NEW r \in Requests,
         ~req'[r].early
  PROVE  PassedNone(req[r])' /\ UnknownReal(req'[r])
  <1> DEFINE q == req[r]
             m == req'[r]
  <1>1. /\ q \in RequestVal /\ Progress(q)
        /\ \A c \in q.steady : Exists(c)
        /\ ~q.early => PassedNone(q) /\ UnknownReal(q)
    BY DEF TypeInv, TypeOK, KnownInv, UnknownIsReal, UnknownReal
  <1>2. ASSUME NEW n \in RequestVal, req' = [req EXCEPT ![r] = n]
        PROVE  m = n
    BY <1>2, OneRequest DEF TypeInv
  <1>3. ASSUME NEW n, m = n, PassedNone(n), UnknownReal(n), started => started'
        PROVE  PassedNone(req[r])' /\ UnknownReal(req'[r])
    BY <1>3 DEF PassedNone
  \* A request that lists no more says nothing about the keys.
  <1>4. ASSUME NEW n, m = n, n.pc # "list", started', n.answer \in {"404", "default"} => n.chosen # 0
        PROVE  PassedNone(req[r])' /\ UnknownReal(req'[r])
    BY <1>4 DEF PassedNone, UnknownReal, Unknown
  <1>5. started => started'
    BY StartedStays
  <1> HIDE DEF q, m
  <1>6. CASE Forgets(q, m)
    <2>1. /\ m.pc = q.pc /\ m.at = q.at /\ m.asked = q.asked /\ m.next = q.next
          /\ m.early = q.early /\ m.answer = q.answer /\ m.chosen = q.chosen
          /\ m.steady \subseteq q.steady /\ ~q.early
      BY <1>6 DEF Forgets, SameSelection, m
    <2>2. Keys(m) = Keys(q) /\ KindOf(m) = KindOf(q) /\ Matching(m) = Matching(q)
      BY <2>1 DEF Keys, KindOf, Matching
    <2>6. \A c : /\ MissedInLowerCase(m, c) <=> MissedInLowerCase(q, c)
                 /\ NotFallenBackTo(m, c) <=> NotFallenBackTo(q, c)
      BY <2>1 DEF MissedInLowerCase, NotFallenBackTo
    <2> HIDE DEF Keys
    <2>3. PassedNone(m)
      BY <1>1, <2>1, <2>2 DEF PassedNone
    <2>4. UnknownReal(m)
      BY <1>1, <2>1, <2>2, <2>6 DEF UnknownReal, Unknown
    <2>5. PICK n : n = m
      OBVIOUS
    <2> QED
      BY <1>3, <1>5, <2>3, <2>4, <2>5
  <1>7. CASE List(r)
    <2>1. PICK n \in RequestVal :
            LET failed == \E a \in {"404", "500"} : n = Answered(q, a)
            IN /\ req' = [req EXCEPT ![r] = n] /\ q.pc = "list" /\ SameQuestion(q, n)
               /\ \/ /\ Found(q) # {}
                     /\ \E items \in Listings(Found(q)) : n = Listed(q, items)
                  \/ Found(q) = {} /\ n \in NextKey(q)
                  \/ ~started /\ (n \in NextKey(q) \/ failed)
               /\ UNCHANGED <<world, changes, history>>
      BY <1>7, ListStep DEF q
    <2>2. m = n /\ ~q.early
      BY <1>2, <2>1 DEF SameQuestion, m
    <2>3. PassedNone(q) /\ started
      BY <1>1, <2>1, <2>2 DEF PassedNone
    <2>4. \A items \in Listings(Found(q)) : items \in Seq(Item)
      <3>1. Found(q) \in SUBSET Configs /\ \A c \in Found(q) : Exists(c)
        BY DEF Found, Lookup
      <3> QED
        BY <3>1, ListingType DEF TypeInv
    <2>5. PassedNone(n) /\ UnknownReal(n)
      BY <1>1, <2>1, <2>3, <2>4, ListKnown
    <2> QED
      BY <1>3, <1>5, <2>2, <2>5
  <1>8. CASE Handle(r) /\ ~List(r)
    <2>1. PICK n \in RequestVal :
            /\ req' = [req EXCEPT ![r] = n] /\ SameQuestion(q, n)
            /\ q.pc # "idle" /\ n.pc # "list"
            /\ n.answer \in {"404", "default"} => n.chosen # 0
      <3>1. CASE GetOwner(r)
        <4>1. q.pc = "owner" => q.answer = "none"
          BY <1>1 DEF Progress
        <4> QED
          BY <3>1, <4>1, GetOwnerStep DEF q
      <3>2. CASE GetServer(r)
        <4>1. q.pc = "server" => q.answer = "none"
          BY <1>1 DEF Progress
        <4> QED
          BY <3>2, <4>1, GetServerStep DEF q
      <3>3. CASE SetStatusCondition(r) \/ ServeScript(r) \/ ServeTemplate(r)
                 \/ ServeIgnition(r) \/ ServeUKI(r)
        <4>1. q.pc \in {"serve", "patch"} => q.chosen # 0
          BY <1>1, OwnerType DEF Progress
        <4>2. PICK n \in RequestVal :
                /\ req' = [req EXCEPT ![r] = n] /\ SameQuestion(q, n) /\ SameSelection(q, n)
                /\ q.pc \in {"serve", "patch"} /\ n.pc \in {"patch", "answered"}
          BY <3>3, ServeStep, PatchStep DEF q
        <4> QED
          BY <4>1, <4>2 DEF SameSelection
      <3> QED
        BY <1>8, <3>1, <3>2, <3>3 DEF Handle
    <2>2. m = n /\ ~q.early
      BY <1>2, <2>1 DEF SameQuestion, m
    <2>3. started'
      BY <1>1, <1>5, <2>1, <2>2 DEF PassedNone
    <2> QED
      BY <1>4, <2>1, <2>2, <2>3
  <1>9. ASSUME NEW path \in Paths, Arrive(r, path)
        PROVE  PassedNone(req[r])' /\ UnknownReal(req'[r])
    <2>1. PICK n \in RequestVal :
            /\ req' = [req EXCEPT ![r] = n] /\ n.chosen = 0 /\ n.early = ~started
            /\ \/ /\ n.pc = "list" /\ n.next = 1 /\ n.answer = "none"
                  /\ n.at \in {"ipxe", "dispatch", "httpboot"}
               \/ n.at = "httpboot" /\ n.asked = <<>> /\ n.pc = "answered"
      BY <1>9, ArriveStep DEF TypeInv
    <2>2. m = n /\ started
      BY <1>2, <2>1 DEF m
    <2>3. n.next = 1 => 1..n.next - 1 = {}
      OBVIOUS
    <2>4. PassedNone(n)
      BY <2>1, <2>2, <2>3 DEF PassedNone
    <2>5. UnknownReal(n)
      <3>1. CASE n.answer = "none"
        BY <3>1 DEF UnknownReal, Unknown
      <3>2. CASE n.at = "httpboot" /\ n.asked = <<>>
        <4>1. Matching(n) = {}
          BY <3>2 DEF Matching, ToSet
        <4> QED
          BY <4>1 DEF UnknownReal
      <3> QED
        BY <2>1, <3>1, <3>2
    <2> QED
      BY <1>3, <1>5, <2>2, <2>4, <2>5
  <1> QED
    BY <1>6, <1>7, <1>8, <1>9, RequestStep DEF q, m

\* A machine that had a config all the time is not told that it is unknown,
\* although dispatcher and handlers list several times, by several spellings
\* (handleIPXE, handleIgnitionByUUID, handleHTTPBoot) - unless /ignition/
\* overlooks all its configs: the dispatcher does not try lower case, and an
\* HTTPBootConfig beside an IPXEBootConfig is not fallen back to.
THEOREM UnknownMachinesAreReal == Spec => []UnknownIsReal
  <1>1. Init => KnownInv /\ UnknownIsReal
    <2> SUFFICES ASSUME Init, NEW r \in Requests
                 PROVE  /\ \A c \in req[r].steady : Exists(c)
                        /\ PassedNone(req[r])
                        /\ ~Unknown(req[r])
      BY DEF KnownInv, UnknownIsReal
    <2>1. req[r].steady = {} /\ req[r].pc = "idle" /\ req[r].answer = "none"
      BY DEF Init, IdleReq
    <2> QED
      BY <2>1 DEF PassedNone, Unknown
  <1>2. TypeInv /\ KnownInv /\ UnknownIsReal /\ [Next]_vars => KnownInv' /\ UnknownIsReal'
    <2> SUFFICES ASSUME TypeInv, KnownInv, UnknownIsReal, [Next]_vars, NEW r \in Requests
                 PROVE  /\ \A c \in req'[r].steady : Exists(c)'
                        /\ ~req'[r].early => PassedNone(req[r])'
                        /\ UnknownReal(req'[r])
      BY DEF KnownInv, UnknownIsReal, UnknownReal
    <2>1. \A c \in req'[r].steady : Exists(c)'
      BY SteadyStep
    <2>2. ~req'[r].early => PassedNone(req[r])' /\ UnknownReal(req'[r])
      BY KnownStep
    <2>3. req'[r].early => UnknownReal(req'[r])
      BY DEF UnknownReal
    <2> QED
      BY <2>1, <2>2, <2>3
  <1> QED
    BY <1>1, <1>2, TypeInit, TypeStep, PTL DEF Spec
=============================================================================
