--------------------------- MODULE InformerProofs ---------------------------
(***************************************************************************)
(* What the operations on an Informer history return, for any set S of     *)
(* object values.                                                          *)
(***************************************************************************)
EXTENDS Informer, TLAPS

\* The cache and the API server hold object values, and the same one when the
\* cache is in sync (the cached client's Get).
LEMMA ReadType ==
  ASSUME NEW S, NEW h \in Hist(S)
  PROVE  /\ Cached(h) \in S
         /\ Stored(h) \in S
         /\ InSync(h) => Cached(h) = Stored(h)
  BY DEF Hist, Cached, Stored, InSync

\* A new object's history.
LEMMA FreshType ==
  ASSUME NEW S, NEW v \in S
  PROVE  /\ <<v>> \in Hist(S)
         /\ Cached(<<v>>) = v
         /\ Stored(<<v>>) = v
         /\ InSync(<<v>>)
  BY DEF Hist, Cached, Stored, InSync

\* A write through the API server does not reach the cache, and leaves it
\* behind unless it changes nothing.
LEMMA WriteType ==
  ASSUME NEW S, NEW h \in Hist(S), NEW v \in S
  PROVE  /\ Write(h, v) \in Hist(S)
         /\ Cached(Write(h, v)) = Cached(h)
         /\ Stored(Write(h, v)) = v
         /\ InSync(Write(h, v)) => v = Cached(h) /\ Write(h, v) = h
  <1>1. CASE v = Stored(h)
    BY <1>1 DEF Hist, Cached, Stored, InSync, Write
  <1>2. CASE v # Stored(h)
    <2>1. Write(h, v) = Append(h, v)
      BY <1>2 DEF Write
    <2>2. Append(h, v) \in Seq(S) /\ Len(Append(h, v)) = Len(h) + 1 /\ Len(h) >= 1
      BY DEF Hist
    <2>3. Append(h, v)[1] = h[1] /\ Append(h, v)[Len(h) + 1] = v
      BY <2>2 DEF Hist
    <2> QED
      BY <2>1, <2>2, <2>3 DEF Hist, Cached, Stored, InSync
  <1> QED
    BY <1>1, <1>2

\* A watch event moves the cache only.
LEMMA AdvanceType ==
  ASSUME NEW S, NEW h \in Hist(S), ~InSync(h)
  PROVE  /\ Advance(h) \in Hist(S)
         /\ Stored(Advance(h)) = Stored(h)
  <1>1. Len(h) \in Nat /\ Len(h) > 1 /\ h \in Seq(S)
    BY DEF Hist, InSync
  <1>2. Tail(h) \in Seq(S) /\ Len(Tail(h)) = Len(h) - 1
    BY <1>1
  <1>3. Tail(h)[Len(h) - 1] = h[Len(h)]
    BY <1>1, <1>2
  <1>4. Tail(h) # <<>>
    BY <1>1, <1>2
  <1>5. Stored(Tail(h)) = Stored(h)
    BY <1>2, <1>3 DEF Stored
  <1> QED
    BY <1>2, <1>4, <1>5 DEF Hist, Advance

\* No operation makes up a value: what a history shows after a write was there
\* before or is what was written, and a watch event only takes from it.
LEMMA HistoryValues ==
  ASSUME NEW S, NEW h \in Hist(S)
  PROVE  /\ Cached(h) = h[1] /\ 1 \in DOMAIN h
         /\ Stored(h) = h[Len(h)] /\ Len(h) \in DOMAIN h
         /\ \A v \in S : \A i \in DOMAIN Write(h, v) :
              Write(h, v)[i] = v \/ \E j \in DOMAIN h : Write(h, v)[i] = h[j]
         /\ \A i \in DOMAIN Advance(h) : \E j \in DOMAIN h : Advance(h)[i] = h[j]
  <1>1. h \in Seq(S) /\ Len(h) \in Nat /\ Len(h) >= 1 /\ DOMAIN h = 1..Len(h)
    BY DEF Hist
  <1>2. ASSUME NEW v \in S, NEW i \in DOMAIN Write(h, v)
        PROVE  Write(h, v)[i] = v \/ \E j \in DOMAIN h : Write(h, v)[i] = h[j]
    <2>1. CASE v = Stored(h)
      BY <1>1, <1>2, <2>1 DEF Write
    <2>2. CASE v # Stored(h)
      <3>1. Write(h, v) = Append(h, v)
        BY <2>2 DEF Write
      <3>2. i \in 1..Len(h) + 1
        BY <1>1, <1>2, <3>1
      <3>3. i <= Len(h) => i \in DOMAIN h /\ Append(h, v)[i] = h[i]
        BY <1>1, <3>2
      <3>4. i > Len(h) => Append(h, v)[i] = v
        BY <1>1, <3>2
      <3> QED
        BY <1>1, <3>1, <3>2, <3>3, <3>4
    <2> QED
      BY <2>1, <2>2
  <1>3. ASSUME NEW i \in DOMAIN Advance(h)
        PROVE  \E j \in DOMAIN h : Advance(h)[i] = h[j]
    <2>1. i \in 1..Len(h) - 1 /\ Tail(h)[i] = h[i + 1]
      BY <1>1, <1>3 DEF Advance
    <2>2. i + 1 \in DOMAIN h
      BY <1>1, <2>1
    <2> QED
      BY <2>1, <2>2 DEF Advance
  <1>4. /\ Cached(h) = h[1] /\ 1 \in DOMAIN h
        /\ Stored(h) = h[Len(h)] /\ Len(h) \in DOMAIN h
    BY <1>1 DEF Cached, Stored
  <1> QED
    BY <1>2, <1>3, <1>4

\* Listing the object again brings the cache up to date.
LEMMA RelistedType ==
  ASSUME NEW S, NEW h \in Hist(S)
  PROVE  /\ Relisted(h) \in Hist(S)
         /\ Cached(Relisted(h)) = Stored(h)
         /\ Stored(Relisted(h)) = Stored(h)
         /\ InSync(Relisted(h))
  BY ReadType, FreshType DEF Relisted
=============================================================================
