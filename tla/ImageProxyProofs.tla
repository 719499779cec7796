-------------------------- MODULE ImageProxyProofs --------------------------
(***************************************************************************)
(* For any number of requests, repositories and registries, any times, and *)
(* any number of faults and changes: what the image proxy caches is recent *)
(* and does no harm.                                                       *)
(***************************************************************************)
EXTENDS ImageProxy, TLAPS

\* Information is of the repository it is used for and, unless the registry
\* has changed since, says what a probe would say now.
Faithful(i, k) ==
  /\ i \in Info
  /\ i.scope = k
  /\ i.version <= version[RegistryOf[k]]
  /\ i.version = version[RegistryOf[k]] =>
       /\ i.auth = policy[RegistryOf[k]].auth
       /\ i.realm = policy[RegistryOf[k]].realm

\* An entry was stored at most MaxLatency after it was detected, and has
\* survived no cleanup after it expired.
EntrySound(k) ==
  cache[k] # None =>
    /\ cache[k].left >= clean - CleanupEvery
    /\ cache[k].left + cache[k].age <= TTL + MaxLatency
    /\ Faithful(cache[k].info, k)

\* What a request holds fits the place where it is.
RequestSound(q) ==
  /\ q.pc = "idle" => q.info = None
  /\ q.pc # "idle" => q.key \in Keys /\ q.answer = None
  /\ q.pc \in {"lookup", "detect"} => q.info = None
  /\ q.pc \in {"store", "token", "blob"} => Faithful(q.info, q.key)
  /\ q.pc = "store" => q.age <= MaxLatency
  /\ q.info # None => q.age < TTL + MaxLatency
  /\ q.pc = "blob" /\ q.info.auth = "bearer" =>
       q.token = [realm |-> q.info.realm, scope |-> q.info.scope]

\* The inductive invariant.
ProxyInv ==
  /\ TypeOK
  /\ \A k \in Keys : EntrySound(k)
  /\ \A r \in Requests : RequestSound(req[r])

-----------------------------------------------------------------------------
\* Without requests and entries there is nothing to show.
LEMMA ProxyInit == Init => ProxyInv
  <1> SUFFICES ASSUME Init PROVE ProxyInv
    OBVIOUS
  <1> USE ProxyAssumption
  <1>1. \A r \in Requests : req[r] = Idle(None)
    BY DEF Init
  <1>2. Idle(None) \in Request /\ RequestSound(Idle(None))
    BY SMTT(30) DEF Idle, Request, RequestSound
  <1>3. TypeOK
    BY <1>2 DEF Init, TypeOK
  <1>4. \A k \in Keys : EntrySound(k)
    BY DEF Init, EntrySound
  <1> QED
    BY <1>1, <1>2, <1>3, <1>4 DEF ProxyInv

\* A step that changes one request, to a sound one, and at most counts a fault.
LEMMA RequestStep ==
  ASSUME ProxyInv, NEW r \in Requests, NEW q \in Request, RequestSound(q),
         req' = [req EXCEPT ![r] = q], faults' \in 0..MaxFaults,
         UNCHANGED <<policy, version, cache, clean>>
  PROVE  ProxyInv'
  <1>1. TypeOK'
    BY DEF ProxyInv, TypeOK
  <1>2. \A k \in Keys : EntrySound(k)'
    BY DEF ProxyInv, EntrySound, Faithful
  <1>3. \A s \in Requests : req'[s] = IF s = r THEN q ELSE req[s]
    BY DEF ProxyInv, TypeOK
  <1>4. \A s \in Requests : RequestSound(req'[s])
    BY <1>3 DEF ProxyInv
  <1>5. \A s \in Requests : RequestSound(req[s])'
    BY <1>4 DEF RequestSound, Faithful
  <1> QED
    BY <1>1, <1>2, <1>5 DEF ProxyInv

\* A handler that only moves its own request on.
LEMMA DoStep ==
  ASSUME ProxyInv, NEW r \in Requests, NEW q \in Request, RequestSound(q), Do(r, q)
  PROVE  ProxyInv'
  BY RequestStep DEF Do, ProxyInv, TypeOK

\* A request that was answered holds nothing.
LEMMA IdleSound ==
  ASSUME NEW a \in Answers \cup {None}
  PROVE  Idle(a) \in Request /\ RequestSound(Idle(a))
  BY SMTT(30), ProxyAssumption DEF Idle, Request, RequestSound

-----------------------------------------------------------------------------
LEMMA ArriveKeeps ==
  ASSUME ProxyInv, NEW r \in Requests, Arrive(r)
  PROVE  ProxyInv'
  <1>1. PICK k \in Keys : Do(r, [Idle(None) EXCEPT !.pc = "lookup", !.key = k])
    BY DEF Arrive
  <1> DEFINE idle == Idle(None)
             q == [idle EXCEPT !.pc = "lookup", !.key = k]
  <1>2. idle \in Request /\ idle.info = None /\ idle.answer = None
    BY IdleSound DEF Idle
  <1> HIDE DEF idle
  <1>3. q \in Request
    BY <1>2 DEF Request
  <1>4. RequestSound(q)
    <2>1. q.pc = "lookup" /\ q.key = k /\ q.info = None /\ q.answer = None
      BY <1>2 DEF Request
    <2> QED
      BY <2>1 DEF RequestSound
  <1>5. Do(r, q)
    BY <1>1 DEF idle
  <1> QED
    BY <1>3, <1>4, <1>5, DoStep

\* An entry that is used has time left, and so is no older than TTL and the
\* latency of the detection that stored it.
LEMMA LookupKeeps ==
  ASSUME ProxyInv, NEW r \in Requests, Lookup(r)
  PROVE  ProxyInv'
  <1> DEFINE q == req[r]
             e == cache[q.key]
             hit == [q EXCEPT !.pc = "token", !.info = e.info, !.age = e.age]
             miss == [q EXCEPT !.pc = "detect"]
  <1>1. q \in Request /\ RequestSound(q) /\ q.pc = "lookup"
    BY DEF ProxyInv, TypeOK, Lookup
  <1>2. q.key \in Keys /\ q.answer = None /\ q.info = None
    BY <1>1 DEF RequestSound
  <1>3. CASE e # None /\ e.left > 0
    <2>1. Do(r, hit)
      BY <1>3 DEF Lookup
    <2>2. e \in Entry /\ EntrySound(q.key)
      BY <1>2, <1>3 DEF ProxyInv, TypeOK
    <2>3. e.info \in Info /\ e.age \in Nat /\ e.left \in Int
      BY <2>2 DEF Entry
    <2>4. Faithful(e.info, q.key) /\ e.age < TTL + MaxLatency
      BY <1>3, <2>2, <2>3, ProxyAssumption DEF EntrySound
    <2>5. hit \in Request
      BY <1>1, <2>3 DEF Request
    <2>6. hit.pc = "token" /\ hit.info = e.info /\ hit.age = e.age
          /\ hit.key = q.key /\ hit.answer = q.answer
      BY <1>1 DEF Request
    <2>7. RequestSound(hit)
      BY <1>2, <2>4, <2>6 DEF RequestSound
    <2> QED
      BY <2>1, <2>5, <2>7, DoStep
  <1>4. CASE ~(e # None /\ e.left > 0)
    <2>1. Do(r, miss)
      BY <1>4 DEF Lookup
    <2>2. miss \in Request
      BY <1>1 DEF Request
    <2>3. miss.pc = "detect" /\ miss.info = q.info /\ miss.key = q.key /\ miss.answer = q.answer
      BY <1>1 DEF Request
    <2>4. RequestSound(miss)
      BY <1>2, <2>3 DEF RequestSound
    <2> QED
      BY <2>1, <2>2, <2>4, DoStep
  <1> QED
    BY <1>3, <1>4

\* What was just detected is faithful.
LEMMA DetectKeeps ==
  ASSUME ProxyInv, NEW r \in Requests, Detect(r)
  PROVE  ProxyInv'
  <1> DEFINE q == req[r]
             g == RegistryOf[q.key]
             found == [q EXCEPT !.pc = "store", !.info = Detected(q.key), !.age = 0]
  <1>1. q \in Request /\ RequestSound(q) /\ q.pc = "detect"
    BY DEF ProxyInv, TypeOK, Detect
  <1>2. q.key \in Keys /\ q.answer = None
    BY <1>1 DEF RequestSound
  <1>3. g \in Registries /\ policy[g] \in PolicyVal /\ version[g] \in Nat
    BY <1>2, ProxyAssumption DEF ProxyInv, TypeOK
  <1>4. CASE policy[g].auth = "other"
    <2>1. Do(r, Idle("502"))
      BY <1>4 DEF Detect
    <2> QED
      BY <2>1, IdleSound, DoStep DEF Answers, Request
  <1>5. CASE policy[g].auth # "other"
    <2>1. Do(r, found)
      BY <1>5 DEF Detect
    <2>2. Detected(q.key) \in Info
      BY <1>2, <1>3, <1>5 DEF Detected, Info, PolicyVal
    <2>3. Faithful(Detected(q.key), q.key)
      BY <1>3, <2>2 DEF Faithful, Detected
    <2>4. found \in Request
      BY <1>1, <2>2 DEF Request
    <2>5. found.pc = "store" /\ found.info = Detected(q.key) /\ found.age = 0
          /\ found.key = q.key /\ found.answer = q.answer
      BY <1>1 DEF Request
    <2>6. RequestSound(found)
      BY <1>2, <2>3, <2>5, ProxyAssumption DEF RequestSound
    <2> QED
      BY <2>1, <2>4, <2>6, DoStep
  <1> QED
    BY <1>4, <1>5
\* What is stored is as old as the call that detected it took.
LEMMA StoreKeeps ==
  ASSUME ProxyInv, NEW r \in Requests, Store(r)
  PROVE  ProxyInv'
  <1> DEFINE q == req[r]
             e == [info |-> q.info, left |-> TTL, age |-> q.age]
             next == [q EXCEPT !.pc = "token"]
  <1>1. q \in Request /\ RequestSound(q) /\ q.pc = "store"
    BY DEF ProxyInv, TypeOK, Store
  <1>2. /\ q.key \in Keys /\ q.answer = None
        /\ Faithful(q.info, q.key) /\ q.age <= MaxLatency
        /\ q.info # None => q.age < TTL + MaxLatency
    BY <1>1 DEF RequestSound
  <1>3. /\ cache' = [cache EXCEPT ![q.key] = e]
        /\ req' = [req EXCEPT ![r] = next]
        /\ UNCHANGED <<policy, version, clean, faults>>
    BY DEF Store
  <1>4. e \in Entry
    BY <1>1, <1>2, ProxyAssumption DEF Entry, Faithful, Request
  <1>5. next \in Request
    BY <1>1 DEF Request
  <1>6. TypeOK'
    BY <1>2, <1>3, <1>4, <1>5 DEF ProxyInv, TypeOK
  <1>7. \A k \in Keys : EntrySound(k)'
    <2> SUFFICES ASSUME NEW k \in Keys PROVE EntrySound(k)'
      OBVIOUS
    <2>1. CASE k # q.key
      BY <1>3, <2>1 DEF ProxyInv, TypeOK, EntrySound, Faithful
    <2>2. CASE k = q.key
      <3>1. cache'[k] = e
        BY <1>3, <2>2 DEF ProxyInv, TypeOK
      <3>2. clean \in 0..CleanupEvery /\ q.age \in Nat
        BY <1>1 DEF ProxyInv, TypeOK, Request
      <3>3. e.left >= clean - CleanupEvery /\ e.left + e.age <= TTL + MaxLatency
        BY <1>2, <3>2, ProxyAssumption
      <3>4. Faithful(e.info, k)'
        BY <1>2, <1>3, <2>2 DEF Faithful
      <3> QED
        BY <1>3, <3>1, <3>3, <3>4 DEF EntrySound
    <2> QED
      BY <2>1, <2>2
  <1>8. next.pc = "token" /\ next.info = q.info /\ next.age = q.age
        /\ next.key = q.key /\ next.answer = q.answer
    BY <1>1 DEF Request
  <1>9. RequestSound(next)
    BY <1>2, <1>8 DEF RequestSound
  <1>10. \A s \in Requests : req'[s] = IF s = r THEN next ELSE req[s]
    BY <1>3 DEF ProxyInv, TypeOK
  <1>11. \A s \in Requests : RequestSound(req'[s])
    BY <1>9, <1>10 DEF ProxyInv
  <1>12. \A s \in Requests : RequestSound(req[s])'
    BY <1>3, <1>11 DEF RequestSound, Faithful
  <1> QED
    BY <1>6, <1>7, <1>12 DEF ProxyInv

\* A token has the realm and the scope of the information.
LEMMA GetTokenKeeps ==
  ASSUME ProxyInv, NEW r \in Requests, GetToken(r)
  PROVE  ProxyInv'
  <1> DEFINE q == req[r]
             token == [realm |-> q.info.realm, scope |-> q.info.scope]
             free == [q EXCEPT !.pc = "blob", !.age = 0]
             with == [q EXCEPT !.pc = "blob", !.age = 0, !.token = token]
  <1>1. q \in Request /\ RequestSound(q) /\ q.pc = "token"
    BY DEF ProxyInv, TypeOK, GetToken
  <1>2. q.key \in Keys /\ q.answer = None /\ Faithful(q.info, q.key)
    BY <1>1 DEF RequestSound
  <1>3. q.info \in Info
    BY <1>2 DEF Faithful
  <1>4. CASE q.info.auth = "none" /\ Do(r, free)
    <2>1. free \in Request
      BY <1>1 DEF Request
    <2>2. free.pc = "blob" /\ free.info = q.info /\ free.age = 0
          /\ free.key = q.key /\ free.answer = q.answer
      BY <1>1 DEF Request
    <2>3. RequestSound(free)
      BY <1>2, <1>4, <2>2, ProxyAssumption DEF RequestSound
    <2> QED
      BY <1>4, <2>1, <2>3, DoStep
  <1>5. CASE q.info.realm # None /\ Do(r, with)
    <2>1. token \in Token
      BY <1>3, <1>5 DEF Token, Info
    <2>2. with \in Request
      BY <1>1, <2>1 DEF Request
    <2>3. with.pc = "blob" /\ with.info = q.info /\ with.age = 0
          /\ with.key = q.key /\ with.answer = q.answer /\ with.token = token
      BY <1>1 DEF Request
    <2>4. RequestSound(with)
      BY <1>2, <2>3, ProxyAssumption DEF RequestSound
    <2> QED
      BY <1>5, <2>2, <2>4, DoStep
  <1>6. CASE Do(r, Idle("401"))
    BY <1>6, IdleSound, DoStep DEF Answers
  <1> QED
    BY <1>4, <1>5, <1>6 DEF GetToken

LEMMA ProxyKeeps ==
  ASSUME ProxyInv, NEW r \in Requests, Proxy(r)
  PROVE  ProxyInv'
  <1> DEFINE a == Blob(req[r].key, req[r].token)
  <1>1. a \in Answers
    BY DEF Blob, Answers
  <1>2. Do(r, Idle(a))
    BY DEF Proxy
  <1> QED
    BY <1>1, <1>2, IdleSound, DoStep

LEMMA CallFailsKeeps ==
  ASSUME ProxyInv, NEW r \in Requests, CallFails(r)
  PROVE  ProxyInv'
  <1>1. PICK a \in Answers : req' = [req EXCEPT ![r] = Idle(a)]
    BY DEF CallFails, Answers
  <1>2. faults' \in 0..MaxFaults
    BY ProxyAssumption DEF CallFails, ProxyInv, TypeOK
  <1>3. UNCHANGED <<policy, version, cache, clean>>
    BY DEF CallFails
  <1> QED
    BY <1>1, <1>2, <1>3, IdleSound, RequestStep

\* What has expired by the time of a cleanup goes.
LEMMA CleanupKeeps ==
  ASSUME ProxyInv, Cleanup
  PROVE  ProxyInv'
  <1>1. \A k \in Keys : cache'[k] = None \/ (cache'[k] = cache[k] /\ ~Expired(cache[k]))
    BY DEF Cleanup
  <1>2. TypeOK'
    BY ProxyAssumption DEF Cleanup, ProxyInv, TypeOK
  <1>3. \A k \in Keys : EntrySound(k)'
    <2> SUFFICES ASSUME NEW k \in Keys, cache'[k] # None PROVE EntrySound(k)'
      BY DEF EntrySound
    <2>1. cache'[k] = cache[k] /\ EntrySound(k) /\ cache[k] \in Entry
      BY <1>1 DEF ProxyInv, TypeOK
    <2>2. cache[k].left >= 0
      BY <1>1, <2>1 DEF Expired, Entry
    <2>3. clean' = CleanupEvery
      BY DEF Cleanup
    <2> QED
      BY <2>1, <2>2, <2>3, ProxyAssumption DEF EntrySound, Faithful, Cleanup
  <1>4. \A r \in Requests : RequestSound(req[r])'
    BY DEF Cleanup, ProxyInv, RequestSound, Faithful
  <1> QED
    BY <1>2, <1>3, <1>4 DEF ProxyInv

\* As time passes an entry has less left and is older by as much.
LEMMA TickKeeps ==
  ASSUME ProxyInv, Tick
  PROVE  ProxyInv'
  <1>1. clean \in 0..CleanupEvery /\ clean > 0 /\ clean' = clean - 1
    BY DEF Tick, ProxyInv, TypeOK
  <1>2. UNCHANGED <<policy, version, faults>>
    BY DEF Tick
  <1>3. \A k \in Keys : cache[k] # None =>
          cache[k] \in Entry /\ cache[k].left \in Int /\ cache[k].age \in Nat
    BY DEF ProxyInv, TypeOK, Entry
  <1>4. \A k \in Keys : cache[k] = None => cache'[k] = None
    BY DEF Tick
  <1>5. ASSUME NEW k \in Keys, cache[k] # None
        PROVE  /\ cache'[k] \in Entry
               /\ cache'[k].info = cache[k].info
               /\ cache'[k].left = cache[k].left - 1
               /\ cache'[k].age = cache[k].age + 1
    <2> DEFINE e == cache[k]
               older == [e EXCEPT !.left = e.left - 1, !.age = e.age + 1]
    <2>1. cache'[k] = older
      BY <1>5 DEF Tick
    <2>2. e \in Entry /\ e.left \in Int /\ e.age \in Nat
      BY <1>3, <1>5
    <2> HIDE DEF e
    <2>3. older.info = e.info /\ older.left = e.left - 1 /\ older.age = e.age + 1
      BY <2>2 DEF Entry
    <2>4. older \in Entry
      <3>1. \A l \in Int, a \in Nat : [e EXCEPT !.left = l, !.age = a] \in Entry
        BY <2>2 DEF Entry
      <3>2. e.left - 1 \in Int /\ e.age + 1 \in Nat
        BY <2>2
      <3> QED
        BY <3>1, <3>2
    <2> QED
      BY <2>1, <2>3, <2>4 DEF e
  <1>6. cache' \in [Keys -> Entry \cup {None}]
    BY <1>4, <1>5 DEF Tick
  <1>7. ASSUME NEW r \in Requests
        PROVE  req'[r] \in Request /\ RequestSound(req'[r])
    <2>1. req[r] \in Request /\ RequestSound(req[r])
      BY DEF ProxyInv, TypeOK
    <2>2. CASE req[r].pc # "store"
      BY <2>1, <2>2 DEF Tick
    <2>3. CASE req[r].pc = "store"
      <3> DEFINE older == [req[r] EXCEPT !.age = @ + 1]
      <3>1. req'[r] = older /\ req[r].age < MaxLatency /\ req[r].age \in Nat
        BY <2>1, <2>3 DEF Tick, Request
      <3>2. older \in Request
        BY <2>1, <3>1 DEF Request
      <3>3. /\ older.pc = "store" /\ older.key = req[r].key /\ older.info = req[r].info
            /\ older.age = req[r].age + 1 /\ older.answer = req[r].answer
        BY <2>1, <2>3 DEF Request
      <3>4. RequestSound(older)
        BY <2>1, <2>3, <3>1, <3>3, ProxyAssumption DEF RequestSound
      <3> QED
        BY <3>1, <3>2, <3>4
    <2> QED
      BY <2>2, <2>3
  <1>8. req' \in [Requests -> Request]
    BY <1>7 DEF Tick
  <1>9. TypeOK'
    BY <1>1, <1>2, <1>6, <1>8, ProxyAssumption DEF ProxyInv, TypeOK
  <1>10. \A k \in Keys : EntrySound(k)'
    <2> SUFFICES ASSUME NEW k \in Keys, cache'[k] # None PROVE EntrySound(k)'
      BY DEF EntrySound
    <2>1. cache[k] # None /\ EntrySound(k)
      BY <1>4 DEF ProxyInv
    <2>2. Faithful(cache[k].info, k)'
      <3>1. cache'[k].info = cache[k].info /\ Faithful(cache[k].info, k)
        BY <1>5, <2>1 DEF EntrySound
      <3> QED
        BY <1>2, <3>1 DEF Faithful
    <2>3. cache'[k].left >= clean' - CleanupEvery
      BY <1>1, <1>3, <1>5, <2>1, ProxyAssumption DEF EntrySound
    <2>4. cache'[k].left + cache'[k].age <= TTL + MaxLatency
      BY <1>3, <1>5, <2>1, ProxyAssumption DEF EntrySound
    <2> QED
      BY <2>2, <2>3, <2>4 DEF EntrySound
  <1>11. \A r \in Requests : RequestSound(req[r])'
    BY <1>2, <1>7 DEF RequestSound, Faithful
  <1> QED
    BY <1>9, <1>10, <1>11 DEF ProxyInv

\* A new version of a policy makes earlier information outdated.
LEMMA ChangePolicyKeeps ==
  ASSUME ProxyInv, NEW g \in Registries, ChangePolicy(g)
  PROVE  ProxyInv'
  <1>1. version[g] \in 0..MaxChanges /\ version[g] < MaxChanges
    BY DEF ProxyInv, TypeOK, ChangePolicy
  <1>2. /\ version' = [version EXCEPT ![g] = @ + 1]
        /\ \E p \in Policies : policy' = [policy EXCEPT ![g] = p]
        /\ UNCHANGED <<cache, clean, req, faults>>
    BY DEF ChangePolicy
  <1>3. TypeOK'
    BY <1>1, <1>2, ProxyAssumption DEF ProxyInv, TypeOK
  <1>4. ASSUME NEW i, NEW k \in Keys, Faithful(i, k)
        PROVE  Faithful(i, k)'
    <2>1. RegistryOf[k] \in Registries /\ version[RegistryOf[k]] \in Nat /\ i.version \in Nat
      BY <1>4, ProxyAssumption DEF ProxyInv, TypeOK, Faithful, Info
    <2>2. CASE RegistryOf[k] = g
      <3>1. version'[RegistryOf[k]] = version[RegistryOf[k]] + 1
        BY <1>2, <2>2 DEF ProxyInv, TypeOK
      <3> QED
        BY <1>4, <2>1, <3>1 DEF Faithful
    <2>3. CASE RegistryOf[k] # g
      <3>1. /\ version'[RegistryOf[k]] = version[RegistryOf[k]]
            /\ policy'[RegistryOf[k]] = policy[RegistryOf[k]]
        BY <1>2, <2>1, <2>3 DEF ProxyInv, TypeOK
      <3> QED
        BY <1>4, <3>1 DEF Faithful
    <2> QED
      BY <2>2, <2>3
  <1>5. \A k \in Keys : EntrySound(k)'
    BY <1>2, <1>4 DEF ProxyInv, EntrySound
  <1>6. \A r \in Requests : RequestSound(req[r])'
    <2> SUFFICES ASSUME NEW r \in Requests PROVE RequestSound(req[r])'
      OBVIOUS
    <2>1. RequestSound(req[r]) /\ req'[r] = req[r]
      BY <1>2 DEF ProxyInv
    <2>2. req[r].pc \in {"store", "token", "blob"} => Faithful(req[r].info, req[r].key)'
      BY <1>4, <2>1 DEF RequestSound
    <2> QED
      BY <1>2, <2>1, <2>2 DEF RequestSound
  <1> QED
    BY <1>3, <1>5, <1>6 DEF ProxyInv

-----------------------------------------------------------------------------
LEMMA ProxyStep == ProxyInv /\ [Next]_vars => ProxyInv'
  <1> SUFFICES ASSUME ProxyInv, [Next]_vars PROVE ProxyInv'
    OBVIOUS
  <1>1. CASE UNCHANGED vars
    BY <1>1 DEF vars, ProxyInv, TypeOK, EntrySound, RequestSound, Faithful
  <1>2. CASE \E r \in Requests : Arrive(r) \/ Handle(r) \/ CallFails(r)
    BY <1>2, ArriveKeeps, LookupKeeps, DetectKeeps, StoreKeeps, GetTokenKeeps, ProxyKeeps,
       CallFailsKeeps DEF Handle
  <1>3. CASE \E g \in Registries : ChangePolicy(g)
    BY <1>3, ChangePolicyKeeps
  <1> QED
    BY <1>1, <1>2, <1>3, CleanupKeeps, TickKeeps DEF Next

THEOREM ProxyInvariant == Spec => []ProxyInv
  BY ProxyInit, ProxyStep, PTL DEF Spec

\* Types, for every instance: what is cached is a way to authenticate that the
\* proxy knows (detectRegistryAuth).
THEOREM ProxyTypeCorrect == Spec => []TypeOK
  <1>1. ProxyInv => TypeOK
    BY DEF ProxyInv
  <1> QED
    BY <1>1, ProxyInvariant, PTL

\* No entry is kept for longer than its time and a period of the cleanup
\* (cleanupExpiredCacheEntries).
THEOREM EntriesAreCleaned == Spec => []CacheIsCleaned
  <1>1. ProxyInv => CacheIsCleaned
    <2> SUFFICES ASSUME ProxyInv, NEW k \in Keys, cache[k] # None
                 PROVE  cache[k].left >= -CleanupEvery
      BY DEF CacheIsCleaned
    <2>1. cache[k].left \in Int /\ cache[k].left >= clean - CleanupEvery /\ clean \in Nat
      BY DEF ProxyInv, TypeOK, EntrySound, Entry
    <2> QED
      BY <2>1, ProxyAssumption
  <1> QED
    BY <1>1, ProxyInvariant, PTL

\* No request goes by information older than the time entries are kept for and
\* the time of one call, whichever detection stored last (getOrDetectRegistry).
THEOREM InformationIsRecent == Spec => []InfoIsRecent
  <1>1. ProxyInv => InfoIsRecent
    BY DEF ProxyInv, RequestSound, InfoIsRecent
  <1> QED
    BY <1>1, ProxyInvariant, PTL

-----------------------------------------------------------------------------
\* A step that refuses a request, and the reasons it may have.
Refused(r) == req[r].pc # "idle" /\ req'[r].answer \in {"401", "502"}

Reason(r) ==
  LET q == req[r]
      g == RegistryOf[q.key]
  IN \/ faults' # faults
     \/ ~Supported(policy[g])
     \/ q.info # None /\ q.info.version # version[g]

\* A request that is under way has no answer.
LEMMA Unanswered ==
  ASSUME ProxyInv, NEW r \in Requests, req'[r].answer = req[r].answer
  PROVE  ~Refused(r)
  <1>1. req[r].pc # "idle" => req[r].answer = None
    BY DEF ProxyInv, RequestSound
  <1>2. None # "401" /\ None # "502"
    BY NoneAssumption DEF Answers
  <1> QED
    BY <1>1, <1>2 DEF Refused

\* What the step of one request does to it, and that it leaves the others alone.
LEMMA DoOwn ==
  ASSUME ProxyInv, NEW r \in Requests, NEW s \in Requests, NEW q, Do(s, q)
  PROVE  req'[r] = IF r = s THEN q ELSE req[r]
  BY DEF Do, ProxyInv, TypeOK

LEMMA ArriveRefuses ==
  ASSUME ProxyInv, NEW r \in Requests, NEW s \in Requests, Arrive(s)
  PROVE  ~Refused(r)
  <1>1. req'[r].answer = req[r].answer \/ req[r].pc = "idle"
    BY DoOwn DEF Arrive
  <1> QED
    BY <1>1, Unanswered DEF Refused

LEMMA LookupRefuses ==
  ASSUME ProxyInv, NEW r \in Requests, NEW s \in Requests, Lookup(s)
  PROVE  ~Refused(r)
  <1> DEFINE e == cache[req[s].key]
             hit == [req[s] EXCEPT !.pc = "token", !.info = e.info, !.age = e.age]
             miss == [req[s] EXCEPT !.pc = "detect"]
  <1>1. hit.answer = req[s].answer /\ miss.answer = req[s].answer
    BY DEF ProxyInv, TypeOK, Request
  <1>2. Do(s, hit) \/ Do(s, miss)
    BY DEF Lookup
  <1> QED
    BY <1>1, <1>2, DoOwn, Unanswered

\* A registry is given up at detection only if it authenticates in no way that the
\* proxy knows.
LEMMA DetectRefuses ==
  ASSUME ProxyInv, NEW r \in Requests, NEW s \in Requests, Detect(s), Refused(r)
  PROVE  Reason(r)
  <1> DEFINE g == RegistryOf[req[s].key]
             found == [req[s] EXCEPT !.pc = "store", !.info = Detected(req[s].key), !.age = 0]
  <1>1. CASE policy[g].auth = "other"
    <2>1. r = s
      <3>1. Do(s, Idle("502"))
        BY <1>1 DEF Detect
      <3> QED
        BY <3>1, DoOwn, Unanswered
    <2> QED
      BY <1>1, <2>1 DEF Reason, Supported
  <1>2. CASE policy[g].auth # "other"
    <2>1. Do(s, found)
      BY <1>2 DEF Detect
    <2>2. found.answer = req[s].answer
      BY DEF ProxyInv, TypeOK, Request
    <2> QED
      BY <2>1, <2>2, DoOwn, Unanswered
  <1> QED
    BY <1>1, <1>2

LEMMA StoreRefuses ==
  ASSUME ProxyInv, NEW r \in Requests, NEW s \in Requests, Store(s)
  PROVE  ~Refused(r)
  <1>1. req[s] \in Request /\ req[r] \in Request /\ req \in [Requests -> Request]
    BY DEF ProxyInv, TypeOK
  <1>2. req'[r].answer = req[r].answer
    BY <1>1 DEF Store, Request
  <1> QED
    BY <1>2, Unanswered

\* Information that is not outdated has the realm of the registry.
LEMMA GetTokenRefuses ==
  ASSUME ProxyInv, NEW r \in Requests, NEW s \in Requests, GetToken(s), Refused(r)
  PROVE  Reason(r)
  <1> DEFINE q == req[s]
             g == RegistryOf[q.key]
             token == [realm |-> q.info.realm, scope |-> q.info.scope]
             free == [q EXCEPT !.pc = "blob", !.age = 0]
             with == [q EXCEPT !.pc = "blob", !.age = 0, !.token = token]
  <1>1. q \in Request /\ RequestSound(q) /\ q.pc = "token"
    BY DEF ProxyInv, TypeOK, GetToken
  <1>2. Faithful(q.info, q.key)
    BY <1>1 DEF RequestSound
  <1>3. CASE Do(s, free)
    <2>1. free.answer = q.answer
      BY <1>1 DEF Request
    <2> QED
      BY <1>3, <2>1, DoOwn, Unanswered
  <1>4. CASE Do(s, with)
    <2>1. with.answer = q.answer
      BY <1>1 DEF Request
    <2> QED
      BY <1>4, <2>1, DoOwn, Unanswered
  <1>5. CASE /\ q.info.auth = "bearer"
             /\ q.info.realm # policy[g].realm \/ q.info.realm = None
             /\ Do(s, Idle("401"))
    <2>1. r = s
      BY <1>5, DoOwn, Unanswered
    <2>2. q.info # None
      BY <1>2, NoneAssumption DEF Faithful
    <2>3. CASE q.info.version # version[g]
      BY <2>1, <2>2, <2>3 DEF Reason
    <2>4. CASE q.info.version = version[g]
      BY <1>2, <1>5, <2>1, <2>4 DEF Faithful, Reason, Supported
    <2> QED
      BY <2>3, <2>4
  <1> QED
    BY <1>3, <1>4, <1>5 DEF GetToken

\* A token from information that is not outdated is one the registry accepts.
LEMMA ProxyRefuses ==
  ASSUME ProxyInv, NEW r \in Requests, NEW s \in Requests, Proxy(s), Refused(r)
  PROVE  Reason(r)
  <1> DEFINE q == req[s]
             g == RegistryOf[q.key]
  <1>1. q \in Request /\ RequestSound(q) /\ q.pc = "blob"
    BY DEF ProxyInv, TypeOK, Proxy
  <1>2. Faithful(q.info, q.key) /\ q.info # None
    BY <1>1, NoneAssumption DEF RequestSound, Faithful
  <1>3. Do(s, Idle(Blob(q.key, q.token)))
    BY DEF Proxy
  <1>4. r = s
    BY <1>3, DoOwn, Unanswered
  <1>5. Blob(q.key, q.token) # "200"
    <2>1. req'[r] = Idle(Blob(q.key, q.token))
      BY <1>3, <1>4, DoOwn
    <2> QED
      BY <2>1 DEF Refused, Idle
  <1>6. SUFFICES ASSUME q.info.version = version[g], Supported(policy[g]) PROVE FALSE
    BY <1>2, <1>4 DEF Reason
  <1>7. Served(q.key, q.token)
    BY <1>1, <1>2, <1>6 DEF Served, Faithful, Supported, RequestSound
  <1>8. policy[g].auth = "bearer" => policy[g].blobs # "downgrade"
    BY <1>6 DEF Supported
  <1>9. policy[g].auth = "none" => Served(q.key, None)
    BY DEF Served
  <1>10. policy[g].auth \in {"none", "bearer"}
    BY <1>6 DEF Supported
  <1> QED
    BY <1>5, <1>7, <1>8, <1>9, <1>10 DEF Blob

LEMMA StepRefuses ==
  ASSUME ProxyInv, [Next]_vars, NEW r \in Requests, Refused(r)
  PROVE  Reason(r)
  <1>1. CASE UNCHANGED req
    BY <1>1, Unanswered
  <1>2. CASE Tick
    <2>1. req[r] \in Request
      BY DEF ProxyInv, TypeOK
    <2>2. req'[r].answer = req[r].answer
      BY <1>2, <2>1 DEF Tick, Request
    <2> QED
      BY <2>2, Unanswered
  <1>3. ASSUME NEW s \in Requests, CallFails(s)
        PROVE  Reason(r)
    <2>1. faults' # faults
      BY <1>3, ProxyAssumption DEF CallFails, ProxyInv, TypeOK
    <2> QED
      BY <2>1 DEF Reason
  <1> QED
    BY <1>1, <1>2, <1>3, ArriveRefuses, LookupRefuses, DetectRefuses, StoreRefuses,
       GetTokenRefuses, ProxyRefuses
    DEF Next, Handle, Cleanup, ChangePolicy, vars

\* A request is refused only for a reason of its own; what others put into the
\* cache is no such reason (getOrDetectRegistry, handleDockerRegistry).
THEOREM RefusalHasAReason == Spec => RefusedForAReason
  <1>1. ProxyInv /\ [Next]_vars => \A r \in Requests : Refused(r) => Reason(r)
    BY StepRefuses
  <1>2. ProxyInv /\ [Next]_vars => [\A r \in Requests :
          LET q == req[r]
              g == RegistryOf[q.key]
          IN q.pc # "idle" /\ req'[r].answer \in {"401", "502"} =>
               \/ faults' # faults
               \/ ~Supported(policy[g])
               \/ q.info # None /\ q.info.version # version[g]]_vars
    BY <1>1 DEF Refused, Reason
  <1> QED
    BY <1>2, ProxyInvariant, PTL DEF Spec, RefusedForAReason
=============================================================================
