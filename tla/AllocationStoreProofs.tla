------------------------ MODULE AllocationStoreProofs ------------------------
(* Theorems about AllocationStore, for all values of its constants.       *)
EXTENDS AllocationStoreTypes, AllocationStoreSteps

\* The caches stay inverse functions.
LEMMA CacheInverseStep == BaseInv /\ [Next]_vars => CacheInverse'
<1> SUFFICES ASSUME BaseInv, [Next]_vars PROVE CacheInverse'
  OBVIOUS
<1>0. CacheInverse /\ \A h \in Handlers : Home[h] \in Replicas
  BY ProcessAssumption DEF BaseInv
<1>1. CASE UNCHANGED cache
  BY <1>0, <1>1 DEF CacheInverse, cache
<1>2. ASSUME NEW h \in Handlers, ForgetStep(h) PROVE CacheInverse'
  <2>1. ip[h] \in Addrs
    BY <1>2 DEF ForgetStep, BaseInv, LocalsOK, LocalOK, AddrSteps
  <2> DEFINE r == Home[h]
             a == ip[h]
  <2>2. ASSUME NEW s \in Replicas, NEW k \in Keys, NEW b \in Addrs
        PROVE  byKey'[s][k] = b <=> byIP'[s][b] = k
    BY <1>0, <1>2, <2>1, NoneAssumption
    DEF ForgetStep, Forget, CacheInverse, BaseInv, TypeOK
  <2>3. ASSUME NEW s \in Replicas, NEW b \in Addrs
        PROVE  byIP'[s][b] = NoKey <=> expires'[s][b] = 0
    BY <1>0, <1>2, <2>1 DEF ForgetStep, Forget, CacheInverse, BaseInv, TypeOK
  <2> QED
    BY <2>2, <2>3 DEF CacheInverse
<1>3. ASSUME NEW h \in Handlers, RememberStep(h) PROVE CacheInverse'
  <2>1. key[h] \in Keys /\ ip[h] \in Addrs
    BY <1>3 DEF RememberStep, BaseInv, LocalsOK, LocalOK, AddrSteps, KeySteps
  <2>2. now[h] + Lease # 0
    BY TimeAssumption DEF BaseInv, TypeOK
  <2>3. CASE /\ byKey[Home[h]][key[h]] = NoAddr /\ byIP[Home[h]][ip[h]] = NoKey
             /\ byKey' = [byKey EXCEPT ![Home[h]][key[h]] = ip[h]]
             /\ byIP' = [byIP EXCEPT ![Home[h]][ip[h]] = key[h]]
             /\ expires' = [expires EXCEPT ![Home[h]][ip[h]] = now[h] + Lease]
    <3>1. ASSUME NEW s \in Replicas, NEW k \in Keys, NEW b \in Addrs
          PROVE  byKey'[s][k] = b <=> byIP'[s][b] = k
      BY <1>0, <2>1, <2>3, NoneAssumption DEF CacheInverse, BaseInv, TypeOK
    <3>2. ASSUME NEW s \in Replicas, NEW b \in Addrs
          PROVE  byIP'[s][b] = NoKey <=> expires'[s][b] = 0
      BY <1>0, <2>1, <2>2, <2>3, NoneAssumption DEF CacheInverse, BaseInv, TypeOK
    <3> QED
      BY <3>1, <3>2 DEF CacheInverse
  <2> QED
    BY <1>1, <1>3, <2>3 DEF RememberStep, RememberUntil
<1>4. ASSUME NEW r \in Replicas, Crash(r) PROVE CacheInverse'
  BY <1>0, <1>4, NoneAssumption DEF Crash, CacheInverse, BaseInv, TypeOK
<1> QED
  BY <1>1, <1>2, <1>3, <1>4, CacheSteps

\* The table keeps its constraints, and NULL expiries do not come back.
LEMMA TableStep == BaseInv /\ [Next]_vars => TableOK'
<1> SUFFICES ASSUME BaseInv, [Next]_vars PROVE TableOK'
  OBVIOUS
<1> USE DEF BaseInv
<1>0. TableOK /\ TypeOK
  OBVIOUS
<1>1. ASSUME NEW r \in Replicas, Open(r) PROVE TableOK'
  <2>1. Now(r) + DefaultLease # 0
    BY TimeAssumption, ProcessAssumption DEF TypeOK, Now
  <2>2. \A k \in Keys : row'[k] # NoAddr => exp'[k] # 0
    BY <1>1, <2>1 DEF Open
  <2> QED
    BY <1>0, <1>1, <2>2 DEF TableOK, Open
<1>2. CASE UNCHANGED table /\ ~ \E r \in Replicas : Open(r)
  <2>1. \A r \in Replicas : ~up[r] => ~up'[r]
    BY <1>2, UpSteps DEF Crash, TypeOK
  <2> QED
    BY <1>0, <1>2, <2>1 DEF TableOK, table
<1>3. ASSUME NEW h \in Handlers, UNCHANGED up, DeleteStep(h) PROVE TableOK'
  BY <1>0, <1>3 DEF TableOK, TypeOK, DeleteStep, DeleteExpired
<1>4. ASSUME NEW h \in Handlers, UNCHANGED up, InsertStep(h) PROVE TableOK'
  <2>1. key[h] \in Keys /\ Pool[key[h]][at[h]] \in Addrs
    BY <1>4, PoolAssumption DEF InsertStep, LocalsOK, LocalOK, KeySteps, ScanSteps
  <2>2. now[h] + Lease # 0
    BY TimeAssumption DEF TypeOK
  <2> QED
    BY <1>0, <1>4, <2>1, <2>2, NoneAssumption
    DEF TableOK, TypeOK, InsertStep, InsertRow, Conflict
<1>5. ASSUME NEW h \in Handlers, UNCHANGED up, UpdateStep(h) PROVE TableOK'
  <2>2. now[h] + Lease # 0
    BY TimeAssumption DEF TypeOK
  <2> QED
    BY <1>0, <1>5, <2>2 DEF TableOK, TypeOK, UpdateStep, UpdateRow
<1> QED
  BY <1>1, <1>2, <1>3, <1>4, <1>5, TableSteps

\* A request runs only in a process that is up.
LEMMA RunningStep == BaseInv /\ [Next]_vars => RunningOK'
<1> SUFFICES ASSUME BaseInv, [Next]_vars, NEW h \in Handlers, pc'[h] \in Steps
             PROVE  up'[Home[h]]
  BY DEF RunningOK
<1> USE DEF BaseInv
<1>0. RunningOK /\ TypeOK /\ Home[h] \in Replicas
  BY ProcessAssumption
<1>1. ASSUME NEW r \in Replicas, Crash(r) PROVE up'[Home[h]]
  <2>1. Home[h] # r /\ pc[h] \in Steps
    BY <1>1 DEF Crash, Steps
  <2> QED
    BY <1>0, <1>1, <2>1 DEF Crash, RunningOK, TypeOK
<1>2. ASSUME NEW r \in Replicas, Open(r) PROVE up'[Home[h]]
  BY <1>0, <1>2 DEF Open, RunningOK, TypeOK
<1>3. CASE UNCHANGED up
  <2>1. CASE pc[h] \in Steps
    BY <1>0, <1>3, <2>1 DEF RunningOK
  <2>2. CASE pc[h] \notin Steps
    <3>1. \/ \E k \in Keys : StartAllocate(h, k)
          \/ \E a \in Addrs : StartLookup(h, a)
      <4>1. ~ Step(h) /\ ~ DBError(h)
        BY <2>2, StepsOnly
      <4>2. ~ Same(h)
        BY <2>2 DEF Same
      <4>3. ~ \E r \in Replicas : Crash(r) /\ Lost(h)
        BY DEF Lost, Steps
      <4> QED
        BY <4>1, <4>2, <4>3, HandlerSteps
    <3> QED
      BY <1>3, <3>1 DEF StartAllocate, StartLookup
  <2> QED
    BY <2>1, <2>2
<1> QED
  BY <1>1, <1>2, <1>3, UpSteps

\* Every step leaves the locals that the next one needs.
LEMMA LocalsStep == BaseInv /\ [Next]_vars => LocalsOK'
<1> SUFFICES ASSUME BaseInv, [Next]_vars, NEW h \in Handlers PROVE LocalOK(h)'
  BY DEF LocalsOK
<1> USE DEF KeySteps, AddrSteps, ScanSteps, Goto
<1>0. TypeOK /\ LocalOK(h) /\ CacheInverse /\ Home[h] \in Replicas
  BY ProcessAssumption DEF BaseInv, LocalsOK
<1>1. CASE Same(h)
  BY <1>0, <1>1 DEF Same, LocalOK
<1>2. ASSUME NEW k \in Keys, StartAllocate(h, k) PROVE LocalOK(h)'
  BY <1>0, <1>2 DEF StartAllocate, LocalOK, TypeOK
<1>3. ASSUME NEW a \in Addrs, StartLookup(h, a) PROVE LocalOK(h)'
  BY <1>0, <1>3 DEF StartLookup, LocalOK, TypeOK
<1>4. CASE StoreLookupKey(h)
  <2>1. CASE LookupKey(h, "lookupKey.key", "lookupKey.live", "lookupKey.select")
    <3>1. byKey[Home[h]][key[h]] \in Addrs \cup {NoAddr}
      BY <1>0, <2>1 DEF LookupKey, LocalOK, TypeOK
    <3> QED
      BY <1>0, <2>1, <3>1 DEF LookupKey, LocalOK, TypeOK
  <2>2. CASE LookupLiveHit(h, "lookupKey.live", "renew") /\ UNCHANGED key
    BY <1>0, <2>2 DEF LookupLiveHit, LocalOK, TypeOK
  <2>3. CASE LookupLiveMiss(h, "lookupKey.live", "lookupKey.select")
    BY <1>0, <2>3 DEF LookupLiveMiss, LocalOK, TypeOK, locals
  <2>4. CASE SelectByKey(h, "lookupKey.select", "rememberRow", "allocate.key")
    BY <1>0, <2>4 DEF SelectByKey, RowLive, LocalOK, TypeOK
  <2> QED
    BY <1>4, <2>1, <2>2, <2>3, <2>4 DEF StoreLookupKey, LookupKeyLive
<1>5. CASE StoreAllocate(h)
  <2>1. CASE LookupKey(h, "allocate.key", "allocate.live", "allocate.select")
    <3>1. byKey[Home[h]][key[h]] \in Addrs \cup {NoAddr}
      BY <1>0, <2>1 DEF LookupKey, LocalOK, TypeOK
    <3> QED
      BY <1>0, <2>1, <3>1 DEF LookupKey, LocalOK, TypeOK
  <2>2. CASE LookupLiveHit(h, "allocate.live", "rememberHit") /\ UNCHANGED key
    BY <1>0, <2>2 DEF LookupLiveHit, LocalOK, TypeOK
  <2>3. CASE LookupLiveMiss(h, "allocate.live", "allocate.select")
    BY <1>0, <2>3 DEF LookupLiveMiss, LocalOK, TypeOK, locals
  <2>4. CASE SelectByKey(h, "allocate.select", "rememberRow", "delete")
    BY <1>0, <2>4 DEF SelectByKey, RowLive, LocalOK, TypeOK
  <2>5. CASE Delete(h)
    <3>1. key[h] \in Keys /\ Len(Pool[key[h]]) \in Nat
      BY <1>0, <2>5, PoolAssumption DEF Delete, LocalOK
    <3> QED
      BY <1>0, <2>5, <3>1 DEF Delete, LocalOK, TypeOK
  <2>6. CASE Insert(h)
    BY <1>0, <2>6 DEF Insert, LocalOK, TypeOK, locals
  <2>7. CASE Reselect(h)
    <3>1. /\ key[h] \in Keys /\ Len(Pool[key[h]]) \in Nat
          /\ at[h] \in 1..Len(Pool[key[h]])
      BY <1>0, <2>7, PoolAssumption DEF Reselect, NextAddr, LocalOK
    <3>2. CASE Fail(h)
      BY <1>0, <3>2 DEF Fail, LocalOK, TypeOK
    <3>3. CASE RowLive(key[h], now[h]) /\ ~ Fail(h)
      BY <1>0, <2>7, <3>1, <3>3 DEF Reselect, NextAddr, RowLive, LocalOK, TypeOK
    <3>4. CASE ~ RowLive(key[h], now[h]) /\ ~ Fail(h)
      <4>1. /\ pc'[h] = IF at[h] = Len(Pool[key[h]]) THEN "exhausted" ELSE "insert"
            /\ at'[h] = at[h] + 1 /\ key'[h] = key[h]
        BY <1>0, <2>7, <3>4 DEF Reselect, NextAddr, TypeOK
      <4> QED
        BY <3>1, <4>1 DEF LocalOK
    <3> QED
      BY <3>2, <3>3, <3>4
  <2>8. CASE Remember(h, "rememberNew", "stamp")
    BY <1>0, <2>8 DEF Remember, LocalOK, TypeOK, locals
  <2>9. CASE Stamp(h)
    BY <1>0, <2>9 DEF Stamp, LocalOK, TypeOK, locals
  <2> QED
    BY <1>5, <2>1, <2>2, <2>3, <2>4, <2>5, <2>6, <2>7, <2>8, <2>9
    DEF StoreAllocate, LookupKeyLive
<1>6. CASE StoreLookup(h)
  <2>1. CASE LookupLiveHit(h, "lookup.live", "rememberHit")
             /\ key' = [key EXCEPT ![h] = byIP[Home[h]][ip[h]]]
    <3>1. ip[h] \in Addrs /\ byIP[Home[h]][ip[h]] \in Keys
      BY <1>0, <2>1 DEF LookupLiveHit, CacheLive, LocalOK, TypeOK
    <3> QED
      BY <1>0, <2>1, <3>1 DEF LookupLiveHit, LocalOK, TypeOK
  <2>2. CASE LookupLiveMiss(h, "lookup.live", "lookup.select")
    BY <1>0, <2>2 DEF LookupLiveMiss, LocalOK, TypeOK, locals
  <2>3. CASE SelectByIP(h)
    BY <1>0, <2>3 DEF SelectByIP, LocalOK, TypeOK
  <2> QED
    BY <1>6, <2>1, <2>2, <2>3 DEF StoreLookup, LookupLive
<1>7. CASE RememberAndRenew(h)
  BY <1>0, <1>7 DEF RememberAndRenew, Remember, Renew, Update, LocalOK, TypeOK, locals
<1>8. CASE DBError(h)
  BY <1>0, <1>8 DEF DBError, Fail, LocalOK, TypeOK
<1>9. CASE Lost(h)
  BY <1>9 DEF Lost, LocalOK
<1> QED
  BY <1>0, <1>1, <1>2, <1>3, <1>4, <1>5, <1>6, <1>7, <1>8, <1>9, HandlerSteps DEF Step

\* The base invariant is inductive.
LEMMA BaseStep == BaseInv /\ [Next]_vars => BaseInv'
BY TypeStep, LocalsStep, TableStep, RunningStep, CacheInverseStep DEF BaseInv

\* The variables keep their types in every execution.
THEOREM TypeCorrect == Spec => []TypeOK
<1>1. Spec => []BaseInv
  BY BaseInit, BaseStep, PTL DEF Spec
<1>2. BaseInv => TypeOK
  BY DEF BaseInv
<1> QED
  BY <1>1, <1>2, PTL

\* In every process byKey and byIP stay inverse to each other, for any number of
\* processes, concurrent requests, faults and clock skews.
THEOREM CachesStayInverse == Spec => []CacheInverse
<1>1. Spec => []BaseInv
  BY BaseInit, BaseStep, PTL DEF Spec
<1>2. BaseInv => CacheInverse
  BY DEF BaseInv
<1> QED
  BY <1>1, <1>2, PTL
-----------------------------------------------------------------------------
\* The steps at which a request holds a key with its address.
BoundSteps ==
  {"lookupKey.live", "allocate.live", "rememberHit", "rememberRow", "rememberNew",
   "renew", "renewForced", "update", "stamp", "ok"}

\* Every binding, in the table, a cache or a request, is of an address that the
\* key's gateway has.
RowsInRange == \A k \in Keys : row[k] # NoAddr => InRange(k, row[k])
CachesInRange ==
  \A r \in Replicas, k \in Keys : byKey[r][k] # NoAddr => InRange(k, byKey[r][k])
BoundInRange(h) == pc[h] \in BoundSteps => InRange(key[h], ip[h])
RangeInv == RowsInRange /\ CachesInRange /\ \A h \in Handlers : BoundInRange(h)

\* Only Insert binds a new address, and takes it from the key's own pool.
LEMMA RowsRangeStep == BaseInv /\ RangeInv /\ [Next]_vars => RowsInRange'
<1> SUFFICES ASSUME BaseInv, RangeInv, [Next]_vars PROVE RowsInRange'
  OBVIOUS
<1>0. RowsInRange /\ TypeOK
  BY DEF BaseInv, RangeInv
<1>1. CASE UNCHANGED row
  BY <1>0, <1>1 DEF RowsInRange
<1>2. ASSUME NEW h \in Handlers, DeleteStep(h) PROVE RowsInRange'
  BY <1>0, <1>2 DEF RowsInRange, DeleteStep, DeleteExpired
<1>3. ASSUME NEW h \in Handlers, InsertStep(h) PROVE RowsInRange'
  <2>1. key[h] \in Keys /\ at[h] \in 1..Len(Pool[key[h]])
    BY <1>3 DEF BaseInv, InsertStep, LocalsOK, LocalOK, KeySteps, ScanSteps
  <2>2. InRange(key[h], Pool[key[h]][at[h]])
    BY <2>1 DEF InRange
  <2> QED
    BY <1>0, <1>3, <2>1, <2>2 DEF RowsInRange, InsertStep, InsertRow, TypeOK
<1> QED
  BY <1>1, <1>2, <1>3, TableSteps DEF table, Open, UpdateStep, UpdateRow

\* A cache gets its entries from requests.
LEMMA CachesRangeStep == BaseInv /\ RangeInv /\ [Next]_vars => CachesInRange'
<1> SUFFICES ASSUME BaseInv, RangeInv, [Next]_vars PROVE CachesInRange'
  OBVIOUS
<1>0. CachesInRange /\ TypeOK /\ \A h \in Handlers : Home[h] \in Replicas
  BY ProcessAssumption DEF BaseInv, RangeInv
<1>1. CASE UNCHANGED cache
  BY <1>0, <1>1 DEF CachesInRange, cache
<1>2. ASSUME NEW h \in Handlers, ForgetStep(h) PROVE CachesInRange'
  BY <1>0, <1>2 DEF CachesInRange, ForgetStep, Forget, TypeOK
<1>3. ASSUME NEW h \in Handlers, RememberStep(h) PROVE CachesInRange'
  <2>1. key[h] \in Keys /\ InRange(key[h], ip[h])
    BY <1>3 DEF BaseInv, RangeInv, RememberStep, LocalsOK, LocalOK, KeySteps, BoundInRange,
                BoundSteps
  <2>2. CASE byKey' = [byKey EXCEPT ![Home[h]][key[h]] = ip[h]]
    BY <1>0, <2>1, <2>2 DEF CachesInRange, TypeOK
  <2> QED
    BY <1>1, <1>3, <2>2 DEF RememberStep, RememberUntil
<1>4. ASSUME NEW r \in Replicas, Crash(r) PROVE CachesInRange'
  BY <1>0, <1>4 DEF CachesInRange, Crash, TypeOK
<1> QED
  BY <1>1, <1>2, <1>3, <1>4, CacheSteps

\* A request gets its binding from a row, or from the cache of its process; of
\* the reverse lookup this needs that the cache's maps are inverse.
LEMMA BoundStep ==
  ASSUME BaseInv, RangeInv, [Next]_vars, NEW h \in Handlers
  PROVE  BoundInRange(h)'
<1> USE DEF BoundSteps, BoundInRange, Goto
<1>0. /\ TypeOK /\ LocalOK(h) /\ CacheInverse /\ Home[h] \in Replicas
      /\ RowsInRange /\ CachesInRange /\ BoundInRange(h)
  BY ProcessAssumption DEF BaseInv, RangeInv, LocalsOK
<1>1. CASE Same(h)
  BY <1>0, <1>1 DEF Same
<1>2. ASSUME NEW k \in Keys, StartAllocate(h, k) PROVE BoundInRange(h)'
  BY <1>0, <1>2 DEF StartAllocate, TypeOK
<1>3. ASSUME NEW a \in Addrs, StartLookup(h, a) PROVE BoundInRange(h)'
  BY <1>0, <1>3 DEF StartLookup, TypeOK
<1>4. ASSUME NEW l, NEW f, NEW n, n \notin BoundSteps,
             key[h] \in Keys, LookupKey(h, l, f, n)
      PROVE  BoundInRange(h)'
  BY <1>0, <1>4 DEF LookupKey, CachesInRange, TypeOK
<1>5. ASSUME NEW l, NEW f, NEW n, n \notin BoundSteps,
             key[h] \in Keys, SelectByKey(h, l, f, n)
      PROVE  BoundInRange(h)'
  BY <1>0, <1>5 DEF SelectByKey, RowLive, RowsInRange, TypeOK
<1>6. ASSUME NEW l \in BoundSteps, NEW t, LookupLiveHit(h, l, t), UNCHANGED key
      PROVE  BoundInRange(h)'
  BY <1>0, <1>6 DEF LookupLiveHit, TypeOK
<1>7. ASSUME NEW l, NEW t, t \notin BoundSteps, LookupLiveMiss(h, l, t)
      PROVE  BoundInRange(h)'
  BY <1>0, <1>7 DEF LookupLiveMiss, TypeOK
<1>8. ASSUME NEW l \in BoundSteps, NEW t, Remember(h, l, t) PROVE BoundInRange(h)'
  BY <1>0, <1>8 DEF Remember, TypeOK, locals
<1>9. CASE StoreLookupKey(h)
  <2>1. pc[h] \in {"lookupKey.key", "lookupKey.select"} => key[h] \in Keys
    BY <1>0 DEF LocalOK, KeySteps
  <2>2. CASE LookupKey(h, "lookupKey.key", "lookupKey.live", "lookupKey.select")
    BY <1>4, <2>1, <2>2 DEF LookupKey
  <2>3. CASE LookupKeyLive(h, "lookupKey.live", "renew", "lookupKey.select")
    BY <1>6, <1>7, <2>3 DEF LookupKeyLive
  <2>4. CASE SelectByKey(h, "lookupKey.select", "rememberRow", "allocate.key")
    BY <1>5, <2>1, <2>4 DEF SelectByKey
  <2> QED
    BY <1>9, <2>2, <2>3, <2>4 DEF StoreLookupKey
<1>10. CASE StoreAllocate(h)
  <2>1. pc[h] \in {"allocate.key", "allocate.select", "reselect0", "reselect1"} =>
          key[h] \in Keys
    BY <1>0 DEF LocalOK, KeySteps
  <2>2. CASE Delete(h)
    BY <1>0, <2>2 DEF Delete, TypeOK
  <2>3. CASE Insert(h)
    BY <1>0, <2>3 DEF Insert, TypeOK
  <2>4. CASE Reselect(h)
    <3>1. key[h] \in Keys
      BY <2>1, <2>4 DEF Reselect
    <3>2. CASE RowLive(key[h], now[h])
      BY <1>0, <2>4, <3>1, <3>2 DEF Reselect, RowLive, RowsInRange, TypeOK
    <3>3. CASE ~ RowLive(key[h], now[h])
      <4>1. pc'[h] \in {"exhausted", "insert", "error"}
        BY <1>0, <2>4, <3>3 DEF Reselect, Fail, TypeOK
      <4> QED
        BY <4>1
    <3> QED
      BY <3>2, <3>3
  <2>5. CASE Stamp(h)
    BY <1>0, <2>5 DEF Stamp, TypeOK, locals
  <2>6. CASE LookupKey(h, "allocate.key", "allocate.live", "allocate.select")
    BY <1>4, <2>1, <2>6 DEF LookupKey
  <2>7. CASE LookupKeyLive(h, "allocate.live", "rememberHit", "allocate.select")
    BY <1>6, <1>7, <2>7 DEF LookupKeyLive
  <2>8. CASE SelectByKey(h, "allocate.select", "rememberRow", "delete")
    BY <1>5, <2>1, <2>8 DEF SelectByKey
  <2>9. CASE Remember(h, "rememberNew", "stamp")
    BY <1>8, <2>9
  <2> QED
    BY <1>10, <2>2, <2>3, <2>4, <2>5, <2>6, <2>7, <2>8, <2>9 DEF StoreAllocate
<1>11. CASE StoreLookup(h)
  <2>1. CASE LookupLiveHit(h, "lookup.live", "rememberHit")
             /\ key' = [key EXCEPT ![h] = byIP[Home[h]][ip[h]]]
    <3>1. ip[h] \in Addrs /\ byIP[Home[h]][ip[h]] \in Keys
      BY <1>0, <2>1 DEF LookupLiveHit, CacheLive, LocalOK, AddrSteps, TypeOK
    <3>2. byKey[Home[h]][byIP[Home[h]][ip[h]]] = ip[h] /\ ip[h] # NoAddr
      BY <1>0, <3>1, NoneAssumption DEF CacheInverse
    <3>3. InRange(byIP[Home[h]][ip[h]], ip[h])
      BY <1>0, <3>1, <3>2 DEF CachesInRange
    <3> QED
      BY <1>0, <2>1, <3>3 DEF LookupLiveHit, TypeOK
  <2>2. CASE SelectByIP(h)
    BY <1>0, <2>2 DEF SelectByIP, RowLive, RowsInRange, TypeOK
  <2> QED
    BY <1>7, <1>11, <2>1, <2>2 DEF StoreLookup, LookupLive
<1>12. CASE RememberAndRenew(h)
  <2>1. CASE Renew(h) \/ Update(h)
    BY <1>0, <2>1 DEF Renew, Update, TypeOK, locals
  <2> QED
    BY <1>8, <1>12, <2>1 DEF RememberAndRenew
<1>13. CASE DBError(h)
  BY <1>0, <1>13 DEF DBError, Fail, TypeOK
<1>14. CASE Lost(h)
  BY <1>14 DEF Lost
<1> QED
  BY <1>0, <1>1, <1>2, <1>3, <1>9, <1>10, <1>11, <1>12, <1>13, <1>14, HandlerSteps DEF Step

\* No process ever caches or answers an address outside the ranges of the key's
\* gateway, for any number of processes and requests, with faults and skew.
THEOREM AnswersStayInRange == Spec => []AnswersInRange
<1>1. Init => RangeInv
  BY DEF Init, RangeInv, RowsInRange, CachesInRange, BoundInRange, BoundSteps, InRange
<1>2. BaseInv /\ RangeInv /\ [Next]_vars => RangeInv'
  BY RowsRangeStep, CachesRangeStep, BoundStep DEF RangeInv
<1>3. RangeInv => AnswersInRange
  BY DEF RangeInv, CachesInRange, BoundInRange, BoundSteps, AnswersInRange
<1> QED
  BY <1>1, <1>2, <1>3, BaseInit, BaseStep, PTL DEF Spec
=============================================================================
