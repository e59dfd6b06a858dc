------------------------ MODULE AllocationStoreTypes -------------------------
(* The base invariant of AllocationStore, and that it keeps the types.    *)
EXTENDS AllocationStore, TLAPS

\* Which steps have which locals.
KeySteps ==
  {"lookupKey.key", "lookupKey.live", "lookupKey.select",
   "allocate.key", "allocate.live", "allocate.select",
   "delete", "insert", "reselect0", "reselect1",
   "rememberHit", "rememberRow", "rememberNew",
   "renew", "renewForced", "update", "stamp"}
AddrSteps ==
  {"lookupKey.live", "allocate.live", "lookup.live", "lookup.select",
   "rememberHit", "rememberRow", "rememberNew",
   "renew", "renewForced", "update", "stamp"}
ScanSteps == {"insert", "reselect0", "reselect1"}

LocalOK(h) ==
  /\ pc[h] \in KeySteps \cup {"ok", "exhausted"} => key[h] \in Keys
  /\ pc[h] \in AddrSteps \cup {"ok"} => ip[h] \in Addrs
  /\ pc[h] \in ScanSteps => at[h] \in 1..Len(Pool[key[h]])

LocalsOK == \A h \in Handlers : LocalOK(h)

\* The table's constraints; a NULL expiry only until the first Open.
TableOK ==
  /\ \A j, k \in Keys : row[j] = row[k] /\ row[k] # NoAddr => j = k
  /\ \A k \in Keys : row[k] = NoAddr => exp[k] = 0
  /\ \/ \A k \in Keys : row[k] # NoAddr => exp[k] # 0
     \/ \A r \in Replicas : ~up[r]

\* Only the replicas that are up run requests.
RunningOK == \A h \in Handlers : pc[h] \in Steps => up[Home[h]]

BaseInv == TypeOK /\ LocalsOK /\ TableOK /\ RunningOK /\ CacheInverse

-----------------------------------------------------------------------------
\* The initial table and the empty caches satisfy the invariant.
LEMMA BaseInit == Init => BaseInv
<1> SUFFICES ASSUME Init PROVE BaseInv
  OBVIOUS
<1>1. TypeOK
  BY LegacyAssumption DEF Init, TypeOK, Returned
<1>2. LocalsOK
  BY DEF Init, LocalsOK, LocalOK, KeySteps, AddrSteps, ScanSteps
<1>3. TableOK
  BY LegacyAssumption DEF Init, TableOK
<1>4. RunningOK
  BY DEF Init, RunningOK, Steps
<1>5. CacheInverse
  BY NoneAssumption DEF Init, CacheInverse
<1> QED
  BY <1>1, <1>2, <1>3, <1>4, <1>5 DEF BaseInv

\* The operators that take labels keep the variables well typed.
LEMMA LookupKeyType ==
  ASSUME TypeOK, NEW h \in Handlers, key[h] \in Keys,
         NEW from, NEW found \in Steps, NEW absent \in Steps,
         LookupKey(h, from, found, absent)
  PROVE  TypeOK'
<1>1. byKey[Home[h]][key[h]] \in Addrs \cup {NoAddr}
  BY ProcessAssumption DEF TypeOK
<1>2. pc' \in [Handlers -> Returned \cup Steps]
  BY DEF TypeOK, LookupKey, Goto
<1>3. ip' \in [Handlers -> Addrs \cup {NoAddr}]
  BY <1>1 DEF TypeOK, LookupKey
<1> QED
  BY <1>2, <1>3 DEF TypeOK, LookupKey, table, cache

\* SelectByKey keeps the variables well typed.
LEMMA SelectByKeyType ==
  ASSUME TypeOK, NEW h \in Handlers, key[h] \in Keys,
         NEW from, NEW found \in Steps, NEW absent \in Steps,
         SelectByKey(h, from, found, absent)
  PROVE  TypeOK'
<1>1. row[key[h]] \in Addrs \cup {NoAddr}
  BY DEF TypeOK
<1>2. pc' \in [Handlers -> Returned \cup Steps]
  BY DEF TypeOK, SelectByKey, Goto
<1>3. ip' \in [Handlers -> Addrs \cup {NoAddr}]
  BY <1>1 DEF TypeOK, SelectByKey
<1> QED
  BY <1>2, <1>3 DEF TypeOK, SelectByKey, table, cache

\* Remember keeps the variables well typed.
LEMMA RememberType ==
  ASSUME TypeOK, NEW h \in Handlers, key[h] \in Keys, ip[h] \in Addrs,
         NEW from, NEW to \in Steps,
         Remember(h, from, to)
  PROVE  TypeOK'
<1>1. now[h] + Lease \in Nat /\ Home[h] \in Replicas
  BY TimeAssumption, ProcessAssumption DEF TypeOK
<1>2. /\ byKey' \in [Replicas -> [Keys -> Addrs \cup {NoAddr}]]
      /\ byIP' \in [Replicas -> [Addrs -> Keys \cup {NoKey}]]
      /\ expires' \in [Replicas -> [Addrs -> Nat]]
  <2>1. CASE UNCHANGED cache
    BY <2>1 DEF TypeOK, cache
  <2>2. CASE /\ byKey' = [byKey EXCEPT ![Home[h]][key[h]] = ip[h]]
             /\ byIP' = [byIP EXCEPT ![Home[h]][ip[h]] = key[h]]
             /\ expires' = [expires EXCEPT ![Home[h]][ip[h]] = now[h] + Lease]
    BY <1>1, <2>2 DEF TypeOK
  <2> QED
    BY <2>1, <2>2 DEF Remember, RememberUntil
<1> QED
  BY <1>2 DEF TypeOK, Remember, Goto, table, locals

\* Every step keeps the variables well typed.
LEMMA TypeStep == BaseInv /\ [Next]_vars => TypeOK'
<1> SUFFICES ASSUME BaseInv, [Next]_vars PROVE TypeOK'
  OBVIOUS
<1> USE DEF BaseInv, TypeOK, Goto, table, cache, locals
<1>a. Lease \in Nat /\ DefaultLease \in Nat
  BY TimeAssumption
<1>b. \A h \in Handlers : Home[h] \in Replicas
  BY ProcessAssumption
<1>c. \A h \in Handlers : now[h] + Lease \in Nat
  BY <1>a
<1>d. \A r \in Replicas : Now(r) \in Nat
  BY ProcessAssumption DEF Now
<1>1. ASSUME NEW h \in Handlers, NEW k \in Keys, StartAllocate(h, k) PROVE TypeOK'
  BY <1>1, <1>b, <1>d DEF StartAllocate, Steps
<1>2. ASSUME NEW h \in Handlers, NEW a \in Addrs, StartLookup(h, a) PROVE TypeOK'
  BY <1>2, <1>b, <1>d DEF StartLookup, Steps
<1>3. ASSUME NEW h \in Handlers, StoreLookupKey(h) PROVE TypeOK'
  <2>1. CASE LookupKey(h, "lookupKey.key", "lookupKey.live", "lookupKey.select")
    <3>1. key[h] \in Keys
      BY <2>1 DEF LookupKey, LocalsOK, LocalOK, KeySteps
    <3>2. "lookupKey.live" \in Steps /\ "lookupKey.select" \in Steps
      BY DEF Steps
    <3> QED
      BY <2>1, <3>1, <3>2, LookupKeyType
  <2>2. CASE LookupLiveHit(h, "lookupKey.live", "renew") /\ UNCHANGED key
    BY <2>2 DEF LookupLiveHit, Steps
  <2>3. CASE LookupLiveMiss(h, "lookupKey.live", "lookupKey.select")
    BY <2>3, <1>b DEF LookupLiveMiss, Forget, Steps, LocalsOK, LocalOK, AddrSteps
  <2>4. CASE SelectByKey(h, "lookupKey.select", "rememberRow", "allocate.key")
    <3>1. key[h] \in Keys
      BY <2>4 DEF SelectByKey, LocalsOK, LocalOK, KeySteps
    <3>2. "rememberRow" \in Steps /\ "allocate.key" \in Steps
      BY DEF Steps
    <3> QED
      BY <2>4, <3>1, <3>2, SelectByKeyType
  <2> QED
    BY <1>3, <2>1, <2>2, <2>3, <2>4 DEF StoreLookupKey, LookupKeyLive
<1>4. ASSUME NEW h \in Handlers, StoreAllocate(h) PROVE TypeOK'
  <2>1. CASE LookupKey(h, "allocate.key", "allocate.live", "allocate.select")
    <3>1. key[h] \in Keys
      BY <2>1 DEF LookupKey, LocalsOK, LocalOK, KeySteps
    <3>2. "allocate.live" \in Steps /\ "allocate.select" \in Steps
      BY DEF Steps
    <3> QED
      BY <2>1, <3>1, <3>2, LookupKeyType
  <2>2. CASE LookupLiveHit(h, "allocate.live", "rememberHit") /\ UNCHANGED key
    BY <2>2 DEF LookupLiveHit, Steps
  <2>3. CASE LookupLiveMiss(h, "allocate.live", "allocate.select")
    BY <2>3, <1>b DEF LookupLiveMiss, Forget, Steps, LocalsOK, LocalOK, AddrSteps
  <2>4. CASE SelectByKey(h, "allocate.select", "rememberRow", "delete")
    <3>1. key[h] \in Keys
      BY <2>4 DEF SelectByKey, LocalsOK, LocalOK, KeySteps
    <3>2. "rememberRow" \in Steps /\ "delete" \in Steps
      BY DEF Steps
    <3> QED
      BY <2>4, <3>1, <3>2, SelectByKeyType
  <2>5. CASE Delete(h)
    BY <2>5 DEF Delete, DeleteExpired, Steps, Returned
  <2>6. CASE Insert(h)
    <3>1. key[h] \in Keys /\ Pool[key[h]][at[h]] \in Addrs
      BY <2>6, PoolAssumption DEF Insert, LocalsOK, LocalOK, KeySteps, ScanSteps
    <3>2. row' \in [Keys -> Addrs \cup {NoAddr}] /\ exp' \in [Keys -> Nat]
      <4>1. CASE UNCHANGED table
        BY <4>1
      <4>2. CASE InsertRow(key[h], Pool[key[h]][at[h]], now[h] + Lease)
        BY <4>2, <3>1, <1>c DEF InsertRow
      <4> QED
        BY <2>6, <4>1, <4>2 DEF Insert
    <3>3. pc' \in [Handlers -> Returned \cup Steps]
      BY <2>6 DEF Insert, Steps
    <3> QED
      BY <2>6, <3>2, <3>3 DEF Insert
  <2>7. CASE Reselect(h)
    <3>1. key[h] \in Keys /\ row[key[h]] \in Addrs \cup {NoAddr} /\ at[h] + 1 \in Nat
      BY <2>7 DEF Reselect, NextAddr, LocalsOK, LocalOK, KeySteps
    <3>2. {"rememberNew", "insert", "exhausted", "error"} \subseteq Returned \cup Steps
      BY DEF Steps, Returned
    <3>3. pc' \in [Handlers -> Returned \cup Steps]
      BY <2>7, <3>2 DEF Reselect, NextAddr, Fail
    <3>4. now' \in [Handlers -> Nat]
      <4>1. CASE UNCHANGED now
        BY <4>1
      <4>2. CASE Fail(h)
        BY <4>2 DEF Fail
      <4> QED
        BY <2>7, <4>1, <4>2 DEF Reselect, NextAddr
    <3>7. key' \in [Handlers -> Keys \cup {NoKey}]
      BY <2>7 DEF Reselect, NextAddr, Fail
    <3>5. ip' \in [Handlers -> Addrs \cup {NoAddr}]
      BY <2>7, <3>1 DEF Reselect, NextAddr, Fail
    <3>6. at' \in [Handlers -> Nat]
      BY <2>7, <3>1 DEF Reselect, NextAddr, Fail
    <3> QED
      BY <2>7, <3>3, <3>4, <3>5, <3>6, <3>7 DEF Reselect, NextAddr
  <2>8. CASE Remember(h, "rememberNew", "stamp")
    <3>1. key[h] \in Keys /\ ip[h] \in Addrs /\ "stamp" \in Steps
      BY <2>8 DEF Remember, LocalsOK, LocalOK, KeySteps, AddrSteps, Steps
    <3> QED
      BY <2>8, <3>1, RememberType
  <2>9. CASE Stamp(h)
    BY <2>9, <1>b DEF Stamp, SetLastRenewed, LocalsOK, LocalOK, KeySteps, Returned
  <2> QED
    BY <1>4, <2>1, <2>2, <2>3, <2>4, <2>5, <2>6, <2>7, <2>8, <2>9
    DEF StoreAllocate, LookupKeyLive
<1>5. ASSUME NEW h \in Handlers, StoreLookup(h) PROVE TypeOK'
  <2>1. CASE LookupLiveHit(h, "lookup.live", "rememberHit")
             /\ key' = [key EXCEPT ![h] = byIP[Home[h]][ip[h]]]
    BY <2>1, <1>b DEF LookupLiveHit, LocalsOK, LocalOK, AddrSteps, Steps
  <2>2. CASE LookupLiveMiss(h, "lookup.live", "lookup.select")
    BY <2>2, <1>b DEF LookupLiveMiss, Forget, Steps, LocalsOK, LocalOK, AddrSteps
  <2>3. CASE SelectByIP(h)
    <3>1. "rememberRow" \in Steps /\ "notFound" \in Returned
      BY DEF Steps, Returned
    <3>2. pc' \in [Handlers -> Returned \cup Steps]
      BY <2>3, <3>1 DEF SelectByIP
    <3>3. key' \in [Handlers -> Keys \cup {NoKey}]
      BY <2>3 DEF SelectByIP
    <3> QED
      BY <2>3, <3>2, <3>3 DEF SelectByIP
  <2> QED
    BY <1>5, <2>1, <2>2, <2>3 DEF StoreLookup, LookupLive
<1>6. ASSUME NEW h \in Handlers, RememberAndRenew(h) PROVE TypeOK'
  <2>1. CASE Remember(h, "rememberHit", "renew")
    <3>1. key[h] \in Keys /\ ip[h] \in Addrs /\ "renew" \in Steps
      BY <2>1 DEF Remember, LocalsOK, LocalOK, KeySteps, AddrSteps, Steps
    <3> QED
      BY <2>1, <3>1, RememberType
  <2>2. CASE Remember(h, "rememberRow", "renewForced")
    <3>1. key[h] \in Keys /\ ip[h] \in Addrs /\ "renewForced" \in Steps
      BY <2>2 DEF Remember, LocalsOK, LocalOK, KeySteps, AddrSteps, Steps
    <3> QED
      BY <2>2, <3>1, RememberType
  <2>3. CASE Renew(h)
    <3>1. key[h] \in Keys /\ Home[h] \in Replicas
      BY <2>3, <1>b DEF Renew, LocalsOK, LocalOK, KeySteps
    <3>2. "update" \in Steps /\ "ok" \in Returned
      BY DEF Steps, Returned
    <3>3. pc' \in [Handlers -> Returned \cup Steps]
      BY <2>3, <3>2 DEF Renew
    <3>4. lastRenewed' \in [Replicas -> [Keys -> Nat]]
      <4>1. CASE UNCHANGED lastRenewed
        BY <4>1
      <4>2. CASE SetLastRenewed(h)
        BY <4>2, <3>1 DEF SetLastRenewed
      <4> QED
        BY <2>3, <4>1, <4>2 DEF Renew
    <3> QED
      BY <2>3, <3>3, <3>4 DEF Renew
  <2>4. CASE Update(h)
    BY <2>4, <1>c DEF Update, UpdateRow, Returned
  <2> QED
    BY <1>6, <2>1, <2>2, <2>3, <2>4 DEF RememberAndRenew
<1>7. ASSUME NEW h \in Handlers, DBError(h) PROVE TypeOK'
  <2>1. Fail(h) /\ UNCHANGED <<clock, up, cache, lastRenewed>>
    BY <1>7 DEF DBError
  <2>2. row' \in [Keys -> Addrs \cup {NoAddr}] /\ exp' \in [Keys -> Nat]
    <3>1. CASE UNCHANGED table
      BY <3>1
    <3>2. CASE DeleteExpired(now[h])
      BY <3>2 DEF DeleteExpired
    <3>3. CASE pc[h] = "insert" /\ InsertRow(key[h], Pool[key[h]][at[h]], now[h] + Lease)
      <4>1. key[h] \in Keys /\ Pool[key[h]][at[h]] \in Addrs
        BY <3>3, PoolAssumption DEF LocalsOK, LocalOK, KeySteps, ScanSteps
      <4> QED
        BY <3>3, <4>1, <1>c DEF InsertRow
    <3>4. CASE UpdateRow(key[h], now[h] + Lease)
      BY <3>4, <1>c DEF UpdateRow
    <3> QED
      BY <1>7, <3>1, <3>2, <3>3, <3>4 DEF DBError
  <2> QED
    BY <2>1, <2>2 DEF Fail, Returned
<1>8. ASSUME NEW r \in Replicas, Open(r) PROVE TypeOK'
  BY <1>8, <1>a, <1>d DEF Open
<1>9. ASSUME NEW r \in Replicas, Crash(r) PROVE TypeOK'
  BY <1>9 DEF Crash, Returned
<1>10. CASE Tick
  BY <1>10 DEF Tick
<1>11. CASE UNCHANGED vars
  BY <1>11 DEF vars
<1> QED
  BY <1>1, <1>2, <1>3, <1>4, <1>5, <1>6, <1>7, <1>8, <1>9, <1>10, <1>11
  DEF Next, Step
=============================================================================
