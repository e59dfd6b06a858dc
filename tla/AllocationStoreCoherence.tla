---------------------- MODULE AllocationStoreCoherence -----------------------
(* Coherence, when requests are prompt and statements do not fail: what   *)
(* requests have learnt stays so, and the theorem.                         *)
EXTENDS AllocationStoreRows

\* What a request knows of the registry stays true until it has used it.
LEMMA InformedSame ==
  ASSUME Hyp, NEW h \in Handlers, Same(h) PROVE Informed(h)'
<1>0. TypeOK /\ Informed(h) /\ LocalOK(h) /\ Home[h] \in Replicas /\ Lease \in Nat \ {0}
  BY ProcessAssumption, TimeAssumption
  DEF Hyp, BaseInv, CoherenceInv, LocalsOK
<1>1. CASE Tick
  <2>1. pc'[h] \notin Steps
    BY <1>1, TickIdle DEF Same
  <2> QED
    BY <2>1 DEF Informed, Steps
<1>2. CASE UNCHANGED clock
  <2>1. pc'[h] \in Steps => now'[h] = clock'
    BY <1>0, <1>2 DEF Same, Informed
  <2>2. pc'[h] = "rememberHit" => CacheLive(Home[h], ip[h], clock)'
    <3> SUFFICES ASSUME pc[h] = "rememberHit" PROVE CacheLive(Home[h], ip[h], clock)'
      BY DEF Same
    <3>1. CacheLive(Home[h], ip[h], clock) /\ ip[h] \in Addrs /\ pc[h] \in Steps
      BY <1>0 DEF Informed, LocalOK, AddrSteps, Steps
    <3>2. ~ Crash(Home[h])
      BY <3>1 DEF Crash, Same, Steps
    <3>3. /\ byIP'[Home[h]][ip[h]] = byIP[Home[h]][ip[h]]
          /\ expires'[Home[h]][ip[h]] = expires[Home[h]][ip[h]]
      BY <1>0, <1>2, <3>1, <3>2, EntriesKept
    <3> QED
      BY <1>2, <3>1, <3>3 DEF CacheLive, Same
  <2>3. pc'[h] \in {"rememberRow", "renewForced"} =>
          row'[key'[h]] = ip'[h] /\ exp'[key'[h]] > clock'
    BY <1>0, <1>2, RowsKept DEF Same, Informed, LocalOK, KeySteps
  <2>4. pc'[h] \in {"delete", "insert", "reselect0", "reselect1"} =>
          exp'[key'[h]] <= clock' \/ exp'[key'[h]] >= clock' + Lease
    BY <1>0, <1>2, RowsFresh DEF Same, Informed, LocalOK, KeySteps, Steps
  <2>5. pc'[h] \in {"rememberNew", "stamp"} =>
          row'[key'[h]] = ip'[h] /\ exp'[key'[h]] >= clock' + Lease
    <3> SUFFICES ASSUME pc[h] \in {"rememberNew", "stamp"}
                 PROVE  row'[key[h]] = ip[h] /\ exp'[key[h]] >= clock + Lease
      BY <1>2 DEF Same
    <3>1. /\ key[h] \in Keys /\ row[key[h]] = ip[h]
          /\ exp[key[h]] >= clock + Lease /\ exp[key[h]] > clock
      BY <1>0 DEF Informed, LocalOK, KeySteps, TypeOK
    <3>2. row'[key[h]] = row[key[h]] /\ exp'[key[h]] \in {exp[key[h]], clock + Lease}
      BY <1>2, <3>1, RowsKept
    <3> QED
      BY <1>0, <3>1, <3>2 DEF TypeOK
  <2> QED
    BY <2>1, <2>2, <2>3, <2>4, <2>5 DEF Informed
<1> QED
  BY <1>1, <1>2, ClockSteps DEF Hyp

\* Every step of a request learns what its next step relies on.
LEMMA InformedStep ==
  ASSUME Hyp, NEW h \in Handlers, Step(h) PROVE Informed(h)'
<1>0. /\ TypeOK /\ TableOK /\ Informed(h) /\ LocalOK(h) /\ pc[h] \in Steps
      /\ now[h] = clock /\ Lease \in Nat \ {0}
  BY TimeAssumption, StepsOnly
  DEF Hyp, BaseInv, CoherenceInv, LocalsOK, Informed
<1>1. UNCHANGED clock
  BY <1>0, TickIdle, ClockSteps DEF Hyp
<1>2. ASSUME NEW from, NEW found, NEW absent, SelectByKey(h, from, found, absent),
             <<found, absent>> \in {<<"rememberRow", "allocate.key">>,
                                    <<"rememberRow", "delete">>},
             key[h] \in Keys
      PROVE  Informed(h)'
  <2>1. CASE RowLive(key[h], now[h])
    <3>1. /\ pc'[h] = "rememberRow" /\ ip'[h] = row[key[h]] /\ key'[h] = key[h]
          /\ now'[h] = now[h] /\ UNCHANGED table
      BY <1>0, <1>2, <2>1 DEF SelectByKey, Goto, TypeOK
    <3> QED
      BY <1>0, <1>1, <2>1, <3>1 DEF RowLive, Informed, table
  <2>2. CASE ~ RowLive(key[h], now[h])
    <3>1. /\ pc'[h] \in {"allocate.key", "delete"} /\ key'[h] = key[h]
          /\ now'[h] = now[h] /\ UNCHANGED table
      BY <1>0, <1>2, <2>2 DEF SelectByKey, Goto, TypeOK
    <3>2. exp[key[h]] <= clock
      BY <1>0, <1>2, <2>2 DEF RowLive, TableOK, TypeOK
    <3> QED
      BY <1>0, <1>1, <3>1, <3>2 DEF Informed, table
  <2> QED
    BY <2>1, <2>2
<1>3. ASSUME NEW from, NEW to, Remember(h, from, to),
             <<from, to>> \in {<<"rememberHit", "renew">>,
                               <<"rememberRow", "renewForced">>,
                               <<"rememberNew", "stamp">>}
      PROVE  Informed(h)'
  <2>1. /\ pc[h] = from /\ pc'[h] = to /\ UNCHANGED <<table, locals>>
    BY <1>0, <1>3 DEF Remember, Goto, TypeOK
  <2> QED
    BY <1>0, <1>1, <1>3, <2>1 DEF Informed, table, locals
<1>4. ASSUME NEW from, NEW hit, LookupLiveHit(h, from, hit),
             hit \in {"renew", "rememberHit"}
      PROVE  Informed(h)'
  <2>1. /\ pc'[h] = hit /\ now'[h] = now[h] /\ ip'[h] = ip[h] /\ UNCHANGED cache
        /\ CacheLive(Home[h], ip[h], clock)
    BY <1>0, <1>4 DEF LookupLiveHit, Goto, TypeOK
  <2> QED
    BY <1>0, <1>1, <1>4, <2>1 DEF Informed, CacheLive, cache
<1>5. ASSUME NEW l \in {"lookupKey.live", "lookupKey.select", "allocate.live",
                        "allocate.select", "lookup.select", "update",
                        "ok", "notFound", "exhausted"},
             pc'[h] = l, now'[h] = now[h]
      PROVE  Informed(h)'
  BY <1>0, <1>1, <1>5 DEF Informed
<1>6. CASE StoreLookupKey(h)
  <2>1. CASE SelectByKey(h, "lookupKey.select", "rememberRow", "allocate.key")
    BY <1>0, <1>2, <2>1 DEF SelectByKey, LocalOK, KeySteps
  <2>2. CASE LookupLiveHit(h, "lookupKey.live", "renew")
    BY <1>4, <2>2
  <2>3. CASE ~ SelectByKey(h, "lookupKey.select", "rememberRow", "allocate.key")
             /\ ~ LookupLiveHit(h, "lookupKey.live", "renew")
    BY <1>0, <1>5, <1>6, <2>3
    DEF StoreLookupKey, LookupKey, LookupKeyLive, LookupLiveMiss, Goto, locals, TypeOK
  <2> QED
    BY <2>1, <2>2, <2>3
<1>7. CASE StoreLookup(h)
  <2>1. CASE LookupLiveHit(h, "lookup.live", "rememberHit")
    BY <1>4, <2>1
  <2>2. CASE SelectByIP(h)
    <3>1. CASE pc'[h] = "notFound"
      BY <1>0, <1>5, <2>2, <3>1 DEF SelectByIP
    <3>2. CASE pc'[h] # "notFound"
      <4>1. PICK k \in Keys : /\ row[k] = ip[h] /\ RowLive(k, now[h])
                              /\ key' = [key EXCEPT ![h] = k]
                              /\ Goto(h, "rememberRow")
        BY <1>0, <2>2, <3>2 DEF SelectByIP, Goto, TypeOK
      <4>2. /\ pc'[h] = "rememberRow" /\ key'[h] = k /\ ip'[h] = ip[h]
            /\ now'[h] = now[h] /\ UNCHANGED table
        BY <1>0, <2>2, <4>1 DEF SelectByIP, Goto, TypeOK
      <4> QED
        BY <1>0, <1>1, <4>1, <4>2 DEF Informed, RowLive, table
    <3> QED
      BY <3>1, <3>2
  <2>3. CASE LookupLiveMiss(h, "lookup.live", "lookup.select")
    BY <1>0, <1>5, <2>3 DEF LookupLiveMiss, Goto, locals, TypeOK
  <2> QED
    BY <1>7, <2>1, <2>2, <2>3 DEF StoreLookup, LookupLive
<1>8. CASE RememberAndRenew(h)
  <2>1. CASE Renew(h) \/ Update(h)
    BY <1>0, <1>5, <2>1 DEF Renew, Update, Goto, locals, TypeOK
  <2> QED
    BY <1>3, <1>8, <2>1 DEF RememberAndRenew
<1>9. CASE StoreAllocate(h)
  <2>1. CASE SelectByKey(h, "allocate.select", "rememberRow", "delete")
    BY <1>0, <1>2, <2>1 DEF SelectByKey, LocalOK, KeySteps
  <2>2. CASE LookupLiveHit(h, "allocate.live", "rememberHit")
    BY <1>4, <2>2
  <2>3. CASE Remember(h, "rememberNew", "stamp")
    BY <1>3, <2>3
  <2>4. CASE Delete(h) \/ Insert(h)
    <3>1. /\ pc[h] \in {"delete", "insert"} /\ now'[h] = now[h] /\ key'[h] = key[h]
          /\ pc'[h] \in {"exhausted", "insert", "reselect0", "reselect1"}
      BY <1>0, <2>4 DEF Delete, Insert, Goto, locals, TypeOK
    <3>2. key[h] \in Keys /\ (exp[key[h]] <= clock \/ exp[key[h]] >= clock + Lease)
      BY <1>0, <3>1 DEF Informed, LocalOK, KeySteps
    <3>3. exp'[key[h]] <= clock \/ exp'[key[h]] >= clock + Lease
      BY <1>0, <1>1, <3>2, RowsFresh
    <3> QED
      BY <1>0, <1>1, <3>1, <3>3 DEF Informed
  <2>5. CASE Reselect(h)
    <3>1. /\ key[h] \in Keys /\ (exp[key[h]] <= clock \/ exp[key[h]] >= clock + Lease)
          /\ UNCHANGED table
      BY <1>0, <2>5 DEF Reselect, NextAddr, Informed, LocalOK, KeySteps
    <3>2. CASE Fail(h)
      BY <1>0, <3>2 DEF Fail, Goto, Informed, TypeOK, Steps
    <3>3. CASE RowLive(key[h], now[h]) /\ ~ Fail(h)
      <4>1. /\ pc'[h] = "rememberNew" /\ ip'[h] = row[key[h]]
            /\ key'[h] = key[h] /\ now'[h] = now[h]
        BY <1>0, <2>5, <3>3 DEF Reselect, NextAddr, Goto, TypeOK
      <4> QED
        BY <1>0, <1>1, <3>1, <3>3, <4>1 DEF Informed, RowLive, table, TypeOK
    <3>4. CASE ~ RowLive(key[h], now[h]) /\ ~ Fail(h)
      <4>1. /\ pc'[h] \in {"exhausted", "insert"}
            /\ key'[h] = key[h] /\ now'[h] = now[h]
        BY <1>0, <2>5, <3>4 DEF Reselect, NextAddr, Goto, TypeOK
      <4> QED
        BY <1>0, <1>1, <3>1, <4>1 DEF Informed, table
    <3> QED
      BY <3>2, <3>3, <3>4
  <2>6. CASE \/ LookupKey(h, "allocate.key", "allocate.live", "allocate.select")
             \/ LookupLiveMiss(h, "allocate.live", "allocate.select")
             \/ Stamp(h)
    BY <1>0, <1>5, <2>6 DEF LookupKey, LookupLiveMiss, Stamp, Goto, locals, TypeOK
  <2> QED
    BY <1>9, <2>1, <2>2, <2>3, <2>4, <2>5, <2>6 DEF StoreAllocate, LookupKeyLive
<1> QED
  BY <1>6, <1>7, <1>8, <1>9 DEF Step

\* Empty caches are coherent.
LEMMA CoherenceInit == Init => CoherenceInv
<1> SUFFICES ASSUME Init PROVE CoherenceInv
  OBVIOUS
<1>1. ASSUME NEW r \in Replicas, NEW a \in Addrs
      PROVE  Backed(r, a) /\ expires[r][a] <= clock + Lease
  BY TimeAssumption DEF Init, Backed
<1>2. ASSUME NEW h \in Handlers PROVE Informed(h)
  BY DEF Init, Informed, Steps
<1> QED
  BY <1>1, <1>2 DEF CoherenceInv

\* Every step keeps the caches coherent.
LEMMA CoherenceStep == Hyp => CoherenceInv'
<1> SUFFICES ASSUME Hyp PROVE CoherenceInv'
  OBVIOUS
<1>1. BaseInv'
  BY BaseStep DEF Hyp
<1>2. ASSUME NEW h \in Handlers PROVE Informed(h)'
  <2>0. TypeOK /\ Home[h] \in Replicas /\ ~ DBError(h)
    BY ProcessAssumption DEF Hyp, BaseInv, DBError
  <2>1. ASSUME \/ \E k \in Keys : StartAllocate(h, k)
               \/ \E a \in Addrs : StartLookup(h, a)
        PROVE  Informed(h)'
    <3>1. Now(Home[h]) = clock
      BY <2>0 DEF Now, Hyp, Prompt, TypeOK
    <3>2. /\ pc'[h] \in {"lookupKey.key", "lookup.live"} /\ now'[h] = clock
          /\ UNCHANGED clock
      BY <2>0, <2>1, <3>1 DEF StartAllocate, StartLookup, Goto, TypeOK
    <3> QED
      BY <3>2 DEF Informed
  <2>2. CASE Lost(h)
    BY <2>2 DEF Lost, Informed, Steps
  <2> QED
    BY <2>0, <2>1, <2>2, InformedSame, InformedStep, HandlerSteps DEF Hyp
<1> QED
  BY <1>1, <1>2, BackedStep DEF CoherenceInv

\* Both invariants hold throughout when requests are prompt.
LEMMA InvariantsWhenPrompt ==
  ASSUME Prompt, "db" \notin Faults
  PROVE  Spec => [](BaseInv /\ CoherenceInv)
<1>1. BaseInv /\ CoherenceInv /\ [Next]_vars => (BaseInv /\ CoherenceInv)'
  BY BaseStep, CoherenceStep DEF Hyp
<1> QED
  BY <1>1, BaseInit, CoherenceInit, PTL DEF Spec

\* When requests take no time on the scale of leases, clocks agree and
\* statements do not fail, no process serves a mapping from RAM that the registry
\* does not hold and lease: for any number of processes, concurrent requests
\* and crashes.
THEOREM CachesAreCoherent ==
  ASSUME Prompt, "db" \notin Faults
  PROVE  Spec => []Coherent
<1>1. BaseInv /\ CoherenceInv => Coherent
  <2> SUFFICES ASSUME BaseInv, CoherenceInv,
                      NEW r \in Replicas, NEW a \in Addrs, CacheLive(r, a, clock)
               PROVE  row[byIP[r][a]] = a /\ exp[byIP[r][a]] > clock
    BY DEF Coherent
  <2>1. byIP[r][a] # NoKey /\ expires[r][a] > clock
    BY DEF CacheLive, BaseInv, CacheInverse, TypeOK
  <2> QED
    BY <2>1 DEF CoherenceInv, Backed
<1> QED
  BY <1>1, InvariantsWhenPrompt, PTL
=============================================================================
