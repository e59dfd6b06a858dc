------------------------- MODULE AllocationStoreRows -------------------------
(* Coherence, when requests are prompt and statements do not fail: leased *)
(* rows and live cache entries last, and entries stay backed by rows.      *)
EXTENDS AllocationStoreProofs

\* h is about to write its renewal of k.
Renewing(r, k) ==
  \E h \in Handlers :
    Home[h] = r /\ key[h] = k /\ pc[h] \in {"renewForced", "update"}

\* A live cache entry is backed by a row that outlives it, or will once a
\* forced renewal has been written.
Backed(r, a) ==
  LET k == byIP[r][a] IN
    k # NoKey /\ expires[r][a] > clock =>
      /\ row[k] = a /\ exp[k] > clock
      /\ exp[k] >= expires[r][a] \/ Renewing(r, k)

\* What a request has learnt from the registry is still so.
Informed(h) ==
  /\ pc[h] \in Steps => now[h] = clock
  /\ pc[h] = "rememberHit" => CacheLive(Home[h], ip[h], clock)
  /\ pc[h] \in {"rememberRow", "renewForced"} =>
       row[key[h]] = ip[h] /\ exp[key[h]] > clock
  /\ pc[h] \in {"delete", "insert", "reselect0", "reselect1"} =>
       exp[key[h]] <= clock \/ exp[key[h]] >= clock + Lease
  /\ pc[h] \in {"rememberNew", "stamp"} =>
       row[key[h]] = ip[h] /\ exp[key[h]] >= clock + Lease

CoherenceInv ==
  /\ \A r \in Replicas, a \in Addrs :
       Backed(r, a) /\ expires[r][a] <= clock + Lease
  /\ \A h \in Handlers : Informed(h)

\* What the inductive steps below start from.
Hyp ==
  /\ Prompt /\ "db" \notin Faults
  /\ BaseInv /\ CoherenceInv /\ [Next]_vars

\* Time passes only between requests.
LEMMA TickIdle == Hyp /\ Tick => \A h \in Handlers : pc[h] \notin Steps
<1> SUFFICES ASSUME Hyp, Tick, NEW h \in Handlers, pc[h] \in Steps PROVE FALSE
  OBVIOUS
<1>1. now[h] = clock /\ Skew[Home[h]] = 0 /\ MaxDelay = 0 /\ clock \in Nat
  BY ProcessAssumption
  DEF Hyp, CoherenceInv, Informed, Prompt, BaseInv, TypeOK
<1> QED
  BY <1>1 DEF Tick, Now

\* A leased row survives every step within the tick; it can only be renewed.
LEMMA RowsKept ==
  ASSUME Hyp, UNCHANGED clock, NEW k \in Keys, exp[k] > clock
  PROVE  row'[k] = row[k] /\ exp'[k] \in {exp[k], clock + Lease} /\ exp'[k] > clock
<1>0. TypeOK /\ TableOK /\ row[k] # NoAddr
  BY DEF Hyp, BaseInv, TableOK, TypeOK
<1>1. CASE UNCHANGED table
  BY <1>1 DEF table
<1>2. ASSUME NEW h \in Handlers, DeleteStep(h) PROVE row'[k] = row[k] /\ exp'[k] = exp[k]
  <2>1. now[h] = clock
    BY <1>2 DEF DeleteStep, Hyp, CoherenceInv, Informed, Steps
  <2> QED
    BY <1>0, <1>2, <2>1 DEF DeleteStep, DeleteExpired, TypeOK
<1>3. ASSUME NEW h \in Handlers, InsertStep(h) PROVE row'[k] = row[k] /\ exp'[k] = exp[k]
  BY <1>0, <1>3 DEF InsertStep, InsertRow, Conflict, TypeOK
<1>4. ASSUME NEW h \in Handlers, UpdateStep(h)
      PROVE  row'[k] = row[k] /\ exp'[k] \in {exp[k], clock + Lease}
  <2>1. now[h] = clock
    BY <1>4 DEF UpdateStep, Hyp, CoherenceInv, Informed, Steps
  <2> QED
    BY <1>0, <1>4, <2>1 DEF UpdateStep, UpdateRow, TypeOK
<1>5. ASSUME NEW r \in Replicas, Open(r) PROVE row'[k] = row[k] /\ exp'[k] = exp[k]
  BY <1>0, <1>5 DEF Open, TypeOK
<1>6. clock + Lease > clock
  BY <1>0, TimeAssumption DEF TypeOK
<1> QED
  BY <1>1, <1>2, <1>3, <1>4, <1>5, <1>6, TableSteps DEF Hyp

\* While a request runs, a row is either expired or untouched, or has a whole
\* lease ahead of it from this tick.
LEMMA RowsFresh ==
  ASSUME Hyp, UNCHANGED clock, NEW k \in Keys,
         NEW h \in Handlers, pc[h] \in Steps,
         exp[k] <= clock \/ exp[k] >= clock + Lease
  PROVE  exp'[k] <= clock \/ exp'[k] >= clock + Lease
<1>0. TypeOK /\ TableOK /\ up[Home[h]] /\ Home[h] \in Replicas /\ 0 <= clock
  BY ProcessAssumption DEF Hyp, BaseInv, RunningOK, TypeOK
<1>1. CASE UNCHANGED table
  BY <1>1 DEF table
<1>2. ASSUME NEW g \in Handlers, DeleteStep(g)
      PROVE  exp'[k] <= clock \/ exp'[k] >= clock + Lease
  BY <1>0, <1>2 DEF DeleteStep, DeleteExpired, TypeOK
<1>3. ASSUME NEW g \in Handlers, InsertStep(g)
      PROVE  exp'[k] <= clock \/ exp'[k] >= clock + Lease
  <2>1. now[g] = clock
    BY <1>3 DEF InsertStep, Hyp, CoherenceInv, Informed, Steps
  <2> QED
    BY <1>0, <1>3, <2>1, TimeAssumption DEF InsertStep, InsertRow, TypeOK
<1>4. ASSUME NEW g \in Handlers, UpdateStep(g)
      PROVE  exp'[k] <= clock \/ exp'[k] >= clock + Lease
  <2>1. now[g] = clock
    BY <1>4 DEF UpdateStep, Hyp, CoherenceInv, Informed, Steps
  <2> QED
    BY <1>0, <1>4, <2>1, TimeAssumption DEF UpdateStep, UpdateRow, TypeOK
<1>5. ASSUME NEW r \in Replicas, Open(r) PROVE exp'[k] = exp[k]
  BY <1>0, <1>5 DEF Open, TableOK, TypeOK
<1> QED
  BY <1>1, <1>2, <1>3, <1>4, <1>5, TableSteps DEF Hyp

\* A live cache entry survives every step within the tick but a crash.
LEMMA EntriesKept ==
  ASSUME Hyp, UNCHANGED clock, NEW r \in Replicas, NEW a \in Addrs,
         CacheLive(r, a, clock), ~ Crash(r)
  PROVE  byIP'[r][a] = byIP[r][a] /\ expires'[r][a] = expires[r][a]
<1>0. TypeOK /\ (\A h \in Handlers : Home[h] \in Replicas)
  BY ProcessAssumption DEF Hyp, BaseInv
<1>1. CASE UNCHANGED cache
  BY <1>1 DEF cache
<1>2. ASSUME NEW h \in Handlers, ForgetStep(h)
      PROVE  byIP'[r][a] = byIP[r][a] /\ expires'[r][a] = expires[r][a]
  <2>1. now[h] = clock /\ ip[h] \in Addrs
    BY <1>2 DEF ForgetStep, Hyp, CoherenceInv, Informed, Steps, BaseInv, LocalsOK,
                LocalOK, AddrSteps
  <2>2. ~ (Home[h] = r /\ ip[h] = a)
    BY <1>2, <2>1 DEF ForgetStep
  <2> QED
    BY <1>0, <1>2, <2>1, <2>2 DEF ForgetStep, Forget, TypeOK
<1>3. ASSUME NEW h \in Handlers, RememberStep(h)
      PROVE  byIP'[r][a] = byIP[r][a] /\ expires'[r][a] = expires[r][a]
  <2>1. CASE /\ byIP[Home[h]][ip[h]] = NoKey
             /\ byIP' = [byIP EXCEPT ![Home[h]][ip[h]] = key[h]]
             /\ expires' = [expires EXCEPT ![Home[h]][ip[h]] = now[h] + Lease]
    <3>1. ~ (Home[h] = r /\ ip[h] = a)
      BY <2>1 DEF CacheLive
    <3> QED
      BY <1>0, <2>1, <3>1 DEF TypeOK
  <2> QED
    BY <1>1, <1>3, <2>1 DEF RememberStep, RememberUntil
<1>4. ASSUME NEW s \in Replicas, Crash(s)
      PROVE  byIP'[r][a] = byIP[r][a] /\ expires'[r][a] = expires[r][a]
  BY <1>0, <1>4 DEF Crash, TypeOK
<1> QED
  BY <1>1, <1>2, <1>3, <1>4, CacheSteps DEF Hyp

\* Cache entries stay backed by the registry.
LEMMA BackedStep ==
  ASSUME Hyp, BaseInv', NEW r \in Replicas, NEW a \in Addrs
  PROVE  Backed(r, a)' /\ (expires[r][a] <= clock + Lease)'
<1> DEFINE k == byIP'[r][a]
<1>0. /\ TypeOK /\ TypeOK' /\ CacheInverse /\ CacheInverse'
      /\ clock \in Nat /\ Lease \in Nat \ {0}
      /\ Backed(r, a) /\ expires[r][a] <= clock + Lease
      /\ \A h \in Handlers : Home[h] \in Replicas
  BY TimeAssumption, ProcessAssumption DEF Hyp, BaseInv, CoherenceInv, TypeOK
<1>1. CASE Tick
  <2>1. UNCHANGED <<table, cache>> /\ clock' = clock + 1
    BY <1>1 DEF Tick
  <2>2. ~ Renewing(r, byIP[r][a])
    BY <1>1, TickIdle DEF Renewing, Steps, Hyp
  <2> QED
    BY <1>0, <2>1, <2>2 DEF Backed, table, cache, TypeOK
<1>2. CASE UNCHANGED clock /\ k = byIP[r][a] /\ expires'[r][a] = expires[r][a]
  <2>1. (expires[r][a] <= clock + Lease)'
    BY <1>0, <1>2
  <2>2. ASSUME k # NoKey, expires'[r][a] > clock PROVE Backed(r, a)'
    <3>1. /\ k \in Keys /\ row[k] = a /\ exp[k] > clock
          /\ exp[k] >= expires[r][a] \/ Renewing(r, k)
      BY <1>0, <1>2, <2>2 DEF Backed, TypeOK
    <3>2. row'[k] = a /\ exp'[k] \in {exp[k], clock + Lease} /\ exp'[k] > clock
      BY <1>2, <3>1, RowsKept
    <3>3. CASE exp[k] >= expires[r][a]
      BY <1>0, <1>2, <3>2, <3>3 DEF Backed, TypeOK
    <3>4. CASE Renewing(r, k)
      <4>1. PICK h \in Handlers : /\ Home[h] = r /\ key[h] = k
                                  /\ pc[h] \in {"renewForced", "update"}
        BY <3>4 DEF Renewing
      <4>2. CASE Same(h)
        BY <1>2, <3>2, <4>1, <4>2 DEF Backed, Renewing, Same
      <4>3. CASE Renew(h)
        <5>1. pc'[h] = "update" /\ key'[h] = k
          BY <1>0, <1>2, <4>1, <4>3, <2>2 DEF Renew, Goto, locals, TypeOK
        <5> QED
          BY <1>2, <3>2, <4>1, <5>1 DEF Backed, Renewing
      <4>4. CASE Update(h)
        <5>1. now[h] = clock /\ row[k] # NoAddr
          BY <3>1, <4>4, NoneAssumption DEF Update, Hyp, CoherenceInv, Informed, Steps
        <5>2. exp'[k] = clock + Lease
          BY <1>0, <3>1, <4>1, <4>4, <5>1 DEF Update, UpdateRow, TypeOK
        <5> QED
          BY <1>0, <1>2, <3>2, <5>2 DEF Backed, TypeOK
      <4>5. CASE ~ Same(h) /\ ~ Renew(h) /\ ~ Update(h)
        <5>1. ~ Step(h)
          BY <4>1, <4>5 DEF Step, StoreLookupKey, StoreAllocate, StoreLookup,
             RememberAndRenew, LookupKey, LookupKeyLive, LookupLive, LookupLiveHit,
             LookupLiveMiss, SelectByKey, SelectByIP, Delete, Insert, Reselect, NextAddr,
             Remember, Stamp
        <5>2. ~ DBError(h)
          BY DEF Hyp, DBError
        <5>3. PICK s \in Replicas : Crash(s) /\ Lost(h)
          BY <1>0, <4>1, <4>5, <5>1, <5>2, HandlerSteps
          DEF StartAllocate, StartLookup, Returned, Hyp
        <5>4. s = r
          BY <4>1, <5>3, NoneAssumption DEF Crash, Lost, Steps
        <5> QED
          BY <1>0, <2>2, <5>3, <5>4 DEF Crash, TypeOK
      <4> QED
        BY <4>2, <4>3, <4>4, <4>5
    <3> QED
      BY <3>1, <3>3, <3>4
  <2> QED
    BY <1>2, <2>1, <2>2 DEF Backed
<1>3. ASSUME NEW h \in Handlers, UNCHANGED clock, ForgetStep(h)
      PROVE  Backed(r, a)' /\ (expires[r][a] <= clock + Lease)'
  <2>1. ip[h] \in Addrs
    BY <1>3 DEF ForgetStep, Hyp, BaseInv, LocalsOK, LocalOK, AddrSteps
  <2>2. \/ k = byIP[r][a] /\ expires'[r][a] = expires[r][a]
        \/ k = NoKey /\ expires'[r][a] = 0
    BY <1>0, <1>3, <2>1 DEF ForgetStep, Forget, TypeOK
  <2> QED
    BY <1>0, <1>2, <1>3, <2>2 DEF Backed, TypeOK
<1>4. ASSUME NEW h \in Handlers, RememberStep(h)
      PROVE  Backed(r, a)' /\ (expires[r][a] <= clock + Lease)'
  <2>1. /\ key[h] \in Keys /\ ip[h] \in Addrs /\ now[h] = clock
        /\ UNCHANGED <<clock, table, locals>> /\ Informed(h)
    BY <1>4 DEF RememberStep, Hyp, BaseInv, LocalsOK, LocalOK, AddrSteps, KeySteps,
                CoherenceInv, Informed, Steps
  <2>2. CASE k = byIP[r][a] /\ expires'[r][a] = expires[r][a]
    BY <1>2, <2>1, <2>2
  <2>3. CASE ~ (k = byIP[r][a] /\ expires'[r][a] = expires[r][a])
    <3>1. /\ byIP[Home[h]][ip[h]] = NoKey
          /\ byIP' = [byIP EXCEPT ![Home[h]][ip[h]] = key[h]]
          /\ expires' = [expires EXCEPT ![Home[h]][ip[h]] = now[h] + Lease]
      BY <1>4, <2>3 DEF RememberStep, RememberUntil, cache
    <3>2. /\ Home[h] = r /\ ip[h] = a /\ k = key[h]
          /\ expires'[r][a] = clock + Lease
      BY <1>0, <2>1, <2>3, <3>1 DEF TypeOK
    <3>3. pc[h] # "rememberHit"
      BY <2>1, <3>1 DEF Informed, CacheLive
    <3>4. CASE pc[h] = "rememberRow"
      <4>1. /\ row[key[h]] = ip[h] /\ exp[key[h]] > clock
            /\ pc'[h] = "renewForced" /\ key'[h] = k
        BY <1>0, <1>4, <2>1, <3>2, <3>4 DEF Informed, RememberStep, Goto, TypeOK, locals
      <4>2. Home[h] = r /\ key'[h] = byIP'[r][a] /\ pc'[h] = "renewForced"
        BY <3>2, <4>1
      <4>3. row'[k] = a /\ exp'[k] > clock'
        BY <2>1, <3>2, <4>1 DEF table
      <4>4. expires'[r][a] <= clock' + Lease
        BY <1>0, <2>1, <3>2
      <4> QED
        BY <4>2, <4>3, <4>4 DEF Backed, Renewing
    <3>5. CASE pc[h] = "rememberNew"
      <4>1. row[key[h]] = ip[h] /\ exp[key[h]] >= clock + Lease
        BY <2>1, <3>5 DEF Informed
      <4> QED
        BY <1>0, <2>1, <3>2, <4>1 DEF Backed, table, TypeOK
    <3> QED
      BY <1>4, <3>3, <3>4, <3>5 DEF RememberStep
  <2> QED
    BY <2>2, <2>3
<1>5. ASSUME NEW s \in Replicas, UNCHANGED clock, Crash(s)
      PROVE  Backed(r, a)' /\ (expires[r][a] <= clock + Lease)'
  <2>1. \/ k = byIP[r][a] /\ expires'[r][a] = expires[r][a]
        \/ k = NoKey /\ expires'[r][a] = 0
    BY <1>0, <1>5 DEF Crash, TypeOK
  <2> QED
    BY <1>0, <1>2, <1>5, <2>1 DEF Backed, TypeOK
<1>6. CASE UNCHANGED cache /\ UNCHANGED clock
  BY <1>2, <1>6 DEF cache
<1> QED
  BY <1>1, <1>3, <1>4, <1>5, <1>6, CacheSteps, ClockSteps DEF Hyp
=============================================================================
