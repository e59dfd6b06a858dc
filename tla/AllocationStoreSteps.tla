------------------------ MODULE AllocationStoreSteps -------------------------
(* What a step of AllocationStore can change: facts about Next that the   *)
(* invariance proofs share.                                                *)
EXTENDS AllocationStore, TLAPS

\* The ways a step changes the cache of a process.
ForgetStep(h) ==
  /\ pc[h] \in {"lookupKey.live", "allocate.live", "lookup.live"}
  /\ ~CacheLive(Home[h], ip[h], now[h])
  /\ Forget(Home[h], ip[h])
RememberStep(h) ==
  /\ pc[h] \in {"rememberHit", "rememberRow", "rememberNew"}
  /\ RememberUntil(Home[h], key[h], ip[h], now[h] + Lease)
  /\ UNCHANGED <<clock, table, locals>>
  /\ pc[h] = "rememberRow" => Goto(h, "renewForced")

\* A cache changes only when a request forgets or remembers, or its process dies.
LEMMA CacheSteps ==
  [Next]_vars => \/ UNCHANGED cache
                 \/ \E h \in Handlers : ForgetStep(h) \/ RememberStep(h)
                 \/ \E r \in Replicas : Crash(r)
<1> SUFFICES ASSUME [Next]_vars, ~ UNCHANGED cache,
                    ~ \E r \in Replicas : Crash(r)
             PROVE  \E h \in Handlers : ForgetStep(h) \/ RememberStep(h)
  OBVIOUS
<1>1. PICK h \in Handlers : Step(h)
  BY DEF Next, StartAllocate, StartLookup, DBError, Open, Tick, vars, cache
<1>2. CASE \E l, m : LookupLiveMiss(h, l, m)
             /\ l \in {"lookupKey.live", "allocate.live", "lookup.live"}
  BY <1>2 DEF LookupLiveMiss, ForgetStep
<1>3. CASE \/ Remember(h, "rememberHit", "renew")
           \/ Remember(h, "rememberRow", "renewForced")
           \/ Remember(h, "rememberNew", "stamp")
  BY <1>3 DEF Remember, RememberStep
<1>4. StoreLookupKey(h) => LookupLiveMiss(h, "lookupKey.live", "lookupKey.select")
  BY DEF StoreLookupKey, LookupKey, LookupKeyLive, LookupLiveHit, SelectByKey, cache
<1>5. StoreAllocate(h) => \/ LookupLiveMiss(h, "allocate.live", "allocate.select")
                          \/ Remember(h, "rememberNew", "stamp")
  BY DEF StoreAllocate, LookupKey, LookupKeyLive, LookupLiveHit, SelectByKey,
         Delete, Insert, Reselect, NextAddr, Stamp, cache
<1>6. StoreLookup(h) => LookupLiveMiss(h, "lookup.live", "lookup.select")
  BY DEF StoreLookup, LookupLive, LookupLiveHit, SelectByIP, cache
<1>7. RememberAndRenew(h) => \/ Remember(h, "rememberHit", "renew")
                             \/ Remember(h, "rememberRow", "renewForced")
  BY DEF RememberAndRenew, Renew, Update, cache
<1> QED
  BY <1>1, <1>2, <1>3, <1>4, <1>5, <1>6, <1>7 DEF Step

\* The ways a step changes the table.
DeleteStep(h) == pc[h] = "delete" /\ DeleteExpired(now[h])
InsertStep(h) ==
  /\ pc[h] = "insert"
  /\ ~Conflict(key[h], Pool[key[h]][at[h]])
  /\ InsertRow(key[h], Pool[key[h]][at[h]], now[h] + Lease)
UpdateStep(h) == pc[h] = "update" /\ UpdateRow(key[h], now[h] + Lease)

\* The table changes only by one of the statements, or when a process opens it.
LEMMA TableSteps ==
  [Next]_vars => \/ UNCHANGED table
                 \/ \E h \in Handlers :
                      /\ DeleteStep(h) \/ InsertStep(h) \/ UpdateStep(h)
                      /\ UNCHANGED <<clock, up, cache>>
                 \/ \E r \in Replicas : Open(r)
<1> SUFFICES ASSUME [Next]_vars, ~ UNCHANGED table,
                    ~ \E r \in Replicas : Open(r)
             PROVE  \E h \in Handlers :
                      /\ DeleteStep(h) \/ InsertStep(h) \/ UpdateStep(h)
                      /\ UNCHANGED <<clock, up, cache>>
  OBVIOUS
<1>1. PICK h \in Handlers : Step(h) \/ DBError(h)
  BY DEF Next, StartAllocate, StartLookup, Crash, Tick, vars, table
<1>2. DBError(h) => /\ DeleteStep(h) \/ InsertStep(h) \/ UpdateStep(h)
                    /\ UNCHANGED <<clock, up, cache>>
  BY DEF DBError, DeleteStep, InsertStep, UpdateStep
<1>3. ~ StoreLookupKey(h)
  BY DEF StoreLookupKey, LookupKey, LookupKeyLive, LookupLiveHit, LookupLiveMiss,
         SelectByKey, table
<1>4. StoreAllocate(h) => Delete(h) \/ Insert(h)
  BY DEF StoreAllocate, LookupKey, LookupKeyLive, LookupLiveHit, LookupLiveMiss,
         SelectByKey, Reselect, NextAddr, Remember, Stamp, table
<1>5. ~ StoreLookup(h)
  BY DEF StoreLookup, LookupLive, LookupLiveHit, LookupLiveMiss, SelectByIP, table
<1>6. RememberAndRenew(h) => Update(h)
  BY DEF RememberAndRenew, Remember, Renew, table
<1>7. Delete(h) => DeleteStep(h) /\ UNCHANGED <<clock, up, cache>>
  BY DEF Delete, DeleteStep
<1>8. Insert(h) => InsertStep(h) /\ UNCHANGED <<clock, up, cache>>
  BY DEF Insert, InsertStep
<1>9. Update(h) => UpdateStep(h) /\ UNCHANGED <<clock, up, cache>>
  BY DEF Update, UpdateStep
<1> QED
  BY <1>1, <1>2, <1>3, <1>4, <1>5, <1>6, <1>7, <1>8, <1>9 DEF Step

\* The steps of a request start and stop no process and take no time.
LEMMA StepKeeps == ASSUME NEW h \in Handlers, Step(h) PROVE UNCHANGED <<clock, up>>
<1>1. StoreLookupKey(h) => UNCHANGED <<clock, up>>
  BY DEF StoreLookupKey, LookupKey, LookupKeyLive, LookupLiveHit, LookupLiveMiss,
         SelectByKey
<1>2. StoreAllocate(h) => UNCHANGED <<clock, up>>
  BY DEF StoreAllocate, LookupKey, LookupKeyLive, LookupLiveHit, LookupLiveMiss,
         SelectByKey, Delete, Insert, Reselect, Remember, Stamp
<1>3. StoreLookup(h) => UNCHANGED <<clock, up>>
  BY DEF StoreLookup, LookupLive, LookupLiveHit, LookupLiveMiss, SelectByIP
<1>4. RememberAndRenew(h) => UNCHANGED <<clock, up>>
  BY DEF RememberAndRenew, Remember, Renew, Update
<1> QED
  BY <1>1, <1>2, <1>3, <1>4 DEF Step

\* Processes start with Open and stop with Crash.
LEMMA UpSteps ==
  [Next]_vars => \/ UNCHANGED up
                 \/ \E r \in Replicas : Open(r) \/ Crash(r)
BY StepKeeps DEF Next, StartAllocate, StartLookup, DBError, Tick, vars

\* Only Tick moves the clock.
LEMMA ClockSteps == [Next]_vars => UNCHANGED clock \/ Tick
BY StepKeeps DEF Next, StartAllocate, StartLookup, DBError, Open, Crash, vars

\* A step moves one request, and leaves the locals of the others alone.
Same(h) ==
  /\ pc'[h] = pc[h] /\ now'[h] = now[h] /\ key'[h] = key[h]
  /\ ip'[h] = ip[h] /\ at'[h] = at[h]
Lost(h) ==
  /\ pc[h] \in Steps
  /\ pc'[h] = "idle" /\ now'[h] = 0 /\ key'[h] = NoKey
  /\ ip'[h] = NoAddr /\ at'[h] = 0

\* Only a request that is running takes steps.
LEMMA StepsOnly ==
  ASSUME NEW h \in Handlers, Step(h) \/ DBError(h)
  PROVE  pc[h] \in Steps
<1>1. StoreLookupKey(h) => pc[h] \in Steps
  BY DEF StoreLookupKey, LookupKey, LookupKeyLive, LookupLiveHit, LookupLiveMiss,
         SelectByKey, Steps
<1>2. StoreAllocate(h) => pc[h] \in Steps
  BY DEF StoreAllocate, LookupKey, LookupKeyLive, LookupLiveHit, LookupLiveMiss,
         SelectByKey, Delete, Insert, Reselect, NextAddr, Remember, Stamp, Steps
<1>3. StoreLookup(h) => pc[h] \in Steps
  BY DEF StoreLookup, LookupLive, LookupLiveHit, LookupLiveMiss, SelectByIP, Steps
<1>4. RememberAndRenew(h) => pc[h] \in Steps
  BY DEF RememberAndRenew, Remember, Renew, Update, Steps
<1>5. DBError(h) => pc[h] \in Steps
  BY DEF DBError, Steps
<1> QED
  BY <1>1, <1>2, <1>3, <1>4, <1>5 DEF Step

\* A step of one request leaves the locals of the others alone.
LEMMA OthersSame ==
  ASSUME TypeOK, NEW g \in Handlers, NEW h \in Handlers, g # h,
         Step(g) \/ DBError(g)
  PROVE  Same(h)
<1> USE DEF TypeOK, Same, Goto, locals
<1>1. StoreLookupKey(g) => Same(h)
  BY DEF StoreLookupKey, LookupKey, LookupKeyLive, LookupLiveHit, LookupLiveMiss,
         SelectByKey
<1>2. StoreAllocate(g) => Same(h)
  <2>1. Reselect(g) => Same(h)
    BY DEF Reselect, NextAddr, Fail
  <2>2. Delete(g) \/ Insert(g) \/ Stamp(g) \/ Remember(g, "rememberNew", "stamp")
          => Same(h)
    BY DEF Delete, Insert, Stamp, Remember
  <2> QED
    BY <2>1, <2>2 DEF StoreAllocate, LookupKey, LookupKeyLive, LookupLiveHit,
         LookupLiveMiss, SelectByKey
<1>3. StoreLookup(g) => Same(h)
  BY DEF StoreLookup, LookupLive, LookupLiveHit, LookupLiveMiss, SelectByIP
<1>4. RememberAndRenew(g) => Same(h)
  BY DEF RememberAndRenew, Remember, Renew, Update
<1>5. DBError(g) => Same(h)
  BY DEF DBError, Fail
<1> QED
  BY <1>1, <1>2, <1>3, <1>4, <1>5 DEF Step

\* What a step of the system does to a request that did not take it.
LEMMA HandlerSteps ==
  ASSUME TypeOK, [Next]_vars, NEW h \in Handlers
  PROVE  \/ Same(h)
         \/ \E k \in Keys : StartAllocate(h, k)
         \/ \E a \in Addrs : StartLookup(h, a)
         \/ Step(h)
         \/ DBError(h)
         \/ \E r \in Replicas : Crash(r) /\ Lost(h)
<1>1. ASSUME NEW g \in Handlers, g # h,
             \/ \E k \in Keys : StartAllocate(g, k)
             \/ \E a \in Addrs : StartLookup(g, a)
      PROVE  Same(h)
  BY <1>1 DEF TypeOK, Same, StartAllocate, StartLookup, Goto
<1>2. ASSUME NEW r \in Replicas, Crash(r) PROVE Same(h) \/ Lost(h)
  BY <1>2 DEF Same, Lost, Crash
<1>3. UNCHANGED vars \/ Tick \/ (\E r \in Replicas : Open(r)) => Same(h)
  BY DEF Same, Tick, Open, vars, locals
<1> QED
  BY <1>1, <1>2, <1>3, OthersSame DEF Next
=============================================================================
