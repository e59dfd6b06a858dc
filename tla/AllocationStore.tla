--------------------------- MODULE AllocationStore ---------------------------
(***************************************************************************)
(* The SQL allocation registry and the DNS processes that share it         *)
(* (internal/domain/state.go, with the cache of internal/domain/domain.go).*)
(*                                                                         *)
(* A registry row binds a key (gateway, domain) to a synthetic address     *)
(* until expires_at.  Every DNS process (a replica) caches rows in RAM and *)
(* serves concurrent requests; each request is a goroutine (a handler)     *)
(* that reads the clock once, when it starts, and then takes the mutexes   *)
(* and sends the SQL statements one after the other.  One action is one    *)
(* critical section or one autocommitted statement.                        *)
(*                                                                         *)
(* Allocator.next is left out: RememberUntil maintains it, but only        *)
(* Allocator.Allocate reads it and no process with a store calls that.     *)
(***************************************************************************)
EXTENDS Naturals, Sequences

CONSTANTS
  Keys,         \* (gateway, domain) pairs
  Addrs,        \* synthetic addresses
  NoKey, NoAddr,
  Pool,         \* Pool[k]: the addresses of k's prefixes, in scan order
  Legacy,       \* rows of the table before its expires_at migration
  Replicas,     \* DNS processes
  Handlers,     \* request goroutines
  Home,         \* Home[h]: the replica that runs h
  Skew,         \* Skew[r]: how far r's clock is ahead
  Lease, Debounce,   \* configured lease, renewalDebounce
  DefaultLease,      \* the lease the migration gives to legacy rows
  MaxDelay,     \* longest time a request takes, in ticks
  Faults,       \* which of "db" and "crash" happen
  MaxClock      \* bound on the clock

ASSUME NoneAssumption == NoKey \notin Keys /\ NoAddr \notin Addrs
ASSUME PoolAssumption == Pool \in [Keys -> Seq(Addrs)]
ASSUME LegacyAssumption ==
  /\ Legacy \in [Keys -> Addrs \cup {NoAddr}]
  /\ \A j, k \in Keys : Legacy[j] = Legacy[k] /\ Legacy[k] # NoAddr => j = k
ASSUME ProcessAssumption ==
  Home \in [Handlers -> Replicas] /\ Skew \in [Replicas -> Nat]
ASSUME TimeAssumption ==
  /\ Lease \in Nat \ {0} /\ DefaultLease \in Nat \ {0}
  /\ Debounce \in Nat /\ MaxDelay \in Nat /\ MaxClock \in Nat
ASSUME FaultsAssumption == Faults \subseteq {"db", "crash"}

VARIABLES
  clock,        \* real time
  row, exp,     \* the table: row[k] is k's ip, exp[k] its expires_at, 0 for NULL
  up,           \* up[r]: process r has opened the store
  byKey, byIP, expires,  \* r's Allocator
  lastRenewed,  \* r's SQLStore.lastRenewed, 0 for the zero time
  pc,           \* where each handler is
  now, key, ip, \* its local variables
  at            \* its position in Pool[key]

table   == <<row, exp>>
cache   == <<byKey, byIP, expires>>
locals  == <<now, key, ip, at>>
vars    == <<clock, table, up, cache, lastRenewed, pc, locals>>

\* A handler that has returned: the pc is the outcome, key and ip the answer.
Returned == {"idle", "ok", "notFound", "error", "exhausted"}

Steps ==
  {"lookupKey.key", "lookupKey.live", "lookupKey.select",
   "allocate.key", "allocate.live", "allocate.select",
   "delete", "insert", "reselect0", "reselect1",
   "lookup.live", "lookup.select",
   "rememberHit", "rememberRow", "rememberNew",
   "renew", "renewForced", "update", "stamp"}

\* The types of the table, the caches and the requests' locals.
TypeOK ==
  /\ clock \in Nat
  /\ row \in [Keys -> Addrs \cup {NoAddr}]
  /\ exp \in [Keys -> Nat]
  /\ up \in [Replicas -> BOOLEAN]
  /\ byKey \in [Replicas -> [Keys -> Addrs \cup {NoAddr}]]
  /\ byIP \in [Replicas -> [Addrs -> Keys \cup {NoKey}]]
  /\ expires \in [Replicas -> [Addrs -> Nat]]
  /\ lastRenewed \in [Replicas -> [Keys -> Nat]]
  /\ pc \in [Handlers -> Returned \cup Steps]
  /\ now \in [Handlers -> Nat]
  /\ key \in [Handlers -> Keys \cup {NoKey}]
  /\ ip \in [Handlers -> Addrs \cup {NoAddr}]
  /\ at \in [Handlers -> Nat]

Init ==
  /\ clock = 1
  /\ row = Legacy
  /\ exp = [k \in Keys |-> 0]
  /\ up = [r \in Replicas |-> FALSE]
  /\ byKey = [r \in Replicas |-> [k \in Keys |-> NoAddr]]
  /\ byIP = [r \in Replicas |-> [a \in Addrs |-> NoKey]]
  /\ expires = [r \in Replicas |-> [a \in Addrs |-> 0]]
  /\ lastRenewed = [r \in Replicas |-> [k \in Keys |-> 0]]
  /\ pc = [h \in Handlers |-> "idle"]
  /\ now = [h \in Handlers |-> 0]
  /\ key = [h \in Handlers |-> NoKey]
  /\ ip = [h \in Handlers |-> NoAddr]
  /\ at = [h \in Handlers |-> 0]
-----------------------------------------------------------------------------
Now(r) == clock + Skew[r]

RowLive(k, n) == row[k] # NoAddr /\ exp[k] > n

\* Allocator.LookupLive's test: a zero expiry never passes.
CacheLive(r, a, n) ==
  /\ byIP[r][a] # NoKey
  /\ expires[r][a] = 0 \/ n < expires[r][a]

Goto(h, l) == pc' = [pc EXCEPT ![h] = l]

\* A request that fails returns no answer; its locals go with it.
Fail(h) ==
  /\ Goto(h, "error")
  /\ now' = [now EXCEPT ![h] = 0]
  /\ key' = [key EXCEPT ![h] = NoKey]
  /\ ip' = [ip EXCEPT ![h] = NoAddr]
  /\ at' = [at EXCEPT ![h] = 0]
-----------------------------------------------------------------------------
\* AllocationLifecycle.Allocate and Lookup read the clock once and pass it on.

StartAllocate(h, k) ==
  /\ pc[h] \in Returned /\ up[Home[h]]
  /\ Goto(h, "lookupKey.key")
  /\ now' = [now EXCEPT ![h] = Now(Home[h])]
  /\ key' = [key EXCEPT ![h] = k]
  /\ ip' = [ip EXCEPT ![h] = NoAddr]
  /\ at' = [at EXCEPT ![h] = 0]
  /\ UNCHANGED <<clock, table, up, cache, lastRenewed>>

StartLookup(h, a) ==
  /\ pc[h] \in Returned /\ up[Home[h]]
  /\ Goto(h, "lookup.live")
  /\ now' = [now EXCEPT ![h] = Now(Home[h])]
  /\ key' = [key EXCEPT ![h] = NoKey]
  /\ ip' = [ip EXCEPT ![h] = a]
  /\ at' = [at EXCEPT ![h] = 0]
  /\ UNCHANGED <<clock, table, up, cache, lastRenewed>>
-----------------------------------------------------------------------------
(* The cache.  Each operator is one critical section of Allocator.mu.      *)

\* First half of LookupKeyLive; it gives the lock up before the second half.
LookupKey(h, from, found, absent) ==
  /\ pc[h] = from
  /\ LET a == byKey[Home[h]][key[h]] IN
       /\ ip' = [ip EXCEPT ![h] = a]
       /\ \/ a # NoAddr /\ Goto(h, found)
          \/ a = NoAddr /\ Goto(h, absent)
  /\ UNCHANGED <<clock, table, up, cache, lastRenewed, now, key, at>>

\* Deleting what is absent changes nothing, so no case on it is needed.
Forget(r, a) ==
  /\ byKey' = [byKey EXCEPT ![r] =
                 [k \in Keys |-> IF k = byIP[r][a] THEN NoAddr ELSE byKey[r][k]]]
  /\ byIP' = [byIP EXCEPT ![r][a] = NoKey]
  /\ expires' = [expires EXCEPT ![r][a] = 0]

LookupLiveHit(h, from, hit) ==
  /\ pc[h] = from
  /\ CacheLive(Home[h], ip[h], now[h])
  /\ Goto(h, hit)
  /\ UNCHANGED <<clock, table, up, cache, lastRenewed, now, ip, at>>

LookupLiveMiss(h, from, miss) ==
  /\ pc[h] = from
  /\ ~CacheLive(Home[h], ip[h], now[h])
  /\ Forget(Home[h], ip[h])
  /\ Goto(h, miss)
  /\ UNCHANGED <<clock, table, up, lastRenewed, locals>>

\* Second half of LookupKeyLive: whose mapping LookupLive finds is not compared.
LookupKeyLive(h, from, hit, miss) ==
  \/ LookupLiveHit(h, from, hit) /\ UNCHANGED key
  \/ LookupLiveMiss(h, from, miss)

LookupLive(h) ==
  \/ /\ LookupLiveHit(h, "lookup.live", "rememberHit")
     /\ key' = [key EXCEPT ![h] = byIP[Home[h]][ip[h]]]
  \/ LookupLiveMiss(h, "lookup.live", "lookup.select")

\* Mutant: the address is not tested before it is mapped.
RememberUntilByKey(r, k, a, t) ==
  \/ /\ byKey[r][k] # NoAddr
     /\ UNCHANGED cache
  \/ /\ byKey[r][k] = NoAddr
     /\ byKey' = [byKey EXCEPT ![r][k] = a]
     /\ byIP' = [byIP EXCEPT ![r][a] = k]
     /\ expires' = [expires EXCEPT ![r][a] = t]

RememberUntil(r, k, a, t) ==
  \/ /\ byKey[r][k] # NoAddr \/ byIP[r][a] # NoKey
     /\ UNCHANGED cache
  \/ /\ byKey[r][k] = NoAddr /\ byIP[r][a] = NoKey
     /\ byKey' = [byKey EXCEPT ![r][k] = a]
     /\ byIP' = [byIP EXCEPT ![r][a] = k]
     /\ expires' = [expires EXCEPT ![r][a] = t]

Remember(h, from, to) ==
  /\ pc[h] = from
  /\ RememberUntil(Home[h], key[h], ip[h], now[h] + Lease)
  /\ Goto(h, to)
  /\ UNCHANGED <<clock, table, up, lastRenewed, locals>>
-----------------------------------------------------------------------------
(* The registry.  Each operator is one autocommitted SQL statement.        *)

\* Mutant: the domain is missing from the WHERE clause.
SelectByGateway(h, from, found, absent) ==
  /\ pc[h] = from
  /\ \/ \E k \in Keys :
          /\ RowLive(k, now[h])
          /\ ip' = [ip EXCEPT ![h] = row[k]]
          /\ Goto(h, found)
     \/ /\ \A k \in Keys : ~RowLive(k, now[h])
        /\ ip' = [ip EXCEPT ![h] = NoAddr]
        /\ Goto(h, absent)
  /\ UNCHANGED <<clock, table, up, cache, lastRenewed, now, key, at>>

SelectByKey(h, from, found, absent) ==
  /\ pc[h] = from
  /\ \/ /\ RowLive(key[h], now[h])
        /\ ip' = [ip EXCEPT ![h] = row[key[h]]]
        /\ Goto(h, found)
     \/ /\ ~RowLive(key[h], now[h])
        /\ ip' = [ip EXCEPT ![h] = NoAddr]
        /\ Goto(h, absent)
  /\ UNCHANGED <<clock, table, up, cache, lastRenewed, now, key, at>>

SelectByIP(h) ==
  /\ pc[h] = "lookup.select"
  /\ \/ \E k \in Keys :
          /\ row[k] = ip[h] /\ RowLive(k, now[h])
          /\ key' = [key EXCEPT ![h] = k]
          /\ Goto(h, "rememberRow")
     \/ /\ \A k \in Keys : row[k] = ip[h] => ~RowLive(k, now[h])
        /\ Goto(h, "notFound")
        /\ UNCHANGED key
  /\ UNCHANGED <<clock, table, up, cache, lastRenewed, now, ip, at>>

\* Mutants: rows that expire within the tick go too; no row goes.
DeleteExpiring(n) ==
  /\ row' = [k \in Keys |-> IF exp[k] <= n + 1 THEN NoAddr ELSE row[k]]
  /\ exp' = [k \in Keys |-> IF exp[k] <= n + 1 THEN 0 ELSE exp[k]]
DeleteNothing(n) == UNCHANGED table

\* The table after DELETE ... WHERE expires_at IS NULL OR expires_at <= n.
DeleteExpired(n) ==
  /\ row' = [k \in Keys |-> IF exp[k] <= n THEN NoAddr ELSE row[k]]
  /\ exp' = [k \in Keys |-> IF exp[k] <= n THEN 0 ELSE exp[k]]

Delete(h) ==
  /\ pc[h] = "delete"
  /\ DeleteExpired(now[h])
  /\ Goto(h, IF Len(Pool[key[h]]) = 0 THEN "exhausted" ELSE "insert")
  /\ at' = [at EXCEPT ![h] = 1]
  /\ UNCHANGED <<clock, up, cache, lastRenewed, now, key, ip>>

\* Mutant: the address column is not UNIQUE.
ConflictOnKey(k, a) == row[k] # NoAddr

\* The primary key and the UNIQUE address, expired rows included.
Conflict(k, a) == row[k] # NoAddr \/ \E j \in Keys : row[j] = a

InsertRow(k, a, t) ==
  /\ row' = [row EXCEPT ![k] = a]
  /\ exp' = [exp EXCEPT ![k] = t]

Insert(h) ==
  /\ pc[h] = "insert"
  /\ LET k == key[h]  a == Pool[k][at[h]] IN
       \/ Conflict(k, a) /\ UNCHANGED table /\ Goto(h, "reselect0")
       \/ /\ ~Conflict(k, a)
          /\ InsertRow(k, a, now[h] + Lease)
          /\ Goto(h, "reselect1")
  /\ UNCHANGED <<clock, up, cache, lastRenewed, locals>>

\* Mutant: the scan retries the address that is taken.
SameAddr(h) == UNCHANGED at

NextAddr(h) == at' = [at EXCEPT ![h] = @ + 1]

\* Back to the registry for the row that won; the scan goes on only when no
\* row was inserted and none is live.
Reselect(h) ==
  /\ pc[h] \in {"reselect0", "reselect1"}
  /\ UNCHANGED <<clock, table, up, cache, lastRenewed>>
  /\ \/ /\ RowLive(key[h], now[h])
        /\ ip' = [ip EXCEPT ![h] = row[key[h]]]
        /\ Goto(h, "rememberNew")
        /\ UNCHANGED <<now, key, at>>
     \/ /\ ~RowLive(key[h], now[h]) /\ pc[h] = "reselect0"
        /\ NextAddr(h)
        /\ Goto(h, IF at[h] = Len(Pool[key[h]]) THEN "exhausted" ELSE "insert")
        /\ UNCHANGED <<now, key, ip>>
     \/ /\ ~RowLive(key[h], now[h]) /\ pc[h] = "reselect1"
        /\ Fail(h)
-----------------------------------------------------------------------------
(* SQLStore.renew: one critical section of SQLStore.mu, then one UPDATE.   *)

\* Mutant: the age of the renewal is not compared.
DebouncedOnce(r, k, n) == lastRenewed[r][k] # 0

\* now.Sub(last) < renewalDebounce
Debounced(r, k, n) == lastRenewed[r][k] # 0 /\ n < lastRenewed[r][k] + Debounce

SetLastRenewed(h) ==
  lastRenewed' = [lastRenewed EXCEPT ![Home[h]][key[h]] = now[h]]

Renew(h) ==
  /\ \/ /\ pc[h] = "renew"
        /\ Debounced(Home[h], key[h], now[h])
        /\ Goto(h, "ok")
        /\ UNCHANGED lastRenewed
     \/ /\ pc[h] = "renew" => ~Debounced(Home[h], key[h], now[h])
        /\ pc[h] \in {"renew", "renewForced"}
        /\ SetLastRenewed(h)
        /\ Goto(h, "update")
  /\ UNCHANGED <<clock, table, up, cache, locals>>

\* Mutants: the row gets the time that is left, its operands swapped; the row
\* gets the time of the request.
UpdateRowLeft(k, t) ==
  /\ exp' = [exp EXCEPT ![k] = IF row[k] = NoAddr THEN @ ELSE clock - t]
  /\ UNCHANGED row
UpdateRowNow(k, t) ==
  /\ exp' = [exp EXCEPT ![k] = IF row[k] = NoAddr THEN @ ELSE t - Lease]
  /\ UNCHANGED row

\* UPDATE ... WHERE gateway AND domain: neither the address nor the old expiry
\* is compared, and no row is no error.
UpdateRow(k, t) ==
  /\ exp' = [exp EXCEPT ![k] = IF row[k] = NoAddr THEN @ ELSE t]
  /\ UNCHANGED row

Update(h) ==
  /\ pc[h] = "update"
  /\ UpdateRow(key[h], now[h] + Lease)
  /\ Goto(h, "ok")
  /\ UNCHANGED <<clock, up, cache, lastRenewed, locals>>

\* The end of SQLStore.Allocate: the inserted row counts as a renewal.
Stamp(h) ==
  /\ pc[h] = "stamp"
  /\ SetLastRenewed(h)
  /\ Goto(h, "ok")
  /\ UNCHANGED <<clock, table, up, cache, locals>>
-----------------------------------------------------------------------------
(* SQLStore.LookupKey, SQLStore.Allocate and SQLStore.Lookup.              *)

StoreLookupKey(h) ==
  \/ LookupKey(h, "lookupKey.key", "lookupKey.live", "lookupKey.select")
  \/ LookupKeyLive(h, "lookupKey.live", "renew", "lookupKey.select")
  \/ SelectByKey(h, "lookupKey.select", "rememberRow", "allocate.key")

StoreAllocate(h) ==
  \/ LookupKey(h, "allocate.key", "allocate.live", "allocate.select")
  \/ LookupKeyLive(h, "allocate.live", "rememberHit", "allocate.select")
  \/ SelectByKey(h, "allocate.select", "rememberRow", "delete")
  \/ Delete(h)
  \/ Insert(h)
  \/ Reselect(h)
  \/ Remember(h, "rememberNew", "stamp")
  \/ Stamp(h)

StoreLookup(h) ==
  \/ LookupLive(h)
  \/ SelectByIP(h)

\* How the three of them end: RememberUntil, then renew.
RememberAndRenew(h) ==
  \/ Remember(h, "rememberHit", "renew")
  \/ Remember(h, "rememberRow", "renewForced")
  \/ Renew(h)
  \/ Update(h)

Step(h) ==
  \/ StoreLookupKey(h)
  \/ StoreAllocate(h)
  \/ StoreLookup(h)
  \/ RememberAndRenew(h)
-----------------------------------------------------------------------------
(* The database, the processes and time.                                   *)

\* A statement fails before or after the database applied it.
DBError(h) ==
  /\ "db" \in Faults
  /\ \/ /\ pc[h] \in {"lookupKey.select", "allocate.select", "lookup.select",
                      "delete", "insert", "reselect0", "reselect1", "update"}
        /\ UNCHANGED table
     \/ pc[h] = "delete" /\ DeleteExpired(now[h])
     \/ /\ pc[h] = "insert"
        /\ ~Conflict(key[h], Pool[key[h]][at[h]])
        /\ InsertRow(key[h], Pool[key[h]][at[h]], now[h] + Lease)
     \/ pc[h] = "update" /\ UpdateRow(key[h], now[h] + Lease)
  /\ Fail(h)
  /\ UNCHANGED <<clock, up, cache, lastRenewed>>

\* OpenAllocationStore: rows from before the migration get the default lease.
Open(r) ==
  /\ ~up[r]
  /\ up' = [up EXCEPT ![r] = TRUE]
  /\ exp' = [k \in Keys |-> IF row[k] # NoAddr /\ exp[k] = 0
                              THEN Now(r) + DefaultLease ELSE exp[k]]
  /\ UNCHANGED <<clock, row, cache, lastRenewed, pc, locals>>

\* The process dies with its memory; answers it has sent stay with the clients.
Crash(r) ==
  /\ "crash" \in Faults
  /\ up[r]
  /\ up' = [up EXCEPT ![r] = FALSE]
  /\ byKey' = [byKey EXCEPT ![r] = [k \in Keys |-> NoAddr]]
  /\ byIP' = [byIP EXCEPT ![r] = [a \in Addrs |-> NoKey]]
  /\ expires' = [expires EXCEPT ![r] = [a \in Addrs |-> 0]]
  /\ lastRenewed' = [lastRenewed EXCEPT ![r] = [k \in Keys |-> 0]]
  /\ LET lost == {h \in Handlers : Home[h] = r /\ pc[h] \in Steps} IN
       /\ pc' = [h \in Handlers |-> IF h \in lost THEN "idle" ELSE pc[h]]
       /\ now' = [h \in Handlers |-> IF h \in lost THEN 0 ELSE now[h]]
       /\ key' = [h \in Handlers |-> IF h \in lost THEN NoKey ELSE key[h]]
       /\ ip' = [h \in Handlers |-> IF h \in lost THEN NoAddr ELSE ip[h]]
       /\ at' = [h \in Handlers |-> IF h \in lost THEN 0 ELSE at[h]]
  /\ UNCHANGED <<clock, table>>

\* No request in flight is older than MaxDelay.
Tick ==
  /\ clock < MaxClock
  /\ \A h \in Handlers : pc[h] \in Steps => Now(Home[h]) < now[h] + MaxDelay
  /\ clock' = clock + 1
  /\ UNCHANGED <<table, up, cache, lastRenewed, pc, locals>>

Next ==
  \/ \E h \in Handlers :
       \/ \E k \in Keys : StartAllocate(h, k)
       \/ \E a \in Addrs : StartLookup(h, a)
       \/ Step(h)
       \/ DBError(h)
  \/ \E r \in Replicas : Open(r) \/ Crash(r)
  \/ Tick

Spec == Init /\ [][Next]_vars

\* The Go scheduler runs every goroutine and every statement ends.
FairSpec == Spec /\ \A h \in Handlers : WF_vars(Step(h) \/ DBError(h))
-----------------------------------------------------------------------------
(* Properties.                                                             *)

\* Timing under which the registry alone decides: requests take no time on the
\* scale of leases, and the replicas' clocks agree.
Prompt == MaxDelay = 0 /\ \A r \in Replicas : Skew[r] = 0

\* byKey and byIP of every process stay inverse to each other, and an address
\* has an expiry exactly while it is mapped, although LookupKeyLive releases
\* the lock half way and concurrent requests expire and re-add entries.
CacheInverse ==
  \A r \in Replicas :
    /\ \A k \in Keys, a \in Addrs : byKey[r][k] = a <=> byIP[r][a] = k
    /\ \A a \in Addrs : byIP[r][a] = NoKey <=> expires[r][a] = 0

InRange(k, a) == a = Legacy[k] \/ \E i \in 1..Len(Pool[k]) : Pool[k][i] = a

\* Whatever the interleaving, faults and clocks, an address that a process
\* caches or answers for a key is one the prefixes of that key's gateway gave
\* it (SQLStore.Allocate's scan), or its row of the migrated table.
AnswersInRange ==
  /\ \A r \in Replicas, k \in Keys :
       byKey[r][k] # NoAddr => InRange(k, byKey[r][k])
  /\ \A h \in Handlers : pc[h] = "ok" => InRange(key[h], ip[h])

\* A mapping that some process would serve from RAM now is the registry's, and
\* is leased there.
Coherent ==
  \A r \in Replicas, a \in Addrs :
    CacheLive(r, a, clock) => row[byIP[r][a]] = a /\ exp[byIP[r][a]] > clock

\* DNS and PTR answers given at the same time, by any processes, agree: one
\* address for a key, one key for an address.
AnswersAgree ==
  \A g, h \in Handlers :
    pc[g] = "ok" /\ pc[h] = "ok" /\ now[g] = clock /\ now[h] = clock
      => (key[g] = key[h] <=> ip[g] = ip[h])

\* An answered address stays bound to its name in the registry for a lease less
\* the renewal debounce, so a client may use it that long.
Reserved ==
  \A h \in Handlers :
    pc[h] = "ok" /\ clock + Debounce < now[h] + Lease
      => row[key[h]] = ip[h] /\ exp[key[h]] > clock

\* "synthetic ranges exhausted" is reported only when every address of the
\* ranges is leased to some other key.
ExhaustedOnlyWhenFull ==
  \A h \in Handlers : pc[h] = "exhausted" /\ now[h] = clock =>
    \A i \in 1..Len(Pool[key[h]]) :
      \E k \in Keys \ {key[h]} : row[k] = Pool[key[h]][i] /\ exp[k] > clock

\* The table implements the lease table the processes rely on.
Table == INSTANCE LeaseTable WITH holds <- row, until <- exp, Initial <- Legacy
ImplementsLeaseTable == Table!Spec

\* Every request returns: the scan and its re-reads come to an end.
RequestsReturn == \A h \in Handlers : pc[h] \in Steps ~> pc[h] \in Returned
=============================================================================
