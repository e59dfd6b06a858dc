------------------------------ MODULE Allocator ------------------------------
(***************************************************************************)
(* A DNS process without a registry: AllocationLifecycle without a Store,  *)
(* over the Allocator of internal/domain/domain.go.                        *)
(*                                                                         *)
(* Addresses are the naturals up to Top, the last address of IPv4; Invalid *)
(* is the zero netip.Addr, which is also what follows Top.  An entry never *)
(* leaves RAM here: without a store nothing sets an expiry.  A gateway is  *)
(* the list of prefixes itself, which is all that rangeKey keeps of it.    *)
(***************************************************************************)
EXTENDS Naturals, Sequences, FiniteSetsExt

CONSTANTS
  Names,
  Policies,   \* each the set of the prefix lists that the grants of a policy carry
  Top,
  Handlers,   \* request goroutines
  Faults      \* {"crash"} when the process may die

Addrs == 0..Top
Invalid == Top + 1
Lists == UNION Policies
Keys == Lists \X Names
NoKey == <<>>

\* A prefix is [base, size].
End(p) == p.base + p.size
Contains(p, a) == p.base <= a /\ a < End(p)

\* Lists as Grant.UnmarshalJSON accepts them: no two prefixes of one overlap.
ASSUME PoliciesAssumption ==
  \A list \in Lists : \A i \in DOMAIN list :
    /\ list[i].base \in Addrs /\ End(list[i]) <= Invalid
    /\ \A j \in DOMAIN list : i # j => End(list[i]) <= list[j].base
                                         \/ End(list[j]) <= list[i].base

VARIABLES
  lists,              \* the lists of the policy in force
  byKey, byIP, next,  \* the Allocator
  pc, key, ip         \* the handlers and their locals

memory == <<byKey, byIP, next>>
vars == <<lists, memory, pc, key, ip>>

Returned == {"idle", "ok", "found", "notFound", "exhausted"}
Steps == {"lookupKeyLive", "read", "lock"}

\* The types of the allocator and of the requests' locals.
TypeOK ==
  /\ lists \in Policies
  /\ byKey \in [Keys -> Addrs \cup {Invalid}]
  /\ byIP \in [Addrs -> Keys \cup {NoKey}]
  /\ next \in [Lists -> Addrs \cup {Invalid}]
  /\ pc \in [Handlers -> Returned \cup Steps]
  /\ key \in [Handlers -> Keys \cup {NoKey}]
  /\ ip \in [Handlers -> Addrs \cup {Invalid}]

\* NewAllocator, and no request yet.
Init ==
  /\ lists \in Policies
  /\ byKey = [k \in Keys |-> Invalid]
  /\ byIP = [a \in Addrs |-> NoKey]
  /\ next = [g \in Lists |-> Invalid]
  /\ pc = [h \in Handlers |-> "idle"]
  /\ key = [h \in Handlers |-> NoKey]
  /\ ip = [h \in Handlers |-> Invalid]
-----------------------------------------------------------------------------
(* Where Allocator.Allocate goes on from next[g].                          *)

\* Mutant: every scan starts with the first prefix.
StartAtFirst(g) == 1

\* The prefix that holds next, or the one after the prefix that ends before it.
Start(g) ==
  LET n == next[g]
      near == {i \in DOMAIN g : Contains(g[i], n) \/ (n > 0 /\ Contains(g[i], n - 1))}
  IN  IF n = Invalid \/ near = {} THEN 1
      ELSE IF Contains(g[Min(near)], n) THEN Min(near) ELSE Min(near) + 1

Candidate(g, i) ==
  IF i = Start(g) /\ Contains(g[i], next[g]) THEN next[g] ELSE g[i].base + 1

\* Mutant: the prefixes after the one the scan starts in are not tried.
FreshInStart(g) ==
  LET usable == {i \in DOMAIN g :
                   i = Start(g) /\ i = 1 /\ Contains(g[i], Candidate(g, i))}
  IN  IF usable = {} THEN Invalid ELSE Candidate(g, Min(usable))

\* The first candidate that its prefix holds and that is not its first address.
Fresh(g) ==
  LET usable == {i \in DOMAIN g :
                   /\ i >= Start(g)
                   /\ Contains(g[i], Candidate(g, i))
                   /\ Candidate(g, i) # g[i].base}
  IN  IF usable = {} THEN Invalid ELSE Candidate(g, Min(usable))
-----------------------------------------------------------------------------
Goto(h, l) == pc' = [pc EXCEPT ![h] = l]

Return(h, a, l) ==
  /\ Goto(h, l)
  /\ ip' = [ip EXCEPT ![h] = a]

StartAllocate(h, k) ==
  /\ pc[h] \in Returned
  /\ k[1] \in lists
  /\ key' = [key EXCEPT ![h] = k]
  /\ Return(h, Invalid, "lookupKeyLive")
  /\ UNCHANGED <<lists, memory>>

\* Its two critical sections are one step: no entry is deleted in between.
LookupKeyLive(h) ==
  /\ pc[h] = "lookupKeyLive"
  /\ \/ byKey[key[h]] # Invalid /\ Return(h, byKey[key[h]], "ok")
     \/ byKey[key[h]] = Invalid /\ Return(h, Invalid, "read")
  /\ UNCHANGED <<lists, memory, key>>

\* Allocator.Allocate under the read lock, then again under the lock.
AllocateRead(h) ==
  /\ pc[h] = "read"
  /\ \/ byKey[key[h]] # Invalid /\ Return(h, byKey[key[h]], "ok")
     \/ byKey[key[h]] = Invalid /\ Return(h, Invalid, "lock")
  /\ UNCHANGED <<lists, memory, key>>

Assign(k, a) ==
  /\ byKey' = [byKey EXCEPT ![k] = a]
  /\ byIP' = [byIP EXCEPT ![a] = k]
  /\ next' = [next EXCEPT ![k[1]] = a + 1]

\* Mutant: the key is not looked up again under the lock.
AllocateLockUnchecked(h) ==
  /\ pc[h] = "lock"
  /\ LET fresh == Fresh(key[h][1]) IN
       \/ fresh = Invalid /\ Return(h, Invalid, "exhausted") /\ UNCHANGED memory
       \/ fresh # Invalid /\ Assign(key[h], fresh) /\ Return(h, fresh, "ok")
  /\ UNCHANGED <<lists, key>>

\* Mutant: an exhausted range is not noticed.
AllocateLockAlways(h) ==
  /\ pc[h] = "lock"
  /\ LET known == byKey[key[h]]  fresh == Fresh(key[h][1]) IN
       \/ known # Invalid /\ Return(h, known, "ok") /\ UNCHANGED memory
       \/ known = Invalid /\ Assign(key[h], fresh) /\ Return(h, fresh, "ok")
  /\ UNCHANGED <<lists, key>>

AllocateLock(h) ==
  /\ pc[h] = "lock"
  /\ LET known == byKey[key[h]]  fresh == Fresh(key[h][1]) IN
       \/ known # Invalid /\ Return(h, known, "ok") /\ UNCHANGED memory
       \/ /\ known = Invalid /\ fresh = Invalid
          /\ Return(h, Invalid, "exhausted") /\ UNCHANGED memory
       \/ /\ known = Invalid /\ fresh # Invalid
          /\ Assign(key[h], fresh) /\ Return(h, fresh, "ok")
  /\ UNCHANGED <<lists, key>>

\* AllocationLifecycle.Lookup is one read.
Lookup(h, a) ==
  /\ pc[h] \in Returned
  /\ key' = [key EXCEPT ![h] = byIP[a]]
  /\ Return(h, a, IF byIP[a] = NoKey THEN "notFound" ELSE "found")
  /\ UNCHANGED <<lists, memory>>

\* The process dies and starts again with nothing in memory.
Restart ==
  /\ "crash" \in Faults
  /\ byKey' = [k \in Keys |-> Invalid]
  /\ byIP' = [a \in Addrs |-> NoKey]
  /\ next' = [g \in Lists |-> Invalid]
  /\ pc' = [h \in Handlers |-> "idle"]
  /\ key' = [h \in Handlers |-> NoKey]
  /\ ip' = [h \in Handlers |-> Invalid]
  /\ UNCHANGED lists

Next ==
  \/ \E h \in Handlers :
       \/ \E k \in Keys : StartAllocate(h, k)
       \/ \E a \in Addrs : Lookup(h, a)
       \/ LookupKeyLive(h) \/ AllocateRead(h) \/ AllocateLock(h)
  \/ Restart

Spec == Init /\ [][Next]_vars
-----------------------------------------------------------------------------
\* An address that has a name gets another one in the same process.
Reuses(a) == byIP[a] # NoKey /\ byIP'[a] # byIP[a] /\ ~Restart

\* "Entries are never reused during a process": an address keeps the name it was
\* first given until the process ends.
NeverReused == [][\A a \in Addrs : ~Reuses(a)]_vars

\* A prefix of the list begins where one that is listed after it ends, or the
\* list has the last address there is.
Wraps(list) ==
  \/ \E i, j \in DOMAIN list : i < j /\ list[i].base = End(list[j])
  \/ \E i \in DOMAIN list : Contains(list[i], Top)

\* Another list of the policy has addresses of this one.
Shared(list) ==
  \E m \in lists \ {list} : \E i \in DOMAIN list, j \in DOMAIN m :
    list[i].base < End(m[j]) /\ m[j].base < End(list[i])

\* Whatever requests race, an address is given to a second name in two cases
\* only: its list wraps, so that Allocate's search for next[g] goes back to a
\* prefix it is done with (nothing follows the last address, and an invalid next
\* starts the list anew); or two lists of the policy share addresses, each with a
\* next of its own.
ReusedOnlyIfWrappedOrShared ==
  [][\A a \in Addrs : Reuses(a) => Wraps(byIP'[a][1]) \/ Shared(byIP'[a][1])]_vars

\* Requests for one name that race get one address; names share one only in the
\* two cases above.
OneAddressPerName ==
  \A g, h \in Handlers : pc[g] = "ok" /\ pc[h] = "ok" =>
    /\ key[g] = key[h] => ip[g] = ip[h]
    /\ ip[g] = ip[h] => key[g] = key[h] \/ Wraps(key[g][1]) \/ Shared(key[g][1])

\* A name is refused only when every address of its list has been given away, but
\* for each prefix's network address and for the whole of a prefix that begins
\* where the one listed before it ends: Allocate takes that one's network address
\* for its candidate, refuses it, and never comes back.
ExhaustedOnlyWhenUsed ==
  \A h \in Handlers : pc[h] = "exhausted" =>
    LET list == key[h][1] IN
      \A i \in DOMAIN list : i = 1 \/ list[i].base # End(list[i - 1]) =>
        \A a \in Addrs : Contains(list[i], a) /\ a # list[i].base => byIP[a] # NoKey
=============================================================================
