------------------------------ MODULE LeaseTable ------------------------------
(***************************************************************************)
(* What the allocation registry promises to the DNS processes that share   *)
(* it: an address is leased to one key at a time, a lease can be renewed   *)
(* but not cut short, and a binding ends only when its lease has ended.    *)
(***************************************************************************)
EXTENDS Naturals

CONSTANTS Keys, Addrs, NoAddr, Initial
VARIABLES clock, holds, until

leases == <<holds, until>>

Init ==
  /\ clock = 1
  /\ holds = Initial
  /\ until = [k \in Keys |-> 0]

\* Any number of leases that have run out may end at once.
Release ==
  \E K \in SUBSET {k \in Keys : until[k] <= clock} :
    /\ holds' = [k \in Keys |-> IF k \in K THEN NoAddr ELSE holds[k]]
    /\ until' = [k \in Keys |-> IF k \in K THEN 0 ELSE until[k]]
    /\ UNCHANGED clock

Grant(k, a) ==
  /\ holds[k] = NoAddr
  /\ \A j \in Keys : holds[j] # a
  /\ holds' = [holds EXCEPT ![k] = a]
  /\ until'[k] \in Nat /\ until'[k] > clock
  /\ until' = [until EXCEPT ![k] = until'[k]]
  /\ UNCHANGED clock

\* Renewing several leases at once is what opening an old table does.
Renew ==
  /\ UNCHANGED <<clock, holds>>
  /\ until' \in [Keys -> Nat]
  /\ \A k \in Keys : /\ until'[k] >= until[k]
                     /\ holds[k] = NoAddr => until'[k] = until[k]

Pass ==
  /\ clock' = clock + 1
  /\ UNCHANGED leases

Next ==
  \/ Release
  \/ \E k \in Keys, a \in Addrs : Grant(k, a)
  \/ Renew
  \/ Pass

Spec == Init /\ [][Next]_<<clock, leases>>
=============================================================================
