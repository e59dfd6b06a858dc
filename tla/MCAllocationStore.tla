-------------------------- MODULE MCAllocationStore --------------------------
(* Instances of AllocationStore for TLC. *)
EXTENDS AllocationStore, TLC

CONSTANTS k1, k2, a1, a2, r1, r2, h1, h2

\* k1 may go on to a second address, k2 may not; or both have one.
PoolShared == (k1 :> <<a1, a2>>) @@ (k2 :> <<a1>>)
PoolSingle == (k1 :> <<a1>>) @@ (k2 :> <<a1>>)
LegacyNone == [k \in Keys |-> NoAddr]
LegacyOne  == [k \in Keys |-> IF k = k2 THEN a1 ELSE NoAddr]
TwoProcesses == (h1 :> r1) @@ (h2 :> r2)
OneHandler   == h1 :> r1
OneProcess   == (h1 :> r1) @@ (h2 :> r1)
\* The two processes, each with its handler, may change places.
ProcessSymmetry ==
  {p \in Permutations(Replicas \cup Handlers) :
     \A h \in Handlers : p[h] \in Handlers /\ Home[p[h]] = p[Home[h]]}
SkewNone == [r \in Replicas |-> 0]
=============================================================================
