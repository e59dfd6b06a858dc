----------------------------- MODULE MCAllocator -----------------------------
(* Instances of Allocator for TLC. *)
EXTENDS Allocator, TLC

P(base, size) == [base |-> base, size |-> size]

\* The prefixes of a list apart, in either order, and a list of its own; a prefix
\* that begins where the one before it ends, before another and at the end; the
\* same in descending order; a prefix with the last address; two lists that share
\* a prefix.
Layouts ==
  {{<<P(0, 2), P(4, 2)>>, <<P(6, 2)>>},
   {<<P(4, 2), P(0, 2)>>},
   {<<P(0, 2), P(2, 2), P(6, 2)>>},
   {<<P(3, 1), P(0, 2), P(2, 1)>>},
   {<<P(0, 2), P(2, 2)>>},
   {<<P(2, 2), P(0, 2)>>},
   {<<P(8, 2), P(0, 2)>>},
   {<<P(0, 2), P(4, 2)>>, <<P(4, 2)>>}}

\* A prefix that is listed before the one below it.
Descending == {{<<P(2, 2), P(0, 2)>>}}

NameSymmetry == Permutations(Names)
=============================================================================
