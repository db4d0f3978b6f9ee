---------------------------- MODULE MCLookupTime ----------------------------
(* An instance of LookupTime for TLC: a clock of eight values.               *)
EXTENDS LookupTime, TLC

CONSTANTS r1, r2

TwoResolvers == {r1, r2}
Symmetry == Permutations(Resolvers)
=============================================================================
