------------------------- MODULE MC_ReuseDistance -------------------------
(***************************************************************************)
(* Instantiates ReuseDistance for TLC: three obs ids, which only the order *)
(* of their references tells apart, so their permutations are a symmetry. *)
(***************************************************************************)
EXTENDS ReuseDistance, TLC

CONSTANTS a, b, c

MC_Offline  == {-1, 0}
MC_Retrievals == {0}
MC_Symmetry == Permutations({a, b, c})

=============================================================================
