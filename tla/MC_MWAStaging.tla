--------------------------- MODULE MC_MWAStaging ---------------------------
(***************************************************************************)
(* Instantiates MWAStaging for TLC: two tasks, two files, one host.  Tasks *)
(* and files are interchangeable model values; their permutations are a   *)
(* symmetry for the safety run only.                                       *)
(***************************************************************************)
EXTENDS MWAStaging, TLC

CONSTANTS c1, c2, f1, f2

MC_Symmetry == Permutations({c1, c2}) \cup Permutations({f1, f2})

=============================================================================
