----------------------------- MODULE MC_TableFile -----------------------------
(* Two rows, on one page, then on two, then on the other one alone.           *)
EXTENDS TableFile, TLC

CONSTANTS a, b, r1, r2, i1, i2

MC_Home == 0 :> (r1 :> 1 @@ r2 :> 1) @@ 1 :> (r1 :> 1 @@ r2 :> 2) @@ 2 :> (r1 :> 2 @@ r2 :> 1)

Symmetry == Permutations(Inode) \cup Permutations(Threads)
=============================================================================
