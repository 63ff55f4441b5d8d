----------------------------- MODULE MCCursorText -----------------------------
(* An instance of CursorText: one row in each of two tables, the ids equal *)
(* up to the colon in the second.                                          *)
EXTENDS CursorText, TLC

CONSTANTS r1, r2, p1, p2

TableOfRow == r1 :> 1 @@ r2 :> 2
IdRankOfRow == r1 :> 1 @@ r2 :> 2
Symmetry == Permutations({p1, p2})
=============================================================================
