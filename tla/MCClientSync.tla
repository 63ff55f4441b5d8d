----------------------------- MODULE MCClientSync -----------------------------
(* Instances of ClientSync: one row, two rows of one table, or one row in  *)
(* each of two tables.                                                    *)
EXTENDS ClientSync, TLC

CONSTANTS r1, r2

OneRow    == r1 :> 1
OneTable  == (r1 :> 1) @@ (r2 :> 1)
TwoTables == (r1 :> 1) @@ (r2 :> 2)
RowSymmetry == Permutations(Rows)
=============================================================================
