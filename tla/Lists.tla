-------------------------------- MODULE Lists --------------------------------
(* What the sequences of the other modules have in common.                  *)
EXTENDS Naturals, Sequences

(* The elements of s that are in T, in their order.                         *)
Keep(s, T) ==
    LET Kept[n \in 0..Len(s)] ==
            IF n = 0 THEN <<>>
            ELSE IF s[n] \in T THEN Append(Kept[n - 1], s[n]) ELSE Kept[n - 1]
    IN  Kept[Len(s)]
=============================================================================
