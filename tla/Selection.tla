------------------------------ MODULE Selection -----------------------------
(***************************************************************************)
(* The loops of the library that copy the elements they keep to the front  *)
(* of an array, or to another one, in their order.                         *)
(***************************************************************************)
EXTENDS Integers, Sequences

(* What such a loop has kept after each of its turns. *)
KeptUpTo(s, S) ==
    LET kept[n \in 0..Len(s)] ==
            IF n = 0 THEN <<>>
            ELSE IF s[n] \in S THEN Append(kept[n - 1], s[n])
            ELSE kept[n - 1]
    IN  kept

(* The elements of s that are in S. *)
Kept(s, S) == KeptUpTo(s, S)[Len(s)]
=============================================================================
