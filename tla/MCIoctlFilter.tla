---------------------------- MODULE MCIoctlFilter ---------------------------
(* Two mounted GPUs, A and C with the ids m1 and m2, and a hidden one      *)
(* between them, B with the id h; a row of the card table that is not in   *)
(* use.  Discovery finds both mounted GPUs, one of them or none, by where  *)
(* its scans end and by whether a file is understood.                      *)
EXTENDS IoctlFilter, TLC

CONSTANTS dot, A, B, C, m1, m2, h

MCDots == {dot}
MCBuses == {A, B, C}
MCMinor == A :> 0 @@ B :> 1 @@ C :> 2
MCDevs == {<<2, NoMinor, 0>>}
MCListings == {<<dot, A, B, C>>}
MCTexts == {"whole", "bad"}

Row(valid, minor, id) == [valid |-> valid, minor |-> minor, id |-> id]
Device(id, instance) == [id |-> id, instance |-> instance]

MCIds == {m1, m2, h}
MCCards == <<Row(TRUE, 0, m1), Row(TRUE, 1, h), Row(FALSE, 0, h), Row(TRUE, 2, m2)>>

(* A full array, a short one, one of hidden GPUs only, an empty one. *)
MCAttachedLists == {<<h, m1, m2>>, <<m2, h>>, <<h>>, <<>>}

(* A GPU that is partitioned has several active devices. *)
MCActiveLists == {<<Device(m1, 0), Device(h, 0), Device(m1, 1), Device(m2, 0)>>, <<Device(h, 1)>>, <<>>}

Symmetry == Permutations(Threads)
=============================================================================
