---------------------------- MODULE MCDirListing ----------------------------
(* Tables for three GPUs.  Three GPUs in every order behind the dot        *)
(* entries, as procfs lists them, and four in some, which are too many     *)
(* when the information files of all of them can be understood.            *)
EXTENDS DirListing, TLC

CONSTANTS dot, dotdot, A, B, C, D

MCDots == {dot, dotdot}
MCBuses == {A, B, C, D}
MCMinor == A :> 0 @@ B :> 1 @@ C :> 2 @@ D :> 3

MCDevs == {<<>>, <<NoMinor>>, <<0, NoMinor>>, <<NoMinor, 1, 0>>, <<2, 1, NoMinor, 3, 0>>}
MCListings ==
    {<<dot, dotdot>> \o l : l \in SetToSeqs({A, C, D})
                                \cup {<<A, B, C, D>>, <<D, C, B, A>>, <<C, D, A, B>>}}
MCTexts == {"whole", "no bus", "bad"}
=============================================================================
