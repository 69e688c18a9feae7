----------------------------- MODULE FdMapSpec ------------------------------
(***************************************************************************)
(* What core/fd_map.h promises: a map from descriptors to the bytes that   *)
(* are still to be read from them.  put replaces what a descriptor had,    *)
(* take_read consumes a prefix in order, remove forgets.                   *)
(***************************************************************************)
EXTENDS Integers, Sequences

CONSTANTS
    Fds,
    Counts,      \* sizes a caller of read asks for
    Contents,    \* byte sequences that may be attached
    None         \* no bytes: the descriptor is not in the map

VARIABLES
    unread,      \* the bytes each descriptor has still to deliver, or None
    out          \* what the last take_read returned, None if it found nothing

vars == <<unread, out>>

Init ==
    /\ unread = [fd \in Fds |-> None]
    /\ out = None

Put(fd, bytes) ==
    /\ unread' = [unread EXCEPT ![fd] = bytes]
    /\ UNCHANGED out

Least(a, b) == IF a < b THEN a ELSE b

TakeRead(fd, count) ==
    \/ /\ unread[fd] = None
       /\ out' = None
       /\ UNCHANGED unread
    \/ /\ unread[fd] # None
       /\ LET n == Least(Len(unread[fd]), count)
          IN  /\ out' = SubSeq(unread[fd], 1, n)
              /\ unread' = [unread EXCEPT ![fd] = SubSeq(@, n + 1, Len(@))]

Remove(fd) ==
    /\ unread' = [unread EXCEPT ![fd] = None]
    /\ UNCHANGED out

Next ==
    \E fd \in Fds :
        \/ \E bytes \in Contents : Put(fd, bytes)
        \/ \E count \in Counts : TakeRead(fd, count)
        \/ Remove(fd)

Spec == Init /\ [][Next]_vars
=============================================================================
