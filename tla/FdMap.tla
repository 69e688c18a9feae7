------------------------------- MODULE FdMap --------------------------------
(***************************************************************************)
(* core/fd_map.c: the table of virtual files.  A fixed array of entries    *)
(* under entries_lock, each owning a heap copy of the text it serves.      *)
(*                                                                         *)
(* The bodies that run under the lock are single steps; rps_fd_map_put     *)
(* allocates and fills its copy before it takes the lock, so other threads *)
(* may put, read and remove the same descriptor in between.                *)
(***************************************************************************)
EXTENDS Integers, Sequences

CONSTANTS
    Threads,
    Fds,
    Capacity,     \* RPS_FD_MAP_CAPACITY
    Blocks,       \* heap blocks malloc may return
    Payloads,     \* texts that are attached
    PayloadLen,   \* their lengths
    Counts,       \* sizes a caller of read asks for
    Free,         \* content of a block that is not allocated
    Null,         \* the null pointer
    None          \* nothing found, no call in progress

ASSUME FdMapAssumption ==
    /\ Fds \subseteq Nat
    /\ Capacity \in Nat \ {0}
    /\ PayloadLen \in [Payloads -> Nat]
    /\ Counts \subseteq Nat /\ Counts # {}
    /\ Free \notin Payloads
    /\ Null \notin Blocks
    /\ None \notin [fd : Fds, data : Blocks \cup {Null}, len : Nat]
    /\ None \notin Seq(Payloads \X Nat)

Slots == 1..Capacity

VARIABLES
    entries,   \* the array
    mem,       \* the heap: what each block holds
    put,       \* the call of rps_fd_map_put each thread is in, before its lock
    out        \* bytes the last rps_fd_map_take_read copied out, None if not found

vars == <<entries, mem, put, out>>

(* The array is in zeroed storage: descriptor 0 and not active. *)
Zeroed == [active |-> FALSE, fd |-> 0, data |-> Null, len |-> 0, offset |-> 0]

Init ==
    /\ entries = [i \in Slots |-> Zeroed]
    /\ mem = [b \in Blocks |-> Free]
    /\ put = [t \in Threads |-> None]
    /\ out = None

-----------------------------------------------------------------------------
(* What clear_entry leaves; its free is FreeBlock. *)
Cleared == [active |-> FALSE, fd |-> -1, data |-> Null, len |-> 0, offset |-> 0]

(* free(3): of the null pointer, nothing happens. *)
FreeBlock(m, b) == IF b = Null THEN m ELSE [m EXCEPT ![b] = Free]

(* Mutant: a slot is recognised by its descriptor alone. *)
MatchingIgnoresActive(fd) == {i \in Slots : entries[i].fd = fd}

Matching(fd) == {i \in Slots : entries[i].active /\ entries[i].fd = fd}

Unused == {i \in Slots : ~entries[i].active}

(* The loops over the array stop at the first slot that fits. *)
IsFirst(slot, S) == slot \in S /\ \A i \in S : slot <= i

(* Mutant: an entry of the same descriptor is not looked for. *)
PutCandidatesUnused(fd) == Unused

(* The slots put may take: the one of the descriptor, else an unused one. *)
PutCandidates(fd) == IF Matching(fd) # {} THEN Matching(fd) ELSE Unused

-----------------------------------------------------------------------------
(* rps_fd_map_put up to the lock: malloc and memcpy.  A failing malloc     *)
(* returns false and changes nothing.                                      *)
PutAlloc(t, fd, p) ==
    /\ put[t] = None
    /\ \/ /\ PayloadLen[p] = 0
          /\ put' = [put EXCEPT ![t] = [fd |-> fd, data |-> Null, len |-> 0]]
          /\ UNCHANGED mem
       \/ /\ PayloadLen[p] > 0
          /\ \E b \in Blocks :
               /\ mem[b] = Free
               /\ mem' = [mem EXCEPT ![b] = p]
               /\ put' = [put EXCEPT ![t] = [fd |-> fd, data |-> b, len |-> PayloadLen[p]]]
    /\ UNCHANGED <<entries, out>>

(* The rest of it, under the lock: replace an entry, which is cleared      *)
(* first, or take an unused slot ...                                       *)
PutStore(t, slot) ==
    /\ put[t] # None
    /\ IsFirst(slot, PutCandidates(put[t].fd))
    /\ mem' = IF entries[slot].active THEN FreeBlock(mem, entries[slot].data) ELSE mem
    /\ entries' = [entries EXCEPT ![slot] =
                     [active |-> TRUE, fd |-> put[t].fd, data |-> put[t].data,
                      len |-> put[t].len, offset |-> 0]]
    /\ put' = [put EXCEPT ![t] = None]
    /\ UNCHANGED out

(* Mutant: the copy is lost when the table is full. *)
PutFullLeaks(t) ==
    /\ put[t] # None
    /\ PutCandidates(put[t].fd) = {}
    /\ put' = [put EXCEPT ![t] = None]
    /\ UNCHANGED <<entries, mem, out>>

(* ... or, with a full table, drop the copy and return false. *)
PutFull(t) ==
    /\ put[t] # None
    /\ PutCandidates(put[t].fd) = {}
    /\ mem' = FreeBlock(mem, put[t].data)
    /\ put' = [put EXCEPT ![t] = None]
    /\ UNCHANGED <<entries, out>>

(* Mutant: the offset moves by what was asked for. *)
NreadUnclamped(e, count) == IF e.len > 0 THEN count ELSE 0

Nread(e, count) == IF e.len - e.offset < count THEN e.len - e.offset ELSE count

(* The bytes of e from its offset on, n of them.  Each byte is the text it *)
(* belongs to and its position in it.                                      *)
BytesOf(e, n) == [i \in 1..n |-> <<mem[e.data], e.offset + i>>]

Advanced(e, n) == [e EXCEPT !.offset = @ + n]

TakeRead(fd, count, slot) ==
    /\ IsFirst(slot, Matching(fd))
    /\ LET n == Nread(entries[slot], count)
       IN  /\ out' = BytesOf(entries[slot], n)
           /\ entries' = [entries EXCEPT ![slot] = Advanced(@, n)]
    /\ UNCHANGED <<mem, put>>

(* It returns false, and the caller reads from the kernel instead. *)
TakeReadMiss(fd) ==
    /\ Matching(fd) = {}
    /\ out' = None
    /\ UNCHANGED <<entries, mem, put>>

Remove(fd, slot) ==
    /\ IsFirst(slot, Matching(fd))
    /\ mem' = FreeBlock(mem, entries[slot].data)
    /\ entries' = [entries EXCEPT ![slot] = Cleared]
    /\ UNCHANGED <<put, out>>

Next ==
    \/ \E t \in Threads :
         \/ \E fd \in Fds, p \in Payloads : PutAlloc(t, fd, p)
         \/ \E slot \in Slots : PutStore(t, slot)
         \/ PutFull(t)
    \/ \E fd \in Fds :
         \/ \E slot \in Slots :
              \/ \E count \in Counts : TakeRead(fd, count, slot)
              \/ Remove(fd, slot)
         \/ TakeReadMiss(fd)

Spec == Init /\ [][Next]_vars

-----------------------------------------------------------------------------
(* Properties *)

EntryType ==
    [active : BOOLEAN, fd : Fds \cup {0, -1}, data : Blocks \cup {Null},
     len : Nat, offset : Nat]

PutType == [fd : Fds, data : Blocks \cup {Null}, len : Nat]

(* The types of the variables; out is described by the refinement. *)
TypeOK ==
    /\ entries \in [Slots -> EntryType]
    /\ mem \in [Blocks -> Payloads \cup {Free}]
    /\ put \in [Threads -> PutType \cup {None}]

(* However puts, reads and removes of several threads interleave, a        *)
(* descriptor has at most one active entry: a remove leaves none behind.   *)
UniqueFd ==
    \A i, j \in Slots :
        entries[i].active /\ entries[j].active /\ entries[i].fd = entries[j].fd => i = j

Pending(t) == put[t] # None

(* rps_fd_map_* neither leak, nor free twice, nor use what is freed: an    *)
(* allocated block belongs to an entry or to a put that waits for the      *)
(* lock, to one of them only, and an entry that is not active has none.    *)
BlocksOwnedOnce ==
    /\ \A b \in Blocks : mem[b] # Free =>
         (\E i \in Slots : entries[i].data = b) \/ (\E t \in Threads : Pending(t) /\ put[t].data = b)
    /\ \A i \in Slots : entries[i].data # Null => mem[entries[i].data] # Free
    /\ \A t \in Threads : Pending(t) /\ put[t].data # Null => mem[put[t].data] # Free
    /\ \A i, j \in Slots : entries[i].data # Null /\ entries[i].data = entries[j].data => i = j
    /\ \A t, u \in Threads :
         Pending(t) /\ Pending(u) /\ put[t].data # Null /\ put[t].data = put[u].data => t = u
    /\ \A i \in Slots, t \in Threads :
         Pending(t) /\ put[t].data # Null => entries[i].data # put[t].data
    /\ \A i \in Slots : ~entries[i].active => entries[i].data = Null

TextLen(data) == IF data = Null THEN 0 ELSE PayloadLen[mem[data]]

(* take_read never copies past the end of a block: the offset stays inside *)
(* the length, and the length is that of the text in the block.            *)
ReadsInBounds ==
    /\ \A i \in Slots : entries[i].offset <= entries[i].len
    /\ \A i \in Slots : entries[i].len = TextLen(entries[i].data)
    /\ \A t \in Threads : Pending(t) => put[t].len = TextLen(put[t].data)

-----------------------------------------------------------------------------
(* The table implements the map. *)

UnreadOf(fd) ==
    IF Matching(fd) = {} THEN None
    ELSE LET e == entries[CHOOSE i \in Matching(fd) : TRUE] IN BytesOf(e, e.len - e.offset)

TextOf(p) == [i \in 1..PayloadLen[p] |-> <<p, i>>]

Map == INSTANCE FdMapSpec
         WITH unread <- [fd \in Fds |-> UnreadOf(fd)],
              Contents <- {TextOf(p) : p \in Payloads}

(* rps_fd_map_put, rps_fd_map_take_read and rps_fd_map_remove take effect  *)
(* at once, at the moment they hold the lock: a failed put changes         *)
(* nothing, and reads deliver the attached bytes in order, once.           *)
ImplementsMap == Map!Spec
=============================================================================
