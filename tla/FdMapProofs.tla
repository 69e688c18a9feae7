----------------------------- MODULE FdMapProofs ----------------------------
(***************************************************************************)
(* Theorems about FdMap, for any number of threads, descriptors, entries   *)
(* and heap blocks.  The four invariants are inductive together: an entry  *)
(* can be freed safely because its block has no second owner, and it can   *)
(* be read safely because nobody else frees the block.                     *)
(***************************************************************************)
EXTENDS FdMap, SequenceTheorems, TLAPS

FdMapInv == TypeOK /\ UniqueFd /\ BlocksOwnedOnce /\ ReadsInBounds

LEMMA InitFdMap == Init => FdMapInv
  <1> SUFFICES ASSUME Init PROVE FdMapInv
    OBVIOUS
  <1>1. TypeOK
    BY FdMapAssumption DEF Init, TypeOK, Zeroed, EntryType, PutType, Slots
  <1>2. BlocksOwnedOnce
    BY FdMapAssumption DEF Init, BlocksOwnedOnce, Pending, Zeroed
  <1>3. UniqueFd /\ ReadsInBounds
    BY DEF Init, UniqueFd, ReadsInBounds, Pending, TextLen, Zeroed
  <1> QED
    BY <1>1, <1>2, <1>3 DEF FdMapInv

LEMMA PutAllocInv ==
    ASSUME FdMapInv, NEW t \in Threads, NEW fd \in Fds, NEW p \in Payloads, PutAlloc(t, fd, p)
    PROVE  FdMapInv'
  <1> USE FdMapAssumption
  <1>1. TypeOK'
    BY DEF FdMapInv, PutAlloc, TypeOK, PutType
  <1>2. UniqueFd'
    BY DEF FdMapInv, PutAlloc, UniqueFd
  <1>3. PICK x \in PutType :
          /\ put' = [put EXCEPT ![t] = x]
          /\ \/ x.data = Null /\ x.len = 0 /\ mem' = mem
             \/ /\ x.data \in Blocks /\ x.len = PayloadLen[p]
                /\ mem[x.data] = Free /\ mem' = [mem EXCEPT ![x.data] = p]
    <2>1. CASE PayloadLen[p] = 0
      <3>1. put' = [put EXCEPT ![t] = [fd |-> fd, data |-> Null, len |-> 0]] /\ mem' = mem
        BY <2>1 DEF PutAlloc
      <3> DEFINE y == [fd |-> fd, data |-> Null, len |-> 0]
      <3>2. y \in PutType /\ y.data = Null /\ y.len = 0
        BY DEF PutType
      <3> QED
        BY <3>1, <3>2
    <2>2. CASE PayloadLen[p] > 0
      <3>1. PICK b \in Blocks :
              /\ mem[b] = Free /\ mem' = [mem EXCEPT ![b] = p]
              /\ put' = [put EXCEPT ![t] = [fd |-> fd, data |-> b, len |-> PayloadLen[p]]]
        BY <2>2 DEF PutAlloc
      <3> DEFINE y == [fd |-> fd, data |-> b, len |-> PayloadLen[p]]
      <3>2. y \in PutType /\ y.data = b /\ y.len = PayloadLen[p]
        BY DEF PutType
      <3> QED
        BY <3>1, <3>2
    <2> QED
      BY <2>1, <2>2 DEF PutAlloc
  <1>4. /\ put'[t] = x /\ x # None
        /\ \A u \in Threads : u # t => put'[u] = put[u]
    BY <1>3 DEF FdMapInv, TypeOK, PutType
  <1>5. ~Pending(t) /\ entries' = entries
    BY DEF PutAlloc, Pending
  <1>6. x.data = Null \/ x.data \in Blocks
    BY <1>3
  <1>7. CASE x.data = Null
    <2>1. mem' = mem /\ x.len = 0
      BY <1>3, <1>7
    <2>2. BlocksOwnedOnce'
      BY <1>4, <1>5, <1>7, <2>1 DEF FdMapInv, BlocksOwnedOnce, Pending
    <2>3. ReadsInBounds'
      BY <1>4, <1>5, <1>7, <2>1 DEF FdMapInv, ReadsInBounds, Pending, TextLen
    <2> QED
      BY <1>1, <1>2, <2>2, <2>3 DEF FdMapInv
  <1>8. CASE x.data \in Blocks
    <2>1. /\ mem[x.data] = Free /\ mem'[x.data] = p /\ p # Free
          /\ \A b \in Blocks : b # x.data => mem'[b] = mem[b]
          /\ x.len = PayloadLen[p] /\ x.data # Null
      BY <1>3, <1>8 DEF FdMapInv, TypeOK
    <2>2. /\ \A i \in Slots : entries[i].data \in Blocks \cup {Null}
          /\ \A u \in Threads : Pending(u) => put[u].data \in Blocks \cup {Null}
      BY DEF FdMapInv, TypeOK, EntryType, PutType, Pending
    <2>3. /\ \A i \in Slots : entries[i].data # x.data
          /\ \A u \in Threads : Pending(u) => put[u].data # x.data
      BY <2>1 DEF FdMapInv, BlocksOwnedOnce
    <2>4. BlocksOwnedOnce'
      BY <1>4, <1>5, <1>8, <2>1, <2>2, <2>3 DEF FdMapInv, BlocksOwnedOnce, Pending
    <2>5. ReadsInBounds'
      BY <1>4, <1>5, <1>8, <2>1, <2>2, <2>3 DEF FdMapInv, ReadsInBounds, Pending, TextLen
    <2> QED
      BY <1>1, <1>2, <2>4, <2>5 DEF FdMapInv
  <1> QED
    BY <1>6, <1>7, <1>8

(* What FreeBlock does, in the terms the next two lemmas need. *)
LEMMA FreeBlockFacts ==
    ASSUME TypeOK, NEW d \in Blocks \cup {Null}, mem' = FreeBlock(mem, d)
    PROVE  /\ \A b \in Blocks : b # d => mem'[b] = mem[b]
           /\ d # Null => mem'[d] = Free
  BY FdMapAssumption DEF TypeOK, FreeBlock

LEMMA PutStoreInv ==
    ASSUME FdMapInv, NEW t \in Threads, NEW slot \in Slots, PutStore(t, slot)
    PROVE  FdMapInv'
  <1> USE FdMapAssumption
  <1>1. TypeOK'
    BY DEF FdMapInv, PutStore, TypeOK, EntryType, PutType, FreeBlock
  <1>2. UniqueFd'
    BY DEF FdMapInv, PutStore, TypeOK, UniqueFd, PutCandidates, Matching, Unused, IsFirst
  <1>3. PICK x \in PutType : put[t] = x /\ x # None
    BY DEF FdMapInv, PutStore, TypeOK
  <1>4. PICK old \in Blocks \cup {Null} : old = entries[slot].data
    BY DEF FdMapInv, TypeOK, EntryType
  <1>5. /\ put'[t] = None
        /\ \A u \in Threads : u # t => put'[u] = put[u]
        /\ \A i \in Slots : i # slot => entries'[i] = entries[i]
        /\ entries'[slot].active /\ entries'[slot].data = x.data
        /\ entries'[slot].len = x.len /\ entries'[slot].offset = 0
    BY <1>3 DEF FdMapInv, TypeOK, PutStore
  <1>6. /\ \A b \in Blocks : b # old => mem'[b] = mem[b]
        /\ old # Null => mem'[old] = Free
    <2>1. ~entries[slot].active => old = Null
      BY <1>4 DEF FdMapInv, BlocksOwnedOnce
    <2>2. mem' = FreeBlock(mem, old)
      BY <1>4, <2>1 DEF PutStore, FreeBlock
    <2> QED
      BY <2>2, FreeBlockFacts DEF FdMapInv
  <1>7. /\ \A i \in Slots : entries[i].data \in Blocks \cup {Null}
        /\ \A u \in Threads : Pending(u) => put[u].data \in Blocks \cup {Null}
        /\ x.data \in Blocks \cup {Null} /\ x.len \in Nat
    BY DEF FdMapInv, TypeOK, EntryType, PutType, Pending
  <1>8. Pending(t) /\ ~Pending(t)'
    BY <1>3, <1>5 DEF Pending
  <1>9. /\ \A i \in Slots : i # slot /\ entries[i].data # Null => entries[i].data # old
        /\ \A u \in Threads : Pending(u) /\ put[u].data # Null => put[u].data # old
    BY <1>4, <1>7 DEF FdMapInv, BlocksOwnedOnce
  <1>10. BlocksOwnedOnce'
    <2>1. \A b \in Blocks : mem'[b] # Free =>
            (\E i \in Slots : entries'[i].data = b) \/ (\E u \in Threads : Pending(u)' /\ put'[u].data = b)
      BY <1>3, <1>4, <1>5, <1>6, <1>8 DEF FdMapInv, BlocksOwnedOnce, Pending
    <2>2. \A i \in Slots : entries'[i].data # Null => mem'[entries'[i].data] # Free
      BY <1>3, <1>5, <1>6, <1>7, <1>8, <1>9 DEF FdMapInv, BlocksOwnedOnce
    <2>3. \A u \in Threads : Pending(u)' /\ put'[u].data # Null => mem'[put'[u].data] # Free
      BY <1>5, <1>6, <1>7, <1>8, <1>9 DEF FdMapInv, BlocksOwnedOnce, Pending
    <2>4. \A i, j \in Slots : entries'[i].data # Null /\ entries'[i].data = entries'[j].data => i = j
      BY <1>3, <1>5, <1>8 DEF FdMapInv, BlocksOwnedOnce
    <2>5. \A u, v \in Threads :
            Pending(u)' /\ Pending(v)' /\ put'[u].data # Null /\ put'[u].data = put'[v].data => u = v
      BY <1>5, <1>8 DEF FdMapInv, BlocksOwnedOnce, Pending
    <2>6. \A i \in Slots, u \in Threads :
            Pending(u)' /\ put'[u].data # Null => entries'[i].data # put'[u].data
      BY <1>3, <1>5, <1>8 DEF FdMapInv, BlocksOwnedOnce, Pending
    <2>7. \A i \in Slots : ~entries'[i].active => entries'[i].data = Null
      BY <1>5 DEF FdMapInv, BlocksOwnedOnce
    <2> QED
      BY <2>1, <2>2, <2>3, <2>4, <2>5, <2>6, <2>7 DEF BlocksOwnedOnce
  <1>11. ReadsInBounds'
    <2>1. \A i \in Slots : entries'[i].offset <= entries'[i].len
      BY <1>5, <1>7 DEF FdMapInv, ReadsInBounds
    <2>2. \A i \in Slots : entries'[i].len = TextLen(entries[i].data)'
      BY <1>3, <1>5, <1>6, <1>7, <1>8, <1>9 DEF FdMapInv, ReadsInBounds, TextLen
    <2>3. \A u \in Threads : Pending(u)' => put'[u].len = TextLen(put[u].data)'
      BY <1>5, <1>6, <1>7, <1>8, <1>9 DEF FdMapInv, ReadsInBounds, Pending, TextLen
    <2> QED
      BY <2>1, <2>2, <2>3 DEF ReadsInBounds
  <1> QED
    BY <1>1, <1>2, <1>10, <1>11 DEF FdMapInv

LEMMA PutFullInv ==
    ASSUME FdMapInv, NEW t \in Threads, PutFull(t)
    PROVE  FdMapInv'
  <1> USE FdMapAssumption
  <1>1. TypeOK'
    BY DEF FdMapInv, PutFull, TypeOK, EntryType, PutType, FreeBlock
  <1>2. UniqueFd'
    BY DEF FdMapInv, PutFull, UniqueFd
  <1>3. PICK d \in Blocks \cup {Null} : d = put[t].data
    BY DEF FdMapInv, TypeOK, PutType, PutFull
  <1>4. /\ put'[t] = None /\ entries' = entries
        /\ \A u \in Threads : u # t => put'[u] = put[u]
    BY DEF FdMapInv, TypeOK, PutFull
  <1>5. /\ \A b \in Blocks : b # d => mem'[b] = mem[b]
        /\ d # Null => mem'[d] = Free
    BY <1>3, FreeBlockFacts DEF FdMapInv, PutFull
  <1>6. /\ \A i \in Slots : entries[i].data \in Blocks \cup {Null}
        /\ \A u \in Threads : Pending(u) => put[u].data \in Blocks \cup {Null}
    BY DEF FdMapInv, TypeOK, EntryType, PutType, Pending
  <1>7. Pending(t) /\ ~Pending(t)'
    BY <1>4 DEF Pending, PutFull
  <1>8. BlocksOwnedOnce'
    BY <1>3, <1>4, <1>5, <1>6, <1>7 DEF FdMapInv, BlocksOwnedOnce, Pending
  <1>9. ReadsInBounds'
    BY <1>3, <1>4, <1>5, <1>6, <1>7 DEF FdMapInv, BlocksOwnedOnce, ReadsInBounds, Pending, TextLen
  <1> QED
    BY <1>1, <1>2, <1>8, <1>9 DEF FdMapInv

(* Moving the offset of an entry leaves the other fields alone. *)
LEMMA OffsetFacts ==
    ASSUME NEW a \in EntryType, NEW n \in Nat, NEW e \in {Advanced(a, n)}
    PROVE  /\ e.active = a.active /\ e.fd = a.fd /\ e.data = a.data /\ e.len = a.len
           /\ e.offset = a.offset + n
           /\ e \in EntryType
  <1>1. /\ e.active = a.active /\ e.fd = a.fd /\ e.data = a.data /\ e.len = a.len
        /\ e.offset = a.offset + n
    BY DEF EntryType, Advanced
  <1>2. e \in EntryType
    BY DEF EntryType, Advanced
  <1> QED
    BY <1>1, <1>2

LEMMA TakeReadInv ==
    ASSUME FdMapInv, NEW fd \in Fds, NEW count \in Counts, NEW slot \in Slots,
           TakeRead(fd, count, slot)
    PROVE  FdMapInv'
  <1> USE FdMapAssumption
  <1>1. entries[slot] \in EntryType /\ count \in Nat
    BY DEF FdMapInv, TypeOK
  <1>2. PICK n \in Nat : n = Nread(entries[slot], count) /\ entries[slot].offset + n <= entries[slot].len
    BY <1>1 DEF FdMapInv, EntryType, ReadsInBounds, Nread
  <1>3. entries' = [entries EXCEPT ![slot] = Advanced(@, n)]
    BY <1>2 DEF TakeRead
  <1>4. PICK e : e = Advanced(entries[slot], n)
    OBVIOUS
  <1>5. /\ e.active = entries[slot].active /\ e.fd = entries[slot].fd
        /\ e.data = entries[slot].data /\ e.len = entries[slot].len
        /\ e.offset = entries[slot].offset + n
        /\ e \in EntryType
    <2>1. PICK a \in EntryType : a = entries[slot]
      BY <1>1
    <2> QED
      BY <1>4, <2>1, OffsetFacts
  <1>6. /\ \A i \in Slots : i # slot => entries'[i] = entries[i]
        /\ entries'[slot] = e
        /\ entries' \in [Slots -> EntryType]
        /\ mem' = mem /\ put' = put
    <2>1. entries' = [entries EXCEPT ![slot] = e]
      BY <1>3, <1>4
    <2> QED
      BY <1>5, <2>1 DEF FdMapInv, TakeRead, TypeOK
  <1>7. \A i \in Slots : /\ entries'[i].active = entries[i].active
                         /\ entries'[i].fd = entries[i].fd
                         /\ entries'[i].data = entries[i].data
                         /\ entries'[i].len = entries[i].len
    BY <1>5, <1>6
  <1>8. TypeOK'
    BY <1>6 DEF FdMapInv, TypeOK
  <1>9. UniqueFd'
    BY <1>7 DEF FdMapInv, UniqueFd
  <1>10. BlocksOwnedOnce'
    BY <1>6, <1>7 DEF FdMapInv, BlocksOwnedOnce, Pending
  <1>11. \A i \in Slots : entries'[i].offset <= entries'[i].len
    BY <1>2, <1>5, <1>6 DEF FdMapInv, ReadsInBounds
  <1>12. ReadsInBounds'
    BY <1>6, <1>7, <1>11 DEF FdMapInv, ReadsInBounds, Pending, TextLen
  <1> QED
    BY <1>8, <1>9, <1>10, <1>12 DEF FdMapInv

LEMMA RemoveInv ==
    ASSUME FdMapInv, NEW fd \in Fds, NEW slot \in Slots, Remove(fd, slot)
    PROVE  FdMapInv'
  <1> USE FdMapAssumption
  <1>1. TypeOK'
    BY DEF FdMapInv, Remove, TypeOK, EntryType, PutType, FreeBlock, Cleared
  <1>2. UniqueFd'
    BY DEF FdMapInv, Remove, TypeOK, UniqueFd, Cleared
  <1>3. BlocksOwnedOnce'
    BY SMTT(30) DEF FdMapInv, Remove, TypeOK, EntryType, PutType, BlocksOwnedOnce, Pending, FreeBlock, Cleared
  <1>4. ReadsInBounds'
    BY DEF FdMapInv, Remove, TypeOK, EntryType, PutType, BlocksOwnedOnce, ReadsInBounds, Pending, TextLen, FreeBlock, Cleared
  <1> QED
    BY <1>1, <1>2, <1>3, <1>4 DEF FdMapInv

LEMMA NextFdMap == FdMapInv /\ [Next]_vars => FdMapInv'
  <1> SUFFICES ASSUME FdMapInv, [Next]_vars PROVE FdMapInv'
    OBVIOUS
  <1>1. ASSUME UNCHANGED <<entries, mem, put>> PROVE FdMapInv'
    BY <1>1 DEF FdMapInv, TypeOK, UniqueFd, BlocksOwnedOnce, ReadsInBounds, Pending, TextLen
  <1>2. ASSUME NEW fd \in Fds, TakeReadMiss(fd) PROVE FdMapInv'
    BY <1>1, <1>2 DEF TakeReadMiss
  <1> QED
    BY <1>1, <1>2, PutAllocInv, PutStoreInv, PutFullInv, TakeReadInv, RemoveInv DEF Next, vars

(* fd_map.c: however the calls of the threads interleave, every heap block *)
(* the table allocates has exactly one owner and is freed exactly once.    *)
THEOREM BlocksSafe == Spec => []BlocksOwnedOnce
  <1>1. FdMapInv => BlocksOwnedOnce
    BY DEF FdMapInv
  <1> QED
    BY InitFdMap, NextFdMap, <1>1, PTL DEF Spec

(* rps_fd_map_put: a descriptor has at most one entry in use, although the *)
(* entry to fill is chosen long after the text was copied.                 *)
THEOREM EntriesUnique == Spec => []UniqueFd
  <1>1. FdMapInv => UniqueFd
    BY DEF FdMapInv
  <1> QED
    BY InitFdMap, NextFdMap, <1>1, PTL DEF Spec

(* rps_fd_map_take_read: the offset never passes the length of the text,   *)
(* so the unsigned subtraction does not wrap and reads stay in the block.  *)
THEOREM ReadsBounded == Spec => []ReadsInBounds
  <1>1. FdMapInv => ReadsInBounds
    BY DEF FdMapInv
  <1> QED
    BY InitFdMap, NextFdMap, <1>1, PTL DEF Spec

-----------------------------------------------------------------------------
(* The refinement.  What a table es over a heap m has to deliver for fd,   *)
(* as the mapping to FdMapSpec has it.                                     *)

SlotsOf(es, fd) == {i \in Slots : es[i].active /\ es[i].fd = fd}

Rest(m, e) == [i \in 1..(e.len - e.offset) |-> <<m[e.data], e.offset + i>>]

Unread(es, m, fd) ==
    IF SlotsOf(es, fd) = {} THEN None ELSE Rest(m, es[CHOOSE i \in SlotsOf(es, fd) : TRUE])

unreadBar == [fd \in Fds |-> UnreadOf(fd)]

LEMMA MappedUnread ==
    /\ unreadBar = [fd \in Fds |-> Unread(entries, mem, fd)]
    /\ unreadBar' = [fd \in Fds |-> Unread(entries', mem', fd)]
  BY DEF unreadBar, UnreadOf, Unread, Matching, SlotsOf, BytesOf, Rest

(* A table that has the same entries for fd, with the same bytes. *)
LEMMA Frame ==
    ASSUME NEW es, NEW es2, NEW m, NEW m2, NEW fd,
           SlotsOf(es2, fd) = SlotsOf(es, fd),
           \A i \in SlotsOf(es, fd) : Rest(m2, es2[i]) = Rest(m, es[i])
    PROVE  Unread(es2, m2, fd) = Unread(es, m, fd)
  <1>1. CASE SlotsOf(es, fd) = {}
    BY <1>1 DEF Unread
  <1>2. CASE SlotsOf(es, fd) # {}
    <2>1. (CHOOSE i \in SlotsOf(es, fd) : TRUE) \in SlotsOf(es, fd)
      BY <1>2
    <2> QED
      BY <1>2, <2>1 DEF Unread
  <1> QED
    BY <1>1, <1>2

(* The entry of a descriptor is the only one. *)
LEMMA UnreadOne ==
    ASSUME NEW es, NEW m, NEW fd, NEW slot, SlotsOf(es, fd) = {slot}
    PROVE  Unread(es, m, fd) = Rest(m, es[slot])
  BY DEF Unread

(* A block that is not written to still has the bytes of its entry. *)
LEMMA RestSame ==
    ASSUME NEW m, NEW m2, NEW e \in EntryType,
           e.data = Null => e.len = 0,
           e.data # Null => m2[e.data] = m[e.data]
    PROVE  Rest(m2, e) = Rest(m, e)
  <1>1. CASE e.data # Null
    BY <1>1 DEF Rest
  <1>2. CASE e.data = Null
    <2>1. 1..(e.len - e.offset) = {}
      BY <1>2 DEF EntryType
    <2> QED
      BY <2>1 DEF Rest
  <1> QED
    BY <1>1, <1>2

(* A waiting put without a block was called with an empty text. *)
EmptyPut ==
    \A t \in Threads : Pending(t) /\ put[t].data = Null => \E p \in Payloads : PayloadLen[p] = 0

MapInv == FdMapInv /\ EmptyPut

LEMMA NextMapInv == MapInv /\ [Next]_vars => MapInv'
  <1> SUFFICES ASSUME MapInv, [Next]_vars PROVE EmptyPut'
    BY NextFdMap DEF MapInv
  <1>1. ASSUME NEW t \in Threads, NEW fd \in Fds, NEW p \in Payloads, PutAlloc(t, fd, p)
        PROVE  EmptyPut'
    BY <1>1, FdMapAssumption DEF PutAlloc, MapInv, FdMapInv, TypeOK, EmptyPut, Pending
  <1>2. ASSUME NEW t \in Threads, put' = [put EXCEPT ![t] = None] PROVE EmptyPut'
    BY <1>2 DEF MapInv, FdMapInv, TypeOK, EmptyPut, Pending
  <1>3. ASSUME put' = put PROVE EmptyPut'
    BY <1>3 DEF MapInv, EmptyPut, Pending
  <1> QED
    BY <1>1, <1>2, <1>3 DEF Next, vars, PutStore, PutFull, TakeRead, TakeReadMiss, Remove

(* What the invariant says of the entries and of the bytes they have. *)
LEMMA EntryFacts ==
    ASSUME FdMapInv, NEW i \in Slots
    PROVE  /\ entries[i] \in EntryType
           /\ entries[i].data = Null => entries[i].len = 0
           /\ entries[i].data # Null => mem[entries[i].data] \in Payloads
           /\ entries[i].offset <= entries[i].len
           /\ entries[i].active => SlotsOf(entries, entries[i].fd) = {i}
  <1>1. entries[i] \in EntryType /\ entries[i].data \in Blocks \cup {Null}
    BY DEF FdMapInv, TypeOK, EntryType
  <1>2. entries[i].data = Null => entries[i].len = 0
    BY DEF FdMapInv, ReadsInBounds, TextLen
  <1>3. entries[i].data # Null => mem[entries[i].data] \in Payloads
    BY <1>1 DEF FdMapInv, TypeOK, BlocksOwnedOnce
  <1>4. entries[i].offset <= entries[i].len
    BY DEF FdMapInv, ReadsInBounds
  <1>5. entries[i].active => SlotsOf(entries, entries[i].fd) = {i}
    BY DEF FdMapInv, UniqueFd, SlotsOf
  <1> QED
    BY <1>1, <1>2, <1>3, <1>4, <1>5

LEMMA RestSeq ==
    ASSUME FdMapInv, NEW i \in Slots
    PROVE  /\ Rest(mem, entries[i]) \in Seq(Payloads \X Nat)
           /\ Len(Rest(mem, entries[i])) = entries[i].len - entries[i].offset
           /\ Rest(mem, entries[i]) # None
  <1> DEFINE e == entries[i]
             n == e.len - e.offset
             B == Payloads \X Nat
  <1>1. /\ e.len \in Nat /\ e.offset \in Nat /\ n \in Nat
        /\ e.data = Null => n = 0
        /\ e.data # Null => mem[e.data] \in Payloads
    BY EntryFacts DEF EntryType
  <1>2. ASSUME NEW j \in 1..n PROVE <<mem[e.data], e.offset + j>> \in B
    <2>1. e.data # Null
      BY <1>1
    <2>2. mem[e.data] \in Payloads /\ e.offset + j \in Nat
      BY <1>1, <2>1
    <2> QED
      BY <2>2
  <1> HIDE DEF n, B
  <1>3. Rest(mem, e) \in [1..n -> B]
    BY <1>2 DEF Rest, n
  <1> HIDE DEF e
  <1>4. Rest(mem, e) \in Seq(B) /\ Len(Rest(mem, e)) = n
    BY <1>1, <1>3
  <1> QED
    BY <1>4, FdMapAssumption DEF e, n, B

(* A step that changes one entry, of fd, and no block of another entry     *)
(* leaves the other descriptors alone.                                     *)
LEMMA OthersSame ==
    ASSUME FdMapInv, NEW fd \in Fds, NEW slot \in Slots, NEW v,
           \A i \in Slots : i # slot => entries'[i] = entries[i],
           entries[slot].active => entries[slot].fd = fd,
           entries'[slot].active => entries'[slot].fd = fd,
           \A i \in Slots : i # slot /\ entries[i].data # Null
                              => mem'[entries[i].data] = mem[entries[i].data],
           Unread(entries', mem', fd) = v
    PROVE  unreadBar' = [unreadBar EXCEPT ![fd] = v]
  <1>1. ASSUME NEW f \in Fds, f # fd PROVE Unread(entries', mem', f) = Unread(entries, mem, f)
    <2>1. SlotsOf(entries', f) = SlotsOf(entries, f) /\ slot \notin SlotsOf(entries, f)
      BY <1>1 DEF SlotsOf
    <2>2. ASSUME NEW i \in SlotsOf(entries, f) PROVE Rest(mem', entries'[i]) = Rest(mem, entries[i])
      <3>1. i \in Slots /\ i # slot /\ entries'[i] = entries[i]
        BY <2>1 DEF SlotsOf
      <3>2. /\ entries[i] \in EntryType
            /\ entries[i].data = Null => entries[i].len = 0
            /\ entries[i].data # Null => mem'[entries[i].data] = mem[entries[i].data]
        BY <3>1, EntryFacts
      <3> QED
        BY <3>1, <3>2, RestSame
    <2> QED
      BY <2>1, <2>2, Frame
  <1> QED
    BY <1>1, MappedUnread

(* A step that changes no entry and no block of one is not seen. *)
LEMMA Unseen ==
    ASSUME FdMapInv, entries' = entries,
           \A i \in Slots : entries[i].data # Null => mem'[entries[i].data] = mem[entries[i].data]
    PROVE  unreadBar' = unreadBar
  <1>1. ASSUME NEW f \in Fds PROVE Unread(entries', mem', f) = Unread(entries, mem, f)
    <2>1. ASSUME NEW i \in SlotsOf(entries, f) PROVE Rest(mem', entries[i]) = Rest(mem, entries[i])
      <3>1. i \in Slots
        BY DEF SlotsOf
      <3>2. /\ entries[i] \in EntryType
            /\ entries[i].data = Null => entries[i].len = 0
            /\ entries[i].data # Null => mem'[entries[i].data] = mem[entries[i].data]
        BY <3>1, EntryFacts
      <3> QED
        BY <3>1, <3>2, RestSame
    <2> QED
      BY <2>1, Frame
  <1> QED
    BY <1>1, MappedUnread

LEMMA PutAllocUnseen ==
    ASSUME MapInv, NEW t \in Threads, NEW fd \in Fds, NEW p \in Payloads, PutAlloc(t, fd, p)
    PROVE  unreadBar' = unreadBar /\ out' = out
  <1>1. ASSUME NEW i \in Slots, entries[i].data # Null
        PROVE  mem'[entries[i].data] = mem[entries[i].data]
    <2>1. entries[i].data \in Blocks /\ mem[entries[i].data] # Free
      BY <1>1, EntryFacts DEF MapInv, FdMapInv, BlocksOwnedOnce, EntryType
    <2> QED
      BY <2>1 DEF PutAlloc, MapInv, FdMapInv, TypeOK
  <1> QED
    BY <1>1, Unseen DEF PutAlloc, MapInv

LEMMA PutFullUnseen ==
    ASSUME MapInv, NEW t \in Threads, PutFull(t)
    PROVE  unreadBar' = unreadBar /\ out' = out
  <1>1. PICK d \in Blocks \cup {Null} : d = put[t].data /\ Pending(t)
    BY DEF MapInv, FdMapInv, TypeOK, PutType, PutFull, Pending
  <1>2. \A b \in Blocks : b # d => mem'[b] = mem[b]
    BY <1>1, FreeBlockFacts DEF MapInv, FdMapInv, PutFull
  <1>3. ASSUME NEW i \in Slots, entries[i].data # Null
        PROVE  mem'[entries[i].data] = mem[entries[i].data]
    <2>1. entries[i].data \in Blocks
      BY <1>3, EntryFacts DEF MapInv, EntryType
    <2>2. entries[i].data # d
      BY <1>1, <1>3 DEF MapInv, FdMapInv, BlocksOwnedOnce
    <2> QED
      BY <1>2, <2>1, <2>2
  <1> QED
    BY <1>3, Unseen DEF PutFull, MapInv

(* Freeing the block of an entry spares the others. *)
LEMMA FreeSpares ==
    ASSUME FdMapInv, NEW slot \in Slots, mem' = FreeBlock(mem, entries[slot].data) \/ mem' = mem,
           NEW i \in Slots, i # slot, entries[i].data # Null
    PROVE  mem'[entries[i].data] = mem[entries[i].data]
  <1>1. PICK d \in Blocks \cup {Null} : d = entries[slot].data
    BY EntryFacts DEF EntryType
  <1>2. entries[i].data \in Blocks /\ entries[i].data # d
    BY <1>1, EntryFacts DEF EntryType, FdMapInv, BlocksOwnedOnce
  <1>3. CASE mem' = mem
    BY <1>3
  <1>4. CASE mem' = FreeBlock(mem, d)
    BY <1>2, <1>4, FreeBlockFacts DEF FdMapInv
  <1> QED
    BY <1>1, <1>3, <1>4

LEMMA PutStoreIsPut ==
    ASSUME MapInv, MapInv', NEW t \in Threads, NEW slot \in Slots, PutStore(t, slot)
    PROVE  \E fd \in Fds : \E bytes \in {TextOf(p) : p \in Payloads} : Map!Put(fd, bytes)
  <1>1. PICK x \in PutType : put[t] = x /\ x # None
    BY DEF MapInv, FdMapInv, PutStore, TypeOK
  <1> DEFINE fd == x.fd
  <1>2. fd \in Fds /\ x.data \in Blocks \cup {Null} /\ x.len \in Nat
    BY DEF PutType
  <1>3. /\ \A i \in Slots : i # slot => entries'[i] = entries[i]
        /\ entries'[slot].active /\ entries'[slot].data = x.data /\ entries'[slot].fd = fd
        /\ entries'[slot].len = x.len /\ entries'[slot].offset = 0
    BY <1>1 DEF MapInv, FdMapInv, TypeOK, PutStore
  <1>4. entries[slot].active => entries[slot].fd = fd
    BY <1>1 DEF PutStore, IsFirst, PutCandidates, Matching, Unused
  <1>5. \A i \in Slots : i # slot /\ entries[i].data # Null => mem'[entries[i].data] = mem[entries[i].data]
    BY FreeSpares DEF PutStore, MapInv
  <1>6. SlotsOf(entries', fd) = {slot}
    BY <1>3 DEF MapInv, FdMapInv, UniqueFd, SlotsOf
  <1>7. Unread(entries', mem', fd) = Rest(mem', entries'[slot])
    BY <1>6, UnreadOne
  <1>8. PICK p \in Payloads : Rest(mem', entries'[slot]) = TextOf(p)
    <2>1. CASE x.data = Null
      <3>1. PICK p \in Payloads : PayloadLen[p] = 0
        BY <1>1, <2>1 DEF MapInv, EmptyPut, Pending
      <3>2. x.len = 0
        BY <1>1, <2>1 DEF MapInv, FdMapInv, ReadsInBounds, TextLen, Pending
      <3>3. 1..(entries'[slot].len - entries'[slot].offset) = {} /\ 1..PayloadLen[p] = {}
        BY <1>3, <3>1, <3>2
      <3> QED
        BY <3>3 DEF Rest, TextOf
    <2>2. CASE x.data # Null
      <3>1. mem'[x.data] \in Payloads /\ x.len = PayloadLen[mem'[x.data]]
        BY <1>2, <1>3, <2>2 DEF MapInv, FdMapInv, TypeOK, BlocksOwnedOnce, ReadsInBounds, TextLen
      <3> DEFINE p == mem'[x.data]
      <3>2. 1..(entries'[slot].len - entries'[slot].offset) = 1..PayloadLen[p]
        BY <1>2, <1>3, <3>1
      <3>3. \A i \in 1..PayloadLen[p] : entries'[slot].offset + i = i
        BY <1>3
      <3>4. Rest(mem', entries'[slot]) = TextOf(p)
        BY <1>3, <3>2, <3>3 DEF Rest, TextOf
      <3> QED
        BY <3>1, <3>4
    <2> QED
      BY <2>1, <2>2
  <1> HIDE DEF fd
  <1>9. unreadBar' = [unreadBar EXCEPT ![fd] = TextOf(p)]
    BY <1>2, <1>3, <1>4, <1>5, <1>7, <1>8, OthersSame DEF MapInv
  <1>10. Map!Put(fd, TextOf(p))
    BY <1>9 DEF Map!Put, unreadBar, PutStore
  <1> QED
    BY <1>2, <1>10

LEMMA RemoveIsRemove ==
    ASSUME MapInv, MapInv', NEW fd \in Fds, NEW slot \in Slots, Remove(fd, slot)
    PROVE  Map!Remove(fd)
  <1>1. /\ \A i \in Slots : i # slot => entries'[i] = entries[i]
        /\ ~entries'[slot].active
        /\ entries[slot].active /\ entries[slot].fd = fd
    BY DEF MapInv, FdMapInv, TypeOK, Remove, Cleared, IsFirst, Matching
  <1>2. \A i \in Slots : i # slot /\ entries[i].data # Null => mem'[entries[i].data] = mem[entries[i].data]
    BY FreeSpares DEF Remove, MapInv
  <1>3. SlotsOf(entries, fd) = {slot}
    BY <1>1, EntryFacts DEF MapInv
  <1>4. SlotsOf(entries', fd) = {}
    BY <1>1, <1>3 DEF SlotsOf
  <1>5. Unread(entries', mem', fd) = None
    BY <1>4 DEF Unread
  <1>6. unreadBar' = [unreadBar EXCEPT ![fd] = None]
    BY <1>1, <1>2, <1>5, OthersSame DEF MapInv
  <1> QED
    BY <1>6 DEF Map!Remove, unreadBar, Remove

LEMMA MissIsMiss ==
    ASSUME MapInv, NEW fd \in Fds, TakeReadMiss(fd)
    PROVE  \E count \in Counts : Map!TakeRead(fd, count)
  <1>1. SlotsOf(entries, fd) = {}
    BY DEF TakeReadMiss, Matching, SlotsOf
  <1>2. unreadBar[fd] = None
    BY <1>1, MappedUnread DEF Unread
  <1>3. unreadBar' = unreadBar
    BY Unseen DEF TakeReadMiss, MapInv
  <1>4. PICK count \in Counts : TRUE
    BY FdMapAssumption
  <1>5. Map!TakeRead(fd, count)
    BY <1>2, <1>3 DEF Map!TakeRead, unreadBar, TakeReadMiss
  <1> QED
    BY <1>5

Copied(m, e, n) == [i \in 1..n |-> <<m[e.data], e.offset + i>>]

First(r, n) == SubSeq(r, 1, n)

Others(r, n) == SubSeq(r, n + 1, Len(r))

(* Reading n bytes of what an entry has left: the first n are returned and *)
(* the others stay.                                                        *)
LEMMA RestSplit ==
    ASSUME NEW m, NEW B, NEW e \in EntryType, NEW n \in Nat, e.offset + n <= e.len,
           Rest(m, e) \in Seq(B)
    PROVE  /\ Copied(m, e, n) = First(Rest(m, e), n)
           /\ Rest(m, Advanced(e, n)) = Others(Rest(m, e), n)
  <1> DEFINE l == e.len - e.offset
             r == Rest(m, e)
             a == Advanced(e, n)
  <1>1. /\ e.len \in Nat /\ e.offset \in Nat /\ l \in Nat /\ n <= l
    BY DEF EntryType
  <1>2. DOMAIN r = 1..l /\ \A i \in 1..l : r[i] = <<m[e.data], e.offset + i>>
    BY DEF Rest
  <1>3. Len(r) = l /\ \A i \in 1..l : r[i] \in B
    BY <1>1, <1>2, LenProperties, ElementOfSeq
  <1>4. a.data = e.data /\ a.len = e.len /\ a.offset = e.offset + n
    BY OffsetFacts
  <1> HIDE DEF r, a
  <1>5. [i \in 1..n |-> <<m[e.data], e.offset + i>>] = SubSeq(r, 1, n)
    <2> DEFINE g == SubSeq(r, 1, n)
    <2>1. /\ g \in Seq(B) /\ Len(g) = IF 1 <= n THEN n - 1 + 1 ELSE 0
          /\ \A i \in 1..(n - 1 + 1) : g[i] = r[1 + i - 1]
      <3>1. n \in Int /\ 1 \in Int /\ \A i \in 1..n : r[i] \in B
        BY <1>1, <1>3
      <3> QED
        BY <3>1, SubSeqProperties
    <2> HIDE DEF g
    <2>2. DOMAIN g = 1..n
      BY <1>1, <2>1, LenProperties
    <2>3. ASSUME NEW i \in 1..n PROVE g[i] = <<m[e.data], e.offset + i>>
      <3>1. i \in 1..l /\ i \in 1..(n - 1 + 1) /\ 1 + i - 1 = i
        BY <1>1
      <3> QED
        BY <1>2, <2>1, <3>1
    <2>4. g = [i \in 1..n |-> g[i]]
      BY <2>1, <2>2
    <2> QED
      BY <2>3, <2>4 DEF g
  <1>6. Rest(m, a) = SubSeq(r, n + 1, l)
    <2> DEFINE g == SubSeq(r, n + 1, l)
    <2>1. /\ g \in Seq(B) /\ Len(g) = IF n + 1 <= l THEN l - (n + 1) + 1 ELSE 0
          /\ \A i \in 1..(l - (n + 1) + 1) : g[i] = r[(n + 1) + i - 1]
      <3>1. n + 1 \in Int /\ l \in Int /\ \A i \in (n + 1)..l : r[i] \in B
        BY <1>1, <1>3
      <3> QED
        BY <3>1, SubSeqProperties
    <2> HIDE DEF g
    <2>2. a.len - a.offset = l - n /\ l - (n + 1) + 1 = l - n /\ Len(g) = l - n
      BY <1>1, <1>4, <2>1, SMTT(30)
    <2>3. DOMAIN g = 1..(l - n)
      BY <2>1, <2>2, LenProperties
    <2>4. ASSUME NEW i \in 1..(l - n) PROVE g[i] = <<m[a.data], a.offset + i>>
      <3>1. n + i \in 1..l /\ (n + 1) + i - 1 = n + i /\ e.offset + (n + i) = a.offset + i
        BY <1>1, <1>4
      <3>2. g[i] = r[n + i]
        BY <2>1, <2>2, <3>1
      <3> QED
        BY <1>2, <1>4, <3>1, <3>2
    <2>5. g = [i \in 1..(l - n) |-> g[i]]
      BY <2>1, <2>3
    <2> QED
      BY <2>2, <2>4, <2>5 DEF Rest, g
  <1> QED
    BY <1>3, <1>5, <1>6 DEF r, a, Copied, First, Others

LEMMA TakeReadIsTakeRead ==
    ASSUME MapInv, MapInv', NEW fd \in Fds, NEW count \in Counts, NEW slot \in Slots,
           TakeRead(fd, count, slot)
    PROVE  Map!TakeRead(fd, count)
  <1> DEFINE r == Rest(mem, entries[slot])
  <1>1. /\ entries[slot] \in EntryType /\ count \in Nat
        /\ entries[slot].active /\ entries[slot].fd = fd
        /\ entries[slot].offset <= entries[slot].len
    BY EntryFacts, FdMapAssumption DEF MapInv, TakeRead, IsFirst, Matching
  <1>2. PICK n \in Nat : n = Nread(entries[slot], count) /\ entries[slot].offset + n <= entries[slot].len
    BY <1>1 DEF EntryType, Nread
  <1>3. PICK a \in EntryType : a = entries[slot]
    BY <1>1
  <1>4. /\ entries' = [entries EXCEPT ![slot] = Advanced(a, n)]
        /\ out' = BytesOf(a, n) /\ mem' = mem
    BY <1>2, <1>3 DEF TakeRead
  <1>5. /\ \A i \in Slots : i # slot => entries'[i] = entries[i]
        /\ entries'[slot] = Advanced(a, n)
    BY <1>4 DEF MapInv, FdMapInv, TypeOK
  <1>6. /\ Advanced(a, n).active = a.active /\ Advanced(a, n).fd = a.fd
    BY OffsetFacts
  <1>7. SlotsOf(entries, fd) = {slot} /\ SlotsOf(entries', fd) = {slot}
    <2>1. SlotsOf(entries, fd) = {slot}
      BY <1>1, EntryFacts DEF MapInv
    <2>2. SlotsOf(entries', fd) = SlotsOf(entries, fd)
      BY <1>3, <1>5, <1>6 DEF SlotsOf
    <2> QED
      BY <2>1, <2>2
  <1>8. r \in Seq(Payloads \X Nat) /\ Len(r) = a.len - a.offset /\ r # None
    BY <1>3, RestSeq DEF MapInv
  <1>9. unreadBar[fd] = r
    BY <1>7, MappedUnread, UnreadOne
  <1>10. Map!Least(Len(r), count) = n
    BY <1>2, <1>3, <1>8 DEF Map!Least, Nread
  <1>11. /\ Copied(mem, a, n) = First(r, n)
         /\ Rest(mem, Advanced(a, n)) = Others(r, n)
    <2>1. /\ Rest(mem, a) = r /\ Rest(mem, a) \in Seq(Payloads \X Nat)
          /\ a.offset + n <= a.len
      BY <1>2, <1>3, <1>8
    <2> HIDE DEF r
    <2> QED
      BY <2>1, RestSplit, Zenon
  <1>12. Unread(entries', mem', fd) = Others(r, n)
    <2> HIDE DEF r
    <2>1. Unread(entries', mem', fd) = Rest(mem', entries'[slot])
      BY <1>7, UnreadOne, Zenon
    <2> QED
      BY <1>4, <1>5, <1>11, <2>1, Zenon
  <1> HIDE DEF r
  <1>13. unreadBar' = [unreadBar EXCEPT ![fd] = Others(r, n)]
    <2>1. /\ entries[slot].active => entries[slot].fd = fd
          /\ entries'[slot].active => entries'[slot].fd = fd
          /\ \A i \in Slots : i # slot /\ entries[i].data # Null
                              => mem'[entries[i].data] = mem[entries[i].data]
      BY <1>1, <1>3, <1>4, <1>5, <1>6
    <2> DEFINE v == Others(r, n)
    <2>2. Unread(entries', mem', fd) = v
      BY <1>12
    <2> HIDE DEF v
    <2>3. unreadBar' = [unreadBar EXCEPT ![fd] = v]
      BY <1>5, <2>1, <2>2, OthersSame DEF MapInv
    <2> QED
      BY <2>3 DEF v
  <1>14. out' = First(r, n)
    BY <1>4, <1>11 DEF BytesOf, Copied
  <1> QED
    BY <1>8, <1>9, <1>10, <1>13, <1>14 DEF Map!TakeRead, unreadBar, First, Others

(* fd_map.h: whatever the threads do at the same time, the table behaves   *)
(* as a map from descriptors to the bytes they have still to deliver, in   *)
(* which put, take_read and remove are single steps.                       *)
THEOREM TableImplementsMap == Spec => ImplementsMap
  <1>1. Init => MapInv
    BY InitFdMap DEF MapInv, Init, EmptyPut, Pending
  <1>2. Init => Map!Init
    BY DEF Init, Map!Init, UnreadOf, Matching, Zeroed
  <1>3. ASSUME MapInv, MapInv', [Next]_vars PROVE [Map!Next]_(Map!vars)
    <2>1. CASE UNCHANGED vars
      <3>1. unreadBar' = unreadBar
        BY <1>3, <2>1, Unseen DEF vars, MapInv
      <3> QED
        BY <2>1, <3>1 DEF vars, Map!vars, unreadBar
    <2>2. ASSUME NEW t \in Threads, NEW fd \in Fds, NEW p \in Payloads, PutAlloc(t, fd, p)
          PROVE  UNCHANGED Map!vars
      BY <1>3, <2>2, PutAllocUnseen DEF Map!vars, unreadBar
    <2>3. ASSUME NEW t \in Threads, PutFull(t) PROVE UNCHANGED Map!vars
      BY <1>3, <2>3, PutFullUnseen DEF Map!vars, unreadBar
    <2>4. ASSUME NEW t \in Threads, NEW slot \in Slots, PutStore(t, slot) PROVE Map!Next
      BY <1>3, <2>4, PutStoreIsPut DEF Map!Next
    <2>5. ASSUME NEW fd \in Fds, NEW slot \in Slots, NEW count \in Counts, TakeRead(fd, count, slot)
          PROVE  Map!Next
      BY <1>3, <2>5, TakeReadIsTakeRead DEF Map!Next
    <2>6. ASSUME NEW fd \in Fds, NEW slot \in Slots, Remove(fd, slot) PROVE Map!Next
      BY <1>3, <2>6, RemoveIsRemove DEF Map!Next
    <2>7. ASSUME NEW fd \in Fds, TakeReadMiss(fd) PROVE Map!Next
      BY <1>3, <2>7, MissIsMiss DEF Map!Next
    <2> QED
      BY <1>3, <2>1, <2>2, <2>3, <2>4, <2>5, <2>6, <2>7 DEF Next
  <1> QED
    BY <1>1, <1>2, <1>3, NextMapInv, PTL DEF Spec, ImplementsMap, Map!Spec
=============================================================================
