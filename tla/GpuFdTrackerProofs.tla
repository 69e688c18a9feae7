------------------------- MODULE GpuFdTrackerProofs -------------------------
(***************************************************************************)
(* Theorems about GpuFdTracker: the linked list of fd_tracker.c is a map,  *)
(* for any number of nodes and descriptors, and its records are true, for  *)
(* any names and limits.                                                   *)
(***************************************************************************)
EXTENDS GpuFdTracker, SelectionProofs, FiniteSetTheorems, TLAPS

-----------------------------------------------------------------------------
(* The walk along the list *)

Cells == [fd : Fds, record : Records, next : Nodes \cup {Null}]

Lists == [head : Nodes \cup {Null}, heap : [Nodes -> Cells \cup {Free}]]

Count == Cardinality(Nodes)

LEMMA CountType == Count \in Nat
  BY TrackerAssumption, FS_CardinalityType DEF Count

LEMMA AfterType ==
    ASSUME NEW l \in Lists, NEW node \in Nodes \cup {Null}
    PROVE  After(l, node) \in Nodes \cup {Null}
  BY DEF After, Lists, Cells

LEMMA WalkTurns ==
    ASSUME NEW l \in Lists
    PROVE  /\ At(l, 0) = l.head
           /\ \A k \in 1..Count : At(l, k) = After(l, At(l, k - 1))
  <1> DEFINE T == Nodes \cup {Null}
             k == Count
             turn == [i \in 1..k |-> [node \in T |-> After(l, node)]]
             g == WalkOf(l)
  <1>1. k \in Nat /\ l.head \in T
    BY CountType DEF Lists
  <1>2. turn \in [1..k -> [T -> T]]
    BY AfterType
  <1>3. \A i \in 1..k, node \in T : turn[i][node] = After(l, node)
    OBVIOUS
  <1> HIDE DEF turn, k, T
  <1>4. PICK f : Runs(f, T, k, l.head, turn)
    BY <1>1, <1>2, Recursion, Zenon
  <1>5. ASSUME NEW i \in 0..k
        PROVE  f[i] = IF i = 0 THEN l.head ELSE After(l, f[i - 1])
    <2>1. CASE i = 0
      BY <1>4, <2>1 DEF Runs
    <2>2. CASE i # 0
      <3>1. i \in 1..k /\ i - 1 \in 0..k
        BY <1>1, <2>2
      <3>2. f[i - 1] \in T /\ f[i] = turn[i][f[i - 1]]
        BY <1>4, <3>1 DEF Runs
      <3>3. f[i] = After(l, f[i - 1])
        BY <1>3, <3>1, <3>2, Zenon
      <3> QED
        BY <2>2, <3>3, Zenon
    <2> QED
      BY <2>1, <2>2
  <1>6. f = [i \in 0..k |-> f[i]]
    BY <1>4 DEF Runs
  <1>7. f = [i \in 0..k |-> IF i = 0 THEN l.head ELSE After(l, f[i - 1])]
    BY <1>5, <1>6, Zenon
  <1>8. g = [i \in 0..k |-> IF i = 0 THEN l.head ELSE After(l, g[i - 1])]
    BY <1>7, Zenon DEF WalkOf, k, Count
  <1> HIDE DEF g
  <1>9. 0 \in 0..k /\ \A i \in 1..k : i \in 0..k /\ i # 0
    BY <1>1
  <1>10. g[0] = l.head /\ \A i \in 1..k : g[i] = After(l, g[i - 1])
    BY <1>8, <1>9, Zenon
  <1> QED
    BY <1>10 DEF At, g, k

-----------------------------------------------------------------------------
(* The list as a sequence of nodes: s[1] is the head and s[m] the end.     *)

Chain(l, m, s) ==
    /\ m \in Nat /\ s \in [1..m -> Nodes]
    /\ \A i, j \in 1..m : s[i] = s[j] => i = j
    /\ l.head = IF m = 0 THEN Null ELSE s[1]
    /\ \A i \in 1..m : l.heap[s[i]] # Free
    /\ \A i \in 1..m : l.heap[s[i]].next = IF i < m THEN s[i + 1] ELSE Null
    /\ \A n \in Nodes : l.heap[n] # Free => \E i \in 1..m : s[i] = n
    /\ \A i, j \in 1..m : l.heap[s[i]].fd = l.heap[s[j]].fd => i = j

(* The inductive invariant of the list *)
Sound(l) == l \in Lists /\ \E m, s : Chain(l, m, s)

LEMMA ChainBound ==
    ASSUME NEW l \in Lists, NEW m, NEW s, Chain(l, m, s)
    PROVE  m <= Count
  <1>1. m \in Nat /\ s \in [1..m -> Nodes] /\ \A i, j \in 1..m : s[i] = s[j] => i = j
    BY DEF Chain
  <1>2. IsFiniteSet(1..m) /\ Cardinality(1..m) = m
    BY <1>1, FS_Interval
  <1>3. s \in Injection(1..m, Nodes)
    BY <1>1 DEF Injection, IsInjective
  <1> QED
    BY <1>2, <1>3, TrackerAssumption, FS_Injection DEF Count

LEMMA ChainAt ==
    ASSUME NEW l \in Lists, NEW m, NEW s, Chain(l, m, s), NEW k \in 0..Count
    PROVE  At(l, k) = IF k < m THEN s[k + 1] ELSE Null
  <1>1. m \in Nat /\ m <= Count /\ Count \in Nat /\ Null \notin Nodes
    BY ChainBound, CountType, TrackerAssumption DEF Chain
  <1> DEFINE P == {i \in Nat : i <= Count => At(l, i) = IF i < m THEN s[i + 1] ELSE Null}
  <1>2. 0 \in P
    BY <1>1, WalkTurns DEF Chain
  <1>3. ASSUME NEW i \in Nat, i \in P PROVE i + 1 \in P
    <2> SUFFICES ASSUME i + 1 <= Count PROVE At(l, i + 1) = IF i + 1 < m THEN s[(i + 1) + 1] ELSE Null
      OBVIOUS
    <2>1. i + 1 \in 1..Count /\ (i + 1) - 1 = i /\ i <= Count
      BY <1>1
    <2>2. At(l, i + 1) = After(l, At(l, i))
      BY <2>1, WalkTurns
    <2>3. At(l, i) = IF i < m THEN s[i + 1] ELSE Null
      BY <1>3, <2>1
    <2>4. CASE i < m
      <3>1. i + 1 \in 1..m /\ s[i + 1] \in Nodes
        BY <1>1, <2>4 DEF Chain
      <3>2. /\ l.heap[s[i + 1]] # Free
            /\ l.heap[s[i + 1]].next = IF i + 1 < m THEN s[(i + 1) + 1] ELSE Null
        BY <3>1 DEF Chain
      <3> QED
        BY <1>1, <2>2, <2>3, <2>4, <3>1, <3>2 DEF After
    <2>5. CASE ~(i < m)
      BY <1>1, <2>2, <2>3, <2>5 DEF After
    <2> QED
      BY <2>4, <2>5
  <1> HIDE DEF P
  <1>4. Nat \subseteq P
    BY <1>2, <1>3, NumberInduction
  <1> QED
    BY <1>1, <1>4 DEF P

(* The position of a descriptor, if it has one, is the only one. *)
LEMMA ChainMatches ==
    ASSUME NEW l \in Lists, NEW m, NEW s, Chain(l, m, s), NEW fd
    PROVE  /\ Positions(l) = {k \in 0..Count : k < m}
           /\ \A i \in 1..m : l.heap[s[i]].fd = fd => Matches(l, fd) = {i - 1} /\ At(l, i - 1) = s[i]
           /\ (\A i \in 1..m : l.heap[s[i]].fd # fd) => Matches(l, fd) = {}
  <1>1. m \in Nat /\ m <= Count /\ Count \in Nat /\ Null \notin Nodes
    BY ChainBound, CountType, TrackerAssumption DEF Chain
  <1>0. \A k \in 0..Count : At(l, k) = IF k < m THEN s[k + 1] ELSE Null
    BY ChainAt
  <1>2. \A k \in 0..Count : k < m => At(l, k) = s[k + 1] /\ k + 1 \in 1..m /\ s[k + 1] \in Nodes
    BY <1>0, <1>1 DEF Chain
  <1>3. \A k \in 0..Count : ~(k < m) => At(l, k) = Null
    BY <1>1, ChainAt
  <1>4. Positions(l) = {k \in 0..Count : k < m}
    BY <1>1, <1>2, <1>3 DEF Positions, Count
  <1>5. Matches(l, fd) = {k \in 0..Count : k < m /\ l.heap[s[k + 1]].fd = fd}
    BY <1>2, <1>4 DEF Matches
  <1>6. ASSUME NEW i \in 1..m, l.heap[s[i]].fd = fd
        PROVE  Matches(l, fd) = {i - 1} /\ At(l, i - 1) = s[i]
    <2>1. i - 1 \in 0..Count /\ i - 1 < m /\ (i - 1) + 1 = i
      BY <1>1
    <2>2. At(l, i - 1) = s[i]
      BY <1>2, <2>1
    <2>3. ASSUME NEW k \in 0..Count, k < m, l.heap[s[k + 1]].fd = fd PROVE k = i - 1
      <3>1. k + 1 \in 1..m
        BY <1>1, <2>3
      <3>2. k + 1 = i
        BY <1>6, <2>3, <3>1 DEF Chain
      <3> QED
        BY <3>2
    <2> QED
      BY <1>5, <1>6, <2>1, <2>2, <2>3
  <1>7. ASSUME \A i \in 1..m : l.heap[s[i]].fd # fd PROVE Matches(l, fd) = {}
    <2>1. \A k \in 0..Count : k < m => l.heap[s[k + 1]].fd # fd
      BY <1>2, <1>7
    <2> QED
      BY <1>5, <2>1
  <1> QED
    BY <1>4, <1>6, <1>7

LEMMA OnlyOne ==
    ASSUME NEW k \in Int
    PROVE  Min({k}) = k /\ Max({k}) = k
  BY DEF Min, Max

-----------------------------------------------------------------------------
(* What get finds: the record of the node of the descriptor. *)

Owns(l, n, fd) == n \in Nodes /\ l.heap[n] # Free /\ l.heap[n].fd = fd

LEMMA SoundMatches ==
    ASSUME NEW l, Sound(l), NEW fd
    PROVE  /\ \A n : Owns(l, n, fd) =>
                  /\ \E k \in 0..Count : Matches(l, fd) = {k}
                  /\ At(l, Min(Matches(l, fd))) = n /\ At(l, Max(Matches(l, fd))) = n
                  /\ MapGet(l, fd) = l.heap[n].record
           /\ (\A n : ~Owns(l, n, fd)) => Matches(l, fd) = {} /\ MapGet(l, fd) = NoRecord
           /\ \A n1, n2 : Owns(l, n1, fd) /\ Owns(l, n2, fd) => n1 = n2
  <1>0. PICK m, s : l \in Lists /\ Chain(l, m, s)
    BY DEF Sound
  <1>m. m <= Count
    BY <1>0, ChainBound
  <1>1. l \in Lists /\ m \in Nat /\ Count \in Nat /\ m <= Count
    BY <1>0, <1>m, CountType DEF Chain
  <1>2. ASSUME NEW n, Owns(l, n, fd)
        PROVE  \E i \in 1..m : n = s[i] /\ Matches(l, fd) = {i - 1} /\ At(l, i - 1) = n
    <2>1. PICK i \in 1..m : s[i] = n
      BY <1>0, <1>2 DEF Owns, Chain
    <2>2. l.heap[s[i]].fd = fd
      BY <1>2, <2>1 DEF Owns
    <2>3. \A j \in 1..m : l.heap[s[j]].fd = fd => Matches(l, fd) = {j - 1} /\ At(l, j - 1) = s[j]
      BY <1>0, ChainMatches
    <2> QED
      BY <2>1, <2>2, <2>3
  <1>3. ASSUME NEW n, Owns(l, n, fd)
        PROVE  /\ \E k \in 0..Count : Matches(l, fd) = {k}
               /\ At(l, Min(Matches(l, fd))) = n /\ At(l, Max(Matches(l, fd))) = n
               /\ MapGet(l, fd) = l.heap[n].record
    <2>1. PICK i \in 1..m : n = s[i] /\ Matches(l, fd) = {i - 1} /\ At(l, i - 1) = n
      BY <1>2, <1>3
    <2>2. i - 1 \in Int /\ i - 1 \in 0..Count
      BY <1>1
    <2>3. Min(Matches(l, fd)) = i - 1 /\ Max(Matches(l, fd)) = i - 1
      BY <2>1, <2>2, OnlyOne
    <2> QED
      BY <2>1, <2>2, <2>3 DEF MapGet
  <1>4. ASSUME \A n : ~Owns(l, n, fd) PROVE Matches(l, fd) = {} /\ MapGet(l, fd) = NoRecord
    <2>1. \A i \in 1..m : l.heap[s[i]].fd # fd
      BY <1>0, <1>4 DEF Owns, Chain
    <2>2. Matches(l, fd) = {}
      BY <1>0, <2>1, ChainMatches
    <2> QED
      BY <2>2 DEF MapGet
  <1>5. ASSUME NEW n1, NEW n2, Owns(l, n1, fd), Owns(l, n2, fd) PROVE n1 = n2
    <2>1. At(l, Min(Matches(l, fd))) = n1 /\ At(l, Min(Matches(l, fd))) = n2
      BY <1>3, <1>5
    <2> QED
      BY <2>1
  <1> QED
    BY <1>3, <1>4, <1>5

(* A list that is sound is whole: nothing leaks, nothing dangles, and it   *)
(* has an end.                                                             *)
LEMMA SoundWhole ==
    ASSUME NEW l, Sound(l)
    PROVE  Whole(l)
  <1>0. PICK m, s : l \in Lists /\ Chain(l, m, s)
    BY DEF Sound
  <1>m. m <= Count
    BY <1>0, ChainBound
  <1>1. l \in Lists /\ m \in Nat /\ Count \in Nat /\ m <= Count
    BY <1>0, <1>m, CountType DEF Chain
  <1>2. At(l, Count) = Null
    BY <1>0, <1>1, ChainAt
  <1>3. Positions(l) = {k \in 0..Count : k < m}
    BY <1>0, ChainMatches
  <1>4. \A k \in Positions(l) : At(l, k) = s[k + 1] /\ k + 1 \in 1..m
    BY <1>0, <1>1, <1>3, ChainAt
  <1>5. \A i \in 1..m : i - 1 \in Positions(l) /\ At(l, i - 1) = s[i]
    <2> SUFFICES ASSUME NEW i \in 1..m PROVE i - 1 \in Positions(l) /\ At(l, i - 1) = s[i]
      OBVIOUS
    <2>1. i - 1 \in 0..Count /\ i - 1 < m /\ (i - 1) + 1 = i
      BY <1>1
    <2> QED
      BY <1>0, <1>1, <1>3, <2>1, ChainAt
  <1>6. {At(l, k) : k \in Positions(l)} = {n \in Nodes : l.heap[n] # Free}
    <2>1. ASSUME NEW k \in Positions(l) PROVE At(l, k) \in Nodes /\ l.heap[At(l, k)] # Free
      BY <1>0, <1>4 DEF Chain
    <2>2. ASSUME NEW n \in Nodes, l.heap[n] # Free PROVE \E k \in Positions(l) : At(l, k) = n
      <3>1. PICK i \in 1..m : s[i] = n
        BY <1>0, <2>2 DEF Chain
      <3> QED
        BY <1>5, <3>1
    <2> QED
      BY <2>1, <2>2
  <1>7. ASSUME NEW fd \in Fds PROVE Cardinality(Matches(l, fd)) <= 1
    <2>1. CASE \E n : Owns(l, n, fd)
      <3>1. PICK k \in 0..Count : Matches(l, fd) = {k}
        BY <2>1, SoundMatches
      <3>2. Cardinality({k}) = 1
        BY FS_Singleton
      <3> QED
        BY <3>1, <3>2
    <2>2. CASE \A n : ~Owns(l, n, fd)
      <3>1. Matches(l, fd) = {}
        BY <2>2, SoundMatches
      <3> QED
        BY <3>1, FS_EmptySet
    <2> QED
      BY <2>1, <2>2
  <1> QED
    BY <1>2, <1>6, <1>7 DEF Whole, Count

-----------------------------------------------------------------------------
(* What the operations make of a list. *)

Cell(fd, rec, next) == [fd |-> fd, record |-> rec, next |-> next]

LEMMA SameRecord ==
    ASSUME NEW l, NEW l2, Sound(l), Sound(l2), NEW fd,
           \A n : Owns(l2, n, fd) <=> Owns(l, n, fd),
           \A n : Owns(l, n, fd) => l2.heap[n].record = l.heap[n].record
    PROVE  MapGet(l2, fd) = MapGet(l, fd)
  <1>1. CASE \E n : Owns(l, n, fd)
    <2>1. PICK n : Owns(l, n, fd)
      BY <1>1
    <2>2. MapGet(l, fd) = l.heap[n].record
      BY <2>1, SoundMatches
    <2>3. MapGet(l2, fd) = l2.heap[n].record
      BY <2>1, SoundMatches
    <2> QED
      BY <2>1, <2>2, <2>3
  <1>2. CASE \A n : ~Owns(l, n, fd)
    <2>1. MapGet(l, fd) = NoRecord
      BY <1>2, SoundMatches
    <2>2. MapGet(l2, fd) = NoRecord
      BY <1>2, SoundMatches
    <2> QED
      BY <2>1, <2>2
  <1> QED
    BY <1>1, <1>2

(* The record of one descriptor is replaced, and no other. *)
Replaces(l2, l, fd, rec) ==
    /\ Sound(l2)
    /\ MapGet(l2, fd) = rec
    /\ \A other : other # fd => MapGet(l2, other) = MapGet(l, other)

LEMMA OverwrittenHeap ==
    ASSUME NEW l \in Lists, NEW n \in Nodes, l.heap[n] # Free, NEW rec \in Records,
           NEW l2, l2 = Overwritten(l, n, rec)
    PROVE  /\ l2 \in Lists
           /\ l2.head = l.head
           /\ l2.heap[n] = Cell(l.heap[n].fd, rec, l.heap[n].next)
           /\ \A x \in Nodes : x # n => l2.heap[x] = l.heap[x]
  <1> DEFINE c == [l.heap[n] EXCEPT !.record = rec]
  <1>1. l.heap[n] \in Cells /\ l.heap \in [Nodes -> Cells \cup {Free}]
    BY DEF Lists
  <1>2. c \in Cells /\ c = Cell(l.heap[n].fd, rec, l.heap[n].next)
    BY <1>1 DEF Cells, Cell
  <1>3. l2 = [l EXCEPT !.heap = [l.heap EXCEPT ![n] = c]]
    BY DEF Overwritten
  <1> HIDE DEF c
  <1>4. l2.head = l.head /\ l2.heap = [l.heap EXCEPT ![n] = c] /\ l2 \in Lists
    BY <1>1, <1>2, <1>3 DEF Lists
  <1> QED
    BY <1>1, <1>2, <1>4

(* map_set and map_copy on a descriptor that has a node *)
LEMMA OverwrittenReplaces ==
    ASSUME NEW l, Sound(l), NEW n, NEW fd, Owns(l, n, fd), NEW rec \in Records
    PROVE  Replaces(Overwritten(l, n, rec), l, fd, rec)
  <1> DEFINE l2 == Overwritten(l, n, rec)
  <1>0. PICK m, s : l \in Lists /\ Chain(l, m, s)
    BY DEF Sound
  <1>1. n \in Nodes /\ l.heap[n] # Free /\ l.heap[n].fd = fd
    BY DEF Owns
  <1>2. /\ l2 \in Lists
        /\ l2.head = l.head
        /\ l2.heap[n] = Cell(l.heap[n].fd, rec, l.heap[n].next)
        /\ \A x \in Nodes : x # n => l2.heap[x] = l.heap[x]
    BY <1>0, <1>1, OverwrittenHeap
  <1> HIDE DEF l2
  <1>3. l2.heap[n] # Free
    BY <1>0, <1>1, <1>2, TrackerAssumption DEF Lists, Cells, Cell
  <1>4. \A x \in Nodes : /\ l2.heap[x] = Free <=> l.heap[x] = Free
                         /\ l2.heap[x].fd = l.heap[x].fd
                         /\ l2.heap[x].next = l.heap[x].next
    BY <1>1, <1>2, <1>3 DEF Cell
  <1>5. Chain(l2, m, s)
    <2>1. m \in Nat /\ \A i \in 1..m : s[i] \in Nodes
      BY <1>0 DEF Chain
    <2>2. \A i, j \in 1..m : l2.heap[s[i]].fd = l2.heap[s[j]].fd => i = j
      BY <1>0, <1>4, <2>1 DEF Chain
    <2> QED
      BY <1>0, <1>2, <1>4, <2>1, <2>2 DEF Chain
  <1>6. Sound(l2)
    BY <1>2, <1>5 DEF Sound
  <1>7. \A x, f : Owns(l2, x, f) <=> Owns(l, x, f)
    BY <1>4 DEF Owns
  <1>8. MapGet(l2, fd) = rec
    <2>1. Owns(l2, n, fd)
      BY <1>7
    <2>2. MapGet(l2, fd) = l2.heap[n].record
      BY <1>6, <2>1, SoundMatches
    <2> QED
      BY <1>2, <2>2 DEF Cell
  <1>9. ASSUME NEW other, other # fd PROVE MapGet(l2, other) = MapGet(l, other)
    <2>1. \A x : Owns(l, x, other) => l2.heap[x].record = l.heap[x].record
      BY <1>1, <1>2, <1>9 DEF Owns
    <2> QED
      BY <1>6, <1>7, <2>1, SameRecord
  <1> QED
    BY <1>6, <1>8, <1>9 DEF Replaces, l2

LEMMA PushedReplaces ==
    ASSUME NEW l, Sound(l), NEW fd \in Fds, NEW rec \in Records, \A n : ~Owns(l, n, fd),
           NEW new \in Pushed(l, fd, rec), new # l
    PROVE  Replaces(new, l, fd, rec)
  <1>0. PICK m, s : l \in Lists /\ Chain(l, m, s)
    BY DEF Sound
  <1>1. PICK n \in Nodes : /\ l.heap[n] = Free
                           /\ new = [head |-> n, heap |-> [l.heap EXCEPT ![n] = Cell(fd, rec, l.head)]]
    BY DEF Pushed, Cell
  <1>2. l.head \in Nodes \cup {Null} /\ l.heap \in [Nodes -> Cells \cup {Free}]
    BY <1>0 DEF Lists
  <1> DEFINE c == Cell(fd, rec, l.head)
  <1>3. c \in Cells /\ c # Free /\ c.fd = fd /\ c.record = rec /\ c.next = l.head
    BY <1>2, TrackerAssumption DEF Cell, Cells
  <1> HIDE DEF c
  <1>4. new.head = n /\ new.heap = [l.heap EXCEPT ![n] = c] /\ new \in Lists
    BY <1>1, <1>2, <1>3 DEF Lists, c
  <1>5. new.heap[n] = c /\ \A x \in Nodes : x # n => new.heap[x] = l.heap[x]
    BY <1>2, <1>4
  <1> DEFINE t == [i \in 1..(m + 1) |-> IF i = 1 THEN n ELSE s[i - 1]]
  <1>6. /\ m \in Nat /\ m + 1 \in Nat
        /\ \A i \in 1..m : s[i] \in Nodes /\ s[i] # n /\ new.heap[s[i]] = l.heap[s[i]]
    BY <1>0, <1>1, <1>5 DEF Chain
  <1>7. t \in [1..(m + 1) -> Nodes] /\ t[1] = n /\ \A i \in 1..m : t[i + 1] = s[i]
    <2>1. \A i \in 1..(m + 1) : i # 1 => i - 1 \in 1..m
      BY <1>6
    <2>2. \A i \in 1..m : i + 1 \in 1..(m + 1) /\ i + 1 # 1 /\ (i + 1) - 1 = i
      BY <1>6
    <2> QED
      BY <1>6, <2>1, <2>2
  <1>8. \A i \in 1..(m + 1) : i # 1 => i - 1 \in 1..m /\ t[i] = s[i - 1]
    <2>1. \A i \in 1..(m + 1) : i # 1 => i - 1 \in 1..m /\ (i - 1) + 1 = i
      BY <1>6
    <2> QED
      BY <2>1
  <1> HIDE DEF t
  <1>9. Chain(new, m + 1, t)
    <2>0. \A i \in 1..(m + 1) : IF i = 1 THEN new.heap[t[i]] = c
                                 ELSE i - 1 \in 1..m /\ new.heap[t[i]] = l.heap[s[i - 1]]
      BY <1>5, <1>6, <1>7, <1>8
    <2>1. \A i, j \in 1..(m + 1) : t[i] = t[j] => i = j
      <3>1. \A i, j \in 1..m : s[i] = s[j] => i = j
        BY <1>0 DEF Chain
      <3> QED
        BY <1>6, <1>7, <1>8, <3>1
    <2>2. \A i \in 1..(m + 1) : new.heap[t[i]] # Free
      <3>1. \A i \in 1..m : l.heap[s[i]] # Free
        BY <1>0 DEF Chain
      <3> QED
        BY <1>3, <2>0, <3>1
    <2>3. ASSUME NEW i \in 1..(m + 1)
          PROVE  new.heap[t[i]].next = IF i < m + 1 THEN t[i + 1] ELSE Null
      <3>1. CASE i = 1
        <4>1. l.head = IF m = 0 THEN Null ELSE s[1]
          BY <1>0 DEF Chain
        <4>2. m # 0 => 1 \in 1..m /\ t[1 + 1] = s[1]
          BY <1>6, <1>7
        <4> QED
          BY <1>3, <1>5, <1>6, <1>7, <3>1, <4>1, <4>2
      <3>2. CASE i # 1
        <4>1. i - 1 \in 1..m /\ t[i] = s[i - 1]
          BY <1>8, <3>2
        <4>2. l.heap[s[i - 1]].next = IF i - 1 < m THEN s[(i - 1) + 1] ELSE Null
          BY <1>0, <4>1 DEF Chain
        <4>3. i < m + 1 => i \in 1..m /\ t[i + 1] = s[i]
          BY <1>6, <1>7, <3>2
        <4> QED
          BY <1>6, <4>1, <4>2, <4>3
      <3> QED
        BY <3>1, <3>2
    <2>4. ASSUME NEW x \in Nodes, new.heap[x] # Free PROVE \E i \in 1..(m + 1) : t[i] = x
      <3>1. CASE x = n
        BY <1>6, <1>7, <3>1
      <3>2. CASE x # n
        <4>1. PICK i \in 1..m : s[i] = x
          BY <1>0, <1>5, <2>4, <3>2 DEF Chain
        <4>2. i + 1 \in 1..(m + 1) /\ t[i + 1] = x
          BY <1>6, <1>7, <4>1
        <4> QED
          BY <4>2
      <3> QED
        BY <3>1, <3>2
    <2>5. \A i, j \in 1..(m + 1) : new.heap[t[i]].fd = new.heap[t[j]].fd => i = j
      <3>1. \A i, j \in 1..m : l.heap[s[i]].fd = l.heap[s[j]].fd => i = j
        BY <1>0 DEF Chain
      <3>2. \A i \in 1..m : l.heap[s[i]].fd # fd
        BY <1>0, <1>6 DEF Chain, Owns
      <3>3. ASSUME NEW i \in 1..(m + 1), NEW j \in 1..(m + 1), i # 1, j # 1,
                   new.heap[t[i]].fd = new.heap[t[j]].fd
            PROVE  i = j
        <4>1. i - 1 = j - 1
          BY <2>0, <3>1, <3>3
        <4> QED
          BY <1>6, <4>1
      <3>4. ASSUME NEW i \in 1..(m + 1), i # 1 PROVE new.heap[t[i]].fd # new.heap[t[1]].fd
        BY <1>3, <1>5, <1>7, <2>0, <3>2, <3>4
      <3> QED
        BY <3>3, <3>4
    <2> QED
      BY <1>4, <1>6, <1>7, <2>1, <2>2, <2>3, <2>4, <2>5 DEF Chain
  <1>10. Sound(new)
    BY <1>4, <1>9 DEF Sound
  <1>11. MapGet(new, fd) = rec
    <2>1. Owns(new, n, fd)
      BY <1>3, <1>5 DEF Owns
    <2>2. MapGet(new, fd) = new.heap[n].record
      BY <1>10, <2>1, SoundMatches
    <2> QED
      BY <1>3, <1>5, <2>2
  <1>12. ASSUME NEW other, other # fd PROVE MapGet(new, other) = MapGet(l, other)
    <2>1. \A x : Owns(new, x, other) <=> Owns(l, x, other)
      BY <1>1, <1>3, <1>5, <1>12 DEF Owns
    <2>2. \A x : Owns(l, x, other) => new.heap[x].record = l.heap[x].record
      BY <1>1, <1>5 DEF Owns
    <2> QED
      BY <1>10, <2>1, <2>2, SameRecord
  <1> QED
    BY <1>10, <1>11, <1>12 DEF Replaces

(* The list without its node n, when prev is the one before it *)
LEMMA UnlinkedHeap ==
    ASSUME NEW l \in Lists, NEW k \in Nat, NEW n \in Nodes, At(l, k) = n, l.heap[n] # Free,
           NEW prev, k # 0 => prev \in Nodes /\ prev # n /\ At(l, k - 1) = prev /\ l.heap[prev] # Free,
           NEW l2, l2 = Unlinked(l, k)
    PROVE  /\ l2 \in Lists
           /\ l2.head = IF k = 0 THEN l.heap[n].next ELSE l.head
           /\ l2.heap[n] = Free
           /\ \A x \in Nodes : x # n =>
                  l2.heap[x] = IF k # 0 /\ x = prev
                               THEN Cell(l.heap[x].fd, l.heap[x].record, l.heap[n].next)
                               ELSE l.heap[x]
  <1> DEFINE next == l.heap[n].next
             heap == [l.heap EXCEPT ![n] = Free]
  <1>1. l.heap[n] \in Cells /\ l.heap \in [Nodes -> Cells \cup {Free}] /\ l.head \in Nodes \cup {Null}
    BY DEF Lists
  <1>2. next \in Nodes \cup {Null}
    BY <1>1 DEF Cells
  <1>3. /\ heap \in [Nodes -> Cells \cup {Free}] /\ heap[n] = Free
        /\ \A x \in Nodes : x # n => heap[x] = l.heap[x]
    BY <1>1
  <1> HIDE DEF next
  <1>4. CASE k = 0
    <2>1. l2 = [head |-> next, heap |-> heap]
      BY <1>4 DEF Unlinked, next
    <2> HIDE DEF heap
    <2> QED
      BY <1>2, <1>3, <1>4, <2>1 DEF Lists, next
  <1>5. CASE k # 0
    <2> DEFINE c == [heap[prev] EXCEPT !.next = next]
    <2>1. l2 = [l EXCEPT !.heap = [heap EXCEPT ![prev] = c]]
      BY <1>5 DEF Unlinked, next
    <2>2. prev \in Nodes /\ prev # n /\ heap[prev] = l.heap[prev] /\ l.heap[prev] \in Cells
      BY <1>1, <1>3, <1>5
    <2> HIDE DEF heap
    <2>3. c \in Cells /\ c = Cell(l.heap[prev].fd, l.heap[prev].record, next)
      BY <1>2, <2>2 DEF Cells, Cell
    <2> HIDE DEF c
    <2>4. l2.head = l.head /\ l2.heap = [heap EXCEPT ![prev] = c] /\ l2 \in Lists
      BY <1>3, <2>1, <2>3 DEF Lists
    <2> QED
      BY <1>3, <1>5, <2>2, <2>3, <2>4 DEF next
  <1> QED
    BY <1>4, <1>5

(* map_remove, and map_copy of a descriptor that has no record *)
LEMMA UnlinkedReplaces ==
    ASSUME NEW l, Sound(l), NEW n, NEW fd, Owns(l, n, fd), NEW k \in 0..Count, Matches(l, fd) = {k}
    PROVE  Replaces(Unlinked(l, k), l, fd, NoRecord)
  <1> DEFINE l2 == Unlinked(l, k)
  <1>0. PICK m, s : l \in Lists /\ Chain(l, m, s)
    BY DEF Sound
  <1>1. n \in Nodes /\ l.heap[n] # Free /\ l.heap[n].fd = fd
    BY DEF Owns
  <1>m. m \in Nat /\ m <= Count /\ Count \in Nat
    <2>1. m <= Count
      BY <1>0, ChainBound
    <2> QED
      BY <1>0, <2>1, CountType DEF Chain
  <1>2. \A i \in 1..m : s[i] \in Nodes /\ l.heap[s[i]] # Free
    BY <1>0 DEF Chain
  <1>s. \A i, j \in 1..m : s[i] = s[j] => i = j
    BY <1>0 DEF Chain
  <1>3. k + 1 \in 1..m /\ s[k + 1] = n /\ At(l, k) = n /\ (k # 0 => k \in 1..m /\ At(l, k - 1) = s[k])
    <2>1. PICK i \in 1..m : s[i] = n
      BY <1>0, <1>1 DEF Chain
    <2>2. \A j \in 1..m : l.heap[s[j]].fd = fd => Matches(l, fd) = {j - 1} /\ At(l, j - 1) = s[j]
      BY <1>0, ChainMatches
    <2>3. Matches(l, fd) = {i - 1} /\ At(l, i - 1) = n
      BY <1>1, <2>1, <2>2
    <2>4. k = i - 1
      BY <2>3
    <2>5. i \in Int /\ k + 1 = i /\ (k # 0 => k \in 1..m /\ k - 1 \in 0..Count /\ k - 1 < m /\ (k - 1) + 1 = k)
      BY <1>m, <2>4
    <2>6. \A j \in 0..Count : At(l, j) = IF j < m THEN s[j + 1] ELSE Null
      BY <1>0, ChainAt
    <2>7. k # 0 => At(l, k - 1) = s[k]
      BY <2>5, <2>6
    <2> QED
      BY <2>1, <2>3, <2>4, <2>5, <2>7
  <1> DEFINE prev == s[k]
             next == l.heap[n].next
  <1>4. k # 0 => prev \in Nodes /\ prev # n /\ At(l, k - 1) = prev /\ l.heap[prev] # Free
    BY <1>2, <1>3, <1>s
  <1> HIDE DEF prev
  <1>5. /\ l2 \in Lists
        /\ l2.head = IF k = 0 THEN next ELSE l.head
        /\ l2.heap[n] = Free
        /\ \A x \in Nodes : x # n =>
               l2.heap[x] = IF k # 0 /\ x = prev
                            THEN Cell(l.heap[x].fd, l.heap[x].record, next)
                            ELSE l.heap[x]
    BY <1>0, <1>1, <1>3, <1>4, UnlinkedHeap
  <1>6. next \in Nodes \cup {Null} /\ next = IF k + 1 < m THEN s[(k + 1) + 1] ELSE Null
    BY <1>0, <1>1, <1>3 DEF Chain, Lists, Cells
  <1> HIDE DEF l2, next
  <1>7. \A x \in Nodes : x # n => /\ l2.heap[x] = Free <=> l.heap[x] = Free
                                  /\ l2.heap[x].fd = l.heap[x].fd
                                  /\ l2.heap[x].record = l.heap[x].record
                                  /\ l2.heap[x].next = IF k # 0 /\ x = prev THEN next ELSE l.heap[x].next
    <2>1. ASSUME NEW x \in Nodes, k # 0, x = prev
          PROVE  Cell(l.heap[x].fd, l.heap[x].record, next) # Free
      <3>1. l.heap[x] \in Cells
        BY <1>0, <1>4, <2>1 DEF Lists
      <3> QED
        BY <1>6, <3>1, TrackerAssumption DEF Cells, Cell
    <2>2. ASSUME NEW x \in Nodes, x # n, k # 0, x = prev
          PROVE  /\ l2.heap[x] # Free /\ l.heap[x] # Free
                 /\ l2.heap[x] = Cell(l.heap[x].fd, l.heap[x].record, next)
      BY <1>4, <1>5, <2>1, <2>2
    <2>3. ASSUME NEW x \in Nodes, x # n, ~(k # 0 /\ x = prev) PROVE l2.heap[x] = l.heap[x]
      BY <1>5, <2>3
    <2> SUFFICES ASSUME NEW x \in Nodes, x # n
                 PROVE  /\ l2.heap[x] = Free <=> l.heap[x] = Free
                        /\ l2.heap[x].fd = l.heap[x].fd
                        /\ l2.heap[x].record = l.heap[x].record
                        /\ l2.heap[x].next = IF k # 0 /\ x = prev THEN next ELSE l.heap[x].next
      OBVIOUS
    <2>4. CASE k # 0 /\ x = prev
      <3>1. /\ l2.heap[x] # Free /\ l.heap[x] # Free
            /\ l2.heap[x] = Cell(l.heap[x].fd, l.heap[x].record, next)
        BY <2>2, <2>4, Zenon
      <3>2. l2.heap[x].fd = l.heap[x].fd /\ l2.heap[x].record = l.heap[x].record /\ l2.heap[x].next = next
        BY <3>1 DEF Cell
      <3> QED
        BY <2>4, <3>1, <3>2, Zenon
    <2>5. CASE ~(k # 0 /\ x = prev)
      <3>1. l2.heap[x] = l.heap[x]
        BY <2>3, <2>5
      <3> QED
        BY <2>5, <3>1
    <2> QED
      BY <2>4, <2>5
  <1> DEFINE t == [i \in 1..(m - 1) |-> IF i <= k THEN s[i] ELSE s[i + 1]]
  <1>8. \A i \in 1..(m - 1) : i \in 1..m /\ i + 1 \in 1..m
    BY <1>m
  <1>9. m - 1 \in Nat
    BY <1>m, <1>3
  <1>10. /\ t \in [1..(m - 1) -> Nodes]
         /\ \A i \in 1..(m - 1) : t[i] = IF i <= k THEN s[i] ELSE s[i + 1]
    BY <1>2, <1>8
  <1> HIDE DEF t
  <1>11. \A i \in 1..(m - 1) : t[i] # n
    BY <1>3, <1>8, <1>10, <1>s
  <1>12. Chain(l2, m - 1, t)
    <2>1. \A i, j \in 1..(m - 1) : t[i] = t[j] => i = j
      BY <1>8, <1>9, <1>10, <1>s
    <2>2. l2.head = IF m - 1 = 0 THEN Null ELSE t[1]
      <3>1. CASE k = 0
        <4>0. m - 1 # 0 => 1 \in 1..(m - 1) /\ ~(1 <= k)
          BY <1>m, <1>9, <3>1
        <4>1. m - 1 # 0 => t[1] = s[1 + 1]
          BY <1>10, <4>0
        <4>2. next = IF m - 1 = 0 THEN Null ELSE s[1 + 1]
          BY <1>3, <1>6, <1>m, <3>1
        <4> QED
          BY <1>5, <3>1, <4>1, <4>2
      <3>2. CASE k # 0
        <4>1. m - 1 # 0 /\ m # 0 /\ 1 \in 1..(m - 1) /\ 1 <= k
          BY <1>3, <1>m, <3>2
        <4>2. l.head = s[1]
          BY <1>0, <4>1 DEF Chain
        <4> QED
          BY <1>5, <1>10, <3>2, <4>1, <4>2
      <3> QED
        BY <3>1, <3>2
    <2>3. \A i \in 1..(m - 1) : l2.heap[t[i]] # Free
      BY <1>2, <1>7, <1>8, <1>10, <1>11
    <2>4. ASSUME NEW i \in 1..(m - 1)
          PROVE  l2.heap[t[i]].next = IF i < m - 1 THEN t[i + 1] ELSE Null
      <3>0. /\ i < m - 1 => i + 1 \in 1..(m - 1)
            /\ t[i] \in Nodes /\ t[i] # n
        BY <1>9, <1>10, <1>11
      <3>n. \A j \in 1..m : l.heap[s[j]].next = IF j < m THEN s[j + 1] ELSE Null
        BY <1>0 DEF Chain
      <3>1. CASE i < k
        <4>1. t[i] = s[i] /\ s[i] # prev /\ i \in 1..m /\ i < m - 1 /\ i < m /\ i + 1 <= k
          BY <1>3, <1>8, <1>10, <1>s, <1>m, <3>1 DEF prev
        <4>2. t[i + 1] = s[i + 1]
          BY <1>10, <3>0, <4>1
        <4> QED
          BY <1>7, <3>0, <3>n, <4>1, <4>2
      <3>2. CASE i = k
        <4>1. k # 0 /\ i <= k /\ t[i] = prev
          BY <1>10, <3>2 DEF prev
        <4>2. l2.heap[t[i]].next = next
          BY <1>7, <3>0, <4>1
        <4>3. k + 1 < m <=> i < m - 1
          BY <1>m, <3>2
        <4>4. i < m - 1 => t[i + 1] = s[(k + 1) + 1]
          BY <1>10, <3>0, <3>2
        <4> QED
          BY <1>6, <4>2, <4>3, <4>4
      <3>3. CASE i > k
        <4>1. i + 1 \in 1..m /\ i + 1 # k /\ ~(i <= k) /\ ~(i + 1 <= k) /\ (i + 1 < m <=> i < m - 1)
          BY <1>8, <1>m, <3>3
        <4>2. t[i] = s[i + 1] /\ (i < m - 1 => t[i + 1] = s[(i + 1) + 1])
          BY <1>10, <3>0, <4>1
        <4>3. k # 0 => s[i + 1] # prev
          BY <1>3, <1>s, <4>1 DEF prev
        <4>4. l2.heap[t[i]].next = l.heap[s[i + 1]].next
          BY <1>7, <3>0, <4>2, <4>3
        <4> QED
          BY <3>n, <4>1, <4>2, <4>4
      <3> QED
        BY <3>1, <3>2, <3>3
    <2>5. ASSUME NEW x \in Nodes, l2.heap[x] # Free PROVE \E i \in 1..(m - 1) : t[i] = x
      <3>1. x # n
        BY <1>5, <2>5
      <3>2. PICK i \in 1..m : s[i] = x
        BY <1>0, <1>7, <2>5, <3>1 DEF Chain
      <3>3. i # k + 1
        BY <1>3, <3>1, <3>2
      <3>4. CASE i <= k
        <4>1. i \in 1..(m - 1)
          BY <1>3, <1>m, <3>4
        <4> QED
          BY <1>10, <3>2, <3>4, <4>1
      <3>5. CASE ~(i <= k)
        <4>1. i - 1 \in 1..(m - 1) /\ ~(i - 1 <= k) /\ (i - 1) + 1 = i
          BY <1>m, <3>3, <3>5
        <4>2. t[i - 1] = x
          BY <1>10, <3>2, <4>1
        <4> QED
          BY <4>1, <4>2
      <3> QED
        BY <3>4, <3>5
    <2>6. \A i, j \in 1..(m - 1) : l2.heap[t[i]].fd = l2.heap[t[j]].fd => i = j
      <3>1. \A i, j \in 1..m : l.heap[s[i]].fd = l.heap[s[j]].fd => i = j
        BY <1>0 DEF Chain
      <3>2. \A i \in 1..(m - 1) : l2.heap[t[i]].fd = l.heap[t[i]].fd
        BY <1>7, <1>10, <1>11
      <3>3. ASSUME NEW i \in 1..(m - 1), NEW j \in 1..(m - 1), l2.heap[t[i]].fd = l2.heap[t[j]].fd
            PROVE  i = j
        <4>1. PICK a \in 1..m : a = (IF i <= k THEN i ELSE i + 1) /\ t[i] = s[a]
          BY <1>8, <1>10
        <4>2. PICK b \in 1..m : b = (IF j <= k THEN j ELSE j + 1) /\ t[j] = s[b]
          BY <1>8, <1>10
        <4>3. l.heap[s[a]].fd = l.heap[s[b]].fd
          BY <3>2, <3>3, <4>1, <4>2
        <4>4. a = b
          BY <3>1, <4>3
        <4> QED
          BY <1>m, <4>1, <4>2, <4>4
      <3> QED
        BY <3>3
    <2> QED
      BY <1>9, <1>10, <2>1, <2>2, <2>3, <2>4, <2>5, <2>6 DEF Chain
  <1>13. Sound(l2)
    BY <1>5, <1>12 DEF Sound
  <1>14. MapGet(l2, fd) = NoRecord
    <2>1. \A x : Owns(l, x, fd) => x = n
      BY SoundMatches
    <2>2. \A x : ~Owns(l2, x, fd)
      BY <1>5, <1>7, <2>1 DEF Owns
    <2> QED
      BY <1>13, <2>2, SoundMatches
  <1>15. ASSUME NEW other, other # fd PROVE MapGet(l2, other) = MapGet(l, other)
    <2>1. \A x : Owns(l2, x, other) <=> Owns(l, x, other)
      BY <1>1, <1>5, <1>7, <1>15 DEF Owns
    <2>2. \A x : Owns(l, x, other) => l2.heap[x].record = l.heap[x].record
      BY <1>1, <1>7, <1>15 DEF Owns
    <2> QED
      BY <1>13, <2>1, <2>2, SameRecord
  <1> QED
    BY <1>13, <1>14, <1>15 DEF Replaces, l2

LEMMA NoMatch ==
    ASSUME NEW l, Sound(l), NEW fd, Matches(l, fd) = {}
    PROVE  (\A n : ~Owns(l, n, fd)) /\ MapGet(l, fd) = NoRecord
  <1>1. ASSUME NEW n, Owns(l, n, fd) PROVE FALSE
    <2>1. PICK k \in 0..Count : Matches(l, fd) = {k}
      BY <1>1, SoundMatches
    <2> QED
      BY <2>1
  <1> QED
    BY <1>1 DEF MapGet

LEMMA OneMatch ==
    ASSUME NEW l, Sound(l), NEW fd, Matches(l, fd) # {}
    PROVE  \E n \in Nodes, k \in 0..Count :
               /\ Owns(l, n, fd) /\ Matches(l, fd) = {k}
               /\ Min(Matches(l, fd)) = k /\ Max(Matches(l, fd)) = k /\ At(l, k) = n
               /\ MapGet(l, fd) = l.heap[n].record /\ l.heap[n].record \in Records
  <1>1. PICK n : Owns(l, n, fd)
    BY SoundMatches
  <1>2. PICK k \in 0..Count : Matches(l, fd) = {k}
    BY <1>1, SoundMatches
  <1>3. At(l, Min(Matches(l, fd))) = n /\ MapGet(l, fd) = l.heap[n].record
    BY <1>1, SoundMatches
  <1>4. Min({k}) = k /\ Max({k}) = k
    BY OnlyOne
  <1>5. n \in Nodes /\ l.heap[n].record \in Records
    BY <1>1 DEF Owns, Sound, Lists, Cells
  <1> QED
    BY <1>1, <1>2, <1>3, <1>4, <1>5

LEMMA GetType ==
    ASSUME NEW l, Sound(l), NEW fd
    PROVE  MapGet(l, fd) \in Records
  <1>1. CASE Matches(l, fd) = {}
    BY <1>1, NoMatch, PathAssumption DEF NoRecord, Records
  <1>2. CASE Matches(l, fd) # {}
    BY <1>2, OneMatch
  <1> QED
    BY <1>1, <1>2

LEMMA MapRemoveEffect ==
    ASSUME NEW l, Sound(l), NEW fd
    PROVE  Replaces(MapRemove(l, fd), l, fd, NoRecord)
  <1>1. CASE Matches(l, fd) = {}
    BY <1>1, NoMatch DEF Replaces, MapRemove
  <1>2. CASE Matches(l, fd) # {}
    <2>1. PICK n \in Nodes, k \in 0..Count :
              Owns(l, n, fd) /\ Matches(l, fd) = {k} /\ Min(Matches(l, fd)) = k
      BY <1>2, OneMatch
    <2>2. Replaces(Unlinked(l, k), l, fd, NoRecord)
      BY <2>1, UnlinkedReplaces
    <2>3. MapRemove(l, fd) = Unlinked(l, k)
      BY <1>2, <2>1, Zenon DEF MapRemove
    <2> QED
      BY <2>2, <2>3, Zenon
  <1> QED
    BY <1>1, <1>2

LEMMA MapSetEffect ==
    ASSUME NEW l, Sound(l), NEW fd \in Fds, NEW rec \in Records, NEW l2 \in MapSet(l, fd, rec)
    PROVE  Replaces(l2, l, fd, rec) \/ (l2 = l /\ Matches(l, fd) = {})
  <1>1. CASE Matches(l, fd) = {}
    <2>1. \A n : ~Owns(l, n, fd)
      BY <1>1, NoMatch
    <2>2. l2 \in Pushed(l, fd, rec)
      BY <1>1, Zenon DEF MapSet
    <2>3. l2 # l => Replaces(l2, l, fd, rec)
      BY <2>1, <2>2, PushedReplaces
    <2> QED
      BY <1>1, <2>3
  <1>2. CASE Matches(l, fd) # {}
    <2>1. PICK n \in Nodes, k \in 0..Count :
              Owns(l, n, fd) /\ Min(Matches(l, fd)) = k /\ At(l, k) = n
      BY <1>2, OneMatch
    <2>2. Replaces(Overwritten(l, n, rec), l, fd, rec)
      BY <2>1, OverwrittenReplaces
    <2>3. l2 = Overwritten(l, n, rec)
      BY <1>2, <2>1, Zenon DEF MapSet
    <2> QED
      BY <2>2, <2>3, Zenon
  <1> QED
    BY <1>1, <1>2

LEMMA MapCopyEffect ==
    ASSUME NEW l, Sound(l), NEW old, NEW new \in Fds, NEW l2 \in MapCopy(l, old, new)
    PROVE  Replaces(l2, l, new, MapGet(l, old)) \/ (l2 = l /\ Matches(l, new) = {})
  <1>1. CASE Matches(l, old) # {}
    <2>1. PICK n1 \in Nodes, k1 \in 0..Count :
              /\ Max(Matches(l, old)) = k1 /\ At(l, k1) = n1
              /\ MapGet(l, old) = l.heap[n1].record
      BY <1>1, OneMatch
    <2> DEFINE rec == MapGet(l, old)
    <2>2. rec \in Records /\ l.heap[At(l, Max(Matches(l, old)))].record = rec
      BY <2>1, GetType, Zenon
    <2>3. l2 \in IF Matches(l, new) = {} THEN Pushed(l, new, rec)
                 ELSE {Overwritten(l, At(l, Max(Matches(l, new))), rec)}
      BY <1>1, <2>2, Zenon DEF MapCopy
    <2> HIDE DEF rec
    <2>4. CASE Matches(l, new) = {}
      <3>1. \A n : ~Owns(l, n, new)
        BY <2>4, NoMatch
      <3>2. l2 \in Pushed(l, new, rec)
        BY <2>3, <2>4, Zenon
      <3>3. l2 # l => Replaces(l2, l, new, rec)
        BY <2>2, <3>1, <3>2, PushedReplaces
      <3> QED
        BY <2>4, <3>3 DEF rec
    <2>5. CASE Matches(l, new) # {}
      <3>1. PICK n \in Nodes, k \in 0..Count :
                Owns(l, n, new) /\ Max(Matches(l, new)) = k /\ At(l, k) = n
        BY <2>5, OneMatch
      <3>2. Replaces(Overwritten(l, n, rec), l, new, rec)
        BY <2>2, <3>1, OverwrittenReplaces
      <3>3. l2 = Overwritten(l, n, rec)
        BY <2>3, <2>5, <3>1, Zenon
      <3> QED
        BY <3>2, <3>3, Zenon DEF rec
    <2> QED
      BY <2>4, <2>5
  <1>2. CASE Matches(l, old) = {} /\ Matches(l, new) # {}
    <2>1. PICK n \in Nodes, k \in 0..Count :
              Owns(l, n, new) /\ Matches(l, new) = {k} /\ Max(Matches(l, new)) = k
      BY <1>2, OneMatch
    <2>2. Replaces(Unlinked(l, k), l, new, NoRecord)
      BY <2>1, UnlinkedReplaces
    <2>3. MapGet(l, old) = NoRecord
      BY <1>2, NoMatch
    <2>4. l2 = Unlinked(l, k)
      BY <1>2, <2>1, Zenon DEF MapCopy
    <2> QED
      BY <2>2, <2>3, <2>4, Zenon
  <1>3. CASE Matches(l, old) = {} /\ Matches(l, new) = {}
    BY <1>3, Zenon DEF MapCopy
  <1> QED
    BY <1>1, <1>2, <1>3

LEMMA EffectStores ==
    ASSUME Sound(list), NEW l, NEW fd \in Fds, NEW rec,
           Replaces(l, list, fd, rec) \/ (l = list /\ Matches(list, fd) = {})
    PROVE  Stores(l, fd, rec)
  <1>1. CASE Replaces(l, list, fd, rec)
    <2>1. Whole(l)
      BY <1>1, SoundWhole DEF Replaces
    <2>2. \A f \in Fds : MapGet(l, f) = IF f = fd THEN rec ELSE MapGet(list, f)
      BY <1>1, Zenon DEF Replaces
    <2>3. Map(l) = [Map(list) EXCEPT ![fd] = rec]
      BY <2>2 DEF Map
    <2> QED
      BY <2>1, <2>3 DEF Stores
  <1>2. CASE l = list /\ Matches(list, fd) = {}
    BY <1>2, NoMatch DEF Stores
  <1> QED
    BY <1>1, <1>2

-----------------------------------------------------------------------------
(* The loops over the segments of a name *)

Spelled == Names \cup {".", ".."}

LEMMA FrontType ==
    ASSUME NEW path \in Seq(Names), path # <<>>
    PROVE  Front(path) \in Seq(Names)
  <1>1. Len(path) \in Nat /\ Len(path) # 0
    BY EmptySeq, LenProperties
  <1> QED
    BY <1>1 DEF Front

LEMMA PushType ==
    ASSUME NEW min \in Nat, NEW path \in Seq(Names) \cup {Fail}, NEW seg \in Spelled
    PROVE  Push(min, path, seg) \in Seq(Names) \cup {Fail}
  <1>1. CASE path = Fail \/ seg = "."
    BY <1>1 DEF Push
  <1>2. CASE path # Fail /\ seg = ".."
    <2>1. path \in Seq(Names) /\ (Len(path) > min => path # <<>>)
      BY <1>2, EmptySeq
    <2>2. Len(path) > min => Front(path) \in Seq(Names)
      BY <2>1, FrontType
    <2> QED
      BY <1>2, <2>1, <2>2 DEF Push
  <1>3. CASE path # Fail /\ seg \notin {".", ".."}
    <2>1. Append(path, seg) \in Seq(Names)
      BY <1>3, AppendProperties DEF Spelled
    <2> QED
      BY <1>3, <2>1 DEF Push
  <1> QED
    BY <1>1, <1>2, <1>3

LEMMA StepsType ==
    ASSUME NEW path \in Seq(Names), NEW seg \in Spelled
    PROVE  Steps(path, seg) \in Seq(Names)
  <1>1. path # <<>> => Front(path) \in Seq(Names)
    BY FrontType
  <1>2. seg \notin {".", ".."} => Append(path, seg) \in Seq(Names)
    BY AppendProperties DEF Spelled
  <1> QED
    BY <1>1, <1>2 DEF Steps

LEMMA PushesTurns ==
    ASSUME NEW min \in Nat, NEW base \in Seq(Names), NEW name \in Seq(Spelled),
           NEW g, g = Pushes(min, base, name)
    PROVE  /\ g[0] = base
           /\ \A i \in 1..Len(name) : g[i] = Push(min, g[i - 1], name[i])
  <1> DEFINE T == Seq(Names) \cup {Fail}
             k == Len(name)
             turn == [i \in 1..k |-> [path \in T |-> Push(min, path, name[i])]]
  <1>1. k \in Nat /\ base \in T /\ \A i \in 1..k : name[i] \in Spelled
    BY LenProperties
  <1>2. turn \in [1..k -> [T -> T]]
    BY <1>1, PushType
  <1>3. \A i \in 1..k, path \in T : turn[i][path] = Push(min, path, name[i])
    OBVIOUS
  <1> HIDE DEF turn, k, T
  <1>4. PICK f : Runs(f, T, k, base, turn)
    BY <1>1, <1>2, Recursion, Zenon
  <1>5. ASSUME NEW i \in 0..k
        PROVE  f[i] = IF i = 0 THEN base ELSE Push(min, f[i - 1], name[i])
    <2>1. CASE i = 0
      BY <1>4, <2>1 DEF Runs
    <2>2. CASE i # 0
      <3>1. i \in 1..k /\ i - 1 \in 0..k
        BY <1>1, <2>2
      <3>2. f[i - 1] \in T /\ f[i] = turn[i][f[i - 1]]
        BY <1>4, <3>1 DEF Runs
      <3>3. f[i] = Push(min, f[i - 1], name[i])
        BY <1>3, <3>1, <3>2, Zenon
      <3> QED
        BY <2>2, <3>3, Zenon
    <2> QED
      BY <2>1, <2>2
  <1>6. f = [i \in 0..k |-> f[i]]
    BY <1>4 DEF Runs
  <1>7. f = [i \in 0..k |-> IF i = 0 THEN base ELSE Push(min, f[i - 1], name[i])]
    BY <1>5, <1>6, Zenon
  <1>8. g = [i \in 0..k |-> IF i = 0 THEN base ELSE Push(min, g[i - 1], name[i])]
    BY <1>7, Zenon DEF Pushes, k
  <1>9. 0 \in 0..k /\ \A i \in 1..k : i \in 0..k /\ i # 0
    BY <1>1
  <1>10. g[0] = base /\ \A i \in 1..k : g[i] = Push(min, g[i - 1], name[i])
    BY <1>8, <1>9, Zenon
  <1> QED
    BY <1>10 DEF k

LEMMA PlacesTurns ==
    ASSUME NEW base \in Seq(Names), NEW name \in Seq(Spelled), NEW g, g = Places(base, name)
    PROVE  /\ g[0] = base
           /\ \A i \in 1..Len(name) : g[i] = Steps(g[i - 1], name[i])
           /\ \A i \in 0..Len(name) : g[i] \in Seq(Names)
  <1> DEFINE T == Seq(Names)
             k == Len(name)
             turn == [i \in 1..k |-> [path \in T |-> Steps(path, name[i])]]
  <1>1. k \in Nat /\ base \in T /\ \A i \in 1..k : name[i] \in Spelled
    BY LenProperties
  <1>2. turn \in [1..k -> [T -> T]]
    BY <1>1, StepsType
  <1>3. \A i \in 1..k, path \in T : turn[i][path] = Steps(path, name[i])
    OBVIOUS
  <1> HIDE DEF turn, k
  <1>4. PICK f : Runs(f, T, k, base, turn)
    BY <1>1, <1>2, Recursion, Zenon
  <1>5. ASSUME NEW i \in 0..k
        PROVE  f[i] = IF i = 0 THEN base ELSE Steps(f[i - 1], name[i])
    <2>1. CASE i = 0
      BY <1>4, <2>1 DEF Runs
    <2>2. CASE i # 0
      <3>1. i \in 1..k /\ i - 1 \in 0..k
        BY <1>1, <2>2
      <3>2. f[i - 1] \in T /\ f[i] = turn[i][f[i - 1]]
        BY <1>4, <3>1 DEF Runs
      <3>3. f[i] = Steps(f[i - 1], name[i])
        BY <1>3, <3>1, <3>2, Zenon
      <3> QED
        BY <2>2, <3>3, Zenon
    <2> QED
      BY <2>1, <2>2
  <1>6. f = [i \in 0..k |-> f[i]]
    BY <1>4 DEF Runs
  <1>7. f = [i \in 0..k |-> IF i = 0 THEN base ELSE Steps(f[i - 1], name[i])]
    BY <1>5, <1>6, Zenon
  <1>8. g = [i \in 0..k |-> IF i = 0 THEN base ELSE Steps(g[i - 1], name[i])]
    BY <1>7, Zenon DEF Places, k
  <1>9. 0 \in 0..k /\ \A i \in 1..k : i \in 0..k /\ i # 0
    BY <1>1
  <1>10. g[0] = base /\ \A i \in 1..k : g[i] = Steps(g[i - 1], name[i])
    BY <1>8, <1>9, Zenon
  <1> DEFINE P == {i \in Nat : i <= k => g[i] \in Seq(Names)}
  <1>11. 0 \in P
    BY <1>10
  <1>12. ASSUME NEW i \in Nat, i \in P PROVE i + 1 \in P
    <2> SUFFICES ASSUME i + 1 <= k PROVE g[i + 1] \in Seq(Names)
      OBVIOUS
    <2>1. i + 1 \in 1..k /\ (i + 1) - 1 = i /\ g[i] \in Seq(Names)
      BY <1>1, <1>12
    <2>2. g[i + 1] = Steps(g[i], name[i + 1])
      BY <1>10, <2>1
    <2> QED
      BY <1>1, <2>1, <2>2, StepsType
  <1> HIDE DEF P
  <1>13. Nat \subseteq P
    BY <1>11, <1>12, NumberInduction
  <1>14. \A i \in 0..k : g[i] \in Seq(Names)
    BY <1>1, <1>13 DEF P
  <1> QED
    BY <1>10, <1>14 DEF k

(* A turn of the shim's loop that does not give up goes where the kernel's *)
(* walk goes.                                                              *)
LEMMA PushSteps ==
    ASSUME NEW min \in Nat, NEW path \in Seq(Names), NEW seg \in Spelled,
           Push(min, path, seg) # Fail
    PROVE  Push(min, path, seg) = Steps(path, seg)
  <1>1. path # Fail
    BY TrackerAssumption
  <1>2. Len(path) \in Nat /\ (path = <<>> <=> Len(path) = 0)
    BY EmptySeq, LenProperties
  <1>3. CASE seg = ".."
    <2>1. CASE Len(path) > min
      BY <1>1, <1>2, <1>3, <2>1 DEF Push, Steps
    <2>2. CASE ~(Len(path) > min)
      <3>1. min = 0
        BY <1>1, <1>3, <2>2 DEF Push
      <3> QED
        BY <1>1, <1>2, <1>3, <2>2, <3>1 DEF Push, Steps
    <2> QED
      BY <2>1, <2>2
  <1>4. CASE seg # ".."
    BY <1>1, <1>4 DEF Push, Steps
  <1> QED
    BY <1>3, <1>4

(* A name that a loop does not give up is taken where the kernel takes it. *)
LEMMA PushesReach ==
    ASSUME NEW min \in Nat, NEW base \in Seq(Names), NEW name \in Seq(Spelled),
           Pushes(min, base, name)[Len(name)] # Fail
    PROVE  Pushes(min, base, name)[Len(name)] = Reached(base, name)
  <1> DEFINE g == Pushes(min, base, name)
             h == Places(base, name)
             k == Len(name)
  <1>1. k \in Nat /\ \A i \in 1..k : name[i] \in Spelled
    BY LenProperties
  <1>2. g[0] = base /\ \A i \in 1..k : g[i] = Push(min, g[i - 1], name[i])
    BY PushesTurns
  <1>3. /\ h[0] = base /\ \A i \in 1..k : h[i] = Steps(h[i - 1], name[i])
        /\ \A i \in 0..k : h[i] \in Seq(Names)
    BY PlacesTurns
  <1>4. g[k] # Fail
    OBVIOUS
  <1> HIDE DEF g, h, k
  <1> DEFINE P == {i \in Nat : i <= k => g[i] \in {Fail, h[i]}}
  <1>5. 0 \in P
    BY <1>2, <1>3
  <1>6. ASSUME NEW i \in Nat, i \in P PROVE i + 1 \in P
    <2> SUFFICES ASSUME i + 1 <= k PROVE g[i + 1] \in {Fail, h[i + 1]}
      OBVIOUS
    <2>1. i + 1 \in 1..k /\ (i + 1) - 1 = i /\ g[i] \in {Fail, h[i]} /\ i \in 0..k
      BY <1>1, <1>6
    <2>2. g[i + 1] = Push(min, g[i], name[i + 1]) /\ h[i + 1] = Steps(h[i], name[i + 1])
      BY <1>2, <1>3, <2>1
    <2>3. CASE g[i] = Fail
      BY <2>2, <2>3 DEF Push
    <2>4. CASE g[i] = h[i]
      <3>1. h[i] \in Seq(Names) /\ name[i + 1] \in Spelled
        BY <1>1, <1>3, <2>1
      <3>2. Push(min, h[i], name[i + 1]) # Fail => Push(min, h[i], name[i + 1]) = Steps(h[i], name[i + 1])
        BY <3>1, PushSteps
      <3> QED
        BY <2>2, <2>4, <3>2, Zenon
    <2> QED
      BY <2>1, <2>3, <2>4
  <1> HIDE DEF P
  <1>7. Nat \subseteq P
    BY <1>5, <1>6, NumberInduction
  <1>8. g[k] \in {Fail, h[k]}
    BY <1>1, <1>7 DEF P
  <1> QED
    BY <1>4, <1>8 DEF g, h, k, Reached

(* A name without "." and ".." is the path it reaches. *)
LEMMA PlainReached ==
    ASSUME NEW name \in Seq(Spelled), \A i \in 1..Len(name) : name[i] \notin {".", ".."}
    PROVE  Reached(<<>>, name) = name
  <1> DEFINE h == Places(<<>>, name)
             k == Len(name)
  <1>1. k \in Nat /\ <<>> \in Seq(Names)
    BY LenProperties, EmptySeq
  <1>2. h[0] = <<>> /\ \A i \in 1..k : h[i] = Steps(h[i - 1], name[i])
    <2>1. PICK root \in Seq(Names) : root = <<>>
      BY <1>1
    <2>2. h = Places(root, name)
      BY <2>1
    <2> HIDE DEF h
    <2>3. h[0] = root /\ \A i \in 1..k : h[i] = Steps(h[i - 1], name[i])
      BY <2>2, PlacesTurns
    <2> QED
      BY <2>1, <2>3
  <1> HIDE DEF h
  <1> DEFINE P == {i \in Nat : i <= k => h[i] = SubSeq(name, 1, i)}
  <1>3. 0 \in P
    <2>1. SubSeq(name, 1, 0) = <<>>
      OBVIOUS
    <2> QED
      BY <1>2, <2>1
  <1>4. ASSUME NEW i \in Nat, i \in P PROVE i + 1 \in P
    <2> SUFFICES ASSUME i + 1 <= k PROVE h[i + 1] = SubSeq(name, 1, i + 1)
      OBVIOUS
    <2>1. i + 1 \in 1..k /\ (i + 1) - 1 = i /\ h[i] = SubSeq(name, 1, i)
      BY <1>1, <1>4
    <2>2. h[i + 1] = Steps(h[i], name[i + 1]) /\ name[i + 1] \notin {".", ".."}
      BY <1>2, <2>1
    <2>3. h[i + 1] = Append(SubSeq(name, 1, i), name[i + 1])
      BY <2>1, <2>2 DEF Steps
    <2>4. Append(SubSeq(name, 1, i), name[i + 1]) = SubSeq(name, 1, i + 1)
      BY <1>1, <2>1
    <2> QED
      BY <2>3, <2>4
  <1> HIDE DEF P
  <1>5. Nat \subseteq P
    BY <1>3, <1>4, NumberInduction
  <1>6. h[k] = SubSeq(name, 1, k)
    BY <1>1, <1>5 DEF P
  <1>7. SubSeq(name, 1, k) = name
    BY <1>1
  <1> QED
    BY <1>6, <1>7 DEF h, Reached

-----------------------------------------------------------------------------
(* Classification *)

LEMMA GpusDirNames == Len(GpusDir) = 4 /\ GpusDir \in Seq(Names)
  <1>1. Len(GpusDir) = 4
    BY DEF GpusDir
  <1>2. GpusDir \in Seq(Names)
    BY PathAssumption DEF GpusDir
  <1> QED
    BY <1>1, <1>2

LEMMA ClassifyRecord ==
    ASSUME NEW p \in Seq(Names), NEW exact \in BOOLEAN
    PROVE  ClassifyPath(p, exact) \in Records
  <1>1. BelowGpus(p) => BusOf(p) \in Names
    BY GpusDirNames DEF BelowGpus, BusOf
  <1> QED
    BY <1>1, PathAssumption DEF ClassifyPath, IsBusDir, IsInfo, Records, NoRecord

(* A device is classified by its exact name only. *)
LEMMA DeviceName ==
    ASSUME NEW p, p = Ctl \/ p \in Devices
    PROVE  /\ ClassifyPath(p, TRUE) # NoRecord /\ ClassifyPath(p, TRUE) \in Records
           /\ ClassifyPath(p, FALSE) = NoRecord
  <1>1. Len(p) = 2
    BY PathAssumption DEF Ctl
  <1>2. p # GpusDir /\ ~BelowGpus(p)
    BY <1>1, GpusDirNames DEF BelowGpus
  <1>3. ClassifyPath(p, FALSE) = NoRecord
    BY <1>2 DEF ClassifyPath, IsBusDir, IsInfo
  <1>4. \/ ClassifyPath(p, TRUE) = [kind |-> "ctl", bus |-> "none"]
        \/ ClassifyPath(p, TRUE) = [kind |-> "device", bus |-> "none"]
    BY DEF ClassifyPath
  <1>5. \A kind \in {"ctl", "device"} :
            /\ [kind |-> kind, bus |-> "none"] # NoRecord
            /\ [kind |-> kind, bus |-> "none"] \in Records
    <2> SUFFICES ASSUME NEW kind \in {"ctl", "device"}
                 PROVE  /\ [kind |-> kind, bus |-> "none"] # NoRecord
                        /\ [kind |-> kind, bus |-> "none"] \in Records
      OBVIOUS
    <2>1. [kind |-> kind, bus |-> "none"].kind # NoRecord.kind
      BY DEF NoRecord
    <2>2. [kind |-> kind, bus |-> "none"] \in Records
      BY PathAssumption DEF Records
    <2> QED
      BY <2>1, <2>2, Zenon
  <1> QED
    BY <1>3, <1>4, <1>5, Zenon

LEMMA ClassifyExact ==
    ASSUME NEW p \in Seq(Names), p # Ctl, p \notin Devices
    PROVE  ClassifyPath(p, TRUE) = ClassifyPath(p, FALSE)
  BY DEF ClassifyPath

LEMMA RecordNamesDir ==
    ASSUME NEW p \in Seq(Names), IsProcDirRecord(ClassifyPath(p, TRUE))
    PROVE  RecordDir(ClassifyPath(p, TRUE)) = p
  <1>1. ASSUME IsBusDir(p) PROVE p = Append(GpusDir, BusOf(p))
    <2>1. Len(p) = 5 /\ SubSeq(p, 1, 4) = GpusDir /\ BusOf(p) = p[5]
      BY <1>1, GpusDirNames DEF IsBusDir, BelowGpus, BusOf
    <2>2. Append(SubSeq(p, 1, 4), p[5]) = p
      BY <2>1, SMT
    <2> QED
      BY <2>1, <2>2
  <1> QED
    BY <1>1 DEF ClassifyPath, NoRecord, IsProcDirRecord, RecordDir

LEMMA NormalizeReach ==
    ASSUME NEW name \in Seq(Spelled), Normalize(name) # Fail
    PROVE  Normalize(name) = Reached(<<>>, name)
  <1>1. PICK root \in Seq(Names), min \in Nat : root = <<>> /\ min = 0
    BY EmptySeq
  <1>2. Normalize(name) = Written(Pushes(min, root, name)[Len(name)])
    BY <1>1 DEF Normalize
  <1>3. Normalize(name) = Pushes(min, root, name)[Len(name)]
    BY <1>2 DEF Written
  <1>4. Pushes(min, root, name)[Len(name)] = Reached(root, name)
    BY <1>3, PushesReach
  <1> QED
    BY <1>1, <1>3, <1>4

LEMMA ResolveReach ==
    ASSUME NEW rec \in Records, NEW name \in Seq(Spelled), Resolve(rec, name) # Fail
    PROVE  Resolve(rec, name) = Reached(RecordDir(rec), name)
  <1>1. RecordDir(rec) \in Seq(Names)
    BY GpusDirNames, AppendProperties DEF RecordDir, Records
  <1>2. PICK base \in Seq(Names), min \in Nat : base = RecordDir(rec) /\ min = Len(GpusDir)
    BY <1>1, GpusDirNames
  <1>3. Resolve(rec, name) = Written(Pushes(min, base, name)[Len(name)])
    BY <1>2 DEF Resolve
  <1>4. Resolve(rec, name) = Pushes(min, base, name)[Len(name)]
    BY <1>3 DEF Written
  <1>5. Pushes(min, base, name)[Len(name)] = Reached(base, name)
    BY <1>4, PushesReach
  <1> QED
    BY <1>2, <1>4, <1>5

LEMMA ReachedType ==
    ASSUME NEW base \in Seq(Names), NEW name \in Seq(Spelled)
    PROVE  Reached(base, name) \in Seq(Names)
  <1>1. Len(name) \in 0..Len(name)
    BY LenProperties
  <1> QED
    BY <1>1, PlacesTurns DEF Reached

(* The record rec may be stored for a descriptor of the file at p. *)
Truthful(rec, p) == rec \in Records /\ rec \in {NoRecord, ClassifyPath(p, TRUE)}

(* What a name is classified as, it is. *)
LEMMA ClassifyNameTrue ==
    ASSUME NEW name \in Seq(Spelled), NEW p \in Seq(Names), p = Reached(<<>>, name)
    PROVE  /\ Truthful(ClassifyName(name), p)
           /\ ~TooLong(name) /\ ClassifyPath(p, FALSE) # NoRecord => ClassifyName(name) # NoRecord
  <1>0. NoRecord \in Records
    BY PathAssumption DEF NoRecord, Records
  <1>1. CASE name = Ctl \/ name \in Devices
    <2>1. \A i \in 1..Len(name) : name[i] \notin {".", ".."}
      <3>1. CASE name = Ctl
        BY <3>1 DEF Ctl
      <3>2. CASE name \in Devices
        BY <3>2, PathAssumption, TrackerAssumption
      <3> QED
        BY <1>1, <3>1, <3>2
    <2>2. p = name
      BY <2>1, PlainReached
    <2>3. ClassifyName(name) = ClassifyPath(p, TRUE)
      BY <1>1, <2>2 DEF ClassifyName
    <2> QED
      BY <1>1, <2>2, <2>3, DeviceName DEF Truthful
  <1>2. CASE name # Ctl /\ name \notin Devices /\ TooLong(name)
    BY <1>0, <1>2 DEF ClassifyName, Truthful
  <1>3. CASE name # Ctl /\ name \notin Devices /\ ~TooLong(name)
    <2>1. Normalize(name) = p
      BY <1>3, NormalizeReach DEF TooLong
    <2>2. ClassifyName(name) = ClassifyPath(p, FALSE)
      BY <1>3, <2>1 DEF ClassifyName
    <2>3. ClassifyPath(p, FALSE) \in Records
      BY ClassifyRecord
    <2>4. ClassifyPath(p, FALSE) \in {NoRecord, ClassifyPath(p, TRUE)}
      BY DeviceName, ClassifyExact
    <2> QED
      BY <2>2, <2>3, <2>4 DEF Truthful
  <1> QED
    BY <1>1, <1>2, <1>3

-----------------------------------------------------------------------------
(* The inductive invariant: the list is sound, and what is in it is true.  *)

TrackerInv ==
    /\ Sound(list)
    /\ where \in [Fds -> Files \cup {Closed}]
    /\ RecordsTrue

(* The record and the place of fd, when the record may be missing *)
Honest(rec, p, missing) ==
    /\ rec # NoRecord => p # Closed /\ rec = ClassifyPath(p, TRUE)
    /\ p # Closed /\ ~missing /\ ClassifyPath(p, FALSE) # NoRecord => rec # NoRecord

LEMMA RecordsHonest ==
    RecordsTrue <=> \A fd \in Fds : Honest(MapGet(list, fd), where[fd], fd \in lost)
  BY DEF RecordsTrue, Honest

LEMMA InitInv == Init => TrackerInv
  <1> SUFFICES ASSUME Init PROVE TrackerInv
    OBVIOUS
  <1>1. list \in Lists /\ list.head = Null /\ \A n \in Nodes : list.heap[n] = Free
    BY DEF Init, Lists
  <1> DEFINE s == [i \in 1..0 |-> Null]
  <1>2. s \in [1..0 -> Nodes]
    OBVIOUS
  <1> HIDE DEF s
  <1>3. Chain(list, 0, s)
    BY <1>1, <1>2 DEF Chain
  <1>4. Sound(list)
    BY <1>1, <1>3 DEF Sound
  <1>5. \A fd : MapGet(list, fd) = NoRecord
    <2>1. \A fd, n : ~Owns(list, n, fd)
      BY <1>1 DEF Owns
    <2> QED
      BY <1>4, <2>1, SoundMatches
  <1>6. where \in [Fds -> Files \cup {Closed}] /\ \A fd \in Fds : where[fd] = Closed
    BY DEF Init
  <1>7. RecordsTrue
    BY <1>5, <1>6 DEF RecordsTrue
  <1> QED
    BY <1>4, <1>6, <1>7 DEF TrackerInv

(* A call on fd keeps the invariant if it is honest about fd and leaves    *)
(* the records of the others alone.                                        *)
LEMMA HonestStep ==
    ASSUME TrackerInv, NEW fd \in Fds, NEW p \in Files \cup {Closed}, NEW missing \in BOOLEAN,
           where' = [where EXCEPT ![fd] = p], Note(fd, missing),
           Sound(list'), Honest(MapGet(list', fd), p, missing),
           \A other \in Fds : other # fd => MapGet(list', other) = MapGet(list, other)
    PROVE  TrackerInv'
  <1>1. where \in [Fds -> Files \cup {Closed}] /\ \A f \in Fds : Honest(MapGet(list, f), where[f], f \in lost)
    BY RecordsHonest DEF TrackerInv
  <1>2. /\ where' \in [Fds -> Files \cup {Closed}] /\ where'[fd] = p
        /\ \A f \in Fds : f # fd => where'[f] = where[f]
    BY <1>1
  <1>3. (fd \in lost' <=> missing) /\ \A f : f # fd => (f \in lost' <=> f \in lost)
    BY DEF Note
  <1>4. ASSUME NEW f \in Fds PROVE Honest(MapGet(list', f), where'[f], f \in lost')
    <2>1. CASE f = fd
      BY <1>2, <1>3, <2>1 DEF Honest
    <2>2. CASE f # fd
      <3>1. Honest(MapGet(list, f), where[f], f \in lost)
        BY <1>1
      <3> QED
        BY <1>2, <1>3, <2>2, <3>1 DEF Honest
    <2> QED
      BY <2>1, <2>2
  <1>5. RecordsTrue'
    BY <1>4 DEF RecordsTrue, Honest
  <1> QED
    BY <1>2, <1>5 DEF TrackerInv

(* gpu_trace_and_track_open on a descriptor that was closed *)
LEMMA TrackStep ==
    ASSUME TrackerInv, NEW fd \in Fds, NEW name \in Seq(Spelled), NEW p \in Files, p = Reached(<<>>, name),
           where[fd] = Closed, where' = [where EXCEPT ![fd] = p], Track(fd, name),
           Note(fd, TooLong(name) \/ OutOfMemory(fd, ClassifyName(name)))
    PROVE  TrackerInv'
  <1> DEFINE rec == ClassifyName(name)
             missing == TooLong(name) \/ OutOfMemory(fd, rec)
  <1>0. Note(fd, missing) /\ missing \in BOOLEAN
    BY DEF OutOfMemory, TooLong, LongBus, BelowGpus
  <1>1. p \in Seq(Names) /\ p # Closed /\ p \in Files \cup {Closed}
    BY TrackerAssumption
  <1>2. Truthful(rec, p) /\ (~TooLong(name) /\ ClassifyPath(p, FALSE) # NoRecord => rec # NoRecord)
    BY <1>1, ClassifyNameTrue
  <1>3. Sound(list) /\ MapGet(list, fd) = NoRecord
    BY RecordsHonest DEF TrackerInv, Honest
  <1>4. CASE rec = NoRecord
    <2>1. list' = MapRemove(list, fd)
      BY <1>4 DEF Track
    <2>2. Replaces(list', list, fd, NoRecord)
      BY <1>3, <2>1, MapRemoveEffect
    <2>3. Honest(MapGet(list', fd), p, missing)
      BY <1>2, <1>4, <2>2 DEF Replaces, Honest
    <2> HIDE DEF missing
    <2> QED
      BY <1>0, <1>1, <2>2, <2>3, HonestStep DEF Replaces
  <1>5. CASE rec # NoRecord
    <2>1. list' \in MapSet(list, fd, rec) /\ rec \in Records /\ rec = ClassifyPath(p, TRUE)
      BY <1>2, <1>5 DEF Track, Truthful
    <2> HIDE DEF rec
    <2>2. Replaces(list', list, fd, rec) \/ (list' = list /\ Matches(list, fd) = {})
      BY <1>3, <2>1, MapSetEffect
    <2>3. CASE Replaces(list', list, fd, rec)
      <3>1. Honest(MapGet(list', fd), p, missing)
        BY <1>1, <1>5, <2>1, <2>3 DEF Replaces, Honest
      <3> HIDE DEF missing
      <3> QED
        BY <1>0, <1>1, <2>3, <3>1, HonestStep DEF Replaces
    <2>4. CASE list' = list /\ Matches(list, fd) = {}
      <3>1. missing
        BY <1>5, <2>4 DEF OutOfMemory
      <3>2. Honest(MapGet(list', fd), p, missing)
        BY <1>3, <2>4, <3>1 DEF Honest
      <3> HIDE DEF missing
      <3> QED
        BY <1>0, <1>1, <1>3, <2>4, <3>2, HonestStep
    <2> QED
      BY <2>2, <2>3, <2>4
  <1> QED
    BY <1>4, <1>5

LEMMA OpenInv ==
    ASSUME TrackerInv, NEW fd \in Fds, NEW name \in AbsNames, Open(fd, name)
    PROVE  TrackerInv'
  <1>1. name \in Seq(Spelled)
    BY TrackerAssumption DEF Spelled
  <1>2. PICK p \in Files : p = Reached(<<>>, name)
    BY DEF Open
  <1> QED
    BY <1>1, <1>2, TrackStep DEF Open

(* A relative name, through the record of its directory or past the shim *)
LEMMA OpenatInv ==
    ASSUME TrackerInv, NEW dirfd \in Fds, NEW fd \in Fds, NEW name \in RelNames, Openat(dirfd, fd, name)
    PROVE  TrackerInv'
  <1> DEFINE rec == MapGet(list, dirfd)
  <1>1. name \in Seq(Spelled)
    BY TrackerAssumption DEF Spelled
  <1>2. /\ where[dirfd] # Closed /\ where[fd] = Closed
        /\ where[dirfd] \in Files /\ where[dirfd] \in Seq(Names)
        /\ Sound(list) /\ MapGet(list, fd) = NoRecord /\ rec \in Records
        /\ rec # NoRecord => rec = ClassifyPath(where[dirfd], TRUE)
    BY RecordsHonest, GetType, TrackerAssumption DEF Openat, TrackerInv, Honest
  <1>3. PICK p \in Files : p = Reached(where[dirfd], name) /\ where' = [where EXCEPT ![fd] = p]
    BY DEF Openat
  <1>4. CASE IsProcDirRecord(rec)
    <2>1. rec # NoRecord /\ rec = ClassifyPath(where[dirfd], TRUE)
      <3>1. rec.kind # NoRecord.kind
        BY <1>4 DEF IsProcDirRecord, NoRecord
      <3> QED
        BY <1>2, <3>1, Zenon
    <2>2. RecordDir(rec) = where[dirfd]
      BY <1>2, <1>4, <2>1, RecordNamesDir
    <2>3. PICK q : /\ q = Resolve(rec, name) /\ q # Fail /\ Track(fd, q)
                   /\ Note(fd, TooLong(q) \/ OutOfMemory(fd, ClassifyName(q)))
      BY <1>4 DEF Openat
    <2>4. q = p
      BY <1>1, <1>2, <1>3, <2>2, <2>3, ResolveReach
    <2>5. q \in Seq(Spelled) /\ q \in Files /\ \A i \in 1..Len(q) : q[i] \notin {".", ".."}
      BY <2>4, TrackerAssumption DEF Spelled
    <2>6. q = Reached(<<>>, q)
      BY <2>5, PlainReached
    <2> QED
      BY <1>2, <1>3, <2>3, <2>4, <2>5, <2>6, TrackStep
  <1>5. CASE ~IsProcDirRecord(rec)
    <2>1. list' = list /\ Note(fd, TRUE)
      BY <1>5 DEF Openat
    <2>2. Honest(MapGet(list', fd), p, TRUE)
      BY <1>2, <2>1 DEF Honest
    <2> QED
      BY <1>2, <1>3, <2>1, <2>2, HonestStep
  <1> QED
    BY <1>4, <1>5

LEMMA CloseInv ==
    ASSUME TrackerInv, NEW fd \in Fds, Close(fd)
    PROVE  TrackerInv'
  <1>1. Replaces(list', list, fd, NoRecord)
    BY MapRemoveEffect DEF Close, TrackerInv
  <1>2. Honest(MapGet(list', fd), Closed, FALSE)
    BY <1>1 DEF Replaces, Honest
  <1> QED
    BY <1>1, <1>2, HonestStep DEF Close, Replaces

(* A copy is as honest as its original. *)
LEMMA DupInv ==
    ASSUME TrackerInv, NEW old \in Fds, NEW new \in Fds, Dup(old, new)
    PROVE  TrackerInv'
  <1> DEFINE rec == MapGet(list, old)
             missing == old \in lost \/ OutOfMemory(new, rec)
  <1>1. /\ where[old] # Closed /\ where[old] \in Files \cup {Closed}
        /\ Sound(list) /\ Honest(rec, where[old], old \in lost)
    BY RecordsHonest DEF Dup, TrackerInv
  <1>2. list' \in MapCopy(list, old, new)
    BY DEF Dup
  <1>3. Replaces(list', list, new, rec) \/ (list' = list /\ Matches(list, new) = {})
    BY <1>1, <1>2, MapCopyEffect
  <1>4. PICK p \in Files \cup {Closed} : p = where[old] /\ where' = [where EXCEPT ![new] = p]
    BY <1>1 DEF Dup
  <1>5. Note(new, missing) /\ missing \in BOOLEAN
    BY DEF Dup, OutOfMemory
  <1> HIDE DEF rec
  <1>6. Sound(list') /\ \A other \in Fds : other # new => MapGet(list', other) = MapGet(list, other)
    BY <1>1, <1>3 DEF Replaces
  <1>7. Honest(MapGet(list', new), p, missing)
    <2>1. CASE Replaces(list', list, new, rec)
      BY <1>1, <1>4, <2>1 DEF Replaces, Honest
    <2>2. CASE list' = list /\ Matches(list, new) = {}
      <3>1. MapGet(list', new) = NoRecord
        BY <1>1, <2>2, NoMatch
      <3>2. rec # NoRecord => missing
        BY <2>2 DEF OutOfMemory
      <3> QED
        BY <1>1, <1>4, <3>1, <3>2 DEF Honest
    <2> QED
      BY <1>3, <2>1, <2>2
  <1> HIDE DEF missing
  <1> QED
    BY <1>4, <1>5, <1>6, <1>7, HonestStep

LEMMA NextInv == TrackerInv /\ [Next]_vars => TrackerInv'
  <1> SUFFICES ASSUME TrackerInv, [Next]_vars PROVE TrackerInv'
    OBVIOUS
  <1>1. CASE UNCHANGED vars
    BY <1>1 DEF vars, TrackerInv, RecordsTrue
  <1>2. CASE Next
    <2>1. PICK fd \in Fds : \/ \E name \in AbsNames : Open(fd, name)
                            \/ \E dirfd \in Fds, name \in RelNames : Openat(dirfd, fd, name)
                            \/ Close(fd)
                            \/ \E new \in Fds : Dup(fd, new)
      BY <1>2 DEF Next
    <2>2. CASE \E name \in AbsNames : Open(fd, name)
      BY <2>2, OpenInv
    <2>3. CASE \E dirfd \in Fds, name \in RelNames : Openat(dirfd, fd, name)
      BY <2>3, OpenatInv
    <2>4. CASE Close(fd)
      BY <2>4, CloseInv
    <2>5. CASE \E new \in Fds : Dup(fd, new)
      BY <2>5, DupInv
    <2> QED
      BY <2>1, <2>2, <2>3, <2>4, <2>5
  <1> QED
    BY <1>1, <1>2

LEMMA InvHolds == Spec => []TrackerInv
  BY InitInv, NextInv, PTL DEF Spec

-----------------------------------------------------------------------------
(* Theorems *)

(* Whatever is opened, copied and closed, and whenever malloc fails, the   *)
(* list of fd_tracker.c has an end, holds every allocated node and no      *)
(* freed one, and has one node for a descriptor.                           *)
THEOREM ListStaysWhole == Spec => []ListWhole
  <1>1. TrackerInv => ListWhole
    BY SoundWhole DEF TrackerInv, ListWhole
  <1> QED
    BY <1>1, InvHolds, PTL

(* On every list there can be, rps_gpu_fd_map_set, _remove and _copy are   *)
(* the operations of a map: they change the record of their descriptor as  *)
(* asked and of no other.                                                  *)
THEOREM ListIsAMap == Spec => []MapOperations
  <1>1. ASSUME TrackerInv PROVE MapOperations
    <2>1. Sound(list) /\ KnownRecords \subseteq Records
      BY <1>1, ClassifyRecord, TrackerAssumption DEF TrackerInv, KnownRecords
    <2>2. ASSUME NEW fd \in Fds PROVE Stores(MapRemove(list, fd), fd, NoRecord)
      BY <2>1, MapRemoveEffect, EffectStores
    <2>3. ASSUME NEW fd \in Fds, NEW rec \in KnownRecords, NEW l \in MapSet(list, fd, rec)
          PROVE  Stores(l, fd, rec)
      BY <2>1, <2>3, MapSetEffect, EffectStores
    <2>4. ASSUME NEW fd \in Fds, NEW old \in Fds, NEW l \in MapCopy(list, old, fd)
          PROVE  Stores(l, fd, MapGet(list, old))
      BY <2>1, <2>4, MapCopyEffect, EffectStores
    <2> QED
      BY <2>2, <2>3, <2>4 DEF MapOperations
  <1> QED
    BY <1>1, InvHolds, PTL

(* The record of a descriptor names the file the kernel opened, for any    *)
(* spelling of any name, any limits and any chain of relative opens and    *)
(* copies; and none is missing but for memory, a limit or an untracked     *)
(* directory.                                                              *)
THEOREM RecordsStayTrue == Spec => []RecordsTrue
  <1>1. TrackerInv => RecordsTrue
    BY DEF TrackerInv
  <1> QED
    BY <1>1, InvHolds, PTL

=============================================================================
