---------------------------- MODULE GpuFdTracker ----------------------------
(***************************************************************************)
(* gpu/fd_tracker.c: the linked list of records, and the names it is       *)
(* filled from as the caller spells them, with "." and ".." and with the   *)
(* limits of rps_gpu_proc_normalize_path and                               *)
(* gpu_resolve_relative_proc_path.                                         *)
(*                                                                         *)
(* One call at a time: every function of the table holds its mutex from    *)
(* its first look to its last write.  What may happen between the kernel's *)
(* step of a call and the table's is the subject of Descriptors.           *)
(***************************************************************************)
EXTENDS GpuPaths, SequencesExt, FiniteSets

CONSTANTS
    Fds,
    Nodes,         \* heap blocks malloc may return
    Files,         \* the paths that exist
    AbsNames,      \* absolute names, as sequences of segments
    RelNames,      \* relative names
    SegLen,        \* length of a segment in bytes
    MaxSegments,   \* elements of the arrays segments[]
    PathMax,       \* RPS_GPU_PROC_PATH_MAX and RPS_GPU_PATH_MAX
    BusMax,        \* RPS_GPU_BUS_ID_MAX
    Null,          \* the null pointer
    Free,          \* content of a block that is not allocated
    Closed,        \* place of a descriptor that is not open
    Fail           \* a name that was given up

(* struct rps_gpu_fd_record *)
Records == [kind : {"none", "ctl", "device", "gpusdir", "busdir", "info"}, bus : Names]

ASSUME TrackerAssumption ==
    /\ IsFiniteSet(Nodes) /\ Null \notin Nodes
    /\ Free \notin [fd : Fds, record : Records, next : Nodes \cup {Null}]
    /\ Files \subseteq Seq(Names) /\ Closed \notin Files /\ Fail \notin Seq(Names)
    /\ {".", ".."} \cap Names = {}
    /\ AbsNames \cup RelNames \subseteq Seq(Names \cup {".", ".."})

VARIABLES
    list,    \* [head, heap]: g_fd_map_head and the nodes
    where,   \* the kernel's: the directory or file each descriptor refers to
    lost     \* history: descriptors whose record was given up or never made

vars == <<list, where, lost>>

Init ==
    /\ list = [head |-> Null, heap |-> [n \in Nodes |-> Free]]
    /\ where = [fd \in Fds |-> Closed]
    /\ lost = {}

-----------------------------------------------------------------------------
(* Names *)

(* Mutant: ".." leaves the segment before it in place. *)
PushNoPop(min, path, seg) ==
    IF path = Fail \/ seg \in {".", ".."} THEN path
    ELSE IF Len(path) >= MaxSegments THEN Fail
    ELSE Append(path, seg)

(* One turn of the loops over the segments of a name.  At a depth of min   *)
(* ".." is a failure in one of them (min is 4) and stays at the root in    *)
(* the other (min is 0).                                                   *)
Push(min, path, seg) ==
    IF path = Fail \/ seg = "." THEN path
    ELSE IF seg = ".." THEN (IF Len(path) > min THEN Front(path) ELSE IF min = 0 THEN path ELSE Fail)
    ELSE IF Len(path) >= MaxSegments THEN Fail
    ELSE Append(path, seg)

Bytes(path) == FoldLeft(LAMBDA n, seg : n + 1 + SegLen[seg], 0, path)

Written(path) == IF path # Fail /\ Bytes(path) >= PathMax THEN Fail ELSE path

(* The path after each turn of such a loop *)
Pushes(min, base, name) ==
    LET path[n \in 0..Len(name)] == IF n = 0 THEN base ELSE Push(min, path[n - 1], name[n])
    IN  path

(* rps_gpu_proc_normalize_path *)
Normalize(name) == Written(Pushes(0, <<>>, name)[Len(name)])

(* gpu_resolve_relative_proc_path *)
Resolve(rec, name) == Written(Pushes(Len(GpusDir), RecordDir(rec), name)[Len(name)])

LongBus(path) == BelowGpus(path) /\ SegLen[BusOf(path)] >= BusMax

(* A name the classification gives up for its size *)
TooLong(name) == Normalize(name) = Fail \/ LongBus(Normalize(name))

(* rps_gpu_classify_path on a name *)
ClassifyName(name) ==
    IF name = Ctl \/ name \in Devices THEN ClassifyPath(name, TRUE)
    ELSE IF TooLong(name) THEN NoRecord
    ELSE ClassifyPath(Normalize(name), FALSE)

-----------------------------------------------------------------------------
(* The list *)

After(l, node) == IF node = Null \/ l.heap[node] = Free THEN Null ELSE l.heap[node].next

(* The nodes a walk of the list meets, and the one k links after the head, *)
(* Null past the end.                                                      *)
WalkOf(l) ==
    LET at[i \in 0..Cardinality(Nodes)] == IF i = 0 THEN l.head ELSE After(l, at[i - 1])
    IN  at

At(l, k) == WalkOf(l)[k]

Positions(l) == {k \in 0..Cardinality(Nodes) : At(l, k) # Null}

Matches(l, fd) == {k \in Positions(l) : l.heap[At(l, k)].fd = fd}

(* rps_gpu_fd_map_get: the first node of the descriptor *)
MapGet(l, fd) ==
    IF Matches(l, fd) = {} THEN NoRecord ELSE l.heap[At(l, Min(Matches(l, fd)))].record

Overwritten(l, node, rec) == [l EXCEPT !.heap[node].record = rec]

(* malloc and the insertion before the head, or malloc fails. *)
Pushed(l, fd, rec) ==
    {l} \cup {[head |-> n, heap |-> [l.heap EXCEPT ![n] = [fd |-> fd, record |-> rec, next |-> l.head]]] :
                 n \in {m \in Nodes : l.heap[m] = Free}}

(* rps_gpu_fd_map_set: the lists it may leave *)
MapSet(l, fd, rec) ==
    IF Matches(l, fd) = {} THEN Pushed(l, fd, rec)
    ELSE {Overwritten(l, At(l, Min(Matches(l, fd))), rec)}

(* Mutant: the node is freed while the link to it stays. *)
UnlinkedDangling(l, k) == [l EXCEPT !.heap[At(l, k)] = Free]

(* *link = node->next; free(node) *)
Unlinked(l, k) ==
    LET node == At(l, k)
        next == l.heap[node].next
    IN  IF k = 0
        THEN [head |-> next, heap |-> [l.heap EXCEPT ![node] = Free]]
        ELSE [l EXCEPT !.heap[node] = Free, !.heap[At(l, k - 1)].next = next]

(* rps_gpu_fd_map_remove *)
MapRemove(l, fd) == IF Matches(l, fd) = {} THEN l ELSE Unlinked(l, Min(Matches(l, fd)))

(* Mutant: a number without a record leaves the record of the new one. *)
MapCopyKeeps(l, old, new) ==
    IF Matches(l, old) = {} THEN {l}
    ELSE MapSet(l, new, l.heap[At(l, Max(Matches(l, old)))].record)

(* rps_gpu_fd_map_copy, whose loop ends with the last node of each number *)
MapCopy(l, old, new) ==
    IF Matches(l, old) # {}
    THEN LET rec == l.heap[At(l, Max(Matches(l, old)))].record
         IN  IF Matches(l, new) = {} THEN Pushed(l, new, rec)
             ELSE {Overwritten(l, At(l, Max(Matches(l, new))), rec)}
    ELSE IF Matches(l, new) # {} THEN {Unlinked(l, Max(Matches(l, new)))}
    ELSE {l}

-----------------------------------------------------------------------------
(* The calls *)

(* The kernel's walk: no limit, and the root is its own parent. *)
Steps(path, seg) ==
    IF seg = "." THEN path
    ELSE IF seg = ".." THEN (IF path = <<>> THEN path ELSE Front(path))
    ELSE Append(path, seg)

Places(base, name) ==
    LET place[n \in 0..Len(name)] == IF n = 0 THEN base ELSE Steps(place[n - 1], name[n])
    IN  place

Reached(base, name) == Places(base, name)[Len(name)]

Note(fd, missing) == lost' = IF missing THEN lost \cup {fd} ELSE lost \ {fd}

(* malloc has failed: a record was to be stored in a new node. *)
OutOfMemory(fd, rec) == rec # NoRecord /\ Matches(list, fd) = {} /\ list' = list

(* gpu_trace_and_track_open *)
Track(fd, name) ==
    IF ClassifyName(name) = NoRecord
    THEN list' = MapRemove(list, fd)
    ELSE list' \in MapSet(list, fd, ClassifyName(name))

Open(fd, name) ==
    /\ where[fd] = Closed /\ Reached(<<>>, name) \in Files
    /\ where' = [where EXCEPT ![fd] = Reached(<<>>, name)]
    /\ Track(fd, name)
    /\ Note(fd, TooLong(name) \/ OutOfMemory(fd, ClassifyName(name)))

(* openat with a relative name: refused, resolved, or passed through. *)
Openat(dirfd, fd, name) ==
    /\ where[dirfd] # Closed /\ where[fd] = Closed
    /\ Reached(where[dirfd], name) \in Files
    /\ where' = [where EXCEPT ![fd] = Reached(where[dirfd], name)]
    /\ LET rec == MapGet(list, dirfd)
       IN  IF IsProcDirRecord(rec)
           THEN /\ Resolve(rec, name) # Fail
                /\ Track(fd, Resolve(rec, name))
                /\ Note(fd, TooLong(Resolve(rec, name))
                            \/ OutOfMemory(fd, ClassifyName(Resolve(rec, name))))
           ELSE UNCHANGED list /\ Note(fd, TRUE)

Close(fd) ==
    /\ where[fd] # Closed
    /\ list' = MapRemove(list, fd)
    /\ where' = [where EXCEPT ![fd] = Closed]
    /\ Note(fd, FALSE)

(* dup, dup2, dup3 and fcntl *)
Dup(old, new) ==
    /\ where[old] # Closed
    /\ list' \in MapCopy(list, old, new)
    /\ where' = [where EXCEPT ![new] = where[old]]
    /\ Note(new, old \in lost \/ OutOfMemory(new, MapGet(list, old)))

Next ==
    \E fd \in Fds :
        \/ \E name \in AbsNames : Open(fd, name)
        \/ \E dirfd \in Fds, name \in RelNames : Openat(dirfd, fd, name)
        \/ Close(fd)
        \/ \E new \in Fds : Dup(fd, new)

Spec == Init /\ [][Next]_vars

-----------------------------------------------------------------------------
(* Properties *)

(* Every node that is allocated is on the list and every node on it is     *)
(* allocated, and a descriptor has one node.                               *)
Whole(l) ==
    /\ At(l, Cardinality(Nodes)) = Null
    /\ {At(l, k) : k \in Positions(l)} = {n \in Nodes : l.heap[n] # Free}
    /\ \A fd \in Fds : Cardinality(Matches(l, fd)) <= 1

(* The list stays whole through every sequence of opens, copies and        *)
(* closes: no node leaks, none is used after free, its end is reached, and *)
(* one remove is enough.                                                   *)
ListWhole == Whole(list)

(* A record tells the truth about its descriptor: the file it names is the *)
(* one the kernel reaches by the same segments, however the name was       *)
(* spelled and through however many relative opens and copies; and unless  *)
(* memory, a limit or an untracked directory stood in the way, every       *)
(* descriptor of a GPU's procfs has its record.                            *)
RecordsTrue ==
    \A fd \in Fds :
        /\ MapGet(list, fd) # NoRecord =>
               /\ where[fd] # Closed
               /\ MapGet(list, fd) = ClassifyPath(where[fd], TRUE)
        /\ where[fd] # Closed /\ fd \notin lost /\ ClassifyPath(where[fd], FALSE) # NoRecord =>
               MapGet(list, fd) # NoRecord

KnownRecords == {ClassifyPath(path, TRUE) : path \in Files} \ {NoRecord}

Map(l) == [fd \in Fds |-> MapGet(l, fd)]

(* l is a whole list with record rec for fd and all else as it was; or the *)
(* one there was, if fd has no record and there is no memory for one.      *)
Stores(l, fd, rec) ==
    \/ Whole(l) /\ Map(l) = [Map(list) EXCEPT ![fd] = rec]
    \/ l = list /\ MapGet(list, fd) = NoRecord

(* The list implements a map from descriptors to records: on every list    *)
(* there can be, set, remove and copy change the record of their one       *)
(* descriptor as asked, whether it has a node or not, and of no other.     *)
MapOperations ==
    \A fd \in Fds :
        /\ Stores(MapRemove(list, fd), fd, NoRecord)
        /\ \A rec \in KnownRecords : \A l \in MapSet(list, fd, rec) : Stores(l, fd, rec)
        /\ \A old \in Fds : \A l \in MapCopy(list, old, fd) : Stores(l, fd, MapGet(list, old))
=============================================================================
