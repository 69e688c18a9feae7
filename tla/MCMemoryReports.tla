--------------------------- MODULE MCMemoryReports ---------------------------
(* Numbers scaled down, with the proportions kept: 64 bits are 6, 32 bits  *)
(* are 3, the sentinel is a page below half of the range.  One machine is  *)
(* hybrid, one shows the container a part of its hierarchy.                *)
EXTENDS MemoryReports

CONSTANTS t1, t2

Line(key, len) == [key |-> key, value |-> 0, len |-> len]
ShortText == <<Line("MemTotal", 2), Line("MemFree", 2), Line("MemAvailable", 2), Line("other", 1)>>
LongText  == ShortText \o <<Line("other", 4)>>

Cgroup2(root, point) == [fs |-> "cgroup2", memory |-> FALSE, root |-> root, point |-> point]
Cgroup1(memory, root, point) == [fs |-> "cgroup", memory |-> memory, root |-> root, point |-> point]

Unified(path) == [controller |-> "unified", path |-> path]
Memory(path)  == [controller |-> "memory", path |-> path]
Other(path)   == [controller |-> "other", path |-> path]

Pod2 == [fs |-> "cgroup2", dir |-> <<"fs", "pod">>]
Pod1 == [fs |-> "cgroup", dir |-> <<"mem", "pod">>]

MCGroups == {Pod2, Pod1}

Hybrid == [mounts |-> <<Cgroup1(FALSE, <<>>, <<"cpu">>), Cgroup1(TRUE, <<>>, <<"mem">>), Cgroup2(<<>>, <<"fs">>)>>,
           groups |-> <<Other(<<"pod">>), Memory(<<"pod">>), Unified(<<"pod">>)>>,
           text   |-> ShortText, readable |-> TRUE, wordMax |-> 63, own |-> MCGroups]

(* The first v2 mount is too long to be kept, the second shows the group   *)
(* "slice" and what is below it; one of the paths there is too long.  The  *)
(* v1 mount shows the group "x", and one of the paths is not below it.     *)
Nested == [mounts |-> <<Cgroup2(<<>>, <<"a", "b", "c", "d">>), Cgroup2(<<"slice">>, <<"fs">>),
                        Cgroup1(TRUE, <<"x">>, <<"mem">>)>>,
           groups |-> <<Unified(<<"slice", "pod", "c", "d">>), Memory(<<"pod">>), Unified(<<"slice", "pod">>), Memory(<<"x", "pod">>)>>,
           text   |-> LongText, readable |-> TRUE, wordMax |-> 7, own |-> MCGroups]

(* /proc/meminfo cannot be opened, as in a chroot without it. *)
Unreadable == [Hybrid EXCEPT !.readable = FALSE]

MCMachines == {Hybrid, Nested, Unreadable}

(* A usage between the two finite limits, and one that is out of range. *)
MCLimitTokens == {<<1, 2>>, <<2, 7>>, <<2, 8>>, <<Letter>>}
MCUsageTokens == {<<1, 3>>, <<6, 5>>}

AnyThread == Permutations(Threads)
=============================================================================
