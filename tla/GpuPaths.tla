------------------------------ MODULE GpuPaths ------------------------------
(***************************************************************************)
(* How the shim looks at path names: which paths it tracks, which it       *)
(* refuses, and how it resolves a name relative to a tracked directory     *)
(* (gpu/fd_tracker.c, gpu/proc_filter.c, preload.c).                       *)
(*                                                                         *)
(* A path is the sequence of its segments after "." and ".." have been     *)
(* taken out; the root is <<>>.  A name as the caller spelled it is a path *)
(* and the flag exact: the code compares the /dev names and /proc/meminfo  *)
(* byte for byte and normalises only the procfs names, so "//" or "/./" in *)
(* a name hides the former from it and not the latter.  The limits of the  *)
(* normaliser (64 segments, 256 bytes) are not reached by these paths.     *)
(***************************************************************************)
EXTENDS Integers, Sequences

CONSTANTS
    Names,     \* names of files and directories, the segments of a path, and "none"
    Allowed,   \* bus ids in g_gpu_allowed_gpus: the GPUs mounted in the container
    Devices    \* paths of /dev/nvidia-uvm and the /dev/nvidiaN nodes

ASSUME PathAssumption ==
    /\ {"none", "proc", "driver", "nvidia", "gpus", "information"} \subseteq Names
    /\ Devices \subseteq Seq(Names)
    /\ \A d \in Devices : Len(d) = 2 /\ d[1] = "dev" /\ d[2] # "nvidiactl"

GpusDir == <<"proc", "driver", "nvidia", "gpus">>
Meminfo == <<"proc", "meminfo">>
Ctl == <<"dev", "nvidiactl">>

NoRecord == [kind |-> "none", bus |-> "none"]

BelowGpus(p) == Len(p) > Len(GpusDir) /\ SubSeq(p, 1, Len(GpusDir)) = GpusDir
BusOf(p) == p[Len(GpusDir) + 1]
IsBusDir(p) == BelowGpus(p) /\ Len(p) = Len(GpusDir) + 1
IsInfo(p) ==
    /\ BelowGpus(p)
    /\ Len(p) = Len(GpusDir) + 2
    /\ p[Len(GpusDir) + 2] = "information"

(* Mutant: a path of no known kind is classified as RPS_GPU_FD_OTHER. *)
ClassifyPathKeepsOther(p, exact) ==
    IF p = GpusDir THEN [kind |-> "gpusdir", bus |-> "none"] ELSE [kind |-> "other", bus |-> "none"]

(* rps_gpu_classify_path: the record of an opened path. *)
ClassifyPath(p, exact) ==
    IF exact /\ p = Ctl         THEN [kind |-> "ctl", bus |-> "none"]
    ELSE IF exact /\ p \in Devices THEN [kind |-> "device", bus |-> "none"]
    ELSE IF p = GpusDir         THEN [kind |-> "gpusdir", bus |-> "none"]
    ELSE IF IsBusDir(p)         THEN [kind |-> "busdir", bus |-> BusOf(p)]
    ELSE IF IsInfo(p)           THEN [kind |-> "info", bus |-> BusOf(p)]
    ELSE NoRecord

(* Mutant: the information file is not a path of its GPU. *)
ProcPathDeniedDirOnly(p) == IsBusDir(p) /\ BusOf(p) \notin Allowed


(* rps_gpu_proc_path_allowed = RPS_GPU_PROC_DENY, for a valid allowed set. *)
ProcPathDenied(p) ==
    /\ IsBusDir(p) \/ IsInfo(p)
    /\ BusOf(p) \notin Allowed

(* A relative name is [up, down]: up leading ".." and then the segments of *)
(* down.  Every relative name has this form once "." and "x/.." are gone.  *)
Walk(base, rel) ==
    SubSeq(base, 1, IF rel.up > Len(base) THEN 0 ELSE Len(base) - rel.up)
        \o rel.down

IsProcDirRecord(rec) == rec.kind \in {"gpusdir", "busdir"}

RecordDir(rec) ==
    IF rec.kind = "busdir" THEN Append(GpusDir, rec.bus) ELSE GpusDir

(* gpu_resolve_relative_proc_path fails: the name climbs above gpus/. *)
Escapes(rec, rel) == Len(RecordDir(rec)) - rel.up < Len(GpusDir)

(* ... and what it resolves to when it does not fail. *)
ResolveRelative(rec, rel) == Walk(RecordDir(rec), rel)

-----------------------------------------------------------------------------
(* What the documentation calls hidden: a procfs path of a GPU that is not *)
(* mounted into the container.                                             *)
Hidden(p) == BelowGpus(p) /\ BusOf(p) \notin Allowed
=============================================================================
