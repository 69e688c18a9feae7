---------------------------- MODULE GpuDiscovery ----------------------------
(***************************************************************************)
(* Topology discovery (gpu/proc_filter.c): which minors are mounted in     *)
(* /dev, what the information files of the host's GPUs say, and the        *)
(* allowed set built from both.  It runs once, in the constructor of the   *)
(* library, on system calls of its own.                                    *)
(***************************************************************************)
EXTENDS Selection, SequencesExt, FiniteSets

CONSTANTS
    Dots,        \* the entries "." and ".."
    Buses,       \* names of the directories below gpus/: the bus ids of the host's GPUs
    Minor,       \* the minor number of each
    Devs,        \* contents of /dev: sequences of minors, of the nvidiaN nodes, and NoMinor
    Listings,    \* contents of the gpus directory, in the kernel's order
    Texts,       \* what may be found in an information file
    MaxGpus,     \* RPS_GPU_MAX_GPUS
    NoMinor      \* an entry of /dev that is no nvidiaN node

ASSUME DiscoveryAssumption ==
    /\ Dots \cap Buses = {}
    /\ Minor \in [Buses -> Nat] /\ NoMinor \notin Nat
    /\ \A b, c \in Buses : Minor[b] = Minor[c] => b = c
    /\ \A d \in Devs : d \in Seq(Nat \cup {NoMinor})
    /\ \A l \in Listings :
         /\ l \in Seq(Dots \cup Buses)
         /\ \A i, j \in DOMAIN l : l[i] = l[j] => i = j  \* each name once
         /\ \A e \in Dots : \E i \in DOMAIN l : l[i] = e
    /\ IsFiniteSet(Dots)
    /\ Texts \subseteq {"whole", "no bus", "no minor", "bad", "unreadable"}
    /\ MaxGpus \in Nat

VARIABLES
    dev,       \* /dev
    dir,       \* the gpus directory
    text,      \* the information file of each GPU
    minors,    \* mounted_minors
    infos,     \* infos: the GPUs whose file was understood
    allowed,   \* g_gpu_allowed_gpus
    phase,     \* "minors", "infos", "build", then "ready" or "failed"
    broken     \* history: a scan ended before the end of its directory

discovery == <<dev, dir, text, minors, infos, allowed, phase, broken>>

DiscoveryInit ==
    /\ dev \in Devs
    /\ dir \in Listings
    /\ text \in [Buses -> Texts]
    /\ minors = <<>> /\ infos = <<>> /\ allowed = <<>>
    /\ phase = "minors"
    /\ broken = FALSE

(* A scan reads entries until getdents64 returns 0, or fails. *)
Scanned(entries, k) == SubSeq(entries, 1, k)

AtMost(n, s) == SubSeq(s, 1, IF n < Len(s) THEN n ELSE Len(s))

(* What rps_gpu_name_is_nvidia_minor accepts *)
NvidiaMinors == Nat

(* rps_gpu_collect_mounted_minors, with the scan ending after k entries *)
CollectMountedMinors(k) ==
    /\ phase = "minors"
    /\ minors' = AtMost(MaxGpus, Kept(Scanned(dev, k), NvidiaMinors))
    /\ phase' = "infos"
    /\ broken' = (k < Len(dev))
    /\ UNCHANGED <<dev, dir, text, infos, allowed>>

(* rps_gpu_read_file_to_buffer *)
Readable(bus) == text[bus] # "unreadable"

(* The numbers and names of the file are in range. *)
ValuesInRange(bus) == text[bus] # "bad"

(* rps_gpu_parse_gpu_information: a minor is needed; a bus id that is      *)
(* missing is taken from the path.  A Bus Location line that is there is   *)
(* taken to name the file's own directory: the driver writes both from one *)
(* address.                                                                *)
Parses(bus) == Readable(bus) /\ ValuesInRange(bus) /\ text[bus] # "no minor"

(* rps_gpu_collect_gpu_infos *)
CollectGpuInfos(k) ==
    /\ phase = "infos"
    /\ infos' = AtMost(MaxGpus, Kept(Scanned(dir, k), {b \in Buses : Parses(b)}))
    /\ phase' = "build"
    /\ broken' = (broken \/ k < Len(dir))
    /\ UNCHANGED <<dev, dir, text, minors, allowed>>

(* Mutant: every GPU the host describes is allowed. *)
MinorIsMountedAny(bus) == minors # <<>>

(* rps_gpu_minor_is_mounted *)
MinorIsMounted(bus) == Contains(minors, Minor[bus])

(* rps_gpu_build_allowed_gpus, and the constructor keeps the result. *)
BuildAllowedGpus ==
    /\ phase = "build"
    /\ allowed' = Kept(infos, {b \in Buses : MinorIsMounted(b)})
    /\ phase' = IF allowed' # <<>> THEN "ready" ELSE "failed"
    /\ UNCHANGED <<dev, dir, text, minors, infos, broken>>

Discover ==
    \/ \E k \in 0..Len(dev) : CollectMountedMinors(k)
    \/ \E k \in 0..Len(dir) : CollectGpuInfos(k)
    \/ BuildAllowedGpus

-----------------------------------------------------------------------------
(* Properties *)

Elements(s) == {s[i] : i \in DOMAIN s}

Mounted == {b \in Buses : Contains(dev, Minor[b])}

(* Both directories were read to the end, no table was too small, and the  *)
(* file of every mounted GPU can be understood.                            *)
Complete ==
    /\ ~broken
    /\ Cardinality({i \in DOMAIN dev : dev[i] # NoMinor}) <= MaxGpus
    /\ Cardinality({i \in DOMAIN dir : dir[i] \notin Dots /\ Parses(dir[i])}) <= MaxGpus
    /\ \A b \in Mounted : text[b] \in {"whole", "no bus"}

(* Discovery never adds a GPU that is not mounted; and when it was         *)
(* complete, the allowed set is the set of the mounted GPUs of the host,   *)
(* each once.                                                              *)
AllowedExact ==
    phase \in {"ready", "failed"} =>
        /\ Elements(allowed) \subseteq Mounted
        /\ \A i, j \in DOMAIN allowed : allowed[i] = allowed[j] => i = j
        /\ Complete => Elements(allowed) = Mounted \cap Elements(dir)
=============================================================================
