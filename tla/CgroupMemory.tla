---------------------------- MODULE CgroupMemory ----------------------------
(***************************************************************************)
(* cgroup/cgroup.c and core/paths.c as operators: what the text of a       *)
(* control file says, and which cgroup directories the two files of        *)
(* /proc/self lead to.                                                     *)
(*                                                                         *)
(* A token is the sequence of its characters, digits or Letter; the empty  *)
(* token stands for a file that is missing, unreadable or blank, all of    *)
(* which read_token_file refuses.  A path is the sequence of its segments. *)
(***************************************************************************)
EXTENDS Integers, Sequences, SequencesExt

CONSTANTS
    U64Max,     \* UINT64_MAX
    Sentinel,   \* RPS_CGROUP_UNLIMITED_SENTINEL
    MaxPath,    \* segments that fit into a path buffer
    Letter,     \* any character that is not a digit, as in "max"
    None        \* no value

ASSUME CgroupAssumption ==
    /\ U64Max \in Nat /\ Sentinel \in 1..(U64Max \div 2)
    /\ MaxPath \in Nat
    /\ None \notin Nat /\ Letter \notin Nat

Digits == 0..9

-----------------------------------------------------------------------------
(* One turn of the loop of parse_u64_token. *)
AddDigit(value, d) ==
    IF value = None \/ d \notin Digits \/ value > (U64Max - d) \div 10
    THEN None
    ELSE value * 10 + d

(* The value after each turn. *)
Values(token) ==
    LET value[n \in 0..Len(token)] == IF n = 0 THEN 0 ELSE AddDigit(value[n - 1], token[n])
    IN  value

(* parse_u64_token, read_counter_file *)
ParseU64(token) == IF token = <<>> THEN None ELSE Values(token)[Len(token)]

(* read_limit_file *)
ReadLimit(token) ==
    LET value == ParseU64(token)
    IN  IF value = None \/ value = 0 \/ value >= Sentinel THEN None ELSE value

-----------------------------------------------------------------------------
Fits(path) == Len(path) <= MaxPath

(* parse_mountinfo_line and copy_mount: the mounts of each version. *)
IsV2Mount(m) == m.fs = "cgroup2" /\ Fits(m.root) /\ Fits(m.point)
IsV1Mount(m) == m.fs = "cgroup" /\ m.memory /\ Fits(m.root) /\ Fits(m.point)

(* detect_mounts: the first line of a version, None without one. *)
FirstMount(lines, version) ==
    LET i == SelectInSeq(lines, LAMBDA m : IF version = 2 THEN IsV2Mount(m) ELSE IsV1Mount(m))
    IN  IF i = 0 THEN None ELSE lines[i]

(* cgroup_path_under_mount_root *)
UnderMountRoot(mount, path) == IsPrefix(mount.root, path)

(* Mutant: the path of the group is taken from the root of the hierarchy. *)
CgroupDirKeepsRoot(mount, path) == mount.point \o path

(* rps_cgroup_path: a mount shows the part of the hierarchy below its root. *)
CgroupDir(mount, path) == mount.point \o SubSeq(path, Len(mount.root) + 1, Len(path))

(* consider_candidate up to its first read, for one line of /proc/self/cgroup: *)
(* the directory to look at, if any.                                           *)
Candidate(line, mounts) ==
    LET mount == IF line.controller = "unified" THEN FirstMount(mounts, 2)
                 ELSE IF line.controller = "memory" THEN FirstMount(mounts, 1)
                 ELSE None
    IN  IF mount = None \/ ~UnderMountRoot(mount, line.path) THEN <<>>
        ELSE IF ~Fits(Append(CgroupDir(mount, line.path), "file")) THEN <<>>
        ELSE << [fs |-> mount.fs, dir |-> CgroupDir(mount, line.path)] >>

(* The directories rps_cgroup_memory_detect looks at, in its order, up to  *)
(* each line of /proc/self/cgroup, and all of them.                        *)
CandidatesUpTo(machine) ==
    LET found[n \in 0..Len(machine.groups)] ==
            IF n = 0 THEN <<>>
            ELSE found[n - 1] \o Candidate(machine.groups[n], machine.mounts)
    IN  found

Candidates(machine) == CandidatesUpTo(machine)[Len(machine.groups)]
=============================================================================
