---------------------------- MODULE Descriptors -----------------------------
(***************************************************************************)
(* The descriptors of a process that runs under the shim (preload.c).      *)
(*                                                                         *)
(* The kernel keeps the descriptor table.  The shim keeps two tables of    *)
(* its own, indexed by descriptor number: fdMap (core/fd_map.c), which     *)
(* descriptors are served a corrected /proc/meminfo, and gpuMap            *)
(* (gpu/fd_tracker.c), which descriptors are an NVIDIA procfs directory or *)
(* device.  Every intercepted call updates the kernel's table and the      *)
(* shim's tables in separate steps, with no lock around them; the threads  *)
(* of the process interleave between those steps, and a number freed in    *)
(* the kernel is handed out again at once.                                 *)
(*                                                                         *)
(* Each shim table is here a function with atomic operations (each one     *)
(* runs under the table's own mutex); FdMap models the first one in        *)
(* detail.  The program is assumed to be correct in its use of             *)
(* descriptors: it passes only numbers a call has returned to it, and does *)
(* not close a number, or dup2 over it, while another of its threads is in *)
(* a call that was given it.                                               *)
(***************************************************************************)
EXTENDS GpuPaths, FiniteSets

CONSTANTS
    Threads,
    Fds,            \* descriptor numbers the kernel may hand out
    Files,          \* absolute paths that exist
    Dirs,           \* those that are directories
    Rels,           \* relative names the program uses with openat and fstatat
    Closed,         \* the kernel's entry of a number not in use
    NoFd,
    Calls,          \* optional calls: which of OptionalCalls the program makes
    CgroupMemory,   \* RUNPOD_SHIM_CGROUP_MEMORY is not opted out
    GpuVideo,       \* RUNPOD_SHIM_GPU_VIDEO is not opted out
    GpuIoctl,       \* RUNPOD_SHIM_GPU_IOCTL is not opted out
    MayFail         \* malloc, the 64 entries of fd_map or the cgroup detection may fail

OptionalCalls == {"opendir", "closedir", "fopen", "fdopen"}

(* An object without a path of its own: a socket, a pipe, a memfd. *)
Anonymous == <<"anonymous">>

Objects == Files \cup {Anonymous}

ASSUME DescriptorAssumption ==
    /\ Fds \subseteq Nat
    /\ NoFd \notin Fds
    /\ Closed \notin Objects
    /\ Files \subseteq Seq(Names) \ {Anonymous}
    /\ Dirs \subseteq Files \ {Meminfo}
    /\ Rels \subseteq [up : Nat, down : Seq(Names)]
    /\ Calls \subseteq OptionalCalls
    /\ {CgroupMemory, GpuVideo, GpuIoctl, MayFail} \subseteq BOOLEAN

VARIABLES
    phase,    \* of runpod_shim_init: not run yet, or how topology discovery ended
    kfd,      \* the kernel's descriptor table
    fdMap,    \* the descriptors with a virtual /proc/meminfo attached
    gpuMap,   \* the record of each descriptor in the GPU table
    use,      \* what the program holds each number as
    call,     \* the call each thread is in, and the step it has reached
    scoped,   \* history: got by a route the documentation says is filtered, and recorded
    slipped   \* history: a number with an entry was closed past the shim

vars == <<phase, kfd, fdMap, gpuMap, use, call, scoped, slipped>>

Uses == {"none", "fd", "dir", "stream"}

Steps == {"idle", "open", "opendir", "attach", "track", "trackdir",
          "clear", "untrack", "kclose", "dupclear", "copy", "forget"}

Kinds == {"none", "ctl", "device", "gpusdir", "busdir", "info"}

Records == [kind : Kinds, bus : Names]

Idle == [step |-> "idle", fd |-> NoFd, src |-> NoFd, file |-> Anonymous,
         rec |-> NoRecord, tracked |-> FALSE, attach |-> FALSE, scope |-> FALSE]

Ready == phase = "ready"

Init ==
    /\ phase = "loading"
    /\ kfd = [f \in Fds |-> Closed]
    /\ fdMap = {}
    /\ gpuMap = [f \in Fds |-> NoRecord]
    /\ use = [f \in Fds |-> "none"]
    /\ call = [t \in Threads |-> Idle]
    /\ scoped = {}
    /\ slipped = FALSE

-----------------------------------------------------------------------------
(* Helpers *)

(* Numbers some thread has passed to a call that has not returned. *)
Busy == {call[t].src : t \in Threads}

(* The number the kernel gives to a new descriptor: the lowest free one. *)
LowestFree(f) ==
    /\ kfd[f] = Closed
    /\ \A g \in Fds : kfd[g] = Closed => f <= g

InCall(t, step) == call[t].step = step

Goto(t, step) == call' = [call EXCEPT ![t] = [@ EXCEPT !.step = step]]

(* t begins the steps of a call that frees or fills the number f. *)
Hold(t, step, f, src) ==
    call' = [call EXCEPT ![t] = [Idle EXCEPT !.step = step, !.fd = f, !.src = src]]

Return(t) == call' = [call EXCEPT ![t] = Idle]

(* Mutant: a refusal that does not wait for the topology to be known. *)
GpuProcDeniedUnready(p) == GpuVideo /\ ProcPathDenied(p)

GpuProcDenied(p) == GpuVideo /\ Ready /\ ProcPathDenied(p)

(* The call goes on to the kernel: what it will open and what the shim     *)
(* will note about the descriptor.                                         *)
Forward(t, step, src, file, rec, tracked, attach, scope) ==
    /\ call' = [call EXCEPT ![t] =
                  [step |-> step, fd |-> NoFd, src |-> src, file |-> file, rec |-> rec,
                   tracked |-> tracked, attach |-> attach, scope |-> scope]]
    /\ UNCHANGED <<phase, kfd, fdMap, gpuMap, use, scoped, slipped>>

(* readable: the flags are not O_WRONLY and not O_PATH; for fopen, the     *)
(* mode is "r" without "+".                                                *)
ShouldVirtualizeMeminfo(p, exact, readable) ==
    CgroupMemory /\ exact /\ p = Meminfo /\ readable

(* The names under which the documentation promises a filtered view. *)
ScopeOfName(p, exact) == GpuVideo /\ Ready /\ (exact \/ p # Ctl)

-----------------------------------------------------------------------------
(* The constructor runs once.  Other constructors may have opened          *)
(* descriptors, or started threads, before it.                             *)

RunpodShimInit ==
    /\ phase = "loading"
    /\ phase' \in IF GpuVideo THEN {"ready", "failed"} ELSE {"failed"}
    /\ UNCHANGED <<kfd, fdMap, gpuMap, use, call, scoped, slipped>>

-----------------------------------------------------------------------------
(* Opening *)

(* A call the shim refuses (ENOENT) changes nothing: the actions below are *)
(* the calls that go on, and GpuProcDenied and RelativeDenied say which   *)
(* do not.  stat and fstatat refuse the same names.                        *)

(* open_common, and openat_common at AT_FDCWD, with an absolute name. *)
Open(t, p, exact, readable) ==
    /\ InCall(t, "idle")
    /\ ~GpuProcDenied(p)
    /\ Forward(t, "open", NoFd, p, ClassifyPath(p, exact), TRUE,
               ShouldVirtualizeMeminfo(p, exact, readable), ScopeOfName(p, exact))

(* openat_common with a descriptor and an absolute name: no meminfo. *)
OpenatAbsolute(t, p, exact) ==
    /\ InCall(t, "idle")
    /\ ~GpuProcDenied(p)
    /\ Forward(t, "open", NoFd, p, ClassifyPath(p, exact), TRUE,
               FALSE, ScopeOfName(p, exact))

(* open and openat(AT_FDCWD) with a name relative to the working           *)
(* directory: the shim tracks the name as written, which is no known one.  *)
OpenCwd(t, p) ==
    /\ InCall(t, "idle")
    /\ Forward(t, "open", NoFd, p, NoRecord, TRUE, FALSE, FALSE)

(* gpu_effective_openat_path: a relative name is resolved on a tracked     *)
(* NVIDIA directory, and refused if that fails or its result is denied.    *)
Resolves(f) == IsProcDirRecord(gpuMap[f])

(* Mutant: the resolved name is not looked up among the hidden GPUs. *)
RelativeDeniedEscapeOnly(f, r) == Resolves(f) /\ Escapes(gpuMap[f], r)

RelativeDenied(f, r) ==
    /\ Resolves(f)
    /\ Escapes(gpuMap[f], r) \/ GpuProcDenied(ResolveRelative(gpuMap[f], r))

OpenatRelative(t, f, r) ==
    /\ InCall(t, "idle")
    /\ use[f] # "none"
    /\ kfd[f] \in Dirs
    /\ Walk(kfd[f], r) \in Files
    /\ ~RelativeDenied(f, r)
    /\ Forward(t, "open", f, Walk(kfd[f], r),
               IF Resolves(f) THEN ClassifyPath(ResolveRelative(gpuMap[f], r), TRUE)
                              ELSE NoRecord,
               Resolves(f), FALSE,
               f \in scoped /\ (kfd[f] = GpusDir \/ IsBusDir(kfd[f])))

Opendir(t, p) ==
    /\ "opendir" \in Calls
    /\ InCall(t, "idle")
    /\ p \in Dirs
    /\ ~GpuProcDenied(p)
    /\ Forward(t, "opendir", NoFd, p, ClassifyPath(p, TRUE), TRUE,
               FALSE, ScopeOfName(p, TRUE))

(* The real open, openat or opendir: it may fail (a full table, permission). *)
KernelOpenFails(t) ==
    /\ InCall(t, "open") \/ InCall(t, "opendir")
    /\ Return(t)
    /\ UNCHANGED <<phase, kfd, fdMap, gpuMap, use, scoped, slipped>>

KernelOpen(t, f) ==
    /\ InCall(t, "open") \/ InCall(t, "opendir")
    /\ LowestFree(f)
    /\ kfd' = [kfd EXCEPT ![f] = call[t].file]
    /\ call' = [call EXCEPT ![t] =
                  [@ EXCEPT !.fd = f,
                            !.step = IF InCall(t, "opendir") THEN "trackdir" ELSE "attach"]]
    /\ scoped' = IF call[t].scope THEN scoped \cup {f} ELSE scoped \ {f}
    /\ UNCHANGED <<phase, fdMap, gpuMap, use, slipped>>

(* maybe_attach_meminfo.  rps_proc_meminfo_build fails without a finite    *)
(* cgroup limit, rps_fd_map_put without memory or with a full table; the   *)
(* entry the number had is then left as it was.                            *)
AttachMeminfo(t) ==
    /\ InCall(t, "attach")
    /\ \/ /\ call[t].attach
          /\ fdMap' = fdMap \cup {call[t].fd}
       \/ /\ call[t].attach => MayFail
          /\ UNCHANGED fdMap
    /\ Goto(t, "track")
    /\ UNCHANGED <<phase, kfd, gpuMap, use, scoped, slipped>>

(* gpu_trace_and_track_open: set the record, or remove the one a former    *)
(* owner of the number left.  Not called by openat with a name relative to *)
(* a directory that is not tracked.                                        *)
TraceAndTrackOpen(t) ==
    IF GpuVideo /\ call[t].tracked
    THEN [gpuMap EXCEPT ![call[t].fd] = call[t].rec]
    ELSE gpuMap

(* A new list node needs memory. *)
NodeMissing(t) == MayFail /\ gpuMap[call[t].fd] = NoRecord

FinishOpen(t) ==
    /\ InCall(t, "track") \/ InCall(t, "trackdir")
    /\ \/ gpuMap' = TraceAndTrackOpen(t) /\ UNCHANGED scoped
       \/ NodeMissing(t) /\ UNCHANGED gpuMap /\ scoped' = scoped \ {call[t].fd}
    /\ use' = [use EXCEPT ![call[t].fd] = IF InCall(t, "trackdir") THEN "dir" ELSE "fd"]
    /\ Return(t)
    /\ UNCHANGED <<phase, kfd, fdMap, slipped>>

(* socket, pipe, accept, memfd_create: descriptors made outside the shim. *)
ExternalOpen(t, f) ==
    /\ InCall(t, "idle")
    /\ LowestFree(f)
    /\ kfd' = [kfd EXCEPT ![f] = Anonymous]
    /\ use' = [use EXCEPT ![f] = "fd"]
    /\ scoped' = scoped \ {f}
    /\ UNCHANGED <<phase, fdMap, gpuMap, call, slipped>>

-----------------------------------------------------------------------------
(* Closing *)

Close(t, f) ==
    /\ InCall(t, "idle")
    /\ use[f] = "fd"
    /\ f \notin Busy
    /\ use' = [use EXCEPT ![f] = "none"]
    /\ Hold(t, "clear", f, NoFd)
    /\ UNCHANGED <<phase, kfd, fdMap, gpuMap, scoped, slipped>>

CloseClear(t) ==
    /\ InCall(t, "clear")
    /\ fdMap' = fdMap \ {call[t].fd}
    /\ Goto(t, "untrack")
    /\ UNCHANGED <<phase, kfd, gpuMap, use, scoped, slipped>>

CloseUntrack(t) ==
    /\ InCall(t, "untrack")
    /\ gpuMap' = [gpuMap EXCEPT ![call[t].fd] = NoRecord]
    /\ Goto(t, "kclose")
    /\ UNCHANGED <<phase, kfd, fdMap, use, scoped, slipped>>

KernelClose(t) ==
    /\ InCall(t, "kclose")
    /\ kfd' = [kfd EXCEPT ![call[t].fd] = Closed]
    /\ scoped' = scoped \ {call[t].fd}
    /\ Return(t)
    /\ UNCHANGED <<phase, fdMap, gpuMap, use, slipped>>

-----------------------------------------------------------------------------
(* Duplicating *)

(* dup, and fcntl with F_DUPFD or F_DUPFD_CLOEXEC (whose least number is   *)
(* an argument, so any free number may be returned).                       *)
Dup(t, old, new) ==
    /\ InCall(t, "idle")
    /\ use[old] # "none"
    /\ kfd[new] = Closed
    /\ kfd' = [kfd EXCEPT ![new] = kfd[old]]
    /\ scoped' = IF old \in scoped THEN scoped \cup {new} ELSE scoped \ {new}
    /\ Hold(t, "copy", new, old)
    /\ UNCHANGED <<phase, fdMap, gpuMap, use, slipped>>

(* dup2 and dup3 onto a number that is free, or that the program holds.    *)
Dup2(t, old, new) ==
    /\ InCall(t, "idle")
    /\ old # new
    /\ use[old] # "none"
    /\ kfd[new] = Closed \/ (use[new] = "fd" /\ new \notin Busy)
    /\ kfd' = [kfd EXCEPT ![new] = kfd[old]]
    /\ scoped' = IF old \in scoped THEN scoped \cup {new} ELSE scoped \ {new}
    /\ use' = [use EXCEPT ![new] = "none"]
    /\ Hold(t, "dupclear", new, old)
    /\ UNCHANGED <<phase, fdMap, gpuMap, slipped>>

(* Mutant: dup2 leaves the virtual meminfo of the number it took over. *)
Dup2ClearSkipped(t) ==
    /\ InCall(t, "dupclear")
    /\ Goto(t, "copy")
    /\ UNCHANGED <<phase, kfd, fdMap, gpuMap, use, scoped, slipped>>

Dup2Clear(t) ==
    /\ InCall(t, "dupclear")
    /\ fdMap' = fdMap \ {call[t].fd}
    /\ Goto(t, "copy")
    /\ UNCHANGED <<phase, kfd, gpuMap, use, scoped, slipped>>

(* Mutant: nothing to copy, so the old record of the number stays. *)
GpuFdMapCopySetOnly(t) ==
    [gpuMap EXCEPT ![call[t].fd] =
        IF gpuMap[call[t].src] = NoRecord THEN @ ELSE gpuMap[call[t].src]]

(* rps_gpu_fd_map_copy: the copy gets the record of the original, or loses *)
(* the one it had when the original has none.                              *)
GpuFdMapCopy(t) ==
    [gpuMap EXCEPT ![call[t].fd] = gpuMap[call[t].src]]

FinishDup(t) ==
    /\ InCall(t, "copy")
    /\ \/ gpuMap' = GpuFdMapCopy(t) /\ UNCHANGED scoped
       \/ NodeMissing(t) /\ UNCHANGED gpuMap /\ scoped' = scoped \ {call[t].fd}
    /\ use' = [use EXCEPT ![call[t].fd] = "fd"]
    /\ Return(t)
    /\ UNCHANGED <<phase, kfd, fdMap, slipped>>

-----------------------------------------------------------------------------
(* Directory streams.  fdopendir changes nothing in the shim. *)

Fdopendir(t, f) ==
    /\ "opendir" \in Calls
    /\ InCall(t, "idle")
    /\ use[f] = "fd"
    /\ f \notin Busy
    /\ kfd[f] \in Dirs
    /\ use' = [use EXCEPT ![f] = "dir"]
    /\ UNCHANGED <<phase, kfd, fdMap, gpuMap, call, scoped, slipped>>

(* closedir frees the number in the kernel first ... *)
Closedir(t, f) ==
    /\ "closedir" \in Calls
    /\ InCall(t, "idle")
    /\ use[f] = "dir"
    /\ f \notin Busy
    /\ kfd' = [kfd EXCEPT ![f] = Closed]
    /\ scoped' = scoped \ {f}
    /\ use' = [use EXCEPT ![f] = "none"]
    /\ Hold(t, "forget", f, NoFd)
    /\ UNCHANGED <<phase, fdMap, gpuMap, slipped>>

(* ... and removes the record of that number afterwards. *)
ClosedirForget(t) ==
    /\ InCall(t, "forget")
    /\ gpuMap' = [gpuMap EXCEPT ![call[t].fd] = NoRecord]
    /\ Return(t)
    /\ UNCHANGED <<phase, kfd, fdMap, use, scoped, slipped>>

-----------------------------------------------------------------------------
(* Stdio streams *)

(* fopen_common: a memfd for a readable /proc/meminfo, else the real       *)
(* fopen.  No refusal and no record.                                       *)
Fopen(t, p, readable, f) ==
    /\ "fopen" \in Calls
    /\ InCall(t, "idle")
    /\ LowestFree(f)
    /\ \/ /\ ShouldVirtualizeMeminfo(p, TRUE, readable)
          /\ kfd' = [kfd EXCEPT ![f] = Anonymous]
       \/ /\ ShouldVirtualizeMeminfo(p, TRUE, readable) => MayFail
          /\ kfd' = [kfd EXCEPT ![f] = p]
    /\ use' = [use EXCEPT ![f] = "stream"]
    /\ scoped' = scoped \ {f}
    /\ UNCHANGED <<phase, fdMap, gpuMap, call, slipped>>

(* fdopen is libc's own: a stream over a descriptor the shim may know. *)
Fdopen(t, f) ==
    /\ "fdopen" \in Calls
    /\ InCall(t, "idle")
    /\ use[f] = "fd"
    /\ f \notin Busy
    /\ use' = [use EXCEPT ![f] = "stream"]
    /\ UNCHANGED <<phase, kfd, fdMap, gpuMap, call, scoped, slipped>>

(* fclose is libc's own too, and closes the number without calling close. *)
Fclose(t, f) ==
    /\ InCall(t, "idle")
    /\ use[f] = "stream"
    /\ f \notin Busy
    /\ kfd' = [kfd EXCEPT ![f] = Closed]
    /\ use' = [use EXCEPT ![f] = "none"]
    /\ scoped' = scoped \ {f}
    /\ slipped' = (slipped \/ f \in fdMap \/ gpuMap[f] # NoRecord)
    /\ UNCHANGED <<phase, fdMap, gpuMap, call>>

-----------------------------------------------------------------------------
Opening(t) ==
    \/ \E p \in Files :
         \/ \E exact \in BOOLEAN :
              \/ \E readable \in BOOLEAN : Open(t, p, exact, readable)
              \/ OpenatAbsolute(t, p, exact)
         \/ OpenCwd(t, p)
         \/ Opendir(t, p)
         \/ \E f \in Fds, readable \in BOOLEAN : Fopen(t, p, readable, f)
    \/ \E f \in Fds, r \in Rels : OpenatRelative(t, f, r)
    \/ \E f \in Fds : KernelOpen(t, f) \/ ExternalOpen(t, f)
    \/ KernelOpenFails(t)
    \/ AttachMeminfo(t)
    \/ FinishOpen(t)

Closing(t) ==
    \/ \E f \in Fds : Close(t, f) \/ Closedir(t, f) \/ Fclose(t, f)
    \/ CloseClear(t)
    \/ CloseUntrack(t)
    \/ KernelClose(t)
    \/ ClosedirForget(t)

Converting(t) ==
    \/ \E old, new \in Fds : Dup(t, old, new) \/ Dup2(t, old, new)
    \/ Dup2Clear(t)
    \/ FinishDup(t)
    \/ \E f \in Fds : Fdopendir(t, f) \/ Fdopen(t, f)

Next ==
    \/ RunpodShimInit
    \/ \E t \in Threads : Opening(t) \/ Closing(t) \/ Converting(t)

Spec == Init /\ [][Next]_vars

-----------------------------------------------------------------------------
(* What the intercepted calls that use a descriptor do with it. *)

(* read answers from fd_map. *)
ServesVirtual(f) == f \in fdMap

(* readdir, readdir64 and getdents64 drop the entries of hidden GPUs. *)
FiltersListing(f) == GpuVideo /\ Ready /\ gpuMap[f].kind = "gpusdir"

(* ioctl rewrites the answers of the driver. *)
FiltersIoctl(f) == GpuVideo /\ GpuIoctl /\ Ready /\ gpuMap[f].kind = "ctl"

-----------------------------------------------------------------------------
(* Properties *)

CallType ==
    [step : Steps, fd : Fds \cup {NoFd}, src : Fds \cup {NoFd}, file : Objects,
     rec : Records, tracked : BOOLEAN, attach : BOOLEAN,
     scope : BOOLEAN]

(* The types of the variables. *)
TypeOK ==
    /\ phase \in {"loading", "ready", "failed"}
    /\ kfd \in [Fds -> Objects \cup {Closed}]
    /\ fdMap \subseteq Fds
    /\ gpuMap \in [Fds -> Records]
    /\ use \in [Fds -> Uses]
    /\ call \in [Threads -> CallType]
    /\ scoped \subseteq Fds
    /\ slipped \in BOOLEAN

(* docs/safety-model.md: a call outside the shim's scope is forwarded.     *)
(* read is answered from the virtual meminfo only on a descriptor of       *)
(* /proc/meminfo, whatever the number was used for before.                 *)
OnlyMeminfoVirtual ==
    \A f \in Fds : use[f] # "none" /\ ServesVirtual(f) => kfd[f] = Meminfo

(* The GPU record of a descriptor the program holds, if there is one, is   *)
(* the record of the file behind the descriptor now (rps_gpu_fd_map_* stay *)
(* in step with the kernel).                                               *)
RecordsTrue ==
    \A f \in Fds : use[f] # "none" /\ gpuMap[f] # NoRecord
                     => gpuMap[f] = ClassifyPath(kfd[f], TRUE)

(* The shim tells nothing but the truth about a descriptor the program     *)
(* holds: it is open, and neither table has an entry of a former owner of  *)
(* the number (close, dup2 and open keep the tables in step).  So it is    *)
(* until an fclose, which goes past the shim, frees a number with an entry *)
(* (see OnlyMeminfoVirtual).                                               *)
NoStale ==
    ~slipped =>
        /\ \A f \in Fds : use[f] # "none" => kfd[f] # Closed
        /\ OnlyMeminfoVirtual
        /\ RecordsTrue

(* Every route the documentation names leads to the filtered view: a       *)
(* descriptor got by an absolute name, by a walk below an NVIDIA procfs    *)
(* directory got that way, or by duplicating one, is not the directory or  *)
(* the information file of a hidden GPU, and its listing or its ioctl      *)
(* answers are filtered.  (A descriptor whose record found no memory is    *)
(* passed through by design, and is not one of these.)                     *)
ScopeFiltered ==
    \A f \in scoped : use[f] # "none" =>
        /\ IsBusDir(kfd[f]) \/ IsInfo(kfd[f]) => ~Hidden(kfd[f])
        /\ kfd[f] = GpusDir => FiltersListing(f)
        /\ kfd[f] = Ctl /\ GpuIoctl => FiltersIoctl(f)

(* A name relative to the gpus directory or to that of a GPU that leads    *)
(* out of the gpus directory, and perhaps back into it.                    *)
ClimbsOut(dir, r) ==
    (dir = GpusDir \/ IsBusDir(dir)) /\ Len(dir) - r.up < Len(GpusDir)

(* r, relative to the descriptor f, is the name of an existing file. *)
Exists(f, r) == use[f] # "none" /\ kfd[f] \in Dirs /\ Walk(kfd[f], r) \in Files

(* docs/gpu-video.md: opens and stats of hidden GPUs are filtered, also by *)
(* relative walks.  The shim judges such a walk by the record of its       *)
(* directory, the kernel walks from the directory itself: openat and       *)
(* fstatat refuse an existing file below an NVIDIA directory with a record *)
(* just when the hidden GPUs are known and the file the kernel would reach *)
(* is the directory or the information file of one; they refuse nothing    *)
(* below any other directory.  (Names that climb out of the gpus directory *)
(* are refused by another rule, see FailedPassesThrough.)  Like NoStale,   *)
(* until fclose frees a number with an entry.                              *)
RefusedExactly ==
    ~slipped => \A f \in Fds, r \in Rels :
        Exists(f, r) /\ ~ClimbsOut(kfd[f], r) =>
            LET file == Walk(kfd[f], r)
            IN  RelativeDenied(f, r) <=>
                  /\ GpuVideo /\ Ready
                  /\ gpuMap[f] # NoRecord /\ (kfd[f] = GpusDir \/ IsBusDir(kfd[f]))
                  /\ Hidden(file) /\ (IsBusDir(file) \/ IsInfo(file))

(* docs/gpu-video.md: "If topology discovery fails, the module passes      *)
(* through the original host view."  No existing file is refused then.     *)
FailedPassesThrough ==
    phase = "failed" => \A f \in Fds, r \in Rels : Exists(f, r) => ~RelativeDenied(f, r)
=============================================================================
