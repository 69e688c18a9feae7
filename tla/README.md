# A TLA+ model of Runpod Shim

Runpod Shim is an `LD_PRELOAD` library. It sits between a program and libc and
corrects what the program sees of a container: `/proc/meminfo`, `sysinfo` and
`sysconf` show the cgroup's memory, and the NVIDIA procfs tree and the driver's
`ioctl` answers show only the GPUs that are mounted. This directory models the
library and its installer, checks the model with TLC on small instances, and
proves its safety properties with TLAPS for every instance.

Source paths below are relative to the repository (`src/...` is its `src/`
directory); `PROJECT.json` gives the lines behind every definition.

## The system

| part | state | operations | meets | what can go wrong |
|---|---|---|---|---|
| interposed calls (`src/preload.c`) | none of its own but `g_gpu_proc_filter_ready` and the allowed set | about 30 libc calls | kernel, both tables, filters | the kernel's step and the shim's steps are separate; other threads run in between |
| virtual file table (`src/core/fd_map.c`) | 64 entries, each with a heap copy and an offset; a mutex | put, take_read, remove | open, read, close, dup2 | ownership of blocks, full table, stale entries |
| GPU descriptor table (`src/gpu/fd_tracker.c`) | linked list descriptor to record; a mutex | classify, set, get, remove, copy | open, openat, dup, close, readdir, ioctl | stale or missing records |
| path rules (`src/gpu/proc_filter.c`, `src/preload.c`) | the allowed set, constant once it is valid | normalise, allow or deny, resolve a relative name | open, stat, opendir | `..`, spelling, fail-open |
| topology discovery (`src/gpu/proc_filter.c`) | builds the allowed set in the constructor | | `/dev`, `/proc` | partial matches, calls before the constructor |
| ioctl filter (`src/gpu/ioctl_filter.c`) | up to 32 learned GPU ids; a mutex | filter_after | ioctl | order of the calls of all threads |
| listing filter (`src/preload.c`, `src/gpu/proc_filter.c`) | none | readdir, readdir64, getdents64 | kernel | empty batches, long runs of hidden entries |
| memory (`src/cgroup`, `src/memory`) | detected cgroup, cached for ever | snapshot, meminfo, sysinfo, sysconf | cgroupfs | malformed or changing limits, integer ranges |
| guard, real symbols, config (`src/core`) | thread-local flag; lazily filled tables | enter, leave, get | everything | re-entrancy, first call of two threads |
| tools (`tools/`) | `/etc/ld.so.preload` | wrapper, enable, disable, probe | | two installers at once, crash between two writes |

The hard part is the first row. A descriptor number lives in three places, the
kernel's table and the two tables of the shim, and no lock spans them. A number
that is freed in the kernel is handed out again at once, also to another thread,
also by calls the shim does not see. So the central questions are whether the
shim ever acts on an entry that belongs to a former owner of a number, whether
every documented route to a GPU path stays filtered, and whether anything is
refused that should not be. The hazards in `PROJECT.json` are listed line by
line.

## Modules

| module | models | role |
|---|---|---|
| `GpuPaths` | path classification, refusal, relative resolution | operators, used by `Descriptors` |
| `Descriptors` | all calls that create, copy, convert or close descriptors | the core state machine |
| `MCDescriptors` | | instances of it |
| `DescriptorsProofs` | | theorems about it |
| `FdMapSpec` | what `core/fd_map.h` promises: a map from descriptors to unread bytes | abstract specification |
| `FdMap` | `core/fd_map.c`: slots, heap blocks, the allocation before the lock | implements `FdMapSpec` |
| `MCFdMap`, `FdMapProofs` | | instance, theorems |
| `Selection` | the loops that copy what they keep to the front of an array | operators, used by `GpuDiscovery` and `GlobalPreload` |
| `SelectionProofs` | | lemmas about them, and the induction the other proofs use |
| `GpuFdTracker` | `gpu/fd_tracker.c`: the linked list with its nodes, and names as callers spell them | extends `GpuPaths` |
| `MCGpuFdTracker`, `GpuFdTrackerProofs` | | instance, theorems |
| `GpuDiscovery` | topology discovery of `gpu/proc_filter.c` | component of the next two |
| `IoctlFilter` | `gpu/ioctl_filter.c` during and after that discovery | composes `GpuDiscovery` and the filter |
| `MCIoctlFilter` | | instance |
| `DirListing` | `readdir`, `readdir64`, `getdents64` after that discovery | composes `GpuDiscovery` and the listing |
| `MCDirListing` | | instance |
| `GpuViewProofs` | | theorems about the discovery and its two uses |
| `CgroupMemory` | `cgroup/cgroup.c`, `core/paths.c`: tokens, mounts, cgroup directories | operators, used by `MemoryReports` |
| `MemoryReports` | `memory/memory.c`, `memory/proc_meminfo.c`, `sysinfo`, `sysconf` | state machine over changing control files |
| `MCMemoryReports`, `MemoryReportsProofs` | | instance, theorems |
| `Locks` | `core/guard.c` and the four mutexes along the paths of the calls | state machine with fork and signals |
| `MCLocks`, `LocksProofs` | | instance, theorems |
| `GlobalPreload` | `tools/runpod-shim-install-global` | state machine with kills |
| `MCGlobalPreload`, `GlobalPreloadProofs` | | instance, theorems |

### GpuPaths and Descriptors

A path is the sequence of its segments once `.` and `..` are gone. How the
caller spelled it is one flag, `exact`: the code compares `/dev/...` and
`/proc/meminfo` byte for byte but normalises procfs names, so spelling matters
for the former only. A relative name is a number of leading `..` and the
segments after them. Names with `.` and `..` in any place, and the limits on
segments and bytes, are in `GpuFdTracker`.

`Descriptors` has the kernel's table (`kfd`), the descriptors with a virtual
meminfo (`fdMap`), the GPU records (`gpuMap`), how discovery ended (`phase`), what
the program holds each number as (`use`) and the call every thread is in
(`call`). Two variables are histories: `scoped`, the descriptors got by a route the
documentation promises to filter whose record, if it needed one, found memory, and
`slipped`, that `fclose` has freed a number with an entry in one of the tables.

A call of the C code is several actions, cut where another thread can run:

| call | actions |
|---|---|
| `open`, `openat` | `Open`, `OpenatAbsolute`, `OpenCwd` or `OpenatRelative` (check and classify); `KernelOpen` or `KernelOpenFails`; `AttachMeminfo`; `FinishOpen` |
| `opendir` | `Opendir`; `KernelOpen`; `FinishOpen` |
| `close` | `Close`; `CloseClear`; `CloseUntrack`; `KernelClose` |
| `dup`, `fcntl(F_DUPFD)` | `Dup`; `FinishDup` |
| `dup2`, `dup3` | `Dup2`; `Dup2Clear`; `FinishDup` |
| `closedir` | `Closedir` (the real one); `ClosedirForget` |
| `fdopendir`, `fopen` | one action each |
| `fdopen`, `fclose`, `socket`, ... | `Fdopen`, `Fclose`, `ExternalOpen`: libc or the kernel, past the shim |
| constructor | `RunpodShimInit`, at any time: other constructors may run first |

A refused call changes nothing, so refusals are guards (`GpuProcDenied`,
`RelativeDenied`), and `RefusedExactly` is about these guards. Calls that only
use a descriptor (`read`, `readdir`, `ioctl`) appear as what they would do with
it: `ServesVirtual`, `FiltersListing`, `FiltersIoctl`.

The program is assumed to use descriptors correctly: it passes numbers that a
call returned, and does not close a number, or `dup2` over it, that one of its
threads is using in a call. Without this no table could be right.

### FdMap

The functions run under the lock are single actions; `rps_fd_map_put` is two,
`PutAlloc` before the lock and `PutStore` or `PutFull` under it. Heap blocks are
model values, so that a leak, a double free and a use after free are visible.
Bytes are pairs of a text and a position. A `malloc` that fails changes nothing
and is a step that does not happen.

`ImplementsMap` maps a descriptor to the bytes of its entry that are unread. Under
this mapping `PutAlloc` and `PutFull` are stutters, and the others one abstract
operation each.

### GpuFdTracker

The list is `[head, heap]`; a node is a model value, so that a leak, a dangling
link and a use after free are visible, and `malloc` may fail at any time. The
functions hold the table's mutex from their first look to their last write and
are operators on lists: `MapGet`, `MapSet`, `MapRemove`, `MapCopy`, the last with
the peculiarity of the code that its one loop ends with the last match where the
others stop at the first. `Push` is one turn of the two loops over the segments
of a name; `Normalize` and `Resolve` are these loops, and `Reached` is the
kernel's walk, without limits, that `RecordsTrue` compares them with. `lost` is a
history of the descriptors that could not be recorded (no memory, a name beyond
a limit, a name relative to an untracked directory).

### IoctlFilter

The driver's tables are constants and its answers are chosen from small sets.
Card info is two steps, recording (under the lock) and hiding rows (after it).
Learned ids are a set: no answer depends on their order. The allowed GPUs are
those of `GpuDiscovery`, whose steps interleave with the calls: a thread that
another constructor has started may ask the driver before the shim is ready.

### GpuDiscovery and DirListing

Discovery is three steps, `CollectMountedMinors`, `CollectGpuInfos` and
`BuildAllowedGpus`. A scan may end early, as it does when `getdents64` fails; a
table that is full drops the rest; an information file is a verdict on its text
(`whole`, `no bus`, `no minor`, `bad`, `unreadable`). Then a program reads the
directory to its end, with `readdir` or with `getdents64` and a buffer of any size
up to `MaxBatch` entries.

### CgroupMemory and MemoryReports

A token of a control file is a sequence of characters, so that overflow, leading
letters and the sentinel are decided by the loop of `parse_u64_token` and not
assumed; `Spells` is the definition it is compared with. Mount points and cgroup
paths are sequences of segments. `rps_memory_snapshot` is cut at every read of a
control file: `Lock`, then `DetectLimit` and `DetectUsage` for each candidate,
`DetectSucceeds` or `DetectFails`, `Refresh`. In between the kernel charges memory
(`Charge`) and limits are set or lifted (`WriteLimit`). An answer is what the
interface computes from the snapshot, with the width of `unsigned long` and of
`mem_unit`, the page size and the buffer as constants. Where `/proc/meminfo` cannot
be opened or read (`readable`), the build gives up and the host's file is opened; it
keeps nothing from one call to the next, so this is a property of the machine.
`PodWhenLimited` excepts that case and a text too long for the buffer, for meminfo
only. `writes` is a history: it
tells the directories nobody has touched, for which more can be promised.

### Locks

A call is the sequence of what it does to the guard and the mutexes, one for each
path through its code (`ReadPaths`, `ClosePaths`, ...). `fopen` inside the library is
the library's own, so calls nest (`Nest`), and so do signal handlers (`Interrupt`).
`Fork` is seen from the child: the other threads are gone and the mutexes are as
they were.

### GlobalPreload

Every command of the script that reads or writes `/etc/ld.so.preload` is a step;
the redirection of `remove_lib` is two, the truncation and the write. A shell may
be killed between any two (`Fault`). The file is a sequence of characters, so that
a missing last newline counts: `Split` reads it into the lines that are ended and
the one that is not, `TextOf` is what `grep` prints.

## Runs

Passing runs:

| run | bounds | properties |
|---|---|---|
| `descriptors_one` | 1 thread, 2 descriptors, 9 files, 8 relative names; memory, table slots or the cgroup limit may be missing at any time; no `fdopen` | `TypeOK`, `NoStale`, `ScopeFiltered`, `RefusedExactly` |
| `descriptors_two` | 2 threads, 2 descriptors, one file of every kind that is treated apart; with `fdopen` and `fclose`, without `opendir`, `closedir` and `fopen` | `NoStale`, `ScopeFiltered`, `RefusedExactly` |
| `fd_map` | 2 threads, 3 descriptors, 2 slots, 3 blocks, texts of length 0 to 2, reads of 0 to 2 | `UniqueFd`, `BlocksOwnedOnce`, `ReadsInBounds`, `ImplementsMap` |
| `fd_tracker` | 3 descriptors, 3 nodes, 9 absolute and 8 relative names around the limits | `ListWhole`, `RecordsTrue`, `MapOperations` |
| `ioctl_filter` | 2 threads, 2 mounted GPUs and a hidden one, files that are understood or not, scans cut anywhere | `LearnedWhole`, `RewrittenClean`, `MountedKept`, `FilteredOnceLearned` |
| `dir_listing` | 4 GPUs in tables of 3, every order of 3 of them, every verdict on each file, scans cut anywhere, batches of 1 to 3 | `AllowedExact`, `SeenFiltered`, `MountedListed`, `ReaddirReturns` |
| `memory` | 2 threads, a v1 and a v2 directory, a hybrid machine, one with nested mounts and one whose `/proc/meminfo` cannot be read, builds of two widths; 4 limits, 2 usages, one write to each directory | `LeastLimit`, `PodWhenLimited`, `TotalsAgree`, `FreeWithinTotal`, `SizesFit`, `MeminfoWhole`, `LockProtects` |
| `locks` | 2 threads with 2 calls each out of 8, a fork, a signal | `GuardBalanced`, `NoHoldAndWait`, `NoRecursion`, `CallsReturn` |
| `global_preload` | 2 shells, 4 commands, 2 faults, 7 files | `OthersKept`, `LastCommandHolds` |

What they show: `NoStale` that the shim never acts on an entry of a former owner
of a number; `ScopeFiltered` that every documented route ends in the filtered
view; `RefusedExactly` that a name relative to a tracked NVIDIA directory, as long
as it stays in `gpus/`, is refused just when the kernel would reach a hidden GPU's
directory or information file, and that nothing is refused below other
directories. `MapOperations` compares
set, remove and copy with a map on every list that can arise, and `RecordsTrue`
the record of a descriptor with the file the kernel reached. `FilteredOnceLearned`:
once any thread's card info has passed by, no answer to a later call shows a
GPU that is not mounted in `/dev`; `MountedKept`: no answer loses one that is, if the
discovery was complete. `AllowedExact` and `MountedListed` follow a mounted GPU from `/dev`
through discovery to the end of a listing. `LeastLimit` and `PodWhenLimited` say
which limit is reported, `TotalsAgree` that all interfaces and threads report the
same one, and the others of `memory` that no number wraps or is cut.
`OthersKept` holds unless, between the truncation and the write of a `disable`, a
fault hits it or another command filters the file or appends to it; these do lose
lines, as the script's design implies. An `enable` whose append falls between the
filtering and the rewriting of a `disable` loses its own line; `LastCommandHolds`
says that this `disable` is then completed after it, so that an `enable` completed
last leaves the library listed however the commands overlapped.

The bounds. Two descriptors are enough for `Descriptors`: the properties relate
one number to its former owner, or a copy to its original, and a number is reused
as soon as it is free. One mounted and one hidden GPU are all the path rules can
tell apart. Three descriptors on two slots make the table full. Three nodes make
a head, a middle and an end. `memory` scales 64 bits down to 6 and 32 to 3 and
keeps the order of page size, sentinel and ranges; its limits are two that are
finite, the sentinel and `max`, its usages lie between the two limits and out of
range. Two calls of each thread suffice for `locks`, since no lock outlives a
call. Four commands are enough for a command to be killed, repeated, undone and
crossed by another. Threads, blocks and nodes are symmetric where a run says so;
the properties checked there are invariants and a refinement without fairness.

Why `descriptors_two` leaves out `closedir`, and `NoStale` and `RefusedExactly` ask
nothing after an `fclose` that has freed a number with an entry (`slipped`): there
the code does not have the properties, which the next runs show. `opendir` and
`fopen`, whose steps are those of `open` or a single one, are left to
`descriptors_one`, which in turn leaves out `fdopen`, to keep both runs short.

Runs that end in a counterexample, each against a line of the repository:

| run | property | what TLC shows |
|---|---|---|
| `closedir_race` | `ScopeFiltered` | thread 1 closes a directory stream, thread 2 gets the number and opens the gpus directory or `/dev/nvidiactl`, thread 1 removes thread 2's record |
| `fclose_stale` | `OnlyMeminfoVirtual` | open meminfo, `fdopen`, `fclose`, open another file: it reads as meminfo |
| `failed_discovery` | `FailedPassesThrough` | discovery fails, the gpus directory is opened: the name `..` relative to it, an existing directory, is refused |

Fairness is assumed in two modules. `WF(ReaddirSkip \/ ReaddirReturn)` in
`DirListing` says that a call of `readdir` that has been made keeps running: it
takes no lock but the table's, which is held for a bounded walk. `WF(Step(t))` for
each thread of `Locks` says that the scheduler runs every thread that can go on.
No fairness of the mutexes is assumed; a bounded number of calls makes it
unnecessary. Nothing is assumed about the program making calls. Listings,
installers and programs may stop, so these runs do not check for deadlock;
`CallsReturn` does it for `locks`. In the other models a call can always be made.

### Known divergences

Behaviour of the code that differs from what its documentation suggests, and
that the properties are therefore conditional on:

* `dup`, `dup2`, `dup3` and `fcntl(F_DUPFD)` copy the GPU record of a descriptor and
  not its virtual meminfo: the copy reads the host's file (`src/preload.c:617`).
* Attached ids and active devices asked for before any card info are passed on
  unfiltered (`src/gpu/ioctl_filter.c:119`), hence "once learned".
* A batch of `getdents64` that holds hidden GPUs only is compacted to length 0,
  which reads as the end (`src/gpu/proc_filter.c:702`); `MountedListed` asks for a
  buffer larger than every run of hidden GPUs.
* A name that climbs out of the gpus directory from a tracked descriptor is refused
  whether discovery has failed, succeeded or not yet run (`src/preload.c:306`); run
  `failed_discovery` shows it against the documentation of a failed one.
  `RefusedExactly` is therefore about names that stay inside.
* A mounted GPU whose information file cannot be understood, or that lies beyond
  the 32nd place of a table, is hidden as soon as another one is allowed.
* A cgroup limit is detected once: a change is not seen by a running process,
  and the limits of ancestors are not consulted.
* Where `unsigned long` has 32 bits, `sysinfo` overwrites `mem_unit` and leaves the
  swap fields in the host's unit; `SizesFit` speaks of that field for 64 bits only.
* A child forked while another thread holds a mutex, and a signal handler that
  calls `close` while its thread holds one, may wait for ever; `CallsReturn`
  excludes exactly these.
* `fopen` refuses no name; a descriptor of the gpus directory opened by a name
  relative to the working directory or to an untracked directory gets no record,
  so its listing is not filtered; the other files in the directory of a hidden GPU
  are not refused, only the directory itself and `information`. A descriptor
  whose list node cannot be allocated is passed through, by design.

### Mutants

Every property of a passing run has a mutant in `PROJECT.json`: a definition
changed the way a plausible bug would change it, under which TLC finds the
property violated. The mutants stand above the definitions they change.

## Proofs

The theorems hold for every value of the constants that satisfies the named
assumptions, which TLC evaluates in the runs: any number of threads, descriptors,
files, slots, nodes, GPUs, calls and signals, any limits and contents. What the
assumptions say beyond types and distinct model values:

* `PathAssumption`, `DescriptorAssumption`: devices lie in `/dev` and none is
  `nvidiactl`; `/proc/meminfo` is not a directory.
* `FdMapAssumption`: the table has a slot.
* `TrackerAssumption`: the heap is finite; `.` and `..` are not names of files.
* `IoctlAssumption`: an id names one GPU; the driver's tables are not longer than
  the 32 places the shim has, as `nvidia_rm.h` declares them.
* `DiscoveryAssumption`, `ListingAssumption`: two GPUs have two minors; a listing names
  an entry once and has `.` and `..`; a buffer holds an entry. Built into
  `CollectGpuInfos`: the `Bus Location` line of an information file, where it has one,
  names the directory the file is in (the code takes the bus from the line,
  `src/gpu/proc_filter.c:344`; the driver writes both from one address).
* `CgroupAssumption`, `MemoryAssumption`: the sentinel is at most half of the largest
  64-bit number, as the code's constant is; the largest unit of `sysinfo` brings
  every finite limit into `unsigned long`, as it does for 32 and 64 bits.
* `LocksAssumption`: the calls are those the paths are written for.
* `PreloadAssumption`: the library's line is not empty and has no newline in it.

`DescriptorsProofs`:

* `TypeCorrect`: `Spec => []TypeOK`. The type invariant alone is not inductive:
  steps after the kernel's use the number the call has got, so the invariant also
  says that such a call has one (`FdInHand`).
* `NeverStale`: `OneCloser => (Spec => []NoStale)`. `OneCloser` is the condition
  the counterexample asks for: no `closedir` unless the program has a single
  thread. The inductive invariant, which holds until `slipped`, says who answers
  for a number at every moment: a number the program holds has true entries
  (`HeldGood`); a number free in the kernel has no virtual file, and no GPU record
  unless a `closedir` still has to remove it (`FreeGood`); two calls are never
  about the same number (`CallApart`); and for a number inside a call, what the
  step it has reached still guarantees (`CallGood`): before `AttachMeminfo` there
  is no virtual file, between `Dup2` and `Dup2Clear` there may be the one of the
  former owner, and so on. `NoStale` speaks of held numbers only and is far from
  inductive.
* `RefusalsExact`: `OneCloser => (Spec => []RefusedExactly)`, from the same invariant: a
  relative name is resolved on the record of its directory, which is true, so the
  shim's walk and the kernel's end at the same file.
* `RoutesFiltered`: `OneCloser => (Spec => []ScopeFiltered)`, also after
  `slipped`, since a stale record filters too much and never too little. The
  invariant `ScopeInv` follows a promised descriptor from the check of its name to
  its record (`CallScope`), through copies (`CallCopies`), and says nothing of the
  others.

`FdMapProofs`:

* `BlocksSafe`, `EntriesUnique` and `ReadsBounded`: `TypeOK`, `UniqueFd`,
  `BlocksOwnedOnce` and `ReadsInBounds` together are inductive. They need each other:
  an entry can be freed since its block has no other owner, and can be read since
  nobody else frees the block.
* `TableImplementsMap`: `Spec => ImplementsMap`, the refinement of `FdMapSpec`. Each
  operation under the lock is one step of the map, the others stutter; the
  invariant adds that a text without bytes has no block (`EmptyPut`).

`GpuViewProofs`, for the discovery and the two views that rest on it:

* `AllowedSetExact`: `ListingSpec => []AllowedExact`, from `DiscoveryInv`, which says
  what each of the three passes has read when it is over or was cut.
* `LearnedTogether`: `IoctlSpec => []LearnedWhole`. The invariant adds that a card info
  call holds the driver's whole table until its ids are recorded; that there is
  room for all of them is a counting argument on the rows. Nothing is learned
  before the allowed set is final.
* `RewrittenAnswersClean`, `MountedGpusKept`, `FilteringLasts`: the three properties of
  answers. `FilterInv` carries what a call knew when it began to the moment it
  returns (`CallGood`); `RewriteExact` says that each of the three loops of the code
  keeps exactly the allowed GPUs, and `DiscoveryInv` that these are mounted ones,
  and all of them after a complete discovery.
* `ListingFiltered`, `MountedGpusListed`: what the program was given is the visible part
  of the entries read so far (`GivenUpTo`), and a listing ends at the end of the
  directory or in a batch of hidden GPUs (`CutShort`).

`MemoryReportsProofs`:

* `ParseExact`: `parse_u64_token` reads a token as `n` just when it spells `n`, for
  every token, by induction on its length.
* `SnapshotLocked`: `Spec => []LockProtects`.
* `TotalsAlwaysAgree`: `Spec => []TotalsAgree`. Neither is inductive. The invariant
  `MemoryInv` says that a detection runs only while nothing was detected and a
  refresh only afterwards (`Phases`), that the thread inside holds the lock
  (`Holding`), and that an answer with the pod's numbers was given after a detection
  and shows its limit (`Answers`). So no later detection can change the limit under
  an answer. What the three interfaces make of a snapshot is `AnswerShows`.
* `FreeNeverAboveTotal`, `SizesAlwaysFit`, `MeminfoAlwaysWhole`: no number wraps, no
  interface gives up, no line is lost; from the same invariant.
* `SmallestLimitUsed`, `LimitsReported`: `OwnDirectories => (Spec => ...)` for `LeastLimit`
  and `PodWhenLimited`. `ScanInv` says what a detection that has come to its n-th
  candidate knows of the first n. `OwnDirectories` ties the list of the process's
  directories, which the properties use, to the mounts and the lines of
  `/proc/self/cgroup`; the machines of the run meet it.

`GpuFdTrackerProofs`:

* `ListStaysWhole`, `ListIsAMap`: `Spec => []ListWhole` and `Spec => []MapOperations`. The
  list is sound if its nodes are a finite sequence from the head to the end that
  has every allocated node once (`Sound`); each function turns such a sequence
  into another one.
* `RecordsStayTrue`: `Spec => []RecordsTrue`. The loops over the segments of a name
  reach what the kernel's walk reaches, unless they give up (`PushesReach`).

`LocksProofs`:

* `CallsBalanced`, `WaitsEmptyHanded`, `NestingBounded`: `GuardBalanced`,
  `NoHoldAndWait` and `NoRecursion`. `Good` is what every rest of every path of a
  call has: the guard is entered first and left once, and a mutex is unlocked next
  or after an `fopen`. So the rest of a call tells whether it is inside the guard
  (`Inside`) and which mutex it holds (`Held`). `LocksInv` says that depth and owners
  agree with the stack, at most one call of a thread is inside, over a call that
  holds a mutex there are only reads that pass through (`Calm`, unless the thread
  is exposed), and a stack is deeper than its signals allow only below a call that
  is inside (`Shallow`).

`GlobalPreloadProofs`:

* `OtherLibrariesKept`: `Spec => []OthersKept`. What a shell has read is used steps
  later, so the invariant says what each shell relies on. `EndInv`, at all times: who
  is to append finds the last line ended. `KeepInv`, while no fault and no other
  command has hit a replacement: who is to replace the file holds the other lines
  of the original with perhaps blank lines after them (`Padded`); so does the file
  once filtered, and while it is being replaced it is empty or already has them. Two
  such texts written over each other are again one (`OverPad`), so disables that
  overlap do no harm.
* `LastCommandObeyed`: `Spec => []LastCommandHolds`. `ListedInv` says, whatever overlaps,
  that after a completed `enable` the library is listed until a `disable` has emptied
  the file and is still to be completed. `AloneInv` says, while commands did not
  overlap, how far the only one has come (`Progress`): past `has_lib` the library
  is not listed, past the filter the temporary file is free of it.
* Both rest on lemmas about text. A newline ends the open line or adds a blank one
  (`NewlineAppended`), a line appended to an ended one is one line more
  (`SplitWholeLine`), `tail -c 1` tells the two cases apart (`WholeEnd`), and what
  `grep` has printed reads as the lines it has printed (`TextRead`).

Loops are recursive functions, not folds or `SelectSeq`, and `SelectionProofs` proves
the induction they need from the least element of a set of numbers: the
library's induction theorems take an operator, which the provers cannot supply.

Only model-checked: the liveness properties `ReaddirReturns` and `CallsReturn`, which
the prover does not treat. Every invariant and the refinement of the passing
runs is also proved, under the conditions named above.

## What is not modelled

* `core/real.c`: the constructor fills the table of real functions before the
  program has threads. A thread of an earlier constructor may race with it; all
  fillers store the same pointers, and what a weakly ordered processor makes of
  that is below a model of whole steps.
* `core/config.c`: the switches are constants; the comparison of environment
  strings with `0`, `off` and so on has no state to get wrong.
* The trace log, the wrapper and the probe (output, environment and `exec` only)
  and packaging.
* The splitting of text into lines and fields (`mountinfo`, `/proc/self/cgroup`,
  `information`), argument decoding of `fcntl` and `ioctl`, the wording of messages.
* `rps_gpu_fd_map_clear` and the explicit UUID of `rps_gpu_build_allowed_gpus`,
  which the library never uses. Directory entries malformed by the kernel do not
  occur.
* Writes of the installer that the kernel splits: its texts are a few lines.
