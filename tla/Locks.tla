-------------------------------- MODULE Locks --------------------------------
(***************************************************************************)
(* Who may wait for whom: the four mutexes of the library (virtual files,  *)
(* GPU records, learned ids, memory snapshot) and the re-entrancy guard of *)
(* core/guard.c, under threads, fork and signal handlers.                  *)
(*                                                                         *)
(* A call is the sequence of what it does to locks and guard, one for each *)
(* path through its code.  fopen inside the library is the library's own   *)
(* fopen, so a call may nest another; a signal handler nests one anywhere. *)
(***************************************************************************)
EXTENDS Integers, Sequences, SequencesExt, FiniteSets

CONSTANTS
    Threads,
    MaxCalls,        \* bound: calls each thread makes
    MaxInterrupts,   \* bound: signals delivered
    Calls,           \* calls the program makes
    HandlerCalls,    \* calls its signal handlers make
    None             \* nobody

ASSUME LocksAssumption ==
    /\ MaxCalls \in Nat /\ MaxInterrupts \in Nat
    /\ None \notin Threads
    /\ Calls \cup HandlerCalls \subseteq {"read", "close", "dup2", "openat", "open meminfo",
                                       "fopen meminfo", "fopen", "sysconf", "ioctl"}

Mutexes == {"entries", "records", "ids", "memory"}

VARIABLES
    stack,       \* for each thread the rest of every call it is in, the innermost last
    depth,       \* thread-local depth of core/guard.c
    holder,      \* owner of each mutex
    budget,      \* calls each thread still makes
    alive,       \* the threads of the process; the others are gone since a fork
    orphaned,    \* history: mutexes whose owner was gone when the process was forked
    exposed,     \* history: threads interrupted where a handler may block them
    signals      \* signals delivered so far

vars == <<stack, depth, holder, budget, alive, orphaned, exposed, signals>>

Init ==
    /\ stack = [t \in Threads |-> <<>>]
    /\ depth = [t \in Threads |-> 0]
    /\ holder = [m \in Mutexes |-> None]
    /\ budget = [t \in Threads |-> MaxCalls]
    /\ alive = Threads
    /\ orphaned = {}
    /\ exposed = {}
    /\ signals = 0

-----------------------------------------------------------------------------
(* The calls *)

Do(op, on) == << [op |-> op, on |-> on] >>

Under(m, body) == Do("lock", m) \o body \o Do("unlock", m)
Guarded(body) == Do("enter", None) \o body \o Do("leave", None)

(* rps_memory_snapshot opens the files of cgroupfs under its lock ... *)
SnapshotPaths == {Under("memory", Do("call", "fopen"))}

(* ... and rps_proc_meminfo_build opens /proc/meminfo after a snapshot that succeeded. *)
BuildPaths == SnapshotPaths \cup {s \o Do("call", "fopen meminfo") : s \in SnapshotPaths}

(* rps_fd_map_put, when there is a text to attach *)
AttachPaths == BuildPaths \cup {b \o Under("entries", <<>>) : b \in BuildPaths}

(* Mutant: the EOVERFLOW path of sysconf returns inside the guard. *)
SysconfPathsLeak == {Guarded(s) : s \in SnapshotPaths} \cup {Do("enter", None) \o s : s \in SnapshotPaths}

(* sysconf and sysinfo: every path out of the guard leaves it. *)
SysconfPaths == {Guarded(s) : s \in SnapshotPaths \cup {<<>>}}

(* Mutant: the second table is updated before the first is unlocked. *)
ClosePathsNested == {Under("entries", Under("records", <<>>))}

(* close *)
ClosePaths == {Under("entries", <<>>) \o Under("records", <<>>)}

(* Mutant: a read that finds nothing returns with the table locked. *)
ReadPathsLocked == {Guarded(Under("entries", <<>>)), Guarded(Do("lock", "entries"))}

ReadPaths == {Guarded(Under("entries", <<>>))}

(* Mutant: fopen does not ask the guard. *)
FopenMeminfoPathsOpen == BuildPaths

(* fopen_common of /proc/meminfo *)
FopenMeminfoPaths == {Guarded(b) : b \in BuildPaths}

(* dup2 replaces its target: one table after the other. *)
Dup2Paths == {<<>>, Under("entries", <<>>) \o Under("records", <<>>)}

(* openat: the record of the directory, then the record of the new one. *)
OpenatPaths == {Under("records", <<>>), Under("records", <<>>) \o Under("records", <<>>)}

(* ioctl: the record, and for the control device what the filter does. *)
IoctlPaths ==
    {Under("records", <<>>), Under("records", <<>>) \o Under("ids", <<>>)}

Paths(c) ==
    CASE c = "read" -> ReadPaths
      [] c = "close" -> ClosePaths
      [] c = "dup2" -> Dup2Paths
      [] c = "openat" -> OpenatPaths
      [] c = "open meminfo" -> {Guarded(a) \o Under("records", <<>>) : a \in AttachPaths}
      [] c = "fopen meminfo" -> FopenMeminfoPaths
      [] c = "fopen" -> {<<>>}
      [] c = "sysconf" -> SysconfPaths
      [] c = "ioctl" -> IoctlPaths

-----------------------------------------------------------------------------
(* Steps of a thread *)

Idle(t) == stack[t] = <<>>

Top(t) == Head(Last(stack[t]))

(* The innermost calls that are over return. *)
Unwound(frames) ==
    IF Last(frames) # <<>> THEN frames
    ELSE SubSeq(frames, 1, SelectLastInSeq(frames, LAMBDA f : f # <<>>))

(* The innermost call of t goes on with rest. *)
Continue(t, rest) == stack' = [stack EXCEPT ![t] = Unwound(Append(Front(@), rest))]

Rest(t) == Tail(Last(stack[t]))

(* Past the end of the guarded part *)
AfterLeave(ops) == SubSeq(ops, 1 + SelectInSeq(ops, LAMBDA o : o.op = "leave"), Len(ops))

Pushed(outer, c) == {Unwound(Append(outer, p)) : p \in Paths(c)}

Call(t, c) ==
    /\ t \in alive /\ Idle(t) /\ budget[t] > 0
    /\ budget' = [budget EXCEPT ![t] = @ - 1]
    /\ \E s \in Pushed(<<>>, c) : stack' = [stack EXCEPT ![t] = s]
    /\ UNCHANGED <<depth, holder, alive, orphaned, exposed, signals>>

At(t, op) == t \in alive /\ ~Idle(t) /\ Top(t).op = op

Enter(t) ==
    /\ At(t, "enter")
    /\ IF depth[t] = 0
       THEN depth' = [depth EXCEPT ![t] = 1] /\ Continue(t, Rest(t))
       ELSE UNCHANGED depth /\ Continue(t, AfterLeave(Last(stack[t])))
    /\ UNCHANGED <<holder, budget, alive, orphaned, exposed, signals>>

Leave(t) ==
    /\ At(t, "leave")
    /\ depth' = [depth EXCEPT ![t] = IF @ > 0 THEN @ - 1 ELSE @]
    /\ Continue(t, Rest(t))
    /\ UNCHANGED <<holder, budget, alive, orphaned, exposed, signals>>

Lock(t) ==
    /\ At(t, "lock") /\ holder[Top(t).on] = None
    /\ holder' = [holder EXCEPT ![Top(t).on] = t]
    /\ Continue(t, Rest(t))
    /\ UNCHANGED <<depth, budget, alive, orphaned, exposed, signals>>

Unlock(t) ==
    /\ At(t, "unlock")
    /\ holder' = [holder EXCEPT ![Top(t).on] = None]
    /\ Continue(t, Rest(t))
    /\ UNCHANGED <<depth, budget, alive, orphaned, exposed, signals>>

(* The library calls fopen, its own. *)
Nest(t) ==
    /\ At(t, "call")
    /\ \E s \in Pushed(Append(Front(stack[t]), Rest(t)), Top(t).on) :
           stack' = [stack EXCEPT ![t] = s]
    /\ UNCHANGED <<depth, holder, budget, alive, orphaned, exposed, signals>>

Holds(t) == {m \in Mutexes : holder[m] = t}

(* A signal handler runs in t and calls c.  It cannot be blocked by t      *)
(* itself when t holds no mutex, or when c asks the guard and t is inside. *)
Interrupt(t, c) ==
    /\ t \in alive /\ ~Idle(t) /\ signals < MaxInterrupts
    /\ \E s \in Pushed(stack[t], c) : stack' = [stack EXCEPT ![t] = s]
    /\ signals' = signals + 1
    /\ exposed' = IF Holds(t) = {} \/ (c = "read" /\ depth[t] > 0) THEN exposed ELSE exposed \cup {t}
    /\ UNCHANGED <<depth, holder, budget, alive, orphaned>>

(* fork, seen from the child: the other threads are gone, the memory with  *)
(* the mutexes is as it was.                                               *)
Fork(t) ==
    /\ alive = Threads /\ Idle(t) /\ Cardinality(Threads) > 1
    /\ alive' = {t}
    /\ orphaned' = {m \in Mutexes : holder[m] \notin {None, t}}
    /\ UNCHANGED <<stack, depth, holder, budget, exposed, signals>>

Step(t) == Enter(t) \/ Leave(t) \/ Lock(t) \/ Unlock(t) \/ Nest(t)

Next ==
    \E t \in Threads :
        \/ Step(t)
        \/ \E c \in Calls : Call(t, c)
        \/ \E c \in HandlerCalls : Interrupt(t, c)
        \/ Fork(t)

(* A thread inside a call is scheduled again and again; no mutex is asked  *)
(* to be fair, since only finitely many calls are made.                    *)
Spec == Init /\ [][Next]_vars /\ \A t \in Threads : WF_vars(Step(t))

-----------------------------------------------------------------------------
(* Properties *)

(* Between two calls a thread holds no mutex and is outside the guard,     *)
(* whatever path its last call took: otherwise all later reads of the      *)
(* thread would be passed through.                                         *)
GuardBalanced == \A t \in alive : Idle(t) => depth[t] = 0 /\ Holds(t) = {}

(* A thread that waits for a mutex holds no other one: no order of the     *)
(* mutexes is needed.  The exception is a signal handler that calls close, *)
(* or reads outside the guard, while its thread holds a mutex.             *)
NoHoldAndWait ==
    \A t \in alive : At(t, "lock") /\ Holds(t) # {} => t \in exposed

(* The text of /proc/meminfo is never built while it is being built: the   *)
(* library's own fopen of the file ends in the guard.                      *)
NoRecursion == \A t \in alive : Len(stack[t]) <= 2 + signals

(* Every call returns: in any interleaving of the threads, in the child of *)
(* a fork that left no mutex behind, and under signals whose handler reads *)
(* while the thread is inside the guard, or calls anything while the       *)
(* thread holds no mutex.                                                  *)
CallsReturn ==
    \A t \in Threads :
        (t \in alive /\ ~Idle(t)) ~> (Idle(t) \/ t \notin alive \/ orphaned # {} \/ exposed # {})
=============================================================================
