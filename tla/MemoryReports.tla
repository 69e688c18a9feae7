---------------------------- MODULE MemoryReports ----------------------------
(***************************************************************************)
(* The answers of sysinfo, sysconf and the virtual /proc/meminfo:          *)
(* rps_memory_snapshot of memory/memory.c with the detection it runs under *)
(* its lock, encode_sysinfo_memory and sysconf of preload.c, and           *)
(* rps_proc_meminfo_build.                                                 *)
(*                                                                         *)
(* Every read of a control file is a step of its own: the kernel and the   *)
(* owner of the container change the files at any time, also between the   *)
(* reads of one detection.                                                 *)
(***************************************************************************)
EXTENDS CgroupMemory, FiniteSetsExt

CONSTANTS
    Threads,
    Machines,       \* [mounts, groups, text, readable, wordMax, own]: mountinfo,
                    \* /proc/self/cgroup, /proc/meminfo and whether it can be opened and
                    \* read, ULONG_MAX of the build, and the directories of Groups this
                    \* process belongs to
    Groups,         \* the cgroup directories with control files
    LimitTokens,    \* what a limit file may say
    UsageTokens,    \* what a usage file may say
    UIntMax,        \* UINT_MAX
    PageSize,
    Kilo,           \* bytes in a kB
    LineLen,        \* length of a line append_rewritten_line writes
    BufLen,         \* RPS_MEMINFO_BUFFER_SIZE
    HostSwap,       \* the host's swap in bytes
    MaxWrites       \* bound: writes that set or lift a limit, for each directory

Calls == {"sysinfo", "phys_pages", "avphys_pages", "meminfo"}

(* What starts a line of /proc/meminfo: a key that is rewritten, or not. *)
Keys == {"MemTotal", "MemFree", "MemAvailable", "other"}

(* The units of sysinfo: powers of two, which have no odd divisor but one. *)
Scales == {s \in 1..UIntMax : \A d \in 2..s : s % d = 0 => d % 2 = 0}

ASSUME MemoryAssumption ==
    /\ UIntMax \in Nat \ {0} /\ PageSize \in Nat \ {0} /\ Kilo \in Nat \ {0}
    /\ LineLen \in Nat /\ BufLen \in Nat /\ HostSwap \in 0..U64Max
    /\ LimitTokens \cup UsageTokens \subseteq Seq(Digits \cup {Letter})
    /\ \A m \in Machines :
          /\ m.wordMax \in Nat /\ m.readable \in BOOLEAN
          /\ m.text \in Seq([key : Keys, value : Nat, len : Nat])
          /\ m.groups \in Seq({m.groups[i] : i \in DOMAIN m.groups})
          \* the largest unit brings every finite limit into unsigned long
          /\ \E s \in Scales : (Sentinel - 1) \div s <= m.wordMax
    /\ None \notin Threads /\ None \notin Calls
    /\ None \notin [total : Nat, available : Nat]

VARIABLES
    machine,    \* the files of /proc and the build, which do not change
    files,      \* the control files
    cgmem,      \* static cgmem of rps_memory_snapshot
    detected,   \* static detected
    lock,       \* static lock
    call,       \* the call each thread is in
    writes      \* history: how often the limit of each directory was set or lifted

vars == <<machine, files, cgmem, detected, lock, call, writes>>

(* struct rps_cgroup_memory, zeroed *)
NoMemory == [group |-> None, limit |-> 0, current |-> 0]

Idle == [op |-> None, step |-> "idle", next |-> 1, found |-> FALSE, limit |-> 0,
         snapshot |-> None, answer |-> None]

Init ==
    /\ machine \in Machines
    /\ files \in [Groups -> [limit : LimitTokens, usage : UsageTokens]]
    /\ cgmem = NoMemory
    /\ detected = FALSE
    /\ lock = None
    /\ call = [t \in Threads |-> Idle]
    /\ writes = [g \in Groups |-> 0]

Found(t) == Candidates(machine)[call[t].next]

(* What open and fgets make of a control file; a directory without files has none. *)
Token(group, file) == IF group \in Groups THEN files[group][file] ELSE <<>>

Goto(t, s) == call' = [call EXCEPT ![t].step = s]

-----------------------------------------------------------------------------
(* The pod's numbers in the units of each interface *)

(* Mutant: the unit is chosen as if unsigned long had the width of mem_unit. *)
MemUnitsNarrow(snapshot) == {s \in Scales : snapshot.total \div s <= UIntMax}

(* encode_sysinfo_memory: the units with which both numbers fit into        *)
(* unsigned long.  Its loop doubles the unit and stops at the least.        *)
MemUnits(snapshot) ==
    {s \in Scales : snapshot.total \div s <= machine.wordMax /\ snapshot.available \div s <= machine.wordMax}

(* sysinfo(2) of the host: in bytes, or in pages where bytes do not fit. *)
HostSysinfo ==
    LET unit == IF HostSwap <= machine.wordMax THEN 1 ELSE PageSize
    IN  [source |-> "host", unit |-> unit, total |-> None, free |-> None, rest |-> HostSwap \div unit]

Sysinfo(snapshot) ==
    IF snapshot = None \/ MemUnits(snapshot) = {}
    THEN HostSysinfo
    ELSE LET unit == Min(MemUnits(snapshot))
         IN  [HostSysinfo EXCEPT !.source = "pod", !.unit = unit,
                                 !.total = snapshot.total \div unit,
                                 !.free = snapshot.available \div unit]

Answer(source) == [source |-> source, unit |-> None, total |-> None, free |-> None, rest |-> None]

(* sysconf: LONG_MAX is half of ULONG_MAX, rounded down. *)
Sysconf(op, snapshot) ==
    IF snapshot = None THEN Answer("host")
    ELSE LET pages == (IF op = "phys_pages" THEN snapshot.total ELSE snapshot.available) \div PageSize
         IN  IF pages > machine.wordMax \div 2 THEN Answer("EOVERFLOW")
             ELSE IF op = "phys_pages" THEN [Answer("pod") EXCEPT !.total = pages]
             ELSE [Answer("pod") EXCEPT !.free = pages]

(* append_rewritten_line, or append_bytes of the line as it is. *)
Rewritten(line, snapshot) ==
    CASE line.key = "MemTotal" -> [line EXCEPT !.value = snapshot.total \div Kilo, !.len = LineLen]
      [] line.key \in {"MemAvailable", "MemFree"} ->
             [line EXCEPT !.value = snapshot.available \div Kilo, !.len = LineLen]
      [] OTHER -> line

(* The length of the text up to each line, and of all of it. *)
Lengths(lines) ==
    LET length[n \in 0..Len(lines)] == IF n = 0 THEN 0 ELSE length[n - 1] + lines[n].len
    IN  length

Length(lines) == Lengths(lines)[Len(lines)]

(* Mutant: a text that does not fit is served as far as it does. *)
MeminfoBuildCut(snapshot) ==
    LET lines == [i \in DOMAIN machine.text |-> Rewritten(machine.text[i], snapshot)]
        fit   == {n \in 0..Len(lines) : Length(SubSeq(lines, 1, n)) <= BufLen}
    IN  IF snapshot = None \/ ~machine.readable THEN Answer("host")
        ELSE [Answer("pod") EXCEPT !.rest = SubSeq(lines, 1, Max(fit))]

(* rps_proc_meminfo_build; the host's file is served when it fails: no     *)
(* snapshot, /proc/meminfo not opened or not read, a text too long.        *)
MeminfoBuild(snapshot) ==
    LET lines == [i \in DOMAIN machine.text |-> Rewritten(machine.text[i], snapshot)]
    IN  IF snapshot = None \/ ~machine.readable \/ Length(lines) > BufLen THEN Answer("host")
        ELSE [Answer("pod") EXCEPT !.rest = lines]

(* What the interface makes of the result of rps_memory_snapshot. *)
AnswerOf(op, snapshot) ==
    CASE op = "sysinfo" -> Sysinfo(snapshot)
      [] op \in {"phys_pages", "avphys_pages"} -> Sysconf(op, snapshot)
      [] op = "meminfo" -> MeminfoBuild(snapshot)

Return(t, snapshot) ==
    call' = [call EXCEPT ![t] = [Idle EXCEPT !.op = call[t].op, !.snapshot = snapshot,
                                             !.answer = AnswerOf(call[t].op, snapshot)]]

-----------------------------------------------------------------------------
(* The calls *)

Enter(t, op) ==
    /\ call[t].step = "idle"
    /\ call' = [call EXCEPT ![t] = [Idle EXCEPT !.op = op, !.step = "lock"]]
    /\ UNCHANGED <<machine, files, cgmem, detected, lock, writes>>

(* rps_memory_snapshot takes its lock; the first thing a detection does is *)
(* to clear the static structure.                                          *)
Lock(t) ==
    /\ call[t].step = "lock" /\ lock = None
    /\ lock' = t
    /\ IF detected
       THEN Goto(t, "refresh") /\ UNCHANGED cgmem
       ELSE Goto(t, "limit") /\ cgmem' = NoMemory
    /\ UNCHANGED <<machine, files, detected, writes>>

(* consider_candidate: read_limit_file *)
DetectLimit(t) ==
    /\ call[t].step = "limit" /\ call[t].next <= Len(Candidates(machine))
    /\ LET limit == ReadLimit(Token(Found(t), "limit"))
       IN  IF limit = None
           THEN call' = [call EXCEPT ![t].next = @ + 1]
           ELSE call' = [call EXCEPT ![t].step = "usage", ![t].limit = limit]
    /\ UNCHANGED <<machine, files, cgmem, detected, lock, writes>>

(* Mutant: a later candidate always replaces the one before. *)
TakesPlaceAlways(t) == TRUE

(* Is the candidate at hand better than the best so far? *)
TakesPlace(t) == ~call[t].found \/ call[t].limit < cgmem.limit

(* consider_candidate: read_counter_file and the comparison *)
DetectUsage(t) ==
    /\ call[t].step = "usage"
    /\ LET current == ParseU64(Token(Found(t), "usage"))
           taken   == current # None /\ TakesPlace(t)
       IN  /\ cgmem' = IF taken THEN [group |-> Found(t), limit |-> call[t].limit, current |-> current]
                                ELSE cgmem
           /\ call' = [call EXCEPT ![t].step = "limit", ![t].next = @ + 1,
                                   ![t].found = @ \/ taken]
    /\ UNCHANGED <<machine, files, detected, lock, writes>>

(* Mutant: the static flag is not set. *)
DetectSucceedsForgets(t) ==
    /\ call[t].step = "limit" /\ call[t].next > Len(Candidates(machine)) /\ call[t].found
    /\ Goto(t, "refresh")
    /\ UNCHANGED <<machine, files, cgmem, detected, lock, writes>>

DetectSucceeds(t) ==
    /\ call[t].step = "limit" /\ call[t].next > Len(Candidates(machine)) /\ call[t].found
    /\ detected' = TRUE
    /\ Goto(t, "refresh")
    /\ UNCHANGED <<machine, files, cgmem, lock, writes>>

(* Mutant: the early return leaves the lock locked. *)
DetectFailsLocked(t) ==
    /\ call[t].step = "limit" /\ call[t].next > Len(Candidates(machine)) /\ ~call[t].found
    /\ cgmem' = NoMemory
    /\ Return(t, None)
    /\ UNCHANGED <<machine, files, detected, lock, writes>>

(* Nothing is remembered of a detection that found no limit. *)
DetectFails(t) ==
    /\ call[t].step = "limit" /\ call[t].next > Len(Candidates(machine)) /\ ~call[t].found
    /\ cgmem' = NoMemory
    /\ lock' = None
    /\ Return(t, None)
    /\ UNCHANGED <<machine, files, detected, writes>>

(* Mutant: unsigned subtraction without the comparison before it. *)
AvailableWraps(limit, current) == (limit - current) % (U64Max + 1)

Available(limit, current) == IF current < limit THEN limit - current ELSE 0

(* rps_cgroup_memory_refresh, the snapshot and the unlock *)
Refresh(t) ==
    /\ call[t].step = "refresh"
    /\ LET current == ParseU64(Token(cgmem.group, "usage"))
       IN  IF current = None
           THEN Return(t, None) /\ UNCHANGED cgmem
           ELSE /\ cgmem' = [cgmem EXCEPT !.current = current]
                /\ Return(t, [total |-> cgmem.limit, available |-> Available(cgmem.limit, current)])
    /\ lock' = None
    /\ UNCHANGED <<machine, files, detected, writes>>

-----------------------------------------------------------------------------
(* The kernel and the owner of the container *)

Written(group) == writes' = [writes EXCEPT ![group] = @ + 1]

WriteLimit(group, token) ==
    /\ writes[group] < MaxWrites
    /\ files' = [files EXCEPT ![group].limit = token]
    /\ Written(group)
    /\ UNCHANGED <<machine, cgmem, detected, lock, call>>

(* Usage changes all the time; a file that cannot be read any more, or can *)
(* be read now, counts as a write.                                         *)
Charge(group, token) ==
    /\ IF (ParseU64(token) = None) = (ParseU64(files[group].usage) = None)
       THEN UNCHANGED writes
       ELSE writes[group] < MaxWrites /\ Written(group)
    /\ files' = [files EXCEPT ![group].usage = token]
    /\ UNCHANGED <<machine, cgmem, detected, lock, call>>

Snapshot(t) ==
    \/ Lock(t) \/ DetectLimit(t) \/ DetectUsage(t) \/ DetectSucceeds(t)
    \/ DetectFails(t) \/ Refresh(t)

Next ==
    \/ \E t \in Threads : (\E op \in Calls : Enter(t, op)) \/ Snapshot(t)
    \/ \E g \in Groups : \/ \E token \in LimitTokens : WriteLimit(g, token)
                         \/ \E token \in UsageTokens : Charge(g, token)

Spec == Init /\ [][Next]_vars

-----------------------------------------------------------------------------
(* Properties *)

(* n divided by ten, again and again, k times *)
Quotients(n, k) ==
    LET quotient[i \in 0..k] == IF i = 0 THEN n ELSE quotient[i - 1] \div 10
    IN  quotient

(* A token spells a number: its digits, from the last, are the remainders  *)
(* of those divisions, and nothing is left over.                           *)
Spells(token, n) ==
    LET quotient == Quotients(n, Len(token))
    IN  /\ token # <<>> /\ quotient[Len(token)] = 0
        /\ \A i \in DOMAIN token : token[i] = quotient[Len(token) - i] % 10

(* Directories that nobody wrote to. *)
Steady == {g \in Groups : writes[g] = 0}

(* A directory with a finite limit and a readable usage. *)
Limited(group, n) ==
    /\ n \in 1..(Sentinel - 1) /\ Spells(files[group].limit, n)
    /\ \E u \in 0..U64Max : Spells(files[group].usage, u)

(* docs/cgroup-memory.md: the smallest finite limit is used.  The limit    *)
(* kept by rps_memory_snapshot is one a directory of this process had, and *)
(* no directory that nobody wrote to has a smaller one, whatever happened  *)
(* to the others while they were being read.                               *)
LeastLimit ==
    detected =>
        /\ cgmem.group \in machine.own
        /\ \A g \in machine.own \cap Steady : \A n \in 1..(Sentinel - 1) :
               Limited(g, n) => /\ cgmem.limit <= n
                                /\ g = cgmem.group => cgmem.limit = n
        /\ cgmem.group \in Steady => \E n \in 1..(Sentinel - 1) : Limited(cgmem.group, n)

Answered(t, op) == call[t].step = "idle" /\ call[t].op = op
Pod(t, op) == Answered(t, op) /\ call[t].answer.source = "pod"

(* While no control file was written to, a limit that is set is what every *)
(* interface reports: no answer falls back to the host's numbers, except   *)
(* the meminfo text that cannot be read or is too long for its buffer.     *)
PodWhenLimited ==
    Steady = Groups /\ (\E g \in machine.own : \E n \in 1..(Sentinel - 1) : Limited(g, n)) =>
        \A t \in Threads : \A op \in Calls :
            Answered(t, op) /\ call[t].answer.source = "host" =>
                /\ op = "meminfo"
                /\ machine.readable => BufLen < Length([i \in DOMAIN machine.text |->
                       IF machine.text[i].key = "other" THEN machine.text[i]
                       ELSE [machine.text[i] EXCEPT !.len = LineLen]])

(* The threads and the interfaces agree: every answer still in the hands   *)
(* of a thread shows the total every later one will be computed from, in   *)
(* the units of its interface.                                             *)
TotalsAgree ==
    \A t \in Threads :
        /\ Pod(t, "sysinfo") => call[t].answer.total = cgmem.limit \div call[t].answer.unit
        /\ Pod(t, "phys_pages") => call[t].answer.total = cgmem.limit \div PageSize
        /\ Pod(t, "meminfo") => \A i \in DOMAIN call[t].answer.rest :
               LET line == call[t].answer.rest[i]
               IN  line.key = "MemTotal" => line.value = cgmem.limit \div Kilo

(* No interface reports more free memory than memory, also when more is    *)
(* charged to the cgroup than its limit allows.                            *)
FreeWithinTotal ==
    \A t \in Threads :
        /\ Pod(t, "sysinfo") => call[t].answer.free <= call[t].answer.total
        /\ Pod(t, "avphys_pages") => call[t].answer.free <= cgmem.limit \div PageSize
        /\ Pod(t, "meminfo") => \A i \in DOMAIN call[t].answer.rest :
               LET line == call[t].answer.rest[i]
               IN  line.key \in {"MemFree", "MemAvailable"} => line.value <= cgmem.limit \div Kilo

(* sysinfo and sysconf never give up on a snapshot for its size where      *)
(* unsigned long has 64 bits, and mem_unit stays the unit the host's       *)
(* fields that are passed on (swap, buffers) are counted in.  With 32 bits *)
(* sysinfo still never gives up: the unit grows far enough for every limit *)
(* below the sentinel.                                                     *)
SizesFit ==
    \A t \in Threads :
        call[t].step = "idle" /\ call[t].snapshot # None =>
            /\ call[t].op = "sysinfo" => call[t].answer.source = "pod"
            /\ machine.wordMax = U64Max =>
                   /\ call[t].answer.source # "EOVERFLOW"
                   /\ call[t].op = "sysinfo" =>
                          call[t].answer.unit * call[t].answer.rest = HostSwap

(* docs/cgroup-memory.md: other lines are preserved.  The text served has  *)
(* every line of the host's file in its order, and fits into its buffer.   *)
MeminfoWhole ==
    \A t \in Threads : Pod(t, "meminfo") =>
        LET text == call[t].answer.rest
        IN  /\ Len(text) = Len(machine.text)
            /\ Length(text) <= BufLen
            /\ \A i \in DOMAIN text :
                   /\ text[i].key = machine.text[i].key
                   /\ text[i].key = "other" => text[i] = machine.text[i]

(* The lock of rps_memory_snapshot is held by a thread that is inside it,  *)
(* and the structure it protects is half filled only while it is held: no  *)
(* path out of the function leaves the lock locked or a candidate behind.  *)
LockProtects ==
    /\ \A t \in Threads : call[t].step \in {"limit", "usage", "refresh"} <=> lock = t
    /\ cgmem # NoMemory => detected \/ lock # None
=============================================================================
