------------------------- MODULE DescriptorsProofs --------------------------
(***************************************************************************)
(* Theorems about Descriptors, for any threads, descriptor numbers, files  *)
(* and configuration.                                                      *)
(***************************************************************************)
EXTENDS Descriptors, TLAPS

-----------------------------------------------------------------------------
(* What the path operators return. *)

LEMMA GpusDirType == Len(GpusDir) = 4 /\ GpusDir \in Seq(Names)
  <1>1. Len(GpusDir) = 4
    BY DEF GpusDir
  <1>2. GpusDir \in Seq(Names)
    BY PathAssumption DEF GpusDir
  <1> QED
    BY <1>1, <1>2

LEMMA BelowGpusNames ==
    ASSUME NEW p \in Seq(Names), BelowGpus(p)
    PROVE  BusOf(p) \in Names
  <1>1. Len(p) > 4
    BY GpusDirType DEF BelowGpus
  <1> QED
    BY <1>1, GpusDirType DEF BusOf

(* rps_gpu_classify_path fills in a record of a known kind. *)
LEMMA ClassifyType ==
    ASSUME NEW p \in Seq(Names), NEW exact \in BOOLEAN
    PROVE  ClassifyPath(p, exact) \in Records
  <1>1. IsBusDir(p) \/ IsInfo(p) => BusOf(p) \in Names
    BY BelowGpusNames DEF IsBusDir, IsInfo
  <1> QED
    BY <1>1, PathAssumption DEF ClassifyPath, Records, Kinds, NoRecord

LEMMA DevicesApart ==
    ASSUME NEW p \in Seq(Names), p \in Devices \/ p = Ctl
    PROVE  p # GpusDir /\ ~BelowGpus(p)
  <1>1. Len(p) = 2
    BY PathAssumption DEF Ctl
  <1>2. p # GpusDir
    BY <1>1, GpusDirType
  <1>3. ~BelowGpus(p)
    BY <1>1, GpusDirType DEF BelowGpus
  <1> QED
    BY <1>2, <1>3

(* A spelling that is not exact is classified as the exact one, or not at  *)
(* all: the procfs names are normalised and the device names are not.      *)
LEMMA ClassifySpelling ==
    ASSUME NEW p \in Seq(Names), NEW exact \in BOOLEAN
    PROVE  ClassifyPath(p, exact) \in {NoRecord, ClassifyPath(p, TRUE)}
  BY DevicesApart DEF ClassifyPath, IsBusDir, IsInfo

(* The paths with the record of a directory are gpus/ and those of a GPU. *)
LEMMA ProcDirClassified ==
    ASSUME NEW p \in Seq(Names)
    PROVE  IsProcDirRecord(ClassifyPath(p, TRUE)) <=> p = GpusDir \/ IsBusDir(p)
  BY DevicesApart DEF ClassifyPath, IsProcDirRecord, NoRecord, IsBusDir, IsInfo

(* The record of an NVIDIA directory names that directory: resolving a     *)
(* relative name against the record or in the kernel gives the same path.  *)
LEMMA RecordDirOfRecord ==
    ASSUME NEW p \in Seq(Names), IsProcDirRecord(ClassifyPath(p, TRUE))
    PROVE  RecordDir(ClassifyPath(p, TRUE)) = p
  <1>1. ASSUME IsBusDir(p)
        PROVE  p = Append(GpusDir, BusOf(p))
    <2>1. Len(p) = 5 /\ SubSeq(p, 1, 4) = GpusDir /\ BusOf(p) = p[5]
      BY <1>1, GpusDirType DEF IsBusDir, BelowGpus, BusOf
    <2>2. Append(SubSeq(p, 1, 4), p[5]) = p
      BY <2>1, SMT
    <2> QED
      BY <2>1, <2>2
  <1> QED
    BY <1>1 DEF ClassifyPath, NoRecord, IsProcDirRecord, RecordDir

LEMMA ResolveType ==
    ASSUME NEW rec \in Records, NEW r \in Rels
    PROVE  ResolveRelative(rec, r) \in Seq(Names)
  <1>1. RecordDir(rec) \in Seq(Names) /\ Len(RecordDir(rec)) \in Nat
    BY GpusDirType DEF RecordDir, Records
  <1>2. r.up \in Nat /\ r.down \in Seq(Names)
    BY DescriptorAssumption
  <1> DEFINE n == IF r.up > Len(RecordDir(rec)) THEN 0 ELSE Len(RecordDir(rec)) - r.up
  <1>3. n \in 0..Len(RecordDir(rec))
    BY <1>1, <1>2
  <1> HIDE DEF n
  <1>4. SubSeq(RecordDir(rec), 1, n) \in Seq(Names)
    BY <1>1, <1>3
  <1> QED
    BY <1>2, <1>4 DEF ResolveRelative, Walk, n

-----------------------------------------------------------------------------
(* Types.  TypeOK needs to know that a call that has a descriptor in hand  *)
(* really has one.                                                         *)

WithFd == {"attach", "track", "trackdir", "clear", "untrack", "kclose",
           "dupclear", "copy", "forget"}

InHand(c) ==
    /\ c.step \in WithFd => c.fd \in Fds
    /\ c.step \in {"dupclear", "copy"} => c.src \in Fds

FdInHand == \A t \in Threads : InHand(call[t])

TypeInv == TypeOK /\ FdInHand

LEMMA InitType == Init => TypeInv
  <1> SUFFICES ASSUME Init PROVE TypeInv
    OBVIOUS
  <1>1. Idle \in CallType /\ NoRecord \in Records
    BY PathAssumption, DescriptorAssumption
       DEF Idle, NoRecord, Records, Kinds, CallType, Steps, Objects
  <1>2. TypeOK
    BY <1>1 DEF Init, TypeOK, Uses
  <1>3. FdInHand
    BY DEF Init, FdInHand, InHand, WithFd, Idle
  <1> QED
    BY <1>2, <1>3 DEF TypeInv

LEMMA RecordsUsed ==
    /\ NoRecord \in Records
    /\ \A p \in Files : \A exact \in BOOLEAN : ClassifyPath(p, exact) \in Records
  BY ClassifyType, PathAssumption, DescriptorAssumption DEF NoRecord, Records, Kinds

(* A step of thread t changes the call of t only. *)
LEMMA CallUpdate ==
    ASSUME TypeInv, NEW t \in Threads, NEW c \in CallType,
           InHand(c),
           call' = [call EXCEPT ![t] = c]
    PROVE  call' \in [Threads -> CallType] /\ FdInHand'
  BY DEF TypeInv, TypeOK, FdInHand

LEMMA GotoType ==
    ASSUME TypeInv, NEW t \in Threads, NEW step \in Steps, Goto(t, step),
           call[t].step \in WithFd, step = "copy" => call[t].step = "dupclear",
           step # "dupclear"
    PROVE  call' \in [Threads -> CallType] /\ FdInHand'
  <1> DEFINE c == [call[t] EXCEPT !.step = step]
  <1>1. c \in CallType /\ InHand(c)
    BY DEF TypeInv, TypeOK, FdInHand, InHand, CallType
  <1>2. call' = [call EXCEPT ![t] = c]
    BY DEF Goto
  <1> QED
    BY <1>1, <1>2, CallUpdate

LEMMA HoldType ==
    ASSUME TypeInv, NEW t \in Threads, NEW step \in Steps, NEW f \in Fds,
           NEW src \in Fds \cup {NoFd}, Hold(t, step, f, src),
           step \in {"dupclear", "copy"} => src \in Fds
    PROVE  call' \in [Threads -> CallType] /\ FdInHand'
  <1> DEFINE c == [Idle EXCEPT !.step = step, !.fd = f, !.src = src]
  <1>1. c \in CallType /\ InHand(c)
    BY RecordsUsed DEF CallType, Idle, Objects, InHand
  <1>2. call' = [call EXCEPT ![t] = c]
    BY DEF Hold
  <1> QED
    BY <1>1, <1>2, CallUpdate

LEMMA ReturnType ==
    ASSUME TypeInv, NEW t \in Threads, Return(t)
    PROVE  call' \in [Threads -> CallType] /\ FdInHand'
  <1>1. Idle \in CallType /\ InHand(Idle)
    BY RecordsUsed DEF CallType, Idle, Objects, Steps, WithFd, InHand
  <1> QED
    BY <1>1, CallUpdate DEF Return

LEMMA ForwardType ==
    ASSUME TypeInv, NEW t \in Threads, NEW step \in {"open", "opendir"},
           NEW src \in Fds \cup {NoFd}, NEW file \in Files, NEW rec \in Records,
           NEW tracked \in BOOLEAN, NEW attach \in BOOLEAN, NEW scope \in BOOLEAN,
           Forward(t, step, src, file, rec, tracked, attach, scope)
    PROVE  TypeInv'
  <1> DEFINE c == [step |-> step, fd |-> NoFd, src |-> src, file |-> file, rec |-> rec,
                   tracked |-> tracked, attach |-> attach, scope |-> scope]
  <1>1. c \in CallType /\ InHand(c)
    BY DEF CallType, Objects, Steps, WithFd, InHand
  <1>2. call' = [call EXCEPT ![t] = c]
    BY DEF Forward
  <1>3. call' \in [Threads -> CallType] /\ FdInHand'
    BY <1>1, <1>2, CallUpdate
  <1> QED
    BY <1>3 DEF Forward, TypeInv, TypeOK

LEMMA OpeningType ==
    ASSUME TypeInv, NEW t \in Threads, Opening(t)
    PROVE  TypeInv'
  <1> USE DescriptorAssumption
  <1>1. ASSUME NEW p \in Files, NEW exact \in BOOLEAN, NEW readable \in BOOLEAN,
               Open(t, p, exact, readable) \/ OpenatAbsolute(t, p, exact)
        PROVE  TypeInv'
    <2>1. ShouldVirtualizeMeminfo(p, exact, readable) \in BOOLEAN /\ ScopeOfName(p, exact) \in BOOLEAN
      BY DEF ShouldVirtualizeMeminfo, ScopeOfName, Ready
    <2> HIDE DescriptorAssumption
    <2>2. PICK attach \in BOOLEAN, scope \in BOOLEAN, rec \in Records :
            Forward(t, "open", NoFd, p, rec, TRUE, attach, scope)
      BY <1>1, <2>1, RecordsUsed DEF Open, OpenatAbsolute
    <2> QED
      BY <2>2, ForwardType
  <1>2. ASSUME NEW p \in Files, OpenCwd(t, p) PROVE TypeInv'
    BY <1>2, RecordsUsed, ForwardType DEF OpenCwd
  <1>3. ASSUME NEW p \in Files, Opendir(t, p) PROVE TypeInv'
    <2>1. ScopeOfName(p, TRUE) \in BOOLEAN
      BY DEF ScopeOfName, Ready
    <2> HIDE DescriptorAssumption
    <2>2. ClassifyPath(p, TRUE) \in Records
      BY RecordsUsed
    <2>3. Forward(t, "opendir", NoFd, p, ClassifyPath(p, TRUE), TRUE, FALSE, ScopeOfName(p, TRUE))
      BY <1>3 DEF Opendir
    <2> QED
      BY <2>1, <2>2, <2>3, ForwardType
  <1>4. ASSUME NEW p \in Files, NEW f \in Fds, NEW readable \in BOOLEAN, Fopen(t, p, readable, f) PROVE TypeInv'
    BY <1>4 DEF Fopen, TypeInv, TypeOK, FdInHand, Uses, Objects
  <1>5. ASSUME NEW f \in Fds, NEW r \in Rels, OpenatRelative(t, f, r) PROVE TypeInv'
    <2> DEFINE rec == IF Resolves(f) THEN ClassifyPath(ResolveRelative(gpuMap[f], r), TRUE)
                                     ELSE NoRecord
               scope == f \in scoped /\ (kfd[f] = GpusDir \/ IsBusDir(kfd[f]))
               tracked == Resolves(f)
    <2>1. gpuMap[f] \in Records
      BY DEF TypeInv, TypeOK
    <2>2. rec \in Records
      BY <2>1, ResolveType, ClassifyType, RecordsUsed
    <2>3. scope \in BOOLEAN /\ tracked \in BOOLEAN
      BY DEF Resolves, IsProcDirRecord
    <2>4. Forward(t, "open", f, Walk(kfd[f], r), rec, tracked, FALSE, scope)
      BY <1>5 DEF OpenatRelative
    <2>5. Walk(kfd[f], r) \in Files
      BY <1>5 DEF OpenatRelative
    <2> HIDE DescriptorAssumption DEF rec, scope, tracked
    <2> QED
      BY <2>2, <2>3, <2>4, <2>5, ForwardType
  <1>6. ASSUME NEW f \in Fds, KernelOpen(t, f) PROVE TypeInv'
    <2> DEFINE c == [call[t] EXCEPT !.fd = f,
                        !.step = IF InCall(t, "opendir") THEN "trackdir" ELSE "attach"]
    <2>0. call[t] \in CallType
      BY DEF TypeInv, TypeOK
    <2>1. c \in CallType /\ InHand(c) /\ call[t].file \in Objects
      BY <2>0 DEF CallType, Steps, InHand
    <2>2. call' = [call EXCEPT ![t] = c]
      BY <1>6 DEF KernelOpen
    <2>3. call' \in [Threads -> CallType] /\ FdInHand'
      BY <2>1, <2>2, CallUpdate
    <2> QED
      BY <1>6, <2>1, <2>3 DEF KernelOpen, TypeInv, TypeOK
  <1>7. ASSUME NEW f \in Fds, ExternalOpen(t, f) PROVE TypeInv'
    BY <1>7 DEF ExternalOpen, TypeInv, TypeOK, FdInHand, Uses, Objects
  <1>8. CASE KernelOpenFails(t)
    BY <1>8, ReturnType DEF KernelOpenFails, TypeInv, TypeOK
  <1>9. CASE AttachMeminfo(t)
    <2>1. call[t].step \in WithFd /\ "track" \in Steps /\ call[t].fd \in Fds
      BY <1>9 DEF AttachMeminfo, InCall, WithFd, Steps, TypeInv, FdInHand, InHand
    <2> QED
      BY <1>9, <2>1, GotoType DEF AttachMeminfo, TypeInv, TypeOK
  <1>10. CASE FinishOpen(t)
    <2>1. call[t].rec \in Records
      BY DEF TypeInv, TypeOK, CallType
    <2> QED
      BY <1>10, <2>1, ReturnType DEF FinishOpen, TraceAndTrackOpen, TypeInv, TypeOK, Uses
  <1> QED
    BY <1>1, <1>2, <1>3, <1>4, <1>5, <1>6, <1>7, <1>8, <1>9, <1>10 DEF Opening

LEMMA ClosingType ==
    ASSUME TypeInv, NEW t \in Threads, Closing(t)
    PROVE  TypeInv'
  <1>1. ASSUME NEW f \in Fds, Close(t, f) PROVE TypeInv'
    <2>1. "clear" \in Steps
      BY DEF Steps
    <2> QED
      BY <1>1, <2>1, HoldType DEF Close, TypeInv, TypeOK, Uses
  <1>2. ASSUME NEW f \in Fds, Closedir(t, f) PROVE TypeInv'
    <2>1. "forget" \in Steps
      BY DEF Steps
    <2> QED
      BY <1>2, <2>1, HoldType DEF Closedir, TypeInv, TypeOK, Uses
  <1>3. ASSUME NEW f \in Fds, Fclose(t, f) PROVE TypeInv'
    BY <1>3 DEF Fclose, TypeInv, TypeOK, FdInHand, Uses
  <1>4. CASE CloseClear(t)
    <2>1. call[t].step \in WithFd /\ "untrack" \in Steps
      BY <1>4 DEF CloseClear, InCall, WithFd, Steps
    <2> QED
      BY <1>4, <2>1, GotoType DEF CloseClear, TypeInv, TypeOK
  <1>5. CASE CloseUntrack(t)
    <2>1. call[t].step \in WithFd /\ "kclose" \in Steps
      BY <1>5 DEF CloseUntrack, InCall, WithFd, Steps
    <2> QED
      BY <1>5, <2>1, RecordsUsed, GotoType DEF CloseUntrack, TypeInv, TypeOK
  <1>6. CASE KernelClose(t)
    BY <1>6, ReturnType DEF KernelClose, TypeInv, TypeOK
  <1>7. CASE ClosedirForget(t)
    BY <1>7, RecordsUsed, ReturnType DEF ClosedirForget, TypeInv, TypeOK
  <1> QED
    BY <1>1, <1>2, <1>3, <1>4, <1>5, <1>6, <1>7 DEF Closing

LEMMA ConvertingType ==
    ASSUME TypeInv, NEW t \in Threads, Converting(t)
    PROVE  TypeInv'
  <1>1. ASSUME NEW old \in Fds, NEW new \in Fds, Dup(t, old, new) PROVE TypeInv'
    <2>1. "copy" \in Steps
      BY DEF Steps
    <2> QED
      BY <1>1, <2>1, HoldType DEF Dup, TypeInv, TypeOK
  <1>2. ASSUME NEW old \in Fds, NEW new \in Fds, Dup2(t, old, new) PROVE TypeInv'
    <2>1. "dupclear" \in Steps
      BY DEF Steps
    <2> QED
      BY <1>2, <2>1, HoldType DEF Dup2, TypeInv, TypeOK, Uses
  <1>3. CASE Dup2Clear(t)
    <2>1. call[t].step \in WithFd /\ "copy" \in Steps /\ call[t].step = "dupclear"
      BY <1>3 DEF Dup2Clear, InCall, WithFd, Steps
    <2> QED
      BY <1>3, <2>1, GotoType DEF Dup2Clear, TypeInv, TypeOK
  <1>4. CASE FinishDup(t)
    <2>1. gpuMap' \in [Fds -> Records]
      <3>1. CASE gpuMap' = GpuFdMapCopy(t)
        <4>1. call[t].fd \in Fds /\ call[t].src \in Fds
          BY <1>4 DEF FinishDup, InCall, TypeInv, FdInHand, InHand, WithFd
        <4> QED
          BY <3>1, <4>1 DEF GpuFdMapCopy, TypeInv, TypeOK
      <3> QED
        BY <1>4, <3>1 DEF FinishDup, TypeInv, TypeOK
    <2> QED
      BY <1>4, <2>1, ReturnType DEF FinishDup, TypeInv, TypeOK, Uses
  <1>5. ASSUME NEW f \in Fds, Fdopendir(t, f) PROVE TypeInv'
    BY <1>5 DEF Fdopendir, TypeInv, TypeOK, FdInHand, Uses
  <1>6. ASSUME NEW f \in Fds, Fdopen(t, f) PROVE TypeInv'
    BY <1>6 DEF Fdopen, TypeInv, TypeOK, FdInHand, Uses
  <1> QED
    BY <1>1, <1>2, <1>3, <1>4, <1>5, <1>6 DEF Converting

LEMMA NextType == TypeInv /\ [Next]_vars => TypeInv'
  <1> SUFFICES ASSUME TypeInv, [Next]_vars PROVE TypeInv'
    OBVIOUS
  <1>1. CASE RunpodShimInit
    BY <1>1 DEF RunpodShimInit, TypeInv, TypeOK, FdInHand, InHand
  <1>2. CASE \E t \in Threads : Opening(t) \/ Closing(t) \/ Converting(t)
    BY <1>2, OpeningType, ClosingType, ConvertingType
  <1>3. CASE UNCHANGED vars
    BY <1>3 DEF vars, TypeInv, TypeOK, FdInHand, InHand
  <1> QED
    BY <1>1, <1>2, <1>3 DEF Next

(* The variables keep their types. *)
THEOREM TypeCorrect == Spec => []TypeOK
  <1>1. TypeInv => TypeOK
    BY DEF TypeInv
  <1> QED
    BY InitType, NextType, <1>1, PTL DEF Spec

-----------------------------------------------------------------------------
(* NoStale.  It says nothing of the numbers that are free or in the hands  *)
(* of a call, and so does not survive a step by itself; StaleInv says what *)
(* the tables hold for those.                                              *)

(* closedir, which frees the number first, does not run beside other       *)
(* threads.                                                                *)
OneCloser == "closedir" \notin Calls \/ \A t, u \in Threads : t = u

TrueRecord(rec, file) == rec \in {NoRecord, ClassifyPath(file, TRUE)}

(* A number the program holds. *)
HeldGood(f) ==
    use[f] # "none" =>
        /\ kfd[f] # Closed
        /\ f \in fdMap => kfd[f] = Meminfo /\ use[f] # "dir"
        /\ TrueRecord(gpuMap[f], kfd[f])

(* A number that is free; closedir may still have its record to remove. *)
FreeGood(f) ==
    kfd[f] = Closed =>
        /\ f \notin fdMap
        /\ gpuMap[f] = NoRecord
           \/ \E t \in Threads : call[t].step = "forget" /\ call[t].fd = f

(* The number a call has in hand belongs to no one else. *)
CallApart ==
    \A t, u \in Threads :
        t # u /\ call[t].step \in WithFd /\ call[u].step \in WithFd
          => call[t].fd # call[u].fd

CallHolds(c) ==
    c.step \in WithFd => use[c.fd] = "none" /\ (kfd[c.fd] = Closed <=> c.step = "forget")

(* What an open will record is the truth about the file it opens ... *)
CallOpens(c) ==
    c.step \in {"open", "opendir", "attach", "track", "trackdir"} =>
        /\ c.file \in Files
        /\ TrueRecord(c.rec, c.file)
        /\ c.attach => c.file = Meminfo

(* ... and the new number comes without entries of its own. *)
CallOpened(c) ==
    c.step \in {"attach", "track", "trackdir"} =>
        /\ kfd[c.fd] = c.file
        /\ gpuMap[c.fd] = NoRecord
        /\ c.fd \in fdMap => c.step = "track" /\ c.file = Meminfo

CallCloses(c) ==
    /\ c.step \in {"untrack", "kclose", "copy"} => c.fd \notin fdMap
    /\ c.step = "kclose" => gpuMap[c.fd] = NoRecord
    /\ c.step = "forget" => "closedir" \in Calls

CallDups(c) ==
    c.step \in {"dupclear", "copy"} => use[c.src] # "none" /\ kfd[c.fd] = kfd[c.src]

CallGood(c) == CallHolds(c) /\ CallOpens(c) /\ CallOpened(c) /\ CallCloses(c) /\ CallDups(c)

StaleInv ==
    /\ TypeInv
    /\ \A f \in Fds : HeldGood(f) /\ FreeGood(f)
    /\ CallApart
    /\ \A t \in Threads : CallGood(call[t])

LEMMA InitStale == Init => StaleInv
  <1> SUFFICES ASSUME Init PROVE StaleInv
    OBVIOUS
  <1>1. TypeInv
    BY InitType
  <1>2. \A t \in Threads : call[t].step = "idle"
    BY DEF Init, Idle
  <1>3. \A f \in Fds : use[f] = "none" /\ f \notin fdMap /\ gpuMap[f] = NoRecord
    BY DEF Init
  <1> QED
    BY <1>1, <1>2, <1>3
       DEF StaleInv, HeldGood, FreeGood, CallApart, CallGood, CallHolds, CallOpens,
           CallOpened, CallCloses, CallDups, WithFd

(* What a step leaves of the calls: those of the other threads, and the    *)
(* rest of the stepping thread's own.                                      *)
OthersKept(t) == \A u \in Threads : u # t => call'[u] = call[u]

LEMMA GotoCall ==
    ASSUME TypeInv, NEW t \in Threads, NEW step, Goto(t, step)
    PROVE  /\ OthersKept(t)
           /\ call'[t].step = step /\ call'[t].fd = call[t].fd /\ call'[t].src = call[t].src
           /\ call'[t].file = call[t].file /\ call'[t].rec = call[t].rec
           /\ call'[t].attach = call[t].attach /\ call'[t].tracked = call[t].tracked
           /\ call'[t].scope = call[t].scope
  BY DEF Goto, TypeInv, TypeOK, CallType, OthersKept

LEMMA HoldCall ==
    ASSUME TypeInv, NEW t \in Threads, NEW step, NEW f, NEW src, Hold(t, step, f, src)
    PROVE  /\ OthersKept(t)
           /\ call'[t].step = step /\ call'[t].fd = f /\ call'[t].src = src
           /\ ~call'[t].scope
  BY DEF Hold, Idle, TypeInv, TypeOK, OthersKept

LEMMA ReturnCall ==
    ASSUME TypeInv, NEW t \in Threads, Return(t)
    PROVE  OthersKept(t) /\ call'[t].step = "idle" /\ ~call'[t].scope
  BY DEF Return, Idle, TypeInv, TypeOK, OthersKept

(* Other threads' calls neither have the number x in hand nor copy it. *)
Mine(t, x) ==
    \A u \in Threads : u # t =>
        /\ call[u].step \in WithFd => call[u].fd # x
        /\ call[u].step \in {"dupclear", "copy"} => call[u].src # x

LEMMA MineInHand ==
    ASSUME StaleInv, NEW t \in Threads, call[t].step \in WithFd
    PROVE  Mine(t, call[t].fd) /\ call[t].fd \in Fds /\ use[call[t].fd] = "none"
  BY DEF StaleInv, Mine, CallApart, CallGood, CallHolds, CallDups, TypeInv, FdInHand, InHand

LEMMA MineHeld ==
    ASSUME StaleInv, NEW t \in Threads, NEW x \in Fds, use[x] # "none", x \notin Busy
    PROVE  Mine(t, x)
  BY DEF StaleInv, Mine, Busy, CallGood, CallHolds

LEMMA MineFree ==
    ASSUME StaleInv, OneCloser, NEW t \in Threads, call[t].step # "forget",
           NEW x \in Fds, kfd[x] = Closed
    PROVE  Mine(t, x) /\ x \notin fdMap /\ gpuMap[x] = NoRecord /\ use[x] = "none"
  <1>1. \A u \in Threads : call[u].step # "forget"
    BY DEF StaleInv, OneCloser, CallGood, CallCloses
  <1>2. \A u \in Threads : call[u].step \in WithFd => call[u].fd # x
    BY <1>1 DEF StaleInv, CallGood, CallHolds
  <1>3. \A u \in Threads : call[u].step \in {"dupclear", "copy"} => call[u].src # x
    <2> SUFFICES ASSUME NEW u \in Threads, call[u].step \in {"dupclear", "copy"}
                 PROVE  call[u].src # x
      OBVIOUS
    <2>1. call[u].src \in Fds /\ use[call[u].src] # "none"
      BY DEF StaleInv, TypeInv, FdInHand, InHand, CallGood, CallDups
    <2> QED
      BY <2>1 DEF StaleInv, HeldGood
  <1>4. x \notin fdMap /\ gpuMap[x] = NoRecord /\ use[x] = "none"
    BY <1>1 DEF StaleInv, HeldGood, FreeGood
  <1> QED
    BY <1>2, <1>3, <1>4 DEF Mine

Untouched(f) ==
    /\ kfd'[f] = kfd[f]
    /\ use'[f] = use[f]
    /\ gpuMap'[f] = gpuMap[f]
    /\ f \in fdMap' <=> f \in fdMap

(* The call of a thread that does not step stays good when the numbers it  *)
(* depends on are not touched.                                             *)
LEMMA OtherCall ==
    ASSUME NEW u \in Threads, CallGood(call[u]), call'[u] = call[u],
           call[u].step \in WithFd => Untouched(call[u].fd),
           call[u].step \in {"dupclear", "copy"} => Untouched(call[u].src)
    PROVE  CallGood(call[u])'
  BY DEF CallGood, CallHolds, CallOpens, CallOpened, CallCloses, CallDups, Untouched, WithFd

(* A step of t that touches one number, x, keeps StaleInv if it keeps it   *)
(* for x and for the call of t.                                            *)
LEMMA Frame ==
    ASSUME StaleInv, TypeInv', NEW t \in Threads, NEW x \in Fds, Mine(t, x),
           OthersKept(t), \A f \in Fds : f # x => Untouched(f),
           call[t].step = "forget" => call[t].fd = x,
           call'[t].step \in WithFd => call'[t].fd = x,
           HeldGood(x)', FreeGood(x)', CallGood(call[t])'
    PROVE  StaleInv'
  <1>1. ASSUME NEW f \in Fds, f # x PROVE HeldGood(f)' /\ FreeGood(f)'
    <2>1. HeldGood(f) /\ FreeGood(f) /\ Untouched(f)
      BY <1>1 DEF StaleInv
    <2>2. HeldGood(f)'
      BY <2>1 DEF HeldGood, Untouched
    <2>3. FreeGood(f)'
      BY <1>1, <2>1 DEF FreeGood, Untouched, OthersKept
    <2> QED
      BY <2>2, <2>3
  <1>2. CallApart'
    BY DEF StaleInv, CallApart, OthersKept, Mine
  <1>3. ASSUME NEW u \in Threads, u # t PROVE CallGood(call[u])'
    <2>1. call[u].step \in WithFd => Untouched(call[u].fd)
      BY <1>3 DEF StaleInv, Mine, TypeInv, FdInHand, InHand
    <2>2. call[u].step \in {"dupclear", "copy"} => Untouched(call[u].src)
      BY <1>3 DEF StaleInv, Mine, TypeInv, FdInHand, InHand
    <2>3. CallGood(call[u]) /\ call'[u] = call[u]
      BY <1>3 DEF StaleInv, OthersKept
    <2> QED
      BY <2>1, <2>2, <2>3, OtherCall
  <1> QED
    BY <1>1, <1>2, <1>3 DEF StaleInv

(* A step of t that touches no number. *)
LEMMA FrameNone ==
    ASSUME StaleInv, TypeInv', NEW t \in Threads, OthersKept(t),
           UNCHANGED <<kfd, fdMap, gpuMap, use>>,
           call[t].step # "forget", call'[t].step \notin WithFd, CallGood(call[t])'
    PROVE  StaleInv'
  <1>1. ASSUME NEW f \in Fds PROVE HeldGood(f)' /\ FreeGood(f)'
    BY DEF StaleInv, HeldGood, FreeGood, OthersKept
  <1>2. CallApart'
    BY DEF StaleInv, CallApart, OthersKept
  <1>3. ASSUME NEW u \in Threads, u # t PROVE CallGood(call[u])'
    <2>1. CallGood(call[u]) /\ call'[u] = call[u]
      BY <1>3 DEF StaleInv, OthersKept
    <2> QED
      BY <2>1, OtherCall DEF Untouched
  <1> QED
    BY <1>1, <1>2, <1>3 DEF StaleInv

LEMMA AttachMeminfoStale ==
    ASSUME StaleInv, OneCloser, TypeInv', NEW t \in Threads,
           AttachMeminfo(t)
    PROVE  StaleInv'
  <1>1. call[t].step \in WithFd /\ call[t].step = "attach"
    BY DEF AttachMeminfo, InCall, WithFd
  <1>2. PICK x \in Fds : x = call[t].fd /\ Mine(t, x) /\ use[x] = "none"
    BY <1>1, MineInHand
  <1>3. /\ OthersKept(t)
        /\ call'[t].step = "track" /\ call'[t].fd = call[t].fd /\ call'[t].src = call[t].src
        /\ call'[t].file = call[t].file /\ call'[t].rec = call[t].rec
        /\ call'[t].attach = call[t].attach
    BY GotoCall DEF AttachMeminfo, StaleInv
  <1>4. \A f \in Fds : f # x => Untouched(f)
    BY <1>2 DEF AttachMeminfo, Untouched, StaleInv, TypeInv, TypeOK
  <1>5. HeldGood(x) /\ FreeGood(x) /\ CallGood(call[t])
    BY <1>2 DEF StaleInv
  <1>6. HeldGood(x)' /\ FreeGood(x)'
    BY <1>1, <1>2, <1>3, <1>5 DEF AttachMeminfo, HeldGood, FreeGood, TrueRecord,
                                  StaleInv, TypeInv, TypeOK, CallGood, CallHolds,
                                  CallOpens, CallOpened, CallCloses, CallDups, WithFd
  <1>7. CallGood(call[t])'
    BY <1>1, <1>2, <1>3, <1>5 DEF AttachMeminfo, StaleInv, TypeInv, TypeOK, CallGood,
                                  CallHolds, CallOpens, CallOpened, CallCloses, CallDups,
                                  WithFd
  <1> QED
    BY <1>1, <1>2, <1>3, <1>4, <1>6, <1>7, Frame DEF WithFd

LEMMA FinishOpenStale ==
    ASSUME StaleInv, OneCloser, TypeInv', NEW t \in Threads,
           FinishOpen(t)
    PROVE  StaleInv'
  <1>1. call[t].step \in WithFd /\ call[t].step \in {"track", "trackdir"}
    BY DEF FinishOpen, InCall, WithFd
  <1>2. PICK x \in Fds : x = call[t].fd /\ Mine(t, x) /\ use[x] = "none"
    BY <1>1, MineInHand
  <1>3. /\ OthersKept(t)
        /\ call'[t].step = "idle"
    BY ReturnCall DEF FinishOpen, StaleInv
  <1>4. \A f \in Fds : f # x => Untouched(f)
    BY <1>2 DEF FinishOpen, TraceAndTrackOpen, NodeMissing, InCall, Untouched, StaleInv,
                TypeInv, TypeOK
  <1>5. HeldGood(x) /\ FreeGood(x) /\ CallGood(call[t])
    BY <1>2 DEF StaleInv
  <1>6. HeldGood(x)' /\ FreeGood(x)'
    <2>1. /\ kfd'[x] = kfd[x] /\ kfd[x] = call[t].file /\ kfd[x] # Closed
          /\ gpuMap[x] = NoRecord /\ TrueRecord(call[t].rec, kfd[x])
          /\ x \in fdMap => call[t].step = "track" /\ kfd[x] = Meminfo
      BY <1>1, <1>2, <1>5
         DEF FinishOpen, CallGood, CallHolds, CallOpens, CallOpened, WithFd
    <2>2. gpuMap'[x] \in {gpuMap[x], call[t].rec}
      BY <1>2 DEF FinishOpen, TraceAndTrackOpen, StaleInv, TypeInv, TypeOK
    <2>3. TrueRecord(gpuMap'[x], kfd'[x])
      BY <2>1, <2>2 DEF TrueRecord
    <2>4. /\ use'[x] = IF call[t].step = "trackdir" THEN "dir" ELSE "fd"
          /\ fdMap' = fdMap
      BY <1>2 DEF FinishOpen, InCall, StaleInv, TypeInv, TypeOK
    <2>5. HeldGood(x)'
      BY <2>1, <2>3, <2>4 DEF HeldGood
    <2> QED
      BY <2>1, <2>5 DEF FreeGood
  <1>7. CallGood(call[t])'
    BY <1>1, <1>2, <1>3, <1>5 DEF FinishOpen, TraceAndTrackOpen, NodeMissing, InCall,
                                  StaleInv, TypeInv, TypeOK, CallGood, CallHolds,
                                  CallOpens, CallOpened, CallCloses, CallDups, WithFd
  <1> QED
    BY <1>1, <1>2, <1>3, <1>4, <1>6, <1>7, Frame DEF WithFd

LEMMA CloseClearStale ==
    ASSUME StaleInv, OneCloser, TypeInv', NEW t \in Threads,
           CloseClear(t)
    PROVE  StaleInv'
  <1>1. call[t].step \in WithFd /\ call[t].step = "clear"
    BY DEF CloseClear, InCall, WithFd
  <1>2. PICK x \in Fds : x = call[t].fd /\ Mine(t, x) /\ use[x] = "none"
    BY <1>1, MineInHand
  <1>3. /\ OthersKept(t)
        /\ call'[t].step = "untrack" /\ call'[t].fd = call[t].fd /\ call'[t].src = call[t].src
        /\ call'[t].file = call[t].file /\ call'[t].rec = call[t].rec
        /\ call'[t].attach = call[t].attach
    BY GotoCall DEF CloseClear, StaleInv
  <1>4. \A f \in Fds : f # x => Untouched(f)
    BY <1>2 DEF CloseClear, Untouched, StaleInv, TypeInv, TypeOK
  <1>5. HeldGood(x) /\ FreeGood(x) /\ CallGood(call[t])
    BY <1>2 DEF StaleInv
  <1>6. HeldGood(x)' /\ FreeGood(x)'
    BY <1>1, <1>2, <1>3, <1>5 DEF CloseClear, HeldGood, FreeGood, TrueRecord, StaleInv,
                                  TypeInv, TypeOK, CallGood, CallHolds, CallOpens,
                                  CallOpened, CallCloses, CallDups, WithFd
  <1>7. CallGood(call[t])'
    BY <1>1, <1>2, <1>3, <1>5 DEF CloseClear, StaleInv, TypeInv, TypeOK, CallGood,
                                  CallHolds, CallOpens, CallOpened, CallCloses, CallDups,
                                  WithFd
  <1> QED
    BY <1>1, <1>2, <1>3, <1>4, <1>6, <1>7, Frame DEF WithFd

LEMMA CloseUntrackStale ==
    ASSUME StaleInv, OneCloser, TypeInv', NEW t \in Threads,
           CloseUntrack(t)
    PROVE  StaleInv'
  <1>1. call[t].step \in WithFd /\ call[t].step = "untrack"
    BY DEF CloseUntrack, InCall, WithFd
  <1>2. PICK x \in Fds : x = call[t].fd /\ Mine(t, x) /\ use[x] = "none"
    BY <1>1, MineInHand
  <1>3. /\ OthersKept(t)
        /\ call'[t].step = "kclose" /\ call'[t].fd = call[t].fd /\ call'[t].src = call[t].src
        /\ call'[t].file = call[t].file /\ call'[t].rec = call[t].rec
        /\ call'[t].attach = call[t].attach
    BY GotoCall DEF CloseUntrack, StaleInv
  <1>4. \A f \in Fds : f # x => Untouched(f)
    BY <1>2 DEF CloseUntrack, Untouched, StaleInv, TypeInv, TypeOK
  <1>5. HeldGood(x) /\ FreeGood(x) /\ CallGood(call[t])
    BY <1>2 DEF StaleInv
  <1>6. HeldGood(x)' /\ FreeGood(x)'
    BY <1>1, <1>2, <1>3, <1>5 DEF CloseUntrack, HeldGood, FreeGood, TrueRecord, StaleInv,
                                  TypeInv, TypeOK, CallGood, CallHolds, CallOpens,
                                  CallOpened, CallCloses, CallDups, WithFd
  <1>7. CallGood(call[t])'
    BY <1>1, <1>2, <1>3, <1>5 DEF CloseUntrack, StaleInv, TypeInv, TypeOK, CallGood,
                                  CallHolds, CallOpens, CallOpened, CallCloses, CallDups,
                                  WithFd
  <1> QED
    BY <1>1, <1>2, <1>3, <1>4, <1>6, <1>7, Frame DEF WithFd

LEMMA KernelCloseStale ==
    ASSUME StaleInv, OneCloser, TypeInv', NEW t \in Threads,
           KernelClose(t)
    PROVE  StaleInv'
  <1>1. call[t].step \in WithFd /\ call[t].step = "kclose"
    BY DEF KernelClose, InCall, WithFd
  <1>2. PICK x \in Fds : x = call[t].fd /\ Mine(t, x) /\ use[x] = "none"
    BY <1>1, MineInHand
  <1>3. /\ OthersKept(t)
        /\ call'[t].step = "idle"
    BY ReturnCall DEF KernelClose, StaleInv
  <1>4. \A f \in Fds : f # x => Untouched(f)
    BY <1>2 DEF KernelClose, Untouched, StaleInv, TypeInv, TypeOK
  <1>5. HeldGood(x) /\ FreeGood(x) /\ CallGood(call[t])
    BY <1>2 DEF StaleInv
  <1>6. HeldGood(x)' /\ FreeGood(x)'
    BY <1>1, <1>2, <1>3, <1>5 DEF KernelClose, HeldGood, FreeGood, TrueRecord, StaleInv,
                                  TypeInv, TypeOK, CallGood, CallHolds, CallOpens,
                                  CallOpened, CallCloses, CallDups, WithFd
  <1>7. CallGood(call[t])'
    BY <1>1, <1>2, <1>3, <1>5 DEF KernelClose, StaleInv, TypeInv, TypeOK, CallGood,
                                  CallHolds, CallOpens, CallOpened, CallCloses, CallDups,
                                  WithFd
  <1> QED
    BY <1>1, <1>2, <1>3, <1>4, <1>6, <1>7, Frame DEF WithFd

LEMMA ClosedirForgetStale ==
    ASSUME StaleInv, OneCloser, TypeInv', NEW t \in Threads,
           ClosedirForget(t)
    PROVE  StaleInv'
  <1>1. call[t].step \in WithFd /\ call[t].step = "forget"
    BY DEF ClosedirForget, InCall, WithFd
  <1>2. PICK x \in Fds : x = call[t].fd /\ Mine(t, x) /\ use[x] = "none"
    BY <1>1, MineInHand
  <1>3. /\ OthersKept(t)
        /\ call'[t].step = "idle"
    BY ReturnCall DEF ClosedirForget, StaleInv
  <1>4. \A f \in Fds : f # x => Untouched(f)
    BY <1>2 DEF ClosedirForget, Untouched, StaleInv, TypeInv, TypeOK
  <1>5. HeldGood(x) /\ FreeGood(x) /\ CallGood(call[t])
    BY <1>2 DEF StaleInv
  <1>6. HeldGood(x)' /\ FreeGood(x)'
    BY <1>1, <1>2, <1>3, <1>5 DEF ClosedirForget, HeldGood, FreeGood, TrueRecord,
                                  StaleInv, TypeInv, TypeOK, CallGood, CallHolds,
                                  CallOpens, CallOpened, CallCloses, CallDups, WithFd
  <1>7. CallGood(call[t])'
    BY <1>1, <1>2, <1>3, <1>5 DEF ClosedirForget, StaleInv, TypeInv, TypeOK, CallGood,
                                  CallHolds, CallOpens, CallOpened, CallCloses, CallDups,
                                  WithFd
  <1> QED
    BY <1>1, <1>2, <1>3, <1>4, <1>6, <1>7, Frame DEF WithFd

LEMMA Dup2ClearStale ==
    ASSUME StaleInv, OneCloser, TypeInv', NEW t \in Threads,
           Dup2Clear(t)
    PROVE  StaleInv'
  <1>1. call[t].step \in WithFd /\ call[t].step = "dupclear"
    BY DEF Dup2Clear, InCall, WithFd
  <1>2. PICK x \in Fds : x = call[t].fd /\ Mine(t, x) /\ use[x] = "none"
    BY <1>1, MineInHand
  <1>3. /\ OthersKept(t)
        /\ call'[t].step = "copy" /\ call'[t].fd = call[t].fd /\ call'[t].src = call[t].src
        /\ call'[t].file = call[t].file /\ call'[t].rec = call[t].rec
        /\ call'[t].attach = call[t].attach
    BY GotoCall DEF Dup2Clear, StaleInv
  <1>4. \A f \in Fds : f # x => Untouched(f)
    BY <1>2 DEF Dup2Clear, Untouched, StaleInv, TypeInv, TypeOK
  <1>5. HeldGood(x) /\ FreeGood(x) /\ CallGood(call[t])
    BY <1>2 DEF StaleInv
  <1>6. HeldGood(x)' /\ FreeGood(x)'
    BY <1>1, <1>2, <1>3, <1>5 DEF Dup2Clear, HeldGood, FreeGood, TrueRecord, StaleInv,
                                  TypeInv, TypeOK, CallGood, CallHolds, CallOpens,
                                  CallOpened, CallCloses, CallDups, WithFd
  <1>7. CallGood(call[t])'
    BY <1>1, <1>2, <1>3, <1>5 DEF Dup2Clear, StaleInv, TypeInv, TypeOK, CallGood,
                                  CallHolds, CallOpens, CallOpened, CallCloses, CallDups,
                                  WithFd
  <1> QED
    BY <1>1, <1>2, <1>3, <1>4, <1>6, <1>7, Frame DEF WithFd

LEMMA FinishDupStale ==
    ASSUME StaleInv, OneCloser, TypeInv', NEW t \in Threads,
           FinishDup(t)
    PROVE  StaleInv'
  <1>1. call[t].step \in WithFd /\ call[t].step = "copy"
    BY DEF FinishDup, InCall, WithFd
  <1>2. PICK x \in Fds : x = call[t].fd /\ Mine(t, x) /\ use[x] = "none"
    BY <1>1, MineInHand
  <1>3. /\ OthersKept(t)
        /\ call'[t].step = "idle"
    BY ReturnCall DEF FinishDup, StaleInv
  <1>4. \A f \in Fds : f # x => Untouched(f)
    BY <1>2 DEF FinishDup, GpuFdMapCopy, NodeMissing, Untouched, StaleInv, TypeInv, TypeOK
  <1>5. HeldGood(x) /\ FreeGood(x) /\ CallGood(call[t])
    BY <1>2 DEF StaleInv
  <1>6. HeldGood(x)' /\ FreeGood(x)'
    <2>1. PICK old \in Fds : old = call[t].src
      BY <1>1 DEF StaleInv, TypeInv, FdInHand, InHand
    <2>2. HeldGood(old)
      BY DEF StaleInv
    <2>3. /\ kfd'[x] = kfd[x] /\ kfd[x] = kfd[old] /\ kfd[x] # Closed
          /\ use[old] # "none" /\ x \notin fdMap
      BY <1>1, <1>2, <1>5, <2>1
         DEF FinishDup, CallGood, CallHolds, CallCloses, CallDups, WithFd
    <2>4. gpuMap'[x] \in {NoRecord, gpuMap[old]}
      BY <1>2, <2>1 DEF FinishDup, GpuFdMapCopy, NodeMissing, StaleInv, TypeInv, TypeOK
    <2>5. TrueRecord(gpuMap'[x], kfd'[x])
      BY <2>2, <2>3, <2>4 DEF HeldGood, TrueRecord
    <2>6. use'[x] = "fd" /\ fdMap' = fdMap
      BY <1>2 DEF FinishDup, StaleInv, TypeInv, TypeOK
    <2>7. HeldGood(x)'
      BY <2>3, <2>5, <2>6 DEF HeldGood
    <2> QED
      BY <2>3, <2>7 DEF FreeGood
  <1>7. CallGood(call[t])'
    BY <1>1, <1>2, <1>3, <1>5 DEF FinishDup, GpuFdMapCopy, NodeMissing, StaleInv,
                                  TypeInv, TypeOK, CallGood, CallHolds, CallOpens,
                                  CallOpened, CallCloses, CallDups, WithFd
  <1> QED
    BY <1>1, <1>2, <1>3, <1>4, <1>6, <1>7, Frame DEF WithFd

LEMMA CloseStale ==
    ASSUME StaleInv, OneCloser, TypeInv', NEW t \in Threads, NEW x \in Fds,
           Close(t, x)
    PROVE  StaleInv'
  <1>1. call[t].step = "idle"
    BY DEF Close, InCall
  <1>2. Mine(t, x)
    BY MineHeld DEF Close
  <1>3. /\ OthersKept(t)
        /\ call'[t].step = "clear" /\ call'[t].fd = x /\ call'[t].src = NoFd
    BY HoldCall DEF Close, StaleInv
  <1>4. \A f \in Fds : f # x => Untouched(f)
    BY DEF Close, Untouched, StaleInv, TypeInv, TypeOK
  <1>5. HeldGood(x) /\ FreeGood(x)
    BY DEF StaleInv
  <1>6. HeldGood(x)' /\ FreeGood(x)'
    BY <1>1, <1>2, <1>3, <1>5 DEF Close, HeldGood, FreeGood, TrueRecord, StaleInv,
                                  TypeInv, TypeOK
  <1>7. CallGood(call[t])'
    BY <1>1, <1>2, <1>3, <1>5 DEF Close, StaleInv, TypeInv, TypeOK, HeldGood, FreeGood,
                                  CallGood, CallHolds, CallOpens, CallOpened, CallCloses,
                                  CallDups, WithFd
  <1> QED
    BY <1>1, <1>2, <1>3, <1>4, <1>6, <1>7, Frame

LEMMA ClosedirStale ==
    ASSUME StaleInv, OneCloser, TypeInv', NEW t \in Threads, NEW x \in Fds,
           Closedir(t, x)
    PROVE  StaleInv'
  <1>1. call[t].step = "idle"
    BY DEF Closedir, InCall
  <1>2. Mine(t, x)
    BY MineHeld DEF Closedir
  <1>3. /\ OthersKept(t)
        /\ call'[t].step = "forget" /\ call'[t].fd = x /\ call'[t].src = NoFd
    BY HoldCall DEF Closedir, StaleInv
  <1>4. \A f \in Fds : f # x => Untouched(f)
    BY DEF Closedir, Untouched, StaleInv, TypeInv, TypeOK
  <1>5. HeldGood(x) /\ FreeGood(x)
    BY DEF StaleInv
  <1>6. HeldGood(x)' /\ FreeGood(x)'
    BY <1>1, <1>2, <1>3, <1>5 DEF Closedir, HeldGood, FreeGood, TrueRecord, StaleInv,
                                  TypeInv, TypeOK
  <1>7. CallGood(call[t])'
    BY <1>1, <1>2, <1>3, <1>5 DEF Closedir, StaleInv, TypeInv, TypeOK, HeldGood,
                                  FreeGood, CallGood, CallHolds, CallOpens, CallOpened,
                                  CallCloses, CallDups, WithFd
  <1> QED
    BY <1>1, <1>2, <1>3, <1>4, <1>6, <1>7, Frame

LEMMA DupStale ==
    ASSUME StaleInv, OneCloser, TypeInv', NEW t \in Threads, NEW old \in Fds, NEW new \in Fds,
           Dup(t, old, new)
    PROVE  StaleInv'
  <1>1. call[t].step = "idle"
    BY DEF Dup, InCall
  <1>2. Mine(t, new) /\ new \notin fdMap /\ gpuMap[new] = NoRecord /\ use[new] = "none"
    BY <1>1, MineFree DEF Dup
  <1>3. /\ OthersKept(t)
        /\ call'[t].step = "copy" /\ call'[t].fd = new /\ call'[t].src = old
    BY HoldCall DEF Dup, StaleInv
  <1>4. \A f \in Fds : f # new => Untouched(f)
    BY DEF Dup, Untouched, StaleInv, TypeInv, TypeOK
  <1>5. HeldGood(new) /\ FreeGood(new) /\ HeldGood(old)
    BY DEF StaleInv
  <1>6. HeldGood(new)' /\ FreeGood(new)'
    BY <1>1, <1>2, <1>3, <1>5 DEF Dup, HeldGood, FreeGood, TrueRecord, StaleInv, TypeInv,
                                  TypeOK
  <1>7. CallGood(call[t])'
    BY <1>1, <1>2, <1>3, <1>5 DEF Dup, StaleInv, TypeInv, TypeOK, HeldGood, FreeGood,
                                  CallGood, CallHolds, CallOpens, CallOpened, CallCloses,
                                  CallDups, WithFd
  <1> QED
    BY <1>1, <1>2, <1>3, <1>4, <1>6, <1>7, Frame

LEMMA Dup2Stale ==
    ASSUME StaleInv, OneCloser, TypeInv', NEW t \in Threads, NEW old \in Fds, NEW new \in Fds,
           Dup2(t, old, new)
    PROVE  StaleInv'
  <1>1. call[t].step = "idle"
    BY DEF Dup2, InCall
  <1>2. Mine(t, new)
    BY <1>1, MineFree, MineHeld DEF Dup2
  <1>3. /\ OthersKept(t)
        /\ call'[t].step = "dupclear" /\ call'[t].fd = new /\ call'[t].src = old
    BY HoldCall DEF Dup2, StaleInv
  <1>4. \A f \in Fds : f # new => Untouched(f)
    BY DEF Dup2, Untouched, StaleInv, TypeInv, TypeOK
  <1>5. HeldGood(new) /\ FreeGood(new) /\ HeldGood(old)
    BY DEF StaleInv
  <1>6. HeldGood(new)' /\ FreeGood(new)'
    BY <1>1, <1>2, <1>3, <1>5 DEF Dup2, HeldGood, FreeGood, TrueRecord, StaleInv,
                                  TypeInv, TypeOK
  <1>7. CallGood(call[t])'
    BY <1>1, <1>2, <1>3, <1>5 DEF Dup2, StaleInv, TypeInv, TypeOK, HeldGood, FreeGood,
                                  CallGood, CallHolds, CallOpens, CallOpened, CallCloses,
                                  CallDups, WithFd
  <1> QED
    BY <1>1, <1>2, <1>3, <1>4, <1>6, <1>7, Frame

LEMMA ExternalOpenStale ==
    ASSUME StaleInv, OneCloser, TypeInv', NEW t \in Threads, NEW x \in Fds,
           ExternalOpen(t, x)
    PROVE  StaleInv'
  <1>1. call[t].step = "idle"
    BY DEF ExternalOpen, InCall
  <1>2. Mine(t, x) /\ x \notin fdMap /\ gpuMap[x] = NoRecord /\ use[x] = "none"
    BY <1>1, MineFree DEF ExternalOpen, LowestFree
  <1>3. OthersKept(t) /\ call'[t].step = "idle"
    BY <1>1 DEF ExternalOpen, OthersKept
  <1>4. \A f \in Fds : f # x => Untouched(f)
    BY DEF ExternalOpen, Untouched, StaleInv, TypeInv, TypeOK
  <1>5. HeldGood(x) /\ FreeGood(x)
    BY DEF StaleInv
  <1>6. HeldGood(x)' /\ FreeGood(x)'
    BY <1>1, <1>2, <1>3, <1>5, DescriptorAssumption
       DEF ExternalOpen, HeldGood, FreeGood, TrueRecord, StaleInv, TypeInv, TypeOK, Objects
  <1>7. CallGood(call[t])'
    BY <1>3 DEF CallGood, CallHolds, CallOpens, CallOpened,
          CallCloses, CallDups, WithFd
  <1> QED
    BY <1>1, <1>2, <1>3, <1>4, <1>6, <1>7, Frame DEF WithFd

LEMMA FopenStale ==
    ASSUME StaleInv, OneCloser, TypeInv', NEW t \in Threads, NEW p \in Files, NEW x \in Fds,
           NEW readable \in BOOLEAN, Fopen(t, p, readable, x)
    PROVE  StaleInv'
  <1>1. call[t].step = "idle"
    BY DEF Fopen, InCall
  <1>2. Mine(t, x) /\ x \notin fdMap /\ gpuMap[x] = NoRecord /\ use[x] = "none"
    BY <1>1, MineFree DEF Fopen, LowestFree
  <1>3. OthersKept(t) /\ call'[t].step = "idle"
    BY <1>1 DEF Fopen, OthersKept
  <1>4. \A f \in Fds : f # x => Untouched(f)
    BY DEF Fopen, Untouched, StaleInv, TypeInv, TypeOK
  <1>5. HeldGood(x) /\ FreeGood(x)
    BY DEF StaleInv
  <1>6. HeldGood(x)' /\ FreeGood(x)'
    BY <1>1, <1>2, <1>3, <1>5, DescriptorAssumption
       DEF Fopen, HeldGood, FreeGood, TrueRecord, StaleInv, TypeInv, TypeOK, Objects
  <1>7. CallGood(call[t])'
    BY <1>3 DEF CallGood, CallHolds, CallOpens, CallOpened,
          CallCloses, CallDups, WithFd
  <1> QED
    BY <1>1, <1>2, <1>3, <1>4, <1>6, <1>7, Frame DEF WithFd

LEMMA FdopendirStale ==
    ASSUME StaleInv, OneCloser, TypeInv', NEW t \in Threads, NEW x \in Fds,
           Fdopendir(t, x)
    PROVE  StaleInv'
  <1>1. call[t].step = "idle"
    BY DEF Fdopendir, InCall
  <1>2. Mine(t, x)
    BY MineHeld DEF Fdopendir
  <1>3. OthersKept(t) /\ call'[t].step = "idle"
    BY <1>1 DEF Fdopendir, OthersKept
  <1>4. \A f \in Fds : f # x => Untouched(f)
    BY DEF Fdopendir, Untouched, StaleInv, TypeInv, TypeOK
  <1>5. HeldGood(x) /\ FreeGood(x)
    BY DEF StaleInv
  <1>6. HeldGood(x)' /\ FreeGood(x)'
    BY <1>1, <1>2, <1>3, <1>5, DescriptorAssumption
       DEF Fdopendir, HeldGood, FreeGood, TrueRecord, StaleInv, TypeInv, TypeOK, Objects
  <1>7. CallGood(call[t])'
    BY <1>3 DEF CallGood, CallHolds, CallOpens, CallOpened,
          CallCloses, CallDups, WithFd
  <1> QED
    BY <1>1, <1>2, <1>3, <1>4, <1>6, <1>7, Frame DEF WithFd

LEMMA FdopenStale ==
    ASSUME StaleInv, OneCloser, TypeInv', NEW t \in Threads, NEW x \in Fds,
           Fdopen(t, x)
    PROVE  StaleInv'
  <1>1. call[t].step = "idle"
    BY DEF Fdopen, InCall
  <1>2. Mine(t, x)
    BY MineHeld DEF Fdopen
  <1>3. OthersKept(t) /\ call'[t].step = "idle"
    BY <1>1 DEF Fdopen, OthersKept
  <1>4. \A f \in Fds : f # x => Untouched(f)
    BY DEF Fdopen, Untouched, StaleInv, TypeInv, TypeOK
  <1>5. HeldGood(x) /\ FreeGood(x)
    BY DEF StaleInv
  <1>6. HeldGood(x)' /\ FreeGood(x)'
    BY <1>1, <1>2, <1>3, <1>5, DescriptorAssumption
       DEF Fdopen, HeldGood, FreeGood, TrueRecord, StaleInv, TypeInv, TypeOK, Objects
  <1>7. CallGood(call[t])'
    BY <1>3 DEF CallGood, CallHolds, CallOpens, CallOpened,
          CallCloses, CallDups, WithFd
  <1> QED
    BY <1>1, <1>2, <1>3, <1>4, <1>6, <1>7, Frame DEF WithFd

LEMMA FcloseStale ==
    ASSUME StaleInv, OneCloser, TypeInv', NEW t \in Threads, NEW x \in Fds,
           Fclose(t, x), ~slipped'
    PROVE  StaleInv'
  <1>1. call[t].step = "idle"
    BY DEF Fclose, InCall
  <1>2. Mine(t, x)
    BY MineHeld DEF Fclose
  <1>3. OthersKept(t) /\ call'[t].step = "idle"
    BY <1>1 DEF Fclose, OthersKept
  <1>4. \A f \in Fds : f # x => Untouched(f)
    BY DEF Fclose, Untouched, StaleInv, TypeInv, TypeOK
  <1>5. HeldGood(x) /\ FreeGood(x)
    BY DEF StaleInv
  <1>6. HeldGood(x)' /\ FreeGood(x)'
    BY <1>1, <1>2, <1>3, <1>5, DescriptorAssumption
       DEF Fclose, HeldGood, FreeGood, TrueRecord, StaleInv, TypeInv, TypeOK, Objects
  <1>7. CallGood(call[t])'
    BY <1>3 DEF CallGood, CallHolds, CallOpens, CallOpened,
          CallCloses, CallDups, WithFd
  <1> QED
    BY <1>1, <1>2, <1>3, <1>4, <1>6, <1>7, Frame DEF WithFd

LEMMA KernelOpenStale ==
    ASSUME StaleInv, OneCloser, TypeInv', NEW t \in Threads, NEW x \in Fds,
           KernelOpen(t, x)
    PROVE  StaleInv'
  <1>1. call[t].step \in {"open", "opendir"} /\ kfd[x] = Closed
    BY DEF KernelOpen, InCall, LowestFree
  <1>2. Mine(t, x) /\ x \notin fdMap /\ gpuMap[x] = NoRecord /\ use[x] = "none"
    BY <1>1, MineFree
  <1>3. call[t] \in CallType /\ CallGood(call[t])
    BY DEF StaleInv, TypeInv, TypeOK
  <1>4. /\ OthersKept(t)
        /\ call'[t].step \in {"attach", "trackdir"} /\ call'[t].fd = x
        /\ call'[t].file = call[t].file /\ call'[t].rec = call[t].rec
        /\ call'[t].attach = call[t].attach
    BY <1>3 DEF KernelOpen, StaleInv, TypeInv, TypeOK, CallType, OthersKept
  <1>5. /\ \A f \in Fds : f # x => Untouched(f)
        /\ kfd'[x] = call[t].file /\ use'[x] = "none" /\ gpuMap'[x] = NoRecord
        /\ x \notin fdMap'
    BY <1>2 DEF KernelOpen, Untouched, StaleInv, TypeInv, TypeOK
  <1>6. call[t].file \in Files /\ call[t].file # Closed
    BY <1>1, <1>3, DescriptorAssumption DEF CallGood, CallOpens, Objects
  <1>7. HeldGood(x)' /\ FreeGood(x)'
    BY <1>5, <1>6 DEF HeldGood, FreeGood
  <1>8. CallGood(call[t])'
    BY <1>1, <1>3, <1>4, <1>5, <1>6
       DEF CallGood, CallHolds, CallOpens, CallOpened, CallCloses, CallDups, TrueRecord
  <1> QED
    BY <1>1, <1>2, <1>4, <1>5, <1>7, <1>8, Frame

LEMMA KernelOpenFailsStale ==
    ASSUME StaleInv, OneCloser, TypeInv', NEW t \in Threads,
           KernelOpenFails(t)
    PROVE  StaleInv'
  <1>1. OthersKept(t) /\ call'[t].step = "idle" /\ call[t].step # "forget"
    BY ReturnCall DEF KernelOpenFails, InCall, StaleInv
  <1>2. CallGood(call[t])'
    BY <1>1 DEF CallGood, CallHolds, CallOpens, CallOpened, CallCloses, CallDups, WithFd
  <1> QED
    BY <1>1, <1>2, FrameNone DEF KernelOpenFails, WithFd

(* A call that is forwarded with a true record. *)
LEMMA ForwardStale ==
    ASSUME StaleInv, TypeInv', NEW t \in Threads, call[t].step = "idle",
           NEW step \in {"open", "opendir"}, NEW src, NEW file \in Files, NEW rec,
           NEW tracked, NEW attach, NEW scope,
           Forward(t, step, src, file, rec, tracked, attach, scope),
           TrueRecord(rec, file), attach => file = Meminfo
    PROVE  StaleInv'
  <1>1. /\ OthersKept(t)
        /\ call'[t].step = step /\ call'[t].file = file /\ call'[t].rec = rec
        /\ call'[t].attach = attach
    BY DEF Forward, OthersKept, StaleInv, TypeInv, TypeOK
  <1>2. CallGood(call[t])'
    BY <1>1 DEF CallGood, CallHolds, CallOpens, CallOpened, CallCloses, CallDups, WithFd,
                TrueRecord
  <1> QED
    BY <1>1, <1>2, FrameNone DEF Forward, WithFd

LEMMA OpenStale ==
    ASSUME StaleInv, OneCloser, TypeInv', NEW t \in Threads, NEW p \in Files,
           \/ \E exact \in BOOLEAN :
                \/ \E readable \in BOOLEAN : Open(t, p, exact, readable)
                \/ OpenatAbsolute(t, p, exact)
           \/ OpenCwd(t, p)
           \/ Opendir(t, p)
    PROVE  StaleInv'
  <1>1. \A exact \in BOOLEAN : TrueRecord(ClassifyPath(p, exact), p)
    BY ClassifySpelling, DescriptorAssumption DEF TrueRecord
  <1>2. ASSUME NEW exact \in BOOLEAN, NEW readable \in BOOLEAN, Open(t, p, exact, readable)
        PROVE  StaleInv'
    <2>1. ShouldVirtualizeMeminfo(p, exact, readable) => p = Meminfo
      BY DEF ShouldVirtualizeMeminfo
    <2>2. PICK attach, scope, rec :
            /\ Forward(t, "open", NoFd, p, rec, TRUE, attach, scope)
            /\ TrueRecord(rec, p) /\ (attach => p = Meminfo)
      <3>1. Forward(t, "open", NoFd, p, ClassifyPath(p, exact), TRUE,
                    ShouldVirtualizeMeminfo(p, exact, readable), ScopeOfName(p, exact))
        BY <1>2, Zenon DEF Open
      <3>2. TrueRecord(ClassifyPath(p, exact), p)
        BY <1>1
      <3> QED
        BY <2>1, <3>1, <3>2, Zenon
    <2> QED
      BY <1>2, <2>2, ForwardStale DEF Open, InCall
  <1>3. ASSUME NEW exact \in BOOLEAN, OpenatAbsolute(t, p, exact)
        PROVE  StaleInv'
    BY <1>1, <1>3, ForwardStale DEF OpenatAbsolute, InCall
  <1>4. CASE OpenCwd(t, p)
    <2>1. TrueRecord(NoRecord, p)
      BY DEF TrueRecord
    <2> QED
      BY <1>4, <2>1, ForwardStale DEF OpenCwd, InCall
  <1>5. CASE Opendir(t, p)
    BY <1>1, <1>5, ForwardStale DEF Opendir, InCall
  <1> QED
    BY <1>2, <1>3, <1>4, <1>5

(* A relative name is resolved to the path the kernel will walk to. *)
LEMMA ResolvesTruly ==
    ASSUME StaleInv, NEW f \in Fds, NEW r \in Rels,
           use[f] # "none", kfd[f] \in Dirs, Resolves(f)
    PROVE  /\ gpuMap[f] = ClassifyPath(kfd[f], TRUE)
           /\ ResolveRelative(gpuMap[f], r) = Walk(kfd[f], r)
  <1>1. kfd[f] \in Seq(Names)
    BY DescriptorAssumption
  <1>2. IsProcDirRecord(gpuMap[f]) /\ gpuMap[f] # NoRecord
    BY DEF Resolves, IsProcDirRecord, NoRecord
  <1>3. gpuMap[f] = ClassifyPath(kfd[f], TRUE)
    BY <1>2 DEF StaleInv, HeldGood, TrueRecord
  <1> QED
    BY <1>1, <1>2, <1>3, RecordDirOfRecord DEF ResolveRelative

LEMMA OpenatRelativeStale ==
    ASSUME StaleInv, OneCloser, TypeInv', NEW t \in Threads, NEW f \in Fds, NEW r \in Rels,
           OpenatRelative(t, f, r)
    PROVE  StaleInv'
  <1> DEFINE rec == IF Resolves(f) THEN ClassifyPath(ResolveRelative(gpuMap[f], r), TRUE)
                                   ELSE NoRecord
             file == Walk(kfd[f], r)
  <1>1. use[f] # "none" /\ kfd[f] \in Dirs /\ file \in Files /\ call[t].step = "idle"
    BY DEF OpenatRelative, InCall
  <1>3. Resolves(f) => ResolveRelative(gpuMap[f], r) = file
    BY <1>1, ResolvesTruly
  <1>4. TrueRecord(rec, file)
    BY <1>3 DEF TrueRecord
  <1>5. PICK tracked, scope : Forward(t, "open", f, file, rec, tracked, FALSE, scope)
    BY DEF OpenatRelative
  <1> HIDE DEF rec, file
  <1> QED
    BY <1>1, <1>4, <1>5, ForwardStale

(* An fclose that has left an entry behind is not undone. *)
LEMMA SlippedStays ==
    ASSUME slipped, [Next]_vars
    PROVE  slipped'
  <1>1. CASE RunpodShimInit \/ UNCHANGED vars
    BY <1>1 DEF RunpodShimInit, vars
  <1>2. ASSUME NEW t \in Threads, Opening(t) PROVE slipped'
    BY <1>2 DEF Opening, Open, OpenatAbsolute, OpenCwd, Opendir, Fopen, OpenatRelative, Forward,
                KernelOpen, ExternalOpen, KernelOpenFails, AttachMeminfo, FinishOpen
  <1>3. ASSUME NEW t \in Threads, Closing(t) PROVE slipped'
    BY <1>3 DEF Closing, Close, Closedir, Fclose, CloseClear, CloseUntrack, KernelClose,
                ClosedirForget
  <1>4. ASSUME NEW t \in Threads, Converting(t) PROVE slipped'
    BY <1>4 DEF Converting, Dup, Dup2, Dup2Clear, FinishDup, Fdopendir, Fdopen
  <1> QED
    BY <1>1, <1>2, <1>3, <1>4 DEF Next

LEMMA NextStale ==
    ASSUME OneCloser, StaleInv, [Next]_vars, ~slipped'
    PROVE  StaleInv'
  <1>0. TypeInv'
    BY NextType DEF StaleInv
  <1>1. CASE RunpodShimInit
    <2>1. UNCHANGED <<kfd, fdMap, gpuMap, use, call>>
      BY <1>1 DEF RunpodShimInit
    <2> QED
      BY <1>0, <2>1 DEF StaleInv, HeldGood, FreeGood, CallApart, CallGood, CallHolds, CallOpens,
                 CallOpened, CallCloses, CallDups
  <1>2. ASSUME NEW t \in Threads, Opening(t) PROVE StaleInv'
    BY <1>0, <1>2, OpenStale, FopenStale, OpenatRelativeStale, KernelOpenStale,
       ExternalOpenStale, KernelOpenFailsStale, AttachMeminfoStale, FinishOpenStale
       DEF Opening
  <1>3. ASSUME NEW t \in Threads, Closing(t) PROVE StaleInv'
    BY <1>0, <1>3, CloseStale, ClosedirStale, FcloseStale, CloseClearStale,
       CloseUntrackStale, KernelCloseStale, ClosedirForgetStale
       DEF Closing
  <1>4. ASSUME NEW t \in Threads, Converting(t) PROVE StaleInv'
    BY <1>0, <1>4, DupStale, Dup2Stale, Dup2ClearStale, FinishDupStale, FdopendirStale, FdopenStale
       DEF Converting
  <1>5. CASE UNCHANGED vars
    <2>1. UNCHANGED <<kfd, fdMap, gpuMap, use, call>>
      BY <1>5 DEF vars
    <2> QED
      BY <1>0, <2>1 DEF StaleInv, HeldGood, FreeGood, CallApart, CallGood, CallHolds, CallOpens,
                 CallOpened, CallCloses, CallDups
  <1> QED
    BY <1>1, <1>2, <1>3, <1>4, <1>5 DEF Next

(* close, dup2, dup, open and the rest keep the shim's tables in step with *)
(* the kernel's for any number of threads, descriptors and files, whether  *)
(* or not memory runs out, until an fclose closes a descriptor that one of *)
(* the tables knows; closedir must not run beside other threads.           *)
THEOREM NeverStale == OneCloser => (Spec => []NoStale)
  <1> SUFFICES ASSUME OneCloser PROVE Spec => []NoStale
    OBVIOUS
  <1>1. (~slipped => StaleInv) /\ [Next]_vars => (~slipped => StaleInv)'
    BY NextStale, SlippedStays
  <1>2. (~slipped => StaleInv) => NoStale
    BY DEF StaleInv, HeldGood, TrueRecord, NoStale, OnlyMeminfoVirtual, RecordsTrue, ServesVirtual
  <1> QED
    BY InitStale, <1>1, <1>2, PTL DEF Spec

(* openat and fstatat refuse by a relative name what they should, under    *)
(* the same condition: the verdict, which rests on the record of the       *)
(* directory, is true of the file the kernel would reach.  A file below an *)
(* NVIDIA directory with a record is refused just when it is the directory *)
(* or the information file of a GPU known to be hidden, by any name that   *)
(* does not climb out of gpus/.                                            *)
THEOREM RefusalsExact == OneCloser => (Spec => []RefusedExactly)
  <1> SUFFICES ASSUME OneCloser PROVE Spec => []RefusedExactly
    OBVIOUS
  <1>1. (~slipped => StaleInv) /\ [Next]_vars => (~slipped => StaleInv)'
    BY NextStale, SlippedStays
  <1>2. ASSUME NEW p
        PROVE  GpuProcDenied(p) <=> GpuVideo /\ Ready /\ Hidden(p) /\ (IsBusDir(p) \/ IsInfo(p))
    BY DEF GpuProcDenied, ProcPathDenied, IsBusDir, IsInfo, Hidden
  <1>3. ASSUME StaleInv, NEW f \in Fds, NEW r \in Rels, Exists(f, r), ~ClimbsOut(kfd[f], r)
        PROVE  RelativeDenied(f, r) <=>
                 /\ GpuVideo /\ Ready
                 /\ gpuMap[f] # NoRecord /\ (kfd[f] = GpusDir \/ IsBusDir(kfd[f]))
                 /\ Hidden(Walk(kfd[f], r)) /\ (IsBusDir(Walk(kfd[f], r)) \/ IsInfo(Walk(kfd[f], r)))
    <2>1. use[f] # "none" /\ kfd[f] \in Dirs /\ kfd[f] \in Seq(Names)
      BY <1>3, DescriptorAssumption DEF Exists
    <2>2. CASE Resolves(f)
      <3>1. /\ gpuMap[f] = ClassifyPath(kfd[f], TRUE)
            /\ ResolveRelative(gpuMap[f], r) = Walk(kfd[f], r)
        BY <1>3, <2>1, <2>2, ResolvesTruly
      <3>2. RecordDir(gpuMap[f]) = kfd[f]
        BY <2>1, <2>2, <3>1, RecordDirOfRecord DEF Resolves
      <3>3. kfd[f] = GpusDir \/ IsBusDir(kfd[f])
        BY <2>1, <2>2, <3>1, ProcDirClassified DEF Resolves
      <3>4. ~Escapes(gpuMap[f], r)
        BY <1>3, <3>2, <3>3 DEF Escapes, ClimbsOut
      <3>5. gpuMap[f] # NoRecord
        BY <2>2 DEF Resolves, IsProcDirRecord, NoRecord
      <3> QED
        BY <1>2, <2>2, <3>1, <3>3, <3>4, <3>5 DEF RelativeDenied
    <2>3. CASE ~Resolves(f)
      <3>1. gpuMap[f] # NoRecord => gpuMap[f] = ClassifyPath(kfd[f], TRUE)
        BY <1>3, <2>1 DEF StaleInv, HeldGood, TrueRecord
      <3>2. gpuMap[f] # NoRecord => ~(kfd[f] = GpusDir \/ IsBusDir(kfd[f]))
        BY <2>1, <2>3, <3>1, ProcDirClassified DEF Resolves
      <3> QED
        BY <2>3, <3>2 DEF RelativeDenied
    <2> QED
      BY <2>2, <2>3
  <1>4. (~slipped => StaleInv) => RefusedExactly
    BY <1>3 DEF RefusedExactly
  <1> QED
    BY InitStale, <1>1, <1>4, PTL DEF Spec

-----------------------------------------------------------------------------
(* ScopeFiltered.  A record that is missing matters here, and one that is  *)
(* false does not: the invariant follows the descriptors of the promised   *)
(* routes from the check of their name to the table, through copies, and   *)
(* says nothing of the others.  So fdopen and fclose are allowed.          *)

(* A file the program may be shown, with the record that makes the shim    *)
(* filter what is read from it or resolved below it.                       *)
Shown(rec, p) ==
    /\ IsBusDir(p) \/ IsInfo(p) => ~Hidden(p)
    /\ p \in {GpusDir, Ctl} \/ IsBusDir(p) => rec = ClassifyPath(p, TRUE)

HeldScope(f) ==
    use[f] # "none" =>
        /\ kfd[f] # Closed
        /\ f \in scoped => GpuVideo /\ Ready /\ Shown(gpuMap[f], kfd[f])

(* A call on a promised route has looked at its name, and will record it. *)
CallScope(c) ==
    /\ c.scope => GpuVideo /\ Ready /\ c.tracked /\ Shown(c.rec, c.file)
    /\ c.step \in {"attach", "track", "trackdir"} =>
          kfd[c.fd] = c.file /\ (c.fd \in scoped => c.scope)

(* The copy of a descriptor is promised only if the original is. *)
CallCopies(c) ==
    c.step \in {"dupclear", "copy"} =>
        /\ use[c.src] # "none" /\ kfd[c.fd] = kfd[c.src]
        /\ c.fd \in scoped => c.src \in scoped

CallForgets(c) == c.step = "forget" => "closedir" \in Calls

CallShows(c) == CallHolds(c) /\ CallScope(c) /\ CallCopies(c) /\ CallForgets(c)

ScopeInv ==
    /\ TypeInv
    /\ \A f \in Fds : HeldScope(f)
    /\ CallApart
    /\ \A t \in Threads : CallShows(call[t])

LEMMA InitScope == Init => ScopeInv
  <1> SUFFICES ASSUME Init PROVE ScopeInv
    OBVIOUS
  <1>1. TypeInv
    BY InitType
  <1>2. \A t \in Threads : call[t].step = "idle" /\ ~call[t].scope
    BY DEF Init, Idle
  <1>3. \A f \in Fds : use[f] = "none"
    BY DEF Init
  <1> QED
    BY <1>1, <1>2, <1>3 DEF ScopeInv, HeldScope, CallApart, CallShows, CallHolds, CallScope,
                            CallCopies, CallForgets, WithFd

LEMMA ScopeInHand ==
    ASSUME ScopeInv, NEW t \in Threads, call[t].step \in WithFd
    PROVE  Mine(t, call[t].fd) /\ call[t].fd \in Fds /\ use[call[t].fd] = "none"
  BY DEF ScopeInv, Mine, CallApart, CallShows, CallHolds, CallCopies, TypeInv, FdInHand, InHand

LEMMA ScopeHeld ==
    ASSUME ScopeInv, NEW t \in Threads, NEW x \in Fds, use[x] # "none", x \notin Busy
    PROVE  Mine(t, x)
  BY DEF ScopeInv, Mine, Busy, CallShows, CallHolds

LEMMA ScopeFree ==
    ASSUME ScopeInv, OneCloser, NEW t \in Threads, call[t].step # "forget",
           NEW x \in Fds, kfd[x] = Closed
    PROVE  Mine(t, x) /\ use[x] = "none"
  <1>1. \A u \in Threads : call[u].step # "forget"
    BY DEF ScopeInv, OneCloser, CallShows, CallForgets
  <1>2. \A u \in Threads : call[u].step \in WithFd => call[u].fd # x
    BY <1>1 DEF ScopeInv, CallShows, CallHolds
  <1>3. \A u \in Threads : call[u].step \in {"dupclear", "copy"} => call[u].src # x
    <2> SUFFICES ASSUME NEW u \in Threads, call[u].step \in {"dupclear", "copy"}
                 PROVE  call[u].src # x
      OBVIOUS
    <2>1. call[u].src \in Fds /\ use[call[u].src] # "none"
      BY DEF ScopeInv, TypeInv, FdInHand, InHand, CallShows, CallCopies
    <2> QED
      BY <2>1 DEF ScopeInv, HeldScope
  <1> QED
    BY <1>2, <1>3 DEF Mine, ScopeInv, HeldScope

Same(f) ==
    /\ kfd'[f] = kfd[f]
    /\ use'[f] = use[f]
    /\ gpuMap'[f] = gpuMap[f]
    /\ f \in scoped' <=> f \in scoped

LEMMA OtherShows ==
    ASSUME NEW u \in Threads, CallShows(call[u]), call'[u] = call[u], phase' = phase,
           call[u].step \in WithFd => Same(call[u].fd),
           call[u].step \in {"dupclear", "copy"} => Same(call[u].src)
    PROVE  CallShows(call[u])'
  BY DEF CallShows, CallHolds, CallScope, CallCopies, CallForgets, Same, WithFd, Ready

(* A step of t that changes one number, x, keeps ScopeInv if it keeps it   *)
(* for x and for the call of t.                                            *)
LEMMA ScopeFrame ==
    ASSUME ScopeInv, TypeInv', NEW t \in Threads, NEW x \in Fds, Mine(t, x),
           OthersKept(t), phase' = phase, \A f \in Fds : f # x => Same(f),
           call'[t].step \in WithFd => call'[t].fd = x,
           HeldScope(x)', CallShows(call[t])'
    PROVE  ScopeInv'
  <1>1. ASSUME NEW f \in Fds, f # x PROVE HeldScope(f)'
    BY <1>1 DEF ScopeInv, HeldScope, Same, Ready
  <1>2. CallApart'
    BY DEF ScopeInv, CallApart, OthersKept, Mine
  <1>3. ASSUME NEW u \in Threads, u # t PROVE CallShows(call[u])'
    <2>1. call[u].step \in WithFd => Same(call[u].fd)
      BY <1>3 DEF ScopeInv, Mine, TypeInv, FdInHand, InHand
    <2>2. call[u].step \in {"dupclear", "copy"} => Same(call[u].src)
      BY <1>3 DEF ScopeInv, Mine, TypeInv, FdInHand, InHand
    <2>3. CallShows(call[u]) /\ call'[u] = call[u]
      BY <1>3 DEF ScopeInv, OthersKept
    <2> QED
      BY <2>1, <2>2, <2>3, OtherShows
  <1> QED
    BY <1>1, <1>2, <1>3 DEF ScopeInv

(* A step of t that changes no number. *)
LEMMA ScopeFrameNone ==
    ASSUME ScopeInv, TypeInv', NEW t \in Threads, OthersKept(t),
           UNCHANGED <<phase, kfd, gpuMap, use, scoped>>,
           call'[t].step \notin WithFd, CallShows(call[t])'
    PROVE  ScopeInv'
  <1>1. ASSUME NEW f \in Fds PROVE HeldScope(f)'
    BY DEF ScopeInv, HeldScope, Ready
  <1>2. CallApart'
    BY DEF ScopeInv, CallApart, OthersKept
  <1>3. ASSUME NEW u \in Threads, u # t PROVE CallShows(call[u])'
    <2>1. CallShows(call[u]) /\ call'[u] = call[u]
      BY <1>3 DEF ScopeInv, OthersKept
    <2> QED
      BY <2>1, OtherShows DEF Same
  <1> QED
    BY <1>1, <1>2, <1>3 DEF ScopeInv

(* A step of t inside a call that only goes on to its next step, and       *)
(* touches the entries of its own number, which nobody holds.              *)
LEMMA GotoScope ==
    ASSUME ScopeInv, TypeInv', NEW t \in Threads, NEW step \in WithFd, Goto(t, step),
           call[t].step \in WithFd \ {"forget"}, step # "forget",
           step \in {"attach", "track", "trackdir"} => call[t].step \in {"attach", "track", "trackdir"},
           step \in {"dupclear", "copy"} => call[t].step \in {"dupclear", "copy"},
           UNCHANGED <<phase, kfd, use, scoped>>,
           \A f \in Fds : f # call[t].fd => gpuMap'[f] = gpuMap[f]
    PROVE  ScopeInv'
  <1>1. PICK x \in Fds : x = call[t].fd /\ Mine(t, x) /\ use[x] = "none"
    BY ScopeInHand
  <1>2. /\ OthersKept(t)
        /\ call'[t].step = step /\ call'[t].fd = call[t].fd /\ call'[t].src = call[t].src
        /\ call'[t].file = call[t].file /\ call'[t].rec = call[t].rec
        /\ call'[t].tracked = call[t].tracked /\ call'[t].scope = call[t].scope
    BY GotoCall DEF ScopeInv
  <1>3. \A f \in Fds : f # x => Same(f)
    BY <1>1 DEF Same
  <1>4. HeldScope(x)'
    BY <1>1 DEF HeldScope
  <1>5. CallShows(call[t])
    BY DEF ScopeInv
  <1>6. CallShows(call[t])'
    BY <1>1, <1>2, <1>5 DEF CallShows, CallHolds, CallScope, CallCopies, CallForgets, Ready, WithFd
  <1> QED
    BY <1>1, <1>2, <1>3, <1>4, <1>6, ScopeFrame

(* The end of a call: its number is free now, or held with what the call   *)
(* has recorded.                                                           *)
LEMMA ReturnScope ==
    ASSUME ScopeInv, TypeInv', NEW t \in Threads, Return(t), call[t].step \in WithFd,
           phase' = phase, NEW x \in Fds, x = call[t].fd,
           \A f \in Fds : f # x => Same(f), HeldScope(x)'
    PROVE  ScopeInv'
  <1>1. Mine(t, x)
    BY ScopeInHand
  <1>2. OthersKept(t) /\ call'[t].step = "idle" /\ ~call'[t].scope
    BY ReturnCall DEF ScopeInv
  <1>3. CallShows(call[t])'
    BY <1>2 DEF CallShows, CallHolds, CallScope, CallCopies, CallForgets, WithFd
  <1> QED
    BY <1>1, <1>2, <1>3, ScopeFrame DEF WithFd

(* A call outside any other that changes what the program holds. *)
LEMMA IdleScope ==
    ASSUME ScopeInv, TypeInv', NEW t \in Threads, NEW x \in Fds, Mine(t, x),
           call[t].step = "idle", UNCHANGED <<call, phase>>, 
           \A f \in Fds : f # x => Same(f), HeldScope(x)'
    PROVE  ScopeInv'
  <1>1. CallShows(call[t])
    BY DEF ScopeInv
  <1>2. CallShows(call[t])'
    BY <1>1 DEF CallShows, CallHolds, CallScope, CallCopies, CallForgets, WithFd, Ready
  <1> QED
    BY <1>2, ScopeFrame DEF WithFd, OthersKept

(* The beginning of a call that takes the number x. *)
LEMMA HoldScope ==
    ASSUME ScopeInv, TypeInv', NEW t \in Threads, NEW x \in Fds, Mine(t, x),
           NEW step \in WithFd, NEW src, Hold(t, step, x, src),
           step \notin {"attach", "track", "trackdir"}, phase' = phase,
           \A f \in Fds : f # x => Same(f),
           use'[x] = "none", kfd'[x] = Closed <=> step = "forget",
           step \in {"dupclear", "copy"} =>
               use'[src] # "none" /\ kfd'[x] = kfd'[src] /\ (x \in scoped' => src \in scoped'),
           step = "forget" => "closedir" \in Calls
    PROVE  ScopeInv'
  <1>1. OthersKept(t) /\ call'[t].step = step /\ call'[t].fd = x /\ call'[t].src = src /\ ~call'[t].scope
    BY HoldCall DEF ScopeInv
  <1>2. CallShows(call[t])'
    BY <1>1 DEF CallShows, CallHolds, CallScope, CallCopies, CallForgets
  <1>3. HeldScope(x)'
    BY DEF HeldScope
  <1> QED
    BY <1>1, <1>2, <1>3, ScopeFrame

LEMMA ShownByName ==
    ASSUME NEW p \in Files, NEW exact \in BOOLEAN, ~GpuProcDenied(p), ScopeOfName(p, exact)
    PROVE  Shown(ClassifyPath(p, exact), p)
  <1>1. p \in Seq(Names)
    BY DescriptorAssumption
  <1>2. IsBusDir(p) \/ IsInfo(p) => ~Hidden(p)
    BY DEF GpuProcDenied, ScopeOfName, ProcPathDenied, Hidden
  <1>3. p = Ctl => exact = TRUE
    BY DEF ScopeOfName
  <1>4. p = GpusDir \/ IsBusDir(p) => p # Ctl /\ p \notin Devices
    BY <1>1, DevicesApart DEF IsBusDir
  <1>5. p \in {GpusDir, Ctl} \/ IsBusDir(p) => ClassifyPath(p, exact) = ClassifyPath(p, TRUE)
    BY <1>3, <1>4 DEF ClassifyPath
  <1> QED
    BY <1>2, <1>5 DEF Shown

(* A name below a promised directory is resolved, and looked up among the  *)
(* hidden GPUs under the path the kernel will walk to.                     *)
LEMMA ShownBelow ==
    ASSUME ScopeInv, NEW f \in Fds, NEW r \in Rels, use[f] # "none", f \in scoped,
           kfd[f] \in Dirs, kfd[f] = GpusDir \/ IsBusDir(kfd[f]), ~RelativeDenied(f, r)
    PROVE  /\ GpuVideo /\ Ready /\ Resolves(f)
           /\ Shown(ClassifyPath(ResolveRelative(gpuMap[f], r), TRUE), Walk(kfd[f], r))
  <1>1. kfd[f] \in Seq(Names)
    BY DescriptorAssumption
  <1>2. GpuVideo /\ Ready /\ gpuMap[f] = ClassifyPath(kfd[f], TRUE)
    BY DEF ScopeInv, HeldScope, Shown
  <1>3. kfd[f] # Ctl /\ kfd[f] \notin Devices
    BY <1>1, DevicesApart DEF IsBusDir
  <1>4. IsProcDirRecord(ClassifyPath(kfd[f], TRUE))
    BY <1>3 DEF ClassifyPath, IsProcDirRecord
  <1>5. Resolves(f)
    BY <1>2, <1>4 DEF Resolves
  <1>6. ResolveRelative(gpuMap[f], r) = Walk(kfd[f], r)
    BY <1>1, <1>2, <1>4, RecordDirOfRecord DEF ResolveRelative
  <1>7. ~ProcPathDenied(Walk(kfd[f], r))
    BY <1>2, <1>5, <1>6 DEF RelativeDenied, GpuProcDenied
  <1> QED
    BY <1>2, <1>5, <1>6, <1>7 DEF Shown, ProcPathDenied, Hidden

LEMMA ForwardScope ==
    ASSUME ScopeInv, TypeInv', NEW t \in Threads, NEW step \in {"open", "opendir"},
           NEW src, NEW file, NEW rec, NEW tracked, NEW attach, NEW scope,
           Forward(t, step, src, file, rec, tracked, attach, scope),
           scope => GpuVideo /\ Ready /\ tracked /\ Shown(rec, file)
    PROVE  ScopeInv'
  <1>1. /\ OthersKept(t) /\ call'[t].step = step /\ call'[t].file = file /\ call'[t].rec = rec
        /\ call'[t].tracked = tracked /\ call'[t].scope = scope
    BY DEF Forward, OthersKept, ScopeInv, TypeInv, TypeOK
  <1>2. UNCHANGED <<phase, kfd, gpuMap, use, scoped>>
    BY DEF Forward
  <1>3. CallShows(call[t])'
    BY <1>1, <1>2 DEF CallShows, CallHolds, CallScope, CallCopies, CallForgets, WithFd, Ready
  <1> QED
    BY <1>1, <1>2, <1>3, ScopeFrameNone DEF WithFd

LEMMA OpenScope ==
    ASSUME ScopeInv, TypeInv', NEW t \in Threads, NEW p \in Files,
           \/ \E exact \in BOOLEAN :
                 \/ \E readable \in BOOLEAN : Open(t, p, exact, readable)
                 \/ OpenatAbsolute(t, p, exact)
           \/ OpenCwd(t, p) \/ Opendir(t, p)
    PROVE  ScopeInv'
  <1>1. ASSUME NEW exact \in BOOLEAN, ~GpuProcDenied(p), ScopeOfName(p, exact)
        PROVE  GpuVideo /\ Ready /\ Shown(ClassifyPath(p, exact), p)
    BY <1>1, ShownByName DEF ScopeOfName
  <1>2. ASSUME NEW exact \in BOOLEAN, NEW readable \in BOOLEAN, Open(t, p, exact, readable)
        PROVE  ScopeInv'
    <2> DEFINE attach == ShouldVirtualizeMeminfo(p, exact, readable)
               scope == ScopeOfName(p, exact)
    <2>1. scope => GpuVideo /\ Ready /\ Shown(ClassifyPath(p, exact), p)
      BY <1>1, <1>2 DEF Open
    <2>2. Forward(t, "open", NoFd, p, ClassifyPath(p, exact), TRUE, attach, scope)
      BY <1>2 DEF Open
    <2> HIDE DEF attach, scope
    <2> QED
      BY <2>1, <2>2, ForwardScope
  <1>3. ASSUME NEW exact \in BOOLEAN, OpenatAbsolute(t, p, exact)
        PROVE  ScopeInv'
    BY <1>1, <1>3, ForwardScope DEF OpenatAbsolute
  <1>4. CASE OpenCwd(t, p)
    BY <1>4, ForwardScope DEF OpenCwd
  <1>5. CASE Opendir(t, p)
    BY <1>1, <1>5, ForwardScope DEF Opendir
  <1> QED
    BY <1>2, <1>3, <1>4, <1>5

LEMMA OpenatRelativeScope ==
    ASSUME ScopeInv, TypeInv', NEW t \in Threads, NEW f \in Fds, NEW r \in Rels,
           OpenatRelative(t, f, r)
    PROVE  ScopeInv'
  <1> DEFINE rec == IF Resolves(f) THEN ClassifyPath(ResolveRelative(gpuMap[f], r), TRUE)
                                   ELSE NoRecord
             file == Walk(kfd[f], r)
             scope == f \in scoped /\ (kfd[f] = GpusDir \/ IsBusDir(kfd[f]))
             tracked == Resolves(f)
  <1>1. use[f] # "none" /\ kfd[f] \in Dirs /\ ~RelativeDenied(f, r)
    BY DEF OpenatRelative
  <1>2. scope => GpuVideo /\ Ready /\ tracked /\ Shown(rec, file)
    BY <1>1, ShownBelow
  <1>3. Forward(t, "open", f, file, rec, tracked, FALSE, scope)
    BY DEF OpenatRelative
  <1> HIDE DEF rec, file, scope, tracked
  <1> QED
    BY <1>2, <1>3, ForwardScope

LEMMA KernelOpenFailsScope ==
    ASSUME ScopeInv, TypeInv', NEW t \in Threads, KernelOpenFails(t)
    PROVE  ScopeInv'
  <1>1. OthersKept(t) /\ call'[t].step = "idle" /\ ~call'[t].scope
    BY ReturnCall DEF KernelOpenFails, ScopeInv
  <1>2. CallShows(call[t])'
    BY <1>1 DEF CallShows, CallHolds, CallScope, CallCopies, CallForgets, WithFd
  <1> QED
    BY <1>1, <1>2, ScopeFrameNone DEF KernelOpenFails, WithFd

LEMMA KernelOpenScope ==
    ASSUME ScopeInv, OneCloser, TypeInv', NEW t \in Threads, NEW x \in Fds, KernelOpen(t, x)
    PROVE  ScopeInv'
  <1>1. call[t].step \in {"open", "opendir"} /\ kfd[x] = Closed
    BY DEF KernelOpen, InCall, LowestFree
  <1>2. Mine(t, x) /\ use[x] = "none"
    BY <1>1, ScopeFree
  <1>3. /\ OthersKept(t) /\ call'[t].fd = x /\ call'[t].step \in {"trackdir", "attach"}
        /\ call'[t].file = call[t].file /\ call'[t].rec = call[t].rec
        /\ call'[t].tracked = call[t].tracked /\ call'[t].scope = call[t].scope
    BY <1>1 DEF KernelOpen, InCall, OthersKept, ScopeInv, TypeInv, TypeOK, CallType
  <1>4. \A f \in Fds : f # x => Same(f)
    BY DEF KernelOpen, Same, ScopeInv, TypeInv, TypeOK
  <1>5. /\ kfd'[x] = call[t].file /\ use'[x] = "none" /\ (x \in scoped' => call[t].scope)
        /\ phase' = phase
    BY <1>2 DEF KernelOpen, ScopeInv, TypeInv, TypeOK
  <1>6. call[t].file # Closed
    BY DescriptorAssumption DEF ScopeInv, TypeInv, TypeOK, CallType
  <1>7. HeldScope(x)'
    BY <1>5 DEF HeldScope
  <1>8. CallShows(call[t])
    BY DEF ScopeInv
  <1>9. CallShows(call[t])'
    BY <1>3, <1>5, <1>6, <1>8 DEF CallShows, CallHolds, CallScope, CallCopies, CallForgets, Ready
  <1> QED
    BY <1>2, <1>3, <1>4, <1>5, <1>7, <1>9, ScopeFrame

LEMMA AttachMeminfoScope ==
    ASSUME ScopeInv, TypeInv', NEW t \in Threads, AttachMeminfo(t)
    PROVE  ScopeInv'
  BY GotoScope DEF AttachMeminfo, InCall, WithFd

LEMMA FinishOpenScope ==
    ASSUME ScopeInv, TypeInv', NEW t \in Threads, FinishOpen(t)
    PROVE  ScopeInv'
  <1>1. call[t].step \in WithFd /\ call[t].step \in {"track", "trackdir"}
    BY DEF FinishOpen, InCall, WithFd
  <1>2. PICK x \in Fds : x = call[t].fd /\ Mine(t, x) /\ use[x] = "none"
    BY <1>1, ScopeInHand
  <1>3. (gpuMap' = TraceAndTrackOpen(t) /\ scoped' = scoped) \/ x \notin scoped'
    BY <1>2 DEF FinishOpen
  <1>4. \A f \in Fds : f # x => Same(f)
    BY <1>2 DEF FinishOpen, TraceAndTrackOpen, Same, ScopeInv, TypeInv, TypeOK
  <1>5. CallShows(call[t])
    BY DEF ScopeInv
  <1>6. kfd[x] = call[t].file /\ kfd[x] # Closed /\ (x \in scoped => call[t].scope)
    BY <1>1, <1>2, <1>5 DEF CallShows, CallHolds, CallScope
  <1>7. call[t].scope => GpuVideo /\ Ready /\ call[t].tracked /\ Shown(call[t].rec, kfd[x])
    BY <1>5, <1>6 DEF CallShows, CallScope
  <1>8. x \in scoped' => x \in scoped /\ (GpuVideo /\ call[t].tracked => gpuMap'[x] = call[t].rec)
    BY <1>2, <1>3 DEF TraceAndTrackOpen, ScopeInv, TypeInv, TypeOK
  <1>9. UNCHANGED <<phase, kfd>>
    BY DEF FinishOpen
  <1>10. HeldScope(x)'
    BY <1>6, <1>7, <1>8, <1>9 DEF HeldScope, Ready
  <1> QED
    BY <1>1, <1>2, <1>4, <1>9, <1>10, ReturnScope DEF FinishOpen

LEMMA FinishDupScope ==
    ASSUME ScopeInv, TypeInv', NEW t \in Threads, FinishDup(t)
    PROVE  ScopeInv'
  <1>1. call[t].step \in WithFd /\ call[t].step = "copy"
    BY DEF FinishDup, InCall, WithFd
  <1>2. PICK x \in Fds : x = call[t].fd /\ Mine(t, x) /\ use[x] = "none"
    BY <1>1, ScopeInHand
  <1>3. PICK y \in Fds : y = call[t].src
    BY <1>1 DEF ScopeInv, TypeInv, FdInHand, InHand
  <1>4. (gpuMap' = [gpuMap EXCEPT ![x] = gpuMap[y]] /\ scoped' = scoped) \/ x \notin scoped'
    BY <1>2, <1>3 DEF FinishDup, GpuFdMapCopy
  <1>5. \A f \in Fds : f # x => Same(f)
    BY <1>2, <1>3 DEF FinishDup, GpuFdMapCopy, Same, ScopeInv, TypeInv, TypeOK
  <1>6. use[y] # "none" /\ kfd[x] = kfd[y] /\ (x \in scoped => y \in scoped)
    BY <1>1, <1>2, <1>3 DEF ScopeInv, CallShows, CallCopies
  <1>7. HeldScope(y)
    BY DEF ScopeInv
  <1>8. UNCHANGED <<phase, kfd>> /\ (x \in scoped' => x \in scoped /\ gpuMap'[x] = gpuMap[y])
    BY <1>4 DEF FinishDup, ScopeInv, TypeInv, TypeOK
  <1>9. HeldScope(x)'
    BY <1>6, <1>7, <1>8 DEF HeldScope, Ready
  <1> QED
    BY <1>1, <1>2, <1>5, <1>8, <1>9, ReturnScope DEF FinishDup

(* The steps of close, closedir and dup2 on a number nobody holds. *)
LEMMA InHandScope ==
    ASSUME ScopeInv, TypeInv', NEW t \in Threads,
           \/ CloseClear(t) \/ CloseUntrack(t) \/ KernelClose(t) \/ ClosedirForget(t) \/ Dup2Clear(t)
    PROVE  ScopeInv'
  <1>1. call[t].step \in WithFd
    BY DEF CloseClear, CloseUntrack, KernelClose, ClosedirForget, Dup2Clear, InCall, WithFd
  <1>2. PICK x \in Fds : x = call[t].fd /\ use[x] = "none"
    BY <1>1, ScopeInHand
  <1>3. CASE CloseClear(t)
    BY <1>3, GotoScope DEF CloseClear, InCall, WithFd
  <1>4. CASE CloseUntrack(t)
    <2>1. \A f \in Fds : f # call[t].fd => gpuMap'[f] = gpuMap[f]
      BY <1>4 DEF CloseUntrack, ScopeInv, TypeInv, TypeOK
    <2> QED
      BY <1>4, <2>1, GotoScope DEF CloseUntrack, InCall, WithFd
  <1>5. CASE Dup2Clear(t)
    BY <1>5, GotoScope DEF Dup2Clear, InCall, WithFd
  <1>6. CASE KernelClose(t) \/ ClosedirForget(t)
    <2>1. \A f \in Fds : f # x => Same(f)
      BY <1>2, <1>6 DEF KernelClose, ClosedirForget, Same, ScopeInv, TypeInv, TypeOK
    <2>2. use' = use /\ phase' = phase /\ Return(t)
      BY <1>6 DEF KernelClose, ClosedirForget
    <2>3. HeldScope(x)'
      BY <1>2, <2>2 DEF HeldScope
    <2> QED
      BY <1>1, <1>2, <2>1, <2>2, <2>3, ReturnScope
  <1> QED
    BY <1>3, <1>4, <1>5, <1>6

LEMMA TakeScope ==
    ASSUME ScopeInv, OneCloser, TypeInv', NEW t \in Threads, NEW x \in Fds,
           Close(t, x) \/ Closedir(t, x) \/ \E old \in Fds : Dup(t, old, x) \/ Dup2(t, old, x)
    PROVE  ScopeInv'
  <1>1. CASE Close(t, x)
    <2>1. Mine(t, x) /\ kfd[x] # Closed
      BY <1>1, ScopeHeld DEF Close, ScopeInv, HeldScope
    <2>2. (\A f \in Fds : f # x => Same(f)) /\ use'[x] = "none" /\ kfd' = kfd
      BY <1>1 DEF Close, Same, ScopeInv, TypeInv, TypeOK
    <2> QED
      BY <1>1, <2>1, <2>2, HoldScope DEF Close, WithFd
  <1>2. CASE Closedir(t, x)
    <2>1. Mine(t, x)
      BY <1>2, ScopeHeld DEF Closedir
    <2>2. (\A f \in Fds : f # x => Same(f)) /\ use'[x] = "none" /\ kfd'[x] = Closed
      BY <1>2 DEF Closedir, Same, ScopeInv, TypeInv, TypeOK
    <2> QED
      BY <1>2, <2>1, <2>2, HoldScope DEF Closedir, WithFd
  <1>3. ASSUME NEW old \in Fds, Dup(t, old, x) PROVE ScopeInv'
    <2>1. Mine(t, x) /\ use[x] = "none"
      BY <1>3, ScopeFree DEF Dup, InCall
    <2>2. use[old] # "none" /\ kfd[old] # Closed /\ old # x
      BY <1>3 DEF Dup, ScopeInv, HeldScope
    <2>3. (\A f \in Fds : f # x => Same(f)) /\ use' = use /\ kfd'[x] = kfd[old] /\ kfd'[old] = kfd[old]
      BY <1>3, <2>2 DEF Dup, Same, ScopeInv, TypeInv, TypeOK
    <2>4. x \in scoped' => old \in scoped'
      BY <1>3, <2>2 DEF Dup
    <2> QED
      BY <1>3, <2>1, <2>2, <2>3, <2>4, HoldScope DEF Dup, WithFd
  <1>4. ASSUME NEW old \in Fds, Dup2(t, old, x) PROVE ScopeInv'
    <2>1. Mine(t, x)
      BY <1>4, ScopeFree, ScopeHeld DEF Dup2, InCall
    <2>2. use[old] # "none" /\ kfd[old] # Closed /\ old # x
      BY <1>4 DEF Dup2, ScopeInv, HeldScope
    <2>3. /\ \A f \in Fds : f # x => Same(f)
          /\ use'[x] = "none" /\ use'[old] = use[old] /\ kfd'[x] = kfd[old] /\ kfd'[old] = kfd[old]
      BY <1>4, <2>2 DEF Dup2, Same, ScopeInv, TypeInv, TypeOK
    <2>4. x \in scoped' => old \in scoped'
      BY <1>4, <2>2 DEF Dup2
    <2> QED
      BY <1>4, <2>1, <2>2, <2>3, <2>4, HoldScope DEF Dup2, WithFd
  <1> QED
    BY <1>1, <1>2, <1>3, <1>4

(* The calls that are one step. *)
LEMMA SingleScope ==
    ASSUME ScopeInv, OneCloser, TypeInv', NEW t \in Threads, NEW x \in Fds,
           \/ ExternalOpen(t, x) \/ Fdopendir(t, x) \/ Fdopen(t, x) \/ Fclose(t, x)
           \/ \E p \in Files, readable \in BOOLEAN : Fopen(t, p, readable, x)
    PROVE  ScopeInv'
  <1> USE DEF ScopeInv, TypeInv, TypeOK
  <1>1. CASE ExternalOpen(t, x)
    <2>1. Mine(t, x) /\ call[t].step = "idle"
      BY <1>1, ScopeFree DEF ExternalOpen, LowestFree, InCall
    <2>2. \A f \in Fds : f # x => Same(f)
      BY <1>1 DEF ExternalOpen, Same
    <2>3. HeldScope(x)'
      BY <1>1, DescriptorAssumption DEF ExternalOpen, HeldScope, Objects
    <2> QED
      BY <1>1, <2>1, <2>2, <2>3, IdleScope DEF ExternalOpen
  <1>2. CASE Fdopendir(t, x) \/ Fdopen(t, x)
    <2>1. Mine(t, x) /\ call[t].step = "idle"
      BY <1>2, ScopeHeld DEF Fdopendir, Fdopen, InCall
    <2>2. \A f \in Fds : f # x => Same(f)
      BY <1>2 DEF Fdopendir, Fdopen, Same
    <2>3. HeldScope(x)'
      BY <1>2 DEF Fdopendir, Fdopen, HeldScope, Ready
    <2> QED
      BY <1>2, <2>1, <2>2, <2>3, IdleScope DEF Fdopendir, Fdopen
  <1>3. CASE Fclose(t, x)
    <2>1. Mine(t, x) /\ call[t].step = "idle"
      BY <1>3, ScopeHeld DEF Fclose, InCall
    <2>2. \A f \in Fds : f # x => Same(f)
      BY <1>3 DEF Fclose, Same
    <2>3. HeldScope(x)'
      BY <1>3 DEF Fclose, HeldScope
    <2> QED
      BY <1>3, <2>1, <2>2, <2>3, IdleScope DEF Fclose
  <1>4. ASSUME NEW p \in Files, NEW readable \in BOOLEAN, Fopen(t, p, readable, x) PROVE ScopeInv'
    <2>1. Mine(t, x) /\ call[t].step = "idle"
      BY <1>4, ScopeFree DEF Fopen, LowestFree, InCall
    <2>2. \A f \in Fds : f # x => Same(f)
      BY <1>4 DEF Fopen, Same
    <2>3. HeldScope(x)'
      BY <1>4, DescriptorAssumption DEF Fopen, HeldScope, Objects
    <2> QED
      BY <1>4, <2>1, <2>2, <2>3, IdleScope DEF Fopen
  <1> QED
    BY <1>1, <1>2, <1>3, <1>4

LEMMA NextScope ==
    ASSUME OneCloser, ScopeInv, [Next]_vars
    PROVE  ScopeInv'
  <1>0. TypeInv'
    BY NextType DEF ScopeInv
  <1>1. CASE RunpodShimInit
    <2>1. UNCHANGED <<kfd, gpuMap, use, call, scoped>> /\ ~Ready
      BY <1>1 DEF RunpodShimInit, Ready
    <2>2. \A f \in Fds : HeldScope(f)'
      BY <2>1 DEF ScopeInv, HeldScope
    <2>3. \A t \in Threads : CallShows(call[t])'
      BY <2>1 DEF ScopeInv, CallShows, CallHolds, CallScope, CallCopies, CallForgets
    <2>4. CallApart'
      BY <2>1 DEF ScopeInv, CallApart
    <2> QED
      BY <1>0, <2>2, <2>3, <2>4 DEF ScopeInv
  <1>2. ASSUME NEW t \in Threads, Opening(t) PROVE ScopeInv'
    BY <1>0, <1>2, OpenScope, SingleScope, OpenatRelativeScope, KernelOpenScope,
       KernelOpenFailsScope, AttachMeminfoScope, FinishOpenScope
       DEF Opening
  <1>3. ASSUME NEW t \in Threads, Closing(t) PROVE ScopeInv'
    BY <1>0, <1>3, TakeScope, SingleScope, InHandScope DEF Closing
  <1>4. ASSUME NEW t \in Threads, Converting(t) PROVE ScopeInv'
    BY <1>0, <1>4, TakeScope, SingleScope, InHandScope, FinishDupScope DEF Converting
  <1>5. CASE UNCHANGED vars
    <2>1. UNCHANGED <<phase, kfd, gpuMap, use, call, scoped>>
      BY <1>5 DEF vars
    <2>2. \A f \in Fds : HeldScope(f)'
      BY <2>1 DEF ScopeInv, HeldScope, Ready
    <2>3. \A t \in Threads : CallShows(call[t])'
      BY <2>1 DEF ScopeInv, CallShows, CallHolds, CallScope, CallCopies, CallForgets, Ready
    <2>4. CallApart'
      BY <2>1 DEF ScopeInv, CallApart
    <2> QED
      BY <1>0, <2>2, <2>3, <2>4 DEF ScopeInv
  <1> QED
    BY <1>1, <1>2, <1>3, <1>4, <1>5 DEF Next

(* The routes of docs/gpu-video.md: a descriptor got by an absolute name,  *)
(* below a directory got so, or as a copy, shows no hidden GPU, for any    *)
(* number of threads, descriptors and files, also in programs that put     *)
(* stdio streams over their descriptors and where memory runs out; only    *)
(* closedir must not run beside other threads.                             *)
THEOREM RoutesFiltered == OneCloser => (Spec => []ScopeFiltered)
  <1> SUFFICES ASSUME OneCloser PROVE Spec => []ScopeFiltered
    OBVIOUS
  <1>1. ScopeInv /\ [Next]_vars => ScopeInv'
    BY NextScope
  <1>2. ASSUME ScopeInv PROVE ScopeFiltered
    <2> SUFFICES ASSUME NEW f \in scoped, use[f] # "none"
                 PROVE  /\ IsBusDir(kfd[f]) \/ IsInfo(kfd[f]) => ~Hidden(kfd[f])
                        /\ kfd[f] = GpusDir => FiltersListing(f)
                        /\ kfd[f] = Ctl /\ GpuIoctl => FiltersIoctl(f)
      BY DEF ScopeFiltered
    <2>1. f \in Fds
      BY <1>2 DEF ScopeInv, TypeInv, TypeOK
    <2>2. GpuVideo /\ Ready /\ Shown(gpuMap[f], kfd[f])
      BY <1>2, <2>1 DEF ScopeInv, HeldScope
    <2>3. kfd[f] = GpusDir => ClassifyPath(kfd[f], TRUE).kind = "gpusdir"
      BY GpusDirType, DevicesApart DEF ClassifyPath
    <2>4. kfd[f] = Ctl => ClassifyPath(kfd[f], TRUE).kind = "ctl"
      BY DEF ClassifyPath
    <2> QED
      BY <2>2, <2>3, <2>4 DEF Shown, FiltersListing, FiltersIoctl
  <1> QED
    BY InitScope, <1>1, <1>2, PTL DEF Spec
=============================================================================
