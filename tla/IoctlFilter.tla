----------------------------- MODULE IoctlFilter ----------------------------
(***************************************************************************)
(* gpu/ioctl_filter.c: the rewriting of the driver's answers to ioctl on   *)
(* /dev/nvidiactl, which lead a program to the GPUs of the host.           *)
(*                                                                         *)
(* Card info rows name a GPU by its minor number, and are judged by it.    *)
(* The lists of attached and of active GPUs only have the driver's ids:    *)
(* which ids belong to allowed GPUs is learned from the card info answers  *)
(* that pass by.  The learned ids are shared by the threads, under a lock  *)
(* that is released between the steps of a call.  Calls are made while     *)
(* GpuDiscovery is on its way, and after it.                               *)
(***************************************************************************)
EXTENDS GpuDiscovery

CONSTANTS
    Threads,
    Ids,           \* the driver's GPU ids
    InvalidId,     \* RPS_NV0000_CTRL_GPU_INVALID_ID
    Cards,         \* the rows of the card info answer
    MaxAttached,   \* RPS_NV0000_CTRL_GPU_MAX_ATTACHED_GPUS
    MaxActive,     \* RPS_NV0000_CTRL_GPU_MAX_ACTIVE_DEVICES
    AttachedLists, \* lists of attached ids the driver may answer with
    ActiveLists    \* lists of active devices it may answer with

ASSUME IoctlAssumption ==
    /\ InvalidId \notin Ids
    /\ Cards \in Seq([valid : BOOLEAN, minor : Nat, id : Ids])
    /\ MaxAttached \in Nat /\ MaxActive \in Nat
    /\ Len(Cards) <= MaxGpus
    /\ \A i, j \in DOMAIN Cards : \* an id names one GPU
         Cards[i].valid /\ Cards[j].valid /\ Cards[i].id = Cards[j].id
           => Cards[i].minor = Cards[j].minor
    /\ \A l \in AttachedLists : l \in Seq(Ids) /\ Len(l) <= MaxAttached
    /\ \A l \in ActiveLists : l \in Seq([id : Ids, instance : Nat]) /\ Len(l) <= MaxActive
    /\ MaxAttached <= MaxGpus

VARIABLES
    learned,   \* g_allowed_gpu_ids, as a set: nothing depends on their order
    call       \* the ioctl each thread is in, or the answer it got last; its field
               \* began is a history: had discovery ended, and were ids learned?

ioctl == <<learned, call>>

ioctlVars == <<discovery, ioctl>>

NoCall == [step |-> "none"]

IoctlInit ==
    /\ DiscoveryInit
    /\ learned = {}
    /\ call = [t \in Threads |-> NoCall]

-----------------------------------------------------------------------------
(* rps_gpu_allowed_contains_minor *)
ContainsMinor(minor) == \E i \in DOMAIN allowed : Minor[allowed[i]] = minor

(* The rows whose id is remembered, by their number. *)
Learnable(cards) == {i \in DOMAIN cards : cards[i].valid /\ ContainsMinor(cards[i].minor)}

(* Mutant: the loop ends at the first row that is remembered. *)
RecordCardInfoFirst(ids, cards) ==
    ids \cup {cards[i].id : i \in {i \in Learnable(cards) : \A j \in Learnable(cards) : i <= j}}

(* rps_gpu_record_card_info_gpu_ids: row after row, while there is room. *)
RecordCardInfo(ids, cards) ==
    ids \cup {cards[i].id : i \in
        {i \in Learnable(cards) :
            Cardinality(ids \cup {cards[j].id : j \in {k \in Learnable(cards) : k < i}}) < MaxGpus}}

(* rps_gpu_filter_card_info *)
FilterCardInfo(cards) ==
    [i \in DOMAIN cards |->
        [cards[i] EXCEPT !.valid = @ /\ ContainsMinor(cards[i].minor)]]

(* The array the driver fills with the list l, and what a program reads    *)
(* from it: the ids before the first invalid one.                          *)
ArrayOf(l, size) == [i \in 1..size |-> IF i <= Len(l) THEN l[i] ELSE InvalidId]

ListOf(a) ==
    Kept([i \in DOMAIN a |-> IF \E j \in 1..i : a[j] = InvalidId THEN InvalidId ELSE a[i]], Ids)

(* Mutant: what follows the ids that are kept is left as it was. *)
FilterGpuIdArrayNoClear(ids, a) ==
    LET kept == Kept(ListOf(a), ids)
    IN  [i \in DOMAIN a |-> IF i <= Len(kept) THEN kept[i] ELSE a[i]]

(* rps_gpu_filter_gpu_id_array, for a set of learned ids that is not empty *)
FilterGpuIdArray(ids, a) ==
    LET wanted == Kept(ListOf(a), ids)
        kept == SubSeq(wanted, 1, IF Len(wanted) < MaxGpus THEN Len(wanted) ELSE MaxGpus)
    IN  [i \in DOMAIN a |-> IF i <= Len(kept) THEN kept[i] ELSE InvalidId]

(* Mutant: the loop ends at the first device that is not kept. *)
FilterActiveDevicesStops(ids, devices) ==
    Kept([i \in DOMAIN devices |->
            IF \E j \in 1..i : devices[j].id \notin ids THEN [id |-> InvalidId, instance |-> 0]
                                                        ELSE devices[i]],
         [id : ids, instance : Nat])

(* rps_gpu_filter_active_devices.  The list is the first numDevices        *)
(* entries of the array; the entries after it are zeroed.                  *)
FilterActiveDevices(ids, devices) == Kept(devices, [id : ids, instance : Nat])

-----------------------------------------------------------------------------
(* The real ioctl: it fails, or succeeds with an answer.  Another request, *)
(* another RM command and too small a buffer are not rewritten: they are   *)
(* the request "other".                                                    *)
RealIoctl(t, req, raw) ==
    /\ call[t].step \in {"none", "returned"}
    /\ call' = [call EXCEPT ![t] =
                  [step |-> "answered", req |-> req, raw |-> raw, buf |-> raw,
                   began |-> IF learned # {} THEN "learned" ELSE phase, rewritten |-> FALSE]]
    /\ UNCHANGED <<discovery, learned>>

(* The call of c goes on to step, with buf in the caller's buffer. *)
Advance(c, step, buf, rewritten) ==
    [step |-> step, req |-> c.req, raw |-> c.raw, buf |-> buf,
     began |-> c.began, rewritten |-> rewritten]

(* Mutant: active devices are missing among the commands that are rewritten. *)
ReturnRawActive(t) ==
    /\ call[t].step = "answered"
    /\ \/ phase # "ready"
       \/ call[t].req \in {"other", "active"}
       \/ call[t].req = "attached" /\ learned = {}
    /\ call' = [call EXCEPT ![t] = Advance(@, "returned", @.buf, FALSE)]
    /\ UNCHANGED <<discovery, learned>>

(* The ioctl returns with what is in the buffer. *)
ReturnRaw(t) ==
    /\ call[t].step = "answered"
    /\ \/ phase # "ready"
       \/ call[t].req = "other"
       \/ call[t].req \in {"attached", "active"} /\ learned = {}
    /\ call' = [call EXCEPT ![t] = Advance(@, "returned", @.buf, FALSE)]
    /\ UNCHANGED <<discovery, learned>>

(* Card info: the ids are recorded under the lock ... *)
CardInfoRecord(t) ==
    /\ call[t].step = "answered" /\ call[t].req = "card" /\ phase = "ready"
    /\ learned' = RecordCardInfo(learned, call[t].buf)
    /\ call' = [call EXCEPT ![t] = Advance(@, "recorded", @.buf, FALSE)]
    /\ UNCHANGED discovery

(* ... and the rows hidden after it. *)
CardInfoFilter(t) ==
    /\ call[t].step = "recorded"
    /\ call' = [call EXCEPT ![t] = Advance(@, "returned", FilterCardInfo(@.buf), TRUE)]
    /\ UNCHANGED <<discovery, learned>>

(* RM control: the kept entries are chosen under the lock, and written to  *)
(* the caller's buffer, which no other thread looks at.                    *)
RmControl(t) ==
    /\ call[t].step = "answered" /\ phase = "ready" /\ learned # {}
    /\ \/ /\ call[t].req = "attached"
          /\ call' = [call EXCEPT ![t] =
                        Advance(@, "returned", FilterGpuIdArray(learned, @.buf), TRUE)]
       \/ /\ call[t].req = "active"
          /\ call' = [call EXCEPT ![t] =
                        Advance(@, "returned", FilterActiveDevices(learned, @.buf), TRUE)]
    /\ UNCHANGED <<discovery, learned>>

IoctlNext ==
    \/ Discover /\ UNCHANGED ioctl
    \/ \E t \in Threads :
         \/ RealIoctl(t, "card", Cards)
         \/ \E l \in AttachedLists :
              \/ RealIoctl(t, "attached", ArrayOf(l, MaxAttached))
              \/ RealIoctl(t, "other", ArrayOf(l, MaxAttached))
         \/ \E l \in ActiveLists : RealIoctl(t, "active", l)
         \/ ReturnRaw(t)
         \/ CardInfoRecord(t)
         \/ CardInfoFilter(t)
         \/ RmControl(t)

IoctlSpec == IoctlInit /\ [][IoctlNext]_ioctlVars

-----------------------------------------------------------------------------
(* Properties *)

(* The ids of the GPUs with these minors. *)
IdsOf(numbers) == {Cards[i].id : i \in {i \in DOMAIN Cards : Cards[i].valid /\ Cards[i].minor \in numbers}}

(* The GPUs of the allowed set, those that are mounted into the container, *)
(* and those that are mounted and described by the host.                   *)
AllowedIds == IdsOf({Minor[b] : b \in Elements(allowed)})
MountedIds == IdsOf(Elements(dev))
DescribedIds == IdsOf({Minor[b] : b \in Mounted \cap Elements(dir)})

(* The GPUs an answer names to a program, in its order: the ids of the     *)
(* valid rows, the ids before the first invalid one, the ids of the list.  *)
Shown(req, buf) ==
    CASE req = "card" ->
           Kept([i \in DOMAIN buf |-> IF buf[i].valid THEN buf[i].id ELSE InvalidId], Ids)
      [] req \in {"attached", "other"} -> ListOf(buf)
      [] req = "active" -> [i \in DOMAIN buf |-> buf[i].id]

Names(req, buf, id) == \E i \in DOMAIN Shown(req, buf) : Shown(req, buf)[i] = id

Returned(t) == call[t].step = "returned"

(* However the card info calls of the threads interleave, and whatever     *)
(* room there is, the ids are learned all together: none, or those of      *)
(* every allowed GPU and of no other.  With a part of them, the lists of   *)
(* ids would lose allowed GPUs.                                            *)
LearnedWhole == learned \in {{}, AllowedIds}

(* An answer rps_gpu_ioctl_filter_after has rewritten names no GPU that is *)
(* not mounted in /dev, wherever discovery was cut short.                  *)
RewrittenClean ==
    \A t \in Threads : Returned(t) /\ call[t].rewritten =>
        \A id \in Ids : Names(call[t].req, call[t].buf, id) => id \in MountedIds

(* docs/gpu-video.md: only GPUs that are not mounted are hidden.  After a  *)
(* complete discovery every answer keeps the mounted GPUs the driver       *)
(* named, in the driver's order; after another one, those of them that     *)
(* were found.                                                             *)
MountedKept ==
    \A t \in Threads : Returned(t) =>
        LET ids == IF Complete THEN DescribedIds ELSE AllowedIds
        IN  Kept(Shown(call[t].req, call[t].buf), ids) = Kept(Shown(call[t].req, call[t].raw), ids)

(* docs/gpu-video.md: card info, attached ids and active devices are       *)
(* filtered.  Card info is, in every call that begins after discovery has  *)
(* succeeded; the two others are in every call of any thread that begins   *)
(* after some thread's card info has passed by, and stay so.               *)
FilteredOnceLearned ==
    \A t \in Threads :
        /\ Returned(t)
        /\ \/ call[t].began = "learned" /\ call[t].req # "other"
           \/ call[t].began = "ready" /\ call[t].req = "card"
        => \A id \in Ids : Names(call[t].req, call[t].buf, id) => id \in MountedIds
=============================================================================
