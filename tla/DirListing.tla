----------------------------- MODULE DirListing -----------------------------
(***************************************************************************)
(* Listing the gpus directory through the shim: readdir and readdir64 of   *)
(* preload.c, which fetch entries until one may be shown, and getdents64,  *)
(* which compacts the batch the kernel returned                            *)
(* (rps_gpu_filter_dirent64_buffer in gpu/proc_filter.c), with the allowed *)
(* set GpuDiscovery came to.                                               *)
(*                                                                         *)
(* The program calls one of them until it reports the end, as every user   *)
(* of them does: a null entry, or a batch of length 0.  The descriptor is  *)
(* recorded as the gpus directory; which descriptors are is the subject of *)
(* Descriptors and GpuFdTracker.                                           *)
(***************************************************************************)
EXTENDS GpuDiscovery

CONSTANT
    MaxBatch    \* bound: entries that fit into the buffer of a caller of getdents64

ASSUME ListingAssumption == MaxBatch \in Nat \ {0}

VARIABLES
    pos,      \* entries the kernel has handed out
    reader,   \* the call the program lists with
    batch,    \* entries that fit into its buffer
    step,     \* "idle", "entry" (readdir holds an entry), "ended"
    seen      \* entries the program was given

listing == <<pos, reader, batch, step, seen>>

listingVars == <<discovery, listing>>

ListingInit ==
    /\ DiscoveryInit
    /\ pos = 0
    /\ reader \in {"readdir", "getdents64"}
    /\ batch \in IF reader = "readdir" THEN {1} ELSE 1..MaxBatch
    /\ step = "idle"
    /\ seen = <<>>

Constructed == phase \in {"ready", "failed"}

-----------------------------------------------------------------------------
(* Mutant: the dot entries are looked up among the bus ids. *)
EntryAllowedNoDots(name) == phase = "ready" => Contains(allowed, name)

(* gpu_readdir_entry_allowed, and keep of rps_gpu_filter_dirent64_buffer *)
EntryAllowed(name) == phase = "ready" => name \in Dots \/ Contains(allowed, name)

(* real->readdir, at the start of a call and again in its loop. *)
Fetch ==
    IF pos = Len(dir)
    THEN step' = "ended" /\ UNCHANGED pos
    ELSE step' = "entry" /\ pos' = pos + 1

Readdir ==
    /\ Constructed /\ reader = "readdir" /\ step = "idle"
    /\ Fetch
    /\ UNCHANGED <<reader, batch, seen, discovery>>

(* Mutant: the loop looks at the same entry again. *)
ReaddirSkipStuck ==
    /\ step = "entry" /\ ~EntryAllowed(dir[pos])
    /\ UNCHANGED listingVars

(* The loop of readdir: the entry is not shown, the next one is fetched. *)
ReaddirSkip ==
    /\ step = "entry" /\ ~EntryAllowed(dir[pos])
    /\ Fetch
    /\ UNCHANGED <<reader, batch, seen, discovery>>

ReaddirReturn ==
    /\ step = "entry" /\ EntryAllowed(dir[pos])
    /\ seen' = Append(seen, dir[pos])
    /\ step' = "idle"
    /\ UNCHANGED <<pos, reader, batch, discovery>>

(* Mutant: an entry that is dropped takes the rest of the batch with it. *)
FilterBufferCuts(entries) ==
    LET hidden == SelectInSeq(entries, LAMBDA e : ~EntryAllowed(e))
    IN  IF hidden = 0 THEN entries ELSE SubSeq(entries, 1, hidden - 1)

(* rps_gpu_filter_dirent64_buffer on the well-formed batch of a kernel *)
FilterBuffer(entries) == Kept(entries, {e \in Dots \cup Buses : EntryAllowed(e)})

(* getdents64: a batch of the next entries, as many as fit; none at the end. *)
Getdents64 ==
    /\ Constructed /\ reader = "getdents64" /\ step = "idle"
    /\ LET got   == AtMost(batch, SubSeq(dir, pos + 1, Len(dir)))
           given == FilterBuffer(got)
       IN  /\ pos' = pos + Len(got)
           /\ seen' = seen \o given
           /\ step' = IF given = <<>> THEN "ended" ELSE "idle"
    /\ UNCHANGED <<reader, batch, discovery>>

ListingNext ==
    \/ Discover /\ UNCHANGED listing
    \/ Readdir \/ ReaddirSkip \/ ReaddirReturn \/ Getdents64

(* A call that was made runs to its end. *)
ListingSpec == ListingInit /\ [][ListingNext]_listingVars /\ WF_listingVars(ReaddirSkip \/ ReaddirReturn)

-----------------------------------------------------------------------------
(* Properties *)

(* What a program may see: everything after a failed discovery, and else   *)
(* the dot entries and the allowed GPUs.                                   *)
Visible(name) == phase = "failed" \/ name \in Dots \/ name \in Elements(allowed)

(* What the program has been given is what it may see of the part of the   *)
(* directory that was read, in the kernel's order, each entry once: no     *)
(* GPU that is not mounted, and none that is mounted lost on the way.      *)
SeenFiltered ==
    seen = Kept(SubSeq(dir, 1, IF step = "entry" THEN pos - 1 ELSE pos),
                {e \in Dots \cup Buses : Visible(e)})

(* After a discovery that was not cut short, a program that lists to the   *)
(* end has seen every mounted GPU whose information file can be            *)
(* understood: with readdir behind any run of hidden GPUs, with getdents64 *)
(* when its buffer holds more entries than any such run.                   *)
RunOf(i, n) == i + n - 1 <= Len(dir) /\ \A j \in i..(i + n - 1) : ~Visible(dir[j])

MountedListed ==
    /\ step = "ended" /\ ~broken
    /\ Len(dev) <= MaxGpus /\ Len(dir) <= MaxGpus + Cardinality(Dots)
    /\ reader = "getdents64" => \A i \in DOMAIN dir : ~RunOf(i, batch)
    => \A b \in Mounted \cap Elements(dir) :
           text[b] \in {"whole", "no bus"} \/ phase = "failed" => Contains(seen, b)

(* A call of readdir returns, however many hidden GPUs it has to skip. *)
ReaddirReturns == step = "entry" ~> step # "entry"
=============================================================================
