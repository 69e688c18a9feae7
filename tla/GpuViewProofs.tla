---------------------------- MODULE GpuViewProofs ---------------------------
(***************************************************************************)
(* The GPUs a program is shown, for any GPUs, directories and table sizes: *)
(* the allowed set discovery comes to, what a program that lists the gpus  *)
(* directory is given, and what the answers of the driver name to any      *)
(* number of threads, whatever the driver answers.                         *)
(***************************************************************************)
EXTENDS DirListing, IoctlFilter, SelectionProofs

(* The beginning of a sequence. *)
LEMMA Prefix ==
    ASSUME NEW U, NEW s \in Seq(U), NEW k \in 0..Len(s)
    PROVE  /\ SubSeq(s, 1, k) \in Seq(U) /\ Len(SubSeq(s, 1, k)) = k
           /\ DOMAIN SubSeq(s, 1, k) = 1..k
           /\ \A i \in 1..k : SubSeq(s, 1, k)[i] = s[i]
           /\ \A x : Has(SubSeq(s, 1, k), x) => Has(s, x)
           /\ Once(s) => Once(SubSeq(s, 1, k))
  <1> DEFINE p == SubSeq(s, 1, k)
  <1>1. Len(s) \in Nat /\ DOMAIN s = 1..Len(s) /\ \A i \in 1..Len(s) : s[i] \in U
    BY LenProperties, ElementOfSeq
  <1>2. k \in Int /\ 1 \in Int /\ \A i \in 1..k : s[i] \in U /\ i \in 1..Len(s)
    BY <1>1
  <1>3. /\ p \in Seq(U)
        /\ Len(p) = IF 1 <= k THEN k - 1 + 1 ELSE 0
        /\ \A i \in 1..(k - 1 + 1) : p[i] = s[1 + i - 1]
    BY <1>2, SubSeqProperties
  <1> HIDE DEF p
  <1>4. Len(p) = k /\ DOMAIN p = 1..k
    BY <1>3, LenProperties
  <1>5. \A i \in 1..k : p[i] = s[i]
    BY <1>3
  <1>6. \A x : Has(p, x) => Has(s, x)
    BY <1>1, <1>2, <1>4, <1>5 DEF Has
  <1>7. Once(s) => Once(p)
    BY <1>1, <1>2, <1>4, <1>5 DEF Once
  <1> QED
    BY <1>3, <1>4, <1>5, <1>6, <1>7 DEF p

(* A table of n places takes the first n entries. *)
LEMMA Table ==
    ASSUME NEW U, NEW s \in Seq(U), NEW n \in Nat
    PROVE  /\ AtMost(n, s) \in Seq(U)
           /\ \A x : Has(AtMost(n, s), x) => Has(s, x)
           /\ Once(s) => Once(AtMost(n, s))
           /\ Len(s) <= n => AtMost(n, s) = s
  <1> DEFINE k == IF n < Len(s) THEN n ELSE Len(s)
  <1>1. k \in 0..Len(s) /\ (Len(s) <= n => k = Len(s))
    BY LenProperties
  <1>2. AtMost(n, s) = SubSeq(s, 1, k)
    BY DEF AtMost
  <1> HIDE DEF k
  <1>3. Len(s) <= n => SubSeq(s, 1, k) = s
    BY <1>1, SubSeqFull
  <1> QED
    BY <1>1, <1>2, <1>3, Prefix

-----------------------------------------------------------------------------
(* The invariant of discovery: what each table was filled from. *)

Described == {b \in Buses : Parses(b)}

MinorsRead ==
    \E k \in 0..Len(dev) :
        /\ minors = AtMost(MaxGpus, Kept(Scanned(dev, k), NvidiaMinors))
        /\ k = Len(dev) \/ broken

InfosRead ==
    \E k \in 0..Len(dir) :
        /\ infos = AtMost(MaxGpus, Kept(Scanned(dir, k), Described))
        /\ k = Len(dir) \/ broken

AllowedBuilt == allowed = Kept(infos, {b \in Buses : MinorIsMounted(b)})

DiscoveryInv ==
    /\ dev \in Devs /\ dir \in Listings /\ broken \in BOOLEAN
    /\ phase \in {"minors", "infos", "build", "ready", "failed"}
    /\ phase # "minors" => MinorsRead
    /\ phase \in {"build", "ready", "failed"} => InfosRead
    /\ phase \in {"ready", "failed"} => AllowedBuilt

LEMMA Directories ==
    ASSUME dev \in Devs, dir \in Listings
    PROVE  /\ dev \in Seq(Nat \cup {NoMinor}) /\ Len(dev) \in Nat
           /\ dir \in Seq(Dots \cup Buses) /\ Len(dir) \in Nat
           /\ Once(dir) /\ \A e \in Dots : Has(dir, e)
  BY DiscoveryAssumption, LenProperties DEF Once, Has

LEMMA DiscoveryStarts == DiscoveryInit => DiscoveryInv
  BY DEF DiscoveryInit, DiscoveryInv

LEMMA DiscoveryStep == DiscoveryInv /\ [Discover]_discovery => DiscoveryInv'
  <1> SUFFICES ASSUME DiscoveryInv, [Discover]_discovery PROVE DiscoveryInv'
    OBVIOUS
  <1>1. CASE UNCHANGED discovery
    BY <1>1 DEF discovery, DiscoveryInv, MinorsRead, InfosRead, AllowedBuilt, Described, Parses,
                Readable, ValuesInRange, MinorIsMounted
  <1>2. ASSUME NEW k \in 0..Len(dev), CollectMountedMinors(k) PROVE DiscoveryInv'
    <2>1. MinorsRead'
      <3>1. k = Len(dev) \/ k < Len(dev)
        BY Directories DEF DiscoveryInv
      <3> QED
        BY <1>2, <3>1 DEF CollectMountedMinors, MinorsRead
    <2> QED
      BY <1>2, <2>1 DEF CollectMountedMinors, DiscoveryInv
  <1>3. ASSUME NEW k \in 0..Len(dir), CollectGpuInfos(k) PROVE DiscoveryInv'
    <2>1. InfosRead'
      <3>1. k = Len(dir) \/ k < Len(dir)
        BY Directories DEF DiscoveryInv
      <3> QED
        BY <1>3, <3>1 DEF CollectGpuInfos, InfosRead, Described, Parses, Readable, ValuesInRange
    <2>2. MinorsRead'
      BY <1>3 DEF CollectGpuInfos, MinorsRead, DiscoveryInv
    <2> QED
      BY <1>3, <2>1, <2>2 DEF CollectGpuInfos, DiscoveryInv
  <1>4. CASE BuildAllowedGpus
    <2>1. InfosRead' /\ MinorsRead'
      BY <1>4 DEF BuildAllowedGpus, InfosRead, MinorsRead, DiscoveryInv, Described, Parses,
                  Readable, ValuesInRange
    <2>2. AllowedBuilt'
      BY <1>4 DEF BuildAllowedGpus, AllowedBuilt, MinorIsMounted
    <2> QED
      BY <1>4, <2>1, <2>2 DEF BuildAllowedGpus, DiscoveryInv
  <1> QED
    BY <1>1, <1>2, <1>3, <1>4 DEF Discover

LEMMA NextDiscovery == DiscoveryInv /\ [ListingNext]_listingVars => DiscoveryInv'
  BY DiscoveryStep
     DEF ListingNext, Readdir, ReaddirSkip, ReaddirReturn, Getdents64, listingVars

LEMMA DiscoveryAlways == ListingSpec => []DiscoveryInv
  <1>1. ListingInit => DiscoveryInv
    BY DiscoveryStarts DEF ListingInit
  <1> QED
    BY <1>1, NextDiscovery, PTL DEF ListingSpec

-----------------------------------------------------------------------------
(* The allowed set *)

(* A directory read to its end, and room for what was kept of it. *)
LEMMA WholeTable ==
    ASSUME NEW U, NEW s \in Seq(U), NEW S, NEW k \in 0..Len(s), k = Len(s),
           Cardinality({i \in DOMAIN s : s[i] \in S}) <= MaxGpus
    PROVE  AtMost(MaxGpus, Kept(Scanned(s, k), S)) = Kept(s, S)
  <1>1. Scanned(s, k) = s
    BY SubSeqFull DEF Scanned
  <1>2. Kept(s, S) \in Seq(U) /\ Len(Kept(s, S)) <= MaxGpus
    BY KeptSeq, KeptLen
  <1>3. MaxGpus \in Nat
    BY DiscoveryAssumption
  <1> QED
    BY <1>1, <1>2, <1>3, Table

LEMMA MinorsFound ==
    ASSUME DiscoveryInv, MinorsRead
    PROVE  /\ minors \in Seq(Nat)
           /\ \A m : Has(minors, m) => Has(dev, m)
           /\ ~broken /\ Cardinality({i \in DOMAIN dev : dev[i] # NoMinor}) <= MaxGpus
                => \A m \in Nat : Has(dev, m) => Has(minors, m)
  <1> DEFINE U == Nat \cup {NoMinor}
  <1>1. dev \in Seq(U) /\ MaxGpus \in Nat
    BY Directories, DiscoveryAssumption DEF DiscoveryInv
  <1>2. PICK k \in 0..Len(dev) : /\ minors = AtMost(MaxGpus, Kept(Scanned(dev, k), NvidiaMinors))
                                 /\ k = Len(dev) \/ broken
    BY DEF MinorsRead
  <1> DEFINE r == Scanned(dev, k)
  <1>3. U \cap Nat = Nat
    OBVIOUS
  <1>4. {i \in DOMAIN dev : dev[i] # NoMinor} = {i \in DOMAIN dev : dev[i] \in Nat}
    <2>1. \A i \in DOMAIN dev : dev[i] \in U
      BY <1>1, LenProperties, ElementOfSeq
    <2>2. NoMinor \notin Nat
      BY DiscoveryAssumption
    <2>3. \A i \in DOMAIN dev : dev[i] # NoMinor <=> dev[i] \in Nat
      BY <2>1, <2>2, Zenon
    <2> QED
      BY <2>3, Zenon
  <1> HIDE DEF U
  <1>5. r \in Seq(U) /\ \A m : Has(r, m) => Has(dev, m)
    BY <1>1, Prefix DEF Scanned
  <1> HIDE DEF r
  <1>6. Kept(r, Nat) \in Seq(Nat)
    BY <1>3, <1>5, KeptType
  <1>7. minors \in Seq(Nat) /\ \A m : Has(minors, m) => Has(Kept(r, Nat), m)
    BY <1>1, <1>2, <1>6, Table DEF r, NvidiaMinors
  <1>8. \A m : Has(minors, m) => Has(dev, m)
    BY <1>5, <1>7, KeptElements
  <1>9. ASSUME ~broken, Cardinality({i \in DOMAIN dev : dev[i] # NoMinor}) <= MaxGpus,
               NEW m \in Nat, Has(dev, m)
        PROVE  Has(minors, m)
    <2>1. Cardinality({i \in DOMAIN dev : dev[i] \in Nat}) <= MaxGpus
      BY <1>4, <1>9
    <2>2. minors = Kept(dev, Nat)
      BY <1>1, <1>2, <1>9, <2>1, WholeTable DEF NvidiaMinors
    <2> QED
      BY <1>1, <1>9, <2>2, KeptElements
  <1> QED
    BY <1>7, <1>8, <1>9

LEMMA InfosFound ==
    ASSUME DiscoveryInv, InfosRead
    PROVE  /\ infos \in Seq(Buses) /\ Once(infos)
           /\ ~broken /\ Cardinality({i \in DOMAIN dir : dir[i] \notin Dots /\ Parses(dir[i])}) <= MaxGpus
                => \A b \in Described : Has(dir, b) => Has(infos, b)
           /\ \A b : Has(infos, b) => Has(dir, b)
  <1> DEFINE U == Dots \cup Buses
  <1>1. dir \in Seq(U) /\ Once(dir) /\ MaxGpus \in Nat
    BY Directories, DiscoveryAssumption DEF DiscoveryInv
  <1>2. PICK k \in 0..Len(dir) : /\ infos = AtMost(MaxGpus, Kept(Scanned(dir, k), Described))
                                 /\ k = Len(dir) \/ broken
    BY DEF InfosRead
  <1> DEFINE r == Scanned(dir, k)
  <1>3. U \cap Described \subseteq Buses
    BY DEF Described
  <1>4. {i \in DOMAIN dir : dir[i] \notin Dots /\ Parses(dir[i])}
          = {i \in DOMAIN dir : dir[i] \in Described}
    <2>1. \A i \in DOMAIN dir : dir[i] \in U
      BY <1>1, LenProperties, ElementOfSeq
    <2> QED
      BY <2>1, DiscoveryAssumption DEF Described
  <1> HIDE DEF U
  <1>5. r \in Seq(U) /\ Once(r) /\ \A m : Has(r, m) => Has(dir, m)
    BY <1>1, Prefix DEF Scanned
  <1> HIDE DEF r
  <1> DEFINE q == Kept(r, Described)
  <1>6. q \in Seq(Buses) /\ Once(q)
    <2>1. q \in Seq(U \cap Described) /\ Once(q)
      BY <1>5, KeptType, KeptOnce
    <2> HIDE DEF q
    <2> QED
      BY <1>3, <2>1
  <1>7. \A b : Has(q, b) => Has(dir, b)
    BY <1>5, KeptElements
  <1>8. infos \in Seq(Buses) /\ Once(infos) /\ \A b : Has(infos, b) => Has(dir, b)
    <2>1. infos = AtMost(MaxGpus, q)
      BY <1>2 DEF r
    <2> HIDE DEF q
    <2> QED
      BY <1>1, <1>6, <1>7, <2>1, Table
  <1>9. ASSUME ~broken, NEW b \in Described, Has(dir, b),
               Cardinality({i \in DOMAIN dir : dir[i] \notin Dots /\ Parses(dir[i])}) <= MaxGpus
        PROVE  Has(infos, b)
    <2>1. Cardinality({i \in DOMAIN dir : dir[i] \in Described}) <= MaxGpus
      BY <1>4, <1>9
    <2>2. infos = Kept(dir, Described)
      BY <1>1, <1>2, <1>9, <2>1, WholeTable
    <2> QED
      BY <1>1, <1>9, <2>2, KeptElements
  <1> QED
    BY <1>8, <1>9

(* What the allowed set holds: mounted GPUs, each once; and every mounted  *)
(* GPU that is described, when neither directory nor table cut it off.     *)
LEMMA AllowedFound ==
    ASSUME DiscoveryInv, phase \in {"ready", "failed"}
    PROVE  /\ allowed \in Seq(Buses) /\ Once(allowed)
           /\ \A b : Has(allowed, b) => b \in Mounted /\ Has(dir, b)
           /\ /\ ~broken
              /\ Cardinality({i \in DOMAIN dev : dev[i] # NoMinor}) <= MaxGpus
              /\ Cardinality({i \in DOMAIN dir : dir[i] \notin Dots /\ Parses(dir[i])}) <= MaxGpus
              => \A b \in Mounted \cap Described : Has(dir, b) => Has(allowed, b)
  <1> DEFINE M == {b \in Buses : MinorIsMounted(b)}
  <1>1. MinorsRead /\ InfosRead /\ AllowedBuilt
    BY DEF DiscoveryInv
  <1>2. allowed = Kept(infos, M)
    BY <1>1 DEF AllowedBuilt
  <1>3. infos \in Seq(Buses) /\ Once(infos) /\ \A b : Has(infos, b) => Has(dir, b)
    BY <1>1, InfosFound
  <1>4. minors \in Seq(Nat) /\ dev \in Seq(Nat \cup {NoMinor}) /\ \A m : Has(minors, m) => Has(dev, m)
    BY <1>1, MinorsFound, Directories DEF DiscoveryInv
  <1>5. /\ \A b \in Buses : b \in M <=> Has(minors, Minor[b])
        /\ \A b \in Buses : b \in Mounted <=> Has(dev, Minor[b])
        /\ M \subseteq Buses
    BY <1>4, LenProperties DEF MinorIsMounted, Mounted, Contains, Has
  <1> HIDE DEF M
  <1>6. allowed \in Seq(Buses) /\ Once(allowed)
    BY <1>2, <1>3, KeptSeq, KeptOnce
  <1>7. \A b : Has(allowed, b) <=> b \in M /\ Has(infos, b)
    BY <1>2, <1>3, KeptElements
  <1>8. \A b : Has(allowed, b) => b \in Mounted /\ Has(dir, b)
    BY <1>3, <1>4, <1>5, <1>7
  <1>9. ASSUME ~broken,
               Cardinality({i \in DOMAIN dev : dev[i] # NoMinor}) <= MaxGpus,
               Cardinality({i \in DOMAIN dir : dir[i] \notin Dots /\ Parses(dir[i])}) <= MaxGpus,
               NEW b \in Mounted \cap Described, Has(dir, b)
        PROVE  Has(allowed, b)
    <2>1. b \in Buses /\ Minor[b] \in Nat
      BY DiscoveryAssumption DEF Described
    <2>2. Has(infos, b)
      BY <1>1, <1>9, InfosFound
    <2>3. Has(minors, Minor[b])
      BY <1>1, <1>5, <1>9, <2>1, MinorsFound
    <2> QED
      BY <1>5, <1>7, <2>1, <2>2, <2>3
  <1> QED
    BY <1>6, <1>8, <1>9

LEMMA DiscoveryExact == DiscoveryInv => AllowedExact
  <1>1. ASSUME DiscoveryInv, phase \in {"ready", "failed"}
        PROVE  AllowedExact
    <2>1. Elements(allowed) \subseteq Mounted
      BY <1>1, AllowedFound DEF Elements, Has
    <2>2. \A i, j \in DOMAIN allowed : allowed[i] = allowed[j] => i = j
      BY <1>1, AllowedFound DEF Once
    <2>3. ASSUME Complete
          PROVE  Elements(allowed) = Mounted \cap Elements(dir)
      <3>1. \A b \in Mounted : b \in Described
        BY <2>3 DEF Complete, Mounted, Described, Parses, Readable, ValuesInRange
      <3>2. \A b : b \in Elements(allowed) <=> Has(allowed, b)
        BY DEF Elements, Has
      <3>3. \A b : b \in Elements(dir) <=> Has(dir, b)
        BY DEF Elements, Has
      <3>4. \A b \in Mounted : Has(dir, b) => Has(allowed, b)
        BY <1>1, <2>3, <3>1, AllowedFound DEF Complete
      <3>5. \A b : Has(allowed, b) => b \in Mounted /\ Has(dir, b)
        BY <1>1, AllowedFound
      <3> QED
        BY <3>2, <3>3, <3>4, <3>5
    <2> QED
      BY <2>1, <2>2, <2>3 DEF AllowedExact
  <1> QED
    BY <1>1 DEF AllowedExact

(* rps_gpu_build_allowed_gpus: whatever is in the directories, and         *)
(* wherever a scan of them breaks off, no GPU is allowed that is not       *)
(* mounted; and when nothing was cut off, exactly the mounted GPUs of the  *)
(* host are.                                                               *)
THEOREM AllowedSetExact == ListingSpec => []AllowedExact
  BY DiscoveryExact, DiscoveryAlways, PTL

-----------------------------------------------------------------------------
(* The listing *)

VisibleNames == {e \in Dots \cup Buses : Visible(e)}

(* What was given out is what may be seen of the first k entries. *)
GivenUpTo(k) == seen = Kept(SubSeq(dir, 1, k), VisibleNames)

(* A batch of hidden entries ended the listing. *)
CutShort == reader = "getdents64" /\ \E i \in DOMAIN dir : RunOf(i, batch)

ListingInv ==
    /\ DiscoveryInv
    /\ pos \in 0..Len(dir)
    /\ batch \in Nat \ {0}
    /\ step \in {"idle", "entry", "ended"}
    /\ ~Constructed => pos = 0 /\ step = "idle"
    /\ step = "entry" => pos >= 1
    /\ GivenUpTo(IF step = "entry" THEN pos - 1 ELSE pos)
    /\ step = "ended" => pos = Len(dir) \/ CutShort

(* gpu_readdir_entry_allowed and the loop of getdents64 let through what   *)
(* may be seen.                                                            *)
LEMMA AllowedVisible ==
    ASSUME DiscoveryInv, Constructed
    PROVE  /\ \A e : EntryAllowed(e) <=> Visible(e)
           /\ {e \in Dots \cup Buses : EntryAllowed(e)} = VisibleNames
  <1>1. allowed \in Seq(Buses)
    BY AllowedFound DEF Constructed
  <1>2. \A e : Contains(allowed, e) <=> e \in Elements(allowed)
    BY <1>1, LenProperties DEF Contains, Elements
  <1>3. \A e : EntryAllowed(e) <=> Visible(e)
    BY <1>2 DEF EntryAllowed, Visible, Constructed
  <1> QED
    BY <1>3 DEF VisibleNames

(* One entry more. *)
LEMMA OneMore ==
    ASSUME NEW U, NEW s \in Seq(U), NEW k \in 1..Len(s), NEW S
    PROVE  Kept(SubSeq(s, 1, k), S)
             = IF s[k] \in S THEN Append(Kept(SubSeq(s, 1, k - 1), S), s[k])
                             ELSE Kept(SubSeq(s, 1, k - 1), S)
  <1> DEFINE p == SubSeq(s, 1, k - 1)
             e == s[k]
  <1>1. Len(s) \in Nat /\ k - 1 \in 0..Len(s) /\ 1 \in 1..Len(s) /\ k \in 1..Len(s)
    BY LenProperties
  <1>2. p \in Seq(U) /\ e \in U
    BY <1>1, Prefix, ElementOfSeq
  <1>3. SubSeq(s, 1, k) = p \o <<e>>
    BY <1>1, SubSeqRecursiveSecond
  <1> HIDE DEF p, e
  <1>4. SubSeq(s, 1, k) = Append(p, e)
    BY <1>2, <1>3, AppendIsConcat
  <1>5. Kept(Append(p, e), S) = IF e \in S THEN Append(Kept(p, S), e) ELSE Kept(p, S)
    BY <1>2, KeptAppend
  <1> QED
    BY <1>4, <1>5 DEF p, e

(* The batch of a call of getdents64: the m entries that follow the first  *)
(* k ones, with room for n.                                                *)
IsBatch(got, s, U, k, n, m) ==
    /\ m \in 0..n /\ k + m <= Len(s)
    /\ m = n \/ k + m = Len(s)
    /\ got \in Seq(U) /\ Len(got) = m
    /\ \A i \in 1..m : got[i] = s[k + i]
    /\ SubSeq(s, 1, k) \o got = SubSeq(s, 1, k + m)

LEMMA Batch ==
    ASSUME NEW U, NEW s \in Seq(U), NEW k \in 0..Len(s), NEW n \in Nat \ {0}
    PROVE  \E m : IsBatch(AtMost(n, SubSeq(s, k + 1, Len(s))), s, U, k, n, m)
  <1> DEFINE l == Len(s)
             rest == SubSeq(s, k + 1, l)
             m == IF n < l - k THEN n ELSE l - k
             got == SubSeq(s, k + 1, k + m)
  <1>1. l \in Nat /\ \A i \in 1..l : s[i] \in U
    BY LenProperties, ElementOfSeq
  <1>2. /\ m \in 0..n /\ k + m <= l /\ (m = n \/ k + m = l) /\ k + m \in Nat
        /\ m = 0 => k = l
    BY <1>1
  <1>3. rest \in Seq(U) /\ Len(rest) = l - k
    <2>1. \A i \in (k + 1)..l : s[i] \in U
      BY <1>1
    <2>2. k + 1 \in Int /\ l \in Int
      BY <1>1
    <2>3. rest \in Seq(U) /\ Len(rest) = IF k + 1 <= l THEN l - (k + 1) + 1 ELSE 0
      BY <2>1, <2>2, SubSeqProperties
    <2> QED
      BY <1>1, <2>3
  <1>4. /\ got \in Seq(U) /\ Len(got) = m
        /\ \A i \in 1..m : got[i] = s[k + i]
    <2> HIDE DEF m
    <2>1. \A i \in (k + 1)..(k + m) : s[i] \in U
      BY <1>1, <1>2
    <2>2. k + 1 \in Int /\ k + m \in Int
      BY <1>1, <1>2
    <2>3. /\ got \in Seq(U)
          /\ Len(got) = IF k + 1 <= k + m THEN (k + m) - (k + 1) + 1 ELSE 0
          /\ \A i \in 1..((k + m) - (k + 1) + 1) : got[i] = s[(k + 1) + i - 1]
      BY <2>1, <2>2, SubSeqProperties
    <2> HIDE DEF got
    <2>4. (k + m) - (k + 1) + 1 = m /\ \A i \in 1..m : (k + 1) + i - 1 = k + i
      BY <1>2
    <2> QED
      BY <1>2, <2>3, <2>4
  <1>5. AtMost(n, rest) = SubSeq(rest, 1, m)
    <2>1. (IF n < Len(rest) THEN n ELSE Len(rest)) = m
      BY <1>3
    <2> QED
      BY <2>1 DEF AtMost
  <1> HIDE DEF m
  <1>6. SubSeq(rest, 1, m) = got
    <2>1. CASE m = 0
      <3>1. SubSeq(rest, 1, m) = <<>>
        BY <2>1, SubSeqEmpty
      <3>2. got = <<>>
        BY <1>2, <2>1, SubSeqEmpty
      <3> QED
        BY <3>1, <3>2
    <2>2. CASE m # 0
      <3>1. /\ k + 1 \in 1..l /\ l \in 1..l /\ 1 \in 1..(l - (k + 1) + 1)
            /\ m \in 1..(l - (k + 1) + 1) /\ (k + 1) + 1 - 1 = k + 1 /\ (k + 1) + m - 1 = k + m
        BY <1>1, <1>2, <2>2
      <3>2. SubSeq(rest, 1, m) = SubSeq(s, (k + 1) + 1 - 1, (k + 1) + m - 1)
        BY <3>1, SubSeqOfSubSeq
      <3> QED
        BY <3>1, <3>2
    <2> QED
      BY <2>1, <2>2
  <1>7. SubSeq(s, 1, k) \o got = SubSeq(s, 1, k + m)
    <2>1. 1 \in 1..(l + 1) /\ k \in (1 - 1)..l /\ k + m \in k..l
      BY <1>1, <1>2
    <2> QED
      BY <2>1, ConcatAdjacentSubSeq
  <1> HIDE DEF got
  <1>8. AtMost(n, SubSeq(s, k + 1, Len(s))) = got
    BY <1>5, <1>6
  <1> HIDE DEF rest
  <1>9. IsBatch(got, s, U, k, n, m)
    BY <1>2, <1>4, <1>7 DEF IsBatch
  <1> QED
    BY <1>8, <1>9

(* A step of the program leaves what may be seen as it is. *)
LEMMA VisibleSame ==
    ASSUME UNCHANGED discovery
    PROVE  /\ VisibleNames' = VisibleNames /\ dir' = dir /\ Constructed' = Constructed
           /\ \A i, n : RunOf(i, n)' <=> RunOf(i, n)
  BY DEF discovery, VisibleNames, Visible, Elements, RunOf, Constructed

LEMMA NextListing == ListingInv /\ [ListingNext]_listingVars => ListingInv'
  <1> SUFFICES ASSUME ListingInv, [ListingNext]_listingVars PROVE ListingInv'
    OBVIOUS
  <1>1. DiscoveryInv /\ DiscoveryInv'
    BY NextDiscovery DEF ListingInv
  <1> DEFINE U == Dots \cup Buses
  <1>2. dir \in Seq(U) /\ Len(dir) \in Nat /\ dir' \in Seq(U) /\ Len(dir') \in Nat
    BY <1>1, Directories, DiscoveryAssumption, LenProperties DEF DiscoveryInv
  <1>3. \A i \in 1..Len(dir) : dir[i] \in U
    BY <1>2, ElementOfSeq
  <1>4. \A e \in U : e \in VisibleNames <=> Visible(e)
    BY DEF VisibleNames
  <1> HIDE DEF U
  <1>5. CASE UNCHANGED listingVars
    BY <1>1, <1>5, VisibleSame DEF listingVars, listing, discovery, ListingInv, GivenUpTo, CutShort
  <1>6. CASE Discover /\ UNCHANGED listing
    <2>1. ~Constructed
      BY <1>6 DEF Discover, CollectMountedMinors, CollectGpuInfos, BuildAllowedGpus, Constructed
    <2>2. pos = 0 /\ step = "idle" /\ GivenUpTo(0)
      BY <2>1 DEF ListingInv
    <2>3. SubSeq(dir, 1, 0) = <<>> /\ SubSeq(dir', 1, 0) = <<>>
      BY SubSeqEmpty
    <2>4. seen = <<>> /\ GivenUpTo(0)'
      BY <1>6, <2>2, <2>3, KeptEmpty DEF GivenUpTo, listing
    <2> QED
      BY <1>1, <1>2, <1>6, <2>2, <2>4 DEF ListingInv, listing
  <1>7. ASSUME UNCHANGED <<discovery, reader, batch, seen>>, Constructed, Fetch, GivenUpTo(pos)
        PROVE  ListingInv'
    <2>1. CASE pos = Len(dir) /\ step' = "ended" /\ pos' = pos
      BY <1>1, <1>7, <2>1, VisibleSame DEF ListingInv, GivenUpTo
    <2>2. CASE pos # Len(dir) /\ step' = "entry" /\ pos' = pos + 1
      <3>1. pos' \in 0..Len(dir) /\ pos' >= 1 /\ pos' - 1 = pos
        BY <1>2, <2>2 DEF ListingInv
      <3> QED
        BY <1>1, <1>7, <2>2, <3>1, VisibleSame DEF ListingInv, GivenUpTo
    <2> QED
      BY <1>7, <2>1, <2>2 DEF Fetch
  <1>8. CASE Readdir
    BY <1>7, <1>8 DEF Readdir, ListingInv
  <1>9. CASE ReaddirSkip \/ ReaddirReturn
    <2>1. /\ Constructed /\ pos \in 1..Len(dir) /\ GivenUpTo(pos - 1)
          /\ UNCHANGED <<discovery, reader, batch>> /\ step = "entry"
      BY <1>9 DEF ReaddirSkip, ReaddirReturn, ListingInv
    <2>2. Kept(SubSeq(dir, 1, pos), VisibleNames)
            = IF dir[pos] \in VisibleNames THEN Append(seen, dir[pos]) ELSE seen
      BY <1>2, <2>1, OneMore DEF GivenUpTo
    <2>3. EntryAllowed(dir[pos]) <=> dir[pos] \in VisibleNames
      BY <1>1, <1>3, <1>4, <2>1, AllowedVisible
    <2>4. CASE ReaddirSkip
      <3>1. GivenUpTo(pos)
        BY <2>2, <2>3, <2>4 DEF ReaddirSkip, GivenUpTo
      <3> QED
        BY <1>7, <2>1, <2>4, <3>1 DEF ReaddirSkip
    <2>5. CASE ReaddirReturn
      <3>1. GivenUpTo(pos)'
        BY <2>1, <2>2, <2>3, <2>5, VisibleSame DEF ReaddirReturn, GivenUpTo
      <3> QED
        BY <1>1, <2>1, <2>5, <3>1, VisibleSame DEF ReaddirReturn, ListingInv
    <2> QED
      BY <1>9, <2>4, <2>5
  <1>10. CASE Getdents64
    <2> DEFINE got == AtMost(batch, SubSeq(dir, pos + 1, Len(dir)))
    <2>1. /\ Constructed /\ pos \in 0..Len(dir) /\ batch \in Nat \ {0} /\ GivenUpTo(pos)
          /\ UNCHANGED <<discovery, reader, batch>> /\ reader = "getdents64"
      BY <1>10 DEF Getdents64, ListingInv
    <2>2. PICK m : IsBatch(got, dir, U, pos, batch, m)
      BY <1>2, <2>1, Batch, Zenon
    <2> USE DEF IsBatch
    <2>3. FilterBuffer(got) = Kept(got, VisibleNames)
      BY <1>1, <2>1, AllowedVisible DEF FilterBuffer
    <2>4. /\ pos' = pos + Len(got)
          /\ seen' = seen \o FilterBuffer(got)
          /\ step' = IF FilterBuffer(got) = <<>> THEN "ended" ELSE "idle"
      BY <1>10 DEF Getdents64
    <2> HIDE DEF got
    <2>5. /\ got \in Seq(U) /\ Len(got) = m /\ \A i \in 1..m : got[i] = dir[pos + i]
          /\ SubSeq(dir, 1, pos) \o got = SubSeq(dir, 1, pos + m)
      BY <2>2
    <2>6. SubSeq(dir, 1, pos) \in Seq(U)
      BY <1>2, <2>1, Prefix
    <2>7. Kept(SubSeq(dir, 1, pos) \o got, VisibleNames)
            = Kept(SubSeq(dir, 1, pos), VisibleNames) \o Kept(got, VisibleNames)
      <3> DEFINE first == SubSeq(dir, 1, pos)
      <3> HIDE DEF first, VisibleNames
      <3>1. first \in Seq(U)
        BY <2>6 DEF first
      <3>2. Kept(first \o got, VisibleNames) = Kept(first, VisibleNames) \o Kept(got, VisibleNames)
        BY <2>5, <3>1, KeptConcat
      <3> QED
        BY <3>2 DEF first
    <2>8. GivenUpTo(pos)'
      BY <2>1, <2>3, <2>4, <2>5, <2>7, VisibleSame DEF GivenUpTo
    <2>9. pos' \in 0..Len(dir)
      BY <1>2, <2>1, <2>2, <2>4, <2>5
    <2>10. step' = "ended" => pos' = Len(dir) \/ CutShort'
      <3> SUFFICES ASSUME FilterBuffer(got) = <<>>, m = batch PROVE CutShort'
        BY <2>2, <2>4, <2>5
      <3>1. \A i \in 1..m : dir[pos + i] \notin VisibleNames
        <4> SUFFICES ASSUME NEW i \in 1..m, dir[pos + i] \in VisibleNames PROVE FALSE
          OBVIOUS
        <4>1. Has(got, dir[pos + i])
          BY <2>5, LenProperties DEF Has
        <4>2. Has(Kept(got, VisibleNames), dir[pos + i])
          BY <2>5, <4>1, KeptElements
        <4>3. ~Has(<<>>, dir[pos + i])
          BY EmptySeq DEF Has
        <4> QED
          BY <2>3, <4>2, <4>3
      <3>2. pos + 1 \in DOMAIN dir /\ (pos + 1) + batch - 1 <= Len(dir)
        BY <1>2, <2>1, <2>2, LenProperties
      <3>3. ASSUME NEW j \in (pos + 1)..((pos + 1) + batch - 1) PROVE ~Visible(dir[j])
        <4>1. j - pos \in 1..m /\ pos + (j - pos) = j /\ j \in 1..Len(dir)
          BY <1>2, <2>1, <2>2
        <4> QED
          BY <1>3, <1>4, <3>1, <4>1
      <3>4. RunOf(pos + 1, batch)
        BY <3>2, <3>3 DEF RunOf
      <3> QED
        BY <2>1, <3>2, <3>4, VisibleSame DEF CutShort
    <2> QED
      BY <1>1, <2>1, <2>4, <2>8, <2>9, <2>10, VisibleSame DEF ListingInv
  <1> QED
    BY <1>5, <1>6, <1>8, <1>9, <1>10 DEF ListingNext

LEMMA ListingAlways == ListingSpec => []ListingInv
  <1>1. ListingInit => ListingInv
    <2> SUFFICES ASSUME ListingInit PROVE ListingInv
      OBVIOUS
    <2>1. DiscoveryInv
      BY DEF ListingInit, DiscoveryInit, DiscoveryInv
    <2>2. Len(dir) \in Nat
      BY <2>1, Directories DEF DiscoveryInv
    <2>3. SubSeq(dir, 1, 0) = <<>>
      BY SubSeqEmpty
    <2>4. GivenUpTo(0) /\ pos = 0 /\ step = "idle"
      BY <2>3, KeptEmpty DEF ListingInit, GivenUpTo
    <2>5. batch \in Nat \ {0}
      BY ListingAssumption DEF ListingInit
    <2> QED
      BY <2>1, <2>2, <2>4, <2>5 DEF ListingInv
  <1> QED
    BY <1>1, NextListing, PTL DEF ListingSpec

(* readdir and getdents64: however the entries come, and however many of   *)
(* them fit into a batch, the program has been given what it may see of    *)
(* the part of the directory that was read, in order, and nothing else.    *)
THEOREM ListingFiltered == ListingSpec => []SeenFiltered
  <1>1. ListingInv => SeenFiltered
    BY DEF ListingInv, GivenUpTo, VisibleNames, SeenFiltered
  <1> QED
    BY <1>1, ListingAlways, PTL

LEMMA Indices ==
    ASSUME NEW n \in Nat, NEW S, S \subseteq 1..n
    PROVE  IsFiniteSet(S) /\ Cardinality(S) \in Nat /\ Cardinality(S) <= n
  <1>1. IsFiniteSet(1..n) /\ Cardinality(1..n) = n
    <2>1. /\ IsFiniteSet(1..n)
          /\ Cardinality(1..n) = IF 1 > n THEN 0 ELSE n - 1 + 1
      BY FS_Interval
    <2> QED
      BY <2>1
  <1> QED
    BY <1>1, FS_Subset, FS_CardinalityType

(* When the directories are not larger than the tables, leaving aside the  *)
(* dot entries, there is room for everything discovery collects.           *)
LEMMA RoomForAll ==
    ASSUME DiscoveryInv, Len(dev) <= MaxGpus, Len(dir) <= MaxGpus + Cardinality(Dots)
    PROVE  /\ Cardinality({i \in DOMAIN dev : dev[i] # NoMinor}) <= MaxGpus
           /\ Cardinality({i \in DOMAIN dir : dir[i] \notin Dots /\ Parses(dir[i])}) <= MaxGpus
  <1>1. /\ Len(dev) \in Nat /\ DOMAIN dev = 1..Len(dev)
        /\ Len(dir) \in Nat /\ DOMAIN dir = 1..Len(dir)
        /\ \A e \in Dots : Has(dir, e)
    BY Directories, LenProperties DEF DiscoveryInv
  <1>2. MaxGpus \in Nat /\ IsFiniteSet(Dots) /\ Cardinality(Dots) \in Nat
    BY DiscoveryAssumption, FS_CardinalityType
  <1> DEFINE A == {i \in DOMAIN dir : dir[i] \in Dots}
             B == {i \in DOMAIN dir : dir[i] \notin Dots /\ Parses(dir[i])}
             M == {i \in DOMAIN dev : dev[i] # NoMinor}
             f == [i \in A |-> dir[i]]
  <1>3. M \subseteq 1..Len(dev) /\ A \subseteq 1..Len(dir) /\ B \subseteq 1..Len(dir) /\ A \cap B = {}
    BY <1>1
  <1>4. f \in Surjection(A, Dots)
    BY <1>1 DEF Surjection, Has
  <1> HIDE DEF A, B, M, f
  <1>5. Cardinality(M) <= Len(dev) /\ Cardinality(M) \in Nat
    BY <1>1, <1>3, Indices
  <1>6. /\ IsFiniteSet(A) /\ Cardinality(A) \in Nat
        /\ IsFiniteSet(B) /\ Cardinality(B) \in Nat
        /\ Cardinality(A \cup B) <= Len(dir) /\ Cardinality(A \cup B) \in Nat
    <2>1. A \cup B \subseteq 1..Len(dir)
      BY <1>3
    <2> QED
      BY <1>1, <1>3, <2>1, Indices
  <1>7. Cardinality(Dots) <= Cardinality(A)
    BY <1>4, <1>6, FS_Surjection
  <1>8. Cardinality(A \cup B) = Cardinality(A) + Cardinality(B)
    <2>1. Cardinality(A \cup B) = Cardinality(A) + Cardinality(B) - Cardinality(A \cap B)
      BY <1>6, FS_Union
    <2>2. Cardinality(A \cap B) = 0
      BY <1>3, FS_EmptySet
    <2> QED
      BY <1>6, <2>1, <2>2
  <1>9. Cardinality(B) <= MaxGpus
    BY <1>1, <1>2, <1>6, <1>7, <1>8
  <1>10. Cardinality(M) <= MaxGpus
    BY <1>1, <1>2, <1>5
  <1> QED
    BY <1>9, <1>10 DEF B, M

(* After a discovery that was not cut short, a program that lists the      *)
(* directory to the end has seen every mounted GPU that is described:      *)
(* readdir skips any run of hidden GPUs, and getdents64 any that is        *)
(* shorter than a batch.                                                   *)
THEOREM MountedGpusListed == ListingSpec => []MountedListed
  <1>1. ASSUME ListingInv, step = "ended", ~broken, Len(dev) <= MaxGpus,
               Len(dir) <= MaxGpus + Cardinality(Dots),
               reader = "getdents64" => \A i \in DOMAIN dir : ~RunOf(i, batch),
               NEW b \in Mounted \cap Elements(dir),
               text[b] \in {"whole", "no bus"} \/ phase = "failed"
        PROVE  Contains(seen, b)
    <2>1. DiscoveryInv /\ phase \in {"ready", "failed"} /\ pos = Len(dir) /\ GivenUpTo(Len(dir))
      BY <1>1 DEF ListingInv, CutShort, Constructed
    <2>2. dir \in Seq(Dots \cup Buses) /\ b \in Buses /\ Has(dir, b)
      BY <2>1, Directories DEF DiscoveryInv, Mounted, Elements, Has
    <2>3. seen = Kept(dir, VisibleNames)
      BY <2>1, <2>2, SubSeqFull DEF GivenUpTo
    <2>4. Visible(b)
      <3>1. CASE phase = "failed"
        BY <3>1 DEF Visible
      <3>2. CASE text[b] \in {"whole", "no bus"}
        <4>1. b \in Described
          BY <2>2, <3>2 DEF Described, Parses, Readable, ValuesInRange
        <4>2. Has(allowed, b)
          BY <1>1, <2>1, <2>2, <4>1, RoomForAll, AllowedFound
        <4> QED
          BY <4>2 DEF Visible, Elements, Has
      <3> QED
        BY <1>1, <3>1, <3>2
    <2>5. b \in VisibleNames
      BY <2>2, <2>4 DEF VisibleNames
    <2>6. Has(seen, b)
      BY <2>2, <2>3, <2>5, KeptElements
    <2>7. seen \in Seq(Dots \cup Buses)
      BY <2>2, <2>3, KeptSeq
    <2> QED
      BY <2>6, <2>7, LenProperties DEF Has, Contains
  <1>2. ListingInv => MountedListed
    BY <1>1 DEF MountedListed
  <1> QED
    BY <1>2, ListingAlways, PTL
-----------------------------------------------------------------------------
(* The answers of the driver: the ids are learned all together. *)

(* A call of CARD_INFO that has not been rewritten holds the whole table. *)
TableUntouched ==
    \A t \in Threads : call[t].step = "answered" /\ call[t].req = "card" => call[t].buf = Cards

LearnInv ==
    /\ DiscoveryInv
    /\ call = [t \in Threads |-> call[t]]
    /\ TableUntouched
    /\ LearnedWhole
    /\ learned # {} => phase = "ready"

(* A step of a call leaves the allowed set as it is, and the end of        *)
(* discovery too.                                                          *)
LEMMA AllowedSame ==
    /\ UNCHANGED discovery => AllowedIds' = AllowedIds /\ phase' = phase
    /\ Discover => phase # "ready"
  BY DEF discovery, AllowedIds, Learnable, ContainsMinor, Discover, CollectMountedMinors,
         CollectGpuInfos, BuildAllowedGpus

(* The loop over the rows never meets a full table. *)
LEMMA Room ==
    ASSUME NEW i \in Learnable(Cards)
    PROVE  Cardinality({} \cup {Cards[j].id : j \in {k \in Learnable(Cards) : k < i}}) < MaxGpus
  <1> DEFINE S == {k \in Learnable(Cards) : k < i}
             T == {Cards[j].id : j \in S}
  <1>1. i \in 1..Len(Cards) /\ Len(Cards) \in Nat /\ Len(Cards) <= MaxGpus /\ MaxGpus \in Nat
    <2>1. MaxGpus \in Nat
      BY DiscoveryAssumption
    <2> QED
      BY <2>1, IoctlAssumption DEF Learnable
  <1>2. S \subseteq 1..(i - 1)
    BY IoctlAssumption DEF Learnable
  <1>3. IsFiniteSet(1..(i - 1)) /\ Cardinality(1..(i - 1)) = i - 1
    <2>1. PICK n \in Int : n = i - 1 /\ n >= 0
      BY <1>1
    <2>2. /\ IsFiniteSet(1..n)
          /\ Cardinality(1..n) = IF 1 > n THEN 0 ELSE n - 1 + 1
      BY FS_Interval
    <2> QED
      BY <2>1, <2>2
  <1>4. IsFiniteSet(S) /\ Cardinality(S) <= i - 1
    BY <1>2, <1>3, FS_Subset
  <1>5. IsFiniteSet(T) /\ Cardinality(T) <= Cardinality(S)
    <2> DEFINE f == [j \in S |-> Cards[j].id]
    <2>1. f \in Surjection(S, T)
      BY DEF Surjection
    <2> HIDE DEF f, S, T
    <2> QED
      BY <1>4, <2>1, FS_Surjection
  <1>6. Cardinality(T) \in Nat /\ Cardinality(S) \in Nat
    BY <1>4, <1>5, FS_CardinalityType
  <1>7. {} \cup T = T
    OBVIOUS
  <1> HIDE DEF S, T
  <1>8. Cardinality({} \cup T) < MaxGpus
    BY <1>1, <1>4, <1>5, <1>6, <1>7
  <1> QED
    BY <1>8 DEF S, T

(* What rps_gpu_record_card_info_gpu_ids may remember. *)
LEMMA IdsLearnable == AllowedIds = {Cards[i].id : i \in Learnable(Cards)}
  BY DEF AllowedIds, IdsOf, Learnable, ContainsMinor, Elements

LEMMA RecordWhole ==
    ASSUME NEW ids \in {{}, AllowedIds}
    PROVE  RecordCardInfo(ids, Cards) = AllowedIds
  <1>1. CASE ids = {}
    BY <1>1, Room, IdsLearnable DEF RecordCardInfo
  <1>2. CASE ids = AllowedIds
    BY <1>2, IdsLearnable DEF RecordCardInfo
  <1> QED
    BY <1>1, <1>2

LEMMA NextLearn == LearnInv /\ [IoctlNext]_ioctlVars => LearnInv'
  <1> SUFFICES ASSUME LearnInv, [IoctlNext]_ioctlVars PROVE LearnInv'
    OBVIOUS
  <1>d. DiscoveryInv'
    BY DiscoveryStep DEF LearnInv, IoctlNext, RealIoctl, ReturnRaw, CardInfoRecord, CardInfoFilter,
                         RmControl, ioctlVars
  <1>1. CASE UNCHANGED ioctlVars
    BY <1>d, <1>1, AllowedSame DEF ioctlVars, ioctl, LearnInv, TableUntouched, LearnedWhole
  <1>2. CASE Discover /\ UNCHANGED ioctl
    BY <1>d, <1>2, AllowedSame DEF ioctl, LearnInv, TableUntouched, LearnedWhole
  <1>3. ASSUME NEW t \in Threads, NEW c, call' = [call EXCEPT ![t] = c],
               c.step = "answered" /\ c.req = "card" => c.buf = Cards
        PROVE  call' = [u \in Threads |-> call'[u]] /\ TableUntouched'
    BY <1>3 DEF LearnInv, TableUntouched
  <1>4. ASSUME NEW t \in Threads, NEW req, NEW raw, RealIoctl(t, req, raw),
               req = "card" => raw = Cards
        PROVE  LearnInv'
    BY <1>d, <1>3, <1>4, AllowedSame DEF RealIoctl, LearnInv, LearnedWhole
  <1>5. ASSUME NEW t \in Threads, ReturnRaw(t) PROVE LearnInv'
    BY <1>d, <1>3, <1>5, AllowedSame DEF ReturnRaw, Advance, LearnInv, LearnedWhole
  <1>6. ASSUME NEW t \in Threads, CardInfoRecord(t) PROVE LearnInv'
    <2>1. call[t].buf = Cards
      BY <1>6 DEF CardInfoRecord, LearnInv, TableUntouched
    <2>2. learned' = AllowedIds
      BY <1>6, <2>1, RecordWhole DEF CardInfoRecord, LearnInv, LearnedWhole
    <2>3. AllowedIds' = AllowedIds /\ phase' = "ready"
      BY <1>6, AllowedSame DEF CardInfoRecord
    <2> QED
      BY <1>d, <1>3, <1>6, <2>2, <2>3 DEF CardInfoRecord, Advance, LearnInv, LearnedWhole
  <1>7. ASSUME NEW t \in Threads, CardInfoFilter(t) PROVE LearnInv'
    BY <1>d, <1>3, <1>7, AllowedSame DEF CardInfoFilter, Advance, LearnInv, LearnedWhole
  <1>8. ASSUME NEW t \in Threads, RmControl(t) PROVE LearnInv'
    BY <1>d, <1>3, <1>8, AllowedSame DEF RmControl, Advance, LearnInv, LearnedWhole
  <1> QED
    BY <1>1, <1>2, <1>4, <1>5, <1>6, <1>7, <1>8 DEF IoctlNext

(* rps_gpu_record_card_info_gpu_ids: whatever the threads do at the same   *)
(* time, the learned ids are none, or those of all allowed GPUs and of no  *)
(* other; the 32 places of the table are always enough.                    *)
THEOREM LearnedTogether == IoctlSpec => []LearnedWhole
  <1>1. IoctlInit => LearnInv
    BY DiscoveryStarts DEF IoctlInit, NoCall, LearnInv, TableUntouched, LearnedWhole
  <1>2. LearnInv => LearnedWhole
    BY DEF LearnInv
  <1> QED
    BY <1>1, <1>2, NextLearn, PTL DEF IoctlSpec

-----------------------------------------------------------------------------
(* What an answer shows once it is rewritten: the allowed GPUs among those *)
(* the driver named.                                                       *)

LEMMA RowType ==
    /\ Len(Cards) \in Nat /\ DOMAIN Cards = 1..Len(Cards)
    /\ \A i \in DOMAIN Cards : Cards[i].id \in Ids /\ Cards[i].valid \in BOOLEAN
    /\ \A i \in DOMAIN Cards :
         Cards[i] = [valid |-> Cards[i].valid, minor |-> Cards[i].minor, id |-> Cards[i].id]
  <1> DEFINE R == [valid : BOOLEAN, minor : Nat, id : Ids]
  <1>1. Cards \in Seq(R)
    BY IoctlAssumption
  <1>2. \A r \in R : /\ r.id \in Ids /\ r.valid \in BOOLEAN
                     /\ r = [valid |-> r.valid, minor |-> r.minor, id |-> r.id]
    OBVIOUS
  <1> HIDE DEF R
  <1>3. /\ Len(Cards) \in Nat /\ DOMAIN Cards = 1..Len(Cards)
        /\ \A i \in DOMAIN Cards : Cards[i] \in R
    BY <1>1, LenProperties, ElementOfSeq
  <1> QED
    BY <1>2, <1>3

LEMMA AllowedAreIds == AllowedIds \subseteq Ids /\ InvalidId \notin Ids
  BY RowType, IoctlAssumption, IdsLearnable DEF Learnable

(* The array the driver fills reads as the list it was filled with. *)
LEMMA ListOfArray ==
    ASSUME NEW l \in Seq(Ids), NEW n \in Nat, Len(l) <= n
    PROVE  ListOf(ArrayOf(l, n)) = l
  <1> DEFINE a == ArrayOf(l, n)
             k == Len(l)
             pad == [i \in 1..(n - k) |-> InvalidId]
             U == Ids \cup {InvalidId}
             mask == [i \in DOMAIN a |->
                        IF \E j \in 1..i : a[j] = InvalidId THEN InvalidId ELSE a[i]]
  <1>1. k \in Nat /\ l \in Seq(U) /\ \A i \in 1..k : l[i] \in Ids
    BY LenProperties, ElementOfSeq
  <1>2. pad \in Seq({InvalidId}) /\ pad \in Seq(U) /\ Len(pad) = n - k
    BY <1>1
  <1>3. a \in [1..n -> U] /\ \A i \in 1..n : a[i] = IF i <= k THEN l[i] ELSE InvalidId
    BY <1>1 DEF ArrayOf
  <1> HIDE DEF a
  <1>4. \A i \in 1..n : mask[i] = a[i]
    BY <1>1, <1>3, AllowedAreIds
  <1>5. mask = a
    BY <1>3, <1>4
  <1>6. a = l \o pad
    <2>1. l \o pad \in Seq(U) /\ Len(l \o pad) = n
      BY <1>1, <1>2, ConcatProperties
    <2>2. \A i \in 1..n : (l \o pad)[i] = a[i]
      BY <1>1, <1>2, <1>3
    <2>3. a \in Seq(U) /\ Len(a) = n
      BY <1>3
    <2> QED
      BY <2>1, <2>2, <2>3, SeqEqual
  <1> HIDE DEF pad, mask
  <1>7. Kept(l \o pad, Ids) = Kept(l, Ids) \o Kept(pad, Ids)
    <2> HIDE DEF U
    <2> QED
      BY <1>1, <1>2, KeptConcat
  <1>8. Kept(l, Ids) = l
    BY KeptAll
  <1>9. Kept(pad, Ids) = <<>>
    BY <1>2, AllowedAreIds, KeptNone
  <1>10. l \o <<>> = l
    BY ConcatEmptySeq
  <1> QED
    BY <1>5, <1>6, <1>7, <1>8, <1>9, <1>10 DEF ListOf, mask, a

(* rps_gpu_filter_gpu_id_array *)
LEMMA AttachedExact ==
    ASSUME NEW l \in AttachedLists
    PROVE  /\ Shown("attached", ArrayOf(l, MaxAttached)) = l
           /\ Shown("other", ArrayOf(l, MaxAttached)) = l
           /\ Shown("attached", FilterGpuIdArray(AllowedIds, ArrayOf(l, MaxAttached)))
                = Kept(l, AllowedIds)
  <1> DEFINE a == ArrayOf(l, MaxAttached)
             k == Kept(l, AllowedIds)
  <1>1. /\ l \in Seq(Ids) /\ Len(l) <= MaxAttached /\ Len(l) \in Nat
        /\ MaxAttached \in Nat /\ MaxGpus \in Nat /\ MaxAttached <= MaxGpus
    BY IoctlAssumption, DiscoveryAssumption, LenProperties
  <1>2. ListOf(a) = l
    BY <1>1, ListOfArray
  <1>3. k \in Seq(Ids) /\ Len(k) \in Nat /\ Len(k) <= Len(l)
    BY <1>1, KeptSeq, KeptShorter
  <1>4. DOMAIN a = 1..MaxAttached
    BY DEF ArrayOf
  <1> HIDE DEF a, k
  <1>5. SubSeq(k, 1, IF Len(k) < MaxGpus THEN Len(k) ELSE MaxGpus) = k
    <2>1. (IF Len(k) < MaxGpus THEN Len(k) ELSE MaxGpus) = Len(k)
      BY <1>1, <1>3
    <2>2. SubSeq(k, 1, Len(k)) = k
      BY <1>3, SubSeqFull
    <2> QED
      BY <2>1, <2>2
  <1>6. FilterGpuIdArray(AllowedIds, a) = ArrayOf(k, MaxAttached)
    BY <1>2, <1>4, <1>5 DEF FilterGpuIdArray, ArrayOf, k
  <1>7. ListOf(ArrayOf(k, MaxAttached)) = k
    BY <1>1, <1>3, ListOfArray
  <1> QED
    BY <1>2, <1>6, <1>7 DEF Shown, a, k

(* rps_gpu_filter_active_devices *)
LEMMA ActiveExact ==
    ASSUME NEW l \in ActiveLists
    PROVE  /\ Shown("active", l) \in Seq(Ids)
           /\ Shown("active", FilterActiveDevices(AllowedIds, l)) = Kept(Shown("active", l), AllowedIds)
  <1> DEFINE D == [id : Ids, instance : Nat]
             F == [d \in D |-> d.id]
             Q == [id : AllowedIds, instance : Nat]
             k == Kept(l, Q)
  <1>1. l \in Seq(D)
    BY IoctlAssumption
  <1>2. Into(F, D, Ids) /\ \A d \in D : F[d] = d.id
    BY DEF Into
  <1>3. \A d \in D : d \in Q <=> F[d] \in AllowedIds
    BY AllowedAreIds
  <1> HIDE DEF D, F, Q
  <1>5. ASSUME NEW b \in Seq(D) PROVE Shown("active", b) = Mapped(F, b)
    <2>1. \A i \in DOMAIN b : b[i] \in D
      BY ElementOfSeq, LenProperties
    <2> QED
      BY <1>2, <2>1 DEF Shown, Mapped
  <1>6. k \in Seq(D)
    BY <1>1, KeptSeq
  <1>7. Kept(Mapped(F, l), AllowedIds) = Mapped(F, k)
    BY <1>1, <1>2, <1>3, KeptMapped
  <1>8. Mapped(F, l) \in Seq(Ids)
    BY <1>1, <1>2, MappedType, Zenon
  <1> HIDE DEF k
  <1>9. FilterActiveDevices(AllowedIds, l) = k
    BY DEF FilterActiveDevices, k, Q
  <1> QED
    BY <1>1, <1>5, <1>6, <1>7, <1>8, <1>9

(* rps_gpu_filter_card_info: that no hidden row bears the id of an allowed *)
(* GPU is where an id naming one GPU is needed.                            *)
LEMMA CardExact ==
    /\ Shown("card", Cards) \in Seq(Ids)
    /\ Shown("card", FilterCardInfo(Cards)) = Kept(Shown("card", Cards), AllowedIds)
  <1> DEFINE n == Len(Cards)
             f == FilterCardInfo(Cards)
             x == [i \in 1..n |-> IF Cards[i].valid THEN Cards[i].id ELSE InvalidId]
             y == [i \in 1..n |-> IF f[i].valid THEN f[i].id ELSE InvalidId]
             U == Ids \cup {InvalidId}
             V == AllowedIds \cup {InvalidId}
  <1>1. n \in Nat /\ DOMAIN Cards = 1..n
    BY RowType
  <1>2. /\ DOMAIN f = 1..n
        /\ \A i \in 1..n : /\ f[i].valid = (Cards[i].valid /\ ContainsMinor(Cards[i].minor))
                          /\ f[i].id = Cards[i].id
    BY <1>1, RowType DEF FilterCardInfo
  <1>3. Shown("card", Cards) = Kept(x, Ids) /\ Shown("card", f) = Kept(y, Ids)
    BY <1>1, <1>2 DEF Shown
  <1>4. \A i \in 1..n : i \in Learnable(Cards) <=> f[i].valid
    BY <1>1, <1>2 DEF Learnable
  <1>5. \A i \in 1..n : f[i].valid => y[i] = Cards[i].id /\ y[i] \in AllowedIds /\ x[i] = Cards[i].id
    <2> SUFFICES ASSUME NEW i \in 1..n, f[i].valid
                 PROVE  y[i] = Cards[i].id /\ y[i] \in AllowedIds /\ x[i] = Cards[i].id
      OBVIOUS
    <2>1. i \in Learnable(Cards)
      BY <1>4
    <2>2. Cards[i].id \in AllowedIds /\ Cards[i].valid
      BY <2>1, IdsLearnable DEF Learnable
    <2> QED
      BY <1>2, <2>2
  <1>6. \A i \in 1..n : ~f[i].valid => y[i] = InvalidId
    OBVIOUS
  <1>7. \A i \in 1..n : x[i] \in AllowedIds => f[i].valid
    <2> SUFFICES ASSUME NEW i \in 1..n, x[i] \in AllowedIds PROVE f[i].valid
      OBVIOUS
    <2>1. Cards[i].valid /\ Cards[i].id \in AllowedIds
      BY AllowedAreIds
    <2>2. PICK j \in Learnable(Cards) : Cards[j].id = Cards[i].id
      BY <2>1, IdsLearnable
    <2>3. Cards[j].minor = Cards[i].minor
      BY <1>1, <2>1, <2>2, IoctlAssumption DEF Learnable
    <2> QED
      BY <1>2, <2>1, <2>2, <2>3 DEF Learnable
  <1>8. x \in Seq(U)
    BY <1>1, RowType
  <1> HIDE DEF f
  <1>9. y \in Seq(V) /\ y \in Seq(U)
    <2>1. \A i \in 1..n : y[i] \in V
      BY <1>5, <1>6, Zenon
    <2>2. y \in [1..n -> V] /\ V \subseteq U
      BY <2>1, AllowedAreIds
    <2> HIDE DEF V, U, y
    <2> QED
      BY <1>1, <2>2
  <1>10. Len(x) = n /\ Len(y) = n
    BY <1>1
  <1>11. \A i \in 1..n : x[i] \in AllowedIds \/ y[i] \in AllowedIds => x[i] = y[i]
    BY <1>5, <1>6, <1>7, AllowedAreIds
  <1>12. V \cap Ids = V \cap AllowedIds
    BY AllowedAreIds
  <1>13. Ids \cap AllowedIds = AllowedIds
    BY AllowedAreIds
  <1>14. U \cap Ids = Ids
    OBVIOUS
  <1> HIDE DEF n, x, y, U, V
  <1>15. Kept(y, Ids) = Kept(y, AllowedIds)
    BY <1>9, <1>12, KeptSame
  <1>16. Kept(x, AllowedIds) = Kept(y, AllowedIds)
    BY <1>8, <1>9, <1>10, <1>11, KeptAlike
  <1>17. Kept(Kept(x, Ids), AllowedIds) = Kept(x, AllowedIds)
    BY <1>8, <1>13, KeptTwice
  <1>18. Kept(x, Ids) \in Seq(Ids)
    BY <1>8, <1>14, KeptType
  <1> QED
    BY <1>3, <1>15, <1>16, <1>17, <1>18 DEF f

-----------------------------------------------------------------------------
(* The invariant of the calls *)

(* What the driver answers to req. *)
Answer(req, raw) ==
    \/ req = "card" /\ raw = Cards
    \/ req \in {"attached", "other"} /\ \E l \in AttachedLists : raw = ArrayOf(l, MaxAttached)
    \/ req = "active" /\ raw \in ActiveLists

(* The calls the documentation says are filtered. *)
MustFilter(c) ==
    \/ c.began = "learned" /\ c.req # "other"
    \/ c.began = "ready" /\ c.req = "card"

(* A call on its way: its buffer is as the driver left it until it         *)
(* returns, with the allowed GPUs of that answer alone or untouched, and   *)
(* what it saw when it began still holds.                                  *)
CallGood(c, ids, ph, may) ==
    /\ Answer(c.req, c.raw)
    /\ c.began = "learned" => ids # {}
    /\ c.began = "ready" => ph = "ready"
    /\ c.step \in {"answered", "recorded", "returned"}
    /\ c.step = "recorded" => c.req = "card" /\ ph = "ready"
    /\ c.step # "returned" => c.buf = c.raw
    /\ c.step = "returned" =>
         \/ c.buf = c.raw /\ ~c.rewritten /\ ~MustFilter(c)
         \/ ph = "ready" /\ c.req # "other" /\ Shown(c.req, c.buf) = Kept(Shown(c.req, c.raw), may)

FilterInv ==
    /\ LearnInv
    /\ \A t \in Threads : call[t].step # "none" => CallGood(call[t], learned, phase, AllowedIds)

(* rps_gpu_ioctl_filter_after: what is rewritten shows the allowed GPUs    *)
(* of the driver's answer, in its order, and nothing else.                 *)
LEMMA RewriteExact ==
    ASSUME NEW raw
    PROVE  /\ Shown("card", FilterCardInfo(Cards)) = Kept(Shown("card", Cards), AllowedIds)
           /\ Answer("attached", raw) =>
                Shown("attached", FilterGpuIdArray(AllowedIds, raw)) = Kept(Shown("attached", raw), AllowedIds)
           /\ Answer("active", raw) =>
                Shown("active", FilterActiveDevices(AllowedIds, raw)) = Kept(Shown("active", raw), AllowedIds)
  <1>1. ASSUME Answer("attached", raw)
        PROVE  Shown("attached", FilterGpuIdArray(AllowedIds, raw)) = Kept(Shown("attached", raw), AllowedIds)
    <2>1. PICK l \in AttachedLists : raw = ArrayOf(l, MaxAttached)
      BY <1>1 DEF Answer
    <2> QED
      BY <2>1, AttachedExact
  <1>2. ASSUME Answer("active", raw)
        PROVE  Shown("active", FilterActiveDevices(AllowedIds, raw)) = Kept(Shown("active", raw), AllowedIds)
    BY <1>2, ActiveExact DEF Answer
  <1> QED
    BY <1>1, <1>2, CardExact

LEMMA ShownType ==
    ASSUME NEW req, NEW raw, Answer(req, raw)
    PROVE  Shown(req, raw) \in Seq(Ids)
  <1>1. CASE req = "card" /\ raw = Cards
    BY <1>1, CardExact
  <1>2. CASE req \in {"attached", "other"} /\ \E l \in AttachedLists : raw = ArrayOf(l, MaxAttached)
    BY <1>2, AttachedExact, IoctlAssumption
  <1>3. CASE req = "active" /\ raw \in ActiveLists
    BY <1>3, ActiveExact
  <1> QED
    BY <1>1, <1>2, <1>3 DEF Answer

LEMMA NextFilter == FilterInv /\ [IoctlNext]_ioctlVars => FilterInv'
  <1> SUFFICES ASSUME FilterInv, [IoctlNext]_ioctlVars PROVE FilterInv'
    OBVIOUS
  <1>1. LearnInv /\ LearnInv'
    BY NextLearn DEF FilterInv
  <1>2. /\ phase = "ready" => phase' = "ready" /\ AllowedIds' = AllowedIds
        /\ learned # {} => learned' # {}
    BY AllowedSame
       DEF IoctlNext, RealIoctl, ReturnRaw, CardInfoRecord, CardInfoFilter, RmControl,
           RecordCardInfo, ioctlVars, ioctl
  <1>3. phase # "learned" /\ (learned # {} => phase = "ready")
    BY <1>1 DEF LearnInv, DiscoveryInv
  <1>4. ASSUME NEW t \in Threads, call'[t] = call[t], call[t].step # "none"
        PROVE  CallGood(call[t], learned', phase', AllowedIds')
    BY <1>2, <1>4 DEF FilterInv, CallGood, MustFilter
  <1>5. ASSUME NEW t \in Threads, NEW c, call' = [call EXCEPT ![t] = c], c.step # "none" => CallGood(c, learned', phase', AllowedIds')
        PROVE  FilterInv'
    <2>1. \A u \in Threads : call'[u] = IF u = t THEN c ELSE call[u]
      BY <1>1, <1>5 DEF LearnInv
    <2> QED
      BY <1>1, <1>4, <1>5, <2>1 DEF FilterInv
  <1>6. CASE UNCHANGED ioctlVars
    BY <1>1, <1>4, <1>6 DEF ioctlVars, ioctl, FilterInv
  <1>7. CASE Discover /\ UNCHANGED ioctl
    BY <1>1, <1>4, <1>7 DEF ioctl, FilterInv
  <1>8. ASSUME NEW t \in Threads, NEW req, NEW raw, RealIoctl(t, req, raw), Answer(req, raw)
        PROVE  FilterInv'
    <2> DEFINE c == [step |-> "answered", req |-> req, raw |-> raw, buf |-> raw,
                     began |-> IF learned # {} THEN "learned" ELSE phase, rewritten |-> FALSE]
    <2>1. CallGood(c, learned', phase', AllowedIds')
      BY <1>2, <1>3, <1>8 DEF CallGood, MustFilter, RealIoctl
    <2>2. call' = [call EXCEPT ![t] = c]
      BY <1>8 DEF RealIoctl
    <2> HIDE DEF c
    <2> QED
      BY <1>5, <2>1, <2>2
  <1>9. ASSUME NEW t \in Threads, ReturnRaw(t) PROVE FilterInv'
    <2> DEFINE c == Advance(call[t], "returned", call[t].buf, FALSE)
    <2>1. CallGood(call[t], learned, phase, AllowedIds)
      BY <1>9 DEF ReturnRaw, FilterInv
    <2>2. ~MustFilter(call[t])
      BY <1>3, <1>9, <2>1 DEF ReturnRaw, CallGood, MustFilter
    <2>3. CallGood(c, learned', phase', AllowedIds')
      BY <1>2, <1>9, <2>1, <2>2 DEF ReturnRaw, CallGood, MustFilter, Advance
    <2>4. call' = [call EXCEPT ![t] = c]
      BY <1>9 DEF ReturnRaw
    <2> HIDE DEF c
    <2> QED
      BY <1>5, <2>3, <2>4
  <1>10. ASSUME NEW t \in Threads, CardInfoRecord(t) PROVE FilterInv'
    <2> DEFINE c == Advance(call[t], "recorded", call[t].buf, FALSE)
    <2>1. CallGood(call[t], learned, phase, AllowedIds)
      BY <1>10 DEF CardInfoRecord, FilterInv
    <2>2. CallGood(c, learned', phase', AllowedIds')
      BY <1>2, <1>10, <2>1 DEF CardInfoRecord, CallGood, MustFilter, Advance
    <2>3. call' = [call EXCEPT ![t] = c]
      BY <1>10 DEF CardInfoRecord
    <2> HIDE DEF c
    <2> QED
      BY <1>5, <2>2, <2>3
  <1>11. ASSUME NEW t \in Threads, CardInfoFilter(t) PROVE FilterInv'
    <2> DEFINE c == Advance(call[t], "returned", FilterCardInfo(call[t].buf), TRUE)
    <2>1. CallGood(call[t], learned, phase, AllowedIds)
      BY <1>11 DEF CardInfoFilter, FilterInv
    <2>2. call[t].req = "card" /\ call[t].buf = Cards /\ call[t].raw = Cards
      BY <1>11, <2>1 DEF CardInfoFilter, CallGood, Answer
    <2>3. CallGood(c, learned', phase', AllowedIds')
      BY <1>2, <1>11, <2>1, <2>2, RewriteExact DEF CardInfoFilter, CallGood, MustFilter, Advance
    <2>4. call' = [call EXCEPT ![t] = c]
      BY <1>11 DEF CardInfoFilter
    <2> HIDE DEF c
    <2> QED
      BY <1>5, <2>3, <2>4
  <1>12. ASSUME NEW t \in Threads, RmControl(t) PROVE FilterInv'
    <2> DEFINE a == Advance(call[t], "returned", FilterGpuIdArray(learned, call[t].buf), TRUE)
               b == Advance(call[t], "returned", FilterActiveDevices(learned, call[t].buf), TRUE)
    <2>1. CallGood(call[t], learned, phase, AllowedIds)
      BY <1>12 DEF RmControl, FilterInv
    <2>2. learned = AllowedIds /\ call[t].buf = call[t].raw
      BY <1>1, <1>12, <2>1 DEF RmControl, LearnInv, LearnedWhole, CallGood
    <2>3. CASE call[t].req = "attached" /\ call' = [call EXCEPT ![t] = a]
      <3>1. CallGood(a, learned', phase', AllowedIds')
        BY <1>2, <1>12, <2>1, <2>2, <2>3, RewriteExact DEF RmControl, CallGood, MustFilter, Advance
      <3> HIDE DEF a
      <3> QED
        BY <1>5, <2>3, <3>1
    <2>4. CASE call[t].req = "active" /\ call' = [call EXCEPT ![t] = b]
      <3>1. CallGood(b, learned', phase', AllowedIds')
        BY <1>2, <1>12, <2>1, <2>2, <2>4, RewriteExact DEF RmControl, CallGood, MustFilter, Advance
      <3> HIDE DEF b
      <3> QED
        BY <1>5, <2>4, <3>1
    <2> QED
      BY <1>12, <2>3, <2>4 DEF RmControl
  <1> QED
    BY <1>6, <1>7, <1>8, <1>9, <1>10, <1>11, <1>12 DEF IoctlNext, Answer

LEMMA FilterAlways == IoctlSpec => []FilterInv
  <1>1. IoctlInit => FilterInv
    BY DiscoveryStarts DEF IoctlInit, NoCall, FilterInv, LearnInv, TableUntouched, LearnedWhole
  <1> QED
    BY <1>1, NextFilter, PTL DEF IoctlSpec

(* The ids of allowed GPUs are ids of mounted ones. *)
LEMMA AllowedMounted ==
    ASSUME DiscoveryInv, phase = "ready"
    PROVE  AllowedIds \subseteq MountedIds
  <1>1. Elements(allowed) \subseteq Mounted
    BY DiscoveryExact DEF AllowedExact
  <1>2. \A b \in Mounted : Minor[b] \in Elements(dev)
    <2>1. dev \in Seq(Nat \cup {NoMinor})
      BY Directories DEF DiscoveryInv
    <2> QED
      BY <2>1, LenProperties DEF Mounted, Contains, Elements
  <1> QED
    BY <1>1, <1>2 DEF AllowedIds, MountedIds, IdsOf

(* What is kept of allowed GPUs is what is kept of all mounted ones, when  *)
(* discovery was complete.                                                 *)
LEMMA CompleteAllowed ==
    ASSUME DiscoveryInv, phase = "ready", Complete
    PROVE  DescribedIds = AllowedIds
  BY DiscoveryExact DEF AllowedExact, DescribedIds, AllowedIds

(* What is kept of allowed GPUs names no other one. *)
LEMMA KeptClean ==
    ASSUME NEW req, NEW raw, NEW buf, Answer(req, raw),
           Shown(req, buf) = Kept(Shown(req, raw), AllowedIds)
    PROVE  /\ \A id \in Ids : Names(req, buf, id) => id \in AllowedIds
           /\ Kept(Shown(req, buf), AllowedIds) = Kept(Shown(req, raw), AllowedIds)
  <1> DEFINE s == Shown(req, raw)
             b == Shown(req, buf)
  <1>1. s \in Seq(Ids) /\ b = Kept(s, AllowedIds)
    BY ShownType
  <1>2. \A id : Names(req, buf, id) <=> Has(b, id)
    BY DEF Names, Has
  <1> HIDE DEF s, b
  <1>3. \A id : Has(b, id) => id \in AllowedIds
    BY <1>1, KeptElements
  <1>4. AllowedIds \cap AllowedIds = AllowedIds
    OBVIOUS
  <1>5. Kept(b, AllowedIds) = Kept(s, AllowedIds)
    BY <1>1, <1>4, KeptTwice
  <1> QED
    BY <1>2, <1>3, <1>5 DEF s, b

(* rps_gpu_ioctl_filter_after: whatever the driver answers, wherever       *)
(* discovery was cut short and however the calls of the threads            *)
(* interleave, an answer that was rewritten names no GPU that is not       *)
(* mounted in /dev.                                                        *)
THEOREM RewrittenAnswersClean == IoctlSpec => []RewrittenClean
  <1>1. FilterInv => RewrittenClean
    BY KeptClean, AllowedMounted DEF FilterInv, LearnInv, CallGood, RewrittenClean, Returned
  <1> QED
    BY <1>1, FilterAlways, PTL

(* After a complete discovery every answer, rewritten or not, keeps the    *)
(* mounted GPUs the driver named, all of them and in the driver's order;   *)
(* after any other, those of them discovery has found.                     *)
THEOREM MountedGpusKept == IoctlSpec => []MountedKept
  <1>1. ASSUME FilterInv, NEW t \in Threads, Returned(t), NEW ids,
               ids = IF Complete THEN DescribedIds ELSE AllowedIds
        PROVE  Kept(Shown(call[t].req, call[t].buf), ids) = Kept(Shown(call[t].req, call[t].raw), ids)
    <2>1. CASE call[t].buf = call[t].raw
      BY <2>1
    <2>2. CASE call[t].buf # call[t].raw
      <3>1. /\ DiscoveryInv /\ phase = "ready" /\ Answer(call[t].req, call[t].raw)
            /\ Shown(call[t].req, call[t].buf) = Kept(Shown(call[t].req, call[t].raw), AllowedIds)
        BY <1>1, <2>2 DEF FilterInv, LearnInv, CallGood, Returned
      <3>2. ids = AllowedIds
        BY <1>1, <3>1, CompleteAllowed
      <3> QED
        BY <3>1, <3>2, KeptClean
    <2> QED
      BY <2>1, <2>2
  <1>2. FilterInv => MountedKept
    BY <1>1 DEF MountedKept
  <1> QED
    BY <1>2, FilterAlways, PTL

(* Card info is filtered in every call that begins after discovery, and    *)
(* the lists of ids in every call that begins after ids were learned: no   *)
(* interleaving of the threads lets such a call return the driver's list.  *)
THEOREM FilteringLasts == IoctlSpec => []FilteredOnceLearned
  <1>1. FilterInv => FilteredOnceLearned
    BY KeptClean, AllowedMounted
       DEF FilterInv, LearnInv, CallGood, MustFilter, FilteredOnceLearned, Returned
  <1> QED
    BY <1>1, FilterAlways, PTL
=============================================================================
