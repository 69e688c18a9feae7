----------------------------- MODULE LocksProofs -----------------------------
(***************************************************************************)
(* Theorems about Locks, for any number of threads, calls and signals, and *)
(* any calls in the signal handlers.                                       *)
(***************************************************************************)
EXTENDS Locks, SequenceTheorems, TLAPS

-----------------------------------------------------------------------------
(* What is left of a call *)

Ops ==
    {o \in [op : {"enter", "leave", "lock", "unlock", "call"},
            on : Mutexes \cup {None, "fopen", "fopen meminfo"}] :
        o.op \in {"lock", "unlock"} => o.on \in Mutexes}

Is(o, op, on) == o.op = op /\ o.on = on

(* The guard is entered first and left once. *)
GuardOnce(f) ==
    /\ \A i \in 1..Len(f) : f[i].op = "enter" => i = 1 /\ \E j \in 1..Len(f) : f[j].op = "leave"
    /\ \A i, j \in 1..Len(f) : f[i].op = "leave" /\ f[j].op = "leave" => i = j

(* A mutex is unlocked by the call that locked it, at once or after an     *)
(* fopen, which does nothing.                                              *)
Unlocks(f) ==
    \A i \in 1..Len(f) : f[i].op = "lock" =>
        /\ i < Len(f)
        /\ \/ Is(f[i + 1], "unlock", f[i].on)
           \/ Is(f[i + 1], "call", "fopen") /\ i + 1 < Len(f) /\ Is(f[i + 2], "unlock", f[i].on)

Locked(f) ==
    \A i \in 1..Len(f) : f[i].op = "unlock" =>
        i = 1 \/ Is(f[i - 1], "lock", f[i].on) \/ Is(f[i - 1], "call", "fopen")

Opens(f) ==
    \A i \in 1..Len(f) : Is(f[i], "call", "fopen") =>
        /\ i < Len(f) /\ f[i + 1].op = "unlock"
        /\ i = 1 \/ f[i - 1].op = "lock"

(* The text of meminfo is asked for inside the guard. *)
Builds(f) ==
    \A i \in 1..Len(f) : f[i].op = "call" =>
        \/ f[i].on = "fopen"
        \/ f[i].on = "fopen meminfo" /\ \E j \in 1..Len(f) : i < j /\ f[j].op = "leave"

Good(f) == f \in Seq(Ops) /\ GuardOnce(f) /\ Unlocks(f) /\ Locked(f) /\ Opens(f) /\ Builds(f)

(* The call has entered the guard, and the mutexes it holds. *)
Inside(f) == f # <<>> /\ f[1].op # "enter" /\ \E i \in 1..Len(f) : f[i].op = "leave"

Held(f) ==
    {m \in Mutexes : /\ f # <<>>
                     /\ \/ Is(f[1], "unlock", m)
                        \/ Is(f[1], "call", "fopen") /\ Is(f[2], "unlock", m)}

LEMMA NotEmpty ==
    ASSUME NEW S, NEW f \in Seq(S), f # <<>>
    PROVE  Len(f) \in Nat /\ Len(f) >= 1 /\ 1 \in 1..Len(f)
  BY EmptySeq, LenProperties

(* g is f from its element k + 1 on. *)
Suffix(g, f, k) == g \in Seq(Ops) /\ Len(g) = Len(f) - k /\ \A i \in 1..Len(g) : g[i] = f[i + k]

LEMMA SuffixIs ==
    ASSUME NEW f \in Seq(Ops), NEW k \in 1..Len(f)
    PROVE  Suffix(SubSeq(f, k + 1, Len(f)), f, k)
  BY DEF Suffix

LEMMA SuffixIndex ==
    ASSUME NEW f \in Seq(Ops), NEW k \in 1..Len(f), NEW g, Suffix(g, f, k), NEW i \in 1..Len(g)
    PROVE  \E a \in 1..Len(f) :
               /\ a = i + k /\ a # 1 /\ g[i] = f[a]
               /\ i # 1 => g[i - 1] = f[a - 1]
               /\ i < Len(g) <=> a < Len(f)
               /\ i < Len(g) => g[i + 1] = f[a + 1]
               /\ i + 1 < Len(g) <=> a + 1 < Len(f)
               /\ i + 1 < Len(g) => g[i + 2] = f[a + 2]
  <1>1. Len(f) \in Nat /\ Len(g) = Len(f) - k /\ \A n \in 1..Len(g) : g[n] = f[n + k]
    BY LenProperties DEF Suffix
  <1>2. Len(g) \in Int /\ i + k \in 1..Len(f) /\ i + k # 1 /\ (i < Len(g) <=> i + k < Len(f))
    BY <1>1
  <1>3. i # 1 => g[i - 1] = f[(i + k) - 1]
    <2>1. i # 1 => i - 1 \in 1..Len(g) /\ (i - 1) + k = (i + k) - 1
      BY <1>1
    <2> QED
      BY <1>1, <2>1
  <1>4. i < Len(g) => g[i + 1] = f[(i + k) + 1]
    <2>1. i < Len(g) => i + 1 \in 1..Len(g) /\ (i + 1) + k = (i + k) + 1
      BY <1>1
    <2> QED
      BY <1>1, <2>1
  <1>5. i + 1 < Len(g) => g[i + 2] = f[(i + k) + 2]
    <2>1. i + 1 < Len(g) => i + 2 \in 1..Len(g) /\ (i + 2) + k = (i + k) + 2
      BY <1>1
    <2> QED
      BY <1>1, <2>1
  <1>6. i + 1 < Len(g) <=> (i + k) + 1 < Len(f)
    BY <1>1
  <1> QED
    BY <1>1, <1>2, <1>3, <1>4, <1>5, <1>6

(* What is left of a call later is as good. *)
LEMMA GoodSuffix ==
    ASSUME NEW f, Good(f), NEW k \in 1..Len(f), NEW g, Suffix(g, f, k)
    PROVE  Good(g)
  <1> DEFINE Shifted(i, a) ==
                /\ a = i + k /\ a # 1 /\ g[i] = f[a]
                /\ i # 1 => g[i - 1] = f[a - 1]
                /\ i < Len(g) <=> a < Len(f)
                /\ i < Len(g) => g[i + 1] = f[a + 1]
                /\ i + 1 < Len(g) <=> a + 1 < Len(f)
                /\ i + 1 < Len(g) => g[i + 2] = f[a + 2]
  <1>1. \A i \in 1..Len(g) : \E a \in 1..Len(f) : Shifted(i, a)
    BY SuffixIndex DEF Good
  <1>2. Len(f) \in Nat /\ g \in Seq(Ops) /\ Len(g) = Len(f) - k /\ \A i \in 1..Len(g) : g[i] = f[i + k]
    BY LenProperties DEF Good, Suffix
  <1>3. GuardOnce(g)
    <2>1. ASSUME NEW i \in 1..Len(g) PROVE g[i].op # "enter"
      <3>1. PICK a \in 1..Len(f) : Shifted(i, a)
        BY <1>1
      <3> QED
        BY <3>1 DEF Good, GuardOnce
    <2>2. ASSUME NEW i \in 1..Len(g), NEW j \in 1..Len(g), g[i].op = "leave", g[j].op = "leave" PROVE i = j
      <3>1. PICK a \in 1..Len(f) : a = i + k /\ g[i] = f[a]
        BY <1>1
      <3>2. PICK b \in 1..Len(f) : b = j + k /\ g[j] = f[b]
        BY <1>1
      <3>3. a = b
        BY <2>2, <3>1, <3>2 DEF Good, GuardOnce
      <3> QED
        BY <3>1, <3>2, <3>3
    <2> QED
      BY <2>1, <2>2 DEF GuardOnce
  <1>4. Unlocks(g)
    <2> SUFFICES ASSUME NEW i \in 1..Len(g), g[i].op = "lock"
                 PROVE  /\ i < Len(g)
                        /\ \/ Is(g[i + 1], "unlock", g[i].on)
                           \/ /\ Is(g[i + 1], "call", "fopen") /\ i + 1 < Len(g)
                              /\ Is(g[i + 2], "unlock", g[i].on)
      BY DEF Unlocks
    <2>1. PICK a \in 1..Len(f) : Shifted(i, a)
      BY <1>1
    <2>2. /\ a < Len(f)
          /\ \/ Is(f[a + 1], "unlock", f[a].on)
             \/ Is(f[a + 1], "call", "fopen") /\ a + 1 < Len(f) /\ Is(f[a + 2], "unlock", f[a].on)
      BY <2>1 DEF Good, Unlocks
    <2> QED
      BY <2>1, <2>2
  <1>5. Locked(g)
    <2> SUFFICES ASSUME NEW i \in 1..Len(g), g[i].op = "unlock", i # 1
                 PROVE  Is(g[i - 1], "lock", g[i].on) \/ Is(g[i - 1], "call", "fopen")
      BY DEF Locked
    <2>1. PICK a \in 1..Len(f) : Shifted(i, a)
      BY <1>1
    <2>2. Is(f[a - 1], "lock", f[a].on) \/ Is(f[a - 1], "call", "fopen")
      BY <2>1 DEF Good, Locked
    <2> QED
      BY <2>1, <2>2
  <1>6. Opens(g)
    <2> SUFFICES ASSUME NEW i \in 1..Len(g), Is(g[i], "call", "fopen")
                 PROVE  /\ i < Len(g) /\ g[i + 1].op = "unlock"
                        /\ i = 1 \/ g[i - 1].op = "lock"
      BY DEF Opens
    <2>1. PICK a \in 1..Len(f) : Shifted(i, a)
      BY <1>1
    <2>2. a < Len(f) /\ f[a + 1].op = "unlock" /\ f[a - 1].op = "lock"
      BY <2>1 DEF Good, Opens
    <2> QED
      BY <2>1, <2>2
  <1>7. Builds(g)
    <2> SUFFICES ASSUME NEW i \in 1..Len(g), g[i].op = "call", g[i].on # "fopen"
                 PROVE  g[i].on = "fopen meminfo" /\ \E j \in 1..Len(g) : i < j /\ g[j].op = "leave"
      BY DEF Builds
    <2>1. PICK a \in 1..Len(f) : Shifted(i, a)
      BY <1>1
    <2>2. g[i].on = "fopen meminfo" /\ \E j \in 1..Len(f) : a < j /\ f[j].op = "leave"
      <3>1. g[i] = f[a] /\ f[a].op = "call" /\ f[a].on # "fopen"
        BY <2>1
      <3>2. Builds(f)
        BY DEF Good
      <3> QED
        BY <3>1, <3>2, Zenon DEF Builds
    <2>3. PICK j \in 1..Len(f) : a < j /\ f[j].op = "leave"
      BY <2>2
    <2>4. j - k \in 1..Len(g) /\ (j - k) + k = j /\ i < j - k
      BY <1>2, <2>1, <2>3
    <2>5. g[j - k].op = "leave"
      BY <1>2, <2>3, <2>4
    <2> QED
      BY <2>2, <2>4, <2>5
  <1> QED
    BY <1>2, <1>3, <1>4, <1>5, <1>6, <1>7 DEF Good

-----------------------------------------------------------------------------
(* The steps of a call: f before the step, g after it *)

Nothing(f) == Held(f) = {} /\ ~Inside(f)

LEMMA EmptyNothing == Nothing(<<>>) /\ Good(<<>>)
  <1>1. <<>> \in Seq(Ops) /\ Len(<<>>) = 0
    BY EmptySeq
  <1>2. Good(<<>>)
    BY <1>1 DEF Good, GuardOnce, Unlocks, Locked, Opens, Builds
  <1> QED
    BY <1>2 DEF Nothing, Held, Inside

LEMMA TailSuffix ==
    ASSUME NEW f, Good(f), f # <<>>
    PROVE  Suffix(Tail(f), f, 1) /\ Good(Tail(f))
  <1>1. f \in Seq(Ops) /\ 1 \in 1..Len(f)
    BY NotEmpty DEF Good
  <1>2. Tail(f) = SubSeq(f, 1 + 1, Len(f))
    BY <1>1
  <1>3. Suffix(Tail(f), f, 1)
    BY <1>1, <1>2, SuffixIs
  <1> QED
    BY <1>1, <1>3, GoodSuffix

LEMMA TailFacts ==
    ASSUME NEW f, Good(f), f # <<>>, NEW g, g = Tail(f)
    PROVE  /\ Good(g) /\ Len(f) \in Nat /\ Len(f) >= 1 /\ Len(g) = Len(f) - 1
           /\ \A i \in 1..Len(g) : g[i] = f[i + 1]
           /\ g # <<>> <=> Len(f) > 1
           /\ Len(f) > 1 => g[1] = f[2] /\ 2 \in 1..Len(f)
           /\ Len(f) > 2 => g[2] = f[3]
  <1>1. f \in Seq(Ops) /\ Len(f) \in Nat /\ Len(f) >= 1 /\ Good(g) /\ Suffix(g, f, 1)
    BY NotEmpty, TailSuffix DEF Good
  <1>2. g \in Seq(Ops) /\ Len(g) = Len(f) - 1 /\ \A i \in 1..Len(g) : g[i] = f[i + 1]
    BY <1>1 DEF Suffix
  <1>3. g # <<>> <=> Len(g) # 0
    BY <1>2, EmptySeq, LenProperties
  <1>4. Len(f) > 1 => 1 \in 1..Len(g) /\ 1 + 1 = 2 /\ 2 \in 1..Len(f)
    BY <1>1, <1>2
  <1>5. Len(f) > 2 => 2 \in 1..Len(g) /\ 2 + 1 = 3
    BY <1>1, <1>2
  <1> QED
    BY <1>1, <1>2, <1>3, <1>4, <1>5

(* No mutex is held after a step that is neither a lock nor an fopen. *)
LEMMA HeldNone ==
    ASSUME NEW f, Good(f), f # <<>>, f[1].op # "lock", ~Is(f[1], "call", "fopen")
    PROVE  Held(Tail(f)) = {}
  <1> DEFINE g == Tail(f)
  <1>1. /\ Len(f) \in Nat /\ Len(f) >= 1 /\ (g # <<>> <=> Len(f) > 1)
        /\ Len(f) > 1 => g[1] = f[2] /\ 2 \in 1..Len(f)
    BY TailFacts
  <1> HIDE DEF g
  <1>2. ASSUME Len(f) > 1 PROVE f[2].op # "unlock" /\ ~Is(f[2], "call", "fopen")
    <2>1. 2 \in 1..Len(f) /\ 2 # 1 /\ 2 - 1 = 1
      BY <1>1, <1>2
    <2>2. f[2].op # "unlock"
      BY <2>1 DEF Good, Locked, Is
    <2>3. ~Is(f[2], "call", "fopen")
      BY <2>1 DEF Good, Opens
    <2> QED
      BY <2>2, <2>3
  <1>3. Held(g) = {}
    BY <1>1, <1>2 DEF Held, Is
  <1> QED
    BY <1>3 DEF g

(* Inside is inside until the guard is left. *)
LEMMA InsideTail ==
    ASSUME NEW f, Good(f), f # <<>>
    PROVE  Inside(Tail(f)) <=> (f[1].op # "leave" /\ \E i \in 1..Len(f) : f[i].op = "leave")
  <1> DEFINE g == Tail(f)
  <1>1. /\ Len(f) \in Nat /\ Len(f) >= 1 /\ Len(g) = Len(f) - 1 /\ (g # <<>> <=> Len(f) > 1)
        /\ \A i \in 1..Len(g) : g[i] = f[i + 1]
        /\ Len(f) > 1 => g[1] = f[2] /\ 2 \in 1..Len(f)
    BY TailFacts
  <1> HIDE DEF g
  <1>2. \A i \in 1..Len(g) : i + 1 \in 1..Len(f) /\ i + 1 # 1
    BY <1>1
  <1>3. \A j \in 1..Len(f) : j # 1 => j - 1 \in 1..Len(g) /\ (j - 1) + 1 = j /\ Len(f) > 1
    BY <1>1
  <1>4. GuardOnce(f) /\ 1 \in 1..Len(f)
    BY <1>1 DEF Good
  <1>5. Inside(g) => f[1].op # "leave" /\ \E i \in 1..Len(f) : f[i].op = "leave"
    <2> SUFFICES ASSUME Inside(g) PROVE f[1].op # "leave" /\ \E i \in 1..Len(f) : f[i].op = "leave"
      OBVIOUS
    <2>1. PICK i \in 1..Len(g) : g[i].op = "leave"
      BY DEF Inside
    <2>2. i + 1 \in 1..Len(f) /\ i + 1 # 1 /\ f[i + 1].op = "leave"
      BY <1>1, <1>2, <2>1
    <2> QED
      BY <1>4, <2>2 DEF GuardOnce
  <1>6. ASSUME f[1].op # "leave", NEW j \in 1..Len(f), f[j].op = "leave" PROVE Inside(g)
    <2>1. j # 1
      BY <1>6
    <2>2. j - 1 \in 1..Len(g) /\ g[j - 1].op = "leave" /\ Len(f) > 1
      BY <1>1, <1>3, <1>6, <2>1
    <2>3. f[2].op # "enter"
      BY <1>1, <1>4, <2>2 DEF GuardOnce
    <2> QED
      BY <1>1, <2>2, <2>3 DEF Inside
  <1> QED
    BY <1>5, <1>6 DEF g

LEMMA EnterStep ==
    ASSUME NEW f, Good(f), f # <<>>, f[1].op = "enter"
    PROVE  Nothing(f) /\ Held(Tail(f)) = {} /\ Inside(Tail(f)) /\ Good(Tail(f))
  <1>1. Nothing(f)
    BY DEF Nothing, Held, Inside, Is
  <1>2. Held(Tail(f)) = {}
    BY HeldNone DEF Is
  <1>3. 1 \in 1..Len(f)
    BY NotEmpty DEF Good
  <1>4. \E i \in 1..Len(f) : f[i].op = "leave"
    BY <1>3 DEF Good, GuardOnce
  <1>5. Inside(Tail(f))
    BY <1>4, InsideTail
  <1> QED
    BY <1>1, <1>2, <1>5, TailSuffix

LEMMA LeaveStep ==
    ASSUME NEW f, Good(f), f # <<>>, f[1].op = "leave"
    PROVE  Held(f) = {} /\ Inside(f) /\ Nothing(Tail(f)) /\ Good(Tail(f))
  <1>1. 1 \in 1..Len(f)
    BY NotEmpty DEF Good
  <1>2. Held(f) = {} /\ Inside(f)
    BY <1>1 DEF Held, Inside, Is
  <1>3. Held(Tail(f)) = {}
    BY HeldNone DEF Is
  <1>4. ~Inside(Tail(f))
    BY InsideTail
  <1> QED
    BY <1>2, <1>3, <1>4, TailSuffix DEF Nothing

LEMMA LockStep ==
    ASSUME NEW f, Good(f), f # <<>>, f[1].op = "lock"
    PROVE  /\ f[1].on \in Mutexes /\ Held(f) = {} /\ Held(Tail(f)) = {f[1].on}
           /\ Inside(Tail(f)) <=> Inside(f)
           /\ Good(Tail(f)) /\ Tail(f) # <<>>
  <1> DEFINE g == Tail(f)
  <1>1. /\ Len(f) \in Nat /\ Len(f) >= 1 /\ (g # <<>> <=> Len(f) > 1)
        /\ Len(f) > 1 => g[1] = f[2]
        /\ Len(f) > 2 => g[2] = f[3]
    BY TailFacts
  <1>2. f[1] \in Ops /\ 1 \in 1..Len(f)
    BY NotEmpty DEF Good
  <1>3. f[1].on \in Mutexes
    BY <1>2 DEF Ops
  <1>4. Held(f) = {} /\ (Inside(g) <=> Inside(f))
    BY InsideTail DEF Held, Inside, Is
  <1> HIDE DEF g
  <1>5. /\ 1 < Len(f)
        /\ Is(f[2], "unlock", f[1].on) \/ (Is(f[2], "call", "fopen") /\ 2 < Len(f) /\ Is(f[3], "unlock", f[1].on))
    <2>1. 1 + 1 = 2 /\ 1 + 2 = 3
      OBVIOUS
    <2> QED
      BY <1>2, <2>1 DEF Good, Unlocks
  <1>6. g # <<>> /\ g[1] = f[2]
    BY <1>1, <1>5
  <1>7. Held(g) = {f[1].on}
    <2>1. CASE Is(f[2], "unlock", f[1].on)
      BY <1>3, <1>6, <2>1 DEF Held, Is
    <2>2. CASE Is(f[2], "call", "fopen") /\ 2 < Len(f) /\ Is(f[3], "unlock", f[1].on)
      <3>1. g[2] = f[3]
        BY <1>1, <2>2
      <3> QED
        BY <1>3, <1>6, <2>2, <3>1 DEF Held, Is
    <2> QED
      BY <1>5, <2>1, <2>2
  <1> QED
    BY <1>3, <1>4, <1>6, <1>7, TailSuffix DEF g

LEMMA UnlockStep ==
    ASSUME NEW f, Good(f), f # <<>>, f[1].op = "unlock"
    PROVE  /\ f[1].on \in Mutexes /\ Held(f) = {f[1].on} /\ Held(Tail(f)) = {}
           /\ Inside(Tail(f)) <=> Inside(f)
           /\ Good(Tail(f))
  <1>1. f[1] \in Ops
    BY NotEmpty DEF Good
  <1>2. f[1].on \in Mutexes
    BY <1>1 DEF Ops
  <1>3. Held(f) = {f[1].on}
    BY <1>2 DEF Held, Is
  <1>4. Held(Tail(f)) = {}
    BY HeldNone DEF Is
  <1>5. Inside(Tail(f)) <=> Inside(f)
    BY InsideTail DEF Inside
  <1> QED
    BY <1>2, <1>3, <1>4, <1>5, TailSuffix

(* The library's fopen: of a file of cgroupfs, or of meminfo *)
LEMMA CallStep ==
    ASSUME NEW f, Good(f), f # <<>>, f[1].op = "call"
    PROVE  /\ Held(Tail(f)) = Held(f) /\ (Inside(Tail(f)) <=> Inside(f))
           /\ Good(Tail(f)) /\ Tail(f) # <<>>
           /\ f[1].on \in {"fopen", "fopen meminfo"}
           /\ f[1].on = "fopen meminfo" => Held(f) = {} /\ Inside(f)
  <1> DEFINE g == Tail(f)
  <1>1. /\ Len(f) \in Nat /\ Len(f) >= 1 /\ (g # <<>> <=> Len(f) > 1)
        /\ Len(f) > 1 => g[1] = f[2] /\ 2 \in 1..Len(f)
    BY TailFacts
  <1>2. 1 \in 1..Len(f)
    BY <1>1
  <1>3. Inside(g) <=> Inside(f)
    BY InsideTail DEF Inside
  <1> HIDE DEF g
  <1>4. CASE f[1].on = "fopen"
    <2>1. 1 < Len(f) /\ f[2].op = "unlock"
      <3>1. 1 + 1 = 2
        OBVIOUS
      <3> QED
        BY <1>2, <1>4, <3>1 DEF Good, Opens, Is
    <2>2. g # <<>> /\ g[1] = f[2]
      BY <1>1, <2>1
    <2>3. Held(g) = Held(f)
      BY <1>4, <2>1, <2>2 DEF Held, Is
    <2> QED
      BY <1>3, <1>4, <2>2, <2>3, TailSuffix DEF g
  <1>5. CASE f[1].on # "fopen"
    <2>1. f[1].on = "fopen meminfo" /\ \E j \in 1..Len(f) : 1 < j /\ f[j].op = "leave"
      <3>1. Builds(f)
        BY DEF Good
      <3> QED
        BY <1>2, <1>5, <3>1, Zenon DEF Builds
    <2>2. Len(f) > 1 /\ Inside(f)
      <3>1. PICK j \in 1..Len(f) : 1 < j /\ f[j].op = "leave"
        BY <2>1
      <3>2. Len(f) > 1
        BY <1>1, <3>1
      <3>3. Inside(f)
        BY <3>1 DEF Inside
      <3> QED
        BY <3>2, <3>3
    <2>3. Held(f) = {} /\ Held(g) = {}
      BY <1>5, HeldNone DEF Held, Is, g
    <2> QED
      BY <1>1, <1>3, <1>5, <2>1, <2>2, <2>3, TailSuffix DEF g
  <1> QED
    BY <1>4, <1>5

(* A call that finds the guard taken goes on behind its leave. *)
LEMMA SkipStep ==
    ASSUME NEW f, Good(f), f # <<>>, f[1].op = "enter"
    PROVE  Good(AfterLeave(f)) /\ Nothing(AfterLeave(f))
  <1>1. f \in Seq(Ops) /\ Len(f) \in Nat /\ 1 \in 1..Len(f) /\ GuardOnce(f)
    BY NotEmpty DEF Good
  <1>2. PICK k \in 1..Len(f) : f[k].op = "leave"
    BY <1>1 DEF GuardOnce
  <1>3. \A j \in 1..Len(f) : f[j].op = "leave" => k = j
    BY <1>1, <1>2 DEF GuardOnce
  <1>4. SelectInSeq(f, LAMBDA o : o.op = "leave") = k
    BY <1>2, <1>3 DEF SelectInSeq, Min
  <1> DEFINE g == AfterLeave(f)
  <1>5. g = SubSeq(f, k + 1, Len(f))
    <2>1. 1 + k = k + 1
      BY <1>1
    <2>2. g = SubSeq(f, 1 + SelectInSeq(f, LAMBDA o : o.op = "leave"), Len(f))
      BY Zenon DEF AfterLeave
    <2> QED
      BY <1>4, <2>1, <2>2, Zenon
  <1>6. Suffix(g, f, k)
    BY <1>1, <1>5, SuffixIs
  <1> HIDE DEF g
  <1>7. Good(g)
    BY <1>6, GoodSuffix
  <1>8. Len(g) = Len(f) - k /\ \A i \in 1..Len(g) : g[i] = f[i + k]
    BY <1>6 DEF Suffix
  <1>9. \A i \in 1..Len(g) : i + k \in 1..Len(f) /\ i + k # k
    BY <1>1, <1>8
  <1>10. ~Inside(g)
    BY <1>3, <1>8, <1>9 DEF Inside
  <1>11. Held(g) = {}
    <2> SUFFICES ASSUME g # <<>> PROVE g[1].op # "unlock" /\ ~Is(g[1], "call", "fopen")
      BY DEF Held, Is
    <2>1. 1 \in 1..Len(g)
      BY <1>7, NotEmpty DEF Good
    <2>2. k + 1 \in 1..Len(f) /\ k + 1 # 1 /\ (k + 1) - 1 = k /\ g[1] = f[k + 1]
      <3>1. k + 1 \in 1..Len(f) /\ k + 1 # 1 /\ (k + 1) - 1 = k /\ 1 + k = k + 1
        BY <1>1, <1>8, <1>9, <2>1
      <3> QED
        BY <1>8, <2>1, <3>1
    <2>3. f[k + 1].op # "unlock"
      BY <1>2, <2>2 DEF Good, Locked, Is
    <2>4. ~Is(f[k + 1], "call", "fopen")
      BY <1>2, <2>2 DEF Good, Opens
    <2> QED
      BY <2>2, <2>3, <2>4
  <1> QED
    BY <1>7, <1>10, <1>11 DEF Nothing, g

-----------------------------------------------------------------------------
(* The paths of the calls are good.  They are put together from pieces     *)
(* outside the guard that hold no mutex at their ends.                     *)

Piece(f, i) ==
    /\ f[i].op \in {"lock", "unlock", "call"}
    /\ f[i].op = "lock" =>
           /\ i < Len(f)
           /\ \/ Is(f[i + 1], "unlock", f[i].on)
              \/ Is(f[i + 1], "call", "fopen") /\ i + 1 < Len(f) /\ Is(f[i + 2], "unlock", f[i].on)
    /\ f[i].op = "unlock" => i # 1 /\ (Is(f[i - 1], "lock", f[i].on) \/ Is(f[i - 1], "call", "fopen"))
    /\ Is(f[i], "call", "fopen") => i < Len(f) /\ f[i + 1].op = "unlock" /\ i # 1 /\ f[i - 1].op = "lock"
    /\ f[i].op = "call" => f[i].on \in {"fopen", "fopen meminfo"}

Plain(f) == f \in Seq(Ops) /\ \A i \in 1..Len(f) : Piece(f, i)

Quiet(f) == Plain(f) /\ \A i \in 1..Len(f) : ~Is(f[i], "call", "fopen meminfo")

(* b is in p, behind its first n elements. *)
Within(b, p, n) ==
    /\ n \in Nat /\ Len(b) + n <= Len(p)
    /\ \A i \in 1..Len(b) : p[i + n] = b[i]

LEMMA PieceWithin ==
    ASSUME NEW b, Plain(b), NEW p \in Seq(Ops), NEW n \in Nat, Within(b, p, n), NEW i \in 1..Len(b),
           NEW a, a = i + n
    PROVE  Piece(p, a) /\ p[a] = b[i]
  <1>1. Len(b) \in Nat /\ Len(p) \in Nat /\ n \in Nat /\ Len(b) + n <= Len(p) /\ a \in 1..Len(p)
    BY LenProperties DEF Plain, Within
  <1>2. p[a] = b[i]
    BY DEF Within
  <1>3. i < Len(b) => a < Len(p) /\ p[a + 1] = b[i + 1]
    <2>1. i < Len(b) => i + 1 \in 1..Len(b) /\ (i + 1) + n = a + 1 /\ a < Len(p)
      BY <1>1
    <2> QED
      BY <2>1 DEF Within
  <1>4. i + 1 < Len(b) => a + 1 < Len(p) /\ p[a + 2] = b[i + 2]
    <2>1. i + 1 < Len(b) => i + 2 \in 1..Len(b) /\ (i + 2) + n = a + 2 /\ a + 1 < Len(p)
      BY <1>1
    <2> QED
      BY <2>1 DEF Within
  <1>5. i # 1 => a # 1 /\ p[a - 1] = b[i - 1]
    <2>1. i # 1 => i - 1 \in 1..Len(b) /\ (i - 1) + n = a - 1 /\ a # 1
      BY <1>1
    <2> QED
      BY <2>1 DEF Within
  <1>6. Piece(b, i)
    BY DEF Plain
  <1> QED
    BY <1>2, <1>3, <1>4, <1>5, <1>6 DEF Piece

LEMMA ConcatAt ==
    ASSUME NEW a \in Seq(Ops), NEW b \in Seq(Ops), NEW p, p = a \o b
    PROVE  /\ p \in Seq(Ops) /\ Len(p) = Len(a) + Len(b) /\ Len(a) \in Nat /\ Len(b) \in Nat
           /\ \A i \in 1..Len(p) : p[i] = IF i <= Len(a) THEN a[i] ELSE b[i - Len(a)]
  BY ConcatProperties, LenProperties

LEMMA ConcatWithin ==
    ASSUME NEW a \in Seq(Ops), NEW b \in Seq(Ops), NEW p, p = a \o b
    PROVE  /\ p \in Seq(Ops) /\ Len(p) = Len(a) + Len(b) /\ Len(a) \in Nat /\ Len(b) \in Nat
           /\ Within(a, p, 0) /\ Within(b, p, Len(a))
           /\ \A k \in 1..Len(p) : k \in 1..Len(a) \/ k - Len(a) \in 1..Len(b)
  <1>1. /\ p \in Seq(Ops) /\ Len(p) = Len(a) + Len(b) /\ Len(a) \in Nat /\ Len(b) \in Nat
        /\ \A i \in 1..Len(p) : p[i] = IF i <= Len(a) THEN a[i] ELSE b[i - Len(a)]
    BY ConcatAt
  <1>2. Within(a, p, 0)
    <2>1. \A i \in 1..Len(a) : i + 0 = i /\ i \in 1..Len(p) /\ i <= Len(a)
      BY <1>1
    <2> QED
      BY <1>1, <2>1 DEF Within
  <1>3. Within(b, p, Len(a))
    <2>1. \A i \in 1..Len(b) : /\ i + Len(a) \in 1..Len(p) /\ ~(i + Len(a) <= Len(a))
                               /\ (i + Len(a)) - Len(a) = i
      BY <1>1
    <2> QED
      BY <1>1, <2>1 DEF Within
  <1> QED
    BY <1>1, <1>2, <1>3

LEMMA PlainConcat ==
    ASSUME NEW a, NEW b, Plain(a), Plain(b)
    PROVE  Plain(a \o b) /\ (Quiet(a) /\ Quiet(b) => Quiet(a \o b))
  <1>1. PICK p : p = a \o b
    OBVIOUS
  <1>2. a \in Seq(Ops) /\ b \in Seq(Ops)
    BY DEF Plain
  <1>3. /\ p \in Seq(Ops) /\ Len(a) \in Nat /\ Within(a, p, 0) /\ Within(b, p, Len(a))
        /\ \A k \in 1..Len(p) : k \in 1..Len(a) \/ k - Len(a) \in 1..Len(b)
    BY <1>1, <1>2, ConcatWithin
  <1>4. ASSUME NEW k \in 1..Len(p)
        PROVE  Piece(p, k) /\ ((\E i \in 1..Len(a) : p[k] = a[i]) \/ (\E i \in 1..Len(b) : p[k] = b[i]))
    <2>1. CASE k \in 1..Len(a)
      <3>1. k = k + 0
        OBVIOUS
      <3>2. Piece(p, k) /\ p[k] = a[k]
        BY <1>3, <2>1, <3>1, PieceWithin
      <3> QED
        BY <2>1, <3>2
    <2>2. CASE k - Len(a) \in 1..Len(b)
      <3>1. PICK i \in 1..Len(b) : k = i + Len(a)
        <4>1. k = (k - Len(a)) + Len(a)
          BY <1>3
        <4> QED
          BY <2>2, <4>1
      <3>2. Piece(p, k) /\ p[k] = b[i]
        BY <1>3, <3>1, PieceWithin
      <3> QED
        BY <3>2
    <2> QED
      BY <1>3, <2>1, <2>2
  <1>5. Plain(p)
    BY <1>3, <1>4 DEF Plain
  <1>6. Quiet(a) /\ Quiet(b) => Quiet(p)
    BY <1>4, <1>5 DEF Quiet
  <1> QED
    BY <1>1, <1>5, <1>6

(* A path that starts outside the guard and never enters it *)
LEMMA QuietGood ==
    ASSUME NEW f, Quiet(f)
    PROVE  Good(f) /\ Nothing(f)
  <1>1. f \in Seq(Ops) /\ \A i \in 1..Len(f) : Piece(f, i) /\ ~Is(f[i], "call", "fopen meminfo")
    BY DEF Quiet, Plain
  <1>2. \A i \in 1..Len(f) : f[i].op # "enter" /\ f[i].op # "leave"
    BY <1>1 DEF Piece
  <1>3. GuardOnce(f)
    BY <1>2 DEF GuardOnce
  <1>4. Unlocks(f) /\ Locked(f) /\ Opens(f)
    BY <1>1 DEF Unlocks, Locked, Opens, Piece
  <1>5. Builds(f)
    BY <1>1 DEF Builds, Piece, Is
  <1>6. f # <<>> => f[1].op # "unlock" /\ ~Is(f[1], "call", "fopen")
    BY <1>1, NotEmpty DEF Piece
  <1>7. Held(f) = {} /\ ~Inside(f)
    BY <1>2, <1>6 DEF Held, Inside, Is
  <1> QED
    BY <1>1, <1>3, <1>4, <1>5, <1>7 DEF Good, Nothing

(* A path that begins with its guarded part *)
LEMMA GuardedGood ==
    ASSUME NEW b, Plain(b), NEW q, Quiet(q), NEW p, p = Guarded(b) \o q
    PROVE  /\ Good(p) /\ Nothing(p) /\ p # <<>> /\ p[1].op = "enter"
           /\ Len(p) = Len(b) + 2 + Len(q) /\ p[Len(b) + 2].op = "leave"
  <1> DEFINE e == Do("enter", None)
             v == Do("leave", None)
  <1>1. /\ e \in Seq(Ops) /\ Len(e) = 1 /\ e[1].op = "enter"
        /\ v \in Seq(Ops) /\ Len(v) = 1 /\ v[1].op = "leave"
    BY DEF Do, Ops
  <1>2. b \in Seq(Ops) /\ q \in Seq(Ops) /\ Len(b) \in Nat /\ Len(q) \in Nat /\ Plain(q)
    BY LenProperties DEF Plain, Quiet
  <1>s. e \in Seq(Ops) /\ v \in Seq(Ops) /\ b \in Seq(Ops) /\ q \in Seq(Ops)
    BY <1>1, <1>2
  <1>3. p = (e \o b) \o v \o q
    BY DEF Guarded
  <1> HIDE DEF e, v
  <1>4. /\ p \in Seq(Ops) /\ Len(p) = Len(b) + 2 + Len(q)
        /\ \A k \in 1..Len(p) : p[k] = IF k = 1 THEN e[1] ELSE IF k <= Len(b) + 1 THEN b[k - 1]
                                   ELSE IF k = Len(b) + 2 THEN v[1] ELSE q[k - (Len(b) + 2)]
    <2>1. PICK x : x = e \o b
      OBVIOUS
    <2>2. /\ x \in Seq(Ops) /\ Len(x) = Len(b) + 1
          /\ \A k \in 1..Len(x) : x[k] = IF k = 1 THEN e[1] ELSE b[k - 1]
      <3>1. /\ x \in Seq(Ops) /\ Len(x) = 1 + Len(b)
            /\ \A k \in 1..Len(x) : x[k] = IF k <= 1 THEN e[k] ELSE b[k - 1]
        <4>1. /\ x \in Seq(Ops) /\ Len(x) = Len(e) + Len(b)
              /\ \A k \in 1..Len(x) : x[k] = IF k <= Len(e) THEN e[k] ELSE b[k - Len(e)]
          BY <1>s, <2>1, ConcatAt
        <4> QED
          BY <1>1, <4>1
      <3>2. \A k \in 1..Len(x) : k <= 1 <=> k = 1
        BY <1>2, <3>1
      <3> QED
        BY <1>2, <3>1, <3>2
    <2>3. PICK y : y = x \o v
      OBVIOUS
    <2>4. /\ y \in Seq(Ops) /\ Len(y) = Len(b) + 2
          /\ \A k \in 1..Len(y) : y[k] = IF k <= Len(b) + 1 THEN x[k] ELSE v[1]
      <3>1. /\ y \in Seq(Ops) /\ Len(y) = Len(x) + Len(v)
            /\ \A k \in 1..Len(y) : y[k] = IF k <= Len(x) THEN x[k] ELSE v[k - Len(x)]
        <4>1. x \in Seq(Ops)
          BY <2>2
        <4> QED
          BY <1>s, <2>3, <4>1, ConcatAt
      <3>2. \A k \in 1..Len(y) : ~(k <= Len(b) + 1) => k - (Len(b) + 1) = 1
        BY <1>1, <1>2, <2>2, <3>1
      <3> QED
        BY <1>1, <1>2, <2>2, <3>1, <3>2
    <2>5. p = y \o q
      BY <1>3, <2>1, <2>3
    <2>6. /\ p \in Seq(Ops) /\ Len(p) = Len(b) + 2 + Len(q)
          /\ \A k \in 1..Len(p) : p[k] = IF k <= Len(b) + 2 THEN y[k] ELSE q[k - (Len(b) + 2)]
      <3>1. /\ p \in Seq(Ops) /\ Len(p) = Len(y) + Len(q)
            /\ \A k \in 1..Len(p) : p[k] = IF k <= Len(y) THEN y[k] ELSE q[k - Len(y)]
        <4>1. y \in Seq(Ops)
          BY <2>4
        <4> QED
          BY <1>s, <2>5, <4>1, ConcatAt
      <3> QED
        BY <2>4, <3>1
    <2>7. ASSUME NEW k \in 1..Len(p)
          PROVE  p[k] = IF k = 1 THEN e[1] ELSE IF k <= Len(b) + 1 THEN b[k - 1]
                        ELSE IF k = Len(b) + 2 THEN v[1] ELSE q[k - (Len(b) + 2)]
      <3>1. k <= Len(b) + 2 => k \in 1..Len(y)
        BY <1>2, <2>4
      <3>2. k <= Len(b) + 1 => k \in 1..Len(x)
        BY <1>2, <2>2
      <3>3. CASE k <= Len(b) + 1
        <4>1. k <= Len(b) + 2
          BY <1>2, <3>3
        <4>2. p[k] = x[k]
          BY <2>4, <2>6, <3>1, <3>3, <4>1
        <4>3. p[k] = IF k = 1 THEN e[1] ELSE b[k - 1]
          BY <2>2, <3>2, <3>3, <4>2
        <4> QED
          BY <3>3, <4>3
      <3>4. CASE ~(k <= Len(b) + 1) /\ k <= Len(b) + 2
        <4>1. k = Len(b) + 2 /\ k # 1
          BY <1>2, <3>4
        <4>2. p[k] = v[1]
          BY <2>4, <2>6, <3>1, <3>4
        <4> QED
          BY <3>4, <4>1, <4>2
      <3>5. CASE ~(k <= Len(b) + 2)
        <4>1. ~(k <= Len(b) + 1) /\ k # Len(b) + 2 /\ k # 1
          BY <1>2, <3>5
        <4>2. p[k] = q[k - (Len(b) + 2)]
          BY <2>6, <3>5
        <4> QED
          BY <4>1, <4>2
      <3> QED
        BY <3>3, <3>4, <3>5
    <2> QED
      BY <2>6, <2>7
  <1>t. p \in Seq(Ops) /\ Plain(q)
    BY <1>2, <1>4
  <1>5. Within(b, p, 1)
    <2>1. \A i \in 1..Len(b) : i + 1 \in 1..Len(p) /\ i + 1 # 1 /\ i + 1 <= Len(b) + 1 /\ (i + 1) - 1 = i
      BY <1>2, <1>4
    <2>2. Len(b) + 1 <= Len(p)
      BY <1>2, <1>4
    <2> QED
      BY <1>4, <2>1, <2>2 DEF Within
  <1>6. Within(q, p, Len(b) + 2)
    <2> DEFINE n == Len(b) + 2
    <2>1. /\ n \in Nat /\ Len(q) + n <= Len(p)
          /\ \A i \in 1..Len(q) : /\ i + n \in 1..Len(p) /\ i + n # 1 /\ ~(i + n <= Len(b) + 1)
                                   /\ i + n # n /\ (i + n) - n = i
      BY <1>2, <1>4
    <2>2. \A i \in 1..Len(q) : p[i + n] = q[i]
      BY <1>4, <2>1
    <2> QED
      BY <2>1, <2>2 DEF Within
  <1>7. p[1].op = "enter" /\ 1 \in 1..Len(p) /\ Len(b) + 2 \in 1..Len(p) /\ p[Len(b) + 2].op = "leave"
    <2>1. /\ 1 \in 1..Len(p) /\ Len(b) + 2 \in 1..Len(p) /\ Len(b) + 2 # 1
          /\ ~(Len(b) + 2 <= Len(b) + 1)
      BY <1>2, <1>4
    <2> QED
      BY <1>1, <1>4, <2>1
  <1>8. ASSUME NEW k \in 1..Len(p), k # 1, k # Len(b) + 2
        PROVE  /\ Piece(p, k)
               /\ Is(p[k], "call", "fopen meminfo") => k < Len(b) + 2
    <2>1. CASE k <= Len(b) + 1
      <3>1. PICK i \in 1..Len(b) : k = i + 1
        BY <1>2, <1>8, <2>1
      <3>2. k < Len(b) + 2
        BY <1>2, <2>1
      <3> QED
        BY <1>4, <1>5, <3>1, <3>2, PieceWithin
    <2>2. CASE ~(k <= Len(b) + 1)
      <3>1. PICK i \in 1..Len(q) : k = i + (Len(b) + 2)
        <4>1. k - (Len(b) + 2) \in 1..Len(q) /\ k = (k - (Len(b) + 2)) + (Len(b) + 2)
          BY <1>2, <1>4, <1>8, <2>2
        <4> QED
          BY <4>1
      <3>2. Piece(p, k) /\ p[k] = q[i]
        <4>1. PICK n \in Nat : n = Len(b) + 2
          BY <1>2
        <4>2. Within(q, p, n) /\ k = i + n
          BY <1>6, <3>1, <4>1
        <4> QED
          <5>1. p \in Seq(Ops) /\ Plain(q) /\ n \in Nat /\ i \in 1..Len(q)
            BY <1>t
          <5> QED
            BY <4>2, <5>1, PieceWithin, ZenonT(30)
      <3> QED
        BY <3>2 DEF Quiet
    <2> QED
      BY <2>1, <2>2
  <1>9. GuardOnce(p)
    <2>1. \A k \in 1..Len(p) : k # 1 /\ k # Len(b) + 2 => p[k].op # "enter" /\ p[k].op # "leave"
      BY <1>8 DEF Piece
    <2>2. \A k \in 1..Len(p) : p[k].op = "enter" => k = 1
      BY <1>7, <2>1
    <2>3. \A k \in 1..Len(p) : p[k].op = "leave" => k = Len(b) + 2
      BY <1>7, <2>1
    <2> QED
      BY <1>7, <2>2, <2>3 DEF GuardOnce
  <1>10. Unlocks(p) /\ Locked(p) /\ Opens(p)
    <2>1. \A k \in 1..Len(p) : p[k].op \notin {"enter", "leave"} => Piece(p, k)
      BY <1>7, <1>8
    <2> QED
      <3>1. Unlocks(p)
        BY <2>1 DEF Unlocks, Piece, Is
      <3>2. Locked(p)
        BY <2>1 DEF Locked, Piece, Is
      <3>3. Opens(p)
        BY <2>1 DEF Opens, Piece, Is
      <3> QED
        BY <3>1, <3>2, <3>3
  <1>11. Builds(p)
    <2> SUFFICES ASSUME NEW k \in 1..Len(p), p[k].op = "call", p[k].on # "fopen"
                 PROVE  p[k].on = "fopen meminfo" /\ \E j \in 1..Len(p) : k < j /\ p[j].op = "leave"
      BY DEF Builds
    <2>1. k # 1 /\ k # Len(b) + 2
      BY <1>7
    <2>2. p[k].on = "fopen meminfo" /\ k < Len(b) + 2
      BY <1>8, <2>1 DEF Piece, Is
    <2> QED
      BY <1>7, <2>2
  <1>12. p # <<>> /\ Nothing(p)
    <2>1. p # <<>>
      BY <1>2, <1>4, EmptySeq
    <2> QED
      BY <1>7, <2>1 DEF Nothing, Held, Inside, Is
  <1> QED
    BY <1>4, <1>7, <1>9, <1>10, <1>11, <1>12 DEF Good

LEMMA Singleton ==
    ASSUME NEW S, NEW o \in S
    PROVE  <<o>> \in Seq(S) /\ Len(<<o>>) = 1 /\ <<o>>[1] = o
  OBVIOUS

LEMMA DoType ==
    ASSUME NEW op \in {"lock", "unlock", "call"}, NEW on,
           IF op = "call" THEN on \in {"fopen", "fopen meminfo"} ELSE on \in Mutexes
    PROVE  Do(op, on) \in Seq(Ops) /\ Len(Do(op, on)) = 1 /\ Is(Do(op, on)[1], op, on)
  <1>1. [op |-> op, on |-> on] \in Ops
    BY DEF Ops
  <1>2. PICK o \in Ops : o = [op |-> op, on |-> on]
    BY <1>1
  <1>3. <<o>> \in Seq(Ops) /\ Len(<<o>>) = 1 /\ <<o>>[1] = o
    BY Singleton
  <1>4. Do(op, on) = <<o>>
    BY <1>2 DEF Do
  <1>5. Is(o, op, on)
    BY <1>2 DEF Is
  <1> QED
    BY <1>3, <1>4, <1>5

LEMMA QuietEmpty == Quiet(<<>>)
  BY EmptySeq DEF Quiet, Plain

LEMMA UnderType ==
    ASSUME NEW m \in Mutexes, NEW body \in Seq(Ops), NEW f, f = Under(m, body)
    PROVE  /\ f \in Seq(Ops) /\ Len(f) = Len(body) + 2 /\ Len(body) \in Nat
           /\ Is(f[1], "lock", m) /\ Is(f[Len(f)], "unlock", m)
           /\ \A i \in 1..Len(body) : f[i + 1] = body[i]
  <1> DEFINE e == Do("lock", m)
             v == Do("unlock", m)
  <1>1. /\ e \in Seq(Ops) /\ Len(e) = 1 /\ Is(e[1], "lock", m)
        /\ v \in Seq(Ops) /\ Len(v) = 1 /\ Is(v[1], "unlock", m)
    BY DoType
  <1>2. PICK x : x = e \o body
    OBVIOUS
  <1>3. f = x \o v
    BY <1>2 DEF Under
  <1> HIDE DEF e, v
  <1>4. /\ x \in Seq(Ops) /\ Len(x) = Len(e) + Len(body) /\ Len(body) \in Nat
        /\ \A k \in 1..Len(x) : x[k] = IF k <= Len(e) THEN e[k] ELSE body[k - Len(e)]
    <2>1. e \in Seq(Ops) /\ body \in Seq(Ops)
      BY <1>1
    <2> QED
      BY <1>2, <2>1, ConcatAt
  <1>5. /\ f \in Seq(Ops) /\ Len(f) = Len(x) + Len(v)
        /\ \A k \in 1..Len(f) : f[k] = IF k <= Len(x) THEN x[k] ELSE v[k - Len(x)]
    <2>1. x \in Seq(Ops) /\ v \in Seq(Ops)
      BY <1>1, <1>4
    <2> QED
      BY <1>3, <2>1, ConcatAt
  <1>6. Is(f[1], "lock", m)
    <2>1. 1 \in 1..Len(f) /\ 1 <= Len(x) /\ 1 \in 1..Len(x) /\ 1 <= Len(e)
      BY <1>1, <1>4, <1>5
    <2> QED
      BY <1>1, <1>4, <1>5, <2>1
  <1>7. Is(f[Len(f)], "unlock", m)
    <2>1. Len(f) \in 1..Len(f) /\ ~(Len(f) <= Len(x)) /\ Len(f) - Len(x) = 1
      BY <1>1, <1>4, <1>5
    <2> QED
      BY <1>1, <1>5, <2>1
  <1>8. ASSUME NEW i \in 1..Len(body) PROVE f[i + 1] = body[i]
    <2>1. /\ i + 1 \in 1..Len(f) /\ i + 1 <= Len(x) /\ i + 1 \in 1..Len(x) /\ ~(i + 1 <= Len(e))
          /\ (i + 1) - Len(e) = i
      BY <1>1, <1>4, <1>5
    <2> QED
      BY <1>4, <1>5, <2>1
  <1> QED
    BY <1>1, <1>4, <1>5, <1>6, <1>7, <1>8

LEMMA QuietUnder ==
    ASSUME NEW m \in Mutexes
    PROVE  Quiet(Under(m, <<>>)) /\ Len(Under(m, <<>>)) = 2
  <1>0. PICK body \in Seq(Ops) : body = <<>>
    BY EmptySeq
  <1>1. PICK f : f = Under(m, body)
    OBVIOUS
  <1>2. Len(body) = 0
    BY <1>0, EmptySeq
  <1>3. f \in Seq(Ops) /\ Len(f) = 2 /\ Is(f[1], "lock", m) /\ Is(f[2], "unlock", m)
    <2>1. /\ f \in Seq(Ops) /\ Len(f) = Len(body) + 2 /\ Is(f[1], "lock", m)
          /\ Is(f[Len(f)], "unlock", m)
      BY <1>1, UnderType
    <2> QED
      BY <1>2, <2>1
  <1>4. \A i \in 1..Len(f) : i = 1 \/ i = 2
    BY <1>3
  <1>5. Piece(f, 1)
    <2>1. 1 < Len(f) /\ 1 + 1 = 2
      BY <1>3
    <2> QED
      BY <1>3, <2>1 DEF Piece, Is
  <1>6. Piece(f, 2)
    <2>1. 2 - 1 = 1 /\ 2 # 1
      OBVIOUS
    <2> QED
      BY <1>3, <2>1 DEF Piece, Is
  <1>7. Quiet(f)
    BY <1>3, <1>4, <1>5, <1>6 DEF Quiet, Plain, Is
  <1> QED
    BY <1>0, <1>1, <1>3, <1>7

LEMMA QuietSnapshot == Quiet(Under("memory", Do("call", "fopen")))
  <1>1. Do("call", "fopen") \in Seq(Ops) /\ Len(Do("call", "fopen")) = 1
        /\ Is(Do("call", "fopen")[1], "call", "fopen") /\ "memory" \in Mutexes
    BY DoType DEF Mutexes
  <1>2. PICK body \in Seq(Ops) : body = Do("call", "fopen")
    BY <1>1
  <1>21. PICK m \in Mutexes : m = "memory"
    BY <1>1
  <1>22. PICK f : f = Under(m, body)
    OBVIOUS
  <1>3. Len(body) = 1 /\ Is(body[1], "call", "fopen")
    BY <1>1, <1>2
  <1>4. /\ f \in Seq(Ops) /\ Len(f) = 3 /\ Is(f[1], "lock", m) /\ Is(f[3], "unlock", m)
        /\ \A i \in 1..1 : f[i + 1] = body[i]
    <2>1. /\ f \in Seq(Ops) /\ Len(f) = Len(body) + 2 /\ Is(f[1], "lock", m)
          /\ Is(f[Len(f)], "unlock", m) /\ \A i \in 1..Len(body) : f[i + 1] = body[i]
      BY <1>22, UnderType
    <2>2. Len(body) + 2 = 3
      BY <1>3
    <2> QED
      BY <1>3, <2>1, <2>2
  <1>5. Is(f[2], "call", "fopen")
    <2>1. 1 \in 1..1 /\ 1 + 1 = 2
      OBVIOUS
    <2> QED
      BY <1>3, <1>4, <2>1
  <1>6. \A i \in 1..Len(f) : i = 1 \/ i = 2 \/ i = 3
    BY <1>4
  <1>7. Piece(f, 1)
    <2>1. 1 < Len(f) /\ 1 + 1 = 2 /\ 1 + 1 < Len(f) /\ 1 + 2 = 3
      BY <1>4
    <2> QED
      BY <1>4, <1>5, <2>1 DEF Piece, Is
  <1>8. Piece(f, 2)
    <2>1. 2 - 1 = 1 /\ 2 # 1 /\ 2 < Len(f) /\ 2 + 1 = 3
      BY <1>4
    <2> QED
      BY <1>4, <1>5, <2>1 DEF Piece, Is
  <1>9. Piece(f, 3)
    <2>1. 3 - 1 = 2 /\ 3 # 1
      OBVIOUS
    <2> QED
      BY <1>4, <1>5, <2>1 DEF Piece, Is
  <1>10. Quiet(f)
    BY <1>4, <1>5, <1>6, <1>7, <1>8, <1>9 DEF Quiet, Plain, Is
  <1> QED
    BY <1>2, <1>21, <1>22, <1>10

LEMMA PlainMeminfo == Plain(Do("call", "fopen meminfo"))
  <1>1. PICK f : f = Do("call", "fopen meminfo")
    OBVIOUS
  <1>2. f \in Seq(Ops) /\ Len(f) = 1 /\ Is(f[1], "call", "fopen meminfo")
    BY <1>1, DoType
  <1>3. Piece(f, 1)
    BY <1>2 DEF Piece, Is
  <1>4. \A i \in 1..Len(f) : i = 1
    <2>1. Len(f) = 1
      BY <1>2
    <2>2. \A i \in 1..1 : i = 1
      OBVIOUS
    <2> QED
      BY <2>1, <2>2, Zenon
  <1> QED
    BY <1>1, <1>2, <1>3, <1>4 DEF Plain

LEMMA PlainBodies ==
    /\ \A s \in SnapshotPaths : Quiet(s)
    /\ \A b \in BuildPaths : Plain(b)
    /\ \A a \in AttachPaths : Plain(a)
  <1>1. \A s \in SnapshotPaths : Quiet(s)
    BY QuietSnapshot DEF SnapshotPaths
  <1>2. ASSUME NEW b \in BuildPaths PROVE Plain(b)
    <2>1. CASE b \in SnapshotPaths
      BY <1>1, <2>1 DEF Quiet
    <2>2. CASE \E s \in SnapshotPaths : b = s \o Do("call", "fopen meminfo")
      <3>1. PICK s \in SnapshotPaths : b = s \o Do("call", "fopen meminfo")
        BY <2>2
      <3>2. Plain(s)
        BY <1>1 DEF Quiet
      <3> QED
        BY <3>1, <3>2, PlainMeminfo, PlainConcat
    <2> QED
      BY <2>1, <2>2 DEF BuildPaths
  <1>3. ASSUME NEW a \in AttachPaths PROVE Plain(a)
    <2>1. CASE a \in BuildPaths
      BY <1>2, <2>1
    <2>2. CASE \E b \in BuildPaths : a = b \o Under("entries", <<>>)
      <3>1. PICK b \in BuildPaths : a = b \o Under("entries", <<>>)
        BY <2>2
      <3>2. Plain(b) /\ Plain(Under("entries", <<>>))
        BY <1>2, QuietUnder DEF Quiet, Mutexes
      <3> QED
        BY <3>1, <3>2, PlainConcat
    <2> QED
      BY <2>1, <2>2 DEF AttachPaths
  <1> QED
    BY <1>1, <1>2, <1>3

Ready(p) == Good(p) /\ Nothing(p)

LEMMA GuardedReady ==
    ASSUME NEW b, Plain(b)
    PROVE  /\ Ready(Guarded(b)) /\ Guarded(b) # <<>> /\ Guarded(b)[1].op = "enter"
           /\ Guarded(b) \in Seq(Ops) /\ Len(Guarded(b)) = Len(b) + 2 /\ Guarded(b)[Len(b) + 2].op = "leave"
  <1>1. PICK q, p : q = <<>> /\ p = Guarded(b) \o q
    OBVIOUS
  <1>2. Quiet(q) /\ Len(q) = 0
    BY <1>1, QuietEmpty, EmptySeq
  <1>3. /\ Good(p) /\ Nothing(p) /\ p # <<>> /\ p[1].op = "enter"
        /\ Len(p) = Len(b) + 2 + Len(q) /\ p[Len(b) + 2].op = "leave"
    <2>1. Quiet(q) /\ p = Guarded(b) \o q
      BY <1>1, <1>2
    <2> QED
      BY <2>1, GuardedGood, Zenon
  <1>4. Guarded(b) \in Seq(Ops) /\ Len(b) \in Nat
    <2>1. Do("enter", None) \in Seq(Ops) /\ Do("leave", None) \in Seq(Ops)
      BY DEF Do, Ops
    <2>2. b \in Seq(Ops)
      BY DEF Plain
    <2> QED
      BY <2>1, <2>2, ConcatProperties, LenProperties DEF Guarded
  <1>5. p = Guarded(b)
    BY <1>1, <1>4, ConcatEmptySeq
  <1>6. Len(p) = Len(b) + 2
    BY <1>2, <1>3, <1>4
  <1> QED
    BY <1>3, <1>4, <1>5, <1>6 DEF Ready

LEMMA PathsReady ==
    ASSUME NEW c \in {"read", "close", "dup2", "openat", "open meminfo",
                      "fopen meminfo", "fopen", "sysconf", "ioctl"},
           NEW p \in Paths(c)
    PROVE  Ready(p)
  <1>1. \A m \in Mutexes : Quiet(Under(m, <<>>))
    BY QuietUnder
  <1>2. \A a, b : Quiet(a) /\ Quiet(b) => Quiet(a \o b)
    BY PlainConcat DEF Quiet
  <1>3. \A m, n \in Mutexes : Quiet(Under(m, <<>>) \o Under(n, <<>>))
    BY <1>1, <1>2
  <1>4. \A f : Quiet(f) => Ready(f)
    BY QuietGood DEF Ready
  <1>5. {"entries", "records", "ids", "memory"} = Mutexes
    BY DEF Mutexes
  <1>6. CASE c = "read"
    <2>1. p = Guarded(Under("entries", <<>>))
      BY <1>6 DEF Paths, ReadPaths
    <2>2. Plain(Under("entries", <<>>))
      BY <1>1, <1>5 DEF Quiet
    <2> QED
      BY <2>1, <2>2, GuardedReady
  <1>7. CASE c = "close"
    <2>1. p = Under("entries", <<>>) \o Under("records", <<>>)
      BY <1>7 DEF Paths, ClosePaths
    <2> QED
      BY <1>3, <1>4, <1>5, <2>1
  <1>8. CASE c = "dup2"
    <2>1. p = <<>> \/ p = Under("entries", <<>>) \o Under("records", <<>>)
      BY <1>8 DEF Paths, Dup2Paths
    <2> QED
      BY <1>3, <1>4, <1>5, <2>1, QuietEmpty
  <1>9. CASE c = "openat"
    <2>1. p = Under("records", <<>>) \/ p = Under("records", <<>>) \o Under("records", <<>>)
      BY <1>9 DEF Paths, OpenatPaths
    <2> QED
      BY <1>1, <1>3, <1>4, <1>5, <2>1
  <1>10. CASE c = "ioctl"
    <2>1. p = Under("records", <<>>) \/ p = Under("records", <<>>) \o Under("ids", <<>>)
      BY <1>10 DEF Paths, IoctlPaths
    <2> QED
      BY <1>1, <1>3, <1>4, <1>5, <2>1
  <1>11. CASE c = "fopen"
    <2>1. p = <<>>
      BY <1>11 DEF Paths
    <2> QED
      BY <1>4, <2>1, QuietEmpty
  <1>12. CASE c = "sysconf"
    <2>1. PICK s \in SnapshotPaths \cup {<<>>} : p = Guarded(s)
      BY <1>12 DEF Paths, SysconfPaths
    <2>2. Plain(s)
      BY PlainBodies, QuietEmpty DEF Quiet
    <2> QED
      BY <2>1, <2>2, GuardedReady
  <1>13. CASE c = "fopen meminfo"
    <2>1. PICK b \in BuildPaths : p = Guarded(b)
      BY <1>13 DEF Paths, FopenMeminfoPaths
    <2>2. Plain(b)
      BY PlainBodies
    <2> QED
      BY <2>1, <2>2, GuardedReady
  <1>14. CASE c = "open meminfo"
    <2>1. PICK a \in AttachPaths : p = Guarded(a) \o Under("records", <<>>)
      BY <1>14 DEF Paths
    <2>2. Plain(a) /\ Quiet(Under("records", <<>>))
      BY <1>1, <1>5, PlainBodies
    <2> QED
      BY <2>1, <2>2, GuardedGood DEF Ready
  <1> QED
    BY <1>6, <1>7, <1>8, <1>9, <1>10, <1>11, <1>12, <1>13, <1>14

(* A read inside the guard passes the call through: nothing of it is left. *)
ReadPath == Guarded(Under("entries", <<>>))

LEMMA ReadFacts ==
    /\ ReadPath # <<>> /\ ReadPath[1].op = "enter" /\ AfterLeave(ReadPath) = <<>>
    /\ Ready(ReadPath) /\ Paths("read") = {ReadPath}
  <1>1. PICK m \in Mutexes : m = "entries"
    BY DEF Mutexes
  <1>2. PICK b : b = Under(m, <<>>)
    OBVIOUS
  <1>3. Plain(b) /\ Len(b) = 2
    BY <1>2, QuietUnder DEF Quiet
  <1>4. PICK f : f = Guarded(b)
    OBVIOUS
  <1>5. /\ Ready(f) /\ f # <<>> /\ f[1].op = "enter" /\ f \in Seq(Ops)
        /\ Len(f) = Len(b) + 2 /\ f[Len(b) + 2].op = "leave"
    BY <1>3, <1>4, GuardedReady
  <1>6. Len(f) = 4 /\ f[4].op = "leave" /\ 4 \in 1..Len(f)
    <2>1. Len(b) + 2 = 4
      BY <1>3
    <2> QED
      BY <1>5, <2>1
  <1>7. \A j \in 1..Len(f) : f[j].op = "leave" => 4 = j
    BY <1>5, <1>6 DEF Ready, Good, GuardOnce
  <1>8. SelectInSeq(f, LAMBDA o : o.op = "leave") = 4
    BY <1>6, <1>7 DEF SelectInSeq, Min
  <1>9. AfterLeave(f) = SubSeq(f, 5, 4)
    <2>1. 1 + 4 = 5
      OBVIOUS
    <2>2. AfterLeave(f) = SubSeq(f, 1 + SelectInSeq(f, LAMBDA o : o.op = "leave"), Len(f))
      BY Zenon DEF AfterLeave
    <2> QED
      BY <1>6, <1>8, <2>1, <2>2, Zenon
  <1>10. AfterLeave(f) = <<>>
    BY <1>5, <1>9, EmptySeq
  <1>11. f = ReadPath
    BY <1>1, <1>2, <1>4 DEF ReadPath
  <1>12. Paths("read") = {ReadPath}
    BY DEF Paths, ReadPaths, ReadPath
  <1> QED
    BY <1>5, <1>10, <1>11, <1>12

-----------------------------------------------------------------------------
(* The stack of a thread: calls that are over are gone from it. *)

Frames(s) == s \in Seq(Seq(Ops)) /\ \A k \in 1..Len(s) : s[k] # <<>> /\ Good(s[k])

LEMMA UnwoundIs ==
    ASSUME NEW s, Frames(s), NEW g \in Seq(Ops)
    PROVE  Unwound(Append(s, g)) = IF g = <<>> THEN s ELSE Append(s, g)
  <1>1. PICK n : n = Len(s)
    OBVIOUS
  <1>2. s \in Seq(Seq(Ops)) /\ n \in Nat /\ \A k \in 1..n : s[k] # <<>>
    BY <1>1, LenProperties DEF Frames
  <1>3. PICK a : a = Append(s, g)
    OBVIOUS
  <1>4. /\ a \in Seq(Seq(Ops)) /\ Len(a) = n + 1 /\ a[n + 1] = g
        /\ \A k \in 1..n : a[k] = s[k]
    BY <1>1, <1>2, <1>3, AppendProperties
  <1>5. Last(a) = g
    BY <1>4 DEF Last
  <1>6. CASE g # <<>>
    BY <1>3, <1>5, <1>6 DEF Unwound
  <1>7. CASE g = <<>>
    <2>1. \A i \in 1..Len(a) : a[i] # <<>> <=> i \in 1..n
      <3>1. \A i \in 1..Len(a) : i \in 1..n \/ i = n + 1
        BY <1>2, <1>4
      <3>2. ~(n + 1 \in 1..n)
        BY <1>2
      <3> QED
        BY <1>2, <1>4, <1>7, <3>1, <3>2
    <2>2. SelectLastInSeq(a, LAMBDA f : f # <<>>) = n
      <3> DEFINE I == {i \in 1..Len(a) : a[i] # <<>>}
      <3>1. I = 1..n
        BY <1>2, <1>4, <2>1
      <3>2. SelectLastInSeq(a, LAMBDA f : f # <<>>) = IF I # {} THEN Max(I) ELSE 0
        BY DEF SelectLastInSeq
      <3> HIDE DEF I
      <3>3. CASE n = 0
        BY <3>1, <3>2, <3>3
      <3>4. CASE n # 0
        <4>1. I # {} /\ n \in I /\ \A i \in I : n >= i
          <5>1. n \in Nat
            BY <1>2
          <5>2. n \in 1..n /\ \A i \in 1..n : n >= i
            BY <3>4, <5>1
          <5> QED
            BY <3>1, <5>2
        <4>2. Max(I) = n
          <5>1. \A x \in I : (\A y \in I : x >= y) => x = n
            <6>1. n \in Nat /\ I \subseteq Int
              BY <1>2, <3>1
            <6> QED
              BY <4>1, <6>1
          <5> QED
            BY <4>1, <5>1 DEF Max
        <4> QED
          BY <3>2, <4>1, <4>2
      <3> QED
        BY <3>3, <3>4
    <2>3. Unwound(a) = SubSeq(a, 1, n)
      <3>1. Unwound(a) = SubSeq(a, 1, SelectLastInSeq(a, LAMBDA f : f # <<>>))
        BY <1>5, <1>7 DEF Unwound
      <3> QED
        BY <2>2, <3>1, Zenon
    <2>4. /\ SubSeq(a, 1, n) \in Seq(Seq(Ops)) /\ Len(SubSeq(a, 1, n)) = n
          /\ \A k \in 1..n : SubSeq(a, 1, n)[k] = a[k]
      BY <1>2, <1>4
    <2>5. SubSeq(a, 1, n) = s
      BY <1>1, <1>2, <1>4, <2>4, SeqEqual
    <2> QED
      BY <1>3, <1>7, <2>3, <2>5
  <1> QED
    BY <1>6, <1>7

(* The innermost call of s is replaced by what is left of it. *)
Stepped(s2, s, g) ==
    /\ Frames(s2)
    /\ \A k \in 1..(Len(s) - 1) : k \in 1..Len(s2) /\ s2[k] = s[k]
    /\ \A k \in 1..Len(s2) : (k < Len(s) /\ k \in 1..Len(s) /\ s2[k] = s[k]) \/ (k = Len(s) /\ g # <<>> /\ s2[k] = g)
    /\ g # <<>> => Len(s2) = Len(s) /\ s2[Len(s)] = g
    /\ g = <<>> => Len(s2) = Len(s) - 1

LEMMA SteppedIs ==
    ASSUME NEW s, Frames(s), s # <<>>, NEW g, Good(g), NEW s2, s2 = Unwound(Append(Front(s), g))
    PROVE  Stepped(s2, s, g)
  <1>1. PICK n : n = Len(s)
    OBVIOUS
  <1>2. s \in Seq(Seq(Ops)) /\ n \in Nat /\ n >= 1 /\ g \in Seq(Ops)
    BY <1>1, NotEmpty DEF Frames, Good
  <1>3. PICK r : r = Front(s)
    OBVIOUS
  <1>4. r \in Seq(Seq(Ops)) /\ Len(r) = n - 1 /\ \A k \in 1..(n - 1) : r[k] = s[k]
    <2>1. r = SubSeq(s, 1, n - 1)
      BY <1>1, <1>3 DEF Front
    <2> QED
      BY <1>1, <1>2, <2>1
  <1>5. \A k \in 1..(n - 1) : k \in 1..n /\ k < n
    BY <1>2
  <1>6. Frames(r)
    BY <1>1, <1>4, <1>5 DEF Frames
  <1>7. s2 = IF g = <<>> THEN r ELSE Append(r, g)
    BY <1>2, <1>3, <1>6, UnwoundIs
  <1>8. CASE g = <<>>
    BY <1>1, <1>4, <1>5, <1>6, <1>7, <1>8 DEF Stepped
  <1>9. CASE g # <<>>
    <2>1. /\ s2 \in Seq(Seq(Ops)) /\ Len(s2) = n /\ s2[n] = g
          /\ \A k \in 1..(n - 1) : s2[k] = s[k]
      <3>1. s2 = Append(r, g)
        BY <1>7, <1>9
      <3>2. (n - 1) + 1 = n
        BY <1>2
      <3> QED
        BY <1>2, <1>4, <3>1, <3>2, AppendProperties
    <2>2. \A k \in 1..n : (k < n /\ k \in 1..(n - 1)) \/ k = n
      BY <1>2
    <2>3. Frames(s2)
      BY <1>1, <1>5, <1>9, <2>1, <2>2 DEF Frames
    <2> QED
      BY <1>1, <1>5, <1>9, <2>1, <2>2, <2>3 DEF Stepped
  <1> QED
    BY <1>8, <1>9

LEMMA PushedIs ==
    ASSUME NEW s, Frames(s), NEW p, Good(p), NEW s2, s2 = Unwound(Append(s, p))
    PROVE  /\ p = <<>> => s2 = s
           /\ p # <<>> => /\ Frames(s2) /\ Len(s2) = Len(s) + 1 /\ s2[Len(s) + 1] = p
                         /\ \A k \in 1..Len(s) : s2[k] = s[k]
  <1>1. s \in Seq(Seq(Ops)) /\ Len(s) \in Nat /\ p \in Seq(Ops)
    BY LenProperties DEF Frames, Good
  <1>2. s2 = IF p = <<>> THEN s ELSE Append(s, p)
    BY <1>1, UnwoundIs
  <1>3. ASSUME p # <<>>
        PROVE  /\ Frames(s2) /\ Len(s2) = Len(s) + 1 /\ s2[Len(s) + 1] = p
               /\ \A k \in 1..Len(s) : s2[k] = s[k]
    <2>1. /\ s2 \in Seq(Seq(Ops)) /\ Len(s2) = Len(s) + 1 /\ s2[Len(s) + 1] = p
          /\ \A k \in 1..Len(s) : s2[k] = s[k]
      BY <1>1, <1>2, <1>3, AppendProperties
    <2>2. \A k \in 1..(Len(s) + 1) : k \in 1..Len(s) \/ k = Len(s) + 1
      BY <1>1
    <2>3. Frames(s2)
      BY <1>3, <2>1, <2>2 DEF Frames
    <2> QED
      BY <2>1, <2>3
  <1> QED
    BY <1>2, <1>3

-----------------------------------------------------------------------------
(* What holds of a thread with stack s, guard depth d and mutexes H *)

(* The depth is 1 exactly when one of its calls is inside the guard. *)
GuardOf(s, d) ==
    /\ d \in {0, 1}
    /\ d = 1 <=> \E k \in 1..Len(s) : Inside(s[k])
    /\ \A k, j \in 1..Len(s) : Inside(s[k]) /\ Inside(s[j]) => k = j

(* Each mutex of the thread is the one some call of it is about to unlock. *)
OwnerOf(s, H) ==
    /\ H \subseteq Mutexes
    /\ \A m \in Mutexes : m \in H <=> \E k \in 1..Len(s) : m \in Held(s[k])
    /\ \A m \in Mutexes : \A k, j \in 1..Len(s) : m \in Held(s[k]) /\ m \in Held(s[j]) => k = j

(* Over a call that holds a mutex there are only reads the guard passes through. *)
Calm(s, d) ==
    \A k, j \in 1..Len(s) : k < j /\ Held(s[k]) # {} => s[j] = ReadPath /\ d = 1

(* A call nests another one only inside the guard. *)
Shallow(s, sig) ==
    \/ Len(s) <= 1 + sig
    \/ Len(s) <= 2 + sig /\ \E k \in 1..(Len(s) - 1) : Inside(s[k])

LEMMA TopIndex ==
    ASSUME NEW s, Frames(s), s # <<>>
    PROVE  Len(s) \in Nat /\ Len(s) \in 1..Len(s) /\ s[Len(s)] # <<>> /\ Good(s[Len(s)])
  <1>1. Len(s) \in Nat /\ Len(s) >= 1
    BY NotEmpty DEF Frames
  <1>2. Len(s) \in 1..Len(s)
    BY <1>1
  <1> QED
    BY <1>1, <1>2 DEF Frames

(* The innermost call f goes on with g. *)
LEMMA MoveGuard ==
    ASSUME NEW s, Frames(s), s # <<>>, NEW f, f = s[Len(s)], NEW g, NEW s2, Stepped(s2, s, g),
           NEW d, GuardOf(s, d), NEW d2 \in {0, 1},
           d2 = 1 <=> (d = 1 /\ ~Inside(f)) \/ Inside(g),
           Inside(g) /\ ~Inside(f) => d = 0
    PROVE  GuardOf(s2, d2)
  <1>1. Len(s) \in Nat /\ Len(s) \in 1..Len(s)
    BY TopIndex
  <1>2. \A k \in 1..Len(s) : k = Len(s) \/ (k < Len(s) /\ k \in 1..(Len(s) - 1))
    BY <1>1
  <1>3. Inside(g) => g # <<>>
    BY DEF Inside
  <1>4. /\ \A k \in 1..(Len(s) - 1) : k \in 1..Len(s2) /\ s2[k] = s[k]
        /\ \A k \in 1..Len(s2) : (k < Len(s) /\ k \in 1..Len(s) /\ s2[k] = s[k]) \/ (k = Len(s) /\ g # <<>> /\ s2[k] = g)
        /\ g # <<>> => Len(s) \in 1..Len(s2) /\ s2[Len(s)] = g
    BY <1>1 DEF Stepped
  <1>5. Len(s) < Len(s) => FALSE
    BY <1>1
  <1>6. d2 = 1 <=> \E k \in 1..Len(s2) : Inside(s2[k])
    <2>1. ASSUME NEW k \in 1..Len(s2), Inside(s2[k]) PROVE d2 = 1
      <3>1. CASE k < Len(s) /\ k \in 1..Len(s) /\ s2[k] = s[k]
        <4>1. d = 1
          BY <2>1, <3>1 DEF GuardOf
        <4>2. ~Inside(f)
          BY <1>1, <1>5, <2>1, <3>1 DEF GuardOf
        <4> QED
          BY <4>1, <4>2
      <3>2. CASE s2[k] = g
        BY <2>1, <3>2
      <3> QED
        BY <1>4, <3>1, <3>2
    <2>2. ASSUME d2 = 1 PROVE \E k \in 1..Len(s2) : Inside(s2[k])
      <3>1. CASE Inside(g)
        BY <1>3, <1>4, <3>1
      <3>2. CASE d = 1 /\ ~Inside(f)
        <4>1. PICK k \in 1..Len(s) : Inside(s[k])
          BY <3>2 DEF GuardOf
        <4>2. k \in 1..(Len(s) - 1)
          BY <1>2, <3>2, <4>1
        <4> QED
          BY <1>4, <4>1, <4>2
      <3> QED
        BY <2>2, <3>1, <3>2
    <2> QED
      BY <2>1, <2>2
  <1>7. ASSUME NEW k \in 1..Len(s2), NEW j \in 1..Len(s2), Inside(s2[k]), Inside(s2[j])
        PROVE  k = j
    <2>1. ASSUME NEW i \in 1..Len(s2), Inside(s2[i]), i < Len(s), i \in 1..Len(s), s2[i] = s[i]
          PROVE  ~Inside(g)
      <3>1. d = 1 /\ ~Inside(f)
        BY <1>1, <1>5, <2>1 DEF GuardOf
      <3> QED
        BY <3>1
    <2>2. CASE k < Len(s) /\ k \in 1..Len(s) /\ s2[k] = s[k]
      <3>1. j < Len(s) /\ j \in 1..Len(s) /\ s2[j] = s[j]
        BY <1>4, <1>7, <2>1, <2>2
      <3> QED
        BY <1>7, <2>2, <3>1 DEF GuardOf
    <2>3. CASE k = Len(s) /\ s2[k] = g
      <3>1. j = Len(s)
        BY <1>4, <1>7, <2>1, <2>3
      <3> QED
        BY <2>3, <3>1
    <2> QED
      BY <1>4, <2>2, <2>3
  <1> QED
    BY <1>6, <1>7 DEF GuardOf

(* Of the mutexes H the ones of f go and the ones of g come. *)
Handed(H2, H, f, g) ==
    \A m \in Mutexes :
        /\ m \in H2 <=> (m \in H /\ m \notin Held(f)) \/ m \in Held(g)
        /\ m \in Held(g) /\ m \notin Held(f) => m \notin H

LEMMA MoveOwner ==
    ASSUME NEW s, Frames(s), s # <<>>, NEW f, f = s[Len(s)], NEW g, NEW s2, Stepped(s2, s, g),
           NEW H, OwnerOf(s, H), NEW H2 \in SUBSET Mutexes, Handed(H2, H, f, g)
    PROVE  OwnerOf(s2, H2)
  <1>0. \A m \in Mutexes :
            /\ m \in H2 <=> (m \in H /\ m \notin Held(f)) \/ m \in Held(g)
            /\ m \in Held(g) /\ m \notin Held(f) => m \notin H
    BY DEF Handed
  <1>1. Len(s) \in Nat /\ Len(s) \in 1..Len(s)
    BY TopIndex
  <1>2. \A k \in 1..Len(s) : k = Len(s) \/ (k < Len(s) /\ k \in 1..(Len(s) - 1))
    BY <1>1
  <1>3. \A m \in Mutexes : m \in Held(g) => g # <<>>
    BY DEF Held
  <1>4. /\ \A k \in 1..(Len(s) - 1) : k \in 1..Len(s2) /\ s2[k] = s[k]
        /\ \A k \in 1..Len(s2) : (k < Len(s) /\ k \in 1..Len(s) /\ s2[k] = s[k]) \/ (k = Len(s) /\ g # <<>> /\ s2[k] = g)
        /\ g # <<>> => Len(s) \in 1..Len(s2) /\ s2[Len(s)] = g
    BY <1>1 DEF Stepped
  <1>5. Len(s) < Len(s) => FALSE
    BY <1>1
  <1>6. ASSUME NEW m \in Mutexes PROVE m \in H2 <=> \E k \in 1..Len(s2) : m \in Held(s2[k])
    <2>1. ASSUME NEW k \in 1..Len(s2), m \in Held(s2[k]) PROVE m \in H2
      <3>1. CASE k < Len(s) /\ k \in 1..Len(s) /\ s2[k] = s[k]
        <4>1. m \in H
          BY <2>1, <3>1 DEF OwnerOf
        <4>2. m \notin Held(f)
          BY <1>1, <1>5, <2>1, <3>1 DEF OwnerOf
        <4> QED
          BY <1>0, <4>1, <4>2
      <3>2. CASE s2[k] = g
        BY <1>0, <2>1, <3>2
      <3> QED
        BY <1>4, <3>1, <3>2
    <2>2. ASSUME m \in H2 PROVE \E k \in 1..Len(s2) : m \in Held(s2[k])
      <3>1. CASE m \in Held(g)
        BY <1>3, <1>4, <3>1
      <3>2. CASE m \in H /\ m \notin Held(f)
        <4>1. PICK k \in 1..Len(s) : m \in Held(s[k])
          BY <3>2 DEF OwnerOf
        <4>2. k \in 1..(Len(s) - 1)
          BY <1>2, <3>2, <4>1
        <4> QED
          BY <1>4, <4>1, <4>2
      <3> QED
        BY <1>0, <2>2, <3>1, <3>2
    <2> QED
      BY <2>1, <2>2
  <1>7. ASSUME NEW m \in Mutexes, NEW k \in 1..Len(s2), NEW j \in 1..Len(s2), m \in Held(s2[k]), m \in Held(s2[j])
        PROVE  k = j
    <2>1. ASSUME NEW i \in 1..Len(s2), m \in Held(s2[i]), i < Len(s), i \in 1..Len(s), s2[i] = s[i]
          PROVE  m \notin Held(g)
      <3>1. m \in H /\ m \notin Held(f)
        BY <1>1, <1>5, <2>1 DEF OwnerOf
      <3> QED
        BY <1>0, <3>1
    <2>2. CASE k < Len(s) /\ k \in 1..Len(s) /\ s2[k] = s[k]
      <3>1. j < Len(s) /\ j \in 1..Len(s) /\ s2[j] = s[j]
        BY <1>4, <1>7, <2>1, <2>2
      <3> QED
        BY <1>7, <2>2, <3>1 DEF OwnerOf
    <2>3. CASE k = Len(s) /\ s2[k] = g
      <3>1. j = Len(s)
        BY <1>4, <1>7, <2>1, <2>3
      <3> QED
        BY <2>3, <3>1
    <2> QED
      BY <1>4, <2>2, <2>3
  <1> QED
    BY <1>6, <1>7 DEF OwnerOf

LEMMA MoveCalm ==
    ASSUME NEW s, Frames(s), s # <<>>, NEW f, f = s[Len(s)], NEW g, NEW s2, Stepped(s2, s, g),
           NEW d, NEW d2, Calm(s, d),
           d = 1 /\ f = ReadPath => g = <<>> /\ d2 = 1
    PROVE  Calm(s2, d2)
  <1>1. Len(s) \in Nat /\ Len(s) \in 1..Len(s)
    BY TopIndex
  <1>2. \A k \in 1..Len(s2) : (k < Len(s) /\ k \in 1..Len(s) /\ s2[k] = s[k]) \/ (k = Len(s) /\ g # <<>>)
    BY DEF Stepped
  <1> SUFFICES ASSUME NEW k \in 1..Len(s2), NEW j \in 1..Len(s2), k < j, Held(s2[k]) # {}
               PROVE  s2[j] = ReadPath /\ d2 = 1
    BY DEF Calm
  <1>3. k # Len(s)
    BY <1>1, <1>2
  <1>4. k < Len(s) /\ k \in 1..Len(s) /\ s2[k] = s[k]
    BY <1>2, <1>3
  <1>5. f = ReadPath /\ d = 1
    BY <1>1, <1>4 DEF Calm
  <1>6. g = <<>> /\ d2 = 1
    BY <1>5
  <1>7. j \in 1..Len(s) /\ s2[j] = s[j]
    BY <1>2, <1>6
  <1> QED
    BY <1>4, <1>6, <1>7 DEF Calm

LEMMA MoveShallow ==
    ASSUME NEW s, Frames(s), s # <<>>, NEW g, NEW s2, Stepped(s2, s, g), NEW sig \in Nat, Shallow(s, sig)
    PROVE  Shallow(s2, sig)
  <1>1. Len(s) \in Nat
    BY TopIndex
  <1>2. \A k \in 1..(Len(s) - 1) : s2[k] = s[k]
    BY DEF Stepped
  <1>3. CASE g = <<>>
    <2>1. Len(s2) = Len(s) - 1
      BY <1>3 DEF Stepped
    <2>2. Len(s) <= 2 + sig
      BY <1>1 DEF Shallow
    <2>3. Len(s2) <= 1 + sig
      BY <1>1, <2>1, <2>2
    <2> QED
      BY <2>3 DEF Shallow
  <1>4. CASE g # <<>>
    <2>1. Len(s2) = Len(s)
      BY <1>4 DEF Stepped
    <2> QED
      BY <1>2, <2>1 DEF Shallow
  <1> QED
    BY <1>3, <1>4

(* Another call is put on top. *)
OnTop(s2, s, p) ==
    /\ Frames(s2) /\ Len(s2) = Len(s) + 1
    /\ \A k \in 1..Len(s2) : (k \in 1..Len(s) /\ s2[k] = s[k]) \/ (k = Len(s) + 1 /\ s2[k] = p)
    /\ \A k \in 1..Len(s) : k \in 1..Len(s2) /\ s2[k] = s[k]

LEMMA OnTopIs ==
    ASSUME NEW s, Frames(s), NEW p, Good(p), p # <<>>, NEW s2, s2 = Unwound(Append(s, p))
    PROVE  OnTop(s2, s, p)
  <1>1. /\ Frames(s2) /\ Len(s2) = Len(s) + 1 /\ s2[Len(s) + 1] = p
        /\ \A k \in 1..Len(s) : s2[k] = s[k]
    BY PushedIs
  <1>2. Len(s) \in Nat
    BY LenProperties DEF Frames
  <1>3. /\ \A k \in 1..(Len(s) + 1) : k \in 1..Len(s) \/ k = Len(s) + 1
        /\ \A k \in 1..Len(s) : k \in 1..(Len(s) + 1)
    BY <1>2
  <1> QED
    BY <1>1, <1>3 DEF OnTop

LEMMA PushGuard ==
    ASSUME NEW s, NEW p, Nothing(p), NEW s2, OnTop(s2, s, p), NEW d, GuardOf(s, d)
    PROVE  GuardOf(s2, d)
  <1>1. \A k \in 1..Len(s2) : Inside(s2[k]) => k \in 1..Len(s) /\ Inside(s[k])
    BY DEF OnTop, Nothing
  <1>2. \A k \in 1..Len(s) : k \in 1..Len(s2) /\ s2[k] = s[k]
    BY DEF OnTop
  <1>3. d = 1 <=> \E k \in 1..Len(s2) : Inside(s2[k])
    BY <1>1, <1>2 DEF GuardOf
  <1> QED
    BY <1>1, <1>3 DEF GuardOf

LEMMA PushOwner ==
    ASSUME NEW s, NEW p, Nothing(p), NEW s2, OnTop(s2, s, p), NEW H, OwnerOf(s, H)
    PROVE  OwnerOf(s2, H)
  <1>1. \A m \in Mutexes : \A k \in 1..Len(s2) : m \in Held(s2[k]) => k \in 1..Len(s) /\ m \in Held(s[k])
    BY DEF OnTop, Nothing
  <1>2. \A k \in 1..Len(s) : k \in 1..Len(s2) /\ s2[k] = s[k]
    BY DEF OnTop
  <1>3. ASSUME NEW m \in Mutexes PROVE m \in H <=> \E k \in 1..Len(s2) : m \in Held(s2[k])
    BY <1>1, <1>2 DEF OwnerOf
  <1>4. ASSUME NEW m \in Mutexes, NEW k \in 1..Len(s2), NEW j \in 1..Len(s2), m \in Held(s2[k]), m \in Held(s2[j])
        PROVE  k = j
    BY <1>1, <1>4 DEF OwnerOf
  <1> QED
    BY <1>3, <1>4 DEF OwnerOf

LEMMA PushCalm ==
    ASSUME NEW s, Frames(s), NEW p, Nothing(p), NEW s2, OnTop(s2, s, p), NEW H, OwnerOf(s, H),
           NEW d, Calm(s, d), H = {} \/ (p = ReadPath /\ d = 1)
    PROVE  Calm(s2, d)
  <1>1. Len(s) \in Nat /\ Len(s2) = Len(s) + 1
    BY LenProperties DEF Frames, OnTop
  <1> SUFFICES ASSUME NEW k \in 1..Len(s2), NEW j \in 1..Len(s2), k < j, Held(s2[k]) # {}
               PROVE  s2[j] = ReadPath /\ d = 1
    BY DEF Calm
  <1>2. k \in 1..Len(s) /\ s2[k] = s[k]
    <2>1. k \in 1..Len(s)
      BY <1>1
    <2> QED
      BY <2>1 DEF OnTop
  <1>3. CASE j \in 1..Len(s) /\ s2[j] = s[j]
    BY <1>2, <1>3 DEF Calm
  <1>4. CASE s2[j] = p
    <2>1. PICK m \in Mutexes : m \in Held(s[k])
      BY <1>2 DEF Held
    <2>2. H # {}
      BY <1>2, <2>1 DEF OwnerOf
    <2> QED
      BY <1>4, <2>2
  <1> QED
    BY <1>3, <1>4 DEF OnTop

LEMMA PushShallow ==
    ASSUME NEW s, Frames(s), NEW p, NEW s2, OnTop(s2, s, p), NEW sig \in Nat, Shallow(s, sig),
           NEW d, GuardOf(s, d), NEW sig2 \in Nat, sig2 >= sig,
           sig2 = sig + 1 \/ s = <<>> \/ (s # <<>> /\ Inside(s[Len(s)]))
    PROVE  Shallow(s2, sig2)
  <1>1. Len(s) \in Nat /\ Len(s2) = Len(s) + 1 /\ \A k \in 1..Len(s) : s2[k] = s[k]
    BY LenProperties DEF Frames, OnTop
  <1>2. Len(s2) - 1 = Len(s) /\ \A k \in 1..(Len(s) - 1) : k \in 1..Len(s) /\ k # Len(s)
    BY <1>1
  <1>3. CASE sig2 = sig + 1
    <2>1. CASE Len(s) <= 1 + sig
      BY <1>1, <1>3, <2>1 DEF Shallow
    <2>2. CASE Len(s) <= 2 + sig /\ \E k \in 1..(Len(s) - 1) : Inside(s[k])
      <3>1. Len(s2) <= 2 + sig2
        BY <1>1, <1>3, <2>2
      <3>2. \E k \in 1..(Len(s2) - 1) : Inside(s2[k])
        BY <1>1, <1>2, <2>2
      <3> QED
        BY <3>1, <3>2 DEF Shallow
    <2> QED
      BY <2>1, <2>2 DEF Shallow
  <1>4. CASE s = <<>>
    <2>1. Len(s2) = 1
      BY <1>1, <1>4, EmptySeq
    <2> QED
      BY <2>1 DEF Shallow
  <1>5. CASE s # <<>> /\ Inside(s[Len(s)])
    <2>1. Len(s) \in 1..Len(s)
      BY <1>5, TopIndex
    <2>2. ~\E k \in 1..(Len(s) - 1) : Inside(s[k])
      BY <1>2, <1>5, <2>1 DEF GuardOf
    <2>3. Len(s) <= 1 + sig
      BY <2>2 DEF Shallow
    <2>4. Len(s2) <= 2 + sig2
      BY <1>1, <2>3
    <2>5. \E k \in 1..(Len(s2) - 1) : Inside(s2[k])
      BY <1>1, <1>2, <1>5, <2>1
    <2> QED
      BY <2>4, <2>5 DEF Shallow
  <1> QED
    BY <1>3, <1>4, <1>5

-----------------------------------------------------------------------------
(* The inductive invariant *)

ThreadOK(s, d, H, sig) == Frames(s) /\ GuardOf(s, d) /\ OwnerOf(s, H) /\ Shallow(s, sig)

TypeOK ==
    /\ stack \in [Threads -> Seq(Seq(Ops))] /\ depth \in [Threads -> {0, 1}]
    /\ holder \in [Mutexes -> Threads \cup {None}]
    /\ alive \subseteq Threads /\ signals \in Nat

LocksInv ==
    /\ TypeOK
    /\ \A t \in alive : ThreadOK(stack[t], depth[t], Holds(t), signals)
    /\ \A t \in alive : t \notin exposed => Calm(stack[t], depth[t])

LEMMA Others ==
    ASSUME LocksInv, NEW t \in Threads, alive' = alive, signals' \in Nat, signals' >= signals,
           exposed \subseteq exposed',
           \A u \in Threads \ {t} : stack'[u] = stack[u] /\ depth'[u] = depth[u] /\ Holds(u)' = Holds(u)
    PROVE  \A u \in alive \ {t} : /\ ThreadOK(stack'[u], depth'[u], Holds(u)', signals')
                                  /\ u \notin exposed' => Calm(stack'[u], depth'[u])
  <1> SUFFICES ASSUME NEW u \in alive \ {t}
               PROVE  /\ ThreadOK(stack'[u], depth'[u], Holds(u)', signals')
                      /\ u \notin exposed' => Calm(stack'[u], depth'[u])
    OBVIOUS
  <1>1. stack'[u] = stack[u] /\ depth'[u] = depth[u] /\ Holds(u)' = Holds(u) /\ signals \in Nat
    BY DEF LocksInv, TypeOK
  <1>2. ThreadOK(stack[u], depth[u], Holds(u), signals) /\ (u \notin exposed => Calm(stack[u], depth[u]))
    BY DEF LocksInv
  <1>3. Len(stack[u]) \in Nat
    BY <1>2, LenProperties DEF ThreadOK, Frames
  <1>4. Shallow(stack[u], signals')
    <2>1. Shallow(stack[u], signals)
      BY <1>2 DEF ThreadOK
    <2>2. /\ Len(stack[u]) <= 1 + signals => Len(stack[u]) <= 1 + signals'
          /\ Len(stack[u]) <= 2 + signals => Len(stack[u]) <= 2 + signals'
      BY <1>1, <1>3
    <2> QED
      BY <2>1, <2>2 DEF Shallow
  <1>5. ThreadOK(stack[u], depth[u], Holds(u), signals')
    BY <1>2, <1>4 DEF ThreadOK
  <1> QED
    BY <1>1, <1>2, <1>5

(* The invariant after a step that changes only what belongs to t *)
LEMMA OneThread ==
    ASSUME LocksInv, NEW t \in Threads, NEW s2, NEW d2,
           stack' = [stack EXCEPT ![t] = s2], depth' = [depth EXCEPT ![t] = d2],
           holder' \in [Mutexes -> Threads \cup {None}],
           alive' = alive, signals' \in Nat, signals' >= signals, exposed \subseteq exposed',
           \A u \in Threads \ {t} : Holds(u)' = Holds(u),
           ThreadOK(s2, d2, Holds(t)', signals'), t \notin exposed' => Calm(s2, d2)
    PROVE  LocksInv'
  <1>1. stack \in [Threads -> Seq(Seq(Ops))] /\ depth \in [Threads -> {0, 1}] /\ alive \subseteq Threads
    BY DEF LocksInv, TypeOK
  <1>2. s2 \in Seq(Seq(Ops)) /\ d2 \in {0, 1}
    BY DEF ThreadOK, Frames, GuardOf
  <1>3. stack'[t] = s2 /\ depth'[t] = d2
    BY <1>1
  <1>4. \A u \in Threads \ {t} : stack'[u] = stack[u] /\ depth'[u] = depth[u] /\ Holds(u)' = Holds(u)
    BY <1>1
  <1>5. stack' \in [Threads -> Seq(Seq(Ops))] /\ depth' \in [Threads -> {0, 1}]
    BY <1>1, <1>2
  <1>6. TypeOK'
    BY <1>1, <1>5 DEF TypeOK
  <1>7. \A u \in alive \ {t} : /\ ThreadOK(stack'[u], depth'[u], Holds(u)', signals')
                               /\ u \notin exposed' => Calm(stack'[u], depth'[u])
    BY <1>4, Others
  <1>8. /\ ThreadOK(stack'[t], depth'[t], Holds(t)', signals')
        /\ t \notin exposed' => Calm(stack'[t], depth'[t])
    BY <1>3
  <1>9. ASSUME NEW u \in alive'
        PROVE  /\ ThreadOK(stack'[u], depth'[u], Holds(u)', signals')
               /\ u \notin exposed' => Calm(stack'[u], depth'[u])
    <2>1. CASE u = t
      BY <1>8, <2>1
    <2>2. CASE u # t
      BY <1>7, <2>2
    <2> QED
      BY <2>1, <2>2
  <1> QED
    BY <1>6, <1>9 DEF LocksInv

(* The innermost call f of t goes on with g. *)
LEMMA Move ==
    ASSUME LocksInv, NEW t \in Threads, t \in alive, stack[t] # <<>>, NEW f, f = Last(stack[t]),
           NEW g, Good(g), Continue(t, g), NEW d2 \in {0, 1}, depth' = [depth EXCEPT ![t] = d2],
           holder' \in [Mutexes -> Threads \cup {None}],
           alive' = alive, signals' = signals, exposed' = exposed,
           \A u \in Threads \ {t} : Holds(u)' = Holds(u),
           d2 = 1 <=> (depth[t] = 1 /\ ~Inside(f)) \/ Inside(g),
           Inside(g) /\ ~Inside(f) => depth[t] = 0,
           NEW H, H = Holds(t), NEW H2, H2 = Holds(t)', Handed(H2, H, f, g),
           depth[t] = 1 /\ f = ReadPath => g = <<>> /\ d2 = 1
    PROVE  LocksInv'
  <1>1. PICK s : s = stack[t]
    OBVIOUS
  <1>2. PICK d : d = depth[t]
    OBVIOUS
  <1>3. /\ Frames(s) /\ GuardOf(s, d) /\ OwnerOf(s, Holds(t)) /\ Shallow(s, signals)
        /\ t \notin exposed => Calm(s, d)
        /\ signals \in Nat /\ stack \in [Threads -> Seq(Seq(Ops))]
    BY <1>1, <1>2 DEF LocksInv, ThreadOK, TypeOK
  <1>4. PICK s2 : s2 = Unwound(Append(Front(s), g))
    OBVIOUS
  <1>5. stack' = [stack EXCEPT ![t] = s2]
    BY <1>1, <1>3, <1>4 DEF Continue
  <1>6. Stepped(s2, s, g)
    BY <1>1, <1>3, <1>4, SteppedIs
  <1>7. f = s[Len(s)] /\ s # <<>>
    BY <1>1 DEF Last
  <1>8. Frames(s2)
    BY <1>6 DEF Stepped
  <1>9. GuardOf(s2, d2)
    <2>1. (d2 = 1 <=> (d = 1 /\ ~Inside(f)) \/ Inside(g)) /\ (Inside(g) /\ ~Inside(f) => d = 0)
      BY <1>2
    <2> QED
      BY <1>3, <1>6, <1>7, <2>1, MoveGuard
  <1>10. OwnerOf(s2, Holds(t)')
    <2>1. H2 \in SUBSET Mutexes
      BY DEF Holds
    <2>2. OwnerOf(s, H)
      BY <1>3
    <2>3. Frames(s)
      BY <1>3
    <2>4. OwnerOf(s2, H2)
      BY <1>6, <1>7, <2>1, <2>2, <2>3, MoveOwner
    <2> QED
      BY <2>4
  <1>11. t \notin exposed => Calm(s2, d2)
    <2>1. d = 1 /\ f = ReadPath => g = <<>> /\ d2 = 1
      BY <1>2
    <2> QED
      BY <1>3, <1>6, <1>7, <2>1, MoveCalm
  <1>12. Shallow(s2, signals)
    BY <1>3, <1>6, <1>7, MoveShallow
  <1>13. ThreadOK(s2, d2, Holds(t)', signals')
    BY <1>8, <1>9, <1>10, <1>12 DEF ThreadOK
  <1>14. signals' \in Nat /\ signals' >= signals
    BY <1>3
  <1> QED
    BY <1>5, <1>11, <1>13, <1>14, OneThread

(* Another call is put on the stack of t. *)
LEMMA Push ==
    ASSUME LocksInv, NEW t \in Threads, t \in alive, NEW s, Frames(s), GuardOf(s, depth[t]),
           OwnerOf(s, Holds(t)), Shallow(s, signals), t \notin exposed => Calm(s, depth[t]),
           NEW p, Ready(p), stack' = [stack EXCEPT ![t] = Unwound(Append(s, p))],
           depth' = depth, holder' = holder, alive' = alive, signals' \in Nat, signals' >= signals,
           exposed \subseteq exposed',
           p # <<>> => signals' = signals + 1 \/ s = <<>> \/ (s # <<>> /\ Inside(s[Len(s)])),
           p # <<>> /\ t \notin exposed' => Holds(t) = {} \/ (p = ReadPath /\ depth[t] = 1)
    PROVE  LocksInv'
  <1>1. PICK s2 : s2 = Unwound(Append(s, p))
    OBVIOUS
  <1>2. PICK d : d = depth[t]
    OBVIOUS
  <1>3. PICK H : H = Holds(t)
    OBVIOUS
  <1>4. /\ Good(p) /\ Nothing(p) /\ signals \in Nat /\ depth \in [Threads -> {0, 1}]
        /\ holder \in [Mutexes -> Threads \cup {None}]
    BY DEF Ready, LocksInv, TypeOK
  <1>5. GuardOf(s, d) /\ OwnerOf(s, H) /\ (t \notin exposed => Calm(s, d))
    BY <1>2, <1>3
  <1>6. ASSUME p = <<>>
        PROVE  Frames(s2) /\ GuardOf(s2, d) /\ OwnerOf(s2, H) /\ Shallow(s2, signals') /\ (t \notin exposed' => Calm(s2, d))
    <2>1. s2 = s
      BY <1>1, <1>4, <1>6, PushedIs
    <2>2. Len(s) \in Nat
      BY LenProperties DEF Frames
    <2>3. /\ Len(s) <= 1 + signals => Len(s) <= 1 + signals'
          /\ Len(s) <= 2 + signals => Len(s) <= 2 + signals'
      BY <1>4, <2>2
    <2>4. Shallow(s, signals')
      BY <2>3 DEF Shallow
    <2> QED
      BY <1>5, <2>1, <2>4
  <1>7. ASSUME p # <<>>
        PROVE  Frames(s2) /\ GuardOf(s2, d) /\ OwnerOf(s2, H) /\ Shallow(s2, signals') /\ (t \notin exposed' => Calm(s2, d))
    <2>1. OnTop(s2, s, p)
      BY <1>1, <1>4, <1>7, OnTopIs
    <2>2. Frames(s2)
      BY <2>1 DEF OnTop
    <2>3. GuardOf(s2, d)
      BY <1>4, <1>5, <2>1, PushGuard
    <2>4. OwnerOf(s2, H)
      BY <1>4, <1>5, <2>1, PushOwner
    <2>5. Shallow(s2, signals')
      <3>1. signals' = signals + 1 \/ s = <<>> \/ (s # <<>> /\ Inside(s[Len(s)]))
        BY <1>7
      <3>2. PICK a \in Nat, b \in Nat : a = signals /\ b = signals'
        BY <1>4
      <3>3. Shallow(s, a) /\ b >= a /\ (b = a + 1 \/ s = <<>> \/ (s # <<>> /\ Inside(s[Len(s)])))
        BY <3>1, <3>2
      <3>4. Shallow(s2, b)
        BY <1>5, <2>1, <3>3, PushShallow
      <3> QED
        BY <3>2, <3>4
    <2>6. ASSUME t \notin exposed' PROVE Calm(s2, d)
      <3>1. Calm(s, d)
        BY <1>5, <2>6
      <3>2. H = {} \/ (p = ReadPath /\ d = 1)
        BY <1>2, <1>3, <1>7, <2>6
      <3> QED
        BY <1>4, <1>5, <2>1, <3>1, <3>2, PushCalm
    <2> QED
      BY <2>2, <2>3, <2>4, <2>5, <2>6
  <1>8. Frames(s2) /\ GuardOf(s2, d) /\ OwnerOf(s2, H) /\ Shallow(s2, signals') /\ (t \notin exposed' => Calm(s2, d))
    BY <1>6, <1>7
  <1>9. \A u \in Threads : Holds(u)' = Holds(u)
    BY DEF Holds
  <1>10. ThreadOK(s2, d, Holds(t)', signals')
    <2>1. Holds(t)' = H
      BY <1>3, <1>9
    <2> QED
      BY <1>8, <2>1 DEF ThreadOK
  <1>11. stack' = [stack EXCEPT ![t] = s2] /\ depth' = [depth EXCEPT ![t] = d]
    BY <1>1, <1>2, <1>4
  <1>12. holder' \in [Mutexes -> Threads \cup {None}] /\ (t \notin exposed' => Calm(s2, d))
    BY <1>4, <1>8
  <1> QED
    BY <1>9, <1>10, <1>11, <1>12, OneThread

-----------------------------------------------------------------------------
(* The actions *)

(* The innermost call of a thread that is in one *)
LEMMA TopOf ==
    ASSUME LocksInv, NEW t \in Threads, NEW op, At(t, op), NEW f, f = Last(stack[t])
    PROVE  /\ t \in alive /\ stack[t] # <<>> /\ f # <<>> /\ Good(f) /\ f[1].op = op
           /\ Top(t) = f[1] /\ Rest(t) = Tail(f)
           /\ Inside(f) => depth[t] = 1
           /\ \A m \in Mutexes : m \in Held(f) => holder[m] = t
           /\ depth[t] \in {0, 1} /\ alive \subseteq Threads
           /\ stack \in [Threads -> Seq(Seq(Ops))] /\ depth \in [Threads -> {0, 1}]
           /\ holder \in [Mutexes -> Threads \cup {None}]
  <1>1. t \in alive /\ stack[t] # <<>>
    BY DEF At, Idle
  <1>2. /\ Frames(stack[t]) /\ GuardOf(stack[t], depth[t]) /\ OwnerOf(stack[t], Holds(t))
        /\ stack \in [Threads -> Seq(Seq(Ops))] /\ depth \in [Threads -> {0, 1}]
        /\ holder \in [Mutexes -> Threads \cup {None}] /\ alive \subseteq Threads
    BY <1>1 DEF LocksInv, ThreadOK, TypeOK
  <1>3. PICK s : s = stack[t]
    OBVIOUS
  <1>4. Len(s) \in 1..Len(s) /\ s[Len(s)] # <<>> /\ Good(s[Len(s)]) /\ f = s[Len(s)]
    BY <1>1, <1>2, <1>3, TopIndex DEF Last
  <1>5. Top(t) = f[1] /\ Rest(t) = Tail(f)
    BY <1>4 DEF Top, Rest, Good
  <1>6. f[1].op = op
    BY <1>5 DEF At
  <1>7. Inside(f) => depth[t] = 1
    BY <1>2, <1>3, <1>4 DEF GuardOf
  <1>8. \A m \in Mutexes : m \in Held(f) => m \in Holds(t)
    BY <1>2, <1>3, <1>4 DEF OwnerOf
  <1>9. \A m \in Mutexes : m \in Held(f) => holder[m] = t
    BY <1>8 DEF Holds
  <1> QED
    BY <1>1, <1>2, <1>4, <1>5, <1>6, <1>7, <1>9

(* Steps that leave the mutexes alone *)
LEMMA SameHolder ==
    ASSUME holder' = holder, NEW t
    PROVE  /\ Holds(t)' = Holds(t) /\ \A u \in Threads : Holds(u)' = Holds(u)
           /\ \A f, g : Held(f) = {} /\ Held(g) = {} => Handed(Holds(t)', Holds(t), f, g)
  BY DEF Holds, Handed

LEMMA EnterKeeps ==
    ASSUME LocksInv, NEW t \in Threads, Enter(t)
    PROVE  LocksInv'
  <1>1. PICK f : f = Last(stack[t])
    OBVIOUS
  <1>2. /\ t \in alive /\ stack[t] # <<>> /\ f # <<>> /\ Good(f) /\ f[1].op = "enter"
        /\ Rest(t) = Tail(f) /\ depth[t] \in {0, 1}
        /\ depth \in [Threads -> {0, 1}] /\ holder \in [Mutexes -> Threads \cup {None}]
    BY <1>1, TopOf DEF Enter
  <1>3. Nothing(f) /\ Held(Tail(f)) = {} /\ Inside(Tail(f)) /\ Good(Tail(f))
    BY <1>2, EnterStep
  <1>4. Good(AfterLeave(f)) /\ Nothing(AfterLeave(f))
    BY <1>2, SkipStep
  <1>5. holder' = holder /\ alive' = alive /\ signals' = signals /\ exposed' = exposed
    BY DEF Enter
  <1>6. PICK H, H2 : H = Holds(t) /\ H2 = Holds(t)'
    OBVIOUS
  <1>7. /\ \A u \in Threads \ {t} : Holds(u)' = Holds(u)
        /\ holder' \in [Mutexes -> Threads \cup {None}]
    BY <1>2, <1>5, SameHolder
  <1>8. CASE depth[t] = 0
    <2>1. PICK g : g = Tail(f)
      OBVIOUS
    <2>2. Continue(t, g) /\ depth' = [depth EXCEPT ![t] = 1]
      BY <1>2, <1>8, <2>1 DEF Enter
    <2>3. Good(g) /\ Inside(g) /\ Held(g) = {} /\ Held(f) = {} /\ ~Inside(f)
      BY <1>3, <2>1 DEF Nothing
    <2>4. Handed(H2, H, f, g)
      BY <1>5, <1>6, <2>3, SameHolder
    <2>5. PICK d2 \in {0, 1} : d2 = 1
      OBVIOUS
    <2> QED
      <3>1. (d2 = 1 <=> (depth[t] = 1 /\ ~Inside(f)) \/ Inside(g)) /\ (Inside(g) /\ ~Inside(f) => depth[t] = 0)
        BY <1>8, <2>3, <2>5
      <3>2. depth' = [depth EXCEPT ![t] = d2] /\ Continue(t, g) /\ Good(g)
        BY <2>2, <2>3, <2>5
      <3>3. depth[t] = 1 /\ f = ReadPath => g = <<>> /\ d2 = 1
        BY <1>8
      <3> QED
        BY <1>1, <1>2, <1>5, <1>6, <1>7, <2>4, <3>1, <3>2, <3>3, Move
  <1>9. CASE depth[t] = 1
    <2>1. PICK g : g = AfterLeave(f)
      OBVIOUS
    <2>2. Continue(t, g) /\ depth' = [depth EXCEPT ![t] = depth[t]]
      BY <1>1, <1>2, <1>9, <2>1 DEF Enter
    <2>3. Good(g) /\ ~Inside(g) /\ Held(g) = {} /\ Held(f) = {} /\ ~Inside(f)
      BY <1>3, <1>4, <2>1 DEF Nothing
    <2>4. Handed(H2, H, f, g)
      BY <1>5, <1>6, <2>3, SameHolder
    <2>5. f = ReadPath => g = <<>>
      BY <2>1, ReadFacts
    <2>6. PICK d2 \in {0, 1} : d2 = depth[t]
      BY <1>2
    <2> QED
      BY <1>1, <1>2, <1>5, <1>6, <1>7, <1>9, <2>2, <2>3, <2>4, <2>5, <2>6, Move
  <1> QED
    BY <1>2, <1>8, <1>9

LEMMA LeaveKeeps ==
    ASSUME LocksInv, NEW t \in Threads, Leave(t)
    PROVE  LocksInv'
  <1>1. PICK f : f = Last(stack[t])
    OBVIOUS
  <1>2. /\ t \in alive /\ stack[t] # <<>> /\ f # <<>> /\ Good(f) /\ f[1].op = "leave"
        /\ Rest(t) = Tail(f) /\ (Inside(f) => depth[t] = 1)
        /\ depth \in [Threads -> {0, 1}] /\ holder \in [Mutexes -> Threads \cup {None}]
    BY <1>1, TopOf DEF Leave
  <1>3. Held(f) = {} /\ Inside(f) /\ Nothing(Tail(f)) /\ Good(Tail(f))
    BY <1>2, LeaveStep
  <1>4. holder' = holder /\ alive' = alive /\ signals' = signals /\ exposed' = exposed
    BY DEF Leave
  <1>5. PICK H, H2 : H = Holds(t) /\ H2 = Holds(t)'
    OBVIOUS
  <1>6. /\ \A u \in Threads \ {t} : Holds(u)' = Holds(u)
        /\ holder' \in [Mutexes -> Threads \cup {None}]
    BY <1>2, <1>4, SameHolder
  <1>7. PICK g : g = Tail(f)
    OBVIOUS
  <1>8. depth[t] = 1 /\ depth' = [depth EXCEPT ![t] = 0] /\ Continue(t, g)
    BY <1>2, <1>3, <1>7 DEF Leave
  <1>9. Good(g) /\ ~Inside(g) /\ Held(g) = {} /\ Held(f) = {} /\ Inside(f)
    BY <1>3, <1>7 DEF Nothing
  <1>10. Handed(H2, H, f, g)
    BY <1>4, <1>5, <1>9, SameHolder
  <1>11. f # ReadPath
    BY <1>2, ReadFacts
  <1>12. PICK d2 \in {0, 1} : d2 = 0
    OBVIOUS
  <1> QED
    <2>1. (d2 = 1 <=> (depth[t] = 1 /\ ~Inside(f)) \/ Inside(g)) /\ (Inside(g) /\ ~Inside(f) => depth[t] = 0)
      BY <1>9, <1>12
    <2>2. depth' = [depth EXCEPT ![t] = d2] /\ Continue(t, g) /\ Good(g)
      BY <1>8, <1>9, <1>12
    <2> QED
      BY <1>1, <1>2, <1>4, <1>5, <1>6, <1>10, <1>11, <2>1, <2>2, Move

LEMMA LockKeeps ==
    ASSUME LocksInv, NEW t \in Threads, Lock(t)
    PROVE  LocksInv'
  <1>1. PICK f : f = Last(stack[t])
    OBVIOUS
  <1>2. /\ t \in alive /\ stack[t] # <<>> /\ f # <<>> /\ Good(f) /\ f[1].op = "lock"
        /\ Rest(t) = Tail(f) /\ Top(t) = f[1] /\ (Inside(f) => depth[t] = 1)
        /\ depth \in [Threads -> {0, 1}] /\ holder \in [Mutexes -> Threads \cup {None}]
    BY <1>1, TopOf DEF Lock
  <1>3. PICK n, g : n = f[1].on /\ g = Tail(f)
    OBVIOUS
  <1>4. n \in Mutexes /\ Held(f) = {} /\ Held(g) = {n} /\ (Inside(g) <=> Inside(f)) /\ Good(g)
    BY <1>2, <1>3, LockStep
  <1>5. holder[n] = None /\ holder' = [holder EXCEPT ![n] = t] /\ Continue(t, g)
    BY <1>2, <1>3 DEF Lock
  <1>6. alive' = alive /\ signals' = signals /\ exposed' = exposed /\ depth' = [depth EXCEPT ![t] = depth[t]]
    BY <1>2 DEF Lock
  <1>7. None \notin Threads
    BY LocksAssumption
  <1>8. holder' \in [Mutexes -> Threads \cup {None}] /\ holder'[n] = t /\ \A m \in Mutexes : m # n => holder'[m] = holder[m]
    BY <1>2, <1>4, <1>5
  <1>9. \A u \in Threads \ {t} : Holds(u)' = Holds(u)
    BY <1>5, <1>7, <1>8 DEF Holds
  <1>10. PICK H, H2 : H = Holds(t) /\ H2 = Holds(t)'
    OBVIOUS
  <1>11. \A m \in Mutexes : (m \in H2 <=> m \in H \/ m = n) /\ n \notin H
    BY <1>5, <1>7, <1>8, <1>10 DEF Holds
  <1>12. Handed(H2, H, f, g)
    BY <1>4, <1>11 DEF Handed
  <1>13. f # ReadPath
    BY <1>2, ReadFacts
  <1>14. PICK d2 \in {0, 1} : d2 = depth[t]
    BY <1>2
  <1> QED
    BY <1>1, <1>2, <1>4, <1>5, <1>6, <1>8, <1>9, <1>10, <1>12, <1>13, <1>14, Move

LEMMA UnlockKeeps ==
    ASSUME LocksInv, NEW t \in Threads, Unlock(t)
    PROVE  LocksInv'
  <1>1. PICK f : f = Last(stack[t])
    OBVIOUS
  <1>2. /\ t \in alive /\ stack[t] # <<>> /\ f # <<>> /\ Good(f) /\ f[1].op = "unlock"
        /\ Rest(t) = Tail(f) /\ Top(t) = f[1] /\ (Inside(f) => depth[t] = 1)
        /\ \A m \in Mutexes : m \in Held(f) => holder[m] = t
        /\ depth \in [Threads -> {0, 1}] /\ holder \in [Mutexes -> Threads \cup {None}]
    BY <1>1, TopOf DEF Unlock
  <1>3. PICK n, g : n = f[1].on /\ g = Tail(f)
    OBVIOUS
  <1>4. n \in Mutexes /\ Held(f) = {n} /\ Held(g) = {} /\ (Inside(g) <=> Inside(f)) /\ Good(g)
    BY <1>2, <1>3, UnlockStep
  <1>5. holder[n] = t /\ holder' = [holder EXCEPT ![n] = None] /\ Continue(t, g)
    BY <1>2, <1>3, <1>4 DEF Unlock
  <1>6. alive' = alive /\ signals' = signals /\ exposed' = exposed /\ depth' = [depth EXCEPT ![t] = depth[t]]
    BY <1>2 DEF Unlock
  <1>7. None \notin Threads
    BY LocksAssumption
  <1>8. holder' \in [Mutexes -> Threads \cup {None}] /\ holder'[n] = None /\ \A m \in Mutexes : m # n => holder'[m] = holder[m]
    BY <1>2, <1>4, <1>5
  <1>9. \A u \in Threads \ {t} : Holds(u)' = Holds(u)
    BY <1>5, <1>7, <1>8 DEF Holds
  <1>10. PICK H, H2 : H = Holds(t) /\ H2 = Holds(t)'
    OBVIOUS
  <1>11. \A m \in Mutexes : m \in H2 <=> m \in H /\ m # n
    BY <1>5, <1>7, <1>8, <1>10 DEF Holds
  <1>12. Handed(H2, H, f, g)
    BY <1>4, <1>11 DEF Handed
  <1>13. f # ReadPath
    BY <1>2, ReadFacts
  <1>14. PICK d2 \in {0, 1} : d2 = depth[t]
    BY <1>2
  <1> QED
    BY <1>1, <1>2, <1>4, <1>5, <1>6, <1>8, <1>9, <1>10, <1>12, <1>13, <1>14, Move

(* A thread whose innermost call holds no mutex, and is not a read that    *)
(* passes through, holds none at all.                                      *)
LEMMA HoldsNone ==
    ASSUME LocksInv, NEW t \in alive, t \notin exposed, stack[t] # <<>>, NEW f, f = Last(stack[t]),
           Held(f) = {}, f # ReadPath
    PROVE  Holds(t) = {}
  <1>1. PICK s : s = stack[t]
    OBVIOUS
  <1>2. Frames(s) /\ OwnerOf(s, Holds(t)) /\ Calm(s, depth[t]) /\ s # <<>>
    BY <1>1 DEF LocksInv, ThreadOK
  <1>3. Len(s) \in Nat /\ Len(s) \in 1..Len(s) /\ f = s[Len(s)]
    BY <1>1, <1>2, TopIndex DEF Last
  <1>4. \A k \in 1..Len(s) : k = Len(s) \/ k < Len(s)
    BY <1>3
  <1>5. ASSUME NEW k \in 1..Len(s) PROVE Held(s[k]) = {}
    <2>1. CASE k = Len(s)
      BY <1>3, <2>1
    <2>2. CASE k < Len(s)
      BY <1>2, <1>3, <2>2 DEF Calm
    <2> QED
      BY <1>4, <2>1, <2>2
  <1> QED
    BY <1>2, <1>5 DEF OwnerOf

LEMMA UnwoundFull ==
    ASSUME NEW r \in Seq(Seq(Ops)), NEW g \in Seq(Ops), g # <<>>
    PROVE  Unwound(Append(r, g)) = Append(r, g)
  <1>1. PICK a : a = Append(r, g)
    OBVIOUS
  <1>2. Len(r) \in Nat /\ Len(a) = Len(r) + 1 /\ a[Len(r) + 1] = g
    BY <1>1, AppendProperties, LenProperties
  <1>3. Last(a) # <<>>
    BY <1>2 DEF Last
  <1> QED
    BY <1>1, <1>3 DEF Unwound

LEMMA NestKeeps ==
    ASSUME LocksInv, NEW t \in Threads, Nest(t)
    PROVE  LocksInv'
  <1>1. PICK f : f = Last(stack[t])
    OBVIOUS
  <1>2. /\ t \in alive /\ stack[t] # <<>> /\ f # <<>> /\ Good(f) /\ f[1].op = "call"
        /\ Rest(t) = Tail(f) /\ Top(t) = f[1] /\ depth[t] \in {0, 1} /\ (Inside(f) => depth[t] = 1)
    BY <1>1, TopOf DEF Nest
  <1>3. PICK o, g : o = f[1].on /\ g = Tail(f)
    OBVIOUS
  <1>4. /\ Held(g) = Held(f) /\ (Inside(g) <=> Inside(f)) /\ Good(g) /\ g # <<>>
        /\ o \in {"fopen", "fopen meminfo"} /\ (o = "fopen meminfo" => Held(f) = {} /\ Inside(f))
    BY <1>2, <1>3, CallStep
  <1>5. PICK old : old = stack[t]
    OBVIOUS
  <1>6. PICK d, H : d = depth[t] /\ H = Holds(t)
    OBVIOUS
  <1>7. /\ Frames(old) /\ GuardOf(old, d) /\ OwnerOf(old, H) /\ Shallow(old, signals) /\ signals \in Nat
        /\ old # <<>> /\ f = old[Len(old)]
        /\ t \notin exposed => Calm(old, d)
    BY <1>1, <1>2, <1>5, <1>6 DEF LocksInv, ThreadOK, TypeOK, Last
  <1>8. PICK s : s = Append(Front(old), g)
    OBVIOUS
  <1>9. s = Unwound(Append(Front(old), g))
    <2>1. old \in Seq(Seq(Ops)) /\ g \in Seq(Ops) /\ Len(old) \in Nat /\ Len(old) >= 1
      BY <1>4, <1>7, NotEmpty DEF Frames, Good
    <2>2. Front(old) \in Seq(Seq(Ops))
      BY <2>1 DEF Front
    <2> QED
      BY <1>4, <1>8, <2>1, <2>2, UnwoundFull
  <1>10. Stepped(s, old, g)
    BY <1>4, <1>7, <1>9, SteppedIs
  <1>11. f # ReadPath
    BY <1>2, ReadFacts
  <1>12. Frames(s) /\ Len(s) = Len(old) /\ s[Len(s)] = g
    BY <1>4, <1>10 DEF Stepped
  <1>13. GuardOf(s, d)
    <2>1. (d = 1 <=> (d = 1 /\ ~Inside(f)) \/ Inside(g)) /\ (Inside(g) /\ ~Inside(f) => d = 0) /\ d \in {0, 1}
      BY <1>2, <1>4, <1>6
    <2> QED
      BY <1>7, <1>10, <2>1, MoveGuard
  <1>14. OwnerOf(s, H)
    <2>1. \A m \in Mutexes : m \in Held(f) => m \in H
      BY <1>1, <1>2, <1>6, TopOf DEF Holds, Nest
    <2>2. Handed(H, H, f, g) /\ H \in SUBSET Mutexes
      BY <1>4, <1>6, <2>1 DEF Handed, Holds
    <2>3. Frames(old) /\ OwnerOf(old, H) /\ old # <<>> /\ f = old[Len(old)]
      BY <1>7
    <2> QED
      BY <1>10, <2>2, <2>3, MoveOwner
  <1>15. t \notin exposed => Calm(s, d)
    BY <1>7, <1>10, <1>11, MoveCalm
  <1>16. Shallow(s, signals)
    BY <1>7, <1>10, MoveShallow
  <1>17. PICK p \in Paths(o) : stack' = [stack EXCEPT ![t] = Unwound(Append(s, p))]
    <2>1. s = Append(Front(stack[t]), Rest(t)) /\ o = Top(t).on
      BY <1>2, <1>3, <1>5, <1>8
    <2>2. \E x \in Pushed(s, o) : stack' = [stack EXCEPT ![t] = x]
      BY <2>1 DEF Nest
    <2> QED
      BY <2>2 DEF Pushed
  <1>18. Ready(p)
    BY <1>4, PathsReady
  <1>19. depth' = depth /\ holder' = holder /\ alive' = alive /\ signals' = signals /\ exposed' = exposed
    BY DEF Nest
  <1>20. p # <<>> => o = "fopen meminfo"
    BY <1>4 DEF Paths
  <1>21. p # <<>> => s # <<>> /\ Inside(s[Len(s)])
    <2>1. s # <<>>
      BY <1>7, <1>12, TopIndex, EmptySeq
    <2> QED
      BY <1>4, <1>12, <1>20, <2>1
  <1>22. p # <<>> /\ t \notin exposed' => Holds(t) = {}
    BY <1>1, <1>2, <1>4, <1>11, <1>19, <1>20, HoldsNone
  <1>23. signals' \in Nat /\ signals' >= signals /\ exposed \subseteq exposed'
    BY <1>7, <1>19
  <1>24. /\ Frames(s) /\ GuardOf(s, depth[t]) /\ OwnerOf(s, Holds(t)) /\ Shallow(s, signals)
         /\ t \notin exposed => Calm(s, depth[t])
    BY <1>6, <1>12, <1>13, <1>14, <1>15, <1>16
  <1> QED
    BY <1>2, <1>17, <1>18, <1>19, <1>21, <1>22, <1>23, <1>24, Push

LEMMA CallKeeps ==
    ASSUME LocksInv, NEW t \in Threads, NEW c \in Calls, Call(t, c)
    PROVE  LocksInv'
  <1>1. PICK s : s = stack[t]
    OBVIOUS
  <1>2. s = <<>> /\ t \in alive
    BY <1>1 DEF Call, Idle
  <1>3. /\ Frames(s) /\ GuardOf(s, depth[t]) /\ OwnerOf(s, Holds(t)) /\ Shallow(s, signals)
        /\ t \notin exposed => Calm(s, depth[t])
        /\ signals \in Nat
    BY <1>1, <1>2 DEF LocksInv, ThreadOK, TypeOK
  <1>4. PICK p \in Paths(c) : stack' = [stack EXCEPT ![t] = Unwound(Append(s, p))]
    BY <1>2 DEF Call, Pushed
  <1>5. Ready(p)
    BY LocksAssumption, PathsReady
  <1>6. depth' = depth /\ holder' = holder /\ alive' = alive /\ signals' = signals /\ exposed' = exposed
    BY DEF Call
  <1>7. Holds(t) = {}
    BY <1>2, <1>3, EmptySeq DEF OwnerOf
  <1>8. signals' \in Nat /\ signals' >= signals /\ exposed \subseteq exposed'
    BY <1>3, <1>6
  <1> QED
    BY <1>2, <1>3, <1>4, <1>5, <1>6, <1>7, <1>8, Push

LEMMA InterruptKeeps ==
    ASSUME LocksInv, NEW t \in Threads, NEW c \in HandlerCalls, Interrupt(t, c)
    PROVE  LocksInv'
  <1>1. PICK s : s = stack[t]
    OBVIOUS
  <1>2. t \in alive
    BY DEF Interrupt
  <1>3. /\ Frames(s) /\ GuardOf(s, depth[t]) /\ OwnerOf(s, Holds(t)) /\ Shallow(s, signals)
        /\ t \notin exposed => Calm(s, depth[t])
        /\ signals \in Nat /\ depth[t] \in {0, 1}
    BY <1>1, <1>2 DEF LocksInv, ThreadOK, TypeOK
  <1>4. PICK p \in Paths(c) : stack' = [stack EXCEPT ![t] = Unwound(Append(s, p))]
    BY <1>1 DEF Interrupt, Pushed
  <1>5. Ready(p)
    BY LocksAssumption, PathsReady
  <1>6. depth' = depth /\ holder' = holder /\ alive' = alive /\ signals' = signals + 1
    BY DEF Interrupt
  <1>7. exposed \subseteq exposed'
    BY DEF Interrupt
  <1>8. t \notin exposed' => Holds(t) = {} \/ (p = ReadPath /\ depth[t] = 1)
    <2>1. t \notin exposed' => Holds(t) = {} \/ (c = "read" /\ depth[t] > 0)
      BY DEF Interrupt
    <2>2. c = "read" => p = ReadPath
      BY ReadFacts
    <2>3. depth[t] > 0 => depth[t] = 1
      BY <1>3
    <2> QED
      BY <2>1, <2>2, <2>3
  <1>9. signals' \in Nat /\ signals' >= signals
    BY <1>3, <1>6
  <1> QED
    BY <1>2, <1>3, <1>4, <1>5, <1>6, <1>7, <1>8, <1>9, Push

LEMMA ForkKeeps ==
    ASSUME LocksInv, NEW t \in Threads, Fork(t)
    PROVE  LocksInv'
  <1>1. /\ alive = Threads /\ alive' = {t}
        /\ stack' = stack /\ depth' = depth /\ holder' = holder /\ exposed' = exposed /\ signals' = signals
    BY DEF Fork
  <1>2. TypeOK'
    BY <1>1 DEF LocksInv, TypeOK
  <1>3. Holds(t)' = Holds(t)
    BY <1>1 DEF Holds
  <1>4. /\ ThreadOK(stack'[t], depth'[t], Holds(t)', signals')
        /\ t \notin exposed' => Calm(stack'[t], depth'[t])
    BY <1>1, <1>3 DEF LocksInv
  <1> QED
    BY <1>1, <1>2, <1>4 DEF LocksInv

-----------------------------------------------------------------------------
(* Theorems *)

LEMMA LocksStart == Init => LocksInv
  <1> SUFFICES ASSUME Init PROVE LocksInv
    OBVIOUS
  <1>1. <<>> \in Seq(Seq(Ops)) /\ Len(<<>>) = 0
    BY EmptySeq
  <1>2. TypeOK
    BY <1>1 DEF Init, TypeOK
  <1>3. ASSUME NEW t \in alive
        PROVE  ThreadOK(stack[t], depth[t], Holds(t), signals) /\ Calm(stack[t], depth[t])
    <2>1. PICK s : s = <<>>
      OBVIOUS
    <2>2. stack[t] = s /\ depth[t] = 0 /\ signals = 0
      BY <1>3, <2>1 DEF Init
    <2>3. Holds(t) = {}
      <3>1. t # None /\ holder = [m \in Mutexes |-> None]
        BY LocksAssumption DEF Init
      <3> QED
        BY <3>1 DEF Holds
    <2>4. s \in Seq(Seq(Ops)) /\ Len(s) = 0
      BY <1>1, <2>1
    <2>5. Frames(s) /\ GuardOf(s, 0) /\ OwnerOf(s, {}) /\ Shallow(s, 0) /\ Calm(s, 0)
      BY <2>4 DEF Frames, GuardOf, OwnerOf, Shallow, Calm
    <2> QED
      BY <2>2, <2>3, <2>5 DEF ThreadOK
  <1> QED
    BY <1>2, <1>3 DEF LocksInv

LEMMA LocksStep == LocksInv /\ [Next]_vars => LocksInv'
  <1> SUFFICES ASSUME LocksInv, [Next]_vars PROVE LocksInv'
    OBVIOUS
  <1>1. CASE UNCHANGED vars
    <2>1. \A t : Holds(t)' = Holds(t)
      BY <1>1 DEF vars, Holds
    <2> QED
      BY <1>1, <2>1 DEF vars, LocksInv, TypeOK
  <1>2. ASSUME NEW t \in Threads, Step(t) PROVE LocksInv'
    BY <1>2, EnterKeeps, LeaveKeeps, LockKeeps, UnlockKeeps, NestKeeps DEF Step
  <1>3. ASSUME NEW t \in Threads, NEW c \in Calls, Call(t, c) PROVE LocksInv'
    BY <1>3, CallKeeps
  <1>4. ASSUME NEW t \in Threads, NEW c \in HandlerCalls, Interrupt(t, c) PROVE LocksInv'
    BY <1>4, InterruptKeeps
  <1>5. ASSUME NEW t \in Threads, Fork(t) PROVE LocksInv'
    BY <1>5, ForkKeeps
  <1> QED
    BY <1>1, <1>2, <1>3, <1>4, <1>5 DEF Next

(* Between two calls a thread holds no mutex and is outside the guard of   *)
(* core/guard.c, whatever paths its calls took, with any signals and in    *)
(* the child of a fork.                                                    *)
THEOREM CallsBalanced == Spec => []GuardBalanced
  <1>1. ASSUME LocksInv PROVE GuardBalanced
    <2> SUFFICES ASSUME NEW t \in alive, stack[t] = <<>> PROVE depth[t] = 0 /\ Holds(t) = {}
      BY DEF GuardBalanced, Idle
    <2>1. PICK s : s = stack[t]
      OBVIOUS
    <2>2. GuardOf(s, depth[t]) /\ OwnerOf(s, Holds(t)) /\ Len(s) = 0
      BY <1>1, <2>1, EmptySeq DEF LocksInv, ThreadOK
    <2> QED
      BY <2>2 DEF GuardOf, OwnerOf
  <1> QED
    BY <1>1, LocksStart, LocksStep, PTL DEF Spec

(* A thread that waits for one of the four mutexes holds none of the       *)
(* others, unless a signal handler entered it where it may block itself:   *)
(* the locks of the library need no order.                                 *)
THEOREM WaitsEmptyHanded == Spec => []NoHoldAndWait
  <1>1. ASSUME LocksInv PROVE NoHoldAndWait
    <2> SUFFICES ASSUME NEW t \in alive, At(t, "lock"), t \notin exposed PROVE Holds(t) = {}
      BY DEF NoHoldAndWait
    <2>1. PICK f : f = Last(stack[t])
      OBVIOUS
    <2>2. t \in Threads
      BY <1>1 DEF LocksInv, TypeOK
    <2>3. stack[t] # <<>> /\ f # <<>> /\ Good(f) /\ f[1].op = "lock"
      BY <1>1, <2>1, <2>2, TopOf
    <2>4. Held(f) = {} /\ f # ReadPath
      BY <2>3, LockStep, ReadFacts
    <2> QED
      BY <1>1, <2>1, <2>3, <2>4, HoldsNone
  <1> QED
    BY <1>1, LocksStart, LocksStep, PTL DEF Spec

(* The library's own fopen of /proc/meminfo ends in the guard: however the *)
(* calls nest, a thread is at most two calls deep, and one more for each   *)
(* signal.                                                                 *)
THEOREM NestingBounded == Spec => []NoRecursion
  <1>1. ASSUME LocksInv PROVE NoRecursion
    <2> SUFFICES ASSUME NEW t \in alive PROVE Len(stack[t]) <= 2 + signals
      BY DEF NoRecursion
    <2>1. PICK s : s = stack[t]
      OBVIOUS
    <2>2. Frames(s) /\ Shallow(s, signals) /\ signals \in Nat
      BY <1>1, <2>1 DEF LocksInv, ThreadOK, TypeOK
    <2>3. Len(s) \in Nat
      BY <2>2, LenProperties DEF Frames
    <2> QED
      BY <2>1, <2>2, <2>3 DEF Shallow
  <1> QED
    BY <1>1, LocksStart, LocksStep, PTL DEF Spec
=============================================================================
