--------------------------- MODULE SelectionProofs --------------------------
(***************************************************************************)
(* Induction over numbers and sequences, with a set in place of the        *)
(* predicate, and what Kept returns for every sequence.                    *)
(***************************************************************************)
EXTENDS Selection, SequenceTheorems, FiniteSetTheorems, WellFoundedInduction, TLAPS

(* A set of numbers that is not empty has a least one. *)
LEMMA LeastNumber ==
    ASSUME NEW N, N \subseteq Nat, N # {}
    PROVE  \E n \in N : \A m \in N : n <= m
  <1> DEFINE R == OpToRel(<, Nat)
  <1>1. IsWellFoundedOn(R, Nat)
    BY NatLessThanWellFounded, Zenon
  <1>2. \A m, n \in Nat : <<m, n>> \in R <=> m < n
    BY DEF OpToRel
  <1> HIDE DEF R
  <1>3. PICK n \in N : \A m \in N : <<m, n>> \notin R
    BY <1>1, WFMin, Zenon
  <1>4. \A m \in N : ~(m < n)
    BY <1>2, <1>3, Zenon
  <1> QED
    BY <1>4

LEMMA NumberInduction ==
    ASSUME NEW P, 0 \in P, \A n \in Nat : n \in P => n + 1 \in P
    PROVE  Nat \subseteq P
  <1> SUFFICES ASSUME Nat \ P # {} PROVE FALSE
    OBVIOUS
  <1>1. PICK n \in Nat \ P : \A m \in Nat \ P : n <= m
    BY LeastNumber
  <1>2. n # 0 /\ n - 1 \in Nat
    BY <1>1
  <1>3. n - 1 \in P /\ n = (n - 1) + 1
    BY <1>1, <1>2
  <1> QED
    BY <1>1, <1>2, <1>3

LEMMA SequenceInduction ==
    ASSUME NEW U, NEW P, <<>> \in P,
           \A s \in Seq(U), e \in U : s \in P => Append(s, e) \in P
    PROVE  Seq(U) \subseteq P
  <1> DEFINE L == {n \in Nat : \A s \in Seq(U) : Len(s) = n => s \in P}
  <1>1. 0 \in L
    BY EmptySeq
  <1>2. ASSUME NEW n \in Nat, n \in L
        PROVE  n + 1 \in L
    <2> SUFFICES ASSUME NEW s \in Seq(U), Len(s) = n + 1 PROVE s \in P
      OBVIOUS
    <2>1. s # <<>>
      BY EmptySeq
    <2>2. PICK t \in Seq(U), e \in U : s = Append(t, e)
      BY <2>1, SequenceEmptyOrAppend
    <2>3. Len(t) = n
      BY <2>2, AppendProperties, LenProperties
    <2> QED
      BY <1>2, <2>2, <2>3
  <1> HIDE DEF L
  <1>3. Nat \subseteq L
    BY <1>1, <1>2, NumberInduction
  <1> QED
    BY <1>3, LenProperties DEF L

(* f holds what a loop of n turns over the values of T has after each. *)
Runs(f, T, n, base, turn) ==
    f \in [0..n -> T] /\ f[0] = base /\ \A i \in 1..n : f[i] = turn[i][f[i - 1]]

LEMMA Recursion ==
    ASSUME NEW T, NEW n \in Nat, NEW base \in T, NEW turn \in [1..n -> [T -> T]]
    PROVE  \E f : Runs(f, T, n, base, turn)
  <1> USE DEF Runs
  <1> DEFINE P == {m \in Nat : m <= n => \E f : Runs(f, T, m, base, turn)}
  <1>1. 0 \in P
    <2> DEFINE f == [i \in 0..0 |-> base]
    <2>1. Runs(f, T, 0, base, turn)
      OBVIOUS
    <2> QED
      BY <2>1
  <1>2. ASSUME NEW m \in Nat, m \in P PROVE m + 1 \in P
    <2> SUFFICES ASSUME m + 1 <= n PROVE \E f : Runs(f, T, m + 1, base, turn)
      OBVIOUS
    <2>1. PICK f : Runs(f, T, m, base, turn)
      BY <1>2
    <2>2. turn[m + 1] \in [T -> T] /\ f[m] \in T
      BY <2>1
    <2> DEFINE g == [i \in 0..(m + 1) |-> IF i <= m THEN f[i] ELSE turn[m + 1][f[m]]]
    <2>3. g \in [0..(m + 1) -> T] /\ g[0] = base
      BY <2>1, <2>2
    <2>4. ASSUME NEW i \in 1..(m + 1) PROVE g[i] = turn[i][g[i - 1]]
      <3>1. CASE i = m + 1
        BY <3>1
      <3>2. CASE i \in 1..m
        BY <2>1, <3>2
      <3> QED
        BY <3>1, <3>2
    <2> HIDE DEF g
    <2> QED
      BY <2>3, <2>4
  <1> HIDE DEF P
  <1>3. n \in P
    BY <1>1, <1>2, NumberInduction
  <1> QED
    BY <1>3 DEF P

-----------------------------------------------------------------------------
(* What the turns of KeptUpTo make of f. *)
Turns(f, s, S, n) ==
    [i \in 0..n |-> IF i = 0 THEN <<>>
                   ELSE IF s[i] \in S THEN Append(f[i - 1], s[i])
                   ELSE f[i - 1]]

(* The recursion of KeptUpTo has a solution: the loop is well defined. *)
LEMMA LoopDefined ==
    ASSUME NEW U, NEW n \in Nat, NEW s \in [1..n -> U], NEW S,
           NEW T, <<>> \in T, \A t \in T, u \in U : Append(t, u) \in T
    PROVE  \E f : f = Turns(f, s, S, n)
  <1> DEFINE turn == [i \in 1..n |-> [t \in T |-> IF s[i] \in S THEN Append(t, s[i]) ELSE t]]
  <1>1. turn \in [1..n -> [T -> T]]
    OBVIOUS
  <1>2. \A i \in 1..n, t \in T : turn[i][t] = IF s[i] \in S THEN Append(t, s[i]) ELSE t
    OBVIOUS
  <1> HIDE DEF turn
  <1>3. PICK f : Runs(f, T, n, <<>>, turn)
    BY <1>1, Recursion, Zenon
  <1> USE DEF Runs
  <1>4. ASSUME NEW i \in 0..n
        PROVE  f[i] = IF i = 0 THEN <<>> ELSE IF s[i] \in S THEN Append(f[i - 1], s[i]) ELSE f[i - 1]
    <2>1. CASE i = 0
      BY <1>3, <2>1
    <2>2. CASE i # 0
      <3>1. i \in 1..n /\ i - 1 \in 0..n
        BY <2>2
      <3>2. f[i - 1] \in T
        BY <1>3, <3>1
      <3> QED
        BY <1>2, <1>3, <2>2, <3>1, <3>2
    <2> QED
      BY <2>1, <2>2
  <1>5. f = [i \in 0..n |-> f[i]]
    BY <1>3
  <1>6. f = Turns(f, s, S, n)
    BY <1>4, <1>5, Zenon DEF Turns
  <1> QED
    BY <1>6, Zenon

(* g holds what the loop of KeptUpTo has after each turn. *)
Loop(g, s, S) ==
    /\ g[0] = <<>>
    /\ \A i \in 1..Len(s) : g[i] = IF s[i] \in S THEN Append(g[i - 1], s[i]) ELSE g[i - 1]

LEMMA KeptTurns ==
    ASSUME NEW U, NEW s \in Seq(U), NEW S
    PROVE  Loop(KeptUpTo(s, S), s, S)
  <1> DEFINE g == KeptUpTo(s, S)
             n == Len(s)
             T == Seq(U)
  <1>1. n \in Nat /\ s \in [1..n -> U]
    BY LenProperties
  <1>2. <<>> \in T /\ \A t \in T, u \in U : Append(t, u) \in T
    BY AppendProperties, EmptySeq
  <1> HIDE DEF n, T
  <1>3. \E f : f = Turns(f, s, S, n)
    BY <1>1, <1>2, LoopDefined, Zenon
  <1>4. g = Turns(g, s, S, n)
    BY <1>3, Zenon DEF KeptUpTo, n, Turns
  <1> USE DEF Turns
  <1> HIDE DEF g
  <1>5. g[0] = <<>>
    BY <1>1, <1>4
  <1>6. ASSUME NEW i \in 1..n
        PROVE  g[i] = IF s[i] \in S THEN Append(g[i - 1], s[i]) ELSE g[i - 1]
    <2>1. i \in 0..n /\ i # 0
      BY <1>1
    <2> QED
      BY <1>4, <2>1, Zenon
  <1> QED
    BY <1>5, <1>6 DEF Loop, g, n

LEMMA KeptEmpty ==
    ASSUME NEW S PROVE Kept(<<>>, S) = <<>>
  <1>1. <<>> \in Seq({}) /\ Len(<<>>) = 0
    BY EmptySeq
  <1>2. Loop(KeptUpTo(<<>>, S), <<>>, S)
    BY <1>1, KeptTurns, Zenon
  <1> QED
    BY <1>1, <1>2 DEF Kept, Loop

(* A turn of the loop on the last element. *)
LEMMA KeptAppend ==
    ASSUME NEW U, NEW s \in Seq(U), NEW x \in U, NEW S
    PROVE  Kept(Append(s, x), S) = IF x \in S THEN Append(Kept(s, S), x) ELSE Kept(s, S)
  <1> DEFINE n == Len(s)
             l == Append(s, x)
             f == KeptUpTo(s, S)
             g == KeptUpTo(l, S)
  <1>1. n \in Nat /\ l \in Seq(U) /\ Len(l) = n + 1 /\ l[n + 1] = x
    BY AppendProperties, LenProperties
  <1>2. \A i \in 1..n : l[i] = s[i]
    BY AppendProperties
  <1>3. Loop(f, s, S)
    BY KeptTurns, Zenon
  <1> HIDE DEF l
  <1>4. Loop(g, l, S)
    BY <1>1, KeptTurns, Zenon
  <1> USE DEF Loop
  <1> HIDE DEF f, g
  <1> DEFINE P == {i \in Nat : i <= n => g[i] = f[i]}
  <1>5. 0 \in P
    BY <1>3, <1>4
  <1>6. ASSUME NEW i \in Nat, i \in P PROVE i + 1 \in P
    <2> SUFFICES ASSUME i + 1 <= n PROVE g[i + 1] = f[i + 1]
      OBVIOUS
    <2>1. i + 1 \in 1..n /\ i + 1 \in 1..Len(l) /\ (i + 1) - 1 = i /\ g[i] = f[i]
      BY <1>1, <1>6
    <2>2. g[i + 1] = IF l[i + 1] \in S THEN Append(g[i], l[i + 1]) ELSE g[i]
      BY <1>4, <2>1
    <2>3. f[i + 1] = IF s[i + 1] \in S THEN Append(f[i], s[i + 1]) ELSE f[i]
      BY <1>3, <2>1
    <2> QED
      BY <1>2, <2>1, <2>2, <2>3
  <1> HIDE DEF P
  <1>7. g[n] = f[n]
    <2>1. n \in P
      BY <1>1, <1>5, <1>6, NumberInduction
    <2> QED
      BY <1>1, <2>1 DEF P
  <1>8. g[n + 1] = IF x \in S THEN Append(g[n], x) ELSE g[n]
    <2>1. n + 1 \in 1..Len(l) /\ (n + 1) - 1 = n
      BY <1>1
    <2> QED
      BY <1>1, <1>4, <2>1
  <1> QED
    BY <1>1, <1>7, <1>8 DEF Kept, f, g, n, l

(* Only elements of S are kept. *)
LEMMA KeptType ==
    ASSUME NEW U, NEW s \in Seq(U), NEW S
    PROVE  Kept(s, S) \in Seq(U \cap S)
  <1> DEFINE P == {t \in Seq(U) : Kept(t, S) \in Seq(U \cap S)}
  <1>1. <<>> \in P
    BY KeptEmpty, EmptySeq
  <1>2. ASSUME NEW t \in Seq(U), NEW e \in U, t \in P PROVE Append(t, e) \in P
    <2>1. Append(t, e) \in Seq(U) /\ Kept(t, S) \in Seq(U \cap S)
      BY <1>2, AppendProperties
    <2>2. Kept(Append(t, e), S) = IF e \in S THEN Append(Kept(t, S), e) ELSE Kept(t, S)
      BY KeptAppend
    <2>3. e \in S => Append(Kept(t, S), e) \in Seq(U \cap S)
      BY <2>1, AppendProperties
    <2> QED
      BY <2>1, <2>2, <2>3
  <1> HIDE DEF P
  <1>3. Seq(U) \subseteq P
    BY <1>1, <1>2, SequenceInduction
  <1> QED
    BY <1>3 DEF P

LEMMA KeptSeq ==
    ASSUME NEW U, NEW s \in Seq(U), NEW S
    PROVE  Kept(s, S) \in Seq(U) /\ Len(Kept(s, S)) \in Nat
  <1>1. Kept(s, S) \in Seq(U \cap S)
    BY KeptType
  <1>2. Kept(s, S) \in Seq(U)
    BY <1>1
  <1> QED
    BY <1>2, LenProperties

(* The loop may be stopped and taken up again. *)
LEMMA KeptConcat ==
    ASSUME NEW U, NEW s \in Seq(U), NEW r \in Seq(U), NEW S
    PROVE  Kept(s \o r, S) = Kept(s, S) \o Kept(r, S)
  <1> DEFINE P == {t \in Seq(U) : Kept(s \o t, S) = Kept(s, S) \o Kept(t, S)}
  <1>1. <<>> \in P
    <2>1. s \o <<>> = s /\ Kept(s, S) \o <<>> = Kept(s, S)
      BY KeptSeq, ConcatEmptySeq
    <2> QED
      BY <2>1, KeptEmpty, EmptySeq
  <1>2. ASSUME NEW t \in Seq(U), NEW e \in U, t \in P PROVE Append(t, e) \in P
    <2>1. Append(t, e) \in Seq(U) /\ s \o t \in Seq(U)
      BY AppendProperties, ConcatProperties
    <2>2. s \o Append(t, e) = Append(s \o t, e)
      OBVIOUS
    <2>3. Kept(s \o Append(t, e), S) = IF e \in S THEN Append(Kept(s \o t, S), e) ELSE Kept(s \o t, S)
      BY <2>1, <2>2, KeptAppend
    <2>4. Kept(Append(t, e), S) = IF e \in S THEN Append(Kept(t, S), e) ELSE Kept(t, S)
      BY KeptAppend
    <2>5. Kept(s \o t, S) = Kept(s, S) \o Kept(t, S)
      BY <1>2
    <2>6. Kept(s, S) \o Append(Kept(t, S), e) = Append(Kept(s, S) \o Kept(t, S), e)
      <3>1. Kept(s, S) \in Seq(U) /\ Kept(t, S) \in Seq(U)
        BY KeptSeq
      <3> QED
        BY <3>1
    <2> QED
      BY <2>1, <2>3, <2>4, <2>5, <2>6
  <1> HIDE DEF P
  <1>3. Seq(U) \subseteq P
    BY <1>1, <1>2, SequenceInduction
  <1> QED
    BY <1>3 DEF P

(* One loop after another keeps what one loop with both tests keeps. *)
LEMMA KeptTwice ==
    ASSUME NEW U, NEW s \in Seq(U), NEW S, NEW R
    PROVE  Kept(Kept(s, S), R) = Kept(s, S \cap R)
  <1> DEFINE P == {t \in Seq(U) : Kept(Kept(t, S), R) = Kept(t, S \cap R)}
  <1>1. <<>> \in P
    BY KeptEmpty, EmptySeq
  <1>2. ASSUME NEW t \in Seq(U), NEW e \in U, t \in P PROVE Append(t, e) \in P
    <2>1. Append(t, e) \in Seq(U) /\ Kept(t, S) \in Seq(U)
      BY AppendProperties, KeptSeq
    <2>2. Kept(Append(t, e), S) = IF e \in S THEN Append(Kept(t, S), e) ELSE Kept(t, S)
      BY KeptAppend
    <2>3. Kept(Append(Kept(t, S), e), R)
            = IF e \in R THEN Append(Kept(Kept(t, S), R), e) ELSE Kept(Kept(t, S), R)
      BY <2>1, KeptAppend
    <2>4. Kept(Append(t, e), S \cap R)
            = IF e \in S \cap R THEN Append(Kept(t, S \cap R), e) ELSE Kept(t, S \cap R)
      BY KeptAppend
    <2>5. Kept(Kept(t, S), R) = Kept(t, S \cap R)
      BY <1>2
    <2>6. CASE e \in S
      <3>1. Kept(Append(t, e), S) = Append(Kept(t, S), e)
        BY <2>2, <2>6
      <3>2. e \in S \cap R <=> e \in R
        BY <2>6
      <3>3. Kept(Kept(Append(t, e), S), R) = Kept(Append(t, e), S \cap R)
        BY <2>3, <2>4, <2>5, <3>1, <3>2, Zenon
      <3> QED
        BY <2>1, <3>3, Zenon
    <2>7. CASE e \notin S
      BY <2>1, <2>2, <2>4, <2>5, <2>7
    <2> QED
      BY <2>6, <2>7
  <1> HIDE DEF P
  <1>3. Seq(U) \subseteq P
    BY <1>1, <1>2, SequenceInduction
  <1> QED
    BY <1>3 DEF P

(* Only the test of the elements that occur matters. *)
LEMMA KeptSame ==
    ASSUME NEW U, NEW s \in Seq(U), NEW S, NEW R, U \cap S = U \cap R
    PROVE  Kept(s, S) = Kept(s, R)
  <1> DEFINE P == {t \in Seq(U) : Kept(t, S) = Kept(t, R)}
  <1>1. <<>> \in P
    BY KeptEmpty, EmptySeq
  <1>2. ASSUME NEW t \in Seq(U), NEW e \in U, t \in P PROVE Append(t, e) \in P
    <2>1. Append(t, e) \in Seq(U) /\ Kept(t, S) = Kept(t, R)
      BY <1>2, AppendProperties
    <2>2. Kept(Append(t, e), S) = IF e \in S THEN Append(Kept(t, S), e) ELSE Kept(t, S)
      BY KeptAppend
    <2>3. Kept(Append(t, e), R) = IF e \in R THEN Append(Kept(t, R), e) ELSE Kept(t, R)
      BY KeptAppend
    <2>4. e \in S <=> e \in R
      OBVIOUS
    <2> QED
      BY <2>1, <2>2, <2>3, <2>4
  <1> HIDE DEF P
  <1>3. Seq(U) \subseteq P
    BY <1>1, <1>2, SequenceInduction
  <1> QED
    BY <1>3 DEF P

Has(s, x) == \E i \in DOMAIN s : s[i] = x

(* Every element of S is kept. *)
LEMMA KeptElements ==
    ASSUME NEW U, NEW s \in Seq(U), NEW S, NEW x
    PROVE  Has(Kept(s, S), x) <=> x \in S /\ Has(s, x)
  <1> DEFINE P == {t \in Seq(U) : Has(Kept(t, S), x) <=> x \in S /\ Has(t, x)}
  <1>1. <<>> \in P
    BY KeptEmpty, EmptySeq DEF Has
  <1>2. ASSUME NEW t \in Seq(U), NEW e \in U
        PROVE  Has(Append(t, e), x) <=> Has(t, x) \/ x = e
    <2>1. DOMAIN t = 1..Len(t) /\ Len(t) \in Nat
      BY LenProperties
    <2>2. DOMAIN Append(t, e) = 1..(Len(t) + 1) /\ Append(t, e)[Len(t) + 1] = e
      BY AppendProperties, <2>1
    <2>3. \A i \in 1..Len(t) : Append(t, e)[i] = t[i]
      BY AppendProperties
    <2>4. 1..(Len(t) + 1) = 1..Len(t) \cup {Len(t) + 1}
      BY <2>1
    <2> QED
      BY <2>1, <2>2, <2>3, <2>4 DEF Has
  <1>3. ASSUME NEW t \in Seq(U), NEW e \in U, t \in P PROVE Append(t, e) \in P
    <2>1. Append(t, e) \in Seq(U) /\ Kept(t, S) \in Seq(U)
      BY AppendProperties, KeptSeq
    <2>2. Kept(Append(t, e), S) = IF e \in S THEN Append(Kept(t, S), e) ELSE Kept(t, S)
      BY KeptAppend
    <2>3. Has(Append(Kept(t, S), e), x) <=> Has(Kept(t, S), x) \/ x = e
      BY <1>2, <2>1
    <2>4. Has(Append(t, e), x) <=> Has(t, x) \/ x = e
      BY <1>2
    <2>5. Has(Kept(t, S), x) <=> x \in S /\ Has(t, x)
      BY <1>3
    <2>6. CASE e \in S
      BY <2>1, <2>2, <2>3, <2>4, <2>5, <2>6
    <2>7. CASE e \notin S
      BY <2>1, <2>2, <2>4, <2>5, <2>7
    <2> QED
      BY <2>6, <2>7
  <1> HIDE DEF P
  <1>4. Seq(U) \subseteq P
    BY <1>1, <1>3, SequenceInduction
  <1> QED
    BY <1>4 DEF P

(* The loop keeps as many elements as pass its test. *)
LEMMA KeptLen ==
    ASSUME NEW U, NEW s \in Seq(U), NEW S
    PROVE  /\ Len(Kept(s, S)) \in Nat
           /\ Len(Kept(s, S)) = Cardinality({i \in DOMAIN s : s[i] \in S})
  <1> DEFINE Pass(t) == {i \in DOMAIN t : t[i] \in S}
             P == {t \in Seq(U) : IsFiniteSet(Pass(t)) /\ Len(Kept(t, S)) = Cardinality(Pass(t))}
  <1>1. <<>> \in P
    <2>1. Pass(<<>>) = {}
      BY EmptySeq
    <2> QED
      BY <2>1, KeptEmpty, EmptySeq, FS_EmptySet
  <1>2. ASSUME NEW t \in Seq(U), NEW e \in U, t \in P PROVE Append(t, e) \in P
    <2>1. /\ Append(t, e) \in Seq(U) /\ Kept(t, S) \in Seq(U)
          /\ IsFiniteSet(Pass(t)) /\ Len(Kept(t, S)) = Cardinality(Pass(t))
      BY <1>2, AppendProperties, KeptSeq
    <2>2. Kept(Append(t, e), S) = IF e \in S THEN Append(Kept(t, S), e) ELSE Kept(t, S)
      BY KeptAppend
    <2>3. Pass(Append(t, e)) = Pass(t) \cup (IF e \in S THEN {Len(t) + 1} ELSE {})
      <3>1. DOMAIN t = 1..Len(t) /\ Len(t) \in Nat
        BY LenProperties
      <3>2. DOMAIN Append(t, e) = 1..(Len(t) + 1) /\ Append(t, e)[Len(t) + 1] = e
        BY AppendProperties, <3>1
      <3>3. \A i \in 1..Len(t) : Append(t, e)[i] = t[i]
        BY AppendProperties
      <3>4. 1..(Len(t) + 1) = 1..Len(t) \cup {Len(t) + 1}
        BY <3>1
      <3> QED
        BY <3>1, <3>2, <3>3, <3>4
    <2>4. Len(t) + 1 \notin Pass(t)
      BY LenProperties
    <2> HIDE DEF Pass
    <2>5. CASE e \in S
      <3>1. Pass(Append(t, e)) = Pass(t) \cup {Len(t) + 1}
        BY <2>3, <2>5
      <3>2. /\ IsFiniteSet(Pass(Append(t, e)))
            /\ Cardinality(Pass(Append(t, e))) = Cardinality(Pass(t)) + 1
        BY <2>1, <2>4, <3>1, FS_AddElement
      <3>3. Len(Append(Kept(t, S), e)) = Len(Kept(t, S)) + 1
        BY <2>1, AppendProperties
      <3> QED
        BY <2>1, <2>2, <2>5, <3>2, <3>3
    <2>6. CASE e \notin S
      <3>1. Pass(Append(t, e)) = Pass(t)
        BY <2>3, <2>6
      <3> QED
        BY <2>1, <2>2, <2>6, <3>1
    <2> QED
      BY <2>5, <2>6
  <1> HIDE DEF P
  <1>3. Seq(U) \subseteq P
    BY <1>1, <1>2, SequenceInduction
  <1> QED
    BY <1>3, KeptSeq DEF P

(* The loop never keeps more than there is. *)
LEMMA KeptShorter ==
    ASSUME NEW U, NEW s \in Seq(U), NEW S
    PROVE  Len(Kept(s, S)) <= Len(s)
  <1> DEFINE P == {t \in Seq(U) : Len(Kept(t, S)) <= Len(t)}
  <1>1. <<>> \in P
    BY KeptEmpty, EmptySeq
  <1>2. ASSUME NEW t \in Seq(U), NEW e \in U, t \in P PROVE Append(t, e) \in P
    <2>1. /\ Append(t, e) \in Seq(U) /\ Len(Append(t, e)) = Len(t) + 1 /\ Len(t) \in Nat
          /\ Kept(t, S) \in Seq(U) /\ Len(Kept(t, S)) <= Len(t) /\ Len(Kept(t, S)) \in Nat
      BY <1>2, AppendProperties, KeptSeq, LenProperties
    <2>2. Kept(Append(t, e), S) = IF e \in S THEN Append(Kept(t, S), e) ELSE Kept(t, S)
      BY KeptAppend
    <2>3. Len(Append(Kept(t, S), e)) = Len(Kept(t, S)) + 1
      BY <2>1, AppendProperties
    <2> QED
      BY <2>1, <2>2, <2>3
  <1> HIDE DEF P
  <1>3. Seq(U) \subseteq P
    BY <1>1, <1>2, SequenceInduction
  <1> QED
    BY <1>3 DEF P

Once(s) == \A i, j \in DOMAIN s : s[i] = s[j] => i = j

(* A sequence without repetitions stays one. *)
LEMMA KeptOnce ==
    ASSUME NEW U, NEW s \in Seq(U), NEW S, Once(s)
    PROVE  Once(Kept(s, S))
  <1> DEFINE P == {t \in Seq(U) : Once(t) => Once(Kept(t, S))}
  <1>1. <<>> \in P
    BY KeptEmpty, EmptySeq DEF Once
  <1>2. ASSUME NEW t \in Seq(U), NEW e \in U
        PROVE  Once(Append(t, e)) <=> Once(t) /\ ~Has(t, e)
    <2>1. DOMAIN t = 1..Len(t) /\ Len(t) \in Nat
      BY LenProperties
    <2>2. DOMAIN Append(t, e) = 1..(Len(t) + 1) /\ Append(t, e)[Len(t) + 1] = e
      BY AppendProperties, <2>1
    <2>3. \A i \in 1..Len(t) : Append(t, e)[i] = t[i]
      BY AppendProperties
    <2>4. 1..(Len(t) + 1) = 1..Len(t) \cup {Len(t) + 1} /\ Len(t) + 1 \notin 1..Len(t)
      BY <2>1
    <2>5. ASSUME Once(Append(t, e)) PROVE Once(t) /\ ~Has(t, e)
      BY <2>1, <2>2, <2>3, <2>4, <2>5 DEF Once, Has
    <2>6. ASSUME Once(t), ~Has(t, e) PROVE Once(Append(t, e))
      BY <2>1, <2>2, <2>3, <2>4, <2>6 DEF Once, Has
    <2> QED
      BY <2>5, <2>6
  <1>3. ASSUME NEW t \in Seq(U), NEW e \in U, t \in P PROVE Append(t, e) \in P
    <2>1. Append(t, e) \in Seq(U) /\ Kept(t, S) \in Seq(U)
      BY AppendProperties, KeptSeq
    <2>2. Kept(Append(t, e), S) = IF e \in S THEN Append(Kept(t, S), e) ELSE Kept(t, S)
      BY KeptAppend
    <2>3. Once(t) => Once(Kept(t, S))
      BY <1>3
    <2>4. Once(Append(t, e)) <=> Once(t) /\ ~Has(t, e)
      BY <1>2
    <2>5. Once(Append(Kept(t, S), e))
            <=> Once(Kept(t, S)) /\ ~Has(Kept(t, S), e)
      BY <1>2, <2>1
    <2>6. (Has(Kept(t, S), e)) => Has(t, e)
      BY KeptElements, Zenon
    <2> QED
      BY <2>1, <2>2, <2>3, <2>4, <2>5, <2>6
  <1> HIDE DEF P
  <1>4. Seq(U) \subseteq P
    BY <1>1, <1>3, SequenceInduction
  <1> QED
    BY <1>4 DEF P

(* Sequences that agree where the test is passed keep the same. *)
LEMMA KeptAlike ==
    ASSUME NEW U, NEW s \in Seq(U), NEW t \in Seq(U), NEW S, Len(s) = Len(t),
           \A i \in 1..Len(s) : s[i] \in S \/ t[i] \in S => s[i] = t[i]
    PROVE  Kept(s, S) = Kept(t, S)
  <1> DEFINE n == Len(s)
             f == KeptUpTo(s, S)
             g == KeptUpTo(t, S)
  <1>1. n \in Nat
    BY LenProperties
  <1>2. Loop(f, s, S) /\ Loop(g, t, S)
    BY KeptTurns, Zenon
  <1> USE DEF Loop
  <1> HIDE DEF f, g
  <1> DEFINE P == {i \in Nat : i <= n => g[i] = f[i]}
  <1>3. 0 \in P
    BY <1>2
  <1>4. ASSUME NEW i \in Nat, i \in P PROVE i + 1 \in P
    <2> SUFFICES ASSUME i + 1 <= n PROVE g[i + 1] = f[i + 1]
      OBVIOUS
    <2>1. i + 1 \in 1..n /\ (i + 1) - 1 = i /\ g[i] = f[i]
      BY <1>1, <1>4
    <2>2. g[i + 1] = IF t[i + 1] \in S THEN Append(g[i], t[i + 1]) ELSE g[i]
      BY <1>2, <2>1
    <2>3. f[i + 1] = IF s[i + 1] \in S THEN Append(f[i], s[i + 1]) ELSE f[i]
      BY <1>2, <2>1
    <2>4. s[i + 1] \in S \/ t[i + 1] \in S => s[i + 1] = t[i + 1]
      BY <2>1
    <2> QED
      BY <2>1, <2>2, <2>3, <2>4
  <1> HIDE DEF P
  <1>5. n \in P
    BY <1>1, <1>3, <1>4, NumberInduction
  <1> QED
    BY <1>1, <1>5 DEF P, Kept, f, g

(* A test that all elements pass changes nothing. *)
LEMMA KeptAll ==
    ASSUME NEW U, NEW s \in Seq(U), NEW S, U \subseteq S
    PROVE  Kept(s, S) = s
  <1> DEFINE P == {t \in Seq(U) : Kept(t, S) = t}
  <1>1. <<>> \in P
    BY KeptEmpty, EmptySeq
  <1>2. ASSUME NEW t \in Seq(U), NEW e \in U, t \in P PROVE Append(t, e) \in P
    <2>1. Append(t, e) \in Seq(U) /\ Kept(t, S) = t /\ e \in S
      BY <1>2, AppendProperties
    <2>2. Kept(Append(t, e), S) = IF e \in S THEN Append(Kept(t, S), e) ELSE Kept(t, S)
      BY KeptAppend
    <2> QED
      BY <2>1, <2>2
  <1> HIDE DEF P
  <1>3. Seq(U) \subseteq P
    BY <1>1, <1>2, SequenceInduction
  <1> QED
    BY <1>3 DEF P

(* A test that no element passes leaves nothing. *)
LEMMA KeptNone ==
    ASSUME NEW U, NEW s \in Seq(U), NEW S, U \cap S = {}
    PROVE  Kept(s, S) = <<>>
  <1> DEFINE P == {t \in Seq(U) : Kept(t, S) = <<>>}
  <1>1. <<>> \in P
    BY KeptEmpty, EmptySeq
  <1>2. ASSUME NEW t \in Seq(U), NEW e \in U, t \in P PROVE Append(t, e) \in P
    <2>1. Append(t, e) \in Seq(U) /\ Kept(t, S) = <<>> /\ e \notin S
      BY <1>2, AppendProperties
    <2>2. Kept(Append(t, e), S) = IF e \in S THEN Append(Kept(t, S), e) ELSE Kept(t, S)
      BY KeptAppend
    <2> QED
      BY <2>1, <2>2
  <1> HIDE DEF P
  <1>3. Seq(U) \subseteq P
    BY <1>1, <1>2, SequenceInduction
  <1> QED
    BY <1>3 DEF P

(* The sequence of the values of F. *)
Mapped(F, s) == [i \in DOMAIN s |-> F[s[i]]]

Into(F, U, V) == \A u \in U : F[u] \in V

LEMMA MappedAppend ==
    ASSUME NEW U, NEW V, NEW F, Into(F, U, V),
           NEW s \in Seq(U), NEW x \in U
    PROVE  /\ Mapped(F, s) \in Seq(V)
           /\ Mapped(F, Append(s, x)) = Append(Mapped(F, s), F[x])
  <1> DEFINE n == Len(s)
             l == Append(s, x)
             m == Mapped(F, s)
             r == Mapped(F, l)
  <1>1. n \in Nat /\ DOMAIN s = 1..n /\ \A i \in 1..n : s[i] \in U
    BY LenProperties, ElementOfSeq
  <1>2. l \in Seq(U) /\ Len(l) = n + 1 /\ DOMAIN l = 1..(n + 1) /\ l[n + 1] = x
    BY <1>1, AppendProperties
  <1>3. \A i \in 1..n : l[i] = s[i]
    BY AppendProperties
  <1> HIDE DEF n, l
  <1>4. m \in [1..n -> V] /\ \A i \in 1..n : m[i] = F[s[i]]
    BY <1>1 DEF Mapped, Into
  <1>5. m \in Seq(V) /\ Len(m) = n
    BY <1>1, <1>4
  <1>6. r = [i \in 1..(n + 1) |-> F[l[i]]]
    BY <1>2 DEF Mapped
  <1>7. F[x] \in V
    BY DEF Into
  <1> HIDE DEF m, r
  <1>8. /\ Append(m, F[x]) \in Seq(V) /\ DOMAIN Append(m, F[x]) = 1..(n + 1)
        /\ Append(m, F[x])[n + 1] = F[x]
        /\ \A i \in 1..n : Append(m, F[x])[i] = m[i]
    BY <1>1, <1>5, <1>7, AppendProperties
  <1>9. \A i \in 1..(n + 1) : Append(m, F[x])[i] = r[i]
    <2> TAKE i \in 1..(n + 1)
    <2>1. CASE i = n + 1
      BY <1>1, <1>2, <1>6, <1>8, <2>1
    <2>2. CASE i \in 1..n
      BY <1>1, <1>3, <1>4, <1>6, <1>8, <2>2
    <2>3. i = n + 1 \/ i \in 1..n
      BY <1>1
    <2> QED
      BY <2>1, <2>2, <2>3, Zenon
  <1>10. r \in Seq(V) /\ DOMAIN r = 1..(n + 1)
    <2>1. \A i \in 1..(n + 1) : r[i] \in V
      <3> DEFINE q == Append(m, F[x])
      <3> HIDE DEF q
      <3>1. q \in Seq(V) /\ DOMAIN q = 1..(n + 1) /\ \A i \in 1..(n + 1) : q[i] = r[i]
        BY <1>8, <1>9 DEF q
      <3>2. \A i \in 1..(n + 1) : q[i] \in V
        BY <3>1, ElementOfSeq, LenProperties
      <3> QED
        BY <3>1, <3>2
    <2>2. r \in [1..(n + 1) -> V] /\ n + 1 \in Nat
      BY <1>1, <1>6, <2>1
    <2> QED
      BY <2>2
  <1>11. r = Append(m, F[x])
    <2>1. Len(r) = n + 1 /\ Len(Append(m, F[x])) = n + 1
      BY <1>1, <1>5, <1>7, <1>8, <1>10, AppendProperties, LenProperties
    <2> QED
      BY <1>8, <1>9, <1>10, <2>1, SeqEqual
  <1> QED
    BY <1>5, <1>11 DEF m, r, l

LEMMA MappedType ==
    ASSUME NEW U, NEW V, NEW F, Into(F, U, V), NEW s \in Seq(U)
    PROVE  Mapped(F, s) \in Seq(V)
  <1> DEFINE n == Len(s)
  <1>1. n \in Nat /\ DOMAIN s = 1..n /\ \A i \in 1..n : s[i] \in U
    BY LenProperties, ElementOfSeq
  <1> HIDE DEF n
  <1>2. Mapped(F, s) \in [1..n -> V]
    BY <1>1 DEF Mapped, Into
  <1> QED
    BY <1>1, <1>2

(* Filtering by a field and reading the field may be exchanged. *)
LEMMA KeptMapped ==
    ASSUME NEW U, NEW V, NEW F, Into(F, U, V), NEW s \in Seq(U), NEW S,
           NEW R, \A u \in U : u \in R <=> F[u] \in S
    PROVE  Kept(Mapped(F, s), S) = Mapped(F, Kept(s, R))
  <1> DEFINE P == {t \in Seq(U) : Kept(Mapped(F, t), S) = Mapped(F, Kept(t, R))}
  <1>1. <<>> \in P
    <2>1. Mapped(F, <<>>) = <<>>
      BY EmptySeq DEF Mapped
    <2> QED
      BY <2>1, KeptEmpty, EmptySeq
  <1>2. ASSUME NEW t \in Seq(U), NEW e \in U, t \in P PROVE Append(t, e) \in P
    <2>1. /\ Append(t, e) \in Seq(U) /\ Kept(t, R) \in Seq(U) /\ F[e] \in V
          /\ Kept(Mapped(F, t), S) = Mapped(F, Kept(t, R))
      BY <1>2, AppendProperties, KeptSeq DEF Into
    <2>2. Kept(Append(t, e), R) = IF e \in R THEN Append(Kept(t, R), e) ELSE Kept(t, R)
      BY KeptAppend
    <2>3. Mapped(F, t) \in Seq(V)
      BY MappedAppend, Zenon
    <2>4. Mapped(F, Append(t, e)) = Append(Mapped(F, t), F[e])
      BY MappedAppend
    <2>5. Kept(Append(Mapped(F, t), F[e]), S)
            = IF F[e] \in S THEN Append(Kept(Mapped(F, t), S), F[e]) ELSE Kept(Mapped(F, t), S)
      <3> DEFINE m == Mapped(F, t)
                 v == F[e]
      <3>1. m \in Seq(V) /\ v \in V
        BY <2>1, <2>3
      <3> HIDE DEF m, v
      <3>2. Kept(Append(m, v), S) = IF v \in S THEN Append(Kept(m, S), v) ELSE Kept(m, S)
        BY <3>1, KeptAppend
      <3> QED
        BY <3>2 DEF m, v
    <2>6. Mapped(F, Append(Kept(t, R), e)) = Append(Mapped(F, Kept(t, R)), F[e])
      BY <2>1, MappedAppend
    <2>7. CASE e \in R
      <3>1. F[e] \in S
        BY <2>7
      <3>2. Kept(Append(t, e), R) = Append(Kept(t, R), e)
        BY <2>2, <2>7, Zenon
      <3>3. Kept(Mapped(F, Append(t, e)), S) = Append(Kept(Mapped(F, t), S), F[e])
        BY <2>5, <2>4, <3>1, Zenon
      <3> QED
        BY <2>1, <2>6, <3>2, <3>3, Zenon
    <2>8. CASE e \notin R
      <3>1. F[e] \notin S
        BY <2>8
      <3>2. Kept(Append(t, e), R) = Kept(t, R)
        BY <2>2, <2>8, Zenon
      <3>3. Kept(Mapped(F, Append(t, e)), S) = Kept(Mapped(F, t), S)
        BY <2>5, <2>4, <3>1, Zenon
      <3> QED
        BY <2>1, <3>2, <3>3, Zenon
    <2> QED
      BY <2>7, <2>8
  <1> HIDE DEF P
  <1>3. Seq(U) \subseteq P
    BY <1>1, <1>2, SequenceInduction
  <1> QED
    BY <1>3 DEF P
=============================================================================
