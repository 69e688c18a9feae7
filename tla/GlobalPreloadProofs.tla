------------------------ MODULE GlobalPreloadProofs ------------------------
(***************************************************************************)
(* What enable and disable of the installer keep and leave behind, for any *)
(* number of shells, any file, and any number of commands and of faults.   *)
(***************************************************************************)
EXTENDS GlobalPreload, SelectionProofs

-----------------------------------------------------------------------------
(* Loops over a sequence *)

(* g holds what a loop has after each element of s; turn[x] is what it     *)
(* does with x.                                                            *)
Passes(g, T, s, base, turn) ==
    /\ g \in [0..Len(s) -> T] /\ g[0] = base
    /\ \A i \in 1..Len(s) : g[i] = turn[s[i]][g[i - 1]]

LEMMA PassesExist ==
    ASSUME NEW U, NEW T, NEW s \in Seq(U), NEW base \in T, NEW turn \in [U -> [T -> T]]
    PROVE  \E g : Passes(g, T, s, base, turn)
  <1> DEFINE n == Len(s)
             t == [i \in 1..n |-> turn[s[i]]]
  <1>1. n \in Nat /\ \A i \in 1..n : s[i] \in U
    BY LenProperties, ElementOfSeq
  <1>2. t \in [1..n -> [T -> T]] /\ \A i \in 1..n : t[i] = turn[s[i]]
    BY <1>1
  <1> HIDE DEF t, n
  <1>3. PICK g : Runs(g, T, n, base, t)
    BY <1>1, <1>2, Recursion, Zenon
  <1>4. Passes(g, T, s, base, turn)
    BY <1>2, <1>3 DEF Runs, Passes, n
  <1> QED
    BY <1>4

(* One element more is one turn more. *)
LEMMA PassesAppend ==
    ASSUME NEW U, NEW T, NEW s \in Seq(U), NEW x \in U, NEW base, NEW turn, NEW f, NEW g,
           Passes(f, T, s, base, turn), Passes(g, T, Append(s, x), base, turn)
    PROVE  g[Len(s) + 1] = turn[x][f[Len(s)]] /\ f[Len(s)] \in T
  <1> DEFINE n == Len(s)
             l == Append(s, x)
  <1>1. n \in Nat /\ Len(l) = n + 1 /\ l[n + 1] = x
    BY AppendProperties, LenProperties
  <1>2. \A i \in 1..n : l[i] = s[i]
    BY AppendProperties
  <1>3. /\ f \in [0..n -> T] /\ f[0] = base
        /\ \A i \in 1..n : f[i] = turn[s[i]][f[i - 1]]
    BY DEF Passes
  <1>4. /\ g[0] = base
        /\ \A i \in 1..(n + 1) : g[i] = turn[l[i]][g[i - 1]]
    BY <1>1 DEF Passes
  <1> HIDE DEF n, l
  <1> DEFINE P == {i \in Nat : i <= n => g[i] = f[i]}
  <1>5. 0 \in P
    BY <1>3, <1>4
  <1>6. ASSUME NEW i \in Nat, i \in P PROVE i + 1 \in P
    <2> SUFFICES ASSUME i + 1 <= n PROVE g[i + 1] = f[i + 1]
      OBVIOUS
    <2>1. i + 1 \in 1..n /\ i + 1 \in 1..(n + 1) /\ (i + 1) - 1 = i /\ g[i] = f[i]
      BY <1>1, <1>6
    <2>2. g[i + 1] = turn[l[i + 1]][g[i]]
      BY <1>4, <2>1
    <2>3. f[i + 1] = turn[s[i + 1]][f[i]]
      BY <1>3, <2>1
    <2> QED
      BY <1>2, <2>1, <2>2, <2>3
  <1> HIDE DEF P
  <1>7. g[n] = f[n]
    <2>1. n \in P
      BY <1>1, <1>5, <1>6, NumberInduction
    <2> QED
      BY <1>1, <2>1 DEF P
  <1>8. g[n + 1] = turn[x][f[n]]
    <2>1. n + 1 \in 1..(n + 1) /\ (n + 1) - 1 = n
      BY <1>1
    <2>2. g[n + 1] = turn[l[n + 1]][g[n]]
      BY <1>4, <2>1
    <2> QED
      BY <1>1, <1>7, <2>2
  <1> QED
    BY <1>1, <1>3, <1>8 DEF n

-----------------------------------------------------------------------------
(* Lines *)

Splits == [ended : Seq(Line), open : Line]

AtStart == [ended |-> <<>>, open |-> <<>>]

(* What a character does to the lines before it. *)
AfterChar(r, c) ==
    IF c = NL THEN [ended |-> Append(r.ended, r.open), open |-> <<>>]
              ELSE [ended |-> r.ended, open |-> Append(r.open, c)]

SplitTurn == [c \in Chars |-> [r \in Splits |-> AfterChar(r, c)]]

LEMMA SplitTurnType ==
    /\ AtStart \in Splits
    /\ SplitTurn \in [Chars -> [Splits -> Splits]]
    /\ \A c \in Chars, r \in Splits : SplitTurn[c][r] = AfterChar(r, c)
  <1>1. <<>> \in Line /\ <<>> \in Seq(Line)
    BY EmptySeq DEF Line
  <1>2. ASSUME NEW r \in Splits, NEW c \in Chars PROVE AfterChar(r, c) \in Splits
    <2>1. r.ended \in Seq(Line) /\ r.open \in Line
      BY DEF Splits
    <2>2. Append(r.ended, r.open) \in Seq(Line)
      BY <2>1, AppendProperties
    <2>3. c # NL => Append(r.open, c) \in Line
      BY <2>1, AppendProperties DEF Line
    <2> HIDE DEF Line
    <2> QED
      BY <1>1, <2>1, <2>2, <2>3 DEF AfterChar, Splits
  <1>3. AtStart \in Splits
    BY <1>1 DEF AtStart, Splits
  <1> HIDE DEF Splits
  <1> QED
    BY <1>2, <1>3 DEF SplitTurn

(* What the turns of SplitUpTo make of g. *)
SplitTurns(g, f, n) ==
    [i \in 0..n |-> IF i = 0 THEN [ended |-> <<>>, open |-> <<>>]
                   ELSE IF f[i] = NL
                   THEN [ended |-> Append(g[i - 1].ended, g[i - 1].open), open |-> <<>>]
                   ELSE [ended |-> g[i - 1].ended, open |-> Append(g[i - 1].open, f[i])]]

LEMMA SplitPasses ==
    ASSUME NEW f \in Seq(Chars)
    PROVE  Passes(SplitUpTo(f), Splits, f, AtStart, SplitTurn)
  <1> DEFINE n == Len(f)
             h == SplitUpTo(f)
  <1>1. n \in Nat /\ \A i \in 1..n : f[i] \in Chars
    BY LenProperties, ElementOfSeq
  <1>2. PICK g : Passes(g, Splits, f, AtStart, SplitTurn)
    BY SplitTurnType, PassesExist, Zenon
  <1>3. ASSUME NEW i \in 0..n
        PROVE  g[i] = SplitTurns(g, f, n)[i]
    <2>1. CASE i = 0
      BY <1>1, <1>2, <2>1 DEF Passes, SplitTurns, AtStart
    <2>2. CASE i # 0
      <3>1. i \in 1..n /\ i - 1 \in 0..n
        BY <1>1, <2>2
      <3>2. g[i] = SplitTurn[f[i]][g[i - 1]] /\ g[i - 1] \in Splits
        BY <1>2, <3>1 DEF Passes
      <3>3. g[i] = AfterChar(g[i - 1], f[i])
        BY <1>1, <3>1, <3>2, SplitTurnType
      <3> QED
        BY <2>2, <3>3 DEF AfterChar, SplitTurns
    <2> QED
      BY <2>1, <2>2
  <1>4. g = [i \in 0..n |-> g[i]]
    BY <1>2 DEF Passes
  <1>5. g = SplitTurns(g, f, n)
    BY <1>3, <1>4, Zenon DEF SplitTurns
  <1> HIDE DEF n
  <1>6. h = SplitTurns(h, f, n)
    BY <1>5, Zenon DEF SplitUpTo, SplitTurns, n
  <1> HIDE DEF h
  <1> DEFINE P == {i \in Nat : i <= n => h[i] = g[i]}
  <1>7. 0 \in P
    BY <1>1, <1>5, <1>6 DEF SplitTurns
  <1>8. ASSUME NEW i \in Nat, i \in P PROVE i + 1 \in P
    <2> SUFFICES ASSUME i + 1 <= n PROVE h[i + 1] = g[i + 1]
      OBVIOUS
    <2>1. i + 1 \in 0..n /\ i + 1 # 0 /\ (i + 1) - 1 = i /\ h[i] = g[i]
      BY <1>1, <1>8
    <2>2. h[i + 1] = AfterChar(h[i], f[i + 1])
      BY <1>6, <2>1 DEF SplitTurns, AfterChar
    <2>3. g[i + 1] = AfterChar(g[i], f[i + 1])
      BY <1>5, <2>1 DEF SplitTurns, AfterChar
    <2> QED
      BY <2>1, <2>2, <2>3
  <1> HIDE DEF P
  <1>9. Nat \subseteq P
    BY <1>7, <1>8, NumberInduction
  <1>10. \A i \in 0..n : h[i] = g[i]
    BY <1>1, <1>9 DEF P
  <1>11. h = [i \in 0..n |-> h[i]]
    BY <1>6 DEF SplitTurns
  <1>12. h = g
    BY <1>4, <1>10, <1>11
  <1> QED
    BY <1>2, <1>12 DEF h

LEMMA SplitEmpty == Split(<<>>) = AtStart
  <1>1. <<>> \in Seq(Chars) /\ Len(<<>>) = 0
    BY EmptySeq
  <1>2. Passes(SplitUpTo(<<>>), Splits, <<>>, AtStart, SplitTurn)
    BY <1>1, SplitPasses, Zenon
  <1> QED
    BY <1>1, <1>2 DEF Split, Passes

LEMMA SplitAppend ==
    ASSUME NEW f \in Seq(Chars), NEW c \in Chars
    PROVE  Split(Append(f, c)) = AfterChar(Split(f), c) /\ Split(f) \in Splits
  <1> DEFINE l == Append(f, c)
  <1>1. l \in Seq(Chars) /\ Len(l) = Len(f) + 1
    BY AppendProperties
  <1>2. Passes(SplitUpTo(f), Splits, f, AtStart, SplitTurn)
    BY SplitPasses, Zenon
  <1>3. Passes(SplitUpTo(l), Splits, l, AtStart, SplitTurn)
    BY <1>1, SplitPasses, Zenon
  <1>4. /\ SplitUpTo(l)[Len(f) + 1] = SplitTurn[c][SplitUpTo(f)[Len(f)]]
        /\ SplitUpTo(f)[Len(f)] \in Splits
    BY <1>2, <1>3, PassesAppend, Zenon
  <1>5. Split(l) = SplitTurn[c][Split(f)] /\ Split(f) \in Splits
    BY <1>1, <1>4, Zenon DEF Split
  <1> QED
    BY <1>5, SplitTurnType

LEMMA SplitType ==
    ASSUME NEW f \in Seq(Chars)
    PROVE  /\ Split(f) = [ended |-> Split(f).ended, open |-> Split(f).open]
           /\ Split(f).ended \in Seq(Line) /\ Split(f).open \in Line
           /\ LinesOf(f) \in Seq(Line)
  <1>1. Split(f) \in Splits
    BY SplitAppend, PreloadAssumption
  <1>2. /\ Split(f) = [ended |-> Split(f).ended, open |-> Split(f).open]
        /\ Split(f).ended \in Seq(Line) /\ Split(f).open \in Line
    BY <1>1 DEF Splits
  <1>3. LinesOf(f) \in Seq(Line)
    BY <1>2, AppendProperties DEF LinesOf
  <1> QED
    BY <1>2, <1>3

(* The last line of f has its newline. *)
Whole(f) == Split(f).open = <<>>

(* tail -c 1 tells whether it has. *)
LEMMA WholeEnd ==
    ASSUME NEW f \in Seq(Chars)
    PROVE  EndStep(f) = IF Whole(f) THEN "append" ELSE "newline"
  <1>1. CASE f = <<>>
    BY <1>1, SplitEmpty DEF EndStep, Whole, AtStart
  <1>2. CASE f # <<>>
    <2>1. PICK g \in Seq(Chars), c \in Chars : f = Append(g, c)
      BY <1>2, SequenceEmptyOrAppend
    <2>2. Last(f) = c
      BY <2>1, AppendProperties, LenProperties DEF Last
    <2>3. Split(f) = AfterChar(Split(g), c)
      BY <2>1, SplitAppend
    <2>4. Append(Split(g).open, c) # <<>>
      <3>1. Split(g).open \in Seq(Chars)
        BY SplitType DEF Line
      <3>2. Len(Append(Split(g).open, c)) = Len(Split(g).open) + 1 /\ Len(Split(g).open) \in Nat
        BY <3>1, AppendProperties, LenProperties
      <3> DEFINE a == Append(Split(g).open, c)
      <3>3. Len(a) # 0
        BY <3>2
      <3> HIDE DEF a
      <3>4. a # <<>>
        BY <3>3, EmptySeq
      <3> QED
        BY <3>4 DEF a
    <2> QED
      BY <1>2, <2>2, <2>3, <2>4 DEF EndStep, Whole, AfterChar
  <1> QED
    BY <1>1, <1>2

(* A line that is appended goes on with the open one. *)
LEMMA SplitLine ==
    ASSUME NEW f \in Seq(Chars), NEW line \in Line
    PROVE  /\ f \o line \in Seq(Chars)
           /\ Split(f \o line) = [ended |-> Split(f).ended, open |-> Split(f).open \o line]
  <1> DEFINE P == {l \in Line :
                     /\ f \o l \in Seq(Chars)
                     /\ Split(f \o l) = [ended |-> Split(f).ended, open |-> Split(f).open \o l]}
             D == Chars \ {NL}
  <1>1. <<>> \in P
    <2>1. <<>> \in Line /\ f \o <<>> = f
      BY EmptySeq, ConcatEmptySeq DEF Line
    <2>2. Split(f).open \o <<>> = Split(f).open
      BY SplitType, ConcatEmptySeq DEF Line
    <2> QED
      BY <2>1, <2>2, SplitType
  <1>2. ASSUME NEW l \in Seq(D), NEW e \in D, l \in P PROVE Append(l, e) \in P
    <2>1. /\ f \o l \in Seq(Chars) /\ e \in Chars /\ e # NL
          /\ Split(f \o l) = [ended |-> Split(f).ended, open |-> Split(f).open \o l]
      BY <1>2
    <2>2. Append(l, e) \in Line
      BY AppendProperties DEF Line
    <2>3. f \o Append(l, e) = Append(f \o l, e)
      <3>1. D \subseteq Chars
        OBVIOUS
      <3> HIDE DEF D
      <3>2. l \in Seq(Chars) /\ e \in Chars
        BY <3>1
      <3> QED
        BY <3>2
    <2>4. Split(f).open \o Append(l, e) = Append(Split(f).open \o l, e)
      <3>1. Split(f).open \in Seq(D)
        BY SplitType DEF Line
      <3> DEFINE o == Split(f).open
      <3> HIDE DEF o, D
      <3>2. o \in Seq(D)
        BY <3>1 DEF o
      <3>3. o \o Append(l, e) = Append(o \o l, e)
        BY <3>2
      <3> QED
        BY <3>3 DEF o
    <2>5. Split(Append(f \o l, e)) = AfterChar(Split(f \o l), e) /\ Append(f \o l, e) \in Seq(Chars)
      BY <2>1, SplitAppend, AppendProperties
    <2>6. Split(Append(f \o l, e)) = [ended |-> Split(f).ended, open |-> Append(Split(f).open \o l, e)]
      BY <2>1, <2>5 DEF AfterChar
    <2> QED
      BY <2>2, <2>3, <2>4, <2>5, <2>6
  <1> HIDE DEF P
  <1>3. Seq(D) \subseteq P
    <2> HIDE DEF D
    <2> QED
      BY <1>1, <1>2, SequenceInduction
  <1> QED
    BY <1>3 DEF P, Line

(* A newline ends the open line. *)
LEMMA SplitNewline ==
    ASSUME NEW f \in Seq(Chars)
    PROVE  /\ Append(f, NL) \in Seq(Chars)
           /\ Split(Append(f, NL)) = [ended |-> Append(Split(f).ended, Split(f).open), open |-> <<>>]
  BY SplitAppend, PreloadAssumption, AppendProperties DEF AfterChar

(* printf '%s\n' onto a file whose last line has its newline. *)
LEMMA SplitWholeLine ==
    ASSUME NEW f \in Seq(Chars), NEW line \in Line, Whole(f)
    PROVE  /\ f \o line \o <<NL>> \in Seq(Chars)
           /\ Whole(f \o line \o <<NL>>)
           /\ LinesOf(f \o line \o <<NL>>) = Append(LinesOf(f), line)
  <1> DEFINE l == f \o line
  <1>1. l \in Seq(Chars) /\ Split(l) = [ended |-> Split(f).ended, open |-> Split(f).open \o line]
    BY SplitLine
  <1>2. <<>> \o line = line
    BY ConcatEmptySeq DEF Line
  <1> HIDE DEF l
  <1>3. l \o <<NL>> = Append(l, NL)
    BY <1>1, PreloadAssumption, AppendIsConcat
  <1>4. Split(Append(l, NL)) = [ended |-> Append(Split(f).ended, line), open |-> <<>>]
    BY <1>1, <1>2, SplitNewline DEF Whole
  <1>5. l \o <<NL>> \in Seq(Chars)
    BY <1>1, <1>3, SplitNewline
  <1> DEFINE s == Split(l \o <<NL>>)
  <1>6. s = [ended |-> Append(Split(f).ended, line), open |-> <<>>]
    BY <1>3, <1>4
  <1> HIDE DEF s
  <1>7. s.open = <<>> /\ s.ended = Append(Split(f).ended, line)
    BY <1>6
  <1>8. LinesOf(l \o <<NL>>) = s.ended /\ Whole(l \o <<NL>>)
    BY <1>7 DEF s, LinesOf, Whole
  <1>9. LinesOf(f) = Split(f).ended
    BY DEF LinesOf, Whole
  <1> QED
    BY <1>5, <1>7, <1>8, <1>9 DEF l

-----------------------------------------------------------------------------
(* What grep prints *)

TextTurn == [line \in Line |-> [f \in Seq(Chars) |-> f \o line \o <<NL>>]]

LEMMA LineAppended ==
    ASSUME NEW f \in Seq(Chars), NEW line \in Line
    PROVE  f \o line \o <<NL>> \in Seq(Chars)
  <1>1. f \o line \in Seq(Chars)
    BY SplitLine
  <1>2. <<NL>> \in Seq(Chars)
    BY PreloadAssumption
  <1> QED
    BY <1>1, <1>2, ConcatProperties

LEMMA TextTurnType ==
    /\ TextTurn \in [Line -> [Seq(Chars) -> Seq(Chars)]]
    /\ \A line \in Line, f \in Seq(Chars) : TextTurn[line][f] = f \o line \o <<NL>>
  BY LineAppended DEF TextTurn

(* What the turns of TextUpTo make of g. *)
TextTurns(g, lines, n) ==
    [i \in 0..n |-> IF i = 0 THEN <<>> ELSE g[i - 1] \o lines[i] \o <<NL>>]

LEMMA TextPasses ==
    ASSUME NEW lines \in Seq(Line)
    PROVE  Passes(TextUpTo(lines), Seq(Chars), lines, <<>>, TextTurn)
  <1> DEFINE n == Len(lines)
             h == TextUpTo(lines)
  <1>1. n \in Nat /\ \A i \in 1..n : lines[i] \in Line
    BY LenProperties, ElementOfSeq
  <1>2. PICK g : Passes(g, Seq(Chars), lines, <<>>, TextTurn)
    <2>1. <<>> \in Seq(Chars)
      BY EmptySeq
    <2> QED
      BY <2>1, TextTurnType, PassesExist, Zenon
  <1>3. ASSUME NEW i \in 0..n
        PROVE  g[i] = TextTurns(g, lines, n)[i]
    <2>1. CASE i = 0
      BY <1>1, <1>2, <2>1 DEF Passes, TextTurns
    <2>2. CASE i # 0
      <3>1. i \in 1..n /\ i - 1 \in 0..n
        BY <1>1, <2>2
      <3>2. g[i] = TextTurn[lines[i]][g[i - 1]] /\ g[i - 1] \in Seq(Chars)
        BY <1>2, <3>1 DEF Passes
      <3>3. g[i] = g[i - 1] \o lines[i] \o <<NL>>
        BY <1>1, <3>1, <3>2, TextTurnType
      <3> QED
        BY <2>2, <3>3 DEF TextTurns
    <2> QED
      BY <2>1, <2>2
  <1>4. g = [i \in 0..n |-> g[i]]
    BY <1>2 DEF Passes
  <1>5. g = TextTurns(g, lines, n)
    BY <1>3, <1>4, Zenon DEF TextTurns
  <1> HIDE DEF n
  <1>6. h = TextTurns(h, lines, n)
    BY <1>5, Zenon DEF TextUpTo, TextTurns, n
  <1> HIDE DEF h
  <1> DEFINE P == {i \in Nat : i <= n => h[i] = g[i]}
  <1>7. 0 \in P
    BY <1>1, <1>5, <1>6 DEF TextTurns
  <1>8. ASSUME NEW i \in Nat, i \in P PROVE i + 1 \in P
    <2> SUFFICES ASSUME i + 1 <= n PROVE h[i + 1] = g[i + 1]
      OBVIOUS
    <2>1. i + 1 \in 0..n /\ i + 1 # 0 /\ (i + 1) - 1 = i /\ h[i] = g[i]
      BY <1>1, <1>8
    <2>2. h[i + 1] = h[i] \o lines[i + 1] \o <<NL>>
      BY <1>6, <2>1 DEF TextTurns
    <2>3. g[i + 1] = g[i] \o lines[i + 1] \o <<NL>>
      BY <1>5, <2>1 DEF TextTurns
    <2> QED
      BY <2>1, <2>2, <2>3
  <1> HIDE DEF P
  <1>9. Nat \subseteq P
    BY <1>7, <1>8, NumberInduction
  <1>10. \A i \in 0..n : h[i] = g[i]
    BY <1>1, <1>9 DEF P
  <1>11. h = [i \in 0..n |-> h[i]]
    BY <1>6 DEF TextTurns
  <1>12. h = g
    BY <1>4, <1>10, <1>11
  <1> QED
    BY <1>2, <1>12 DEF h

LEMMA TextEmpty == TextOf(<<>>) = <<>>
  <1>1. <<>> \in Seq(Line) /\ Len(<<>>) = 0
    BY EmptySeq
  <1>2. Passes(TextUpTo(<<>>), Seq(Chars), <<>>, <<>>, TextTurn)
    BY <1>1, TextPasses, Zenon
  <1> QED
    BY <1>1, <1>2 DEF TextOf, Passes

LEMMA TextAppend ==
    ASSUME NEW lines \in Seq(Line), NEW line \in Line
    PROVE  TextOf(Append(lines, line)) = TextOf(lines) \o line \o <<NL>> /\ TextOf(lines) \in Seq(Chars)
  <1> DEFINE l == Append(lines, line)
  <1>1. l \in Seq(Line) /\ Len(l) = Len(lines) + 1
    BY AppendProperties
  <1>2. Passes(TextUpTo(lines), Seq(Chars), lines, <<>>, TextTurn)
    BY TextPasses, Zenon
  <1>3. Passes(TextUpTo(l), Seq(Chars), l, <<>>, TextTurn)
    BY <1>1, TextPasses, Zenon
  <1>4. /\ TextUpTo(l)[Len(lines) + 1] = TextTurn[line][TextUpTo(lines)[Len(lines)]]
        /\ TextUpTo(lines)[Len(lines)] \in Seq(Chars)
    BY <1>2, <1>3, PassesAppend, Zenon
  <1>5. TextOf(l) = TextTurn[line][TextOf(lines)] /\ TextOf(lines) \in Seq(Chars)
    BY <1>1, <1>4, Zenon DEF TextOf
  <1> QED
    BY <1>5, TextTurnType

(* A file that was printed line by line reads as those lines. *)
LEMMA TextRead ==
    ASSUME NEW lines \in Seq(Line)
    PROVE  /\ TextOf(lines) \in Seq(Chars)
           /\ Whole(TextOf(lines))
           /\ LinesOf(TextOf(lines)) = lines
  <1> DEFINE Good(l) == /\ TextOf(l) \in Seq(Chars)
                        /\ Whole(TextOf(l))
                        /\ LinesOf(TextOf(l)) = l
             P == {l \in Seq(Line) : Good(l)}
  <1>1. <<>> \in P
    <2>1. Whole(<<>>) /\ LinesOf(<<>>) = <<>>
      BY SplitEmpty DEF AtStart, Whole, LinesOf
    <2> QED
      BY <2>1, TextEmpty, EmptySeq
  <1>2. ASSUME NEW l \in Seq(Line), NEW e \in Line, l \in P PROVE Append(l, e) \in P
    <2>1. Good(l)
      BY <1>2
    <2>2. TextOf(Append(l, e)) = TextOf(l) \o e \o <<NL>>
      BY TextAppend
    <2>3. Append(l, e) \in Seq(Line)
      BY AppendProperties
    <2>4. Good(Append(l, e))
      BY <2>1, <2>2, SplitWholeLine
    <2> QED
      BY <2>3, <2>4
  <1> HIDE DEF P
  <1>3. Seq(Line) \subseteq P
    BY <1>1, <1>2, SequenceInduction
  <1> QED
    BY <1>3 DEF P

-----------------------------------------------------------------------------
(* What the steps of the script do to the lines *)

LEMMA Empty ==
    <<>> \in Seq(Chars) /\ Whole(<<>>) /\ Others(<<>>) = <<>> /\ LibLines(<<>>) = 0
  <1>1. LinesOf(<<>>) = <<>> /\ Whole(<<>>)
    BY SplitEmpty DEF AtStart, LinesOf, Whole
  <1> QED
    BY <1>1, KeptEmpty, EmptySeq DEF Others, LibLines

LEMMA LibLinesType ==
    ASSUME NEW f \in Seq(Chars)
    PROVE  LibLines(f) \in Nat
  BY SplitType, KeptSeq DEF LibLines

(* One line more, at the end. *)
LEMMA LineAdded ==
    ASSUME NEW f \in Seq(Chars), NEW g \in Seq(Chars), NEW line \in Line,
           LinesOf(g) = Append(LinesOf(f), line)
    PROVE  /\ line \in {Lib, <<>>} => Others(g) = Others(f)
           /\ LibLines(g) = IF line = Lib THEN LibLines(f) + 1 ELSE LibLines(f)
  <1> DEFINE l == LinesOf(f)
             S == Line \ {Lib, <<>>}
             k == Kept(l, {Lib})
  <1>1. l \in Seq(Line)
    BY SplitType
  <1> HIDE DEF l, S
  <1>2. Kept(Append(l, line), S) = IF line \in S THEN Append(Kept(l, S), line) ELSE Kept(l, S)
    BY <1>1, KeptAppend
  <1>3. Kept(Append(l, line), {Lib}) = IF line \in {Lib} THEN Append(k, line) ELSE k
    BY <1>1, KeptAppend
  <1>4. k \in Seq(Line)
    BY <1>1, KeptSeq
  <1> HIDE DEF k
  <1>5. Len(Append(k, line)) = Len(k) + 1
    BY <1>4, AppendProperties
  <1>6. Others(f) = Kept(l, S) /\ Others(g) = Kept(Append(l, line), S)
    BY DEF Others, l, S
  <1>7. LibLines(f) = Len(k) /\ LibLines(g) = Len(Kept(Append(l, line), {Lib}))
    BY DEF LibLines, l, k
  <1> QED
    BY <1>2, <1>3, <1>5, <1>6, <1>7 DEF S

(* printf '%s\n' "$lib" *)
LEMMA LibAppended ==
    ASSUME NEW f \in Seq(Chars), Whole(f)
    PROVE  /\ f \o Lib \o <<NL>> \in Seq(Chars)
           /\ Whole(f \o Lib \o <<NL>>)
           /\ Others(f \o Lib \o <<NL>>) = Others(f)
           /\ LibLines(f \o Lib \o <<NL>>) = LibLines(f) + 1
  <1>1. Lib \in Line
    BY PreloadAssumption
  <1> DEFINE g == f \o Lib \o <<NL>>
  <1>2. g \in Seq(Chars) /\ Whole(g) /\ LinesOf(g) = Append(LinesOf(f), Lib)
    BY <1>1, SplitWholeLine
  <1> HIDE DEF g
  <1>3. Others(g) = Others(f) /\ LibLines(g) = LibLines(f) + 1
    BY <1>1, <1>2, LineAdded
  <1> QED
    BY <1>2, <1>3 DEF g

(* printf '\n': it ends the open line, or adds a blank one. *)
LEMMA NewlineAppended ==
    ASSUME NEW f \in Seq(Chars)
    PROVE  /\ Append(f, NL) \in Seq(Chars)
           /\ Whole(Append(f, NL))
           /\ Others(Append(f, NL)) = Others(f)
           /\ LibLines(Append(f, NL)) = LibLines(f)
  <1> DEFINE g == Append(f, NL)
             s == Split(g)
  <1>1. g \in Seq(Chars) /\ s = [ended |-> Append(Split(f).ended, Split(f).open), open |-> <<>>]
    BY SplitNewline
  <1> HIDE DEF g, s
  <1>2. s.open = <<>> /\ s.ended = Append(Split(f).ended, Split(f).open)
    BY <1>1
  <1>3. Whole(g) /\ LinesOf(g) = Append(Split(f).ended, Split(f).open)
    BY <1>2 DEF s, Whole, LinesOf
  <1>4. CASE Whole(f)
    <2>1. <<>> \in Line /\ Lib # <<>>
      BY PreloadAssumption, EmptySeq DEF Line
    <2>2. LinesOf(g) = Append(LinesOf(f), <<>>)
      BY <1>3, <1>4 DEF Whole, LinesOf
    <2>3. Others(g) = Others(f) /\ LibLines(g) = LibLines(f)
      BY <1>1, <2>1, <2>2, LineAdded
    <2> QED
      BY <1>1, <1>3, <2>3 DEF g
  <1>5. CASE ~Whole(f)
    <2>1. LinesOf(g) = LinesOf(f)
      BY <1>3, <1>5 DEF Whole, LinesOf
    <2>2. Others(g) = Others(f) /\ LibLines(g) = LibLines(f)
      BY <2>1 DEF Others, LibLines
    <2> QED
      BY <1>1, <1>3, <2>2 DEF g
  <1> QED
    BY <1>4, <1>5

(* grep -Fxv: the temporary file has the other lines, and none of Lib. *)
LEMMA FilteredFile ==
    ASSUME NEW f \in Seq(Chars)
    PROVE  /\ Filtered(f) \in Seq(Chars)
           /\ Whole(Filtered(f))
           /\ Others(Filtered(f)) = Others(f)
           /\ LibLines(Filtered(f)) = 0
  <1> DEFINE l == LinesOf(f)
             S == Line \ {Lib}
             R == Line \ {Lib, <<>>}
             k == Kept(l, S)
  <1>1. l \in Seq(Line)
    BY SplitType
  <1>2. S \cap R = R /\ S \cap {Lib} = {}
    OBVIOUS
  <1> HIDE DEF l, S, R
  <1>3. k \in Seq(Line)
    BY <1>1, KeptSeq
  <1>4. k \in Seq(Line \cap S)
    BY <1>1, KeptType
  <1>5. Kept(k, R) = Kept(l, R)
    BY <1>1, <1>2, KeptTwice
  <1>6. Kept(k, {Lib}) = <<>>
    <2> HIDE DEF k
    <2>1. (Line \cap S) \cap {Lib} = {}
      BY <1>2
    <2> QED
      BY <1>4, <2>1, KeptNone
  <1>7. Filtered(f) = TextOf(k)
    BY DEF Filtered, OtherLines, k, l, S
  <1> HIDE DEF k
  <1>8. Filtered(f) \in Seq(Chars) /\ Whole(Filtered(f)) /\ LinesOf(Filtered(f)) = k
    BY <1>3, <1>7, TextRead
  <1>9. Others(Filtered(f)) = Others(f)
    BY <1>5, <1>8 DEF Others, R, l
  <1>10. LibLines(Filtered(f)) = 0
    BY <1>6, <1>8, EmptySeq DEF LibLines
  <1> QED
    BY <1>8, <1>9, <1>10

-----------------------------------------------------------------------------
(* A text with blank lines after it: what overlapping commands add to the  *)
(* lines of the other libraries.                                           *)

Pad(b, k) == b \o [i \in 1..k |-> NL]

LEMMA PadType ==
    ASSUME NEW b \in Seq(Chars), NEW k \in Nat
    PROVE  /\ Pad(b, k) \in Seq(Chars)
           /\ Len(Pad(b, k)) = Len(b) + k
           /\ \A i \in 1..Len(b) : Pad(b, k)[i] = b[i]
           /\ \A i \in (Len(b) + 1)..(Len(b) + k) : Pad(b, k)[i] = NL
  <1> DEFINE r == [i \in 1..k |-> NL]
  <1>1. NL \in Chars /\ Len(b) \in Nat
    BY PreloadAssumption, LenProperties
  <1>2. r \in [1..k -> Chars] /\ \A i \in 1..k : r[i] = NL
    BY <1>1
  <1>3. r \in Seq(Chars) /\ Len(r) = k
    BY <1>2, SMTT(30)
  <1> HIDE DEF r
  <1>4. /\ b \o r \in Seq(Chars) /\ Len(b \o r) = Len(b) + Len(r)
        /\ \A i \in 1..(Len(b) + Len(r)) : (b \o r)[i] = IF i <= Len(b) THEN b[i] ELSE r[i - Len(b)]
    BY <1>3, ConcatProperties
  <1>5. \A i \in 1..Len(b) : (b \o r)[i] = b[i]
    BY <1>1, <1>3, <1>4
  <1>6. ASSUME NEW i \in (Len(b) + 1)..(Len(b) + k) PROVE (b \o r)[i] = NL
    <2>1. i \in 1..(Len(b) + Len(r)) /\ ~(i <= Len(b)) /\ i - Len(b) \in 1..k
      BY <1>1, <1>3
    <2> QED
      BY <1>2, <1>4, <2>1
  <1> QED
    BY <1>3, <1>4, <1>5, <1>6 DEF Pad, r

LEMMA PadNone ==
    ASSUME NEW b \in Seq(Chars)
    PROVE  Pad(b, 0) = b
  <1>1. Len(b) \in Nat /\ 0 \in Nat
    BY LenProperties
  <1>2. Pad(b, 0) \in Seq(Chars) /\ Len(Pad(b, 0)) = Len(b) /\ \A i \in 1..Len(b) : Pad(b, 0)[i] = b[i]
    BY <1>1, PadType
  <1> QED
    BY <1>2, SeqEqual

LEMMA PadMore ==
    ASSUME NEW b \in Seq(Chars), NEW k \in Nat
    PROVE  Pad(b, k + 1) = Append(Pad(b, k), NL)
  <1> DEFINE f == Pad(b, k)
             g == Pad(b, k + 1)
             n == Len(b)
  <1>1. n \in Nat /\ NL \in Chars /\ k + 1 \in Nat
    BY PreloadAssumption, LenProperties
  <1>2. /\ f \in Seq(Chars) /\ Len(f) = n + k
        /\ \A i \in 1..n : f[i] = b[i]
        /\ \A i \in (n + 1)..(n + k) : f[i] = NL
    BY PadType
  <1>3. /\ g \in Seq(Chars) /\ Len(g) = n + k + 1
        /\ \A i \in 1..n : g[i] = b[i]
        /\ \A i \in (n + 1)..(n + k + 1) : g[i] = NL
    <2>1. PICK m \in Nat : m = k + 1
      BY <1>1
    <2>2. /\ Pad(b, m) \in Seq(Chars) /\ Len(Pad(b, m)) = n + m
          /\ \A i \in 1..n : Pad(b, m)[i] = b[i]
          /\ \A i \in (n + 1)..(n + m) : Pad(b, m)[i] = NL
      BY PadType
    <2>3. Pad(b, m) = g /\ n + m = n + k + 1
      BY <1>1, <2>1
    <2> HIDE DEF g, n
    <2> QED
      BY <2>2, <2>3
  <1> HIDE DEF f, g, n
  <1>4. /\ Append(f, NL) \in Seq(Chars) /\ Len(Append(f, NL)) = n + k + 1
        /\ \A i \in 1..(n + k) : Append(f, NL)[i] = f[i]
        /\ Append(f, NL)[n + k + 1] = NL
    BY <1>1, <1>2, AppendProperties
  <1>5. ASSUME NEW i \in 1..(n + k + 1) PROVE g[i] = Append(f, NL)[i]
    <2>1. CASE i \in 1..n
      <3>1. i \in 1..(n + k)
        BY <1>1, <2>1
      <3> QED
        BY <1>2, <1>3, <1>4, <2>1, <3>1
    <2>2. CASE i \in (n + 1)..(n + k)
      <3>1. i \in 1..(n + k) /\ i \in (n + 1)..(n + k + 1)
        BY <1>1, <2>2
      <3> QED
        BY <1>2, <1>3, <1>4, <2>2, <3>1
    <2>3. CASE i = n + k + 1
      <3>1. i \in (n + 1)..(n + k + 1)
        BY <1>1, <2>3
      <3> QED
        BY <1>3, <1>4, <2>3, <3>1
    <2>4. i \in 1..n \/ i \in (n + 1)..(n + k) \/ i = n + k + 1
      BY <1>1
    <2> QED
      BY <2>1, <2>2, <2>3, <2>4, Zenon
  <1>6. g = Append(f, NL)
    <2>1. Len(g) = Len(Append(f, NL)) /\ \A i \in 1..Len(g) : g[i] = Append(f, NL)[i]
      BY <1>3, <1>4, <1>5
    <2> QED
      BY <1>3, <1>4, <2>1, SeqEqual
  <1> QED
    BY <1>6 DEF f, g

(* cat writes from the start of the file, over what it holds. *)
Over(t, f) == t \o SubSeq(f, Len(t) + 1, Len(f))

LEMMA OverType ==
    ASSUME NEW t \in Seq(Chars), NEW f \in Seq(Chars)
    PROVE  /\ Over(t, f) \in Seq(Chars)
           /\ Len(Over(t, f)) = IF Len(f) > Len(t) THEN Len(f) ELSE Len(t)
           /\ \A i \in 1..Len(Over(t, f)) : Over(t, f)[i] = IF i <= Len(t) THEN t[i] ELSE f[i]
  <1> DEFINE r == SubSeq(f, Len(t) + 1, Len(f))
             m == Len(t)
             n == Len(f)
  <1>1. m \in Nat /\ n \in Nat /\ \A i \in 1..n : f[i] \in Chars
    BY LenProperties, ElementOfSeq
  <1>2. /\ r \in Seq(Chars)
        /\ Len(r) = IF m + 1 <= n THEN n - (m + 1) + 1 ELSE 0
        /\ \A i \in 1..(n - (m + 1) + 1) : r[i] = f[(m + 1) + i - 1]
    <2>1. \A i \in (m + 1)..n : f[i] \in Chars
      BY <1>1
    <2>2. m + 1 \in Int /\ n \in Int
      BY <1>1
    <2> HIDE DEF m, n
    <2> QED
      BY <2>1, <2>2, SubSeqProperties DEF m, n
  <1> HIDE DEF r
  <1>3. /\ t \o r \in Seq(Chars) /\ Len(t \o r) = m + Len(r)
        /\ \A i \in 1..(m + Len(r)) : (t \o r)[i] = IF i <= m THEN t[i] ELSE r[i - m]
    BY <1>2, ConcatProperties
  <1> HIDE DEF m, n
  <1>4. m + Len(r) = IF n > m THEN n ELSE m
    BY <1>1, <1>2
  <1>5. ASSUME NEW i \in 1..(m + Len(r)) PROVE (t \o r)[i] = IF i <= m THEN t[i] ELSE f[i]
    <2>1. CASE i <= m
      BY <1>3, <2>1
    <2>2. CASE ~(i <= m)
      <3>1. i - m \in 1..(n - (m + 1) + 1) /\ (m + 1) + (i - m) - 1 = i
        BY <1>1, <1>4, <2>2
      <3>2. r[i - m] = f[(m + 1) + (i - m) - 1]
        BY <1>2, <3>1
      <3> QED
        BY <1>3, <2>2, <3>1, <3>2
    <2> QED
      BY <2>1, <2>2
  <1> QED
    BY <1>3, <1>4, <1>5 DEF Over, r, m, n

LEMMA OverEmpty ==
    ASSUME NEW t \in Seq(Chars)
    PROVE  Over(t, <<>>) = t
  <1>1. PICK e \in Seq(Chars) : e = <<>> /\ Len(e) = 0
    BY EmptySeq
  <1> DEFINE o == Over(t, e)
  <1>2. /\ o \in Seq(Chars) /\ Len(o) = IF Len(e) > Len(t) THEN Len(e) ELSE Len(t)
        /\ \A i \in 1..Len(o) : o[i] = IF i <= Len(t) THEN t[i] ELSE e[i]
    BY OverType
  <1> HIDE DEF o
  <1>3. Len(o) = Len(t) /\ \A i \in 1..Len(o) : o[i] = t[i]
    BY <1>1, <1>2, LenProperties
  <1>4. o = t
    BY <1>2, <1>3, SeqEqual
  <1> QED
    BY <1>1, <1>4 DEF o

(* A padded text over another one leaves the longer of the two. *)
LEMMA OverPad ==
    ASSUME NEW b \in Seq(Chars), NEW j \in Nat, NEW k \in Nat
    PROVE  Over(Pad(b, j), Pad(b, k)) = Pad(b, IF k > j THEN k ELSE j)
  <1> DEFINE n == Len(b)
             l == IF k > j THEN k ELSE j
             f == Pad(b, j)
             g == Pad(b, k)
             h == Pad(b, l)
             o == Over(f, g)
  <1>1. n \in Nat /\ l \in Nat
    BY LenProperties
  <1>2. /\ f \in Seq(Chars) /\ Len(f) = n + j
        /\ \A i \in 1..n : f[i] = b[i]
        /\ \A i \in (n + 1)..(n + j) : f[i] = NL
    BY PadType
  <1>3. /\ g \in Seq(Chars) /\ Len(g) = n + k
        /\ \A i \in (n + 1)..(n + k) : g[i] = NL
    BY PadType
  <1>4. /\ h \in Seq(Chars) /\ Len(h) = n + l
        /\ \A i \in 1..n : h[i] = b[i]
        /\ \A i \in (n + 1)..(n + l) : h[i] = NL
    <2> HIDE DEF l
    <2> QED
      BY <1>1, PadType
  <1>5. /\ o \in Seq(Chars) /\ Len(o) = IF Len(g) > Len(f) THEN Len(g) ELSE Len(f)
        /\ \A i \in 1..Len(o) : o[i] = IF i <= Len(f) THEN f[i] ELSE g[i]
    <2> HIDE DEF f, g
    <2> QED
      BY <1>2, <1>3, OverType
  <1> HIDE DEF f, g, h, o, n
  <1>6. Len(o) = n + l
    BY <1>1, <1>2, <1>3, <1>5
  <1>7. ASSUME NEW i \in 1..(n + l) PROVE o[i] = h[i]
    <2>1. CASE i \in 1..n
      <3>1. i <= Len(f)
        BY <1>1, <1>2, <2>1
      <3> QED
        BY <1>2, <1>4, <1>5, <1>6, <2>1, <3>1
    <2>2. CASE i \in (n + 1)..(n + l)
      <3>1. h[i] = NL
        BY <1>4, <2>2
      <3>2. CASE i <= n + j
        <4>1. i \in (n + 1)..(n + j)
          BY <1>1, <2>2, <3>2
        <4> QED
          BY <1>2, <1>5, <1>6, <3>1, <3>2, <4>1
      <3>3. CASE ~(i <= n + j)
        <4>1. i \in (n + 1)..(n + k)
          BY <1>1, <2>2, <3>3
        <4> QED
          BY <1>2, <1>3, <1>5, <1>6, <3>1, <3>3, <4>1
      <3> QED
        BY <3>2, <3>3
    <2> QED
      BY <1>1, <2>1, <2>2
  <1>8. o = h
    BY <1>4, <1>5, <1>6, <1>7, SeqEqual
  <1> QED
    BY <1>8 DEF f, g, h, o

(* Two whole texts, one over the other, are whole. *)
LEMMA OverWhole ==
    ASSUME NEW t \in Seq(Chars), NEW f \in Seq(Chars), Whole(t), Whole(f)
    PROVE  Whole(Over(t, f))
  <1> DEFINE o == Over(t, f)
  <1>1. /\ o \in Seq(Chars)
        /\ Len(o) = IF Len(f) > Len(t) THEN Len(f) ELSE Len(t)
        /\ \A i \in 1..Len(o) : o[i] = IF i <= Len(t) THEN t[i] ELSE f[i]
    BY OverType
  <1> HIDE DEF o
  <1>2. Len(f) \in Nat /\ Len(t) \in Nat /\ Len(o) \in Nat
    BY <1>1, LenProperties
  <1>3. ASSUME NEW g \in Seq(Chars) PROVE Whole(g) <=> (Len(g) # 0 => g[Len(g)] = NL)
    <2>1. Whole(g) <=> ~(g # <<>> /\ Last(g) # NL)
      BY WholeEnd DEF EndStep
    <2>2. g = <<>> <=> Len(g) = 0
      BY EmptySeq
    <2> QED
      BY <2>1, <2>2 DEF Last
  <1>4. Len(o) # 0 => o[Len(o)] = NL
    <2> SUFFICES ASSUME Len(o) # 0 PROVE o[Len(o)] = NL
      OBVIOUS
    <2>1. o[Len(o)] = IF Len(o) <= Len(t) THEN t[Len(o)] ELSE f[Len(o)]
      BY <1>1, <1>2
    <2>2. CASE Len(f) > Len(t)
      <3>1. Len(o) = Len(f) /\ Len(f) # 0 /\ ~(Len(o) <= Len(t))
        BY <1>1, <1>2, <2>2
      <3> QED
        BY <1>3, <2>1, <3>1
    <2>3. CASE ~(Len(f) > Len(t))
      <3>1. Len(o) = Len(t) /\ Len(t) # 0 /\ Len(o) <= Len(t)
        BY <1>1, <1>2, <2>3
      <3> QED
        BY <1>3, <2>1, <3>1
    <2> QED
      BY <2>2, <2>3
  <1>5. Whole(o)
    BY <1>1, <1>3, <1>4
  <1> QED
    BY <1>5 DEF o

(* The temporary files made of o, or of what the commands made of o. *)
Padded(o, t) == \E k \in Nat : t = Pad(Filtered(o), k)

(* A padded text is what grep -Fxv prints of itself, and has the libraries *)
(* of the original.                                                        *)
LEMMA PaddedFile ==
    ASSUME NEW o \in Seq(Chars), NEW t, Padded(o, t)
    PROVE  /\ t \in Seq(Chars) /\ Filtered(t) = t
           /\ Others(t) = Others(o) /\ Whole(t)
  <1> DEFINE b == Filtered(o)
             S == Line \ {Lib}
             Good(f) == \E lines \in Seq(S) : f = TextOf(lines)
             P == {k \in Nat : Good(Pad(b, k)) /\ Others(Pad(b, k)) = Others(o)}
  <1>1. b \in Seq(Chars) /\ Others(b) = Others(o)
    BY FilteredFile
  <1>2. <<>> \in S /\ S \subseteq Line
    BY PreloadAssumption, EmptySeq DEF Line
  <1>3. Good(b)
    <2>1. LinesOf(o) \in Seq(Line) /\ Line \cap S = S
      BY SplitType
    <2> DEFINE l == LinesOf(o)
    <2> HIDE DEF S, l
    <2>2. Kept(l, S) \in Seq(S)
      BY <2>1, KeptType DEF l
    <2> QED
      BY <2>2 DEF Filtered, OtherLines, S, l
  <1>4. 0 \in P
    BY <1>1, <1>3, PadNone
  <1>5. ASSUME NEW k \in Nat, k \in P PROVE k + 1 \in P
    <2> DEFINE f == Pad(b, k)
    <2>1. f \in Seq(Chars) /\ Good(f) /\ Others(f) = Others(o)
      BY <1>1, <1>5, PadType
    <2> HIDE DEF f, b
    <2>2. Pad(b, k + 1) = Append(f, NL)
      BY <1>1, PadMore DEF f
    <2>3. Others(Append(f, NL)) = Others(o)
      BY <2>1, NewlineAppended
    <2>4. Good(Append(f, NL))
      <3>1. PICK lines \in Seq(S) : f = TextOf(lines)
        BY <2>1
      <3>2. Append(lines, <<>>) \in Seq(S) /\ lines \in Seq(Line)
        <4> HIDE DEF S
        <4> QED
          BY <1>2, AppendProperties
      <3>3. TextOf(Append(lines, <<>>)) = f \o <<>> \o <<NL>>
        BY <1>2, <3>1, <3>2, TextAppend
      <3>4. f \o <<>> = f /\ f \o <<NL>> = Append(f, NL)
        BY <2>1, PreloadAssumption, ConcatEmptySeq, AppendIsConcat
      <3> QED
        BY <3>2, <3>3, <3>4
    <2> QED
      BY <2>2, <2>3, <2>4
  <1> HIDE DEF P
  <1>6. Nat \subseteq P
    BY <1>4, <1>5, NumberInduction
  <1>7. Good(t) /\ Others(t) = Others(o)
    BY <1>6 DEF Padded, P
  <1>8. PICK lines \in Seq(S) : t = TextOf(lines)
    BY <1>7
  <1>9. lines \in Seq(Line) /\ Kept(lines, S) = lines
    <2> HIDE DEF S
    <2> QED
      BY <1>2, KeptAll
  <1>10. t \in Seq(Chars) /\ Whole(t) /\ LinesOf(t) = lines
    BY <1>8, <1>9, TextRead
  <1>11. Filtered(t) = t
    BY <1>8, <1>9, <1>10 DEF Filtered, OtherLines, S
  <1> QED
    BY <1>7, <1>10, <1>11

(* What the appends do to the lines a disable would keep. *)
LEMMA FilteredAppends ==
    ASSUME NEW f \in Seq(Chars)
    PROVE  /\ Filtered(Append(f, NL)) \in {Filtered(f), Append(Filtered(f), NL)}
           /\ Whole(f) => Filtered(f \o Lib \o <<NL>>) = Filtered(f)
  <1> DEFINE S == Line \ {Lib}
             l == LinesOf(f)
             g == Append(f, NL)
             s == Split(g)
  <1>1. Lib \in Line /\ <<>> \in Line /\ <<>> # Lib
    BY PreloadAssumption, EmptySeq DEF Line
  <1>2. l \in Seq(Line)
    BY SplitType
  <1> HIDE DEF l, S
  <1>3. Filtered(f) = TextOf(Kept(l, S))
    BY DEF Filtered, OtherLines, l, S
  <1>4. Whole(f) => Filtered(f \o Lib \o <<NL>>) = Filtered(f)
    <2> SUFFICES ASSUME Whole(f) PROVE Filtered(f \o Lib \o <<NL>>) = Filtered(f)
      OBVIOUS
    <2>1. LinesOf(f \o Lib \o <<NL>>) = Append(l, Lib)
      BY <1>1, SplitWholeLine DEF l
    <2>2. Kept(Append(l, Lib), S) = Kept(l, S)
      <3>1. Lib \notin S
        BY DEF S
      <3> QED
        BY <1>1, <1>2, <3>1, KeptAppend
    <2> QED
      BY <1>3, <2>1, <2>2 DEF Filtered, OtherLines, S
  <1>5. s = [ended |-> Append(Split(f).ended, Split(f).open), open |-> <<>>]
    BY SplitNewline
  <1> HIDE DEF s, g
  <1>6. s.open = <<>> /\ s.ended = Append(Split(f).ended, Split(f).open)
    BY <1>5
  <1>7. LinesOf(g) = Append(Split(f).ended, Split(f).open)
    BY <1>6 DEF s, LinesOf
  <1>8. CASE ~Whole(f)
    <2>1. LinesOf(g) = l
      BY <1>7, <1>8 DEF Whole, LinesOf, l
    <2> QED
      BY <1>3, <1>4, <2>1 DEF Filtered, OtherLines, S, g
  <1>9. CASE Whole(f)
    <2>1. LinesOf(g) = Append(l, <<>>)
      BY <1>7, <1>9 DEF Whole, LinesOf, l
    <2> DEFINE k == Kept(l, S)
    <2>2. k \in Seq(Line)
      BY <1>2, KeptSeq
    <2>3. Kept(Append(l, <<>>), S) = Append(k, <<>>)
      <3>1. <<>> \in S
        BY <1>1 DEF S
      <3> QED
        BY <1>1, <1>2, <3>1, KeptAppend
    <2>4. Filtered(g) = TextOf(Append(k, <<>>))
      BY <2>1, <2>3 DEF Filtered, OtherLines, S
    <2> HIDE DEF k
    <2> DEFINE t == TextOf(k)
    <2>5. TextOf(Append(k, <<>>)) = t \o <<>> \o <<NL>> /\ t \in Seq(Chars)
      BY <1>1, <2>2, TextAppend
    <2> HIDE DEF t
    <2>6. t \o <<>> = t /\ t \o <<NL>> = Append(t, NL)
      BY <2>5, PreloadAssumption, ConcatEmptySeq, AppendIsConcat
    <2>7. Filtered(f) = t
      BY <1>3 DEF t, k
    <2> QED
      BY <1>4, <2>4, <2>5, <2>6, <2>7 DEF g
  <1> QED
    BY <1>8, <1>9

-----------------------------------------------------------------------------
(* The invariants *)

Steps == {"idle", "look", "end", "newline", "append", "truncate", "write", "clean"}

Shells == [cmd : {"enable", "disable", None}, step : Steps, tmp : Seq(Chars)]

TypeInv ==
    /\ file \in Seq(Chars) /\ original \in Seq(Chars)
    /\ proc \in [Procs -> Shells]
    /\ torn \in BOOLEAN /\ clash \in BOOLEAN /\ crowded \in BOOLEAN

(* Who is to append finds a whole last line, who is to replace the file    *)
(* will leave one, and only a disable replaces it: with any number of      *)
(* commands at once, and after any fault.                                  *)
EndGood(s, f) ==
    /\ s.step \in {"append", "write"} => Whole(f)
    /\ s.step \in {"truncate", "write"} => Whole(s.tmp)
    /\ s.step \in {"truncate", "write", "clean"} => s.cmd = "disable"

EndInv == \A p \in Procs : EndGood(proc[p], file)

(* The library is listed from the end of an enable until a disable empties *)
(* the file; that disable, unless it is hit, is completed later.           *)
Replaces == {"write", "clean"}

ListedInv ==
    last = "enable" /\ (\A p \in Procs : proc[p].step \notin Replaces) => LibLines(file) > 0

(* Who is to replace the file holds the other lines of the original, with  *)
(* perhaps blank lines after them; so does the file as a disable would     *)
(* filter it, and while some have emptied it, it is empty or has been      *)
(* written by one of them.                                                 *)
Safe(f, pr) ==
    /\ \A p \in Procs : pr[p].step \in {"truncate", "write"} => Padded(original, pr[p].tmp)
    /\ (\E p \in Procs : pr[p].step = "write") => f = <<>> \/ Padded(original, f)
    /\ (\A p \in Procs : pr[p].step # "write") => Padded(original, Filtered(f))

KeepInv == ~torn /\ ~clash => Safe(file, proc)

Few(f) == LibLines(f) <= 1 \/ LibLines(f) <= LibLines(original)

(* What the command of shell s has reached on the file f. *)
Progress(s, f) ==
    /\ s.step = "look" => s.cmd \in {"enable", "disable"}
    /\ s.step \in {"end", "newline", "append"} => s.cmd = "enable" /\ LibLines(f) = 0
    /\ s.step = "append" => Whole(f)
    /\ s.step \in {"truncate", "write"} => s.cmd = "disable" /\ LibLines(s.tmp) = 0
    /\ s.step = "write" => f = <<>>
    /\ s.step = "clean" => s.cmd = "disable" /\ LibLines(f) = 0

(* What the command cmd, completed last, has left. *)
Left(cmd, f) ==
    /\ cmd = "enable" => LibLines(f) > 0
    /\ cmd = "disable" => LibLines(f) = 0

(* One command at a time is on its way, or the last one has done its work. *)
AloneInv ==
    ~crowded =>
        /\ \A p, q \in Procs : Busy(p) /\ Busy(q) => p = q
        /\ \A p \in Procs : Progress(proc[p], file)
        /\ Few(file)
        /\ (\A p \in Procs : ~Busy(p)) => Left(last, file)

PreloadInv == TypeInv /\ EndInv /\ ListedInv /\ KeepInv /\ AloneInv

-----------------------------------------------------------------------------
(* Types *)

LEMMA ReadyType == Ready \in Shells /\ Ready.step = "idle"
  BY EmptySeq DEF Ready, Shells, Steps

LEMMA ShellMoves ==
    ASSUME TypeInv, NEW p \in Procs, NEW s \in Steps, Goto(p, s)
    PROVE  /\ proc' = [proc EXCEPT ![p] = [cmd |-> proc[p].cmd, step |-> s, tmp |-> proc[p].tmp]]
           /\ [cmd |-> proc[p].cmd, step |-> s, tmp |-> proc[p].tmp] \in Shells
  <1>1. proc \in [Procs -> Shells] /\ proc[p] \in Shells
    BY DEF TypeInv
  <1>2. [proc[p] EXCEPT !.step = s] = [cmd |-> proc[p].cmd, step |-> s, tmp |-> proc[p].tmp]
    BY <1>1 DEF Shells
  <1>3. [cmd |-> proc[p].cmd, step |-> s, tmp |-> proc[p].tmp] \in Shells
    BY <1>1 DEF Shells
  <1> QED
    BY <1>1, <1>2, <1>3 DEF Goto

(* A step moves one shell. *)
LEMMA OneMoves ==
    ASSUME TypeInv, NEW p \in Procs, NEW s \in Shells, proc' = [proc EXCEPT ![p] = s]
    PROVE  /\ proc' \in [Procs -> Shells]
           /\ proc'[p] = s
           /\ \A q \in Procs \ {p} : proc'[q] = proc[q]
  BY DEF TypeInv

-----------------------------------------------------------------------------
(* One command at a time *)

LEMMA Alone ==
    ASSUME AloneInv, ~crowded, NEW p \in Procs, Busy(p)
    PROVE  /\ \A q \in Procs \ {p} : ~Busy(q)
           /\ Progress(proc[p], file)
           /\ Few(file)
  BY DEF AloneInv

(* What a step of the only command has to see to. *)
LEMMA AloneKept ==
    ASSUME TypeInv, NEW p \in Procs, NEW s \in Shells, proc' = [proc EXCEPT ![p] = s],
           original' = original,
           ~crowded' => /\ \A q \in Procs \ {p} : ~Busy(q)
                        /\ Progress(s, file') /\ Few(file')
                        /\ s.step = "idle" => Left(last', file')
    PROVE  AloneInv'
  <1> SUFFICES ASSUME ~crowded'
               PROVE  /\ \A a, b \in Procs : proc'[a].step # "idle" /\ proc'[b].step # "idle" => a = b
                      /\ \A q \in Procs : Progress(proc'[q], file')
                      /\ LibLines(file') <= 1 \/ LibLines(file') <= LibLines(original')
                      /\ (\A q \in Procs : proc'[q].step = "idle") => Left(last', file')
    BY DEF AloneInv, Busy, Few, Progress, Left
  <1>1. proc'[p] = s /\ \A q \in Procs \ {p} : proc'[q] = proc[q] /\ proc[q].step = "idle"
    BY OneMoves DEF Busy
  <1>2. ASSUME NEW q \in Procs PROVE Progress(proc'[q], file')
    <2>1. CASE q = p
      BY <1>1, <2>1
    <2>2. CASE q # p
      BY <1>1, <2>2 DEF Progress
    <2> QED
      BY <2>1, <2>2
  <1>3. LibLines(file') <= 1 \/ LibLines(file') <= LibLines(original')
    BY DEF Few
  <1> QED
    BY <1>1, <1>2, <1>3

-----------------------------------------------------------------------------
(* The other libraries *)

LEMMA KeepKept ==
    ASSUME original' = original, ~torn' /\ ~clash' => Safe(file', proc')
    PROVE  KeepInv'
  BY DEF KeepInv, Safe

(* A step that changes neither the file nor who is about to. *)
LEMMA SafeStill ==
    ASSUME TypeInv, NEW p \in Procs, NEW s \in Shells, proc' = [proc EXCEPT ![p] = s],
           Safe(file, proc), proc[p].step # "write",
           s.step \notin {"truncate", "write"}
    PROVE  Safe(file, proc')
  <1>1. proc'[p] = s /\ \A q \in Procs \ {p} : proc'[q] = proc[q]
    BY OneMoves
  <1>2. \A q \in Procs : proc'[q].step \in {"truncate", "write"} => proc'[q] = proc[q]
    BY <1>1
  <1>3. \A q \in Procs : proc[q].step = "write" <=> proc'[q].step = "write"
    BY <1>1
  <1> QED
    BY <1>2, <1>3, Zenon DEF Safe

(* An append while no other command has emptied the file. *)
LEMMA SafeAppend ==
    ASSUME TypeInv, NEW p \in Procs, NEW s \in Shells, proc' = [proc EXCEPT ![p] = s],
           Safe(file, proc), ~Replacing(p),
           {proc[p].step, s.step} \cap {"truncate", "write"} = {},
           Filtered(file') \in {Filtered(file), Append(Filtered(file), NL)}
    PROVE  Safe(file', proc')
  <1>1. /\ proc'[p] = s
        /\ \A q \in Procs \ {p} : proc'[q] = proc[q] /\ proc[q].step # "write"
    BY OneMoves DEF Replacing
  <1>2. \A q \in Procs : proc[q].step # "write" /\ proc'[q].step # "write"
    BY <1>1
  <1>3. Padded(original, Filtered(file'))
    <2>1. PICK k \in Nat : Filtered(file) = Pad(Filtered(original), k)
      BY <1>2 DEF Safe, Padded
    <2>2. Filtered(original) \in Seq(Chars)
      BY FilteredFile DEF TypeInv
    <2>3. Append(Filtered(file), NL) = Pad(Filtered(original), k + 1)
      BY <2>1, <2>2, PadMore, Zenon
    <2>4. k + 1 \in Nat
      OBVIOUS
    <2> QED
      BY <2>1, <2>3, <2>4, Zenon DEF Padded
  <1>4. \A q \in Procs : proc'[q].step \in {"truncate", "write"} => proc'[q] = proc[q]
    BY <1>1
  <1> QED
    BY <1>2, <1>3, <1>4, Zenon DEF Safe

-----------------------------------------------------------------------------
(* The end of the file, and the library *)

LEMMA EndKept ==
    ASSUME TypeInv, EndInv, NEW p \in Procs, NEW s \in Shells, proc' = [proc EXCEPT ![p] = s],
           Whole(file) => Whole(file'), EndGood(s, file')
    PROVE  EndInv'
  <1>1. proc'[p] = s /\ \A q \in Procs \ {p} : proc'[q] = proc[q]
    BY OneMoves
  <1>2. ASSUME NEW q \in Procs PROVE EndGood(proc'[q], file')
    <2>1. CASE q = p
      BY <1>1, <2>1
    <2>2. CASE q # p
      <3>1. proc'[q] = proc[q] /\ EndGood(proc[q], file)
        BY <1>1, <2>2 DEF EndInv
      <3> QED
        BY <3>1 DEF EndGood
    <2> QED
      BY <2>1, <2>2
  <1> QED
    BY <1>2 DEF EndInv, EndGood

(* A step that completes no enable leaves the library as it is, or is of   *)
(* a command that replaces the file.                                       *)
LEMMA ListedKept ==
    ASSUME TypeInv, ListedInv, NEW p \in Procs, NEW s \in Shells, proc' = [proc EXCEPT ![p] = s],
           last' = "enable" /\ s.step \notin Replaces =>
               \/ LibLines(file') > 0
               \/ /\ last = "enable" /\ proc[p].step \notin Replaces
                  /\ LibLines(file') = LibLines(file)
    PROVE  ListedInv'
  <1> SUFFICES ASSUME last' = "enable", \A q \in Procs : proc'[q].step \notin Replaces
               PROVE  LibLines(file') > 0
    BY DEF ListedInv, Replaces
  <1>1. proc'[p] = s /\ \A q \in Procs \ {p} : proc'[q] = proc[q]
    BY OneMoves
  <1>2. CASE LibLines(file') > 0
    BY <1>2
  <1>3. CASE last = "enable" /\ proc[p].step \notin Replaces /\ LibLines(file') = LibLines(file)
    <2>1. \A q \in Procs : proc[q].step \notin Replaces
      BY <1>1, <1>3
    <2> QED
      BY <1>3, <2>1 DEF ListedInv
  <1> QED
    BY <1>1, <1>2, <1>3

-----------------------------------------------------------------------------
(* One lemma for each step of a shell *)

LEMMA StartKeeps ==
    ASSUME PreloadInv, NEW p \in Procs, NEW cmd \in {"enable", "disable"}, Start(p, cmd)
    PROVE  PreloadInv'
  <1> DEFINE s == [cmd |-> cmd, step |-> "look", tmp |-> <<>>]
  <1>1. TypeInv /\ EndInv /\ ListedInv /\ KeepInv /\ AloneInv
    BY DEF PreloadInv
  <1>2. /\ file' = file /\ original' = original /\ last' = last /\ clash' = clash /\ torn' = torn
        /\ proc' = [proc EXCEPT ![p] = s] /\ proc[p].step = "idle"
        /\ crowded' = (crowded \/ \E q \in Procs : Busy(q))
    BY DEF Start, Busy
  <1>3. s \in Shells /\ s.step = "look" /\ s.cmd = cmd
    BY EmptySeq DEF Shells, Steps
  <1> HIDE DEF s
  <1>4. TypeInv'
    <2>1. crowded' \in BOOLEAN
      BY <1>1, <1>2 DEF TypeInv
    <2> QED
      BY <1>1, <1>2, <1>3, <2>1, OneMoves DEF TypeInv
  <1>5. KeepInv'
    <2>1. ASSUME ~torn' /\ ~clash' PROVE Safe(file', proc')
      <3>1. Safe(file, proc)
        BY <1>1, <1>2, <2>1 DEF KeepInv
      <3> QED
        BY <1>1, <1>2, <1>3, <3>1, SafeStill
    <2> QED
      BY <1>2, <2>1, KeepKept
  <1>6. AloneInv'
    <2>1. ASSUME ~crowded'
          PROVE  /\ \A q \in Procs \ {p} : ~Busy(q)
                 /\ Progress(s, file') /\ Few(file') /\ s.step # "idle"
      <3>1. ~crowded /\ \A q \in Procs : ~Busy(q)
        BY <1>2, <2>1
      <3>2. Few(file')
        BY <1>1, <1>2, <3>1 DEF AloneInv
      <3>3. Progress(s, file') /\ s.step # "idle"
        BY <1>3 DEF Progress
      <3> QED
        BY <3>1, <3>2, <3>3
    <2> QED
      BY <1>1, <1>2, <1>3, <2>1, AloneKept
  <1>7. EndInv'
    <2>1. EndGood(s, file')
      BY <1>3 DEF EndGood
    <2> QED
      BY <1>1, <1>2, <1>3, <2>1, EndKept
  <1>8. ListedInv'
    BY <1>1, <1>2, <1>3, ListedKept DEF Replaces
  <1> QED
    BY <1>4, <1>5, <1>6, <1>7, <1>8 DEF PreloadInv

(* The steps after the first are of a busy shell; what they have in common. *)
LEMMA StepKeeps ==
    ASSUME PreloadInv, NEW p \in Procs, Busy(p), NEW s \in Shells,
           proc' = [proc EXCEPT ![p] = s],
           original' = original, crowded' = crowded,
           file' \in Seq(Chars), torn' \in BOOLEAN, clash' \in BOOLEAN,
           ~torn' => ~torn, ~clash' => ~clash,
           Safe(file, proc) /\ ~torn' /\ ~clash' => Safe(file', proc'),
           Progress(proc[p], file) /\ Few(file) =>
               /\ Progress(s, file') /\ Few(file')
               /\ s.step = "idle" => Left(last', file'),
           Whole(file) => Whole(file'),
           EndGood(proc[p], file) =>
               /\ EndGood(s, file')
               /\ last' = "enable" /\ s.step \notin Replaces =>
                      \/ LibLines(file') > 0
                      \/ /\ last = "enable" /\ proc[p].step \notin Replaces
                         /\ LibLines(file') = LibLines(file)
    PROVE  PreloadInv'
  <1>1. TypeInv /\ EndInv /\ ListedInv /\ KeepInv /\ AloneInv
    BY DEF PreloadInv
  <1>2. TypeInv'
    <2>1. proc' \in [Procs -> Shells]
      BY <1>1, OneMoves
    <2>2. crowded' \in BOOLEAN /\ original' \in Seq(Chars)
      BY <1>1 DEF TypeInv
    <2> QED
      BY <2>1, <2>2 DEF TypeInv
  <1>3. KeepInv'
    <2>1. ASSUME ~torn' /\ ~clash' PROVE Safe(file', proc')
      BY <1>1, <2>1 DEF KeepInv
    <2> QED
      BY <2>1, KeepKept
  <1>4. AloneInv'
    <2>1. ASSUME ~crowded'
          PROVE  /\ \A q \in Procs \ {p} : ~Busy(q)
                 /\ Progress(s, file') /\ Few(file')
                 /\ s.step = "idle" => Left(last', file')
      BY <1>1, <2>1, Alone
    <2> QED
      BY <1>1, <2>1, AloneKept
  <1>5. EndGood(proc[p], file)
    BY <1>1 DEF EndInv
  <1>6. EndInv'
    BY <1>1, <1>5, EndKept
  <1>7. ListedInv'
    BY <1>1, <1>5, ListedKept
  <1> QED
    BY <1>2, <1>3, <1>4, <1>6, <1>7 DEF PreloadInv

(* What the clash of a step tells about the other commands. *)
LEMMA ClashNoticed ==
    ASSUME TypeInv, NEW p \in Procs, Touches(p)
    PROVE  clash' \in BOOLEAN /\ (~clash' => ~clash /\ ~Replacing(p))
  BY DEF TypeInv, Touches, Replacing

LEMMA HasLibKeeps ==
    ASSUME PreloadInv, NEW p \in Procs, HasLib(p)
    PROVE  PreloadInv'
  <1>1. TypeInv /\ torn \in BOOLEAN /\ clash \in BOOLEAN /\ file \in Seq(Chars)
    BY DEF PreloadInv, TypeInv
  <1>2. /\ file' = file /\ original' = original /\ crowded' = crowded /\ torn' = torn
        /\ proc[p].step = "look" /\ proc[p].cmd = "enable" /\ Busy(p) /\ clash' = clash
    BY DEF HasLib, Busy
  <1>3. LibLines(file) \in Nat
    BY <1>1, LibLinesType
  <1>4. CASE LibLines(file) > 0
    <2>1. proc' = [proc EXCEPT ![p] = Ready] /\ last' = "enable"
      BY <1>2, <1>4 DEF HasLib, Done
    <2>2. Ready \in Shells /\ Ready.step = "idle"
      BY ReadyType
    <2>3. Safe(file, proc) => Safe(file', proc')
      BY <1>1, <1>2, <2>1, <2>2, SafeStill
    <2>4. Progress(Ready, file') /\ Left(last', file')
      BY <1>2, <1>4, <2>1, <2>2 DEF Progress, Left
    <2>5. EndGood(Ready, file') /\ LibLines(file') > 0
      BY <1>2, <1>4, <2>2 DEF EndGood
    <2> QED
      BY <1>1, <1>2, <2>1, <2>2, <2>3, <2>4, <2>5, StepKeeps
  <1>5. CASE ~(LibLines(file) > 0)
    <2> DEFINE s == [cmd |-> proc[p].cmd, step |-> "end", tmp |-> proc[p].tmp]
    <2>1. "end" \in Steps /\ Goto(p, "end") /\ last' = last
      BY <1>5 DEF HasLib, Steps
    <2>2. proc' = [proc EXCEPT ![p] = s] /\ s \in Shells
      BY <1>1, <2>1, ShellMoves
    <2>3. s.step = "end" /\ s.cmd = "enable"
      BY <1>2
    <2> HIDE DEF s
    <2>4. Safe(file, proc) => Safe(file', proc')
      BY <1>1, <1>2, <2>2, <2>3, SafeStill
    <2>5. Progress(s, file') /\ s.step # "idle"
      BY <1>2, <1>3, <1>5, <2>3 DEF Progress
    <2>6. EndGood(s, file')
      BY <2>3 DEF EndGood
    <2>7. proc[p].step \notin Replaces
      BY <1>2 DEF Replaces
    <2> QED
      BY <1>1, <1>2, <2>1, <2>2, <2>4, <2>5, <2>6, <2>7, StepKeeps
  <1> QED
    BY <1>4, <1>5

LEMMA LookAtEndKeeps ==
    ASSUME PreloadInv, NEW p \in Procs, LookAtEnd(p)
    PROVE  PreloadInv'
  <1> DEFINE e == EndStep(file)
             s == [cmd |-> proc[p].cmd, step |-> e, tmp |-> proc[p].tmp]
  <1>1. TypeInv /\ torn \in BOOLEAN /\ clash \in BOOLEAN /\ file \in Seq(Chars)
    BY DEF PreloadInv, TypeInv
  <1>2. /\ file' = file /\ original' = original /\ crowded' = crowded /\ torn' = torn
        /\ proc[p].step = "end" /\ Busy(p) /\ Goto(p, e)
        /\ clash' = clash /\ last' = last
    BY DEF LookAtEnd, Busy
  <1>3. e \in {"newline", "append"} /\ (e = "append" => Whole(file)) /\ e \in Steps
    BY <1>1, WholeEnd DEF Steps
  <1> HIDE DEF e
  <1>4. proc' = [proc EXCEPT ![p] = s] /\ s \in Shells
    BY <1>1, <1>2, <1>3, ShellMoves
  <1>5. s.step = e /\ s.cmd = proc[p].cmd
    OBVIOUS
  <1> HIDE DEF s
  <1>6. Safe(file, proc) => Safe(file', proc')
    BY <1>1, <1>2, <1>3, <1>4, <1>5, SafeStill
  <1>7. Progress(proc[p], file) => Progress(s, file')
    BY <1>2, <1>3, <1>5 DEF Progress
  <1>8. s.step # "idle" /\ EndGood(s, file') /\ proc[p].step \notin Replaces
    BY <1>2, <1>3, <1>5 DEF EndGood, Replaces
  <1> QED
    BY <1>1, <1>2, <1>4, <1>6, <1>7, <1>8, StepKeeps

LEMMA AppendNewlineKeeps ==
    ASSUME PreloadInv, NEW p \in Procs, AppendNewline(p)
    PROVE  PreloadInv'
  <1> DEFINE s == [cmd |-> proc[p].cmd, step |-> "append", tmp |-> proc[p].tmp]
  <1>1. TypeInv /\ torn \in BOOLEAN /\ file \in Seq(Chars)
    BY DEF PreloadInv, TypeInv
  <1>2. /\ file' = Append(file, NL)
        /\ original' = original /\ crowded' = crowded /\ torn' = torn
        /\ proc[p].step = "newline" /\ Busy(p) /\ Touches(p) /\ Goto(p, "append")
        /\ last' = last
    BY DEF AppendNewline, Busy
  <1>3. clash' \in BOOLEAN /\ (~clash' => ~clash /\ ~Replacing(p))
    BY <1>1, <1>2, ClashNoticed
  <1>4. /\ file' \in Seq(Chars) /\ Whole(file') /\ Others(file') = Others(file)
        /\ LibLines(file') = LibLines(file)
        /\ Filtered(file') \in {Filtered(file), Append(Filtered(file), NL)}
    BY <1>1, <1>2, NewlineAppended, FilteredAppends
  <1>5. proc' = [proc EXCEPT ![p] = s] /\ s \in Shells
    <2>1. "append" \in Steps
      BY DEF Steps
    <2> QED
      BY <1>1, <1>2, <2>1, ShellMoves
  <1>6. s.step = "append" /\ s.cmd = proc[p].cmd
    OBVIOUS
  <1> HIDE DEF s
  <1>7. Safe(file, proc) /\ ~clash' => Safe(file', proc')
    <2>1. {proc[p].step, s.step} \cap {"truncate", "write"} = {}
      BY <1>2, <1>6
    <2> QED
      BY <1>1, <1>3, <1>4, <1>5, <2>1, SafeAppend
  <1>8. Progress(proc[p], file) /\ Few(file) => Progress(s, file') /\ Few(file')
    BY <1>2, <1>4, <1>6 DEF Progress, Few
  <1>9. EndGood(s, file') /\ proc[p].step \notin Replaces
    BY <1>2, <1>4, <1>6 DEF EndGood, Replaces
  <1> QED
    BY <1>1, <1>2, <1>3, <1>4, <1>5, <1>6, <1>7, <1>8, <1>9, StepKeeps

LEMMA AppendLibKeeps ==
    ASSUME PreloadInv, NEW p \in Procs, AppendLib(p)
    PROVE  PreloadInv'
  <1>1. TypeInv /\ EndInv /\ torn \in BOOLEAN /\ file \in Seq(Chars)
    BY DEF PreloadInv, TypeInv
  <1>2. /\ file' = file \o Lib \o <<NL>>
        /\ original' = original /\ crowded' = crowded /\ torn' = torn
        /\ proc[p].step = "append" /\ Busy(p) /\ Touches(p)
        /\ proc' = [proc EXCEPT ![p] = Ready] /\ last' = proc[p].cmd
    BY DEF AppendLib, Busy, Done
  <1>3. clash' \in BOOLEAN /\ (~clash' => ~clash /\ ~Replacing(p))
    BY <1>1, <1>2, ClashNoticed
  <1>4. Ready \in Shells /\ Ready.step = "idle"
    BY ReadyType
  <1>5. file' \in Seq(Chars)
    BY <1>1, <1>2, PreloadAssumption, LineAppended
  <1>6. /\ Whole(file) /\ Whole(file') /\ Filtered(file') = Filtered(file)
        /\ LibLines(file') = LibLines(file) + 1
    <2>1. Whole(file)
      BY <1>1, <1>2 DEF EndInv, EndGood
    <2> QED
      BY <1>1, <1>2, <2>1, LibAppended, FilteredAppends
  <1>7. Safe(file, proc) /\ ~clash' => Safe(file', proc')
    <2>1. {proc[p].step, Ready.step} \cap {"truncate", "write"} = {}
      BY <1>2, <1>4
    <2> QED
      BY <1>1, <1>2, <1>3, <1>4, <1>6, <2>1, SafeAppend
  <1>8. Progress(proc[p], file) =>
            /\ Progress(Ready, file') /\ Few(file') /\ Left(last', file')
    <2> SUFFICES ASSUME Progress(proc[p], file)
                 PROVE  Progress(Ready, file') /\ Few(file') /\ Left(last', file')
      OBVIOUS
    <2>1. LibLines(file) = 0 /\ proc[p].cmd = "enable"
      BY <1>2 DEF Progress
    <2>2. LibLines(file') = 1
      BY <1>6, <2>1
    <2>3. Progress(Ready, file')
      BY <1>4 DEF Progress
    <2>4. Left(last', file')
      BY <1>2, <2>1, <2>2 DEF Left
    <2> QED
      BY <2>2, <2>3, <2>4 DEF Few
  <1>9. EndGood(Ready, file') /\ LibLines(file') > 0
    <2>1. LibLines(file) \in Nat
      BY <1>1, LibLinesType
    <2> QED
      BY <1>4, <1>6, <2>1 DEF EndGood
  <1> QED
    BY <1>1, <1>2, <1>3, <1>4, <1>5, <1>6, <1>7, <1>8, <1>9, StepKeeps

LEMMA FilterKeeps ==
    ASSUME PreloadInv, NEW p \in Procs, Filter(p)
    PROVE  PreloadInv'
  <1> DEFINE t == Filtered(file)
             s == [cmd |-> proc[p].cmd, step |-> "truncate", tmp |-> t]
  <1>1. /\ TypeInv /\ torn \in BOOLEAN /\ file \in Seq(Chars)
        /\ proc \in [Procs -> Shells] /\ proc[p] \in Shells
    BY DEF PreloadInv, TypeInv
  <1>2. /\ file' = file /\ original' = original /\ crowded' = crowded /\ torn' = torn
        /\ proc[p].step = "look" /\ proc[p].cmd = "disable" /\ Busy(p) /\ Touches(p)
        /\ proc' = [proc EXCEPT ![p].tmp = t, ![p].step = "truncate"] /\ last' = last
    BY DEF Filter, Busy
  <1>3. clash' \in BOOLEAN /\ (~clash' => ~clash /\ ~Replacing(p))
    BY <1>1, <1>2, ClashNoticed
  <1>4. t \in Seq(Chars) /\ Whole(t) /\ LibLines(t) = 0 /\ t = Filtered(file)
    BY <1>1, FilteredFile
  <1> HIDE DEF t
  <1>5. proc' = [proc EXCEPT ![p] = s] /\ s \in Shells
    <2>1. [[proc[p] EXCEPT !.tmp = t] EXCEPT !.step = "truncate"] = s
      <3> DEFINE a == [proc[p] EXCEPT !.tmp = t]
      <3>1. a = [cmd |-> proc[p].cmd, step |-> proc[p].step, tmp |-> t]
        BY <1>1 DEF Shells
      <3> HIDE DEF a
      <3>2. [a EXCEPT !.step = "truncate"] = s
        BY <3>1
      <3> QED
        BY <3>2 DEF a
    <2>2. s \in Shells
      BY <1>1, <1>4 DEF Shells, Steps
    <2> QED
      BY <1>1, <1>2, <2>1, <2>2
  <1>6. s.step = "truncate" /\ s.cmd = "disable" /\ s.tmp = t
    BY <1>2
  <1> HIDE DEF s
  <1>7. Safe(file, proc) /\ ~clash' => Safe(file', proc')
    <2> SUFFICES ASSUME Safe(file, proc), ~clash' PROVE Safe(file, proc')
      BY <1>2
    <2>1. proc'[p] = s /\ \A q \in Procs \ {p} : proc'[q] = proc[q] /\ proc[q].step # "write"
      BY <1>1, <1>3, <1>5, OneMoves DEF Replacing
    <2>2. \A q \in Procs : proc[q].step # "write" /\ proc'[q].step # "write"
      BY <1>2, <1>6, <2>1
    <2>3. Padded(original, t) /\ Padded(original, Filtered(file))
      BY <1>4, <2>2 DEF Safe
    <2>4. ASSUME NEW q \in Procs, proc'[q].step = "truncate" PROVE Padded(original, proc'[q].tmp)
      <3>1. CASE q = p
        BY <1>6, <2>1, <2>3, <3>1
      <3>2. CASE q # p
        BY <2>1, <2>4, <3>2 DEF Safe
      <3> QED
        BY <3>1, <3>2
    <2> QED
      BY <2>2, <2>3, <2>4 DEF Safe
  <1>8. Progress(s, file') /\ s.step # "idle"
    BY <1>4, <1>6 DEF Progress
  <1>9. EndGood(s, file') /\ proc[p].step \notin Replaces
    BY <1>2, <1>4, <1>6 DEF EndGood, Replaces
  <1> QED
    BY <1>1, <1>2, <1>3, <1>5, <1>7, <1>8, <1>9, StepKeeps

LEMMA TruncateKeeps ==
    ASSUME PreloadInv, NEW p \in Procs, Truncate(p)
    PROVE  PreloadInv'
  <1> DEFINE s == [cmd |-> proc[p].cmd, step |-> "write", tmp |-> proc[p].tmp]
  <1>1. TypeInv /\ torn \in BOOLEAN /\ clash \in BOOLEAN /\ file \in Seq(Chars)
    BY DEF PreloadInv, TypeInv
  <1>2. /\ file' = <<>>
        /\ original' = original /\ crowded' = crowded /\ torn' = torn /\ clash' = clash
        /\ proc[p].step = "truncate" /\ Busy(p) /\ Goto(p, "write")
    BY DEF Truncate, Busy
  <1>3. file' \in Seq(Chars) /\ Whole(file') /\ LibLines(file') = 0
    BY <1>2, Empty
  <1>4. proc' = [proc EXCEPT ![p] = s] /\ s \in Shells
    <2>1. "write" \in Steps
      BY DEF Steps
    <2> QED
      BY <1>1, <1>2, <2>1, ShellMoves
  <1>5. s.step = "write" /\ s.cmd = proc[p].cmd /\ s.tmp = proc[p].tmp
    OBVIOUS
  <1> HIDE DEF s
  <1>6. Safe(file, proc) => Safe(file', proc')
    <2> SUFFICES ASSUME Safe(file, proc) PROVE Safe(file', proc')
      OBVIOUS
    <2>1. proc'[p] = s /\ \A q \in Procs \ {p} : proc'[q] = proc[q]
      BY <1>1, <1>4, OneMoves
    <2>2. ASSUME NEW q \in Procs, proc'[q].step \in {"truncate", "write"}
          PROVE  Padded(original, proc'[q].tmp)
      <3>1. proc[q].step \in {"truncate", "write"} /\ proc'[q].tmp = proc[q].tmp
        BY <1>2, <1>5, <2>1, <2>2
      <3> QED
        BY <3>1 DEF Safe
    <2>3. \E q \in Procs : proc'[q].step = "write"
      BY <1>5, <2>1
    <2> QED
      BY <1>2, <2>2, <2>3 DEF Safe
  <1>7. Progress(proc[p], file) => Progress(s, file') /\ Few(file') /\ s.step # "idle"
    BY <1>2, <1>3, <1>5 DEF Progress, Few
  <1>8. (EndGood(proc[p], file) => EndGood(s, file')) /\ s.step \in Replaces
    BY <1>2, <1>3, <1>5 DEF EndGood, Replaces
  <1> QED
    BY <1>1, <1>2, <1>3, <1>4, <1>6, <1>7, <1>8, StepKeeps

LEMMA WriteKeeps ==
    ASSUME PreloadInv, NEW p \in Procs, Write(p)
    PROVE  PreloadInv'
  <1> DEFINE s == [cmd |-> proc[p].cmd, step |-> "clean", tmp |-> proc[p].tmp]
             t == proc[p].tmp
  <1>1. /\ TypeInv /\ EndInv /\ torn \in BOOLEAN /\ clash \in BOOLEAN
        /\ file \in Seq(Chars) /\ original \in Seq(Chars) /\ proc[p] \in Shells
    BY DEF PreloadInv, TypeInv
  <1>2. /\ file' = Over(t, file)
        /\ original' = original /\ crowded' = crowded /\ torn' = torn /\ clash' = clash
        /\ proc[p].step = "write" /\ Busy(p) /\ Goto(p, "clean")
    BY DEF Write, Busy, Over
  <1>3. t \in Seq(Chars) /\ Whole(t) /\ Whole(file) /\ proc[p].cmd = "disable"
    BY <1>1, <1>2 DEF Shells, EndInv, EndGood
  <1>4. proc' = [proc EXCEPT ![p] = s] /\ s \in Shells
    <2>1. "clean" \in Steps
      BY DEF Steps
    <2> QED
      BY <1>1, <1>2, <2>1, ShellMoves
  <1>5. s.step = "clean" /\ s.cmd = proc[p].cmd
    OBVIOUS
  <1> HIDE DEF s, t
  <1>6. file' \in Seq(Chars) /\ Whole(file') /\ (file = <<>> => file' = t)
    BY <1>1, <1>2, <1>3, OverType, OverWhole, OverEmpty
  <1>7. Safe(file, proc) => Safe(file', proc')
    <2> SUFFICES ASSUME Safe(file, proc) PROVE Safe(file', proc')
      OBVIOUS
    <2>1. proc'[p] = s /\ \A q \in Procs \ {p} : proc'[q] = proc[q]
      BY <1>1, <1>4, OneMoves
    <2>2. Padded(original, t) /\ (file = <<>> \/ Padded(original, file))
      BY <1>2 DEF Safe, t
    <2>3. Padded(original, file')
      <3>1. CASE file = <<>>
        BY <1>6, <2>2, <3>1
      <3>2. CASE Padded(original, file)
        <4> DEFINE b == Filtered(original)
        <4>1. b \in Seq(Chars)
          BY <1>1, FilteredFile
        <4>2. PICK j \in Nat, k \in Nat : t = Pad(b, j) /\ file = Pad(b, k)
          BY <2>2, <3>2 DEF Padded
        <4> HIDE DEF b
        <4>3. file' = Pad(b, IF k > j THEN k ELSE j)
          BY <1>2, <4>1, <4>2, OverPad
        <4> QED
          BY <4>3 DEF Padded, b
      <3> QED
        BY <2>2, <3>1, <3>2
    <2>4. Padded(original, Filtered(file'))
      BY <1>1, <2>3, PaddedFile
    <2>5. ASSUME NEW q \in Procs, proc'[q].step \in {"truncate", "write"}
          PROVE  Padded(original, proc'[q].tmp)
      <3>1. proc'[q] = proc[q]
        BY <1>5, <2>1, <2>5
      <3> QED
        BY <2>5, <3>1 DEF Safe
    <2> QED
      BY <2>3, <2>4, <2>5 DEF Safe
  <1>8. Progress(proc[p], file) => Progress(s, file') /\ Few(file')
    <2> SUFFICES ASSUME Progress(proc[p], file) PROVE Progress(s, file') /\ Few(file')
      OBVIOUS
    <2>1. file' = t /\ LibLines(t) = 0
      BY <1>2, <1>6 DEF Progress, t
    <2> QED
      BY <1>3, <1>5, <2>1 DEF Progress, Few
  <1>9. s.step # "idle" /\ s.step \in Replaces /\ EndGood(s, file')
    BY <1>3, <1>5 DEF EndGood, Replaces
  <1> QED
    BY <1>1, <1>2, <1>4, <1>6, <1>7, <1>8, <1>9, StepKeeps

LEMMA CleanKeeps ==
    ASSUME PreloadInv, NEW p \in Procs, Clean(p)
    PROVE  PreloadInv'
  <1>1. TypeInv /\ torn \in BOOLEAN /\ clash \in BOOLEAN /\ file \in Seq(Chars)
    BY DEF PreloadInv, TypeInv
  <1>2. /\ file' = file
        /\ original' = original /\ crowded' = crowded /\ torn' = torn /\ clash' = clash
        /\ proc[p].step = "clean" /\ Busy(p)
        /\ proc' = [proc EXCEPT ![p] = Ready] /\ last' = proc[p].cmd
    BY DEF Clean, Busy, Done
  <1>3. Ready \in Shells /\ Ready.step = "idle"
    BY ReadyType
  <1>4. Safe(file, proc) => Safe(file', proc')
    BY <1>1, <1>2, <1>3, SafeStill
  <1>5. Progress(proc[p], file) => Progress(Ready, file') /\ Left(last', file')
    BY <1>2, <1>3 DEF Progress, Left
  <1>6. EndGood(Ready, file') /\ (EndGood(proc[p], file) => last' # "enable")
    BY <1>2, <1>3 DEF EndGood
  <1> QED
    BY <1>1, <1>2, <1>3, <1>4, <1>5, <1>6, StepKeeps

LEMMA FaultKeeps ==
    ASSUME PreloadInv, NEW p \in Procs, Fault(p)
    PROVE  PreloadInv'
  <1>1. TypeInv /\ torn \in BOOLEAN /\ clash \in BOOLEAN /\ file \in Seq(Chars)
    BY DEF PreloadInv, TypeInv
  <1>2. /\ file' = file
        /\ original' = original /\ crowded' = crowded /\ clash' = clash
        /\ torn' = (torn \/ proc[p].step = "write") /\ Busy(p)
        /\ proc' = [proc EXCEPT ![p] = Ready] /\ last' = None
    BY DEF Fault
  <1>3. Ready \in Shells /\ Ready.step = "idle"
    BY ReadyType
  <1>4. torn' \in BOOLEAN /\ (~torn' => ~torn /\ proc[p].step # "write")
    BY <1>1, <1>2
  <1>5. Safe(file, proc) /\ ~torn' => Safe(file', proc')
    BY <1>1, <1>2, <1>3, <1>4, SafeStill
  <1>6. Progress(Ready, file') /\ Left(last', file')
    BY <1>2, <1>3, PreloadAssumption DEF Progress, Left
  <1>7. EndGood(Ready, file') /\ last' # "enable"
    BY <1>2, <1>3, PreloadAssumption DEF EndGood
  <1> QED
    BY <1>1, <1>2, <1>3, <1>4, <1>5, <1>6, <1>7, StepKeeps

-----------------------------------------------------------------------------
(* Theorems *)

LEMMA PreloadInitially ==
    ASSUME Init
    PROVE  PreloadInv
  <1>1. /\ file \in Seq(Chars) /\ original = file /\ last = None
        /\ torn = FALSE /\ clash = FALSE /\ crowded = FALSE
        /\ proc = [p \in Procs |-> Ready]
    BY PreloadAssumption DEF Init
  <1>2. Ready \in Shells /\ Ready.step = "idle"
    BY ReadyType
  <1>3. \A p \in Procs : proc[p] = Ready
    BY <1>1
  <1>4. \A p \in Procs : proc[p].step = "idle"
    BY <1>2, <1>3
  <1>5. TypeInv
    BY <1>1, <1>2 DEF TypeInv
  <1>6. KeepInv
    <2>1. original \in Seq(Chars) /\ Filtered(original) \in Seq(Chars)
      BY <1>1, FilteredFile
    <2>2. Padded(original, Filtered(file))
      <3>1. Filtered(original) = Pad(Filtered(original), 0)
        BY <2>1, PadNone
      <3> QED
        BY <1>1, <3>1 DEF Padded
    <2> QED
      BY <1>4, <2>2 DEF KeepInv, Safe
  <1>7. AloneInv
    <2>1. LibLines(file) \in Nat
      BY <1>1, LibLinesType
    <2>2. Few(file)
      BY <1>1, <2>1 DEF Few
    <2>3. ASSUME NEW p \in Procs PROVE Progress(proc[p], file) /\ ~Busy(p)
      BY <1>4 DEF Progress, Busy
    <2>4. Left(last, file)
      BY <1>1, PreloadAssumption DEF Left
    <2> QED
      BY <2>2, <2>3, <2>4 DEF AloneInv
  <1>8. EndInv /\ ListedInv
    BY <1>1, <1>4, PreloadAssumption DEF EndInv, EndGood, ListedInv
  <1> QED
    BY <1>5, <1>6, <1>7, <1>8 DEF PreloadInv

LEMMA PreloadKept ==
    ASSUME PreloadInv, [Next]_vars
    PROVE  PreloadInv'
  <1>1. CASE UNCHANGED vars
    BY <1>1 DEF vars, PreloadInv, TypeInv, EndInv, EndGood, ListedInv, KeepInv, Safe, AloneInv,
                Busy, Progress, Few, Left
  <1>2. ASSUME NEW p \in Procs, NEW cmd \in {"enable", "disable"}, Start(p, cmd) PROVE PreloadInv'
    BY <1>2, StartKeeps
  <1>3. ASSUME NEW p \in Procs, HasLib(p) \/ LookAtEnd(p) \/ AppendNewline(p) \/ AppendLib(p)
        PROVE  PreloadInv'
    BY <1>3, HasLibKeeps, LookAtEndKeeps, AppendNewlineKeeps, AppendLibKeeps
  <1>4. ASSUME NEW p \in Procs, Filter(p) \/ Truncate(p) \/ Write(p) \/ Clean(p) \/ Fault(p)
        PROVE  PreloadInv'
    BY <1>4, FilterKeeps, TruncateKeeps, WriteKeeps, CleanKeeps, FaultKeeps
  <1> QED
    BY <1>1, <1>2, <1>3, <1>4 DEF Next

LEMMA PreloadAlways == Spec => []PreloadInv
  <1>1. Init => PreloadInv
    BY PreloadInitially
  <1>2. PreloadInv /\ [Next]_vars => PreloadInv'
    BY PreloadKept
  <1> QED
    BY <1>1, <1>2, PTL DEF Spec

(* The other libraries of /etc/ld.so.preload survive every history of      *)
(* enable and disable, whatever the file and however many shells, kills    *)
(* and retries, unless a disable is hit, or another command filters the    *)
(* file or appends to it, between a truncation and its write: the newline  *)
(* append_lib adds never joins two lines, grep -Fxv takes Lib alone, and   *)
(* who truncates holds all the others in its temporary file, so that even  *)
(* two disables that write over each other leave them.                     *)
THEOREM OtherLibrariesKept == Spec => []OthersKept
  <1>1. PreloadInv => OthersKept
    <2> SUFFICES ASSUME PreloadInv, ~torn, ~clash
                 PROVE  \/ Others(file) = Others(original)
                        \/ \E p \in Procs : proc[p].step = "write" /\ Others(proc[p].tmp) = Others(original)
      BY DEF OthersKept
    <2>1. Safe(file, proc) /\ file \in Seq(Chars) /\ original \in Seq(Chars)
      BY DEF PreloadInv, KeepInv, TypeInv
    <2>2. CASE \A p \in Procs : proc[p].step # "write"
      <3>1. Padded(original, Filtered(file))
        BY <2>1, <2>2 DEF Safe
      <3>2. Others(Filtered(file)) = Others(original) /\ Others(Filtered(file)) = Others(file)
        BY <2>1, <3>1, PaddedFile, FilteredFile
      <3> QED
        BY <3>2
    <2>3. ASSUME NEW p \in Procs, proc[p].step = "write"
          PROVE  Others(proc[p].tmp) = Others(original)
      <3>1. Padded(original, proc[p].tmp)
        BY <2>1, <2>3 DEF Safe
      <3> QED
        BY <2>1, <3>1, PaddedFile
    <2> QED
      BY <2>2, <2>3
  <1> QED
    BY <1>1, PreloadAlways, PTL

(* When none is running, the command completed last has its effect.  An    *)
(* enable has left the library listed, whatever ran beside it and was      *)
(* killed before it.  Of commands that ran one after the other, each       *)
(* perhaps killed at any step, an enable has left it listed once or not    *)
(* more often than the original file had it, a disable not at all.         *)
THEOREM LastCommandObeyed == Spec => []LastCommandHolds
  <1>1. PreloadInv => LastCommandHolds
    <2> SUFFICES ASSUME PreloadInv, \A p \in Procs : ~Busy(p)
                 PROVE  /\ last = "enable" => LibLines(file) > 0
                        /\ ~crowded /\ last = "enable" => \/ LibLines(file) = 1
                                                         \/ LibLines(file) <= LibLines(original)
                        /\ ~crowded /\ last = "disable" => LibLines(file) = 0
      BY DEF LastCommandHolds
    <2>1. last = "enable" => LibLines(file) > 0
      BY DEF PreloadInv, ListedInv, Busy, Replaces
    <2>2. ~crowded => Few(file) /\ Left(last, file)
      BY DEF PreloadInv, AloneInv
    <2>3. LibLines(file) \in Nat
      BY LibLinesType DEF PreloadInv, TypeInv
    <2> QED
      BY <2>1, <2>2, <2>3 DEF Few, Left
  <1> QED
    BY <1>1, PreloadAlways, PTL
=============================================================================
