------------------------ MODULE MemoryReportsProofs -------------------------
(***************************************************************************)
(* The answers of sysinfo, sysconf and the virtual meminfo, for any number *)
(* of threads, any cgroup tree, any numbers and any change of the files.   *)
(*                                                                         *)
(* The first half is about the operators: parse_u64_token reads what a     *)
(* token spells, a detection looks at the directories the lines of         *)
(* /proc/self/cgroup lead to, and what each interface says is true of the  *)
(* snapshot it is given.  The second half is about the steps.  The limit   *)
(* is written only by a detection, a detection runs only while no limit    *)
(* was detected, and under the lock (MemoryInv); what a detection has      *)
(* chosen so far is right for the candidates it has passed, as far as they *)
(* were left alone (ScanInv).                                              *)
(***************************************************************************)
EXTENDS MemoryReports, SelectionProofs

-----------------------------------------------------------------------------
(* Numbers *)

LEMMA Quotient ==
    ASSUME NEW a \in Nat, NEW s \in Nat \ {0}
    PROVE  a \div s \in Nat /\ a \div s <= a
  <1>1. a \div s \in Nat
    BY SMT
  <1>2. a \div s <= a
    BY SMT
  <1> QED
    BY <1>1, <1>2

LEMMA QuotientMonotone ==
    ASSUME NEW a \in Nat, NEW b \in Nat, a <= b, NEW s \in Nat \ {0}
    PROVE  a \div s <= b \div s
  BY SMT

LEMMA LastDigit ==
    ASSUME NEW q \in Nat, NEW d \in Digits
    PROVE  (10 * q + d) \div 10 = q /\ (10 * q + d) % 10 = d
  BY SMT DEF Digits

LEMMA DigitSplit ==
    ASSUME NEW n \in Nat
    PROVE  n \div 10 \in Nat /\ n % 10 \in Digits /\ n = 10 * (n \div 10) + (n % 10)
  <1> DEFINE P == {m \in Nat : \E q \in Nat, d \in Digits : m = 10 * q + d}
  <1>1. 0 \in P
    <2>1. 0 = 10 * 0 + 0 /\ 0 \in Digits
      BY DEF Digits
    <2> QED
      BY <2>1
  <1>2. ASSUME NEW m \in Nat, m \in P PROVE m + 1 \in P
    <2>1. PICK q \in Nat, d \in Digits : m = 10 * q + d
      BY <1>2
    <2>2. CASE d = 9
      <3>1. PICK r \in Nat, z \in Digits : r = q + 1 /\ z = 0
        BY DEF Digits
      <3>2. m + 1 = 10 * r + z
        BY <2>1, <2>2, <3>1
      <3> QED
        BY <3>2
    <2>3. CASE d # 9
      <3>1. m + 1 = 10 * q + (d + 1) /\ d + 1 \in Digits
        BY <2>1, <2>3 DEF Digits
      <3> QED
        BY <3>1
    <2> QED
      BY <2>2, <2>3
  <1> HIDE DEF P
  <1>3. n \in P
    BY <1>1, <1>2, NumberInduction
  <1>4. PICK q \in Nat, d \in Digits : n = 10 * q + d
    BY <1>3 DEF P
  <1>5. n \div 10 = q /\ n % 10 = d
    <2>1. (10 * q + d) \div 10 = q /\ (10 * q + d) % 10 = d
      BY LastDigit, Zenon
    <2> QED
      BY <1>4, <2>1, Zenon
  <1> DEFINE a == n \div 10
             b == n % 10
  <1>6. a = q /\ b = d
    BY <1>5
  <1> HIDE DEF a, b
  <1>7. a \in Nat /\ b \in Digits /\ n = 10 * a + b
    BY <1>4, <1>6
  <1> QED
    BY <1>7 DEF a, b

-----------------------------------------------------------------------------
(* Tokens *)

Parsed == 0..U64Max \cup {None}

Tokens == Seq(Digits \cup {Letter})

(* The test of parse_u64_token is exact: it refuses the digit that would   *)
(* overflow, and no other.                                                 *)
LEMMA AddDigitExact ==
    ASSUME NEW v \in Parsed, NEW d \in Digits \cup {Letter}
    PROVE  /\ AddDigit(v, d) \in Parsed
           /\ AddDigit(v, d) # None => v # None /\ d \in Digits /\ AddDigit(v, d) = 10 * v + d
           /\ v # None /\ d \in Digits /\ 10 * v + d <= U64Max => AddDigit(v, d) = 10 * v + d
  <1>1. CASE v = None \/ d \notin Digits
    BY <1>1 DEF AddDigit, Parsed
  <1>2. CASE v # None /\ d \in Digits
    <2>1. v \in Nat /\ d \in 0..9 /\ U64Max \in Nat /\ None \notin Nat
      BY <1>2, CgroupAssumption DEF Parsed, Digits
    <2>2. v * 10 + d <= U64Max <=> ~(v > (U64Max - d) \div 10)
      BY <2>1, SMT
    <2>3. v * 10 + d = 10 * v + d /\ v * 10 + d \in Nat
      BY <2>1
    <2>4. AddDigit(v, d) = IF v * 10 + d <= U64Max THEN v * 10 + d ELSE None
      BY <1>2, <2>2, Zenon DEF AddDigit
    <2>5. CASE v * 10 + d <= U64Max
      <3>1. AddDigit(v, d) = 10 * v + d /\ 10 * v + d \in 0..U64Max
        BY <2>1, <2>3, <2>4, <2>5
      <3> QED
        BY <1>2, <3>1, Zenon DEF Parsed
    <2>6. CASE ~(v * 10 + d <= U64Max)
      <3>1. AddDigit(v, d) = None /\ ~(10 * v + d <= U64Max)
        BY <2>3, <2>4, <2>6
      <3> QED
        BY <3>1, Zenon DEF Parsed
    <2> QED
      BY <2>5, <2>6
  <1> QED
    BY <1>1, <1>2

LEMMA ValuesTurns ==
    ASSUME NEW token \in Tokens
    PROVE  /\ Values(token)[0] = 0
           /\ \A i \in 1..Len(token) : Values(token)[i] = AddDigit(Values(token)[i - 1], token[i])
           /\ \A i \in 0..Len(token) : Values(token)[i] \in Parsed
  <1> DEFINE n == Len(token)
             turn == [i \in 1..n |-> [v \in Parsed |-> AddDigit(v, token[i])]]
             g == Values(token)
  <1>1. n \in Nat /\ \A i \in 1..n : token[i] \in Digits \cup {Letter}
    BY LenProperties, ElementOfSeq DEF Tokens
  <1>2. turn \in [1..n -> [Parsed -> Parsed]]
    BY <1>1, AddDigitExact
  <1>3. \A i \in 1..n, v \in Parsed : turn[i][v] = AddDigit(v, token[i])
    OBVIOUS
  <1>4. 0 \in Parsed
    BY CgroupAssumption DEF Parsed
  <1> HIDE DEF n, turn
  <1>5. PICK f : Runs(f, Parsed, n, 0, turn)
    BY <1>1, <1>2, <1>4, Recursion, Zenon
  <1>6. ASSUME NEW i \in 0..n
        PROVE  f[i] = IF i = 0 THEN 0 ELSE AddDigit(f[i - 1], token[i])
    <2>1. CASE i = 0
      BY <1>5, <2>1 DEF Runs
    <2>2. CASE i # 0
      <3>1. i \in 1..n /\ i - 1 \in 0..n
        BY <1>1, <2>2
      <3>2. f[i - 1] \in Parsed /\ f[i] = turn[i][f[i - 1]]
        BY <1>5, <3>1 DEF Runs
      <3> QED
        BY <1>3, <2>2, <3>1, <3>2
    <2> QED
      BY <2>1, <2>2
  <1>7. f = [i \in 0..n |-> IF i = 0 THEN 0 ELSE AddDigit(f[i - 1], token[i])]
    <2>1. f = [i \in 0..n |-> f[i]]
      BY <1>5 DEF Runs
    <2> QED
      BY <1>6, <2>1, Zenon
  <1>8. g = [i \in 0..n |-> IF i = 0 THEN 0 ELSE AddDigit(g[i - 1], token[i])]
    BY <1>7, Zenon DEF Values, n
  <1> HIDE DEF g
  <1>9. /\ g[0] = 0
        /\ \A i \in 1..n : g[i] = AddDigit(g[i - 1], token[i])
    <2>1. 0 \in 0..n /\ \A i \in 1..n : i \in 0..n /\ i # 0
      BY <1>1
    <2> QED
      BY <1>8, <2>1, Zenon
  <1> DEFINE P == {i \in Nat : i <= n => g[i] \in Parsed}
  <1>10. 0 \in P
    BY <1>4, <1>9
  <1>11. ASSUME NEW i \in Nat, i \in P PROVE i + 1 \in P
    <2> SUFFICES ASSUME i + 1 <= n PROVE g[i + 1] \in Parsed
      OBVIOUS
    <2>1. g[i] \in Parsed /\ i + 1 \in 1..n /\ (i + 1) - 1 = i
      BY <1>1, <1>11
    <2> QED
      BY <1>1, <1>9, <2>1, AddDigitExact
  <1> HIDE DEF P
  <1>12. Nat \subseteq P
    BY <1>10, <1>11, NumberInduction
  <1>13. \A i \in 0..n : g[i] \in Parsed
    BY <1>1, <1>12 DEF P
  <1> QED
    BY <1>9, <1>13 DEF g, n

LEMMA QuotientsTurns ==
    ASSUME NEW n \in Nat, NEW k \in Nat
    PROVE  /\ Quotients(n, k)[0] = n
           /\ \A i \in 1..k : Quotients(n, k)[i] = Quotients(n, k)[i - 1] \div 10
           /\ \A i \in 0..k : Quotients(n, k)[i] \in 0..n
  <1> DEFINE turn == [i \in 1..k |-> [v \in 0..n |-> v \div 10]]
             g == Quotients(n, k)
  <1>1. \A v \in 0..n : v \div 10 \in 0..n
    BY Quotient
  <1>2. turn \in [1..k -> [0..n -> 0..n]]
    BY <1>1
  <1>3. \A i \in 1..k, v \in 0..n : turn[i][v] = v \div 10
    OBVIOUS
  <1> HIDE DEF turn
  <1>4. n \in 0..n
    OBVIOUS
  <1>5. PICK f : Runs(f, 0..n, k, n, turn)
    BY <1>2, <1>4, Recursion, Zenon
  <1>6. ASSUME NEW i \in 0..k
        PROVE  f[i] = IF i = 0 THEN n ELSE f[i - 1] \div 10
    <2>1. CASE i = 0
      BY <1>5, <2>1 DEF Runs
    <2>2. CASE i # 0
      <3>1. i \in 1..k /\ i - 1 \in 0..k
        BY <2>2
      <3>2. f[i - 1] \in 0..n /\ f[i] = turn[i][f[i - 1]]
        BY <1>5, <3>1 DEF Runs
      <3>3. f[i] = f[i - 1] \div 10
        BY <1>3, <3>1, <3>2, Zenon
      <3> QED
        BY <2>2, <3>3, Zenon
    <2> QED
      BY <2>1, <2>2
  <1>7. f = [i \in 0..k |-> IF i = 0 THEN n ELSE f[i - 1] \div 10]
    <2>1. f = [i \in 0..k |-> f[i]]
      BY <1>5 DEF Runs
    <2> QED
      BY <1>6, <2>1, Zenon
  <1>8. g = [i \in 0..k |-> IF i = 0 THEN n ELSE g[i - 1] \div 10]
    BY <1>7, Zenon DEF Quotients
  <1> HIDE DEF g
  <1>9. /\ g[0] = n
        /\ \A i \in 1..k : g[i] = g[i - 1] \div 10
    <2>1. 0 \in 0..k /\ \A i \in 1..k : i \in 0..k /\ i # 0
      OBVIOUS
    <2> QED
      BY <1>8, <2>1, Zenon
  <1> DEFINE P == {i \in Nat : i <= k => g[i] \in 0..n}
  <1>10. 0 \in P
    BY <1>9
  <1>11. ASSUME NEW i \in Nat, i \in P PROVE i + 1 \in P
    <2> SUFFICES ASSUME i + 1 <= k PROVE g[i + 1] \in 0..n
      OBVIOUS
    <2>1. g[i] \in 0..n /\ i + 1 \in 1..k /\ (i + 1) - 1 = i
      BY <1>11
    <2>2. g[i + 1] = g[i] \div 10
      BY <1>9, <2>1
    <2> QED
      BY <1>1, <2>1, <2>2, Zenon
  <1> HIDE DEF P
  <1>12. Nat \subseteq P
    BY <1>10, <1>11, NumberInduction
  <1>13. \A i \in 0..k : g[i] \in 0..n
    BY <1>12 DEF P
  <1> QED
    BY <1>9, <1>13 DEF g

(* parse_u64_token reads a number that fits into 64 bits as what it says. *)
LEMMA SpelledIsParsed ==
    ASSUME NEW token \in Tokens, NEW n \in 0..U64Max, Spells(token, n)
    PROVE  ParseU64(token) = n
  <1> DEFINE k == Len(token)
             v == Values(token)
             q == Quotients(n, k)
  <1>1. k \in Nat /\ n \in Nat /\ U64Max \in Nat /\ n <= U64Max /\ None \notin Nat
    BY LenProperties, CgroupAssumption DEF Tokens
  <1>2. DOMAIN token = 1..k /\ \A i \in 1..k : token[i] \in Digits \cup {Letter}
    BY LenProperties, ElementOfSeq DEF Tokens
  <1>3. /\ token # <<>> /\ q[k] = 0
        /\ \A i \in 1..k : token[i] = q[k - i] % 10
    BY <1>2, Zenon DEF Spells
  <1>4. /\ q[0] = n
        /\ \A i \in 1..k : q[i] = q[i - 1] \div 10
        /\ \A i \in 0..k : q[i] \in 0..n
    <2> HIDE DEF k
    <2> QED
      BY <1>1, QuotientsTurns, Zenon
  <1>5. /\ v[0] = 0
        /\ \A i \in 1..k : v[i] = AddDigit(v[i - 1], token[i])
    BY ValuesTurns, Zenon
  <1> HIDE DEF k, v, q
  <1> DEFINE P == {i \in Nat : i <= k => v[i] = q[k - i]}
  <1>6. 0 \in P
    BY <1>1, <1>3, <1>5
  <1>7. ASSUME NEW i \in Nat, i \in P PROVE i + 1 \in P
    <2> SUFFICES ASSUME i + 1 <= k PROVE v[i + 1] = q[k - (i + 1)]
      OBVIOUS
    <2>1. PICK j \in Nat : j = k - (i + 1)
      BY <1>1
    <2>2. /\ i + 1 \in 1..k /\ (i + 1) - 1 = i /\ j \in 0..k
          /\ k - i \in 1..k /\ (k - i) - 1 = j /\ k - (i + 1) = j
      BY <1>1, <2>1
    <2>3. v[i] = q[k - i] /\ q[k - i] = q[j] \div 10
      BY <1>1, <1>4, <1>7, <2>2
    <2>4. token[i + 1] = q[j] % 10 /\ v[i + 1] = AddDigit(v[i], token[i + 1])
      BY <1>3, <1>5, <2>2
    <2>5. q[j] \in Nat /\ q[j] <= U64Max
      BY <1>1, <1>4, <2>2
    <2>6. PICK m \in Nat : m = q[j]
      BY <2>5
    <2>7. PICK a \in Nat, d \in Digits : a = m \div 10 /\ d = m % 10 /\ m = 10 * a + d
      BY DigitSplit
    <2>8. v[i + 1] = AddDigit(a, d) /\ a <= m
      BY <2>3, <2>4, <2>6, <2>7 DEF Digits
    <2>9. a \in Parsed /\ a # None /\ 10 * a + d <= U64Max
      BY <1>1, <2>5, <2>6, <2>7, <2>8 DEF Parsed
    <2>10. AddDigit(a, d) = 10 * a + d
      BY <2>9, AddDigitExact, Zenon
    <2> QED
      BY <2>2, <2>6, <2>7, <2>8, <2>10
  <1> HIDE DEF P
  <1>8. Nat \subseteq P
    BY <1>6, <1>7, NumberInduction
  <1>9. v[k] = q[0]
    BY <1>1, <1>8 DEF P
  <1> QED
    BY <1>3, <1>4, <1>9 DEF ParseU64, v, k

(* A token that is parsed spells the value, and no digit was lost. *)
LEMMA ParsedIsSpelled ==
    ASSUME NEW token \in Tokens, ParseU64(token) # None
    PROVE  ParseU64(token) \in 0..U64Max /\ Spells(token, ParseU64(token))
  <1> DEFINE k == Len(token)
             v == Values(token)
             n == v[k]
             q == Quotients(n, k)
  <1>1. k \in Nat /\ U64Max \in Nat /\ None \notin Nat
    BY LenProperties, CgroupAssumption DEF Tokens
  <1>2. DOMAIN token = 1..k /\ \A i \in 1..k : token[i] \in Digits \cup {Letter}
    BY LenProperties, ElementOfSeq DEF Tokens
  <1>3. /\ v[0] = 0
        /\ \A i \in 1..k : v[i] = AddDigit(v[i - 1], token[i])
        /\ \A i \in 0..k : v[i] \in Parsed
    BY ValuesTurns, Zenon
  <1>4. token # <<>> /\ ParseU64(token) = n /\ n # None
    BY DEF ParseU64
  <1> HIDE DEF k, v, n, q
  <1>5. n \in 0..U64Max /\ n \in Nat
    BY <1>1, <1>3, <1>4 DEF n, Parsed
  <1>6. /\ q[0] = n
        /\ \A i \in 1..k : q[i] = q[i - 1] \div 10
    BY <1>1, <1>5, QuotientsTurns, Zenon DEF q
  <1> DEFINE P == {i \in Nat : i <= k => q[i] = v[k - i] /\ v[k - i] # None}
  <1>7. 0 \in P
    BY <1>1, <1>4, <1>6 DEF n
  <1>8. ASSUME NEW i \in 1..k, v[i] # None
        PROVE  v[i - 1] # None /\ v[i - 1] = v[i] \div 10 /\ token[i] = v[i] % 10
    <2>1. i - 1 \in 0..k /\ i \in 0..k
      BY <1>1
    <2>2. v[i - 1] \in Parsed /\ token[i] \in Digits \cup {Letter} /\ v[i] = AddDigit(v[i - 1], token[i])
      BY <1>2, <1>3, <2>1
    <2>3. v[i - 1] # None /\ token[i] \in Digits /\ v[i] = 10 * v[i - 1] + token[i]
      BY <1>8, <2>2, AddDigitExact, Zenon
    <2>4. v[i - 1] \in Nat
      BY <2>2, <2>3 DEF Parsed
    <2> QED
      BY <2>3, <2>4, LastDigit
  <1>9. ASSUME NEW i \in Nat, i \in P PROVE i + 1 \in P
    <2> SUFFICES ASSUME i + 1 <= k PROVE q[i + 1] = v[k - (i + 1)] /\ v[k - (i + 1)] # None
      OBVIOUS
    <2>1. PICK j \in 1..k : j = k - i
      BY <1>1
    <2>2. j - 1 = k - (i + 1) /\ i + 1 \in 1..k /\ (i + 1) - 1 = i
      BY <1>1, <2>1
    <2>3. q[i] = v[j] /\ v[j] # None
      BY <1>9, <2>1, <1>1
    <2>4. q[i + 1] = q[i] \div 10
      BY <1>6, <2>2
    <2>5. v[j - 1] # None /\ v[j - 1] = v[j] \div 10
      BY <1>8, <2>3, Zenon
    <2> QED
      BY <2>2, <2>3, <2>4, <2>5, Zenon
  <1> HIDE DEF P
  <1>10. Nat \subseteq P
    BY <1>7, <1>9, NumberInduction
  <1>11. ASSUME NEW i \in 0..k PROVE q[k - i] = v[i] /\ v[i] # None
    <2>1. k - i \in Nat /\ k - i <= k /\ k - (k - i) = i
      BY <1>1
    <2> QED
      BY <1>10, <2>1 DEF P
  <1>12. q[k] = 0
    <2>1. k - 0 = k /\ 0 \in 0..k
      BY <1>1
    <2> QED
      BY <1>3, <1>11, <2>1
  <1>13. \A i \in 1..k : token[i] = q[k - i] % 10
    <2>1. \A i \in 1..k : i \in 0..k
      BY <1>1
    <2> QED
      BY <1>8, <1>11, <2>1, Zenon
  <1>14. Spells(token, n)
    BY <1>2, <1>4, <1>12, <1>13, Zenon DEF Spells, q, k
  <1> QED
    BY <1>4, <1>5, <1>14

(* parse_u64_token is exact: a token is read as n just when it spells n,   *)
(* for every token and every number of 64 bits.                            *)
THEOREM ParseExact ==
    \A token \in Tokens, n \in 0..U64Max : ParseU64(token) = n <=> Spells(token, n)
  BY SpelledIsParsed, ParsedIsSpelled, CgroupAssumption

-----------------------------------------------------------------------------
(* The text of /proc/meminfo *)

Lines == [key : Keys, value : Nat, len : Nat]

LEMMA LengthsTurns ==
    ASSUME NEW k \in Nat, NEW lines, Len(lines) = k, \A i \in 1..k : lines[i].len \in Nat
    PROVE  /\ Lengths(lines)[0] = 0
           /\ \A i \in 1..k : Lengths(lines)[i] = Lengths(lines)[i - 1] + lines[i].len
           /\ \A i \in 0..k : Lengths(lines)[i] \in Nat
  <1> DEFINE turn == [i \in 1..k |-> [v \in Nat |-> v + lines[i].len]]
             g == Lengths(lines)
  <1>1. turn \in [1..k -> [Nat -> Nat]]
    OBVIOUS
  <1>2. \A i \in 1..k, v \in Nat : turn[i][v] = v + lines[i].len
    OBVIOUS
  <1> HIDE DEF turn
  <1>3. 0 \in Nat
    OBVIOUS
  <1>4. PICK f : Runs(f, Nat, k, 0, turn)
    BY <1>1, <1>3, Recursion, Zenon
  <1>5. ASSUME NEW i \in 0..k
        PROVE  f[i] = IF i = 0 THEN 0 ELSE f[i - 1] + lines[i].len
    <2>1. CASE i = 0
      BY <1>4, <2>1 DEF Runs
    <2>2. CASE i # 0
      <3>1. i \in 1..k /\ i - 1 \in 0..k
        BY <2>2
      <3>2. f[i - 1] \in Nat /\ f[i] = turn[i][f[i - 1]]
        BY <1>4, <3>1 DEF Runs
      <3>3. f[i] = f[i - 1] + lines[i].len
        BY <1>2, <3>1, <3>2, Zenon
      <3> QED
        BY <2>2, <3>3, Zenon
    <2> QED
      BY <2>1, <2>2
  <1>6. f = [i \in 0..k |-> IF i = 0 THEN 0 ELSE f[i - 1] + lines[i].len]
    <2>1. f = [i \in 0..k |-> f[i]]
      BY <1>4 DEF Runs
    <2> QED
      BY <1>5, <2>1, Zenon
  <1>7. g = [i \in 0..k |-> IF i = 0 THEN 0 ELSE g[i - 1] + lines[i].len]
    BY <1>6, Zenon DEF Lengths
  <1> HIDE DEF g
  <1>8. /\ g[0] = 0
        /\ \A i \in 1..k : g[i] = g[i - 1] + lines[i].len
    <2>1. 0 \in 0..k /\ \A i \in 1..k : i \in 0..k /\ i # 0
      OBVIOUS
    <2> QED
      BY <1>7, <2>1, Zenon
  <1> DEFINE P == {i \in Nat : i <= k => g[i] \in Nat}
  <1>9. 0 \in P
    BY <1>8
  <1>10. ASSUME NEW i \in Nat, i \in P PROVE i + 1 \in P
    <2> SUFFICES ASSUME i + 1 <= k PROVE g[i + 1] \in Nat
      OBVIOUS
    <2>1. g[i] \in Nat /\ i + 1 \in 1..k /\ (i + 1) - 1 = i
      BY <1>10
    <2>2. g[i + 1] = g[i] + lines[i + 1].len
      BY <1>8, <2>1
    <2> QED
      BY <2>1, <2>2
  <1> HIDE DEF P
  <1>11. Nat \subseteq P
    BY <1>9, <1>10, NumberInduction
  <1>12. \A i \in 0..k : g[i] \in Nat
    BY <1>11 DEF P
  <1> QED
    BY <1>8, <1>12 DEF g

LEMMA LengthNat ==
    ASSUME NEW k \in Nat, NEW lines, Len(lines) = k, \A i \in 1..k : lines[i].len \in Nat
    PROVE  Length(lines) \in Nat
  <1>1. \A i \in 0..k : Lengths(lines)[i] \in Nat
    BY LengthsTurns, Zenon
  <1>2. k \in 0..k
    OBVIOUS
  <1> QED
    BY <1>1, <1>2 DEF Length

(* The length of a text depends on the lengths of its lines only. *)
LEMMA LengthSame ==
    ASSUME NEW k \in Nat, NEW l, NEW m, Len(l) = k, Len(m) = k,
           \A i \in 1..k : l[i].len \in Nat /\ m[i].len = l[i].len
    PROVE  Length(m) = Length(l)
  <1> DEFINE f == Lengths(l)
             g == Lengths(m)
  <1>1. f[0] = 0 /\ \A i \in 1..k : f[i] = f[i - 1] + l[i].len
    BY LengthsTurns, Zenon
  <1>2. g[0] = 0 /\ \A i \in 1..k : g[i] = g[i - 1] + m[i].len
    <2>1. \A i \in 1..k : m[i].len \in Nat
      OBVIOUS
    <2> QED
      BY <2>1, LengthsTurns, Zenon
  <1> HIDE DEF f, g
  <1> DEFINE P == {i \in Nat : i <= k => g[i] = f[i]}
  <1>3. 0 \in P
    BY <1>1, <1>2
  <1>4. ASSUME NEW i \in Nat, i \in P PROVE i + 1 \in P
    <2> SUFFICES ASSUME i + 1 <= k PROVE g[i + 1] = f[i + 1]
      OBVIOUS
    <2>1. g[i] = f[i] /\ i + 1 \in 1..k /\ (i + 1) - 1 = i
      BY <1>4
    <2> QED
      BY <1>1, <1>2, <2>1
  <1> HIDE DEF P
  <1>5. Nat \subseteq P
    BY <1>3, <1>4, NumberInduction
  <1>6. g[k] = f[k]
    BY <1>5 DEF P
  <1> QED
    BY <1>6 DEF Length, f, g

-----------------------------------------------------------------------------
(* The directories a detection looks at *)

(* The directories the lines of /proc/self/cgroup lead to. *)
Directories(m) ==
    {c[1] : c \in {Candidate(m.groups[i], m.mounts) : i \in DOMAIN m.groups} \ {<<>>}}

LEMMA CandidateOne ==
    ASSUME NEW line, NEW mounts
    PROVE  Candidate(line, mounts) = <<>> \/ \E g : Candidate(line, mounts) = <<g>>
  BY DEF Candidate

LEMMA CandidatesTurns ==
    ASSUME NEW m \in Machines
    PROVE  /\ CandidatesUpTo(m)[0] = <<>>
           /\ \A i \in 1..Len(m.groups) :
                  CandidatesUpTo(m)[i] = CandidatesUpTo(m)[i - 1] \o Candidate(m.groups[i], m.mounts)
           /\ \A i \in 1..Len(m.groups) : Candidate(m.groups[i], m.mounts) \in Seq(Directories(m))
  <1> DEFINE k == Len(m.groups)
             T == Seq(Directories(m))
             turn == [i \in 1..k |-> [v \in T |-> v \o Candidate(m.groups[i], m.mounts)]]
             g == CandidatesUpTo(m)
  <1>1. k \in Nat /\ DOMAIN m.groups = 1..k
    BY MemoryAssumption, LenProperties
  <1>2. ASSUME NEW i \in 1..k PROVE Candidate(m.groups[i], m.mounts) \in T
    <2> DEFINE c == Candidate(m.groups[i], m.mounts)
    <2>1. CASE c = <<>>
      BY <2>1, EmptySeq
    <2>2. CASE \E d : c = <<d>>
      <3>1. PICK d : c = <<d>>
        BY <2>2
      <3>2. c[1] = d
        BY <3>1
      <3>3. d \in Directories(m)
        BY <1>1, <3>1, <3>2, Zenon DEF Directories
      <3>4. <<d>> \in Seq(Directories(m))
        BY <3>3
      <3> QED
        BY <3>1, <3>4, Zenon
    <2> QED
      BY <2>1, <2>2, CandidateOne, Zenon
  <1>3. <<>> \in T /\ \A v, w \in T : v \o w \in T
    BY EmptySeq, ConcatProperties
  <1> HIDE DEF k, T
  <1>4. turn \in [1..k -> [T -> T]]
    BY <1>2, <1>3
  <1>5. \A i \in 1..k, v \in T : turn[i][v] = v \o Candidate(m.groups[i], m.mounts)
    OBVIOUS
  <1> HIDE DEF turn
  <1>6. PICK f : Runs(f, T, k, <<>>, turn)
    BY <1>1, <1>3, <1>4, Recursion, Zenon
  <1>7. ASSUME NEW i \in 0..k
        PROVE  f[i] = IF i = 0 THEN <<>> ELSE f[i - 1] \o Candidate(m.groups[i], m.mounts)
    <2>1. CASE i = 0
      BY <1>6, <2>1, Zenon DEF Runs
    <2>2. CASE i # 0
      <3>1. i \in 1..k /\ i - 1 \in 0..k
        BY <1>1, <2>2
      <3>2. f[i - 1] \in T /\ f[i] = turn[i][f[i - 1]]
        BY <1>6, <3>1 DEF Runs
      <3>3. f[i] = f[i - 1] \o Candidate(m.groups[i], m.mounts)
        BY <1>5, <3>1, <3>2, Zenon
      <3> QED
        BY <2>2, <3>3, Zenon
    <2> QED
      BY <2>1, <2>2
  <1>8. f = [i \in 0..k |-> IF i = 0 THEN <<>> ELSE f[i - 1] \o Candidate(m.groups[i], m.mounts)]
    <2>1. f = [i \in 0..k |-> f[i]]
      BY <1>6 DEF Runs
    <2> QED
      BY <1>7, <2>1, Zenon
  <1>9. g = [i \in 0..k |-> IF i = 0 THEN <<>> ELSE g[i - 1] \o Candidate(m.groups[i], m.mounts)]
    BY <1>8, Zenon DEF CandidatesUpTo, k
  <1> HIDE DEF g
  <1>10. /\ g[0] = <<>>
         /\ \A i \in 1..k : g[i] = g[i - 1] \o Candidate(m.groups[i], m.mounts)
    <2>1. 0 \in 0..k /\ \A i \in 1..k : i \in 0..k /\ i # 0
      BY <1>1
    <2> QED
      BY <1>9, <2>1, Zenon
  <1> QED
    BY <1>2, <1>10, Zenon DEF g, k, T

(* Everything that occurs in a sequence. *)
Occurs(s) == {s[i] : i \in DOMAIN s}

LEMMA OccursConcat ==
    ASSUME NEW D, NEW v \in Seq(D), NEW w \in Seq(D)
    PROVE  Occurs(v \o w) = Occurs(v) \cup Occurs(w)
  <1> DEFINE u == v \o w
  <1>1. /\ u \in Seq(D) /\ Len(u) = Len(v) + Len(w)
        /\ \A i \in 1..(Len(v) + Len(w)) : u[i] = IF i <= Len(v) THEN v[i] ELSE w[i - Len(v)]
    BY ConcatProperties
  <1>2. /\ Len(v) \in Nat /\ Len(w) \in Nat
        /\ DOMAIN v = 1..Len(v) /\ DOMAIN w = 1..Len(w) /\ DOMAIN u = 1..(Len(v) + Len(w))
    BY <1>1, LenProperties
  <1> HIDE DEF u
  <1>3. ASSUME NEW i \in DOMAIN u PROVE u[i] \in Occurs(v) \cup Occurs(w)
    <2>1. CASE i <= Len(v)
      BY <1>1, <1>2, <2>1 DEF Occurs
    <2>2. CASE i > Len(v)
      <3>1. i - Len(v) \in DOMAIN w /\ u[i] = w[i - Len(v)]
        BY <1>1, <1>2, <2>2
      <3> QED
        BY <3>1 DEF Occurs
    <2> QED
      BY <1>2, <2>1, <2>2
  <1>4. ASSUME NEW i \in DOMAIN v PROVE v[i] \in Occurs(u)
    <2>1. i \in DOMAIN u /\ u[i] = v[i]
      BY <1>1, <1>2
    <2> QED
      BY <2>1 DEF Occurs
  <1>5. ASSUME NEW i \in DOMAIN w PROVE w[i] \in Occurs(u)
    <2>1. i + Len(v) \in DOMAIN u /\ (i + Len(v)) - Len(v) = i /\ ~(i + Len(v) <= Len(v))
      BY <1>2
    <2>2. u[i + Len(v)] = w[i]
      BY <1>1, <1>2, <2>1
    <2> QED
      BY <2>1, <2>2 DEF Occurs
  <1> QED
    BY <1>3, <1>4, <1>5 DEF Occurs, u

(* The directories the first n lines lead to. *)
Leading(c, D, n) == {d \in D : \E i \in 1..n : c[i] = <<d>>}

(* A detection looks at the directories the lines lead to, all of them and *)
(* no other.                                                               *)
LEMMA CandidatesExact ==
    ASSUME NEW m \in Machines
    PROVE  Candidates(m) \in Seq(Directories(m)) /\ Occurs(Candidates(m)) = Directories(m)
  <1> DEFINE k == Len(m.groups)
             D == Directories(m)
             g == CandidatesUpTo(m)
             c == [i \in 1..k |-> Candidate(m.groups[i], m.mounts)]
  <1>1. k \in Nat /\ DOMAIN m.groups = 1..k
    BY MemoryAssumption, LenProperties
  <1>2. /\ g[0] = <<>>
        /\ \A i \in 1..k : g[i] = g[i - 1] \o c[i]
        /\ \A i \in 1..k : c[i] \in Seq(D)
    BY CandidatesTurns
  <1>3. \A d : d \in D <=> \E i \in 1..k : c[i] = <<d>>
    <2>1. ASSUME NEW d, NEW i \in 1..k, c[i] = <<d>> PROVE d \in D
      <3>1. Candidate(m.groups[i], m.mounts) = <<d>> /\ <<d>>[1] = d
        BY <2>1, Zenon
      <3> QED
        BY <1>1, <3>1, Zenon DEF Directories
    <2>2. ASSUME NEW d \in D PROVE \E i \in 1..k : c[i] = <<d>>
      <3>1. PICK x : /\ x \in {Candidate(m.groups[i], m.mounts) : i \in DOMAIN m.groups} \ {<<>>}
                     /\ d = x[1]
        BY DEF Directories
      <3>2. PICK i \in 1..k : x = Candidate(m.groups[i], m.mounts)
        BY <1>1, <3>1
      <3>3. PICK e : x = <<e>>
        BY <3>1, <3>2, CandidateOne, Zenon
      <3>4. d = e
        BY <3>1, <3>3
      <3>5. c[i] = x
        BY <3>2
      <3> QED
        BY <3>3, <3>4, <3>5
    <2> QED
      BY <2>1, <2>2
  <1>4. \A i \in 1..k : c[i] = <<>> \/ \E d : c[i] = <<d>>
    BY CandidateOne
  <1> HIDE DEF k, D, g, c
  <1> DEFINE P == {n \in Nat : n <= k => /\ g[n] \in Seq(D)
                                        /\ Occurs(g[n]) = Leading(c, D, n)}
  <1>5. 0 \in P
    <2>1. g[0] \in Seq(D) /\ DOMAIN g[0] = {}
      BY <1>2, EmptySeq
    <2>2. Occurs(g[0]) = {}
      BY <2>1 DEF Occurs
    <2>3. Leading(c, D, 0) = {}
      BY DEF Leading
    <2> QED
      BY <2>1, <2>2, <2>3
  <1>6. ASSUME NEW n \in Nat, n \in P PROVE n + 1 \in P
    <2> SUFFICES ASSUME n + 1 <= k
                 PROVE  /\ g[n + 1] \in Seq(D)
                        /\ Occurs(g[n + 1]) = Leading(c, D, n + 1)
      OBVIOUS
    <2>1. n + 1 \in 1..k /\ (n + 1) - 1 = n /\ n <= k
      BY <1>1
    <2>2. /\ g[n] \in Seq(D) /\ Occurs(g[n]) = Leading(c, D, n)
          /\ c[n + 1] \in Seq(D) /\ g[n + 1] = g[n] \o c[n + 1]
      BY <1>2, <1>6, <2>1
    <2>3. g[n + 1] \in Seq(D)
      BY <2>2, ConcatProperties, Zenon
    <2>4. Occurs(g[n + 1]) = Occurs(g[n]) \cup Occurs(c[n + 1])
      <3>1. Occurs(g[n] \o c[n + 1]) = Occurs(g[n]) \cup Occurs(c[n + 1])
        BY <2>2, OccursConcat
      <3> QED
        BY <2>2, <3>1, Zenon
    <2>5. Occurs(c[n + 1]) = {d \in D : c[n + 1] = <<d>>}
      <3>1. CASE c[n + 1] = <<>>
        BY <3>1 DEF Occurs
      <3>2. CASE \E d : c[n + 1] = <<d>>
        <4>1. PICK d : c[n + 1] = <<d>>
          BY <3>2
        <4>2. d \in D
          BY <1>3, <2>1, <4>1
        <4>3. Occurs(<<d>>) = {d}
          BY DEF Occurs
        <4>4. \A e : <<d>> = <<e>> <=> d = e
          OBVIOUS
        <4> QED
          BY <4>1, <4>2, <4>3, <4>4
      <3> QED
        BY <1>4, <2>1, <3>1, <3>2
    <2>6. \A i : i \in 1..(n + 1) <=> i \in 1..n \/ i = n + 1
      OBVIOUS
    <2>7. Occurs(g[n + 1]) = Leading(c, D, n + 1)
      BY <2>2, <2>4, <2>5, <2>6, Zenon DEF Leading
    <2> QED
      BY <2>3, <2>7
  <1> HIDE DEF P
  <1>7. Nat \subseteq P
    BY <1>5, <1>6, NumberInduction
  <1>8. g[k] \in Seq(D) /\ Occurs(g[k]) = Leading(c, D, k)
    BY <1>1, <1>7 DEF P
  <1>9. Leading(c, D, k) = D
    BY <1>3, Zenon DEF Leading
  <1> QED
    BY <1>8, <1>9, Zenon DEF Candidates, g, k, D

-----------------------------------------------------------------------------
(* What the interfaces make of a snapshot *)

Limits == 0..(Sentinel - 1)

Snapshots(n) == [total : {n}, available : 0..n]

(* What is true of an answer a that was made of the limit n on machine m. *)
SysinfoTrue(a, n, m) ==
    /\ a.source = "pod" /\ a.total = n \div a.unit /\ a.free <= a.total
    /\ m.wordMax = U64Max => a.unit * a.rest = HostSwap

PagesTrue(op, a, n, m) ==
    /\ a.source \in {"pod", "EOVERFLOW"}
    /\ a.source = "pod" /\ op = "phys_pages" => a.total = n \div PageSize
    /\ a.source = "pod" /\ op = "avphys_pages" => a.free <= n \div PageSize
    /\ m.wordMax = U64Max => a.source = "pod"

(* The text with the lengths its lines have when they are rewritten. *)
Resized(text) ==
    [i \in DOMAIN text |-> IF text[i].key = "other" THEN text[i] ELSE [text[i] EXCEPT !.len = LineLen]]

LineTrue(line, host, n) ==
    /\ line.key = host.key
    /\ line.key = "other" => line = host
    /\ line.key = "MemTotal" => line.value = n \div Kilo
    /\ line.key \in {"MemFree", "MemAvailable"} => line.value <= n \div Kilo

MeminfoTrue(a, n, m) ==
    /\ a.source \in {"pod", "host"}
    /\ a.source = "host" /\ m.readable => BufLen < Length(Resized(m.text))
    /\ a.source = "pod" => /\ Len(a.rest) = Len(m.text) /\ Length(a.rest) <= BufLen
                           /\ \A i \in DOMAIN a.rest : LineTrue(a.rest[i], m.text[i], n)

(* What is true of a call that has returned. *)
AnswerTrue(c, n, m) ==
    /\ c.snapshot = None => c.answer.source = "host"
    /\ c.snapshot # None =>
           /\ c.op = "sysinfo" => SysinfoTrue(c.answer, n, m)
           /\ c.op \in {"phys_pages", "avphys_pages"} => PagesTrue(c.op, c.answer, n, m)
           /\ c.op = "meminfo" => MeminfoTrue(c.answer, n, m)

LEMMA NumbersKnown ==
    /\ U64Max \in Nat /\ Sentinel \in Nat \ {0} /\ Sentinel - 1 < U64Max \div 2 /\ U64Max \div 2 <= U64Max
    /\ None \notin Nat /\ Limits \subseteq Nat
  <1>1. U64Max \in Nat /\ Sentinel \in 1..(U64Max \div 2) /\ None \notin Nat
    BY CgroupAssumption
  <1>2. U64Max \div 2 \in Nat /\ U64Max \div 2 <= U64Max
    BY <1>1, Quotient
  <1> QED
    BY <1>1, <1>2 DEF Limits

LEMMA SnapshotKnown ==
    ASSUME NEW n \in Limits, NEW s \in Snapshots(n)
    PROVE  /\ s.total = n /\ s.available \in Nat /\ s.available <= n /\ n \in Nat
           /\ n <= Sentinel - 1
  BY NumbersKnown DEF Snapshots, Limits

LEMMA ScalesKnown == Scales \subseteq Nat \ {0} /\ 1 \in Scales
  <1>1. UIntMax \in Nat \ {0}
    BY MemoryAssumption
  <1> QED
    BY <1>1 DEF Scales

(* encode_sysinfo_memory always finds a unit, and 1 where unsigned long    *)
(* has 64 bits.                                                            *)
LEMMA UnitFound ==
    ASSUME machine \in Machines, NEW n \in Limits, NEW s \in Snapshots(n)
    PROVE  /\ MemUnits(s) # {} /\ Min(MemUnits(s)) \in Nat \ {0}
           /\ machine.wordMax = U64Max => Min(MemUnits(s)) = 1
  <1> DEFINE w == machine.wordMax
             U == MemUnits(s)
  <1>1. w \in Nat
    BY MemoryAssumption
  <1>2. /\ s.total = n /\ s.available \in Nat /\ s.available <= n /\ n \in Nat
        /\ n <= Sentinel - 1 /\ Sentinel - 1 \in Nat
    BY SnapshotKnown, NumbersKnown
  <1>3. U = {u \in Scales : s.total \div u <= w /\ s.available \div u <= w}
    BY DEF MemUnits
  <1>4. ASSUME NEW u \in Scales, (Sentinel - 1) \div u <= w PROVE u \in U
    <2>1. u \in Nat \ {0}
      BY ScalesKnown
    <2>2. n \div u <= (Sentinel - 1) \div u /\ s.available \div u <= n \div u
      BY <1>2, <2>1, QuotientMonotone
    <2>3. n \div u \in Nat /\ (Sentinel - 1) \div u \in Nat /\ s.available \div u \in Nat
      BY <1>2, <2>1, Quotient
    <2> DEFINE x == n \div u
               y == (Sentinel - 1) \div u
               z == s.available \div u
    <2>4. x <= y /\ z <= x /\ x \in Nat /\ y \in Nat /\ z \in Nat /\ y <= w
      BY <1>4, <2>2, <2>3
    <2> HIDE DEF x, y, z
    <2>5. x <= w /\ z <= w
      BY <1>1, <2>4
    <2>6. s.total \div u <= w /\ s.available \div u <= w
      BY <1>2, <2>5 DEF x, z
    <2> QED
      BY <1>3, <2>6, Zenon
  <1>5. PICK u \in Scales : (Sentinel - 1) \div u <= w
    BY MemoryAssumption
  <1>6. U # {} /\ U \subseteq Nat \ {0}
    BY <1>3, <1>4, <1>5, ScalesKnown
  <1> HIDE DEF U
  <1>7. \E x \in U : \A y \in U : x <= y
    BY <1>6, LeastNumber
  <1>8. Min(U) \in U /\ \A y \in U : Min(U) <= y
    BY <1>7 DEF Min
  <1>9. ASSUME w = U64Max PROVE Min(U) = 1
    <2>1. (Sentinel - 1) \div 1 <= w
      <3>1. (Sentinel - 1) \div 1 <= Sentinel - 1 /\ (Sentinel - 1) \div 1 \in Nat
        BY <1>2, Quotient
      <3>2. Sentinel - 1 <= w
        BY <1>9, <1>2, NumbersKnown
      <3> DEFINE x == (Sentinel - 1) \div 1
      <3> HIDE DEF x
      <3>3. x <= Sentinel - 1 /\ x \in Nat
        BY <3>1 DEF x
      <3>4. x <= w
        BY <1>1, <1>2, <3>2, <3>3
      <3> QED
        BY <3>4 DEF x
    <2>2. 1 \in U
      BY <1>4, <2>1, ScalesKnown
    <2>3. PICK x \in Nat \ {0} : x = Min(U) /\ x <= 1
      BY <1>6, <1>8, <2>2, Zenon
    <2> QED
      BY <2>3
  <1> QED
    BY <1>6, <1>8, <1>9 DEF U

LEMMA SysinfoRight ==
    ASSUME machine \in Machines, NEW n \in Limits, NEW s \in Snapshots(n), s # None
    PROVE  SysinfoTrue(Sysinfo(s), n, machine)
  <1> DEFINE unit == Min(MemUnits(s))
             a == Sysinfo(s)
             h == HostSysinfo
  <1>1. MemUnits(s) # {} /\ unit \in Nat \ {0} /\ (machine.wordMax = U64Max => unit = 1)
    BY UnitFound
  <1>2. a = [h EXCEPT !.source = "pod", !.unit = unit,
                      !.total = s.total \div unit, !.free = s.available \div unit]
    BY <1>1, Zenon DEF Sysinfo
  <1>3. DOMAIN h = {"source", "unit", "total", "free", "rest"}
    BY DEF HostSysinfo
  <1>4. machine.wordMax = U64Max => h.rest = HostSwap \div 1
    BY MemoryAssumption, NumbersKnown DEF HostSysinfo
  <1> HIDE DEF unit, h
  <1>5. /\ a.source = "pod" /\ a.unit = unit /\ a.total = s.total \div unit
        /\ a.free = s.available \div unit /\ a.rest = h.rest
    BY <1>2, <1>3
  <1> HIDE DEF a
  <1>6. s.total = n /\ s.available \in Nat /\ s.available <= n /\ n \in Nat
    BY SnapshotKnown
  <1>7. s.available \div unit <= n \div unit
    BY <1>1, <1>6, QuotientMonotone
  <1>8. ASSUME machine.wordMax = U64Max PROVE a.unit * a.rest = HostSwap
    <2>1. HostSwap \in Nat
      BY MemoryAssumption, NumbersKnown
    <2>2. HostSwap \div 1 = HostSwap
      BY <2>1, SMT
    <2>3. a.unit = 1 /\ a.rest = HostSwap
      BY <1>1, <1>4, <1>5, <1>8, <2>2, Zenon
    <2> QED
      BY <2>1, <2>3
  <1> QED
    BY <1>5, <1>6, <1>7, <1>8 DEF SysinfoTrue, a

LEMMA SysconfRight ==
    ASSUME machine \in Machines, NEW n \in Limits, NEW s \in Snapshots(n), s # None,
           NEW op \in {"phys_pages", "avphys_pages"}
    PROVE  PagesTrue(op, Sysconf(op, s), n, machine)
  <1> DEFINE x == IF op = "phys_pages" THEN s.total ELSE s.available
             pages == x \div PageSize
             a == Sysconf(op, s)
  <1>1. s.total = n /\ s.available \in Nat /\ s.available <= n /\ n \in Nat /\ n <= Sentinel - 1
    BY SnapshotKnown
  <1>2. PageSize \in Nat \ {0} /\ machine.wordMax \in Nat
    BY MemoryAssumption
  <1>3. x \in Nat /\ x <= n
    BY <1>1
  <1>4. pages \in Nat /\ pages <= x
    <2> HIDE DEF x
    <2> QED
      BY <1>2, <1>3, Quotient
  <1>5. s.available \div PageSize <= n \div PageSize
    BY <1>1, <1>2, QuotientMonotone
  <1>6. a = IF pages > machine.wordMax \div 2 THEN Answer("EOVERFLOW")
            ELSE IF op = "phys_pages" THEN [Answer("pod") EXCEPT !.total = pages]
            ELSE [Answer("pod") EXCEPT !.free = pages]
    BY Zenon DEF Sysconf
  <1>7. op = "phys_pages" => pages = n \div PageSize
    BY <1>1
  <1>8. op = "avphys_pages" => pages <= n \div PageSize
    BY <1>5
  <1>9. machine.wordMax = U64Max => ~(pages > machine.wordMax \div 2)
    <2> HIDE DEF x, pages
    <2>1. pages < U64Max \div 2 /\ U64Max \div 2 \in Nat
      BY <1>1, <1>3, <1>4, NumbersKnown, Quotient
    <2>2. PICK z \in Nat : z = U64Max \div 2
      BY <2>1
    <2> QED
      BY <1>4, <2>1, <2>2
  <1> HIDE DEF a, pages
  <1>10. CASE pages > machine.wordMax \div 2
    <2>1. a.source = "EOVERFLOW"
      BY <1>6, <1>10 DEF Answer
    <2> QED
      BY <1>9, <1>10, <2>1 DEF PagesTrue, a
  <1>11. CASE ~(pages > machine.wordMax \div 2)
    <2>1. /\ a.source = "pod" /\ op = "phys_pages" => a.total = pages
          /\ a.source = "pod" /\ op = "avphys_pages" => a.free = pages
          /\ a.source = "pod"
      BY <1>6, <1>11 DEF Answer
    <2> QED
      BY <1>7, <1>8, <2>1 DEF PagesTrue, a
  <1> QED
    BY <1>10, <1>11

LEMMA MeminfoRight ==
    ASSUME machine \in Machines, NEW n \in Limits, NEW s \in Snapshots(n), s # None
    PROVE  MeminfoTrue(MeminfoBuild(s), n, machine)
  <1> DEFINE text == machine.text
             k == Len(text)
             lines == [i \in DOMAIN text |-> Rewritten(text[i], s)]
             a == MeminfoBuild(s)
  <1>1. text \in Seq(Lines)
    BY MemoryAssumption DEF Lines
  <1>2. k \in Nat /\ DOMAIN text = 1..k /\ \A i \in 1..k : text[i] \in Lines
    BY <1>1, LenProperties, ElementOfSeq
  <1>3. s.total = n /\ s.available \in Nat /\ s.available <= n /\ n \in Nat
    BY SnapshotKnown
  <1>4. LineLen \in Nat /\ BufLen \in Nat /\ Kilo \in Nat \ {0}
    BY MemoryAssumption
  <1>5. s.available \div Kilo <= n \div Kilo
    BY <1>3, <1>4, QuotientMonotone
  <1>6. ASSUME NEW line \in Lines
        PROVE  /\ LineTrue(Rewritten(line, s), line, n)
               /\ Rewritten(line, s).len = IF line.key = "other" THEN line.len ELSE LineLen
               /\ Rewritten(line, s).len \in Nat
    <2>1. line.key \in Keys /\ line.len \in Nat /\ DOMAIN line = {"key", "value", "len"}
      BY DEF Lines
    <2>2. CASE line.key = "other"
      <3>1. Rewritten(line, s) = line
        BY <2>2 DEF Rewritten
      <3> QED
        BY <2>1, <2>2, <3>1 DEF LineTrue
    <2>3. CASE line.key = "MemTotal"
      <3>1. Rewritten(line, s) = [line EXCEPT !.value = n \div Kilo, !.len = LineLen]
        BY <1>3, <2>3 DEF Rewritten
      <3> DEFINE v == n \div Kilo
                 r == [line EXCEPT !.value = v, !.len = LineLen]
      <3> HIDE DEF v
      <3>2. r.key = "MemTotal" /\ r.value = v /\ r.len = LineLen
        BY <2>1, <2>3
      <3> HIDE DEF r
      <3>3. Rewritten(line, s) = r
        BY <3>1 DEF r, v
      <3> QED
        BY <1>4, <2>3, <3>2, <3>3 DEF LineTrue, v
    <2>4. CASE line.key \in {"MemAvailable", "MemFree"}
      <3> DEFINE v == s.available \div Kilo
                 r == [line EXCEPT !.value = v, !.len = LineLen]
      <3>1. Rewritten(line, s) = r
        BY <2>4 DEF Rewritten
      <3> HIDE DEF v
      <3>2. r.key = line.key /\ r.value = v /\ r.len = LineLen
        BY <2>1
      <3> HIDE DEF r
      <3>3. v <= n \div Kilo
        BY <1>5 DEF v
      <3> QED
        BY <1>4, <2>4, <3>1, <3>2, <3>3 DEF LineTrue
    <2> QED
      BY <2>1, <2>2, <2>3, <2>4 DEF Keys
  <1>7. a = IF ~machine.readable \/ Length(lines) > BufLen THEN Answer("host") ELSE [Answer("pod") EXCEPT !.rest = lines]
    BY Zenon DEF MeminfoBuild
  <1>8. DOMAIN lines = 1..k /\ \A i \in 1..k : lines[i] = Rewritten(text[i], s)
    BY <1>2
  <1>9. lines \in Seq({lines[i] : i \in 1..k}) /\ Len(lines) = k
    <2> HIDE DEF lines, k
    <2>1. lines = [i \in 1..k |-> lines[i]]
      <3>1. lines = [i \in DOMAIN lines |-> lines[i]]
        BY DEF lines
      <3> QED
        BY <1>8, <3>1
    <2>2. lines \in [1..k -> {lines[i] : i \in 1..k}]
      BY <2>1
    <2>3. lines \in Seq({lines[i] : i \in 1..k})
      BY <1>2, <2>2, SMTT(30)
    <2> QED
      BY <1>2, <1>8, <2>3, LenProperties
  <1> HIDE DEF lines, k, a
  <1>10. \A i \in 1..k : lines[i].len \in Nat
    BY <1>2, <1>6, <1>8
  <1>11. Length(lines) \in Nat
    BY <1>2, <1>9, <1>10, LengthNat
  <1>12. Length(lines) = Length(Resized(text))
    <2> DEFINE r == Resized(text)
    <2>1. DOMAIN r = 1..k /\ r = [i \in 1..k |-> r[i]]
      BY <1>2 DEF Resized
    <2>2. \A i \in 1..k : r[i] = IF text[i].key = "other" THEN text[i] ELSE [text[i] EXCEPT !.len = LineLen]
      BY <1>2 DEF Resized
    <2> HIDE DEF r
    <2>3. Len(r) = k
      <3>1. r \in [1..k -> {r[i] : i \in 1..k}]
        BY <2>1
      <3>2. r \in Seq({r[i] : i \in 1..k})
        BY <1>2, <3>1, SMTT(30)
      <3> QED
        BY <1>2, <2>1, <3>2, LenProperties
    <2>4. ASSUME NEW i \in 1..k PROVE r[i].len = lines[i].len
      <3>1. text[i] \in Lines
        BY <1>2
      <3>2. lines[i].len = IF text[i].key = "other" THEN text[i].len ELSE LineLen
        BY <1>6, <1>8, <3>1
      <3>3. r[i] = IF text[i].key = "other" THEN text[i] ELSE [text[i] EXCEPT !.len = LineLen]
        BY <2>2
      <3>4. [text[i] EXCEPT !.len = LineLen].len = LineLen
        BY <3>1 DEF Lines
      <3> QED
        BY <3>2, <3>3, <3>4, Zenon
    <2>5. Length(r) = Length(lines)
      BY <1>2, <1>9, <1>10, <2>3, <2>4, LengthSame
    <2> QED
      BY <2>5 DEF r
  <1>13. CASE ~machine.readable \/ Length(lines) > BufLen
    <2>1. a.source = "host"
      BY <1>7, <1>13 DEF Answer
    <2>2. machine.readable => BufLen < Length(Resized(text))
      BY <1>4, <1>11, <1>12, <1>13
    <2> QED
      BY <2>1, <2>2 DEF MeminfoTrue, a
  <1>14. CASE ~(~machine.readable \/ Length(lines) > BufLen)
    <2>1. a.source = "pod" /\ a.rest = lines
      BY <1>7, <1>14 DEF Answer
    <2>2. Length(lines) <= BufLen
      BY <1>4, <1>11, <1>14
    <2>3. \A i \in DOMAIN lines : LineTrue(lines[i], text[i], n)
      BY <1>2, <1>6, <1>8
    <2> QED
      BY <1>9, <2>1, <2>2, <2>3 DEF MeminfoTrue, a, k
  <1> QED
    BY <1>13, <1>14

(* A call returns the truth about its snapshot. *)
LEMMA AnswerRight ==
    ASSUME machine \in Machines, NEW n \in Limits, NEW op \in Calls,
           NEW s \in Snapshots(n) \cup {None}, NEW c,
           c.op = op, c.snapshot = s, c.answer = AnswerOf(op, s)
    PROVE  AnswerTrue(c, n, machine)
  <1>1. CASE s = None
    <2>1. AnswerOf(op, None).source = "host"
      <3>1. CASE op = "sysinfo"
        BY <3>1 DEF AnswerOf, Sysinfo, HostSysinfo
      <3>2. CASE op \in {"phys_pages", "avphys_pages"}
        BY <3>2 DEF AnswerOf, Sysconf, Answer
      <3>3. CASE op = "meminfo"
        BY <3>3 DEF AnswerOf, MeminfoBuild, Answer
      <3> QED
        BY <3>1, <3>2, <3>3 DEF Calls
    <2> QED
      BY <1>1, <2>1 DEF AnswerTrue
  <1>2. CASE s # None
    <2>1. s \in Snapshots(n)
      BY <1>2
    <2>2. op = "sysinfo" => SysinfoTrue(c.answer, n, machine)
      BY <1>2, <2>1, SysinfoRight DEF AnswerOf
    <2>3. op \in {"phys_pages", "avphys_pages"} => PagesTrue(op, c.answer, n, machine)
      <3> SUFFICES ASSUME op \in {"phys_pages", "avphys_pages"} PROVE PagesTrue(op, c.answer, n, machine)
        OBVIOUS
      <3>1. c.answer = Sysconf(op, s)
        BY DEF AnswerOf
      <3> QED
        BY <1>2, <2>1, <3>1, SysconfRight
    <2>4. op = "meminfo" => MeminfoTrue(c.answer, n, machine)
      BY <1>2, <2>1, MeminfoRight DEF AnswerOf
    <2> QED
      BY <1>2, <2>2, <2>3, <2>4, Zenon DEF AnswerTrue
  <1> QED
    BY <1>1, <1>2

-----------------------------------------------------------------------------
(* The state *)

Inside == {"limit", "usage", "refresh"}

Fields == {"op", "step", "next", "found", "limit", "snapshot", "answer"}

(* The shape of the records, as far as the steps update them. *)
Shape ==
    /\ machine \in Machines
    /\ call = [t \in Threads |-> call[t]]
    /\ \A t \in Threads : DOMAIN call[t] = Fields
    /\ DOMAIN cgmem = {"group", "limit", "current"}

FilesKnown ==
    /\ files \in [Groups -> [limit : LimitTokens, usage : UsageTokens]]
    /\ writes \in [Groups -> Nat]

Holding == \A t \in Threads : call[t].step \in Inside <=> lock = t

(* A detection runs while there is none, a refresh after there was one. *)
Phases ==
    \A t \in Threads :
        /\ call[t].step \in {"limit", "usage"} => ~detected
        /\ call[t].step = "refresh" => detected

Clean == cgmem # NoMemory => detected \/ lock # None

(* Only finite limits are kept. *)
Sizes ==
    /\ cgmem.limit \in Limits
    /\ \A t \in Threads : call[t].step = "usage" => call[t].limit \in Limits \ {0}

Answers ==
    \A t \in Threads :
        call[t].step = "idle" /\ call[t].op \in Calls =>
            /\ call[t].snapshot # None => detected
            /\ AnswerTrue(call[t], cgmem.limit, machine)

(* A thread that is in a call, or has a snapshot of its last one, is or    *)
(* was in one of the interfaces.                                           *)
Returned == \A t \in Threads : call[t].step # "idle" \/ call[t].snapshot # None => call[t].op \in Calls

MemoryInv == Returned /\ Shape /\ Holding /\ Phases /\ Clean /\ Sizes /\ Answers

LEMMA TokenKnown ==
    ASSUME FilesKnown, NEW g, NEW file \in {"limit", "usage"}
    PROVE  Token(g, file) \in Tokens
  <1>1. <<>> \in Tokens
    BY EmptySeq DEF Tokens
  <1>2. ASSUME g \in Groups PROVE files[g][file] \in LimitTokens \cup UsageTokens
    BY <1>2 DEF FilesKnown
  <1>3. LimitTokens \cup UsageTokens \subseteq Tokens
    BY MemoryAssumption DEF Tokens
  <1> QED
    BY <1>1, <1>2, <1>3 DEF Token

LEMMA LimitKnown ==
    ASSUME NEW token \in Tokens, ReadLimit(token) # None
    PROVE  /\ ReadLimit(token) \in Limits \ {0} /\ ReadLimit(token) = ParseU64(token)
           /\ ReadLimit(token) \in 1..(Sentinel - 1)
  <1> DEFINE v == ParseU64(token)
  <1>1. v # None /\ v # 0 /\ ~(v >= Sentinel) /\ ReadLimit(token) = v
    BY DEF ReadLimit
  <1>2. v \in 0..U64Max
    BY <1>1, ParsedIsSpelled
  <1> HIDE DEF v
  <1>3. v \in 1..(Sentinel - 1)
    BY <1>1, <1>2, NumbersKnown
  <1> QED
    BY <1>1, <1>3, NumbersKnown DEF Limits, v

(* What changes when thread t gets the record c. *)
LEMMA Update ==
    ASSUME Shape, NEW t \in Threads, NEW c, DOMAIN c = Fields, call' = [call EXCEPT ![t] = c]
    PROVE  /\ call' = [u \in Threads |-> call'[u]]
           /\ \A u \in Threads : DOMAIN call'[u] = Fields
           /\ call'[t] = c
           /\ \A u \in Threads \ {t} : call'[u] = call[u]
  <1>1. call'[t] = c /\ \A u \in Threads \ {t} : call'[u] = call[u]
    BY DEF Shape
  <1>2. call' = [u \in Threads |-> call'[u]]
    BY DEF Shape
  <1> QED
    BY <1>1, <1>2 DEF Shape

(* A step of t that stays clear of the answers, the limit and the lock. *)
LEMMA EnterInv ==
    ASSUME MemoryInv, NEW t \in Threads, NEW op \in Calls, Enter(t, op)
    PROVE  MemoryInv'
  <1> DEFINE c == [Idle EXCEPT !.op = op, !.step = "lock"]
  <1>1. /\ call[t].step = "idle" /\ call' = [call EXCEPT ![t] = c]
        /\ UNCHANGED <<machine, files, cgmem, detected, lock, writes>>
    BY DEF Enter
  <1>2. DOMAIN c = Fields /\ c.step = "lock" /\ c.op = op
    BY DEF Fields, Idle
  <1> HIDE DEF c
  <1>3. /\ call' = [u \in Threads |-> call'[u]]
        /\ \A u \in Threads : DOMAIN call'[u] = Fields
        /\ call'[t] = c
        /\ \A u \in Threads \ {t} : call'[u] = call[u]
    BY <1>1, <1>2, Update DEF MemoryInv
  <1>4. Shape'
    BY <1>1, <1>3 DEF MemoryInv, Shape
  <1>5. Holding' /\ Phases' /\ Clean'
    BY <1>1, <1>2, <1>3 DEF MemoryInv, Holding, Phases, Clean, Inside
  <1>6. Sizes' /\ Answers'
    BY <1>1, <1>2, <1>3 DEF MemoryInv, Sizes, Answers
  <1>7. Returned'
    BY <1>2, <1>3 DEF MemoryInv, Returned
  <1> QED
    BY <1>4, <1>5, <1>6, <1>7 DEF MemoryInv

(* A change of place keeps the operation and the answer. *)
LEMMA Move ==
    ASSUME Shape, NEW t \in Threads, NEW s, Goto(t, s)
    PROVE  /\ call' = [u \in Threads |-> call'[u]]
           /\ \A u \in Threads : DOMAIN call'[u] = Fields
           /\ call'[t].step = s /\ call'[t].op = call[t].op
           /\ \A u \in Threads \ {t} : call'[u] = call[u]
  <1> DEFINE c == [call[t] EXCEPT !.step = s]
  <1>1. call' = [call EXCEPT ![t] = c]
    BY DEF Goto
  <1>2. DOMAIN c = Fields /\ c.step = s /\ c.op = call[t].op
    BY DEF Shape, Fields
  <1> HIDE DEF c
  <1> QED
    BY <1>1, <1>2, Update

LEMMA LockInv ==
    ASSUME MemoryInv, NEW t \in Threads, Lock(t)
    PROVE  MemoryInv'
  <1>1. /\ call[t].step = "lock" /\ lock = None /\ lock' = t
        /\ UNCHANGED <<machine, files, detected, writes>>
    BY DEF Lock
  <1>2. t # None
    BY MemoryAssumption
  <1>3. PICK s \in {"refresh", "limit"} :
            /\ Goto(t, s)
            /\ s = "refresh" => detected /\ cgmem' = cgmem
            /\ s = "limit" => ~detected /\ cgmem' = NoMemory
    BY DEF Lock
  <1>4. /\ call' = [u \in Threads |-> call'[u]]
        /\ \A u \in Threads : DOMAIN call'[u] = Fields
        /\ call'[t].step = s /\ call'[t].op = call[t].op
        /\ \A u \in Threads \ {t} : call'[u] = call[u]
    BY <1>3, Move DEF MemoryInv
  <1>5. Shape'
    BY <1>1, <1>3, <1>4 DEF MemoryInv, Shape, NoMemory
  <1>6. Holding' /\ Clean'
    BY <1>1, <1>2, <1>3, <1>4, MemoryAssumption DEF MemoryInv, Holding, Clean, Inside
  <1>7. Phases'
    BY <1>1, <1>3, <1>4 DEF MemoryInv, Phases
  <1>8. Answers'
    <2>1. CASE detected
      BY <1>1, <1>3, <1>4, <2>1 DEF MemoryInv, Answers
    <2>2. CASE ~detected
      BY <1>1, <1>3, <1>4, <2>2 DEF MemoryInv, Answers, AnswerTrue
    <2> QED
      BY <2>1, <2>2
  <1>9. Sizes'
    BY <1>1, <1>3, <1>4, NumbersKnown DEF MemoryInv, Sizes, NoMemory, Limits
  <1>10. Returned'
    BY <1>1, <1>4 DEF MemoryInv, Returned
  <1> QED
    BY <1>5, <1>6, <1>7, <1>8, <1>9, <1>10 DEF MemoryInv

(* A step of a detection: no limit was detected yet, so no answer shows one. *)
LEMMA DetectStep ==
    ASSUME MemoryInv, NEW t \in Threads, call[t].step \in {"limit", "usage"},
           NEW c, DOMAIN c = Fields, c.step \in {"limit", "usage"}, c.op = call[t].op,
           call' = [call EXCEPT ![t] = c],
           c.step = "usage" => c.limit \in Limits \ {0},
           DOMAIN cgmem' = {"group", "limit", "current"}, cgmem'.limit \in Limits,
           UNCHANGED <<machine, detected, lock>>
    PROVE  MemoryInv'
  <1>1. /\ call' = [u \in Threads |-> call'[u]]
        /\ \A u \in Threads : DOMAIN call'[u] = Fields
        /\ call'[t] = c
        /\ \A u \in Threads \ {t} : call'[u] = call[u]
    BY Update DEF MemoryInv
  <1>2. ~detected /\ lock = t /\ t # None
    BY MemoryAssumption DEF MemoryInv, Phases, Holding, Inside
  <1>3. Shape'
    BY <1>1 DEF MemoryInv, Shape
  <1>4. Holding' /\ Clean' /\ Phases'
    BY <1>1, <1>2 DEF MemoryInv, Holding, Clean, Phases, Inside
  <1>5. Answers'
    BY <1>1, <1>2 DEF MemoryInv, Answers, AnswerTrue
  <1>6. Sizes'
    BY <1>1 DEF MemoryInv, Sizes
  <1>7. Returned'
    BY <1>1 DEF MemoryInv, Returned
  <1> QED
    BY <1>3, <1>4, <1>5, <1>6, <1>7 DEF MemoryInv

LEMMA DetectLimitInv ==
    ASSUME MemoryInv, FilesKnown, NEW t \in Threads, DetectLimit(t)
    PROVE  MemoryInv'
  <1>1. call[t].step = "limit" /\ UNCHANGED <<machine, detected, lock, cgmem>>
    BY DEF DetectLimit
  <1>2. PICK c : /\ call' = [call EXCEPT ![t] = c]
                 /\ DOMAIN c = Fields /\ c.step \in {"limit", "usage"} /\ c.op = call[t].op
                 /\ c.step = "usage" => c.limit \in Limits \ {0}
    <2> DEFINE limit == ReadLimit(Token(Found(t), "limit"))
               c1 == [call[t] EXCEPT !.next = call[t].next + 1]
               c2 == [call[t] EXCEPT !.step = "usage", !.limit = limit]
    <2>1. call' = [call EXCEPT ![t] = c1] \/ (call' = [call EXCEPT ![t] = c2] /\ limit # None)
      <3>1. limit = None => call' = [call EXCEPT ![t] = c1]
        BY DEF DetectLimit
      <3>2. limit # None => call' = [call EXCEPT ![t] = c2]
        BY DEF DetectLimit
      <3> QED
        BY <3>1, <3>2
    <2>2. limit # None => limit \in Limits \ {0}
      <3>1. Token(Found(t), "limit") \in Tokens
        BY TokenKnown
      <3> QED
        BY <3>1, LimitKnown
    <2> HIDE DEF limit
    <2>3. /\ DOMAIN c1 = Fields /\ c1.step = "limit" /\ c1.op = call[t].op
          /\ DOMAIN c2 = Fields /\ c2.step = "usage" /\ c2.op = call[t].op /\ c2.limit = limit
      BY <1>1 DEF MemoryInv, Shape, Fields
    <2> HIDE DEF c1, c2
    <2> QED
      BY <2>1, <2>2, <2>3
  <1>3. DOMAIN cgmem' = {"group", "limit", "current"} /\ cgmem'.limit \in Limits
    BY <1>1 DEF MemoryInv, Shape, Sizes
  <1> QED
    BY <1>1, <1>2, <1>3, DetectStep

LEMMA DetectUsageInv ==
    ASSUME MemoryInv, NEW t \in Threads, DetectUsage(t)
    PROVE  MemoryInv'
  <1> DEFINE current == ParseU64(Token(Found(t), "usage"))
             taken == current # None /\ TakesPlace(t)
             c == [call[t] EXCEPT !.step = "limit", !.next = @ + 1, !.found = @ \/ taken]
  <1>1. /\ call[t].step = "usage" /\ call' = [call EXCEPT ![t] = c]
        /\ cgmem' = IF taken THEN [group |-> Found(t), limit |-> call[t].limit, current |-> current]
                             ELSE cgmem
        /\ UNCHANGED <<machine, detected, lock>>
    BY DEF DetectUsage
  <1> HIDE DEF current, taken
  <1>2. DOMAIN c = Fields /\ c.step = "limit" /\ c.op = call[t].op
    BY DEF MemoryInv, Shape, Fields
  <1> HIDE DEF c
  <1>3. DOMAIN cgmem' = {"group", "limit", "current"} /\ cgmem'.limit \in Limits
    BY <1>1 DEF MemoryInv, Shape, Sizes
  <1> QED
    BY <1>1, <1>2, <1>3, DetectStep

LEMMA DetectSucceedsInv ==
    ASSUME MemoryInv, NEW t \in Threads, DetectSucceeds(t)
    PROVE  MemoryInv'
  <1>1. /\ call[t].step = "limit" /\ detected' = TRUE /\ Goto(t, "refresh")
        /\ UNCHANGED <<machine, cgmem, lock>>
    BY DEF DetectSucceeds
  <1>2. /\ call' = [u \in Threads |-> call'[u]]
        /\ \A u \in Threads : DOMAIN call'[u] = Fields
        /\ call'[t].step = "refresh" /\ call'[t].op = call[t].op
        /\ \A u \in Threads \ {t} : call'[u] = call[u]
    BY <1>1, Move DEF MemoryInv
  <1>3. lock = t /\ t # None
    BY <1>1, MemoryAssumption DEF MemoryInv, Holding, Inside
  <1>4. Shape'
    BY <1>1, <1>2 DEF MemoryInv, Shape
  <1>5. Holding' /\ Clean'
    BY <1>1, <1>2, <1>3 DEF MemoryInv, Holding, Clean, Inside
  <1>6. Phases'
    BY <1>1, <1>2, <1>3 DEF MemoryInv, Phases, Holding, Inside
  <1>7. Answers' /\ Sizes'
    BY <1>1, <1>2 DEF MemoryInv, Answers, Sizes
  <1>8. Returned'
    BY <1>1, <1>2 DEF MemoryInv, Returned
  <1> QED
    BY <1>4, <1>5, <1>6, <1>7, <1>8 DEF MemoryInv

(* The record of a call that returns. *)
LEMMA Returns ==
    ASSUME Shape, NEW t \in Threads, NEW snapshot, Return(t, snapshot)
    PROVE  /\ call' = [u \in Threads |-> call'[u]]
           /\ \A u \in Threads : DOMAIN call'[u] = Fields
           /\ call'[t].step = "idle" /\ call'[t].op = call[t].op
           /\ call'[t].snapshot = snapshot /\ call'[t].answer = AnswerOf(call[t].op, snapshot)
           /\ \A u \in Threads \ {t} : call'[u] = call[u]
  <1> DEFINE a == AnswerOf(call[t].op, snapshot)
             c == [Idle EXCEPT !.op = call[t].op, !.snapshot = snapshot, !.answer = a]
  <1>1. call' = [call EXCEPT ![t] = c]
    BY DEF Return
  <1> HIDE DEF a
  <1>2. /\ DOMAIN c = Fields /\ c.step = "idle" /\ c.op = call[t].op
        /\ c.answer = a /\ c.snapshot = snapshot
    BY DEF Idle, Fields
  <1> HIDE DEF c
  <1>3. /\ call' = [u \in Threads |-> call'[u]]
        /\ \A u \in Threads : DOMAIN call'[u] = Fields
        /\ call'[t] = c
        /\ \A u \in Threads \ {t} : call'[u] = call[u]
    BY <1>1, <1>2, Update
  <1> QED
    BY <1>2, <1>3 DEF a

LEMMA DetectFailsInv ==
    ASSUME MemoryInv, NEW t \in Threads, DetectFails(t)
    PROVE  MemoryInv'
  <1>1. /\ call[t].step = "limit" /\ cgmem' = NoMemory /\ lock' = None /\ Return(t, None)
        /\ UNCHANGED <<machine, detected>>
    BY DEF DetectFails
  <1>2. /\ call' = [u \in Threads |-> call'[u]]
        /\ \A u \in Threads : DOMAIN call'[u] = Fields
        /\ call'[t].step = "idle" /\ call'[t].op = call[t].op
        /\ call'[t].snapshot = None /\ call'[t].answer = AnswerOf(call[t].op, None)
        /\ \A u \in Threads \ {t} : call'[u] = call[u]
    BY <1>1, Returns DEF MemoryInv
  <1>3. lock = t /\ ~detected
    BY <1>1 DEF MemoryInv, Holding, Inside, Phases
  <1>4. Shape'
    BY <1>1, <1>2 DEF MemoryInv, Shape, NoMemory
  <1>5. Holding' /\ Clean'
    BY <1>1, <1>2, <1>3, MemoryAssumption DEF MemoryInv, Holding, Clean, Inside
  <1>6. Phases'
    BY <1>1, <1>2 DEF MemoryInv, Phases
  <1>7. cgmem'.limit \in Limits
    BY <1>1, NumbersKnown DEF NoMemory, Limits
  <1>8. Sizes'
    BY <1>2, <1>7 DEF MemoryInv, Sizes
  <1>9. Answers'
    <2>1. ASSUME call'[t].op \in Calls PROVE AnswerTrue(call'[t], cgmem'.limit, machine)
      BY <1>2, <1>7, <2>1, AnswerRight DEF MemoryInv, Shape
    <2>2. ASSUME NEW u \in Threads \ {t}, call'[u].step = "idle", call'[u].op \in Calls
          PROVE  call'[u].snapshot = None /\ AnswerTrue(call'[u], cgmem'.limit, machine)
      BY <1>2, <1>3, <2>2 DEF MemoryInv, Answers, AnswerTrue
    <2> QED
      BY <1>1, <1>2, <2>1, <2>2 DEF Answers
  <1>10. Returned'
    BY <1>1, <1>2 DEF MemoryInv, Returned
  <1> QED
    BY <1>4, <1>5, <1>6, <1>8, <1>9, <1>10 DEF MemoryInv

LEMMA RefreshInv ==
    ASSUME MemoryInv, FilesKnown, NEW t \in Threads, Refresh(t)
    PROVE  MemoryInv'
  <1> DEFINE current == ParseU64(Token(cgmem.group, "usage"))
             s == [total |-> cgmem.limit, available |-> Available(cgmem.limit, current)]
  <1>1. /\ call[t].step = "refresh" /\ lock' = None
        /\ UNCHANGED <<machine, detected>>
    BY DEF Refresh
  <1>2. \/ Return(t, None) /\ cgmem' = cgmem
        \/ current # None /\ Return(t, s) /\ cgmem' = [cgmem EXCEPT !.current = current]
    BY DEF Refresh
  <1>3. lock = t /\ detected
    BY <1>1 DEF MemoryInv, Holding, Inside, Phases
  <1>0. current # None => s \in Snapshots(cgmem.limit)
    <2>1. Token(cgmem.group, "usage") \in Tokens
      BY TokenKnown
    <2>2. current # None => current \in 0..U64Max
      BY <2>1, ParsedIsSpelled
    <2> HIDE DEF current
    <2>3. cgmem.limit \in Nat
      BY NumbersKnown DEF MemoryInv, Sizes
    <2>4. current # None => Available(cgmem.limit, current) \in 0..cgmem.limit
      BY <2>2, <2>3, NumbersKnown DEF Available
    <2> QED
      BY <2>4 DEF Snapshots
  <1> HIDE DEF current, s
  <1>4. cgmem'.limit = cgmem.limit /\ DOMAIN cgmem' = {"group", "limit", "current"}
    BY <1>2 DEF MemoryInv, Shape
  <1>5. PICK snapshot \in Snapshots(cgmem.limit) \cup {None} : Return(t, snapshot)
    BY <1>0, <1>2
  <1>6. /\ call' = [u \in Threads |-> call'[u]]
        /\ \A u \in Threads : DOMAIN call'[u] = Fields
        /\ call'[t].step = "idle" /\ call'[t].op = call[t].op
        /\ call'[t].snapshot = snapshot /\ call'[t].answer = AnswerOf(call[t].op, snapshot)
        /\ \A u \in Threads \ {t} : call'[u] = call[u]
    BY <1>5, Returns DEF MemoryInv
  <1>7. Shape'
    BY <1>1, <1>4, <1>6 DEF MemoryInv, Shape
  <1>8. Holding' /\ Clean'
    BY <1>1, <1>3, <1>6, MemoryAssumption DEF MemoryInv, Holding, Clean, Inside
  <1>9. Phases'
    BY <1>1, <1>3, <1>6 DEF MemoryInv, Phases, Holding, Inside
  <1>10. Sizes'
    BY <1>4, <1>6 DEF MemoryInv, Sizes
  <1>11. call'[t].op \in Calls => AnswerTrue(call'[t], cgmem.limit, machine)
    BY <1>5, <1>6, AnswerRight DEF MemoryInv, Shape, Sizes
  <1>12. Answers'
    <2> SUFFICES ASSUME NEW u \in Threads, call'[u].step = "idle", call'[u].op \in Calls
                 PROVE  detected' /\ AnswerTrue(call'[u], cgmem'.limit, machine')
      BY DEF Answers
    <2>1. detected' /\ machine' = machine
      BY <1>1, <1>3
    <2>2. CASE u = t
      BY <1>4, <1>11, <2>1, <2>2
    <2>3. CASE u # t
      BY <1>4, <1>6, <2>1, <2>3 DEF MemoryInv, Answers
    <2> QED
      BY <2>2, <2>3
  <1>13. Returned'
    BY <1>1, <1>6 DEF MemoryInv, Returned
  <1> QED
    BY <1>7, <1>8, <1>9, <1>10, <1>12, <1>13 DEF MemoryInv

LEMMA NextFiles ==
    ASSUME FilesKnown, [Next]_vars
    PROVE  FilesKnown'
  <1>1. ASSUME NEW t \in Threads, NEW op, Enter(t, op) \/ Snapshot(t) PROVE UNCHANGED <<files, writes>>
    BY <1>1 DEF Enter, Snapshot, Lock, DetectLimit, DetectUsage, DetectSucceeds, DetectFails, Refresh
  <1>2. ASSUME UNCHANGED <<files, writes>> PROVE FilesKnown'
    BY <1>2 DEF FilesKnown
  <1>3. ASSUME NEW g \in Groups, NEW token \in LimitTokens, WriteLimit(g, token) PROVE FilesKnown'
    BY <1>3 DEF WriteLimit, Written, FilesKnown
  <1>4. ASSUME NEW g \in Groups, NEW token \in UsageTokens, Charge(g, token) PROVE FilesKnown'
    BY <1>4 DEF Charge, Written, FilesKnown
  <1>5. CASE UNCHANGED vars
    BY <1>2, <1>5 DEF vars
  <1> QED
    BY <1>1, <1>2, <1>3, <1>4, <1>5 DEF Next

LEMMA NextMemory ==
    ASSUME MemoryInv, FilesKnown, [Next]_vars
    PROVE  MemoryInv'
  <1>1. ASSUME UNCHANGED <<machine, cgmem, detected, lock, call>> PROVE MemoryInv'
    BY <1>1 DEF MemoryInv, Returned, Shape, Holding, Phases, Clean, Sizes, Answers
  <1>2. CASE UNCHANGED vars
    BY <1>1, <1>2 DEF vars
  <1>3. ASSUME NEW g \in Groups, NEW token, WriteLimit(g, token) \/ Charge(g, token)
        PROVE  MemoryInv'
    BY <1>1, <1>3 DEF WriteLimit, Charge
  <1>4. ASSUME NEW t \in Threads, Snapshot(t) PROVE MemoryInv'
    BY <1>4, LockInv, DetectLimitInv, DetectUsageInv, DetectSucceedsInv, DetectFailsInv, RefreshInv
       DEF Snapshot
  <1> QED
    BY <1>2, <1>3, <1>4, EnterInv DEF Next

LEMMA InitMemory == Init => MemoryInv /\ FilesKnown
  <1> SUFFICES ASSUME Init PROVE MemoryInv /\ FilesKnown
    OBVIOUS
  <1>1. \A t \in Threads : call[t] = Idle
    BY DEF Init
  <1>2. DOMAIN Idle = Fields /\ Idle.step = "idle" /\ Idle.op = None /\ Idle.snapshot = None
    BY DEF Idle, Fields
  <1>3. Shape
    BY <1>1, <1>2 DEF Init, Shape, NoMemory
  <1>4. Holding /\ Phases /\ Clean
    BY <1>1, <1>2, MemoryAssumption DEF Init, Holding, Phases, Clean, Inside
  <1>5. Answers /\ Returned
    BY <1>1, <1>2, MemoryAssumption DEF Answers, Returned
  <1>6. Sizes /\ FilesKnown
    BY <1>1, <1>2, NumbersKnown DEF Init, Sizes, FilesKnown, NoMemory, Limits
  <1> QED
    BY <1>3, <1>4, <1>5, <1>6 DEF MemoryInv

LEMMA MemorySafe == Spec => [](MemoryInv /\ FilesKnown)
  <1>1. MemoryInv /\ FilesKnown /\ [Next]_vars => (MemoryInv /\ FilesKnown)'
    BY NextMemory, NextFiles
  <1> QED
    BY <1>1, InitMemory, PTL DEF Spec

LEMMA PodTrue ==
    ASSUME MemoryInv, NEW t \in Threads, NEW op \in Calls, Pod(t, op)
    PROVE  /\ call[t].answer.source = "pod"
           /\ op = "sysinfo" => SysinfoTrue(call[t].answer, cgmem.limit, machine)
           /\ op \in {"phys_pages", "avphys_pages"} => PagesTrue(op, call[t].answer, cgmem.limit, machine)
           /\ op = "meminfo" => MeminfoTrue(call[t].answer, cgmem.limit, machine)
  <1>1. call[t].step = "idle" /\ call[t].op = op /\ call[t].answer.source = "pod"
    BY DEF Pod, Answered
  <1>2. AnswerTrue(call[t], cgmem.limit, machine)
    BY <1>1 DEF MemoryInv, Answers
  <1> QED
    BY <1>1, <1>2 DEF AnswerTrue

(* rps_memory_snapshot: the lock is held by the thread that is inside, and *)
(* by nobody else, and no path out of the function leaves it locked or a   *)
(* half filled structure behind.                                           *)
THEOREM SnapshotLocked == Spec => []LockProtects
  <1>1. MemoryInv => LockProtects
    BY DEF MemoryInv, Holding, Clean, LockProtects, Inside
  <1> QED
    BY <1>1, MemorySafe, PTL

(* sysinfo, sysconf and the virtual meminfo of all threads show the total  *)
(* of one limit, which is chosen once for the life of the process, however *)
(* the control files change meanwhile.                                     *)
THEOREM TotalsAlwaysAgree == Spec => []TotalsAgree
  <1>1. MemoryInv => TotalsAgree
    <2> SUFFICES ASSUME MemoryInv, NEW t \in Threads, NEW op \in Calls, Pod(t, op)
                 PROVE  /\ op = "sysinfo" => call[t].answer.total = cgmem.limit \div call[t].answer.unit
                        /\ op = "phys_pages" => call[t].answer.total = cgmem.limit \div PageSize
                        /\ op = "meminfo" => \A i \in DOMAIN call[t].answer.rest :
                               call[t].answer.rest[i].key = "MemTotal" =>
                                   call[t].answer.rest[i].value = cgmem.limit \div Kilo
      BY DEF TotalsAgree, Calls
    <2> QED
      BY PodTrue DEF SysinfoTrue, PagesTrue, MeminfoTrue, LineTrue
  <1> QED
    BY <1>1, MemorySafe, PTL

(* No interface of any thread reports more free memory than memory, with   *)
(* any limit and any usage, in any unit and on any machine.                *)
THEOREM FreeNeverAboveTotal == Spec => []FreeWithinTotal
  <1>1. MemoryInv => FreeWithinTotal
    <2> SUFFICES ASSUME MemoryInv, NEW t \in Threads, NEW op \in Calls, Pod(t, op)
                 PROVE  /\ op = "sysinfo" => call[t].answer.free <= call[t].answer.total
                        /\ op = "avphys_pages" => call[t].answer.free <= cgmem.limit \div PageSize
                        /\ op = "meminfo" => \A i \in DOMAIN call[t].answer.rest :
                               call[t].answer.rest[i].key \in {"MemFree", "MemAvailable"} =>
                                   call[t].answer.rest[i].value <= cgmem.limit \div Kilo
      BY DEF FreeWithinTotal, Calls
    <2> QED
      BY PodTrue DEF SysinfoTrue, PagesTrue, MeminfoTrue, LineTrue
  <1> QED
    BY <1>1, MemorySafe, PTL

(* sysinfo never gives up for the size of a limit, whatever the width of   *)
(* unsigned long; with 64 bits sysconf does not either, and the fields of  *)
(* the host that sysinfo passes on keep their unit.                        *)
THEOREM SizesAlwaysFit == Spec => []SizesFit
  <1>1. MemoryInv => SizesFit
    <2> SUFFICES ASSUME MemoryInv, NEW t \in Threads, call[t].step = "idle", call[t].snapshot # None
                 PROVE  /\ call[t].op = "sysinfo" => call[t].answer.source = "pod"
                        /\ machine.wordMax = U64Max =>
                               /\ call[t].answer.source # "EOVERFLOW"
                               /\ call[t].op = "sysinfo" =>
                                      call[t].answer.unit * call[t].answer.rest = HostSwap
      BY DEF SizesFit
    <2>1. call[t].op \in Calls
      BY DEF MemoryInv, Returned
    <2>2. AnswerTrue(call[t], cgmem.limit, machine)
      BY <2>1 DEF MemoryInv, Answers
    <2> QED
      BY <2>1, <2>2 DEF AnswerTrue, SysinfoTrue, PagesTrue, MeminfoTrue, Calls
  <1> QED
    BY <1>1, MemorySafe, PTL

(* The text of the virtual meminfo has the lines of the host's file in     *)
(* their order, all of them, and fits into its buffer, for any file.       *)
THEOREM MeminfoAlwaysWhole == Spec => []MeminfoWhole
  <1>1. MemoryInv => MeminfoWhole
    <2> SUFFICES ASSUME MemoryInv, NEW t \in Threads, Pod(t, "meminfo")
                 PROVE  /\ Len(call[t].answer.rest) = Len(machine.text)
                        /\ Length(call[t].answer.rest) <= BufLen
                        /\ \A i \in DOMAIN call[t].answer.rest :
                               /\ call[t].answer.rest[i].key = machine.text[i].key
                               /\ call[t].answer.rest[i].key = "other" =>
                                      call[t].answer.rest[i] = machine.text[i]
      BY DEF MeminfoWhole
    <2>1. MeminfoTrue(call[t].answer, cgmem.limit, machine) /\ call[t].answer.source = "pod"
      BY PodTrue DEF Calls, Pod
    <2> QED
      BY <2>1 DEF MeminfoTrue, LineTrue
  <1> QED
    BY <1>1, MemorySafe, PTL

-----------------------------------------------------------------------------
(* The choice of the limit *)

(* Nobody wrote to directory g, and it has a finite limit and a usage. *)
Clear(f, w, g) ==
    /\ g \in Groups /\ w[g] = 0
    /\ ReadLimit(f[g].limit) # None /\ ParseU64(f[g].usage) # None

(* Directory g with limit n is the choice among the first k candidates. *)
Chosen(m, f, w, g, n, k) ==
    /\ g \in Groups
    /\ \E j \in 1..k : Candidates(m)[j] = g
    /\ w[g] = 0 => Clear(f, w, g) /\ n = ReadLimit(f[g].limit)
    /\ \A j \in 1..k : Clear(f, w, Candidates(m)[j]) => n <= ReadLimit(f[Candidates(m)[j]].limit)

NoneClear(m, f, w, k) == \A j \in 1..k : ~Clear(f, w, Candidates(m)[j])

(* What a detection has done so far, in the call c. *)
Scanned(c, m, f, w, mem) ==
    /\ c.next \in 1..(Len(Candidates(m)) + 1) /\ c.found \in BOOLEAN
    /\ c.found => Chosen(m, f, w, mem.group, mem.limit, c.next - 1)
    /\ ~c.found => NoneClear(m, f, w, c.next - 1)
    /\ c.step = "usage" =>
           /\ c.next <= Len(Candidates(m)) /\ Candidates(m)[c.next] \in Groups
           /\ w[Candidates(m)[c.next]] = 0 => c.limit = ReadLimit(f[Candidates(m)[c.next]].limit)

(* A detection starts with the first candidate. *)
Fresh == \A t \in Threads : call[t].step = "lock" => call[t].next = 1 /\ call[t].found = FALSE

Scanning ==
    \A t \in Threads :
        call[t].step \in {"limit", "usage"} => Scanned(call[t], machine, files, writes, cgmem)

Settled == detected => Chosen(machine, files, writes, cgmem.group, cgmem.limit, Len(Candidates(machine)))

AllSteady(w) == \A g \in Groups : w[g] = 0

(* A call without a snapshot has seen that no directory has a limit. *)
Unlimited ==
    \A t \in Threads :
        call[t].step = "idle" /\ call[t].op \in Calls /\ call[t].snapshot = None /\ AllSteady(writes) =>
            NoneClear(machine, files, writes, Len(Candidates(machine)))

ScanInv == Fresh /\ Scanning /\ Settled /\ Unlimited

LEMMA CandidatesLen ==
    ASSUME NEW m \in Machines
    PROVE  Len(Candidates(m)) \in Nat /\ DOMAIN Candidates(m) = 1..Len(Candidates(m))
  BY CandidatesExact, LenProperties

LEMMA NothingRead == ParseU64(<<>>) = None /\ ReadLimit(<<>>) = None
  BY DEF ParseU64, ReadLimit

(* The limit and the usage of directory g, when g is one. *)
LEMMA TokenRead ==
    ASSUME NEW g
    PROVE  /\ ReadLimit(Token(g, "limit")) # None =>
                  g \in Groups /\ ReadLimit(Token(g, "limit")) = ReadLimit(files[g].limit)
           /\ ReadLimit(Token(g, "limit")) = None => ~Clear(files, writes, g)
           /\ ParseU64(Token(g, "usage")) # None =>
                  g \in Groups /\ ParseU64(Token(g, "usage")) = ParseU64(files[g].usage)
           /\ ParseU64(Token(g, "usage")) = None => ~Clear(files, writes, g)
  BY NothingRead DEF Token, Clear

LEMMA ClearLimit ==
    ASSUME FilesKnown, NEW g, Clear(files, writes, g)
    PROVE  ReadLimit(files[g].limit) \in Nat
  <1>1. files[g].limit \in LimitTokens /\ ReadLimit(files[g].limit) # None
    BY DEF FilesKnown, Clear
  <1>2. files[g].limit \in Tokens
    BY <1>1, MemoryAssumption DEF Tokens
  <1> QED
    BY <1>1, <1>2, LimitKnown, NumbersKnown

(* The kernel and the owner of the container only take directories away. *)
Fades(f, w, f2, w2) ==
    \A g \in Groups :
        w2[g] = 0 => /\ w[g] = 0
                     /\ ReadLimit(f2[g].limit) = ReadLimit(f[g].limit)
                     /\ ParseU64(f2[g].usage) = None <=> ParseU64(f[g].usage) = None

LEMMA WriteFades ==
    ASSUME FilesKnown, NEW g \in Groups, NEW token, WriteLimit(g, token)
    PROVE  Fades(files, writes, files', writes')
  <1>1. /\ writes' = [writes EXCEPT ![g] = writes[g] + 1]
        /\ files' = [files EXCEPT ![g].limit = token]
    BY DEF WriteLimit, Written
  <1>2. writes'[g] # 0
    BY <1>1 DEF FilesKnown
  <1>3. \A h \in Groups : h # g => writes'[h] = writes[h] /\ files'[h] = files[h]
    BY <1>1 DEF FilesKnown
  <1> QED
    BY <1>2, <1>3, Zenon DEF Fades

LEMMA ChargeFades ==
    ASSUME FilesKnown, NEW g \in Groups, NEW token, Charge(g, token)
    PROVE  Fades(files, writes, files', writes')
  <1>1. /\ \/ writes' = writes /\ ((ParseU64(token) = None) = (ParseU64(files[g].usage) = None))
           \/ writes' = [writes EXCEPT ![g] = writes[g] + 1]
        /\ files' = [files EXCEPT ![g].usage = token]
    BY DEF Charge, Written
  <1>2. files'[g].limit = files[g].limit /\ files'[g].usage = token
    BY <1>1 DEF FilesKnown
  <1>3. \A h \in Groups : h # g => writes'[h] = writes[h] /\ files'[h] = files[h]
    BY <1>1 DEF FilesKnown
  <1>4. CASE writes' = writes /\ ((ParseU64(token) = None) = (ParseU64(files[g].usage) = None))
    BY <1>2, <1>3, <1>4, Zenon DEF Fades
  <1>5. CASE writes' = [writes EXCEPT ![g] = writes[g] + 1]
    <2>1. writes'[g] # 0
      BY <1>5 DEF FilesKnown
    <2> QED
      BY <1>3, <2>1, Zenon DEF Fades
  <1> QED
    BY <1>1, <1>4, <1>5

LEMMA FadesKept ==
    ASSUME NEW m, NEW f, NEW w, NEW f2, NEW w2, Fades(f, w, f2, w2), NEW k
    PROVE  /\ \A g : Clear(f2, w2, g) => Clear(f, w, g) /\ ReadLimit(f2[g].limit) = ReadLimit(f[g].limit)
           /\ \A g : g \in Groups /\ w2[g] = 0 /\ Clear(f, w, g) => Clear(f2, w2, g)
           /\ \A g, n : Chosen(m, f, w, g, n, k) => Chosen(m, f2, w2, g, n, k)
           /\ NoneClear(m, f, w, k) => NoneClear(m, f2, w2, k)
  <1>1. \A g : Clear(f2, w2, g) => Clear(f, w, g) /\ ReadLimit(f2[g].limit) = ReadLimit(f[g].limit)
    BY Zenon DEF Fades, Clear
  <1>2. \A g : g \in Groups /\ w2[g] = 0 /\ Clear(f, w, g) => Clear(f2, w2, g)
    BY Zenon DEF Fades, Clear
  <1>3. ASSUME NEW g, NEW n, Chosen(m, f, w, g, n, k) PROVE Chosen(m, f2, w2, g, n, k)
    <2>1. g \in Groups /\ \E j \in 1..k : Candidates(m)[j] = g
      BY <1>3 DEF Chosen
    <2>2. ASSUME w2[g] = 0 PROVE Clear(f2, w2, g) /\ n = ReadLimit(f2[g].limit)
      <3>1. w[g] = 0 /\ Clear(f, w, g) /\ n = ReadLimit(f[g].limit)
        BY <1>3, <2>1, <2>2, Zenon DEF Chosen, Fades
      <3> QED
        BY <1>1, <1>2, <2>1, <2>2, <3>1, Zenon
    <2>3. ASSUME NEW j \in 1..k, Clear(f2, w2, Candidates(m)[j])
          PROVE  n <= ReadLimit(f2[Candidates(m)[j]].limit)
      BY <1>1, <1>3, <2>3, Zenon DEF Chosen
    <2> QED
      BY <2>1, <2>2, <2>3, Zenon DEF Chosen
  <1>4. NoneClear(m, f, w, k) => NoneClear(m, f2, w2, k)
    BY <1>1, Zenon DEF NoneClear
  <1> QED
    BY <1>1, <1>2, <1>3, <1>4, Zenon

LEMMA OwnerScan ==
    ASSUME ScanInv, Fades(files, writes, files', writes'),
           UNCHANGED <<machine, cgmem, detected, lock, call>>
    PROVE  ScanInv'
  <1>1. Fresh'
    BY DEF ScanInv, Fresh
  <1>2. Scanning'
    <2> SUFFICES ASSUME NEW t \in Threads, call[t].step \in {"limit", "usage"}
                 PROVE  Scanned(call[t], machine, files', writes', cgmem)
      BY DEF Scanning
    <2> DEFINE c == call[t]
    <2>1. Scanned(c, machine, files, writes, cgmem)
      BY DEF ScanInv, Scanning
    <2> HIDE DEF c
    <2>2. ASSUME c.found PROVE Chosen(machine, files', writes', cgmem.group, cgmem.limit, c.next - 1)
      <3> DEFINE n == c.next - 1
      <3>1. Chosen(machine, files, writes, cgmem.group, cgmem.limit, n)
        BY <2>1, <2>2 DEF Scanned
      <3> HIDE DEF n
      <3>2. Chosen(machine, files', writes', cgmem.group, cgmem.limit, n)
        BY <3>1, FadesKept
      <3> QED
        BY <3>2 DEF n
    <2>3. ~c.found => NoneClear(machine, files', writes', c.next - 1)
      BY <2>1, FadesKept, Zenon DEF Scanned
    <2>4. ASSUME c.step = "usage", writes'[Candidates(machine)[c.next]] = 0
          PROVE  c.limit = ReadLimit(files'[Candidates(machine)[c.next]].limit)
      BY <2>1, <2>4, Zenon DEF Scanned, Fades
    <2>5. Scanned(c, machine, files', writes', cgmem)
      BY <2>1, <2>2, <2>3, <2>4, Zenon DEF Scanned
    <2> QED
      BY <2>5 DEF c
  <1>3. Settled'
    BY FadesKept, Zenon DEF ScanInv, Settled
  <1>4. Unlimited'
    <2>1. AllSteady(writes') => AllSteady(writes)
      BY DEF AllSteady, Fades
    <2> SUFFICES ASSUME NEW t \in Threads, call[t].step = "idle", call[t].op \in Calls,
                        call[t].snapshot = None, AllSteady(writes')
                 PROVE  NoneClear(machine, files', writes', Len(Candidates(machine)))
      BY DEF Unlimited
    <2>2. NoneClear(machine, files, writes, Len(Candidates(machine)))
      BY <2>1 DEF ScanInv, Unlimited
    <2> QED
      BY <2>2, FadesKept, Zenon
  <1> QED
    BY <1>1, <1>2, <1>3, <1>4 DEF ScanInv

(* The next candidate does not count. *)
LEMMA OneMoreNot ==
    ASSUME NEW m, NEW f, NEW w, NEW k \in Nat, ~Clear(f, w, Candidates(m)[k + 1])
    PROVE  /\ \A g, n : Chosen(m, f, w, g, n, k) => Chosen(m, f, w, g, n, k + 1)
           /\ NoneClear(m, f, w, k) => NoneClear(m, f, w, k + 1)
  <1>1. \A j \in 1..(k + 1) : j \in 1..k \/ j = k + 1
    OBVIOUS
  <1>2. \A j \in 1..k : j \in 1..(k + 1)
    OBVIOUS
  <1>3. ASSUME NEW g, NEW n, Chosen(m, f, w, g, n, k) PROVE Chosen(m, f, w, g, n, k + 1)
    BY <1>1, <1>2, <1>3, Zenon DEF Chosen
  <1>4. NoneClear(m, f, w, k) => NoneClear(m, f, w, k + 1)
    BY <1>1, Zenon DEF NoneClear
  <1> QED
    BY <1>3, <1>4, Zenon

(* A step of a detection, from the call c to the call d. *)
LEMMA ScanStep ==
    ASSUME MemoryInv, ScanInv, NEW t \in Threads, call[t].step \in {"limit", "usage"},
           NEW d, d.step \in {"limit", "usage"}, call'[t] = d,
           \A u \in Threads \ {t} : call'[u] = call[u],
           UNCHANGED <<machine, files, writes, detected, lock>>,
           Scanned(d, machine, files, writes, cgmem')
    PROVE  ScanInv'
  <1>1. ~detected /\ lock = t
    BY DEF MemoryInv, Phases, Holding, Inside
  <1>2. \A u \in Threads \ {t} : call[u].step \notin {"limit", "usage"}
    BY <1>1 DEF MemoryInv, Holding, Inside
  <1>3. Fresh'
    BY DEF ScanInv, Fresh
  <1>4. Scanning'
    BY <1>2 DEF Scanning
  <1>5. Settled'
    BY <1>1 DEF Settled
  <1>6. Unlimited'
    BY DEF ScanInv, Unlimited
  <1> QED
    BY <1>3, <1>4, <1>5, <1>6 DEF ScanInv

LEMMA DetectLimitScan ==
    ASSUME MemoryInv, FilesKnown, ScanInv, NEW t \in Threads, DetectLimit(t)
    PROVE  ScanInv'
  <1> DEFINE g == Candidates(machine)[call[t].next]
             limit == ReadLimit(Token(g, "limit"))
             k == Len(Candidates(machine))
  <1>1. /\ call[t].step = "limit" /\ call[t].next <= k
        /\ UNCHANGED <<machine, files, cgmem, detected, lock, writes>>
    BY DEF DetectLimit
  <1>2. /\ limit = None => call' = [call EXCEPT ![t].next = @ + 1]
        /\ limit # None => call' = [call EXCEPT ![t].step = "usage", ![t].limit = limit]
    BY DEF DetectLimit, Found
  <1>3. Scanned(call[t], machine, files, writes, cgmem)
    BY <1>1 DEF ScanInv, Scanning
  <1>4. k \in Nat
    BY CandidatesLen DEF MemoryInv, Shape
  <1>5. PICK n \in Nat : n = call[t].next - 1 /\ call[t].next = n + 1 /\ n + 1 <= k
    BY <1>1, <1>3, <1>4 DEF Scanned
  <1>6. Shape
    BY DEF MemoryInv
  <1> HIDE DEF g, limit
  <1>7. CASE limit = None
    <2> DEFINE d == [call[t] EXCEPT !.next = n + 2]
    <2>1. call' = [call EXCEPT ![t] = d]
      BY <1>2, <1>5, <1>7
    <2>2. d.step = "limit" /\ d.next = n + 2 /\ d.found = call[t].found
      BY <1>1, <1>6 DEF Shape, Fields
    <2> HIDE DEF d
    <2>3. call'[t] = d /\ \A u \in Threads \ {t} : call'[u] = call[u]
      BY <1>6, <2>1 DEF Shape
    <2>4. ~Clear(files, writes, Candidates(machine)[n + 1])
      BY <1>5, <1>7, TokenRead DEF g, limit
    <2>5. /\ d.found => Chosen(machine, files, writes, cgmem.group, cgmem.limit, n + 1)
          /\ ~d.found => NoneClear(machine, files, writes, n + 1)
      BY <1>3, <1>5, <2>2, <2>4, OneMoreNot, Zenon DEF Scanned
    <2>6. d.next - 1 = n + 1 /\ d.next \in 1..(k + 1) /\ d.found \in BOOLEAN
      <3>1. d.found \in BOOLEAN
        BY <1>3, <2>2, Zenon DEF Scanned
      <3>2. d.next - 1 = n + 1 /\ d.next \in 1..(k + 1)
        <4>1. d.next = n + 2 /\ n + 1 <= k
          BY <1>5, <2>2, Zenon
        <4> HIDE DEF k
        <4> QED
          BY <1>4, <4>1
      <3> QED
        BY <3>1, <3>2
    <2>7. Scanned(d, machine, files, writes, cgmem')
      BY <1>1, <2>2, <2>5, <2>6, Zenon DEF Scanned
    <2> QED
      BY <1>1, <2>2, <2>3, <2>7, ScanStep
  <1>8. CASE limit # None
    <2> DEFINE d == [call[t] EXCEPT !.step = "usage", !.limit = limit]
    <2>1. call' = [call EXCEPT ![t] = d]
      BY <1>2, <1>8
    <2>2. d.step = "usage" /\ d.next = call[t].next /\ d.found = call[t].found /\ d.limit = limit
      BY <1>1, <1>6 DEF Shape, Fields
    <2> HIDE DEF d
    <2>3. call'[t] = d /\ \A u \in Threads \ {t} : call'[u] = call[u]
      BY <1>6, <2>1 DEF Shape
    <2>4. g \in Groups /\ limit = ReadLimit(files[g].limit)
      BY <1>8, TokenRead DEF limit
    <2>5. Scanned(d, machine, files, writes, cgmem')
      BY <1>1, <1>3, <2>2, <2>4 DEF Scanned, g
    <2> QED
      BY <1>1, <2>2, <2>3, <2>5, ScanStep
  <1> QED
    BY <1>7, <1>8

LEMMA DetectUsageScan ==
    ASSUME MemoryInv, FilesKnown, ScanInv, NEW t \in Threads, DetectUsage(t)
    PROVE  ScanInv'
  <1> DEFINE c == call[t]
             g == Candidates(machine)[c.next]
             current == ParseU64(Token(g, "usage"))
             taken == current # None /\ TakesPlace(t)
             d == [c EXCEPT !.step = "limit", !.next = c.next + 1, !.found = c.found \/ taken]
             k == Len(Candidates(machine))
  <1>1. /\ c.step = "usage" /\ call' = [call EXCEPT ![t] = d]
        /\ cgmem' = IF taken THEN [group |-> g, limit |-> c.limit, current |-> current] ELSE cgmem
        /\ UNCHANGED <<machine, files, writes, detected, lock>>
    BY DEF DetectUsage, Found
  <1>2. Scanned(c, machine, files, writes, cgmem)
    BY <1>1 DEF ScanInv, Scanning
  <1>3. k \in Nat
    BY CandidatesLen DEF MemoryInv, Shape
  <1>4. c.limit \in Nat /\ cgmem.limit \in Nat
    BY <1>1, NumbersKnown DEF MemoryInv, Sizes
  <1>5. taken = (current # None /\ (~c.found \/ c.limit < cgmem.limit))
    BY DEF TakesPlace
  <1>6. Shape
    BY DEF MemoryInv
  <1> HIDE DEF current, taken
  <1>7. d.step = "limit" /\ d.next = c.next + 1 /\ d.found = (c.found \/ taken)
    BY <1>6 DEF Shape, Fields
  <1> HIDE DEF d
  <1>8. call'[t] = d /\ \A u \in Threads \ {t} : call'[u] = call[u]
    BY <1>1, <1>6 DEF Shape
  <1> HIDE DEF c, g
  <1>9. /\ c.next \in 1..k /\ g \in Groups /\ c.found \in BOOLEAN
        /\ writes[g] = 0 => c.limit = ReadLimit(files[g].limit)
    BY <1>1, <1>2, <1>3 DEF Scanned, g
  <1>10. PICK n \in Nat : n = c.next - 1 /\ c.next = n + 1 /\ n + 1 <= k
    BY <1>3, <1>9
  <1>11. /\ c.found => Chosen(machine, files, writes, cgmem.group, cgmem.limit, n)
         /\ ~c.found => NoneClear(machine, files, writes, n)
    BY <1>2, <1>10 DEF Scanned
  <1>12. d.next - 1 = n + 1 /\ d.next \in 1..(k + 1) /\ d.found \in BOOLEAN
    BY <1>3, <1>7, <1>9, <1>10
  <1>13. \A j \in 1..(n + 1) : j \in 1..n \/ j = n + 1
    OBVIOUS
  <1>14. \A j \in 1..n : j \in 1..(n + 1)
    OBVIOUS
  <1>15. n + 1 \in 1..(n + 1) /\ Candidates(machine)[n + 1] = g
    BY <1>10 DEF g
  <1>16. /\ d.found => Chosen(machine, files, writes, cgmem'.group, cgmem'.limit, n + 1)
         /\ ~d.found => NoneClear(machine, files, writes, n + 1)
    <2>1. CASE current = None
      <3>1. ~Clear(files, writes, Candidates(machine)[n + 1])
        BY <1>15, <2>1, TokenRead DEF current
      <3>2. ~taken /\ cgmem' = cgmem /\ d.found = c.found
        BY <1>1, <1>5, <1>7, <1>9, <2>1
      <3> QED
        BY <1>11, <3>1, <3>2, OneMoreNot, Zenon
    <2>2. CASE current # None
      <3>1. current = ParseU64(files[g].usage)
        BY <2>2, TokenRead DEF current
      <3>2. ASSUME Clear(files, writes, g) PROVE c.limit = ReadLimit(files[g].limit)
        BY <1>9, <3>2 DEF Clear
      <3>3. CASE taken
        <4>1. cgmem'.group = g /\ cgmem'.limit = c.limit /\ d.found
          BY <1>1, <1>7, <3>3
        <4>2. ASSUME writes[g] = 0 PROVE Clear(files, writes, g) /\ c.limit = ReadLimit(files[g].limit)
          <5>1. c.limit # None
            BY <1>4, NumbersKnown
          <5> QED
            BY <1>9, <2>2, <3>1, <4>2, <5>1 DEF Clear
        <4>3. ASSUME NEW j \in 1..(n + 1), Clear(files, writes, Candidates(machine)[j])
              PROVE  c.limit <= ReadLimit(files[Candidates(machine)[j]].limit)
          <5> DEFINE l == ReadLimit(files[Candidates(machine)[j]].limit)
          <5>1. l \in Nat
            BY <4>3, ClearLimit
          <5>2. CASE j = n + 1
            <6>1. c.limit = l
              BY <1>15, <3>2, <4>3, <5>2
            <6> HIDE DEF l
            <6>2. c.limit <= l
              BY <1>4, <6>1
            <6> QED
              BY <6>2 DEF l
          <5>3. CASE j \in 1..n
            <6>1. c.found /\ c.limit < cgmem.limit
              BY <1>5, <1>11, <3>3, <4>3, <5>3 DEF NoneClear
            <6>2. cgmem.limit <= l
              BY <1>11, <4>3, <5>3, <6>1, Zenon DEF Chosen
            <6> HIDE DEF l
            <6>3. c.limit <= l
              BY <1>4, <5>1, <6>1, <6>2
            <6> QED
              BY <6>3 DEF l
          <5> QED
            BY <1>13, <5>2, <5>3
        <4>4. Chosen(machine, files, writes, g, c.limit, n + 1)
          BY <1>9, <1>15, <4>2, <4>3, Zenon DEF Chosen
        <4> QED
          BY <4>1, <4>4
      <3>4. CASE ~taken
        <4>1. c.found /\ ~(c.limit < cgmem.limit) /\ cgmem' = cgmem /\ d.found
          BY <1>1, <1>5, <1>7, <1>9, <2>2, <3>4
        <4>2. Chosen(machine, files, writes, cgmem.group, cgmem.limit, n)
          BY <1>11, <4>1
        <4>3. cgmem.limit <= c.limit
          BY <1>4, <4>1
        <4>4. Chosen(machine, files, writes, cgmem.group, cgmem.limit, n + 1)
          BY <1>13, <1>14, <1>15, <3>2, <4>2, <4>3, Zenon DEF Chosen
        <4> QED
          BY <4>1, <4>4
      <3> QED
        BY <3>3, <3>4
    <2> QED
      BY <2>1, <2>2
  <1>17. Scanned(d, machine, files, writes, cgmem')
    BY <1>7, <1>12, <1>16 DEF Scanned
  <1> QED
    BY <1>1, <1>7, <1>8, <1>17, ScanStep DEF c

LEMMA LockScan ==
    ASSUME MemoryInv, ScanInv, NEW t \in Threads, Lock(t)
    PROVE  ScanInv'
  <1>1. /\ call[t].step = "lock" /\ lock = None
        /\ UNCHANGED <<machine, files, detected, writes>>
    BY DEF Lock
  <1>2. PICK s \in {"refresh", "limit"} :
            /\ Goto(t, s)
            /\ s = "refresh" => detected /\ cgmem' = cgmem
            /\ s = "limit" => ~detected
    BY DEF Lock
  <1> DEFINE d == [call[t] EXCEPT !.step = s]
  <1>3. call' = [call EXCEPT ![t] = d]
    BY <1>2 DEF Goto
  <1>4. d.step = s /\ d.next = 1 /\ d.found = FALSE
    BY <1>1 DEF MemoryInv, Shape, Fields, ScanInv, Fresh
  <1> HIDE DEF d
  <1>5. call'[t] = d /\ \A u \in Threads \ {t} : call'[u] = call[u]
    BY <1>3 DEF MemoryInv, Shape
  <1>6. \A u \in Threads : call[u].step \notin {"limit", "usage"}
    BY <1>1, MemoryAssumption DEF MemoryInv, Holding, Inside
  <1>7. ASSUME s = "limit" PROVE Scanned(d, machine, files, writes, cgmem')
    <2>1. Len(Candidates(machine)) \in Nat
      BY CandidatesLen DEF MemoryInv, Shape
    <2>2. NoneClear(machine, files, writes, d.next - 1)
      <3>1. 1..(d.next - 1) = {}
        BY <1>4
      <3> QED
        BY <3>1, Zenon DEF NoneClear
    <2>3. d.next \in 1..(Len(Candidates(machine)) + 1)
      BY <1>4, <2>1
    <2>4. d.step # "usage"
      BY <1>4, <1>7
    <2> QED
      BY <1>4, <2>2, <2>3, <2>4, Zenon DEF Scanned
  <1>8. Fresh'
    BY <1>2, <1>4, <1>5 DEF ScanInv, Fresh
  <1>9. Scanning'
    BY <1>1, <1>2, <1>4, <1>5, <1>6, <1>7 DEF Scanning
  <1>10. Settled'
    BY <1>1, <1>2 DEF ScanInv, Settled
  <1>11. Unlimited'
    BY <1>1, <1>2, <1>4, <1>5 DEF ScanInv, Unlimited
  <1> QED
    BY <1>8, <1>9, <1>10, <1>11 DEF ScanInv

LEMMA EnterScan ==
    ASSUME MemoryInv, ScanInv, NEW t \in Threads, NEW op \in Calls, Enter(t, op)
    PROVE  ScanInv'
  <1> DEFINE d == [Idle EXCEPT !.op = op, !.step = "lock"]
  <1>1. /\ call' = [call EXCEPT ![t] = d]
        /\ UNCHANGED <<machine, files, cgmem, detected, writes>>
    BY DEF Enter
  <1>2. d.step = "lock" /\ d.next = 1 /\ d.found = FALSE
    BY DEF Idle
  <1> HIDE DEF d
  <1>3. call'[t] = d /\ \A u \in Threads \ {t} : call'[u] = call[u]
    BY <1>1 DEF MemoryInv, Shape
  <1> QED
    BY <1>1, <1>2, <1>3 DEF ScanInv, Fresh, Scanning, Settled, Unlimited

LEMMA DetectSucceedsScan ==
    ASSUME MemoryInv, ScanInv, NEW t \in Threads, DetectSucceeds(t)
    PROVE  ScanInv'
  <1> DEFINE k == Len(Candidates(machine))
  <1>1. /\ call[t].step = "limit" /\ call[t].next > k /\ call[t].found
        /\ detected' = TRUE /\ Goto(t, "refresh")
        /\ UNCHANGED <<machine, files, cgmem, lock, writes>>
    BY DEF DetectSucceeds
  <1>2. /\ call'[t].step = "refresh"
        /\ \A u \in Threads \ {t} : call'[u] = call[u]
    BY <1>1, Move DEF MemoryInv
  <1>3. Scanned(call[t], machine, files, writes, cgmem)
    BY <1>1 DEF ScanInv, Scanning
  <1>4. k \in Nat
    BY CandidatesLen DEF MemoryInv, Shape
  <1>5. call[t].next - 1 = k
    BY <1>1, <1>3, <1>4 DEF Scanned
  <1>6. Chosen(machine, files, writes, cgmem.group, cgmem.limit, k)
    BY <1>1, <1>3, <1>5, Zenon DEF Scanned
  <1>7. Fresh'
    BY <1>2 DEF ScanInv, Fresh
  <1>8. Scanning'
    BY <1>1, <1>2 DEF ScanInv, Scanning
  <1>9. Settled'
    BY <1>1, <1>6 DEF Settled
  <1>10. Unlimited'
    BY <1>1, <1>2 DEF ScanInv, Unlimited
  <1> QED
    BY <1>7, <1>8, <1>9, <1>10 DEF ScanInv

LEMMA DetectFailsScan ==
    ASSUME MemoryInv, ScanInv, NEW t \in Threads, DetectFails(t)
    PROVE  ScanInv'
  <1> DEFINE k == Len(Candidates(machine))
  <1>1. /\ call[t].step = "limit" /\ call[t].next > k /\ ~call[t].found
        /\ Return(t, None)
        /\ UNCHANGED <<machine, files, detected, writes>>
    BY DEF DetectFails
  <1>2. /\ call'[t].step = "idle"
        /\ \A u \in Threads \ {t} : call'[u] = call[u]
    BY <1>1, Returns DEF MemoryInv
  <1>3. Scanned(call[t], machine, files, writes, cgmem)
    BY <1>1 DEF ScanInv, Scanning
  <1>4. k \in Nat
    BY CandidatesLen DEF MemoryInv, Shape
  <1>5. call[t].next - 1 = k
    BY <1>1, <1>3, <1>4 DEF Scanned
  <1>6. NoneClear(machine, files, writes, k)
    BY <1>1, <1>3, <1>5, Zenon DEF Scanned
  <1>7. ~detected /\ \A u \in Threads \ {t} : call[u].step \notin {"limit", "usage"}
    BY <1>1 DEF MemoryInv, Phases, Holding, Inside
  <1>8. Fresh'
    BY <1>2 DEF ScanInv, Fresh
  <1>9. Scanning'
    BY <1>2, <1>7 DEF Scanning
  <1>10. Settled'
    BY <1>1, <1>7 DEF Settled
  <1>11. Unlimited'
    BY <1>1, <1>2, <1>6 DEF ScanInv, Unlimited
  <1> QED
    BY <1>8, <1>9, <1>10, <1>11 DEF ScanInv

LEMMA RefreshScan ==
    ASSUME MemoryInv, FilesKnown, ScanInv, NEW t \in Threads, Refresh(t)
    PROVE  ScanInv'
  <1> DEFINE current == ParseU64(Token(cgmem.group, "usage"))
             s == [total |-> cgmem.limit, available |-> Available(cgmem.limit, current)]
  <1>1. call[t].step = "refresh" /\ UNCHANGED <<machine, files, detected, writes>>
    BY DEF Refresh
  <1>2. \/ current = None /\ Return(t, None) /\ cgmem' = cgmem
        \/ current # None /\ Return(t, s) /\ cgmem' = [cgmem EXCEPT !.current = current]
    BY DEF Refresh
  <1>3. lock = t /\ detected
    BY <1>1 DEF MemoryInv, Holding, Inside, Phases
  <1>4. current # None => s # None
    <2>1. Token(cgmem.group, "usage") \in Tokens
      BY TokenKnown
    <2>2. current # None => current \in 0..U64Max
      BY <2>1, ParsedIsSpelled
    <2> HIDE DEF current
    <2>3. cgmem.limit \in Nat
      BY NumbersKnown DEF MemoryInv, Sizes
    <2>4. current # None => Available(cgmem.limit, current) \in Nat
      BY <2>2, <2>3, NumbersKnown DEF Available
    <2> QED
      BY <2>3, <2>4, MemoryAssumption
  <1> HIDE DEF current, s
  <1>5. cgmem'.limit = cgmem.limit /\ cgmem'.group = cgmem.group
    BY <1>2 DEF MemoryInv, Shape
  <1>6. PICK snapshot : Return(t, snapshot) /\ (snapshot = None => current = None)
    BY <1>2, <1>4
  <1>7. /\ call'[t].step = "idle" /\ call'[t].snapshot = snapshot
        /\ \A u \in Threads \ {t} : call'[u] = call[u]
    BY <1>6, Returns DEF MemoryInv
  <1>8. ASSUME current = None PROVE ~AllSteady(writes)
    <2>1. /\ cgmem.group \in Groups
          /\ writes[cgmem.group] = 0 => Clear(files, writes, cgmem.group)
      BY <1>3 DEF ScanInv, Settled, Chosen
    <2>2. ~Clear(files, writes, cgmem.group)
      BY <1>8, TokenRead DEF current
    <2> QED
      BY <2>1, <2>2 DEF AllSteady
  <1>9. Fresh'
    BY <1>7 DEF ScanInv, Fresh
  <1>10. Scanning'
    <2>1. \A u \in Threads \ {t} : call[u].step \notin {"limit", "usage"}
      BY <1>3 DEF MemoryInv, Holding, Inside
    <2> QED
      BY <1>7, <2>1 DEF Scanning
  <1>11. Settled'
    BY <1>1, <1>5 DEF ScanInv, Settled
  <1>12. Unlimited'
    BY <1>1, <1>6, <1>7, <1>8 DEF ScanInv, Unlimited
  <1> QED
    BY <1>9, <1>10, <1>11, <1>12 DEF ScanInv

LEMMA NextScan ==
    ASSUME MemoryInv, FilesKnown, ScanInv, [Next]_vars
    PROVE  ScanInv'
  <1>1. CASE UNCHANGED vars
    <2>1. Fades(files, writes, files', writes')
      BY <1>1 DEF vars, Fades
    <2> QED
      BY <1>1, <2>1, OwnerScan DEF vars
  <1>2. ASSUME NEW g \in Groups, NEW token, WriteLimit(g, token) PROVE ScanInv'
    BY <1>2, WriteFades, OwnerScan DEF WriteLimit
  <1>3. ASSUME NEW g \in Groups, NEW token, Charge(g, token) PROVE ScanInv'
    BY <1>3, ChargeFades, OwnerScan DEF Charge
  <1>4. ASSUME NEW t \in Threads, Snapshot(t) PROVE ScanInv'
    BY <1>4, LockScan, DetectLimitScan, DetectUsageScan, DetectSucceedsScan, DetectFailsScan, RefreshScan
       DEF Snapshot
  <1> QED
    BY <1>1, <1>2, <1>3, <1>4, EnterScan DEF Next

LEMMA ScanSafe == Spec => [](MemoryInv /\ FilesKnown /\ ScanInv)
  <1>1. Init => ScanInv
    <2> SUFFICES ASSUME Init PROVE ScanInv
      OBVIOUS
    <2>1. \A t \in Threads : call[t] = Idle
      BY DEF Init
    <2>2. Idle.step = "idle" /\ Idle.op = None
      BY DEF Idle
    <2> QED
      BY <2>1, <2>2, MemoryAssumption DEF Init, ScanInv, Fresh, Scanning, Settled, Unlimited
  <1>2. MemoryInv /\ FilesKnown /\ ScanInv /\ [Next]_vars => ScanInv'
    BY NextScan
  <1> QED
    BY <1>1, <1>2, MemorySafe, PTL DEF Spec

-----------------------------------------------------------------------------
(* The directories a machine names as the ones of this process are those   *)
(* its lines of /proc/self/cgroup lead to.                                 *)
OwnDirectories == \A m \in Machines : m.own = Directories(m) \cap Groups

(* A directory with a finite limit and a usage, as they are spelled and as *)
(* they are read.                                                          *)
LEMMA LimitedRead ==
    ASSUME FilesKnown, NEW g \in Groups
    PROVE  /\ \A n \in 1..(Sentinel - 1) : Limited(g, n) =>
                  ReadLimit(files[g].limit) = n /\ ParseU64(files[g].usage) # None
           /\ ReadLimit(files[g].limit) # None /\ ParseU64(files[g].usage) # None =>
                  \E n \in 1..(Sentinel - 1) : Limited(g, n)
  <1> DEFINE limit == files[g].limit
             usage == files[g].usage
  <1>1. limit \in Tokens /\ usage \in Tokens
    <2>1. limit \in LimitTokens /\ usage \in UsageTokens
      BY DEF FilesKnown
    <2> QED
      BY <2>1, MemoryAssumption DEF Tokens
  <1>2. \A n : Limited(g, n) <=> /\ n \in 1..(Sentinel - 1) /\ Spells(limit, n)
                                /\ \E u \in 0..U64Max : Spells(usage, u)
    BY Zenon DEF Limited
  <1> HIDE DEF limit, usage
  <1>3. ASSUME NEW n \in 1..(Sentinel - 1), Limited(g, n)
        PROVE  ReadLimit(limit) = n /\ ParseU64(usage) # None
    <2>1. Spells(limit, n) /\ \E u \in 0..U64Max : Spells(usage, u)
      BY <1>2, <1>3
    <2>2. n \in 0..U64Max /\ n # 0 /\ ~(n >= Sentinel) /\ n # None
      BY NumbersKnown
    <2>3. ParseU64(limit) = n
      BY <1>1, <2>1, <2>2, SpelledIsParsed
    <2>4. PICK u \in 0..U64Max : Spells(usage, u)
      BY <2>1
    <2>5. ParseU64(usage) = u /\ u # None
      BY <1>1, <2>4, SpelledIsParsed, NumbersKnown
    <2> QED
      BY <2>2, <2>3, <2>5 DEF ReadLimit
  <1>4. ASSUME ReadLimit(limit) # None, ParseU64(usage) # None
        PROVE  \E n \in 1..(Sentinel - 1) : Limited(g, n)
    <2>1. ReadLimit(limit) \in 1..(Sentinel - 1) /\ ReadLimit(limit) = ParseU64(limit)
      BY <1>1, <1>4, LimitKnown
    <2>2. Spells(limit, ReadLimit(limit))
      <3>1. ParseU64(limit) # None
        BY <1>4, <2>1
      <3> QED
        BY <1>1, <2>1, <3>1, ParsedIsSpelled
    <2>3. ParseU64(usage) \in 0..U64Max /\ Spells(usage, ParseU64(usage))
      BY <1>1, <1>4, ParsedIsSpelled
    <2> QED
      BY <1>2, <2>1, <2>2, <2>3, Zenon
  <1> QED
    BY <1>3, <1>4, Zenon DEF limit, usage

(* docs/cgroup-memory.md: the smallest finite limit is used.  For any      *)
(* cgroup tree, any contents of the control files, any number of threads   *)
(* and whatever is written to the files while they are read, the limit is  *)
(* that of a directory of this process, and no directory that was left     *)
(* alone has a smaller one.                                                *)
THEOREM SmallestLimitUsed == OwnDirectories => (Spec => []LeastLimit)
  <1> SUFFICES ASSUME OwnDirectories PROVE Spec => []LeastLimit
    OBVIOUS
  <1>1. ASSUME MemoryInv, FilesKnown, ScanInv, detected PROVE LeastLimit
    <2> DEFINE k == Len(Candidates(machine))
               h == cgmem.group
    <2>1. machine \in Machines /\ machine.own = Directories(machine) \cap Groups
      BY <1>1 DEF MemoryInv, Shape, OwnDirectories
    <2>2. /\ DOMAIN Candidates(machine) = 1..k
          /\ Directories(machine) = {Candidates(machine)[j] : j \in 1..k}
      BY <2>1, CandidatesLen, CandidatesExact DEF Occurs
    <2>3. Chosen(machine, files, writes, h, cgmem.limit, k)
      BY <1>1 DEF ScanInv, Settled
    <2>4. h \in Groups /\ h \in machine.own
      BY <2>1, <2>2, <2>3, Zenon DEF Chosen
    <2>5. ASSUME NEW g \in machine.own \cap Steady, NEW n \in 1..(Sentinel - 1), Limited(g, n)
          PROVE  cgmem.limit <= n /\ (g = h => cgmem.limit = n)
      <3>1. g \in Groups /\ writes[g] = 0 /\ \E j \in 1..k : Candidates(machine)[j] = g
        BY <2>1, <2>2 DEF Steady
      <3>2. ReadLimit(files[g].limit) = n /\ ParseU64(files[g].usage) # None
        BY <1>1, <2>5, <3>1, LimitedRead
      <3>3. n # None
        BY NumbersKnown
      <3>4. Clear(files, writes, g)
        BY <3>1, <3>2, <3>3 DEF Clear
      <3> QED
        BY <2>3, <3>1, <3>2, <3>4, Zenon DEF Chosen
    <2>6. ASSUME h \in Steady PROVE \E n \in 1..(Sentinel - 1) : Limited(h, n)
      <3>1. writes[h] = 0
        BY <2>6 DEF Steady
      <3>2. ReadLimit(files[h].limit) # None /\ ParseU64(files[h].usage) # None
        BY <2>3, <3>1, Zenon DEF Chosen, Clear
      <3> QED
        BY <1>1, <2>4, <3>2, LimitedRead, Zenon
    <2> QED
      BY <2>4, <2>5, <2>6, Zenon DEF LeastLimit
  <1>2. MemoryInv /\ FilesKnown /\ ScanInv => LeastLimit
    BY <1>1, Zenon DEF LeastLimit
  <1> QED
    BY <1>2, ScanSafe, PTL

(* While no control file was written to, a limit that is set is what every *)
(* interface of every thread reports, but for a meminfo text that cannot   *)
(* be read or is too long: no thread falls back to the host's numbers,     *)
(* however detections and refreshes of the threads are interleaved.        *)
THEOREM LimitsReported == OwnDirectories => (Spec => []PodWhenLimited)
  <1> SUFFICES ASSUME OwnDirectories PROVE Spec => []PodWhenLimited
    OBVIOUS
  <1>1. MemoryInv /\ FilesKnown /\ ScanInv => PodWhenLimited
    <2> SUFFICES ASSUME MemoryInv, FilesKnown, ScanInv, Steady = Groups,
                        NEW g \in machine.own, NEW n \in 1..(Sentinel - 1), Limited(g, n),
                        NEW t \in Threads, NEW op \in Calls,
                        Answered(t, op), call[t].answer.source = "host"
                 PROVE  op = "meminfo" /\ (machine.readable => BufLen < Length(Resized(machine.text)))
      BY DEF PodWhenLimited, Resized
    <2> DEFINE k == Len(Candidates(machine))
    <2>1. machine \in Machines /\ machine.own = Directories(machine) \cap Groups
      BY DEF MemoryInv, Shape, OwnDirectories
    <2>2. /\ DOMAIN Candidates(machine) = 1..k
          /\ Directories(machine) = {Candidates(machine)[j] : j \in 1..k}
      BY <2>1, CandidatesLen, CandidatesExact DEF Occurs
    <2>3. AllSteady(writes)
      BY DEF AllSteady, Steady
    <2>4. g \in Groups /\ \E j \in 1..k : Candidates(machine)[j] = g
      BY <2>1, <2>2
    <2>5. Clear(files, writes, g)
      <3>1. ReadLimit(files[g].limit) = n /\ ParseU64(files[g].usage) # None /\ n # None
        BY <2>4, LimitedRead, NumbersKnown
      <3> QED
        BY <2>3, <2>4, <3>1 DEF AllSteady, Clear
    <2>6. call[t].step = "idle" /\ call[t].op = op
      BY DEF Answered
    <2>7. call[t].snapshot # None
      <3> SUFFICES ASSUME call[t].snapshot = None PROVE FALSE
        OBVIOUS
      <3>1. NoneClear(machine, files, writes, k)
        BY <2>3, <2>6 DEF ScanInv, Unlimited
      <3> QED
        BY <2>4, <2>5, <3>1, Zenon DEF NoneClear
    <2>8. AnswerTrue(call[t], cgmem.limit, machine)
      BY <2>6 DEF MemoryInv, Answers
    <2> QED
      BY <2>6, <2>7, <2>8 DEF AnswerTrue, SysinfoTrue, PagesTrue, MeminfoTrue, Calls
  <1> QED
    BY <1>1, ScanSafe, PTL
=============================================================================
