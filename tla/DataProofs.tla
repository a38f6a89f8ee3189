----------------------------- MODULE DataProofs -----------------------------
(***************************************************************************)
(* Facts about the data the models are built from, for data of any size:   *)
(* strings of bytes and their prefixes, induction over a number, and the   *)
(* folds.                                                                  *)
(***************************************************************************)
EXTENDS Integers, Sequences, SequencesExt, SequenceTheorems,
        WellFoundedInduction, TLAPS

-----------------------------------------------------------------------------
(* Induction.                                                              *)

\* A set of numbers that is not empty has a least.
LEMMA LeastExists ==
    ASSUME NEW S \in SUBSET Nat, S # {}
    PROVE  \E x \in S : \A y \in S : x <= y
<1> DEFINE R == OpToRel(<, Nat)
<1>1. PICK x \in S : \A y \in S : ~(<<y, x>> \in R)
  <2> HIDE DEF R
  <2> QED BY NatLessThanWellFounded, WFMin DEF R
<1>2. ASSUME NEW y \in S
      PROVE  <<y, x>> \in R <=> y < x
  <2>1. <<y, x>> \in Nat \X Nat
    OBVIOUS
  <2> QED BY <2>1 DEF OpToRel
<1>3. \A y \in S : ~(y < x)
  <2> HIDE DEF R
  <2> QED BY <1>1, <1>2
<1> QED BY <1>3

\* A set that holds 0, and with each number the next, holds them all.
LEMMA NumberInduction ==
    ASSUME NEW T \in SUBSET Nat, 0 \in T, \A n \in T : n + 1 \in T
    PROVE  T = Nat
<1> SUFFICES ASSUME Nat \ T # {}
             PROVE  FALSE
  OBVIOUS
<1>1. PICK x \in Nat \ T : \A y \in Nat \ T : x <= y
  BY LeastExists
<1>2. x - 1 \in Nat /\ (x - 1) + 1 = x
  BY <1>1
<1>3. x - 1 \in T
  BY <1>1, <1>2
<1> QED BY <1>1, <1>2, <1>3

\* A set of numbers that has a bound has a greatest.
LEMMA MaxIsGreatest ==
    ASSUME NEW k \in Nat, NEW S \in SUBSET (1..k), S # {}
    PROVE  /\ Max(S) \in S
           /\ \A y \in S : Max(S) >= y
<1> DEFINE T == {k - x : x \in S}
<1>1. T \subseteq Nat /\ T # {}
  <2>1. \A x \in S : x \in 1..k
    OBVIOUS
  <2>2. \A x \in S : k - x \in Nat
    BY <2>1
  <2> QED BY <2>2
<1>2. PICK t \in T : \A u \in T : t <= u
  <2> HIDE DEF T
  <2> QED BY <1>1, LeastExists
<1>3. PICK x \in S : t = k - x
  OBVIOUS
<1>4. \A y \in S : k - x <= k - y
  BY <1>2, <1>3
<1>5. \A y \in S : x >= y
  BY <1>4
<1> QED BY <1>5 DEF Max

-----------------------------------------------------------------------------
(* Strings and their prefixes.                                             *)

\* Any part of a sequence that starts at its first one is one.
LEMMA PrefixIsSeq ==
    ASSUME NEW S, NEW b \in Seq(S), NEW k \in 0..Len(b)
    PROVE  SubSeq(b, 1, k) \in Seq(S) /\ Len(SubSeq(b, 1, k)) = k
<1>1. Len(b) \in Nat /\ \A i \in 1..k : b[i] \in S
  BY LenProperties, ElementOfSeq
<1> QED BY <1>1, SubSeqProperties

\* What is left of a sequence after its first k, cut again, continues
\* the first k.
LEMMA PrefixGrows ==
    ASSUME NEW S, NEW b \in Seq(S), NEW j \in 0..Len(b), NEW k \in j..Len(b)
    PROVE  /\ SubSeq(b, j + 1, k) \in Seq(S)
           /\ Len(SubSeq(b, j + 1, k)) = k - j
           /\ SubSeq(b, 1, j) \o SubSeq(b, j + 1, k) = SubSeq(b, 1, k)
<1> DEFINE p == SubSeq(b, 1, j)
           q == SubSeq(b, j + 1, k)
           r == SubSeq(b, 1, k)
<1>1. j \in Nat /\ k \in Nat /\ Len(b) \in Nat /\ j <= k /\ k <= Len(b)
  BY LenProperties
<1>2. \A i \in 1..k : b[i] \in S
  BY <1>1, ElementOfSeq
<1>3. p \in Seq(S) /\ Len(p) = j /\ \A i \in 1..j : p[i] = b[i]
  BY <1>1, <1>2, SubSeqProperties
<1>4. /\ q \in Seq(S) /\ Len(q) = k - j
      /\ \A i \in 1..(k - j) : q[i] = b[j + i]
  <2>1. CASE j < k
    <3>1. \A i \in (j + 1)..k : b[i] \in S
      BY <1>1, <1>2
    <3>2. q \in Seq(S) /\ Len(q) = k - (j + 1) + 1
          /\ \A i \in 1..(k - (j + 1) + 1) : q[i] = b[(j + 1) + i - 1]
      BY <1>1, <2>1, <3>1, SubSeqProperties
    <3> HIDE DEF q
    <3>3. k - (j + 1) + 1 = k - j /\ \A i \in Nat : (j + 1) + i - 1 = j + i
      BY <1>1
    <3> QED BY <1>1, <3>2, <3>3
  <2>2. CASE j = k
    <3>1. q = <<>>
      BY <1>1, <2>2, SubSeqEmpty
    <3> HIDE DEF q
    <3>2. q \in Seq(S) /\ Len(q) = 0
      BY <3>1
    <3> QED BY <1>1, <2>2, <3>2
  <2> QED BY <1>1, <2>1, <2>2
<1>5. r \in Seq(S) /\ Len(r) = k /\ \A i \in 1..k : r[i] = b[i]
  BY <1>1, <1>2, SubSeqProperties
<1> HIDE DEF p, q, r
<1>6. /\ p \o q \in Seq(S) /\ Len(p \o q) = Len(p) + Len(q)
      /\ \A i \in 1..(Len(p) + Len(q)) :
            (p \o q)[i] = IF i <= Len(p) THEN p[i] ELSE q[i - Len(p)]
  BY <1>3, <1>4, ConcatProperties
<1>7. Len(p \o q) = k
  BY <1>1, <1>3, <1>4, <1>6
<1>8. ASSUME NEW i \in 1..k
      PROVE  (p \o q)[i] = r[i]
  <2>1. CASE i <= j
    BY <1>1, <1>3, <1>4, <1>5, <1>6, <2>1
  <2>2. CASE i > j
    <3>1. i - j \in 1..(k - j) /\ j + (i - j) = i
      BY <1>1, <2>2
    <3>2. q[i - j] = b[i]
      BY <1>4, <3>1
    <3>3. (p \o q)[i] = q[i - j]
      BY <1>1, <1>3, <1>4, <1>6, <2>2
    <3> QED BY <1>5, <3>2, <3>3
  <2>3. i <= j \/ i > j
    BY <1>1
  <2> QED BY <2>1, <2>2, <2>3
<1>9. p \o q = r
  BY <1>5, <1>6, <1>7, <1>8, SeqEqual
<1> QED BY <1>4, <1>9 DEF p, q, r

\* A prefix and the element after it.
LEMMA SubSeqNext ==
    ASSUME NEW S, NEW b \in Seq(S), NEW n \in Nat, n + 1 <= Len(b)
    PROVE  SubSeq(b, 1, n + 1) = Append(SubSeq(b, 1, n), b[n + 1])
<1>1. n + 1 \in 1..Len(b) /\ 1 \in 1..Len(b) /\ n + 1 \in 1..Len(b)
  BY LenProperties
<1>2. SubSeq(b, 1, n + 1) = SubSeq(b, 1, (n + 1) - 1) \o <<b[n + 1]>>
  BY <1>1, SubSeqRecursiveSecond
<1>3. (n + 1) - 1 = n
  OBVIOUS
<1>4. SubSeq(b, 1, n) \in Seq(S) /\ b[n + 1] \in S
  <2>1. \A i \in 1..n : b[i] \in S
    BY <1>1, ElementOfSeq
  <2> QED BY <1>1, <2>1, SubSeqProperties, ElementOfSeq
<1> QED BY <1>2, <1>3, <1>4, AppendIsConcat

\* What is written over the end of a sequence, and starts there, follows it.
LEMMA OverwriteAtEnd ==
    ASSUME NEW S, NEW b \in Seq(S), NEW new \in Seq(S)
    PROVE  /\ b \o new \in Seq(S) /\ Len(b \o new) = Len(b) + Len(new)
           /\ SubSeq(b, 1, Len(b)) \o new
                \o SubSeq(b, Len(b) + Len(new) + 1, Len(b)) = b \o new
<1>1. Len(b) \in Nat /\ Len(new) \in Nat
  BY LenProperties
<1>2. SubSeq(b, 1, Len(b)) = b
  BY <1>1, SubSeqFull
<1>3. SubSeq(b, Len(b) + Len(new) + 1, Len(b)) = <<>>
  BY <1>1, SubSeqEmpty
<1>4. b \o new \in Seq(S) /\ Len(b \o new) = Len(b) + Len(new)
  BY <1>1, ConcatProperties
<1> QED BY <1>2, <1>3, <1>4, ConcatEmptySeq

\* A suffix of a sequence, element by element from the end.
LEMMA SuffixMeans ==
    ASSUME NEW S, NEW s \in Seq(S), NEW t \in Seq(S)
    PROVE  IsSuffix(s, t) <=>
              /\ Len(s) <= Len(t)
              /\ \A i \in 0..(Len(s) - 1) : s[Len(s) - i] = t[Len(t) - i]
<1> DEFINE m == Len(s)
           n == Len(t)
           x == Reverse(s)
           y == Reverse(t)
<1>1. /\ m \in Nat /\ n \in Nat
      /\ (\A i \in 1..m : s[i] \in S) /\ \A i \in 1..n : t[i] \in S
  BY LenProperties, ElementOfSeq
<1>2. /\ x = [i \in 1..m |-> s[(m - i) + 1]]
      /\ y = [i \in 1..n |-> t[(n - i) + 1]]
  BY DEF Reverse
<1> HIDE DEF m, n, x, y
<1>3. /\ x \in Seq(S) /\ Len(x) = m /\ \A i \in 1..m : x[i] = s[(m - i) + 1]
      /\ y \in Seq(S) /\ Len(y) = n /\ \A i \in 1..n : y[i] = t[(n - i) + 1]
  <2>1. /\ \A i \in 1..m : (m - i) + 1 \in 1..m
        /\ \A i \in 1..n : (n - i) + 1 \in 1..n
    BY <1>1
  <2>2. /\ \A i \in 1..m : s[(m - i) + 1] \in S
        /\ \A i \in 1..n : t[(n - i) + 1] \in S
    BY <1>1, <2>1
  <2>3. x \in Seq(S) /\ DOMAIN x = 1..m /\ y \in Seq(S) /\ DOMAIN y = 1..n
    BY <1>1, <1>2, <2>2
  <2>4. Len(x) = m /\ Len(y) = n
    BY <1>1, <2>3, LenProperties
  <2> QED BY <1>2, <2>3, <2>4
<1>4. IsSuffix(s, t) <=> m <= n /\ SubSeq(x, 1, m) = SubSeq(y, 1, m)
  BY <1>3 DEF IsSuffix, IsPrefix, x, y
<1>5. SubSeq(x, 1, m) = x
  BY <1>3, SubSeqFull
<1>6. ASSUME m <= n
      PROVE  SubSeq(x, 1, m) = SubSeq(y, 1, m) <=>
                \A i \in 0..(m - 1) : s[m - i] = t[n - i]
  <2> DEFINE z == SubSeq(y, 1, m)
  <2>1. z \in Seq(S) /\ Len(z) = m /\ \A i \in 1..m : z[i] = y[i]
    <3>1. m \in 0..Len(y)
      BY <1>1, <1>3, <1>6
    <3>2. z \in Seq(S) /\ Len(z) = m
      BY <1>3, <3>1, PrefixIsSeq
    <3>3. \A i \in 1..m : i \in 1..Len(y) /\ y[i] \in S
      BY <1>1, <1>3, <1>6, ElementOfSeq
    <3>4. \A i \in 1..(m - 1 + 1) : z[i] = y[1 + i - 1]
      BY <1>1, <3>3, <1>3, SubSeqProperties
    <3>5. \A i \in 1..m : i \in 1..(m - 1 + 1) /\ 1 + i - 1 = i
      BY <1>1
    <3> HIDE DEF z
    <3> QED BY <3>2, <3>4, <3>5
  <2> HIDE DEF z
  <2>2. x = z <=> \A i \in 1..m : x[i] = z[i]
    BY <1>3, <2>1, SeqEqual
  <2>3. \A i \in 1..m : /\ x[i] = s[(m - i) + 1] /\ z[i] = t[(n - i) + 1]
                        /\ (m - i) + 1 = m - (i - 1) /\ (n - i) + 1 = n - (i - 1)
                        /\ i - 1 \in 0..(m - 1)
    BY <1>1, <1>3, <1>6, <2>1
  <2>4. \A i \in 0..(m - 1) : i + 1 \in 1..m /\ (i + 1) - 1 = i
    BY <1>1
  <2>5. (\A i \in 1..m : x[i] = z[i]) <=>
            \A i \in 0..(m - 1) : s[m - i] = t[n - i]
    <3>1. ASSUME \A i \in 1..m : x[i] = z[i], NEW i \in 0..(m - 1)
          PROVE  s[m - i] = t[n - i]
      <4>1. x[i + 1] = z[i + 1]
        BY <2>4, <3>1
      <4>2. x[i + 1] = s[m - ((i + 1) - 1)] /\ z[i + 1] = t[n - ((i + 1) - 1)]
        BY <2>3, <2>4
      <4> QED BY <2>4, <4>1, <4>2
    <3>2. ASSUME \A i \in 0..(m - 1) : s[m - i] = t[n - i], NEW i \in 1..m
          PROVE  x[i] = z[i]
      BY <2>3, <3>2
    <3> QED BY <3>1, <3>2
  <2> QED BY <1>5, <2>2, <2>5 DEF z
<1> QED BY <1>4, <1>6 DEF m, n

\* The same element after both.
LEMMA SuffixNext ==
    ASSUME NEW S, NEW s \in Seq(S), NEW t \in Seq(S), NEW e \in S
    PROVE  /\ IsSuffix(s, t) => IsSuffix(Append(s, e), Append(t, e))
           /\ IsSuffix(<<>>, t)
<1> DEFINE m == Len(s)
           n == Len(t)
           x == Append(s, e)
           y == Append(t, e)
<1>1. /\ x \in Seq(S) /\ Len(x) = m + 1 /\ x[m + 1] = e
      /\ \A i \in 1..m : x[i] = s[i]
  BY AppendProperties
<1>2. /\ y \in Seq(S) /\ Len(y) = n + 1 /\ y[n + 1] = e
      /\ \A i \in 1..n : y[i] = t[i]
  BY AppendProperties
<1>3. m \in Nat /\ n \in Nat
  BY LenProperties
<1>4. IsSuffix(<<>>, t)
  <2>1. <<>> \in Seq(S) /\ Len(<<>>) = 0
    BY EmptySeq
  <2> DEFINE none == <<>>
  <2> HIDE DEF none
  <2>2. none \in Seq(S) /\ Len(none) = 0
    BY <2>1 DEF none
  <2>3. Len(none) <= Len(t) /\ \A i \in 0..(Len(none) - 1) : FALSE
    BY <1>3, <2>2
  <2>4. \A i \in 0..(Len(none) - 1) : none[Len(none) - i] = t[Len(t) - i]
    BY <2>3
  <2>5. IsSuffix(none, t)
    <3> HIDE DEF m, n
    <3> QED BY <2>2, <2>3, <2>4, SuffixMeans
  <2> QED BY <2>5 DEF none
<1>5. ASSUME IsSuffix(s, t)
      PROVE  IsSuffix(x, y)
  <2>1. m <= n /\ \A i \in 0..(m - 1) : s[m - i] = t[n - i]
    BY <1>5, SuffixMeans
  <2> HIDE DEF m, n, x, y
  <2>2. ASSUME NEW i \in 0..((m + 1) - 1)
        PROVE  x[(m + 1) - i] = y[(n + 1) - i]
    <3>1. CASE i = 0
      <4>1. (m + 1) - 0 = m + 1 /\ (n + 1) - 0 = n + 1
        BY <1>3
      <4> QED BY <1>1, <1>2, <3>1, <4>1
    <3>2. CASE i # 0
      <4>1. /\ i - 1 \in 0..(m - 1) /\ (m + 1) - i = m - (i - 1)
            /\ (n + 1) - i = n - (i - 1)
            /\ m - (i - 1) \in 1..m /\ n - (i - 1) \in 1..n
        BY <1>3, <2>1, <3>2
      <4>2. s[m - (i - 1)] = t[n - (i - 1)]
        BY <2>1, <4>1
      <4> QED BY <1>1, <1>2, <4>1, <4>2
    <3> QED BY <3>1, <3>2
  <2>3. m + 1 <= n + 1
    BY <1>3, <2>1
  <2> QED BY <1>1, <1>2, <2>2, <2>3, SuffixMeans
<1> QED BY <1>4, <1>5

-----------------------------------------------------------------------------
(* Folds.                                                                  *)

\* A step of a fold over N elements, and the table of the results for the sets
\* of their positions, the greatest of a set taken last.
IsStep(G, N, St) == G \in [(1..N) \X St -> St]

IsTable(h, G, N, b) ==
    \A s \in SUBSET (1..N) :
        h[s] = IF s = {} THEN b ELSE G[<<Max(s), h[s \ {Max(s)}]>>]

\* The recursive definition of the table has a solution.
LEMMA FoldTable ==
    ASSUME NEW N \in Nat, NEW St, NEW b \in St, NEW G, IsStep(G, N, St)
    PROVE  \E h : IsTable(h, G, N, b) /\ h \in [SUBSET (1..N) -> St]
<1> USE DEF IsStep
<1> DEFINE Solves(n, h) ==
              /\ h \in [SUBSET (1..n) -> St]
              /\ \A s \in SUBSET (1..n) :
                    h[s] = IF s = {} THEN b
                           ELSE G[<<Max(s), h[s \ {Max(s)}]>>]
           T == {n \in Nat : n <= N => \E h : Solves(n, h)}
<1>1. 0 \in T
  <2>1. SUBSET (1..0) = {{}}
    OBVIOUS
  <2>2. Solves(0, [s \in {{}} |-> b])
    BY <2>1
  <2> QED BY <2>2
<1>2. ASSUME NEW n \in T
      PROVE  n + 1 \in T
  <2> SUFFICES ASSUME n + 1 <= N
               PROVE  \E h : Solves(n + 1, h)
    <3> HIDE DEF Solves
    <3> QED OBVIOUS
  <2>1. PICK h : Solves(n, h)
    <3>1. n <= N
      OBVIOUS
    <3> HIDE DEF Solves
    <3> QED BY <3>1
  <2> DEFINE g == [s \in SUBSET (1..(n + 1)) |->
                      IF n + 1 \in s THEN G[<<n + 1, h[s \ {n + 1}]>>]
                      ELSE h[s]]
  <2>2. \A s \in SUBSET (1..(n + 1)) :
            /\ s \ {n + 1} \in SUBSET (1..n)
            /\ n + 1 \notin s => s \in SUBSET (1..n)
    OBVIOUS
  <2>3. g \in [SUBSET (1..(n + 1)) -> St]
    <3>1. ASSUME NEW s \in SUBSET (1..(n + 1))
          PROVE  (IF n + 1 \in s THEN G[<<n + 1, h[s \ {n + 1}]>>]
                  ELSE h[s]) \in St
      <4>1. n + 1 \in 1..N
        OBVIOUS
      <4>2. h \in [SUBSET (1..n) -> St]
        BY <2>1
      <4> HIDE DEF Solves
      <4> QED BY <2>2, <4>1, <4>2
    <3> QED BY <3>1
  <2>4. ASSUME NEW s \in SUBSET (1..(n + 1))
        PROVE  g[s] = IF s = {} THEN b ELSE G[<<Max(s), g[s \ {Max(s)}]>>]
    <3>1. CASE n + 1 \in s
      <4>1. Max(s) = n + 1
        <5>1. Max(s) \in s /\ \A y \in s : Max(s) >= y
          <6>1. n + 1 \in Nat /\ s # {}
            BY <3>1
          <6> HIDE DEF g, Solves, T
          <6> QED BY <6>1, MaxIsGreatest
        <5> HIDE DEF g, Solves
        <5>2. Max(s) \in 1..(n + 1) /\ Max(s) >= n + 1
          BY <3>1, <5>1
        <5> QED BY <5>2
      <4>2. g[s \ {n + 1}] = h[s \ {n + 1}]
        BY <2>2
      <4>3. g[s] = G[<<n + 1, h[s \ {n + 1}]>>]
        BY <3>1
      <4> HIDE DEF g, Solves
      <4> QED BY <3>1, <4>1, <4>2, <4>3
    <3>2. CASE n + 1 \notin s
      <4>1. s \in SUBSET (1..n) /\ s \ {Max(s)} \in SUBSET (1..n)
        BY <2>2, <3>2
      <4>2. g[s] = h[s] /\ g[s \ {Max(s)}] = h[s \ {Max(s)}]
        BY <3>2, <4>1, <2>2
      <4>3. h[s] = IF s = {} THEN b ELSE G[<<Max(s), h[s \ {Max(s)}]>>]
        BY <2>1, <4>1
      <4> HIDE DEF g, Solves
      <4> QED BY <4>2, <4>3
    <3> QED BY <3>1, <3>2
  <2>5. Solves(n + 1, g)
    <3> HIDE DEF g
    <3> QED BY <2>3, <2>4
  <2> QED BY <2>5
<1>3. T = Nat
  <2> HIDE DEF T
  <2>1. T \subseteq Nat
    BY DEF T
  <2> QED BY <1>1, <1>2, <2>1, NumberInduction
<1>4. PICK h : Solves(N, h)
  <2>1. N \in T
    <3> HIDE DEF T
    <3> QED BY <1>3
  <2> HIDE DEF Solves
  <2> QED BY <2>1
<1>5. IsTable(h, G, N, b) /\ h \in [SUBSET (1..N) -> St]
  BY <1>4 DEF IsTable
<1> QED BY <1>5

\* The same, where only the results in St are known to be those of G.
Tabulates(table, G, N, St, b) ==
    /\ table[{}] = b
    /\ \A s \in SUBSET (1..N) : s # {} /\ table[s \ {Max(s)}] \in St =>
            table[s] = G[<<Max(s), table[s \ {Max(s)}]>>]

\* The result after each of the elements, from the first to the last.
IsRun(r, G, N, St, b) ==
    /\ r \in [0..N -> St]
    /\ r[0] = b
    /\ \A i \in 1..N : r[i] = G[<<i, r[i - 1]>>]

\* What such a table says of a sequence: a fold is a run, one step for each
\* element from the first to the last.
LEMMA FoldRun ==
    ASSUME NEW N \in Nat, NEW St, NEW b \in St, NEW G, IsStep(G, N, St),
           NEW table, Tabulates(table, G, N, St, b)
    PROVE  \E r : IsRun(r, G, N, St, b) /\ r[N] = table[1..N]
<1> USE DEF IsStep, Tabulates, IsRun
<1> DEFINE r == [n \in 0..N |-> table[1..n]]
           T == {n \in Nat : n <= N => r[n] \in St}
<1>1. r[0] = b
  <2>1. 1..0 = {}
    OBVIOUS
  <2> QED BY <2>1
<1>2. ASSUME NEW i \in 1..N, r[i - 1] \in St
      PROVE  r[i] = G[<<i, r[i - 1]>>] /\ r[i] \in St
  <2>1. 1..i \in SUBSET (1..N) /\ i \in 1..i /\ i \in Nat
    OBVIOUS
  <2>2. Max(1..i) = i
    <3>1. Max(1..i) \in 1..i /\ Max(1..i) >= i
      <4> HIDE DEF r
      <4> QED BY <2>1, MaxIsGreatest
    <3> QED BY <3>1
  <2>3. (1..i) \ {i} = 1..(i - 1)
    OBVIOUS
  <2>4. r[i - 1] = table[1..(i - 1)] /\ r[i] = table[1..i]
    OBVIOUS
  <2> HIDE DEF r
  <2>5. table[1..i] = G[<<i, table[1..(i - 1)]>>]
    <3>1. table[(1..i) \ {Max(1..i)}] \in St
      BY <1>2, <2>2, <2>3, <2>4
    <3>2. table[1..i] = G[<<Max(1..i), table[(1..i) \ {Max(1..i)}]>>]
      BY <2>1, <3>1
    <3> QED BY <2>2, <2>3, <3>2
  <2>6. G[<<i, r[i - 1]>>] \in St
    BY <1>2
  <2> QED BY <2>4, <2>5, <2>6
<1>3. T = Nat
  <2>1. 0 \in T
    BY <1>1
  <2>2. ASSUME NEW n \in T
        PROVE  n + 1 \in T
    <3> SUFFICES ASSUME n + 1 <= N
                 PROVE  r[n + 1] \in St
      OBVIOUS
    <3>1. n + 1 \in 1..N /\ (n + 1) - 1 = n /\ n <= N
      OBVIOUS
    <3>2. r[n] \in St
      BY <3>1
    <3> HIDE DEF r, T
    <3> QED BY <1>2, <3>1, <3>2
  <2>3. T \subseteq Nat
    OBVIOUS
  <2> HIDE DEF T
  <2> QED BY <2>1, <2>2, <2>3, NumberInduction
<1>4. \A n \in 0..N : r[n] \in St
  <2>1. \A n \in Nat : n \in T
    <3> HIDE DEF T
    <3> QED BY <1>3
  <2> HIDE DEF r
  <2> QED BY <2>1
<1>5. r[N] = table[1..N]
  OBVIOUS
<1>6. r \in [0..N -> St]
  <2>1. r = [n \in 0..N |-> r[n]]
    OBVIOUS
  <2> HIDE DEF r
  <2> QED BY <1>4, <2>1
<1>7. \A i \in 1..N : i - 1 \in 0..N
  OBVIOUS
<1> HIDE DEF r
<1> QED BY <1>1, <1>2, <1>4, <1>5, <1>6, <1>7

LEMMA RunExists ==
    ASSUME NEW N \in Nat, NEW St, NEW b \in St, NEW G, IsStep(G, N, St)
    PROVE  \E r : IsRun(r, G, N, St, b)
<1>1. PICK h : IsTable(h, G, N, b) /\ h \in [SUBSET (1..N) -> St]
  BY FoldTable
<1>2. Tabulates(h, G, N, St, b)
  BY <1>1 DEF IsTable, Tabulates
<1> QED BY <1>2, FoldRun

\* A sequence of sequences, one after the other: the recursive definition has
\* a solution, and it is what FlattenSeq returns.
LEMMA FlattenRun ==
    ASSUME NEW S, NEW seqs \in Seq(Seq(S)), Len(seqs) > 0
    PROVE  \E f : /\ f[1] = seqs[1]
                  /\ \A i \in 2..Len(seqs) : f[i] = f[i - 1] \o seqs[i]
                  /\ FlattenSeq(seqs) = f[Len(seqs)]
<1> DEFINE N == Len(seqs)
           Eq(f) == f = [i \in 1..N |-> IF i = 1 THEN seqs[i]
                                        ELSE f[i - 1] \o seqs[i]]
           flatten == CHOOSE f : Eq(f)
           G == [p \in (1..N) \X Seq(S) |->
                    IF p[1] = 1 THEN seqs[1] ELSE p[2] \o seqs[p[1]]]
<1>1. FlattenSeq(seqs) = flatten[N]
  BY DEF FlattenSeq
<1>2. N \in Nat /\ N > 0 /\ \A i \in 1..N : seqs[i] \in Seq(S)
  OBVIOUS
<1> HIDE DEF N
<1>3. IsStep(G, N, Seq(S))
  <2>1. \A i \in 1..N, v \in Seq(S) :
            (IF i = 1 THEN seqs[1] ELSE v \o seqs[i]) \in Seq(S)
    BY <1>2
  <2> QED BY <2>1 DEF IsStep
<1>4. \A i \in 1..N, v \in Seq(S) :
          G[<<i, v>>] = IF i = 1 THEN seqs[1] ELSE v \o seqs[i]
  OBVIOUS
<1> HIDE DEF G
<1>5. PICK r : IsRun(r, G, N, Seq(S), <<>>)
  <2>1. <<>> \in Seq(S)
    OBVIOUS
  <2> QED BY <1>2, <1>3, <2>1, RunExists
<1>6. Eq([i \in 1..N |-> r[i]])
  <2>1. \A i \in 1..N : r[i - 1] \in Seq(S) /\ (i # 1 => i - 1 \in 1..N)
    BY <1>2, <1>5 DEF IsRun
  <2>2. \A i \in 1..N : r[i] = IF i = 1 THEN seqs[i] ELSE r[i - 1] \o seqs[i]
    BY <1>4, <1>5, <2>1 DEF IsRun
  <2> QED BY <2>1, <2>2
<1>7. Eq(flatten)
  <2> HIDE DEF Eq
  <2> QED BY <1>6
<1>8. \A i \in 1..N : flatten[i] = IF i = 1 THEN seqs[i]
                                   ELSE flatten[i - 1] \o seqs[i]
  <2> HIDE DEF flatten
  <2> QED BY <1>7
<1> HIDE DEF flatten
<1>9. /\ flatten[1] = seqs[1]
      /\ \A i \in 2..N : flatten[i] = flatten[i - 1] \o seqs[i]
  <2>1. 1 \in 1..N /\ \A i \in 2..N : i \in 1..N /\ i # 1
    BY <1>2
  <2> QED BY <1>8, <2>1
<1>10. FlattenSeq(seqs) = flatten[Len(seqs)]
  BY <1>1 DEF N
<1> QED BY <1>9, <1>10 DEF N

\* Where the elements are, when all the sequences but the last have four.
Fours(seqs) ==
    \A i \in 1..(Len(seqs) - 1) : Len(seqs[i]) = 4

LEMMA FlattenFours ==
    ASSUME NEW S, NEW seqs \in Seq(Seq(S)), Len(seqs) > 0, Fours(seqs)
    PROVE  LET M == Len(seqs)
               flat == FlattenSeq(seqs)
           IN  /\ flat \in Seq(S)
               /\ Len(flat) = 4 * (M - 1) + Len(seqs[M])
               /\ \A i \in 1..M : \A j \in 1..Len(seqs[i]) :
                        flat[4 * (i - 1) + j] = seqs[i][j]
<1> DEFINE M == Len(seqs)
<1>1. PICK f : /\ f[1] = seqs[1]
               /\ \A i \in 2..M : f[i] = f[i - 1] \o seqs[i]
               /\ FlattenSeq(seqs) = f[M]
  BY FlattenRun
<1>2. /\ M \in Nat /\ M > 0
      /\ \A i \in 1..M : seqs[i] \in Seq(S) /\ Len(seqs[i]) \in Nat
  <2>1. M \in Nat /\ M > 0 /\ \A i \in 1..M : seqs[i] \in Seq(S)
    OBVIOUS
  <2> HIDE DEF M
  <2> QED BY <2>1, LenProperties
<1>3. \A i \in 1..(M - 1) : Len(seqs[i]) = 4
  BY DEF Fours
<1> DEFINE L(i) == Len(seqs[i])
           Placed(n) ==
              /\ f[n] \in Seq(S)
              /\ Len(f[n]) = 4 * (n - 1) + L(n)
              /\ \A i \in 1..n : \A j \in 1..L(i) :
                    f[n][4 * (i - 1) + j] = seqs[i][j]
           T == {n \in Nat : n + 1 <= M => Placed(n + 1)}
<1> HIDE DEF M
<1>4. Placed(1)
  <2>1. seqs[1] \in Seq(S) /\ f[1] = seqs[1] /\ L(1) \in Nat
    BY <1>1, <1>2
  <2> HIDE DEF L
  <2>2. Len(f[1]) = 4 * (1 - 1) + L(1)
    BY <2>1 DEF L
  <2>3. ASSUME NEW i \in 1..1, NEW j \in 1..L(i)
        PROVE  f[1][4 * (i - 1) + j] = seqs[i][j]
    <3>1. i = 1 /\ 4 * (i - 1) + j = j
      BY <2>1
    <3> QED BY <2>1, <3>1
  <2> QED BY <2>1, <2>2, <2>3
<1>5. ASSUME NEW n \in Nat, n > 0, n + 1 <= M, Placed(n)
      PROVE  Placed(n + 1)
  <2> DEFINE l == L(n + 1)
  <2>1. n \in 1..M /\ n \in 1..(M - 1) /\ n + 1 \in 2..M /\ (n + 1) - 1 = n
    <3> HIDE DEF Placed
    <3> QED BY <1>2, <1>5
  <2>2. seqs[n + 1] \in Seq(S) /\ l \in Nat /\ L(n) = 4
    BY <1>2, <1>3, <2>1
  <2>3. f[n + 1] = f[n] \o seqs[n + 1]
    BY <1>1, <2>1
  <2>4. f[n] \in Seq(S) /\ Len(f[n]) = 4 * n
    BY <1>5, <2>2
  <2>5. /\ f[n + 1] \in Seq(S) /\ Len(f[n + 1]) = 4 * n + l
        /\ \A x \in 1..(4 * n + l) :
                f[n + 1][x] = IF x <= 4 * n THEN f[n][x]
                              ELSE seqs[n + 1][x - 4 * n]
    <3> DEFINE g == f[n] \o seqs[n + 1]
    <3> HIDE DEF Placed, L
    <3>1. /\ g \in Seq(S) /\ Len(g) = Len(f[n]) + Len(seqs[n + 1])
          /\ \A x \in 1..(Len(f[n]) + Len(seqs[n + 1])) :
                g[x] = IF x <= Len(f[n]) THEN f[n][x]
                       ELSE seqs[n + 1][x - Len(f[n])]
      BY <2>2, <2>4, ConcatProperties
    <3>2. f[n + 1] = g /\ l = Len(seqs[n + 1])
      BY <2>3 DEF L
    <3> HIDE DEF g, l
    <3> QED BY <2>4, <3>1, <3>2
  <2> HIDE DEF l
  <2>6. ASSUME NEW i \in 1..(n + 1), NEW j \in 1..L(i)
        PROVE  f[n + 1][4 * (i - 1) + j] = seqs[i][j]
    <3>1. CASE i = n + 1
      <4>1. L(i) = l /\ 4 * (i - 1) = 4 * n
        BY <3>1 DEF l
      <4> HIDE DEF L
      <4>2. /\ 4 * n + j \in 1..(4 * n + l)
            /\ ~(4 * n + j <= 4 * n) /\ (4 * n + j) - 4 * n = j
        BY <2>2, <4>1
      <4>3. f[n + 1][4 * n + j] = seqs[n + 1][j]
        BY <2>5, <4>2
      <4> QED BY <3>1, <4>1, <4>3
    <3>2. CASE i # n + 1
      <4>1. i \in 1..n /\ i \in 1..(M - 1)
        BY <1>2, <1>5, <3>2
      <4>2. L(i) = 4
        BY <1>3, <4>1
      <4>3. f[n][4 * (i - 1) + j] = seqs[i][j]
        BY <1>5, <4>1
      <4> HIDE DEF L
      <4>4. 4 * (i - 1) + j <= 4 * n /\ 4 * (i - 1) + j \in 1..(4 * n + l)
        BY <2>2, <4>1, <4>2
      <4>5. f[n + 1][4 * (i - 1) + j] = f[n][4 * (i - 1) + j]
        BY <2>5, <4>4
      <4> QED BY <4>3, <4>5
    <3> QED BY <3>1, <3>2
  <2>7. Len(f[n + 1]) = 4 * ((n + 1) - 1) + L(n + 1)
    BY <2>1, <2>5 DEF l
  <2> HIDE DEF L
  <2> QED BY <2>5, <2>6, <2>7
<1> HIDE DEF Placed
<1>6. T = Nat
  <2>1. 0 \in T
    BY <1>4
  <2>2. ASSUME NEW n \in T
        PROVE  n + 1 \in T
    <3> SUFFICES ASSUME (n + 1) + 1 <= M
                 PROVE  Placed((n + 1) + 1)
      OBVIOUS
    <3>1. n + 1 \in Nat /\ n + 1 > 0 /\ n + 1 <= M
      BY <1>2
    <3>2. Placed(n + 1)
      BY <3>1
    <3> QED BY <1>5, <3>1, <3>2
  <2>3. T \subseteq Nat
    OBVIOUS
  <2> HIDE DEF T
  <2> QED BY <2>1, <2>2, <2>3, NumberInduction
<1>7. Placed(M)
  <2>1. M - 1 \in T
    <3> HIDE DEF T
    <3> QED BY <1>2, <1>6
  <2>2. (M - 1) + 1 = M /\ M <= M
    BY <1>2
  <2> QED BY <2>1, <2>2
<1> QED BY <1>1, <1>7 DEF M, Placed
=============================================================================
