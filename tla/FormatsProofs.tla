---------------------------- MODULE FormatsProofs ----------------------------
(***************************************************************************)
(* What the pure algorithms return, for input of any length: Base64 for    *)
(* every string of bytes, the numbers for every text and every width, and  *)
(* the configuration for every file, whatever it sets and however long the *)
(* id of the gateway is.                                                   *)
(***************************************************************************)
EXTENDS MCFormats, DataProofs

-----------------------------------------------------------------------------
(* Base64.                                                                 *)

Octet == 0..255
Sextet == 0..63

\* Quotient and remainder of a number of the form m * q + r.
LEMMA Division ==
    ASSUME NEW m \in Nat, m > 0, NEW q \in Nat, NEW r \in Nat, r < m
    PROVE  (m * q + r) \div m = q /\ (m * q + r) % m = r
OBVIOUS

\* The bits of three bytes, cut where the digits cut them.
Cut(x, y, z, a, p, q, s, t, d) ==
    /\ x = 4 * a + p /\ a \in 0..63 /\ p \in 0..3
    /\ y = 16 * q + s /\ q \in 0..15 /\ s \in 0..15
    /\ z = 64 * t + d /\ t \in 0..3 /\ d \in 0..63

LEMMA Bits ==
    ASSUME NEW x \in Octet, NEW y \in Octet, NEW z \in Octet
    PROVE  \E a, p, q, s, t, d : Cut(x, y, z, a, p, q, s, t, d)
<1>1. \E a \in 0..63, p \in 0..3 : x = 4 * a + p
  <2> DEFINE a == x \div 4
             p == x % 4
  <2>1. x = 4 * a + p /\ p \in 0..3 /\ a \in Nat
    BY DEF Octet
  <2> HIDE DEF a, p
  <2>2. a \in 0..63
    BY <2>1 DEF Octet
  <2> QED BY <2>1, <2>2
<1>2. \E q \in 0..15, s \in 0..15 : y = 16 * q + s
  <2> DEFINE q == y \div 16
             s == y % 16
  <2>1. y = 16 * q + s /\ s \in 0..15 /\ q \in Nat
    BY DEF Octet
  <2> HIDE DEF q, s
  <2>2. q \in 0..15
    BY <2>1 DEF Octet
  <2> QED BY <2>1, <2>2
<1>3. \E t \in 0..3, d \in 0..63 : z = 64 * t + d
  <2> DEFINE t == z \div 64
             d == z % 64
  <2>1. z = 64 * t + d /\ d \in 0..63 /\ t \in Nat
    BY DEF Octet
  <2> HIDE DEF t, d
  <2>2. t \in 0..3
    BY <2>1 DEF Octet
  <2> QED BY <2>1, <2>2
<1> QED BY <1>1, <1>2, <1>3 DEF Cut

DigitsOf(x, y, z) ==
    LET n == x * 65536 + y * 256 + z
    IN  <<n \div 262144, (n \div 4096) % 64, (n \div 64) % 64, n % 64>>

LEMMA DigitsFromBits ==
    ASSUME NEW x, NEW y, NEW z, NEW a, NEW p, NEW q, NEW s, NEW t, NEW d,
           Cut(x, y, z, a, p, q, s, t, d)
    PROVE  DigitsOf(x, y, z) = <<a, 16 * p + q, 4 * s + t, d>>
<1> USE DEF Cut
<1> DEFINE n == x * 65536 + y * 256 + z
           u == 16 * p + q
           v == 4 * s + t
<1>1. u \in 0..63 /\ v \in 0..63
  OBVIOUS
<1>2. n = 262144 * a + (4096 * u + 64 * v + d)
  OBVIOUS
<1>3. n = 4096 * (64 * a + u) + (64 * v + d)
  OBVIOUS
<1>4. n = 64 * (64 * (64 * a + u) + v) + d
  OBVIOUS
<1> HIDE DEF n, u, v
<1>5. n \div 262144 = a
  <2>1. 4096 * u + 64 * v + d \in Nat /\ 4096 * u + 64 * v + d < 262144
    BY <1>1
  <2> QED BY <1>2, <2>1, Division
<1>6. (n \div 4096) % 64 = u
  <2>1. 64 * v + d \in Nat /\ 64 * v + d < 4096
        /\ 64 * a + u \in Nat /\ u \in Nat /\ u < 64
    BY <1>1
  <2>2. n \div 4096 = 64 * a + u
    BY <1>3, <2>1, Division
  <2> QED BY <2>1, <2>2, Division
<1>7. (n \div 64) % 64 = v /\ n % 64 = d
  <2>1. d \in Nat /\ d < 64 /\ v \in Nat /\ v < 64 /\ 64 * a + u \in Nat
        /\ 64 * (64 * a + u) + v \in Nat
    BY <1>1
  <2>2. n \div 64 = 64 * (64 * a + u) + v /\ n % 64 = d
    BY <1>4, <2>1, Division
  <2> DEFINE w == 64 * a + u
  <2>3. w \in Nat
    BY <2>1
  <2> HIDE DEF w
  <2>4. (64 * w + v) % 64 = v
    BY <2>1, <2>3, Division
  <2> QED BY <2>2, <2>4 DEF w
<1>8. DigitsOf(x, y, z) =
        <<n \div 262144, (n \div 4096) % 64, (n \div 64) % 64, n % 64>>
  BY DEF DigitsOf, n
<1> QED BY <1>5, <1>6, <1>7, <1>8 DEF u, v

-----------------------------------------------------------------------------
\* The decoder where the last two digits it saw are c and d.
After(c, d, at, out) ==
    [ok |-> TRUE, bits |-> 64 * c + d, at |-> at, bytes |-> out]

LEMMA DecodeDigit ==
    ASSUME NEW c \in Sextet, NEW d \in Sextet, NEW e \in Sextet, NEW out
    PROVE  /\ DecodeStep(After(c, d, -8, out), e) = After(d, e, -2, out)
           /\ DecodeStep(After(c, d, -2, out), e) =
                After(d, e, -4, Append(out, ((64 * d + e) \div 16) % 256))
           /\ DecodeStep(After(c, d, -4, out), e) =
                After(d, e, -6, Append(out, ((64 * d + e) \div 4) % 256))
           /\ DecodeStep(After(c, d, -6, out), e) =
                After(d, e, -8, Append(out, (64 * d + e) % 256))
<1> DEFINE b == 64 * c + d
<1>1. (b * 64 + e) % 4096 = 64 * d + e
  <2>1. b * 64 + e = 4096 * c + (64 * d + e)
    BY DEF Sextet
  <2>2. 64 * d + e \in Nat /\ 64 * d + e < 4096 /\ c \in Nat
    BY DEF Sextet
  <2> HIDE DEF b
  <2> QED BY <2>1, <2>2, Division
<1>2. e # Blank /\ e \notin {Pad, Foreign}
  BY DEF Sextet, Blank, Pad, Foreign
<1>3. ASSUME NEW at \in Int, NEW st, st = After(c, d, at, out)
      PROVE  DecodeStep(st, e) =
                After(d, e, IF at + 6 >= 0 THEN at + 6 - 8 ELSE at + 6,
                      IF at + 6 >= 0
                      THEN Append(out, ((64 * d + e) \div 2^(at + 6)) % 256)
                      ELSE out)
  <2>1. st.ok = TRUE /\ st.bits = b /\ st.at = at /\ st.bytes = out
    BY <1>3 DEF After
  <2> DEFINE next(v, a, out0) ==
                [ok |-> TRUE, bits |-> v, at |-> IF a >= 0 THEN a - 8 ELSE a,
                 bytes |-> IF a >= 0 THEN Append(out0, (v \div 2^a) % 256)
                           ELSE out0]
  <2>2. DecodeStep(st, e) =
            next((st.bits * 64 + e) % 4096, st.at + 6, st.bytes)
    BY <1>2, <2>1 DEF DecodeStep
  <2>3. (st.bits * 64 + e) % 4096 = 64 * d + e /\ st.at + 6 = at + 6
    BY <1>1, <2>1
  <2>4. DecodeStep(st, e) = next(64 * d + e, at + 6, out)
    <3> HIDE DEF next
    <3> QED BY <2>1, <2>2, <2>3
  <2> QED BY <2>4 DEF After
<1>4. ASSUME NEW at \in {-8, -6, -4, -2}
      PROVE  DecodeStep(After(c, d, at, out), e) =
                After(d, e, IF at + 6 >= 0 THEN at + 6 - 8 ELSE at + 6,
                      IF at + 6 >= 0
                      THEN Append(out, ((64 * d + e) \div 2^(at + 6)) % 256)
                      ELSE out)
  <2>1. at \in Int
    OBVIOUS
  <2> QED BY <1>3, <2>1, Zenon
<1> HIDE DEF b
<1>5. 2^4 = 16 /\ 2^2 = 4 /\ 2^0 = 1 /\ (64 * d + e) \div 1 = 64 * d + e
  BY DEF Sextet
<1>6. -8 + 6 = -2 /\ ~(-8 + 6 >= 0)
  OBVIOUS
<1>7. -2 + 6 = 4 /\ -2 + 6 >= 0 /\ -2 + 6 - 8 = -4
  OBVIOUS
<1>8. -4 + 6 = 2 /\ -4 + 6 >= 0 /\ -4 + 6 - 8 = -6
  OBVIOUS
<1>9. -6 + 6 = 0 /\ -6 + 6 >= 0 /\ -6 + 6 - 8 = -8
  OBVIOUS
<1> QED BY <1>4, <1>5, <1>6, <1>7, <1>8, <1>9

\* A digit is one of 64.
LEMMA DigitsType ==
    ASSUME NEW x \in Octet, NEW y \in Octet, NEW z \in Octet
    PROVE  \A i \in 1..4 : DigitsOf(x, y, z)[i] \in Sextet
<1>1. PICK a, p, q, s, t, e : Cut(x, y, z, a, p, q, s, t, e)
  BY Bits
<1> DEFINE g == <<a, 16 * p + q, 4 * s + t, e>>
<1>2. /\ a \in Sextet /\ 16 * p + q \in Sextet /\ 4 * s + t \in Sextet
      /\ e \in Sextet
  BY <1>1 DEF Sextet, Cut
<1>3. g[1] \in Sextet /\ g[2] \in Sextet /\ g[3] \in Sextet /\ g[4] \in Sextet
  BY <1>2
<1> HIDE DEF g
<1>4. \A i \in 1..4 : i = 1 \/ i = 2 \/ i = 3 \/ i = 4
  OBVIOUS
<1>5. DigitsOf(x, y, z) = g
  BY <1>1, DigitsFromBits DEF g
<1> QED BY <1>3, <1>4, <1>5

\* Three bytes come out of the four digits that they were cut into, the first
\* with the second digit, the second with the third.
LEMMA ThreeBytes ==
    ASSUME NEW x \in Octet, NEW y \in Octet, NEW z \in Octet,
           NEW c \in Sextet, NEW d \in Sextet, NEW out,
           NEW g, g = DigitsOf(x, y, z),
           NEW s1, s1 = DecodeStep(After(c, d, -8, out), g[1]),
           NEW s2, s2 = DecodeStep(s1, g[2]),
           NEW s3, s3 = DecodeStep(s2, g[3]),
           NEW s4, s4 = DecodeStep(s3, g[4])
    PROVE  /\ \A i \in 1..4 : g[i] \in Sextet
           /\ s2 = After(g[1], g[2], -4, Append(out, x))
           /\ s3 = After(g[2], g[3], -6, Append(Append(out, x), y))
           /\ s4 = After(g[3], g[4], -8, Append(Append(Append(out, x), y), z))
<1>1. PICK a, p, q, s, t, e : Cut(x, y, z, a, p, q, s, t, e)
  BY Bits
<1>2. g = <<a, 16 * p + q, 4 * s + t, e>>
  BY <1>1, DigitsFromBits
<1>3. /\ g[1] = a /\ g[2] = 16 * p + q /\ g[3] = 4 * s + t /\ g[4] = e
      /\ g[1] \in Sextet /\ g[2] \in Sextet /\ g[3] \in Sextet /\ g[4] \in Sextet
  BY <1>1, <1>2 DEF Sextet, Cut
<1>4. ((64 * g[1] + g[2]) \div 16) % 256 = x
  <2>1. 64 * g[1] + g[2] = 16 * x + q
    BY <1>1, <1>3 DEF Cut
  <2>2. q \in Nat /\ q < 16 /\ x \in Nat /\ x < 256
    BY <1>1 DEF Octet, Cut
  <2>3. (16 * x + q) \div 16 = x
    BY <2>2, Division
  <2> QED BY <2>1, <2>2, <2>3
<1>5. ((64 * g[2] + g[3]) \div 4) % 256 = y
  <2>1. 64 * g[2] + g[3] = 4 * (256 * p + y) + t
    BY <1>1, <1>3 DEF Cut
  <2>2. /\ t \in Nat /\ t < 4 /\ p \in Nat /\ y \in Nat /\ y < 256
        /\ 256 * p + y \in Nat
    BY <1>1 DEF Octet, Cut
  <2> DEFINE w == 256 * p + y
  <2>3. w % 256 = y
    BY <2>2, Division
  <2> HIDE DEF w
  <2>4. (4 * w + t) \div 4 = w
    BY <2>2, Division DEF w
  <2> QED BY <2>1, <2>3, <2>4 DEF w
<1>6. (64 * g[3] + g[4]) % 256 = z
  <2>1. 64 * g[3] + g[4] = 256 * s + z
    BY <1>1, <1>3 DEF Cut
  <2>2. s \in Nat /\ z \in Nat /\ z < 256
    BY <1>1 DEF Octet, Cut
  <2> QED BY <2>1, <2>2, Division
<1>7. \A i \in 1..4 : g[i] \in Sextet
  BY DigitsType
<1>8. s1 = After(d, g[1], -2, out)
  BY <1>3, DecodeDigit
<1>9. s2 = After(g[1], g[2], -4, Append(out, x))
  <2>1. DecodeStep(After(d, g[1], -2, out), g[2]) =
            After(g[1], g[2], -4,
                  Append(out, ((64 * g[1] + g[2]) \div 16) % 256))
    BY <1>3, DecodeDigit
  <2> QED BY <1>4, <1>8, <2>1
<1>10. s3 = After(g[2], g[3], -6, Append(Append(out, x), y))
  <2> DEFINE o == Append(out, x)
  <2>1. DecodeStep(After(g[1], g[2], -4, o), g[3]) =
            After(g[2], g[3], -6,
                  Append(o, ((64 * g[2] + g[3]) \div 4) % 256))
    BY <1>3, DecodeDigit
  <2> QED BY <1>5, <1>9, <2>1
<1>11. s4 = After(g[3], g[4], -8, Append(Append(Append(out, x), y), z))
  <2> DEFINE o == Append(Append(out, x), y)
  <2>1. DecodeStep(After(g[2], g[3], -6, o), g[4]) =
            After(g[3], g[4], -8, Append(o, (64 * g[3] + g[4]) % 256))
    BY <1>3, DecodeDigit
  <2> QED BY <1>6, <1>10, <2>1
<1> QED BY <1>7, <1>9, <1>10, <1>11

\* What the loop of the decoder holds between two characters.
DecoderState ==
    [ok : BOOLEAN, bits : Nat, at : {-8, -6, -4, -2}, bytes : Seq(Octet)]

LEMMA DecodeStepType ==
    ASSUME NEW st \in DecoderState, NEW c \in Nat
    PROVE  DecodeStep(st, c) \in DecoderState
<1>1. /\ st.ok \in BOOLEAN /\ st.bits \in Nat /\ st.at \in {-8, -6, -4, -2}
      /\ st.bytes \in Seq(Octet)
  BY DEF DecoderState
<1>2. (st.bits * 64 + c) % 4096 \in Nat
  <2> DEFINE w == st.bits * 64 + c
  <2>1. w \in Nat
    BY <1>1
  <2> HIDE DEF w
  <2>2. w % 4096 \in Nat
    BY <2>1
  <2> QED BY <2>2 DEF w
<1> DEFINE next(v, a, out) ==
              [ok |-> TRUE, bits |-> v, at |-> IF a >= 0 THEN a - 8 ELSE a,
               bytes |-> IF a >= 0 THEN Append(out, (v \div 2^a) % 256)
                         ELSE out]
<1>3. ASSUME NEW v \in Nat, NEW a \in {-2, 0, 2, 4}, NEW out \in Seq(Octet)
      PROVE  next(v, a, out) \in DecoderState
  <2>1. a >= 0 => 2^a \in {1, 4, 16}
    <3>1. 2^0 = 1 /\ 2^2 = 4 /\ 2^4 = 16 /\ ~(-2 >= 0)
      OBVIOUS
    <3> QED BY <3>1
  <2>2. ASSUME a >= 0
        PROVE  (v \div 2^a) % 256 \in Octet
    <3> DEFINE m == 2^a
               w == v \div m
    <3>1. m \in {1, 4, 16}
      BY <2>1, <2>2
    <3> HIDE DEF m
    <3>2. w \in Nat
      BY <3>1
    <3> HIDE DEF w
    <3>3. w % 256 \in Octet
      BY <3>2 DEF Octet
    <3> QED BY <3>3 DEF m, w
  <2>3. (IF a >= 0 THEN a - 8 ELSE a) \in {-8, -6, -4, -2}
    OBVIOUS
  <2>4. (IF a >= 0 THEN Append(out, (v \div 2^a) % 256) ELSE out) \in Seq(Octet)
    BY <2>2
  <2> QED BY <2>3, <2>4 DEF DecoderState
<1>4. next((st.bits * 64 + c) % 4096, st.at + 6, st.bytes) \in DecoderState
  <2>1. st.at + 6 \in {-2, 0, 2, 4}
    BY <1>1
  <2> HIDE DEF next
  <2> QED BY <1>1, <1>2, <1>3, <2>1
<1>5. [st EXCEPT !.ok = FALSE] \in DecoderState
  BY DEF DecoderState
<1>6. CASE c = Blank \/ ~st.ok
  BY <1>6 DEF DecodeStep
<1>7. CASE ~(c = Blank \/ ~st.ok) /\ c \in {Pad, Foreign}
  <2>1. DecodeStep(st, c) = [st EXCEPT !.ok = FALSE]
    BY <1>7 DEF DecodeStep
  <2> QED BY <1>5, <2>1
<1>8. CASE ~(c = Blank \/ ~st.ok) /\ c \notin {Pad, Foreign}
  <2>1. DecodeStep(st, c) =
            next((st.bits * 64 + c) % 4096, st.at + 6, st.bytes)
    BY <1>8 DEF DecodeStep
  <2> HIDE DEF next
  <2> QED BY <1>4, <2>1
<1> QED BY <1>6, <1>7, <1>8

\* The decoder's loop, and that it is a run of DecodeStep over the characters.
Loop(start, seq) == FoldLeft(DecodeStep, start, seq)

Decodes(r, start, seq, N) ==
    r[0] = start /\ \A i \in 1..N : r[i] = DecodeStep(r[i - 1], seq[i])

LEMMA DecodeRun ==
    ASSUME NEW N \in Nat, NEW b \in DecoderState,
           NEW seq, DOMAIN seq = 1..N, \A i \in 1..N : seq[i] \in Nat
    PROVE  \E r : Decodes(r, b, seq, N) /\ Loop(b, seq) = r[N]
<1> DEFINE D == SUBSET (1..N)
           Eq(h) == h = [s \in D |-> IF s = {} THEN b
                            ELSE DecodeStep(h[s \ {Max(s)}], seq[Max(s)])]
           table == CHOOSE h : Eq(h)
           G == [p \in (1..N) \X DecoderState |-> DecodeStep(p[2], seq[p[1]])]
<1>1. Loop(b, seq) = table[1..N]
  BY DEF Loop, FoldLeft, MapThenFoldSet
<1>2. \A s \in D : s # {} => Max(s) \in 1..N /\ s \ {Max(s)} \in D
  BY MaxIsGreatest
<1>3. IsStep(G, N, DecoderState)
  BY DecodeStepType DEF IsStep
<1>4. \A i \in 1..N, v \in DecoderState : G[<<i, v>>] = DecodeStep(v, seq[i])
  OBVIOUS
<1> HIDE DEF G
<1>5. PICK h : IsTable(h, G, N, b) /\ h \in [D -> DecoderState]
  BY <1>3, FoldTable
<1>6. Eq(h)
  <2>1. \A s \in D : h[s] = IF s = {} THEN b
                           ELSE DecodeStep(h[s \ {Max(s)}], seq[Max(s)])
    BY <1>2, <1>4, <1>5 DEF IsTable
  <2>2. h = [s \in D |-> h[s]]
    BY <1>5
  <2> HIDE DEF D
  <2> QED BY <2>1, <2>2
<1>7. Eq(table)
  <2> HIDE DEF Eq
  <2> QED BY <1>6
<1>8. Tabulates(table, G, N, DecoderState, b)
  <2>1. \A s \in D : table[s] = IF s = {} THEN b
                            ELSE DecodeStep(table[s \ {Max(s)}], seq[Max(s)])
    <3> HIDE DEF table, D
    <3> QED BY <1>7
  <2> HIDE DEF table
  <2> QED BY <1>2, <1>4, <2>1 DEF Tabulates
<1> HIDE DEF table
<1>9. PICK r : IsRun(r, G, N, DecoderState, b) /\ r[N] = table[1..N]
  BY <1>3, <1>8, FoldRun
<1>10. \A i \in 1..N : i - 1 \in 0..N
  OBVIOUS
<1>11. Decodes(r, b, seq, N)
  BY <1>4, <1>9, <1>10 DEF IsRun, Decodes
<1> QED BY <1>1, <1>9, <1>11

\* The bytes of a string, 0 after its end, and the digits of its k-th group.
ByteAt(b, i) == IF i <= Len(b) THEN b[i] ELSE 0

GroupDigits(b, k) ==
    DigitsOf(ByteAt(b, 3 * k - 2), ByteAt(b, 3 * k - 1), ByteAt(b, 3 * k))

LEMMA BytesTyped ==
    ASSUME NEW b \in Seq(Octet), NEW i \in Nat, i > 0
    PROVE  ByteAt(b, i) \in Octet
<1>1. CASE i <= Len(b)
  <2>1. i \in 1..Len(b)
    BY <1>1, LenProperties
  <2> QED BY <1>1, <2>1, ElementOfSeq DEF ByteAt
<1>2. CASE ~(i <= Len(b))
  BY <1>2 DEF ByteAt, Octet
<1> QED BY <1>1, <1>2

LEMMA GroupTyped ==
    ASSUME NEW b \in Seq(Octet), NEW k \in Nat, k > 0
    PROVE  /\ ByteAt(b, 3 * k - 2) \in Octet
           /\ ByteAt(b, 3 * k - 1) \in Octet
           /\ ByteAt(b, 3 * k) \in Octet
           /\ \A j \in 1..4 : GroupDigits(b, k)[j] \in Sextet
           /\ GroupDigits(b, k) \in Seq(Sextet)
           /\ Len(GroupDigits(b, k)) = 4
<1>1. /\ ByteAt(b, 3 * k - 2) \in Octet
      /\ ByteAt(b, 3 * k - 1) \in Octet
      /\ ByteAt(b, 3 * k) \in Octet
  <2>1. /\ 3 * k - 2 \in Nat /\ 3 * k - 2 > 0
        /\ 3 * k - 1 \in Nat /\ 3 * k - 1 > 0
        /\ 3 * k \in Nat /\ 3 * k > 0
    OBVIOUS
  <2> QED BY <2>1, BytesTyped
<1>2. \A j \in 1..4 : GroupDigits(b, k)[j] \in Sextet
  BY <1>1, DigitsType DEF GroupDigits
<1>3. PICK d1, d2, d3, d4 : GroupDigits(b, k) = <<d1, d2, d3, d4>>
  BY DEF GroupDigits, DigitsOf
<1>4. d1 \in Sextet /\ d2 \in Sextet /\ d3 \in Sextet /\ d4 \in Sextet
  <2>1. 1 \in 1..4 /\ 2 \in 1..4 /\ 3 \in 1..4 /\ 4 \in 1..4
    OBVIOUS
  <2>2. /\ <<d1, d2, d3, d4>>[1] = d1 /\ <<d1, d2, d3, d4>>[2] = d2
        /\ <<d1, d2, d3, d4>>[3] = d3 /\ <<d1, d2, d3, d4>>[4] = d4
    OBVIOUS
  <2> QED BY <1>2, <1>3, <2>1, <2>2
<1>5. GroupDigits(b, k) \in Seq(Sextet) /\ Len(GroupDigits(b, k)) = 4
  BY <1>3, <1>4
<1> QED BY <1>1, <1>2, <1>5

\* The decoder when it starts.
StartState == [ok |-> TRUE, bits |-> 0, at |-> -8, bytes |-> <<>>]

\* The digits of the first m groups; the decoder between two groups.
FullGroups(seq, b, m) ==
    \A k \in 1..m : \A j \in 1..4 :
        seq[4 * (k - 1) + j] = GroupDigits(b, k)[j]

AtBorder(st, out) == \E c, d \in Sextet : st = After(c, d, -8, out)

\* The decoder after m groups of four digits.
LEMMA GroupsDecoded ==
    ASSUME NEW b \in Seq(Octet), NEW N \in Nat, NEW seq, NEW r,
           Decodes(r, StartState, seq, N), NEW m \in Nat, 3 * m <= Len(b), 4 * m <= N,
           FullGroups(seq, b, m)
    PROVE  AtBorder(r[4 * m], SubSeq(b, 1, 3 * m))
<1> USE DEF FullGroups, AtBorder
<1> DEFINE Done(k) == \E c, d \in Sextet :
                        r[4 * k] = After(c, d, -8, SubSeq(b, 1, 3 * k))
           T == {k \in Nat : k <= m => Done(k)}
<1>1. Done(0)
  <2>1. 0 \in Sextet /\ 64 * 0 + 0 = 0 /\ 4 * 0 = 0 /\ 3 * 0 = 0
    BY DEF Sextet
  <2>2. SubSeq(b, 1, 0) = <<>>
    BY SubSeqEmpty
  <2>3. r[0] = After(0, 0, -8, <<>>)
    BY <2>1 DEF Decodes, StartState, After
  <2> QED BY <2>1, <2>2, <2>3
<1>2. ASSUME NEW k \in Nat, k + 1 <= m, Done(k)
      PROVE  Done(k + 1)
  <2>1. PICK c, d \in Sextet : r[4 * k] = After(c, d, -8, SubSeq(b, 1, 3 * k))
    BY <1>2
  <2> DEFINE g == GroupDigits(b, k + 1)
             x == ByteAt(b, 3 * (k + 1) - 2)
             y == ByteAt(b, 3 * (k + 1) - 1)
             z == ByteAt(b, 3 * (k + 1))
             out == SubSeq(b, 1, 3 * k)
  <2> HIDE DEF Done, T
  <2>2. /\ k + 1 \in 1..m /\ 4 * ((k + 1) - 1) = 4 * k
        /\ Len(b) \in Nat /\ 3 * k + 3 <= Len(b) /\ 4 * k + 4 <= N
    BY <1>2, LenProperties
  <2>3. /\ r[4 * k + 1] = DecodeStep(r[4 * k], seq[4 * k + 1])
        /\ r[4 * k + 2] = DecodeStep(r[4 * k + 1], seq[4 * k + 2])
        /\ r[4 * k + 3] = DecodeStep(r[4 * k + 2], seq[4 * k + 3])
        /\ r[4 * k + 4] = DecodeStep(r[4 * k + 3], seq[4 * k + 4])
    <3>1. /\ 4 * k + 1 \in 1..N /\ (4 * k + 1) - 1 = 4 * k
          /\ 4 * k + 2 \in 1..N /\ (4 * k + 2) - 1 = 4 * k + 1
          /\ 4 * k + 3 \in 1..N /\ (4 * k + 3) - 1 = 4 * k + 2
          /\ 4 * k + 4 \in 1..N /\ (4 * k + 4) - 1 = 4 * k + 3
      BY <2>2
    <3> QED BY <3>1 DEF Decodes
  <2>4. \A j \in 1..4 : seq[4 * k + j] = g[j]
    BY <2>2
  <2>5. /\ seq[4 * k + 1] = g[1] /\ seq[4 * k + 2] = g[2]
        /\ seq[4 * k + 3] = g[3] /\ seq[4 * k + 4] = g[4]
    <3> HIDE DEF g
    <3> QED BY <2>4
  <2>6. x \in Octet /\ y \in Octet /\ z \in Octet
    <3>1. k + 1 \in Nat /\ k + 1 > 0
      OBVIOUS
    <3> QED BY <3>1, GroupTyped
  <2>7. /\ r[4 * k + 4] = After(g[3], g[4], -8,
                                Append(Append(Append(out, x), y), z))
        /\ \A j \in 1..4 : g[j] \in Sextet
    <3>1. g = DigitsOf(x, y, z)
      BY DEF GroupDigits
    <3> HIDE DEF g, x, y, z, out
    <3>2. /\ r[4 * k + 1] = DecodeStep(After(c, d, -8, out), g[1])
          /\ r[4 * k + 2] = DecodeStep(r[4 * k + 1], g[2])
          /\ r[4 * k + 3] = DecodeStep(r[4 * k + 2], g[3])
          /\ r[4 * k + 4] = DecodeStep(r[4 * k + 3], g[4])
      BY <2>1, <2>3, <2>5 DEF out
    <3> QED BY <2>6, <3>1, <3>2, ThreeBytes
  <2>8. Append(Append(Append(out, x), y), z) = SubSeq(b, 1, 3 * k + 3)
    <3>1. /\ 3 * (k + 1) - 2 = 3 * k + 1 /\ 3 * (k + 1) - 1 = 3 * k + 2
          /\ 3 * (k + 1) = 3 * k + 3
      OBVIOUS
    <3>2. x = b[3 * k + 1] /\ y = b[3 * k + 2] /\ z = b[3 * k + 3]
      BY <2>2, <3>1 DEF ByteAt
    <3>3. /\ 3 * k \in Nat /\ 3 * k + 1 \in Nat /\ 3 * k + 2 \in Nat
          /\ 3 * k + 1 <= Len(b) /\ (3 * k + 1) + 1 <= Len(b)
          /\ (3 * k + 2) + 1 <= Len(b)
          /\ (3 * k + 1) + 1 = 3 * k + 2 /\ (3 * k + 2) + 1 = 3 * k + 3
      BY <2>2
    <3>4. SubSeq(b, 1, 3 * k + 1) = Append(out, b[3 * k + 1])
      BY <3>3, SubSeqNext
    <3>5. SubSeq(b, 1, 3 * k + 2) =
            Append(SubSeq(b, 1, 3 * k + 1), b[3 * k + 2])
      BY <3>3, SubSeqNext
    <3>6. SubSeq(b, 1, 3 * k + 3) =
            Append(SubSeq(b, 1, 3 * k + 2), b[3 * k + 3])
      BY <3>3, SubSeqNext
    <3> HIDE DEF x, y, z, out
    <3> QED BY <3>2, <3>4, <3>5, <3>6
  <2>9. 4 * (k + 1) = 4 * k + 4 /\ 3 * (k + 1) = 3 * k + 3
    OBVIOUS
  <2>10. g[3] \in Sextet /\ g[4] \in Sextet
    <3> HIDE DEF g
    <3> QED BY <2>7
  <2> HIDE DEF g, x, y, z, out
  <2> QED BY <2>7, <2>8, <2>9, <2>10 DEF Done
<1>3. T = Nat
  <2> HIDE DEF Done
  <2>1. 0 \in T
    BY <1>1
  <2>2. ASSUME NEW k \in T
        PROVE  k + 1 \in T
    <3> SUFFICES ASSUME k + 1 <= m
                 PROVE  Done(k + 1)
      OBVIOUS
    <3>1. k \in Nat /\ k <= m
      OBVIOUS
    <3>2. Done(k)
      BY <3>1
    <3> QED BY <1>2, <3>1, <3>2
  <2>3. T \subseteq Nat
    OBVIOUS
  <2> HIDE DEF T
  <2> QED BY <2>1, <2>2, <2>3, NumberInduction
<1>4. Done(m)
  <2> HIDE DEF Done
  <2>1. m \in T
    <3> HIDE DEF T
    <3> QED BY <1>3
  <2> QED BY <2>1
<1> QED BY <1>4

\* What an encoding of b looks like: m groups of four digits, n digits of a
\* last group, and padding.
Alphabet == 0..64

LastGroup(chars, b, m, n) ==
    \A j \in 1..n : chars[4 * m + j] = GroupDigits(b, m + 1)[j]

Padded(chars, at, pads) == \A j \in 1..pads : chars[at + j] = Pad

Rest(b, m, n, pads) ==
    \/ Len(b) = 3 * m /\ n = 0 /\ pads = 0
    \/ Len(b) = 3 * m + 2 /\ n = 3 /\ pads = 1
    \/ Len(b) = 3 * m + 1 /\ n \in {2, 3} /\ pads = 2

Encodes(chars, b, m, n, pads) ==
    /\ chars \in Seq(Alphabet) /\ Len(chars) = 4 * m + n + pads
    /\ FullGroups(chars, b, m)
    /\ LastGroup(chars, b, m, n)
    /\ Padded(chars, 4 * m + n, pads)
    /\ Rest(b, m, n, pads)

\* The last of the digits is not taken for padding.
LEMMA LastDigit ==
    ASSUME NEW b \in Seq(Octet), NEW chars, NEW m \in Nat, NEW n \in Nat,
           NEW pads \in Nat, Encodes(chars, b, m, n, pads), 4 * m + n > 0
    PROVE  chars[4 * m + n] # Pad
<1>1. chars[4 * m + n] \in Sextet
  <2>1. CASE n > 0
    <3>1. n \in 1..n /\ n \in 1..4 /\ m + 1 \in Nat /\ m + 1 > 0
      BY <2>1 DEF Encodes, LastGroup, Padded, Rest
    <3>2. chars[4 * m + n] = GroupDigits(b, m + 1)[n]
      BY <3>1 DEF Encodes, LastGroup, Padded, Rest
    <3>3. GroupDigits(b, m + 1)[n] \in Sextet
      BY <3>1, GroupTyped
    <3> QED BY <3>2, <3>3
  <2>2. CASE n = 0
    <3>1. m \in 1..m /\ m > 0 /\ 4 \in 1..4 /\ 4 * (m - 1) + 4 = 4 * m + n
      BY <2>2
    <3>2. chars[4 * (m - 1) + 4] = GroupDigits(b, m)[4]
      BY <3>1 DEF Encodes, LastGroup, Padded, Rest, FullGroups
    <3>3. GroupDigits(b, m)[4] \in Sextet
      BY <3>1, GroupTyped
    <3> QED BY <3>1, <3>2, <3>3
  <2> QED BY <2>1, <2>2
<1>2. \A v \in Sextet : v # Pad
  BY DEF Sextet, Pad
<1> QED BY <1>1, <1>2

LEMMA PadsCounted ==
    ASSUME NEW b \in Seq(Octet), NEW chars, NEW m \in Nat, NEW n \in Nat,
           NEW pads \in Nat, Encodes(chars, b, m, n, pads)
    PROVE  PadCount(chars) = pads
<1> DEFINE L == Len(chars)
           N == 4 * m + n
           P(v) == /\ \A i \in (L - v + 1)..L : chars[i] = Pad
                   /\ v < L => chars[L - v] # Pad
<1>1. L = N + pads /\ N \in Nat /\ L \in Nat
  BY DEF Encodes, LastGroup, Padded, Rest
<1>2. \A j \in 1..pads : chars[N + j] = Pad
  BY DEF Encodes, LastGroup, Padded, Rest
<1>3. N > 0 => chars[N] # Pad
  BY LastDigit
<1> HIDE DEF N, L
<1>4. pads \in 0..L /\ P(pads)
  <2>1. ASSUME NEW i \in (L - pads + 1)..L
        PROVE  chars[i] = Pad
    <3>1. i - N \in 1..pads /\ N + (i - N) = i
      BY <1>1
    <3> QED BY <1>2, <3>1
  <2>2. ASSUME pads < L
        PROVE  chars[L - pads] # Pad
    <3>1. L - pads = N /\ N > 0
      BY <1>1, <2>2
    <3> QED BY <1>3, <3>1
  <2> QED BY <1>1, <2>1, <2>2
<1>5. ASSUME NEW v \in 0..L, P(v)
      PROVE  v = pads
  <2>1. CASE v > pads
    <3>1. N \in (L - v + 1)..L /\ N > 0
      BY <1>1, <2>1
    <3> QED BY <1>3, <1>5, <3>1
  <2>2. CASE v < pads
    <3>1. pads - v \in 1..pads /\ N + (pads - v) = L - v /\ v < L
      BY <1>1, <2>2
    <3> QED BY <1>2, <1>5, <3>1
  <2> QED BY <1>1, <2>1, <2>2
<1>6. PadCount(chars) = CHOOSE v \in 0..L : P(v)
  BY DEF PadCount, L
<1> HIDE DEF P
<1> QED BY <1>4, <1>5, <1>6

\* The loop of the decoder takes all the digits and returns the bytes, and one
\* more where a last byte has three digits.
LEMMA LoopDecodes ==
    ASSUME NEW b \in Seq(Octet), NEW chars, NEW m \in Nat, NEW n \in Nat,
           NEW pads \in Nat, Encodes(chars, b, m, n, pads)
    PROVE  LET end == Loop(StartState, SubSeq(chars, 1, 4 * m + n))
           IN  end.ok = TRUE /\ \E y \in Octet : end.bytes \in {b, Append(b, y)}
<1> DEFINE N == 4 * m + n
           seq == SubSeq(chars, 1, N)
<1>1. N \in Nat /\ Len(chars) \in Nat /\ N <= Len(chars) /\ Len(b) \in Nat
  BY LenProperties DEF Encodes, LastGroup, Padded, Rest
<1>2. /\ DOMAIN seq = 1..N
      /\ \A i \in 1..N : seq[i] = chars[i] /\ seq[i] \in Nat
  <2>1. \A i \in 1..N : chars[i] \in Alphabet
    <3>1. \A i \in 1..N : i \in 1..Len(chars)
      BY <1>1
    <3>2. chars \in Seq(Alphabet)
      BY DEF Encodes, LastGroup, Padded, Rest
    <3> HIDE DEF N
    <3> QED BY <3>1, <3>2, ElementOfSeq
  <2> HIDE DEF N
  <2>2. seq \in Seq(Alphabet) /\ Len(seq) = N
        /\ \A i \in 1..N : seq[i] = chars[i]
    <3>1. /\ SubSeq(chars, 1, N) \in Seq(Alphabet)
          /\ Len(SubSeq(chars, 1, N)) = IF 1 <= N THEN N - 1 + 1 ELSE 0
          /\ \A i \in 1..(N - 1 + 1) : SubSeq(chars, 1, N)[i] = chars[1 + i - 1]
      BY <1>1, <2>1, SubSeqProperties
    <3>2. (IF 1 <= N THEN N - 1 + 1 ELSE 0) = N /\ N - 1 + 1 = N
          /\ \A i \in 1..N : 1 + i - 1 = i
      BY <1>1
    <3> QED BY <3>1, <3>2
  <2> HIDE DEF seq
  <2>3. \A v \in Alphabet : v \in Nat
    BY DEF Alphabet
  <2> QED BY <2>1, <2>2, <2>3, LenProperties
<1>3. StartState \in DecoderState
  BY DEF StartState, DecoderState
<1>4. PICK r : Decodes(r, StartState, seq, N) /\ Loop(StartState, seq) = r[N]
  <2> HIDE DEF seq, N
  <2> QED BY <1>1, <1>2, <1>3, DecodeRun
<1>5. PICK c, d \in Sextet : r[4 * m] = After(c, d, -8, SubSeq(b, 1, 3 * m))
  <2>1. 3 * m <= Len(b) /\ 4 * m <= N
    BY DEF Encodes, LastGroup, Padded, Rest
  <2>2. FullGroups(seq, b, m)
    <3>1. \A k \in 1..m : \A j \in 1..4 : 4 * (k - 1) + j \in 1..N
      OBVIOUS
    <3> HIDE DEF seq, N
    <3> QED BY <1>2, <3>1 DEF Encodes, LastGroup, Padded, Rest, FullGroups
  <2> HIDE DEF seq, N
  <2>3. AtBorder(r[4 * m], SubSeq(b, 1, 3 * m))
    BY <1>1, <1>4, <2>1, <2>2, GroupsDecoded
  <2> QED BY <2>3 DEF AtBorder
<1> DEFINE g == GroupDigits(b, m + 1)
           x == ByteAt(b, 3 * (m + 1) - 2)
           y == ByteAt(b, 3 * (m + 1) - 1)
           z == ByteAt(b, 3 * (m + 1))
           out == SubSeq(b, 1, 3 * m)
           s1 == DecodeStep(After(c, d, -8, out), g[1])
           s2 == DecodeStep(s1, g[2])
           s3 == DecodeStep(s2, g[3])
           s4 == DecodeStep(s3, g[4])
<1>6. /\ x \in Octet /\ y \in Octet /\ z \in Octet /\ g = DigitsOf(x, y, z)
  <2>1. m + 1 \in Nat /\ m + 1 > 0
    OBVIOUS
  <2> QED BY <2>1, GroupTyped DEF GroupDigits
<1>7. /\ s2 = After(g[1], g[2], -4, Append(out, x))
      /\ s3 = After(g[2], g[3], -6, Append(Append(out, x), y))
  <2>1. /\ s1 = DecodeStep(After(c, d, -8, out), g[1])
        /\ s2 = DecodeStep(s1, g[2]) /\ s3 = DecodeStep(s2, g[3])
        /\ s4 = DecodeStep(s3, g[4])
    OBVIOUS
  <2> HIDE DEF g, x, y, z, out, s1, s2, s3, s4
  <2> QED BY <1>6, <2>1, ThreeBytes
<1>8. \A j \in 1..n : seq[4 * m + j] = g[j]
  <2>1. \A j \in 1..n : 4 * m + j \in 1..N
    OBVIOUS
  <2> HIDE DEF seq, N, g
  <2> QED BY <1>2, <2>1 DEF Encodes, LastGroup, Padded, Rest, g
<1>9. r[4 * m] = After(c, d, -8, out)
  BY <1>5
<1>10. /\ n >= 1 => r[4 * m + 1] = s1
       /\ n >= 2 => r[4 * m + 2] = s2
       /\ n >= 3 => r[4 * m + 3] = s3
  <2>1. /\ s1 = DecodeStep(After(c, d, -8, out), g[1])
        /\ s2 = DecodeStep(s1, g[2]) /\ s3 = DecodeStep(s2, g[3])
    OBVIOUS
  <2>2. \A j \in 1..n : /\ 4 * m + j \in 1..N
                        /\ (4 * m + j) - 1 = 4 * m + (j - 1)
    OBVIOUS
  <2> HIDE DEF seq, N, g, out, s1, s2, s3
  <2>3. \A j \in 1..n : r[4 * m + j] = DecodeStep(r[4 * m + (j - 1)], g[j])
    BY <1>4, <1>8, <2>2 DEF Decodes
  <2>4. n >= 1 => r[4 * m + 1] = s1
    <3>1. n >= 1 => 1 \in 1..n /\ 4 * m + (1 - 1) = 4 * m
      OBVIOUS
    <3> QED BY <1>9, <2>1, <2>3, <3>1
  <2>5. n >= 2 => r[4 * m + 2] = s2
    <3>1. n >= 2 => n >= 1 /\ 2 \in 1..n /\ 4 * m + (2 - 1) = 4 * m + 1
      OBVIOUS
    <3> QED BY <2>1, <2>3, <2>4, <3>1
  <2>6. n >= 3 => r[4 * m + 3] = s3
    <3>1. n >= 3 => n >= 2 /\ 3 \in 1..n /\ 4 * m + (3 - 1) = 4 * m + 2
      OBVIOUS
    <3> QED BY <2>1, <2>3, <2>5, <3>1
  <2> QED BY <2>4, <2>5, <2>6
<1>11. /\ r[N].ok = TRUE
       /\ r[N].bytes \in {b, Append(b, y)}
  <2> HIDE DEF g, x, y, z, s1, s2, s3, s4, seq
  <2>1. CASE Len(b) = 3 * m /\ n = 0
    <3>1. N = 4 * m /\ out = b
      BY <2>1, SubSeqFull
    <3> HIDE DEF N, out
    <3> QED BY <1>9, <3>1 DEF After
  <2>2. CASE Len(b) = 3 * m + 2 /\ n = 3
    <3>1. N = 4 * m + 3 /\ r[N] = s3
      BY <1>10, <2>2
    <3>2. /\ 3 * (m + 1) - 2 = 3 * m + 1 /\ 3 * (m + 1) - 1 = 3 * m + 2
          /\ (3 * m + 1) + 1 = 3 * m + 2 /\ 3 * m + 2 <= Len(b)
          /\ 3 * m + 1 <= Len(b) /\ 3 * m \in Nat /\ 3 * m + 1 \in Nat
      BY <2>2
    <3>3. x = b[3 * m + 1] /\ y = b[3 * m + 2]
      BY <3>2 DEF x, y, ByteAt
    <3>4. SubSeq(b, 1, 3 * m + 1) = Append(out, x)
      BY <3>2, <3>3, SubSeqNext
    <3>5. SubSeq(b, 1, 3 * m + 2) = Append(SubSeq(b, 1, 3 * m + 1), y)
      BY <3>2, <3>3, SubSeqNext
    <3>6. SubSeq(b, 1, 3 * m + 2) = b
      BY <2>2, SubSeqFull
    <3>7. s3.ok = TRUE /\ s3.bytes = Append(Append(out, x), y)
      BY <1>7 DEF After
    <3> HIDE DEF N, out
    <3> QED BY <3>1, <3>4, <3>5, <3>6, <3>7
  <2>3. CASE Len(b) = 3 * m + 1 /\ n \in {2, 3}
    <3>1. r[N] = IF n = 2 THEN s2 ELSE s3
      BY <1>10, <2>3
    <3>2. /\ 3 * (m + 1) - 2 = 3 * m + 1 /\ 3 * m + 1 <= Len(b)
          /\ 3 * m \in Nat
      BY <2>3
    <3>3. x = b[3 * m + 1]
      BY <3>2 DEF x, ByteAt
    <3>4. SubSeq(b, 1, 3 * m + 1) = Append(out, x)
      BY <3>2, <3>3, SubSeqNext
    <3>5. SubSeq(b, 1, 3 * m + 1) = b
      BY <2>3, SubSeqFull
    <3>6. s2.ok = TRUE /\ s2.bytes = Append(out, x)
      BY <1>7 DEF After
    <3>7. s3.ok = TRUE /\ s3.bytes = Append(Append(out, x), y)
      BY <1>7 DEF After
    <3> HIDE DEF N, out
    <3> QED BY <3>1, <3>4, <3>5, <3>6, <3>7
  <2> QED BY <2>1, <2>2, <2>3 DEF Encodes, LastGroup, Padded, Rest
<1> HIDE DEF N, seq, y
<1>12. /\ Loop(StartState, seq).ok = TRUE
       /\ Loop(StartState, seq).bytes \in {b, Append(b, y)}
  BY <1>4, <1>11
<1> QED BY <1>6, <1>12 DEF N, seq

\* What the digits of a short group carry too much is cut off.
LEMMA TrimCuts ==
    ASSUME NEW b \in Seq(Octet), NEW y \in Octet,
           NEW out, out = b \/ out = Append(b, y),
           NEW length \in Nat, NEW pads \in Nat,
           (length \div 4) * 3 - pads = Len(b)
    PROVE  Trim(out, length, pads) = b
<1>1. Len(b) \in Nat
  BY LenProperties
<1>2. Trim(out, length, pads) =
        IF Len(b) >= 0 /\ Len(out) > Len(b) THEN SubSeq(out, 1, Len(b)) ELSE out
  BY DEF Trim
<1>3. CASE out = b
  BY <1>1, <1>2, <1>3
<1>4. CASE out = Append(b, y)
  <2>1. Len(out) = Len(b) + 1
    BY <1>4, AppendProperties
  <2>2. SubSeq(out, 1, Len(b)) = b
    <3>1. /\ out \in Seq(Octet)
          /\ \A i \in 1..Len(b) : out[i] = b[i] /\ b[i] \in Octet
      BY <1>4, AppendProperties, ElementOfSeq
    <3>2. /\ SubSeq(out, 1, Len(b)) \in Seq(Octet)
          /\ Len(SubSeq(out, 1, Len(b))) = Len(b)
          /\ \A i \in 1..Len(b) : SubSeq(out, 1, Len(b))[i] = out[i]
      <4>1. /\ SubSeq(out, 1, Len(b)) \in Seq(Octet)
            /\ Len(SubSeq(out, 1, Len(b))) =
                    IF 1 <= Len(b) THEN Len(b) - 1 + 1 ELSE 0
            /\ \A i \in 1..(Len(b) - 1 + 1) :
                    SubSeq(out, 1, Len(b))[i] = out[1 + i - 1]
        BY <1>1, <3>1, SubSeqProperties
      <4>2. /\ (IF 1 <= Len(b) THEN Len(b) - 1 + 1 ELSE 0) = Len(b)
            /\ Len(b) - 1 + 1 = Len(b) /\ \A i \in 1..Len(b) : 1 + i - 1 = i
        BY <1>1
      <4> QED BY <4>1, <4>2
    <3> QED BY <3>1, <3>2, SeqEqual
  <2>3. Len(b) >= 0 /\ Len(out) > Len(b)
    BY <1>1, <2>1
  <2> QED BY <1>2, <2>2, <2>3
<1> QED BY <1>3, <1>4

LEMMA EncodedDecodes ==
    ASSUME NEW b \in Seq(Octet), NEW chars, NEW m \in Nat, NEW n \in Nat,
           NEW pads \in Nat, Encodes(chars, b, m, n, pads)
    PROVE  base64Decode(chars) = [ok |-> TRUE, bytes |-> b]
<1> DEFINE end == Loop(StartState, SubSeq(chars, 1, 4 * m + n))
<1>1. PadCount(chars) = pads
  BY PadsCounted
<1>2. PICK y \in Octet : end.ok = TRUE /\ end.bytes \in {b, Append(b, y)}
  BY LoopDecodes
<1>3. Len(chars) = 4 * m + n + pads /\ Len(chars) - pads = 4 * m + n
  BY DEF Encodes, LastGroup, Padded, Rest
<1>4. (Len(chars) \div 4) * 3 - pads = Len(b)
  <2>1. /\ (4 * m + 0) \div 4 = m
        /\ (4 * (m + 1) + 0) \div 4 = m + 1
        /\ (4 * (m + 1) + 1) \div 4 = m + 1
    <3>1. m + 1 \in Nat
      OBVIOUS
    <3> QED BY <3>1, Division
  <2>2. CASE Len(b) = 3 * m /\ n = 0 /\ pads = 0
    <3>1. Len(chars) = 4 * m + 0
      BY <1>3, <2>2
    <3> QED BY <2>1, <2>2, <3>1
  <2>3. CASE Len(b) = 3 * m + 2 /\ n = 3 /\ pads = 1
    <3>1. Len(chars) = 4 * (m + 1) + 0
      BY <1>3, <2>3
    <3>2. (Len(chars) \div 4) = m + 1
      BY <2>1, <3>1
    <3> QED BY <2>3, <3>2
  <2>4. CASE Len(b) = 3 * m + 1 /\ n = 2 /\ pads = 2
    <3>1. Len(chars) = 4 * (m + 1) + 0
      BY <1>3, <2>4
    <3>2. (Len(chars) \div 4) = m + 1
      BY <2>1, <3>1
    <3> QED BY <2>4, <3>2
  <2>5. CASE Len(b) = 3 * m + 1 /\ n = 3 /\ pads = 2
    <3>1. Len(chars) = 4 * (m + 1) + 1
      BY <1>3, <2>5
    <3>2. (Len(chars) \div 4) = m + 1
      BY <2>1, <3>1
    <3> QED BY <2>5, <3>2
  <2> QED BY <2>2, <2>3, <2>4, <2>5 DEF Encodes, LastGroup, Padded, Rest
<1>5. Len(chars) \in Nat
  BY <1>3
<1>6. Trim(end.bytes, Len(chars), pads) = b
  <2> HIDE DEF end
  <2> QED BY <1>2, <1>4, <1>5, TrimCuts
<1>7. base64Decode(chars) =
        IF end.ok
        THEN [ok |-> TRUE, bytes |-> Trim(end.bytes, Len(chars), pads)]
        ELSE [ok |-> FALSE, bytes |-> <<>>]
  BY <1>1, <1>3 DEF base64Decode, Loop, StartState
<1> HIDE DEF end
<1> QED BY <1>2, <1>6, <1>7

\* What an encoder makes of the k-th group of b.
Codes(w, b, k) ==
    /\ w \in Seq(Alphabet)
    /\ 3 * k <= Len(b) => w = GroupDigits(b, k)
    /\ Len(b) = 3 * k - 1 =>
            /\ Len(w) = 4 /\ w[4] = Pad
            /\ \A j \in 1..3 : w[j] = GroupDigits(b, k)[j]
    /\ Len(b) = 3 * k - 2 =>
            \E n \in {2, 3} :
                /\ Len(w) = n + 2 /\ w[n + 1] = Pad /\ w[n + 2] = Pad
                /\ \A j \in 1..n : w[j] = GroupDigits(b, k)[j]

\* How many groups there are, and what is in them.
LEMMA GroupCount ==
    ASSUME NEW b \in Seq(Octet)
    PROVE  LET M == (Len(b) + 2) \div 3
           IN  /\ M \in Nat /\ 3 * M <= Len(b) + 2 /\ Len(b) + 2 < 3 * M + 3
               /\ Len(b) \in Nat
<1> DEFINE l == Len(b) + 2
           M == l \div 3
           rest == l % 3
<1>1. Len(b) \in Nat /\ l \in Nat
  BY LenProperties
<1>2. l = 3 * M + rest /\ rest \in 0..2 /\ M \in Nat
  <2> HIDE DEF l
  <2> QED BY <1>1
<1> HIDE DEF M, rest
<1>3. 3 * M <= l /\ l < 3 * M + 3
  <2> HIDE DEF l
  <2> QED BY <1>1, <1>2
<1> QED BY <1>1, <1>2, <1>3 DEF M

LEMMA GroupsCut ==
    ASSUME NEW b \in Seq(Octet), NEW k \in 1..((Len(b) + 2) \div 3)
    PROVE  LET g == Groups(b)[k]
           IN  /\ Digits(g) = GroupDigits(b, k)
               /\ 3 * k <= Len(b) => Len(g) = 3
               /\ Len(b) = 3 * k - 1 => Len(g) = 2
               /\ Len(b) = 3 * k - 2 => Len(g) = 1
               /\ 3 * k <= Len(b) \/ Len(b) = 3 * k - 1 \/ Len(b) = 3 * k - 2
<1> DEFINE g == Groups(b)[k]
           hi == IF 3 * k <= Len(b) THEN 3 * k ELSE Len(b)
<1>1. k \in Nat /\ k > 0 /\ Len(b) \in Nat /\ 3 * k <= Len(b) + 2
  <2> DEFINE M == (Len(b) + 2) \div 3
  <2>1. M \in Nat /\ 3 * M <= Len(b) + 2 /\ Len(b) \in Nat
    BY GroupCount
  <2>2. k \in 1..M
    OBVIOUS
  <2> HIDE DEF M
  <2> QED BY <2>1, <2>2
<1>2. g = SubSeq(b, 3 * k - 2, hi)
  BY DEF Groups
<1>3. /\ 3 * k - 2 \in Int /\ hi \in Int /\ 3 * k - 2 <= hi /\ hi <= Len(b)
      /\ 3 * k - 2 > 0
      /\ hi - (3 * k - 2) + 1 = IF 3 * k <= Len(b) THEN 3
                                ELSE Len(b) - (3 * k - 3)
  <2>1. CASE 3 * k <= Len(b)
    <3>1. hi = 3 * k
      BY <2>1
    <3> HIDE DEF hi
    <3> QED BY <1>1, <2>1, <3>1
  <2>2. CASE ~(3 * k <= Len(b))
    <3>1. hi = Len(b)
      BY <2>2
    <3> HIDE DEF hi
    <3> QED BY <1>1, <2>2, <3>1
  <2> QED BY <2>1, <2>2
<1>4. /\ Len(g) = hi - (3 * k - 2) + 1
      /\ \A i \in 1..(hi - (3 * k - 2) + 1) : g[i] = b[3 * k - 2 + i - 1]
  <2>1. \A i \in (3 * k - 2)..hi : b[i] \in Octet
    <3>1. \A i \in (3 * k - 2)..hi : i \in 1..Len(b)
      BY <1>1, <1>3
    <3> HIDE DEF hi
    <3> QED BY <3>1, ElementOfSeq
  <2> HIDE DEF hi, g
  <2> QED BY <1>2, <1>3, <2>1, SubSeqProperties
<1>5. 3 * k <= Len(b) \/ Len(b) = 3 * k - 1 \/ Len(b) = 3 * k - 2
  BY <1>1
<1>6. /\ 3 * k <= Len(b) => Len(g) = 3
      /\ Len(b) = 3 * k - 1 => Len(g) = 2
      /\ Len(b) = 3 * k - 2 => Len(g) = 1
  <2>1. Len(g) = IF 3 * k <= Len(b) THEN 3 ELSE Len(b) - (3 * k - 3)
    <3> HIDE DEF g, hi
    <3> QED BY <1>3, <1>4
  <2> HIDE DEF g
  <2> QED BY <1>1, <2>1
<1> DEFINE byte(i) == IF i <= Len(g) THEN g[i] ELSE 0
<1>7. /\ byte(1) = ByteAt(b, 3 * k - 2)
      /\ byte(2) = ByteAt(b, 3 * k - 1)
      /\ byte(3) = ByteAt(b, 3 * k)
  <2> HIDE DEF g, hi
  <2>1. /\ 3 * k - 2 + 1 - 1 = 3 * k - 2
        /\ 3 * k - 2 + 2 - 1 = 3 * k - 1
        /\ 3 * k - 2 + 3 - 1 = 3 * k
    BY <1>1
  <2>2. ASSUME NEW i \in 1..3, i <= Len(g)
        PROVE  g[i] = b[3 * k - 2 + i - 1]
    BY <1>1, <1>3, <1>4, <2>2
  <2>3. /\ 1 <= Len(g) => g[1] = b[3 * k - 2]
        /\ 2 <= Len(g) => g[2] = b[3 * k - 1]
        /\ 3 <= Len(g) => g[3] = b[3 * k]
    <3>1. 1 \in 1..3 /\ 2 \in 1..3 /\ 3 \in 1..3
      OBVIOUS
    <3> QED BY <2>1, <2>2, <3>1
  <2>4. /\ 1 <= Len(g) <=> 3 * k - 2 <= Len(b)
        /\ 2 <= Len(g) <=> 3 * k - 1 <= Len(b)
        /\ 3 <= Len(g) <=> 3 * k <= Len(b)
    <3> HIDE DEF byte
    <3>1. CASE 3 * k <= Len(b)
      <4>1. Len(g) = 3 /\ 3 * k - 2 <= Len(b) /\ 3 * k - 1 <= Len(b)
        BY <1>1, <1>6, <3>1
      <4> QED BY <3>1, <4>1
    <3>2. CASE Len(b) = 3 * k - 1
      <4>1. /\ Len(g) = 2 /\ 3 * k - 2 <= Len(b) /\ 3 * k - 1 <= Len(b)
            /\ ~(3 * k <= Len(b))
        BY <1>1, <1>6, <3>2
      <4> QED BY <4>1
    <3>3. CASE Len(b) = 3 * k - 2
      <4>1. /\ Len(g) = 1 /\ 3 * k - 2 <= Len(b) /\ ~(3 * k - 1 <= Len(b))
            /\ ~(3 * k <= Len(b))
        BY <1>1, <1>6, <3>3
      <4> QED BY <4>1
    <3> QED BY <1>5, <3>1, <3>2, <3>3
  <2>5. byte(1) = ByteAt(b, 3 * k - 2)
    BY <2>3, <2>4, Zenon DEF ByteAt
  <2>6. byte(2) = ByteAt(b, 3 * k - 1)
    BY <2>3, <2>4, Zenon DEF ByteAt
  <2>7. byte(3) = ByteAt(b, 3 * k)
    BY <2>3, <2>4, Zenon DEF ByteAt
  <2> QED BY <2>5, <2>6, <2>7
<1>8. Digits(g) = DigitsOf(byte(1), byte(2), byte(3))
  BY DEF Digits, DigitsOf
<1>9. Digits(g) = GroupDigits(b, k)
  <2> HIDE DEF g, byte
  <2> QED BY <1>7, <1>8 DEF GroupDigits
<1> HIDE DEF g
<1>10. Groups(b)[k] = g
  BY DEF g
<1> QED BY <1>5, <1>6, <1>9, <1>10

\* Both encoders.
LEMMA GroupsCoded ==
    ASSUME NEW b \in Seq(Octet), NEW k \in 1..((Len(b) + 2) \div 3)
    PROVE  /\ Codes(EncodeGroup(Groups(b)[k]), b, k)
           /\ Codes(StandardGroup(Groups(b)[k]), b, k)
<1> DEFINE g == Groups(b)[k]
           w == GroupDigits(b, k)
<1>1. k \in Nat /\ k > 0
  BY GroupCount
<1>2. /\ Digits(g) = w
      /\ 3 * k <= Len(b) => Len(g) = 3
      /\ Len(b) = 3 * k - 1 => Len(g) = 2
      /\ Len(b) = 3 * k - 2 => Len(g) = 1
      /\ 3 * k <= Len(b) \/ Len(b) = 3 * k - 1 \/ Len(b) = 3 * k - 2
  BY GroupsCut
<1>3. w \in Seq(Sextet) /\ Len(w) = 4 /\ \A j \in 1..4 : w[j] \in Sextet
  BY <1>1, GroupTyped
<1> HIDE DEF g, w
<1>4. w \in Seq(Alphabet) /\ Pad \in Alphabet /\ \A j \in 1..4 : w[j] \in Alphabet
  <2>1. Sextet \subseteq Alphabet /\ Pad \in Alphabet
    BY DEF Sextet, Alphabet, Pad
  <2> QED BY <1>3, <2>1, SeqMonotonic
\* The first n digits, and pads.
<1>5. ASSUME NEW n \in {2, 3, 4}
      PROVE  /\ SubSeq(w, 1, n) \in Seq(Alphabet) /\ Len(SubSeq(w, 1, n)) = n
             /\ \A j \in 1..n : SubSeq(w, 1, n)[j] = w[j]
  <2>1. \A j \in 1..n : w[j] \in Alphabet
    BY <1>4
  <2>2. n \in Int /\ 1 \in Int /\ 1 <= n /\ n - 1 + 1 = n
    OBVIOUS
  <2>3. \A j \in 1..n : 1 + j - 1 = j
    OBVIOUS
  <2>4. /\ SubSeq(w, 1, n) \in Seq(Alphabet)
        /\ Len(SubSeq(w, 1, n)) = IF 1 <= n THEN n - 1 + 1 ELSE 0
        /\ \A j \in 1..(n - 1 + 1) : SubSeq(w, 1, n)[j] = w[1 + j - 1]
    BY <2>1, <2>2, SubSeqProperties
  <2> QED BY <2>2, <2>3, <2>4
<1> DEFINE Filled(v, n, l) ==
              /\ v \in Seq(Alphabet) /\ Len(v) = n + l
              /\ \A j \in 1..n : v[j] = w[j]
              /\ \A j \in 1..l : v[n + j] = Pad
<1>6. ASSUME NEW n \in {2, 3, 4}, NEW p \in Seq(Alphabet),
             \A j \in 1..Len(p) : p[j] = Pad
      PROVE  Filled(SubSeq(w, 1, n) \o p, n, Len(p))
  <2> DEFINE u == SubSeq(w, 1, n)
             v == u \o p
  <2>1. u \in Seq(Alphabet) /\ Len(u) = n /\ \A j \in 1..n : u[j] = w[j]
    BY <1>5
  <2>2. Len(p) \in Nat /\ n \in Nat
    BY LenProperties
  <2> HIDE DEF u
  <2>3. /\ v \in Seq(Alphabet) /\ Len(v) = n + Len(p)
        /\ \A i \in 1..(n + Len(p)) :
                v[i] = IF i <= n THEN u[i] ELSE p[i - n]
    BY <2>1, ConcatProperties
  <2> HIDE DEF v
  <2>4. \A j \in 1..n : v[j] = w[j]
    BY <2>1, <2>2, <2>3
  <2>5. ASSUME NEW j \in 1..Len(p)
        PROVE  v[n + j] = Pad
    <3>1. n + j \in 1..(n + Len(p)) /\ ~(n + j <= n) /\ (n + j) - n = j
      BY <2>2
    <3> QED BY <1>6, <2>3, <3>1
  <2> QED BY <2>3, <2>4, <2>5 DEF v, u
<1>7. /\ <<>> \in Seq(Alphabet) /\ <<Pad>> \in Seq(Alphabet)
      /\ <<Pad, Pad>> \in Seq(Alphabet)
      /\ Len(<<>>) = 0 /\ Len(<<Pad>>) = 1 /\ Len(<<Pad, Pad>>) = 2
      /\ \A j \in 1..Len(<<Pad>>) : <<Pad>>[j] = Pad
      /\ \A j \in 1..Len(<<Pad, Pad>>) : <<Pad, Pad>>[j] = Pad
  BY <1>4
<1>8. CASE 3 * k <= Len(b)
  <2>1. EncodeGroup(g) = w
    <3>1. Len(g) = 3 /\ Digits(g) = w
      BY <1>2, <1>8
    <3> QED BY <3>1 DEF EncodeGroup
  <2>2. StandardGroup(g) = w
    <3>1. [i \in 1..(3 - 3) |-> Pad] = <<>>
      OBVIOUS
    <3>2. SubSeq(w, 1, 4) \o <<>> = w
      BY <1>3, <1>4, SubSeqFull, ConcatEmptySeq
    <3>3. 3 + 1 = 4
      OBVIOUS
    <3> QED BY <1>2, <1>8, <3>1, <3>2, <3>3 DEF StandardGroup
  <2>3. Len(b) # 3 * k - 1 /\ Len(b) # 3 * k - 2
    BY <1>1, <1>8, LenProperties
  <2> QED BY <1>4, <1>8, <2>1, <2>2, <2>3 DEF Codes, g, w
<1>9. CASE Len(b) = 3 * k - 1
  <2> DEFINE v == SubSeq(w, 1, 3) \o <<Pad>>
  <2>1. EncodeGroup(g) = v
    <3>1. Len(g) = 2 /\ Digits(g) = w
      BY <1>2, <1>9
    <3> HIDE DEF v
    <3> QED BY <3>1 DEF EncodeGroup, v
  <2>2. StandardGroup(g) = v
    <3>1. [i \in 1..(3 - 2) |-> Pad] = <<Pad>>
      OBVIOUS
    <3>2. 2 + 1 = 3
      OBVIOUS
    <3> QED BY <1>2, <1>9, <3>1, <3>2 DEF StandardGroup
  <2>3. /\ v \in Seq(Alphabet) /\ Len(v) = 3 + 1
        /\ \A j \in 1..3 : v[j] = w[j]
        /\ \A j \in 1..1 : v[3 + j] = Pad
    <3>1. Filled(v, 3, Len(<<Pad>>))
      <4> HIDE DEF Filled
      <4> QED BY <1>6, <1>7
    <3> HIDE DEF v
    <3> QED BY <1>7, <3>1
  <2> HIDE DEF v
  <2>4. Len(v) = 4 /\ v[4] = Pad
    <3>1. 1 \in 1..1 /\ 3 + 1 = 4
      OBVIOUS
    <3> QED BY <2>3, <3>1
  <2>5. ~(3 * k <= Len(b)) /\ Len(b) # 3 * k - 2
    BY <1>1, <1>9
  <2>6. Codes(v, b, k)
    BY <1>9, <2>3, <2>4, <2>5 DEF Codes, w
  <2> QED BY <2>1, <2>2, <2>6 DEF g
<1>10. CASE Len(b) = 3 * k - 2
  <2>1. ~(3 * k <= Len(b)) /\ Len(b) # 3 * k - 1
    BY <1>1, <1>10
  <2>2. ASSUME NEW n \in {2, 3}
        PROVE  Codes(SubSeq(w, 1, n) \o <<Pad, Pad>>, b, k)
    <3> DEFINE v == SubSeq(w, 1, n) \o <<Pad, Pad>>
    <3>1. /\ v \in Seq(Alphabet) /\ Len(v) = n + 2
          /\ \A j \in 1..n : v[j] = w[j]
          /\ \A j \in 1..2 : v[n + j] = Pad
      <4>1. Filled(v, n, Len(<<Pad, Pad>>))
        <5> HIDE DEF Filled
        <5> QED BY <1>6, <1>7
      <4> HIDE DEF v
      <4> QED BY <1>7, <4>1
    <3> HIDE DEF v
    <3>2. v[n + 1] = Pad /\ v[n + 2] = Pad
      BY <3>1
    <3>3. Codes(v, b, k)
      BY <1>10, <2>1, <3>1, <3>2 DEF Codes, w
    <3> QED BY <3>3 DEF v
  <2>3. EncodeGroup(g) = SubSeq(w, 1, 3) \o <<Pad, Pad>>
    BY <1>2, <1>10 DEF EncodeGroup
  <2>4. StandardGroup(g) = SubSeq(w, 1, 2) \o <<Pad, Pad>>
    <3>1. [i \in 1..(3 - 1) |-> Pad] = <<Pad, Pad>>
      OBVIOUS
    <3>2. 1 + 1 = 2
      OBVIOUS
    <3> QED BY <1>2, <1>10, <3>1, <3>2 DEF StandardGroup
  <2> QED BY <2>2, <2>3, <2>4 DEF g
<1> QED BY <1>2, <1>8, <1>9, <1>10

\* The groups of such an encoder, one after the other, are an encoding.
IsEncoder(seqs, b) ==
    /\ seqs \in Seq(Seq(Alphabet)) /\ Len(seqs) = (Len(b) + 2) \div 3
    /\ \A k \in 1..Len(seqs) : Codes(seqs[k], b, k)

LEMMA EncoderEncodes ==
    ASSUME NEW b \in Seq(Octet), NEW seqs, IsEncoder(seqs, b)
    PROVE  \E m, n, pads \in Nat : Encodes(FlattenSeq(seqs), b, m, n, pads)
<1> DEFINE M == (Len(b) + 2) \div 3
           flat == FlattenSeq(seqs)
<1>1. /\ M \in Nat /\ 3 * M <= Len(b) + 2 /\ Len(b) + 2 < 3 * M + 3
      /\ Len(b) \in Nat
  BY GroupCount
<1>2. /\ Len(seqs) = M /\ seqs \in Seq(Seq(Alphabet))
      /\ \A k \in 1..M : Codes(seqs[k], b, k)
  BY DEF IsEncoder
<1> HIDE DEF M
<1>3. CASE M = 0
  <2>1. seqs = <<>>
    BY <1>2, <1>3, EmptySeq
  <2>2. FlattenSeq(<<>>) = <<>>
    BY DEF FlattenSeq
  <2>3. flat = <<>> /\ Len(b) = 0 /\ <<>> \in Seq(Alphabet)
    BY <1>1, <1>3, <2>1, <2>2
  <2>4. Encodes(<<>>, b, 0, 0, 0)
    BY <2>3 DEF Encodes, LastGroup, Padded, Rest, FullGroups
  <2> QED BY <2>3, <2>4
<1>4. CASE M > 0
  <2>1. \A k \in 1..M : 3 * k <= Len(b) =>
            seqs[k] = GroupDigits(b, k) /\ Len(seqs[k]) = 4
    <3>1. ASSUME NEW k \in 1..M, 3 * k <= Len(b)
          PROVE  seqs[k] = GroupDigits(b, k) /\ Len(seqs[k]) = 4
      <4>1. k \in Nat /\ k > 0
        BY <1>1
      <4> QED BY <1>2, <3>1, <4>1, GroupTyped DEF Codes
    <3> QED BY <3>1
  <2>2. \A k \in 1..(M - 1) : k \in 1..M /\ 3 * k <= Len(b)
    BY <1>1
  <2>3. Fours(seqs)
    BY <1>2, <2>1, <2>2 DEF Fours
  <2>4. /\ flat \in Seq(Alphabet)
        /\ Len(flat) = 4 * (M - 1) + Len(seqs[M])
        /\ \A i \in 1..M : \A j \in 1..Len(seqs[i]) :
                flat[4 * (i - 1) + j] = seqs[i][j]
    BY <1>2, <1>4, <2>3, FlattenFours
  <2> HIDE DEF flat
  <2>5. ASSUME NEW m \in Nat, m <= M, 3 * m <= Len(b)
        PROVE  FullGroups(flat, b, m)
    <3>1. ASSUME NEW k \in 1..m, NEW j \in 1..4
          PROVE  flat[4 * (k - 1) + j] = GroupDigits(b, k)[j]
      <4>1. k \in 1..M /\ 3 * k <= Len(b)
        BY <1>1, <2>5
      <4> QED BY <2>1, <2>4, <4>1
    <3> QED BY <3>1 DEF FullGroups
  <2>6. M \in 1..M /\ M - 1 \in Nat /\ (M - 1) + 1 = M /\ M - 1 <= M
        /\ 3 * (M - 1) <= Len(b)
    BY <1>1, <1>4
  <2>7. \A j \in 1..Len(seqs[M]) : flat[4 * (M - 1) + j] = seqs[M][j]
    BY <2>4, <2>6
  <2>8. FullGroups(flat, b, M - 1)
    BY <2>5, <2>6
  <2>9. CASE Len(b) = 3 * M
    <3>1. Len(seqs[M]) = 4
      BY <1>1, <2>1, <2>6, <2>9
    <3>2. Len(flat) = 4 * M + 0 + 0
      BY <1>1, <2>4, <3>1
    <3>3. FullGroups(flat, b, M)
      BY <1>1, <2>5, <2>9
    <3>4. /\ LastGroup(flat, b, M, 0) /\ Padded(flat, 4 * M + 0, 0)
          /\ Rest(b, M, 0, 0) /\ M \in Nat /\ 0 \in Nat
      <4>1. \A j \in 1..0 : FALSE
        OBVIOUS
      <4> QED BY <1>1, <2>9, <4>1 DEF LastGroup, Padded, Rest
    <3>5. Encodes(flat, b, M, 0, 0)
      BY <2>4, <3>2, <3>3, <3>4, Zenon DEF Encodes
    <3> QED BY <3>4, <3>5 DEF flat
  <2> DEFINE last == seqs[M]
             m == M - 1
  <2>10. Codes(last, b, M) /\ m + 1 = M /\ m \in Nat
    BY <1>2, <2>6
  <2>11. CASE Len(b) = 3 * M - 1
    <3>1. /\ Len(last) = 4 /\ last[4] = Pad
          /\ \A j \in 1..3 : last[j] = GroupDigits(b, M)[j]
      BY <2>10, <2>11 DEF Codes
    <3> HIDE DEF last, m
    <3>2. Len(flat) = 4 * m + 3 + 1 /\ Len(b) = 3 * m + 2
      <4>1. Len(flat) = 4 * m + 4
        BY <2>4, <3>1 DEF last, m
      <4> QED BY <1>1, <2>10, <2>11, <4>1
    <3>3. /\ \A j \in 1..4 : flat[4 * m + j] = last[j]
          /\ 4 * m + 4 = 4 * m + 3 + 1
      BY <2>7, <2>10, <3>1 DEF last, m
    <3>4. LastGroup(flat, b, m, 3)
      <4>1. \A j \in 1..3 : j \in 1..4
        OBVIOUS
      <4> QED BY <2>10, <3>1, <3>3, <4>1 DEF LastGroup
    <3>5. Padded(flat, 4 * m + 3, 1)
      <4>1. 4 \in 1..4 /\ \A j \in 1..1 : j = 1
        OBVIOUS
      <4> QED BY <3>1, <3>3, <4>1 DEF Padded
    <3>6. Encodes(flat, b, m, 3, 1)
      <4>1. FullGroups(flat, b, m) /\ Rest(b, m, 3, 1)
        BY <2>8, <3>2 DEF m, Rest
      <4> QED BY <2>4, <3>2, <3>4, <3>5, <4>1, Zenon DEF Encodes
    <3> QED BY <2>10, <3>6 DEF flat
  <2>12. CASE Len(b) = 3 * M - 2
    <3>1. PICK n \in {2, 3} :
              /\ Len(last) = n + 2 /\ last[n + 1] = Pad /\ last[n + 2] = Pad
              /\ \A j \in 1..n : last[j] = GroupDigits(b, M)[j]
      BY <2>10, <2>12 DEF Codes
    <3> HIDE DEF last, m
    <3>2. Len(flat) = 4 * m + n + 2 /\ Len(b) = 3 * m + 1
      <4>1. Len(flat) = 4 * m + (n + 2)
        BY <2>4, <3>1 DEF last, m
      <4>2. n \in Nat
        OBVIOUS
      <4> QED BY <1>1, <2>10, <2>12, <4>1, <4>2
    <3>3. \A j \in 1..(n + 2) : flat[4 * m + j] = last[j]
      BY <2>7, <2>10, <3>1 DEF last, m
    <3>4. LastGroup(flat, b, m, n)
      <4>1. \A j \in 1..n : j \in 1..(n + 2)
        OBVIOUS
      <4> QED BY <2>10, <3>1, <3>3, <4>1 DEF LastGroup
    <3>5. Padded(flat, 4 * m + n, 2)
      <4> SUFFICES ASSUME NEW j \in 1..2
                   PROVE  flat[4 * m + n + j] = Pad
        BY DEF Padded
      <4>1. n + j \in 1..(n + 2) /\ 4 * m + (n + j) = 4 * m + n + j
            /\ (j = 1 \/ j = 2)
        BY <2>10
      <4>2. flat[4 * m + (n + j)] = last[n + j]
        BY <3>3, <4>1
      <4> QED BY <3>1, <4>1, <4>2
    <3>6. Encodes(flat, b, m, n, 2)
      <4>1. FullGroups(flat, b, m) /\ Rest(b, m, n, 2)
        BY <2>8, <3>2 DEF m, Rest
      <4> QED BY <2>4, <3>2, <3>4, <3>5, <4>1, Zenon DEF Encodes
    <3> QED BY <2>10, <3>6 DEF flat
  <2> QED BY <1>1, <2>9, <2>11, <2>12
<1> QED BY <1>1, <1>3, <1>4

\* What the gateway encodes, and what the standard does, is decoded to the
\* bytes it was made from.
LEMMA RoundTrip ==
    ASSUME NEW b \in Seq(Octet)
    PROVE  /\ base64Decode(base64Encode(b)) = [ok |-> TRUE, bytes |-> b]
           /\ base64Decode(Standard(b)) = [ok |-> TRUE, bytes |-> b]
<1> DEFINE M == (Len(b) + 2) \div 3
           ours == [k \in 1..M |-> EncodeGroup(Groups(b)[k])]
           theirs == [k \in 1..M |-> StandardGroup(Groups(b)[k])]
<1>1. M \in Nat
  BY GroupCount
<1>2. DOMAIN Groups(b) = 1..M
  BY DEF Groups
<1>3. \A k \in 1..M : /\ Codes(EncodeGroup(Groups(b)[k]), b, k)
                      /\ Codes(StandardGroup(Groups(b)[k]), b, k)
  BY GroupsCoded
<1>4. IsEncoder(ours, b) /\ IsEncoder(theirs, b)
  <2> HIDE DEF M
  <2>1. \A k \in 1..M : /\ EncodeGroup(Groups(b)[k]) \in Seq(Alphabet)
                        /\ StandardGroup(Groups(b)[k]) \in Seq(Alphabet)
    BY <1>3 DEF Codes
  <2>2. ours \in Seq(Seq(Alphabet)) /\ theirs \in Seq(Seq(Alphabet))
    BY <1>1, <2>1, IsASeq
  <2>3. Len(ours) = M /\ Len(theirs) = M
    BY <1>1, <2>2, LenProperties
  <2> QED BY <1>3, <2>2, <2>3 DEF IsEncoder, M
<1>5. base64Encode(b) = FlattenSeq(ours) /\ Standard(b) = FlattenSeq(theirs)
  BY <1>2 DEF base64Encode, Standard
<1> HIDE DEF ours, theirs
<1> QED BY <1>4, <1>5, EncoderEncodes, EncodedDecodes

\* Bytes stay bytes, however many a behaviour appends.
LEMMA StringsOfBytes == Spec => [](bytes \in Seq(Octet))
<1>1. Init => bytes \in Seq(Octet)
  BY DEF Init
<1>2. ASSUME bytes \in Seq(Octet), [Next]_vars
      PROVE  (bytes \in Seq(Octet))'
  <2>1. CASE AppendByte
    <3>1. PICK x \in Bytes : bytes' = Append(bytes, x)
      BY <2>1 DEF AppendByte
    <3>2. x \in Octet
      BY FormatsAssumption DEF Octet
    <3> QED BY <1>2, <3>1, <3>2, AppendProperties
  <2>2. CASE AppendCharacter \/ AddSetting \/ UNCHANGED vars
    BY <1>2, <2>2 DEF AppendCharacter, AddSetting, vars
  <2> QED BY <1>2, <2>1, <2>2 DEF Next
<1> QED BY <1>1, <1>2, PTL DEF Spec

\* For every content of a segment, of any length: what base64Encode or a
\* platform that keeps to the standard makes of it, base64Decode turns back.
THEOREM ContentSurvives == Spec => []SegmentsSurvive
<1>1. bytes \in Seq(Octet) => SegmentsSurvive
  BY RoundTrip DEF SegmentsSurvive
<1> QED BY <1>1, StringsOfBytes, PTL

-----------------------------------------------------------------------------
(* The numbers.                                                            *)

\* Division by any number.
LEMMA Quotient ==
    ASSUME NEW w \in Nat, w > 0, NEW v \in Nat
    PROVE  /\ v \div w \in Nat /\ v % w \in 0..(w - 1)
           /\ v = w * (v \div w) + (v % w)
OBVIOUS

LEMMA QuotientIs ==
    ASSUME NEW w \in Nat, w > 0, NEW v \in Nat, NEW q \in Nat,
           NEW s \in 0..(w - 1), v = w * q + s
    PROVE  v \div w = q /\ v % w = s
OBVIOUS

\* The powers of 16 are what their recursive definition says.
LEMMA WeightIs ==
    /\ Weight \in [0..HexDigits -> Nat] /\ Weight[0] = 1
    /\ \A k \in 1..HexDigits : Weight[k] = 16 * Weight[k - 1]
<1> DEFINE N == HexDigits
           D == 0..N
           Eq(f) == f = [k \in D |-> IF k = 0 THEN 1 ELSE 16 * f[k - 1]]
           G == [p \in (1..N) \X Nat |-> 16 * p[2]]
<1>1. N \in Nat
  BY WidthAssumption
<1> HIDE DEF N
<1>2. IsStep(G, N, Nat)
  BY DEF IsStep
<1>3. \A i \in 1..N, v \in Nat : G[<<i, v>>] = 16 * v
  OBVIOUS
<1> HIDE DEF G
<1>4. PICK r : IsRun(r, G, N, Nat, 1)
  BY <1>1, <1>2, RunExists
<1>5. \A k \in 1..N : r[k] = 16 * r[k - 1]
  <2>1. \A k \in 1..N : r[k - 1] \in Nat
    <3>1. \A k \in 1..N : k - 1 \in 0..N
      BY <1>1
    <3> QED BY <1>4, <3>1 DEF IsRun
  <2> QED BY <1>3, <1>4, <2>1 DEF IsRun
<1>6. Eq(r)
  <2>1. \A k \in D : r[k] = IF k = 0 THEN 1 ELSE 16 * r[k - 1]
    BY <1>1, <1>4, <1>5 DEF IsRun
  <2>2. r = [k \in D |-> r[k]]
    BY <1>4 DEF IsRun
  <2> HIDE DEF D
  <2> QED BY <2>1, <2>2
<1>7. Weight = CHOOSE f : Eq(f)
  BY DEF Weight, N
<1>8. Eq(Weight)
  <2> HIDE DEF Eq
  <2> QED BY <1>6, <1>7
<1>9. \A k \in D : Weight[k] = IF k = 0 THEN 1 ELSE 16 * Weight[k - 1]
  <2> HIDE DEF D
  <2> QED BY <1>8
<1>10. Weight = r
  <2> DEFINE T == {n \in Nat : n <= N => Weight[n] = r[n]}
  <2>1. 0 \in T
    BY <1>1, <1>4, <1>9 DEF IsRun
  <2>2. ASSUME NEW n \in T
        PROVE  n + 1 \in T
    <3>1. n + 1 <= N => /\ n + 1 \in D /\ n + 1 \in 1..N /\ n + 1 # 0
                        /\ (n + 1) - 1 = n /\ n <= N
      BY <1>1
    <3> HIDE DEF D
    <3> QED BY <1>5, <1>9, <3>1
  <2>3. T = Nat
    <3>1. T \subseteq Nat
      OBVIOUS
    <3> HIDE DEF T
    <3> QED BY <2>1, <2>2, <3>1, NumberInduction
  <2>4. \A k \in D : Weight[k] = r[k]
    <3>1. \A k \in D : k \in Nat /\ k <= N
      BY <1>1
    <3> QED BY <2>3, <3>1
  <2>5. Weight = [k \in D |-> Weight[k]] /\ r = [k \in D |-> r[k]]
    BY <1>4, <1>8 DEF IsRun
  <2> QED BY <2>4, <2>5
<1> QED BY <1>4, <1>5, <1>10 DEF IsRun, N

LEMMA Widths ==
    /\ HexDigits \in Nat /\ HexDigits > 0
    /\ \A k \in 0..HexDigits : Weight[k] \in Nat /\ Weight[k] > 0
    /\ U32 \in Nat /\ U32 > 0 /\ U64 \in Nat /\ U64 >= U32
<1> DEFINE T == {n \in Nat : n <= HexDigits => Weight[n] > 0}
<1>1. HexDigits \in Nat /\ HexDigits > 0
  BY WidthAssumption
<1>2. T = Nat
  <2>1. 0 \in T
    BY WeightIs
  <2>2. ASSUME NEW n \in T
        PROVE  n + 1 \in T
    <3>1. n + 1 <= HexDigits =>
              /\ n + 1 \in 1..HexDigits /\ (n + 1) - 1 = n /\ n <= HexDigits
              /\ n \in 0..HexDigits
      BY <1>1
    <3>2. n + 1 <= HexDigits => Weight[n] \in Nat
      BY <3>1, WeightIs
    <3> QED BY <3>1, <3>2, WeightIs
  <2>3. T \subseteq Nat
    OBVIOUS
  <2> HIDE DEF T
  <2> QED BY <2>1, <2>2, <2>3, NumberInduction
<1>3. \A k \in 0..HexDigits : Weight[k] \in Nat /\ Weight[k] > 0
  <2>1. \A k \in 0..HexDigits : k \in Nat /\ k <= HexDigits
    BY <1>1
  <2> QED BY <1>2, <2>1, WeightIs
<1>4. U32 \in Nat /\ U32 > 0
  <2>1. HexDigits \in 0..HexDigits
    BY <1>1
  <2> QED BY <1>3, <2>1, WidthAssumption
<1>5. U64 \in Nat /\ U64 >= U32
  BY <1>4, WidthAssumption
<1> QED BY <1>1, <1>3, <1>4, <1>5

\* What a parser returns, after any of the characters.
Number == [ok : BOOLEAN, value : Nat]

LEMMA ParserSteps ==
    ASSUME NEW r \in Number, NEW c \in Nat
    PROVE  /\ SummonDigit(r, c) \in Number
           /\ PushDigit(r, c) \in Number
           /\ HexDigit(r, c) \in Number
<1>1. r.ok \in BOOLEAN /\ r.value \in Nat
  BY DEF Number
<1>2. \A w \in Nat : w % U32 \in Nat /\ w % U64 \in Nat
  <2> USE Widths
  <2> QED BY Quotient
<1>3. (r.value * 10 + c) % U64 \in Nat /\ AppendHex(r.value, c) \in Nat
  BY <1>1, <1>2 DEF AppendHex
<1>4. Refused \in Number /\ \A v \in Nat : Parsed(v) \in Number
  BY DEF Refused, Parsed, Number
<1> QED BY <1>3, <1>4 DEF SummonDigit, PushDigit, HexDigit

LEMMA DecimalStep ==
    ASSUME NEW v \in Nat, NEW c \in Nat
    PROVE  AppendDecimal(v, c) \in Nat
BY DEF AppendDecimal

\* The loop of parseU64 in json_codec: a run of its steps.
SummonLoop(start, seq) == FoldLeft(SummonDigit, start, seq)

Summons(r, start, seq, N) ==
    r \in [0..N -> Number] /\ r[0] = start
    /\ \A i \in 1..N : r[i] = SummonDigit(r[i - 1], seq[i])

LEMMA SummonsRun ==
    ASSUME NEW N \in Nat, NEW b \in Number,
           NEW seq, DOMAIN seq = 1..N, \A i \in 1..N : seq[i] \in Nat
    PROVE  \E r : Summons(r, b, seq, N) /\ SummonLoop(b, seq) = r[N]
<1> DEFINE D == SUBSET (1..N)
           Eq(h) == h = [s \in D |-> IF s = {} THEN b
                            ELSE SummonDigit(h[s \ {Max(s)}], seq[Max(s)])]
           table == CHOOSE h : Eq(h)
           G == [p \in (1..N) \X Number |-> SummonDigit(p[2], seq[p[1]])]
<1>1. SummonLoop(b, seq) = table[1..N]
  BY DEF SummonLoop, FoldLeft, MapThenFoldSet
<1>2. \A s \in D : s # {} => Max(s) \in 1..N /\ s \ {Max(s)} \in D
  BY MaxIsGreatest
<1>3. IsStep(G, N, Number)
  BY ParserSteps DEF IsStep
<1>4. \A i \in 1..N, v \in Number : G[<<i, v>>] = SummonDigit(v, seq[i])
  OBVIOUS
<1> HIDE DEF G
<1>5. PICK h : IsTable(h, G, N, b) /\ h \in [D -> Number]
  BY <1>3, FoldTable
<1>6. Eq(h)
  <2>1. \A s \in D : h[s] = IF s = {} THEN b
                           ELSE SummonDigit(h[s \ {Max(s)}], seq[Max(s)])
    BY <1>2, <1>4, <1>5 DEF IsTable
  <2>2. h = [s \in D |-> h[s]]
    BY <1>5
  <2> HIDE DEF D
  <2> QED BY <2>1, <2>2
<1>7. Eq(table)
  <2> HIDE DEF Eq
  <2> QED BY <1>6
<1>8. Tabulates(table, G, N, Number, b)
  <2>1. \A s \in D : table[s] = IF s = {} THEN b
                            ELSE SummonDigit(table[s \ {Max(s)}], seq[Max(s)])
    <3> HIDE DEF table, D
    <3> QED BY <1>7
  <2> HIDE DEF table
  <2> QED BY <1>2, <1>4, <2>1 DEF Tabulates
<1> HIDE DEF table
<1>9. PICK r : IsRun(r, G, N, Number, b) /\ r[N] = table[1..N]
  BY <1>3, <1>8, FoldRun
<1>10. \A i \in 1..N : i - 1 \in 0..N
  OBVIOUS
<1>11. Summons(r, b, seq, N)
  BY <1>4, <1>9, <1>10 DEF IsRun, Summons
<1> QED BY <1>1, <1>9, <1>11

\* The same of json_push_codec.
PushLoop(start, seq) == FoldLeft(PushDigit, start, seq)

Pushes(r, start, seq, N) ==
    r \in [0..N -> Number] /\ r[0] = start
    /\ \A i \in 1..N : r[i] = PushDigit(r[i - 1], seq[i])

LEMMA PushesRun ==
    ASSUME NEW N \in Nat, NEW b \in Number,
           NEW seq, DOMAIN seq = 1..N, \A i \in 1..N : seq[i] \in Nat
    PROVE  \E r : Pushes(r, b, seq, N) /\ PushLoop(b, seq) = r[N]
<1> DEFINE D == SUBSET (1..N)
           Eq(h) == h = [s \in D |-> IF s = {} THEN b
                            ELSE PushDigit(h[s \ {Max(s)}], seq[Max(s)])]
           table == CHOOSE h : Eq(h)
           G == [p \in (1..N) \X Number |-> PushDigit(p[2], seq[p[1]])]
<1>1. PushLoop(b, seq) = table[1..N]
  BY DEF PushLoop, FoldLeft, MapThenFoldSet
<1>2. \A s \in D : s # {} => Max(s) \in 1..N /\ s \ {Max(s)} \in D
  BY MaxIsGreatest
<1>3. IsStep(G, N, Number)
  BY ParserSteps DEF IsStep
<1>4. \A i \in 1..N, v \in Number : G[<<i, v>>] = PushDigit(v, seq[i])
  OBVIOUS
<1> HIDE DEF G
<1>5. PICK h : IsTable(h, G, N, b) /\ h \in [D -> Number]
  BY <1>3, FoldTable
<1>6. Eq(h)
  <2>1. \A s \in D : h[s] = IF s = {} THEN b
                           ELSE PushDigit(h[s \ {Max(s)}], seq[Max(s)])
    BY <1>2, <1>4, <1>5 DEF IsTable
  <2>2. h = [s \in D |-> h[s]]
    BY <1>5
  <2> HIDE DEF D
  <2> QED BY <2>1, <2>2
<1>7. Eq(table)
  <2> HIDE DEF Eq
  <2> QED BY <1>6
<1>8. Tabulates(table, G, N, Number, b)
  <2>1. \A s \in D : table[s] = IF s = {} THEN b
                            ELSE PushDigit(table[s \ {Max(s)}], seq[Max(s)])
    <3> HIDE DEF table, D
    <3> QED BY <1>7
  <2> HIDE DEF table
  <2> QED BY <1>2, <1>4, <2>1 DEF Tabulates
<1> HIDE DEF table
<1>9. PICK r : IsRun(r, G, N, Number, b) /\ r[N] = table[1..N]
  BY <1>3, <1>8, FoldRun
<1>10. \A i \in 1..N : i - 1 \in 0..N
  OBVIOUS
<1>11. Pushes(r, b, seq, N)
  BY <1>4, <1>9, <1>10 DEF IsRun, Pushes
<1> QED BY <1>1, <1>9, <1>11

\* The loop of parseFileCrcHex.
HexLoop(start, seq) == FoldLeft(HexDigit, start, seq)

Hexes(r, start, seq, N) ==
    r \in [0..N -> Number] /\ r[0] = start
    /\ \A i \in 1..N : r[i] = HexDigit(r[i - 1], seq[i])

LEMMA HexesRun ==
    ASSUME NEW N \in Nat, NEW b \in Number,
           NEW seq, DOMAIN seq = 1..N, \A i \in 1..N : seq[i] \in Nat
    PROVE  \E r : Hexes(r, b, seq, N) /\ HexLoop(b, seq) = r[N]
<1> DEFINE D == SUBSET (1..N)
           Eq(h) == h = [s \in D |-> IF s = {} THEN b
                            ELSE HexDigit(h[s \ {Max(s)}], seq[Max(s)])]
           table == CHOOSE h : Eq(h)
           G == [p \in (1..N) \X Number |-> HexDigit(p[2], seq[p[1]])]
<1>1. HexLoop(b, seq) = table[1..N]
  BY DEF HexLoop, FoldLeft, MapThenFoldSet
<1>2. \A s \in D : s # {} => Max(s) \in 1..N /\ s \ {Max(s)} \in D
  BY MaxIsGreatest
<1>3. IsStep(G, N, Number)
  BY ParserSteps DEF IsStep
<1>4. \A i \in 1..N, v \in Number : G[<<i, v>>] = HexDigit(v, seq[i])
  OBVIOUS
<1> HIDE DEF G
<1>5. PICK h : IsTable(h, G, N, b) /\ h \in [D -> Number]
  BY <1>3, FoldTable
<1>6. Eq(h)
  <2>1. \A s \in D : h[s] = IF s = {} THEN b
                           ELSE HexDigit(h[s \ {Max(s)}], seq[Max(s)])
    BY <1>2, <1>4, <1>5 DEF IsTable
  <2>2. h = [s \in D |-> h[s]]
    BY <1>5
  <2> HIDE DEF D
  <2> QED BY <2>1, <2>2
<1>7. Eq(table)
  <2> HIDE DEF Eq
  <2> QED BY <1>6
<1>8. Tabulates(table, G, N, Number, b)
  <2>1. \A s \in D : table[s] = IF s = {} THEN b
                            ELSE HexDigit(table[s \ {Max(s)}], seq[Max(s)])
    <3> HIDE DEF table, D
    <3> QED BY <1>7
  <2> HIDE DEF table
  <2> QED BY <1>2, <1>4, <2>1 DEF Tabulates
<1> HIDE DEF table
<1>9. PICK r : IsRun(r, G, N, Number, b) /\ r[N] = table[1..N]
  BY <1>3, <1>8, FoldRun
<1>10. \A i \in 1..N : i - 1 \in 0..N
  OBVIOUS
<1>11. Hexes(r, b, seq, N)
  BY <1>4, <1>9, <1>10 DEF IsRun, Hexes
<1> QED BY <1>1, <1>9, <1>11

\* The value of a decimal text.
DecimalLoop(start, seq) == FoldLeft(AppendDecimal, start, seq)

Decimals(r, start, seq, N) ==
    r \in [0..N -> Nat] /\ r[0] = start
    /\ \A i \in 1..N : r[i] = AppendDecimal(r[i - 1], seq[i])

LEMMA DecimalsRun ==
    ASSUME NEW N \in Nat, NEW b \in Nat,
           NEW seq, DOMAIN seq = 1..N, \A i \in 1..N : seq[i] \in Nat
    PROVE  \E r : Decimals(r, b, seq, N) /\ DecimalLoop(b, seq) = r[N]
<1> DEFINE D == SUBSET (1..N)
           Eq(h) == h = [s \in D |-> IF s = {} THEN b
                            ELSE AppendDecimal(h[s \ {Max(s)}], seq[Max(s)])]
           table == CHOOSE h : Eq(h)
           G == [p \in (1..N) \X Nat |-> AppendDecimal(p[2], seq[p[1]])]
<1>1. DecimalLoop(b, seq) = table[1..N]
  BY DEF DecimalLoop, FoldLeft, MapThenFoldSet
<1>2. \A s \in D : s # {} => Max(s) \in 1..N /\ s \ {Max(s)} \in D
  BY MaxIsGreatest
<1>3. IsStep(G, N, Nat)
  BY DecimalStep DEF IsStep
<1>4. \A i \in 1..N, v \in Nat : G[<<i, v>>] = AppendDecimal(v, seq[i])
  OBVIOUS
<1> HIDE DEF G
<1>5. PICK h : IsTable(h, G, N, b) /\ h \in [D -> Nat]
  BY <1>3, FoldTable
<1>6. Eq(h)
  <2>1. \A s \in D : h[s] = IF s = {} THEN b
                           ELSE AppendDecimal(h[s \ {Max(s)}], seq[Max(s)])
    BY <1>2, <1>4, <1>5 DEF IsTable
  <2>2. h = [s \in D |-> h[s]]
    BY <1>5
  <2> HIDE DEF D
  <2> QED BY <2>1, <2>2
<1>7. Eq(table)
  <2> HIDE DEF Eq
  <2> QED BY <1>6
<1>8. Tabulates(table, G, N, Nat, b)
  <2>1. \A s \in D : table[s] = IF s = {} THEN b
                            ELSE AppendDecimal(table[s \ {Max(s)}], seq[Max(s)])
    <3> HIDE DEF table, D
    <3> QED BY <1>7
  <2> HIDE DEF table
  <2> QED BY <1>2, <1>4, <2>1 DEF Tabulates
<1> HIDE DEF table
<1>9. PICK r : IsRun(r, G, N, Nat, b) /\ r[N] = table[1..N]
  <2> DEFINE V == Nat
  <2>1. b \in V /\ IsStep(G, N, V) /\ Tabulates(table, G, N, V, b)
    BY <1>3, <1>8
  <2> HIDE DEF V
  <2>2. \E r : IsRun(r, G, N, V, b) /\ r[N] = table[1..N]
    BY <2>1, FoldRun
  <2> QED BY <2>2 DEF V
<1>10. \A i \in 1..N : i - 1 \in 0..N
  OBVIOUS
<1>11. Decimals(r, b, seq, N)
  BY <1>4, <1>9, <1>10 DEF IsRun, Decimals
<1> QED BY <1>1, <1>9, <1>11

\* What the two parsers of decimal texts have in common: a character that is
\* no digit is refused for good, and what fits is right.
IsParse(r, chars, N) ==
    /\ r[0] = Parsed(0)
    /\ \A i \in 1..N :
          /\ chars[i] > 9 \/ ~r[i - 1].ok => ~r[i].ok
          /\ \A v \in Nat :
                /\ r[i - 1] = Parsed(v) /\ chars[i] <= 9
                /\ AppendDecimal(v, chars[i]) < U64
                => r[i] = Parsed(AppendDecimal(v, chars[i]))

LEMMA BothParse ==
    ASSUME NEW N \in Nat, NEW chars, \A i \in 1..N : chars[i] \in Nat, NEW r,
           \/ Summons(r, Parsed(0), chars, N) \/ Pushes(r, Parsed(0), chars, N)
    PROVE  IsParse(r, chars, N)
<1>1. r[0] = Parsed(0)
  BY DEF Summons, Pushes
<1> SUFFICES ASSUME NEW i \in 1..N
             PROVE  /\ chars[i] > 9 \/ ~r[i - 1].ok => ~r[i].ok
                    /\ \A v \in Nat :
                          /\ r[i - 1] = Parsed(v) /\ chars[i] <= 9
                          /\ AppendDecimal(v, chars[i]) < U64
                          => r[i] = Parsed(AppendDecimal(v, chars[i]))
  BY <1>1 DEF IsParse
<1> DEFINE c == chars[i]
           s == r[i - 1]
<1>2. r[i] \in {SummonDigit(s, c), PushDigit(s, c)}
  BY DEF Summons, Pushes
<1>3. c \in Nat
  OBVIOUS
<1>4. ~Refused.ok
  BY DEF Refused
<1> HIDE DEF c, s
<1>5. c > 9 \/ ~s.ok => ~r[i].ok
  BY <1>2, <1>3, <1>4 DEF SummonDigit, PushDigit
<1>6. ASSUME NEW v \in Nat, s = Parsed(v), c <= 9, AppendDecimal(v, c) < U64
      PROVE  r[i] = Parsed(AppendDecimal(v, c))
  <2> DEFINE w == v * 10 + c
  <2>1. w \in Nat /\ w = AppendDecimal(v, c) /\ w >= v
    BY <1>3 DEF AppendDecimal
  <2>2. U64 \in Nat /\ U64 > 0 /\ w < U64
    BY <1>6, <2>1, Widths
  <2>3. s.ok = TRUE /\ s.value = v
    BY <1>6 DEF Parsed
  <2>4. ~(c > 9)
    BY <1>3, <1>6
  <2> HIDE DEF w
  <2>5. w % U64 = w
    <3>1. w \in 0..(U64 - 1) /\ w = U64 * 0 + w
      BY <2>1, <2>2
    <3> QED BY <2>1, <2>2, <3>1, QuotientIs
  <2>6. ~Wraps(v, w)
    BY <2>1 DEF Wraps
  <2>7. SummonDigit(s, c) = Parsed(w)
    <3>1. (s.value * 10 + c) % U64 = w
      BY <2>3, <2>5 DEF w
    <3> QED BY <2>3, <2>4, <2>6, <3>1 DEF SummonDigit
  <2>8. PushDigit(s, c) = Parsed(w)
    <3>1. (s.value * 10 + c) % U64 = w
      BY <2>3, <2>5 DEF w
    <3> QED BY <2>3, <2>4, <3>1 DEF PushDigit
  <2> QED BY <1>2, <2>1, <2>7, <2>8
<1> QED BY <1>5, <1>6 DEF c, s

\* A text with a character that is no digit is refused.
LEMMA ParseRefuses ==
    ASSUME NEW N \in Nat, NEW chars, NEW r, IsParse(r, chars, N),
           NEW i \in 1..N, chars[i] > 9
    PROVE  ~r[N].ok
<1> DEFINE T == {n \in Nat : i + n <= N => ~r[i + n].ok}
<1>1. 0 \in T
  <2>1. i + 0 = i
    OBVIOUS
  <2>2. ~r[i].ok
    BY DEF IsParse
  <2> QED BY <2>1, <2>2
<1>2. ASSUME NEW n \in T
      PROVE  n + 1 \in T
  <2>1. i + (n + 1) <= N => /\ i + (n + 1) \in 1..N
                            /\ (i + (n + 1)) - 1 = i + n /\ i + n <= N
    OBVIOUS
  <2>2. i + (n + 1) <= N => ~r[i + n].ok
    BY <2>1
  <2>3. i + (n + 1) <= N => ~r[i + (n + 1)].ok
    BY <2>1, <2>2 DEF IsParse
  <2> QED BY <2>3
<1>3. T = Nat
  <2>1. T \subseteq Nat
    OBVIOUS
  <2> HIDE DEF T
  <2> QED BY <1>1, <1>2, <2>1, NumberInduction
<1>4. N - i \in Nat /\ i + (N - i) = N
  OBVIOUS
<1>5. N - i \in T
  <2> HIDE DEF T
  <2> QED BY <1>3, <1>4
<1> QED BY <1>4, <1>5

\* A decimal text is parsed as its value, if that fits.
AllDigits(chars, N) == \A i \in 1..N : chars[i] \in 0..9

LEMMA ParseExact ==
    ASSUME NEW N \in Nat, NEW chars, AllDigits(chars, N),
           NEW r, IsParse(r, chars, N), NEW d, Decimals(d, 0, chars, N),
           d[N] < U64
    PROVE  r[N] = Parsed(d[N])
<1> DEFINE T == {n \in Nat : n <= N => d[n] >= U64 \/ r[n] = Parsed(d[n])}
<1>1. 0 \in T
  BY DEF Decimals, IsParse
<1>2. ASSUME NEW n \in T
      PROVE  n + 1 \in T
  <2> SUFFICES ASSUME n + 1 <= N
               PROVE  d[n + 1] >= U64 \/ r[n + 1] = Parsed(d[n + 1])
    OBVIOUS
  <2>1. /\ n + 1 \in 1..N /\ (n + 1) - 1 = n /\ n \in 0..N /\ n + 1 \in 0..N
        /\ n <= N
    OBVIOUS
  <2> DEFINE c == chars[n + 1]
             v == d[n]
  <2>2. /\ v \in Nat /\ c \in 0..9 /\ U64 \in Nat
        /\ d[n + 1] = AppendDecimal(v, c) /\ d[n + 1] \in Nat
    BY <2>1, Widths DEF Decimals, AllDigits
  <2>3. v >= U64 \/ r[n] = Parsed(v)
    BY <2>1
  <2>4. r[n] = Parsed(v) /\ c <= 9 /\ AppendDecimal(v, c) < U64
            => r[n + 1] = Parsed(AppendDecimal(v, c))
    BY <2>1, <2>2 DEF IsParse
  <2> HIDE DEF c, v, T
  <2>5. AppendDecimal(v, c) >= v
    BY <2>2 DEF AppendDecimal
  <2> QED BY <2>2, <2>3, <2>4, <2>5
<1>3. T = Nat
  <2>1. T \subseteq Nat
    OBVIOUS
  <2> HIDE DEF T
  <2> QED BY <1>1, <1>2, <2>1, NumberInduction
<1>4. N \in T
  <2> HIDE DEF T
  <2> QED BY <1>3
<1>5. d[N] \in Nat /\ U64 \in Nat
  BY Widths DEF Decimals
<1> QED BY <1>4, <1>5

LEMMA TextsParse ==
    ASSUME NEW chars \in Seq(Nat),
           NEW r \in {SummonParseU64(chars), PushParseU64(chars)}
    PROVE  /\ ~IsDecimal(chars) => ~r.ok
           /\ IsDecimal(chars) /\ DecimalValue(chars) < U64 =>
                  /\ r = Parsed(DecimalValue(chars))
                  /\ ParseU32(r).ok <=> DecimalValue(chars) < U32
<1> DEFINE N == Len(chars)
<1>1. /\ N \in Nat /\ DOMAIN chars = 1..N /\ \A i \in 1..N : chars[i] \in Nat
  BY LenProperties, ElementOfSeq
<1> HIDE DEF N
<1>2. CASE chars = <<>>
  <2>1. r = Refused /\ ~IsDecimal(chars)
    BY <1>2 DEF SummonParseU64, PushParseU64, IsDecimal
  <2> QED BY <2>1 DEF Refused
<1>3. CASE chars # <<>>
  <2>1. Parsed(0) \in Number /\ 0 \in Nat
    BY DEF Parsed, Number
  <2>2. PICK a : Summons(a, Parsed(0), chars, N)
                 /\ SummonLoop(Parsed(0), chars) = a[N]
    BY <1>1, <2>1, SummonsRun
  <2>3. PICK b : Pushes(b, Parsed(0), chars, N)
                 /\ PushLoop(Parsed(0), chars) = b[N]
    BY <1>1, <2>1, PushesRun
  <2>4. PICK d : Decimals(d, 0, chars, N) /\ DecimalLoop(0, chars) = d[N]
    BY <1>1, <2>1, DecimalsRun
  <2>5. SummonParseU64(chars) = a[N] /\ PushParseU64(chars) = b[N]
        /\ DecimalValue(chars) = d[N]
    BY <1>3, <2>2, <2>3, <2>4 DEF SummonParseU64, PushParseU64, DecimalValue,
       SummonLoop, PushLoop, DecimalLoop
  <2>6. IsParse(a, chars, N) /\ IsParse(b, chars, N)
    BY <1>1, <2>2, <2>3, BothParse
  <2>7. ASSUME ~IsDecimal(chars)
        PROVE  ~a[N].ok /\ ~b[N].ok
    <3>1. PICK i \in 1..N : ~(chars[i] <= 9)
      BY <1>1, <1>3, <2>7 DEF IsDecimal
    <3>2. chars[i] > 9
      BY <1>1, <3>1
    <3> QED BY <1>1, <2>6, <3>2, ParseRefuses
  <2>8. ASSUME IsDecimal(chars), d[N] < U64
        PROVE  a[N] = Parsed(d[N]) /\ b[N] = Parsed(d[N])
    <3>1. AllDigits(chars, N)
      <4>1. \A i \in DOMAIN chars : chars[i] <= 9
        BY <2>8 DEF IsDecimal
      <4>2. \A i \in 1..N : chars[i] <= 9 /\ chars[i] \in Nat
        BY <1>1, <4>1
      <4>3. \A i \in 1..N : chars[i] \in 0..9
        <5>1. \A v \in Nat : v <= 9 => v \in 0..9
          OBVIOUS
        <5> QED BY <4>2, <5>1, Zenon
      <4> QED BY <4>3, Zenon DEF AllDigits
    <3>2. IsParse(a, chars, N) /\ Decimals(d, 0, chars, N) /\ N \in Nat
          /\ IsParse(b, chars, N)
      BY <1>1, <2>4, <2>6
    <3>3. d[N] < U64
      BY <2>8
    <3>4. a[N] = Parsed(d[N])
      BY <3>1, <3>2, <3>3, ParseExact, Zenon
    <3>5. b[N] = Parsed(d[N])
      BY <3>1, <3>2, <3>3, ParseExact, Zenon
    <3> QED BY <3>4, <3>5
  <2>9. \A v : ParseU32(Parsed(v)).ok <=> v < U32
    BY DEF ParseU32, Parsed, Refused
  <2> QED BY <2>5, <2>7, <2>8, <2>9
<1> QED BY <1>2, <1>3

\* What parseFileCrcHex returns fits the width.
LEMMA CrcFits ==
    ASSUME NEW chars \in Seq(Nat), parseFileCrcHex(chars).ok
    PROVE  \E v \in 0..(U32 - 1) : parseFileCrcHex(chars) = Parsed(v)
<1> DEFINE prefixed == Len(chars) >= 2 /\ chars[1] = 0 /\ chars[2] = X
           digits == IF prefixed THEN SubSeq(chars, 3, Len(chars)) ELSE chars
           N == Len(digits)
<1>1. digits \in Seq(Nat)
  BY SubSeqProperties, ElementOfSeq, LenProperties
<1>2. parseFileCrcHex(chars) = IF digits = <<>> THEN Refused
                              ELSE HexLoop(Parsed(0), digits)
  BY DEF parseFileCrcHex, HexLoop
<1> HIDE DEF digits
<1>3. digits # <<>>
  BY <1>2 DEF Refused
<1>4. N \in Nat /\ N > 0 /\ DOMAIN digits = 1..N
      /\ \A i \in 1..N : digits[i] \in Nat
  BY <1>1, <1>3, EmptySeq, LenProperties, ElementOfSeq
<1> HIDE DEF N
<1>5. Parsed(0) \in Number
  BY DEF Parsed, Number
<1>6. PICK r : Hexes(r, Parsed(0), digits, N)
               /\ HexLoop(Parsed(0), digits) = r[N]
  BY <1>4, <1>5, HexesRun
<1>7. r[N] = HexDigit(r[N - 1], digits[N]) /\ r[N - 1] \in Number
  BY <1>4, <1>6 DEF Hexes
<1>8. r[N].ok
  BY <1>2, <1>3, <1>6
<1>9. r[N] = Parsed(AppendHex(r[N - 1].value, digits[N]))
  BY <1>7, <1>8 DEF HexDigit, Refused
<1>10. r[N - 1].value * 16 + digits[N] \in Nat
  BY <1>4, <1>7 DEF Number
<1>11. AppendHex(r[N - 1].value, digits[N]) \in 0..(U32 - 1)
  BY <1>10, Widths, Quotient DEF AppendHex
<1> QED BY <1>2, <1>3, <1>6, <1>9, <1>11

\* The digits of a number, from the first on, build it up again.
LEMMA CrcRead ==
    ASSUME NEW v \in 0..(U32 - 1)
    PROVE  parseFileCrcHex(toHexString(v)) = Parsed(v)
<1> DEFINE N == HexDigits
           rest(n) == v \div Weight[N - n]
           digits == [i \in 1..N |-> rest(i) % 16]
<1>1. /\ N \in Nat /\ N > 0 /\ v \in Nat /\ U32 \in Nat /\ v < U32
      /\ \A n \in 0..N : N - n \in 0..N
  BY Widths
<1>2. \A n \in 0..N : rest(n) \in Nat
  BY <1>1, Widths, Quotient
<1>3. rest(0) = 0 /\ rest(N) = v
  <2>1. N - 0 = N /\ N - N = 0 /\ Weight[0] = 1 /\ Weight[N] = U32
    BY <1>1, WeightIs, WidthAssumption
  <2>2. v \div 1 = v
    <3>1. 0 \in 0..(1 - 1) /\ v = 1 * v + 0 /\ 1 \in Nat /\ 1 > 0
      BY <1>1
    <3> QED BY <1>1, <3>1, QuotientIs
  <2>3. v \div U32 = 0
    <3>1. v = U32 * 0 + v /\ U32 > 0
      BY <1>1
    <3> QED BY <1>1, <3>1, QuotientIs
  <2> QED BY <2>1, <2>2, <2>3
<1>4. ASSUME NEW n \in 1..N
      PROVE  rest(n) = 16 * rest(n - 1) + (rest(n) % 16)
  <2> DEFINE w == Weight[N - n]
             q == v \div w
             s == v % w
             p == q \div 16
             t == q % 16
  <2>1. /\ N - n \in 0..N /\ N - (n - 1) \in 1..N
        /\ (N - (n - 1)) - 1 = N - n
    BY <1>1
  <2>2. w \in Nat /\ w > 0 /\ Weight[N - (n - 1)] = 16 * w
    BY <2>1, Widths, WeightIs
  <2> HIDE DEF w
  <2>3. q \in Nat /\ s \in 0..(w - 1) /\ v = w * q + s
    BY <1>1, <2>2, Quotient
  <2> HIDE DEF q, s
  <2>4. p \in Nat /\ t \in 0..15 /\ q = 16 * p + t
    BY <2>3
  <2> HIDE DEF p, t
  <2>5. v = (16 * w) * p + (w * t + s)
    <3>1. w * (16 * p + t) = (16 * w) * p + w * t
      BY <2>2, <2>4
    <3>2. w * t \in Nat /\ (16 * w) * p \in Nat
      BY <2>2, <2>4
    <3> QED BY <2>3, <2>4, <3>1, <3>2
  <2>6. w * t + s \in 0..(16 * w - 1)
    <3>1. t \in {0, 1, 2, 3, 4, 5, 6, 7, 8, 9, 10, 11, 12, 13, 14, 15}
      BY <2>4
    <3> QED BY <2>2, <2>3, <3>1
  <2>7. v \div (16 * w) = p
    <3>1. 16 * w \in Nat /\ 16 * w > 0
      BY <2>2
    <3> DEFINE u == 16 * w
               x == w * t + s
    <3>2. u \in Nat /\ u > 0 /\ v = u * p + x /\ x \in 0..(u - 1)
      BY <2>5, <2>6, <3>1
    <3> HIDE DEF u, x
    <3>3. v \div u = p
      BY <1>1, <2>4, <3>2, QuotientIs
    <3> QED BY <3>3 DEF u
  <2>8. rest(n - 1) = p /\ rest(n) = q
    BY <2>2, <2>7 DEF w, q
  <2> QED BY <2>4, <2>8 DEF t
<1> HIDE DEF rest
<1>5. /\ digits \in Seq(Nat) /\ Len(digits) = N /\ digits # <<>>
      /\ DOMAIN digits = 1..N
      /\ \A i \in 1..N : digits[i] = rest(i) % 16 /\ digits[i] \in 0..15
  <2>1. \A i \in 1..N : rest(i) % 16 \in 0..15
    BY <1>1, <1>2
  <2>2. digits \in Seq(Nat) /\ DOMAIN digits = 1..N
    BY <1>1, <2>1
  <2>3. Len(digits) = N
    BY <1>1, <2>2, LenProperties
  <2>4. digits # <<>>
    <3>1. Len(<<>>) = 0
      OBVIOUS
    <3> HIDE DEF digits
    <3> QED BY <1>1, <2>3, <3>1
  <2> QED BY <2>1, <2>2, <2>3, <2>4
<1>6. toHexString(v) = <<0, X>> \o digits
  BY DEF toHexString, rest
<1> HIDE DEF digits
<1>7. parseFileCrcHex(toHexString(v)) = HexLoop(Parsed(0), digits)
  <2> DEFINE chars == <<0, X>> \o digits
  <2>1. /\ <<0, X>> \in Seq(Nat) /\ Len(<<0, X>>) = 2
        /\ <<0, X>>[1] = 0 /\ <<0, X>>[2] = X
    BY DEF X
  <2>2. /\ chars \in Seq(Nat) /\ Len(chars) = 2 + N
        /\ \A i \in 1..(2 + N) :
              chars[i] = IF i <= 2 THEN <<0, X>>[i] ELSE digits[i - 2]
    BY <1>5, <2>1, ConcatProperties
  <2> HIDE DEF chars
  <2>3. chars[1] = 0 /\ chars[2] = X /\ Len(chars) >= 2
    <3>1. 1 \in 1..(2 + N) /\ 2 \in 1..(2 + N) /\ 1 <= 2 /\ 2 <= 2
      BY <1>1
    <3> QED BY <1>1, <2>1, <2>2, <3>1
  <2>4. SubSeq(chars, 3, Len(chars)) = digits
    <3> DEFINE u == SubSeq(chars, 3, Len(chars))
    <3>1. /\ 3 \in Int /\ Len(chars) \in Int /\ 3 <= Len(chars)
          /\ Len(chars) - 3 + 1 = N
          /\ \A i \in 3..Len(chars) : i \in 1..(2 + N)
          /\ \A i \in 1..N : 3 + i - 1 = i + 2 /\ i + 2 \in 1..(2 + N)
                             /\ ~(i + 2 <= 2) /\ (i + 2) - 2 = i
      BY <1>1, <2>2
    <3>2. \A i \in 3..Len(chars) : chars[i] \in Nat
      BY <2>2, <3>1, ElementOfSeq
    <3>3. /\ u \in Seq(Nat) /\ Len(u) = N
          /\ \A i \in 1..N : u[i] = chars[3 + i - 1]
      <4>1. /\ u \in Seq(Nat)
            /\ Len(u) = IF 3 <= Len(chars) THEN Len(chars) - 3 + 1 ELSE 0
            /\ \A i \in 1..(Len(chars) - 3 + 1) : u[i] = chars[3 + i - 1]
        BY <3>1, <3>2, SubSeqProperties
      <4> QED BY <3>1, <4>1
    <3> HIDE DEF u
    <3>4. \A i \in 1..N : u[i] = digits[i]
      BY <2>2, <3>1, <3>3
    <3>5. u = digits
      BY <1>5, <3>3, <3>4, SeqEqual
    <3> QED BY <3>5 DEF u
  <2>5. parseFileCrcHex(chars) = IF digits = <<>> THEN Refused
                                ELSE HexLoop(Parsed(0), digits)
    BY <2>3, <2>4 DEF parseFileCrcHex, HexLoop
  <2> QED BY <1>5, <1>6, <2>5 DEF chars
<1>8. PICK r : Hexes(r, Parsed(0), digits, N)
               /\ HexLoop(Parsed(0), digits) = r[N]
  <2>1. Parsed(0) \in Number /\ \A i \in 1..N : digits[i] \in Nat
    BY <1>5 DEF Parsed, Number
  <2> QED BY <1>1, <1>5, <2>1, HexesRun
<1> DEFINE T == {n \in Nat : n <= N => r[n] = Parsed(rest(n))}
<1>9. 0 \in T
  BY <1>3, <1>8 DEF Hexes
<1>10. ASSUME NEW n \in T
       PROVE  n + 1 \in T
  <2> SUFFICES ASSUME n + 1 <= N
               PROVE  r[n + 1] = Parsed(rest(n + 1))
    OBVIOUS
  <2>1. n + 1 \in 1..N /\ (n + 1) - 1 = n /\ n <= N /\ n + 1 \in 0..N
        /\ n \in 0..N
    BY <1>1
  <2> DEFINE a == rest(n)
             b == rest(n + 1)
             c == digits[n + 1]
  <2>2. /\ r[n] = Parsed(a) /\ r[n + 1] = HexDigit(Parsed(a), c)
        /\ b = 16 * a + c /\ c \in 0..15 /\ a \in Nat /\ b \in Nat
    <3>1. r[n] = Parsed(a)
      BY <2>1
    <3>2. r[n + 1] = HexDigit(r[n], c)
      BY <1>8, <2>1 DEF Hexes
    <3>3. b = 16 * a + c /\ c \in 0..15
      BY <1>4, <1>5, <2>1
    <3> QED BY <1>2, <2>1, <3>1, <3>2, <3>3
  <2>3. b <= v
    <3> DEFINE w == Weight[N - (n + 1)]
    <3>1. w \in Nat /\ w > 0
      BY <1>1, <2>1, Widths
    <3> HIDE DEF w
    <3>2. b = v \div w
      BY DEF rest, w
    <3> HIDE DEF b
    <3>3. v \div w \in Nat /\ v % w \in 0..(w - 1)
          /\ v = w * (v \div w) + (v % w)
      BY <1>1, <3>1, Quotient
    <3> DEFINE m == v % w
    <3>4. v = w * b + m /\ m \in Nat /\ b \in Nat
      BY <3>2, <3>3, <3>1
    <3> HIDE DEF m
    <3>5. w * b >= b
      BY <3>1, <3>4
    <3>6. w * b \in Nat
      BY <3>1, <3>4
    <3> QED BY <3>4, <3>5, <3>6
  <2> HIDE DEF a, b, c
  <2>4. AppendHex(a, c) = b
    <3>1. b \in 0..(U32 - 1) /\ b = U32 * 0 + b /\ U32 > 0
      BY <1>1, <2>2, <2>3, Widths
    <3>2. b % U32 = b
      BY <1>1, <2>2, <3>1, QuotientIs
    <3>3. a * 16 + c = b
      BY <2>2
    <3> QED BY <3>2, <3>3 DEF AppendHex
  <2>5. HexDigit(Parsed(a), c) = Parsed(b)
    <3>1. ~(c > 15)
      BY <2>2
    <3>2. Parsed(a).ok = TRUE /\ Parsed(a).value = a
      BY DEF Parsed
    <3> QED BY <2>4, <3>1, <3>2 DEF HexDigit
  <2> QED BY <2>2, <2>5 DEF b
<1>11. T = Nat
  <2>1. T \subseteq Nat
    OBVIOUS
  <2> HIDE DEF T
  <2> QED BY <1>9, <1>10, <2>1, NumberInduction
<1>12. r[N] = Parsed(v)
  <2>1. N \in T
    <3> HIDE DEF T
    <3> QED BY <1>1, <1>11
  <2> QED BY <1>1, <1>3, <2>1
<1> QED BY <1>7, <1>8, <1>12

\* A text stays a text.
LEMMA TextsOfCharacters == Spec => [](text \in Seq(Nat))
<1>1. Init => text \in Seq(Nat)
  BY DEF Init
<1>2. ASSUME text \in Seq(Nat), [Next]_vars
      PROVE  (text \in Seq(Nat))'
  <2>1. CASE AppendCharacter
    <3>1. PICK c \in Characters : text' = Append(text, c)
      BY <2>1 DEF AppendCharacter
    <3>2. c \in Nat
      BY FormatsAssumption
    <3> QED BY <1>2, <3>1, <3>2, AppendProperties
  <2>2. CASE AppendByte \/ AddSetting \/ UNCHANGED vars
    BY <1>2, <2>2 DEF AppendByte, AddSetting, vars
  <2> QED BY <1>2, <2>1, <2>2 DEF Next
<1> QED BY <1>1, <1>2, PTL DEF Spec

\* For every text, of any length, and every width of the integers: both
\* parseU64 and parseU32 return the number a decimal text denotes, if it fits,
\* and refuse what is no number.
THEOREM NumbersParsed == Spec => []NumbersExact
<1>1. text \in Seq(Nat) => NumbersExact
  BY TextsParse DEF NumbersExact
<1> QED BY <1>1, TextsOfCharacters, PTL

\* For every text and every width: what toHexString writes of a CRC that
\* parseFileCrcHex returned is parsed as the same CRC.
THEOREM CrcWritten == Spec => []CrcSurvives
<1>1. ASSUME text \in Seq(Nat), parseFileCrcHex(text).ok
      PROVE  parseFileCrcHex(toHexString(parseFileCrcHex(text).value)) =
                parseFileCrcHex(text)
  <2>1. PICK v \in 0..(U32 - 1) : parseFileCrcHex(text) = Parsed(v)
    BY <1>1, CrcFits
  <2>2. parseFileCrcHex(text).value = v
    BY <2>1 DEF Parsed
  <2> QED BY <2>1, <2>2, CrcRead
<1>2. text \in Seq(Nat) => CrcSurvives
  BY <1>1 DEF CrcSurvives
<1> QED BY <1>2, TextsOfCharacters, PTL

-----------------------------------------------------------------------------
(* The configuration.                                                      *)

\* A sequence of parts of whatever kind.
IsText(x) == \E S : x \in Seq(S)

Default == MakeDefaultAppConfig

\* What is left to fill in when the file has been read.
Read(file) == ApplySections(file, ClearedTopics(Default))

Takes(file, name) == name \in DOMAIN file /\ Accepts(name, file[name])

-----------------------------------------------------------------------------
(* The default configuration.                                              *)

LEMMA OneWord ==
    /\ IsText(<<>>)
    /\ \A word : IsText(<<word>>)
<1>1. <<>> \in Seq({})
  OBVIOUS
<1>2. \A word : <<word>> \in Seq({word})
  OBVIOUS
<1>3. QED
  BY <1>1, <1>2 DEF IsText

LEMMA Names ==
    /\ "gatewayId" \in MqttNames \ Topics /\ "clientId" \in MqttNames \ Topics
    /\ DOMAIN Default = Topics \cup MqttNames \cup DOMAIN DefaultApp
    /\ \A name \in Topics \cup MqttNames :
        Default[name] = IF name \in Topics THEN TopicOf(<<"gw001">>, name)
                        ELSE DefaultMqtt(<<"gw001">>)[name]
    /\ \A name \in DOMAIN Default \ (Topics \cup MqttNames) :
        Default[name] = DefaultApp[name]
<1> DEFINE mqtt == MakeDefaultMqttConfig(<<"gw001">>)
<1>1. "gatewayId" \in MqttNames \ Topics /\ "clientId" \in MqttNames \ Topics
  BY DEF MqttNames, DefaultMqtt, Topics, TopicNames
<1>2. /\ DOMAIN mqtt = Topics \cup MqttNames
      /\ \A name \in Topics \cup MqttNames :
            mqtt[name] = IF name \in Topics THEN TopicOf(<<"gw001">>, name)
                         ELSE DefaultMqtt(<<"gw001">>)[name]
  BY DEF MakeDefaultMqttConfig
<1>3. Default = [name \in DOMAIN mqtt \cup DOMAIN DefaultApp |->
                    IF name \in DOMAIN mqtt THEN mqtt[name]
                    ELSE DefaultApp[name]]
  BY DEF Default, MakeDefaultAppConfig
<1> HIDE DEF mqtt
<1>4. QED
  BY <1>1, <1>2, <1>3

LEMMA DefaultIds ==
    /\ Default.gatewayId = <<"gw001">>
    /\ Default.clientId = ClientIdOf(<<"gw001">>)
BY Names DEF DefaultMqtt

\* A topic's name is made of its parts in one way only.
LEMMA TopicsDiffer ==
    ASSUME NEW i, IsText(i), NEW j, IsText(j),
           NEW t \in Topics, NEW u \in Topics
    PROVE  /\ TopicOf(i, t) = TopicOf(j, u) <=> i = j /\ t = u
           /\ TopicOf(i, t) # <<>>
<1> DEFINE p == <<"transfer/sim/">>
           a == <<TopicNames[t]>>
           b == <<TopicNames[u]>>
<1>1. TopicNames[t] = TopicNames[u] => t = u
  BY DEF Topics, TopicNames
<1>2. PICK S, Q : i \in Seq(S) /\ j \in Seq(Q)
  BY DEF IsText
<1> DEFINE Parts == S \cup Q \cup {"transfer/sim/", TopicNames[t],
                                   TopicNames[u]}
           Text == Seq(Parts)
<1>3. i \in Text /\ j \in Text
  BY <1>2, SeqMonotonic
<1>4. /\ p \in Text /\ a \in Text /\ b \in Text /\ Len(p) = 1
      /\ Len(a) = 1 /\ Len(b) = 1
      /\ a[1] = TopicNames[t] /\ b[1] = TopicNames[u]
  OBVIOUS
<1> HIDE DEF p, a, b, Parts
<1>5. /\ p \o i \in Text /\ Len(p \o i) = 1 + Len(i)
      /\ \A k \in 1..(1 + Len(i)) :
            (p \o i)[k] = IF k <= 1 THEN p[k] ELSE i[k - 1]
      /\ p \o j \in Text /\ Len(p \o j) = 1 + Len(j)
      /\ \A k \in 1..(1 + Len(j)) :
            (p \o j)[k] = IF k <= 1 THEN p[k] ELSE j[k - 1]
  <2>1. \A z \in Text :
            /\ p \o z \in Text /\ Len(p \o z) = 1 + Len(z)
            /\ \A k \in 1..(1 + Len(z)) :
                  (p \o z)[k] = IF k <= 1 THEN p[k] ELSE z[k - 1]
    BY <1>4, ConcatProperties
  <2>2. QED
    BY <1>3, <2>1
<1> DEFINE x == p \o i \o a
           y == p \o j \o b
<1>6. Len(i) \in Nat /\ Len(j) \in Nat
  BY <1>3, LenProperties
<1>7. /\ x \in Text /\ Len(x) = 2 + Len(i)
      /\ \A k \in 1..(2 + Len(i)) :
            x[k] = IF k <= 1 + Len(i) THEN (p \o i)[k] ELSE a[k - (1 + Len(i))]
  BY <1>4, <1>5, <1>6, ConcatProperties
<1>8. /\ y \in Text /\ Len(y) = 2 + Len(j)
      /\ \A k \in 1..(2 + Len(j)) :
            y[k] = IF k <= 1 + Len(j) THEN (p \o j)[k] ELSE b[k - (1 + Len(j))]
  BY <1>4, <1>5, <1>6, ConcatProperties
<1>9. TopicOf(i, t) = x /\ TopicOf(j, u) = y
  BY DEF TopicOf, p, a, b
<1> HIDE DEF x, y
<1>10. ASSUME x = y
       PROVE  i = j /\ t = u
  <2>1. Len(i) = Len(j)
    BY <1>6, <1>7, <1>8, <1>10
  <2>2. \A k \in 1..Len(i) : i[k] = j[k]
    <3>1. SUFFICES ASSUME NEW k \in 1..Len(i)
                   PROVE  i[k] = j[k]
      OBVIOUS
    <3>2. /\ k + 1 \in 1..(1 + Len(i)) /\ k + 1 \in 1..(2 + Len(i))
          /\ ~(k + 1 <= 1) /\ k + 1 - 1 = k /\ k + 1 <= 1 + Len(i)
      BY <1>6
    <3>3. x[k + 1] = i[k]
      BY <1>5, <1>7, <3>2
    <3>4. y[k + 1] = j[k]
      BY <1>5, <1>8, <2>1, <3>2
    <3>5. QED
      BY <1>10, <3>3, <3>4
  <2>3. i = j
    BY <1>3, <2>1, <2>2, SeqEqual
  <2>4. x[2 + Len(i)] = a[1] /\ y[2 + Len(j)] = b[1]
    BY <1>6, <1>7, <1>8
  <2>5. QED
    BY <1>1, <1>4, <1>10, <2>1, <2>3, <2>4
<1>11. x # <<>>
  BY <1>6, <1>7
<1>12. QED
  BY <1>9, <1>10, <1>11

-----------------------------------------------------------------------------
(* Loading a file.                                                         *)

LEMMA FileRead ==
    ASSUME NEW file
    PROVE  /\ DOMAIN Read(file) = DOMAIN Default
           /\ \A name \in DOMAIN Default :
                /\ Takes(file, name) =>
                       Read(file)[name] = Meaning(name, file[name])
                /\ ~Takes(file, name) /\ name \in Topics =>
                       Read(file)[name] = <<>>
                /\ ~Takes(file, name) /\ name \notin Topics =>
                       Read(file)[name] = Default[name]
<1> DEFINE c == ClearedTopics(Default)
<1>1. /\ DOMAIN c = DOMAIN Default
      /\ \A name \in DOMAIN Default :
            c[name] = IF name \in Topics THEN <<>> ELSE Default[name]
  BY DEF ClearedTopics
<1> HIDE DEF c
<1>2. Read(file) = [name \in DOMAIN c |->
                        IF Takes(file, name) THEN Meaning(name, file[name])
                        ELSE c[name]]
  BY DEF Read, ApplySections, Takes, c
<1>3. QED
  BY <1>1, <1>2

LEMMA Filled ==
    ASSUME NEW c, NEW name \in DOMAIN c
    PROVE  /\ name \in Topics /\ c[name] = <<>> =>
                  FillMqttTopicDefaults(c)[name] = TopicOf(GatewayOf(c), name)
           /\ (name \notin Topics /\ name # "clientId") \/ c[name] # <<>> =>
                  FillMqttTopicDefaults(c)[name] = c[name]
           /\ "clientId" \notin Topics
<1>1. "clientId" \notin Topics
  BY Names
<1>2. QED
  BY <1>1 DEF FillMqttTopicDefaults, GatewayOf

LEMMA Loaded ==
    ASSUME NEW file
    PROVE  LoadAppConfig(file) = FillMqttTopicDefaults(Read(file))
BY DEF LoadAppConfig, Read, Default

\* The id of the gateway is what the file says.
LEMMA LoadedId ==
    ASSUME NEW file
    PROVE  LET c == LoadAppConfig(file)
           IN  /\ c.gatewayId = IF "gatewayId" \in DOMAIN file
                                THEN file.gatewayId ELSE <<"gw001">>
               /\ GatewayOf(c) = GatewayOf(Read(file))
<1> DEFINE name == "gatewayId"
<1>1. /\ name \in DOMAIN Default /\ name \notin Topics /\ name # "clientId"
      /\ Default[name] = <<"gw001">>
  BY Names, DefaultIds
<1>2. \A value : Accepts(name, value) /\ Meaning(name, value) = value
  BY DEF Accepts, MqttTexts, Meaning
<1>3. Read(file)[name] = IF name \in DOMAIN file THEN file[name]
                         ELSE <<"gw001">>
  BY <1>1, <1>2, FileRead DEF Takes
<1>4. FillMqttTopicDefaults(Read(file))[name] = Read(file)[name]
  BY <1>1, FileRead, Filled
<1>5. QED
  BY <1>3, <1>4, Loaded DEF GatewayOf

\* The topics a file does not name follow from that id.
LEMMA LoadedTopics ==
    ASSUME NEW file, NEW t \in Topics \ DOMAIN file
    PROVE  LoadAppConfig(file)[t] = TopicOf(GatewayOf(LoadAppConfig(file)), t)
<1>1. t \in DOMAIN Default /\ t \in DOMAIN Read(file)
  BY Names, FileRead
<1>2. Read(file)[t] = <<>>
  BY <1>1, FileRead DEF Takes
<1>3. QED
  BY <1>1, <1>2, Filled, Loaded, LoadedId

-----------------------------------------------------------------------------
(* The theorems.                                                           *)

\* The id of the gateway, where the file gives one, is a text.
IdIsText(file) == "gatewayId" \in DOMAIN file => IsText(file.gatewayId)

\* Of any two files that name no topics, the gateways talk on the same topics
\* if their ids are the same, and share none if they are not.
\* (loadAppConfig, fillMqttTopicDefaults.)
THEOREM IdsKeepApart ==
    ASSUME NEW file, DOMAIN file \cap Topics = {}, IdIsText(file),
           NEW other, DOMAIN other \cap Topics = {}, IdIsText(other),
           NEW t \in Topics, NEW u \in Topics
    PROVE  LoadAppConfig(file)[t] = LoadAppConfig(other)[u] <=>
               /\ t = u
               /\ GatewayOf(LoadAppConfig(file))
                    = GatewayOf(LoadAppConfig(other))
<1>1. IsText(<<"gw001">>)
  BY OneWord
<1>2. /\ IsText(GatewayOf(LoadAppConfig(file)))
      /\ IsText(GatewayOf(LoadAppConfig(other)))
  BY <1>1, LoadedId DEF GatewayOf, IdIsText
<1>3. /\ LoadAppConfig(file)[t] = TopicOf(GatewayOf(LoadAppConfig(file)), t)
      /\ LoadAppConfig(other)[u] = TopicOf(GatewayOf(LoadAppConfig(other)), u)
  BY LoadedTopics
<1>4. QED
  BY <1>2, <1>3, TopicsDiffer

LEMMA SettingsText == Spec => []IdIsText(settings)
<1>1. Init => IdIsText(settings)
  BY DEF Init, NoSettings, IdIsText
<1>2. IdIsText(settings) /\ [Next]_vars => IdIsText(settings)'
  <2>1. SUFFICES ASSUME IdIsText(settings), [Next]_vars
                 PROVE  IdIsText(settings)'
    OBVIOUS
  <2>2. CASE settings' = settings
    BY <2>1, <2>2 DEF IdIsText
  <2>3. CASE AddSetting
    <3>1. PICK name, value :
            /\ name \notin DOMAIN settings /\ value \in Values(name)
            /\ settings' = [n \in DOMAIN settings \cup {name} |->
                                IF n = name THEN value ELSE settings[n]]
      BY <2>3 DEF AddSetting
    <3>2. CASE name = "gatewayId"
      <4>1. "gatewayId" \notin DOMAIN NumberRange
        BY DEF NumberRange
      <4>2. value \in {<<>>, <<"gw001">>, <<"gw002">>}
        BY <3>1, <3>2, <4>1 DEF Values
      <4>3. IsText(value)
        BY <4>2, OneWord
      <4>4. QED
        BY <3>1, <3>2, <4>3 DEF IdIsText
    <3>3. CASE name # "gatewayId"
      BY <2>1, <3>1, <3>3 DEF IdIsText
    <3>4. QED
      BY <3>2, <3>3
  <2>4. QED
    BY <2>1, <2>2, <2>3 DEF Next, AppendByte, AppendCharacter, vars
<1>3. QED
  BY <1>1, <1>2, PTL DEF Spec

\* A value that is none, and an empty one where the loader takes no empty one.
Malformed(name, value) ==
    \/ name \in DOMAIN NumberRange /\ value = Unparsable
    \/ name \notin MqttTexts \cup DOMAIN NumberRange /\ value = <<>>

LEMMA MalformedRefused ==
    ASSUME NEW name, NEW value, Malformed(name, value)
    PROVE  ~Accepts(name, value)
<1>1. CASE name \in DOMAIN NumberRange /\ value = Unparsable
  <2>1. /\ name \notin MqttTexts /\ name # "logDir"
        /\ name # "useSimulatedBus" /\ name # "allowedPathRoots"
    BY <1>1 DEF NumberRange, MqttTexts, Topics, TopicNames
  <2>2. \A k \in Nat : \A l : Unparsable \notin k..l
    BY DEF Unparsable
  <2>3. Unparsable \notin Nat
    BY DEF Unparsable
  <2>4. Unparsable \notin NumberRange[name]
    <3> DEFINE any == 0..MaxU32
               pos == 1..MaxU32
               port == 0..MaxPort
               level == 0..2
    <3>1. \A range \in {any, pos, port, level, Nat} : Unparsable \notin range
      BY <2>2, <2>3
    <3>2. NumberRange = [timeoutSec |-> any, chunkSize |-> any,
                         retainDays |-> any, maxFileSizeBytes |-> Nat,
                         brokerPort |-> port, qos |-> level,
                         keepAliveSec |-> pos]
      BY Zenon DEF NumberRange
    <3> HIDE DEF any, pos, port, level
    <3>3. NumberRange[name] \in {any, pos, port, level, Nat}
      BY <1>1, <3>2
    <3>4. QED
      BY <3>1, <3>3
  <2>5. QED
    BY <1>1, <2>1, <2>4 DEF Accepts
<1>2. CASE name \notin MqttTexts \cup DOMAIN NumberRange /\ value = <<>>
  <2>1. value \notin {<<"true">>, <<"false">>, <<"1">>, <<"0">>}
    BY <1>2
  <2>2. ~\E i \in DOMAIN value : value[i] # <<>>
    BY <1>2
  <2>3. QED
    BY <1>2, <2>1, <2>2 DEF Accepts
<1>3. QED
  BY <1>1, <1>2 DEF Malformed

LEMMA ClientIdNotEmpty ==
    ASSUME NEW id, IsText(id)
    PROVE  ClientIdOf(id) # <<>>
<1> DEFINE p == <<"gateway-transfer-sim-">>
<1>1. PICK S : id \in Seq(S)
  BY DEF IsText
<1> DEFINE R == S \cup {"gateway-transfer-sim-"}
<1>2. id \in Seq(R) /\ p \in Seq(R) /\ Len(p) = 1
  BY <1>1, SeqMonotonic
<1> HIDE DEF p, R
<1>3. p \o id \in Seq(R) /\ Len(p \o id) = 1 + Len(id) /\ Len(id) \in Nat
  BY <1>2, ConcatProperties, LenProperties
<1>4. p \o id # <<>>
  BY <1>3
<1>5. QED
  BY <1>4 DEF ClientIdOf, p

\* What a file does not set is what it is without a file, except that the
\* topics follow the id.  (applyTransferSection, applyMqttSection,
\* fillMqttTopicDefaults.)
THEOREM UnsetStands ==
    ASSUME NEW file, NEW name \in DOMAIN Default, ~Takes(file, name),
           name \in Topics => "gatewayId" \notin DOMAIN file
    PROVE  LoadAppConfig(file)[name] = FillMqttTopicDefaults(Default)[name]
<1>1. IsText(<<"gw001">>)
  BY OneWord
<1>2. CASE name \in Topics
  <2>1. GatewayOf(Read(file)) = <<"gw001">>
    BY <1>2, LoadedId DEF GatewayOf
  <2>2. LoadAppConfig(file)[name] = TopicOf(<<"gw001">>, name)
    BY <1>2, <2>1, FileRead, Filled, Loaded
  <2>3. Default[name] = TopicOf(<<"gw001">>, name) /\ Default[name] # <<>>
    BY <1>1, <1>2, Names, TopicsDiffer
  <2>4. FillMqttTopicDefaults(Default)[name] = Default[name]
    BY <2>3, Filled
  <2>5. QED
    BY <2>2, <2>3, <2>4
<1>3. CASE name \notin Topics
  <2>1. Read(file)[name] = Default[name] /\ name \in DOMAIN Read(file)
    BY <1>3, FileRead
  <2>2. name # "clientId" \/ Default[name] # <<>>
    BY <1>1, DefaultIds, ClientIdNotEmpty
  <2>3. /\ FillMqttTopicDefaults(Default)[name] = Default[name]
        /\ FillMqttTopicDefaults(Read(file))[name] = Read(file)[name]
    BY <1>3, <2>1, <2>2, Filled
  <2>4. QED
    BY <2>1, <2>3, Loaded
<1>4. QED
  BY <1>2, <1>3

\* However many settings a file has, it changes only what it sets.
THEOREM OthersStand == Spec => []DefaultsStand
<1>1. FillMqttTopicDefaults(MakeDefaultAppConfig)
        = FillMqttTopicDefaults(Default)
  BY DEF Default
<1>2. DOMAIN FillMqttTopicDefaults(Default) = DOMAIN Default
  BY DEF FillMqttTopicDefaults
<1>3. ASSUME NEW name \in DOMAIN Default,
             LoadAppConfig(settings)[name]
                # FillMqttTopicDefaults(Default)[name]
      PROVE  \/ /\ name \in DOMAIN settings
                /\ ~Malformed(name, settings[name])
             \/ name \in Topics /\ "gatewayId" \in DOMAIN settings
  BY <1>3, UnsetStands, MalformedRefused DEF Takes
<1>4. DefaultsStand
  BY <1>1, <1>2, <1>3 DEF DefaultsStand, Malformed
<1>5. QED
  BY <1>4, PTL

\* However many settings a file has, it keeps the gateways apart.
THEOREM FilesKeepApart == Spec => []GatewaysKeepApart
<1>1. ASSUME IdIsText(settings), DOMAIN settings \cap Topics = {},
             NEW id \in Values("gatewayId") \ {<<>>},
             NEW t \in Topics, NEW u \in Topics
      PROVE  LoadAppConfig(settings)[t] = LoadAppConfig([gatewayId |-> id])[u]
                <=> t = u /\ id = GatewayOf(LoadAppConfig(settings))
  <2> DEFINE other == [gatewayId |-> id]
  <2>1. DOMAIN other = {"gatewayId"} /\ other.gatewayId = id
    OBVIOUS
  <2>2. IsText(id) /\ id # <<>>
    <3>1. "gatewayId" \notin DOMAIN NumberRange
      BY DEF NumberRange
    <3>2. id \in {<<"gw001">>, <<"gw002">>}
      BY <1>1, <3>1 DEF Values
    <3>3. QED
      BY <3>2, OneWord
  <2> HIDE DEF other
  <2>3. DOMAIN other \cap Topics = {} /\ IdIsText(other)
    BY <2>1, <2>2, Names DEF IdIsText
  <2>4. GatewayOf(LoadAppConfig(other)) = id
    BY <2>1, <2>2, LoadedId DEF GatewayOf
  <2>5. LoadAppConfig(settings)[t] = LoadAppConfig(other)[u] <=>
            t = u /\ GatewayOf(LoadAppConfig(settings)) = id
    BY <1>1, <2>3, <2>4, IdsKeepApart
  <2>6. QED
    BY <2>5 DEF other
<1>2. IdIsText(settings) => GatewaysKeepApart
  BY <1>1 DEF GatewaysKeepApart
<1>3. QED
  BY <1>2, SettingsText, PTL
=============================================================================
