-------------------------- MODULE RuntimeLogProofs --------------------------
(***************************************************************************)
(* The runtime log, for every number of lines, days, suffixes and crashes. *)
(*                                                                         *)
(* That a file holds the lines of the date in its name is proved for any   *)
(* number of processes that share the directory; the order of the rotated  *)
(* files, and that no line is lost, for a process that has the directory   *)
(* to itself and has not used up the suffixes nextRotateSuffix looks at.   *)
(***************************************************************************)
EXTENDS RuntimeLog, SequenceTheorems, WellFoundedInduction, TLAPS

-----------------------------------------------------------------------------
(* The inductive invariants.  F are files, D is a directory, P the dates   *)
(* lines were printed, l the state of one log.                             *)

Entry(F) == [day : 0..LastDay, suffix : Nat, file : 1..Len(F)]

\* No two names stand for one file.
DirOK(F, D, P) ==
    /\ F \in Seq(Seq(Nat)) /\ P \in Seq(0..LastDay)
    /\ D \subseteq Entry(F)
    /\ \A e, f \in D : e.file = f.file => e = f

\* What is in a file was printed, on the day in its name.
Dated(F, D, P) ==
    \A e \in D : \A n \in Range(F[e.file]) : n \in 1..Len(P) /\ P[n] = e.day

LogState(F, P) ==
    [initialized : BOOLEAN, date : 0..NoDate, file : 0..Len(F),
     unwritten : 0..Len(P), step : {"idle", "scan", "rename", "reopen"},
     suffix : Nat]

\* The stream writes to a file of its own date, a line left in its buffer is
\* of that date, and no stream is open in a rotation.
LogDated(l, F, D, P) ==
    /\ l.unwritten # 0 => l.file # 0 /\ P[l.unwritten] = l.date
    /\ l.step # "idle" => l.file = 0
    /\ l.file # 0 \/ l.step # "idle" => l.date \in 0..LastDay
    /\ \A e \in D : e.file = l.file => e.day = l.date

DatedInv ==
    /\ today \in 0..LastDay
    /\ DirOK(files, dir, printed)
    /\ Dated(files, dir, printed)
    /\ logs \in [Procs -> LogState(files, printed)]
    /\ \A p \in Procs : LogDated(logs[p], files, dir, printed)

InOrder(F, D) ==
    \A e, f \in D :
        (/\ e.day = f.day /\ e.suffix # 0
         /\ f.suffix = 0 \/ e.suffix < f.suffix)
        => \A m \in Range(F[e.file]), n \in Range(F[f.file]) : m < n

AllBefore(F, D, n) == \A e \in D : \A m \in Range(F[e.file]) : m < n

\* The stream writes to a base file, a line left in its buffer is later than
\* any line in the directory, and the name a rotation moves the base file to
\* comes after the names that are there.
LogInOrder(l, F, D) ==
    /\ \A e \in D : e.file = l.file => e.suffix = 0
    /\ l.unwritten # 0 => AllBefore(F, D, l.unwritten)
    /\ l.step = "rename" =>
            \A e \in D : e.day = l.date => e.suffix < l.suffix

OrderInv ==
    /\ InOrder(files, dir)
    /\ \A p \in Procs : LogInOrder(logs[p], files, dir)

\* nextRotateSuffix looks at every file that there is.
BelowLimit == \A e \in dir : e.suffix < SuffixLimit

\* There is a line for each rotation.
SuffixesCounted ==
    /\ Len(printed) <= MaxPrinted
    /\ \A e \in dir : e.suffix <= Len(printed)
    /\ \A p \in Procs :
        /\ logs[p].step = "scan" =>
                0 < Len(printed) /\ \A e \in dir : e.suffix < Len(printed)
        /\ logs[p].step = "rename" => logs[p].suffix <= Len(printed)

-----------------------------------------------------------------------------
(* Files and directories.                                                  *)

\* A set of numbers that has a bound has a greatest.
LEMMA GreatestExists ==
    ASSUME NEW k \in Nat, NEW S \in SUBSET (0..k), S # {}
    PROVE  \E x \in S : \A y \in S : x >= y
<1> DEFINE R == OpToRel(<, Nat)
           T == {k - x : x \in S}
<1>1. T \subseteq Nat /\ T # {}
  <2>1. \A x \in S : x \in 0..k
    OBVIOUS
  <2>2. \A x \in S : k - x \in Nat
    BY <2>1
  <2> QED BY <2>2
<1>2. PICK t \in T : \A u \in T : ~(<<u, t>> \in R)
  <2> HIDE DEF R, T
  <2> QED BY <1>1, NatLessThanWellFounded, WFMin DEF R
<1>3. \A u \in T : ~(u < t)
  <2> SUFFICES ASSUME NEW u \in T PROVE ~(u < t)
    OBVIOUS
  <2>1. <<u, t>> \in Nat \X Nat
    BY <1>1
  <2>2. <<u, t>> \in R <=> u < t
    BY <2>1 DEF OpToRel
  <2> QED BY <1>2, <2>2
<1>4. PICK x \in S : t = k - x
  OBVIOUS
<1>5. \A y \in S : ~(k - y < k - x)
  BY <1>3, <1>4
<1> QED BY <1>5

\* nextRotateSuffix returns a number greater than those it looks at.
LEMMA NextSuffixIsNext ==
    ASSUME NEW day
    PROVE  /\ NextRotateSuffix(day) \in Nat \ {0}
           /\ \A x \in Suffixes(day) : x < NextRotateSuffix(day)
<1> DEFINE S == Suffixes(day) \cup {0}
<1>1. S \subseteq 0..SuffixLimit /\ S # {} /\ SuffixLimit \in Nat
  BY LogAssumption DEF Suffixes
<1>2. \E x \in S : \A y \in S : x >= y
  <2> HIDE DEF S
  <2> QED BY <1>1, GreatestExists
<1>3. Max(S) \in S /\ \A y \in S : Max(S) >= y
  <2> HIDE DEF S
  <2> QED BY <1>2 DEF Max
<1>4. NextRotateSuffix(day) = Max(S) + 1
  BY DEF NextRotateSuffix
<1>5. Max(S) \in Nat
  BY <1>1, <1>3
<1>6. \A y \in S : y \in Nat /\ y < Max(S) + 1
  <2> HIDE DEF S
  <2> QED BY <1>1, <1>3, <1>5
<1> QED BY <1>4, <1>5, <1>6

\* ... and it looks at all of them below the limit.  It is one more than one
\* that is there, or one.
LEMMA NextSuffixComesFrom ==
    ASSUME NEW day, NEW k \in Nat, \A x \in Suffixes(day) : x < k, 0 < k
    PROVE  NextRotateSuffix(day) <= k
<1> DEFINE S == Suffixes(day) \cup {0}
<1>1. S \subseteq 0..SuffixLimit /\ S # {} /\ SuffixLimit \in Nat
  BY LogAssumption DEF Suffixes
<1>2. \E x \in S : \A y \in S : x >= y
  <2> HIDE DEF S
  <2> QED BY <1>1, GreatestExists
<1>3. Max(S) \in S
  <2> HIDE DEF S
  <2> QED BY <1>2 DEF Max
<1>4. Max(S) < k /\ Max(S) \in Nat
  BY <1>1, <1>3
<1> QED BY <1>4 DEF NextRotateSuffix

\* G are the files F once line n has been appended to file k.
Adds(F, G, k, n) ==
    /\ G \in Seq(Seq(Nat)) /\ Len(G) = Len(F)
    /\ Range(G[k]) = Range(F[k]) \cup {n}
    /\ \A i \in 1..Len(F) : i # k => G[i] = F[i]

LEMMA LineAdded ==
    ASSUME NEW F \in Seq(Seq(Nat)), NEW k \in 1..Len(F), NEW n \in Nat
    PROVE  Adds(F, Append1(F, k, n), k, n)
<1> DEFINE s == F[k]
           t == Append(s, n)
           G == [F EXCEPT ![k] = t]
<1>1. s \in Seq(Nat)
  OBVIOUS
<1>2. t \in Seq(Nat) /\ Len(t) = Len(s) + 1 /\ t[Len(s) + 1] = n
      /\ \A i \in 1..Len(s) : t[i] = s[i]
  <2> HIDE DEF s
  <2> QED BY <1>1
<1>3. Range(t) = Range(s) \cup {n}
  <2> HIDE DEF s, t
  <2>1. /\ Range(s) = {s[i] : i \in 1..Len(s)} /\ Len(s) \in Nat
        /\ Range(t) = {t[i] : i \in 1..Len(t)}
    BY <1>1, <1>2, RangeEquality
  <2>2. \A i \in 1..Len(t) : i \in 1..Len(s) \/ i = Len(s) + 1
    BY <1>2, <2>1
  <2>3. \A i \in 1..Len(s) : i \in 1..Len(t)
    BY <1>2, <2>1
  <2>4. Len(s) + 1 \in 1..Len(t)
    BY <1>2, <2>1
  <2> QED BY <1>2, <2>1, <2>2, <2>3, <2>4
<1>4. /\ G \in Seq(Seq(Nat)) /\ Len(G) = Len(F)
      /\ \A i \in 1..Len(F) : G[i] = IF i = k THEN t ELSE F[i]
  <2> HIDE DEF t
  <2> QED BY <1>2, ExceptSeq
<1>5. Append1(F, k, n) = G
  BY DEF Append1
<1> HIDE DEF G, t
<1> QED BY <1>3, <1>4, <1>5 DEF Adds

\* Every file of F keeps its lines.
Grown(F, G) ==
    Len(F) <= Len(G) /\ \A i \in 1..Len(F) : Range(F[i]) \subseteq Range(G[i])

\* A line of its date can be appended to a file.
LEMMA LineFits ==
    ASSUME NEW F, NEW D, NEW P, DirOK(F, D, P), Dated(F, D, P),
           NEW G, NEW k \in 1..Len(F), NEW n \in 1..Len(P), Adds(F, G, k, n),
           \A e \in D : e.file = k => e.day = P[n]
    PROVE  /\ DirOK(G, D, P)
           /\ Dated(G, D, P)
           /\ Len(G) = Len(F) /\ Grown(F, G)
<1>1. DirOK(G, D, P)
  BY DEF DirOK, Entry, Adds
<1>2. Dated(G, D, P)
  <2> SUFFICES ASSUME NEW e \in D, NEW m \in Range(G[e.file])
               PROVE  m \in 1..Len(P) /\ P[m] = e.day
    BY DEF Dated
  <2>1. e.file \in 1..Len(F)
    BY DEF DirOK, Entry
  <2>2. CASE e.file = k /\ m = n
    BY <2>2
  <2>3. CASE m \in Range(F[e.file])
    BY <2>3 DEF Dated
  <2> QED BY <2>1, <2>2, <2>3 DEF Adds
<1>3. Len(F) \in Nat
  BY DEF DirOK
<1>4. ASSUME NEW i \in 1..Len(F) PROVE Range(F[i]) \subseteq Range(G[i])
  <2>1. CASE i = k
    BY <2>1 DEF Adds
  <2>2. CASE i # k
    <3>1. G[i] = F[i]
      BY <2>2 DEF Adds
    <3> QED BY <3>1
  <2> QED BY <2>1, <2>2
<1>5. Len(G) = Len(F)
  BY DEF Adds
<1>6. Grown(F, G)
  BY <1>3, <1>4, <1>5 DEF Grown
<1> QED BY <1>1, <1>2, <1>5, <1>6

\* A line later than any other can be appended to a base file.
LEMMA LineInOrder ==
    ASSUME NEW F, NEW D, NEW P, DirOK(F, D, P), InOrder(F, D),
           NEW G, NEW k \in 1..Len(F), NEW n \in Nat, Adds(F, G, k, n),
           AllBefore(F, D, n),
           \A e \in D : e.file = k => e.suffix = 0
    PROVE  InOrder(G, D)
<1> SUFFICES ASSUME NEW e \in D, NEW f \in D, e.day = f.day, e.suffix # 0,
                    f.suffix = 0 \/ e.suffix < f.suffix,
                    NEW a \in Range(G[e.file]), NEW b \in Range(G[f.file])
             PROVE  a < b
  BY DEF InOrder
<1>1. e.file # k /\ e.file \in 1..Len(F) /\ f.file \in 1..Len(F)
  BY DEF DirOK, Entry
<1>2. a \in Range(F[e.file])
  BY <1>1 DEF Adds
<1>3. CASE b \in Range(F[f.file])
  BY <1>2, <1>3 DEF InOrder
<1>4. CASE b = n
  BY <1>2, <1>4 DEF AllBefore
<1> QED BY <1>1, <1>3, <1>4 DEF Adds

\* What happens elsewhere from F, D, P to G, E, Q: lines are printed, files
\* are created, and a name of an old file is for a day it had a name for.
Elsewhere(F, D, P, G, E, Q) ==
    /\ Len(F) <= Len(G) /\ Len(P) <= Len(Q)
    /\ \A i \in 1..Len(P) : Q[i] = P[i]
    /\ \A e \in E : e.file \in 0..Len(F) =>
            \E d \in D : d.file = e.file /\ d.day = e.day

LEMMA LogStays ==
    ASSUME NEW F, NEW D, NEW P, NEW G, NEW E, NEW Q, NEW l,
           Len(F) \in Nat, Len(G) \in Nat, Len(P) \in Nat, Len(Q) \in Nat,
           Elsewhere(F, D, P, G, E, Q),
           l \in LogState(F, P), LogDated(l, F, D, P)
    PROVE  l \in LogState(G, Q) /\ LogDated(l, G, E, Q)
<1>1. l \in LogState(G, Q)
  BY DEF LogState, Elsewhere
<1>2. l.unwritten # 0 => l.file # 0 /\ Q[l.unwritten] = l.date
  <2>1. l.unwritten \in 0..Len(P)
    BY DEF LogState
  <2> QED BY <2>1 DEF LogDated, Elsewhere
<1>3. \A e \in E : e.file = l.file => e.day = l.date
  <2>1. l.file \in 0..Len(F)
    BY DEF LogState
  <2> QED BY <2>1 DEF LogDated, Elsewhere
<1> QED BY <1>1, <1>2, <1>3 DEF LogDated

\* Closing the stream of l leaves the files as they were, or with the line
\* of its buffer at the end of its file.
LEMMA ClosingAdds ==
    ASSUME NEW p \in Procs, DatedInv, NEW G \in Closings(logs[p])
    PROVE  \/ G = files
           \/ /\ logs[p].unwritten \in 1..Len(printed)
              /\ logs[p].file \in 1..Len(files)
              /\ Adds(files, G, logs[p].file, logs[p].unwritten)
              /\ printed[logs[p].unwritten] = logs[p].date
<1> DEFINE l == logs[p]
<1>1. l \in LogState(files, printed) /\ LogDated(l, files, dir, printed)
  BY DEF DatedInv
<1>2. files \in Seq(Seq(Nat)) /\ printed \in Seq(0..LastDay)
  BY DEF DatedInv, DirOK
<1>3. Len(files) \in Nat /\ Len(printed) \in Nat
  BY <1>2
<1> HIDE DEF l
<1>4. CASE l.unwritten = 0
  BY <1>4 DEF Closings, l
<1>5. CASE l.unwritten # 0
  <2>1. /\ l.unwritten \in 1..Len(printed) /\ l.unwritten \in Nat
        /\ l.file \in 1..Len(files) /\ printed[l.unwritten] = l.date
    BY <1>1, <1>3, <1>5 DEF LogState, LogDated
  <2>2. Adds(files, Append1(files, l.file, l.unwritten), l.file, l.unwritten)
    BY <1>2, <2>1, LineAdded
  <2>3. G = files \/ G = Append1(files, l.file, l.unwritten)
    BY <1>5 DEF Closings, Append1, l
  <2> QED BY <2>1, <2>2, <2>3 DEF l
<1> QED BY <1>4, <1>5

\* So the stream can be closed: each file keeps its lines, and its date.
LEMMA ClosingFits ==
    ASSUME NEW p \in Procs, DatedInv, NEW G \in Closings(logs[p])
    PROVE  /\ DirOK(G, dir, printed)
           /\ Dated(G, dir, printed)
           /\ Len(G) = Len(files) /\ Grown(files, G)
<1>1. DirOK(files, dir, printed) /\ Dated(files, dir, printed)
  BY DEF DatedInv
<1>2. CASE G = files
  <2>1. Len(files) \in Nat
    BY <1>1 DEF DirOK
  <2> QED BY <1>1, <1>2, <2>1 DEF Grown
<1>3. CASE G # files
  <2> DEFINE k == logs[p].file
             n == logs[p].unwritten
  <2>1. k \in 1..Len(files) /\ n \in 1..Len(printed) /\ Adds(files, G, k, n)
        /\ printed[n] = logs[p].date
    BY <1>3, ClosingAdds
  <2>2. \A e \in dir : e.file = k => e.day = printed[n]
    BY <2>1 DEF DatedInv, LogDated
  <2> HIDE DEF k, n
  <2> QED BY <1>1, <2>1, <2>2, LineFits
<1> QED BY <1>2, <1>3

\* A stream o that has been opened for a day writes to its base file; if it
\* was not there, it is now, empty.  The other files are as they were.
OpensBase(o, F, day) ==
    /\ Len(F) <= Len(o.files) /\ \A i \in 1..Len(F) : o.files[i] = F[i]
    /\ o.file \in 1..Len(o.files)
    /\ dir \subseteq o.dir
    /\ \A e \in o.dir \ dir :
            e.file = Len(F) + 1 /\ e.suffix = 0 /\ Range(o.files[e.file]) = {}
    /\ \A e \in o.dir : e.file = o.file => e.day = day /\ e.suffix = 0

LEMMA OpenedFits ==
    ASSUME NEW F, NEW P, DirOK(F, dir, P), Dated(F, dir, P),
           NEW day \in 0..LastDay
    PROVE  LET o == Opened(F, day)
           IN  /\ OpensBase(o, F, day)
               /\ DirOK(o.files, o.dir, P)
               /\ Dated(o.files, o.dir, P)
<1> DEFINE o == Opened(F, day)
<1> SUFFICES /\ OpensBase(o, F, day)
             /\ DirOK(o.files, o.dir, P)
             /\ Dated(o.files, o.dir, P)
  OBVIOUS
<1>1. F \in Seq(Seq(Nat)) /\ Len(F) \in Nat /\ dir \subseteq Entry(F)
  BY DEF DirOK
<1>2. CASE BaseOf(day) # {}
  <2> DEFINE b == CHOOSE e \in BaseOf(day) : TRUE
  <2>1. b \in BaseOf(day)
    BY <1>2
  <2> HIDE DEF b
  <2>2. o = [file |-> b.file, files |-> F, dir |-> dir]
    BY <1>2 DEF Opened, b
  <2> HIDE DEF o
  <2>3. b \in dir /\ b.day = day /\ b.suffix = 0 /\ b.file \in 1..Len(F)
    BY <1>1, <2>1 DEF BaseOf, Entry
  <2>4. \A e \in dir : e.file = b.file => e = b
    BY <2>3 DEF DirOK
  <2>5. OpensBase(o, F, day)
    BY <1>1, <2>2, <2>3, <2>4 DEF OpensBase
  <2> QED BY <2>2, <2>5
<1>3. CASE BaseOf(day) = {}
  <2> DEFINE k == Len(F) + 1
             G == Append(F, <<>>)
             x == [day |-> day, suffix |-> 0, file |-> k]
  <2>1. o = [file |-> k, files |-> G, dir |-> dir \cup {x}]
    BY <1>3 DEF Opened
  <2>2. <<>> \in Seq(Nat)
    OBVIOUS
  <2>3. /\ G \in Seq(Seq(Nat)) /\ Len(G) = k /\ G[k] = <<>>
        /\ \A i \in 1..Len(F) : G[i] = F[i]
    BY <1>1, <2>2
  <2>4. Range(<<>>) = {}
    BY DEF Range
  <2>5. x \in Entry(G) /\ x.file = k /\ x.day = day /\ x.suffix = 0
    BY <1>1, <2>3 DEF Entry
  <2>6. \A e \in dir : e \in Entry(G) /\ e.file \in 1..Len(F) /\ e.file # k
    BY <1>1, <2>3 DEF Entry
  <2>7. /\ o.file = k /\ o.files = G /\ o.dir = dir \cup {x}
    BY <2>1
  <2> HIDE DEF o, G, x, k
  <2>8. Len(F) <= k /\ k \in 1..k
    BY <1>1 DEF k
  <2>9. OpensBase(o, F, day)
    <3>1. \A e \in dir \cup {x} : e.file = k => e = x
      BY <2>6
    <3>2. \A e \in (dir \cup {x}) \ dir : e = x
      OBVIOUS
    <3>3. Range(G[x.file]) = {}
      BY <2>3, <2>4, <2>5
    <3> QED BY <2>3, <2>5, <2>7, <2>8, <3>1, <3>2, <3>3 DEF OpensBase, k
  <2>10. DirOK(G, dir \cup {x}, P)
    BY <2>3, <2>5, <2>6 DEF DirOK
  <2>11. Dated(G, dir \cup {x}, P)
    <3> SUFFICES ASSUME NEW e \in dir \cup {x}, NEW n \in Range(G[e.file])
                 PROVE  n \in 1..Len(P) /\ P[n] = e.day
      BY DEF Dated
    <3>1. e # x
      BY <2>3, <2>4, <2>5
    <3>2. e \in dir /\ G[e.file] = F[e.file]
      BY <2>3, <2>6, <3>1
    <3> QED BY <3>2 DEF Dated
  <2> QED BY <2>7, <2>9, <2>10, <2>11
<1> QED BY <1>2, <1>3

\* A stream that was open on one of the files before goes on where it was.
LEMMA OpenedKeepsNames ==
    ASSUME NEW F, NEW day, NEW o, Len(F) \in Nat, OpensBase(o, F, day)
    PROVE  \A e \in o.dir : e.file \in 0..Len(F) => e \in dir
BY DEF OpensBase

\* ... and the order of the rotated files is what it was.
LEMMA OpenedInOrder ==
    ASSUME NEW F, NEW P, NEW day, NEW o, DirOK(F, dir, P),
           OpensBase(o, F, day), InOrder(F, dir)
    PROVE  InOrder(o.files, o.dir)
<1> SUFFICES ASSUME NEW e \in o.dir, NEW f \in o.dir,
                    e.day = f.day, e.suffix # 0,
                    f.suffix = 0 \/ e.suffix < f.suffix,
                    NEW a \in Range(o.files[e.file]),
                    NEW b \in Range(o.files[f.file])
             PROVE  a < b
  BY DEF InOrder
<1>1. e \in dir /\ f \in dir
  BY DEF OpensBase
<1>2. e.file \in 1..Len(F) /\ f.file \in 1..Len(F)
  BY <1>1 DEF DirOK, Entry
<1>3. a \in Range(F[e.file]) /\ b \in Range(F[f.file])
  BY <1>2 DEF OpensBase
<1> QED BY <1>1, <1>3 DEF InOrder

-----------------------------------------------------------------------------
(* A file holds the lines of its date.                                     *)

\* A step of process p keeps the invariant if what it leaves of its own log,
\* and of the directory, does.
LEMMA OneLogChanges ==
    ASSUME DatedInv, NEW p \in Procs, NEW m, logs' = [logs EXCEPT ![p] = m],
           m \in LogState(files', printed'),
           LogDated(m, files', dir', printed'),
           today' \in 0..LastDay,
           DirOK(files', dir', printed'), Dated(files', dir', printed'),
           Elsewhere(files, dir, printed, files', dir', printed')
    PROVE  DatedInv'
<1>1. /\ Len(files) \in Nat /\ Len(files') \in Nat
      /\ Len(printed) \in Nat /\ Len(printed') \in Nat
  BY DEF DatedInv, DirOK
<1>2. ASSUME NEW q \in Procs
      PROVE  /\ logs'[q] \in LogState(files', printed')
             /\ LogDated(logs'[q], files', dir', printed')
  <2>1. logs'[q] = IF q = p THEN m ELSE logs[q]
    BY DEF DatedInv
  <2>2. /\ logs[q] \in LogState(files, printed)
        /\ LogDated(logs[q], files, dir, printed)
    BY DEF DatedInv
  <2>3. /\ logs[q] \in LogState(files', printed')
        /\ LogDated(logs[q], files', dir', printed')
    BY <1>1, <2>2, LogStays
  <2>4. CASE q = p
    BY <2>1, <2>4
  <2>5. CASE q # p
    BY <2>1, <2>3, <2>5
  <2> QED BY <2>4, <2>5
<1>3. logs' \in [Procs -> LogState(files', printed')]
  <2>1. logs' = [q \in Procs |-> logs'[q]]
    BY DEF DatedInv
  <2> QED BY <1>2, <2>1
<1> QED BY <1>2, <1>3 DEF DatedInv

\* A log that has not been initialised, or only just, is in order.
LEMMA FreshLogFits ==
    ASSUME NEW F, NEW D, NEW P, DirOK(F, D, P), NEW l, NEW date \in 0..NoDate,
           \/ l = Uninitialized \/ l = Initialized
           \/ l = [Initialized EXCEPT !.date = date]
    PROVE  l \in LogState(F, P) /\ LogDated(l, F, D, P)
<1>1. Len(F) \in Nat /\ Len(P) \in Nat /\ LastDay \in Nat
  BY LogAssumption DEF DirOK
<1>2. /\ l.initialized \in BOOLEAN /\ l.date \in 0..NoDate
      /\ l = [initialized |-> l.initialized, date |-> l.date, file |-> 0,
              unwritten |-> 0, step |-> "idle", suffix |-> 0]
  <2>1. NoDate \in 0..NoDate
    BY <1>1 DEF NoDate
  <2>2. CASE l = Uninitialized
    BY <2>1, <2>2 DEF Uninitialized
  <2>3. CASE l = Initialized
    BY <2>1, <2>3 DEF Uninitialized, Initialized
  <2>4. CASE l = [Initialized EXCEPT !.date = date]
    BY <2>4 DEF Uninitialized, Initialized
  <2> QED BY <2>2, <2>3, <2>4
<1>3. \A e \in D : e.file # 0
  BY <1>1 DEF DirOK, Entry
<1>4. /\ l.file = 0 /\ l.unwritten = 0 /\ l.step = "idle"
  BY <1>2
<1> QED BY <1>1, <1>2, <1>3, <1>4 DEF LogState, LogDated

\* A directory from which names are removed.
LEMMA FewerNames ==
    ASSUME NEW F, NEW D, NEW P, DirOK(F, D, P), Dated(F, D, P),
           NEW E \in SUBSET D
    PROVE  DirOK(F, E, P) /\ Dated(F, E, P)
BY DEF DirOK, Dated

LEMMA InitLogDated ==
    ASSUME DatedInv, NEW p \in Procs, InitLog(p)
    PROVE  DatedInv'
<1>1. /\ DirOK(files', dir, printed) /\ Dated(files', dir, printed)
      /\ Len(files') = Len(files)
  BY ClosingFits DEF InitLog
<1>2. dir' \subseteq dir /\ printed' = printed /\ today' = today
      /\ logs' = [logs EXCEPT ![p] = Initialized]
  BY DEF InitLog
<1>3. DirOK(files', dir', printed') /\ Dated(files', dir', printed')
  BY <1>1, <1>2, FewerNames
<1>4. /\ Initialized \in LogState(files', printed')
      /\ LogDated(Initialized, files', dir', printed')
  <2>1. 0 \in 0..NoDate
    BY LogAssumption DEF NoDate
  <2> QED BY <1>3, <2>1, FreshLogFits
<1>5. Elsewhere(files, dir, printed, files', dir', printed')
  <2>1. Len(files) \in Nat /\ Len(printed) \in Nat
    BY DEF DatedInv, DirOK
  <2> QED BY <1>1, <1>2, <2>1 DEF Elsewhere
<1>6. today' \in 0..LastDay
  BY <1>2 DEF DatedInv
<1> QED BY <1>2, <1>3, <1>4, <1>5, <1>6, OneLogChanges

LEMMA ShutdownDated ==
    ASSUME DatedInv, NEW p \in Procs, Shutdown(p)
    PROVE  DatedInv'
<1>1. /\ DirOK(files', dir, printed) /\ Dated(files', dir, printed)
      /\ Len(files') = Len(files)
  BY ClosingFits DEF Shutdown
<1>2. dir' = dir /\ printed' = printed /\ today' = today
      /\ logs' = [logs EXCEPT ![p] = Uninitialized]
  BY DEF Shutdown
<1>3. DirOK(files', dir', printed') /\ Dated(files', dir', printed')
  BY <1>1, <1>2
<1>4. /\ Uninitialized \in LogState(files', printed')
      /\ LogDated(Uninitialized, files', dir', printed')
  <2>1. 0 \in 0..NoDate
    BY LogAssumption DEF NoDate
  <2> QED BY <1>3, <2>1, FreshLogFits
<1>5. Elsewhere(files, dir, printed, files', dir', printed')
  <2>1. Len(files) \in Nat /\ Len(printed) \in Nat
    BY DEF DatedInv, DirOK
  <2> QED BY <1>1, <1>2, <2>1 DEF Elsewhere
<1>6. today' \in 0..LastDay
  BY <1>2 DEF DatedInv
<1> QED BY <1>2, <1>3, <1>4, <1>5, <1>6, OneLogChanges

LEMMA CrashDated ==
    ASSUME DatedInv, NEW p \in Procs, Crash(p)
    PROVE  DatedInv'
<1>1. dir' \subseteq dir /\ files' = files /\ printed' = printed
      /\ today' = today /\ logs' = [logs EXCEPT ![p] = Uninitialized]
  BY DEF Crash
<1>2. DirOK(files', dir', printed') /\ Dated(files', dir', printed')
  BY <1>1, FewerNames DEF DatedInv
<1>3. /\ Uninitialized \in LogState(files', printed')
      /\ LogDated(Uninitialized, files', dir', printed')
  <2>1. 0 \in 0..NoDate
    BY LogAssumption DEF NoDate
  <2> QED BY <1>2, <2>1, FreshLogFits
<1>4. Elsewhere(files, dir, printed, files', dir', printed')
  <2>1. Len(files) \in Nat /\ Len(printed) \in Nat
    BY DEF DatedInv, DirOK
  <2> QED BY <1>1, <2>1 DEF Elsewhere
<1>5. today' \in 0..LastDay
  BY <1>1 DEF DatedInv
<1> QED BY <1>1, <1>2, <1>3, <1>4, <1>5, OneLogChanges

\* A log that has just opened a file.
OpenLog(date, file) ==
    [initialized : BOOLEAN, date : {date}, file : {file}, unwritten : {0},
     step : {"idle"}, suffix : {0}]

LEMMA OpenLogFits ==
    ASSUME NEW date, NEW file
    PROVE  [[Initialized EXCEPT !.date = date] EXCEPT !.file = file]
                \in OpenLog(date, file)
<1>1. Uninitialized \in OpenLog(NoDate, 0)
  BY DEF Uninitialized, OpenLog
<1>2. Initialized \in OpenLog(NoDate, 0)
  BY <1>1 DEF Initialized, OpenLog
<1>3. [Initialized EXCEPT !.date = date] \in OpenLog(date, 0)
  BY <1>2 DEF OpenLog
<1> QED BY <1>3 DEF OpenLog

\* Lines that are in the files were printed before the next one is.
LEMMA NextLineIsPrinted ==
    ASSUME NEW F, NEW D, NEW P, DirOK(F, D, P), NEW date \in 0..LastDay
    PROVE  LET Q == Append(P, date)
               n == Len(P) + 1
           IN  /\ Len(P) \in Nat /\ n \in Nat \ {0} /\ Len(Q) = n
               /\ Q[n] = date /\ \A i \in 1..Len(P) : Q[i] = P[i]
               /\ DirOK(F, D, Q)
               /\ Dated(F, D, P) => Dated(F, D, Q) /\ AllBefore(F, D, n)
<1> DEFINE Q == Append(P, date)
           n == Len(P) + 1
<1>1. P \in Seq(0..LastDay)
  BY DEF DirOK
<1>2. /\ Len(P) \in Nat /\ n \in Nat \ {0} /\ Len(Q) = n
      /\ Q \in Seq(0..LastDay)
      /\ Q[n] = date /\ \A i \in 1..Len(P) : Q[i] = P[i]
  BY <1>1
<1> HIDE DEF Q
<1>3. DirOK(F, D, Q)
  BY <1>2 DEF DirOK
<1>4. ASSUME Dated(F, D, P) PROVE Dated(F, D, Q) /\ AllBefore(F, D, n)
  <2>1. \A e \in D : \A i \in Range(F[e.file]) :
            i \in 1..Len(P) /\ P[i] = e.day
    BY <1>4 DEF Dated
  <2>2. \A i \in 1..Len(P) : i \in 1..Len(Q) /\ i < n
    BY <1>2
  <2> QED BY <1>2, <2>1, <2>2 DEF Dated, AllBefore
<1> QED BY <1>2, <1>3, <1>4 DEF Q

\* A line that goes to a good stream of its date ends up in the file or in
\* the buffer, and the log is left idle or about to rotate.
LEMMA WriteToFits ==
    ASSUME NEW p \in Procs, NEW l, NEW F, NEW D, NEW P,
           DirOK(F, D, P), Dated(F, D, P),
           l \in LogState(F, P), LogDated(l, F, D, P),
           l.file # 0, l.unwritten = 0, l.step = "idle",
           NEW n \in 1..Len(P), P[n] = l.date, WriteTo(p, l, F, n)
    PROVE  /\ \E m \in LogState(files', P) :
                /\ logs' = [logs EXCEPT ![p] = m]
                /\ LogDated(m, files', D, P)
           /\ DirOK(files', D, P) /\ Dated(files', D, P)
           /\ Len(files') = Len(F) /\ Grown(F, files')
<1>1. F \in Seq(Seq(Nat)) /\ Len(F) \in Nat /\ Len(P) \in Nat
  BY DEF DirOK
<1>2. l.file \in 1..Len(F) /\ n \in Nat
  BY <1>1 DEF LogState
<1>3. \A e \in D : e.file \in 1..Len(F)
  BY DEF DirOK, Entry
<1>4. CASE files' = F /\ logs' = [logs EXCEPT ![p] = [l EXCEPT !.unwritten = n]]
  <2> DEFINE m == [l EXCEPT !.unwritten = n]
  <2>1. m \in LogState(F, P)
    BY <1>1 DEF LogState
  <2>2. /\ m.file = l.file /\ m.date = l.date /\ m.step = l.step
        /\ m.unwritten = n
    BY DEF LogState
  <2> HIDE DEF m
  <2>3. LogDated(m, F, D, P)
    BY <2>2 DEF LogDated
  <2>4. Len(files') = Len(F) /\ Grown(F, files')
    BY <1>1, <1>4 DEF Grown
  <2>5. logs' = [logs EXCEPT ![p] = m]
    BY <1>4 DEF m
  <2> QED BY <1>4, <2>1, <2>3, <2>4, <2>5
<1>5. ASSUME files' = Append1(F, l.file, n),
             NEW m, m = l \/ m = [l EXCEPT !.file = 0, !.step = "scan"],
             logs' = [logs EXCEPT ![p] = m]
      PROVE  /\ m \in LogState(files', P)
             /\ LogDated(m, files', D, P)
             /\ DirOK(files', D, P) /\ Dated(files', D, P)
             /\ Len(files') = Len(F) /\ Grown(F, files')
  <2>1. Adds(F, files', l.file, n)
    BY <1>1, <1>2, <1>5, LineAdded
  <2>2. \A e \in D : e.file = l.file => e.day = P[n]
    BY DEF LogDated
  <2>3. /\ DirOK(files', D, P) /\ Dated(files', D, P)
        /\ Len(files') = Len(F) /\ Grown(F, files')
    BY <1>2, <2>1, <2>2, LineFits
  <2>4. CASE m = l
    BY <2>3, <2>4 DEF LogState, LogDated
  <2>5. CASE m = [l EXCEPT !.file = 0, !.step = "scan"]
    <3>1. m \in LogState(files', P)
      <4>1. m = [initialized |-> l.initialized, date |-> l.date, file |-> 0,
                 unwritten |-> l.unwritten, step |-> "scan",
                 suffix |-> l.suffix]
        BY <2>5 DEF LogState
      <4>2. /\ l.initialized \in BOOLEAN /\ l.date \in 0..NoDate
            /\ l.unwritten \in 0..Len(P) /\ l.suffix \in Nat
            /\ 0 \in 0..Len(files')
        BY <1>1, <2>3 DEF LogState
      <4> QED BY <4>1, <4>2 DEF LogState
    <3>2. /\ m.file = 0 /\ m.unwritten = 0 /\ m.step = "scan"
          /\ m.date = l.date
      BY <2>5 DEF LogState
    <3>3. l.date \in 0..LastDay
      BY DEF LogDated
    <3> QED BY <1>3, <2>3, <3>1, <3>2, <3>3 DEF LogDated
  <2> QED BY <1>5, <2>3, <2>4, <2>5
<1> DEFINE full == [l EXCEPT !.file = 0, !.step = "scan"]
           m == IF MaxFileLines = 0 \/ Len(files'[l.file]) < MaxFileLines
                THEN l ELSE full
<1>6. CASE files' = Append1(F, l.file, n) /\ logs' = [logs EXCEPT ![p] = m]
  <2>1. m = l \/ m = [l EXCEPT !.file = 0, !.step = "scan"]
    OBVIOUS
  <2> HIDE DEF m
  <2> QED BY <1>5, <1>6, <2>1
<1> QED BY <1>4, <1>6 DEF WriteTo

LEMMA WriteLineDated ==
    ASSUME DatedInv, NEW p \in Procs, WriteLine(p)
    PROVE  DatedInv' /\ dir \subseteq dir' /\ Grown(files, files')
<1> DEFINE l == logs[p]
           n == Len(printed) + 1
           fresh == [Initialized EXCEPT !.date = today]
<1>1. /\ DirOK(files, dir, printed) /\ Dated(files, dir, printed)
      /\ l \in LogState(files, printed) /\ LogDated(l, files, dir, printed)
      /\ today \in 0..LastDay
  BY DEF DatedInv
<1>2. /\ printed' = Append(printed, today) /\ today' = today
      /\ l.step = "idle"
  BY DEF WriteLine
<1>3. /\ Len(printed) \in Nat /\ n \in Nat \ {0} /\ Len(printed') = n
      /\ printed'[n] = today /\ n \in 1..Len(printed')
      /\ \A i \in 1..Len(printed) : printed'[i] = printed[i]
      /\ Len(printed) <= Len(printed')
  BY <1>1, <1>2, NextLineIsPrinted
<1>4. Len(files) \in Nat
  BY <1>1 DEF DirOK
<1>5. \A F, D : DirOK(F, D, printed) =>
        /\ DirOK(F, D, printed')
        /\ Dated(F, D, printed) => Dated(F, D, printed')
  BY <1>1, <1>2, NextLineIsPrinted
<1>6. today' \in 0..LastDay
  BY <1>1, <1>2
<1> HIDE DEF l, n
<1>7. CASE FileIsCurrent(l, today) /\ dir' = dir
           /\ l.unwritten # 0 /\ files' = files /\ logs' = logs
  <2>1. Elsewhere(files, dir, printed, files', dir', printed')
    BY <1>3, <1>4, <1>7 DEF Elsewhere
  <2>2. logs' = [logs EXCEPT ![p] = l]
    BY <1>7 DEF DatedInv, l
  <2>3. l \in LogState(files', printed') /\ LogDated(l, files', dir', printed')
    BY <1>1, <1>3, <1>4, <1>7, <2>1, LogStays
  <2>4. DirOK(files', dir', printed') /\ Dated(files', dir', printed')
    BY <1>1, <1>5, <1>7
  <2>5. Grown(files, files')
    BY <1>4, <1>7 DEF Grown
  <2> QED BY <1>6, <1>7, <2>1, <2>2, <2>3, <2>4, <2>5, OneLogChanges
<1>8. CASE FileIsCurrent(l, today) /\ dir' = dir
           /\ l.unwritten = 0 /\ WriteTo(p, l, files, n)
  <2>1. Elsewhere(files, dir, printed, files, dir, printed')
    BY <1>3, <1>4 DEF Elsewhere
  <2>2. /\ l \in LogState(files, printed')
        /\ LogDated(l, files, dir, printed')
    BY <1>1, <1>3, <1>4, <2>1, LogStays
  <2>3. DirOK(files, dir, printed') /\ Dated(files, dir, printed')
    BY <1>1, <1>5
  <2>4. l.file # 0 /\ printed'[n] = l.date
    BY <1>3, <1>8 DEF FileIsCurrent
  <2>5. /\ \E m \in LogState(files', printed') :
             /\ logs' = [logs EXCEPT ![p] = m]
             /\ LogDated(m, files', dir, printed')
        /\ DirOK(files', dir, printed') /\ Dated(files', dir, printed')
        /\ Len(files') = Len(files) /\ Grown(files, files')
    <3>1. /\ l.file # 0 /\ l.unwritten = 0 /\ l.step = "idle"
          /\ n \in 1..Len(printed') /\ WriteTo(p, l, files, n)
      BY <1>2, <1>3, <1>8, <2>4
    <3> QED BY <2>2, <2>3, <2>4, <3>1, WriteToFits
  <2>6. Elsewhere(files, dir, printed, files', dir', printed')
    BY <1>8, <2>1, <2>5 DEF Elsewhere
  <2> QED BY <1>6, <1>8, <2>5, <2>6, OneLogChanges
<1>9. ASSUME NEW F \in Closings(l), files' = F,
             logs' = [logs EXCEPT ![p] = fresh], dir' = dir
      PROVE  DatedInv' /\ dir \subseteq dir' /\ Grown(files, files')
  <2>1. /\ DirOK(F, dir, printed) /\ Dated(F, dir, printed)
        /\ Len(F) = Len(files) /\ Grown(files, F)
    BY <1>9, ClosingFits DEF l
  <2>2. DirOK(files', dir', printed') /\ Dated(files', dir', printed')
    BY <1>5, <1>9, <2>1
  <2>3. today \in 0..NoDate
    BY <1>1, LogAssumption DEF NoDate
  <2>4. /\ fresh \in LogState(files', printed')
        /\ LogDated(fresh, files', dir', printed')
    BY <2>2, <2>3, FreshLogFits
  <2>5. Elsewhere(files, dir, printed, files', dir', printed')
    BY <1>3, <1>4, <1>9, <2>1 DEF Elsewhere
  <2> QED BY <1>6, <1>9, <2>1, <2>2, <2>4, <2>5, OneLogChanges
<1>10. ASSUME NEW F \in Closings(l), NEW o, o = Opened(F, today),
              WriteTo(p, [fresh EXCEPT !.file = o.file], o.files, n),
              dir' = o.dir
       PROVE  DatedInv' /\ dir \subseteq dir' /\ Grown(files, files')
  <2> DEFINE k == [fresh EXCEPT !.file = o.file]
  <2>1. /\ DirOK(F, dir, printed) /\ Dated(F, dir, printed)
        /\ Len(F) = Len(files) /\ Grown(files, F)
    BY <1>10, ClosingFits DEF l
  <2>2. /\ OpensBase(o, F, today)
        /\ DirOK(o.files, o.dir, printed) /\ Dated(o.files, o.dir, printed)
    BY <1>1, <1>10, <2>1, OpenedFits
  <2>3. DirOK(o.files, o.dir, printed') /\ Dated(o.files, o.dir, printed')
    BY <1>5, <2>2
  <2>4. o.file \in 1..Len(o.files) /\ Len(o.files) \in Nat
    BY <2>2 DEF OpensBase, DirOK
  <2>5. k \in OpenLog(today, o.file)
    BY OpenLogFits
  <2>8. WriteTo(p, k, o.files, n)
    BY <1>10
  <2> HIDE DEF k, fresh
  <2>6. /\ k.file = o.file /\ k.file # 0 /\ k.date = today
        /\ k.unwritten = 0 /\ k.step = "idle"
    BY <2>4, <2>5 DEF OpenLog
  <2>7. k \in LogState(o.files, printed')
    <3>1. /\ today \in 0..NoDate /\ 0 \in 0..Len(printed')
          /\ o.file \in 0..Len(o.files)
      BY <1>1, <1>3, <2>4, LogAssumption DEF NoDate
    <3> QED BY <2>5, <3>1 DEF OpenLog, LogState
  <2>9. LogDated(k, o.files, o.dir, printed')
    BY <1>1, <2>2, <2>6 DEF LogDated, OpensBase
  <2>10. printed'[n] = k.date
    BY <1>3, <2>6
  <2>11. /\ \E m \in LogState(files', printed') :
              /\ logs' = [logs EXCEPT ![p] = m]
              /\ LogDated(m, files', o.dir, printed')
         /\ DirOK(files', o.dir, printed') /\ Dated(files', o.dir, printed')
         /\ Len(files') = Len(o.files) /\ Grown(o.files, files')
    BY <1>3, <2>3, <2>6, <2>7, <2>8, <2>9, <2>10, WriteToFits
  <2>12. Elsewhere(files, dir, printed, files', dir', printed')
    <3>1. \A e \in o.dir : e.file \in 0..Len(F) => e \in dir
      BY <1>4, <2>1, <2>2, OpenedKeepsNames
    <3>2. Len(files) <= Len(files')
      BY <2>1, <2>2, <2>11 DEF OpensBase
    <3> QED BY <1>3, <1>10, <2>1, <3>1, <3>2 DEF Elsewhere
  <2>13. dir \subseteq dir'
    BY <1>10, <2>2 DEF OpensBase
  <2>14. Grown(files, files')
    <3>1. \A i \in 1..Len(files) : i \in 1..Len(F) /\ i \in 1..Len(o.files)
      BY <1>4, <2>1, <2>2, <2>4 DEF OpensBase
    <3>2. \A i \in 1..Len(files) :
            Range(files[i]) \subseteq Range(files'[i])
      BY <2>1, <2>2, <2>11, <3>1 DEF Grown, OpensBase
    <3>3. Len(files) <= Len(files')
      BY <2>12 DEF Elsewhere
    <3> QED BY <3>2, <3>3 DEF Grown
  <2> QED BY <1>6, <1>10, <2>11, <2>12, <2>13, <2>14, OneLogChanges
<1> QED BY <1>7, <1>8, <1>9, <1>10 DEF WriteLine, l, n

\* The next call of a rotation leaves the log in order.
At(l, step, suffix) == [l EXCEPT !.step = step, !.suffix = suffix]

LEMMA RotationFits ==
    ASSUME NEW F, NEW D, NEW P, NEW l,
           l \in LogState(F, P), LogDated(l, F, D, P), l.step # "idle",
           NEW step \in {"idle", "rename", "reopen"}, NEW suffix \in Nat
    PROVE  LET m == At(l, step, suffix)
           IN  /\ m \in LogState(F, P) /\ LogDated(m, F, D, P)
               /\ m.file = 0 /\ m.unwritten = 0 /\ m.date = l.date
               /\ m.date \in 0..LastDay /\ m.step = step /\ m.suffix = suffix
<1> DEFINE m == At(l, step, suffix)
<1>1. m \in LogState(F, P)
  BY DEF LogState, At
<1>2. /\ m.file = l.file /\ m.unwritten = l.unwritten /\ m.date = l.date
      /\ m.step = step /\ m.suffix = suffix
  BY DEF LogState, At
<1>3. l.file = 0 /\ l.unwritten = 0 /\ l.date \in 0..LastDay
  BY DEF LogDated
<1> HIDE DEF m
<1>4. LogDated(m, F, D, P)
  BY <1>2, <1>3 DEF LogDated
<1> QED BY <1>1, <1>2, <1>3, <1>4 DEF m

LEMMA ScanSuffixesDated ==
    ASSUME DatedInv, NEW p \in Procs, ScanSuffixes(p)
    PROVE  DatedInv'
<1> DEFINE l == logs[p]
           N == NextRotateSuffix(l.date)
           m == At(l, "rename", N)
<1>1. l \in LogState(files, printed) /\ LogDated(l, files, dir, printed)
  BY DEF DatedInv
<1>2. /\ l.step = "scan" /\ logs' = [logs EXCEPT ![p] = m]
      /\ UNCHANGED <<today, printed, files, dir, crashes>>
  BY DEF ScanSuffixes, DatedInv, At
<1>3. N \in Nat
  BY NextSuffixIsNext
<1> HIDE DEF l, N
<1>4. m \in LogState(files, printed) /\ LogDated(m, files, dir, printed)
  <2>1. l.step # "idle" /\ "rename" \in {"idle", "rename", "reopen"}
    BY <1>2
  <2> QED BY <1>1, <1>3, <2>1, RotationFits
<1> HIDE DEF m
<1>5. Elsewhere(files, dir, printed, files', dir', printed')
  <2>1. Len(files) \in Nat /\ Len(printed) \in Nat
    BY DEF DatedInv, DirOK
  <2> QED BY <1>2, <2>1 DEF Elsewhere
<1>6. /\ DirOK(files', dir', printed') /\ Dated(files', dir', printed')
      /\ today' \in 0..LastDay
  BY <1>2 DEF DatedInv
<1>7. /\ m \in LogState(files', printed')
      /\ LogDated(m, files', dir', printed')
  BY <1>2, <1>4
<1> QED BY <1>2, <1>5, <1>6, <1>7, OneLogChanges

\* The directory after a rename, which may have failed: each file is in it
\* under a name of its day, at most one, and only by moving has a name got
\* another suffix.
Renamed(E, date, suffix) ==
    /\ \A e \in E : \/ e \in dir /\ ~(e.day = date /\ e.suffix = 0)
                    \/ \E b \in BaseOf(date) : e = [b EXCEPT !.suffix = suffix]
    /\ \A e \in dir : \/ e \in E
                      \/ [e EXCEPT !.suffix = suffix] \in E
                      \/ e.day = date /\ e.suffix = suffix

LEMMA RenameMoves ==
    ASSUME NEW p \in Procs, Rename(p)
    PROVE  dir' = dir \/ Renamed(dir', logs[p].date, logs[p].suffix)
BY DEF Rename, Renamed, BaseOf

LEMMA RenamedFits ==
    ASSUME NEW F, NEW P, DirOK(F, dir, P), Dated(F, dir, P),
           NEW E, NEW date, NEW suffix \in Nat, Renamed(E, date, suffix)
    PROVE  /\ DirOK(F, E, P) /\ Dated(F, E, P)
           /\ \A e \in E : \E d \in dir : d.file = e.file /\ d.day = e.day
<1>1. ASSUME NEW b \in dir
      PROVE  LET e == [b EXCEPT !.suffix = suffix]
             IN  /\ e \in Entry(F) /\ e.file = b.file /\ e.day = b.day
                 /\ e.suffix = suffix
  <2>1. b \in Entry(F)
    BY DEF DirOK
  <2> QED BY <2>1 DEF Entry
<1>2. \A e \in E :
        /\ e \in Entry(F)
        /\ \E d \in dir :
            /\ d.file = e.file /\ d.day = e.day
            /\ \/ e = d /\ ~(d.day = date /\ d.suffix = 0)
               \/ /\ e = [d EXCEPT !.suffix = suffix]
                  /\ d.day = date /\ d.suffix = 0
  <2> SUFFICES ASSUME NEW e \in E
               PROVE  /\ e \in Entry(F)
                      /\ \E d \in dir :
                          /\ d.file = e.file /\ d.day = e.day
                          /\ \/ e = d /\ ~(d.day = date /\ d.suffix = 0)
                             \/ /\ e = [d EXCEPT !.suffix = suffix]
                                /\ d.day = date /\ d.suffix = 0
    OBVIOUS
  <2>1. CASE e \in dir /\ ~(e.day = date /\ e.suffix = 0)
    BY <2>1 DEF DirOK
  <2>2. ASSUME NEW b \in BaseOf(date), e = [b EXCEPT !.suffix = suffix]
        PROVE  /\ e \in Entry(F)
               /\ b \in dir /\ b.file = e.file /\ b.day = e.day
               /\ b.day = date /\ b.suffix = 0
    <3>1. b \in dir /\ b.day = date /\ b.suffix = 0
      BY DEF BaseOf
    <3>2. e \in Entry(F) /\ e.file = b.file /\ e.day = b.day
      BY <1>1, <2>2, <3>1
    <3> QED BY <3>1, <3>2
  <2> QED BY <2>1, <2>2 DEF Renamed
<1>3. \A e, f \in E : e.file = f.file => e = f
  <2> SUFFICES ASSUME NEW e \in E, NEW f \in E, e.file = f.file
               PROVE  e = f
    OBVIOUS
  <2>1. PICK d \in dir :
            /\ d.file = e.file /\ d.day = e.day
            /\ \/ e = d /\ ~(d.day = date /\ d.suffix = 0)
               \/ /\ e = [d EXCEPT !.suffix = suffix]
                  /\ d.day = date /\ d.suffix = 0
    BY <1>2
  <2>2. PICK c \in dir :
            /\ c.file = f.file /\ c.day = f.day
            /\ \/ f = c /\ ~(c.day = date /\ c.suffix = 0)
               \/ /\ f = [c EXCEPT !.suffix = suffix]
                  /\ c.day = date /\ c.suffix = 0
    BY <1>2
  <2>3. c = d
    BY <2>1, <2>2 DEF DirOK
  <2> QED BY <2>1, <2>2, <2>3
<1>4. DirOK(F, E, P)
  BY <1>2, <1>3 DEF DirOK
<1>5. Dated(F, E, P)
  BY <1>2 DEF Dated
<1> QED BY <1>2, <1>4, <1>5

LEMMA RenameDated ==
    ASSUME DatedInv, NEW p \in Procs, Rename(p)
    PROVE  DatedInv'
<1> DEFINE l == logs[p]
           m == At(l, "reopen", 0)
<1>1. /\ l \in LogState(files, printed) /\ LogDated(l, files, dir, printed)
      /\ DirOK(files, dir, printed) /\ Dated(files, dir, printed)
  BY DEF DatedInv
<1>2. /\ l.step = "rename" /\ logs' = [logs EXCEPT ![p] = m]
      /\ UNCHANGED <<today, printed, files, crashes>>
  BY DEF Rename, DatedInv, At
<1>3. l.suffix \in Nat
  BY <1>1 DEF LogState
<1>4. /\ DirOK(files, dir', printed) /\ Dated(files, dir', printed)
      /\ \A e \in dir' : \E d \in dir : d.file = e.file /\ d.day = e.day
  <2>1. CASE dir' = dir
    BY <1>1, <2>1
  <2>2. CASE Renamed(dir', l.date, l.suffix)
    BY <1>1, <1>3, <2>2, RenamedFits
  <2> QED BY <2>1, <2>2, RenameMoves
<1> HIDE DEF l
<1>5. m \in LogState(files, printed) /\ LogDated(m, files, dir, printed)
  <2>1. /\ l.step # "idle" /\ "reopen" \in {"idle", "rename", "reopen"}
        /\ 0 \in Nat
    BY <1>2
  <2> QED BY <1>1, <2>1, RotationFits
<1> HIDE DEF m
<1>6. Len(files) \in Nat /\ Len(printed) \in Nat
  BY <1>1 DEF DirOK
<1>7. Elsewhere(files, dir, printed, files', dir', printed')
  BY <1>2, <1>4, <1>6 DEF Elsewhere
<1>8. /\ DirOK(files', dir', printed') /\ Dated(files', dir', printed')
      /\ today' \in 0..LastDay
  BY <1>2, <1>4 DEF DatedInv
<1>9. /\ m \in LogState(files', printed')
      /\ LogDated(m, files', dir', printed')
  BY <1>2, <1>5, <1>6, <1>7, LogStays
<1> QED BY <1>2, <1>7, <1>8, <1>9, OneLogChanges

LEMMA ReopenDated ==
    ASSUME DatedInv, NEW p \in Procs, Reopen(p)
    PROVE  DatedInv' /\ dir \subseteq dir' /\ Grown(files, files')
<1> DEFINE l == logs[p]
           k == [l EXCEPT !.step = "idle"]
           o == Opened(files, k.date)
<1>1. /\ l \in LogState(files, printed) /\ LogDated(l, files, dir, printed)
      /\ DirOK(files, dir, printed) /\ Dated(files, dir, printed)
  BY DEF DatedInv
<1>2. /\ l.step = "reopen" /\ UNCHANGED <<today, printed, crashes>>
      /\ \/ logs' = [logs EXCEPT ![p] = k] /\ UNCHANGED <<files, dir>>
         \/ /\ logs' = [logs EXCEPT ![p] = [k EXCEPT !.file = o.file]]
            /\ files' = o.files /\ dir' = o.dir
  BY DEF Reopen
<1>3. l.suffix \in Nat /\ k = At(l, "idle", l.suffix)
  BY <1>1 DEF LogState, At
<1> HIDE DEF l
<1>4. /\ k \in LogState(files, printed) /\ LogDated(k, files, dir, printed)
      /\ k.unwritten = 0 /\ k.date \in 0..LastDay /\ k.step = "idle"
  <2> HIDE DEF k
  <2>1. l.step # "idle" /\ "idle" \in {"idle", "rename", "reopen"}
    BY <1>2
  <2> QED BY <1>1, <1>3, <2>1, RotationFits
<1> HIDE DEF k
<1>5. Len(files) \in Nat /\ Len(printed) \in Nat
  BY <1>1 DEF DirOK
<1>6. today' \in 0..LastDay
  BY <1>2 DEF DatedInv
<1>7. CASE logs' = [logs EXCEPT ![p] = k] /\ UNCHANGED <<files, dir>>
  <2>1. /\ DirOK(files', dir', printed') /\ Dated(files', dir', printed')
        /\ k \in LogState(files', printed')
        /\ LogDated(k, files', dir', printed')
    BY <1>1, <1>2, <1>4, <1>7
  <2>2. Elsewhere(files, dir, printed, files', dir', printed')
    BY <1>2, <1>5, <1>7 DEF Elsewhere
  <2>3. Grown(files, files')
    BY <1>5, <1>7 DEF Grown
  <2> QED BY <1>6, <1>7, <2>1, <2>2, <2>3, OneLogChanges
<1>8. CASE /\ logs' = [logs EXCEPT ![p] = [k EXCEPT !.file = o.file]]
           /\ files' = o.files /\ dir' = o.dir
  <2> DEFINE m == [k EXCEPT !.file = o.file]
  <2>1. /\ OpensBase(o, files, k.date)
        /\ DirOK(o.files, o.dir, printed) /\ Dated(o.files, o.dir, printed)
    BY <1>1, <1>4, OpenedFits
  <2> HIDE DEF o
  <2>2. o.file \in 1..Len(o.files) /\ Len(o.files) \in Nat
    BY <2>1 DEF OpensBase, DirOK
  <2>3. m \in LogState(o.files, printed)
    BY <1>4, <2>2 DEF LogState
  <2>4. /\ m.file = o.file /\ m.unwritten = 0 /\ m.step = "idle"
        /\ m.date = k.date
    BY <1>4 DEF LogState
  <2> HIDE DEF m
  <2>5. LogDated(m, o.files, o.dir, printed)
    BY <1>4, <2>1, <2>4 DEF LogDated, OpensBase
  <2>6. Elsewhere(files, dir, printed, files', dir', printed')
    <3>1. \A e \in o.dir : e.file \in 0..Len(files) => e \in dir
      BY <1>5, <2>1, OpenedKeepsNames
    <3>2. Len(files) <= Len(files')
      BY <1>8, <2>1 DEF OpensBase
    <3> QED BY <1>2, <1>5, <1>8, <3>1, <3>2 DEF Elsewhere
  <2>7. dir \subseteq dir' /\ Grown(files, files')
    BY <1>8, <2>1 DEF OpensBase, Grown
  <2>8. logs' = [logs EXCEPT ![p] = m]
    BY <1>8 DEF m
  <2>9. /\ DirOK(files', dir', printed') /\ Dated(files', dir', printed')
        /\ m \in LogState(files', printed')
        /\ LogDated(m, files', dir', printed')
    BY <1>2, <1>8, <2>1, <2>3, <2>5
  <2> QED BY <1>6, <2>6, <2>7, <2>8, <2>9, OneLogChanges
<1> QED BY <1>2, <1>7, <1>8

\* The invariant holds in every state: of any number of processes on one
\* directory, killed and started again, whatever their clock shows.
THEOREM Invariance == Spec => []DatedInv
<1>1. Init => DatedInv
  <2> SUFFICES ASSUME Init PROVE DatedInv
    OBVIOUS
  <2>1. DirOK(files, dir, printed) /\ Dated(files, dir, printed)
    BY DEF Init, DirOK, Dated
  <2>2. 0 \in 0..NoDate /\ 0 \in 0..LastDay
    BY LogAssumption DEF NoDate
  <2>3. \A p \in Procs : /\ logs[p] \in LogState(files, printed)
                         /\ LogDated(logs[p], files, dir, printed)
    BY <2>1, <2>2, FreshLogFits DEF Init
  <2>4. logs \in [Procs -> LogState(files, printed)]
    BY <2>3 DEF Init
  <2> QED BY <2>1, <2>2, <2>3, <2>4 DEF Init, DatedInv
<1>2. DatedInv /\ [Next]_vars => DatedInv'
  <2> SUFFICES ASSUME DatedInv, [Next]_vars PROVE DatedInv'
    OBVIOUS
  <2>1. CASE ClockMoves
    BY <2>1 DEF ClockMoves, DatedInv
  <2>2. CASE UNCHANGED vars
    BY <2>2 DEF vars, DatedInv
  <2> QED BY <2>1, <2>2, InitLogDated, ShutdownDated, CrashDated,
             WriteLineDated, ScanSuffixesDated, RenameDated, ReopenDated
             DEF Next
<1> QED BY <1>1, <1>2, PTL DEF Spec

\* A file holds the lines of the date in its name, however many processes
\* share the directory.
THEOREM LinesByDay == Spec => []FilesByDay
<1>1. DatedInv => FilesByDay
  BY DEF DatedInv, Dated, FilesByDay, LinesOf
<1> QED BY <1>1, Invariance, PTL

-----------------------------------------------------------------------------
(* Rotation, in a directory that one process has to itself.                *)

LEMMA FewerInOrder ==
    ASSUME NEW F, NEW D, InOrder(F, D), NEW E \in SUBSET D
    PROVE  InOrder(F, E)
BY DEF InOrder

\* A log without an open stream, and not about to rename, is in order.
LEMMA ClosedInOrder ==
    ASSUME NEW F, NEW D, NEW P, DirOK(F, D, P), NEW l,
           l.file = 0, l.unwritten = 0, l.step # "rename"
    PROVE  LogInOrder(l, F, D)
<1>1. \A e \in D : e.file # 0
  BY DEF DirOK, Entry
<1> QED BY <1>1 DEF LogInOrder

LEMMA ClosingInOrder ==
    ASSUME DatedInv, OrderInv, NEW p \in Procs, NEW G \in Closings(logs[p])
    PROVE  InOrder(G, dir)
<1>1. DirOK(files, dir, printed) /\ InOrder(files, dir)
  BY DEF DatedInv, OrderInv
<1>2. CASE G = files
  BY <1>1, <1>2
<1>3. CASE G # files
  <2> DEFINE k == logs[p].file
             n == logs[p].unwritten
  <2>1. /\ k \in 1..Len(files) /\ n \in 1..Len(printed)
        /\ Adds(files, G, k, n)
    BY <1>3, ClosingAdds
  <2>2. n \in Nat /\ n # 0
    BY <2>1
  <2>3. /\ AllBefore(files, dir, n)
        /\ \A e \in dir : e.file = k => e.suffix = 0
    BY <2>2 DEF OrderInv, LogInOrder
  <2> HIDE DEF k, n
  <2> QED BY <1>1, <2>1, <2>2, <2>3, LineInOrder
<1> QED BY <1>2, <1>3

LEMMA NewLogsClosed ==
    /\ Uninitialized.file = 0 /\ Uninitialized.unwritten = 0
    /\ Uninitialized.step = "idle"
    /\ Initialized.file = 0 /\ Initialized.unwritten = 0
    /\ Initialized.step = "idle"
BY DEF Uninitialized, Initialized

LEMMA OneLogInOrder ==
    ASSUME DatedInv, NEW p \in Procs, Procs = {p},
           NEW m, logs' = [logs EXCEPT ![p] = m],
           InOrder(files', dir'), LogInOrder(m, files', dir')
    PROVE  OrderInv'
<1>1. logs'[p] = m
  BY DEF DatedInv
<1> QED BY <1>1 DEF OrderInv

LEMMA EndInOrder ==
    ASSUME DatedInv, DatedInv', OrderInv, NEW p \in Procs, Procs = {p},
           InitLog(p) \/ Shutdown(p) \/ Crash(p)
    PROVE  OrderInv'
<1>1. DirOK(files', dir', printed')
  BY DEF DatedInv
<1>2. PICK m : /\ logs' = [logs EXCEPT ![p] = m]
               /\ m = Uninitialized \/ m = Initialized
  BY DEF InitLog, Shutdown, Crash
<1>3. m.file = 0 /\ m.unwritten = 0 /\ m.step # "rename"
  BY <1>2, NewLogsClosed
<1>4. LogInOrder(m, files', dir')
  BY <1>1, <1>3, ClosedInOrder
<1>5. dir' \subseteq dir
  BY DEF InitLog, Shutdown, Crash
<1>6. InOrder(files', dir)
  <2>1. CASE files' = files
    BY <2>1 DEF OrderInv
  <2>2. CASE files' \in Closings(logs[p])
    BY <2>2, ClosingInOrder
  <2> QED BY <2>1, <2>2 DEF InitLog, Shutdown, Crash
<1>7. InOrder(files', dir')
  BY <1>5, <1>6, FewerInOrder
<1> QED BY <1>2, <1>4, <1>7, OneLogInOrder

LEMMA WriteToInOrder ==
    ASSUME NEW p \in Procs, NEW l, NEW F, NEW D, NEW P,
           DirOK(F, D, P), InOrder(F, D),
           l \in LogState(F, P), l.file # 0, l.unwritten = 0, l.step = "idle",
           \A e \in D : e.file = l.file => e.suffix = 0,
           NEW n \in Nat, AllBefore(F, D, n), WriteTo(p, l, F, n)
    PROVE  /\ InOrder(files', D)
           /\ \E m : /\ logs' = [logs EXCEPT ![p] = m]
                     /\ LogInOrder(m, files', D)
<1>1. F \in Seq(Seq(Nat)) /\ Len(F) \in Nat
  BY DEF DirOK
<1>2. l.file \in 1..Len(F)
  BY <1>1 DEF LogState
<1>3. CASE files' = F /\ logs' = [logs EXCEPT ![p] = [l EXCEPT !.unwritten = n]]
  <2> DEFINE m == [l EXCEPT !.unwritten = n]
  <2>1. m.file = l.file /\ m.unwritten = n /\ m.step = "idle"
    BY DEF LogState
  <2>2. logs' = [logs EXCEPT ![p] = m]
    BY <1>3
  <2> HIDE DEF m
  <2>3. LogInOrder(m, F, D)
    BY <2>1 DEF LogInOrder
  <2> QED BY <1>3, <2>2, <2>3
<1>4. ASSUME files' = Append1(F, l.file, n),
             NEW m, m = l \/ m = [l EXCEPT !.file = 0, !.step = "scan"],
             logs' = [logs EXCEPT ![p] = m]
      PROVE  InOrder(files', D) /\ LogInOrder(m, files', D)
  <2>1. Adds(F, files', l.file, n)
    BY <1>1, <1>2, <1>4, LineAdded
  <2>2. InOrder(files', D)
    BY <1>2, <2>1, LineInOrder
  <2>3. /\ m.file = l.file \/ m.file = 0
        /\ m.unwritten = 0 /\ m.step # "rename"
    BY <1>4 DEF LogState
  <2>4. \A e \in D : e.file # 0
    BY <1>1 DEF DirOK, Entry
  <2>5. LogInOrder(m, files', D)
    BY <2>3, <2>4 DEF LogInOrder
  <2> QED BY <2>2, <2>5
<1> DEFINE full == [l EXCEPT !.file = 0, !.step = "scan"]
           m == IF MaxFileLines = 0 \/ Len(files'[l.file]) < MaxFileLines
                THEN l ELSE full
<1>5. CASE files' = Append1(F, l.file, n) /\ logs' = [logs EXCEPT ![p] = m]
  <2>1. m = l \/ m = [l EXCEPT !.file = 0, !.step = "scan"]
    OBVIOUS
  <2> HIDE DEF m
  <2> QED BY <1>4, <1>5, <2>1
<1> QED BY <1>3, <1>5 DEF WriteTo

LEMMA WriteLineInOrder ==
    ASSUME DatedInv, DatedInv', OrderInv, NEW p \in Procs, Procs = {p},
           WriteLine(p)
    PROVE  OrderInv'
<1> DEFINE l == logs[p]
           n == Len(printed) + 1
           fresh == [Initialized EXCEPT !.date = today]
<1>1. /\ DirOK(files, dir, printed) /\ Dated(files, dir, printed)
      /\ l \in LogState(files, printed)
      /\ InOrder(files, dir) /\ LogInOrder(l, files, dir)
      /\ today \in 0..LastDay
  BY DEF DatedInv, OrderInv
<1>2. DirOK(files', dir', printed')
  BY DEF DatedInv
<1>3. l.step = "idle" /\ n \in Nat
  BY <1>1, NextLineIsPrinted DEF WriteLine
<1>4. \A F, D : DirOK(F, D, printed) /\ Dated(F, D, printed)
                    => AllBefore(F, D, n)
  BY <1>1, NextLineIsPrinted
<1> HIDE DEF l, n
<1>5. CASE dir' = dir /\ files' = files /\ logs' = logs
  BY <1>1, <1>5 DEF OrderInv, l
<1>6. CASE FileIsCurrent(l, today) /\ dir' = dir
           /\ l.unwritten = 0 /\ WriteTo(p, l, files, n)
  <2>1. AllBefore(files, dir, n)
    BY <1>1, <1>4
  <2>2. l.file # 0 /\ \A e \in dir : e.file = l.file => e.suffix = 0
    BY <1>1, <1>6 DEF FileIsCurrent, LogInOrder
  <2>3. /\ InOrder(files', dir)
        /\ \E m : /\ logs' = [logs EXCEPT ![p] = m]
                  /\ LogInOrder(m, files', dir)
    BY <1>1, <1>3, <1>6, <2>1, <2>2, WriteToInOrder
  <2> QED BY <1>6, <2>3, OneLogInOrder
<1>7. ASSUME NEW F \in Closings(l), files' = F,
             logs' = [logs EXCEPT ![p] = fresh], dir' = dir
      PROVE  OrderInv'
  <2>1. InOrder(F, dir)
    BY ClosingInOrder DEF l
  <2>2. fresh.file = 0 /\ fresh.unwritten = 0 /\ fresh.step # "rename"
    BY DEF Initialized, Uninitialized
  <2> HIDE DEF fresh
  <2>3. LogInOrder(fresh, files', dir')
    BY <1>2, <2>2, ClosedInOrder
  <2> QED BY <1>7, <2>1, <2>3, OneLogInOrder
<1>8. ASSUME NEW F \in Closings(l), NEW o, o = Opened(F, today),
             WriteTo(p, [fresh EXCEPT !.file = o.file], o.files, n),
             dir' = o.dir
      PROVE  OrderInv'
  <2> DEFINE k == [fresh EXCEPT !.file = o.file]
  <2>1. /\ DirOK(F, dir, printed) /\ Dated(F, dir, printed)
        /\ InOrder(F, dir)
    BY <1>8, ClosingFits, ClosingInOrder DEF l
  <2>2. /\ OpensBase(o, F, today)
        /\ DirOK(o.files, o.dir, printed) /\ Dated(o.files, o.dir, printed)
    BY <1>1, <1>8, <2>1, OpenedFits
  <2>3. InOrder(o.files, o.dir)
    BY <2>1, <2>2, OpenedInOrder
  <2>4. AllBefore(o.files, o.dir, n)
    BY <1>4, <2>2
  <2>5. o.file \in 1..Len(o.files) /\ Len(o.files) \in Nat
    BY <2>2 DEF OpensBase, DirOK
  <2>6. k \in OpenLog(today, o.file)
    BY OpenLogFits
  <2>7. WriteTo(p, k, o.files, n)
    BY <1>8
  <2> HIDE DEF k, fresh
  <2>8. k.file = o.file /\ k.file # 0 /\ k.unwritten = 0 /\ k.step = "idle"
    BY <2>5, <2>6 DEF OpenLog
  <2>9. k \in LogState(o.files, printed)
    <3>1. /\ today \in 0..NoDate /\ 0 \in 0..Len(printed)
          /\ o.file \in 0..Len(o.files)
      BY <1>1, <2>5, LogAssumption DEF NoDate, DirOK
    <3> QED BY <2>6, <3>1 DEF OpenLog, LogState
  <2>10. \A e \in o.dir : e.file = k.file => e.suffix = 0
    BY <2>2, <2>8 DEF OpensBase
  <2>11. /\ InOrder(files', o.dir)
         /\ \E m : /\ logs' = [logs EXCEPT ![p] = m]
                   /\ LogInOrder(m, files', o.dir)
    BY <1>3, <2>2, <2>3, <2>4, <2>7, <2>8, <2>9, <2>10, WriteToInOrder
  <2> QED BY <1>8, <2>11, OneLogInOrder
<1> QED BY <1>5, <1>6, <1>7, <1>8 DEF WriteLine, l, n

LEMMA ScanSuffixesInOrder ==
    ASSUME DatedInv, DatedInv', OrderInv, BelowLimit,
           NEW p \in Procs, Procs = {p}, ScanSuffixes(p)
    PROVE  OrderInv'
<1> DEFINE l == logs[p]
           N == NextRotateSuffix(l.date)
           m == At(l, "rename", N)
<1>1. /\ l \in LogState(files, printed) /\ LogDated(l, files, dir, printed)
      /\ DirOK(files, dir, printed) /\ InOrder(files, dir)
  BY DEF DatedInv, OrderInv
<1>2. /\ l.step = "scan" /\ logs' = [logs EXCEPT ![p] = m]
      /\ UNCHANGED <<files, dir>>
  BY DEF ScanSuffixes, DatedInv, At
<1>3. N \in Nat \ {0} /\ \A x \in Suffixes(l.date) : x < N
  BY NextSuffixIsNext
<1>4. \A e \in dir : e.day = l.date => e.suffix < N
  <2> SUFFICES ASSUME NEW e \in dir, e.day = l.date PROVE e.suffix < N
    OBVIOUS
  <2>1. e.suffix \in Nat /\ e.suffix < SuffixLimit /\ SuffixLimit \in Nat
    BY <1>1, LogAssumption DEF DirOK, Entry, BelowLimit
  <2> HIDE DEF N
  <2>2. CASE e.suffix = 0
    BY <1>3, <2>2
  <2>3. CASE e.suffix # 0
    <3>1. e.suffix \in 1..(SuffixLimit - 1)
      BY <2>1, <2>3
    <3>2. e.suffix \in Suffixes(l.date)
      BY <3>1 DEF Suffixes
    <3> QED BY <1>3, <3>2
  <2> QED BY <2>2, <2>3
<1> HIDE DEF l, N
<1>5. /\ m.file = 0 /\ m.unwritten = 0 /\ m.date = l.date
      /\ m.step = "rename" /\ m.suffix = N
  BY <1>1, <1>2, <1>3, RotationFits
<1> HIDE DEF m
<1>6. \A e \in dir : e.file # 0
  BY <1>1 DEF DirOK, Entry
<1>7. LogInOrder(m, files, dir)
  BY <1>4, <1>5, <1>6 DEF LogInOrder
<1> QED BY <1>1, <1>2, <1>7, OneLogInOrder

\* The base file moves to a suffix after all others of its day.
LEMMA RenamedInOrder ==
    ASSUME NEW F, NEW P, DirOK(F, dir, P), InOrder(F, dir),
           NEW E, NEW date, NEW suffix \in Nat, Renamed(E, date, suffix),
           \A e \in dir : e.day = date => e.suffix < suffix
    PROVE  InOrder(F, E)
<1>1. \A e \in dir : e.suffix \in Nat /\ e \in Entry(F)
  BY DEF DirOK, Entry
<1>2. ASSUME NEW e \in E
      PROVE  \E d \in dir :
                /\ d.file = e.file /\ d.day = e.day
                /\ \/ e = d /\ ~(d.day = date /\ d.suffix = 0)
                   \/ d.day = date /\ d.suffix = 0 /\ e.suffix = suffix
  <2>1. CASE e \in dir /\ ~(e.day = date /\ e.suffix = 0)
    BY <2>1
  <2>2. ASSUME NEW b \in BaseOf(date), e = [b EXCEPT !.suffix = suffix]
        PROVE  /\ b \in dir /\ b.file = e.file /\ b.day = e.day
               /\ b.day = date /\ b.suffix = 0 /\ e.suffix = suffix
    <3>1. b \in dir /\ b.day = date /\ b.suffix = 0
      BY DEF BaseOf
    <3> QED BY <1>1, <2>2, <3>1 DEF Entry
  <2> QED BY <2>1, <2>2 DEF Renamed
<1> SUFFICES ASSUME NEW e \in E, NEW f \in E, e.day = f.day, e.suffix # 0,
                    f.suffix = 0 \/ e.suffix < f.suffix,
                    NEW a \in Range(F[e.file]), NEW b \in Range(F[f.file])
             PROVE  a < b
  BY DEF InOrder
<1>3. PICK d \in dir :
        /\ d.file = e.file /\ d.day = e.day
        /\ \/ e = d /\ ~(d.day = date /\ d.suffix = 0)
           \/ d.day = date /\ d.suffix = 0 /\ e.suffix = suffix
  BY <1>2
<1>4. PICK c \in dir :
        /\ c.file = f.file /\ c.day = f.day
        /\ \/ f = c /\ ~(c.day = date /\ c.suffix = 0)
           \/ c.day = date /\ c.suffix = 0 /\ f.suffix = suffix
  BY <1>2
<1>5. e = d /\ ~(d.day = date /\ d.suffix = 0)
  <2> SUFFICES ASSUME d.day = date, d.suffix = 0, e.suffix = suffix
               PROVE  FALSE
    BY <1>3
  <2>1. CASE f = c /\ ~(c.day = date /\ c.suffix = 0)
    <3>1. f.day = date /\ f.suffix # 0 /\ f.suffix < suffix
      BY <1>3, <2>1
    <3> QED BY <1>1, <2>1, <3>1
  <2>2. CASE f.suffix = suffix
    BY <2>2
  <2> QED BY <1>4, <2>1, <2>2
<1>6. c.day = d.day /\ d.suffix # 0 /\ (c.suffix = 0 \/ d.suffix < c.suffix)
  BY <1>3, <1>4, <1>5
<1> QED BY <1>3, <1>4, <1>5, <1>6 DEF InOrder

LEMMA RenameInOrder ==
    ASSUME DatedInv, DatedInv', OrderInv, NEW p \in Procs, Procs = {p},
           Rename(p)
    PROVE  OrderInv'
<1> DEFINE l == logs[p]
           m == At(l, "reopen", 0)
<1>1. /\ l \in LogState(files, printed) /\ LogDated(l, files, dir, printed)
      /\ DirOK(files, dir, printed) /\ InOrder(files, dir)
      /\ LogInOrder(l, files, dir)
  BY DEF DatedInv, OrderInv
<1>2. /\ l.step = "rename" /\ logs' = [logs EXCEPT ![p] = m]
      /\ UNCHANGED files
  BY DEF Rename, DatedInv, At
<1>3. l.suffix \in Nat /\ \A e \in dir : e.day = l.date => e.suffix < l.suffix
  BY <1>1, <1>2 DEF LogState, LogInOrder
<1>4. InOrder(files, dir')
  <2>1. CASE dir' = dir
    BY <1>1, <2>1
  <2>2. CASE Renamed(dir', l.date, l.suffix)
    BY <1>1, <1>3, <2>2, RenamedInOrder
  <2> QED BY <2>1, <2>2, RenameMoves
<1> HIDE DEF l
<1>5. m.file = 0 /\ m.unwritten = 0 /\ m.step # "rename"
  <2>1. m.file = 0 /\ m.unwritten = 0 /\ m.step = "reopen"
    BY <1>1, <1>2, RotationFits
  <2> QED BY <2>1
<1> HIDE DEF m
<1>6. LogInOrder(m, files', dir')
  <2>1. DirOK(files', dir', printed')
    BY DEF DatedInv
  <2> QED BY <1>5, <2>1, ClosedInOrder
<1> QED BY <1>2, <1>4, <1>6, OneLogInOrder

LEMMA ReopenInOrder ==
    ASSUME DatedInv, DatedInv', OrderInv, NEW p \in Procs, Procs = {p},
           Reopen(p)
    PROVE  OrderInv'
<1> DEFINE l == logs[p]
           k == [l EXCEPT !.step = "idle"]
           o == Opened(files, k.date)
<1>1. /\ l \in LogState(files, printed) /\ LogDated(l, files, dir, printed)
      /\ DirOK(files, dir, printed) /\ Dated(files, dir, printed)
      /\ InOrder(files, dir) /\ DirOK(files', dir', printed')
  BY DEF DatedInv, OrderInv
<1>2. /\ l.step = "reopen"
      /\ \/ logs' = [logs EXCEPT ![p] = k] /\ UNCHANGED <<files, dir>>
         \/ /\ logs' = [logs EXCEPT ![p] = [k EXCEPT !.file = o.file]]
            /\ files' = o.files /\ dir' = o.dir
  BY DEF Reopen
<1>3. l.suffix \in Nat /\ k = At(l, "idle", l.suffix)
  BY <1>1 DEF LogState, At
<1> HIDE DEF l
<1>4. /\ k \in LogState(files, printed) /\ k.file = 0
      /\ k.unwritten = 0 /\ k.date \in 0..LastDay /\ k.step = "idle"
  <2> HIDE DEF k
  <2>1. l.step # "idle" /\ "idle" \in {"idle", "rename", "reopen"}
    BY <1>2
  <2> QED BY <1>1, <1>3, <2>1, RotationFits
<1> HIDE DEF k
<1>5. CASE logs' = [logs EXCEPT ![p] = k] /\ UNCHANGED <<files, dir>>
  <2>1. LogInOrder(k, files', dir')
    BY <1>1, <1>4, ClosedInOrder
  <2> QED BY <1>1, <1>5, <2>1, OneLogInOrder
<1>6. CASE /\ logs' = [logs EXCEPT ![p] = [k EXCEPT !.file = o.file]]
           /\ files' = o.files /\ dir' = o.dir
  <2> DEFINE m == [k EXCEPT !.file = o.file]
  <2>1. OpensBase(o, files, k.date)
    BY <1>1, <1>4, OpenedFits
  <2> HIDE DEF o
  <2>2. InOrder(o.files, o.dir)
    BY <1>1, <2>1, OpenedInOrder
  <2>3. m.file = o.file /\ m.unwritten = 0 /\ m.step = "idle"
    BY <1>4 DEF LogState
  <2>4. logs' = [logs EXCEPT ![p] = m]
    BY <1>6
  <2> HIDE DEF m
  <2>5. LogInOrder(m, files', dir')
    BY <1>6, <2>1, <2>3 DEF LogInOrder, OpensBase
  <2> QED BY <1>6, <2>2, <2>4, <2>5, OneLogInOrder
<1> QED BY <1>2, <1>5, <1>6

LEMMA StepInOrder ==
    ASSUME NEW p, Procs = {p}, DatedInv, DatedInv', OrderInv, BelowLimit,
           [Next]_vars
    PROVE  OrderInv'
<1>1. p \in Procs
  OBVIOUS
<1>2. CASE ClockMoves \/ UNCHANGED vars
  BY <1>2 DEF ClockMoves, vars, OrderInv
<1>3. CASE \/ InitLog(p) \/ Shutdown(p) \/ Crash(p) \/ WriteLine(p)
           \/ ScanSuffixes(p) \/ Rename(p) \/ Reopen(p)
  BY <1>1, <1>3, EndInOrder, WriteLineInOrder, ScanSuffixesInOrder,
     RenameInOrder, ReopenInOrder
<1> QED BY <1>2, <1>3 DEF Next

\* As long as nextRotateSuffix looks at all files there are, the files of a
\* day are in the order of their numbers.
THEOREM OrderInvariance ==
    ASSUME NEW p, Procs = {p}
    PROVE  Spec /\ []BelowLimit => [](DatedInv /\ OrderInv)
<1>1. Init => OrderInv
  <2> SUFFICES ASSUME Init PROVE OrderInv
    OBVIOUS
  <2>1. \A q \in Procs : LogInOrder(logs[q], files, dir)
    BY NewLogsClosed DEF Init, LogInOrder
  <2> QED BY <2>1 DEF Init, OrderInv, InOrder
<1>2. DatedInv /\ DatedInv' /\ OrderInv /\ BelowLimit /\ [Next]_vars
        => OrderInv'
  BY StepInOrder
<1> QED BY <1>1, <1>2, Invariance, PTL DEF Spec

THEOREM RotationInOrder ==
    ASSUME NEW p, Procs = {p}
    PROVE  Spec /\ []BelowLimit => []RotatedInOrder
<1>1. OrderInv => RotatedInOrder
  BY DEF OrderInv, InOrder, RotatedInOrder, LinesOf
<1> QED BY <1>1, OrderInvariance, PTL

-----------------------------------------------------------------------------
(* No line is lost.                                                        *)

\* A line is kept if its file still has a name, and its lines.
LEMMA LinesKept ==
    ASSUME DatedInv, Grown(files, files'),
           \A e \in dir : \E f \in dir' : f.file = e.file
    PROVE  Kept \subseteq Kept'
<1> SUFFICES ASSUME NEW e \in dir, NEW n \in LinesOf(e)
             PROVE  n \in Kept'
  BY DEF Kept
<1>1. e.file \in 1..Len(files)
  BY DEF DatedInv, DirOK, Entry
<1>2. PICK f \in dir' : f.file = e.file
  OBVIOUS
<1>3. n \in Range(files'[f.file])
  BY <1>1, <1>2 DEF LinesOf, Grown
<1> QED BY <1>3 DEF Kept, LinesOf

LEMMA FilesStay ==
    ASSUME DatedInv, files' = files
    PROVE  Grown(files, files')
<1>1. Len(files) \in Nat
  BY DEF DatedInv, DirOK
<1> QED BY <1>1 DEF Grown

\* A purge removes lines of days that are over, and no others.
LEMMA PurgeLoses ==
    ASSUME DatedInv, Grown(files, files'), today \in 0..LastDay,
           dir \ dir' \subseteq Purgeable(dir)
    PROVE  \A n \in Kept \ Kept' :
                RetainDays # 0 /\ today > printed[n] + RetainDays
<1> SUFFICES ASSUME NEW e \in dir, NEW n \in LinesOf(e), n \notin Kept'
             PROVE  RetainDays # 0 /\ today > printed[n] + RetainDays
  BY DEF Kept
<1>1. e.file \in 1..Len(files)
  BY DEF DatedInv, DirOK, Entry
<1>2. n \in Range(files'[e.file])
  BY <1>1 DEF LinesOf, Grown
<1>3. e \notin dir'
  BY <1>2 DEF Kept, LinesOf
<1>4. RetainDays # 0 /\ today > e.day + RetainDays
  BY <1>3 DEF Purgeable
<1>5. printed[n] = e.day
  BY DEF DatedInv, Dated, LinesOf
<1> QED BY <1>4, <1>5

\* A rename that takes no name from another file keeps every file.
LEMMA RenameKeeps ==
    ASSUME DatedInv, OrderInv, NEW p \in Procs, Rename(p)
    PROVE  Kept \subseteq Kept'
<1> DEFINE l == logs[p]
<1>1. /\ l.step = "rename" /\ files' = files
      /\ \A e \in dir : e.day = l.date => e.suffix < l.suffix
      /\ \A e \in dir : e \in Entry(files)
      /\ l.suffix \in Nat
  BY DEF Rename, OrderInv, LogInOrder, DatedInv, DirOK, LogState
<1>2. Grown(files, files')
  BY <1>1, FilesStay
<1>3. \A e \in dir : \E f \in dir' : f.file = e.file
  <2> SUFFICES ASSUME NEW e \in dir PROVE \E f \in dir' : f.file = e.file
    OBVIOUS
  <2>1. CASE e \in dir'
    BY <2>1
  <2>2. CASE [e EXCEPT !.suffix = l.suffix] \in dir'
    <3>1. [e EXCEPT !.suffix = l.suffix].file = e.file
      BY <1>1 DEF Entry
    <3> QED BY <2>2, <3>1
  <2>3. ~(e.day = l.date /\ e.suffix = l.suffix)
    BY <1>1 DEF Entry
  <2> QED BY <2>1, <2>2, <2>3, RenameMoves DEF Renamed
<1> QED BY <1>2, <1>3, LinesKept

LEMMA StepKeeps ==
    ASSUME NEW p, Procs = {p}, DatedInv, OrderInv, [Next]_vars
    PROVE  \A n \in Kept \ Kept' :
                RetainDays # 0 /\ today > printed[n] + RetainDays
<1>1. p \in Procs /\ today \in 0..LastDay
  BY DEF DatedInv
<1>2. CASE InitLog(p)
  <2>1. Grown(files, files') /\ dir \ dir' \subseteq Purgeable(dir)
    BY <1>1, <1>2, ClosingFits DEF InitLog
  <2> QED BY <1>1, <2>1, PurgeLoses
<1>3. CASE Crash(p)
  <2>1. Grown(files, files') /\ dir \ dir' \subseteq Purgeable(dir)
    BY <1>3, FilesStay DEF Crash
  <2> QED BY <1>1, <2>1, PurgeLoses
<1>4. CASE Rename(p)
  BY <1>1, <1>4, RenameKeeps
<1>5. CASE WriteLine(p) \/ Reopen(p)
  BY <1>1, <1>5, WriteLineDated, ReopenDated, LinesKept
<1>6. CASE Shutdown(p)
  <2>1. Grown(files, files') /\ dir' = dir
    BY <1>1, <1>6, ClosingFits DEF Shutdown
  <2> QED BY <2>1, LinesKept
<1>7. CASE ScanSuffixes(p) \/ ClockMoves \/ UNCHANGED vars
  <2>1. files' = files /\ dir' = dir
    BY <1>7 DEF ScanSuffixes, ClockMoves, vars
  <2> QED BY <2>1 DEF Kept, LinesOf
<1> QED BY <1>2, <1>3, <1>4, <1>5, <1>6, <1>7 DEF Next

\* As long as nextRotateSuffix looks at all files there are, a line is lost
\* only to a purge, and when it is old enough.
THEOREM HistoryKept ==
    ASSUME NEW p, Procs = {p}
    PROVE  Spec /\ []BelowLimit => KeepsHistory
<1>1. DatedInv /\ OrderInv /\ [Next]_vars =>
        [\A n \in Kept \ Kept' :
            RetainDays # 0 /\ today > printed[n] + RetainDays]_vars
  BY StepKeeps
<1> QED BY <1>1, OrderInvariance, PTL DEF Spec, KeepsHistory

-----------------------------------------------------------------------------
(* The limit is not reached before there are as many lines.                *)

\* WriteLine leaves the log idle or about to scan.
LEMMA WriteLineNames ==
    ASSUME DatedInv, NEW p \in Procs, WriteLine(p)
    PROVE  /\ logs'[p].step # "rename"
           /\ \A e \in dir' : e \in dir \/ e.suffix = 0
<1> DEFINE l == logs[p]
           n == Len(printed) + 1
           fresh == [Initialized EXCEPT !.date = today]
<1>1. l \in LogState(files, printed) /\ l.step = "idle"
  BY DEF DatedInv, WriteLine
<1>2. fresh.step = "idle"
  BY DEF Initialized, Uninitialized
<1>3. ASSUME NEW k, k.step = "idle", NEW F, WriteTo(p, k, F, n),
             \/ k = l
             \/ \E file : k = [fresh EXCEPT !.file = file]
      PROVE  logs'[p].step # "rename"
  <2>1. PICK m : /\ logs' = [logs EXCEPT ![p] = m]
                 /\ \/ m = [k EXCEPT !.unwritten = n]
                    \/ m = k
                    \/ m = [k EXCEPT !.file = 0, !.step = "scan"]
    BY <1>3 DEF WriteTo
  <2>2. logs'[p] = m
    BY <2>1 DEF DatedInv
  <2>3. m.step # "rename"
    BY <1>1, <1>3, <2>1 DEF LogState, Initialized, Uninitialized
  <2> QED BY <2>2, <2>3
<1>4. \A F : \A e \in Opened(F, today).dir : e \in dir \/ e.suffix = 0
  BY DEF Opened
<1>5. CASE logs' = logs /\ dir' = dir
  BY <1>1, <1>5
<1>6. CASE dir' = dir /\ WriteTo(p, l, files, n)
  BY <1>1, <1>3, <1>6
<1>7. CASE logs' = [logs EXCEPT ![p] = fresh] /\ dir' = dir
  <2>1. logs'[p] = fresh
    BY <1>7 DEF DatedInv
  <2> QED BY <1>2, <1>7, <2>1
<1>8. ASSUME NEW F, NEW o, o = Opened(F, today), dir' = o.dir,
             WriteTo(p, [fresh EXCEPT !.file = o.file], o.files, n)
      PROVE  /\ logs'[p].step # "rename"
             /\ \A e \in dir' : e \in dir \/ e.suffix = 0
  <2>1. [fresh EXCEPT !.file = o.file].step = "idle"
    BY DEF Initialized, Uninitialized
  <2> QED BY <1>3, <1>4, <1>8, <2>1
<1> QED BY <1>5, <1>6, <1>7, <1>8 DEF WriteLine

LEMMA StepCounts ==
    ASSUME NEW p, Procs = {p}, DatedInv, DatedInv', SuffixesCounted,
           [Next]_vars
    PROVE  SuffixesCounted'
<1> DEFINE l == logs[p]
<1>1. /\ p \in Procs
      /\ l \in LogState(files, printed)
      /\ LogDated(l, files, dir, printed)
      /\ \A e \in dir : e \in Entry(files)
      /\ \A e \in dir' : e.suffix \in Nat
      /\ Len(printed) \in Nat /\ Len(printed) <= MaxPrinted
      /\ \A e \in dir : e.suffix <= Len(printed) /\ e.suffix \in Nat
      /\ DirOK(files, dir, printed)
  BY DEF DatedInv, DirOK, Entry, SuffixesCounted
<1>2. CASE InitLog(p) \/ Shutdown(p) \/ Crash(p)
  <2>1. PICK m : /\ logs' = [logs EXCEPT ![p] = m]
                 /\ m = Uninitialized \/ m = Initialized
    BY <1>2 DEF InitLog, Shutdown, Crash
  <2>2. logs'[p] = m /\ m.step = "idle"
    BY <2>1, NewLogsClosed DEF DatedInv
  <2>3. dir' \subseteq dir /\ printed' = printed
    BY <1>2 DEF InitLog, Shutdown, Crash
  <2> QED BY <1>1, <2>2, <2>3 DEF SuffixesCounted
<1>3. CASE WriteLine(p)
  <2>1. /\ printed' = Append(printed, today) /\ Len(printed) + 1 <= MaxPrinted
        /\ today \in 0..LastDay
    BY <1>3 DEF WriteLine, DatedInv
  <2>2. Len(printed') = Len(printed) + 1
    BY <1>1, <2>1, NextLineIsPrinted
  <2>3. /\ logs'[p].step # "rename"
        /\ \A e \in dir' : e \in dir \/ e.suffix = 0
    BY <1>1, <1>3, WriteLineNames
  <2>4. \A e \in dir' : e.suffix < Len(printed')
    BY <1>1, <2>2, <2>3
  <2> QED BY <1>1, <2>1, <2>2, <2>3, <2>4 DEF SuffixesCounted
<1>4. CASE ScanSuffixes(p)
  <2> DEFINE N == NextRotateSuffix(l.date)
             m == At(l, "rename", N)
  <2>1. /\ l.step = "scan" /\ logs' = [logs EXCEPT ![p] = m]
        /\ UNCHANGED <<printed, files, dir>>
    BY <1>4 DEF ScanSuffixes, DatedInv, At
  <2>2. 0 < Len(printed) /\ \A e \in dir : e.suffix < Len(printed)
    BY <2>1, <1>1 DEF SuffixesCounted
  <2>3. N \in Nat /\ N <= Len(printed)
    <3>1. \A x \in Suffixes(l.date) : x < Len(printed)
      BY <2>2 DEF Suffixes
    <3> QED BY <1>1, <2>2, <3>1, NextSuffixIsNext, NextSuffixComesFrom
  <2> HIDE DEF l, N
  <2>4. m.step = "rename" /\ m.suffix = N
    BY <1>1, <2>1, <2>3, RotationFits
  <2>5. logs'[p] = m
    BY <1>1, <2>1 DEF DatedInv
  <2> HIDE DEF m
  <2> QED BY <1>1, <2>1, <2>3, <2>4, <2>5 DEF SuffixesCounted
<1>5. CASE Rename(p)
  <2> DEFINE m == At(l, "reopen", 0)
  <2>1. /\ l.step = "rename" /\ logs' = [logs EXCEPT ![p] = m]
        /\ UNCHANGED <<printed, files>>
    BY <1>5 DEF Rename, DatedInv, At
  <2>2. l.suffix <= Len(printed)
    BY <1>1, <2>1 DEF SuffixesCounted
  <2>3. \A e \in dir' : e.suffix <= Len(printed)
    <3>1. \A b \in dir : [b EXCEPT !.suffix = l.suffix].suffix = l.suffix
      BY <1>1 DEF Entry
    <3>2. \A e \in dir' : e \in dir \/ e.suffix = l.suffix
      <4>1. CASE dir' = dir
        BY <4>1
      <4>2. CASE Renamed(dir', l.date, l.suffix)
        <5>1. \A e \in dir' : e \in dir \/
                \E b \in BaseOf(l.date) : e = [b EXCEPT !.suffix = l.suffix]
          BY <4>2, Zenon DEF Renamed
        <5>2. \A b \in BaseOf(l.date) : [b EXCEPT !.suffix = l.suffix].suffix
                                            = l.suffix
          BY <3>1, Zenon DEF BaseOf
        <5> QED BY <5>1, <5>2
      <4> QED BY <1>1, <1>5, <4>1, <4>2, RenameMoves
    <3> QED BY <1>1, <2>2, <3>2
  <2> HIDE DEF l
  <2>4. m.step = "reopen"
    BY <1>1, <2>1, RotationFits
  <2>5. logs'[p] = m
    BY <1>1, <2>1 DEF DatedInv
  <2> HIDE DEF m
  <2> QED BY <1>1, <2>1, <2>3, <2>4, <2>5 DEF SuffixesCounted
<1>6. CASE Reopen(p)
  <2> DEFINE k == [l EXCEPT !.step = "idle"]
  <2>1. PICK m : /\ logs' = [logs EXCEPT ![p] = m]
                 /\ m = k \/ \E file : m = [k EXCEPT !.file = file]
    BY <1>6 DEF Reopen
  <2>2. logs'[p] = m /\ m.step = "idle"
    BY <1>1, <2>1 DEF DatedInv, LogState
  <2>3. printed' = printed
    BY <1>6 DEF Reopen
  <2>4. \A e \in dir' : e \in dir \/ e.suffix = 0
    BY <1>6 DEF Reopen, Opened
  <2> QED BY <1>1, <2>2, <2>3, <2>4 DEF SuffixesCounted
<1>7. CASE ClockMoves \/ UNCHANGED vars
  BY <1>7 DEF ClockMoves, vars, SuffixesCounted
<1> QED BY <1>2, <1>3, <1>4, <1>5, <1>6, <1>7 DEF Next

\* Each rotation takes a line, so that fewer lines than nextRotateSuffix
\* looks at suffixes never bring a file beyond it ...
THEOREM LimitNotReached ==
    ASSUME NEW p, Procs = {p}, MaxPrinted < SuffixLimit
    PROVE  Spec => []BelowLimit
<1>1. Init => SuffixesCounted
  <2> SUFFICES ASSUME Init PROVE SuffixesCounted
    OBVIOUS
  <2>1. \A q \in Procs : logs[q].step = "idle"
    BY NewLogsClosed DEF Init
  <2>2. Len(printed) = 0 /\ dir = {} /\ 0 <= MaxPrinted
    BY LogAssumption DEF Init
  <2> QED BY <2>1, <2>2 DEF SuffixesCounted
<1>2. DatedInv /\ DatedInv' /\ SuffixesCounted /\ [Next]_vars
        => SuffixesCounted'
  BY StepCounts
<1>3. DatedInv /\ SuffixesCounted => BelowLimit
  <2> SUFFICES ASSUME DatedInv, SuffixesCounted, NEW e \in dir
               PROVE  e.suffix < SuffixLimit
    BY DEF BelowLimit
  <2>1. e.suffix <= Len(printed) /\ Len(printed) <= MaxPrinted
    BY DEF SuffixesCounted
  <2>2. e.suffix \in Nat /\ Len(printed) \in Nat
    BY DEF DatedInv, DirOK, Entry
  <2> QED BY <2>1, <2>2, LogAssumption
<1> QED BY <1>1, <1>2, <1>3, Invariance, PTL DEF Spec

\* ... and then nothing more has to be assumed.
COROLLARY ShortLogs ==
    ASSUME NEW p, Procs = {p}, MaxPrinted < SuffixLimit
    PROVE  Spec => []RotatedInOrder /\ KeepsHistory
BY LimitNotReached, RotationInOrder, HistoryKept, PTL
=============================================================================
