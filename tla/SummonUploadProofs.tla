-------------------------- MODULE SummonUploadProofs --------------------------
(***************************************************************************)
(* What a handler of SummonUpload does to the store and publishes, for     *)
(* every value of the constants: the session that is put back, and the     *)
(* content that is sent with it.  Before that, what the operations on a    *)
(* table keyed by CmdId do to its keys, and what arm, reset, disarm, the   *)
(* clock and tick do to the table of deadlines.                            *)
(***************************************************************************)
EXTENDS SummonUpload, SequenceTheorems, TLAPS

-----------------------------------------------------------------------------
(* Tables.                                                                 *)

\* Removing a CmdId from a table removes just this key and keeps it keyed.
LEMMA WithoutKeys ==
    ASSUME NEW S, NEW c
    PROVE  /\ Ids(Without(S, c)) = Ids(S) \ {c}
           /\ Without(S, c) \subseteq S
           /\ Keyed(S) => Keyed(Without(S, c))
BY DEF Ids, Without, Keyed

\* Putting a record adds its key, and a keyed table stays keyed.
LEMMA PutKeys ==
    ASSUME NEW S, NEW r
    PROVE  /\ Ids(Put(S, r)) = Ids(S) \cup {r.cmdId}
           /\ Keyed(S) => Keyed(Put(S, r))
           /\ \A q \in Put(S, r) : q = r \/ (q \in S /\ q.cmdId # r.cmdId)
           /\ r \in Put(S, r)
BY DEF Ids, Put, Without, Keyed

\* Emplacing a record adds its key too, but leaves a table that had it.
LEMMA EmplaceKeys ==
    ASSUME NEW S, NEW r
    PROVE  /\ Ids(Emplace(S, r)) = Ids(S) \cup {r.cmdId}
           /\ Keyed(S) => Keyed(Emplace(S, r))
           /\ r.cmdId \in Ids(S) => Emplace(S, r) = S
           /\ \A q \in Emplace(S, r) : q = r \/ q \in S
           /\ S \subseteq Emplace(S, r)
BY DEF Ids, Emplace, Keyed

\* What was just put or emplaced under a CmdId goes when the CmdId is removed.
LEMMA WithoutAfter ==
    ASSUME NEW S, NEW r
    PROVE  /\ Without(Put(S, r), r.cmdId) = Without(S, r.cmdId)
           /\ Without(Emplace(S, r), r.cmdId) = Without(S, r.cmdId)
BY DEF Ids, Put, Without, Emplace

\* A second upsert of one CmdId replaces the first.
LEMMA PutAgain ==
    ASSUME NEW S, NEW r, NEW q, r.cmdId = q.cmdId
    PROVE  Put(Put(S, r), q) = Put(S, q)
BY DEF Put, Without

\* The only record of a one-record table.
LEMMA OnlyRecord ==
    ASSUME NEW S, NEW r, \A q \in S : q.cmdId = r.cmdId
    PROVE  /\ Without(S, r.cmdId) = {}
           /\ Put(S, r) = {r}
BY DEF Put, Without

-----------------------------------------------------------------------------
(* The watchdog.                                                           *)

\* arm gives the CmdId an entry, and every entry keeps its type.
LEMMA ArmEffect ==
    ASSUME NEW C, NEW T, T \subseteq Timer(C), Keyed(T), NEW c \in C
    PROVE  /\ Arm(T, c) \subseteq Timer(C)
           /\ Keyed(Arm(T, c))
           /\ Ids(Arm(T, c)) = Ids(T) \cup {c}
           /\ Without(Arm(T, c), c) = Without(T, c)
<1> DEFINE e == [cmdId |-> c, left |-> TimeoutSec]
<1>1. Arm(T, c) = Put(T, e) /\ e.cmdId = c
  BY DEF Arm
<1>2. e \in Timer(C)
  BY TimeoutSecAssumption DEF Timer
<1>3. QED
  BY <1>1, <1>2, PutKeys, WithoutAfter

\* reset neither adds nor removes an entry.
LEMMA ResetEffect ==
    ASSUME NEW C, NEW T, T \subseteq Timer(C), Keyed(T), NEW c \in C
    PROVE  /\ Reset(T, c) \subseteq Timer(C)
           /\ Keyed(Reset(T, c))
           /\ Ids(Reset(T, c)) = Ids(T)
           /\ Without(Reset(T, c), c) = Without(T, c)
<1>1. CASE c \in Ids(T)
  <2>1. Reset(T, c) = Arm(T, c) /\ Ids(T) \cup {c} = Ids(T)
    BY <1>1 DEF Reset
  <2>2. /\ Arm(T, c) \subseteq Timer(C)
        /\ Keyed(Arm(T, c))
        /\ Ids(Arm(T, c)) = Ids(T) \cup {c}
        /\ Without(Arm(T, c), c) = Without(T, c)
    BY ArmEffect
  <2>3. QED
    BY <2>1, <2>2
<1>2. CASE c \notin Ids(T)
  BY <1>2 DEF Reset
<1>3. QED
  BY <1>1, <1>2

\* disarm removes the entry of the CmdId and no other.
LEMMA DisarmEffect ==
    ASSUME NEW C, NEW T, T \subseteq Timer(C), Keyed(T), NEW c
    PROVE  /\ Disarm(T, c) \subseteq Timer(C)
           /\ Keyed(Disarm(T, c))
           /\ Ids(Disarm(T, c)) = Ids(T) \ {c}
BY WithoutKeys DEF Disarm

\* The clock moves no key.
LEMMA CountdownEffect ==
    ASSUME NEW C, NEW T, T \subseteq Timer(C), Keyed(T)
    PROVE  /\ Countdown(T) \subseteq Timer(C)
           /\ Keyed(Countdown(T))
           /\ Ids(Countdown(T)) = Ids(T)
<1> DEFINE Down(e) == [e EXCEPT !.left = IF @ = 0 THEN 0 ELSE @ - 1]
<1>1. Countdown(T) = {Down(e) : e \in T}
  BY DEF Countdown
<1>2. ASSUME NEW e \in T
      PROVE  Down(e) \in Timer(C) /\ Down(e).cmdId = e.cmdId
  BY TimeoutSecAssumption DEF Timer
<1> HIDE DEF Down
<1>3. QED
  BY <1>1, <1>2 DEF Ids, Keyed

\* tick splits the table: an entry is collected or it stays.
LEMMA TickEffect ==
    ASSUME NEW C, NEW T, T \subseteq Timer(C), Keyed(T)
    PROVE  /\ Unexpired(T) \subseteq Timer(C)
           /\ Keyed(Unexpired(T))
           /\ Ids(Unexpired(T)) = Ids(T) \ Expired(T)
           /\ Expired(T) \subseteq Ids(T)
BY DEF Unexpired, Expired, Ids, Keyed

-----------------------------------------------------------------------------
(* Segments.                                                               *)

\* Segment numbers stay within the width of FileSegNo.
LEMMA SegNoRange ==
    ASSUME NEW n \in Nat
    PROVE  (n + 1) % SegMod \in 0..(SegMod - 1)
BY SegModAssumption

\* What is sent is never read beyond the end of the file.
LEMMA AwaitingSession ==
    ASSUME NEW s \in UploadSession, s.nextFileOffset < s.fileSize,
           NEW n \in 1..SmallerOf(ChunkSize, s.fileSize - s.nextFileOffset)
    PROVE  /\ Awaiting(s, n) \in UploadSession
           /\ Awaiting(s, n).cmdId = s.cmdId
           /\ Awaiting(s, n).state = "WaitingContentConfirm"
           /\ Awaiting(s, n).fileSize = s.fileSize
           /\ Awaiting(s, n).nextFileOffset = s.nextFileOffset + n
           /\ Awaiting(s, n).nextFileOffset \in 1..s.fileSize
           /\ Awaiting(s, n).awaitingConfirmSegNo = s.nextSegNo
           /\ Awaiting(s, n).nextSegNo = (s.nextSegNo + 1) % SegMod
<1>1. /\ s.fileSize \in 0..MaxFileSize /\ s.nextFileOffset \in Nat
      /\ s.nextSegNo \in 0..(SegMod - 1) /\ s.nextSegNo \in Nat
  BY SegModAssumption, UploadAssumption DEF UploadSession
<1>2. n \in Nat /\ n >= 1 /\ n <= s.fileSize - s.nextFileOffset
  BY <1>1, UploadAssumption DEF SmallerOf
<1>3. s.nextFileOffset + n \in 1..s.fileSize
  BY <1>1, <1>2, UploadAssumption
<1>4. s.nextFileOffset + n \in 0..MaxFileSize
  BY <1>1, <1>3, UploadAssumption
<1>5. (s.nextSegNo + 1) % SegMod \in 0..(SegMod - 1)
  BY <1>1, SegNoRange
<1>6. "WaitingContentConfirm" \in UploadStates
  BY DEF UploadStates
<1>7. QED
  BY <1>1, <1>3, <1>4, <1>5, <1>6 DEF Awaiting, UploadSession

\* Segment numbers have not overtaken the bytes sent.
Numbered(s) ==
    s.nextFileOffset < s.fileSize => s.nextSegNo \in 1..(s.nextFileOffset + 1)

\* UploadsAwait for one session, and what makes it last.
Waits(s) ==
    /\ s.state = "WaitingContentConfirm"
    /\ s.awaitingConfirmSegNo # 0
    /\ s.nextFileOffset \in 1..s.fileSize
    /\ Numbered(s)

-----------------------------------------------------------------------------
(* Outcomes of the handlers.                                               *)

\* u is s after content m has been sent.
Continues(s, u, m) ==
    /\ u \in UploadSession /\ u.cmdId = s.cmdId /\ Waits(u)
    /\ u.fileSize = s.fileSize /\ u.nextFileOffset = m.offset + m.len
    /\ m.type = "content" /\ m.cmdId = s.cmdId
    /\ m.segNo = u.awaitingConfirmSegNo
    /\ m.offset = s.nextFileOffset /\ m.len \in Nat \ {0}
    /\ m.more = (u.nextFileOffset < u.fileSize)

\* A segment carries at least one byte, so as long as bytes are left their
\* number bounds the next segment number, which then cannot have wrapped to 0:
\* sendNextContentSegment ends the transfer or leaves it waiting for the
\* confirm of the content it has published.
LEMMA SendOutcome ==
    ASSUME MaxFileSize < SegMod,
           NEW s \in UploadSession, Numbered(s), NEW H, NEW T, NEW msgs,
           SendNextContentSegment(s, Put(uploads, s), H, T, msgs)
    PROVE  \/ uploads' = Without(uploads, s.cmdId) /\ out' = msgs
           \/ \E u, m : /\ Continues(s, u, m)
                        /\ uploads' = Put(uploads, u)
                        /\ out' = Append(msgs, m)
<1>1. CASE CloseTransfer(s.cmdId, Put(uploads, s), H, T) /\ Publish(msgs)
  BY <1>1, WithoutAfter DEF CloseTransfer, Publish
<1>2. ASSUME NEW h,
             NEW n \in 1..SmallerOf(ChunkSize, s.fileSize - s.nextFileOffset),
             s.nextFileOffset < s.fileSize,
             uploads' = Put(Put(uploads, s), Awaiting(s, n)),
             Publish(Append(msgs, NextContent(s, h, n)))
      PROVE  \E u, m : /\ Continues(s, u, m)
                       /\ uploads' = Put(uploads, u)
                       /\ out' = Append(msgs, m)
  <2> DEFINE u == Awaiting(s, n)
             m == NextContent(s, h, n)
  <2>1. /\ u \in UploadSession
        /\ u.cmdId = s.cmdId /\ u.state = "WaitingContentConfirm"
        /\ u.fileSize = s.fileSize /\ u.nextFileOffset = s.nextFileOffset + n
        /\ u.nextFileOffset \in 1..s.fileSize
        /\ u.awaitingConfirmSegNo = s.nextSegNo
        /\ u.nextSegNo = (s.nextSegNo + 1) % SegMod
    BY <1>2, AwaitingSession
  <2>2. /\ m.type = "content" /\ m.cmdId = s.cmdId /\ m.segNo = s.nextSegNo
        /\ m.offset = s.nextFileOffset /\ m.len = n
        /\ m.more = (s.nextFileOffset + n < s.fileSize)
    BY DEF NextContent, Content
  <2>3. uploads' = Put(uploads, u)
    BY <1>2, <2>1, PutAgain
  <2>4. out' = Append(msgs, m)
    BY <1>2 DEF Publish
  <2> HIDE DEF u, m
  <2>5. /\ s.fileSize \in Nat /\ s.fileSize < SegMod /\ SegMod \in Nat
        /\ s.nextFileOffset \in Nat /\ s.nextSegNo \in 1..(s.nextFileOffset + 1)
    BY <1>2, SegModAssumption, UploadAssumption DEF UploadSession, Numbered
  <2>6. n \in Nat \ {0}
    BY <2>5, UploadAssumption DEF SmallerOf
  <2>7. ASSUME s.nextFileOffset + n < s.fileSize
        PROVE  u.nextSegNo = s.nextSegNo + 1
    <3>1. s.nextSegNo + 1 \in 0..(SegMod - 1)
      BY <2>5, <2>6, <2>7
    <3>2. (s.nextSegNo + 1) % SegMod = s.nextSegNo + 1
      BY <2>5, <3>1
    <3>3. QED
      BY <2>1, <3>2
  <2>8. Numbered(u)
    BY <2>1, <2>5, <2>6, <2>7 DEF Numbered
  <2>9. Waits(u)
    BY <2>1, <2>5, <2>8 DEF Waits
  <2>10. Continues(s, u, m)
    BY <2>1, <2>2, <2>6, <2>9 DEF Continues
  <2>11. QED
    BY <2>3, <2>4, <2>10
<1>3. QED
  BY <1>1, <1>2 DEF SendNextContentSegment

\* A second message after a first.
LEMMA OneMore ==
    ASSUME NEW b, NEW c
    PROVE  Append(<<b>>, c) = <<b, c>>
<1> DEFINE p == Append(<<b>>, c)
           q == <<b, c>>
<1>1. <<b>> \in Seq({b, c}) /\ Len(<<b>>) = 1
  OBVIOUS
<1>2. p \in Seq({b, c}) /\ Len(p) = 2 /\ p[1] = b /\ p[2] = c
  BY <1>1, AppendProperties
<1>3. q \in Seq({b, c}) /\ Len(q) = 2 /\ q[1] = b /\ q[2] = c
  OBVIOUS
<1> HIDE DEF p, q
<1>4. p = q
  BY <1>2, <1>3, SeqEqual
<1>5. QED
  BY <1>4 DEF p, q

\* A brief that ends the transfer it announces, or refuses it.
LoneBrief(m, b) ==
    /\ b.type = "brief"
    /\ b.error = "NONE" =>
        b.fileSize \in 0..MaxFileSize /\ m.startByte - 1 <= b.fileSize

\* The brief and the first content of a transfer.
FirstContent(m, s, u, b, c) ==
    /\ s \in UploadSession
    /\ s.cmdId = m.cmdId /\ s.nextFileOffset = m.startByte - 1
    /\ b.type = "brief" /\ b.error = "NONE" /\ b.fileSize = s.fileSize
    /\ Continues(s, u, c)

\* onSummon publishes a brief and leaves no session, or a brief and the first
\* content and leaves the session that waits for its confirm.
LEMMA SummonOutcome ==
    ASSUME MaxFileSize < SegMod, NEW m, NEW busy,
           m.cmdId \in CmdIds, m.file \in Files,
           m.startByte \in 1..(MaxFileSize + 2),
           OnSummon(m, busy)
    PROVE  \/ \E b : /\ LoneBrief(m, b)
                     /\ uploads' = Without(uploads, m.cmdId) /\ out' = <<b>>
           \/ \E s, u, b, c : /\ FirstContent(m, s, u, b, c)
                              /\ uploads' = Put(uploads, u) /\ out' = <<b, c>>
<1> DEFINE c0 == m.cmdId
           Refused == \E b : /\ LoneBrief(m, b)
                             /\ uploads' = Without(uploads, c0) /\ out' = <<b>>
<1>1. ASSUME NEW error, error # "NONE", NEW T, PublishBriefFailure(c0, error, T)
      PROVE  Refused
  <2>1. LoneBrief(m, Brief(c0, error, 0))
    BY <1>1 DEF LoneBrief, Brief
  <2>2. QED
    BY <1>1, <2>1 DEF PublishBriefFailure, CloseTransfer, Publish
<1>2. CASE RefuseSummon(m, busy)
  BY <1>1, <1>2 DEF RefuseSummon
<1>3. CASE AcceptSummon(m, busy)
  <2>1. PICK size \in 0..MaxFileSize :
            IF m.startByte - 1 > size
            THEN PublishBriefFailure(c0, "INVALID_START_BYTE", SummonTimer(c0))
            ELSE StartUpload(m, size)
    BY <1>3 DEF AcceptSummon
  <2>2. CASE PublishBriefFailure(c0, "INVALID_START_BYTE", SummonTimer(c0))
    BY <1>1, <2>2
  <2>3. CASE StartUpload(m, size) /\ m.startByte - 1 <= size
    <3> DEFINE s == [cmdId |-> c0, file |-> m.file, fileSize |-> size,
                     nextFileOffset |-> m.startByte - 1, nextSegNo |-> 1,
                     awaitingConfirmSegNo |-> 0, state |-> "BriefOk"]
               S == Put(uploads, s)
               H == Emplace(readHandles, [cmdId |-> c0, file |-> m.file])
               T == SummonTimer(c0)
               b == Brief(c0, "NONE", size)
    <3>1. m.startByte - 1 \in 0..MaxFileSize
      BY <2>3, UploadAssumption
    <3>2. /\ s \in UploadSession /\ Numbered(s) /\ s.cmdId = c0
          /\ s.nextFileOffset = m.startByte - 1 /\ s.fileSize = size
      BY <3>1, SegModAssumption, UploadAssumption
      DEF UploadSession, UploadStates, Numbered
    <3>3. /\ LoneBrief(m, b)
          /\ b.type = "brief" /\ b.error = "NONE" /\ b.fileSize = size
      BY <2>3 DEF LoneBrief, Brief
    <3>4. \/ CloseTransfer(c0, S, H, T) /\ Publish(<<b>>)
          \/ SendNextContentSegment(s, S, H, T, <<b>>)
      BY <2>3 DEF StartUpload
    <3> HIDE DEF s, H, T, b
    <3>5. CASE CloseTransfer(c0, S, H, T) /\ Publish(<<b>>)
      BY <3>2, <3>3, <3>5, WithoutAfter DEF CloseTransfer, Publish
    <3>6. ASSUME NEW u, NEW c, Continues(s, u, c), uploads' = Put(uploads, u),
                 out' = Append(<<b>>, c)
          PROVE  FirstContent(m, s, u, b, c) /\ out' = <<b, c>>
      <4>1. Append(<<b>>, c) = <<b, c>>
        BY OneMore
      <4>2. FirstContent(m, s, u, b, c)
        BY <3>2, <3>3, <3>6 DEF FirstContent
      <4>3. QED
        BY <3>6, <4>1, <4>2
    <3>7. CASE SendNextContentSegment(s, S, H, T, <<b>>)
      <4>1. \/ uploads' = Without(uploads, c0) /\ out' = <<b>>
            \/ \E u, c : /\ Continues(s, u, c)
                         /\ uploads' = Put(uploads, u)
                         /\ out' = Append(<<b>>, c)
        BY <3>2, <3>7, SendOutcome
      <4>2. QED
        BY <3>3, <3>6, <4>1
    <3>8. QED
      BY <3>4, <3>5, <3>7
  <2>4. m.startByte - 1 \in Nat /\ size \in Nat
    BY UploadAssumption
  <2>5. QED
    BY <2>1, <2>2, <2>3, <2>4
<1>4. QED
  BY <1>2, <1>3 DEF OnSummon

\* onContentConfirm changes nothing when no upload waits for the confirm, ends
\* the upload that does, or has it send what comes next.
LEMMA ConfirmOutcome ==
    ASSUME MaxFileSize < SegMod, uploads \subseteq UploadSession,
           \A q \in uploads : Numbered(q), NEW m, OnContentConfirm(m)
    PROVE  \/ /\ \A s \in uploads : ~WaitsFor(s, m)
              /\ uploads' = uploads /\ out' = <<>>
           \/ uploads' = Without(uploads, m.cmdId) /\ out' = <<>>
           \/ \E s \in uploads : \E u, c :
                /\ WaitsFor(s, m) /\ Confirms(m, s)
                /\ Continues(s, u, c)
                /\ uploads' = Put(uploads, u) /\ out' = <<c>>
<1> SUFFICES ASSUME NEW s \in uploads, WaitsFor(s, m),
                    IF Confirms(m, s) THEN ContinueUpload(s)
                    ELSE /\ CloseTransfer(m.cmdId, uploads, readHandles, timers)
                         /\ Publish(<<>>)
             PROVE  \/ uploads' = Without(uploads, m.cmdId) /\ out' = <<>>
                    \/ \E u, c : /\ Confirms(m, s) /\ Continues(s, u, c)
                                 /\ uploads' = Put(uploads, u) /\ out' = <<c>>
  BY DEF OnContentConfirm, Publish, uploadVars
<1>1. CASE CloseTransfer(m.cmdId, uploads, readHandles, timers) /\ Publish(<<>>)
  BY <1>1 DEF CloseTransfer, Publish
<1>2. CASE Confirms(m, s) /\ ContinueUpload(s)
  <2> DEFINE t == [s EXCEPT !.awaitingConfirmSegNo = 0,
                            !.state = "SendingContent"]
             S == Put(uploads, t)
             T == Reset(timers, s.cmdId)
  <2>1. 0 \in 0..(SegMod - 1) /\ "SendingContent" \in UploadStates
    BY SegModAssumption DEF UploadStates
  <2>2. /\ t \in UploadSession /\ t.cmdId = s.cmdId /\ t.fileSize = s.fileSize
        /\ t.nextFileOffset = s.nextFileOffset /\ t.nextSegNo = s.nextSegNo
    BY <2>1 DEF UploadSession
  <2>3. s.cmdId = m.cmdId
    BY DEF WaitsFor
  <2>4. \/ CloseTransfer(s.cmdId, S, readHandles, T) /\ Publish(<<>>)
        \/ SendNextContentSegment(t, S, readHandles, T, <<>>)
    BY <1>2 DEF ContinueUpload
  <2> HIDE DEF t, T
  <2>5. Numbered(t)
    BY <2>2 DEF Numbered
  <2>6. CASE CloseTransfer(s.cmdId, S, readHandles, T) /\ Publish(<<>>)
    BY <2>2, <2>3, <2>6, WithoutAfter DEF CloseTransfer, Publish
  <2>7. ASSUME NEW u, NEW c, Continues(t, u, c), out' = Append(<<>>, c)
        PROVE  Continues(s, u, c) /\ out' = <<c>>
    BY <2>2, <2>7 DEF Continues
  <2>8. CASE SendNextContentSegment(t, S, readHandles, T, <<>>)
    BY <1>2, <2>2, <2>3, <2>5, <2>7, <2>8, SendOutcome
  <2>9. QED
    BY <2>4, <2>6, <2>8
<1>3. QED
  BY <1>1, <1>2
=============================================================================
