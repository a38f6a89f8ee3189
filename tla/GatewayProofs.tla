---------------------------- MODULE GatewayProofs ----------------------------
(***************************************************************************)
(* The safety invariants of Gateway, for every value of the constants.     *)
(* They hold together or not at all: the tables stay consistent because    *)
(* each holds one session, the deadlines because an upload and a push      *)
(* share a CmdId only if it is 0, and the disk stays typed because each    *)
(* write is at the end of what the session has written.                    *)
(***************************************************************************)
EXTENDS Gateway, SummonUploadProofs, DataProofs

-----------------------------------------------------------------------------
(* Strings of bytes and files.                                             *)

\* A segment and a CRC stand for strings of bytes.
LEMMA BytesAreSeq ==
    ASSUME NEW n \in Nat
    PROVE  BytesUpTo(n) \subseteq Seq(Byte)
BY SeqDef DEF BytesUpTo

\* A write at the end of a file appends to this file and leaves the others.
LEMMA WriteAtEnd ==
    ASSUME NEW d \in [Files -> Seq(Byte)], NEW f \in Files,
           NEW offset \in Nat, offset = Len(d[f]), NEW bytes \in Seq(Byte)
    PROVE  /\ WriteAt(d, f, offset, bytes) \in [Files -> Seq(Byte)]
           /\ WriteAt(d, f, offset, bytes)[f] \in Seq(Byte)
           /\ Len(WriteAt(d, f, offset, bytes)[f]) = offset + Len(bytes)
           /\ WriteAt(d, f, offset, bytes)[f] = d[f] \o bytes
<1> DEFINE new == SubSeq(d[f], 1, offset) \o bytes
                      \o SubSeq(d[f], offset + Len(bytes) + 1, Len(d[f]))
<1>1. new \in Seq(Byte) /\ Len(new) = offset + Len(bytes) /\ new = d[f] \o bytes
  <2> DEFINE b == d[f]
  <2>1. b \in Seq(Byte) /\ offset = Len(b)
    OBVIOUS
  <2> HIDE DEF b
  <2>2. /\ b \o bytes \in Seq(Byte) /\ Len(b \o bytes) = Len(b) + Len(bytes)
        /\ SubSeq(b, 1, Len(b)) \o bytes
             \o SubSeq(b, Len(b) + Len(bytes) + 1, Len(b)) = b \o bytes
    BY <2>1, OverwriteAtEnd
  <2> QED BY <2>1, <2>2 DEF b
<1>2. WriteAt(d, f, offset, bytes) = [d EXCEPT ![f] = new]
  BY DEF WriteAt
<1> HIDE DEF new
<1> QED BY <1>1, <1>2

\* The inductive invariant.
Inv ==
    /\ TypeOK
    /\ ExclusiveUnlessZero
    /\ HandlesFollowSessions
    /\ TimersServeSessions
    /\ UploadsTimed
    /\ DiskMatchesProgress

\* A step that touches no table.
LEMMA UnchangedPreserves ==
    ASSUME Inv, UNCHANGED <<uploadVars, pushVars, timers, connected>>
    PROVE  Inv'
BY DEF uploadVars, pushVars, Inv, TypeOK, UploadTypeOK, PushTypeOK,
       ExclusiveUnlessZero, HandlesFollowSessions, TimersServeSessions,
       UploadsTimed, DiskMatchesProgress

-----------------------------------------------------------------------------
(* The upload side.                                                        *)

\* However a handler ends a transfer, session, handle and deadline of its
\* CmdId go together, whatever the handler did to them before.
LEMMA CloseTransferPreserves ==
    ASSUME Inv, NEW c \in CmdIds, NEW S, NEW H, NEW T,
           Without(S, c) = Without(uploads, c),
           Without(H, c) = Without(readHandles, c),
           Without(T, c) = Without(timers, c),
           CloseTransfer(c, S, H, T),
           UNCHANGED <<pushVars, connected>>
    PROVE  Inv'
<1>1. /\ uploads' = Without(uploads, c)
      /\ readHandles' = Without(readHandles, c)
      /\ timers' = Without(timers, c)
  BY DEF CloseTransfer, Disarm
<1>2. /\ Ids(uploads)' = Ids(uploads) \ {c} /\ uploads' \subseteq uploads
      /\ Ids(readHandles)' = Ids(readHandles) \ {c}
      /\ readHandles' \subseteq readHandles
      /\ Keyed(readHandles) => Keyed(readHandles')
      /\ Ids(timers)' = Ids(timers) \ {c} /\ timers' \subseteq timers
      /\ Keyed(timers) => Keyed(timers')
  BY <1>1, WithoutKeys DEF Ids
<1>3. pushes' = pushes /\ writeHandles' = writeHandles /\ disk' = disk
  BY DEF pushVars
<1>4. TypeOK'
  BY <1>2, <1>3 DEF Inv, TypeOK, UploadTypeOK, PushTypeOK
<1>5. ExclusiveUnlessZero' /\ DiskMatchesProgress'
  BY <1>2, <1>3 DEF Inv, ExclusiveUnlessZero, DiskMatchesProgress
<1>6. HandlesFollowSessions' /\ TimersServeSessions'
  BY <1>2, <1>3
  DEF Inv, HandlesFollowSessions, TimersServeSessions, Ids, Keyed
<1>7. UploadsTimed'
  BY <1>1, <1>2 DEF Inv, UploadsTimed, Without
<1>8. QED
  BY <1>4, <1>5, <1>6, <1>7 DEF Inv

\* Sending a segment puts the one session there is back into the store.
LEMMA SendPreserves ==
    ASSUME Inv, NEW u \in UploadSession, NEW f \in Files,
           \A s \in uploads : s.cmdId = u.cmdId,
           pushes = {} \/ u.cmdId = 0,
           uploads' = Put(uploads, u),
           readHandles' = Emplace(readHandles,
                                  [cmdId |-> u.cmdId, file |-> f]),
           timers' \subseteq Timer(CmdIds), Keyed(timers'),
           Ids(timers') \subseteq Ids(timers) \cup {u.cmdId},
           u.cmdId # 0 => u.cmdId \in Ids(timers'),
           UNCHANGED <<pushVars, connected>>
    PROVE  Inv'
<1> DEFINE hh == [cmdId |-> u.cmdId, file |-> f]
<1>1. uploads' = {u} /\ Ids(uploads)' = {u.cmdId}
  BY OnlyRecord DEF Ids
<1>2. /\ Ids(readHandles)' = Ids(readHandles) \cup {u.cmdId}
      /\ Keyed(readHandles) => Keyed(readHandles')
      /\ \A h \in readHandles' : h = hh \/ h \in readHandles
  BY EmplaceKeys DEF Ids
<1>3. pushes' = pushes /\ writeHandles' = writeHandles /\ disk' = disk
  BY DEF pushVars
<1>4. Ids(uploads) \subseteq {u.cmdId} /\ u.cmdId \in CmdIds
  BY DEF Ids, UploadSession
<1>5. TypeOK'
  <2>1. hh \in [cmdId : CmdIds, file : Files]
    BY <1>4
  <2>2. readHandles' \subseteq [cmdId : CmdIds, file : Files]
    BY <1>2, <2>1 DEF Inv, TypeOK, UploadTypeOK
  <2>3. QED
    BY <1>1, <1>3, <2>2 DEF Inv, TypeOK, UploadTypeOK, PushTypeOK
<1>6. ExclusiveUnlessZero' /\ DiskMatchesProgress'
  BY <1>1, <1>3 DEF Inv, ExclusiveUnlessZero, DiskMatchesProgress
<1>7. HandlesFollowSessions'
  BY <1>1, <1>2, <1>3, <1>4 DEF Inv, HandlesFollowSessions, Ids, Keyed
<1>8. TimersServeSessions'
  BY <1>1, <1>3, <1>4 DEF Inv, TimersServeSessions, Ids
<1>9. UploadsTimed'
  BY <1>1 DEF UploadsTimed, Ids
<1>10. QED
  BY <1>5, <1>6, <1>7, <1>8, <1>9 DEF Inv

\* sendNextContentSegment, called for the session a handler has just put.
LEMMA SendNextPreserves ==
    ASSUME Inv, NEW s \in UploadSession, NEW f \in Files, NEW T, NEW msgs,
           \A q \in uploads : q.cmdId = s.cmdId,
           pushes = {} \/ s.cmdId = 0,
           T \subseteq Timer(CmdIds), Keyed(T),
           Without(T, s.cmdId) = Without(timers, s.cmdId),
           s.cmdId # 0 => s.cmdId \in Ids(T),
           SendNextContentSegment(s, Put(uploads, s),
               Emplace(readHandles, [cmdId |-> s.cmdId, file |-> f]), T, msgs),
           UNCHANGED <<pushVars, connected>>
    PROVE  Inv'
<1> DEFINE hh == [cmdId |-> s.cmdId, file |-> f]
           S == Put(uploads, s)
           H == Emplace(readHandles, hh)
<1>1. s.cmdId \in CmdIds /\ hh.cmdId = s.cmdId
  BY DEF UploadSession
<1>2. /\ Without(S, s.cmdId) = Without(uploads, s.cmdId)
      /\ Without(H, s.cmdId) = Without(readHandles, s.cmdId)
  BY <1>1, WithoutAfter
<1> HIDE DEF S, H, hh
<1>3. CASE CloseTransfer(s.cmdId, S, H, T)
  BY <1>1, <1>2, <1>3, CloseTransferPreserves
<1>4. ASSUME NEW n \in 1..SmallerOf(ChunkSize, s.fileSize - s.nextFileOffset),
             s.nextFileOffset < s.fileSize,
             uploads' = Put(S, Awaiting(s, n)),
             timers' = Reset(T, s.cmdId),
             readHandles' = H
      PROVE  Inv'
  <2> DEFINE u == Awaiting(s, n)
  <2>1. u \in UploadSession /\ u.cmdId = s.cmdId
    BY <1>4, AwaitingSession
  <2> HIDE DEF u
  <2>2. uploads' = Put(uploads, u)
    BY <1>4, <2>1, PutAgain DEF S, u
  <2>3. /\ timers' \subseteq Timer(CmdIds) /\ Keyed(timers')
        /\ Ids(timers') = Ids(T)
    BY <1>1, <1>4, ResetEffect
  <2>4. Ids(T) \subseteq Ids(timers) \cup {s.cmdId}
    BY WithoutKeys
  <2>5. readHandles' = Emplace(readHandles, [cmdId |-> u.cmdId, file |-> f])
    BY <1>4, <2>1 DEF H, hh
  <2>6. QED
    BY <2>1, <2>2, <2>3, <2>4, <2>5, SendPreserves
<1>5. QED
  BY <1>3, <1>4 DEF SendNextContentSegment, S, H, hh

\* A refused summon, whether or not its timer was armed before.
LEMMA BriefFailurePreserves ==
    ASSUME Inv, NEW c \in CmdIds, NEW error, NEW T,
           Without(T, c) = Without(timers, c),
           PublishBriefFailure(c, error, T),
           UNCHANGED <<pushVars, connected>>
    PROVE  Inv'
BY CloseTransferPreserves DEF PublishBriefFailure

\* onSummon.
LEMMA SummonPreserves ==
    ASSUME Inv, Summon
    PROVE  Inv'
<1> USE DEF Summon
<1>1. CASE OnUndecodableSummon
  BY <1>1, CmdIdsAssumption, BriefFailurePreserves DEF OnUndecodableSummon
<1>2. ASSUME NEW m \in SummonRequest, OnSummon(m, SummonBusy)
      PROVE  Inv'
  <2> DEFINE c == m.cmdId
             T == SummonTimer(c)
  <2>1. c \in CmdIds /\ m.file \in Files /\ m.startByte - 1 \in Nat
    BY UploadAssumption DEF SummonRequest
  <2>2. /\ T \subseteq Timer(CmdIds) /\ Keyed(T) /\ c \in Ids(T)
        /\ Without(T, c) = Without(timers, c)
    BY <2>1, ArmEffect
    DEF SummonTimer, Inv, TypeOK, UploadTypeOK, TimersServeSessions
  <2> HIDE DEF T
  <2>3. ASSUME NEW error, PublishBriefFailure(c, error, T)
        PROVE  Inv'
    BY <2>1, <2>2, <2>3, BriefFailurePreserves
  <2>4. ASSUME pushes = {}, \A q \in uploads : q.cmdId = c,
               NEW size \in 0..MaxFileSize, m.startByte - 1 <= size,
               StartUpload(m, size)
        PROVE  Inv'
    <3> DEFINE s == [cmdId |-> c, file |-> m.file, fileSize |-> size,
                     nextFileOffset |-> m.startByte - 1, nextSegNo |-> 1,
                     awaitingConfirmSegNo |-> 0, state |-> "BriefOk"]
               hh == [cmdId |-> c, file |-> m.file]
               S == Put(uploads, s)
               H == Emplace(readHandles, hh)
               brief == <<Brief(c, "NONE", size)>>
    <3>1. s \in UploadSession
      <4>1. m.startByte - 1 \in 0..MaxFileSize
        BY <2>1, <2>4, UploadAssumption
      <4>2. QED
        BY <2>1, <4>1, SegModAssumption DEF UploadSession, UploadStates
    <3>2. s.cmdId = c /\ hh.cmdId = c
      OBVIOUS
    <3>3. /\ Without(S, c) = Without(uploads, c)
          /\ Without(H, c) = Without(readHandles, c)
      BY <3>2, WithoutAfter
    <3>4. \/ CloseTransfer(c, S, H, T)
          \/ SendNextContentSegment(s, S, H, T, brief)
      BY <2>4 DEF StartUpload, T
    <3>5. CASE CloseTransfer(c, S, H, T)
      BY <2>1, <2>2, <3>3, <3>5, CloseTransferPreserves
    <3>6. CASE SendNextContentSegment(s, S, H, T, brief)
      <4> HIDE DEF s, brief
      <4>1. QED
        BY <2>1, <2>2, <2>4, <3>1, <3>2, <3>6, SendNextPreserves
    <3>7. QED
      BY <3>4, <3>5, <3>6
  <2>5. CASE RefuseSummon(m, SummonBusy)
    BY <2>3, <2>5 DEF RefuseSummon, T
  <2>6. CASE AcceptSummon(m, SummonBusy)
    <3>1. pushes = {} /\ \A q \in uploads : q.cmdId = c
      BY <2>6 DEF AcceptSummon, SummonBusy, HasActiveSession,
                  HasActiveSessionOtherThan
    <3>2. PICK size \in 0..MaxFileSize :
            IF m.startByte - 1 > size
            THEN PublishBriefFailure(c, "INVALID_START_BYTE", T)
            ELSE StartUpload(m, size)
      BY <2>6 DEF AcceptSummon, T
    <3>3. QED
      BY <2>1, <2>3, <2>4, <3>1, <3>2, UploadAssumption
  <2>7. QED
    BY <1>2, <2>5, <2>6 DEF OnSummon
<1>3. QED
  BY <1>1, <1>2

\* onContentConfirm.
LEMMA ConfirmContentPreserves ==
    ASSUME Inv, ConfirmContent
    PROVE  Inv'
<1>1. PICK m \in ContentConfirm : OnContentConfirm(m)
  BY DEF ConfirmContent
<1>2. CASE UNCHANGED <<uploadVars, timers>>
  BY <1>2, UnchangedPreserves DEF ConfirmContent
<1>3. UNCHANGED <<pushVars, connected>>
  BY DEF ConfirmContent
<1>4. ASSUME NEW s \in uploads, s.cmdId = m.cmdId,
             \/ ContinueUpload(s)
             \/ CloseTransfer(m.cmdId, uploads, readHandles, timers)
      PROVE  Inv'
  <2>0. s \in UploadSession /\ s.cmdId \in CmdIds
    BY DEF Inv, TypeOK, UploadTypeOK, UploadSession
  <2> DEFINE t == [s EXCEPT !.awaitingConfirmSegNo = 0,
                            !.state = "SendingContent"]
             S == Put(uploads, t)
             T == Reset(timers, s.cmdId)
  <2>1. t \in UploadSession /\ t.cmdId = s.cmdId
    <3>1. 0 \in 0..(SegMod - 1) /\ "SendingContent" \in UploadStates
      BY SegModAssumption DEF UploadStates
    <3>2. QED
      BY <2>0, <3>1 DEF UploadSession
  <2>2. /\ T \subseteq Timer(CmdIds) /\ Keyed(T) /\ Ids(T) = Ids(timers)
        /\ Without(T, s.cmdId) = Without(timers, s.cmdId)
    BY <2>0, ResetEffect
    DEF Inv, TypeOK, UploadTypeOK, TimersServeSessions
  <2>3. Without(S, s.cmdId) = Without(uploads, s.cmdId)
    BY <2>1, WithoutAfter
  <2>4. PICK h \in readHandles : h.cmdId = s.cmdId
    BY DEF Inv, HandlesFollowSessions, Ids
  <2>5. readHandles = Emplace(readHandles,
                              [cmdId |-> t.cmdId, file |-> h.file])
    BY <2>1, <2>4, EmplaceKeys DEF Ids
  <2>6. h.file \in Files
    BY DEF Inv, TypeOK, UploadTypeOK
  <2>7. CASE CloseTransfer(m.cmdId, uploads, readHandles, timers)
    BY <1>3, <1>4, <2>0, <2>7, CloseTransferPreserves
  <2>8. /\ \A q \in uploads : q.cmdId = t.cmdId
        /\ pushes = {} \/ t.cmdId = 0
        /\ t.cmdId # 0 => t.cmdId \in Ids(T)
    BY <2>1, <2>2 DEF Inv, ExclusiveUnlessZero, UploadsTimed
  <2>9. CASE CloseTransfer(s.cmdId, S, readHandles, T)
    BY <1>3, <2>0, <2>2, <2>3, <2>9, CloseTransferPreserves
  <2>10. CASE SendNextContentSegment(t, S, readHandles, T, <<>>)
    <3> HIDE DEF t, T
    <3>1. QED
      BY <1>3, <2>1, <2>2, <2>5, <2>6, <2>8, <2>10, SendNextPreserves
  <2>11. QED
    BY <1>4, <2>7, <2>9, <2>10 DEF ContinueUpload
<1>5. QED
  BY <1>1, <1>2, <1>4 DEF OnContentConfirm, WaitsFor

-----------------------------------------------------------------------------
(* The push side.                                                          *)

\* A push that ends takes its handle and its deadline along; the deadline of
\* no upload is among them, as an upload beside a push has CmdId 0.
LEMMA ClosePushPreserves ==
    ASSUME Inv, NEW s \in pushes, ClosePush(s.cmdId),
           disk' \in [Files -> Seq(Byte)],
           UNCHANGED <<uploadVars, connected>>
    PROVE  Inv'
<1> DEFINE c == s.cmdId
<1>1. /\ pushes' = Without(pushes, c)
      /\ writeHandles' = Without(writeHandles, c)
      /\ timers' = Without(timers, c)
      /\ uploads' = uploads /\ readHandles' = readHandles
      /\ connected' = connected
  BY DEF ClosePush, Disarm, uploadVars
<1>2. /\ Ids(pushes)' = Ids(pushes) \ {c} /\ pushes' \subseteq pushes
      /\ Ids(writeHandles)' = Ids(writeHandles) \ {c}
      /\ writeHandles' \subseteq writeHandles
      /\ Keyed(writeHandles) => Keyed(writeHandles')
      /\ Ids(timers)' = Ids(timers) \ {c} /\ timers' \subseteq timers
      /\ Keyed(timers) => Keyed(timers')
  BY <1>1, WithoutKeys DEF Ids
<1>3. pushes' = {}
  BY <1>1 DEF Inv, ExclusiveUnlessZero, Without
<1>4. \A u \in uploads : u.cmdId = 0
  BY DEF Inv, ExclusiveUnlessZero
<1>5. TypeOK'
  BY <1>1, <1>2 DEF Inv, TypeOK, UploadTypeOK, PushTypeOK
<1>6. ExclusiveUnlessZero' /\ DiskMatchesProgress'
  BY <1>1, <1>3 DEF Inv, ExclusiveUnlessZero, DiskMatchesProgress
<1>7. HandlesFollowSessions' /\ TimersServeSessions'
  BY <1>1, <1>2
  DEF Inv, HandlesFollowSessions, TimersServeSessions, Ids, Keyed
<1>8. UploadsTimed'
  BY <1>1, <1>4 DEF UploadsTimed
<1>9. QED
  BY <1>5, <1>6, <1>7, <1>8 DEF Inv

\* onPushBrief: a refusal changes nothing, and a push is accepted only when
\* there is no other and no upload but that of CmdId 0.
LEMMA AnnouncePushPreserves ==
    ASSUME Inv, AnnouncePush
    PROVE  Inv'
<1>1. /\ uploads' = uploads /\ readHandles' = readHandles
      /\ connected' = connected /\ UNCHANGED uploadVars
  BY DEF AnnouncePush, uploadVars
<1>2. ASSUME UNCHANGED <<pushVars, timers>>
      PROVE  Inv'
  BY <1>1, <1>2, UnchangedPreserves
<1>3. ASSUME NEW m \in PushBrief, AcceptPushBrief(m, PushBusy)
      PROVE  Inv'
  <2> DEFINE s == [cmdId |-> m.cmdId, file |-> m.file,
                   expectedFileSize |-> m.fileSize,
                   expectedFileCrc |-> m.fileCrc,
                   bytesWritten |-> 0, nextSegNo |-> 1, state |-> "BriefOk"]
             hh == [cmdId |-> m.cmdId, file |-> m.file]
             c == m.cmdId
  <2>1. /\ pushes = {} /\ \A u \in uploads : u.cmdId = 0
        /\ disk' = [disk EXCEPT ![m.file] = <<>>]
        /\ pushes' = Put(pushes, s)
        /\ writeHandles' = Emplace(writeHandles, hh)
        /\ timers' = Arm(timers, c)
    BY <1>3 DEF AcceptPushBrief, HasActiveSession, PushBusy,
                HasActiveSessionOtherThan, OpenWriteCreate
  <2>2. /\ m.file \in Files /\ c \in CmdIds
        /\ hh \in [cmdId : CmdIds, file : Files]
    BY DEF PushBrief
  <2>3. pushes' = {s} /\ writeHandles' = {hh}
    <3>1. writeHandles = {}
      <4>1. Ids(writeHandles) = Ids(pushes)
        BY DEF Inv, HandlesFollowSessions
      <4>2. QED
        BY <2>1, <4>1 DEF Ids
    <3>2. QED
      BY <2>1, <3>1 DEF Put, Without, Emplace, Ids
  <2>4. /\ timers' \subseteq Timer(CmdIds) /\ Keyed(timers')
        /\ Ids(timers') = Ids(timers) \cup {c}
    <3>1. timers \subseteq Timer(CmdIds) /\ Keyed(timers)
      BY DEF Inv, TypeOK, UploadTypeOK, TimersServeSessions
    <3>2. /\ Arm(timers, c) \subseteq Timer(CmdIds) /\ Keyed(Arm(timers, c))
          /\ Ids(Arm(timers, c)) = Ids(timers) \cup {c}
      BY <2>2, <3>1, ArmEffect
    <3>3. QED
      BY <2>1, <3>2
  <2>5. disk' \in [Files -> Seq(Byte)] /\ Len(disk'[m.file]) = 0
    BY <2>1, <2>2, EmptySeq DEF Inv, TypeOK, PushTypeOK
  <2>6. s \in PushSession
    BY SegModAssumption DEF PushBrief, PushSession
  <2>7. s.cmdId = c /\ s.file = m.file /\ s.bytesWritten = 0 /\ hh.cmdId = c
        /\ hh = [cmdId |-> s.cmdId, file |-> s.file]
    OBVIOUS
  <2> HIDE DEF s, hh
  <2>8. TypeOK'
    BY <1>1, <2>2, <2>3, <2>4, <2>5, <2>6
    DEF Inv, TypeOK, UploadTypeOK, PushTypeOK
  <2>9. ExclusiveUnlessZero'
    BY <1>1, <2>1, <2>3 DEF Inv, ExclusiveUnlessZero
  <2>10. HandlesFollowSessions'
    <3>1. Keyed(readHandles') /\ Ids(readHandles') = Ids(uploads')
      BY <1>1 DEF Inv, HandlesFollowSessions
    <3>2. Keyed(writeHandles')
      BY <2>3 DEF Keyed
    <3>3. Ids(writeHandles') = {c} /\ Ids(pushes') = {c}
      BY <2>3, <2>7 DEF Ids
    <3>4. QED
      BY <3>1, <3>2, <3>3 DEF HandlesFollowSessions
  <2>11. TimersServeSessions' /\ UploadsTimed'
    <3>1. Ids(pushes') = {c}
      BY <2>3, <2>7 DEF Ids
    <3>2. QED
      BY <1>1, <2>1, <2>4, <3>1
      DEF Inv, TimersServeSessions, UploadsTimed, Ids
  <2>12. DiskMatchesProgress'
    BY <2>3, <2>5, <2>7 DEF DiskMatchesProgress
  <2>13. QED
    BY <2>8, <2>9, <2>10, <2>11, <2>12 DEF Inv
<1>4. CASE OnUndecodablePush
  BY <1>2, <1>4 DEF OnUndecodablePush
<1>5. ASSUME NEW m \in PushBrief, OnPushBrief(m, PushBusy)
      PROVE  Inv'
  BY <1>2, <1>3, <1>5 DEF OnPushBrief, RefusePushBrief
<1>6. QED
  BY <1>4, <1>5 DEF AnnouncePush

\* onPushContent: a segment in order extends the file by what it counts; any
\* other outcome ends the push.
LEMMA SendPushPreserves ==
    ASSUME Inv, SendPush
    PROVE  Inv'
<1>1. PICK m \in PushContent : OnPushContent(m)
  BY DEF SendPush
<1>2. /\ uploads' = uploads /\ readHandles' = readHandles
      /\ connected' = connected /\ UNCHANGED uploadVars
  BY DEF SendPush, uploadVars
<1>3. m.cmdId \in CmdIds /\ m.content \in Seq(Byte) /\ Len(m.content) \in Nat
  <2>1. m.cmdId \in CmdIds /\ m.content \in BytesUpTo(MaxSegment)
    BY DEF PushContent
  <2>2. m.content \in Seq(Byte)
    BY <2>1, BytesAreSeq, PushAssumption
  <2>3. QED
    BY <2>1, <2>2, LenProperties
<1>4. disk \in [Files -> Seq(Byte)]
  BY DEF Inv, TypeOK, PushTypeOK
<1>5. ASSUME UNCHANGED <<pushVars, timers>>
      PROVE  Inv'
  BY <1>2, <1>5, UnchangedPreserves
<1>6. ASSUME NEW s \in pushes, s.cmdId = m.cmdId,
             NEW error, EndPush(m, error), disk' \in [Files -> Seq(Byte)]
      PROVE  Inv'
  BY <1>2, <1>6, ClosePushPreserves DEF EndPush
<1>7. ASSUME NEW s \in pushes
      PROVE  /\ s \in PushSession /\ s.file \in Files /\ s.bytesWritten \in Nat
             /\ s.bytesWritten = Len(disk[s.file])
             /\ \A h \in writeHandles : h.cmdId = s.cmdId => h.file = s.file
  <2>1. s \in PushSession
    BY DEF Inv, TypeOK, PushTypeOK
  <2>2. s.bytesWritten = Len(disk[s.file])
    BY DEF Inv, DiskMatchesProgress
  <2>3. \A h \in writeHandles : h.cmdId = s.cmdId => h.file = s.file
    <3> DEFINE hs == [cmdId |-> s.cmdId, file |-> s.file]
    <3>1. hs \in writeHandles /\ hs.cmdId = s.cmdId /\ hs.file = s.file
      BY DEF Inv, DiskMatchesProgress
    <3>2. \A h, g \in writeHandles : h.cmdId = g.cmdId => h = g
      BY DEF Inv, HandlesFollowSessions, Keyed
    <3> HIDE DEF hs
    <3>3. QED
      BY <3>1, <3>2
  <2>4. QED
    BY <2>1, <2>2, <2>3 DEF PushSession
<1>8. ASSUME NEW s \in pushes, s.cmdId = m.cmdId, StoreFails(m, s)
      PROVE  Inv'
  <2>1. EndPush(m, "IO_ERROR")
    BY <1>8 DEF StoreFails
  <2>2. CASE UNCHANGED disk
    BY <1>4, <1>6, <1>8, <2>1, <2>2
  <2>3. CASE \E h \in writeHandles, k \in 1..(Len(m.content) - 1) :
               /\ h.cmdId = m.cmdId
               /\ disk' = WriteAt(disk, h.file, s.bytesWritten,
                                  SubSeq(m.content, 1, k))
    <3>1. PICK h \in writeHandles, k \in 1..(Len(m.content) - 1) :
            /\ h.cmdId = m.cmdId
            /\ disk' = WriteAt(disk, h.file, s.bytesWritten,
                               SubSeq(m.content, 1, k))
      BY <2>3
    <3>2. k \in 0..Len(m.content) /\ h.file = s.file
      BY <1>3, <1>7, <1>8, <3>1
    <3>3. SubSeq(m.content, 1, k) \in Seq(Byte)
      BY <1>3, <3>2, PrefixIsSeq
    <3>4. disk' \in [Files -> Seq(Byte)]
      BY <1>4, <1>7, <3>1, <3>2, <3>3, WriteAtEnd
    <3>5. QED
      BY <1>6, <1>8, <2>1, <3>4
  <2>4. QED
    BY <1>8, <2>2, <2>3 DEF StoreFails
<1>9. ASSUME NEW s \in pushes, s.cmdId = m.cmdId,
             NEW h \in writeHandles, h.cmdId = m.cmdId,
             StoreSegment(m, s, h)
      PROVE  Inv'
  <2> DEFINE t == Received(m, s)
  <2>1. disk' = WriteAt(disk, s.file, s.bytesWritten, m.content)
    BY <1>7, <1>9 DEF StoreSegment
  <2>2. /\ disk' \in [Files -> Seq(Byte)]
        /\ Len(disk'[s.file]) = s.bytesWritten + Len(m.content)
    BY <1>3, <1>4, <1>7, <2>1, WriteAtEnd
  <2>3. CASE ~m.more
    BY <1>6, <1>9, <2>2, <2>3 DEF StoreSegment
  <2>4. CASE m.more
    <3>1. /\ pushes' = Put(pushes, t) /\ timers' = Reset(timers, m.cmdId)
          /\ writeHandles' = writeHandles
      BY <1>9, <2>4 DEF StoreSegment
    <3>2. /\ t \in PushSession /\ t.cmdId = m.cmdId /\ t.file = s.file
          /\ t.bytesWritten = s.bytesWritten + Len(m.content)
      <4>1. s.nextSegNo \in Nat
        BY <1>7, SegModAssumption DEF PushSession
      <4>2. /\ (s.nextSegNo + 1) % SegMod \in 0..(SegMod - 1)
            /\ s.bytesWritten + Len(m.content) \in Nat
        BY <1>3, <1>7, <4>1, SegNoRange
      <4>3. QED
        BY <1>7, <1>9, <4>2 DEF Received, PushSession
    <3> HIDE DEF t
    <3>3. \A q \in pushes : q.cmdId = t.cmdId
      BY <1>9, <3>2 DEF Inv, ExclusiveUnlessZero
    <3>4. pushes' = {t}
      BY <3>1, <3>3, OnlyRecord
    <3>5. Ids(pushes') = Ids(pushes)
      BY <1>9, <3>2, <3>3, <3>4 DEF Ids
    <3>6. /\ timers' \subseteq Timer(CmdIds) /\ Keyed(timers')
          /\ Ids(timers') = Ids(timers)
      <4>1. timers \subseteq Timer(CmdIds) /\ Keyed(timers)
        BY DEF Inv, TypeOK, UploadTypeOK, TimersServeSessions
      <4>2. LET T == Reset(timers, m.cmdId)
            IN  T \subseteq Timer(CmdIds) /\ Keyed(T) /\ Ids(T) = Ids(timers)
        BY <1>3, <4>1, ResetEffect
      <4>3. QED
        BY <3>1, <4>2
    <3>7. TypeOK'
      BY <1>2, <2>2, <3>1, <3>2, <3>4, <3>6
      DEF Inv, TypeOK, UploadTypeOK, PushTypeOK
    <3>8. ExclusiveUnlessZero'
      <4>1. \A u \in uploads : u.cmdId = 0
        BY <1>9 DEF Inv, ExclusiveUnlessZero
      <4>2. QED
        BY <1>2, <3>4, <4>1 DEF Inv, ExclusiveUnlessZero
    <3>9. HandlesFollowSessions'
      BY <1>2, <3>1, <3>5 DEF Inv, HandlesFollowSessions
    <3>10. TimersServeSessions' /\ UploadsTimed'
      BY <1>2, <3>5, <3>6 DEF Inv, TimersServeSessions, UploadsTimed
    <3>11. DiskMatchesProgress'
      <4>1. [cmdId |-> s.cmdId, file |-> s.file] \in writeHandles
        BY DEF Inv, DiskMatchesProgress
      <4>2. [cmdId |-> t.cmdId, file |-> t.file] \in writeHandles'
        BY <1>9, <3>1, <3>2, <4>1
      <4>3. QED
        BY <2>2, <3>2, <3>4, <4>2 DEF DiskMatchesProgress
    <3>12. QED
      BY <3>7, <3>8, <3>9, <3>10, <3>11 DEF Inv
  <2>5. QED
    BY <2>3, <2>4
<1>10. ASSUME NEW s \in pushes, s.cmdId = m.cmdId,
              EndPush(m, "INVALID_SEG_NO"), UNCHANGED disk
       PROVE  Inv'
  BY <1>4, <1>6, <1>10
<1>11. QED
  BY <1>1, <1>5, <1>8, <1>9, <1>10 DEF OnPushContent

-----------------------------------------------------------------------------
(* The loop.                                                               *)

\* tick: a deadline that has run out takes every session of its CmdId along.
LEMMA TickPreserves ==
    ASSUME Inv, Tick
    PROVE  Inv'
<1> DEFINE E == Expired(timers)
<1>1. /\ timers' = Unexpired(timers) /\ connected' = connected
      /\ uploads' = {s \in uploads : s.cmdId \notin E}
      /\ readHandles' = {h \in readHandles : h.cmdId \notin E \cap Ids(uploads)}
      /\ pushes' = {s \in pushes : s.cmdId \notin E}
      /\ writeHandles' =
           {h \in writeHandles : h.cmdId \notin E \cap Ids(pushes)}
      /\ disk' = disk
  BY DEF Tick, UploadsTimeout, PushesTimeout
<1>2. /\ timers' \subseteq Timer(CmdIds) /\ Keyed(timers')
      /\ Ids(timers') = Ids(timers) \ E
  <2>1. timers \subseteq Timer(CmdIds) /\ Keyed(timers)
    BY DEF Inv, TypeOK, UploadTypeOK, TimersServeSessions
  <2>2. /\ Unexpired(timers) \subseteq Timer(CmdIds) /\ Keyed(Unexpired(timers))
        /\ Ids(Unexpired(timers)) = Ids(timers) \ E
    BY <2>1, TickEffect
  <2>3. QED
    BY <1>1, <2>2
<1> HIDE DEF E
<1>3. /\ Ids(uploads') = Ids(uploads) \ E
      /\ Ids(pushes') = Ids(pushes) \ E
      /\ Ids(readHandles') = Ids(readHandles) \ (E \cap Ids(uploads))
      /\ Ids(writeHandles') = Ids(writeHandles) \ (E \cap Ids(pushes))
  BY <1>1 DEF Ids
<1>4. TypeOK'
  BY <1>1, <1>2 DEF Inv, TypeOK, UploadTypeOK, PushTypeOK
<1>5. ExclusiveUnlessZero'
  BY <1>1 DEF Inv, ExclusiveUnlessZero
<1>6. HandlesFollowSessions'
  <2>1. Keyed(readHandles') /\ Keyed(writeHandles')
    BY <1>1 DEF Inv, HandlesFollowSessions, Keyed
  <2>2. QED
    BY <1>3, <2>1 DEF Inv, HandlesFollowSessions
<1>7. TimersServeSessions' /\ UploadsTimed'
  BY <1>1, <1>2, <1>3 DEF Inv, TimersServeSessions, UploadsTimed
<1>8. DiskMatchesProgress'
  <2>1. ASSUME NEW s \in pushes'
        PROVE  /\ Len(disk'[s.file]) = s.bytesWritten
               /\ [cmdId |-> s.cmdId, file |-> s.file] \in writeHandles'
    <3> DEFINE hs == [cmdId |-> s.cmdId, file |-> s.file]
    <3>1. s \in pushes /\ s.cmdId \notin E
      BY <1>1
    <3>2. Len(disk[s.file]) = s.bytesWritten /\ hs \in writeHandles
      BY <3>1 DEF Inv, DiskMatchesProgress
    <3>3. hs.cmdId \notin E
      BY <3>1
    <3>4. hs \in writeHandles'
      BY <1>1, <3>2, <3>3
    <3>5. QED
      BY <1>1, <3>2, <3>4
  <2>2. QED
    BY <2>1 DEF DiskMatchesProgress
<1>9. QED
  BY <1>4, <1>5, <1>6, <1>7, <1>8 DEF Inv

\* The clock, and the end of a connection, touch no table but the deadlines.
LEMMA SecondPreserves ==
    ASSUME Inv, Second \/ Disconnect
    PROVE  Inv'
<1>1. /\ uploads' = uploads /\ readHandles' = readHandles
      /\ pushes' = pushes /\ writeHandles' = writeHandles /\ disk' = disk
      /\ connected' \in BOOLEAN
  BY DEF Second, Disconnect, uploadVars, pushVars, Inv, TypeOK
<1>2. timers \subseteq Timer(CmdIds) /\ Keyed(timers)
  BY DEF Inv, TypeOK, UploadTypeOK, TimersServeSessions
<1>3. /\ Countdown(timers) \subseteq Timer(CmdIds) /\ Keyed(Countdown(timers))
      /\ Ids(Countdown(timers)) = Ids(timers)
  BY <1>2, CountdownEffect
<1>4. timers' = timers \/ timers' = Countdown(timers)
  BY DEF Second, Disconnect
<1>5. /\ timers' \subseteq Timer(CmdIds) /\ Keyed(timers')
      /\ Ids(timers') = Ids(timers)
  BY <1>2, <1>3, <1>4
<1>6. TypeOK'
  BY <1>1, <1>5 DEF Inv, TypeOK, UploadTypeOK, PushTypeOK
<1>7. ExclusiveUnlessZero' /\ DiskMatchesProgress'
  BY <1>1 DEF Inv, ExclusiveUnlessZero, DiskMatchesProgress
<1>8. HandlesFollowSessions' /\ TimersServeSessions' /\ UploadsTimed'
  BY <1>1, <1>5
  DEF Inv, HandlesFollowSessions, TimersServeSessions, UploadsTimed
<1>9. QED
  BY <1>6, <1>7, <1>8 DEF Inv

\* With empty tables there is nothing to be inconsistent.
LEMMA EmptyTables ==
    ASSUME uploads = {}, readHandles = {}, pushes = {}, writeHandles = {},
           timers = {}, disk \in [Files -> Seq(Byte)], connected \in BOOLEAN
    PROVE  Inv
BY DEF Inv, TypeOK, UploadTypeOK, PushTypeOK, ExclusiveUnlessZero,
       HandlesFollowSessions, TimersServeSessions, UploadsTimed,
       DiskMatchesProgress, Ids, Keyed

\* The process starts, and starts again, with empty tables.
LEMMA RestartPreserves ==
    ASSUME Inv, Restart
    PROVE  Inv'
BY DEF Restart, Inv, TypeOK, UploadTypeOK, PushTypeOK, ExclusiveUnlessZero,
       HandlesFollowSessions, TimersServeSessions, UploadsTimed,
       DiskMatchesProgress, Ids, Keyed

\* The inductive invariant holds in every reachable state.
THEOREM Invariance == Spec => []Inv
<1>1. Init => Inv
  BY EmptySeq, EmptyTables DEF Init, UploadInit, PushInit
<1>2. Inv /\ [Next]_vars => Inv'
  <2> SUFFICES ASSUME Inv, [Next]_vars
               PROVE  Inv'
    OBVIOUS
  <2>1. CASE Summon
    BY <2>1, SummonPreserves
  <2>2. CASE ConfirmContent
    BY <2>2, ConfirmContentPreserves
  <2>3. CASE AnnouncePush
    BY <2>3, AnnouncePushPreserves
  <2>4. CASE SendPush
    BY <2>4, SendPushPreserves
  <2>5. CASE Tick
    BY <2>5, TickPreserves
  <2>6. CASE Second \/ Disconnect
    BY <2>6, SecondPreserves
  <2>7. CASE Restart
    BY <2>7, RestartPreserves
  <2>8. CASE UNCHANGED vars
    BY <2>8, UnchangedPreserves DEF vars
  <2>9. QED
    BY <2>1, <2>2, <2>3, <2>4, <2>5, <2>6, <2>7, <2>8 DEF Next
<1>3. QED
  BY <1>1, <1>2, PTL DEF Spec

\* Every table keeps its type.
THEOREM TypeCorrect == Spec => []TypeOK
<1>1. Inv => TypeOK
  BY DEF Inv
<1>2. QED
  BY Invariance, <1>1, PTL

\* One upload, one push, and the two together only under CmdId 0.
THEOREM Exclusive == Spec => []ExclusiveUnlessZero
<1>1. Inv => ExclusiveUnlessZero
  BY DEF Inv
<1>2. QED
  BY Invariance, <1>1, PTL

\* Handles are open exactly for the sessions there are.
THEOREM HandlesFollow == Spec => []HandlesFollowSessions
<1>1. Inv => HandlesFollowSessions
  BY DEF Inv
<1>2. QED
  BY Invariance, <1>1, PTL

\* No deadline without a session: the tables of both sides and the watchdog's
\* entries stay in step, whichever handler closes a transfer.
THEOREM TimersServe == Spec => []TimersServeSessions
<1>1. Inv => TimersServeSessions
  BY DEF Inv
<1>2. QED
  BY Invariance, <1>1, PTL

\* No upload but that of CmdId 0 without a deadline.
THEOREM UploadsGuarded == Spec => []UploadsTimed
<1>1. Inv => UploadsTimed
  BY DEF Inv
<1>2. QED
  BY Invariance, <1>1, PTL

\* The progress of a push is the length of the file it writes.
THEOREM DiskFollows == Spec => []DiskMatchesProgress
<1>1. Inv => DiskMatchesProgress
  BY DEF Inv
<1>2. QED
  BY Invariance, <1>1, PTL

-----------------------------------------------------------------------------
(* Properties of single steps.                                             *)

\* The messages of the two shapes of an answer.
LEMMA PublishedOf ==
    ASSUME NEW x, NEW y
    PROVE  /\ Publish(<<>>) => Published' = {}
           /\ Publish(<<x>>) => Published' = {x}
           /\ Publish(Append(<<>>, y)) => Published' = {y}
           /\ Publish(Append(<<x>>, y)) => Published' = {x, y}
BY DEF Publish, Published

\* The step behind AcceptedFileIsComplete, for one push.
Completes(s) ==
    (/\ Len(s.expectedFileCrc) = s.expectedFileSize
     /\ s.cmdId \notin Ids(pushes')
     /\ \E m \in Published' : /\ m.type = "pushContentConfirm"
                              /\ m.cmdId = s.cmdId
                              /\ m.error = "NONE")
    => disk'[s.file] = s.expectedFileCrc

\* The last segment is confirmed only when a prefix of the file has the CRC
\* announced; of an honest brief this prefix is as long as the file.
LEMMA LastSegmentCompletes ==
    ASSUME Inv, NEW s \in pushes, NEW m \in PushContent,
           NEW h \in writeHandles, h.cmdId = s.cmdId, m.cmdId = s.cmdId,
           StoreSegment(m, s, h)
    PROVE  Completes(s)
<1> DEFINE t == Received(m, s)
<1>1. /\ s \in PushSession /\ s.file \in Files /\ s.bytesWritten \in Nat
      /\ s.bytesWritten = Len(disk[s.file])
      /\ disk \in [Files -> Seq(Byte)]
  BY DEF Inv, TypeOK, PushTypeOK, PushSession, DiskMatchesProgress
<1>2. h.file = s.file
  <2> DEFINE hs == [cmdId |-> s.cmdId, file |-> s.file]
  <2>1. hs \in writeHandles /\ hs.cmdId = s.cmdId /\ hs.file = s.file
    BY DEF Inv, DiskMatchesProgress
  <2>2. \A g, k \in writeHandles : g.cmdId = k.cmdId => g = k
    BY DEF Inv, HandlesFollowSessions, Keyed
  <2> HIDE DEF hs
  <2>3. QED
    BY <2>1, <2>2
<1>3. m.content \in Seq(Byte) /\ Len(m.content) \in Nat
  <2>1. m.content \in BytesUpTo(MaxSegment)
    BY DEF PushContent
  <2>2. m.content \in Seq(Byte)
    BY <2>1, BytesAreSeq, PushAssumption
  <2>3. QED
    BY <2>2, LenProperties
<1>4. disk' = WriteAt(disk, s.file, s.bytesWritten, m.content)
  BY <1>2 DEF StoreSegment
<1>5. /\ disk'[s.file] \in Seq(Byte)
      /\ Len(disk'[s.file]) = s.bytesWritten + Len(m.content)
  BY <1>1, <1>3, <1>4, WriteAtEnd
<1>6. /\ t.cmdId = s.cmdId /\ t.expectedFileSize = s.expectedFileSize
      /\ t.expectedFileCrc = s.expectedFileCrc
      /\ t.bytesWritten = s.bytesWritten + Len(m.content)
  BY <1>1 DEF Received, PushSession
<1>7. CASE m.more
  <2>1. pushes' = Put(pushes, t)
    BY <1>7 DEF StoreSegment
  <2> HIDE DEF t
  <2>2. s.cmdId \in Ids(pushes')
    BY <1>6, <2>1, PutKeys
  <2>3. QED
    BY <2>2 DEF Completes
<1>8. CASE ~m.more
  <2> HIDE DEF t
  <2>1. PICK content \in ReadBack(disk'[s.file]) :
          EndPush(m, FinalError(t, content))
    BY <1>8 DEF StoreSegment, t
  <2>2. Published' =
            {PushContentConfirm(m.cmdId, m.segNo, FinalError(t, content))}
    BY <2>1, PublishedOf DEF EndPush, Answer
  <2>3. ASSUME \E r \in Published' : r.error = "NONE"
        PROVE  FinalError(t, content) = "NONE"
    BY <2>2, <2>3 DEF PushContentConfirm
  <2>4. ASSUME FinalError(t, content) = "NONE",
               Len(s.expectedFileCrc) = s.expectedFileSize
        PROVE  disk'[s.file] = s.expectedFileCrc
    <3>1. /\ Len(disk'[s.file]) = s.expectedFileSize
          /\ content = s.expectedFileCrc
      BY <1>5, <1>6, <2>4 DEF FinalError
    <3>2. PICK k \in 0..Len(disk'[s.file]) :
              content = SubSeq(disk'[s.file], 1, k)
      BY DEF ReadBack
    <3>3. Len(content) = k
      BY <1>5, <3>2, PrefixIsSeq
    <3>4. content = SubSeq(disk'[s.file], 1, Len(disk'[s.file]))
      BY <2>4, <3>1, <3>2, <3>3
    <3>5. QED
      BY <1>5, <3>1, <3>4, SubSeqFull
  <2>5. QED
    BY <2>3, <2>4 DEF Completes
<1>9. QED
  BY <1>7, <1>8

\* A push that is confirmed to its end has left the file it announced.
THEOREM AcceptedComplete == Spec => AcceptedFileIsComplete
<1>1. ASSUME Inv, [Next]_vars, NEW s \in pushes
      PROVE  Completes(s)
  <2>1. ASSUME pushes' = pushes
        PROVE  Completes(s)
    BY <2>1 DEF Completes, Ids
  <2>2. ASSUME Published' = {}
        PROVE  Completes(s)
    BY <2>2 DEF Completes
  <2>3. CASE Summon \/ ConfirmContent \/ Second \/ Disconnect \/ UNCHANGED vars
    BY <2>1, <2>3 DEF Summon, ConfirmContent, Second, Disconnect, vars, pushVars
  <2>4. CASE AnnouncePush
    BY <2>1, <2>4
    DEF AnnouncePush, OnUndecodablePush, OnPushBrief, AcceptPushBrief,
        RefusePushBrief, HasActiveSession, pushVars
  <2>5. CASE SendPush
    <3>1. PICK m \in PushContent : OnPushContent(m)
      BY <2>5 DEF SendPush
    <3>2. \A q \in pushes : q = s
      BY <1>1 DEF Inv, ExclusiveUnlessZero
    <3>3. ASSUME NEW error, error # "NONE", Answer(m, error)
          PROVE  Completes(s)
      <4>1. Published' = {PushContentConfirm(m.cmdId, m.segNo, error)}
        BY <3>3, PublishedOf DEF Answer
      <4>2. QED
        BY <3>3, <4>1 DEF Completes, PushContentConfirm
    <3>4. ASSUME NEW h \in writeHandles, s.cmdId = m.cmdId, h.cmdId = m.cmdId,
                 StoreSegment(m, s, h)
          PROVE  Completes(s)
      BY <1>1, <3>4, LastSegmentCompletes
    <3>5. CASE m.cmdId \notin Ids(pushes) /\ UNCHANGED <<pushVars, timers>>
      BY <2>1, <3>5 DEF pushVars
    <3>6. QED
      BY <3>1, <3>2, <3>3, <3>4, <3>5 DEF OnPushContent, EndPush, StoreFails
  <2>6. CASE Tick \/ Restart
    BY <2>2, <2>6, PublishedOf DEF Tick, Restart
  <2>7. QED
    BY <1>1, <2>3, <2>4, <2>5, <2>6 DEF Next
<1>2. Inv /\ [Next]_vars
        => [\A s \in pushes : Completes(s)]_vars
  BY <1>1
<1>3. QED
  BY <1>2, Invariance, PTL DEF Spec, AcceptedFileIsComplete, Completes

\* A summon answered with an error has no session when the handler is done.
THEOREM RefusalsEnd == Spec => []RefusedSummonSendsNothing
<1> DEFINE R == RefusedSummonSendsNothing
<1>1. Init => R
  BY DEF Init, RefusedSummonSendsNothing, Published
<1>2. ASSUME R, [Next]_vars
      PROVE  R'
  <2>1. ASSUME \A m \in Published' : m.type # "brief" \/ m.error = "NONE"
        PROVE  R'
    BY <2>1 DEF RefusedSummonSendsNothing
  <2>2. ASSUME Publish(<<>>)
        PROVE  R'
    BY <2>1, <2>2, PublishedOf
  <2>3. ASSUME NEW c, NEW error, NEW T, PublishBriefFailure(c, error, T)
        PROVE  R'
    <3>1. Published' = {Brief(c, error, 0)} /\ uploads' = Without(uploads, c)
      BY <2>3, PublishedOf DEF PublishBriefFailure, CloseTransfer
    <3>2. c \notin Ids(uploads')
      BY <3>1, WithoutKeys
    <3>3. QED
      BY <3>1, <3>2 DEF RefusedSummonSendsNothing, Brief
  <2>4. ASSUME NEW s, NEW S, NEW H, NEW T, NEW c, NEW size, NEW msgs,
               msgs = <<>> \/ msgs = <<Brief(c, "NONE", size)>>,
               SendNextContentSegment(s, S, H, T, msgs) \/ Publish(msgs)
        PROVE  R'
    <3> DEFINE b == Brief(c, "NONE", size)
    <3>1. b.error = "NONE"
      BY DEF Brief
    <3>2. ASSUME NEW h, NEW n
          PROVE  NextContent(s, h, n).type # "brief"
      BY DEF NextContent, Content
    <3>3. \/ Publish(msgs)
          \/ \E h \in H, n \in 1..SmallerOf(ChunkSize,
                                            s.fileSize - s.nextFileOffset) :
                Publish(Append(msgs, NextContent(s, h, n)))
      BY <2>4 DEF SendNextContentSegment
    <3> HIDE DEF b
    <3>4. CASE Publish(msgs)
      <4>1. Published' = {} \/ Published' = {b}
        BY <2>4, <3>4, PublishedOf DEF b
      <4>2. QED
        BY <2>1, <3>1, <4>1
    <3>5. ASSUME NEW h, NEW n, Publish(Append(msgs, NextContent(s, h, n)))
          PROVE  R'
      <4> DEFINE x == NextContent(s, h, n)
      <4>1. Published' = {x} \/ Published' = {b, x}
        BY <2>4, <3>5, PublishedOf DEF b
      <4>2. QED
        BY <2>1, <3>1, <3>2, <4>1
    <3>6. QED
      BY <3>3, <3>4, <3>5
  <2>5. CASE Summon
    <3>1. CASE OnUndecodableSummon
      BY <2>3, <3>1 DEF OnUndecodableSummon
    <3>2. ASSUME NEW m \in SummonRequest, OnSummon(m, SummonBusy)
          PROVE  R'
      <4>1. CASE RefuseSummon(m, SummonBusy)
        BY <2>3, <4>1 DEF RefuseSummon
      <4>2. CASE AcceptSummon(m, SummonBusy)
        <5>1. PICK size \in 0..MaxFileSize :
                IF m.startByte - 1 > size
                THEN PublishBriefFailure(m.cmdId, "INVALID_START_BYTE",
                                         SummonTimer(m.cmdId))
                ELSE StartUpload(m, size)
          BY <4>2 DEF AcceptSummon
        <5>2. ASSUME StartUpload(m, size)
              PROVE  R'
          BY <2>4, <5>2 DEF StartUpload
        <5>3. QED
          BY <2>3, <5>1, <5>2
      <4>3. QED
        BY <3>2, <4>1, <4>2 DEF OnSummon
    <3>3. QED
      BY <2>5, <3>1, <3>2 DEF Summon
  <2>6. CASE ConfirmContent
    <3>1. ASSUME NEW s, ContinueUpload(s)
          PROVE  R'
      BY <2>4, <3>1 DEF ContinueUpload
    <3>2. QED
      BY <2>2, <2>6, <3>1 DEF ConfirmContent, OnContentConfirm
  <2>7. ASSUME NEW x, x.type # "brief", Publish(<<x>>)
        PROVE  R'
    BY <2>1, <2>7, PublishedOf
  <2>8. ASSUME NEW c, NEW error
        PROVE  PushBriefConfirm(c, error).type # "brief"
    BY DEF PushBriefConfirm
  <2>9. ASSUME NEW c, NEW segNo, NEW error
        PROVE  PushContentConfirm(c, segNo, error).type # "brief"
    BY DEF PushContentConfirm
  <2>10. CASE AnnouncePush
    BY <2>7, <2>8, <2>9, <2>10
    DEF AnnouncePush, OnUndecodablePush, OnPushBrief, RefusePushBrief,
        AcceptPushBrief
  <2>11. CASE SendPush
    <3>1. PICK m \in PushContent : OnPushContent(m)
      BY <2>11 DEF SendPush
    <3>2. \E error : Answer(m, error)
      BY <3>1 DEF OnPushContent, StoreFails, StoreSegment, EndPush
    <3>3. QED
      BY <2>7, <2>9, <3>2 DEF Answer
  <2>12. CASE Tick \/ Second \/ Disconnect \/ Restart
    BY <2>2, <2>12 DEF Tick, Second, Disconnect, Restart
  <2>13. CASE UNCHANGED vars
    BY <1>2, <2>13 DEF vars, uploadVars, RefusedSummonSendsNothing, Published
  <2>14. QED
    BY <1>2, <2>5, <2>6, <2>10, <2>11, <2>12, <2>13 DEF Next
<1>3. QED
  BY <1>1, <1>2, PTL DEF Spec

-----------------------------------------------------------------------------
(* An upload always waits for a confirm.                                   *)

\* For files shorter than 2^32 bytes, and whatever each read returns, an
\* upload between two messages is waiting for the confirm of a segment sent.
THEOREM UploadsKeepWaiting ==
    ASSUME MaxFileSize < SegMod
    PROVE  Spec => []UploadsAwait
<1> DEFINE W == \A q \in uploads : Waits(q)
<1>1. Init => W
  BY DEF Init, UploadInit
<1>2. ASSUME Inv, W, [Next]_vars
      PROVE  W'
  <2>1. ASSUME uploads' \subseteq uploads
        PROVE  W'
    BY <1>2, <2>1 DEF Waits, Numbered
  <2>2. ASSUME NEW c, NEW H, NEW T, CloseTransfer(c, uploads, H, T)
        PROVE  W'
    BY <2>1, <2>2, WithoutKeys DEF CloseTransfer
  <2>3. CASE Summon
    <3>1. CASE OnUndecodableSummon
      BY <2>2, <3>1 DEF OnUndecodableSummon, PublishBriefFailure
    <3>2. ASSUME NEW m \in SummonRequest, OnSummon(m, SummonBusy)
          PROVE  W'
      <4>1. \/ uploads' = Without(uploads, m.cmdId)
            \/ \E u : Waits(u) /\ uploads' = Put(uploads, u)
        BY <3>2, SummonOutcome DEF SummonRequest, FirstContent, Continues
      <4>2. QED
        BY <1>2, <2>1, <4>1, WithoutKeys, PutKeys
    <3>3. QED
      BY <2>3, <3>1, <3>2 DEF Summon
  <2>4. CASE ConfirmContent
    <3>1. PICK m \in ContentConfirm : OnContentConfirm(m)
      BY <2>4 DEF ConfirmContent
    <3>2. uploads \subseteq UploadSession /\ \A q \in uploads : Numbered(q)
      BY <1>2 DEF Inv, TypeOK, UploadTypeOK, Waits
    <3>3. \/ uploads' \subseteq uploads
          \/ \E u : Waits(u) /\ uploads' = Put(uploads, u)
      BY <3>1, <3>2, ConfirmOutcome, WithoutKeys DEF Continues
    <3>4. QED
      BY <1>2, <2>1, <3>3, PutKeys
  <2>5. CASE AnnouncePush \/ SendPush \/ Second \/ Disconnect \/ UNCHANGED vars
    BY <2>1, <2>5
    DEF AnnouncePush, SendPush, Second, Disconnect, vars, uploadVars
  <2>6. CASE Tick \/ Restart
    BY <2>1, <2>6 DEF Tick, Restart, UploadsTimeout
  <2>7. QED
    BY <1>2, <2>3, <2>4, <2>5, <2>6 DEF Next
<1>3. W => UploadsAwait
  BY DEF Waits, UploadsAwait
<1>4. QED
  BY <1>1, <1>2, <1>3, Invariance, PTL DEF Spec
=============================================================================
