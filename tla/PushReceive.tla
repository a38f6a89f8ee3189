----------------------------- MODULE PushReceive -----------------------------
(***************************************************************************)
(* PushReceiveOrchestrator: the platform announces a file with a push      *)
(* brief and sends its content one segment at a time; the gateway writes   *)
(* each segment at the offset reached so far, confirms it, and checks size *)
(* and CRC when the last one is in.  One action per handler.               *)
(*                                                                         *)
(* A file content is a sequence of bytes.  A CRC stands for the content it *)
(* was computed from (two contents with one CRC are outside the model);    *)
(* an unparsable FileCrc is one that no content has.                       *)
(***************************************************************************)
EXTENDS Naturals, Sequences, KeyedRecords, TimeoutWatchdog, MqttLink

CONSTANTS
    Byte,           \* the values of a byte
    MaxPushSize,    \* bound: largest FileSize announced, most bytes written
    MaxSegment      \* bound: longest segment

ASSUME PushAssumption == MaxPushSize \in Nat /\ MaxSegment \in Nat

VARIABLES
    pushes,         \* sessions_ (MemoryPushSessionStore)
    writeHandles,   \* openWriteHandles_: the file each open handle writes
    disk            \* content of the files

pushVars == <<pushes, writeHandles, disk>>

\* The byte strings of at most n bytes.
BytesUpTo(n) == UNION {[1..k -> Byte] : k \in 0..n}

PushSession ==
    [cmdId : CmdIds, file : Files, expectedFileSize : 0..MaxPushSize,
     expectedFileCrc : BytesUpTo(MaxPushSize), bytesWritten : Nat,
     nextSegNo : 0..(SegMod - 1), state : {"BriefOk", "ReceivingContent"}]

PushBrief ==
    [cmdId : CmdIds, file : Files, fileSize : 0..MaxPushSize,
     fileCrc : BytesUpTo(MaxPushSize)]

PushContent ==
    [cmdId : CmdIds, segNo : 0..(SegMod - 1), content : BytesUpTo(MaxSegment),
     more : BOOLEAN]

PushTypeOK ==
    /\ pushes \subseteq PushSession
    /\ writeHandles \subseteq [cmdId : CmdIds, file : Files]
    /\ disk \in [Files -> Seq(Byte)]

PushInit ==
    /\ pushes = {}
    /\ writeHandles = {}
    /\ disk = [f \in Files |-> <<>>]

-----------------------------------------------------------------------------
(* FileStore.                                                              *)

NotTruncated(d, f) == d    \* Fault: opened without O_TRUNC

\* openWriteCreate: O_CREAT | O_TRUNC.
OpenWriteCreate(d, f) == [d EXCEPT ![f] = <<>>]

\* writeAt: bytes replace what is at offset.., which is within the file.
WriteAt(d, f, offset, bytes) ==
    [d EXCEPT ![f] = SubSeq(@, 1, offset) \o bytes
                         \o SubSeq(@, offset + Len(bytes) + 1, Len(@))]

-----------------------------------------------------------------------------
(* Handlers.                                                               *)

\* Every record in the store is in one of the active states.
HasActiveSession == pushes # {}

RefusePushBrief(m, busy) ==
    \E error \in {"BUSY", "INVALID_PATH", "INVALID_START_BYTE", "IO_ERROR"} :
        /\ (error = "BUSY") <=> (busy \/ HasActiveSession)
        /\ error = "INVALID_START_BYTE" => m.fileSize = 0
        /\ error = "IO_ERROR" => m.fileSize # 0
        /\ Publish(<<PushBriefConfirm(m.cmdId, error)>>)
        /\ UNCHANGED <<pushVars, timers>>

AcceptPushBrief(m, busy) ==
    /\ ~busy /\ ~HasActiveSession
    /\ m.fileSize # 0
    /\ disk' = OpenWriteCreate(disk, m.file)
    /\ pushes' = Put(pushes,
            [cmdId |-> m.cmdId, file |-> m.file,
             expectedFileSize |-> m.fileSize, expectedFileCrc |-> m.fileCrc,
             bytesWritten |-> 0, nextSegNo |-> 1, state |-> "BriefOk"])
    /\ writeHandles' = Emplace(writeHandles,
                               [cmdId |-> m.cmdId, file |-> m.file])
    /\ timers' = Arm(timers, m.cmdId)
    /\ Publish(<<PushBriefConfirm(m.cmdId, "NONE")>>)

OnPushBrief(m, busy) == RefusePushBrief(m, busy) \/ AcceptPushBrief(m, busy)

\* abortSession, and the end of a push that succeeded: handle, session and
\* timer go.
ClosePush(c) ==
    /\ pushes' = Without(pushes, c)
    /\ writeHandles' = Without(writeHandles, c)
    /\ timers' = Disarm(timers, c)

\* Fault: a segment is confirmed only when it is the last, or refused.
AnswerLast(m, error) ==
    IF error = "NONE" /\ m.more THEN Publish(<<>>)
    ELSE Publish(<<PushContentConfirm(m.cmdId, m.segNo, error)>>)

Answer(m, error) == Publish(<<PushContentConfirm(m.cmdId, m.segNo, error)>>)

\* The answer that ends a push: "NONE" when the file is complete.
EndPush(m, error) == Answer(m, error) /\ ClosePush(m.cmdId)

InOrder(m, s) == m.segNo = s.nextSegNo

Received(m, s) ==
    [s EXCEPT !.bytesWritten = @ + Len(m.content),
              !.nextSegNo = (@ + 1) % SegMod,
              !.state = "ReceivingContent"]

\* Fault: the CRC is not looked at.
SizeOnlyError(s, content) ==
    IF s.bytesWritten # s.expectedFileSize THEN "IO_ERROR" ELSE "NONE"

\* The checks of the last segment, for the content read back from the path.
FinalError(s, content) ==
    IF s.bytesWritten # s.expectedFileSize THEN "IO_ERROR"
    ELSE IF content # s.expectedFileCrc THEN "CRC_MISMATCH" ELSE "NONE"

\* What computeFile may see of a file: a failed open gives the CRC of no
\* bytes, a failed read that of the bytes before it.
ReadBack(content) == {SubSeq(content, 1, k) : k \in 0..Len(content)}

\* The whole segment was written.
StoreSegment(m, s, h) ==
    LET t == Received(m, s)
    IN  /\ m.content # <<>>
        /\ disk' = WriteAt(disk, h.file, s.bytesWritten, m.content)
        /\ IF m.more
           THEN /\ pushes' = Put(pushes, t)
                /\ timers' = Reset(timers, m.cmdId)
                /\ Answer(m, "NONE")
                /\ UNCHANGED writeHandles
           ELSE \E content \in ReadBack(disk'[s.file]) :
                    EndPush(m, FinalError(t, content))

\* write failed, wrote only a part, or there was nothing to write.
StoreFails(m, s) ==
    /\ \/ UNCHANGED disk
       \/ \E h \in writeHandles, k \in 1..(Len(m.content) - 1) :
            /\ h.cmdId = m.cmdId
            /\ disk' = WriteAt(disk, h.file, s.bytesWritten,
                               SubSeq(m.content, 1, k))
    /\ EndPush(m, "IO_ERROR")

OnPushContent(m) ==
    \/ /\ m.cmdId \notin Ids(pushes)
       /\ Answer(m, "NO_SESSION")
       /\ UNCHANGED <<pushVars, timers>>
    \/ \E s \in pushes :
        /\ s.cmdId = m.cmdId
        /\ \/ ~InOrder(m, s) /\ EndPush(m, "INVALID_SEG_NO") /\ UNCHANGED disk
           \/ InOrder(m, s) /\ StoreFails(m, s)
           \/ /\ InOrder(m, s)
              /\ \E h \in writeHandles : h.cmdId = m.cmdId /\ StoreSegment(m, s, h)

\* Undecodable frames are answered with CmdId 0 and touch no session.
OnUndecodablePush ==
    /\ \/ Publish(<<PushBriefConfirm(0, "BAD_FRAME")>>)
       \/ Publish(<<PushContentConfirm(0, 0, "BAD_FRAME")>>)
    /\ UNCHANGED <<pushVars, timers>>

PushesTimeoutIgnored(expired) == UNCHANGED pushVars    \* Fault: not called

PushesTimeout(expired) ==
    /\ pushes' = {s \in pushes : s.cmdId \notin expired}
    /\ writeHandles' =
        {h \in writeHandles : h.cmdId \notin expired \cap Ids(pushes)}
    /\ UNCHANGED disk
=============================================================================
