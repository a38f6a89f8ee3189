---------------------------- MODULE SummonUpload ----------------------------
(***************************************************************************)
(* TransferOrchestrator: the platform summons a file, the gateway answers  *)
(* with a brief and sends the content one segment at a time, each after    *)
(* the platform has confirmed the one before.  A handler runs to its end   *)
(* before the next message is looked at, so each handler is one action;    *)
(* the helpers take the tables as they stand when the code calls them.     *)
(*                                                                         *)
(* The file system is outside: an open may fail, a file may have any size  *)
(* when it is opened, and a later read may return less than was asked for. *)
(***************************************************************************)
EXTENDS Naturals, Sequences, KeyedRecords, TimeoutWatchdog, MqttLink

CONSTANTS
    ChunkSize,      \* config_.chunkSize
    MaxFileSize     \* bound: no file is larger

ASSUME UploadAssumption == ChunkSize \in Nat /\ MaxFileSize \in Nat

VARIABLES
    uploads,        \* sessions_ (MemorySessionStore)
    readHandles     \* openReadHandles_: the file each open handle reads

uploadVars == <<uploads, readHandles>>

UploadStates == {"BriefOk", "SendingContent", "WaitingContentConfirm"}

UploadSession ==
    [cmdId : CmdIds, file : Files, fileSize : 0..MaxFileSize,
     nextFileOffset : 0..MaxFileSize, nextSegNo : 0..(SegMod - 1),
     awaitingConfirmSegNo : 0..(SegMod - 1), state : UploadStates]

SummonRequest ==
    [cmdId : CmdIds, file : Files, startByte : 1..(MaxFileSize + 2)]

ContentConfirm ==
    [cmdId : CmdIds, segNo : 0..(SegMod - 1), success : BOOLEAN]

UploadTypeOK ==
    /\ uploads \subseteq UploadSession
    /\ readHandles \subseteq [cmdId : CmdIds, file : Files]
    /\ timers \subseteq Timer(CmdIds)

UploadInit == uploads = {} /\ readHandles = {}

-----------------------------------------------------------------------------
(* Helpers of the handlers.  S, H, T are the session store, the open       *)
(* handles and the watchdog's table at the point of the call.              *)

\* Every record in the store is in one of the active states.
HasActiveSessionOtherThan(c) == \E s \in uploads : s.cmdId # c

SmallerOfDropped(a, b) == a    \* Fault: the chunk is not cut at the end of file

SmallerOf(a, b) == IF a <= b THEN a ELSE b

\* abortTransfer and completeTransfer: nothing is published, so the platform
\* learns of an abort only by its own timeout.
CloseTransfer(c, S, H, T) ==
    /\ uploads' = Without(S, c)
    /\ readHandles' = Without(H, c)
    /\ timers' = Disarm(T, c)

\* Fault: a refusal is only published.
RefuseAndKeepSession(c, error, T) ==
    /\ Publish(<<Brief(c, error, 0)>>)
    /\ timers' = Disarm(T, c)
    /\ UNCHANGED uploadVars

PublishBriefFailure(c, error, T) ==
    /\ Publish(<<Brief(c, error, 0)>>)
    /\ CloseTransfer(c, uploads, readHandles, T)

\* The chunk of n bytes that s sends next, and s once it has been sent.
NextContent(s, h, n) ==
    Content(s.cmdId, s.nextSegNo, h.file, s.nextFileOffset, n,
            s.nextFileOffset + n < s.fileSize)

\* Fault: the offset is not moved on.
AwaitingSameOffset(s, n) ==
    [s EXCEPT !.awaitingConfirmSegNo = s.nextSegNo,
              !.nextSegNo = (s.nextSegNo + 1) % SegMod,
              !.state = "WaitingContentConfirm"]

\* Fault: the record goes back without the segment number it waits for.
AwaitingNothing(s, n) ==
    [s EXCEPT !.nextFileOffset = @ + n,
              !.nextSegNo = (s.nextSegNo + 1) % SegMod,
              !.state = "WaitingContentConfirm"]

Awaiting(s, n) ==
    [s EXCEPT !.nextFileOffset = @ + n,
              !.awaitingConfirmSegNo = s.nextSegNo,
              !.nextSegNo = (s.nextSegNo + 1) % SegMod,
              !.state = "WaitingContentConfirm"]

\* The transfer ends when the read fails, returns nothing or has no handle to
\* read from, and when nothing is left; otherwise 1..toRead bytes come back.
SendNextContentSegment(s, S, H, T, msgs) ==
    \/ /\ CloseTransfer(s.cmdId, S, H, T)
       /\ Publish(msgs)
    \/ \E h \in H :
        /\ h.cmdId = s.cmdId
        /\ s.nextFileOffset < s.fileSize
        /\ \E n \in 1..SmallerOf(ChunkSize, s.fileSize - s.nextFileOffset) :
            /\ uploads' = Put(S, Awaiting(s, n))
            /\ timers' = Reset(T, s.cmdId)
            /\ Publish(Append(msgs, NextContent(s, h, n)))
        /\ readHandles' = H

-----------------------------------------------------------------------------
(* Handlers.                                                               *)

OnUndecodableSummon == PublishBriefFailure(0, "BAD_FRAME", timers)

SummonTimerReset(c) == Reset(timers, c)    \* Fault: reset without arm

\* The timer is armed before the busy check.
SummonTimer(c) == Arm(timers, c)

RefuseSummon(m, busy) ==
    \E error \in {"BUSY", "INVALID_PATH", "FILE_NOT_FOUND",
                  "PERMISSION_DENIED", "IO_ERROR"} :
        /\ (error = "BUSY") <=> (busy \/ HasActiveSessionOtherThan(m.cmdId))
        /\ PublishBriefFailure(m.cmdId, error, SummonTimer(m.cmdId))

\* The file has been opened and has `size' bytes.  A summon of the CmdId that
\* is active replaces the session, but emplace leaves its old handle.
StartUpload(m, size) ==
    LET c == m.cmdId
        s == [cmdId |-> c, file |-> m.file, fileSize |-> size,
              nextFileOffset |-> m.startByte - 1, nextSegNo |-> 1,
              awaitingConfirmSegNo |-> 0, state |-> "BriefOk"]
        S == Put(uploads, s)
        H == Emplace(readHandles, [cmdId |-> c, file |-> m.file])
        T == SummonTimer(c)
        brief == <<Brief(c, "NONE", size)>>
    IN  IF s.nextFileOffset >= size
        THEN CloseTransfer(c, S, H, T) /\ Publish(brief)
        ELSE SendNextContentSegment(s, S, H, T, brief)

AcceptSummon(m, busy) ==
    /\ ~busy
    /\ ~HasActiveSessionOtherThan(m.cmdId)
    /\ \E size \in 0..MaxFileSize :
        IF m.startByte - 1 > size
        THEN PublishBriefFailure(m.cmdId, "INVALID_START_BYTE",
                                 SummonTimer(m.cmdId))
        ELSE StartUpload(m, size)

OnSummon(m, busy) == RefuseSummon(m, busy) \/ AcceptSummon(m, busy)

Confirms(m, s) == m.segNo = s.awaitingConfirmSegNo /\ m.success

ContinueUpload(s) ==
    LET t == [s EXCEPT !.awaitingConfirmSegNo = 0, !.state = "SendingContent"]
        S == Put(uploads, t)
        T == Reset(timers, s.cmdId)
    IN  IF t.nextFileOffset >= t.fileSize
        THEN CloseTransfer(s.cmdId, S, readHandles, T) /\ Publish(<<>>)
        ELSE SendNextContentSegment(t, S, readHandles, T, <<>>)

WaitsFor(s, m) ==
    /\ s.cmdId = m.cmdId
    /\ s.state = "WaitingContentConfirm"
    /\ s.awaitingConfirmSegNo # 0

\* A confirm that no session waits for changes nothing (nor does one that
\* cannot be decoded).
OnContentConfirm(m) ==
    \/ /\ \A s \in uploads : ~WaitsFor(s, m)
       /\ Publish(<<>>)
       /\ UNCHANGED <<uploadVars, timers>>
    \/ \E s \in uploads :
        /\ WaitsFor(s, m)
        /\ IF Confirms(m, s)
           THEN ContinueUpload(s)
           ELSE /\ CloseTransfer(m.cmdId, uploads, readHandles, timers)
                /\ Publish(<<>>)

\* Fault: the callback forgets the handle.
UploadsTimeoutKeepsHandles(expired) ==
    /\ uploads' = {s \in uploads : s.cmdId \notin expired}
    /\ readHandles' = readHandles

\* tick has taken the entries of `expired' out of the table: abort those
\* that have a session.
UploadsTimeout(expired) ==
    /\ uploads' = {s \in uploads : s.cmdId \notin expired}
    /\ readHandles' =
        {h \in readHandles : h.cmdId \notin expired \cap Ids(uploads)}
=============================================================================
