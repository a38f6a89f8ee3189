----------------------------- MODULE PushClient -----------------------------
(***************************************************************************)
(* platform_sim with --push-file: one process, one push.  It sends the     *)
(* brief, the first segment when the brief is confirmed, and the next one  *)
(* at every confirm of a segment; it exits at the first refusal and when   *)
(* everything it has sent is confirmed.  A confirm is taken for the answer *)
(* to whatever was sent last: neither CmdId nor FileSegNo is compared.     *)
(* There is no timeout, and once the connection is gone the process can    *)
(* only be ended, so `online' is "running and connected"; a publish that   *)
(* fails ends the process and is not told apart from a lost connection.    *)
(***************************************************************************)
EXTENDS Naturals, Sequences

CONSTANT PushChunkSize    \* app.transfer.chunkSize

ASSUME PushChunkAssumption == PushChunkSize \in Nat \ {0}

PushCmdId == 9001

VARIABLES
    online,
    path,               \* pushGatewayPath
    data,               \* pushFileData
    pushOffset, pushNextSegNo, pushBriefOk, pushDone,
    transferFailed

clientVars == <<online, path, data, pushOffset, pushNextSegNo, pushBriefOk,
                pushDone, transferFailed>>

ClientInit(file) ==
    /\ online = FALSE
    /\ path = file /\ data = <<>>
    /\ pushOffset = 0 /\ pushNextSegNo = 1
    /\ pushBriefOk = FALSE /\ pushDone = FALSE /\ transferFailed = FALSE

\* The brief of a process; the CRC is that of the data it is going to send.
BriefMessage(file, bytes) ==
    [type |-> "pushBrief", cmdId |-> PushCmdId, file |-> file,
     fileSize |-> Len(bytes), fileCrc |-> bytes]

StartClient(file, bytes) ==
    /\ ~online
    /\ bytes # <<>>
    /\ online' = TRUE
    /\ path' = file /\ data' = bytes
    /\ pushOffset' = 0 /\ pushNextSegNo' = 1
    /\ pushBriefOk' = FALSE /\ pushDone' = FALSE /\ transferFailed' = FALSE

\* The end of the segment that is sent next, 0-based.
SegmentEnd ==
    IF pushOffset + PushChunkSize <= Len(data)
    THEN pushOffset + PushChunkSize ELSE Len(data)

NextSegment ==
    [type |-> "pushContent", cmdId |-> PushCmdId, segNo |-> pushNextSegNo,
     content |-> SubSeq(data, pushOffset + 1, SegmentEnd),
     more |-> SegmentEnd < Len(data)]

\* What this step publishes.
SegmentsSent ==
    IF pushNextSegNo' # pushNextSegNo THEN <<NextSegment>> ELSE <<>>

SendNextPushSegment(briefOk) ==
    IF briefOk
    THEN pushOffset' = SegmentEnd /\ pushNextSegNo' = pushNextSegNo + 1
    ELSE UNCHANGED <<pushOffset, pushNextSegNo>>

NeverRefused(m) == FALSE    \* Fault: Status is not looked at

Refused(m) == m.error # "NONE"

GiveUp ==
    /\ transferFailed' = TRUE
    /\ online' = FALSE
    /\ UNCHANGED <<pushOffset, pushNextSegNo, pushBriefOk>>

OnPushBriefConfirm(m) ==
    /\ \/ Refused(m) /\ GiveUp /\ pushDone' = FALSE
       \/ /\ ~Refused(m)
          /\ pushBriefOk' = TRUE
          /\ SendNextPushSegment(TRUE)
          /\ UNCHANGED <<online, pushDone, transferFailed>>
    /\ UNCHANGED <<path, data>>

OnPushContentConfirm(m) ==
    /\ \/ Refused(m) /\ GiveUp /\ UNCHANGED pushDone
       \/ /\ ~Refused(m)
          /\ pushDone' = (pushDone \/ pushOffset >= Len(data))
          /\ IF pushOffset >= Len(data)
             THEN online' = FALSE /\ UNCHANGED <<pushOffset, pushNextSegNo>>
             ELSE SendNextPushSegment(pushBriefOk) /\ UNCHANGED online
          /\ UNCHANGED <<pushBriefOk, transferFailed>>
    /\ UNCHANGED <<path, data>>

\* The process is killed, or its connection is lost.
LoseClient ==
    /\ online
    /\ online' = FALSE
    /\ UNCHANGED <<path, data, pushOffset, pushNextSegNo, pushBriefOk, pushDone,
                   transferFailed>>
=============================================================================
