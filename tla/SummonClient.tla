---------------------------- MODULE SummonClient ----------------------------
(***************************************************************************)
(* platform_sim with --gateway-file: one process, one summon.  It prints   *)
(* the brief, appends every content segment it is sent to what it has,     *)
(* confirms it, and exits when the gateway refuses or says Continue 0.     *)
(* Nothing is compared: neither the CmdId, the segment number nor the size *)
(* and CRC of the brief.  It has no timeout, and once its connection is    *)
(* gone it can only be ended, so `online' is "running and connected".      *)
(***************************************************************************)
EXTENDS Naturals, Sequences

SummonCmdId == 8001

VARIABLES
    online,
    startByte,          \* 0 before the first process is started
    announced,          \* FileSize of the brief it has printed
    received,           \* receivedFile, each byte named by its position
    transferDone, transferFailed

clientVars ==
    <<online, startByte, announced, received, transferDone, transferFailed>>

ClientInit ==
    /\ online = FALSE
    /\ startByte = 0 /\ announced = 0 /\ received = <<>>
    /\ transferDone = FALSE /\ transferFailed = FALSE

SummonMessage(file, b) ==
    [type |-> "summon", cmdId |-> SummonCmdId, file |-> file, startByte |-> b]

\* Fault: the number of the segment that comes next.
ConfirmNext(m) ==
    [type |-> "contentConfirm", cmdId |-> m.cmdId, segNo |-> m.segNo + 1,
     success |-> TRUE]

\* CmdId and FileSegNo are those of the content; the status is always 0.
ConfirmOf(m) ==
    [type |-> "contentConfirm", cmdId |-> m.cmdId, segNo |-> m.segNo,
     success |-> TRUE]

\* A new process: whatever the one before had received is gone.
StartClient(b) ==
    /\ ~online
    /\ online' = TRUE
    /\ startByte' = b
    /\ announced' = 0 /\ received' = <<>>
    /\ transferDone' = FALSE /\ transferFailed' = FALSE

OnBriefMessage(m) ==
    /\ IF m.error = "NONE"
       THEN announced' = m.fileSize /\ UNCHANGED <<online, transferFailed>>
       ELSE transferFailed' = TRUE /\ online' = FALSE /\ UNCHANGED announced
    /\ UNCHANGED <<startByte, received, transferDone>>

\* `published' is the result of publishing the confirm.
OnContentMessage(m, published) ==
    /\ received' = received \o [i \in 1..m.len |-> m.offset + i]
    /\ transferFailed' = (transferFailed \/ ~published)
    /\ transferDone' = (transferDone \/ (published /\ ~m.more))
    /\ online' = (published /\ m.more)
    /\ UNCHANGED <<startByte, announced>>

\* The process is killed, or its connection is lost.
LoseClient ==
    /\ online
    /\ online' = FALSE
    /\ UNCHANGED <<startByte, announced, received, transferDone, transferFailed>>
=============================================================================
