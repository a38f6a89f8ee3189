------------------------------- MODULE Gateway -------------------------------
(***************************************************************************)
(* The process main.cpp puts together: one loop that delivers the messages *)
(* of four topics to the two orchestrators and lets the watchdog tick.     *)
(* The orchestrators share the watchdog, and each asks the other's session *)
(* store whether the gateway is busy.  The platform is free to send any    *)
(* message at any time.                                                    *)
(***************************************************************************)
EXTENDS SummonUpload, PushReceive

vars == <<uploadVars, pushVars, timers, connected, out>>

Init ==
    /\ UploadInit
    /\ PushInit
    /\ timers = {}
    /\ connected = TRUE
    /\ out = <<>>

-----------------------------------------------------------------------------

\* The busy checkers installed by main.
PushBusy == HasActiveSessionOtherThan(0)

\* Fault: the summon side does not ask the push side.
SummonNeverBusy == FALSE

SummonBusy == HasActiveSession

\* Bound: the platform stops a push before the file outgrows MaxPushSize.
WithinBound(m) ==
    \A s \in pushes : s.bytesWritten + Len(m.content) <= MaxPushSize

Summon ==
    /\ connected
    /\ \/ OnUndecodableSummon
       \/ \E m \in SummonRequest : OnSummon(m, SummonBusy)
    /\ UNCHANGED <<pushVars, connected>>

ConfirmContent ==
    /\ connected
    /\ \E m \in ContentConfirm : OnContentConfirm(m)
    /\ UNCHANGED <<pushVars, connected>>

AnnouncePush ==
    /\ connected
    /\ \/ OnUndecodablePush
       \/ \E m \in PushBrief : OnPushBrief(m, PushBusy)
    /\ UNCHANGED <<uploadVars, connected>>

SendPush ==
    /\ connected
    /\ \E m \in PushContent : WithinBound(m) /\ OnPushContent(m)
    /\ UNCHANGED <<uploadVars, connected>>

\* watchdog.tick with the callback of main, which calls both orchestrators.
Tick ==
    /\ Expired(timers) # {}
    /\ timers' = Unexpired(timers)
    /\ UploadsTimeout(Expired(timers))
    /\ PushesTimeout(Expired(timers))
    /\ Publish(<<>>)
    /\ UNCHANGED connected

Second ==
    /\ timers' = Countdown(timers)
    /\ Publish(<<>>)
    /\ UNCHANGED <<uploadVars, pushVars, connected>>

\* The broker connection is lost.
Disconnect ==
    /\ connected
    /\ connected' = FALSE
    /\ Publish(<<>>)
    /\ UNCHANGED <<uploadVars, pushVars, timers>>

\* The process ends, at any time, and is started again: the stores are in
\* memory, the files stay as they are.
Restart ==
    /\ uploads' = {} /\ readHandles' = {}
    /\ pushes' = {} /\ writeHandles' = {} /\ UNCHANGED disk
    /\ timers' = {}
    /\ connected' = TRUE
    /\ Publish(<<>>)

Next ==
    \/ Summon \/ ConfirmContent \/ AnnouncePush \/ SendPush
    \/ Tick \/ Second \/ Disconnect \/ Restart

Spec == Init /\ [][Next]_vars

\* The loop of main runs for ever and calls tick in every turn, and the
\* clock is steady; nothing is assumed of the platform or the connection.
FairSpec == Spec /\ WF_vars(Tick) /\ WF_vars(Second)

-----------------------------------------------------------------------------
(* Properties.                                                             *)

TypeOK == UploadTypeOK /\ PushTypeOK /\ connected \in BOOLEAN

\* Each store holds at most one session, and an upload and a push are active
\* together only if the upload has CmdId 0, the one PushBusy leaves out.
ExclusiveUnlessZero ==
    /\ \A s, t \in uploads : s = t
    /\ \A s, t \in pushes : s = t
    /\ \A s \in uploads, t \in pushes : s.cmdId = 0

\* A file handle is open exactly while its session lives: no path out of a
\* handler leaks one or leaves a session without the one it needs.
HandlesFollowSessions ==
    /\ Keyed(readHandles) /\ Ids(readHandles) = Ids(uploads)
    /\ Keyed(writeHandles) /\ Ids(writeHandles) = Ids(pushes)

\* No deadline outlives the transfer it guards, so a timeout can never hit a
\* later transfer that reuses the CmdId.
TimersServeSessions ==
    Keyed(timers) /\ Ids(timers) \subseteq Ids(uploads) \cup Ids(pushes)

\* Every upload is guarded by a running deadline, unless its CmdId is 0: a
\* push may run beside that one under the same CmdId, and an undecodable
\* summon is answered as CmdId 0.
UploadsTimed ==
    \A s \in uploads : s.cmdId # 0 => s.cmdId \in Ids(timers)

\* Between two messages an upload always waits for the confirm of a segment
\* it has sent: it is never parked where only the timer could move it.
UploadsAwait ==
    \A s \in uploads :
        /\ s.state = "WaitingContentConfirm"
        /\ s.awaitingConfirmSegNo # 0
        /\ s.nextFileOffset \in 1..s.fileSize

\* What a push has counted is what is on disk, in the file its handle writes.
DiskMatchesProgress ==
    \A s \in pushes :
        /\ Len(disk[s.file]) = s.bytesWritten
        /\ [cmdId |-> s.cmdId, file |-> s.file] \in writeHandles

\* A push that ends with a successful confirm leaves the very file its brief
\* announced, although the CRC may be taken of less than the file: provided
\* the brief is honest, its FileCrc that of some content of FileSize bytes.
AcceptedFileIsComplete ==
    [][\A s \in pushes :
         (/\ Len(s.expectedFileCrc) = s.expectedFileSize
          /\ s.cmdId \notin Ids(pushes')
          /\ \E m \in Published' : /\ m.type = "pushContentConfirm"
                                   /\ m.cmdId = s.cmdId
                                   /\ m.error = "NONE")
         => disk'[s.file] = s.expectedFileCrc]_vars

\* A summon that is refused leaves no session behind that could go on
\* sending content for its CmdId.
RefusedSummonSendsNothing ==
    \A m \in Published :
        m.type = "brief" /\ m.error # "NONE" => m.cmdId \notin Ids(uploads)

\* Once the platform is gone, whatever is guarded by a deadline ends: the
\* watchdog is the only thing that notices a lost connection.
SilenceReleases ==
    \A c \in CmdIds :
        (~connected /\ c \in Ids(timers))
            ~> c \notin Ids(uploads) \cup Ids(pushes)

-----------------------------------------------------------------------------
(* What the documents say and the code does not do.                        *)

\* 14-V0.0.3 section 5: summon upload and push exclude each other.
MutualExclusion == uploads = {} \/ pushes = {}

\* 14-V0.0.3 section 1: when the frames of the platform stay away, or the
\* connection is lost, a push session fails and its handle is closed.
SilenceEndsPushes ==
    \A c \in CmdIds \ {0} :
        (~connected /\ c \in Ids(pushes)) ~> c \notin Ids(pushes)

\* 06 section 8: the content sent is that of the file the brief describes.
ContentIsOfBriefedFile ==
    \A s \in uploads, h \in readHandles :
        h.cmdId = s.cmdId => h.file = s.file
=============================================================================
