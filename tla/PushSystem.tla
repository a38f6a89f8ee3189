----------------------------- MODULE PushSystem -----------------------------
(***************************************************************************)
(* A platform push from end to end: PushReceiveOrchestrator, platform_sim  *)
(* and the broker between them, which is that of UploadSystem.  Each       *)
(* process of platform_sim may push other data to another path.            *)
(***************************************************************************)
EXTENDS PushReceive, PushClient

CONSTANTS
    MaxRuns,    \* bound: how often platform_sim is started
    Hasty       \* it may be started while messages of the process before
                \* it are still on their way to the gateway

ASSUME RunsAssumption == MaxRuns \in Nat /\ Hasty \in BOOLEAN
ASSUME ClientCmdIdAssumption == PushCmdId \in CmdIds

VARIABLES
    toGateway,      \* briefs and contents on their way
    toPlatform,     \* confirms on their way
    runs            \* processes started so far

gatewayVars == <<pushVars, timers, connected, out>>
vars == <<gatewayVars, clientVars, toGateway, toPlatform, runs>>

Init ==
    /\ PushInit
    /\ timers = {}
    /\ connected = TRUE
    /\ out = <<>>
    /\ ClientInit(CHOOSE f \in Files : TRUE)
    /\ toGateway = <<>> /\ toPlatform = <<>>
    /\ runs = 0

-----------------------------------------------------------------------------

\* What the broker may have of q when the connection of its sender is lost.
OnBroker(q) == {SubSeq(q, 1, k) : k \in 0..Len(q)}

\* The broker keeps nothing for a subscriber that is not connected.
SendToGateway(msgs) ==
    toGateway' = IF connected THEN toGateway \o msgs ELSE toGateway

ClientStarts ==
    /\ runs < MaxRuns
    /\ Hasty \/ toGateway = <<>>
    /\ \E f \in Files, bytes \in BytesUpTo(MaxPushSize) :
        /\ StartClient(f, bytes)
        /\ SendToGateway(<<BriefMessage(f, bytes)>>)
    /\ toPlatform' = <<>>
    /\ runs' = runs + 1
    /\ UNCHANGED gatewayVars

\* A message is left in toPlatform only while the client is online.
ClientReceives ==
    /\ online /\ toPlatform # <<>>
    /\ LET m == Head(toPlatform)
       IN  \/ m.type = "pushBriefConfirm" /\ OnPushBriefConfirm(m)
           \/ m.type = "pushContentConfirm" /\ OnPushContentConfirm(m)
    /\ SendToGateway(SegmentsSent)
    /\ toPlatform' = IF online' THEN Tail(toPlatform) ELSE <<>>
    /\ UNCHANGED <<gatewayVars, runs>>

ClientLost ==
    /\ LoseClient
    /\ toPlatform' = <<>>
    /\ toGateway' \in OnBroker(toGateway)
    /\ UNCHANGED <<gatewayVars, runs>>

GatewayReceives ==
    /\ connected /\ toGateway # <<>>
    /\ LET m == Head(toGateway)
       IN  \/ m.type = "pushBrief" /\ OnPushBrief(m, FALSE)
           \/ m.type = "pushContent" /\ OnPushContent(m)
    /\ toGateway' = Tail(toGateway)
    /\ toPlatform' = IF online THEN toPlatform \o out' ELSE toPlatform
    /\ UNCHANGED <<connected, clientVars, runs>>

Tick ==
    /\ Expired(timers) # {}
    /\ timers' = Unexpired(timers)
    /\ PushesTimeout(Expired(timers))
    /\ Publish(<<>>)
    /\ UNCHANGED <<connected, clientVars, toGateway, toPlatform, runs>>

Second ==
    /\ timers' = Countdown(timers)
    /\ Publish(<<>>)
    /\ UNCHANGED <<pushVars, connected, clientVars, toGateway, toPlatform, runs>>

GatewayDisconnects ==
    /\ connected
    /\ connected' = FALSE
    /\ toGateway' = <<>>
    /\ toPlatform' \in OnBroker(toPlatform)
    /\ Publish(<<>>)
    /\ UNCHANGED <<pushVars, timers, clientVars, runs>>

GatewayRestarts ==
    /\ pushes' = {} /\ writeHandles' = {} /\ UNCHANGED disk
    /\ timers' = {}
    /\ connected' = TRUE
    /\ toGateway' = <<>>
    /\ toPlatform' \in OnBroker(toPlatform)
    /\ Publish(<<>>)
    /\ UNCHANGED <<clientVars, runs>>

Next ==
    \/ ClientStarts \/ ClientReceives \/ ClientLost
    \/ GatewayReceives \/ Tick \/ Second
    \/ GatewayDisconnects \/ GatewayRestarts

Spec == Init /\ [][Next]_vars

\* The gateway's loop and clock go on, whatever becomes of the platform.
FairSpec == Spec /\ WF_vars(Tick) /\ WF_vars(Second)

-----------------------------------------------------------------------------
(* Properties.                                                             *)

\* When platform_sim reports a push as done, the path holds exactly its data,
\* although it takes any successful confirm for that of its last segment and
\* the gateway may have aborted, timed out or been restarted on the way.
PushedFileIsComplete == pushDone => disk[path] = data

\* While both ends are there and a push is active, something is underway: no
\* push waits for a segment that nobody is going to send.
PushNeverIdle ==
    online /\ connected /\ pushes # {} => toGateway \o toPlatform # <<>>

\* Whatever happens to the platform or the connection, a push ends.
PushEnds == pushes # {} ~> pushes = {}
=============================================================================
