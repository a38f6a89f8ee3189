---------------------------- MODULE UploadSystem ----------------------------
(***************************************************************************)
(* A summon upload from end to end: TransferOrchestrator, platform_sim and *)
(* the broker between them.  The broker keeps the messages of a subscriber *)
(* in order.  Both ends connect with a clean session and never reconnect,  *)
(* so messages are lost only with a connection - those on their way to the *)
(* end that lost it, and the last ones it has published - and are never    *)
(* delivered twice.                                                        *)
(***************************************************************************)
EXTENDS FiniteSets, SummonUpload, SummonClient

CONSTANTS
    MaxRuns,    \* bound: how often platform_sim is started
    Hasty       \* it may be started while messages of the process before
                \* it are still on their way to the gateway

ASSUME RunsAssumption == MaxRuns \in Nat /\ Hasty \in BOOLEAN
ASSUME ClientCmdIdAssumption == SummonCmdId \in CmdIds

VARIABLES
    toGateway,      \* summons and confirms on their way
    toPlatform,     \* briefs and contents on their way
    runs            \* processes started so far

gatewayVars == <<uploadVars, timers, connected, out>>
vars == <<gatewayVars, clientVars, toGateway, toPlatform, runs>>

Init ==
    /\ UploadInit
    /\ timers = {}
    /\ connected = TRUE
    /\ out = <<>>
    /\ ClientInit
    /\ toGateway = <<>> /\ toPlatform = <<>>
    /\ runs = 0

-----------------------------------------------------------------------------

\* What the broker may have of q when the connection of its sender is lost.
OnBroker(q) == {SubSeq(q, 1, k) : k \in 0..Len(q)}

\* The broker keeps nothing for a subscriber that is not connected.
SendToGateway(m) ==
    toGateway' = IF connected THEN Append(toGateway, m) ELSE toGateway

ClientStarts ==
    /\ runs < MaxRuns
    /\ Hasty \/ toGateway = <<>>
    /\ \E b \in 1..(MaxFileSize + 2), f \in Files :
        /\ StartClient(b)
        /\ SendToGateway(SummonMessage(f, b))
    /\ toPlatform' = <<>>
    /\ runs' = runs + 1
    /\ UNCHANGED gatewayVars

\* A message is left in toPlatform only while the client is online.
ClientHandles(m) ==
    \/ m.type = "brief" /\ OnBriefMessage(m) /\ UNCHANGED toGateway
    \/ /\ m.type = "content"
       /\ \/ OnContentMessage(m, TRUE) /\ SendToGateway(ConfirmOf(m))
          \/ OnContentMessage(m, FALSE) /\ UNCHANGED toGateway

ClientReceives ==
    /\ online /\ toPlatform # <<>>
    /\ ClientHandles(Head(toPlatform))
    /\ toPlatform' = IF online' THEN Tail(toPlatform) ELSE <<>>
    /\ UNCHANGED <<gatewayVars, runs>>

ClientLost ==
    /\ LoseClient
    /\ toPlatform' = <<>>
    /\ toGateway' \in OnBroker(toGateway)
    /\ UNCHANGED <<gatewayVars, runs>>

GatewayReceives ==
    /\ connected /\ toGateway # <<>>
    /\ LET m == Head(toGateway)
       IN  \/ m.type = "summon" /\ OnSummon(m, FALSE)
           \/ m.type = "contentConfirm" /\ OnContentConfirm(m)
    /\ toGateway' = Tail(toGateway)
    /\ toPlatform' = IF online THEN toPlatform \o out' ELSE toPlatform
    /\ UNCHANGED <<connected, clientVars, runs>>

Tick ==
    /\ Expired(timers) # {}
    /\ timers' = Unexpired(timers)
    /\ UploadsTimeout(Expired(timers))
    /\ Publish(<<>>)
    /\ UNCHANGED <<connected, clientVars, toGateway, toPlatform, runs>>

Second ==
    /\ timers' = Countdown(timers)
    /\ Publish(<<>>)
    /\ UNCHANGED <<uploadVars, connected, clientVars, toGateway, toPlatform, runs>>

GatewayDisconnects ==
    /\ connected
    /\ connected' = FALSE
    /\ toGateway' = <<>>
    /\ toPlatform' \in OnBroker(toPlatform)
    /\ Publish(<<>>)
    /\ UNCHANGED <<uploadVars, timers, clientVars, runs>>

GatewayRestarts ==
    /\ uploads' = {} /\ readHandles' = {}
    /\ timers' = {}
    /\ connected' = TRUE
    /\ toGateway' = <<>>
    /\ toPlatform' \in OnBroker(toPlatform)
    /\ Publish(<<>>)
    /\ UNCHANGED <<clientVars, runs>>

Next ==
    \/ ClientStarts \/ ClientReceives \/ ClientLost
    \/ GatewayReceives \/ Tick \/ Second
    \/ GatewayDisconnects \/ GatewayRestarts

Spec == Init /\ [][Next]_vars

\* The gateway's loop and clock go on, whatever becomes of the platform.
FairSpec == Spec /\ WF_vars(Tick) /\ WF_vars(Second)

-----------------------------------------------------------------------------
(* Properties.                                                             *)

Delivery ==
    INSTANCE FileDelivery WITH
        asked <- startByte, total <- announced, done <- transferDone

\* The upload delivers what it promises, whenever either end dies, loses its
\* connection or is started again: 04 section 5.3 (brief first, segments in
\* order from StartByte on) seen from the platform.
DeliversInOrder == Delivery!Spec

IsConfirm(m) == m.type = "contentConfirm"

\* Summons and confirms underway, and contents underway.
InFlight ==
    Len(toGateway)
        + Cardinality({i \in DOMAIN toPlatform : toPlatform[i].type = "content"})

\* Stop and wait (04 section 6): never more than one segment or confirm is
\* underway; and while both ends are there and an upload is active, never
\* less, so that no upload waits for a confirm that nobody is going to send.
OneInFlight ==
    /\ InFlight <= 1
    /\ online /\ connected /\ uploads # {} => InFlight = 1

\* A confirm that reaches an active upload is the one it waits for: no upload
\* is aborted for the wrong segment number.
ConfirmsExpected ==
    \A i \in DOMAIN toGateway, s \in uploads :
        IsConfirm(toGateway[i])
            => WaitsFor(s, toGateway[i]) /\ Confirms(toGateway[i], s)

\* Whatever happens to the platform or the connection, an upload ends.
UploadEnds == uploads # {} ~> uploads = {}
=============================================================================
