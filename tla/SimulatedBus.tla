---------------------------- MODULE SimulatedBus ----------------------------
(***************************************************************************)
(* The gateway on the in-memory bus that main --simulate and the unit      *)
(* tests use instead of a broker.  publish calls the subscribers before it *)
(* returns, so a message and its answers are nested calls on one stack:    *)
(* the simulated platform confirms a content segment inside the gateway's  *)
(* own publishContent, while the session still is what it was before the   *)
(* segment.  The handlers of the summon side are therefore cut in two at   *)
(* their publish calls.  Those of the push side publish once, and nothing  *)
(* is called back before they return, so they stay whole.                  *)
(***************************************************************************)
EXTENDS Gateway, SequencesExt

CONSTANT MaxReceived    \* bound: a call begins with fewer messages received

ASSUME ReceivedAssumption == MaxReceived \in Nat

VARIABLES
    subscribers,    \* subscribers_: who handles a topic, in order
    history,        \* history_
    received,       \* received_ of the PlatformMqttSimulator
    started,        \* started_ of the adapter
    calls,          \* the calls in progress, the innermost last
    settled         \* the gateway as it was when none of its handlers was
                    \* waiting for a publish to return

busVars == <<vars, subscribers, history, received, started, calls, settled>>

Inbound == {"summon", "contentConfirm", "pushBrief", "pushContent"}
Outbound == {"brief", "content", "pushBriefConfirm", "pushContentConfirm"}

Undecodable == [undecodable |-> TRUE]

GatewayState ==
    [uploads |-> uploads, readHandles |-> readHandles, pushes |-> pushes,
     writeHandles |-> writeHandles, disk |-> disk, timers |-> timers,
     out |-> out]

\* The platform has subscribed (and called subscribePushConfirms).
BusInit ==
    /\ Init
    /\ subscribers =
        [t \in Inbound \cup Outbound |->
            IF t \in Outbound THEN <<"platform">> ELSE <<>>]
    /\ history = <<>> /\ received = <<>>
    /\ started = FALSE
    /\ calls = <<>>
    /\ settled = GatewayState

-----------------------------------------------------------------------------
(* The bus and the adapter.  `stack' is what is left of the calls once the *)
(* caller has gone on to its next step.                                    *)

\* Fault: the mutex is held while the handlers run.
LockedCall(topic, payload) ==
    [call |-> "publish", topic |-> topic, payload |-> payload,
     handlers |-> subscribers[topic], locked |-> TRUE]

\* publish: the handlers are copied, and called with the mutex released.
PublishCall(topic, payload) ==
    [call |-> "publish", topic |-> topic, payload |-> payload,
     handlers |-> subscribers[topic], locked |-> FALSE]

MutexFree(stack) ==
    \A i \in DOMAIN stack : stack[i].call = "publish" => ~stack[i].locked

\* Fault: a message is recorded once its handlers have returned, which is
\* after the answer to it.
BusPublishLateRecord(stack, topic, payload) ==
    /\ MutexFree(stack)
    /\ LET entry == [topic |-> topic, payload |-> payload]
       IN  history' = IF topic = "contentConfirm"
                      THEN Append(Front(history), entry) \o <<Last(history)>>
                      ELSE Append(history, entry)
    /\ calls' = Append(stack, PublishCall(topic, payload))

BusPublish(stack, topic, payload) ==
    /\ MutexFree(stack)
    /\ history' = Append(history, [topic |-> topic, payload |-> payload])
    /\ calls' = Append(stack, PublishCall(topic, payload))

Return(stack) == calls' = stack /\ UNCHANGED history

\* Fault: start subscribes again.
StartAdapterAgain ==
    /\ subscribers' = [t \in DOMAIN subscribers |->
            IF t \in Inbound THEN Append(subscribers[t], "gateway")
            ELSE subscribers[t]]
    /\ started' = TRUE

StartAdapter ==
    /\ ~started
    /\ subscribers' = [t \in DOMAIN subscribers |->
            IF t \in Inbound THEN Append(subscribers[t], "gateway")
            ELSE subscribers[t]]
    /\ started' = TRUE

\* Fault: stop unsubscribes what the adapter publishes, too.
StopAdapterAllTopics ==
    /\ started
    /\ subscribers' = [t \in DOMAIN subscribers |-> <<>>]
    /\ started' = FALSE

\* unsubscribe drops every handler of the topic.
StopAdapter ==
    /\ started
    /\ subscribers' = [t \in DOMAIN subscribers |->
            IF t \in Inbound THEN <<>> ELSE subscribers[t]]
    /\ started' = FALSE

-----------------------------------------------------------------------------
(* The summon handlers, cut at their publish calls.  `sent' is what the    *)
(* gateway has published since the outermost call.                         *)

GatewayPublishes(m, sent, stack) ==
    /\ out' = Append(sent, m)
    /\ BusPublish(stack, m.type, m)

\* publishBriefFailure, as far as its publishBrief.
StartRefusal(c, error, T, stack) ==
    /\ timers' = T
    /\ GatewayPublishes(Brief(c, error, 0), <<>>,
                        Append(stack, [call |-> "refusing", cmdId |-> c]))
    /\ UNCHANGED uploadVars

\* onSummon, as far as its publishBrief.
StartSummon(m, stack) ==
    LET T == SummonTimer(m.cmdId)
        busy == SummonBusy \/ HasActiveSessionOtherThan(m.cmdId)
    IN  \/ \E error \in {"BUSY", "INVALID_PATH", "FILE_NOT_FOUND",
                         "PERMISSION_DENIED", "IO_ERROR"} :
            /\ (error = "BUSY") <=> busy
            /\ StartRefusal(m.cmdId, error, T, stack)
        \/ \E size \in 0..MaxFileSize :
            /\ ~busy
            /\ IF m.startByte - 1 > size
               THEN StartRefusal(m.cmdId, "INVALID_START_BYTE", T, stack)
               ELSE /\ timers' = T
                    /\ GatewayPublishes(Brief(m.cmdId, "NONE", size), <<>>,
                        Append(stack, [call |-> "briefed", summon |-> m,
                                       size |-> size]))
                    /\ UNCHANGED uploadVars

\* sendNextContentSegment, as far as its publishContent.
StartSegment(s, S, H, T, sent, stack) ==
    \/ /\ CloseTransfer(s.cmdId, S, H, T)
       /\ out' = sent /\ Return(stack)
    \/ \E h \in H :
        /\ h.cmdId = s.cmdId
        /\ s.nextFileOffset < s.fileSize
        /\ \E n \in 1..SmallerOf(ChunkSize, s.fileSize - s.nextFileOffset) :
            GatewayPublishes(NextContent(s, h, n), sent,
                Append(stack,
                       [call |-> "sending", session |-> Awaiting(s, n)]))
        /\ uploads' = S /\ readHandles' = H /\ timers' = T

\* onSummon, from its publishBrief on.
AfterBrief(m, size, stack) ==
    LET c == m.cmdId
        s == [cmdId |-> c, file |-> m.file, fileSize |-> size,
              nextFileOffset |-> m.startByte - 1, nextSegNo |-> 1,
              awaitingConfirmSegNo |-> 0, state |-> "BriefOk"]
        S == Put(uploads, s)
        H == Emplace(readHandles, [cmdId |-> c, file |-> m.file])
    IN  IF s.nextFileOffset >= size
        THEN CloseTransfer(c, S, H, timers) /\ Return(stack) /\ UNCHANGED out
        ELSE StartSegment(s, S, H, timers, out, stack)

\* Fault: the session goes back as it was read, still waiting for the
\* segment that has been confirmed.
KeepWaiting(s) == s

\* The session once the segment it waited for is confirmed.
Confirmed(s) ==
    [s EXCEPT !.awaitingConfirmSegNo = 0, !.state = "SendingContent"]

\* onContentConfirm, as far as the publishContent of the next segment.
StartConfirm(m, sent, stack) ==
    \/ /\ \A s \in uploads : ~WaitsFor(s, m)
       /\ out' = sent /\ Return(stack)
       /\ UNCHANGED <<uploadVars, timers>>
    \/ \E s \in uploads :
        LET t == Confirmed(s)
            S == Put(uploads, t)
            T == Reset(timers, s.cmdId)
        IN  /\ WaitsFor(s, m)
            /\ IF ~Confirms(m, s) \/ t.nextFileOffset >= t.fileSize
               THEN /\ CloseTransfer(m.cmdId, S, readHandles, T)
                    /\ out' = sent /\ Return(stack)
               ELSE StartSegment(t, S, readHandles, T, sent, stack)

\* A call of the gateway goes on after the publish it was waiting for.
Resume ==
    LET f == Last(calls) stack == Front(calls)
    IN  /\ calls # <<>>
        /\ \/ /\ f.call = "refusing"
              /\ CloseTransfer(f.cmdId, uploads, readHandles, timers)
              /\ Return(stack) /\ UNCHANGED out
           \/ f.call = "briefed" /\ AfterBrief(f.summon, f.size, stack)
           \/ /\ f.call = "sending"
              /\ uploads' = Put(uploads, f.session)
              /\ timers' = Reset(timers, f.session.cmdId)
              /\ Return(stack) /\ UNCHANGED <<readHandles, out>>
        /\ UNCHANGED <<pushVars, connected, subscribers, received, started>>

-----------------------------------------------------------------------------
(* The subscribers.                                                        *)

\* makeSummonContentConfirmJson
AutoConfirm(m) == [cmdId |-> m.cmdId, segNo |-> m.segNo, success |-> TRUE]

\* The handlers PlatformMqttSimulator installs.
ToPlatform(topic, m, stack) ==
    /\ received' = Append(received, [topic |-> topic, payload |-> m])
    /\ IF topic = "content"
       THEN BusPublish(stack, "contentConfirm", AutoConfirm(m))
       ELSE Return(stack)
    /\ UNCHANGED <<uploadVars, pushVars, timers, out>>

AnswerTopic ==
    [pushBrief |-> "pushBriefConfirm", pushContent |-> "pushContentConfirm"]

\* The handlers main installs.
ToGateway(topic, m, stack) ==
    /\ \/ /\ topic = "summon"
          /\ IF m = Undecodable
             THEN StartRefusal(0, "BAD_FRAME", timers, stack)
             ELSE StartSummon(m, stack)
          /\ UNCHANGED pushVars
       \/ /\ topic = "contentConfirm"
          /\ StartConfirm(m, out, stack)
          /\ UNCHANGED pushVars
       \/ /\ topic \in DOMAIN AnswerTopic
          /\ \/ m = Undecodable /\ OnUndecodablePush
             \/ /\ m # Undecodable
                /\ \/ topic = "pushBrief" /\ OnPushBrief(m, PushBusy)
                   \/ topic = "pushContent" /\ OnPushContent(m)
          /\ out'[1].type = AnswerTopic[topic]
          /\ BusPublish(stack, AnswerTopic[topic], out'[1])
          /\ UNCHANGED uploadVars
    /\ UNCHANGED received

\* publish calls the next of the handlers it has copied.
Deliver ==
    LET f == Last(calls)
        stack == Append(Front(calls), [f EXCEPT !.handlers = Tail(@)])
    IN  /\ calls # <<>> /\ f.call = "publish" /\ f.handlers # <<>>
        /\ IF Head(f.handlers) = "platform"
           THEN ToPlatform(f.topic, f.payload, stack)
           ELSE ToGateway(f.topic, f.payload, stack)
        /\ UNCHANGED <<connected, subscribers, started>>

PublishReturns ==
    /\ calls # <<>>
    /\ Last(calls).call = "publish" /\ Last(calls).handlers = <<>>
    /\ Return(Front(calls))
    /\ UNCHANGED <<vars, subscribers, received, started>>

Proceed == Deliver \/ PublishReturns \/ Resume

-----------------------------------------------------------------------------
(* The driver: runSimulateDemo, or a unit test.  One thread does it all,   *)
(* so it does nothing else until its call has returned.  A handler takes   *)
(* no time on the steady clock.                                            *)

\* Bounds: the history is cleared before a call, as the tests do, and a
\* second passes after the one before it.
MayCall == history = <<>> /\ Len(received) < MaxReceived /\ out = <<>>

PlatformPublishes(topic, m) ==
    /\ MayCall
    /\ BusPublish(<<>>, topic, m)
    /\ UNCHANGED <<vars, subscribers, received, started>>

\* driveSummonWithContentConfirms calls the orchestrator directly.
ConfirmDirectly(m) ==
    /\ MayCall
    /\ StartConfirm(m, <<>>, <<>>)
    /\ UNCHANGED <<pushVars, connected, subscribers, received, started>>

\* clearHistory, with clearReceived or without.
ClearLists ==
    /\ history' = <<>>
    /\ received' \in {received, <<>>}
    /\ UNCHANGED <<vars, subscribers, started, calls>>

Drive ==
    /\ calls = <<>>
    /\ \/ \E m \in SummonRequest \cup {Undecodable} :
            PlatformPublishes("summon", m)
       \/ \E m \in PushBrief \cup {Undecodable} :
            PlatformPublishes("pushBrief", m)
       \/ \E m \in {q \in PushContent : WithinBound(q)} \cup {Undecodable} :
            PlatformPublishes("pushContent", m)
       \/ \E m \in ContentConfirm : ConfirmDirectly(m)
       \/ ClearLists
       \/ /\ StartAdapter \/ StopAdapter
          /\ UNCHANGED <<vars, history, received, calls>>
       \/ /\ Tick \/ Second
          /\ UNCHANGED <<subscribers, history, received, started, calls>>

\* A handler of the gateway waits for its publish to return.
HandlerWaits(stack) == \E i \in DOMAIN stack : stack[i].call # "publish"

BusNext ==
    /\ Drive \/ Proceed
    /\ settled' = IF HandlerWaits(calls') THEN settled ELSE GatewayState'

\* Nobody but the bus and its subscribers keeps a call from returning.
BusSpec == BusInit /\ [][BusNext]_busVars /\ WF_busVars(BusNext /\ Proceed)

-----------------------------------------------------------------------------
(* Properties.                                                             *)

Atomic ==
    INSTANCE Gateway WITH
        uploads <- settled.uploads, readHandles <- settled.readHandles,
        pushes <- settled.pushes, writeHandles <- settled.writeHandles,
        disk <- settled.disk, timers <- settled.timers, out <- settled.out

\* With everything that is nested in it, a handler does what it does on a
\* broker, in one step of the gateway: the confirm the platform sends back
\* inside publishContent neither advances nor aborts the upload it belongs to.
ImplementsGateway == Atomic!Spec

\* Every publish returns: none waits for a mutex its own thread holds, and
\* no answer to an answer goes on for ever.
CallsReturn == calls # <<>> ~> calls = <<>>

Collect(list, entry) ==
    IF entry.topic \in Outbound THEN Append(list, entry) ELSE list

ToPlatformOf(entries) == FoldLeft(Collect, <<>>, entries)

\* Once a call has returned, the platform has collected last just what the
\* bus recorded for it, in the order of the record.
ReceivedInOrder ==
    calls = <<>> => IsSuffix(ToPlatformOf(history), received)

\* A confirm is recorded right after the content it answers, although it is
\* published while the publish of the content has not returned.
AnswersFollow ==
    \A i \in DOMAIN history \ {1} :
        history[i].topic = "contentConfirm" =>
            /\ history[i - 1].topic = "content"
            /\ history[i].payload = AutoConfirm(history[i - 1].payload)
=============================================================================
