-------------------------- MODULE SimulatedBusProofs --------------------------
(***************************************************************************)
(* On the in-memory bus, where the platform's confirm arrives inside the   *)
(* gateway's own publishContent, every handler still does what it does on  *)
(* a broker, for every value of the constants; the bus records that        *)
(* confirm right after the content it answers, and the platform collects   *)
(* what the bus has recorded for it; and between handlers the tables are   *)
(* consistent.                                                             *)
(***************************************************************************)
EXTENDS SimulatedBus, SummonUploadProofs, DataProofs

-----------------------------------------------------------------------------
(* The shapes of the stack.                                                *)

Frame(topic, m, handlers) ==
    [call |-> "publish", topic |-> topic, payload |-> m,
     handlers |-> handlers, locked |-> FALSE]

\* A publish that has called everybody.
Finished(topic, m) == Frame(topic, m, <<>>)

\* What the driver publishes.
Asked == {"summon", "pushBrief", "pushContent"}

Requests(topic) ==
    IF topic = "summon" THEN SummonRequest \cup {Undecodable}
    ELSE IF topic = "pushBrief" THEN PushBrief \cup {Undecodable}
    ELSE PushContent \cup {Undecodable}

\* What may be below a handler: the publish of its message, or nothing when
\* it was called directly.
Beneath ==
    {<<>>} \cup UNION {{Append(<<>>, Finished(t, m)) : m \in Requests(t)} :
                          t \in Asked}

\* A handler that waits while its brief is published.
BriefCalls(f, brief) ==
    \E st \in Beneath :
        \/ calls = Append(st, f)
        \/ \E handlers \in {<<>>, <<"platform">>} :
            calls = Append(Append(st, f), Frame("brief", brief, handlers))

\* A handler that waits while its segment is published, and confirmed.
SegmentCalls(f, c) ==
    \E st \in Beneath :
        \/ calls = Append(st, f)
        \/ \E handlers \in {<<>>, <<"platform">>} :
            calls = Append(Append(st, f), Frame("content", c, handlers))
        \/ \E handlers \in {<<>>, <<"gateway">>} :
            calls = Append(Append(Append(st, f), Finished("content", c)),
                           Frame("contentConfirm", AutoConfirm(c), handlers))

-----------------------------------------------------------------------------
(* What a handler that waits has done of its step.                         *)

\* The driver and the adapter subscribe once.
Wired ==
    /\ connected = TRUE /\ started \in BOOLEAN
    /\ subscribers =
        [t \in Inbound \cup Outbound |->
            IF t \in Outbound THEN <<"platform">>
            ELSE IF started THEN <<"gateway">> ELSE <<>>]

PushesSettled ==
    /\ settled.pushes = pushes /\ settled.writeHandles = writeHandles
    /\ settled.disk = disk

TransfersSettled ==
    /\ settled.uploads = uploads /\ settled.readHandles = readHandles
    /\ PushesSettled

Settled ==
    TransfersSettled /\ settled.timers = timers /\ settled.out = out

\* The platform's message is about to be handled.
Asking ==
    \E t \in Asked : \E m \in Requests(t) :
        /\ calls = Append(<<>>, Frame(t, m, <<"gateway">>))
        /\ t = "pushContent" /\ m # Undecodable => WithinBound(m)

\* A push handler's answer is published; the handler has nothing left to do.
Answering ==
    \E t \in {"pushBrief", "pushContent"} : \E m \in Requests(t) :
        \E handlers \in {<<>>, <<"platform">>} :
            calls = Append(Append(<<>>, Finished(t, m)),
                           Frame(AnswerTopic[t], out[1], handlers))

AtRest == Settled /\ (calls \in Beneath \/ Asking \/ Answering)

\* The checks of onSummon.
Busy(c) == settled.pushes # {} \/ \E s \in settled.uploads : s.cmdId # c

RefusalErrors ==
    {"BUSY", "INVALID_PATH", "FILE_NOT_FOUND", "PERMISSION_DENIED", "IO_ERROR"}

RefusalDue(c, error) ==
    \/ c = 0 /\ error = "BAD_FRAME" /\ timers = settled.timers
    \/ \E m \in SummonRequest :
        /\ m.cmdId = c /\ timers = Arm(settled.timers, c)
        /\ \/ error \in RefusalErrors /\ ((error = "BUSY") <=> Busy(c))
           \/ /\ error = "INVALID_START_BYTE" /\ ~Busy(c)
              /\ \E size \in 0..MaxFileSize : m.startByte - 1 > size

\* publishBriefFailure waits for its publishBrief.
Refusing ==
    \E c \in CmdIds,
       error \in RefusalErrors \cup {"BAD_FRAME", "INVALID_START_BYTE"} :
        /\ TransfersSettled /\ RefusalDue(c, error)
        /\ out = <<Brief(c, error, 0)>>
        /\ BriefCalls([call |-> "refusing", cmdId |-> c], Brief(c, error, 0))

\* onSummon waits for its publishBrief.
Briefing ==
    \E m \in SummonRequest, size \in 0..MaxFileSize :
        /\ TransfersSettled /\ timers = Arm(settled.timers, m.cmdId)
        /\ ~Busy(m.cmdId) /\ ~(m.startByte - 1 > size)
        /\ out = <<Brief(m.cmdId, "NONE", size)>>
        /\ BriefCalls([call |-> "briefed", summon |-> m, size |-> size],
                      Brief(m.cmdId, "NONE", size))

\* The session before its first segment.
NewUpload(m, size) ==
    [cmdId |-> m.cmdId, file |-> m.file, fileSize |-> size,
     nextFileOffset |-> m.startByte - 1, nextSegNo |-> 1,
     awaitingConfirmSegNo |-> 0, state |-> "BriefOk"]

\* The summon whose first segment is c.
SummonSends(s, c) ==
    \E m \in SummonRequest, size \in 0..MaxFileSize :
        /\ s = NewUpload(m, size)
        /\ ~Busy(m.cmdId) /\ ~(m.startByte - 1 > size)
        /\ readHandles = Emplace(settled.readHandles,
                                 [cmdId |-> m.cmdId, file |-> m.file])
        /\ timers = Arm(settled.timers, m.cmdId)
        /\ out = Append(<<Brief(m.cmdId, "NONE", size)>>, c)

\* The confirm that is followed by the segment c.
ConfirmSends(s, c) ==
    \E m \in ContentConfirm, q \in settled.uploads :
        /\ WaitsFor(q, m) /\ Confirms(m, q) /\ s = Confirmed(q)
        /\ readHandles = settled.readHandles
        /\ timers = Reset(settled.timers, q.cmdId)
        /\ out = Append(<<>>, c)

\* sendNextContentSegment waits for its publishContent; the session in the
\* store is the one from before the segment.
Segment(s, h, n) ==
    /\ uploads = Put(settled.uploads, s) /\ s.awaitingConfirmSegNo = 0
    /\ PushesSettled
    /\ h.cmdId = s.cmdId /\ s.nextFileOffset < s.fileSize
    /\ n \in 1..SmallerOf(ChunkSize, s.fileSize - s.nextFileOffset)
    /\ \/ SummonSends(s, NextContent(s, h, n))
       \/ ConfirmSends(s, NextContent(s, h, n))

Sending ==
    \E s \in UploadSession, h \in readHandles, n \in 1..MaxFileSize :
        /\ Segment(s, h, n)
        /\ SegmentCalls([call |-> "sending", session |-> Awaiting(s, n)],
                        NextContent(s, h, n))

\* The inductive invariant.
Inv ==
    /\ Wired
    /\ uploads \subseteq UploadSession
    /\ AtRest \/ Refusing \/ Briefing \/ Sending

-----------------------------------------------------------------------------
(* Stacks.                                                                 *)

IsStack(st) == \E S : st \in Seq(S)

\* What is pushed comes off again.
LEMMA PushPop ==
    ASSUME NEW st, IsStack(st), NEW f
    PROVE  /\ IsStack(Append(st, f)) /\ Append(st, f) # <<>>
           /\ Last(Append(st, f)) = f /\ Front(Append(st, f)) = st
           /\ HandlerWaits(Append(st, f))
                <=> HandlerWaits(st) \/ f.call # "publish"
<1>1. PICK S : st \in Seq(S)
  BY DEF IsStack
<1> DEFINE R == S \cup {f}
           a == Append(st, f)
<1>2. st \in Seq(R) /\ f \in R
  BY <1>1, SeqMonotonic
<1>3. /\ a \in Seq(R) /\ a # <<>> /\ Len(a) = Len(st) + 1
      /\ \A i \in 1..Len(st) : a[i] = st[i]
      /\ a[Len(st) + 1] = f
  BY <1>2, AppendProperties
<1>4. Len(st) \in Nat /\ DOMAIN st = 1..Len(st) /\ DOMAIN a = 1..Len(a)
  BY <1>2, <1>3, LenProperties
<1>5. Last(a) = f
  BY <1>3 DEF Last
<1>6. Front(a) = st
  <2>1. Len(a) - 1 = Len(st)
    BY <1>3, <1>4
  <2>2. \A i \in 1..Len(st) : a[i] \in R
    BY <1>3, <1>2, ElementOfSeq
  <2>3. /\ Front(a) \in Seq(R) /\ Len(Front(a)) = Len(st)
        /\ \A i \in 1..Len(st) : Front(a)[i] = a[i]
    BY <2>1, <2>2, <1>4, SubSeqProperties DEF Front
  <2>4. QED
    BY <2>3, <1>2, <1>3, SeqEqual
<1>7. HandlerWaits(a) <=> HandlerWaits(st) \/ f.call # "publish"
  BY <1>3, <1>4 DEF HandlerWaits
<1>8. QED
  BY <1>3, <1>5, <1>6, <1>7 DEF IsStack

\* The stacks below a handler.
LEMMA BeneathStacks ==
    ASSUME NEW st \in Beneath
    PROVE  IsStack(st) /\ ~HandlerWaits(st)
<1>1. IsStack(<<>>) /\ ~HandlerWaits(<<>>)
  BY EmptySeq DEF IsStack, HandlerWaits
<1>2. ASSUME NEW t \in Asked, NEW m \in Requests(t),
             st = Append(<<>>, Finished(t, m))
      PROVE  IsStack(st) /\ ~HandlerWaits(st)
  <2>1. Finished(t, m).call = "publish"
    BY DEF Finished, Frame
  <2>2. QED
    BY <1>1, <1>2, <2>1, PushPop
<1>3. QED
  BY <1>1, <1>2 DEF Beneath

\* What publish leaves on the stack.
LEMMA Published1 ==
    ASSUME Wired, NEW t \in Inbound \cup Outbound, NEW m
    PROVE  /\ t \in Outbound => PublishCall(t, m) = Frame(t, m, <<"platform">>)
           /\ t \notin Outbound =>
                \/ PublishCall(t, m) = Finished(t, m)
                \/ PublishCall(t, m) = Frame(t, m, <<"gateway">>)
<1>1. PublishCall(t, m) = Frame(t, m, subscribers[t])
  BY DEF PublishCall, Frame
<1>2. /\ t \in Outbound => subscribers[t] = <<"platform">>
      /\ t \notin Outbound =>
            subscribers[t] = <<>> \/ subscribers[t] = <<"gateway">>
  BY DEF Wired
<1>3. QED
  BY <1>1, <1>2 DEF Finished

\* A publish with one handler to call, before and after the call.
LEMMA OneHandler ==
    ASSUME NEW t, NEW m, NEW h
    PROVE  LET f == Frame(t, m, <<h>>)
           IN  /\ f.call = "publish" /\ f.topic = t /\ f.payload = m
               /\ f.handlers # <<>> /\ Head(f.handlers) = h
               /\ [f EXCEPT !.handlers = Tail(@)] = Finished(t, m)
<1> DEFINE q == <<h>>
<1>1. q # <<>> /\ Head(q) = h /\ Tail(q) = <<>>
  OBVIOUS
<1> HIDE DEF q
<1>2. [Frame(t, m, q) EXCEPT !.handlers = Tail(@)] = Frame(t, m, <<>>)
  <2> DEFINE e == Tail(q)
  <2>1. Frame(t, m, q).handlers = q
    BY DEF Frame
  <2> HIDE DEF e
  <2> DEFINE no == FALSE
             F(x) == [call |-> "publish", topic |-> t, payload |-> m,
                      handlers |-> x, locked |-> no]
  <2>2. Frame(t, m, q) = F(q) /\ Frame(t, m, e) = F(e)
    BY Zenon DEF Frame
  <2> HIDE DEF no
  <2>4. [F(q) EXCEPT !.handlers = e] = F(e)
    OBVIOUS
  <2>3. QED
    BY <1>1, <2>1, <2>2, <2>4, Zenon DEF e
<1>3. Frame(t, m, q).topic = t /\ Frame(t, m, q).payload = m
  BY DEF Frame
<1>4. Frame(t, m, q).call = "publish" /\ Frame(t, m, q).handlers = q
  BY DEF Frame
<1>5. QED
  BY <1>1, <1>2, <1>3, <1>4 DEF Finished, q

LEMMA NoHandler ==
    ASSUME NEW t, NEW m
    PROVE  Finished(t, m).call = "publish" /\ Finished(t, m).handlers = <<>>
BY DEF Frame, Finished

\* The three things a publish on top of the stack does: call the platform,
\* call the gateway, and return.
LEMMA PlatformCalled ==
    ASSUME NEW st, IsStack(st), NEW t, NEW m, Proceed,
           calls = Append(st, Frame(t, m, <<"platform">>))
    PROVE  /\ ToPlatform(t, m, Append(st, Finished(t, m)))
           /\ UNCHANGED <<connected, subscribers, started>>
<1> DEFINE f == Frame(t, m, <<"platform">>)
<1>1. calls # <<>> /\ Last(calls) = f /\ Front(calls) = st
  BY PushPop
<1>2. /\ f.call = "publish" /\ f.topic = t /\ f.payload = m
      /\ f.handlers # <<>> /\ Head(f.handlers) = "platform"
      /\ [f EXCEPT !.handlers = Tail(@)] = Finished(t, m)
  BY OneHandler
<1>3. Deliver
  BY <1>1, <1>2 DEF Proceed, PublishReturns, Resume
<1> HIDE DEF f
<1>4. QED
  BY <1>1, <1>2, <1>3 DEF Deliver

LEMMA GatewayCalled ==
    ASSUME NEW st, IsStack(st), NEW t, NEW m, Proceed,
           calls = Append(st, Frame(t, m, <<"gateway">>))
    PROVE  /\ ToGateway(t, m, Append(st, Finished(t, m)))
           /\ UNCHANGED <<connected, subscribers, started>>
<1> DEFINE f == Frame(t, m, <<"gateway">>)
<1>1. calls # <<>> /\ Last(calls) = f /\ Front(calls) = st
  BY PushPop
<1>2. /\ f.call = "publish" /\ f.topic = t /\ f.payload = m
      /\ f.handlers # <<>> /\ Head(f.handlers) = "gateway"
      /\ [f EXCEPT !.handlers = Tail(@)] = Finished(t, m)
  BY OneHandler
<1>3. Deliver
  BY <1>1, <1>2 DEF Proceed, PublishReturns, Resume
<1> HIDE DEF f
<1>4. QED
  BY <1>1, <1>2, <1>3 DEF Deliver

LEMMA PublishReturned ==
    ASSUME NEW st, IsStack(st), NEW t, NEW m, Proceed,
           calls = Append(st, Finished(t, m))
    PROVE  /\ calls' = st
           /\ UNCHANGED <<vars, history, subscribers, received, started>>
<1> DEFINE f == Finished(t, m)
<1>1. calls # <<>> /\ Last(calls) = f /\ Front(calls) = st
  BY PushPop
<1>2. f.call = "publish" /\ f.handlers = <<>>
  BY NoHandler
<1> HIDE DEF f
<1>3. PublishReturns
  BY <1>1, <1>2 DEF Proceed, Deliver, Resume
<1>4. QED
  BY <1>1, <1>3 DEF PublishReturns, Return

\* A handler on top of the stack goes on.
LEMMA HandlerResumed ==
    ASSUME NEW st, IsStack(st), NEW f, f.call # "publish", Proceed,
           calls = Append(st, f)
    PROVE  /\ \/ /\ f.call = "refusing"
                 /\ CloseTransfer(f.cmdId, uploads, readHandles, timers)
                 /\ Return(st) /\ UNCHANGED out
              \/ f.call = "briefed" /\ AfterBrief(f.summon, f.size, st)
              \/ /\ f.call = "sending"
                 /\ uploads' = Put(uploads, f.session)
                 /\ timers' = Reset(timers, f.session.cmdId)
                 /\ Return(st) /\ UNCHANGED <<readHandles, out>>
           /\ UNCHANGED <<pushVars, connected, subscribers, received, started>>
<1>1. calls # <<>> /\ Last(calls) = f /\ Front(calls) = st
  BY PushPop
<1>2. Resume
  BY <1>1 DEF Proceed, Deliver, PublishReturns
<1>3. QED
  BY <1>1, <1>2 DEF Resume

-----------------------------------------------------------------------------
(* The gateway on a broker, seen through `settled'.  Its operators that    *)
(* read no variable are those of the gateway on the bus.                   *)

LEMMA SameTables ==
    /\ \A S, c : Atomic!Without(S, c) = Without(S, c)
    /\ \A S, r : Atomic!Put(S, r) = Put(S, r)
    /\ \A S, r : Atomic!Emplace(S, r) = Emplace(S, r)
    /\ \A S : Atomic!Ids(S) = Ids(S)
    /\ \A T, c : Atomic!Arm(T, c) = Arm(T, c)
    /\ \A T, c : Atomic!Reset(T, c) = Reset(T, c)
    /\ \A T, c : Atomic!Disarm(T, c) = Disarm(T, c)
    /\ \A T : Atomic!Countdown(T) = Countdown(T)
    /\ \A T : Atomic!Expired(T) = Expired(T)
    /\ \A T : Atomic!Unexpired(T) = Unexpired(T)
<1>1. \A S, c : Atomic!Without(S, c) = Without(S, c)
  BY DEF Atomic!Without, Without
<1>2. \A S, r : Atomic!Put(S, r) = Put(S, r)
  BY <1>1 DEF Atomic!Put, Put
<1>3. \A S : Atomic!Ids(S) = Ids(S)
  BY DEF Atomic!Ids, Ids
<1>4. \A S, r : Atomic!Emplace(S, r) = Emplace(S, r)
  BY <1>3 DEF Atomic!Emplace, Emplace
<1>5. \A T, c : Atomic!Arm(T, c) = Arm(T, c)
  BY <1>2 DEF Atomic!Arm, Arm
<1>6. \A T, c : Atomic!Reset(T, c) = Reset(T, c)
  BY <1>3, <1>5 DEF Atomic!Reset, Reset
<1>7. \A T, c : Atomic!Disarm(T, c) = Disarm(T, c)
  BY <1>1 DEF Atomic!Disarm, Disarm
<1>8. \A T : Atomic!Countdown(T) = Countdown(T)
  BY DEF Atomic!Countdown, Countdown
<1>9. \A T : Atomic!Expired(T) = Expired(T)
  BY DEF Atomic!Expired, Expired
<1>10. \A T : Atomic!Unexpired(T) = Unexpired(T)
  BY DEF Atomic!Unexpired, Unexpired
<1>11. QED
  BY <1>1, <1>2, <1>3, <1>4, <1>5, <1>6, <1>7, <1>8, <1>9, <1>10

LEMMA SameMessages ==
    /\ Atomic!SummonRequest = SummonRequest
    /\ Atomic!ContentConfirm = ContentConfirm
    /\ Atomic!PushBrief = PushBrief
    /\ Atomic!PushContent = PushContent
    /\ \A c, error, size : Atomic!Brief(c, error, size) = Brief(c, error, size)
    /\ \A s, h, n : Atomic!NextContent(s, h, n) = NextContent(s, h, n)
    /\ \A s, n : Atomic!Awaiting(s, n) = Awaiting(s, n)
    /\ \A a, b : Atomic!SmallerOf(a, b) = SmallerOf(a, b)
    /\ \A s, m : Atomic!WaitsFor(s, m) <=> WaitsFor(s, m)
    /\ \A s, m : Atomic!Confirms(m, s) <=> Confirms(m, s)
<1>1. /\ Atomic!SummonRequest = SummonRequest
      /\ Atomic!ContentConfirm = ContentConfirm
  BY DEF Atomic!SummonRequest, SummonRequest, Atomic!ContentConfirm,
         ContentConfirm
<1>2. Atomic!PushBrief = PushBrief /\ Atomic!PushContent = PushContent
  BY DEF Atomic!PushBrief, PushBrief, Atomic!PushContent, PushContent,
         Atomic!BytesUpTo, BytesUpTo
<1>3. \A c, error, size : Atomic!Brief(c, error, size) = Brief(c, error, size)
  BY DEF Atomic!Brief, Brief
<1>4. \A s, h, n : Atomic!NextContent(s, h, n) = NextContent(s, h, n)
  BY DEF Atomic!NextContent, NextContent, Atomic!Content, Content
<1>5. \A s, n : Atomic!Awaiting(s, n) = Awaiting(s, n)
  BY DEF Atomic!Awaiting, Awaiting
<1>6. \A a, b : Atomic!SmallerOf(a, b) = SmallerOf(a, b)
  BY DEF Atomic!SmallerOf, SmallerOf
<1>7. \A s, m : Atomic!WaitsFor(s, m) <=> WaitsFor(s, m)
  BY DEF Atomic!WaitsFor, WaitsFor
<1>8. \A s, m : Atomic!Confirms(m, s) <=> Confirms(m, s)
  BY DEF Atomic!Confirms, Confirms
<1>9. QED
  BY <1>1, <1>2, <1>3, <1>4, <1>5, <1>6, <1>7, <1>8, Zenon

-----------------------------------------------------------------------------
(* The steps of the gateway on a broker.                                   *)

PushesKept ==
    /\ settled'.pushes = settled.pushes
    /\ settled'.writeHandles = settled.writeHandles
    /\ settled'.disk = settled.disk
    /\ connected = TRUE /\ connected' = connected

LEMMA BusyMeans ==
    ASSUME NEW c
    PROVE  Busy(c) <=> Atomic!SummonBusy \/ Atomic!HasActiveSessionOtherThan(c)
BY DEF Busy, Atomic!SummonBusy, Atomic!HasActiveSession,
       Atomic!HasActiveSessionOtherThan

\* A refused summon.
LEMMA AtomicRefusal ==
    ASSUME PushesKept, NEW c, NEW error, RefusalDue(c, error),
           Atomic!CloseTransfer(c, settled.uploads, settled.readHandles,
                                timers),
           settled'.out = <<Brief(c, error, 0)>>
    PROVE  Atomic!Summon
<1>1. Atomic!PublishBriefFailure(c, error, timers)
  BY SameMessages DEF Atomic!PublishBriefFailure, Atomic!Publish
<1>2. ASSUME c = 0, error = "BAD_FRAME", timers = settled.timers
      PROVE  Atomic!OnUndecodableSummon
  BY <1>1, <1>2 DEF Atomic!OnUndecodableSummon
<1>3. ASSUME NEW m \in SummonRequest, m.cmdId = c,
             timers = Arm(settled.timers, c),
             error \in RefusalErrors, (error = "BUSY") <=> Busy(c)
      PROVE  Atomic!OnSummon(m, Atomic!SummonBusy)
  <2>1. Atomic!PublishBriefFailure(m.cmdId, error, Atomic!SummonTimer(m.cmdId))
    BY <1>1, <1>3, SameTables DEF Atomic!SummonTimer
  <2>2. (error = "BUSY") <=>
            Atomic!SummonBusy \/ Atomic!HasActiveSessionOtherThan(m.cmdId)
    BY <1>3, BusyMeans
  <2>3. QED
    BY <1>3, <2>1, <2>2 DEF Atomic!OnSummon, Atomic!RefuseSummon, RefusalErrors
<1>4. ASSUME NEW m \in SummonRequest, m.cmdId = c,
             timers = Arm(settled.timers, c),
             error = "INVALID_START_BYTE", ~Busy(c),
             NEW size \in 0..MaxFileSize, m.startByte - 1 > size
      PROVE  Atomic!OnSummon(m, Atomic!SummonBusy)
  <2>1. Atomic!PublishBriefFailure(m.cmdId, "INVALID_START_BYTE",
                                   Atomic!SummonTimer(m.cmdId))
    BY <1>1, <1>4, SameTables DEF Atomic!SummonTimer
  <2>2. ~Atomic!SummonBusy /\ ~Atomic!HasActiveSessionOtherThan(m.cmdId)
    BY <1>4, BusyMeans
  <2>3. QED
    BY <1>4, <2>1, <2>2 DEF Atomic!OnSummon, Atomic!AcceptSummon
<1>5. \/ Atomic!OnUndecodableSummon
      \/ \E m \in SummonRequest : Atomic!OnSummon(m, Atomic!SummonBusy)
  BY <1>2, <1>3, <1>4 DEF RefusalDue
<1>6. QED
  BY <1>5, SameMessages DEF Atomic!Summon, Atomic!pushVars, PushesKept

\* A summon that is accepted; what comes after the brief is x.
LEMMA AtomicAccepts ==
    ASSUME PushesKept, NEW m \in SummonRequest, NEW size \in 0..MaxFileSize,
           ~Busy(m.cmdId), ~(m.startByte - 1 > size),
           Atomic!StartUpload(m, size)
    PROVE  Atomic!Summon
<1>1. ~Atomic!SummonBusy /\ ~Atomic!HasActiveSessionOtherThan(m.cmdId)
  BY BusyMeans
<1>2. Atomic!OnSummon(m, Atomic!SummonBusy)
  BY <1>1 DEF Atomic!OnSummon, Atomic!AcceptSummon
<1>3. QED
  BY <1>2, SameMessages DEF Atomic!Summon, Atomic!pushVars, PushesKept

\* It ends when there is nothing to send, or nothing can be read.
LEMMA AtomicUploadEnds ==
    ASSUME PushesKept, NEW m \in SummonRequest, NEW size \in 0..MaxFileSize,
           ~Busy(m.cmdId), ~(m.startByte - 1 > size),
           Atomic!CloseTransfer(m.cmdId,
                Put(settled.uploads, NewUpload(m, size)),
                Emplace(settled.readHandles,
                        [cmdId |-> m.cmdId, file |-> m.file]),
                Arm(settled.timers, m.cmdId)),
           settled'.out = <<Brief(m.cmdId, "NONE", size)>>
    PROVE  Atomic!Summon
<1> DEFINE s == NewUpload(m, size)
           S == Put(settled.uploads, s)
           H == Emplace(settled.readHandles,
                        [cmdId |-> m.cmdId, file |-> m.file])
           T == Arm(settled.timers, m.cmdId)
           brief == <<Brief(m.cmdId, "NONE", size)>>
<1>1. s.cmdId = m.cmdId
  BY DEF NewUpload
<1>2. Atomic!CloseTransfer(m.cmdId, S, H, T) /\ Atomic!Publish(brief)
  BY DEF Atomic!Publish
<1>3. Atomic!SendNextContentSegment(s, S, H, T, brief)
  BY <1>1, <1>2 DEF Atomic!SendNextContentSegment
<1>4. /\ S = Atomic!Put(settled.uploads, s)
      /\ H = Atomic!Emplace(settled.readHandles,
                            [cmdId |-> m.cmdId, file |-> m.file])
      /\ T = Atomic!SummonTimer(m.cmdId)
      /\ brief = <<Atomic!Brief(m.cmdId, "NONE", size)>>
  BY SameTables, SameMessages DEF Atomic!SummonTimer
<1>5. Atomic!StartUpload(m, size)
  BY <1>2, <1>3, <1>4 DEF Atomic!StartUpload, NewUpload
<1>6. QED
  BY <1>5, AtomicAccepts

\* What remains to be done of a segment that has been published.
SegmentSettles(s, n) ==
    /\ settled'.uploads = Put(uploads, Awaiting(s, n))
    /\ settled'.readHandles = readHandles
    /\ settled'.timers = Reset(timers, s.cmdId)
    /\ settled'.out = out

LEMMA AtomicSegment ==
    ASSUME NEW s, NEW h \in readHandles, NEW n, Segment(s, h, n),
           SegmentSettles(s, n), NEW msgs,
           out = Append(msgs, NextContent(s, h, n))
    PROVE  Atomic!SendNextContentSegment(s, uploads, readHandles, timers, msgs)
BY SameTables, SameMessages
   DEF Segment, SegmentSettles, Atomic!SendNextContentSegment, Atomic!Publish

LEMMA AtomicFirstSegment ==
    ASSUME PushesKept, NEW s, NEW h \in readHandles, NEW n, Segment(s, h, n),
           SegmentSettles(s, n), SummonSends(s, NextContent(s, h, n))
    PROVE  Atomic!Summon
<1>1. PICK m \in SummonRequest, size \in 0..MaxFileSize :
        /\ s = NewUpload(m, size)
        /\ ~Busy(m.cmdId) /\ ~(m.startByte - 1 > size)
        /\ readHandles = Emplace(settled.readHandles,
                                 [cmdId |-> m.cmdId, file |-> m.file])
        /\ timers = Arm(settled.timers, m.cmdId)
        /\ out = Append(<<Brief(m.cmdId, "NONE", size)>>,
                        NextContent(s, h, n))
  BY DEF SummonSends
<1> DEFINE brief == <<Brief(m.cmdId, "NONE", size)>>
<1>2. Atomic!SendNextContentSegment(s, uploads, readHandles, timers, brief)
  BY <1>1, AtomicSegment
<1>3. /\ uploads = Atomic!Put(settled.uploads, s)
      /\ readHandles = Atomic!Emplace(settled.readHandles,
                            [cmdId |-> m.cmdId, file |-> m.file])
      /\ timers = Atomic!SummonTimer(m.cmdId)
      /\ brief = <<Atomic!Brief(m.cmdId, "NONE", size)>>
  BY <1>1, SameTables, SameMessages DEF Atomic!SummonTimer, Segment
<1>4. /\ s.nextFileOffset = m.startByte - 1 /\ s.fileSize = size
      /\ s.nextFileOffset < s.fileSize
  BY <1>1 DEF NewUpload, Segment
<1>5. ~(m.startByte - 1 >= size)
  BY <1>4 DEF SummonRequest
<1>6. Atomic!StartUpload(m, size)
  BY <1>1, <1>2, <1>3, <1>5 DEF Atomic!StartUpload, NewUpload
<1>7. QED
  BY <1>1, <1>6, AtomicAccepts

\* A confirm of the segment that was sent last.
LEMMA AtomicContinues ==
    ASSUME PushesKept, NEW m \in ContentConfirm, NEW q \in settled.uploads,
           WaitsFor(q, m), Confirms(m, q), Atomic!ContinueUpload(q)
    PROVE  Atomic!ConfirmContent
<1>1. Atomic!OnContentConfirm(m)
  BY SameMessages DEF Atomic!OnContentConfirm
<1>2. QED
  BY <1>1, SameMessages DEF Atomic!ConfirmContent, Atomic!pushVars, PushesKept

LEMMA AtomicNextSegment ==
    ASSUME PushesKept, NEW s, NEW h \in readHandles, NEW n, Segment(s, h, n),
           SegmentSettles(s, n), ConfirmSends(s, NextContent(s, h, n)),
           s.nextFileOffset \in Nat, s.fileSize \in Nat
    PROVE  Atomic!ConfirmContent
<1>1. PICK m \in ContentConfirm, q \in settled.uploads :
        /\ WaitsFor(q, m) /\ Confirms(m, q) /\ s = Confirmed(q)
        /\ readHandles = settled.readHandles
        /\ timers = Reset(settled.timers, q.cmdId)
        /\ out = Append(<<>>, NextContent(s, h, n))
  BY DEF ConfirmSends
<1>2. Atomic!SendNextContentSegment(s, uploads, readHandles, timers, <<>>)
  BY <1>1, AtomicSegment
<1>3. /\ uploads = Atomic!Put(settled.uploads, s)
      /\ timers = Atomic!Reset(settled.timers, q.cmdId)
  BY <1>1, SameTables DEF Segment
<1>4. ~(s.nextFileOffset >= s.fileSize)
  BY DEF Segment
<1>5. Atomic!ContinueUpload(q)
  BY <1>1, <1>2, <1>3, <1>4 DEF Atomic!ContinueUpload, Confirmed
<1>6. QED
  BY <1>1, <1>5, AtomicContinues

\* A confirm that nobody waits for.
LEMMA AtomicIgnores ==
    ASSUME PushesKept, NEW m \in ContentConfirm,
           \A q \in settled.uploads : ~WaitsFor(q, m),
           settled'.uploads = settled.uploads,
           settled'.readHandles = settled.readHandles,
           settled'.timers = settled.timers, settled'.out = <<>>
    PROVE  Atomic!ConfirmContent
<1>1. Atomic!OnContentConfirm(m)
  BY SameMessages
     DEF Atomic!OnContentConfirm, Atomic!Publish, Atomic!uploadVars
<1>2. QED
  BY <1>1, SameMessages DEF Atomic!ConfirmContent, Atomic!pushVars, PushesKept

\* A confirm that ends the upload: with the session written back and the
\* deadline moved first, as here, or not, as after a failed segment.
LEMMA AtomicConfirmEnds ==
    ASSUME PushesKept, NEW m \in ContentConfirm, NEW q \in settled.uploads,
           WaitsFor(q, m), Confirmed(q).cmdId = q.cmdId,
           Atomic!CloseTransfer(q.cmdId, Put(settled.uploads, Confirmed(q)),
                settled.readHandles, Reset(settled.timers, q.cmdId)),
           settled'.out = <<>>
    PROVE  Atomic!ConfirmContent
<1> DEFINE t == Confirmed(q)
           S == Put(settled.uploads, t)
           T == Reset(settled.timers, q.cmdId)
<1>1. m.cmdId = q.cmdId
  BY DEF WaitsFor
<1>2. CASE Confirms(m, q)
  <2>1. Atomic!SendNextContentSegment(t, S, settled.readHandles, T, <<>>)
    BY DEF Atomic!SendNextContentSegment, Atomic!Publish
  <2>2. /\ S = Atomic!Put(settled.uploads, t)
        /\ T = Atomic!Reset(settled.timers, q.cmdId)
    BY SameTables
  <2>3. Atomic!ContinueUpload(q)
    BY <2>1, <2>2 DEF Atomic!ContinueUpload, Atomic!Publish, Confirmed
  <2>4. QED
    BY <1>2, <2>3, AtomicContinues
<1>3. CASE ~Confirms(m, q)
  <2>1. Without(S, q.cmdId) = Without(settled.uploads, q.cmdId)
    BY WithoutAfter
  <2>2. Without(T, q.cmdId) = Without(settled.timers, q.cmdId)
    <3>1. [cmdId |-> q.cmdId, left |-> TimeoutSec].cmdId = q.cmdId
      OBVIOUS
    <3>2. QED
      BY <3>1, WithoutAfter DEF Reset, Arm
  <2>3. Atomic!CloseTransfer(m.cmdId, settled.uploads, settled.readHandles,
                             settled.timers)
    BY <1>1, <2>1, <2>2, SameTables DEF Atomic!CloseTransfer, Disarm
  <2>4. Atomic!OnContentConfirm(m)
    BY <1>3, <2>3, SameMessages DEF Atomic!OnContentConfirm, Atomic!Publish
  <2>5. QED
    BY <2>4, SameMessages
       DEF Atomic!ConfirmContent, Atomic!pushVars, PushesKept
<1>4. QED
  BY <1>2, <1>3

-----------------------------------------------------------------------------
(* Handlers that are whole on the bus, too.                                *)

\* Nothing that is settled is in need of translation.
LEMMA AtomicClock ==
    ASSUME Settled, Settled', Tick \/ Second
    PROVE  Atomic!Next
<1>1. ASSUME Tick
      PROVE  Atomic!Tick
  <2>1. /\ settled.timers = timers /\ settled'.timers = timers'
        /\ settled.uploads = uploads /\ settled'.uploads = uploads'
        /\ settled.readHandles = readHandles
        /\ settled'.readHandles = readHandles'
        /\ settled.pushes = pushes /\ settled'.pushes = pushes'
        /\ settled.writeHandles = writeHandles
        /\ settled'.writeHandles = writeHandles'
        /\ settled.disk = disk /\ settled'.disk = disk' /\ settled'.out = out'
    BY DEF Settled, TransfersSettled, PushesSettled
  <2> DEFINE E == Expired(timers)
  <2>2. Atomic!UploadsTimeout(E)
    BY <1>1, <2>1, SameTables
       DEF Tick, UploadsTimeout, Atomic!UploadsTimeout
  <2>3. Atomic!PushesTimeout(E)
    BY <1>1, <2>1, SameTables
       DEF Tick, PushesTimeout, Atomic!PushesTimeout
  <2>4. E = Atomic!Expired(settled.timers) /\ E # {}
    BY <1>1, <2>1, SameTables DEF Tick
  <2>5. settled'.timers = Atomic!Unexpired(settled.timers)
    BY <1>1, <2>1, SameTables DEF Tick
  <2>6. settled'.out = <<>> /\ UNCHANGED connected
    BY <1>1, <2>1 DEF Tick, Publish
  <2>7. QED
    BY <2>2, <2>3, <2>4, <2>5, <2>6 DEF Atomic!Tick, Atomic!Publish
<1>2. ASSUME Second
      PROVE  Atomic!Second
  BY <1>2, SameTables
  DEF Settled, TransfersSettled, PushesSettled, Second, Atomic!Second, Publish,
      Atomic!Publish, uploadVars, Atomic!uploadVars, pushVars, Atomic!pushVars
<1>3. QED
  BY <1>1, <1>2 DEF Atomic!Next

LEMMA SamePushes ==
    /\ \A c, error : Atomic!PushBriefConfirm(c, error)
                        = PushBriefConfirm(c, error)
    /\ \A c, n, error : Atomic!PushContentConfirm(c, n, error)
                           = PushContentConfirm(c, n, error)
    /\ \A m, s : Atomic!Received(m, s) = Received(m, s)
    /\ \A m, s : Atomic!InOrder(m, s) <=> InOrder(m, s)
    /\ \A s, content : Atomic!FinalError(s, content) = FinalError(s, content)
    /\ \A content : Atomic!ReadBack(content) = ReadBack(content)
    /\ \A d, f : Atomic!OpenWriteCreate(d, f) = OpenWriteCreate(d, f)
    /\ \A d, f, n, b : Atomic!WriteAt(d, f, n, b) = WriteAt(d, f, n, b)
<1>1. \A c, error : Atomic!PushBriefConfirm(c, error)
                        = PushBriefConfirm(c, error)
  BY DEF Atomic!PushBriefConfirm, PushBriefConfirm
<1>2. \A c, n, error : Atomic!PushContentConfirm(c, n, error)
                           = PushContentConfirm(c, n, error)
  BY DEF Atomic!PushContentConfirm, PushContentConfirm
<1>3. \A m, s : Atomic!Received(m, s) = Received(m, s)
  BY DEF Atomic!Received, Received
<1>4. \A m, s : Atomic!InOrder(m, s) <=> InOrder(m, s)
  BY DEF Atomic!InOrder, InOrder
<1>5. \A s, content : Atomic!FinalError(s, content) = FinalError(s, content)
  BY DEF Atomic!FinalError, FinalError
<1>6. \A content : Atomic!ReadBack(content) = ReadBack(content)
  BY DEF Atomic!ReadBack, ReadBack
<1>7. \A d, f : Atomic!OpenWriteCreate(d, f) = OpenWriteCreate(d, f)
  BY DEF Atomic!OpenWriteCreate, OpenWriteCreate
<1>8. \A d, f, n, b : Atomic!WriteAt(d, f, n, b) = WriteAt(d, f, n, b)
  BY DEF Atomic!WriteAt, WriteAt
<1>9. QED
  BY <1>1, <1>2, <1>3, <1>4, <1>5, <1>6, <1>7, <1>8, Zenon

\* The variables of a push on both sides of a step.
PushSideSettled ==
    /\ settled.pushes = pushes /\ settled.writeHandles = writeHandles
    /\ settled.disk = disk /\ settled.timers = timers
    /\ settled'.pushes = pushes' /\ settled'.writeHandles = writeHandles'
    /\ settled'.disk = disk' /\ settled'.timers = timers'
    /\ settled'.out = out'

LEMMA AtomicPushBrief ==
    ASSUME PushSideSettled, NEW m, NEW busy, OnPushBrief(m, busy)
    PROVE  Atomic!OnPushBrief(m, busy)
<1>1. ASSUME RefusePushBrief(m, busy)
      PROVE  Atomic!RefusePushBrief(m, busy)
  BY <1>1, SamePushes
  DEF PushSideSettled, RefusePushBrief, Atomic!RefusePushBrief, Publish,
      Atomic!Publish, HasActiveSession, Atomic!HasActiveSession, pushVars,
      Atomic!pushVars
<1>2. ASSUME AcceptPushBrief(m, busy)
      PROVE  Atomic!AcceptPushBrief(m, busy)
  BY <1>2, SamePushes, SameTables
  DEF PushSideSettled, AcceptPushBrief, Atomic!AcceptPushBrief, Publish,
      Atomic!Publish, HasActiveSession, Atomic!HasActiveSession
<1>3. QED
  BY <1>1, <1>2 DEF OnPushBrief, Atomic!OnPushBrief

LEMMA AtomicEndPush ==
    ASSUME PushSideSettled, NEW m, NEW error, EndPush(m, error)
    PROVE  Atomic!EndPush(m, error)
BY SamePushes, SameTables
   DEF PushSideSettled, EndPush, Atomic!EndPush, Answer, Atomic!Answer, Publish,
       Atomic!Publish, ClosePush, Atomic!ClosePush

LEMMA AtomicPushContent ==
    ASSUME PushSideSettled, NEW m, OnPushContent(m)
    PROVE  Atomic!OnPushContent(m)
<1>1. ASSUME m.cmdId \notin Ids(pushes), Answer(m, "NO_SESSION"),
             UNCHANGED <<pushVars, timers>>
      PROVE  Atomic!OnPushContent(m)
  BY <1>1, SamePushes, SameTables
  DEF PushSideSettled, Atomic!OnPushContent, Answer, Atomic!Answer, Publish,
      Atomic!Publish, pushVars, Atomic!pushVars
<1>2. ASSUME NEW s \in pushes, s.cmdId = m.cmdId, ~InOrder(m, s),
             EndPush(m, "INVALID_SEG_NO"), UNCHANGED disk
      PROVE  Atomic!OnPushContent(m)
  <2>1. Atomic!EndPush(m, "INVALID_SEG_NO")
    BY <1>2, AtomicEndPush
  <2>2. QED
    BY <1>2, <2>1, SamePushes DEF PushSideSettled, Atomic!OnPushContent
<1>3. ASSUME NEW s \in pushes, s.cmdId = m.cmdId, InOrder(m, s),
             StoreFails(m, s)
      PROVE  Atomic!OnPushContent(m)
  <2>1. Atomic!EndPush(m, "IO_ERROR")
    BY <1>3, AtomicEndPush DEF StoreFails
  <2>2. Atomic!StoreFails(m, s)
    BY <1>3, <2>1, SamePushes DEF PushSideSettled, StoreFails, Atomic!StoreFails
  <2>3. QED
    BY <1>3, <2>2, SamePushes DEF PushSideSettled, Atomic!OnPushContent
<1>4. ASSUME NEW s \in pushes, s.cmdId = m.cmdId, InOrder(m, s),
             NEW h \in writeHandles, h.cmdId = m.cmdId, StoreSegment(m, s, h)
      PROVE  Atomic!OnPushContent(m)
  <2>1. /\ m.content # <<>>
        /\ settled'.disk = Atomic!WriteAt(settled.disk, h.file, s.bytesWritten,
                                          m.content)
    BY <1>4, SamePushes DEF PushSideSettled, StoreSegment
  <2>2. CASE m.more
    <3>1. /\ pushes' = Put(pushes, Received(m, s))
          /\ timers' = Reset(timers, m.cmdId)
          /\ Answer(m, "NONE") /\ UNCHANGED writeHandles
      BY <1>4, <2>2 DEF StoreSegment
    <3>2. /\ settled'.pushes = Atomic!Put(settled.pushes, Atomic!Received(m, s))
          /\ settled'.timers = Atomic!Reset(settled.timers, m.cmdId)
          /\ settled'.writeHandles = settled.writeHandles
      BY <3>1, SamePushes, SameTables DEF PushSideSettled
    <3>3. Atomic!Answer(m, "NONE")
      BY <3>1, SamePushes
      DEF PushSideSettled, Answer, Atomic!Answer, Publish, Atomic!Publish
    <3>4. Atomic!StoreSegment(m, s, h)
      BY <2>1, <2>2, <3>2, <3>3 DEF Atomic!StoreSegment
    <3>5. QED
      BY <1>4, <3>4, SamePushes DEF PushSideSettled, Atomic!OnPushContent
  <2>3. CASE ~m.more
    <3>1. PICK content \in ReadBack(disk'[s.file]) :
            EndPush(m, FinalError(Received(m, s), content))
      BY <1>4, <2>3 DEF StoreSegment
    <3>2. Atomic!EndPush(m, FinalError(Received(m, s), content))
      BY <3>1, AtomicEndPush
    <3>3. /\ content \in Atomic!ReadBack(settled'.disk[s.file])
          /\ FinalError(Received(m, s), content)
                = Atomic!FinalError(Atomic!Received(m, s), content)
      BY <3>1, SamePushes DEF PushSideSettled
    <3>4. Atomic!StoreSegment(m, s, h)
      BY <2>1, <2>3, <3>2, <3>3 DEF Atomic!StoreSegment
    <3>5. QED
      BY <1>4, <3>4, SamePushes DEF PushSideSettled, Atomic!OnPushContent
  <2>4. QED
    BY <2>2, <2>3
<1>5. QED
  BY <1>1, <1>2, <1>3, <1>4 DEF OnPushContent

LEMMA AtomicAnswer ==
    ASSUME Settled, Settled', connected = TRUE,
           UNCHANGED <<connected, uploadVars>>,
           \/ OnUndecodablePush
           \/ \E m \in PushBrief : OnPushBrief(m, PushBusy)
           \/ \E m \in PushContent : WithinBound(m) /\ OnPushContent(m)
    PROVE  Atomic!Next
<1>1. PushSideSettled
  BY DEF Settled, TransfersSettled, PushesSettled, PushSideSettled
<1>2. UNCHANGED <<connected, Atomic!uploadVars>>
  BY DEF Settled, TransfersSettled, uploadVars, Atomic!uploadVars
<1>3. ASSUME OnUndecodablePush
      PROVE  Atomic!AnnouncePush
  <2>1. Atomic!OnUndecodablePush
    BY <1>1, <1>3, SamePushes
    DEF PushSideSettled, OnUndecodablePush, Atomic!OnUndecodablePush, Publish,
        Atomic!Publish, pushVars, Atomic!pushVars
  <2>2. QED
    BY <1>2, <2>1 DEF Atomic!AnnouncePush
<1>4. ASSUME NEW m \in PushBrief, OnPushBrief(m, PushBusy)
      PROVE  Atomic!AnnouncePush
  <2>1. PushBusy <=> Atomic!PushBusy
    BY DEF Settled, TransfersSettled, PushBusy, Atomic!PushBusy,
           HasActiveSessionOtherThan, Atomic!HasActiveSessionOtherThan
  <2>2. Atomic!OnPushBrief(m, PushBusy)
    BY <1>1, <1>4, AtomicPushBrief
  <2>3. Atomic!OnPushBrief(m, Atomic!PushBusy)
    BY <2>1, <2>2 DEF Atomic!OnPushBrief, Atomic!RefusePushBrief,
                      Atomic!AcceptPushBrief
  <2>4. QED
    BY <1>2, <2>3, SameMessages DEF Atomic!AnnouncePush
<1>5. ASSUME NEW m \in PushContent, WithinBound(m), OnPushContent(m)
      PROVE  Atomic!SendPush
  <2>1. Atomic!OnPushContent(m)
    BY <1>1, <1>5, AtomicPushContent
  <2>2. Atomic!WithinBound(m)
    BY <1>1, <1>5 DEF PushSideSettled, WithinBound, Atomic!WithinBound
  <2>3. QED
    BY <1>2, <2>1, <2>2, SameMessages DEF Atomic!SendPush
<1>6. QED
  BY <1>3, <1>4, <1>5 DEF Atomic!Next

-----------------------------------------------------------------------------
(* The steps of the bus.                                                   *)

\* What a step does to `settled'.
Moves == settled' = IF HandlerWaits(calls') THEN settled ELSE GatewayState'

\* What a step of the bus is to the gateway on a broker.
AtomicStep == Atomic!Next \/ UNCHANGED Atomic!vars

LEMMA SettledAfter ==
    ASSUME Moves, ~HandlerWaits(calls')
    PROVE  Settled'
BY DEF Moves, GatewayState, Settled, TransfersSettled, PushesSettled

LEMMA RestAfter ==
    ASSUME Moves, calls' \in Beneath \/ Asking' \/ Answering'
    PROVE  AtRest'
<1>1. IsStack(<<>>) /\ ~HandlerWaits(<<>>)
  BY BeneathStacks DEF Beneath
<1>2. ASSUME calls' \in Beneath
      PROVE  ~HandlerWaits(calls')
  BY <1>2, BeneathStacks
<1>3. ASSUME NEW f, f.call = "publish", calls' = Append(<<>>, f)
      PROVE  ~HandlerWaits(calls')
  BY <1>1, <1>3, PushPop
<1>4. ASSUME NEW f, NEW g, f.call = "publish", g.call = "publish",
             calls' = Append(Append(<<>>, f), g)
      PROVE  ~HandlerWaits(calls')
  <2>1. IsStack(Append(<<>>, f)) /\ ~HandlerWaits(Append(<<>>, f))
    BY <1>1, <1>4, PushPop
  <2>2. QED
    BY <1>4, <2>1, PushPop
<1>5. \A t, m, hs : Frame(t, m, hs).call = "publish"
  BY DEF Frame
<1>6. ASSUME Asking'
      PROVE  ~HandlerWaits(calls')
  <2>1. PICK t, m : calls' = Append(<<>>, Frame(t, m, <<"gateway">>))
    BY <1>6 DEF Asking
  <2>2. QED
    BY <2>1, <1>3, <1>5
<1>7. ASSUME Answering'
      PROVE  ~HandlerWaits(calls')
  <2>1. PICK t, m, hs : calls' = Append(Append(<<>>, Finished(t, m)),
                                        Frame(AnswerTopic[t], out'[1], hs))
    BY <1>7 DEF Answering
  <2>2. QED
    BY <2>1, <1>4, <1>5 DEF Finished
<1>8. ~HandlerWaits(calls')
  BY <1>2, <1>6, <1>7
<1>9. QED
  BY <1>8, SettledAfter DEF AtRest

\* Nothing of the gateway has moved.
LEMMA StutterAfter ==
    ASSUME Settled, Settled', UNCHANGED vars
    PROVE  UNCHANGED Atomic!vars
BY DEF Settled, TransfersSettled, PushesSettled, vars, uploadVars, pushVars,
       Atomic!vars, Atomic!uploadVars, Atomic!pushVars

LEMMA StutterWaiting ==
    ASSUME Moves, HandlerWaits(calls'), UNCHANGED connected
    PROVE  settled' = settled /\ UNCHANGED Atomic!vars
BY DEF Moves, Atomic!vars, Atomic!uploadVars, Atomic!pushVars

\* A handler publishes: the platform will be called.
Sends(sent, m) == out' = Append(sent, m)

WillCall(stack, topic, m) ==
    calls' = Append(stack, Frame(topic, m, <<"platform">>))

Records(topic, m) ==
    history' = Append(history, [topic |-> topic, payload |-> m])

LEMMA HandlerPublishes ==
    ASSUME Wired, NEW st \in Beneath, NEW f, f.call # "publish", NEW m,
           NEW sent, m.type \in Outbound,
           GatewayPublishes(m, sent, Append(st, f))
    PROVE  /\ Sends(sent, m) /\ HandlerWaits(calls')
           /\ WillCall(Append(st, f), m.type, m) /\ Records(m.type, m)
<1>1. IsStack(Append(st, f)) /\ HandlerWaits(Append(st, f))
  BY BeneathStacks, PushPop
<1>2. PublishCall(m.type, m) = Frame(m.type, m, <<"platform">>)
  BY Published1
<1>3. /\ out' = Append(sent, m)
      /\ calls' = Append(Append(st, f), Frame(m.type, m, <<"platform">>))
      /\ history' = Append(history, [topic |-> m.type, payload |-> m])
  BY <1>2 DEF GatewayPublishes, BusPublish
<1>4. HandlerWaits(calls')
  BY <1>1, <1>3, PushPop
<1>5. QED
  BY <1>3, <1>4 DEF Sends, WillCall, Records

LEMMA BriefStarts ==
    ASSUME Wired, NEW st \in Beneath, NEW f, f.call # "publish",
           NEW c, NEW error, NEW size, NEW sent,
           GatewayPublishes(Brief(c, error, size), sent, Append(st, f))
    PROVE  /\ BriefCalls(f, Brief(c, error, size))'
           /\ HandlerWaits(calls') /\ Sends(sent, Brief(c, error, size))
<1> DEFINE b == Brief(c, error, size)
<1>1. b.type = "brief" /\ b.type \in Outbound
  BY DEF Brief, Outbound
<1>2. GatewayPublishes(b, sent, Append(st, f))
  OBVIOUS
<1> HIDE DEF b
<1>3. /\ Sends(sent, b) /\ HandlerWaits(calls')
      /\ WillCall(Append(st, f), "brief", b)
  BY <1>1, <1>2, HandlerPublishes
<1>4. BriefCalls(f, b)'
  BY <1>3 DEF BriefCalls, WillCall
<1>5. QED
  BY <1>3, <1>4 DEF b

\* publishBriefFailure, as far as its publishBrief.
LEMMA RefusalStarts ==
    ASSUME Wired, Settled, Moves, NEW st \in Beneath,
           NEW c \in CmdIds,
           NEW error \in RefusalErrors \cup {"BAD_FRAME", "INVALID_START_BYTE"},
           NEW T, StartRefusal(c, error, T, st), UNCHANGED pushVars,
           \/ c = 0 /\ error = "BAD_FRAME" /\ T = timers
           \/ \E m \in SummonRequest :
                /\ m.cmdId = c /\ T = Arm(timers, c)
                /\ \/ error \in RefusalErrors /\ ((error = "BUSY") <=> Busy(c))
                   \/ /\ error = "INVALID_START_BYTE" /\ ~Busy(c)
                      /\ \E size \in 0..MaxFileSize : m.startByte - 1 > size
    PROVE  Refusing' /\ uploads' = uploads /\ HandlerWaits(calls')
<1> DEFINE f == [call |-> "refusing", cmdId |-> c]
           b == Brief(c, error, 0)
<1>1. f.call # "publish"
  OBVIOUS
<1>2. /\ GatewayPublishes(b, <<>>, Append(st, f)) /\ timers' = T
      /\ UNCHANGED <<uploads, readHandles, pushes, writeHandles, disk>>
  BY DEF StartRefusal, uploadVars, pushVars
<1> HIDE DEF f
<1>3. BriefCalls(f, b)' /\ HandlerWaits(calls') /\ Sends(<<>>, b)
  BY <1>1, <1>2, BriefStarts
<1>4. settled' = settled
  BY <1>3 DEF Moves
<1>5. TransfersSettled'
  BY <1>2, <1>4 DEF Settled, TransfersSettled, PushesSettled
<1>6. settled.timers = timers
  BY DEF Settled
<1>7. (Busy(c) <=> Busy(c)') /\ settled'.timers = timers
  BY <1>4, <1>6 DEF Busy
<1>8. RefusalDue(c, error)'
  BY <1>2, <1>7 DEF RefusalDue
<1>9. out' = <<b>>
  BY <1>3 DEF Sends
<1>10. QED
  BY <1>2, <1>3, <1>5, <1>8, <1>9 DEF Refusing, f, b

\* onSummon, as far as its publishBrief.
LEMMA SummonStarts ==
    ASSUME Wired, Settled, Moves, NEW st \in Beneath,
           NEW m \in SummonRequest, StartSummon(m, st), UNCHANGED pushVars
    PROVE  /\ Refusing' \/ Briefing'
           /\ uploads' = uploads /\ HandlerWaits(calls')
<1>1. m.cmdId \in CmdIds /\ SummonTimer(m.cmdId) = Arm(timers, m.cmdId)
  BY DEF SummonRequest, SummonTimer
<1> DEFINE busy == SummonBusy \/ HasActiveSessionOtherThan(m.cmdId)
<1>2. busy <=> Busy(m.cmdId)
  BY DEF Busy, SummonBusy, HasActiveSession, HasActiveSessionOtherThan, Settled,
         TransfersSettled, PushesSettled
<1>3. ASSUME NEW error \in RefusalErrors, (error = "BUSY") <=> busy,
             StartRefusal(m.cmdId, error, SummonTimer(m.cmdId), st)
      PROVE  Refusing' /\ uploads' = uploads /\ HandlerWaits(calls')
  BY <1>1, <1>2, <1>3, RefusalStarts
<1>4. ASSUME NEW size \in 0..MaxFileSize, ~busy, m.startByte - 1 > size,
             StartRefusal(m.cmdId, "INVALID_START_BYTE",
                          SummonTimer(m.cmdId), st)
      PROVE  Refusing' /\ uploads' = uploads /\ HandlerWaits(calls')
  BY <1>1, <1>2, <1>4, RefusalStarts
<1>5. ASSUME NEW size \in 0..MaxFileSize, ~busy, ~(m.startByte - 1 > size),
             timers' = SummonTimer(m.cmdId), UNCHANGED uploadVars,
             GatewayPublishes(Brief(m.cmdId, "NONE", size), <<>>,
                Append(st, [call |-> "briefed", summon |-> m, size |-> size]))
      PROVE  Briefing' /\ uploads' = uploads /\ HandlerWaits(calls')
  <2> DEFINE f == [call |-> "briefed", summon |-> m, size |-> size]
             b == Brief(m.cmdId, "NONE", size)
  <2>1. f.call # "publish"
    OBVIOUS
  <2>2. GatewayPublishes(b, <<>>, Append(st, f))
    BY <1>5
  <2> HIDE DEF f
  <2>3. BriefCalls(f, b)' /\ HandlerWaits(calls') /\ Sends(<<>>, b)
    BY <2>1, <2>2, BriefStarts
  <2>4. settled' = settled
    BY <2>3 DEF Moves
  <2>5. TransfersSettled' /\ uploads' = uploads
    BY <1>5, <2>4 DEF Settled, TransfersSettled, PushesSettled, uploadVars,
                      pushVars
  <2>6. timers' = Arm(settled'.timers, m.cmdId)
    BY <1>1, <1>5, <2>4 DEF Settled
  <2>7. ~Busy(m.cmdId)'
    BY <1>2, <1>5, <2>4 DEF Busy
  <2>8. out' = <<b>>
    BY <2>3 DEF Sends
  <2>9. QED
    BY <1>5, <2>3, <2>5, <2>6, <2>7, <2>8 DEF Briefing, f, b
<1>6. QED
  BY <1>3, <1>4, <1>5 DEF StartSummon, RefusalErrors

\* sendNextContentSegment, as far as its publishContent.
LEMMA SegmentStarts ==
    ASSUME Wired, Moves, PushesSettled, settled.uploads \subseteq UploadSession,
           NEW st \in Beneath, NEW s \in UploadSession, NEW h, NEW n, NEW sent,
           h \in readHandles', uploads' = Put(settled.uploads, s),
           UNCHANGED pushVars, s.awaitingConfirmSegNo = 0, h.cmdId = s.cmdId,
           s.nextFileOffset < s.fileSize,
           n \in 1..SmallerOf(ChunkSize, s.fileSize - s.nextFileOffset),
           GatewayPublishes(NextContent(s, h, n), sent,
               Append(st, [call |-> "sending", session |-> Awaiting(s, n)])),
           settled' = settled /\ Sends(sent, NextContent(s, h, n)) =>
               \/ SummonSends(s, NextContent(s, h, n))'
               \/ ConfirmSends(s, NextContent(s, h, n))'
    PROVE  /\ Sending' /\ HandlerWaits(calls')
           /\ uploads' \subseteq UploadSession
<1> DEFINE f == [call |-> "sending", session |-> Awaiting(s, n)]
           c == NextContent(s, h, n)
<1>1. c.type = "content" /\ c.type \in Outbound
  BY DEF NextContent, Content, Outbound
<1>2. f.call # "publish" /\ GatewayPublishes(c, sent, Append(st, f))
  OBVIOUS
<1>3. n \in 1..MaxFileSize
  <2>1. /\ s.fileSize \in 0..MaxFileSize /\ s.nextFileOffset \in 0..MaxFileSize
        /\ MaxFileSize \in Nat /\ ChunkSize \in Nat
    BY UploadAssumption DEF UploadSession
  <2>2. QED
    BY <2>1 DEF SmallerOf
<1> HIDE DEF f, c
<1>4. /\ Sends(sent, c) /\ HandlerWaits(calls')
      /\ WillCall(Append(st, f), "content", c)
  BY <1>1, <1>2, HandlerPublishes
<1>5. SegmentCalls(f, c)'
  BY <1>4 DEF SegmentCalls, WillCall
<1>6. settled' = settled
  BY <1>4 DEF Moves
<1>7. PushesSettled'
  BY <1>6 DEF PushesSettled, pushVars
<1>8. SummonSends(s, c)' \/ ConfirmSends(s, c)'
  BY <1>4, <1>6 DEF c
<1>9. Segment(s, h, n)'
  BY <1>6, <1>7, <1>8 DEF Segment, c
<1>10. Sending'
  BY <1>3, <1>5, <1>9 DEF Sending, f, c
<1>11. uploads' \subseteq UploadSession
  BY DEF Put, Without
<1>12. QED
  BY <1>4, <1>10, <1>11

LEMMA ClosesSettled ==
    ASSUME Settled', NEW c, NEW S, NEW H, NEW T, CloseTransfer(c, S, H, T)
    PROVE  Atomic!CloseTransfer(c, S, H, T)
BY SameTables DEF Settled, TransfersSettled, CloseTransfer, Atomic!CloseTransfer

LEMMA NewUploadSession ==
    ASSUME NEW m \in SummonRequest, NEW size \in 0..MaxFileSize,
           ~(m.startByte - 1 > size)
    PROVE  NewUpload(m, size) \in UploadSession
<1>1. /\ m.cmdId \in CmdIds /\ m.file \in Files
      /\ m.startByte \in 1..(MaxFileSize + 2)
  BY DEF SummonRequest
<1>2. m.startByte - 1 \in 0..MaxFileSize
  BY <1>1, UploadAssumption
<1>3. 1 \in 0..(SegMod - 1) /\ 0 \in 0..(SegMod - 1)
  BY SegModAssumption
<1>4. QED
  BY <1>1, <1>2, <1>3 DEF NewUpload, UploadSession, UploadStates

LEMMA ConfirmedSession ==
    ASSUME NEW q \in UploadSession
    PROVE  /\ Confirmed(q) \in UploadSession /\ Confirmed(q).cmdId = q.cmdId
           /\ Confirmed(q).awaitingConfirmSegNo = 0
<1>1. 0 \in 0..(SegMod - 1)
  BY SegModAssumption
<1>2. QED
  BY <1>1 DEF Confirmed, UploadSession, UploadStates

\* onSummon, from its publishBrief on.
LEMMA BriefResumes ==
    ASSUME Wired, Moves, TransfersSettled, uploads \subseteq UploadSession,
           NEW st \in Beneath,
           NEW m \in SummonRequest, NEW size \in 0..MaxFileSize,
           timers = Arm(settled.timers, m.cmdId),
           ~Busy(m.cmdId), ~(m.startByte - 1 > size),
           out = <<Brief(m.cmdId, "NONE", size)>>,
           AfterBrief(m, size, st), UNCHANGED <<pushVars, connected>>
    PROVE  /\ uploads' \subseteq UploadSession
           /\ AtRest' \/ Sending'
           /\ AtomicStep
<1> DEFINE s == NewUpload(m, size)
           S == Put(settled.uploads, s)
           H == Emplace(settled.readHandles,
                        [cmdId |-> m.cmdId, file |-> m.file])
<1>1. /\ s \in UploadSession /\ s.cmdId = m.cmdId /\ s.awaitingConfirmSegNo = 0
      /\ S \subseteq UploadSession /\ settled.uploads \subseteq UploadSession
  BY NewUploadSession DEF NewUpload, Put, Without, TransfersSettled
<1>2. /\ S = Put(uploads, s)
      /\ H = Emplace(readHandles, [cmdId |-> m.cmdId, file |-> m.file])
  BY DEF TransfersSettled
<1>3. \/ CloseTransfer(m.cmdId, S, H, timers) /\ Return(st) /\ out' = out
      \/ StartSegment(s, S, H, timers, out, st)
  BY <1>2 DEF AfterBrief, NewUpload
<1>4. ASSUME CloseTransfer(m.cmdId, S, H, timers), Return(st), out' = out
      PROVE  uploads' \subseteq UploadSession /\ AtRest' /\ AtomicStep
  <2>1. AtRest' /\ Settled'
    BY <1>4, RestAfter DEF Return, AtRest
  <2>2. uploads' \subseteq UploadSession
    BY <1>1, <1>4 DEF CloseTransfer, Without
  <2>3. Atomic!CloseTransfer(m.cmdId, S, H, Arm(settled.timers, m.cmdId))
    BY <1>4, <2>1, ClosesSettled
  <2>4. settled'.out = <<Brief(m.cmdId, "NONE", size)>>
    BY <1>4, <2>1 DEF Settled
  <2>5. PushesKept
    BY <2>1 DEF PushesKept, Settled, TransfersSettled, PushesSettled, pushVars,
                Wired
  <2>6. Atomic!Summon
    BY <2>3, <2>4, <2>5, AtomicUploadEnds
  <2>7. QED
    BY <2>1, <2>2, <2>6 DEF AtomicStep, Atomic!Next
<1>5. ASSUME NEW h \in H, h.cmdId = s.cmdId, s.nextFileOffset < s.fileSize,
             NEW n \in 1..SmallerOf(ChunkSize, s.fileSize - s.nextFileOffset),
             GatewayPublishes(NextContent(s, h, n), out,
                Append(st, [call |-> "sending", session |-> Awaiting(s, n)])),
             uploads' = S, readHandles' = H, timers' = timers
      PROVE  uploads' \subseteq UploadSession /\ Sending' /\ AtomicStep
  <2>1. ASSUME settled' = settled, Sends(out, NextContent(s, h, n))
        PROVE  SummonSends(s, NextContent(s, h, n))'
    <3>1. out' = Append(<<Brief(m.cmdId, "NONE", size)>>, NextContent(s, h, n))
      BY <2>1 DEF Sends
    <3>2. ~Busy(m.cmdId)'
      BY <2>1 DEF Busy
    <3>3. timers' = Arm(settled'.timers, m.cmdId)
      BY <1>5, <2>1
    <3>4. readHandles' = Emplace(settled'.readHandles,
                                 [cmdId |-> m.cmdId, file |-> m.file])
      BY <1>5, <2>1
    <3>5. QED
      BY <3>1, <3>2, <3>3, <3>4 DEF SummonSends
  <2>2. PushesSettled /\ UNCHANGED pushVars
    BY DEF TransfersSettled
  <2>3. /\ Sending' /\ HandlerWaits(calls')
        /\ uploads' \subseteq UploadSession
    BY <1>1, <1>5, <2>1, <2>2, SegmentStarts
  <2>4. QED
    BY <2>3, StutterWaiting DEF AtomicStep
<1>6. QED
  <2>1. ASSUME StartSegment(s, S, H, timers, out, st)
        PROVE  \/ /\ CloseTransfer(s.cmdId, S, H, timers)
                  /\ out' = out /\ Return(st)
               \/ \E h \in H :
                  /\ h.cmdId = s.cmdId
                  /\ s.nextFileOffset < s.fileSize
                  /\ \E n \in 1..SmallerOf(ChunkSize,
                                          s.fileSize - s.nextFileOffset) :
                       GatewayPublishes(NextContent(s, h, n), out,
                            Append(st, [call |-> "sending",
                                        session |-> Awaiting(s, n)]))
                  /\ uploads' = S /\ readHandles' = H /\ timers' = timers
    BY <2>1 DEF StartSegment
  <2>2. QED
    BY <1>1, <1>3, <1>4, <1>5, <2>1

\* onContentConfirm when it is called directly.
LEMMA ConfirmStarts ==
    ASSUME Wired, Moves, Settled, uploads \subseteq UploadSession,
           NEW m \in ContentConfirm, StartConfirm(m, <<>>, <<>>),
           UNCHANGED <<pushVars, connected>>
    PROVE  /\ uploads' \subseteq UploadSession
           /\ AtRest' \/ Sending'
           /\ AtomicStep
<1>1. <<>> \in Beneath
  BY DEF Beneath
<1>2. ASSUME calls' = <<>>
      PROVE  AtRest' /\ Settled' /\ PushesKept
  <2>1. AtRest' /\ Settled'
    BY <1>1, <1>2, RestAfter DEF AtRest
  <2>2. QED
    BY <2>1 DEF PushesKept, Settled, TransfersSettled, PushesSettled, pushVars,
                Wired
<1>3. ASSUME \A q \in uploads : ~WaitsFor(q, m), out' = <<>>, Return(<<>>),
             UNCHANGED <<uploadVars, timers>>
      PROVE  uploads' \subseteq UploadSession /\ AtRest' /\ AtomicStep
  <2>1. AtRest' /\ Settled' /\ PushesKept
    BY <1>2, <1>3 DEF Return
  <2>2. /\ settled'.uploads = settled.uploads /\ settled.uploads = uploads
        /\ settled'.readHandles = settled.readHandles
        /\ settled'.timers = settled.timers /\ settled'.out = <<>>
    BY <1>3, <2>1 DEF Settled, TransfersSettled, uploadVars
  <2>3. Atomic!ConfirmContent
    BY <1>3, <2>1, <2>2, AtomicIgnores
  <2>4. QED
    BY <1>3, <2>1, <2>3 DEF AtomicStep, Atomic!Next, uploadVars
<1>4. ASSUME NEW q \in uploads, WaitsFor(q, m),
             \/ IF \/ ~Confirms(m, q)
                   \/ Confirmed(q).nextFileOffset >= Confirmed(q).fileSize
                THEN /\ CloseTransfer(m.cmdId, Put(uploads, Confirmed(q)),
                                      readHandles, Reset(timers, q.cmdId))
                     /\ out' = <<>> /\ Return(<<>>)
                ELSE StartSegment(Confirmed(q), Put(uploads, Confirmed(q)),
                                  readHandles, Reset(timers, q.cmdId),
                                  <<>>, <<>>)
      PROVE  /\ uploads' \subseteq UploadSession
             /\ AtRest' \/ Sending'
             /\ AtomicStep
  <2> DEFINE s == Confirmed(q)
             S == Put(settled.uploads, s)
             T == Reset(settled.timers, q.cmdId)
  <2>1. /\ s \in UploadSession /\ s.cmdId = q.cmdId
        /\ s.awaitingConfirmSegNo = 0 /\ q.cmdId = m.cmdId
    BY <1>4, ConfirmedSession DEF WaitsFor
  <2>2. /\ settled.uploads = uploads /\ settled.readHandles = readHandles
        /\ settled.timers = timers
    BY DEF Settled, TransfersSettled
  <2>3. S \subseteq UploadSession /\ settled.uploads \subseteq UploadSession
    BY <2>1, <2>2 DEF Put, Without
  <2>4. ASSUME CloseTransfer(q.cmdId, S, settled.readHandles, T),
               out' = <<>>, Return(<<>>)
        PROVE  uploads' \subseteq UploadSession /\ AtRest' /\ AtomicStep
    <3>1. AtRest' /\ Settled' /\ PushesKept
      BY <1>2, <2>4 DEF Return
    <3>2. uploads' \subseteq UploadSession
      BY <2>3, <2>4 DEF CloseTransfer, Without
    <3>3. Atomic!CloseTransfer(q.cmdId, S, settled.readHandles, T)
      BY <2>4, <3>1, ClosesSettled
    <3>4. settled'.out = <<>>
      BY <2>4, <3>1 DEF Settled
    <3>5. q \in settled.uploads
      BY <2>2
    <3>6. Atomic!ConfirmContent
      BY <1>4, <2>1, <3>1, <3>3, <3>4, <3>5, AtomicConfirmEnds
    <3>7. QED
      BY <3>1, <3>2, <3>6 DEF AtomicStep, Atomic!Next
  <2>5. ASSUME Confirms(m, q),
               NEW h \in readHandles, h.cmdId = s.cmdId,
               s.nextFileOffset < s.fileSize,
               NEW n \in 1..SmallerOf(ChunkSize, s.fileSize - s.nextFileOffset),
               GatewayPublishes(NextContent(s, h, n), <<>>,
                  Append(<<>>, [call |-> "sending",
                                session |-> Awaiting(s, n)])),
               uploads' = S, readHandles' = readHandles, timers' = T
        PROVE  uploads' \subseteq UploadSession /\ Sending' /\ AtomicStep
    <3>1. ASSUME settled' = settled, Sends(<<>>, NextContent(s, h, n))
          PROVE  ConfirmSends(s, NextContent(s, h, n))'
      <4>1. out' = Append(<<>>, NextContent(s, h, n))
        BY <3>1 DEF Sends
      <4>2. q \in settled'.uploads
        BY <2>2, <3>1
      <4>3. timers' = Reset(settled'.timers, q.cmdId)
        BY <2>5, <3>1
      <4>4. readHandles' = settled'.readHandles
        BY <2>2, <2>5, <3>1
      <4>5. QED
        BY <1>4, <2>5, <4>1, <4>2, <4>3, <4>4 DEF ConfirmSends
    <3>2. PushesSettled /\ UNCHANGED pushVars
      BY DEF Settled, TransfersSettled
    <3>3. h \in readHandles'
      BY <2>5
    <3>4. /\ Sending' /\ HandlerWaits(calls')
          /\ uploads' \subseteq UploadSession
      BY <1>1, <2>1, <2>3, <2>5, <3>1, <3>2, <3>3, SegmentStarts
    <3>5. QED
      BY <3>4, StutterWaiting DEF AtomicStep
  <2>6. CASE \/ ~Confirms(m, q)
             \/ s.nextFileOffset >= s.fileSize
    BY <1>4, <2>1, <2>2, <2>4, <2>6
  <2>7. CASE ~(\/ ~Confirms(m, q)
               \/ s.nextFileOffset >= s.fileSize)
    <3>1. StartSegment(s, S, readHandles, T, <<>>, <<>>)
      BY <1>4, <2>2, <2>7
    <3>2. \/ /\ CloseTransfer(s.cmdId, S, readHandles, T)
             /\ out' = <<>> /\ Return(<<>>)
          \/ \E h \in readHandles :
              /\ h.cmdId = s.cmdId
              /\ s.nextFileOffset < s.fileSize
              /\ \E n \in 1..SmallerOf(ChunkSize,
                                      s.fileSize - s.nextFileOffset) :
                   GatewayPublishes(NextContent(s, h, n), <<>>,
                        Append(<<>>, [call |-> "sending",
                                      session |-> Awaiting(s, n)]))
              /\ uploads' = S /\ readHandles' = readHandles /\ timers' = T
      BY <3>1 DEF StartSegment
    <3>3. QED
      BY <2>1, <2>2, <2>4, <2>5, <2>7, <3>2
  <2>8. QED
    BY <2>6, <2>7
<1>5. QED
  BY <1>3, <1>4 DEF StartConfirm

-----------------------------------------------------------------------------
(* Each phase is left for one of the phases, by a step of the gateway on a *)
(* broker or none.                                                         *)

\* The part of the invariant that the phases share.
Kept == Wired /\ uploads \subseteq UploadSession

LEMMA WiredKept ==
    ASSUME Wired, UNCHANGED <<connected, subscribers, started>>
    PROVE  Wired'
BY DEF Wired

\* A call that has returned to nothing of the gateway.
LEMMA RestReturns ==
    ASSUME Kept, AtRest, Moves, UNCHANGED <<vars, subscribers, started>>,
           calls' \in Beneath \/ Asking' \/ Answering'
    PROVE  Inv' /\ AtomicStep
<1>1. AtRest' /\ Settled'
  BY RestAfter DEF AtRest
<1>2. UNCHANGED Atomic!vars
  BY <1>1, StutterAfter DEF AtRest
<1>3. Wired' /\ uploads' = uploads
  BY WiredKept DEF vars, uploadVars, Kept
<1>4. QED
  BY <1>1, <1>2, <1>3 DEF Inv, AtomicStep, Kept

\* A handler of the push side runs, and its answer is published.
LEMMA PushHandled ==
    ASSUME Kept, AtRest, Moves, NEW t \in {"pushBrief", "pushContent"},
           NEW m \in Requests(t),
           t = "pushContent" /\ m # Undecodable => WithinBound(m),
           ToGateway(t, m, Append(<<>>, Finished(t, m))),
           UNCHANGED <<connected, subscribers, started>>
    PROVE  Inv' /\ AtomicStep
<1>1. /\ \/ m = Undecodable /\ OnUndecodablePush
         \/ /\ m # Undecodable
            /\ \/ t = "pushBrief" /\ OnPushBrief(m, PushBusy)
               \/ t = "pushContent" /\ OnPushContent(m)
      /\ BusPublish(Append(<<>>, Finished(t, m)), AnswerTopic[t], out'[1])
      /\ UNCHANGED uploadVars
  BY DEF ToGateway
<1>2. AnswerTopic[t] \in Outbound
  BY DEF AnswerTopic, Outbound
<1> DEFINE a == AnswerTopic[t]
<1>3. PublishCall(a, out'[1]) = Frame(a, out'[1], <<"platform">>)
  <2>1. PublishCall(a, out'[1]) = Frame(a, out'[1], subscribers[a])
    BY DEF PublishCall, Frame
  <2>2. subscribers[a] = <<"platform">>
    BY <1>2 DEF Kept, Wired
  <2>3. QED
    BY <2>1, <2>2
<1>4. calls' = Append(Append(<<>>, Finished(t, m)),
                      Frame(a, out'[1], <<"platform">>))
  BY <1>1, <1>3 DEF BusPublish
<1>5. Answering'
  BY <1>4 DEF Answering
<1>6. AtRest' /\ Settled'
  BY <1>5, RestAfter DEF AtRest
<1>7. \/ OnUndecodablePush
      \/ \E q \in PushBrief : OnPushBrief(q, PushBusy)
      \/ \E q \in PushContent : WithinBound(q) /\ OnPushContent(q)
  BY <1>1 DEF Requests
<1>8. Atomic!Next
  BY <1>1, <1>6, <1>7, AtomicAnswer DEF AtRest, Kept, Wired
<1>9. QED
  BY <1>1, <1>6, <1>8, WiredKept DEF Inv, AtomicStep, Kept, uploadVars

LEMMA RestProceeds ==
    ASSUME Kept, AtRest, Moves, Proceed
    PROVE  Inv' /\ AtomicStep
<1>1. IsStack(<<>>)
  BY BeneathStacks DEF Beneath
<1>2. ASSUME calls \in Beneath
      PROVE  Inv' /\ AtomicStep
  <2>1. calls # <<>>
    BY DEF Proceed, Deliver, PublishReturns, Resume
  <2>2. PICK t, m : calls = Append(<<>>, Finished(t, m))
    BY <1>2, <2>1 DEF Beneath
  <2>3. /\ calls' = <<>>
        /\ UNCHANGED <<vars, history, subscribers, received, started>>
    BY <1>1, <2>2, PublishReturned
  <2>4. QED
    BY <2>3, RestReturns DEF Beneath
<1>3. ASSUME Asking
      PROVE  Inv' /\ AtomicStep
  <2>1. PICK t \in Asked : \E m \in Requests(t) :
            /\ calls = Append(<<>>, Frame(t, m, <<"gateway">>))
            /\ t = "pushContent" /\ m # Undecodable => WithinBound(m)
    BY <1>3 DEF Asking
  <2>2. PICK m \in Requests(t) :
            /\ calls = Append(<<>>, Frame(t, m, <<"gateway">>))
            /\ t = "pushContent" /\ m # Undecodable => WithinBound(m)
    BY <2>1
  <2> DEFINE st == Append(<<>>, Finished(t, m))
  <2>3. /\ ToGateway(t, m, st)
        /\ UNCHANGED <<connected, subscribers, started>>
    BY <1>1, <2>2, GatewayCalled
  <2>4. CASE t \in {"pushBrief", "pushContent"}
    BY <2>2, <2>3, <2>4, PushHandled
  <2>5. CASE t = "summon"
    <3>1. /\ IF m = Undecodable THEN StartRefusal(0, "BAD_FRAME", timers, st)
             ELSE StartSummon(m, st)
          /\ UNCHANGED pushVars
      BY <2>3, <2>5 DEF ToGateway, AnswerTopic
    <3>2. st \in Beneath
      BY <2>2 DEF Beneath
    <3>3. (Refusing' \/ Briefing') /\ uploads' = uploads /\ HandlerWaits(calls')
      <4>1. CASE m = Undecodable
        <5>1. 0 \in CmdIds
          BY CmdIdsAssumption
        <5>2. StartRefusal(0, "BAD_FRAME", timers, st)
          BY <3>1, <4>1
        <5>3. QED
          BY <3>1, <3>2, <5>1, <5>2, RefusalStarts DEF AtRest, Kept
      <4>2. CASE m # Undecodable
        <5>1. m \in SummonRequest /\ StartSummon(m, st)
          BY <2>2, <2>5, <3>1, <4>2 DEF Requests
        <5>2. QED
          BY <3>1, <3>2, <5>1, SummonStarts DEF AtRest, Kept
      <4>3. QED
        BY <4>1, <4>2
    <3>4. UNCHANGED Atomic!vars
      BY <2>3, <3>3, StutterWaiting
    <3>5. QED
      BY <2>3, <3>3, <3>4, WiredKept DEF Inv, Kept, AtomicStep
  <2>6. QED
    BY <2>4, <2>5 DEF Asked
<1>4. ASSUME Answering
      PROVE  Inv' /\ AtomicStep
  <2>1. PICK t \in {"pushBrief", "pushContent"} :
            \E m \in Requests(t), handlers \in {<<>>, <<"platform">>} :
                calls = Append(Append(<<>>, Finished(t, m)),
                               Frame(AnswerTopic[t], out[1], handlers))
    BY <1>4 DEF Answering
  <2>2. PICK m \in Requests(t), handlers \in {<<>>, <<"platform">>} :
            calls = Append(Append(<<>>, Finished(t, m)),
                           Frame(AnswerTopic[t], out[1], handlers))
    BY <2>1
  <2> DEFINE st == Append(<<>>, Finished(t, m))
             a == AnswerTopic[t]
  <2>3. IsStack(st) /\ st \in Beneath
    <3>1. t \in Asked
      BY DEF Asked
    <3>2. st \in Beneath
      BY <3>1 DEF Beneath
    <3>3. QED
      BY <3>2, BeneathStacks
  <2>4. CASE handlers = <<>>
    <3>1. calls = Append(st, Finished(a, out[1]))
      BY <2>2, <2>4 DEF Finished
    <3>2. /\ calls' = st
          /\ UNCHANGED <<vars, history, subscribers, received, started>>
      BY <2>3, <3>1, PublishReturned
    <3>3. QED
      BY <2>3, <3>2, RestReturns
  <2>5. CASE handlers = <<"platform">>
    <3>1. /\ ToPlatform(a, out[1], Append(st, Finished(a, out[1])))
          /\ UNCHANGED <<connected, subscribers, started>>
      BY <2>2, <2>3, <2>5, PlatformCalled
    <3>2. a # "content"
      BY DEF AnswerTopic
    <3>3. /\ calls' = Append(st, Finished(a, out[1]))
          /\ UNCHANGED <<uploadVars, pushVars, timers, out>>
      BY <3>1, <3>2 DEF ToPlatform, Return
    <3>4. Answering'
      BY <3>3 DEF Answering, Finished
    <3>5. QED
      BY <3>1, <3>3, <3>4, RestReturns DEF vars
  <2>6. QED
    BY <2>2, <2>4, <2>5
<1>5. QED
  BY <1>2, <1>3, <1>4 DEF AtRest

\* The brief is delivered, or its publish returns, or the handler goes on.
LEMMA BriefDelivered ==
    ASSUME Proceed, NEW f, f.call # "publish", NEW b, BriefCalls(f, b)
    PROVE  \/ \E st \in Beneath : calls = Append(st, f)
           \/ /\ BriefCalls(f, b)' /\ HandlerWaits(calls')
              /\ UNCHANGED <<vars, subscribers, started>>
<1>1. ASSUME NEW st \in Beneath,
             calls = Append(Append(st, f), Frame("brief", b, <<>>))
      PROVE  /\ BriefCalls(f, b)' /\ HandlerWaits(calls')
             /\ UNCHANGED <<vars, subscribers, started>>
  <2>1. IsStack(Append(st, f)) /\ HandlerWaits(Append(st, f))
    BY BeneathStacks, PushPop
  <2>2. /\ calls' = Append(st, f)
        /\ UNCHANGED <<vars, history, subscribers, received, started>>
    BY <1>1, <2>1, PublishReturned DEF Finished
  <2>3. QED
    BY <2>1, <2>2 DEF BriefCalls
<1>2. ASSUME NEW st \in Beneath,
             calls = Append(Append(st, f), Frame("brief", b, <<"platform">>))
      PROVE  /\ BriefCalls(f, b)' /\ HandlerWaits(calls')
             /\ UNCHANGED <<vars, subscribers, started>>
  <2> DEFINE a == Append(st, f)
  <2>1. IsStack(a) /\ HandlerWaits(a)
    BY BeneathStacks, PushPop
  <2>2. /\ ToPlatform("brief", b, Append(a, Finished("brief", b)))
        /\ UNCHANGED <<connected, subscribers, started>>
    BY <1>2, <2>1, PlatformCalled
  <2>3. /\ calls' = Append(a, Frame("brief", b, <<>>))
        /\ UNCHANGED <<uploadVars, pushVars, timers, out>>
    BY <2>2 DEF ToPlatform, Return, Finished
  <2>4. HandlerWaits(calls')
    BY <2>1, <2>3, PushPop
  <2>5. BriefCalls(f, b)'
    BY <2>3 DEF BriefCalls
  <2>6. QED
    BY <2>2, <2>3, <2>4, <2>5 DEF vars
<1>3. QED
  BY <1>1, <1>2 DEF BriefCalls

LEMMA RefusalProceeds ==
    ASSUME Kept, Refusing, Moves, Proceed
    PROVE  Inv' /\ AtomicStep
<1>1. PICK c \in CmdIds,
           error \in RefusalErrors \cup {"BAD_FRAME", "INVALID_START_BYTE"} :
        /\ TransfersSettled /\ RefusalDue(c, error)
        /\ out = <<Brief(c, error, 0)>>
        /\ BriefCalls([call |-> "refusing", cmdId |-> c], Brief(c, error, 0))
  BY DEF Refusing
<1> DEFINE f == [call |-> "refusing", cmdId |-> c]
           b == Brief(c, error, 0)
<1>2. f.call = "refusing" /\ f.cmdId = c /\ BriefCalls(f, b)
  BY <1>1
<1> HIDE DEF f
<1>3. ASSUME NEW st \in Beneath, calls = Append(st, f)
      PROVE  Inv' /\ AtomicStep
  <2>1. /\ CloseTransfer(c, uploads, readHandles, timers) /\ Return(st)
        /\ UNCHANGED <<out, pushVars, connected, subscribers, started>>
    BY <1>2, <1>3, BeneathStacks, HandlerResumed
  <2>2. AtRest' /\ Settled'
    BY <2>1, RestAfter DEF Return, AtRest
  <2>3. Atomic!CloseTransfer(c, settled.uploads, settled.readHandles, timers)
    BY <1>1, <2>1, <2>2, ClosesSettled DEF TransfersSettled
  <2>4. settled'.out = <<b>>
    BY <1>1, <2>1, <2>2 DEF Settled
  <2>5. PushesKept
    BY <1>1, <2>1, <2>2 DEF PushesKept, Settled, TransfersSettled,
       PushesSettled, pushVars, Kept, Wired
  <2>6. Atomic!Summon
    BY <1>1, <2>3, <2>4, <2>5, AtomicRefusal
  <2>7. uploads' \subseteq uploads
    BY <2>1 DEF CloseTransfer, Without
  <2>8. QED
    BY <2>1, <2>2, <2>6, <2>7, WiredKept DEF Inv, Kept, AtomicStep, Atomic!Next
<1>4. ASSUME BriefCalls(f, b)', HandlerWaits(calls'),
             UNCHANGED <<vars, subscribers, started>>
      PROVE  Inv' /\ AtomicStep
  <2>1. settled' = settled /\ UNCHANGED Atomic!vars
    BY <1>4, StutterWaiting DEF vars
  <2>2. UNCHANGED <<uploads, readHandles, pushes, writeHandles, disk, timers,
                    out, connected, subscribers, started>>
    BY <1>4 DEF vars, uploadVars, pushVars
  <2>3. TransfersSettled'
    BY <1>1, <2>1, <2>2 DEF TransfersSettled, PushesSettled
  <2>4. (Busy(c) <=> Busy(c)') /\ RefusalDue(c, error)'
    BY <1>1, <2>1, <2>2 DEF RefusalDue, Busy
  <2>5. out' = <<b>>
    BY <1>1, <2>2
  <2>6. Refusing'
    BY <1>4, <2>3, <2>4, <2>5 DEF Refusing, f
  <2>7. QED
    BY <2>1, <2>2, <2>6, WiredKept DEF Inv, Kept, AtomicStep
<1>5. QED
  BY <1>2, <1>3, <1>4, BriefDelivered

LEMMA BriefProceeds ==
    ASSUME Kept, Briefing, Moves, Proceed
    PROVE  Inv' /\ AtomicStep
<1>1. PICK m \in SummonRequest, size \in 0..MaxFileSize :
        /\ TransfersSettled /\ timers = Arm(settled.timers, m.cmdId)
        /\ ~Busy(m.cmdId) /\ ~(m.startByte - 1 > size)
        /\ out = <<Brief(m.cmdId, "NONE", size)>>
        /\ BriefCalls([call |-> "briefed", summon |-> m, size |-> size],
                      Brief(m.cmdId, "NONE", size))
  BY DEF Briefing
<1> DEFINE f == [call |-> "briefed", summon |-> m, size |-> size]
           b == Brief(m.cmdId, "NONE", size)
<1>2. /\ f.call = "briefed" /\ f.summon = m /\ f.size = size
      /\ BriefCalls(f, b)
  BY <1>1
<1> HIDE DEF f
<1>3. ASSUME NEW st \in Beneath, calls = Append(st, f)
      PROVE  Inv' /\ AtomicStep
  <2>1. /\ AfterBrief(m, size, st)
        /\ UNCHANGED <<pushVars, connected, subscribers, started>>
    BY <1>2, <1>3, BeneathStacks, HandlerResumed
  <2>2. /\ uploads' \subseteq UploadSession /\ (AtRest' \/ Sending')
        /\ AtomicStep
    BY <1>1, <2>1, BriefResumes DEF Kept
  <2>3. QED
    BY <2>1, <2>2, WiredKept DEF Inv, Kept
<1>4. ASSUME BriefCalls(f, b)', HandlerWaits(calls'),
             UNCHANGED <<vars, subscribers, started>>
      PROVE  Inv' /\ AtomicStep
  <2>1. settled' = settled /\ UNCHANGED Atomic!vars
    BY <1>4, StutterWaiting DEF vars
  <2>2. UNCHANGED <<uploads, readHandles, pushes, writeHandles, disk, timers,
                    out, connected, subscribers, started>>
    BY <1>4 DEF vars, uploadVars, pushVars
  <2>3. TransfersSettled'
    BY <1>1, <2>1, <2>2 DEF TransfersSettled, PushesSettled
  <2>4. ~Busy(m.cmdId)'
    BY <1>1, <2>1 DEF Busy
  <2>5. out' = <<b>> /\ timers' = Arm(settled'.timers, m.cmdId)
    BY <1>1, <2>1, <2>2
  <2>6. Briefing'
    BY <1>1, <1>4, <2>3, <2>4, <2>5 DEF Briefing, f
  <2>7. QED
    BY <2>1, <2>2, <2>6, WiredKept DEF Inv, Kept, AtomicStep
<1>5. QED
  BY <1>2, <1>3, <1>4, BriefDelivered

\* The segment is delivered and confirmed, and the confirm is delivered to a
\* gateway that waits for none; or a publish returns, or the handler goes on.
LEMMA SegmentDelivered ==
    ASSUME Wired, Proceed, NEW f, f.call # "publish", NEW c,
           \A q \in uploads : ~WaitsFor(q, AutoConfirm(c)),
           SegmentCalls(f, c)
    PROVE  \/ \E st \in Beneath : calls = Append(st, f)
           \/ /\ SegmentCalls(f, c)' /\ HandlerWaits(calls')
              /\ UNCHANGED <<vars, subscribers, started>>
<1> DEFINE a == AutoConfirm(c)
           Goal == /\ SegmentCalls(f, c)' /\ HandlerWaits(calls')
                   /\ UNCHANGED <<vars, subscribers, started>>
<1>1. ASSUME NEW st \in Beneath
      PROVE  /\ IsStack(Append(st, f)) /\ HandlerWaits(Append(st, f))
             /\ IsStack(Append(Append(st, f), Finished("content", c)))
             /\ HandlerWaits(Append(Append(st, f), Finished("content", c)))
  <2>1. IsStack(Append(st, f)) /\ HandlerWaits(Append(st, f))
    BY BeneathStacks, PushPop
  <2>2. QED
    BY <2>1, PushPop
<1>2. ASSUME NEW st \in Beneath,
             calls = Append(Append(st, f), Frame("content", c, <<>>))
      PROVE  Goal
  <2>1. /\ calls' = Append(st, f)
        /\ UNCHANGED <<vars, history, subscribers, received, started>>
    BY <1>1, <1>2, PublishReturned DEF Finished
  <2>2. QED
    BY <1>1, <2>1 DEF SegmentCalls
<1>3. ASSUME NEW st \in Beneath,
             calls = Append(Append(st, f), Frame("content", c, <<"platform">>))
      PROVE  Goal
  <2> DEFINE low == Append(Append(st, f), Finished("content", c))
  <2>1. /\ ToPlatform("content", c, low)
        /\ UNCHANGED <<connected, subscribers, started>>
    BY <1>1, <1>3, PlatformCalled
  <2>2. /\ calls' = Append(low, PublishCall("contentConfirm", a))
        /\ UNCHANGED <<uploadVars, pushVars, timers, out>>
    BY <2>1 DEF ToPlatform, BusPublish
  <2>3. PICK handlers \in {<<>>, <<"gateway">>} :
            PublishCall("contentConfirm", a)
                = Frame("contentConfirm", a, handlers)
    BY Published1 DEF Inbound, Outbound, Finished
  <2>4. calls' = Append(low, Frame("contentConfirm", a, handlers))
    BY <2>2, <2>3
  <2>5. HandlerWaits(calls')
    BY <1>1, <2>4, PushPop
  <2>6. SegmentCalls(f, c)'
    BY <2>4 DEF SegmentCalls
  <2>7. QED
    BY <2>1, <2>2, <2>5, <2>6 DEF vars
<1>4. ASSUME NEW st \in Beneath,
             calls = Append(Append(Append(st, f), Finished("content", c)),
                            Frame("contentConfirm", a, <<>>))
      PROVE  Goal
  <2>1. /\ calls' = Append(Append(st, f), Frame("content", c, <<>>))
        /\ UNCHANGED <<vars, history, subscribers, received, started>>
    BY <1>1, <1>4, PublishReturned DEF Finished
  <2>2. HandlerWaits(calls')
    BY <1>1, <2>1 DEF Finished
  <2>3. SegmentCalls(f, c)'
    BY <2>1 DEF SegmentCalls
  <2>4. QED
    BY <2>1, <2>2, <2>3
<1>5. ASSUME NEW st \in Beneath,
             calls = Append(Append(Append(st, f), Finished("content", c)),
                            Frame("contentConfirm", a, <<"gateway">>))
      PROVE  Goal
  <2> DEFINE low == Append(Append(st, f), Finished("content", c))
             all == Append(low, Finished("contentConfirm", a))
  <2>1. /\ ToGateway("contentConfirm", a, all)
        /\ UNCHANGED <<connected, subscribers, started>>
    BY <1>1, <1>5, GatewayCalled
  <2>2. StartConfirm(a, out, all) /\ UNCHANGED pushVars
    BY <2>1 DEF ToGateway, AnswerTopic
  <2>3. out' = out /\ calls' = all /\ UNCHANGED <<uploadVars, timers>>
    BY <2>2 DEF StartConfirm, Return
  <2>4. HandlerWaits(calls')
    BY <1>1, <2>3, PushPop
  <2>5. SegmentCalls(f, c)'
    BY <2>3 DEF SegmentCalls, Finished
  <2>6. QED
    BY <2>1, <2>2, <2>3, <2>4, <2>5 DEF vars
<1>6. QED
  BY <1>2, <1>3, <1>4, <1>5 DEF SegmentCalls

\* The session the confirm is for is in the store as it was before its
\* segment, and waits for nothing.
LEMMA NobodyWaits ==
    ASSUME NEW s, NEW h, NEW n, Segment(s, h, n)
    PROVE  \A q \in uploads : ~WaitsFor(q, AutoConfirm(NextContent(s, h, n)))
<1>1. AutoConfirm(NextContent(s, h, n)).cmdId = s.cmdId
  BY DEF AutoConfirm, NextContent, Content
<1>2. \A q \in uploads : q = s \/ q.cmdId # s.cmdId
  BY DEF Segment, Put, Without
<1>3. s.awaitingConfirmSegNo = 0
  BY DEF Segment
<1>4. QED
  BY <1>1, <1>2, <1>3 DEF WaitsFor

LEMMA SegmentProceeds ==
    ASSUME Kept, Sending, Moves, Proceed
    PROVE  Inv' /\ AtomicStep
<1>1. PICK s \in UploadSession, h \in readHandles, n \in 1..MaxFileSize :
        /\ Segment(s, h, n)
        /\ SegmentCalls([call |-> "sending", session |-> Awaiting(s, n)],
                        NextContent(s, h, n))
  BY DEF Sending
<1> DEFINE f == [call |-> "sending", session |-> Awaiting(s, n)]
           c == NextContent(s, h, n)
<1>2. /\ f.call = "sending" /\ f.session = Awaiting(s, n)
      /\ SegmentCalls(f, c)
  BY <1>1
<1> HIDE DEF f
<1>3. ASSUME NEW st \in Beneath, calls = Append(st, f)
      PROVE  Inv' /\ AtomicStep
  <2>1. /\ uploads' = Put(uploads, Awaiting(s, n))
        /\ timers' = Reset(timers, Awaiting(s, n).cmdId)
        /\ Return(st)
        /\ UNCHANGED <<readHandles, out, pushVars, connected, subscribers,
                       started>>
    BY <1>2, <1>3, BeneathStacks, HandlerResumed
  <2>2. Awaiting(s, n) \in UploadSession /\ Awaiting(s, n).cmdId = s.cmdId
    BY <1>1, AwaitingSession DEF Segment
  <2>3. uploads' \subseteq UploadSession
    BY <2>1, <2>2 DEF Kept, Put, Without
  <2>4. AtRest' /\ Settled'
    BY <2>1, RestAfter DEF Return, AtRest
  <2>5. SegmentSettles(s, n)
    BY <2>1, <2>2, <2>4 DEF SegmentSettles, Settled, TransfersSettled
  <2>6. PushesKept
    BY <1>1, <2>1, <2>4 DEF PushesKept, Settled, TransfersSettled,
       PushesSettled, pushVars, Segment, Kept, Wired
  <2>7. CASE SummonSends(s, c)
    <3>1. Atomic!Summon
      BY <1>1, <2>5, <2>6, <2>7, AtomicFirstSegment
    <3>2. QED
      BY <2>1, <2>3, <2>4, <3>1, WiredKept
      DEF Inv, Kept, AtomicStep, Atomic!Next
  <2>8. CASE ConfirmSends(s, c)
    <3>1. s.nextFileOffset \in Nat /\ s.fileSize \in Nat
      BY UploadAssumption DEF UploadSession
    <3>2. Atomic!ConfirmContent
      BY <1>1, <2>5, <2>6, <2>8, <3>1, AtomicNextSegment
    <3>3. QED
      BY <2>1, <2>3, <2>4, <3>2, WiredKept
      DEF Inv, Kept, AtomicStep, Atomic!Next
  <2>9. QED
    BY <1>1, <2>7, <2>8 DEF Segment
<1>4. ASSUME SegmentCalls(f, c)', HandlerWaits(calls'),
             UNCHANGED <<vars, subscribers, started>>
      PROVE  Inv' /\ AtomicStep
  <2>1. settled' = settled /\ UNCHANGED Atomic!vars
    BY <1>4, StutterWaiting DEF vars
  <2>2. UNCHANGED <<uploads, readHandles, pushes, writeHandles, disk, timers,
                    out, connected, subscribers, started>>
    BY <1>4 DEF vars, uploadVars, pushVars
  <2>3. SummonSends(s, c) => SummonSends(s, c)'
    BY <2>1, <2>2 DEF SummonSends, Busy
  <2>4. ConfirmSends(s, c) => ConfirmSends(s, c)'
    BY <2>1, <2>2 DEF ConfirmSends
  <2>5. Segment(s, h, n)'
    BY <1>1, <2>1, <2>2, <2>3, <2>4 DEF Segment, PushesSettled
  <2>6. Sending'
    BY <1>1, <1>4, <2>2, <2>5 DEF Sending, f
  <2>7. QED
    BY <2>1, <2>2, <2>6, WiredKept DEF Inv, Kept, AtomicStep
<1>5. \A q \in uploads : ~WaitsFor(q, AutoConfirm(c))
  BY <1>1, NobodyWaits
<1>6. QED
  BY <1>2, <1>3, <1>4, <1>5, SegmentDelivered DEF Kept

-----------------------------------------------------------------------------
(* The driver, between two calls.                                          *)

LEMMA RestBetweenCalls ==
    ASSUME Inv, calls = <<>>
    PROVE  AtRest /\ Settled
<1>1. ASSUME NEW f, NEW b, f.call # "publish", BriefCalls(f, b)
      PROVE  FALSE
  <2>1. ASSUME NEW st \in Beneath
        PROVE  IsStack(Append(st, f)) /\ Append(st, f) # <<>>
    BY BeneathStacks, PushPop
  <2>2. QED
    BY <1>1, <2>1, PushPop DEF BriefCalls
<1>2. ASSUME NEW f, NEW c, f.call # "publish", SegmentCalls(f, c)
      PROVE  FALSE
  <2>1. ASSUME NEW st \in Beneath
        PROVE  /\ IsStack(Append(st, f)) /\ Append(st, f) # <<>>
               /\ IsStack(Append(Append(st, f), Finished("content", c)))
    BY BeneathStacks, PushPop
  <2>2. QED
    BY <1>2, <2>1, PushPop DEF SegmentCalls
<1>3. ~Refusing
  <2>1. \A c : [call |-> "refusing", cmdId |-> c].call # "publish"
    OBVIOUS
  <2>2. QED
    BY <1>1, <2>1 DEF Refusing
<1>4. ~Briefing
  <2>1. SUFFICES ASSUME NEW m, NEW size, NEW b,
                        BriefCalls([call |-> "briefed", summon |-> m,
                                    size |-> size], b)
                 PROVE  FALSE
    BY DEF Briefing
  <2> DEFINE f == [call |-> "briefed", summon |-> m, size |-> size]
  <2>2. f.call # "publish" /\ BriefCalls(f, b)
    BY <2>1
  <2> HIDE DEF f
  <2>3. QED
    BY <1>1, <2>2
<1>5. ~Sending
  <2>1. \A s : [call |-> "sending", session |-> s].call # "publish"
    OBVIOUS
  <2>2. QED
    BY <1>2, <2>1 DEF Sending
<1>6. QED
  BY <1>3, <1>4, <1>5 DEF Inv, AtRest

\* The platform's message is published; the gateway may have subscribed.
LEMMA PlatformStarts ==
    ASSUME Kept, AtRest, Moves, NEW t \in Asked, NEW m \in Requests(t),
           t = "pushContent" /\ m # Undecodable => WithinBound(m),
           PlatformPublishes(t, m)
    PROVE  Inv' /\ AtomicStep
<1>1. /\ calls' = Append(<<>>, PublishCall(t, m))
      /\ UNCHANGED <<vars, subscribers, started>>
  BY DEF PlatformPublishes, BusPublish
<1>2. t \in Inbound /\ t \notin Outbound
  BY DEF Asked, Inbound, Outbound
<1>3. \/ PublishCall(t, m) = Finished(t, m)
      \/ PublishCall(t, m) = Frame(t, m, <<"gateway">>)
  BY <1>2, Published1 DEF Kept
<1>4. CASE PublishCall(t, m) = Finished(t, m)
  <2>1. calls' \in Beneath
    BY <1>1, <1>4 DEF Beneath
  <2>2. QED
    BY <1>1, <2>1, RestReturns
<1>5. CASE PublishCall(t, m) = Frame(t, m, <<"gateway">>)
  <2>1. t = "pushContent" /\ m # Undecodable => WithinBound(m)'
    BY <1>1 DEF WithinBound, vars, pushVars
  <2>2. Asking'
    BY <1>1, <1>5, <2>1 DEF Asking
  <2>3. QED
    BY <1>1, <2>2, RestReturns
<1>6. QED
  BY <1>3, <1>4, <1>5

LEMMA DrivePreserves ==
    ASSUME Inv, Moves, Drive
    PROVE  Inv' /\ AtomicStep
<1>1. calls = <<>> /\ Kept /\ AtRest /\ Settled
  BY RestBetweenCalls DEF Drive, Inv, Kept
<1>2. <<>> \in Beneath
  BY DEF Beneath
<1>3. ASSUME NEW m \in SummonRequest \cup {Undecodable},
             PlatformPublishes("summon", m)
      PROVE  Inv' /\ AtomicStep
  BY <1>1, <1>3, PlatformStarts DEF Asked, Requests
<1>4. ASSUME NEW m \in PushBrief \cup {Undecodable},
             PlatformPublishes("pushBrief", m)
      PROVE  Inv' /\ AtomicStep
  BY <1>1, <1>4, PlatformStarts DEF Asked, Requests
<1>5. ASSUME NEW m \in {q \in PushContent : WithinBound(q)} \cup {Undecodable},
             PlatformPublishes("pushContent", m)
      PROVE  Inv' /\ AtomicStep
  BY <1>1, <1>5, PlatformStarts DEF Asked, Requests
<1>6. ASSUME NEW m \in ContentConfirm, ConfirmDirectly(m)
      PROVE  Inv' /\ AtomicStep
  BY <1>1, <1>6, ConfirmStarts, WiredKept DEF ConfirmDirectly, Inv, Kept
<1>7. ASSUME ClearLists
      PROVE  Inv' /\ AtomicStep
  BY <1>1, <1>2, <1>7, RestReturns DEF ClearLists
<1>8. ASSUME StartAdapter \/ StopAdapter,
             UNCHANGED <<vars, history, received, calls>>
      PROVE  Inv' /\ AtomicStep
  <2>1. AtRest' /\ Settled'
    BY <1>1, <1>2, <1>8, RestAfter DEF AtRest
  <2>2. UNCHANGED Atomic!vars
    BY <1>1, <1>8, <2>1, StutterAfter
  <2>3. Wired'
    <3>1. /\ connected' = TRUE /\ started \in BOOLEAN
          /\ DOMAIN subscribers = Inbound \cup Outbound
          /\ \A t \in Inbound \cup Outbound :
                subscribers[t] = IF t \in Outbound THEN <<"platform">>
                                 ELSE IF started THEN <<"gateway">> ELSE <<>>
      BY <1>1, <1>8 DEF Kept, Wired, vars
    <3>2. \A t \in Inbound : t \notin Outbound
      BY DEF Inbound, Outbound
    <3>3. CASE StartAdapter
      <4>1. Append(<<>>, "gateway") = <<"gateway">>
        OBVIOUS
      <4>2. QED
        BY <3>1, <3>2, <3>3, <4>1 DEF StartAdapter, Wired
    <3>4. CASE StopAdapter
      BY <3>1, <3>2, <3>4 DEF StopAdapter, Wired
    <3>5. QED
      BY <1>8, <3>3, <3>4
  <2>4. QED
    BY <1>1, <1>8, <2>1, <2>2, <2>3 DEF Inv, Kept, AtomicStep, vars, uploadVars
<1>9. ASSUME Tick \/ Second,
             UNCHANGED <<subscribers, history, received, started, calls>>
      PROVE  Inv' /\ AtomicStep
  <2>1. AtRest' /\ Settled'
    BY <1>1, <1>2, <1>9, RestAfter DEF AtRest
  <2>2. Atomic!Next
    BY <1>1, <1>9, <2>1, AtomicClock
  <2>3. uploads' \subseteq uploads /\ connected' = connected
    BY <1>9 DEF Tick, Second, UploadsTimeout, uploadVars
  <2>4. QED
    BY <1>1, <1>9, <2>1, <2>2, <2>3, WiredKept DEF Inv, Kept, AtomicStep
<1>10. QED
  BY <1>3, <1>4, <1>5, <1>6, <1>7, <1>8, <1>9 DEF Drive

-----------------------------------------------------------------------------
(* The theorems.                                                           *)

LEMMA BusStep ==
    ASSUME Inv, BusNext
    PROVE  Inv' /\ AtomicStep
<1>1. Moves /\ Kept
  BY DEF BusNext, Moves, Inv, Kept
<1>2. CASE Proceed
  BY <1>1, <1>2, RestProceeds, RefusalProceeds, BriefProceeds, SegmentProceeds
  DEF Inv
<1>3. CASE Drive
  BY <1>1, <1>3, DrivePreserves
<1>4. QED
  BY <1>2, <1>3 DEF BusNext

LEMMA BusStutter ==
    ASSUME Inv, UNCHANGED busVars
    PROVE  Inv' /\ UNCHANGED Atomic!vars
<1>1. UNCHANGED <<uploads, readHandles, pushes, writeHandles, disk, timers,
                  connected, out, subscribers, started, calls, settled>>
  BY DEF busVars, vars, uploadVars, pushVars
<1>2. Wired' /\ uploads' \subseteq UploadSession
  BY <1>1 DEF Inv, Wired
<1>3. PushesSettled <=> PushesSettled'
  BY <1>1 DEF PushesSettled
<1>4. TransfersSettled <=> TransfersSettled'
  BY <1>1, <1>3 DEF TransfersSettled
<1>5. AtRest => AtRest'
  BY <1>1, <1>4 DEF AtRest, Settled, Asking, Answering, WithinBound
<1>6. \A c : Busy(c) <=> Busy(c)'
  BY <1>1 DEF Busy
<1>7. /\ \A f, b : BriefCalls(f, b) <=> BriefCalls(f, b)'
      /\ \A f, c : SegmentCalls(f, c) <=> SegmentCalls(f, c)'
  BY <1>1 DEF BriefCalls, SegmentCalls
<1>8. Refusing => Refusing'
  BY <1>1, <1>4, <1>6, <1>7 DEF Refusing, RefusalDue
<1>9. Briefing => Briefing'
  BY <1>1, <1>4, <1>6, <1>7 DEF Briefing
<1>10. Sending => Sending'
  BY <1>1, <1>3, <1>6, <1>7 DEF Sending, Segment, SummonSends, ConfirmSends
<1>11. UNCHANGED Atomic!vars
  BY <1>1 DEF Atomic!vars, Atomic!uploadVars, Atomic!pushVars
<1>12. QED
  BY <1>2, <1>5, <1>8, <1>9, <1>10, <1>11 DEF Inv

LEMMA BusStarts ==
    ASSUME BusInit
    PROVE  Inv /\ Atomic!Init
<1>1. Settled /\ calls \in Beneath
  BY DEF BusInit, GatewayState, Settled, TransfersSettled, PushesSettled,
         Beneath
<1>2. Wired
  BY DEF BusInit, Init, Wired
<1>3. uploads \subseteq UploadSession
  BY DEF BusInit, Init, UploadInit
<1>4. Atomic!Init
  BY DEF BusInit, GatewayState, Init, UploadInit, PushInit, Atomic!Init,
         Atomic!UploadInit, Atomic!PushInit
<1>5. QED
  BY <1>1, <1>2, <1>3, <1>4 DEF Inv, AtRest

\* The stack is always that of a handler of the gateway that waits for one of
\* its publishes, or of none, and what the gateway holds is what the part of
\* the handler that has run makes of `settled'.
THEOREM Invariance == BusSpec => []Inv
<1>1. BusInit => Inv
  BY BusStarts
<1>2. Inv /\ [BusNext]_busVars => Inv'
  BY BusStep, BusStutter
<1>3. QED
  BY <1>1, <1>2, PTL DEF BusSpec

\* Whatever the platform sends, answers within a publish, or lets time pass:
\* seen between its handlers, the gateway on the bus is the gateway on a
\* broker.  (onSummon, onContentConfirm and publishBriefFailure, with the
\* platform's confirm inside publishContent.)
THEOREM BusImplements == BusSpec => ImplementsGateway
<1>1. BusInit => Atomic!Init
  BY BusStarts
<1>2. Inv /\ [BusNext]_busVars => [Atomic!Next]_(Atomic!vars)
  BY BusStep, BusStutter DEF AtomicStep
<1>3. QED
  BY <1>1, <1>2, Invariance, PTL DEF BusSpec, ImplementsGateway, Atomic!Spec

-----------------------------------------------------------------------------
(* What the platform has collected.                                        *)

LEMMA CollectType ==
    ASSUME NEW S, NEW list \in Seq(S), NEW entry \in S
    PROVE  Collect(list, entry) \in Seq(S)
BY DEF Collect

\* ToPlatformOf is a run of its steps.
Collects(r, seq, N) ==
    r[0] = <<>> /\ \A i \in 1..N : r[i] = Collect(r[i - 1], seq[i])

LEMMA CollectsRun ==
    ASSUME NEW S, NEW seq \in Seq(S)
    PROVE  \E r : /\ Collects(r, seq, Len(seq)) /\ r \in [0..Len(seq) -> Seq(S)]
                  /\ ToPlatformOf(seq) = r[Len(seq)]
<1> DEFINE N == Len(seq)
           D == SUBSET (1..N)
           b == <<>>
           Eq(h) == h = [s \in D |-> IF s = {} THEN b
                            ELSE Collect(h[s \ {Max(s)}], seq[Max(s)])]
           table == CHOOSE h : Eq(h)
           Lists == Seq(S)
           G == [p \in (1..N) \X Lists |-> Collect(p[2], seq[p[1]])]
<1>1. N \in Nat /\ DOMAIN seq = 1..N /\ (\A i \in 1..N : seq[i] \in S)
      /\ b \in Lists
  BY LenProperties, ElementOfSeq, EmptySeq
<1>2. ToPlatformOf(seq) = table[1..N]
  BY <1>1 DEF ToPlatformOf, FoldLeft, MapThenFoldSet
<1> HIDE DEF N, b
<1>3. \A s \in D : s # {} => Max(s) \in 1..N /\ s \ {Max(s)} \in D
  BY <1>1, MaxIsGreatest
<1>4. IsStep(G, N, Lists)
  BY <1>1, CollectType DEF IsStep
<1>5. \A i \in 1..N, v \in Lists : G[<<i, v>>] = Collect(v, seq[i])
  OBVIOUS
<1> HIDE DEF G, Lists
<1>6. PICK h : IsTable(h, G, N, b) /\ h \in [D -> Lists]
  BY <1>1, <1>4, FoldTable
<1>7. Eq(h)
  <2>1. \A s \in D : h[s] = IF s = {} THEN b
                           ELSE Collect(h[s \ {Max(s)}], seq[Max(s)])
    BY <1>3, <1>5, <1>6 DEF IsTable
  <2>2. h = [s \in D |-> h[s]]
    BY <1>6
  <2> HIDE DEF D
  <2> QED BY <2>1, <2>2
<1>8. Eq(table)
  <2> HIDE DEF Eq
  <2> QED BY <1>7
<1>9. Tabulates(table, G, N, Lists, b)
  <2>1. \A s \in D : table[s] = IF s = {} THEN b
                            ELSE Collect(table[s \ {Max(s)}], seq[Max(s)])
    <3> HIDE DEF table, D
    <3> QED BY <1>8
  <2> HIDE DEF table
  <2> QED BY <1>3, <1>5, <2>1 DEF Tabulates
<1> HIDE DEF table
<1>10. PICK r : IsRun(r, G, N, Lists, b) /\ r[N] = table[1..N]
  BY <1>1, <1>4, <1>9, FoldRun
<1>11. \A i \in 1..N : i - 1 \in 0..N
  BY <1>1
<1>12. Collects(r, seq, N) /\ r \in [0..N -> Lists]
  BY <1>5, <1>10, <1>11 DEF IsRun, Collects, b
<1> QED BY <1>2, <1>10, <1>12 DEF N, Lists

\* One more entry.
LEMMA CollectNext ==
    ASSUME NEW S, NEW list \in Seq(S), NEW entry \in S
    PROVE  /\ ToPlatformOf(list) \in Seq(S)
           /\ ToPlatformOf(Append(list, entry)) =
                Collect(ToPlatformOf(list), entry)
<1> DEFINE N == Len(list)
           more == Append(list, entry)
<1>1. /\ more \in Seq(S) /\ Len(more) = N + 1 /\ N \in Nat
      /\ (\A i \in 1..N : more[i] = list[i]) /\ more[N + 1] = entry
  BY AppendProperties, LenProperties
<1> HIDE DEF more
<1>2. PICK r : /\ Collects(r, list, N) /\ r \in [0..N -> Seq(S)]
               /\ ToPlatformOf(list) = r[N]
  BY CollectsRun
<1>3. PICK q : Collects(q, more, N + 1) /\ ToPlatformOf(more) = q[N + 1]
  BY <1>1, CollectsRun
<1> HIDE DEF N
<1> DEFINE T == {n \in Nat : n <= N => q[n] = r[n]}
<1>4. 0 \in T
  BY <1>2, <1>3 DEF Collects
<1>5. ASSUME NEW n \in T
      PROVE  n + 1 \in T
  <2>1. n + 1 <= N => /\ n + 1 \in 1..N /\ n + 1 \in 1..(N + 1)
                      /\ (n + 1) - 1 = n /\ n <= N
    BY <1>1
  <2> QED BY <1>1, <1>2, <1>3, <2>1 DEF Collects
<1>6. T = Nat
  <2>1. T \subseteq Nat
    OBVIOUS
  <2> HIDE DEF T
  <2> QED BY <1>4, <1>5, <2>1, NumberInduction
<1>7. q[N] = r[N]
  BY <1>1, <1>6
<1>8. q[N + 1] = Collect(q[N], entry)
  <2>1. N + 1 \in 1..(N + 1) /\ (N + 1) - 1 = N
    BY <1>1
  <2> QED BY <1>1, <1>3, <2>1 DEF Collects
<1>9. r[N] \in Seq(S)
  BY <1>1, <1>2
<1> QED BY <1>2, <1>3, <1>7, <1>8, <1>9 DEF more

LEMMA NothingCollected ==
    ToPlatformOf(<<>>) = <<>>
<1>1. <<>> \in Seq({}) /\ Len(<<>>) = 0
  OBVIOUS
<1>2. PICK r : Collects(r, <<>>, 0) /\ ToPlatformOf(<<>>) = r[0]
  BY <1>1, CollectsRun
<1> QED BY <1>2 DEF Collects

-----------------------------------------------------------------------------
(* The record of the bus.                                                  *)

\* Nobody on the stack has a handler left to call.
Quiet(st) ==
    /\ IsStack(st)
    /\ \A i \in DOMAIN st : st[i].call = "publish" => st[i].handlers = <<>>

Recorded(t, m) ==
    history # <<>> /\ Last(history) = [topic |-> t, payload |-> m]

\* What the platform has collected is what the bus has recorded for it.
AllCollected(list) == IsSuffix(ToPlatformOf(history), list)

\* What is collected once a message has been delivered.
Collected(t, m) ==
    IF t \in Outbound THEN Append(received, [topic |-> t, payload |-> m])
    ELSE received

\* A message is about to be delivered; it is the one recorded last.
Delivering ==
    \E st, t, m, h :
        /\ Quiet(st) /\ calls = Append(st, Frame(t, m, <<h>>))
        /\ (h = "platform") <=> (t \in Outbound)
        /\ Recorded(t, m) /\ AllCollected(Collected(t, m))

\* What makes AnswersFollow and ReceivedInOrder inductive.
RecordInv ==
    /\ IsStack(history) /\ IsStack(received) /\ AnswersFollow
    /\ (Quiet(calls) /\ AllCollected(received)) \/ Delivering

\* The two lists between two calls of a handler.
Coherent(list) ==
    IsStack(history) /\ IsStack(list) /\ AnswersFollow /\ AllCollected(list)

LEMMA QuietPush ==
    ASSUME NEW st, Quiet(st), NEW f, f.call = "publish" => f.handlers = <<>>
    PROVE  Quiet(Append(st, f))
<1>1. PICK S : st \in Seq(S)
  BY DEF Quiet, IsStack
<1> DEFINE R == S \cup {f}
           a == Append(st, f)
<1>2. st \in Seq(R) /\ f \in R
  BY <1>1, SeqMonotonic
<1>3. /\ a \in Seq(R) /\ Len(a) = Len(st) + 1
      /\ \A i \in 1..Len(st) : a[i] = st[i]
      /\ a[Len(st) + 1] = f
  BY <1>2, AppendProperties
<1>4. Len(st) \in Nat /\ DOMAIN st = 1..Len(st) /\ DOMAIN a = 1..Len(a)
  BY <1>2, <1>3, LenProperties
<1>5. \A i \in DOMAIN a : a[i].call = "publish" => a[i].handlers = <<>>
  BY <1>3, <1>4 DEF Quiet
<1>6. QED
  BY <1>3, <1>5 DEF Quiet, IsStack

LEMMA QuietPop ==
    ASSUME NEW st, Quiet(st), st # <<>>
    PROVE  /\ Quiet(Front(st))
           /\ Last(st).call = "publish" => Last(st).handlers = <<>>
<1>1. PICK S : st \in Seq(S)
  BY DEF Quiet, IsStack
<1>2. /\ Len(st) \in Nat \ {0} /\ DOMAIN st = 1..Len(st)
      /\ \A i \in 1..Len(st) : st[i] \in S
  BY <1>1, LenProperties, EmptySeq, ElementOfSeq
<1>3. Len(st) - 1 \in Nat /\ 1..(Len(st) - 1) \subseteq 1..Len(st)
  BY <1>2
<1>4. /\ Front(st) \in Seq(S) /\ Len(Front(st)) = Len(st) - 1
      /\ \A i \in 1..(Len(st) - 1) : Front(st)[i] = st[i]
  BY <1>2, <1>3, SubSeqProperties DEF Front
<1>5. DOMAIN Front(st) = 1..(Len(st) - 1)
  BY <1>4, LenProperties
<1>6. \A i \in DOMAIN Front(st) :
        Front(st)[i].call = "publish" => Front(st)[i].handlers = <<>>
  BY <1>2, <1>3, <1>4, <1>5 DEF Quiet
<1>7. Last(st).call = "publish" => Last(st).handlers = <<>>
  BY <1>2 DEF Last, Quiet
<1>8. QED
  BY <1>4, <1>6, <1>7 DEF Quiet, IsStack

\* One more entry: a confirm only after the content it answers.
LEMMA Recording ==
    ASSUME IsStack(history), AnswersFollow, NEW t, NEW m, Records(t, m),
           t = "contentConfirm" =>
               \E c : Recorded("content", c) /\ m = AutoConfirm(c)
    PROVE  IsStack(history)' /\ AnswersFollow' /\ Recorded(t, m)'
<1> DEFINE e == [topic |-> t, payload |-> m]
           k == Len(history)
<1>1. e.topic = t /\ e.payload = m /\ history' = Append(history, e)
  BY DEF Records
<1> HIDE DEF e
<1>2. PICK S : history \in Seq(S)
  BY DEF IsStack
<1> DEFINE R == S \cup {e}
<1>3. history \in Seq(R) /\ e \in R
  BY <1>2, SeqMonotonic
<1>4. /\ history' \in Seq(R) /\ Len(history') = k + 1
      /\ \A i \in 1..k : history'[i] = history[i]
      /\ history'[k + 1] = e
  BY <1>1, <1>3, AppendProperties
<1>5. /\ k \in Nat /\ DOMAIN history = 1..k
      /\ DOMAIN history' = 1..(k + 1)
  BY <1>3, <1>4, LenProperties
<1> HIDE DEF k
<1>6. Recorded(t, m)'
  <2>1. history' # <<>>
    BY <1>4, <1>5
  <2>2. Last(history') = e
    BY <1>4 DEF Last, k
  <2>3. QED
    BY <2>1, <2>2 DEF Recorded, e
<1>7. ASSUME NEW i \in DOMAIN history' \ {1},
             history'[i].topic = "contentConfirm"
      PROVE  /\ history'[i - 1].topic = "content"
             /\ history'[i].payload = AutoConfirm(history'[i - 1].payload)
  <2>1. CASE i \in 1..k
    <3>1. /\ i - 1 \in 1..k /\ history'[i - 1] = history[i - 1]
          /\ history'[i] = history[i] /\ i \in DOMAIN history \ {1}
      BY <1>4, <1>5, <1>7, <2>1
    <3>2. QED
      BY <1>7, <3>1 DEF AnswersFollow
  <2>2. CASE i = k + 1
    <3>1. t = "contentConfirm"
      BY <1>1, <1>4, <1>7, <2>2
    <3>2. PICK c : Recorded("content", c) /\ m = AutoConfirm(c)
      BY <3>1
    <3>3. i - 1 = k /\ k \in 1..k
      BY <1>5, <2>2
    <3>4. history'[i - 1] = [topic |-> "content", payload |-> c]
      BY <1>4, <3>2, <3>3 DEF Recorded, Last, k
    <3>5. history'[i].payload = AutoConfirm(c)
      BY <1>1, <1>4, <2>2, <3>2
    <3>6. QED
      BY <3>4, <3>5
  <2>3. QED
    BY <1>5, <2>1, <2>2
<1>8. AnswersFollow'
  BY <1>7 DEF AnswersFollow
<1>9. QED
  BY <1>4, <1>6, <1>8 DEF IsStack

\* A call returns.
LEMMA ReturnRecords ==
    ASSUME Coherent(received'), NEW st, Quiet(st), Return(st)
    PROVE  RecordInv'
BY DEF Coherent, RecordInv, Return, AnswersFollow, AllCollected

\* One more message for the platform, recorded and collected.
LEMMA OneMoreInOrder ==
    ASSUME IsStack(history), IsStack(received'), AllCollected(received'),
           NEW t, NEW m, Records(t, m)
    PROVE  AllCollected(Collected(t, m))'
<1> DEFINE e == [topic |-> t, payload |-> m]
           list == received'
<1>1. e.topic = t /\ history' = Append(history, e)
  BY DEF Records
<1> HIDE DEF e, list
<1>2. PICK S, R : history \in Seq(S) /\ list \in Seq(R)
  BY DEF IsStack, list
<1> DEFINE V == S \cup R \cup {e}
<1>3. history \in Seq(V) /\ list \in Seq(V) /\ e \in V
  BY <1>2, SeqMonotonic
<1> HIDE DEF V
<1>4. /\ ToPlatformOf(history) \in Seq(V)
      /\ ToPlatformOf(history') = Collect(ToPlatformOf(history), e)
  BY <1>1, <1>3, CollectNext
<1>5. IsSuffix(ToPlatformOf(history), list)
  BY DEF AllCollected, list
<1>6. CASE t \in Outbound
  <2>1. ToPlatformOf(history') = Append(ToPlatformOf(history), e)
    BY <1>1, <1>4, <1>6 DEF Collect
  <2>2. IsSuffix(ToPlatformOf(history'), Append(list, e))
    BY <1>3, <1>4, <1>5, <2>1, SuffixNext
  <2>3. QED
    BY <1>6, <2>2 DEF AllCollected, Collected, e, list
<1>7. CASE t \notin Outbound
  <2>1. ToPlatformOf(history') = ToPlatformOf(history)
    BY <1>1, <1>4, <1>7 DEF Collect
  <2>2. QED
    BY <1>5, <1>7, <2>1 DEF AllCollected, Collected, list
<1>8. QED
  BY <1>6, <1>7

\* A message is published.
LEMMA PublishRecords ==
    ASSUME Coherent(received'), Wired, NEW st, Quiet(st),
           NEW t \in Inbound \cup Outbound, NEW m, BusPublish(st, t, m),
           t = "contentConfirm" =>
               \E c : Recorded("content", c) /\ m = AutoConfirm(c)
    PROVE  RecordInv'
<1>1. Records(t, m) /\ calls' = Append(st, PublishCall(t, m))
  BY DEF BusPublish, Records
<1>2. IsStack(history)' /\ AnswersFollow' /\ Recorded(t, m)'
  BY <1>1, Recording DEF Coherent
<1>3. \/ PublishCall(t, m) = Finished(t, m) /\ t \notin Outbound
      \/ \E h : /\ PublishCall(t, m) = Frame(t, m, <<h>>)
                /\ (h = "platform") <=> (t \in Outbound)
  BY Published1
<1>4. IsStack(received)' /\ AllCollected(Collected(t, m))'
  BY <1>1, OneMoreInOrder DEF Coherent
<1>5. CASE PublishCall(t, m) = Finished(t, m) /\ t \notin Outbound
  <2>1. Quiet(calls')
    BY <1>1, <1>5, QuietPush, NoHandler
  <2>2. AllCollected(received)'
    BY <1>4, <1>5 DEF Collected
  <2>3. QED
    BY <1>2, <1>4, <2>1, <2>2 DEF RecordInv
<1>6. CASE \E h : /\ PublishCall(t, m) = Frame(t, m, <<h>>)
                  /\ (h = "platform") <=> (t \in Outbound)
  <2>1. Delivering'
    <3>1. PICK h : /\ PublishCall(t, m) = Frame(t, m, <<h>>)
                   /\ (h = "platform") <=> (t \in Outbound)
      BY <1>6
    <3>2. calls' = Append(st, Frame(t, m, <<h>>))
      BY <1>1, <3>1
    <3>3. QED
      BY <1>2, <1>4, <3>1, <3>2, Zenon DEF Delivering
  <2>2. QED
    BY <1>2, <1>4, <2>1 DEF RecordInv
<1>7. QED
  BY <1>3, <1>5, <1>6

\* A handler of the gateway publishes a brief or a segment.
LEMMA HandlerRecords ==
    ASSUME Coherent(received'), Wired, NEW st, Quiet(st), NEW f, f.call # "publish",
           NEW m, m.type \in {"brief", "content"}, NEW sent,
           GatewayPublishes(m, sent, Append(st, f))
    PROVE  RecordInv'
<1>1. Quiet(Append(st, f))
  BY QuietPush
<1>2. m.type \in Inbound \cup Outbound /\ m.type # "contentConfirm"
  BY DEF Outbound
<1>3. QED
  BY <1>1, <1>2, PublishRecords DEF GatewayPublishes

LEMMA RefusalRecords ==
    ASSUME Coherent(received'), Wired, NEW st, Quiet(st), NEW c, NEW error, NEW T,
           StartRefusal(c, error, T, st)
    PROVE  RecordInv'
<1> DEFINE f == [call |-> "refusing", cmdId |-> c]
           b == Brief(c, error, 0)
<1>1. f.call # "publish" /\ b.type = "brief"
  BY DEF Brief
<1>2. GatewayPublishes(b, <<>>, Append(st, f))
  BY DEF StartRefusal
<1> HIDE DEF f, b
<1>3. QED
  BY <1>1, <1>2, HandlerRecords

LEMMA SegmentRecords ==
    ASSUME Coherent(received'), Wired, NEW st, Quiet(st), NEW s, NEW S, NEW H, NEW T,
           NEW sent, StartSegment(s, S, H, T, sent, st)
    PROVE  RecordInv'
<1>1. CASE Return(st)
  BY <1>1, ReturnRecords
<1>2. ASSUME NEW h, NEW n,
             GatewayPublishes(NextContent(s, h, n), sent,
                Append(st, [call |-> "sending", session |-> Awaiting(s, n)]))
      PROVE  RecordInv'
  <2> DEFINE f == [call |-> "sending", session |-> Awaiting(s, n)]
             c == NextContent(s, h, n)
  <2>1. f.call # "publish" /\ c.type = "content"
    BY DEF NextContent, Content
  <2>2. GatewayPublishes(c, sent, Append(st, f))
    BY <1>2
  <2> HIDE DEF f, c
  <2>3. QED
    BY <2>1, <2>2, HandlerRecords
<1>3. QED
  BY <1>1, <1>2 DEF StartSegment

LEMMA ConfirmRecords ==
    ASSUME Coherent(received'), Wired, NEW st, Quiet(st), NEW m, NEW sent,
           StartConfirm(m, sent, st)
    PROVE  RecordInv'
<1>1. \/ Return(st)
      \/ \E s, S, H, T : StartSegment(s, S, H, T, sent, st)
  BY DEF StartConfirm
<1>2. QED
  BY <1>1, ReturnRecords, SegmentRecords

LEMMA SummonRecords ==
    ASSUME Coherent(received'), Wired, NEW st, Quiet(st), NEW m, StartSummon(m, st)
    PROVE  RecordInv'
<1>1. ASSUME NEW size,
             GatewayPublishes(Brief(m.cmdId, "NONE", size), <<>>,
                Append(st, [call |-> "briefed", summon |-> m, size |-> size]))
      PROVE  RecordInv'
  <2> DEFINE f == [call |-> "briefed", summon |-> m, size |-> size]
             b == Brief(m.cmdId, "NONE", size)
  <2>1. f.call # "publish" /\ b.type = "brief"
    BY DEF Brief
  <2>2. GatewayPublishes(b, <<>>, Append(st, f))
    BY <1>1
  <2> HIDE DEF f, b
  <2>3. QED
    BY <2>1, <2>2, HandlerRecords
<1>2. \/ \E c, error, T : StartRefusal(c, error, T, st)
      \/ \E size : GatewayPublishes(Brief(m.cmdId, "NONE", size), <<>>,
                     Append(st, [call |-> "briefed", summon |-> m,
                                 size |-> size]))
  BY DEF StartSummon
<1>3. QED
  BY <1>1, <1>2, RefusalRecords

LEMMA DeliverRecords ==
    ASSUME RecordInv, Wired, Deliver
    PROVE  RecordInv'
<1>1. /\ calls # <<>> /\ Last(calls).call = "publish"
      /\ Last(calls).handlers # <<>>
  BY DEF Deliver
<1>2. Delivering
  BY <1>1, QuietPop DEF RecordInv
<1>3. PICK low, t, m, h :
        /\ Quiet(low) /\ calls = Append(low, Frame(t, m, <<h>>))
        /\ (h = "platform") <=> (t \in Outbound)
        /\ Recorded(t, m) /\ AllCollected(Collected(t, m))
  BY <1>2 DEF Delivering
<1> DEFINE st == Append(low, Finished(t, m))
           f == Frame(t, m, <<h>>)
<1>4. Quiet(st)
  BY <1>3, QuietPush, NoHandler
<1>5. Last(calls) = f /\ Front(calls) = low
  BY <1>3, PushPop DEF Quiet
<1>6. /\ f.topic = t /\ f.payload = m /\ Head(f.handlers) = h
      /\ [f EXCEPT !.handlers = Tail(@)] = Finished(t, m)
  BY OneHandler
<1> HIDE DEF f
<1>7. \/ ToPlatform(t, m, st) /\ t \in Outbound
      \/ ToGateway(t, m, st) /\ t \notin Outbound
  BY <1>3, <1>5, <1>6 DEF Deliver
<1> HIDE DEF st
<1>8. CASE ToPlatform(t, m, st) /\ t \in Outbound
  <2>0. Coherent(received')
    <3>1. received' = Collected(t, m)
      BY <1>8 DEF ToPlatform, Collected
    <3>2. IsStack(received')
      BY <1>8, <3>1, PushPop DEF RecordInv, Collected
    <3>3. QED
      BY <1>3, <3>1, <3>2 DEF RecordInv, Coherent
  <2>1. CASE t = "content"
    <3>1. BusPublish(st, "contentConfirm", AutoConfirm(m))
      BY <1>8, <2>1 DEF ToPlatform
    <3>2. Recorded("content", m) /\ "contentConfirm" \in Inbound
      BY <1>3, <2>1 DEF Inbound
    <3>3. QED
      BY <1>4, <2>0, <3>1, <3>2, PublishRecords
  <2>2. CASE t # "content"
    BY <1>4, <1>8, <2>0, <2>2, ReturnRecords DEF ToPlatform
  <2>3. QED
    BY <2>1, <2>2
<1>9. CASE ToGateway(t, m, st) /\ t \notin Outbound
  <2>0. Coherent(received')
    <3>1. received' = received /\ Collected(t, m) = received
      BY <1>9 DEF ToGateway, Collected
    <3>2. QED
      BY <1>3, <3>1 DEF RecordInv, Coherent
  <2>1. \/ \E c, error, T : StartRefusal(c, error, T, st)
        \/ StartSummon(m, st)
        \/ StartConfirm(m, out, st)
        \/ /\ t \in DOMAIN AnswerTopic
           /\ BusPublish(st, AnswerTopic[t], out'[1])
    BY <1>9 DEF ToGateway
  <2>2. ASSUME t \in DOMAIN AnswerTopic
        PROVE  /\ AnswerTopic[t] \in Inbound \cup Outbound
               /\ AnswerTopic[t] # "contentConfirm"
    BY <2>2 DEF AnswerTopic, Outbound
  <2>3. ASSUME t \in DOMAIN AnswerTopic,
               BusPublish(st, AnswerTopic[t], out'[1])
        PROVE  RecordInv'
    BY <1>4, <2>0, <2>2, <2>3, PublishRecords
  <2>4. QED
    BY <1>4, <2>0, <2>1, <2>3, RefusalRecords, SummonRecords, ConfirmRecords
<1>10. QED
  BY <1>7, <1>8, <1>9

LEMMA ResumeRecords ==
    ASSUME RecordInv, Wired, Resume \/ PublishReturns
    PROVE  RecordInv'
<1> DEFINE st == Front(calls)
           f == Last(calls)
<1>1. /\ calls # <<>> /\ received' = received
      /\ f.call = "publish" => f.handlers = <<>>
  BY DEF Resume, PublishReturns
<1>2. ~Delivering
  <2>1. ASSUME NEW low, Quiet(low), NEW t, NEW m, NEW h,
               calls = Append(low, Frame(t, m, <<h>>))
        PROVE  FALSE
    <3>1. f = Frame(t, m, <<h>>)
      BY <2>1, PushPop DEF Quiet
    <3>2. QED
      BY <1>1, <3>1, OneHandler
  <2>2. QED
    BY <2>1 DEF Delivering
<1>3. Quiet(st)
  BY <1>1, <1>2, QuietPop DEF RecordInv
<1>4. Coherent(received')
  BY <1>1, <1>2 DEF RecordInv, Coherent
<1>5. CASE PublishReturns
  BY <1>3, <1>4, <1>5, ReturnRecords DEF PublishReturns
<1>6. CASE Resume
  <2>1. \/ Return(st)
        \/ AfterBrief(f.summon, f.size, st)
    BY <1>6 DEF Resume
  <2>2. ASSUME AfterBrief(f.summon, f.size, st)
        PROVE  \/ Return(st)
               \/ \E s, S, H : StartSegment(s, S, H, timers, out, st)
    BY <2>2 DEF AfterBrief
  <2>3. QED
    BY <1>3, <1>4, <2>1, <2>2, ReturnRecords, SegmentRecords
<1>7. QED
  BY <1>5, <1>6

LEMMA EmptyQuiet == Quiet(<<>>)
BY EmptySeq DEF Quiet, IsStack

LEMMA NothingUnderway ==
    ASSUME calls = <<>>
    PROVE  ~Delivering
BY PushPop DEF Delivering, Quiet

\* Nothing is recorded.
LEMMA EmptyRecord ==
    ASSUME history' = <<>>, calls' = <<>>, IsStack(received)'
    PROVE  RecordInv'
<1>1. Quiet(calls)' /\ IsStack(history)'
  BY EmptyQuiet DEF Quiet
<1>2. AnswersFollow'
  BY DEF AnswersFollow
<1>3. AllCollected(received)'
  <2>1. PICK S : received' \in Seq(S)
    BY DEF IsStack
  <2>2. IsSuffix(<<>>, received')
    <3>1. received' \in Seq(S \cup {0}) /\ 0 \in S \cup {0}
      BY <2>1, SeqMonotonic
    <3>2. <<>> \in Seq(S \cup {0})
      BY EmptySeq
    <3>3. QED
      BY <3>1, <3>2, SuffixNext
  <2>3. QED
    BY <2>2, NothingCollected DEF AllCollected
<1>4. QED
  BY <1>1, <1>2, <1>3 DEF RecordInv

LEMMA DriveRecords ==
    ASSUME RecordInv, Wired, Drive
    PROVE  RecordInv'
<1>1. calls = <<>> /\ Quiet(<<>>)
  BY EmptyQuiet DEF Drive
<1>7. Coherent(received)
  BY <1>1, NothingUnderway DEF RecordInv, Coherent
<1>2. ASSUME NEW t \in Asked, NEW m, PlatformPublishes(t, m)
      PROVE  RecordInv'
  <2>1. t \in Inbound \cup Outbound /\ t # "contentConfirm"
    BY DEF Asked, Inbound
  <2>2. QED
    BY <1>1, <1>2, <1>7, <2>1, PublishRecords DEF PlatformPublishes
<1>3. ASSUME NEW m, ConfirmDirectly(m)
      PROVE  RecordInv'
  BY <1>1, <1>3, <1>7, ConfirmRecords DEF ConfirmDirectly
<1>4. ASSUME ClearLists
      PROVE  RecordInv'
  <2>1. /\ history' = <<>> /\ calls' = <<>>
        /\ received' = received \/ received' = <<>>
    BY <1>1, <1>4 DEF ClearLists
  <2>2. IsStack(received)'
    BY <1>1, <2>1 DEF RecordInv, Quiet
  <2>3. QED
    BY <1>1, <2>1, <2>2, EmptyRecord
<1>5. ASSUME UNCHANGED <<history, received, calls>>
      PROVE  RecordInv'
  BY <1>1, <1>5, <1>7 DEF Coherent, RecordInv, AnswersFollow, AllCollected
<1>6. QED
  BY <1>2, <1>3, <1>4, <1>5 DEF Drive, Asked

\* The record and the collection stay coherent.
LEMMA RecordKept == BusSpec => []RecordInv
<1>1. BusInit => RecordInv
  <2> SUFFICES ASSUME BusInit
               PROVE  RecordInv
    OBVIOUS
  <2>1. history = <<>> /\ calls = <<>> /\ received = <<>>
    BY DEF BusInit
  <2>2. IsStack(history) /\ IsStack(received) /\ Quiet(calls) /\ AnswersFollow
    BY <2>1, EmptyQuiet DEF Quiet, AnswersFollow
  <2>3. AllCollected(received)
    <3>1. <<>> \in Seq({0})
      OBVIOUS
    <3>2. IsSuffix(<<>>, <<>>)
      BY <3>1, SuffixNext
    <3>3. QED
      BY <2>1, <3>2, NothingCollected DEF AllCollected
  <2>4. QED
    BY <2>2, <2>3 DEF RecordInv
<1>2. Inv /\ RecordInv /\ [BusNext]_busVars => RecordInv'
  <2>1. ASSUME Inv, RecordInv, BusNext
        PROVE  RecordInv'
    BY <2>1, DriveRecords, DeliverRecords, ResumeRecords
    DEF Inv, BusNext, Proceed
  <2>2. ASSUME RecordInv, UNCHANGED busVars
        PROVE  RecordInv'
    BY <2>2 DEF RecordInv, AnswersFollow, Delivering, Recorded, AllCollected,
                Collected, busVars
  <2>3. QED
    BY <2>1, <2>2
<1>3. QED
  BY <1>1, <1>2, Invariance, PTL DEF BusSpec

\* A confirm is recorded right after the content it answers.  (Recording and
\* calling in publish, with the answer of PlatformMqttSimulator.)
THEOREM AnswersInOrder == BusSpec => []AnswersFollow
<1>1. RecordInv => AnswersFollow
  BY DEF RecordInv
<1>2. QED
  BY <1>1, RecordKept, PTL

\* Once publish has returned, the platform has collected just what the bus has
\* recorded for it, in the order of the record, however the calls were nested.
THEOREM CollectedInOrder == BusSpec => []ReceivedInOrder
<1>1. RecordInv => ReceivedInOrder
  BY NothingUnderway DEF RecordInv, ReceivedInOrder, AllCollected
<1>2. QED
  BY <1>1, RecordKept, PTL

-----------------------------------------------------------------------------
(* The gateway's own invariants, on the bus.                               *)

Proved ==
    INSTANCE GatewayProofs WITH
        uploads <- settled.uploads, readHandles <- settled.readHandles,
        pushes <- settled.pushes, writeHandles <- settled.writeHandles,
        disk <- settled.disk, timers <- settled.timers, out <- settled.out

\* GatewayProofs speaks of the gateway that the bus implements: the tables, ...
LEMMA TablesAgree ==
    /\ \A S, c : Atomic!Without(S, c) = Proved!Without(S, c)
    /\ \A S, r : Atomic!Put(S, r) = Proved!Put(S, r)
    /\ \A S, r : Atomic!Emplace(S, r) = Proved!Emplace(S, r)
    /\ \A S : Atomic!Ids(S) = Proved!Ids(S)
    /\ \A T, c : Atomic!Arm(T, c) = Proved!Arm(T, c)
    /\ \A T, c : Atomic!Reset(T, c) = Proved!Reset(T, c)
    /\ \A T, c : Atomic!Disarm(T, c) = Proved!Disarm(T, c)
<1>1. \A S, c : Atomic!Without(S, c) = Proved!Without(S, c)
  BY DEF Atomic!Without, Proved!Without
<1>2. \A S : Atomic!Ids(S) = Proved!Ids(S)
  BY DEF Atomic!Ids, Proved!Ids
<1>3. /\ \A S, r : Atomic!Put(S, r) = Proved!Put(S, r)
      /\ \A S, r : Atomic!Emplace(S, r) = Proved!Emplace(S, r)
  BY <1>1, <1>2 DEF Atomic!Put, Proved!Put, Atomic!Emplace, Proved!Emplace
<1>4. /\ \A T, c : Atomic!Arm(T, c) = Proved!Arm(T, c)
      /\ \A T, c : Atomic!Reset(T, c) = Proved!Reset(T, c)
      /\ \A T, c : Atomic!Disarm(T, c) = Proved!Disarm(T, c)
  BY <1>1, <1>2, <1>3
  DEF Atomic!Arm, Proved!Arm, Atomic!Reset, Proved!Reset,
      Atomic!Disarm, Proved!Disarm
<1>5. QED
  BY <1>1, <1>2, <1>3, <1>4

\* ... what an upload does, ...
LEMMA UploadsAgree ==
    ASSUME NEW s, NEW S, NEW H, NEW T, NEW msgs
    PROVE  /\ \A c : Atomic!CloseTransfer(c, S, H, T)
                       <=> Proved!CloseTransfer(c, S, H, T)
           /\ \A c, e : Atomic!PublishBriefFailure(c, e, T)
                          <=> Proved!PublishBriefFailure(c, e, T)
           /\ Atomic!SendNextContentSegment(s, S, H, T, msgs)
                <=> Proved!SendNextContentSegment(s, S, H, T, msgs)
<1>1. /\ \A q : Atomic!Publish(q) <=> Proved!Publish(q)
      /\ \A c, e, n : Atomic!Brief(c, e, n) = Proved!Brief(c, e, n)
      /\ \A q, h, n : Atomic!NextContent(q, h, n) = Proved!NextContent(q, h, n)
      /\ \A q, n : Atomic!Awaiting(q, n) = Proved!Awaiting(q, n)
      /\ \A a, b : Atomic!SmallerOf(a, b) = Proved!SmallerOf(a, b)
  BY DEF Atomic!Publish, Proved!Publish, Atomic!Brief, Proved!Brief,
         Atomic!NextContent, Proved!NextContent, Atomic!Content,
         Proved!Content, Atomic!Awaiting, Proved!Awaiting,
         Atomic!SmallerOf, Proved!SmallerOf
<1>2. \A c, R : Atomic!CloseTransfer(c, R, H, T)
                  <=> Proved!CloseTransfer(c, R, H, T)
  BY TablesAgree DEF Atomic!CloseTransfer, Proved!CloseTransfer
<1>3. \A c, e : Atomic!PublishBriefFailure(c, e, T)
                  <=> Proved!PublishBriefFailure(c, e, T)
  BY <1>1, TablesAgree
  DEF Atomic!PublishBriefFailure, Proved!PublishBriefFailure,
      Atomic!CloseTransfer, Proved!CloseTransfer
<1>4. Atomic!SendNextContentSegment(s, S, H, T, msgs)
        <=> Proved!SendNextContentSegment(s, S, H, T, msgs)
  BY <1>1, <1>2, TablesAgree
  DEF Atomic!SendNextContentSegment, Proved!SendNextContentSegment
<1>5. QED
  BY <1>2, <1>3, <1>4

\* ... a summon, ...
LEMMA SummonsAgree == Atomic!Summon => Proved!Summon
<1>1. /\ Atomic!SummonRequest = Proved!SummonRequest
      /\ Atomic!SummonBusy <=> Proved!SummonBusy
      /\ Atomic!pushVars = Proved!pushVars
  BY DEF Atomic!SummonRequest, Proved!SummonRequest, Atomic!SummonBusy,
         Proved!SummonBusy, Atomic!HasActiveSession, Proved!HasActiveSession,
         Atomic!pushVars, Proved!pushVars
<1>2. \A m : Atomic!RefuseSummon(m, Atomic!SummonBusy)
               => Proved!RefuseSummon(m, Proved!SummonBusy)
  BY <1>1, TablesAgree, UploadsAgree
  DEF Atomic!RefuseSummon, Proved!RefuseSummon, Atomic!SummonTimer,
      Proved!SummonTimer, Atomic!HasActiveSessionOtherThan,
      Proved!HasActiveSessionOtherThan
<1>3. ASSUME NEW m, NEW n, Atomic!StartUpload(m, n)
      PROVE  Proved!StartUpload(m, n)
  <2> DEFINE
        c == m.cmdId
        s == [cmdId |-> c, file |-> m.file, fileSize |-> n,
              nextFileOffset |-> m.startByte - 1, nextSegNo |-> 1,
              awaitingConfirmSegNo |-> 0, state |-> "BriefOk"]
        S == Proved!Put(settled.uploads, s)
        H == Proved!Emplace(settled.readHandles, [cmdId |-> c, file |-> m.file])
        T == Proved!SummonTimer(c)
        brief == <<Proved!Brief(c, "NONE", n)>>
  <2>1. /\ S = Atomic!Put(settled.uploads, s)
        /\ H = Atomic!Emplace(settled.readHandles,
                              [cmdId |-> c, file |-> m.file])
        /\ T = Atomic!SummonTimer(c)
        /\ brief = <<Atomic!Brief(c, "NONE", n)>>
    BY TablesAgree
    DEF Atomic!SummonTimer, Proved!SummonTimer, Atomic!Brief, Proved!Brief
  <2>2. IF s.nextFileOffset >= n
        THEN Atomic!CloseTransfer(c, S, H, T) /\ Atomic!Publish(brief)
        ELSE Atomic!SendNextContentSegment(s, S, H, T, brief)
    BY <1>3, <2>1 DEF Atomic!StartUpload
  <2>3. IF s.nextFileOffset >= n
        THEN Proved!CloseTransfer(c, S, H, T) /\ Proved!Publish(brief)
        ELSE Proved!SendNextContentSegment(s, S, H, T, brief)
    <3> HIDE DEF s, S, H, T, brief
    <3> QED BY <2>2, UploadsAgree DEF Atomic!Publish, Proved!Publish
  <2>4. QED
    BY <2>3 DEF Proved!StartUpload
<1>4. \A m : Atomic!AcceptSummon(m, Atomic!SummonBusy)
               => Proved!AcceptSummon(m, Proved!SummonBusy)
  BY <1>1, <1>3, TablesAgree, UploadsAgree
  DEF Atomic!AcceptSummon, Proved!AcceptSummon, Atomic!SummonTimer,
      Proved!SummonTimer, Atomic!HasActiveSessionOtherThan,
      Proved!HasActiveSessionOtherThan
<1>5. Atomic!OnUndecodableSummon => Proved!OnUndecodableSummon
  BY UploadsAgree DEF Atomic!OnUndecodableSummon, Proved!OnUndecodableSummon
<1>6. QED
  BY <1>1, <1>2, <1>4, <1>5
  DEF Atomic!Summon, Proved!Summon, Atomic!OnSummon, Proved!OnSummon,
      Atomic!pushVars, Proved!pushVars

\* ... a confirm, ...
LEMMA ConfirmsAgree == Atomic!ConfirmContent => Proved!ConfirmContent
<1>1. /\ Atomic!ContentConfirm = Proved!ContentConfirm
      /\ Atomic!pushVars = Proved!pushVars
      /\ Atomic!uploadVars = Proved!uploadVars
      /\ \A q : Atomic!Publish(q) <=> Proved!Publish(q)
      /\ \A s, m : Atomic!WaitsFor(s, m) <=> Proved!WaitsFor(s, m)
      /\ \A s, m : Atomic!Confirms(m, s) <=> Proved!Confirms(m, s)
  BY DEF Atomic!ContentConfirm, Proved!ContentConfirm, Atomic!pushVars,
         Proved!pushVars, Atomic!uploadVars, Proved!uploadVars,
         Atomic!Publish, Proved!Publish, Atomic!WaitsFor, Proved!WaitsFor,
         Atomic!Confirms, Proved!Confirms
<1>2. \A s : Atomic!ContinueUpload(s) => Proved!ContinueUpload(s)
  BY <1>1, TablesAgree, UploadsAgree
  DEF Atomic!ContinueUpload, Proved!ContinueUpload
<1>3. ASSUME NEW m, Atomic!OnContentConfirm(m)
      PROVE  Proved!OnContentConfirm(m)
  BY <1>1, <1>2, <1>3, TablesAgree, UploadsAgree
  DEF Atomic!OnContentConfirm, Proved!OnContentConfirm,
      Atomic!uploadVars, Proved!uploadVars
<1>4. QED
  BY <1>1, <1>3
  DEF Atomic!ConfirmContent, Proved!ConfirmContent,
      Atomic!pushVars, Proved!pushVars

\* ... a segment of a push, ...
LEMMA PushesAgree == Atomic!SendPush => Proved!SendPush
<1>1. /\ Atomic!PushContent = Proved!PushContent
      /\ \A m : Atomic!WithinBound(m) <=> Proved!WithinBound(m)
      /\ \A m, e : Atomic!Answer(m, e) <=> Proved!Answer(m, e)
      /\ \A s, m : Atomic!InOrder(m, s) <=> Proved!InOrder(m, s)
      /\ \A s, m : Atomic!Received(m, s) = Proved!Received(m, s)
      /\ \A s, d : Atomic!FinalError(s, d) = Proved!FinalError(s, d)
      /\ \A d : Atomic!ReadBack(d) = Proved!ReadBack(d)
      /\ \A d, f, o, b : Atomic!WriteAt(d, f, o, b) = Proved!WriteAt(d, f, o, b)
  BY DEF Atomic!PushContent, Proved!PushContent, Atomic!BytesUpTo,
         Proved!BytesUpTo, Atomic!WithinBound, Proved!WithinBound,
         Atomic!Answer, Proved!Answer, Atomic!PushContentConfirm,
         Proved!PushContentConfirm, Atomic!Publish, Proved!Publish,
         Atomic!InOrder, Proved!InOrder, Atomic!Received, Proved!Received,
         Atomic!FinalError, Proved!FinalError, Atomic!ReadBack,
         Proved!ReadBack, Atomic!WriteAt, Proved!WriteAt
<1>2. \A m, e : Atomic!EndPush(m, e) <=> Proved!EndPush(m, e)
  BY <1>1, TablesAgree
  DEF Atomic!EndPush, Proved!EndPush, Atomic!ClosePush, Proved!ClosePush
<1>3. \A m, s, h : Atomic!StoreSegment(m, s, h) => Proved!StoreSegment(m, s, h)
  BY <1>1, <1>2, TablesAgree
  DEF Atomic!StoreSegment, Proved!StoreSegment
<1>4. \A m, s : Atomic!StoreFails(m, s) => Proved!StoreFails(m, s)
  BY <1>1, <1>2 DEF Atomic!StoreFails, Proved!StoreFails
<1>5. \A m : Atomic!OnPushContent(m) => Proved!OnPushContent(m)
  BY <1>1, <1>2, <1>3, <1>4, TablesAgree
  DEF Atomic!OnPushContent, Proved!OnPushContent,
      Atomic!pushVars, Proved!pushVars
<1>6. QED
  BY <1>1, <1>5
  DEF Atomic!SendPush, Proved!SendPush, Atomic!uploadVars, Proved!uploadVars

\* ... the announcements, and the rest.
LEMMA GatewaysAgree == Atomic!Spec => Proved!Spec
<1>1. Atomic!Init => Proved!Init
  BY DEF Atomic!UploadInit, Proved!UploadInit, Atomic!PushInit,
         Proved!PushInit, Atomic!Init, Proved!Init
<1>2. Atomic!AnnouncePush => Proved!AnnouncePush
  BY DEF Atomic!Ids, Proved!Ids, Atomic!Without, Proved!Without, Atomic!Put,
         Proved!Put, Atomic!Emplace, Proved!Emplace, Atomic!Arm, Proved!Arm,
         Atomic!PushBriefConfirm, Proved!PushBriefConfirm,
         Atomic!PushContentConfirm, Proved!PushContentConfirm, Atomic!Publish,
         Proved!Publish, Atomic!uploadVars, Proved!uploadVars,
         Atomic!HasActiveSessionOtherThan, Proved!HasActiveSessionOtherThan,
         Atomic!pushVars, Proved!pushVars, Atomic!BytesUpTo, Proved!BytesUpTo,
         Atomic!PushBrief, Proved!PushBrief, Atomic!OpenWriteCreate,
         Proved!OpenWriteCreate, Atomic!HasActiveSession,
         Proved!HasActiveSession, Atomic!RefusePushBrief,
         Proved!RefusePushBrief, Atomic!AcceptPushBrief,
         Proved!AcceptPushBrief, Atomic!OnPushBrief, Proved!OnPushBrief,
         Atomic!OnUndecodablePush, Proved!OnUndecodablePush, Atomic!PushBusy,
         Proved!PushBusy, Atomic!AnnouncePush, Proved!AnnouncePush
<1>3. Atomic!Tick => Proved!Tick
  BY DEF Atomic!Ids, Proved!Ids, Atomic!Expired, Proved!Expired,
         Atomic!Unexpired, Proved!Unexpired, Atomic!Publish, Proved!Publish,
         Atomic!UploadsTimeout, Proved!UploadsTimeout, Atomic!PushesTimeout,
         Proved!PushesTimeout, Atomic!Tick, Proved!Tick
<1>4. Atomic!Second => Proved!Second
  BY DEF Atomic!Countdown, Proved!Countdown, Atomic!Publish, Proved!Publish,
         Atomic!uploadVars, Proved!uploadVars, Atomic!pushVars,
         Proved!pushVars, Atomic!Second, Proved!Second
<1>5. Atomic!Disconnect => Proved!Disconnect
  BY DEF Atomic!Publish, Proved!Publish, Atomic!uploadVars, Proved!uploadVars,
         Atomic!pushVars, Proved!pushVars, Atomic!Disconnect,
         Proved!Disconnect
<1>6. Atomic!Restart => Proved!Restart
  BY DEF Atomic!Publish, Proved!Publish, Atomic!Restart, Proved!Restart
<1>7. UNCHANGED Atomic!vars => UNCHANGED Proved!vars
  BY DEF Atomic!vars, Proved!vars, Atomic!uploadVars, Proved!uploadVars,
         Atomic!pushVars, Proved!pushVars
<1>8. [Atomic!Next]_(Atomic!vars) => [Proved!Next]_(Proved!vars)
  BY <1>2, <1>3, <1>4, <1>5, <1>6, <1>7,
     SummonsAgree, ConfirmsAgree, PushesAgree
  DEF Atomic!Next, Proved!Next
<1>9. QED
  BY <1>1, <1>8, PTL DEF Atomic!Spec, Proved!Spec

\* What settled stands for when no handler waits.
LEMMA SettledIsState ==
    BusSpec => [](~HandlerWaits(calls) => settled = GatewayState)
<1> DEFINE R == ~HandlerWaits(calls) => settled = GatewayState
<1>1. BusInit => R
  BY DEF BusInit
<1>2. R /\ [BusNext]_busVars => R'
  <2>1. ASSUME BusNext
        PROVE  R'
    BY <2>1 DEF BusNext
  <2>2. ASSUME R, UNCHANGED busVars
        PROVE  R'
    BY <2>2 DEF busVars, vars, uploadVars, pushVars, GatewayState, HandlerWaits
  <2>3. QED
    BY <2>1, <2>2
<1>3. QED
  BY <1>1, <1>2, PTL DEF BusSpec

\* What GatewayProofs shows, of the gateway as it stands on the bus.
Consistent ==
    /\ TypeOK
    /\ ExclusiveUnlessZero
    /\ HandlesFollowSessions
    /\ TimersServeSessions
    /\ UploadsTimed
    /\ DiskMatchesProgress
    /\ RefusedSummonSendsNothing

\* Whenever no handler of the gateway waits for a publish to return, its
\* tables, deadlines and files on the bus are as consistent as they are on a
\* broker: a state that a test of the demo or of the unit tests looks at is one
\* of which all that is proved of Gateway holds.
THEOREM GatewayStands == BusSpec => [](~HandlerWaits(calls) => Consistent)
<1>1. BusSpec => [](Proved!Inv /\ Proved!RefusedSummonSendsNothing)
  <2>1. BusSpec => Proved!Spec
    BY BusImplements, GatewaysAgree, PTL DEF ImplementsGateway
  <2>2. Proved!Spec => []Proved!Inv
    BY Proved!Invariance, TimeoutSecAssumption, CmdIdsAssumption,
       SegModAssumption, UploadAssumption, PushAssumption
  <2>3. Proved!Spec => []Proved!RefusedSummonSendsNothing
    BY Proved!RefusalsEnd, TimeoutSecAssumption, CmdIdsAssumption,
       SegModAssumption, UploadAssumption, PushAssumption
  <2>4. QED
    BY <2>1, <2>2, <2>3, PTL
<1>2. ASSUME settled = GatewayState, Proved!Inv,
             Proved!RefusedSummonSendsNothing
      PROVE  Consistent
  <2>1. /\ settled.uploads = uploads /\ settled.readHandles = readHandles
        /\ settled.pushes = pushes /\ settled.writeHandles = writeHandles
        /\ settled.disk = disk /\ settled.timers = timers
        /\ settled.out = out
    BY <1>2
    DEF GatewayState
  <2>2. TypeOK
    BY <1>2, <2>1
    DEF Proved!Inv, Timer, Proved!Timer, UploadStates, Proved!UploadStates,
        UploadSession, Proved!UploadSession, UploadTypeOK,
        Proved!UploadTypeOK, BytesUpTo, Proved!BytesUpTo, PushSession,
        Proved!PushSession, PushTypeOK, Proved!PushTypeOK, TypeOK,
        Proved!TypeOK
  <2>3. ExclusiveUnlessZero
    BY <1>2, <2>1
    DEF Proved!Inv, ExclusiveUnlessZero, Proved!ExclusiveUnlessZero
  <2>4. HandlesFollowSessions
    BY <1>2, <2>1
    DEF Proved!Inv, Ids, Proved!Ids, Keyed, Proved!Keyed,
        HandlesFollowSessions, Proved!HandlesFollowSessions
  <2>5. TimersServeSessions
    BY <1>2, <2>1
    DEF Proved!Inv, Ids, Proved!Ids, Keyed, Proved!Keyed, TimersServeSessions,
        Proved!TimersServeSessions
  <2>6. UploadsTimed
    BY <1>2, <2>1
    DEF Proved!Inv, Ids, Proved!Ids, UploadsTimed, Proved!UploadsTimed
  <2>7. DiskMatchesProgress
    BY <1>2, <2>1
    DEF Proved!Inv, DiskMatchesProgress, Proved!DiskMatchesProgress
  <2>8. RefusedSummonSendsNothing
    BY <1>2, <2>1
    DEF Proved!Inv, Ids, Proved!Ids, Published, Proved!Published,
        RefusedSummonSendsNothing, Proved!RefusedSummonSendsNothing
  <2>9. QED
    BY <2>2, <2>3, <2>4, <2>5, <2>6, <2>7, <2>8 DEF Consistent
<1>3. QED
  BY <1>1, <1>2, SettledIsState, PTL

\* The session that is stored when a handler has published its segment waits
\* for this segment's confirm, although one for it has been and gone: on the
\* bus too, an upload is never parked where only its deadline could move it.
THEOREM UploadsAwaitOnBus ==
    ASSUME MaxFileSize < SegMod
    PROVE  BusSpec => [](~HandlerWaits(calls) => UploadsAwait)
<1>1. BusSpec => []Proved!UploadsAwait
  <2>1. BusSpec => Proved!Spec
    BY BusImplements, GatewaysAgree, PTL DEF ImplementsGateway
  <2>2. Proved!Spec => []Proved!UploadsAwait
    BY Proved!UploadsKeepWaiting, TimeoutSecAssumption, CmdIdsAssumption,
       SegModAssumption, UploadAssumption, PushAssumption
  <2>3. QED
    BY <2>1, <2>2, PTL
<1>2. settled = GatewayState /\ Proved!UploadsAwait => UploadsAwait
  BY DEF GatewayState, UploadsAwait, Proved!UploadsAwait
<1>3. QED
  BY <1>1, <1>2, SettledIsState, PTL
=============================================================================
