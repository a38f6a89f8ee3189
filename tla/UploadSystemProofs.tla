-------------------------- MODULE UploadSystemProofs --------------------------
(***************************************************************************)
(* UploadSystem keeps what a summon upload promises, for every value of    *)
(* the constants.                                                          *)
(***************************************************************************)
EXTENDS UploadSystem, SummonUploadProofs, SequenceTheorems, FiniteSetTheorems

\* The messages of a queue.
Messages(q) == {q[i] : i \in DOMAIN q}

\* Where platform_sim has got to in the file it asked for.
Reached == startByte - 1 + Len(received)

\* A session at rest: it waits for the confirm of the last segment it sent.
SessionsWait ==
    /\ uploads \subseteq UploadSession
    /\ \A s \in uploads : s.cmdId = SummonCmdId /\ Waits(s)

ClientOK ==
    /\ startByte \in Nat /\ announced \in Nat
    /\ received \in Seq(Nat)
    /\ online \in BOOLEAN /\ transferDone \in BOOLEAN
    /\ online => startByte # 0 /\ ~transferDone

\* A summon of the process that is running, or of one that is gone.
SummonUnderway(m) ==
    /\ \E f \in Files, b \in 1..(MaxFileSize + 2) : m = SummonMessage(f, b)
    /\ online => startByte = m.startByte /\ announced = 0 /\ received = <<>>

\* A confirm that reaches an upload tells it that the platform is where the
\* upload takes it to be.
ConfirmUnderway(m) ==
    /\ IsConfirm(m)
    /\ \A s \in uploads :
        /\ m.cmdId = s.cmdId /\ Confirms(m, s)
        /\ online => s.nextFileOffset = Reached /\ s.fileSize = announced

BriefUnderway(m) ==
    /\ m.type = "brief"
    /\ announced = 0 /\ received = <<>>
    /\ m.error = "NONE" => m.fileSize \in Nat /\ startByte - 1 <= m.fileSize

\* Content that continues what the platform has of a file of `total' bytes,
\* and is what the upload has sent last.
ContentUnderway(m, total) ==
    /\ m.type = "content"
    /\ m.offset = Reached /\ m.len \in Nat \ {0} /\ total \in Nat
    /\ m.offset + m.len <= total
    /\ m.more = (m.offset + m.len < total)
    /\ \A s \in uploads :
        /\ m.cmdId = s.cmdId /\ m.segNo = s.awaitingConfirmSegNo
        /\ s.nextFileOffset = m.offset + m.len /\ s.fileSize = total

\* No upload waits for an answer to something that is not underway.
NobodyWaits == online /\ connected => uploads = {}

\* The five things that may be underway: nothing, a summon or a confirm, a
\* brief, a brief with the first content, a content.
NothingUnderway == toGateway = <<>> /\ toPlatform = <<>> /\ NobodyWaits

RequestUnderway ==
    /\ toPlatform = <<>>
    /\ \E m \in Messages(toGateway) :
        toGateway = <<m>> /\ (SummonUnderway(m) \/ ConfirmUnderway(m))

OnlyBriefUnderway ==
    /\ online /\ toGateway = <<>> /\ NobodyWaits
    /\ \E b \in Messages(toPlatform) : toPlatform = <<b>> /\ BriefUnderway(b)

FirstContentUnderway ==
    /\ online /\ toGateway = <<>>
    /\ \E b, c \in Messages(toPlatform) :
        /\ toPlatform = <<b, c>>
        /\ BriefUnderway(b) /\ b.error = "NONE"
        /\ ContentUnderway(c, b.fileSize)

OnlyContentUnderway ==
    /\ online /\ toGateway = <<>>
    /\ \E c \in Messages(toPlatform) :
        toPlatform = <<c>> /\ ContentUnderway(c, announced)

\* The inductive invariant.
Inv ==
    /\ SessionsWait
    /\ ClientOK
    /\ \/ NothingUnderway \/ RequestUnderway
       \/ OnlyBriefUnderway \/ FirstContentUnderway \/ OnlyContentUnderway

-----------------------------------------------------------------------------
(* Queues.                                                                 *)

\* A sequence of one or two messages is known by its elements.
LEMMA ShortQueues ==
    ASSUME NEW S, NEW q \in Seq(S)
    PROVE  /\ Len(q) = 0 => q = <<>>
           /\ Len(q) = 1 => q = <<q[1]>>
<1>1. ASSUME Len(q) = 1
      PROVE  q = <<q[1]>>
  <2> DEFINE p == <<q[1]>>
  <2>1. q[1] \in S
    BY <1>1, ElementOfSeq
  <2>2. p \in Seq(S) /\ Len(p) = 1 /\ p[1] = q[1]
    BY <2>1
  <2> HIDE DEF p
  <2>3. q = p
    BY <1>1, <2>2, SeqEqual
  <2>4. QED
    BY <2>3 DEF p
<1>2. QED
  BY <1>1, EmptySeq

\* What is left of a queue of at most two messages when its sender is lost.
LEMMA ShortOnBroker ==
    ASSUME NEW b, NEW c
    PROVE  /\ OnBroker(<<>>) = {<<>>}
           /\ OnBroker(<<b>>) = {<<>>, <<b>>}
           /\ OnBroker(<<b, c>>) = {<<>>, <<b>>, <<b, c>>}
<1> DEFINE S == {b, c}
<1>1. ASSUME NEW q \in Seq(S)
      PROVE  SubSeq(q, 1, 0) = <<>> /\ SubSeq(q, 1, Len(q)) = q
  BY SubSeqEmpty, SubSeqFull
<1>2. OnBroker(<<>>) = {<<>>}
  <2> DEFINE q == <<>>
  <2>1. q \in Seq(S) /\ Len(q) = 0
    OBVIOUS
  <2>2. 0..0 = {0}
    OBVIOUS
  <2> HIDE DEF q, S
  <2>3. OnBroker(q) = {SubSeq(q, 1, 0)}
    BY <2>1, <2>2 DEF OnBroker
  <2>4. QED
    BY <1>1, <2>1, <2>3 DEF q
<1>3. OnBroker(<<b>>) = {<<>>, <<b>>}
  <2> DEFINE q == <<b>>
  <2>1. q \in Seq(S) /\ Len(q) = 1
    OBVIOUS
  <2>2. 0..1 = {0, 1}
    OBVIOUS
  <2> HIDE DEF q, S
  <2>3. OnBroker(q) = {SubSeq(q, 1, 0), SubSeq(q, 1, 1)}
    BY <2>1, <2>2 DEF OnBroker
  <2>4. QED
    BY <1>1, <2>1, <2>3 DEF q
<1>4. OnBroker(<<b, c>>) = {<<>>, <<b>>, <<b, c>>}
  <2> DEFINE q == <<b, c>>
  <2>1. q \in Seq(S) /\ Len(q) = 2 /\ q[1] = b
    OBVIOUS
  <2>2. 0..2 = {0, 1, 2}
    OBVIOUS
  <2> HIDE DEF q, S
  <2>3. OnBroker(q) = {SubSeq(q, 1, 0), SubSeq(q, 1, 1), SubSeq(q, 1, 2)}
    BY <2>1, <2>2 DEF OnBroker
  <2>4. \A i \in 1..1 : q[i] \in S
    BY <2>1, ElementOfSeq
  <2>5. /\ SubSeq(q, 1, 1) \in Seq(S) /\ Len(SubSeq(q, 1, 1)) = 1
        /\ SubSeq(q, 1, 1)[1] = b
    BY <2>1, <2>4, SubSeqProperties
  <2>6. SubSeq(q, 1, 1) = <<b>>
    BY <2>5, ShortQueues
  <2>7. QED
    BY <1>1, <2>1, <2>3, <2>6 DEF q
<1>5. QED
  BY <1>2, <1>3, <1>4

\* The messages of the queues that occur.
LEMMA ShortMessages ==
    ASSUME NEW b, NEW c
    PROVE  /\ b \in Messages(<<b>>)
           /\ b \in Messages(<<b, c>>) /\ c \in Messages(<<b, c>>)
BY DEF Messages

-----------------------------------------------------------------------------
(* The gateway's steps.                                                    *)

\* The platform and what is underway may have lost track of an upload, but no
\* upload may lose track of them: sessions may go at any time.
LEMMA FewerSessions ==
    ASSUME Inv, uploads' \subseteq uploads, connected' => connected,
           UNCHANGED <<clientVars, toGateway, toPlatform>>
    PROVE  Inv'
<1>1. SessionsWait' /\ ClientOK'
  BY DEF Inv, SessionsWait, ClientOK, clientVars, Waits, Numbered
<1>2. /\ Messages(toGateway)' = Messages(toGateway)
      /\ Messages(toPlatform)' = Messages(toPlatform)
      /\ Reached' = Reached /\ announced' = announced
  BY DEF Messages, Reached, clientVars
<1>3. /\ \A m : SummonUnderway(m) => SummonUnderway(m)'
      /\ \A m : ConfirmUnderway(m) => ConfirmUnderway(m)'
      /\ \A m : BriefUnderway(m) => BriefUnderway(m)'
  BY <1>2 DEF SummonUnderway, ConfirmUnderway, BriefUnderway, clientVars,
              Confirms, Reached
<1>4. ASSUME NEW m, NEW total, ContentUnderway(m, total)
      PROVE  ContentUnderway(m, total)'
  BY <1>2, <1>4 DEF ContentUnderway
<1>5. NobodyWaits => NobodyWaits'
  BY DEF NobodyWaits, clientVars
<1>6. CASE NothingUnderway
  BY <1>1, <1>5, <1>6 DEF NothingUnderway, Inv
<1>7. CASE RequestUnderway
  BY <1>1, <1>2, <1>3, <1>7 DEF RequestUnderway, Inv
<1>8. CASE OnlyBriefUnderway
  BY <1>1, <1>2, <1>3, <1>5, <1>8 DEF OnlyBriefUnderway, Inv, clientVars
<1>9. CASE FirstContentUnderway
  BY <1>1, <1>2, <1>3, <1>4, <1>9 DEF FirstContentUnderway, Inv, clientVars
<1>10. CASE OnlyContentUnderway
  BY <1>1, <1>2, <1>4, <1>10 DEF OnlyContentUnderway, Inv, clientVars
<1>11. QED
  BY <1>6, <1>7, <1>8, <1>9, <1>10 DEF Inv

\* The gateway's end of the connection goes: what was on its way to it is
\* lost, of what it has published the last messages may be, and either it
\* stays without a connection or no session survives.
LEMMA GatewayLost ==
    ASSUME Inv, uploads' \subseteq uploads, ~connected' \/ uploads' = {},
           toGateway' = <<>>, toPlatform' \in OnBroker(toPlatform),
           UNCHANGED clientVars
    PROVE  Inv'
<1>1. SessionsWait' /\ ClientOK'
  BY DEF Inv, SessionsWait, ClientOK, clientVars, Waits, Numbered
<1>2. Reached' = Reached /\ announced' = announced /\ online' = online
  BY DEF Reached, clientVars
<1>3. ASSUME NEW m, BriefUnderway(m)
      PROVE  BriefUnderway(m)'
  BY <1>3 DEF BriefUnderway, clientVars
<1>4. ASSUME NEW m, NEW total, ContentUnderway(m, total)
      PROVE  ContentUnderway(m, total)'
  BY <1>2, <1>4 DEF ContentUnderway
<1>5. NobodyWaits'
  BY DEF NobodyWaits
<1>6. toPlatform' = <<>> => Inv'
  BY <1>1, <1>5 DEF NothingUnderway, Inv
<1>7. ASSUME NEW b, toPlatform' = <<b>>, BriefUnderway(b), online
      PROVE  Inv'
  <2>1. b \in Messages(toPlatform)'
    BY <1>7, ShortMessages DEF Messages
  <2>2. OnlyBriefUnderway'
    BY <1>2, <1>3, <1>5, <1>7, <2>1 DEF OnlyBriefUnderway
  <2>3. QED
    BY <1>1, <2>2 DEF Inv
<1>8. CASE NothingUnderway \/ RequestUnderway
  <2>1. toPlatform = <<>>
    BY <1>8 DEF NothingUnderway, RequestUnderway
  <2>2. OnBroker(<<>>) = {<<>>}
    BY ShortOnBroker
  <2>3. QED
    BY <1>6, <2>1, <2>2
<1>9. CASE OnlyBriefUnderway
  BY <1>6, <1>7, <1>9, ShortOnBroker DEF OnlyBriefUnderway
<1>10. CASE FirstContentUnderway
  <2>1. PICK b, c : /\ toPlatform = <<b, c>> /\ online
                    /\ BriefUnderway(b) /\ b.error = "NONE"
                    /\ ContentUnderway(c, b.fileSize)
    BY <1>10 DEF FirstContentUnderway
  <2>2. CASE toPlatform' = <<b, c>>
    <3>1. b \in Messages(toPlatform)' /\ c \in Messages(toPlatform)'
      BY <2>2, ShortMessages DEF Messages
    <3>2. FirstContentUnderway'
      BY <1>2, <1>3, <1>4, <2>1, <2>2, <3>1 DEF FirstContentUnderway
    <3>3. QED
      BY <1>1, <3>2 DEF Inv
  <2>3. QED
    BY <1>6, <1>7, <2>1, <2>2, ShortOnBroker
<1>11. CASE OnlyContentUnderway
  <2>1. PICK c : toPlatform = <<c>> /\ online /\ ContentUnderway(c, announced)
    BY <1>11 DEF OnlyContentUnderway
  <2>2. CASE toPlatform' = <<c>>
    <3>1. c \in Messages(toPlatform)'
      BY <2>2, ShortMessages DEF Messages
    <3>2. OnlyContentUnderway'
      BY <1>2, <1>4, <2>1, <2>2, <3>1 DEF OnlyContentUnderway
    <3>3. QED
      BY <1>1, <3>2 DEF Inv
  <2>3. QED
    BY <1>6, <2>1, <2>2, ShortOnBroker
<1>12. QED
  BY <1>8, <1>9, <1>10, <1>11 DEF Inv

\* A summon, whether its sender is still there or not: the only session is
\* the one it starts, and brief and content go to who is online.
LEMMA SummonReceived ==
    ASSUME MaxFileSize < SegMod, Inv, NEW m, SummonUnderway(m),
           toPlatform = <<>>, OnSummon(m, FALSE), toGateway' = <<>>,
           toPlatform' = IF online THEN toPlatform \o out' ELSE toPlatform,
           UNCHANGED <<connected, clientVars>>
    PROVE  Inv'
<1>1. /\ m.cmdId = SummonCmdId /\ m.cmdId \in CmdIds /\ m.file \in Files
      /\ m.startByte \in 1..(MaxFileSize + 2)
  BY ClientCmdIdAssumption DEF SummonUnderway, SummonMessage
<1>2. \A s \in uploads : s.cmdId = SummonCmdId
  BY DEF Inv, SessionsWait
<1>3. ClientOK' /\ online' = online /\ Reached' = Reached
  BY DEF Inv, ClientOK, clientVars, Reached
<1>4. online => /\ startByte = m.startByte /\ announced = 0 /\ received = <<>>
                /\ Reached = m.startByte - 1
  <2>1. Len(<<>>) = 0 /\ m.startByte \in Nat
    BY <1>1, UploadAssumption
  <2>2. QED
    BY <2>1 DEF SummonUnderway, Reached
<1>5. ASSUME SessionsWait', ~online
      PROVE  Inv'
  BY <1>3, <1>5 DEF Inv, NothingUnderway, NobodyWaits
<1>6. ASSUME NEW b, LoneBrief(m, b), uploads' = Without(uploads, m.cmdId),
             out' = <<b>>
      PROVE  Inv'
  <2>1. uploads' = {}
    BY <1>1, <1>2, <1>6 DEF Without
  <2>2. SessionsWait'
    BY <2>1 DEF SessionsWait
  <2>3. CASE online
    <3>1. toPlatform' = <<b>>
      BY <1>6, <2>3, ConcatEmptySeq
    <3>2. b \in Messages(toPlatform)'
      BY <3>1, ShortMessages DEF Messages
    <3>3. BriefUnderway(b)'
      BY <1>4, <1>6, <2>3, UploadAssumption
      DEF BriefUnderway, LoneBrief, clientVars
    <3>4. OnlyBriefUnderway'
      BY <1>3, <2>1, <2>3, <3>1, <3>2, <3>3 DEF OnlyBriefUnderway, NobodyWaits
    <3>5. QED
      BY <1>3, <2>2, <3>4 DEF Inv
  <2>4. QED
    BY <1>5, <2>2, <2>3
<1>7. ASSUME NEW s, NEW u, NEW b, NEW c, FirstContent(m, s, u, b, c),
             uploads' = Put(uploads, u), out' = <<b, c>>
      PROVE  Inv'
  <2>1. Continues(s, u, c) /\ s \in UploadSession /\ s.cmdId = m.cmdId
    BY <1>7 DEF FirstContent
  <2>2. u.cmdId = SummonCmdId
    BY <1>1, <2>1 DEF Continues
  <2>3. uploads' = {u}
    BY <1>2, <1>7, <2>2, OnlyRecord
  <2>4. SessionsWait'
    BY <2>1, <2>2, <2>3 DEF SessionsWait, Continues
  <2>5. CASE online
    <3>1. toPlatform' = <<b, c>>
      BY <1>7, <2>5, ConcatEmptySeq
    <3>2. b \in Messages(toPlatform)' /\ c \in Messages(toPlatform)'
      BY <3>1, ShortMessages DEF Messages
    <3>3. s.fileSize \in Nat /\ s.nextFileOffset \in Nat
      BY <2>1, UploadAssumption DEF UploadSession
    <3>4. ContentUnderway(c, b.fileSize)'
      <4>1. b.fileSize = s.fileSize /\ c.offset = Reached'
        BY <1>3, <1>4, <1>7, <2>1, <2>5 DEF FirstContent, Continues
      <4>2. u.nextFileOffset <= u.fileSize
        BY <2>1, <3>3 DEF Continues, Waits
      <4>3. QED
        BY <2>1, <2>3, <3>3, <4>1, <4>2 DEF ContentUnderway, Continues
    <3>5. BriefUnderway(b)'
      <4>1. m.startByte - 1 <= s.fileSize
        BY <1>7, <2>1, <3>3 DEF FirstContent, Continues, Waits
      <4>2. QED
        BY <1>4, <1>7, <2>5, <3>3, <4>1
        DEF BriefUnderway, FirstContent, clientVars
    <3>6. FirstContentUnderway'
      BY <1>3, <1>7, <2>5, <3>1, <3>2, <3>4, <3>5
      DEF FirstContentUnderway, FirstContent
    <3>7. QED
      BY <1>3, <2>4, <3>6 DEF Inv
  <2>6. QED
    BY <1>5, <2>4, <2>5
<1>8. QED
  BY <1>1, <1>6, <1>7, SummonOutcome

\* A confirm of the segment an upload waits for: the upload ends, or sends
\* what comes next after what the platform has.
LEMMA ConfirmReceived ==
    ASSUME MaxFileSize < SegMod, Inv, NEW m, ConfirmUnderway(m),
           toPlatform = <<>>, OnContentConfirm(m), toGateway' = <<>>,
           toPlatform' = IF online THEN toPlatform \o out' ELSE toPlatform,
           UNCHANGED <<connected, clientVars>>
    PROVE  Inv'
<1>1. /\ uploads \subseteq UploadSession
      /\ \A s \in uploads :
           s.cmdId = SummonCmdId /\ Waits(s) /\ s.cmdId = m.cmdId
  BY DEF Inv, SessionsWait, ConfirmUnderway
<1>2. \A s \in uploads : WaitsFor(s, m) /\ Numbered(s)
  BY <1>1 DEF WaitsFor, Waits
<1>3. /\ ClientOK' /\ online' = online
      /\ Reached' = Reached /\ announced' = announced
  BY DEF Inv, ClientOK, clientVars, Reached
<1>4. ASSUME uploads' = {}, out' = <<>>
      PROVE  Inv'
  <2>1. toPlatform' = <<>>
    BY <1>4, ConcatEmptySeq
  <2>2. SessionsWait' /\ NothingUnderway'
    BY <1>4, <2>1 DEF SessionsWait, NothingUnderway, NobodyWaits
  <2>3. QED
    BY <1>3, <2>2 DEF Inv
<1>5. CASE /\ \A s \in uploads : ~WaitsFor(s, m)
           /\ uploads' = uploads /\ out' = <<>>
  BY <1>2, <1>4, <1>5
<1>6. CASE uploads' = Without(uploads, m.cmdId) /\ out' = <<>>
  BY <1>1, <1>4, <1>6 DEF Without
<1>7. ASSUME NEW s \in uploads, NEW u, NEW c, Continues(s, u, c),
             uploads' = Put(uploads, u), out' = <<c>>
      PROVE  Inv'
  <2>1. u.cmdId = SummonCmdId
    BY <1>1, <1>7 DEF Continues
  <2>2. uploads' = {u}
    BY <1>1, <1>7, <2>1, OnlyRecord
  <2>3. SessionsWait'
    BY <1>7, <2>1, <2>2 DEF SessionsWait, Continues
  <2>4. CASE ~online
    BY <1>3, <2>3, <2>4 DEF Inv, NothingUnderway, NobodyWaits
  <2>5. CASE online
    <3>1. toPlatform' = <<c>>
      BY <1>7, <2>5, ConcatEmptySeq
    <3>2. c \in Messages(toPlatform)'
      BY <3>1, ShortMessages DEF Messages
    <3>3. s.nextFileOffset = Reached /\ s.fileSize = announced
      BY <2>5 DEF ConfirmUnderway
    <3>4. s.fileSize \in Nat /\ s.nextFileOffset \in Nat
      BY <1>1, UploadAssumption DEF UploadSession
    <3>5. u.nextFileOffset <= u.fileSize
      BY <1>7, <3>4 DEF Continues, Waits
    <3>6. ContentUnderway(c, announced)'
      BY <1>3, <1>7, <2>2, <3>3, <3>4, <3>5 DEF ContentUnderway, Continues
    <3>7. OnlyContentUnderway'
      BY <1>3, <2>5, <3>1, <3>2, <3>6 DEF OnlyContentUnderway
    <3>8. QED
      BY <1>3, <2>3, <3>7 DEF Inv
  <2>6. QED
    BY <2>4, <2>5 DEF Inv, ClientOK
<1>8. QED
  BY <1>1, <1>2, <1>5, <1>6, <1>7, ConfirmOutcome

\* Any message that is handled is the only one.
LEMMA GatewayReceivesPreserves ==
    ASSUME MaxFileSize < SegMod, Inv, GatewayReceives
    PROVE  Inv'
<1> USE DEF GatewayReceives
<1>1. RequestUnderway
  BY DEF Inv, NothingUnderway, OnlyBriefUnderway, FirstContentUnderway,
         OnlyContentUnderway
<1>2. PICK m : toGateway = <<m>> /\ (SummonUnderway(m) \/ ConfirmUnderway(m))
  BY <1>1 DEF RequestUnderway
<1>3. Head(toGateway) = m /\ toGateway' = <<>> /\ toPlatform = <<>>
  BY <1>1, <1>2 DEF RequestUnderway
<1>4. CASE SummonUnderway(m)
  <2>1. m.type = "summon"
    BY <1>4 DEF SummonUnderway, SummonMessage
  <2>2. OnSummon(m, FALSE)
    BY <1>3, <2>1
  <2>3. QED
    BY <1>3, <1>4, <2>2, SummonReceived
<1>5. CASE ConfirmUnderway(m)
  <2>1. m.type = "contentConfirm"
    BY <1>5 DEF ConfirmUnderway, IsConfirm
  <2>2. OnContentConfirm(m)
    BY <1>3, <2>1
  <2>3. QED
    BY <1>3, <1>5, <2>2, ConfirmReceived
<1>6. QED
  BY <1>2, <1>4, <1>5

-----------------------------------------------------------------------------
(* platform_sim's steps.                                                   *)

\* A process that is started without haste finds nothing underway.
LEMMA ClientStartsPreserves ==
    ASSUME Hasty = FALSE, Inv, ClientStarts
    PROVE  Inv'
<1>1. PICK b \in 1..(MaxFileSize + 2), f \in Files :
        StartClient(b) /\ SendToGateway(SummonMessage(f, b))
  BY DEF ClientStarts
<1> DEFINE m == SummonMessage(f, b)
<1>2. toGateway = <<>> /\ toPlatform' = <<>> /\ UNCHANGED gatewayVars
  BY DEF ClientStarts
<1>3. SessionsWait' /\ connected' = connected
  BY <1>2 DEF Inv, SessionsWait, gatewayVars, uploadVars
<1>4. /\ online' = TRUE /\ startByte' = b /\ announced' = 0 /\ received' = <<>>
      /\ transferDone' = FALSE /\ b \in Nat \ {0}
  BY <1>1, UploadAssumption DEF StartClient
<1>5. ClientOK'
  <2>1. <<>> \in Seq(Nat)
    OBVIOUS
  <2>2. QED
    BY <1>4, <2>1 DEF ClientOK
<1>6. CASE connected
  <2>1. toGateway' = <<m>>
    BY <1>1, <1>2, <1>6 DEF SendToGateway
  <2>2. SummonUnderway(m)'
    BY <1>4 DEF SummonUnderway, SummonMessage
  <2>3. m \in Messages(toGateway)'
    BY <2>1, ShortMessages DEF Messages
  <2>4. RequestUnderway'
    BY <1>2, <2>1, <2>2, <2>3 DEF RequestUnderway
  <2>5. QED
    BY <1>3, <1>5, <2>4 DEF Inv
<1>7. CASE ~connected
  BY <1>1, <1>2, <1>3, <1>5, <1>7
  DEF Inv, NothingUnderway, NobodyWaits, SendToGateway
<1>8. QED
  BY <1>6, <1>7

\* A process that goes leaves what it has sent, or not even that.
LEMMA ClientLostPreserves ==
    ASSUME Inv, ClientLost
    PROVE  Inv'
<1> USE DEF ClientLost
<1>1. online' = FALSE /\ toPlatform' = <<>> /\ SessionsWait' /\ ClientOK'
  BY DEF Inv, SessionsWait, ClientOK, LoseClient, gatewayVars, uploadVars
<1>2. toGateway' = <<>> => Inv'
  BY <1>1 DEF Inv, NothingUnderway, NobodyWaits
<1>3. CASE RequestUnderway
  <2>1. PICK m : toGateway = <<m>> /\ (SummonUnderway(m) \/ ConfirmUnderway(m))
    BY <1>3 DEF RequestUnderway
  <2>2. CASE toGateway' = <<m>>
    <3>1. m \in Messages(toGateway)'
      BY <2>2, ShortMessages DEF Messages
    <3>2. SummonUnderway(m)' \/ ConfirmUnderway(m)'
      BY <1>1, <2>1
      DEF SummonUnderway, ConfirmUnderway, Confirms, gatewayVars, uploadVars
    <3>3. QED
      BY <1>1, <2>2, <3>1, <3>2 DEF Inv, RequestUnderway
  <2>3. QED
    BY <1>2, <2>1, <2>2, ShortOnBroker
<1>4. CASE toGateway = <<>>
  <2>1. OnBroker(<<>>) = {<<>>}
    BY ShortOnBroker
  <2>2. QED
    BY <1>2, <1>4, <2>1
<1>5. QED
  BY <1>3, <1>4 DEF Inv, NothingUnderway, OnlyBriefUnderway,
                    FirstContentUnderway, OnlyContentUnderway

\* A brief that stands alone is followed by nothing; one that comes with
\* content leaves the content, which is of the file it has announced.
LEMMA BriefReceived ==
    ASSUME Inv, ClientReceives, NEW b, BriefUnderway(b),
           Head(toPlatform) = b, toGateway = <<>>,
           \/ toPlatform = <<b>> /\ NobodyWaits
           \/ \E c : /\ toPlatform = <<b, c>> /\ b.error = "NONE"
                     /\ ContentUnderway(c, b.fileSize)
    PROVE  Inv'
<1>1. OnBriefMessage(b) /\ toGateway' = <<>> /\ UNCHANGED gatewayVars
  BY DEF ClientReceives, ClientHandles, BriefUnderway
<1>2. /\ toPlatform' = IF online' THEN Tail(toPlatform) ELSE <<>>
      /\ online
  BY DEF ClientReceives
<1>3. SessionsWait' /\ connected' = connected /\ uploads' = uploads
  BY <1>1 DEF Inv, SessionsWait, gatewayVars, uploadVars
<1>4. startByte' = startByte /\ received' = received /\ Reached' = Reached
  BY <1>1 DEF OnBriefMessage, Reached
<1>5. ClientOK'
  BY <1>1 DEF Inv, ClientOK, OnBriefMessage, BriefUnderway
<1>6. CASE b.error # "NONE"
  <2>1. online' = FALSE
    BY <1>1, <1>6 DEF OnBriefMessage
  <2>2. QED
    BY <1>1, <1>2, <1>3, <1>5, <2>1 DEF Inv, NothingUnderway, NobodyWaits
<1>7. CASE b.error = "NONE"
  <2>1. online' /\ announced' = b.fileSize
    BY <1>1, <1>2, <1>7 DEF OnBriefMessage
  <2>2. CASE toPlatform = <<b>> /\ NobodyWaits
    <3>1. toPlatform' = <<>>
      BY <1>2, <2>1, <2>2
    <3>2. NobodyWaits'
      BY <1>2, <1>3, <2>2 DEF NobodyWaits
    <3>3. QED
      BY <1>1, <1>3, <1>5, <3>1, <3>2 DEF Inv, NothingUnderway
  <2>3. ASSUME NEW c, toPlatform = <<b, c>>, ContentUnderway(c, b.fileSize)
        PROVE  Inv'
    <3>1. toPlatform' = <<c>>
      BY <1>2, <2>1, <2>3
    <3>2. c \in Messages(toPlatform)'
      BY <3>1, ShortMessages DEF Messages
    <3>3. ContentUnderway(c, announced)'
      BY <1>3, <1>4, <2>1, <2>3 DEF ContentUnderway
    <3>4. OnlyContentUnderway'
      BY <1>1, <2>1, <3>1, <3>2, <3>3 DEF OnlyContentUnderway
    <3>5. QED
      BY <1>3, <1>5, <3>4 DEF Inv
  <2>4. QED
    BY <2>2, <2>3
<1>8. QED
  BY <1>6, <1>7

\* The bytes of a segment, named by their positions in the file.
LEMMA SegmentBytes ==
    ASSUME NEW offset \in Nat, NEW len \in Nat
    PROVE  /\ [i \in 1..len |-> offset + i] \in Seq(Nat)
           /\ Len([i \in 1..len |-> offset + i]) = len
<1> DEFINE q == [i \in 1..len |-> offset + i]
<1>1. q \in [1..len -> Nat]
  OBVIOUS
<1>2. q \in Seq(Nat)
  BY <1>1, SeqDef
<1>3. DOMAIN q = 1..len
  OBVIOUS
<1> HIDE DEF q
<1>4. Len(q) = len
  BY <1>2, <1>3, LenProperties
<1>5. QED
  BY <1>2, <1>4 DEF q

\* Content is taken in, and its confirm is the next request of the upload.
LEMMA ContentReceived ==
    ASSUME Inv, ClientReceives, NEW c, ContentUnderway(c, announced),
           toPlatform = <<c>>, toGateway = <<>>
    PROVE  Inv'
<1> DEFINE bytes == [i \in 1..c.len |-> c.offset + i]
<1>1. PICK published \in BOOLEAN :
        /\ OnContentMessage(c, published)
        /\ IF published THEN SendToGateway(ConfirmOf(c))
           ELSE UNCHANGED toGateway
  <2>1. Head(toPlatform) = c /\ c.type = "content"
    BY DEF ContentUnderway
  <2>2. \/ OnContentMessage(c, TRUE) /\ SendToGateway(ConfirmOf(c))
        \/ OnContentMessage(c, FALSE) /\ UNCHANGED toGateway
    BY <2>1 DEF ClientReceives, ClientHandles
  <2>3. QED
    BY <2>2
<1>2. online /\ toPlatform' = <<>> /\ UNCHANGED gatewayVars
  BY DEF ClientReceives
<1>3. SessionsWait' /\ connected' = connected /\ uploads' = uploads
  BY <1>2 DEF Inv, SessionsWait, gatewayVars, uploadVars
<1>4. startByte' = startByte /\ announced' = announced
      /\ received' = received \o bytes
      /\ online' = (published /\ c.more)
      /\ transferDone' = (transferDone \/ (published /\ ~c.more))
  BY <1>1 DEF OnContentMessage
<1>5. /\ startByte \in Nat \ {0} /\ announced \in Nat /\ received \in Seq(Nat)
      /\ transferDone = FALSE /\ c.more \in BOOLEAN
  BY <1>2 DEF Inv, ClientOK, ContentUnderway
<1>6. c.offset = Reached /\ c.offset \in Nat /\ c.len \in Nat
  BY <1>5, LenProperties DEF ContentUnderway, Reached
<1>7. /\ received' \in Seq(Nat)
      /\ Len(received') = Len(received) + c.len
  <2>1. bytes \in Seq(Nat) /\ Len(bytes) = c.len
    BY <1>6, SegmentBytes
  <2> HIDE DEF bytes
  <2>2. /\ received \o bytes \in Seq(Nat)
        /\ Len(received \o bytes) = Len(received) + Len(bytes)
    BY <1>5, <2>1, ConcatProperties
  <2>3. received' = received \o bytes
    BY <1>4 DEF bytes
  <2>4. QED
    BY <2>1, <2>2, <2>3
<1>8. Reached' = c.offset + c.len
  BY <1>4, <1>5, <1>6, <1>7, LenProperties DEF Reached
<1>9. ClientOK'
  BY <1>4, <1>5, <1>7 DEF ClientOK
<1>10. CASE published /\ connected
  <2> DEFINE m == ConfirmOf(c)
  <2>1. toGateway' = <<m>>
    BY <1>1, <1>10 DEF SendToGateway
  <2>2. m \in Messages(toGateway)'
    BY <2>1, ShortMessages DEF Messages
  <2>3. ConfirmUnderway(m)'
    BY <1>3, <1>4, <1>8
    DEF ConfirmUnderway, ContentUnderway, ConfirmOf, IsConfirm, Confirms
  <2>4. RequestUnderway'
    BY <1>2, <2>1, <2>2, <2>3 DEF RequestUnderway
  <2>5. QED
    BY <1>3, <1>9, <2>4 DEF Inv
<1>11. CASE ~published \/ ~connected
  <2>1. toGateway' = <<>>
    BY <1>1, <1>11 DEF SendToGateway
  <2>2. NobodyWaits'
    BY <1>3, <1>4, <1>11 DEF NobodyWaits
  <2>3. QED
    BY <1>2, <1>3, <1>9, <2>1, <2>2 DEF Inv, NothingUnderway
<1>12. QED
  BY <1>10, <1>11, <1>2 DEF Inv

\* platform_sim handles a brief or a content, whatever the queue holds.
LEMMA ClientReceivesPreserves ==
    ASSUME Inv, ClientReceives
    PROVE  Inv'
<1>1. toPlatform # <<>>
  BY DEF ClientReceives
<1>2. CASE OnlyBriefUnderway
  <2>1. PICK b : toPlatform = <<b>> /\ BriefUnderway(b)
    BY <1>2 DEF OnlyBriefUnderway
  <2>2. Head(toPlatform) = b
    BY <2>1
  <2>3. QED
    BY <1>2, <2>1, <2>2, BriefReceived DEF OnlyBriefUnderway
<1>3. CASE FirstContentUnderway
  <2>1. PICK b, c : /\ toPlatform = <<b, c>>
                    /\ BriefUnderway(b) /\ b.error = "NONE"
                    /\ ContentUnderway(c, b.fileSize)
    BY <1>3 DEF FirstContentUnderway
  <2>2. Head(toPlatform) = b
    BY <2>1
  <2>3. QED
    BY <1>3, <2>1, <2>2, BriefReceived DEF FirstContentUnderway
<1>4. CASE OnlyContentUnderway
  BY <1>4, ContentReceived DEF OnlyContentUnderway
<1>5. QED
  BY <1>1, <1>2, <1>3, <1>4 DEF Inv, NothingUnderway, RequestUnderway

-----------------------------------------------------------------------------
(* The theorems.  A process of platform_sim is started only when nothing   *)
(* of its predecessor is on its way any more, and no file has so many      *)
(* bytes that the segment numbers of FileSegNo could run out.              *)

\* The inductive invariant.
THEOREM Invariance ==
    ASSUME Hasty = FALSE, MaxFileSize < SegMod
    PROVE  Spec => []Inv
<1>1. Init => Inv
  <2>1. <<>> \in Seq(Nat) /\ 0 \in Nat
    OBVIOUS
  <2>2. Init => ClientOK
    BY <2>1, Zenon DEF Init, ClientInit, ClientOK
  <2>3. Init => SessionsWait /\ NothingUnderway
    BY DEF Init, UploadInit, SessionsWait, NothingUnderway, NobodyWaits
  <2>4. QED
    BY <2>2, <2>3 DEF Inv
<1>2. ASSUME Inv, [Next]_vars
      PROVE  Inv'
  <2>1. CASE ClientStarts
    BY <1>2, <2>1, ClientStartsPreserves
  <2>2. CASE ClientReceives
    BY <1>2, <2>2, ClientReceivesPreserves
  <2>3. CASE ClientLost
    BY <1>2, <2>3, ClientLostPreserves
  <2>4. CASE GatewayReceives
    BY <1>2, <2>4, GatewayReceivesPreserves
  <2>5. CASE Tick \/ Second \/ UNCHANGED vars
    <3>1. /\ uploads' \subseteq uploads /\ connected' = connected
          /\ UNCHANGED <<clientVars, toGateway, toPlatform>>
      BY <2>5 DEF Tick, UploadsTimeout, Second, uploadVars, vars, gatewayVars
    <3>2. QED
      BY <1>2, <3>1, FewerSessions
  <2>6. CASE GatewayDisconnects \/ GatewayRestarts
    <3>1. /\ uploads' \subseteq uploads
          /\ ~connected' \/ uploads' = {}
          /\ toGateway' = <<>> /\ toPlatform' \in OnBroker(toPlatform)
          /\ UNCHANGED clientVars
      BY <2>6 DEF GatewayDisconnects, GatewayRestarts, uploadVars
    <3>2. QED
      BY <1>2, <3>1, GatewayLost
  <2>7. QED
    BY <1>2, <2>1, <2>2, <2>3, <2>4, <2>5, <2>6 DEF Next
<1>3. QED
  BY <1>1, <1>2, PTL DEF Spec

\* Stop and wait: never more than one segment or confirm is underway, and
\* while both ends are there and an upload is active, never less.
THEOREM StopAndWait ==
    ASSUME Hasty = FALSE, MaxFileSize < SegMod
    PROVE  Spec => []OneInFlight
<1> DEFINE Contents ==
         {i \in DOMAIN toPlatform : toPlatform[i].type = "content"}
<1>1. ASSUME Inv
      PROVE  OneInFlight
  <2>1. InFlight = Len(toGateway) + Cardinality(Contents)
    BY DEF InFlight
  <2>2. ASSUME toPlatform = <<>>
        PROVE  Cardinality(Contents) = 0
    <3>1. Contents = {}
      BY <2>2
    <3>2. QED
      BY <3>1, FS_EmptySet
  <2>3. CASE NothingUnderway
    BY <2>1, <2>2, <2>3 DEF NothingUnderway, NobodyWaits, OneInFlight
  <2>4. CASE RequestUnderway
    <3>1. Len(toGateway) = 1 /\ toPlatform = <<>>
      BY <2>4 DEF RequestUnderway
    <3>2. QED
      BY <2>1, <2>2, <3>1 DEF OneInFlight
  <2>5. CASE OnlyBriefUnderway
    <3>1. Contents = {}
      BY <2>5 DEF OnlyBriefUnderway, BriefUnderway
    <3>2. Cardinality(Contents) = 0 /\ Len(toGateway) = 0
      BY <2>5, <3>1, FS_EmptySet DEF OnlyBriefUnderway
    <3>3. QED
      BY <2>1, <2>5, <3>2 DEF OnlyBriefUnderway, NobodyWaits, OneInFlight
  <2>6. ASSUME NEW k, Contents = {k}, toGateway = <<>>
        PROVE  OneInFlight
    <3>1. Cardinality(Contents) = 1 /\ Len(toGateway) = 0
      BY <2>6, FS_Singleton
    <3>2. QED
      BY <2>1, <3>1 DEF OneInFlight
  <2>7. CASE FirstContentUnderway
    <3>1. PICK b, c : /\ toPlatform = <<b, c>>
                      /\ b.type = "brief" /\ c.type = "content"
      BY <2>7 DEF FirstContentUnderway, BriefUnderway, ContentUnderway
    <3>2. Contents = {2}
      BY <3>1
    <3>3. QED
      BY <2>6, <2>7, <3>2 DEF FirstContentUnderway
  <2>8. CASE OnlyContentUnderway
    <3>1. PICK c : toPlatform = <<c>> /\ c.type = "content"
      BY <2>8 DEF OnlyContentUnderway, ContentUnderway
    <3>2. Contents = {1}
      BY <3>1
    <3>3. QED
      BY <2>6, <2>8, <3>2 DEF OnlyContentUnderway
  <2>9. QED
    BY <1>1, <2>3, <2>4, <2>5, <2>7, <2>8 DEF Inv
<1>2. QED
  BY <1>1, Invariance, PTL

\* A confirm that reaches an active upload is the one it waits for.
THEOREM NoWrongConfirm ==
    ASSUME Hasty = FALSE, MaxFileSize < SegMod
    PROVE  Spec => []ConfirmsExpected
<1>1. ASSUME Inv
      PROVE  ConfirmsExpected
  <2>1. CASE toGateway = <<>>
    BY <2>1 DEF ConfirmsExpected
  <2>2. CASE RequestUnderway
    <3>1. PICK m :
             toGateway = <<m>> /\ (SummonUnderway(m) \/ ConfirmUnderway(m))
      BY <2>2 DEF RequestUnderway
    <3>2. SummonUnderway(m) => ~IsConfirm(m)
      BY DEF SummonUnderway, SummonMessage, IsConfirm
    <3>3. ASSUME NEW s \in uploads, ConfirmUnderway(m)
          PROVE  WaitsFor(s, m) /\ Confirms(m, s)
      BY <1>1, <3>3 DEF Inv, SessionsWait, ConfirmUnderway, WaitsFor, Waits
    <3>4. \A i \in DOMAIN toGateway : toGateway[i] = m
      BY <3>1
    <3>5. QED
      BY <3>1, <3>2, <3>3, <3>4 DEF ConfirmsExpected
  <2>3. QED
    BY <1>1, <2>1, <2>2 DEF Inv, NothingUnderway, OnlyBriefUnderway,
                            FirstContentUnderway, OnlyContentUnderway
<1>2. QED
  BY <1>1, Invariance, PTL

\* The content that is handled is the next of what was asked for, and no
\* process that has taken the file for complete is sent any more.
LEMMA ContentDelivers ==
    ASSUME Inv, ClientReceives, OnlyContentUnderway
    PROVE  Delivery!Deliver
<1>1. PICK c : toPlatform = <<c>> /\ ContentUnderway(c, announced)
  BY DEF OnlyContentUnderway
<1> DEFINE upTo == c.offset + c.len
<1>2. PICK published \in BOOLEAN : OnContentMessage(c, published)
  <2>1. Head(toPlatform) = c /\ c.type = "content"
    BY <1>1 DEF ContentUnderway
  <2>2. QED
    BY <2>1 DEF ClientReceives, ClientHandles
<1>3. /\ startByte \in Nat \ {0} /\ announced \in Nat /\ received \in Seq(Nat)
      /\ transferDone = FALSE
  BY DEF Inv, ClientOK, ClientReceives
<1>4. /\ c.offset = Reached /\ c.offset \in Nat /\ c.len \in Nat \ {0}
      /\ upTo <= announced /\ c.more = (upTo < announced)
  BY <1>1, <1>3, LenProperties DEF ContentUnderway, Reached
<1>5. upTo \in (c.offset + 1)..announced /\ upTo - c.offset = c.len
  BY <1>3, <1>4
<1>6. received' = received \o Delivery!Bytes(c.offset, upTo)
  BY <1>2, <1>5 DEF OnContentMessage, Delivery!Bytes
<1>7. transferDone' \in {FALSE, upTo = announced}
  <2>1. transferDone' = (published /\ ~c.more)
    BY <1>2, <1>3 DEF OnContentMessage
  <2>2. CASE c.more
    BY <2>1, <2>2
  <2>3. CASE ~c.more
    <3>1. ~(upTo < announced)
      BY <1>4, <2>3, Zenon
    <3>2. upTo = announced
      BY <1>3, <1>4, <3>1
    <3>3. QED
      BY <2>1, <2>3, <3>2
  <2>4. QED
    BY <2>2, <2>3
<1>8. UNCHANGED <<startByte, announced>>
  BY <1>2 DEF OnContentMessage
<1> HIDE DEF upTo
<1>9. QED
  BY <1>3, <1>4, <1>5, <1>6, <1>7, <1>8 DEF Delivery!Deliver, Reached

\* The brief that is handled announces a file that reaches to the byte asked
\* for; a refusal announces none.
LEMMA BriefAnnounces ==
    ASSUME Inv, ClientReceives, NEW b, Head(toPlatform) = b, BriefUnderway(b)
    PROVE  Delivery!Announce \/ UNCHANGED Delivery!vars
<1>1. OnBriefMessage(b) /\ startByte \in Nat \ {0}
  BY DEF ClientReceives, ClientHandles, BriefUnderway, Inv, ClientOK
<1>2. CASE b.error = "NONE"
  BY <1>1, <1>2 DEF OnBriefMessage, BriefUnderway, Delivery!Announce
<1>3. CASE b.error # "NONE"
  BY <1>1, <1>3 DEF OnBriefMessage, Delivery!vars
<1>4. QED
  BY <1>2, <1>3

\* The upload implements FileDelivery: the platform is told the size first,
\* then receives the bytes from the one it asked for on, each once, in order
\* and none past the end, and takes the file for complete at the last one.
THEOREM UploadDelivers ==
    ASSUME Hasty = FALSE, MaxFileSize < SegMod
    PROVE  Spec => DeliversInOrder
<1>1. Init => Delivery!Init
  BY DEF Init, ClientInit, Delivery!Init
<1>2. ASSUME Inv, [Next]_vars
      PROVE  [Delivery!Next]_(Delivery!vars)
  <2>1. ASSUME ClientStarts
        PROVE  Delivery!Ask
    BY <2>1, UploadAssumption DEF ClientStarts, StartClient, Delivery!Ask
  <2>2. ASSUME ClientReceives
        PROVE  \/ Delivery!Deliver \/ Delivery!Announce
               \/ UNCHANGED Delivery!vars
    <3>1. CASE OnlyContentUnderway
      BY <1>2, <2>2, <3>1, ContentDelivers
    <3>2. CASE OnlyBriefUnderway \/ FirstContentUnderway
      <4>1. PICK b : Head(toPlatform) = b /\ BriefUnderway(b)
        BY <3>2 DEF OnlyBriefUnderway, FirstContentUnderway
      <4>2. QED
        BY <1>2, <2>2, <4>1, BriefAnnounces
    <3>3. toPlatform # <<>>
      BY <2>2 DEF ClientReceives
    <3>4. QED
      BY <1>2, <3>1, <3>2, <3>3 DEF Inv, NothingUnderway, RequestUnderway
  <2>3. CASE \/ ClientLost \/ GatewayReceives \/ Tick \/ Second
             \/ GatewayDisconnects \/ GatewayRestarts \/ UNCHANGED vars
    BY <2>3 DEF ClientLost, LoseClient, GatewayReceives, Tick, Second,
                GatewayDisconnects, GatewayRestarts, vars, clientVars,
                Delivery!vars
  <2>4. QED
    BY <1>2, <2>1, <2>2, <2>3 DEF Next, Delivery!Next
<1>3. QED
  BY <1>1, <1>2, Invariance, PTL DEF Spec, DeliversInOrder, Delivery!Spec
=============================================================================
