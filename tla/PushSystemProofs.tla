--------------------------- MODULE PushSystemProofs ---------------------------
(***************************************************************************)
(* PushSystem keeps what platform_sim reports of a push, for every value   *)
(* of the constants.                                                       *)
(***************************************************************************)
EXTENDS PushSystem, DataProofs

-----------------------------------------------------------------------------
(* Strings of bytes and files.                                             *)

\* A segment and a CRC stand for strings of bytes.
LEMMA BytesAreSeq ==
    ASSUME NEW n \in Nat
    PROVE  BytesUpTo(n) \subseteq Seq(Byte)
BY SeqDef DEF BytesUpTo

\* A write at the end of a file appends to this file and leaves the others.
LEMMA WriteAtEnd ==
    ASSUME NEW d \in [Files -> Seq(Byte)], NEW f \in Files,
           NEW offset \in Nat, offset = Len(d[f]), NEW bytes \in Seq(Byte)
    PROVE  /\ WriteAt(d, f, offset, bytes) \in [Files -> Seq(Byte)]
           /\ WriteAt(d, f, offset, bytes)[f] \in Seq(Byte)
           /\ Len(WriteAt(d, f, offset, bytes)[f]) = offset + Len(bytes)
           /\ WriteAt(d, f, offset, bytes)[f] = d[f] \o bytes
<1> DEFINE new == SubSeq(d[f], 1, offset) \o bytes
                      \o SubSeq(d[f], offset + Len(bytes) + 1, Len(d[f]))
<1>1. new \in Seq(Byte) /\ Len(new) = offset + Len(bytes) /\ new = d[f] \o bytes
  <2> DEFINE b == d[f]
  <2>1. b \in Seq(Byte) /\ offset = Len(b)
    OBVIOUS
  <2> HIDE DEF b
  <2>2. /\ b \o bytes \in Seq(Byte) /\ Len(b \o bytes) = Len(b) + Len(bytes)
        /\ SubSeq(b, 1, Len(b)) \o bytes
             \o SubSeq(b, Len(b) + Len(bytes) + 1, Len(b)) = b \o bytes
    BY <2>1, OverwriteAtEnd
  <2> QED BY <2>1, <2>2 DEF b
<1>2. WriteAt(d, f, offset, bytes) = [d EXCEPT ![f] = new]
  BY DEF WriteAt
<1> HIDE DEF new
<1> QED BY <1>1, <1>2

\* The messages of a queue.
Messages(q) == {q[i] : i \in DOMAIN q}

\* The gateway has one session at most, and its handle is that of its path.
GatewayOK ==
    /\ pushes \subseteq PushSession
    /\ writeHandles \subseteq [cmdId : CmdIds, file : Files]
    /\ disk \in [Files -> Seq(Byte)]
    /\ \A s, q \in pushes : s = q
    /\ \A s \in pushes : s.cmdId = PushCmdId
    /\ \A h \in writeHandles :
        h.cmdId = PushCmdId /\ \E s \in pushes : h.file = s.file

ClientOK ==
    /\ data \in BytesUpTo(MaxPushSize)
    /\ pushOffset \in 0..Len(data) /\ pushNextSegNo \in Nat
    /\ online \in BOOLEAN /\ pushBriefOk \in BOOLEAN /\ pushDone \in BOOLEAN
    /\ online => data # <<>> /\ ~pushDone

\* The session is that of the data platform_sim has, and has put the first n
\* bytes of them on the disk.
Receiving(s, n) ==
    /\ s.file = path
    /\ s.expectedFileSize = Len(data) /\ s.expectedFileCrc = data
    /\ s.bytesWritten = n
    /\ disk[path] = SubSeq(data, 1, n)

AllReceiving(n) == \A s \in pushes : Receiving(s, n)

\* No push waits for an answer to something that is not underway.
NobodyWaits == online /\ connected => pushes = {}

NothingUnderway == toGateway = <<>> /\ toPlatform = <<>> /\ NobodyWaits

\* A brief; the gateway may still have the session of an earlier process.
BriefUnderway ==
    /\ toGateway = <<BriefMessage(path, data)>> /\ toPlatform = <<>>
    /\ path \in Files /\ data # <<>>
    /\ pushOffset = 0 /\ ~pushDone

BriefConfirmUnderway(m) ==
    /\ m.type = "pushBriefConfirm"
    /\ m.error = "NONE" => pushOffset = 0 /\ AllReceiving(0)

\* The segment that ends at pushOffset.
ContentUnderway(m) ==
    /\ m.type = "pushContent" /\ m.cmdId = PushCmdId
    /\ m.more = (pushOffset < Len(data))
    /\ \E n \in 0..Len(data) :
        /\ n < pushOffset
        /\ m.content = SubSeq(data, n + 1, pushOffset)
        /\ AllReceiving(n)

\* When all data have been sent, a confirm without an error says that they
\* are there.
ContentConfirmUnderway(m) ==
    /\ m.type = "pushContentConfirm"
    /\ m.error = "NONE" =>
        /\ pushBriefOk
        /\ IF pushOffset < Len(data) THEN AllReceiving(pushOffset)
                                     ELSE disk[path] = data

SegmentUnderway ==
    /\ toPlatform = <<>> /\ path \in Files /\ pushBriefOk /\ ~pushDone
    /\ \E m \in Messages(toGateway) : toGateway = <<m>> /\ ContentUnderway(m)

AnswerUnderway ==
    /\ online /\ toGateway = <<>> /\ path \in Files
    /\ \E m \in Messages(toPlatform) :
        /\ toPlatform = <<m>>
        /\ BriefConfirmUnderway(m) \/ ContentConfirmUnderway(m)

\* The inductive invariant.
Inv ==
    /\ GatewayOK
    /\ ClientOK
    /\ PushedFileIsComplete
    /\ \/ NothingUnderway \/ BriefUnderway \/ SegmentUnderway \/ AnswerUnderway

-----------------------------------------------------------------------------
(* Queues and data.                                                        *)

\* What is left of a queue of at most one message when its sender is lost.
LEMMA ShortOnBroker ==
    ASSUME NEW m
    PROVE  /\ OnBroker(<<>>) = {<<>>}
           /\ OnBroker(<<m>>) = {<<>>, <<m>>}
<1> DEFINE S == {m}
<1>1. ASSUME NEW q \in Seq(S)
      PROVE  SubSeq(q, 1, 0) = <<>> /\ SubSeq(q, 1, Len(q)) = q
  BY SubSeqEmpty, SubSeqFull
<1>2. OnBroker(<<>>) = {<<>>}
  <2> DEFINE q == <<>>
  <2>1. q \in Seq(S) /\ Len(q) = 0
    OBVIOUS
  <2>2. 0..0 = {0}
    OBVIOUS
  <2> HIDE DEF q, S
  <2>3. OnBroker(q) = {SubSeq(q, 1, 0)}
    BY <2>1, <2>2 DEF OnBroker
  <2>4. QED
    BY <1>1, <2>1, <2>3 DEF q
<1>3. OnBroker(<<m>>) = {<<>>, <<m>>}
  <2> DEFINE q == <<m>>
  <2>1. q \in Seq(S) /\ Len(q) = 1
    OBVIOUS
  <2>2. 0..1 = {0, 1}
    OBVIOUS
  <2> HIDE DEF q, S
  <2>3. OnBroker(q) = {SubSeq(q, 1, 0), SubSeq(q, 1, 1)}
    BY <2>1, <2>2 DEF OnBroker
  <2>4. QED
    BY <1>1, <2>1, <2>3 DEF q
<1>4. QED
  BY <1>2, <1>3

\* The message of a queue of one.
LEMMA OnlyMessage ==
    ASSUME NEW m
    PROVE  m \in Messages(<<m>>) /\ Head(<<m>>) = m /\ Tail(<<m>>) = <<>>
BY DEF Messages

\* The data of a push are a string of bytes, and so is the part sent so far.
LEMMA DataAreBytes ==
    ASSUME ClientOK
    PROVE  /\ data \in Seq(Byte) /\ Len(data) \in Nat /\ pushOffset \in Nat
           /\ Len(data) <= MaxPushSize
           /\ data # <<>> => Len(data) > 0
           /\ SubSeq(data, 1, 0) = <<>>
           /\ SubSeq(data, 1, Len(data)) = data
<1>1. data \in Seq(Byte)
  BY BytesAreSeq, PushAssumption DEF ClientOK
<1>2. Len(data) <= MaxPushSize
  <2>1. PICK k \in 0..MaxPushSize : data \in [1..k -> Byte]
    BY PushAssumption DEF ClientOK, BytesUpTo
  <2>2. DOMAIN data = 1..k /\ DOMAIN data = 1..Len(data) /\ Len(data) \in Nat
    BY <1>1, <2>1, LenProperties
  <2>3. k \in Nat /\ Len(data) = k
    BY <2>2, PushAssumption
  <2>4. QED
    BY <2>1, <2>3, PushAssumption
<1>3. QED
  BY <1>1, <1>2, LenProperties, EmptySeq, SubSeqEmpty, SubSeqFull DEF ClientOK

-----------------------------------------------------------------------------
(* Losses.                                                                 *)

\* Sessions may go at any time, whoever counts on them.
LEMMA FewerSessions ==
    ASSUME Inv, pushes' \in {pushes, {}},
           writeHandles' = IF pushes' = {} THEN {} ELSE writeHandles,
           disk' = disk, connected' => connected,
           UNCHANGED <<clientVars, toGateway, toPlatform>>
    PROVE  Inv'
<1> USE DEF clientVars
<1>1. GatewayOK' /\ ClientOK' /\ PushedFileIsComplete'
  <2>1. pushes' = pushes => writeHandles' = writeHandles
    BY DEF Inv, GatewayOK
  <2>2. GatewayOK'
    BY <2>1 DEF Inv, GatewayOK
  <2>3. QED
    BY <2>2 DEF Inv, ClientOK, PushedFileIsComplete
<1>2. /\ Messages(toGateway)' = Messages(toGateway)
      /\ Messages(toPlatform)' = Messages(toPlatform)
  BY DEF Messages
<1>3. ASSUME NEW n, AllReceiving(n)
      PROVE  AllReceiving(n)'
  BY <1>3 DEF AllReceiving, Receiving
<1>4. ASSUME NEW m
      PROVE  /\ BriefConfirmUnderway(m) => BriefConfirmUnderway(m)'
             /\ ContentUnderway(m) => ContentUnderway(m)'
             /\ ContentConfirmUnderway(m) => ContentConfirmUnderway(m)'
  BY <1>3 DEF BriefConfirmUnderway, ContentUnderway, ContentConfirmUnderway
<1>5. NothingUnderway => NothingUnderway'
  BY DEF NothingUnderway, NobodyWaits
<1>6. BriefUnderway => BriefUnderway'
  BY DEF BriefUnderway
<1>7. SegmentUnderway => SegmentUnderway'
  BY <1>2, <1>4 DEF SegmentUnderway
<1>8. AnswerUnderway => AnswerUnderway'
  BY <1>2, <1>4 DEF AnswerUnderway
<1>9. QED
  BY <1>1, <1>5, <1>6, <1>7, <1>8 DEF Inv

\* The gateway's end of the connection goes, or all of the gateway.
LEMMA GatewayLost ==
    ASSUME Inv, pushes' \in {pushes, {}},
           writeHandles' = IF pushes' = {} THEN {} ELSE writeHandles,
           ~connected' \/ pushes' = {}, disk' = disk,
           toGateway' = <<>>, toPlatform' \in OnBroker(toPlatform),
           UNCHANGED clientVars
    PROVE  Inv'
<1> USE DEF clientVars
<1>1. GatewayOK' /\ ClientOK' /\ PushedFileIsComplete'
  <2>1. pushes' = pushes => writeHandles' = writeHandles
    BY DEF Inv, GatewayOK
  <2>2. GatewayOK'
    BY <2>1 DEF Inv, GatewayOK
  <2>3. QED
    BY <2>2 DEF Inv, ClientOK, PushedFileIsComplete
<1>2. toPlatform' = <<>> => Inv'
  BY <1>1 DEF Inv, NothingUnderway, NobodyWaits
<1>3. CASE toPlatform = <<>>
  <2>1. OnBroker(<<>>) = {<<>>}
    BY ShortOnBroker
  <2>2. QED
    BY <1>2, <1>3, <2>1
<1>4. CASE AnswerUnderway
  <2>1. PICK m : /\ toPlatform = <<m>>
                 /\ BriefConfirmUnderway(m) \/ ContentConfirmUnderway(m)
    BY <1>4 DEF AnswerUnderway
  <2>2. CASE toPlatform' = <<m>>
    <3>1. m \in Messages(toPlatform)'
      BY <2>2, OnlyMessage DEF Messages
    <3>2. ASSUME NEW n, AllReceiving(n)
          PROVE  AllReceiving(n)'
      BY <3>2 DEF AllReceiving, Receiving
    <3>3. BriefConfirmUnderway(m)' \/ ContentConfirmUnderway(m)'
      BY <2>1, <3>2 DEF BriefConfirmUnderway, ContentConfirmUnderway
    <3>4. AnswerUnderway'
      BY <1>4, <2>2, <3>1, <3>3 DEF AnswerUnderway
    <3>5. QED
      BY <1>1, <3>4 DEF Inv
  <2>3. QED
    BY <1>2, <2>1, <2>2, ShortOnBroker
<1>5. QED
  BY <1>3, <1>4 DEF Inv, NothingUnderway, BriefUnderway, SegmentUnderway

\* A process that goes leaves what it has sent, or not even that.
LEMMA ClientLostPreserves ==
    ASSUME Inv, ClientLost
    PROVE  Inv'
<1> USE DEF ClientLost, LoseClient, gatewayVars, pushVars
<1>1. GatewayOK' /\ ClientOK' /\ PushedFileIsComplete'
  BY DEF Inv, GatewayOK, ClientOK, PushedFileIsComplete
<1>2. toGateway' = <<>> => Inv'
  BY <1>1 DEF Inv, NothingUnderway, NobodyWaits
<1>3. ASSUME NEW n, AllReceiving(n)
      PROVE  AllReceiving(n)'
  BY <1>3 DEF AllReceiving, Receiving
<1>4. CASE BriefUnderway
  <2>1. toGateway' = <<>> \/ toGateway' = toGateway
    BY <1>4, ShortOnBroker DEF BriefUnderway
  <2>2. CASE toGateway' = toGateway
    BY <1>1, <1>4, <2>2 DEF Inv, BriefUnderway
  <2>3. QED
    BY <1>2, <2>1, <2>2
<1>5. CASE SegmentUnderway
  <2>1. PICK m : toGateway = <<m>> /\ ContentUnderway(m)
    BY <1>5 DEF SegmentUnderway
  <2>2. CASE toGateway' = <<m>>
    <3>1. m \in Messages(toGateway)'
      BY <2>2, OnlyMessage DEF Messages
    <3>2. ContentUnderway(m)'
      BY <1>3, <2>1 DEF ContentUnderway
    <3>3. SegmentUnderway'
      BY <1>5, <2>2, <3>1, <3>2 DEF SegmentUnderway
    <3>4. QED
      BY <1>1, <3>3 DEF Inv
  <2>3. QED
    BY <1>2, <2>1, <2>2, ShortOnBroker
<1>6. CASE toGateway = <<>>
  <2>1. OnBroker(<<>>) = {<<>>}
    BY ShortOnBroker
  <2>2. QED
    BY <1>2, <1>6, <2>1
<1>7. QED
  BY <1>4, <1>5, <1>6 DEF Inv, NothingUnderway, AnswerUnderway

-----------------------------------------------------------------------------
(* platform_sim's steps.                                                   *)

\* A process that is started without haste finds nothing on its way to the
\* gateway, but perhaps the session of an earlier one.
LEMMA ClientStartsPreserves ==
    ASSUME Hasty = FALSE, Inv, ClientStarts
    PROVE  Inv'
<1>1. PICK f \in Files, bytes \in BytesUpTo(MaxPushSize) :
        StartClient(f, bytes) /\ SendToGateway(<<BriefMessage(f, bytes)>>)
  BY DEF ClientStarts
<1>2. toGateway = <<>> /\ toPlatform' = <<>> /\ UNCHANGED gatewayVars
  BY DEF ClientStarts
<1>3. GatewayOK' /\ connected' = connected
  BY <1>2 DEF Inv, GatewayOK, gatewayVars, pushVars
<1>4. /\ online' = TRUE /\ path' = f /\ data' = bytes /\ bytes # <<>>
      /\ pushOffset' = 0 /\ pushNextSegNo' = 1
      /\ pushBriefOk' = FALSE /\ pushDone' = FALSE
  BY <1>1 DEF StartClient
<1>5. ClientOK'
  <2>1. bytes \in Seq(Byte)
    BY BytesAreSeq, PushAssumption
  <2>2. 0 \in 0..Len(bytes) /\ 1 \in Nat
    BY <2>1, LenProperties
  <2>3. QED
    BY <1>4, <2>2 DEF ClientOK
<1>6. PushedFileIsComplete'
  BY <1>4 DEF PushedFileIsComplete
<1>7. CASE connected
  <2>1. toGateway' = <<BriefMessage(f, bytes)>>
    BY <1>1, <1>2, <1>7, ConcatEmptySeq DEF SendToGateway
  <2>2. BriefUnderway'
    BY <1>2, <1>4, <2>1 DEF BriefUnderway, BriefMessage
  <2>3. QED
    BY <1>3, <1>5, <1>6, <2>2 DEF Inv
<1>8. CASE ~connected
  <2>1. toGateway' = <<>>
    BY <1>1, <1>2, <1>8 DEF SendToGateway
  <2>2. NothingUnderway'
    BY <1>2, <1>3, <1>8, <2>1 DEF NothingUnderway, NobodyWaits
  <2>3. QED
    BY <1>3, <1>5, <1>6, <2>2 DEF Inv
<1>9. QED
  BY <1>7, <1>8

\* The next segment is that of the bytes the gateway expects next.
LEMMA SegmentSent ==
    ASSUME Inv, path \in Files, ~pushDone, toGateway = <<>>,
           pushOffset < Len(data), NEW n, n = pushOffset, AllReceiving(n),
           SendNextPushSegment(TRUE), SendToGateway(SegmentsSent),
           toPlatform' = <<>>, pushBriefOk' = TRUE,
           UNCHANGED <<gatewayVars, online, path, data, pushDone>>
    PROVE  Inv'
<1>1. pushOffset' = SegmentEnd /\ pushNextSegNo' = pushNextSegNo + 1
  BY DEF SendNextPushSegment
<1>2. /\ n \in Nat /\ Len(data) \in Nat /\ pushNextSegNo \in Nat
      /\ PushChunkSize \in Nat \ {0}
  BY DataAreBytes, PushChunkAssumption DEF Inv, ClientOK
<1>3. SegmentEnd \in 0..Len(data) /\ n < SegmentEnd /\ n \in 0..Len(data)
  BY <1>2 DEF SegmentEnd
<1>4. UNCHANGED <<pushes, writeHandles, disk, connected, online, path, data,
                  pushDone>>
  BY DEF gatewayVars, pushVars
<1>5. GatewayOK' /\ PushedFileIsComplete'
  BY <1>4 DEF Inv, GatewayOK, PushedFileIsComplete
<1>6. ClientOK'
  <2>1. pushNextSegNo + 1 \in Nat
    BY <1>2
  <2>2. QED
    BY <1>1, <1>3, <1>4, <2>1 DEF Inv, ClientOK
<1>7. SegmentsSent = <<NextSegment>>
  BY <1>1, <1>2 DEF SegmentsSent
<1>8. CASE connected
  <2>1. PICK m : m = NextSegment
    OBVIOUS
  <2>2. toGateway' = <<m>>
    BY <1>7, <1>8, <2>1, ConcatEmptySeq DEF SendToGateway
  <2>3. /\ m.type = "pushContent" /\ m.cmdId = PushCmdId
        /\ m.content = SubSeq(data, n + 1, pushOffset')
        /\ m.more = (pushOffset' < Len(data))
    BY <1>1, <2>1 DEF NextSegment
  <2>4. AllReceiving(n)'
    BY <1>4 DEF AllReceiving, Receiving
  <2>5. ContentUnderway(m)'
    BY <1>1, <1>3, <1>4, <2>3, <2>4 DEF ContentUnderway
  <2>6. m \in Messages(toGateway)'
    BY <2>2, OnlyMessage DEF Messages
  <2>7. SegmentUnderway'
    BY <1>4, <2>2, <2>5, <2>6 DEF SegmentUnderway
  <2>8. QED
    BY <1>5, <1>6, <2>7 DEF Inv
<1>9. CASE ~connected
  <2>1. toGateway' = <<>>
    BY <1>9 DEF SendToGateway
  <2>2. NothingUnderway'
    BY <1>4, <1>9, <2>1 DEF NothingUnderway, NobodyWaits
  <2>3. QED
    BY <1>5, <1>6, <2>2 DEF Inv
<1>10. QED
  BY <1>8, <1>9

\* A process that ends sends nothing more, and no push counts on it.
LEMMA ClientEnds ==
    ASSUME Inv, toGateway = <<>>, pushNextSegNo' = pushNextSegNo,
           SendToGateway(SegmentsSent), toPlatform' = <<>>,
           online' = FALSE, ClientOK', PushedFileIsComplete',
           UNCHANGED gatewayVars
    PROVE  Inv'
<1>1. SegmentsSent = <<>>
  BY DEF SegmentsSent
<1>2. toGateway' = <<>>
  BY <1>1, ConcatEmptySeq DEF SendToGateway
<1>3. GatewayOK'
  BY DEF Inv, GatewayOK, gatewayVars, pushVars
<1>4. QED
  BY <1>2, <1>3 DEF Inv, NothingUnderway, NobodyWaits

\* Any answer without an error is to what was sent last, so that it is right
\* to send the next segment, or to take the push for done.
LEMMA ClientReceivesPreserves ==
    ASSUME Inv, ClientReceives
    PROVE  Inv'
<1>1. AnswerUnderway
  BY DEF Inv, ClientReceives, NothingUnderway, BriefUnderway, SegmentUnderway
<1>2. PICK m : /\ toPlatform = <<m>>
               /\ BriefConfirmUnderway(m) \/ ContentConfirmUnderway(m)
  BY <1>1 DEF AnswerUnderway
<1>3. /\ Head(toPlatform) = m /\ Tail(toPlatform) = <<>> /\ toPlatform' = <<>>
      /\ online /\ path \in Files /\ toGateway = <<>>
      /\ SendToGateway(SegmentsSent) /\ UNCHANGED gatewayVars
  BY <1>1, <1>2, OnlyMessage DEF ClientReceives, AnswerUnderway
<1>4. /\ data # <<>> /\ pushDone = FALSE /\ Len(data) \in Nat /\ Len(data) > 0
      /\ pushOffset \in Nat
  BY <1>3, DataAreBytes DEF Inv, ClientOK
<1>5. ASSUME GiveUp, pushDone' = pushDone, UNCHANGED <<path, data>>
      PROVE  Inv'
  <2>1. ClientOK' /\ PushedFileIsComplete' /\ pushNextSegNo' = pushNextSegNo
        /\ online' = FALSE
    BY <1>4, <1>5 DEF GiveUp, Inv, ClientOK, PushedFileIsComplete
  <2>2. QED
    BY <1>3, <2>1, ClientEnds
<1>6. CASE BriefConfirmUnderway(m)
  <2>1. OnPushBriefConfirm(m)
    BY <1>3, <1>6 DEF ClientReceives, BriefConfirmUnderway
  <2>2. CASE Refused(m)
    BY <1>4, <1>5, <2>1, <2>2 DEF OnPushBriefConfirm
  <2>3. CASE ~Refused(m)
    <3>1. pushOffset = 0 /\ AllReceiving(0)
      BY <1>6, <2>3 DEF BriefConfirmUnderway, Refused
    <3>2. /\ SendNextPushSegment(TRUE) /\ pushBriefOk' = TRUE
          /\ UNCHANGED <<online, path, data, pushDone>>
      BY <2>1, <2>3 DEF OnPushBriefConfirm
    <3>3. QED
      BY <1>3, <1>4, <3>1, <3>2, SegmentSent
  <2>4. QED
    BY <2>2, <2>3
<1>7. CASE ContentConfirmUnderway(m)
  <2>1. OnPushContentConfirm(m)
    BY <1>3, <1>7 DEF ClientReceives, ContentConfirmUnderway
  <2>2. CASE Refused(m)
    BY <1>5, <2>1, <2>2 DEF OnPushContentConfirm
  <2>3. CASE ~Refused(m) /\ pushOffset < Len(data)
    <3>1. PICK n : n = pushOffset
      OBVIOUS
    <3>2. pushBriefOk /\ AllReceiving(n)
      BY <1>7, <2>3, <3>1 DEF ContentConfirmUnderway, Refused
    <3>3. ~(pushOffset >= Len(data)) /\ pushBriefOk = TRUE
      BY <1>4, <2>3, <3>2 DEF Inv, ClientOK
    <3>4. /\ SendNextPushSegment(TRUE)
          /\ UNCHANGED <<online, path, data, pushDone, pushBriefOk>>
      BY <1>4, <2>1, <2>3, <3>3 DEF OnPushContentConfirm
    <3>5. QED
      BY <1>3, <1>4, <2>3, <3>1, <3>2, <3>3, <3>4, SegmentSent
  <2>4. CASE ~Refused(m) /\ ~(pushOffset < Len(data))
    <3>1. disk[path] = data
      BY <1>7, <2>4 DEF ContentConfirmUnderway, Refused
    <3>2. pushOffset >= Len(data)
      BY <1>4, <2>4
    <3>3. /\ pushDone' \in BOOLEAN /\ online' = FALSE
          /\ UNCHANGED <<pushOffset, pushNextSegNo, pushBriefOk, path, data>>
      BY <2>1, <2>4, <3>2 DEF OnPushContentConfirm
    <3>4. ClientOK'
      BY <3>3 DEF Inv, ClientOK
    <3>5. PushedFileIsComplete'
      BY <1>3, <3>1, <3>3 DEF PushedFileIsComplete, gatewayVars, pushVars
    <3>6. QED
      BY <1>3, <3>3, <3>4, <3>5, ClientEnds
  <2>5. QED
    BY <2>2, <2>3, <2>4
<1>8. QED
  BY <1>2, <1>6, <1>7

-----------------------------------------------------------------------------
(* The gateway's steps.                                                    *)

\* An answer goes to the process that waits for it, if it is still there.
LEMMA Answered ==
    ASSUME Inv, toPlatform = <<>>, path \in Files, ~pushDone,
           GatewayOK', toGateway' = <<>>,
           NEW m, out' = <<m>>,
           BriefConfirmUnderway(m)' \/ ContentConfirmUnderway(m)',
           toPlatform' = IF online THEN toPlatform \o out' ELSE toPlatform,
           UNCHANGED clientVars
    PROVE  Inv'
<1>1. ClientOK' /\ PushedFileIsComplete'
  BY DEF Inv, ClientOK, PushedFileIsComplete, clientVars
<1>2. CASE online
  <2>1. toPlatform' = <<m>>
    BY <1>2, ConcatEmptySeq
  <2>2. m \in Messages(toPlatform)'
    BY <2>1, OnlyMessage DEF Messages
  <2>3. AnswerUnderway'
    BY <1>2, <2>1, <2>2 DEF AnswerUnderway, clientVars
  <2>4. QED
    BY <1>1, <2>3 DEF Inv
<1>3. CASE ~online
  BY <1>1, <1>3 DEF Inv, NothingUnderway, NobodyWaits, clientVars
<1>4. QED
  BY <1>2, <1>3

\* A brief: refused, or the path is empty and there is a new session.
LEMMA BriefReceived ==
    ASSUME Inv, BriefUnderway, GatewayReceives
    PROVE  Inv'
<1> USE DEF GatewayReceives
<1>1. PICK m : m = BriefMessage(path, data)
  OBVIOUS
<1>2. /\ m.type = "pushBrief" /\ m.cmdId = PushCmdId /\ m.file = path
      /\ m.fileSize = Len(data) /\ m.fileCrc = data
  BY <1>1 DEF BriefMessage
<1>3. /\ toPlatform = <<>> /\ path \in Files /\ ~pushDone /\ pushOffset = 0
      /\ Head(toGateway) = m /\ toGateway' = <<>>
  BY <1>1, OnlyMessage DEF BriefUnderway
<1>4. OnPushBrief(m, FALSE) /\ UNCHANGED clientVars
  BY <1>2, <1>3
<1>5. ASSUME NEW error, error # "NONE",
             Publish(<<PushBriefConfirm(m.cmdId, error)>>),
             UNCHANGED pushVars
      PROVE  Inv'
  <2> DEFINE x == PushBriefConfirm(m.cmdId, error)
  <2>1. x.type = "pushBriefConfirm" /\ x.error # "NONE"
    BY <1>5 DEF PushBriefConfirm
  <2>2. out' = <<x>>
    BY <1>5 DEF Publish
  <2> HIDE DEF x
  <2>3. BriefConfirmUnderway(x)'
    BY <2>1 DEF BriefConfirmUnderway
  <2>4. GatewayOK'
    BY <1>5 DEF Inv, GatewayOK, pushVars
  <2>5. QED
    BY <1>3, <1>4, <2>2, <2>3, <2>4, Answered
<1>6. CASE RefusePushBrief(m, FALSE)
  BY <1>5, <1>6 DEF RefusePushBrief
<1>7. CASE AcceptPushBrief(m, FALSE)
  <2> DEFINE s == [cmdId |-> m.cmdId, file |-> m.file,
                   expectedFileSize |-> m.fileSize,
                   expectedFileCrc |-> m.fileCrc,
                   bytesWritten |-> 0, nextSegNo |-> 1, state |-> "BriefOk"]
             h == [cmdId |-> m.cmdId, file |-> m.file]
             x == PushBriefConfirm(m.cmdId, "NONE")
  <2>1. pushes = {} /\ writeHandles = {}
    BY <1>7 DEF AcceptPushBrief, HasActiveSession, Inv, GatewayOK
  <2>2. pushes' = {s}
    BY <1>7, <2>1 DEF AcceptPushBrief, Put, Without
  <2>3. writeHandles' = {h}
    BY <1>7, <2>1 DEF AcceptPushBrief, Emplace, Ids
  <2>4. s \in PushSession
    BY <1>2, <1>3, ClientCmdIdAssumption, DataAreBytes, SegModAssumption,
       PushAssumption
    DEF PushSession, Inv, ClientOK
  <2>5. h \in [cmdId : CmdIds, file : Files]
    BY <1>2, <1>3, ClientCmdIdAssumption
  <2>6. disk' = [disk EXCEPT ![path] = <<>>] /\ <<>> \in Seq(Byte)
    BY <1>2, <1>7 DEF AcceptPushBrief, OpenWriteCreate
  <2>7. disk' \in [Files -> Seq(Byte)] /\ disk'[path] = <<>>
    BY <1>3, <2>6 DEF Inv, GatewayOK
  <2>8. out' = <<x>>
    BY <1>7 DEF AcceptPushBrief, Publish
  <2>9. /\ s.cmdId = PushCmdId /\ s.file = path /\ s.bytesWritten = 0
        /\ s.expectedFileSize = Len(data) /\ s.expectedFileCrc = data
        /\ h.cmdId = PushCmdId /\ h.file = path
        /\ x.type = "pushBriefConfirm"
    BY <1>2 DEF PushBriefConfirm
  <2> HIDE DEF s, h, x
  <2>10. GatewayOK'
    BY <2>2, <2>3, <2>4, <2>5, <2>7, <2>9 DEF GatewayOK
  <2>11. AllReceiving(0)'
    BY <1>4, <2>2, <2>7, <2>9, DataAreBytes
    DEF AllReceiving, Receiving, Inv, clientVars
  <2>12. BriefConfirmUnderway(x)'
    BY <1>3, <1>4, <2>9, <2>11 DEF BriefConfirmUnderway, clientVars
  <2>13. QED
    BY <1>3, <1>4, <2>8, <2>10, <2>12, Answered
<1>8. QED
  BY <1>4, <1>6, <1>7 DEF OnPushBrief

\* A session ends: it answers with an error, or with the last data on the
\* disk.
LEMMA PushEndsWith ==
    ASSUME Inv, toPlatform = <<>>, path \in Files, ~pushDone, pushBriefOk,
           toGateway' = <<>>,
           NEW m, m.cmdId = PushCmdId, NEW error, EndPush(m, error),
           disk' \in [Files -> Seq(Byte)],
           error = "NONE" => disk'[path] = data /\ ~(pushOffset < Len(data)),
           toPlatform' = IF online THEN toPlatform \o out' ELSE toPlatform,
           UNCHANGED clientVars
    PROVE  Inv'
<1> DEFINE x == PushContentConfirm(m.cmdId, m.segNo, error)
<1>1. x.type = "pushContentConfirm" /\ x.error = error /\ out' = <<x>>
  BY DEF PushContentConfirm, EndPush, Answer, Publish
<1> HIDE DEF x
<1>2. pushes' = {} /\ writeHandles' = {}
  BY DEF EndPush, ClosePush, Without, Inv, GatewayOK
<1>3. GatewayOK'
  BY <1>2 DEF GatewayOK
<1>4. ContentConfirmUnderway(x)'
  BY <1>1 DEF ContentConfirmUnderway, clientVars
<1>5. QED
  BY <1>1, <1>3, <1>4, Answered

\* A segment: refused, not stored, or stored right after the ones before it.
LEMMA SegmentReceived ==
    ASSUME Inv, SegmentUnderway, GatewayReceives
    PROVE  Inv'
<1> USE DEF GatewayReceives
<1>1. PICK m : toGateway = <<m>> /\ ContentUnderway(m)
  BY DEF SegmentUnderway
<1>2. PICK n \in 0..Len(data) :
        /\ n < pushOffset
        /\ m.content = SubSeq(data, n + 1, pushOffset)
        /\ AllReceiving(n)
  BY <1>1 DEF ContentUnderway
<1>3. /\ toPlatform = <<>> /\ path \in Files /\ ~pushDone /\ pushBriefOk
      /\ Head(toGateway) = m /\ toGateway' = <<>>
      /\ m.type = "pushContent" /\ m.cmdId = PushCmdId
      /\ m.more = (pushOffset < Len(data))
  BY <1>1, OnlyMessage DEF SegmentUnderway, ContentUnderway
<1>4. /\ OnPushContent(m) /\ UNCHANGED clientVars
      /\ toPlatform' = IF online THEN toPlatform \o out' ELSE toPlatform
  BY <1>3
<1>5. /\ data \in Seq(Byte) /\ Len(data) \in Nat /\ n \in Nat
      /\ pushOffset \in n..Len(data) /\ pushOffset \in Nat
  BY <1>2, DataAreBytes DEF Inv, ClientOK
<1>6. /\ m.content \in Seq(Byte) /\ Len(m.content) = pushOffset - n
      /\ SubSeq(data, 1, n) \o m.content = SubSeq(data, 1, pushOffset)
  BY <1>2, <1>5, PrefixGrows
<1>7. disk \in [Files -> Seq(Byte)]
  BY DEF Inv, GatewayOK
<1>8. CASE m.cmdId \notin Ids(pushes)
  <2> DEFINE x == PushContentConfirm(m.cmdId, m.segNo, "NO_SESSION")
  <2>1. Answer(m, "NO_SESSION") /\ UNCHANGED pushVars
    BY <1>4, <1>8 DEF OnPushContent, Ids
  <2>2. x.type = "pushContentConfirm" /\ x.error # "NONE" /\ out' = <<x>>
    BY <2>1 DEF PushContentConfirm, Answer, Publish
  <2> HIDE DEF x
  <2>3. ContentConfirmUnderway(x)'
    BY <2>2 DEF ContentConfirmUnderway
  <2>4. GatewayOK'
    BY <2>1 DEF Inv, GatewayOK, pushVars
  <2>5. QED
    BY <1>3, <1>4, <2>2, <2>3, <2>4, Answered
<1>9. ASSUME NEW s \in pushes
      PROVE  /\ s \in PushSession /\ s.file = path /\ s.bytesWritten = n
             /\ s.expectedFileSize = Len(data) /\ s.expectedFileCrc = data
             /\ disk[path] = SubSeq(data, 1, n) /\ disk[path] \in Seq(Byte)
             /\ Len(disk[path]) = n
             /\ \A h \in writeHandles : h.file = path
             /\ pushes = {s}
  <2>1. /\ s \in PushSession /\ pushes = {s}
        /\ \A h \in writeHandles : h.file = s.file
    BY DEF Inv, GatewayOK
  <2>2. Receiving(s, n)
    BY <1>2 DEF AllReceiving
  <2>3. SubSeq(data, 1, n) \in Seq(Byte) /\ Len(SubSeq(data, 1, n)) = n
    BY <1>5, PrefixIsSeq
  <2>4. QED
    BY <2>1, <2>2, <2>3 DEF Receiving
<1>10. ASSUME NEW error, error # "NONE", EndPush(m, error), disk' = disk
       PROVE  Inv'
  BY <1>3, <1>4, <1>7, <1>10, PushEndsWith
<1>11. ASSUME NEW s \in pushes, StoreFails(m, s)
       PROVE  Inv'
  <2>1. ASSUME NEW h \in writeHandles, NEW k \in 1..(Len(m.content) - 1),
               disk' = WriteAt(disk, h.file, s.bytesWritten,
                               SubSeq(m.content, 1, k))
        PROVE  disk' \in [Files -> Seq(Byte)]
    <3>1. k \in 0..Len(m.content)
      BY <1>5, <1>6
    <3>2. SubSeq(m.content, 1, k) \in Seq(Byte)
      BY <1>6, <3>1, PrefixIsSeq
    <3>3. h.file = path /\ s.bytesWritten = n /\ n = Len(disk[path])
      BY <1>9
    <3>4. disk' = WriteAt(disk, path, n, SubSeq(m.content, 1, k))
      BY <2>1, <3>3
    <3>5. QED
      BY <1>3, <1>5, <1>7, <3>2, <3>3, <3>4, WriteAtEnd
  <2>2. disk' \in [Files -> Seq(Byte)] /\ EndPush(m, "IO_ERROR")
    BY <1>7, <1>11, <2>1 DEF StoreFails
  <2>3. QED
    BY <1>3, <1>4, <2>2, PushEndsWith
<1>12. ASSUME NEW s \in pushes, NEW h \in writeHandles, StoreSegment(m, s, h)
       PROVE  Inv'
  <2>1. /\ disk' = WriteAt(disk, path, n, m.content)
        /\ n = Len(disk[path])
    BY <1>9, <1>12 DEF StoreSegment
  <2>2. /\ disk' \in [Files -> Seq(Byte)]
        /\ disk'[path] = SubSeq(data, 1, pushOffset)
    <3>1. /\ disk' \in [Files -> Seq(Byte)]
          /\ disk'[path] = disk[path] \o m.content
      BY <1>3, <1>5, <1>6, <1>7, <2>1, WriteAtEnd
    <3>2. QED
      BY <1>6, <1>9, <3>1
  <2>3. CASE ~m.more
    <3>1. PICK error : EndPush(m, error)
      BY <1>12, <2>3 DEF StoreSegment
    <3>2. ~(pushOffset < Len(data))
      BY <1>3, <2>3, Zenon
    <3>3. pushOffset = Len(data)
      BY <1>5, <3>2
    <3>4. disk'[path] = data
      BY <2>2, <3>3, DataAreBytes DEF Inv
    <3>5. QED
      BY <1>3, <1>4, <2>2, <3>1, <3>2, <3>4, PushEndsWith
  <2>4. CASE m.more
    <3> DEFINE t == Received(m, s)
               x == PushContentConfirm(m.cmdId, m.segNo, "NONE")
    <3>1. /\ pushes' = Put(pushes, t) /\ Answer(m, "NONE")
          /\ writeHandles' = writeHandles
      BY <1>12, <2>4 DEF StoreSegment
    <3>2. /\ t \in PushSession /\ t.cmdId = s.cmdId /\ t.file = path
          /\ t.expectedFileSize = Len(data) /\ t.expectedFileCrc = data
          /\ t.bytesWritten = pushOffset
      <4>1. (s.nextSegNo + 1) % SegMod \in 0..(SegMod - 1)
        BY <1>9, SegModAssumption DEF PushSession
      <4>2. s.bytesWritten + Len(m.content) = pushOffset
        BY <1>5, <1>6, <1>9
      <4>3. QED
        BY <1>5, <1>9, <4>1, <4>2 DEF Received, PushSession
    <3>3. x.type = "pushContentConfirm" /\ out' = <<x>>
      BY <3>1 DEF PushContentConfirm, Answer, Publish
    <3> HIDE DEF t, x
    <3>4. pushes' = {t}
      BY <1>9, <3>1, <3>2 DEF Put, Without
    <3>5. t.cmdId = PushCmdId /\ \A h1 \in writeHandles :
            h1.cmdId = PushCmdId /\ h1.file = path
      BY <1>9, <3>2 DEF Inv, GatewayOK
    <3>6. GatewayOK'
      <4>1. writeHandles \subseteq [cmdId : CmdIds, file : Files]
        BY DEF Inv, GatewayOK
      <4>2. QED
        BY <2>2, <3>1, <3>2, <3>4, <3>5, <4>1 DEF GatewayOK
    <3>7. pushOffset < Len(data)
      BY <1>3, <2>4, Zenon
    <3>8. ContentConfirmUnderway(x)'
      BY <1>3, <1>4, <2>2, <3>2, <3>3, <3>4, <3>7
      DEF ContentConfirmUnderway, AllReceiving, Receiving, clientVars
    <3>9. QED
      BY <1>3, <1>4, <3>3, <3>6, <3>8, Answered
  <2>5. QED
    BY <2>3, <2>4
<1>13. ASSUME NEW s \in pushes, s.cmdId = m.cmdId,
              \/ /\ ~InOrder(m, s)
                 /\ EndPush(m, "INVALID_SEG_NO") /\ UNCHANGED disk
              \/ StoreFails(m, s)
              \/ \E h \in writeHandles : StoreSegment(m, s, h)
       PROVE  Inv'
  BY <1>10, <1>11, <1>12, <1>13
<1>14. QED
  BY <1>4, <1>8, <1>13 DEF OnPushContent

-----------------------------------------------------------------------------
(* The theorems.  A process of platform_sim is started only when nothing   *)
(* of its predecessor is on its way to the gateway any more.               *)

\* The inductive invariant.
THEOREM Invariance ==
    ASSUME Hasty = FALSE
    PROVE  Spec => []Inv
<1>1. Init => Inv
  <2>1. /\ <<>> \in Seq(Byte) /\ Len(<<>>) = 0 /\ 0 \in 0..0 /\ 1 \in Nat
        /\ <<>> \in BytesUpTo(MaxPushSize)
    <3>1. 0 \in 0..MaxPushSize /\ <<>> \in [1..0 -> Byte]
      BY PushAssumption
    <3>2. QED
      BY <3>1 DEF BytesUpTo
  <2>2. Init => ClientOK
    BY <2>1, Zenon DEF Init, ClientInit, ClientOK
  <2>3. Init => GatewayOK
    BY <2>1 DEF Init, PushInit, GatewayOK
  <2>4. Init => NothingUnderway /\ PushedFileIsComplete
    BY DEF Init, PushInit, ClientInit, NothingUnderway, NobodyWaits,
           PushedFileIsComplete
  <2>5. QED
    BY <2>2, <2>3, <2>4 DEF Inv
<1>2. ASSUME Inv, [Next]_vars
      PROVE  Inv'
  <2>1. CASE ClientStarts
    BY <1>2, <2>1, ClientStartsPreserves
  <2>2. CASE ClientReceives
    BY <1>2, <2>2, ClientReceivesPreserves
  <2>3. CASE ClientLost
    BY <1>2, <2>3, ClientLostPreserves
  <2>4. CASE GatewayReceives
    <3>1. BriefUnderway \/ SegmentUnderway
      BY <1>2, <2>4 DEF GatewayReceives, Inv, NothingUnderway, AnswerUnderway
    <3>2. QED
      BY <1>2, <2>4, <3>1, BriefReceived, SegmentReceived
  <2>5. pushes = {} => writeHandles = {}
    BY <1>2 DEF Inv, GatewayOK
  <2>6. CASE Tick
    <3> DEFINE expired == Expired(timers)
    <3>1. /\ pushes' = {s \in pushes : s.cmdId \notin expired}
          /\ writeHandles' = {h \in writeHandles :
                                h.cmdId \notin expired \cap Ids(pushes)}
          /\ disk' = disk /\ connected' = connected
          /\ UNCHANGED <<clientVars, toGateway, toPlatform>>
      BY <2>6 DEF Tick, PushesTimeout
    <3> HIDE DEF expired
    <3>2. /\ \A s \in pushes : s.cmdId = PushCmdId
          /\ \A h \in writeHandles : h.cmdId = PushCmdId
      BY <1>2 DEF Inv, GatewayOK
    <3>3. /\ pushes' \in {pushes, {}}
          /\ writeHandles' = IF pushes' = {} THEN {} ELSE writeHandles
      <4>1. CASE pushes = {}
        BY <2>5, <3>1, <4>1
      <4>2. CASE pushes # {} /\ PushCmdId \in expired
        BY <3>1, <3>2, <4>2 DEF Ids
      <4>3. CASE pushes # {} /\ PushCmdId \notin expired
        BY <3>1, <3>2, <4>3
      <4>4. QED
        BY <4>1, <4>2, <4>3
    <3>4. QED
      BY <1>2, <3>1, <3>3, FewerSessions
  <2>7. CASE Second \/ UNCHANGED vars
    <3>1. /\ UNCHANGED <<pushes, writeHandles, disk, connected>>
          /\ UNCHANGED <<clientVars, toGateway, toPlatform>>
      BY <2>7 DEF Second, pushVars, vars, gatewayVars
    <3>2. QED
      BY <1>2, <2>5, <3>1, FewerSessions
  <2>8. CASE GatewayDisconnects \/ GatewayRestarts
    <3>1. /\ pushes' \in {pushes, {}}
          /\ writeHandles' = IF pushes' = {} THEN {} ELSE writeHandles
          /\ ~connected' \/ pushes' = {}
          /\ disk' = disk /\ toGateway' = <<>>
          /\ toPlatform' \in OnBroker(toPlatform) /\ UNCHANGED clientVars
      BY <2>5, <2>8 DEF GatewayDisconnects, GatewayRestarts, pushVars
    <3>2. QED
      BY <1>2, <3>1, GatewayLost
  <2>9. QED
    BY <1>2, <2>1, <2>2, <2>3, <2>4, <2>6, <2>7, <2>8 DEF Next
<1>3. QED
  BY <1>1, <1>2, PTL DEF Spec

\* What platform_sim reports as done is on the disk, byte for byte, although
\* it takes any successful confirm for that of its last segment.
THEOREM DoneMeansComplete ==
    ASSUME Hasty = FALSE
    PROVE  Spec => []PushedFileIsComplete
<1>1. Inv => PushedFileIsComplete
  BY DEF Inv
<1>2. QED
  BY <1>1, Invariance, PTL

-----------------------------------------------------------------------------
(* That a push is never idle holds whenever the processes are started,     *)
(* because the gateway answers everything it is sent and platform_sim      *)
(* everything it is answered.                                              *)

IsQueue(q) == \E S : q \in Seq(S)

BriefSent == \E m \in Messages(toGateway) : m.type = "pushBrief"

BriefAnswered == \E m \in Messages(toPlatform) : m.type = "pushBriefConfirm"

\* An answer to a process that has not had its brief confirmed may be one it
\* sends nothing after; but then there is also its own brief, or the answer.
Active ==
    online /\ connected =>
        \/ pushes = {} /\ ~BriefSent
        \/ BriefSent \/ BriefAnswered
        \/ pushBriefOk /\ (toGateway # <<>> \/ toPlatform # <<>>)

ActiveInv ==
    /\ IsQueue(toGateway) /\ IsQueue(toPlatform)
    /\ pushNextSegNo \in Nat
    /\ Active

LEMMA QueueHead ==
    ASSUME NEW q, IsQueue(q), q # <<>>
    PROVE  /\ IsQueue(Tail(q))
           /\ Messages(q) = {Head(q)} \cup Messages(Tail(q))
<1>1. PICK S : q \in Seq(S)
  BY DEF IsQueue
<1>2. /\ Tail(q) \in Seq(S) /\ Len(Tail(q)) = Len(q) - 1
      /\ \A i \in 1..Len(Tail(q)) : Tail(q)[i] = q[i + 1]
      /\ Head(q) = q[1] /\ Len(q) \in Nat \ {0}
  BY <1>1, HeadTailProperties, LenProperties, EmptySeq
<1>3. DOMAIN q = 1..Len(q) /\ DOMAIN Tail(q) = 1..Len(Tail(q))
  BY <1>1, <1>2, LenProperties
<1>4. \A i \in DOMAIN q :
        \/ i = 1
        \/ i - 1 \in DOMAIN Tail(q) /\ (i - 1) + 1 = i
  BY <1>2, <1>3
<1>5. 1 \in DOMAIN q /\ \A i \in DOMAIN Tail(q) : i + 1 \in DOMAIN q
  BY <1>2, <1>3
<1>6. ASSUME NEW i \in DOMAIN q
      PROVE  q[i] \in {Head(q)} \cup Messages(Tail(q))
  <2>1. CASE i = 1
    BY <1>2, <2>1
  <2>2. CASE i - 1 \in DOMAIN Tail(q) /\ (i - 1) + 1 = i
    <3>1. Tail(q)[i - 1] = q[i]
      BY <1>2, <1>3, <2>2
    <3>2. QED
      BY <2>2, <3>1 DEF Messages
  <2>3. QED
    BY <1>4, <2>1, <2>2
<1>7. Messages(Tail(q)) \subseteq Messages(q) /\ Head(q) \in Messages(q)
  BY <1>2, <1>3, <1>5 DEF Messages
<1>8. QED
  BY <1>2, <1>6, <1>7 DEF IsQueue, Messages

LEMMA QueueGrows ==
    ASSUME NEW q, IsQueue(q), NEW r, IsQueue(r)
    PROVE  /\ IsQueue(q \o r) /\ Messages(q \o r) = Messages(q) \cup Messages(r)
           /\ (q # <<>> \/ r # <<>>) => q \o r # <<>>
<1>1. PICK S : q \in Seq(S)
  BY DEF IsQueue
<1>2. PICK R : r \in Seq(R)
  BY DEF IsQueue
<1> DEFINE T == S \cup R
           c == q \o r
<1>3. q \in Seq(T) /\ r \in Seq(T)
  BY <1>1, <1>2, SeqMonotonic
<1> HIDE DEF T
<1>4. /\ c \in Seq(T) /\ Len(c) = Len(q) + Len(r)
      /\ \A i \in 1..Len(c) :
            c[i] = IF i <= Len(q) THEN q[i] ELSE r[i - Len(q)]
      /\ Len(q) \in Nat /\ Len(r) \in Nat
  BY <1>3, ConcatProperties, LenProperties
<1>5. /\ DOMAIN q = 1..Len(q) /\ DOMAIN r = 1..Len(r)
      /\ DOMAIN c = 1..(Len(q) + Len(r))
  BY <1>3, <1>4, LenProperties
<1> HIDE DEF c
<1>6. \A i \in DOMAIN c :
        \/ i \in DOMAIN q /\ c[i] = q[i]
        \/ i - Len(q) \in DOMAIN r /\ c[i] = r[i - Len(q)]
  BY <1>4, <1>5
<1>7. \A i \in DOMAIN q : i \in DOMAIN c /\ c[i] = q[i]
  BY <1>4, <1>5
<1>8. \A i \in DOMAIN r : Len(q) + i \in DOMAIN c /\ c[Len(q) + i] = r[i]
  BY <1>4, <1>5
<1>9. Messages(c) = Messages(q) \cup Messages(r)
  <2>1. Messages(c) \subseteq Messages(q) \cup Messages(r)
    BY <1>6 DEF Messages
  <2>2. Messages(q) \subseteq Messages(c) /\ Messages(r) \subseteq Messages(c)
    BY <1>7, <1>8 DEF Messages
  <2>3. QED
    BY <2>1, <2>2
<1>10. (q # <<>> \/ r # <<>>) => c # <<>>
  BY <1>3, <1>4, EmptySeq
<1>11. IsQueue(c)
  BY <1>4 DEF IsQueue
<1>12. QED
  BY <1>9, <1>10, <1>11 DEF c

LEMMA QueuesOfOne ==
    /\ IsQueue(<<>>) /\ Messages(<<>>) = {}
    /\ \A m : IsQueue(<<m>>) /\ Messages(<<m>>) = {m} /\ <<m>> # <<>>
<1>1. <<>> \in Seq({})
  OBVIOUS
<1>2. IsQueue(<<>>) /\ Messages(<<>>) = {}
  BY <1>1 DEF IsQueue, Messages
<1>3. ASSUME NEW m
      PROVE  IsQueue(<<m>>) /\ Messages(<<m>>) = {m} /\ <<m>> # <<>>
  <2>1. <<m>> \in Seq({m}) /\ <<m>> # <<>>
    OBVIOUS
  <2>2. DOMAIN <<m>> = {1} /\ <<m>>[1] = m
    OBVIOUS
  <2>3. QED
    BY <2>1, <2>2 DEF IsQueue, Messages
<1>4. QED
  BY <1>2, <1>3

LEMMA QueueLeft ==
    ASSUME NEW q, IsQueue(q), NEW r \in OnBroker(q)
    PROVE  IsQueue(r)
<1>1. PICK S : q \in Seq(S)
  BY DEF IsQueue
<1>2. PICK k \in 0..Len(q) : r = SubSeq(q, 1, k)
  BY DEF OnBroker
<1>3. k \in Int /\ \A i \in 1..k : q[i] \in S
  BY <1>1, <1>2, ElementOfSeq, LenProperties
<1>4. SubSeq(q, 1, k) \in Seq(S)
  BY <1>3, SubSeqProperties
<1>5. QED
  BY <1>2, <1>4 DEF IsQueue

LEMMA PushAnswered ==
    ASSUME NEW m,
           \/ m.type = "pushBrief" /\ OnPushBrief(m, FALSE)
           \/ m.type = "pushContent" /\ OnPushContent(m)
    PROVE  \E a : /\ out' = <<a>>
                  /\ m.type = "pushBrief" => a.type = "pushBriefConfirm"
                  /\ m.type # "pushBrief" /\ pushes = {} => pushes' = {}
<1>1. CASE m.type = "pushBrief" /\ OnPushBrief(m, FALSE)
  <2>1. PICK error : out' = <<PushBriefConfirm(m.cmdId, error)>>
    BY <1>1 DEF OnPushBrief, RefusePushBrief, AcceptPushBrief, Publish
  <2>2. QED
    BY <1>1, <2>1 DEF PushBriefConfirm
<1>2. CASE m.type = "pushContent" /\ OnPushContent(m)
  <2>1. PICK error : out' = <<PushContentConfirm(m.cmdId, m.segNo, error)>>
    BY <1>2 DEF OnPushContent, StoreFails, StoreSegment, EndPush, Answer,
                Publish
  <2>2. pushes = {} => pushes' = {}
    BY <1>2 DEF OnPushContent, pushVars
  <2>3. QED
    BY <1>2, <2>1, <2>2
<1>3. QED
  BY <1>1, <1>2

LEMMA GatewayKeepsActive ==
    ASSUME ActiveInv, GatewayReceives
    PROVE  ActiveInv'
<1> DEFINE m == Head(toGateway)
<1>1. PICK a : /\ out' = <<a>>
               /\ m.type = "pushBrief" => a.type = "pushBriefConfirm"
               /\ m.type # "pushBrief" /\ pushes = {} => pushes' = {}
  BY PushAnswered DEF GatewayReceives
<1>2. /\ toGateway # <<>> /\ toGateway' = Tail(toGateway)
      /\ toPlatform' = IF online THEN toPlatform \o <<a>> ELSE toPlatform
      /\ UNCHANGED <<connected, online, pushBriefOk, pushNextSegNo>>
  BY <1>1 DEF GatewayReceives, clientVars
<1>3. /\ IsQueue(toGateway)'
      /\ Messages(toGateway) = {m} \cup Messages(toGateway')
  BY <1>2, QueueHead DEF ActiveInv
<1>4. /\ IsQueue(toPlatform)'
      /\ online => /\ Messages(toPlatform') = Messages(toPlatform) \cup {a}
                   /\ toPlatform' # <<>>
  BY <1>2, QueuesOfOne, QueueGrows DEF ActiveInv
<1> HIDE DEF m
<1>5. ASSUME (online /\ connected)'
      PROVE  \/ (pushes = {} /\ ~BriefSent)'
             \/ (BriefSent \/ BriefAnswered)'
             \/ (pushBriefOk /\ toPlatform # <<>>)'
  <2>1. online /\ connected
    BY <1>2, <1>5
  <2>2. CASE pushes = {} /\ ~BriefSent
    BY <1>1, <1>3, <2>2 DEF BriefSent
  <2>3. CASE BriefSent
    BY <1>1, <1>3, <1>4, <2>1, <2>3 DEF BriefSent, BriefAnswered
  <2>4. CASE BriefAnswered
    BY <1>4, <2>1, <2>4 DEF BriefAnswered
  <2>5. CASE pushBriefOk
    BY <1>2, <1>4, <2>1, <2>5
  <2>6. QED
    BY <2>1, <2>2, <2>3, <2>4, <2>5 DEF ActiveInv, Active
<1>6. QED
  BY <1>2, <1>3, <1>4, <1>5 DEF ActiveInv, Active

LEMMA ClientKeepsActive ==
    ASSUME ActiveInv, ClientReceives
    PROVE  ActiveInv'
<1> DEFINE m == Head(toPlatform)
<1>1. /\ online /\ toPlatform # <<>>
      /\ \/ m.type = "pushBriefConfirm" /\ OnPushBriefConfirm(m)
         \/ m.type = "pushContentConfirm" /\ OnPushContentConfirm(m)
      /\ toPlatform' = IF online' THEN Tail(toPlatform) ELSE <<>>
      /\ UNCHANGED <<pushes, connected>>
      /\ toGateway' = IF connected THEN toGateway \o SegmentsSent ELSE toGateway
  BY DEF ClientReceives, gatewayVars, pushVars, SendToGateway
<1>2. /\ IsQueue(SegmentsSent)
      /\ \A x \in Messages(SegmentsSent) : x.type = "pushContent"
  BY QueuesOfOne DEF SegmentsSent, NextSegment
<1>3. /\ IsQueue(toGateway)'
      /\ connected => /\ Messages(toGateway') = Messages(toGateway)
                            \cup Messages(SegmentsSent)
                      /\ SegmentsSent # <<>> => toGateway' # <<>>
  BY <1>1, <1>2, QueueGrows DEF ActiveInv
<1>4. /\ IsQueue(toPlatform)'
      /\ online' => Messages(toPlatform) = {m} \cup Messages(toPlatform')
  BY <1>1, QueueHead, QueuesOfOne DEF ActiveInv
<1>5. connected => (BriefSent <=> BriefSent')
  BY <1>2, <1>3 DEF BriefSent
<1>6. pushNextSegNo' \in Nat
  <2>1. ASSUME NEW ok, SendNextPushSegment(ok)
        PROVE  pushNextSegNo' \in Nat
    BY <2>1 DEF SendNextPushSegment, ActiveInv
  <2>2. GiveUp => pushNextSegNo' \in Nat
    BY DEF GiveUp, ActiveInv
  <2>3. CASE OnPushBriefConfirm(m)
    BY <2>1, <2>2, <2>3 DEF OnPushBriefConfirm
  <2>4. CASE OnPushContentConfirm(m)
    BY <2>1, <2>2, <2>4, Zenon DEF OnPushContentConfirm, ActiveInv
  <2>5. QED
    BY <1>1, <2>3, <2>4
\* The next segment is sent, unless this answer was to another process.
<1>7. ASSUME online', pushBriefOk \/ m.type = "pushBriefConfirm"
      PROVE  pushBriefOk' /\ SegmentsSent # <<>>
  <2>1. SendNextPushSegment(TRUE) /\ pushBriefOk'
    <3>1. CASE m.type = "pushBriefConfirm"
      BY <1>1, <1>7, <3>1 DEF OnPushBriefConfirm, GiveUp
    <3>2. CASE m.type # "pushBriefConfirm"
      BY <1>1, <1>7, <3>2
      DEF OnPushContentConfirm, GiveUp, SendNextPushSegment
    <3>3. QED
      BY <3>1, <3>2
  <2>2. pushNextSegNo' # pushNextSegNo
    BY <2>1 DEF SendNextPushSegment, ActiveInv
  <2>3. QED
    BY <2>1, <2>2, QueuesOfOne DEF SegmentsSent
<1> HIDE DEF m
<1>8. Active'
  <2> SUFFICES ASSUME online', connected'
               PROVE  \/ (pushes = {} /\ ~BriefSent)'
                      \/ (BriefSent \/ BriefAnswered)'
                      \/ (pushBriefOk /\ toGateway # <<>>)'
    BY DEF Active
  <2>1. connected
    BY <1>1
  <2>2. CASE pushes = {} /\ ~BriefSent
    BY <1>1, <1>5, <2>1, <2>2
  <2>3. CASE BriefSent
    BY <1>5, <2>1, <2>3
  <2>4. CASE BriefAnswered /\ m.type # "pushBriefConfirm"
    BY <1>4, <2>4 DEF BriefAnswered
  <2>5. CASE pushBriefOk \/ m.type = "pushBriefConfirm"
    BY <1>3, <1>7, <2>1, <2>5
  <2>6. QED
    BY <1>1, <2>1, <2>2, <2>3, <2>4, <2>5 DEF ActiveInv, Active
<1>9. QED
  BY <1>3, <1>4, <1>6, <1>8 DEF ActiveInv

LEMMA StartKeepsActive ==
    ASSUME ActiveInv, ClientStarts
    PROVE  ActiveInv'
<1>1. PICK f, bytes :
        /\ toGateway' = IF connected
                        THEN toGateway \o <<BriefMessage(f, bytes)>>
                        ELSE toGateway
        /\ pushNextSegNo' = 1
  BY DEF ClientStarts, StartClient, SendToGateway
<1> DEFINE b == BriefMessage(f, bytes)
<1>2. toPlatform' = <<>> /\ connected' = connected
  BY DEF ClientStarts, gatewayVars
<1>3. b.type = "pushBrief"
  BY DEF BriefMessage
<1> HIDE DEF b
<1>4. /\ IsQueue(toGateway)' /\ IsQueue(toPlatform)'
      /\ connected => Messages(toGateway') = Messages(toGateway) \cup {b}
  BY <1>1, <1>2, QueuesOfOne, QueueGrows DEF ActiveInv, b
<1>5. connected => BriefSent'
  BY <1>3, <1>4 DEF BriefSent
<1>6. QED
  BY <1>1, <1>2, <1>4, <1>5 DEF ActiveInv, Active

\* While both ends are there, an active push has a message underway, whenever
\* platform_sim was started and whatever of earlier processes is underway.
\* (onPushContent and onPushBrief answer on every way out; sendNextPushSegment.)
THEOREM NeverIdle == Spec => []PushNeverIdle
<1>1. Init => ActiveInv
  BY QueuesOfOne DEF Init, ClientInit, ActiveInv, Active
<1>2. ASSUME ActiveInv, [Next]_vars
      PROVE  ActiveInv'
  <2>1. ASSUME pushes' \subseteq pushes, ~connected' \/ connected,
               UNCHANGED <<clientVars, toGateway, toPlatform>>
        PROVE  ActiveInv'
    BY <1>2, <2>1
    DEF ActiveInv, Active, BriefSent, BriefAnswered, clientVars
  <2>2. CASE UNCHANGED vars \/ Tick \/ Second
    BY <2>1, <2>2 DEF vars, gatewayVars, pushVars, Tick, Second, PushesTimeout
  <2>3. CASE ClientLost
    <3>1. /\ ~online' /\ pushNextSegNo' = pushNextSegNo
          /\ toPlatform' = <<>> /\ toGateway' \in OnBroker(toGateway)
      BY <2>3 DEF ClientLost, LoseClient
    <3>2. QED
      BY <1>2, <3>1, QueueLeft, QueuesOfOne DEF ActiveInv, Active
  <2>4. CASE GatewayDisconnects \/ GatewayRestarts
    <3>1. /\ ~connected' \/ pushes' = {}
          /\ toGateway' = <<>> /\ toPlatform' \in OnBroker(toPlatform)
          /\ pushNextSegNo' = pushNextSegNo
      BY <2>4 DEF GatewayDisconnects, GatewayRestarts, clientVars
    <3>2. ~BriefSent'
      BY <3>1, QueuesOfOne DEF BriefSent
    <3>3. IsQueue(toGateway)' /\ IsQueue(toPlatform)'
      BY <1>2, <3>1, QueueLeft, QueuesOfOne DEF ActiveInv
    <3>4. QED
      BY <1>2, <3>1, <3>2, <3>3 DEF ActiveInv, Active
  <2>5. QED
    BY <1>2, <2>2, <2>3, <2>4, GatewayKeepsActive, ClientKeepsActive,
       StartKeepsActive DEF Next
<1>3. ASSUME ActiveInv
      PROVE  PushNeverIdle
  <2>1. (toGateway # <<>> \/ toPlatform # <<>>) =>
            toGateway \o toPlatform # <<>>
    BY <1>3, QueueGrows DEF ActiveInv
  <2>2. BriefSent => toGateway # <<>>
    BY QueuesOfOne DEF BriefSent
  <2>3. BriefAnswered => toPlatform # <<>>
    BY QueuesOfOne DEF BriefAnswered
  <2>4. QED
    BY <1>3, <2>1, <2>2, <2>3 DEF ActiveInv, Active, PushNeverIdle
<1>4. QED
  BY <1>1, <1>2, <1>3, PTL DEF Spec
=============================================================================
