------------------------------- MODULE Config -------------------------------
(***************************************************************************)
(* The configuration: the defaults, a JSON file over them, and the topics  *)
(* and the client id that follow from the gateway's id where the file does *)
(* not give any.  A file is a function from the names it sets to what it   *)
(* sets them to: a text, as the sequence of its parts; for a number, what  *)
(* parseU64 makes of the text; for allowedPathRoots, the texts of the      *)
(* array.                                                                  *)
(***************************************************************************)
EXTENDS Integers, Sequences

CONSTANT MaxU32    \* 2^32 - 1

MaxPort == 65535

ASSUME MaxU32Assumption == MaxU32 \in Nat /\ MaxU32 > MaxPort

Unparsable == -1    \* a text that is no number

NoSettings == [name \in {} |-> <<>>]

\* The eight topics, each with the part of its name after the gateway's id.
TopicNames ==
    [topicSummon |-> "/platform/summon",
     topicBrief |-> "/gateway/brief",
     topicContent |-> "/gateway/content",
     topicContentConfirm |-> "/platform/content_confirm",
     topicPushBrief |-> "/platform/push/brief",
     topicPushBriefConfirm |-> "/gateway/push/brief_confirm",
     topicPushContent |-> "/platform/push/content",
     topicPushContentConfirm |-> "/gateway/push/content_confirm"]

Topics == DOMAIN TopicNames

\* What a number must be for the file to set it.
NumberRange ==
    [timeoutSec |-> 0..MaxU32, chunkSize |-> 0..MaxU32,
     retainDays |-> 0..MaxU32, maxFileSizeBytes |-> Nat,
     brokerPort |-> 0..MaxPort, qos |-> 0..2, keepAliveSec |-> 1..MaxU32]

\* Texts that an empty one in the file replaces, too.
MqttTexts ==
    Topics \cup {"brokerHost", "clientId", "gatewayId", "username", "password"}

\* Fault: two of the names are the same.
TopicOfPrefix(id, t) == <<"transfer/sim/">> \o id

TopicOf(id, t) == <<"transfer/sim/">> \o id \o <<TopicNames[t]>>

ClientIdOf(id) == <<"gateway-transfer-sim-">> \o id

\* What a default configuration holds besides the topics.
DefaultMqtt(id) ==
    [gatewayId |-> id, clientId |-> ClientIdOf(id),
     brokerHost |-> <<"127.0.0.1">>, brokerPort |-> 1883,
     useSimulatedBus |-> <<"true">>, username |-> <<>>, password |-> <<>>,
     qos |-> 1, keepAliveSec |-> 60]

DefaultApp ==
    [timeoutSec |-> 180, chunkSize |-> 4096,
     allowedPathRoots |-> <<<<"/tmp/">>>>, logDir |-> <<"log">>,
     maxFileSizeBytes |-> 10 * 1024 * 1024, retainDays |-> 30]

MqttNames == DOMAIN DefaultMqtt(<<>>)

MakeDefaultMqttConfig(id) ==
    [name \in Topics \cup MqttNames |->
        IF name \in Topics THEN TopicOf(id, name) ELSE DefaultMqtt(id)[name]]

MakeDefaultAppConfig ==
    LET mqtt == MakeDefaultMqttConfig(<<"gw001">>)
    IN  [name \in DOMAIN mqtt \cup DOMAIN DefaultApp |->
            IF name \in DOMAIN mqtt THEN mqtt[name] ELSE DefaultApp[name]]

\* Fault: a number is taken whether or not it was parsed.
AcceptsAnyNumber(name, value) == name # "logDir" \/ value # <<>>

\* Whether applyTransferSection, applyLogSection or applyMqttSection takes the
\* value.  extractJsonStringArray leaves out empty texts.
Accepts(name, value) ==
    \/ name \in MqttTexts
    \/ name = "logDir" /\ value # <<>>
    \/ name \in DOMAIN NumberRange /\ value \in NumberRange[name]
    \/ /\ name = "useSimulatedBus"
       /\ value \in {<<"true">>, <<"false">>, <<"1">>, <<"0">>}
    \/ /\ name = "allowedPathRoots"
       /\ \E i \in DOMAIN value : value[i] # <<>>

\* What parseBool and extractJsonStringArray make of a value.
Meaning(name, value) ==
    CASE name = "useSimulatedBus" ->
            IF value \in {<<"true">>, <<"1">>} THEN <<"true">> ELSE <<"false">>
      [] name = "allowedPathRoots" ->
            SelectSeq(value, LAMBDA root : root # <<>>)
      [] OTHER -> value

\* The settings of the file that are taken, over the configuration c.
ApplySections(file, c) ==
    [name \in DOMAIN c |->
        IF name \in DOMAIN file /\ Accepts(name, file[name])
        THEN Meaning(name, file[name]) ELSE c[name]]

FillMqttTopicDefaults(c) ==
    LET id == IF c.gatewayId = <<>> THEN <<"gw001">> ELSE c.gatewayId
    IN  [name \in DOMAIN c |->
            IF name \in Topics /\ c[name] = <<>> THEN TopicOf(id, name)
            ELSE IF name = "clientId" /\ c[name] = <<>>
            THEN ClientIdOf(c.gatewayId)
            ELSE c[name]]

DefaultTopics(c) == c    \* Fault: the default's topics stay

\* The topics of the default are forgotten; its client id is not.
ClearedTopics(c) ==
    [name \in DOMAIN c |-> IF name \in Topics THEN <<>> ELSE c[name]]

\* loadAppConfig, with a file that is not empty; NoSettings for none.
LoadAppConfig(file) ==
    FillMqttTopicDefaults(
        ApplySections(file, ClearedTopics(MakeDefaultAppConfig)))
=============================================================================
