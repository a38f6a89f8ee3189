----------------------------- MODULE MCFormats -----------------------------
(***************************************************************************)
(* The pure algorithms, evaluated for every byte string, every text and    *)
(* every configuration file up to a bound: a behaviour grows one of them,  *)
(* element by element.                                                     *)
(***************************************************************************)
EXTENDS Numbers, Base64, Config

CONSTANTS
    Bytes, MaxBytes,        \* byte values, bound on the length
    Characters, MaxText,    \* characters of a text, bound on the length
    MaxSettings             \* bound on what a configuration file sets

ASSUME FormatsAssumption ==
    Bytes \subseteq 0..255 /\ Characters \subseteq 0..Other

VARIABLES bytes, text, settings

vars == <<bytes, text, settings>>

Init == bytes = <<>> /\ text = <<>> /\ settings = NoSettings

AppendByte ==
    /\ text = <<>> /\ DOMAIN settings = {} /\ Len(bytes) < MaxBytes
    /\ \E b \in Bytes : bytes' = Append(bytes, b)
    /\ UNCHANGED <<text, settings>>

AppendCharacter ==
    /\ bytes = <<>> /\ DOMAIN settings = {} /\ Len(text) < MaxText
    /\ \E c \in Characters : text' = Append(text, c)
    /\ UNCHANGED <<bytes, settings>>

\* What a file may say of a name: for a number, both sides of every limit.
Values(name) ==
    CASE name \in DOMAIN NumberRange ->
            {Unparsable, 0, 1, 2, 3, 65535, 65536, MaxU32, MaxU32 + 1}
      [] name = "gatewayId" -> {<<>>, <<"gw001">>, <<"gw002">>}
      [] name = "useSimulatedBus" -> {<<>>, <<"yes">>, <<"0">>, <<"true">>}
      [] name = "allowedPathRoots" -> {<<>>, <<<<>>>>, <<<<>>, <<"/data/">>>>}
      [] OTHER -> {<<>>, <<"set">>}

AddSetting ==
    /\ bytes = <<>> /\ text = <<>>
    /\ Cardinality(DOMAIN settings) < MaxSettings
    /\ \E name \in DOMAIN MakeDefaultAppConfig \ DOMAIN settings :
        \E value \in Values(name) :
            settings' = [n \in DOMAIN settings \cup {name} |->
                            IF n = name THEN value ELSE settings[n]]
    /\ UNCHANGED <<bytes, text>>

Next == AppendByte \/ AppendCharacter \/ AddSetting

Spec == Init /\ [][Next]_vars

-----------------------------------------------------------------------------
(* Properties.                                                             *)

\* A segment arrives unchanged whether the gateway or platform_sim encoded
\* it, or a platform that keeps to the standard: the decoder makes up for
\* the odd encoding of a last single byte.
SegmentsSurvive ==
    \A chars \in {base64Encode(bytes), Standard(bytes)} :
        base64Decode(chars) = [ok |-> TRUE, bytes |-> bytes]

\* As CmdId or FileSegNo, both codecs take a decimal text of up to 32 bits
\* for the number it denotes, and refuse one of 33 to 64 bits and a text that
\* is no number.  Longer ones wrap, and some are taken for another number.
NumbersExact ==
    \A r \in {SummonParseU64(text), PushParseU64(text)} :
        /\ ~IsDecimal(text) => ~r.ok
        /\ IsDecimal(text) /\ DecimalValue(text) < U64 =>
               /\ r = Parsed(DecimalValue(text))
               /\ ParseU32(r).ok <=> DecimalValue(text) < U32

\* A CRC that can be parsed at all is written by toHexString in a form that
\* is parsed as the same CRC: digits beyond the width lose nothing but what
\* was never a CRC.
CrcSurvives ==
    LET r == parseFileCrcHex(text)
    IN  r.ok => parseFileCrcHex(toHexString(r.value)) = r

\* The id a configuration stands for.
GatewayOf(c) == IF c.gatewayId = <<>> THEN <<"gw001">> ELSE c.gatewayId

\* Gateways that are given different ids share no topic, and a gateway and a
\* platform_sim that are given the same id talk on the same eight, however
\* little else their files have in common; unless a file names topics.
GatewaysKeepApart ==
    DOMAIN settings \cap Topics = {} =>
        LET mine == LoadAppConfig(settings)
        IN  \A id \in Values("gatewayId") \ {<<>>} :
                LET other == LoadAppConfig([gatewayId |-> id])
                IN  \A t, u \in Topics :
                        mine[t] = other[u] <=> t = u /\ id = GatewayOf(mine)

\* A file changes only what it sets, and what it sets to something that is no
\* value at all stays as it is without a file.
DefaultsStand ==
    LET base == FillMqttTopicDefaults(MakeDefaultAppConfig)
        Malformed(name) ==
            \/ name \in DOMAIN NumberRange /\ settings[name] = Unparsable
            \/ /\ name \notin MqttTexts \cup DOMAIN NumberRange
               /\ settings[name] = <<>>
    IN  \A name \in DOMAIN base :
            LoadAppConfig(settings)[name] # base[name] =>
                \/ name \in DOMAIN settings /\ ~Malformed(name)
                \/ name \in Topics /\ "gatewayId" \in DOMAIN settings

-----------------------------------------------------------------------------
(* What the documents say and the code does not do.                        *)

\* 09 section 2.3: a clientId that is not given is made from the gateway's id.
ClientIdFollowsGateway ==
    LET c == LoadAppConfig(settings)
    IN  "clientId" \notin DOMAIN settings =>
            c.clientId = ClientIdOf(GatewayOf(c))
=============================================================================
