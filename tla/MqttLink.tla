------------------------------ MODULE MqttLink ------------------------------
(***************************************************************************)
(* The gateway's side of MQTT.  `connected' is the broker connection: a    *)
(* handler runs only when mosquitto_loop delivers a message, and the       *)
(* adapter neither registers a disconnect callback nor reconnects, so a    *)
(* lost connection ends all input until the process is started again.      *)
(* `out' is the sequence of messages the last handler handed to publish:   *)
(* the result of publish is ignored everywhere, so no state depends on it. *)
(* Messages are records; JSON, Base64 and the wording of notes are left    *)
(* out.  `error' is "NONE" for Status 0, the ErrorCode for Status 1.       *)
(***************************************************************************)
EXTENDS Naturals, Sequences

CONSTANTS
    CmdIds,     \* the CmdIds the platform uses; 0 is one of them
    Files,      \* the paths it names
    SegMod      \* 2^32, the width of FileSegNo

ASSUME CmdIdsAssumption == 0 \in CmdIds /\ CmdIds \subseteq Nat
ASSUME SegModAssumption == SegMod \in Nat /\ SegMod > 1

VARIABLES connected, out

Brief(c, error, size) ==
    [type |-> "brief", cmdId |-> c, error |-> error, fileSize |-> size]

\* The bytes of a content segment are named by where the gateway read them.
Content(c, segNo, file, offset, len, more) ==
    [type |-> "content", cmdId |-> c, segNo |-> segNo, file |-> file,
     offset |-> offset, len |-> len, more |-> more]

PushBriefConfirm(c, error) ==
    [type |-> "pushBriefConfirm", cmdId |-> c, error |-> error]

PushContentConfirm(c, segNo, error) ==
    [type |-> "pushContentConfirm", cmdId |-> c, segNo |-> segNo,
     error |-> error]

\* The messages of the last handler.
Published == {out[i] : i \in DOMAIN out}

PublishTwice(msgs) == out' = msgs \o msgs    \* Fault: repeated on success

Publish(msgs) == out' = msgs
=============================================================================
