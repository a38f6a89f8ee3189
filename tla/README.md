# Verification of transferFile

A TLA+ model of the gateway `transferFile` (V0.0.5): the process that sends
files to a platform when summoned and receives files the platform pushes, over
MQTT. The modules are checked with TLC on small instances. Every safety
property of a passing run and both refinements are also proved with TLAPS, for
every value of the constants; what is left to TLC alone is liveness.

Paths below are relative to the repository (`src/app/...`, `document/...`).

## 1. The system

| Component | State | Operations | Talks to |
|---|---|---|---|
| `TransferOrchestrator` (`src/app/transfer_orchestrator.cpp`) | session store (at most one active session), open read handles by CmdId | `onSummon`, `onContentConfirm`, `onTimeout` | watchdog, file store, publishes briefs and contents |
| `PushReceiveOrchestrator` (`src/app/push_receive_orchestrator.cpp`) | push session store, open write handles by CmdId | `onPushBrief`, `onPushContent`, `onTimeout` | watchdog, file store, publishes confirms |
| `TimeoutWatchdog` | one deadline per CmdId, shared by both orchestrators | `arm`, `reset`, `disarm`, `tick` | calls both `onTimeout`s |
| `main` | – | wiring: busy checkers (each orchestrator asks the other's store), loop of `mosquitto_loop`, `tick`, 10 ms sleep | everything above |
| `MosquittoMqttAdapter` | connection | dispatch by topic, publish; no reconnect, clean session, QoS 1 | broker |
| `FileStore`, `Crc32Calculator` | files | open, size, read, write, CRC | file system |
| `platform_sim` (`src/tools/platform_sim_main.cpp`) | received bytes, or data and offset of a push | one summon or one push per process | broker |
| JSON codecs, Base64, CRC | – | decode requests, encode answers; numbers, hexadecimal CRCs and segments as text | orchestrators, `platform_sim` |
| `SimulatedMqttBus`, `SimulatedMqttAdapter`, `PlatformMqttSimulator` (`src/mqtt/`) | subscribers by topic, history, what the platform received | `subscribe`, `publish` (calls the subscribers before it returns), `start`, `stop`, automatic confirms | orchestrators; driven by `main --simulate` and the unit tests |
| configuration (`src/config/`, `src/mqtt/mqtt_config.cpp`) | – | defaults, a JSON file over them, topics and client id by gateway id | read once by `main` and `platform_sim` |
| `transfer::log` (`src/app/runtime_log.cpp`) | open stream, current date | `init` (purge), write (change of day, rotation), `shutdown` | log directory, shared with any other process that logs there |
| `MqttPublisher`, MQTT factory | – | see `PROJECT.json` | |

The gateway has one thread: a handler runs to its end before the next message
or `tick`. What makes it hard is what lies between two handlers: messages of
two protocols in any order, a deadline that two protocols share, a connection
that is lost for good, either end started again with the same CmdId, and calls
that fail half way (reads, writes, the read-back for the CRC).

What makes the components correct:

- an orchestrator: a handle is open exactly while its session lives; a session
  always waits for something that can come; every way out of a handler leaves
  sessions, handles and deadlines consistent;
- the gateway: upload and push exclude each other; a silent platform's
  transfers end;
- an upload, end to end: the platform gets the bytes from StartByte on, in
  order, and takes the file for complete only when it is;
- a push, end to end: a success reported by gateway or platform means that the
  file has the announced content;
- the formats: a number or a CRC is taken for what it denotes or refused, and a
  segment is decoded to the bytes that were encoded;
- the simulated bus: a call with everything nested in it does what the handler
  does on a broker, and returns, so that what the tests show on this bus is true
  of the gateway;
- the configuration: gateways with different ids never share a topic, and a
  setting that is no value changes nothing;
- the log: a line that is in the directory stays until it is old enough to be
  purged, and the files of a day are in order.

## 2. The modules

| Module | Models | 
|---|---|
| `KeyedRecords` | the tables keyed by CmdId: session stores, maps of handles, watchdog entries. `Put` is `upsert`, `Emplace` is `map::emplace` (which keeps an existing entry - this matters) |
| `TimeoutWatchdog` | the deadlines, as seconds left; `Expired`/`Unexpired` are the two halves of `tick` |
| `MqttLink` | message records, `connected`, and `out`: what the last handler published |
| `SummonUpload` | `TransferOrchestrator`: `OnSummon`, `OnContentConfirm`, `UploadsTimeout` |
| `PushReceive` | `PushReceiveOrchestrator`: `OnPushBrief`, `OnPushContent`, `PushesTimeout`, and the files written |
| `Gateway` | the process: both orchestrators, watchdog, busy checkers, lost connection, restart; the platform may send any message at any time |
| `MCGateway` | `Gateway` for TLC (symmetry of paths) |
| `SummonClient`, `PushClient` | `platform_sim --gateway-file` and `--push-file` |
| `UploadSystem` | `SummonUpload`, `SummonClient` and the broker's two queues |
| `PushSystem` | `PushReceive`, `PushClient` and the broker's two queues |
| `FileDelivery` | abstract: what a summon upload promises; `UploadSystem` implements it |
| `Base64`, `Numbers` | the pure algorithms: `base64Encode` and `base64Decode` on characters as numbers; `parseU64`, `parseU32`, `parseFileCrcHex`, `toHexString` with the widths of the integers as constants; beside them the reference definitions (RFC 4648, the value of a decimal text) |
| `Config` | the configuration: defaults, what a file may set, topics and client id that follow from the gateway's id. A file is a function from names to values |
| `MCFormats` | evaluates `Base64`, `Numbers` and `Config` on every byte string, every text and every file up to a bound, grown element by element |
| `SimulatedBus` | `Gateway` on the in-memory bus. The calls in progress are a stack, and the summon handlers are cut in two at their `publish` calls, since the platform's confirm arrives inside them; shown to implement `Gateway` |
| `RuntimeLog` | `transfer::log`: the directory, each process's stream, rotation cut into its system calls |
| `DataProofs` | lemmas about data of any size: strings of bytes and their prefixes, induction over a number, folds |
| `SummonUploadProofs` | lemmas about the operators of the tables, of the watchdog and of an upload: what each does to keys, sessions and messages |
| `GatewayProofs`, `UploadSystemProofs`, `PushSystemProofs`, `SimulatedBusProofs`, `RuntimeLogProofs` | theorems about the modules they are named for |
| `FormatsProofs` | theorems about `Base64`, `Numbers`, `Config` and the properties of `MCFormats` |

One handler is one action. A helper such as `CloseTransfer(c, S, H, T)` takes
the tables as they stand where the code calls it, so a handler that stores a
session, arms a timer and then fails is written as that composition and not as
its net effect. Alternatives decided outside the code - does the open succeed,
how much does a read return, what does the read-back see - are `\E` or `\/`.

Abstractions, all of data: paths are model values and path validation may go
either way; a file that is uploaded is its size, a byte its position; a file
that is pushed is its sequence of bytes, and a CRC is identified with the
content it was computed from (collisions are outside the model, a CRC that
cannot be parsed is one no content has); JSON, notes and log lines are left out,
and the transfers do without the formats, which have modules of their own. A
configuration value is the sequence of its parts; a log line is its number, and
the size of a file is its number of lines. Times are whole seconds. Session states
the code never stores between two handlers (`Idle`, `Validating`, `Paused`,
`Completed`, `Aborted`) do not occur.

In the composed modules the broker delivers in order to whoever is connected
and keeps nothing for others (clean session on both sides). Neither end
reconnects, so messages are lost only with a connection: those on their way to
the end that lost it, and a suffix of what it has published. Nothing is
delivered twice. The gateway's and the platform's file contents do not change under
the transfer except that each open may find another size and each read may
return less than asked for.

In `SimulatedBus` a `publish` is a frame on the stack `calls`: the handlers the
bus has copied and not called yet. A handler that publishes leaves a frame of its
own below, with what it will do when the publish returns (store the session it
has sent a segment of, say). The session it stores is the copy it made before,
as in the code; that the copy is not stale by then is a result, not an
assumption. The refinement to `Gateway` goes by
`settled`, the gateway's state when none of its handlers was last waiting for a
`publish` to return: every handler, however many messages its publishes nest, is
one step of `Gateway` or none. The confirm
that `PlatformMqttSimulator` sends inside `publishContent` is one of those that are
none: the session does not wait for it yet, and `onContentConfirm` ignores it. So
an upload of the demo goes no further than its first segment, and the unit tests
confirm by calling the orchestrator after the publish
(`tests/unit/summon_test_helpers.hpp`), which is `ConfirmDirectly`.

In `RuntimeLog` a file is kept apart from its name, so that an overwritten name is
a file that has left the directory; a stream goes on writing to the file it has
open. A stream that has failed to write stays bad until it is closed, with the
line in its buffer, which is what `std::ofstream` does.

An operator marked `Fault:` is not part of the model: it is the
bug that the operator after it does not have, kept for mutation (each property
of a passing run is violated when one such fault replaces its definition, see
`mutants` in `PROJECT.json`).

## 3. The runs

| Run | Shows | Bounds |
|---|---|---|
| `gateway` | `TypeOK`, `ExclusiveUnlessZero`, `HandlesFollowSessions`, `TimersServeSessions`, `UploadsTimed`, `UploadsAwait`, `RefusedSummonSendsNothing`; under `FairSpec` also `SilenceReleases` | CmdIds 0, 1, 2; one path; files up to 3 bytes in chunks of 2; one-byte pushes; timeout 2 s |
| `gateway_disk` | `DiskMatchesProgress`, `AcceptedFileIsComplete` | two byte values, two paths, pushes up to 2 bytes with segments up to 2, CmdIds 0 and 1, timeout 1 s, paths symmetric |
| `upload_system` | `DeliversInOrder` (refinement of `FileDelivery`), `OneInFlight`, `ConfirmsExpected`, `UploadEnds` | files up to 4 bytes in chunks of 2, three processes of `platform_sim`, timeout 2 s |
| `push_system` | `PushedFileIsComplete`, `PushNeverIdle`, `PushEnds` | data up to 2 bytes of two values, two paths, two processes |
| `formats` | `SegmentsSurvive`, `NumbersExact`, `CrcSurvives`, `GatewaysKeepApart`, `DefaultsStand` | byte strings up to 7 bytes of three values; texts up to 5 characters; widths of 8 and 16 bits in place of 32 and 64, CRCs of 2 digits in place of 8; files that set any two names, numbers on both sides of every limit |
| `simulated_bus` | `ImplementsGateway` (refinement of `Gateway`), `CallsReturn`, `ReceivedInOrder`, `AnswersFollow` | CmdIds 0 and 1; files up to 2 bytes in chunks of 1; one-byte pushes; timeout 2 s; the lists cleared before each outermost call |
| `runtime_log` | `KeepsHistory`, `RotatedInOrder`, `FilesByDay` | one process, 4 lines on 3 days, files of one line, one day retained, one kill |

The bounds are enough for the interesting cases: three CmdIds let a third party
interfere with two that are related, and one of them is 0, which the code treats
specially; a file of 3 or 4 bytes with chunks of 2 has a first, a middle and a
shorter last segment, and short reads give more; `SegMod` above the number of
segments keeps segment numbers from wrapping (see section 5 for what happens when
they do). `WithinBound` stops a push in `Gateway` before the file outgrows
`MaxPushSize`; the code has no such limit. `MaxRuns` bounds how often
`platform_sim` is started in the composed runs; lost connections and gateway
restarts are not bounded there. Seven bytes are two full groups and
a short one of either kind; the bytes 0 and 255 have every bit
clear and set, 77 is a mixture. Five decimal digits pass the small widths
the way 20 digits pass 64 bits, at the same kind of boundary: the number that
still fits, one that wraps below its prefix, and one that wraps above it.

In `simulated_bus` two chunks give a confirm that is ignored and one that is not,
and CmdId 0 is also the one an undecodable summon is answered with. The clearing
of the lists is what the tests do between calls, and that a second passes
between two calls only keeps `out` of one call from the next. In `runtime_log`
a file of one line rotates at every line, so that four lines give three
suffixes and, with a purge that was interrupted, a gap among them; the third day
is the one on which the first is purged. `SuffixLimit` stands for the 10000 of
`nextRotateSuffix` and is out of reach in the runs: with `SuffixLimit = 2` TLC
finds `KeepsHistory` violated, since after 9999 rotations of one day the code
renames again and again to `.log.10000`.

Fairness is assumed of `Tick` and `Second`: the loop in `main` calls
`tick` in every turn whatever `mosquitto_loop` returns, and the clock is
steady. `BusSpec` assumes it of `Proceed`, the steps of the calls in progress: the
one thread goes on with its own call unless it waits for the bus's mutex, which
is a guard of the model. Nothing is assumed of the platform, the broker or the
file system.

`upload_system` and `push_system` take `Hasty = FALSE`: a new process of
`platform_sim` is started only when the gateway has handled what the one before
it had sent. Without that assumption (`Hasty = TRUE`) an upload can go wrong:
`onContentMessage` appends whatever content arrives, so a process that starts too
early stores its predecessor's segment as its own first one, and `OneInFlight`,
`ConfirmsExpected` and `DeliversInOrder` fail. So does `PushedFileIsComplete`:
both processes use CmdId 9001, and a confirm meant for the old one moves the new
one on.
`document/15-V0.0.3-验收说明.md:117` asks for a new CmdId in that case.

### Disagreements with the documents

| Run | What the counterexample shows |
|---|---|
| `exclusion` | an upload with CmdId 0 and a push at the same time: the push side's busy checker leaves CmdId 0 out (`src/main.cpp:222`) |
| `push_silence` | a summon with the CmdId of the active push is refused as BUSY, but arms and disarms the push's deadline; when the platform then goes silent the push never ends (`transfer_orchestrator.cpp:231`) |
| `briefed_file` | a second summon of the active CmdId for another path: the brief describes the new file, the content is the old one's, because `emplace` keeps the old handle (`transfer_orchestrator.cpp:303`) |
| `log_shared` | two processes that log to one directory (`transferFile` and `platform_sim` started in the same place, both with `logDir` "log") rotate at the same time: both find the same suffix, and the second `rename` overwrites the file the first has just rotated (`runtime_log.cpp:184-186`); `document/11-运行日志.md:73` says that history is never overwritten |
| `client_id` | a file with `gatewayId` gw002 and no `clientId` keeps `gateway-transfer-sim-gw001`: the loader forgets the default's topics but not its client id (`config_loader.cpp:206`), where `document/09-配置文件说明.md:59` gives `gateway-transfer-sim-{gatewayId}` |

Other things that the models follow the code in, and no run is spent on: a
repeated push brief is refused as BUSY while content of its CmdId is still
received (`push_receive_orchestrator.cpp:94`); a last Base64 group of one byte is
encoded in five characters, three digits and two `=` (`base64.cpp:57`), where the
comments at lines 30 and 56 say that the length is always `ceil(n/3)*4` and that
there are two digits; the decoder
counts the padding and cuts the extra byte (`SegmentsSurvive`); `parseU64` of
`json_codec.cpp` refuses an overflow only when the product wraps below its
predecessor, so "30000000000000000000" is taken for 11553255926290448384, and the
one of `json_push_codec.cpp` does not look at overflow at all.

The properties of the passing runs are stated so that they hold with these
behaviours in the model: `ExclusiveUnlessZero` and `UploadsTimed` except CmdId 0,
and `SilenceReleases` speaks of transfers that still have a deadline.

## 4. The proofs

Each theorem is about every value of the constants that satisfies the named
assumptions next to their declarations (`CmdIdsAssumption`, `SegModAssumption`,
`UploadAssumption`, `PushAssumption`, `TimeoutSecAssumption`, `MaxU32Assumption`,
`WidthAssumption`, `FormatsAssumption`, ...), which say what the types of the code
say: that a byte is one of 0..255, say, and that 2^32 is what fits in the digits
of a CRC. The last column is what a
theorem assumes besides.

| Module | Proved | Assuming |
|---|---|---|
| `GatewayProofs` | `TypeOK`, `ExclusiveUnlessZero`, `HandlesFollowSessions`, `TimersServeSessions`, `UploadsTimed`, `DiskMatchesProgress`, `RefusedSummonSendsNothing`; the action property `AcceptedFileIsComplete` | – |
| | `UploadsAwait` | `MaxFileSize < SegMod` |
| `UploadSystemProofs` | `OneInFlight`, `ConfirmsExpected`, `DeliversInOrder` (refinement of `FileDelivery`) | `Hasty = FALSE`, `MaxFileSize < SegMod` |
| `PushSystemProofs` | `PushedFileIsComplete` | `Hasty = FALSE` |
| | `PushNeverIdle` | – |
| `SimulatedBusProofs` | `ImplementsGateway` (refinement of `Gateway`), `AnswersFollow`, `ReceivedInOrder`; whenever no handler waits, the invariants of `GatewayProofs` (`GatewayStands`) | – |
| | `UploadsAwait`, whenever no handler waits | `MaxFileSize < SegMod` |
| `RuntimeLogProofs` | `FilesByDay`, for any number of processes | – |
| | `RotatedInOrder`, the action property `KeepsHistory` | one process; the suffixes of a day stay below the limit, or fewer lines than the limit are printed |
| `FormatsProofs` | `SegmentsSurvive`, `NumbersExact`, `CrcSurvives`, for strings of any length and every width of the integers | – |
| | `GatewaysKeepApart`, `DefaultsStand`, and both for any two files and any text as id (`IdsKeepApart`, `UnsetStands`) | – |

The hypotheses are the ones section 3 speaks of, and each is needed. With
`Hasty = TRUE` TLC finds the three properties of the upload and
`PushedFileIsComplete` violated, and with `SegMod` 3 in place of 8
`ConfirmsExpected`; `Hasty = FALSE` is what the document asks of
whoever starts `platform_sim`, and it is what happens when the second process
starts later than the gateway handles a message.
`MaxFileSize < SegMod` keeps segment numbers from wrapping, which takes 2^32
segments in the code. Two processes lose history by `log_shared`, and at the
limit of suffixes one process does. `BelowLimit` is stated as a hypothesis on the
behaviour (`[]BelowLimit`), and `LimitNotReached` shows that it holds of every
behaviour with `MaxPrinted < SuffixLimit`, so it excludes nothing that a log of
fewer than 10000 lines could do (`ShortLogs`).

### The gateway

`Invariance` is `Spec => []Inv`, with
`Inv == TypeOK /\ ExclusiveUnlessZero /\ HandlesFollowSessions /\
TimersServeSessions /\ UploadsTimed /\ DiskMatchesProgress`.

The parts of `Inv` are not inductive one by one. A handler looks a session up by
CmdId and closes handle and deadline by the same CmdId, so it preserves
`HandlesFollowSessions` and `UploadsTimed` only if the tables are keyed and the
store holds one session; that it holds one follows from the busy checks, for
pushes together with the exclusion; `DiskMatchesProgress` needs that a push's
handle is of its own file, which `Emplace` gives only because no handle of that
CmdId was open, which is `HandlesFollowSessions`. The proof has one lemma per
handler (`SummonPreserves`, `ConfirmContentPreserves`, `AnnouncePushPreserves`,
`SendPushPreserves`, `TickPreserves`, ...) over one per helper
(`CloseTransferPreserves`, `SendNextPreserves`, `ClosePushPreserves`);
`SummonUploadProofs` states once what the operations on tables and deadlines
do to keys. `AcceptedComplete` rests on `LastSegmentCompletes`:
at the last segment the size check fixes the length of the file, so a read-back
that equals an announced content of that length is the whole file, even
though the read-back may be cut short.

### The upload from end to end

`Inv` of `UploadSystemProofs` says which five things may be underway between
the two ends (nothing, a request, a brief, a brief with the first content, a
content) and what session and platform know of each other in each:
in `ContentUnderway`, say, the content continues what the platform has
received, and every session waits for just this segment. `SessionsWait` and
`ClientOK` are the parts that hold in all five. The difficulty is in the steps that
mix them: a new process of `platform_sim` meets the session of the one before,
a lost connection takes a suffix of what is underway, and a second summon replaces
the session but not the handle. `SummonOutcome`, `ConfirmOutcome` and `SendOutcome`
(in `SummonUploadProofs`) reduce each handler to what it may publish and which
session it leaves. `OneInFlight` and `ConfirmsExpected` follow from `Inv`. For
`UploadDelivers` every step is mapped: the start of a process is `Ask` of
`FileDelivery`, a content that arrives `Deliver` (`ContentDelivers`), a brief
`Announce` or, if it refuses, a stutter (`BriefAnnounces`), and all others are
stutters.

### The push from end to end

`Inv` of `PushSystemProofs` has the same form, with four phases. What has to be
carried through them is that the session's progress is a prefix of the data
`platform_sim` holds (`Receiving`), and that the confirm of the last segment is
only on its way without an error when the disk holds all of them
(`ContentConfirmUnderway`), since neither end compares the CmdId or the number
of a confirm with anything.

`NeverIdle` does without `Hasty = FALSE` and has an invariant of its own. A new
process may get the confirm of a segment that the old one sent, and sends nothing
after it; but as long as its own brief is not confirmed, that brief or its answer
is still underway (`Active`). Once it is, the gateway answers everything it is
sent, and `platform_sim` sends or exits at every answer.

### The bus

`Inv` of `SimulatedBusProofs` describes the stack: it is that of one
handler of the gateway that waits for one of its publishes, or of none, and the
tables are what the part of that handler that has run makes of `settled`. Its
cases are `AtRest`, `Refusing`, `Briefing` and `Sending`. In each, when the handler
ends, the whole of it is one step of `Gateway` (the lemmas `Atomic...`), and what
is nested before that is none. The lemma that matters is `NobodyWaits`: the
confirm inside `publishContent` finds a stored session whose
`awaitingConfirmSegNo` is 0, that is, one that waits for nothing, so
`onContentConfirm` ignores it and the copy of the session that the handler stores
afterwards is not stale. `AnswersInOrder` adds
`RecordInv`: no more than one publish on the stack has a handler left to call, and
its message is the one recorded last. `CollectedInOrder` needs its second part,
`AllCollected`: what the record holds for the platform is a suffix of what the
platform has, except while the platform's handler is still to be called, when it is
one of what the platform will have then.

`GatewayStands` applies the theorems of `GatewayProofs` to the gateway that the
bus implements (`Proved`, an instance of that module on `settled`; the lemmas
`...Agree` say that it speaks of the same actions as `Atomic`). Since
`settled` is the gateway's own state whenever no handler waits
(`SettledIsState`), its tables, deadlines and files on the bus are then as
consistent as on a broker, and so what a test finds between two calls. The
hypothesis is needed: while a handler waits, its session may not be stored yet,
and TLC finds the same invariants violated.

### The log

`DatedInv` (any number of processes): no name denotes two files, a stream writes
to a file of its own date, and so is the line in its buffer. `OrderInv` (one
process): a line in a buffer is later than any line in the directory, and the
name a rotation moves the base file to comes after the names that are there.
That it does is `NextSuffixIsNext`, and needs `BelowLimit`.
`SuffixesCounted` ties suffixes to the number of lines printed.

### The formats

A fold is looked at as a run: the sequence of the values it passes through
(`FoldRun`, `FlattenRun`), so that what it computes is an invariant of the run,
carried from one character to the next by `NumberInduction`. That in turn is stated with a
set of numbers in place of a predicate, and follows from the existence of a least
number outside the set (`LeastExists`, from the library's `WFMin`); neither
needs an operator as a parameter, which the provers cannot instantiate.

`ContentSurvives` cuts three bytes where their four digits cut them (`Cut`,
`Bits`). The invariant of the decoder's loop says after how many digits which
bytes are out and which bits of the next are left; at the end of a short group the
bits left over are what `Trim` cuts, for the code's three digits as for the
standard's two. `NumbersParsed` shows that
the loop of `parseU64` computes the value of the prefix as long as that fits,
and that `next < v` is never taken for an overflow below 2^64. `CrcWritten`
reads the digits that `toHexString` writes back by the powers of 16
(`Weight`).

### The configuration

`TopicsDiffer` reads a topic's name back: it is made of a prefix, the id and one of
eight parts, so equal names have equal parts. A file is abstracted to
sequences of parts here; that the same holds of characters is because none of the
eight parts ends with another. `MalformedRefused` goes through the ranges of
the numbers.

The inductive invariants were checked with TLC as invariants of the runs'
instances before they were proved: the upload's in 5 786 states, the push's in
18 010 (`Active` with `Hasty = TRUE` in 472 210), `DatedInv` with two processes in 163 840, `OrderInv` with
`SuffixesCounted` in 1 748 427, the bus's in 91 192.

### Only model-checked

- `SilenceReleases`, `UploadEnds`, `PushEnds`, `CallsReturn`: liveness under
  fairness.

Liveness needs `ENABLED`, which is out of the provers' reach. The violations of
section 3 are counterexamples of TLC and need no proof.

## 5. Not modelled, and why

- Segment numbers that wrap: `FileSegNo` is 32 bits wide, and after 2^32
  segments `awaitingConfirmSegNo` is 0, which the code takes for "nothing
  awaited". `UploadsKeepWaiting` names the assumption that excludes it.
- A push that announces one size and sends more is only cut off at the end; the
  model bounds it by `MaxPushSize`.
- Path validation is a choice that may go either way: the normalisation of paths
  in `FileStore`, and the modification time, are left out. So is a file that
  changes between brief and content, except that every open may find another
  size: the CRC in the brief is used by nobody in this repository.
- `RecordingMqttPublisher`, which only the unit tests use; the MQTT factory, which
  keeps no state; argument parsing; the third-party mosquitto library.
- In the log: the wording of a line, a directory that cannot be created or read, a
  write of half a line, and `retainDays` of 2^31 or more, which the code casts to
  a negative number.
- A `platform_sim` whose connection lost a frame or a confirm waits for ever: it
  has no timeout of its own, so nothing can be stated of its end.
- Field extraction and escaping in the JSON codecs and the configuration loader,
  which find a key at the first occurrence of its quoted name; CRC-32 itself; the
  copy of `parseU64` in `config_loader.cpp`, which is that of
  `json_push_codec.cpp`.
- Two platforms at once in the composed modules: `Gateway` covers them, since
  there any message may arrive at any time.

## 6. Plan

What is left, in this order:

1. `UploadSystem` and `PushSystem`: action properties of how a session may end,
   such as that an upload ends only with a refused or failed read, a timeout, a
   restart, or the confirm of its last byte.
2. Field extraction in the JSON codecs and the configuration loader, as a pure
   algorithm on characters beside `Numbers`.
3. The four liveness properties, as soon as `ENABLED` can be reasoned about.

## 7. Running

    tlc -workers 2 -config Gateway.cfg MCGateway.tla
    tlc -workers 2 -config GatewayDisk.cfg MCGateway.tla
    tlc -workers 2 -config UploadSystem.cfg UploadSystem.tla
    tlc -workers 2 -config PushSystem.cfg PushSystem.tla
    tlc -workers 2 -config Formats.cfg MCFormats.tla
    tlc -workers 2 -config SimulatedBus.cfg SimulatedBus.tla
    tlc -workers 2 -config RuntimeLog.cfg RuntimeLog.tla
    tlapm DataProofs.tla
    tlapm SummonUploadProofs.tla
    tlapm GatewayProofs.tla
    tlapm UploadSystemProofs.tla
    tlapm PushSystemProofs.tla
    tlapm SimulatedBusProofs.tla
    tlapm RuntimeLogProofs.tla
    tlapm FormatsProofs.tla
