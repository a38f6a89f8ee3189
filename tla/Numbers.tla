------------------------------ MODULE Numbers ------------------------------
(***************************************************************************)
(* The numbers of a JSON message: parseU64 and parseU32, of which each     *)
(* codec has its own, and the CRC in hexadecimal.  A text is a sequence of *)
(* characters: 0 to 15 for the digits, and the two below.                  *)
(***************************************************************************)
EXTENDS Naturals, Sequences, SequencesExt

CONSTANTS
    HexDigits,  \* digits of a CRC: 8
    U32,        \* 2^32
    U64         \* 2^64

\* What a hexadecimal digit with k more after it counts for: 16^k.
Weight[k \in 0..HexDigits] == IF k = 0 THEN 1 ELSE 16 * Weight[k - 1]

ASSUME WidthAssumption ==
    HexDigits \in Nat \ {0} /\ U32 = Weight[HexDigits] /\ U64 = U32 * U32

X == 16         \* 'x'
Other == 17     \* a character that is no digit

Refused == [ok |-> FALSE, value |-> 0]
Parsed(v) == [ok |-> TRUE, value |-> v]

WrapsOrStays(v, next) == next <= v    \* Fault: 0 followed by 0 is refused

\* What parseU64 of json_codec takes for an overflow.
Wraps(v, next) == next < v

\* One character of parseU64 (json_codec).
SummonDigit(r, c) ==
    LET next == (r.value * 10 + c) % U64
    IN  IF ~r.ok \/ c > 9 \/ Wraps(r.value, next) THEN Refused ELSE Parsed(next)

\* One character of parseU64 (json_push_codec): no look at overflow.
PushDigit(r, c) ==
    IF ~r.ok \/ c > 9 THEN Refused ELSE Parsed((r.value * 10 + c) % U64)

SummonParseU64(text) ==
    IF text = <<>> THEN Refused ELSE FoldLeft(SummonDigit, Parsed(0), text)

PushParseU64(text) ==
    IF text = <<>> THEN Refused ELSE FoldLeft(PushDigit, Parsed(0), text)

\* parseU32, given what parseU64 makes of the text.
ParseU32(r) == IF r.ok /\ r.value < U32 THEN r ELSE Refused

\* Fault: digits are appended in base ten.
AppendTen(v, d) == (v * 10 + d) % U32

\* Digits beyond the width push the first ones out.
AppendHex(v, d) == (v * 16 + d) % U32

HexDigit(r, c) ==
    IF ~r.ok \/ c > 15 THEN Refused ELSE Parsed(AppendHex(r.value, c))

parseFileCrcHex(text) ==
    LET prefixed == Len(text) >= 2 /\ text[1] = 0 /\ text[2] = X
        digits == IF prefixed THEN SubSeq(text, 3, Len(text)) ELSE text
    IN  IF digits = <<>> THEN Refused ELSE FoldLeft(HexDigit, Parsed(0), digits)

\* "0x%08X".
toHexString(v) ==
    <<0, X>> \o [i \in 1..HexDigits |-> (v \div Weight[HexDigits - i]) % 16]

-----------------------------------------------------------------------------
(* Reference: the number a decimal text denotes.                           *)

IsDecimal(text) == text # <<>> /\ \A i \in DOMAIN text : text[i] <= 9

AppendDecimal(v, d) == v * 10 + d

DecimalValue(text) == FoldLeft(AppendDecimal, 0, text)
=============================================================================
