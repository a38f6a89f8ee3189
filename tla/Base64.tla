------------------------------- MODULE Base64 -------------------------------
(***************************************************************************)
(* base64Encode and base64Decode, which carry the content of a segment in  *)
(* both directions.  A character is its value in the alphabet, 0 to 63, or *)
(* one of the three below.                                                 *)
(***************************************************************************)
EXTENDS Naturals, Integers, Sequences, SequencesExt

Pad == 64       \* '='
Blank == 65     \* blank, carriage return, line feed
Foreign == 66   \* any character that is not of the alphabet

\* The three bytes at a time that are encoded together; the last may be less.
Groups(bytes) ==
    [k \in 1..((Len(bytes) + 2) \div 3) |->
        SubSeq(bytes, 3 * k - 2, IF 3 * k <= Len(bytes) THEN 3 * k ELSE Len(bytes))]

\* The four digits of a group, missing bytes taken as 0.
Digits(g) ==
    LET byte(i) == IF i <= Len(g) THEN g[i] ELSE 0
        n == byte(1) * 65536 + byte(2) * 256 + byte(3)
    IN  <<n \div 262144, (n \div 4096) % 64, (n \div 64) % 64, n % 64>>

\* One byte makes three digits and two pads.
EncodeGroup(g) ==
    CASE Len(g) = 3 -> Digits(g)
      [] Len(g) = 2 -> SubSeq(Digits(g), 1, 3) \o <<Pad>>
      [] Len(g) = 1 -> SubSeq(Digits(g), 1, 3) \o <<Pad, Pad>>

base64Encode(bytes) ==
    LET groups == Groups(bytes)
    IN  FlattenSeq([k \in DOMAIN groups |-> EncodeGroup(groups[k])])

\* The number of '=' at the end.
PadCount(chars) ==
    CHOOSE n \in 0..Len(chars) :
        /\ \A i \in (Len(chars) - n + 1)..Len(chars) : chars[i] = Pad
        /\ n < Len(chars) => chars[Len(chars) - n] # Pad

\* The decoder's loop: `bits' holds what has not been output yet (its higher
\* bits are never looked at) and `at' says how many there are, minus 8.
DecodeStep(state, c) ==
    IF c = Blank \/ ~state.ok THEN state
    ELSE IF c \in {Pad, Foreign} THEN [state EXCEPT !.ok = FALSE]
    ELSE LET bits == (state.bits * 64 + c) % 4096
             at == state.at + 6
             full == at >= 0
         IN  [ok |-> TRUE, bits |-> bits,
              at |-> IF full THEN at - 8 ELSE at,
              bytes |-> IF full THEN Append(state.bytes, (bits \div 2^at) % 256)
                        ELSE state.bytes]

\* Fault: what the digits of a short group carry too much is kept.
Untrimmed(bytes, length, pads) == bytes

\* The cut to the length that groups of four and padding give; a negative
\* one is a huge size_t and cuts nothing.
Trim(bytes, length, pads) ==
    LET expected == (length \div 4) * 3 - pads
    IN  IF expected >= 0 /\ Len(bytes) > expected
        THEN SubSeq(bytes, 1, expected) ELSE bytes

\* ok and bytes; the bytes are those decoded so far when it fails.
base64Decode(chars) ==
    LET pads == PadCount(chars)
        start == [ok |-> TRUE, bits |-> 0, at |-> -8, bytes |-> <<>>]
        end == FoldLeft(DecodeStep, start, SubSeq(chars, 1, Len(chars) - pads))
    IN  IF end.ok
        THEN [ok |-> TRUE, bytes |-> Trim(end.bytes, Len(chars), pads)]
        ELSE [ok |-> FALSE, bytes |-> <<>>]

-----------------------------------------------------------------------------
(* Reference: RFC 4648, where one byte makes two digits and two pads.      *)

StandardGroup(g) == SubSeq(Digits(g), 1, Len(g) + 1) \o [i \in 1..(3 - Len(g)) |-> Pad]

Standard(bytes) ==
    LET groups == Groups(bytes)
    IN  FlattenSeq([k \in DOMAIN groups |-> StandardGroup(groups[k])])
=============================================================================
