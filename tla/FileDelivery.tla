---------------------------- MODULE FileDelivery ----------------------------
(***************************************************************************)
(* What a summon upload promises to the platform that asks for a file from *)
(* byte `asked' on: it is told the size first, and then receives the bytes *)
(* from that one on, each once, in order and none past the end; it takes   *)
(* the file for complete only when the last byte is in.  It may stop short *)
(* at any point (the promise says nothing about failure) and ask again.    *)
(* Bytes are named by their positions in the file, counted from 1.         *)
(***************************************************************************)
EXTENDS Naturals, Sequences

VARIABLES
    asked,      \* first byte asked for; 0 before the first request
    total,      \* size of the file, 0 before it is announced
    received,   \* the bytes received for this request
    done        \* the file is taken for complete

vars == <<asked, total, received, done>>

\* Bytes i + 1 to j of the file.
Bytes(i, j) == [k \in 1..(j - i) |-> i + k]

Init == asked = 0 /\ total = 0 /\ received = <<>> /\ done = FALSE

Ask ==
    /\ asked' \in Nat \ {0}
    /\ total' = 0
    /\ received' = <<>>
    /\ done' = FALSE

Announce ==
    /\ asked # 0 /\ total = 0
    /\ total' \in Nat /\ total' >= asked - 1
    /\ UNCHANGED <<asked, received, done>>

Deliver ==
    LET reached == asked - 1 + Len(received)
    IN  /\ asked # 0 /\ ~done
        /\ \E upTo \in (reached + 1)..total :
            /\ received' = received \o Bytes(reached, upTo)
            /\ done' \in {FALSE, upTo = total}
        /\ UNCHANGED <<asked, total>>

Next == Ask \/ Announce \/ Deliver

Spec == Init /\ [][Next]_vars
=============================================================================
