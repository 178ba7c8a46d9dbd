-------------------------- MODULE AbstractCheckpoint --------------------------
(***************************************************************************)
(* What the relayer promises about the height it keeps in its database for *)
(* one application relayer (database.LatestProcessedBlockKey).  A restart  *)
(* resumes from that height, so every block at or below it that the        *)
(* relayer had set out to process must have been processed.                *)
(***************************************************************************)
EXTENDS Integers

CONSTANT MaxHeight

Heights == 0 .. MaxHeight

VARIABLES processed,  \* heights all of whose messages have been relayed
          durable,    \* the height in the database, -1 when there is none
          base        \* where the run of heights ending in durable began

vars == <<processed, durable, base>>

Init ==
    /\ processed = {}
    /\ durable = -1
    /\ base = 0

\* A block's messages have all been relayed (again, possibly).
Process(h) ==
    /\ processed' = processed \cup {h}
    /\ UNCHANGED <<durable, base>>

\* The stored height moves forward to c, over processed heights only.
Advance(b, c) ==
    /\ durable < c
    /\ b <= c
    /\ (b + 1) .. c \subseteq processed
    /\ durable' = c
    /\ base' = b
    /\ UNCHANGED processed

Next ==
    \/ \E h \in Heights : Process(h)
    \/ \E b, c \in Heights : Advance(b, c)

Spec == Init /\ [][Next]_vars
===============================================================================
