------------------------- MODULE MCCheckpointStorage -------------------------
(* An instance of CheckpointStorage for TLC: two managers share a relayer ID. *)
EXTENDS CheckpointStorage

CONSTANTS m1, m2, id1

MCIDOf == [m \in {m1, m2} |-> id1]
MCOrder == <<m1, m2>>
==============================================================================
