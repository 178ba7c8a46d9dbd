------------------------ MODULE MCSignatureAggregator ------------------------
(* Instances of SignatureAggregator for TLC: the heavier validator v1 runs    *)
(* two nodes with one BLS key.                                               *)
EXTENDS SignatureAggregator, TLC

CONSTANTS v1, v2

MCWeight == (v1 :> 2) @@ (v2 :> 1)
MCNumNodes == (v1 :> 2) @@ (v2 :> 1)
=============================================================================
