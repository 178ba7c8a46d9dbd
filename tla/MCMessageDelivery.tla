--------------------------- MODULE MCMessageDelivery ---------------------------
(* A block with a Teleporter message m1, an off-chain registry message m2 and  *)
(* a message m3 for other relayers, and a task a1 the API starts for m1.       *)
EXTENDS MessageDelivery, TLC

CONSTANTS b1, b2, b3, a1, m1, m2, m3

MCMsgOf == (b1 :> m1) @@ (b2 :> m2) @@ (b3 :> m3) @@ (a1 :> m1)
================================================================================
