------------------------------- MODULE MCRouting -------------------------------
(***************************************************************************)
(* An instance of Routing for TLC: the C-Chain of the primary network and  *)
(* a chain of a subnet, and configurations of every kind of relayer ID.    *)
(*                                                                         *)
(* Parameters and constants do not have the names of record fields: TLC    *)
(* sorts fields by first appearance, and two workers that sort a record of *)
(* Configs at the same time would break it.  Written sorted, it stays.     *)
(***************************************************************************)
EXTENDS Routing, TLC

CONSTANTS cChain, sChain, primary, sNet, zero, a, b, n1, n2, n3, k1, k2, k3

MCChainConfig ==
    (cChain :> [upgrades |-> <<>>, genesis |-> NoWarpConfig]) @@
    (sChain :> [upgrades |-> <<[timestamp |-> 1, numerator |-> 90],
                               [timestamp |-> 2, numerator |-> 0]>>,
                genesis |-> 60])

\* n3 leaves the primary network after height 0.
MCPChain ==
    (0 :> [weights |-> (primary :> (n1 :> 1 @@ n2 :> 1 @@ n3 :> 1)) @@ (sNet :> (n1 :> 2 @@ n3 :> 1)),
           keys |-> n1 :> k1 @@ n2 :> k2 @@ n3 :> k3]) @@
    (1 :> [weights |-> (primary :> (n1 :> 1 @@ n2 :> 1)) @@ (sNet :> (n1 :> 2 @@ n3 :> 1)),
           keys |-> n1 :> k1 @@ n2 :> k2 @@ n3 :> k3])

Message(c, o, d, x, h) == [chain |-> c, origin |-> o, dest |-> d, addr |-> x, handler |-> h]

MCMessages ==
    {Message(sChain, a, cChain, b, "ok"),
     Message(sChain, b, cChain, zero, "ok"),
     Message(sChain, b, cChain, b, "invalid")}

SourceOf(c, e, s, o, ds) ==
    [chain |-> c, enc |-> e, subnet |-> s, origins |-> o, dests |-> ds, wellFormed |-> TRUE]
DestinationOf(c, e, s) == [chain |-> c, enc |-> e, subnet |-> s, wellFormed |-> TRUE]
To(addrs) == [chain |-> cChain, enc |-> "cb58", addrs |-> addrs]

FromSubnet(origins, dests) ==
    [sources |-> <<SourceOf(sChain, "cb58", sNet, origins, dests)>>,
     destinations |-> <<DestinationOf(cChain, "cb58", primary)>>]

MCConfigs ==
    {FromSubnet({}, <<>>),
     FromSubnet({a}, <<>>),
     FromSubnet({}, <<To({b})>>),
     FromSubnet({a}, <<To({b})>>),
     FromSubnet({}, <<To({}), To({b})>>),
     FromSubnet({zero}, <<>>),
     [sources |-> <<SourceOf(cChain, "hex", primary, {}, <<>>),
                    SourceOf(sChain, "cb58", sNet, {}, <<To({})>>)>>,
      destinations |-> <<DestinationOf(cChain, "cb58", primary),
                         DestinationOf(sChain, "cb58", sNet)>>],
     [sources |-> <<SourceOf(sChain, "cb58", sNet, {}, <<>>)>>,
      destinations |-> <<DestinationOf(cChain, "hex", primary)>>]}
==============================================================================
