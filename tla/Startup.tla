-------------------------------- MODULE Startup --------------------------------
(***************************************************************************)
(* The start of the relayer (relayer/main/main.go): the configuration is   *)
(* validated, the Warp quorum of every destination is fetched from its     *)
(* chain (relayer/config), the clients and the network are created, every  *)
(* source's signing validators are connected to and their stake is checked *)
(* (relayer/network_utils.go, peers/app_request_network.go,                *)
(* peers/validators/canonical_validator_client.go), and the application    *)
(* relayers are created.  Any of these steps may fail and end the process. *)
(***************************************************************************)
EXTENDS RelayerIDs, Stake

CONSTANTS
    Configs,           \* the configurations an operator writes
    PrimaryNetworkID,  \* a subnet
    ChainConfig,       \* Warp precompile of a chain: [upgrades, genesis]
    Nodes, ApiNode,    \* the nodes, and the one that serves the info API
    NoKey,
    PChain             \* by height: [weights: by subnet, keys: by node]

\* At every height every subnet has finitely many validators, and some stake.
ASSUME PChainAssumption ==
    \A h \in DOMAIN PChain : \A subnet \in Subnets :
        LET weights == PChain[h].weights[subnet]
        IN  /\ IsFiniteSet(DOMAIN weights)
            /\ DOMAIN weights \subseteq Nodes
            /\ \A n \in DOMAIN weights : weights[n] \in Nat
            /\ \E n \in DOMAIN weights : weights[n] > 0

\* Config.Validate: "configured source subnets must have unique chain IDs".  It
\* compares texts; a chain listed in both encodings is left out here.
ASSUME ConfigsAssumption ==
    /\ Configs \subseteq [sources : Seq(Sources), destinations : Seq(Destinations)]
    /\ \A c \in Configs : \A i, j \in DOMAIN c.sources :
          c.sources[i].chain = c.sources[j].chain => i = j

VARIABLES
    phase,             \* what main does
    cfg,
    warpQuorum,        \* the quorum numerator of each destination chain
    source, dest,      \* indices of main's loops
    warned,            \* a stake check failed
    backed,            \* <<source chain, destination chain, subnet>> for which the stake
                       \* of the subnet's connected validators sufficed when checked
    relayers           \* the keys of applicationRelayers

startupVars == <<phase, cfg, warpQuorum, source, dest, warned, backed, relayers>>

Phases == {"config", "quorums", "clients", "connect", "create", "running", "exited"}

NoWarpConfig == -1

StartupInit(c) ==
    /\ phase = "config"
    /\ cfg = c
    /\ warpQuorum = [chain \in Chains |-> NoWarpConfig]
    /\ source = 1 /\ dest = 1
    /\ warned = FALSE
    /\ backed = {}
    /\ relayers = {}

\* A new process, with a configuration.
StartupAgain(c) ==
    /\ phase' = "config"
    /\ cfg' = c
    /\ warpQuorum' = [chain \in Chains |-> NoWarpConfig]
    /\ source' = 1 /\ dest' = 1
    /\ warned' = FALSE
    /\ backed' = {}
    /\ relayers' = {}

\* main panics.
Exit == /\ phase' = "exited"
        /\ UNCHANGED <<cfg, warpQuorum, source, dest, warned, backed, relayers>>

NewConfig ==
    /\ phase = "config"
    /\ IF Validate(cfg)
       THEN /\ phase' = "quorums"
            /\ UNCHANGED <<cfg, warpQuorum, source, dest, warned, backed, relayers>>
       ELSE Exit

------------------------------------------------------------------------------
(* Warp quorums.                                                            *)

WarpDefaultQuorumNumerator == 67
WarpQuorumDenominator == 100

\* The chain's own check of its Warp configuration: no numerator above the denominator.
ASSUME ChainConfigAssumption ==
    ChainConfig \in
        [Chains -> [upgrades : Seq([timestamp : Nat, numerator : 0 .. WarpQuorumDenominator]),
                    genesis : {NoWarpConfig} \cup 0 .. WarpQuorumDenominator]]

\* Mutant: a numerator of zero is taken as it is.
calculateQuorumNumeratorAsIs(numerator) == numerator

calculateQuorumNumerator(numerator) ==
    IF numerator = 0 THEN WarpDefaultQuorumNumerator ELSE numerator

\* Of several upgrades the one with the latest timestamp counts, the first of them on
\* a tie; without any, the genesis configuration; without that it is an error.
getWarpQuorum(subnet, chain) ==
    LET upgrades == ChainConfig[chain].upgrades
        latest == CHOOSE i \in DOMAIN upgrades : \A j \in DOMAIN upgrades :
                      \/ upgrades[j].timestamp < upgrades[i].timestamp
                      \/ upgrades[j].timestamp = upgrades[i].timestamp /\ i <= j
    IN  IF subnet = PrimaryNetworkID THEN WarpDefaultQuorumNumerator
        ELSE IF upgrades # <<>> THEN calculateQuorumNumerator(upgrades[latest].numerator)
        ELSE IF ChainConfig[chain].genesis # NoWarpConfig
             THEN calculateQuorumNumerator(ChainConfig[chain].genesis)
        ELSE NoWarpConfig

\* initializeWarpQuorum parses the IDs with ids.FromString, which knows cb58 only.
CanInitializeWarpQuorum(d) ==
    /\ d.enc = "cb58"
    /\ getWarpQuorum(d.subnet, d.chain) # NoWarpConfig

\* One destination after the other; dialling it or fetching its configuration may fail.
InitializeWarpQuorums ==
    /\ phase = "quorums"
    /\ LET dests == cfg.destinations
       IN  \/ /\ \A i \in DOMAIN dests : CanInitializeWarpQuorum(dests[i])
              /\ warpQuorum' = [chain \in Chains |->
                     IF \E i \in DOMAIN dests : dests[i].chain = chain
                     THEN LET d == dests[CHOOSE i \in DOMAIN dests : dests[i].chain = chain]
                          IN  getWarpQuorum(d.subnet, chain)
                     ELSE NoWarpConfig]
              /\ phase' = "clients"
              /\ UNCHANGED <<cfg, source, dest, warned, backed, relayers>>
           \/ Exit

\* GetWarpQuorum compares the chain ID in cb58 with the text of the configuration.
HasWarpQuorum(chain) == <<chain, "cb58">> \in Texts(cfg.destinations)

\* Destination and source clients, metrics, NewNetwork.
CreateClients ==
    /\ phase = "clients"
    /\ \/ /\ phase' = "connect"
          /\ UNCHANGED <<cfg, warpQuorum, source, dest, warned, backed, relayers>>
       \/ Exit

------------------------------------------------------------------------------
(* Validators and connections.                                              *)

\* platform.getValidatorsAt: weight and key of each validator at a height.
GetValidatorsAt(h, subnet) ==
    [n \in DOMAIN PChain[h].weights[subnet] |->
        [weight |-> PChain[h].weights[subnet][n], key |-> PChain[h].keys[n]]]

\* The fallback: the current validators of the subnet, then the keys of those that
\* validate the primary network, which may have moved on to height h2.
getCurrentValidatorSet(h1, h2, subnet) ==
    [n \in DOMAIN PChain[h1].weights[subnet] |->
        [weight |-> PChain[h1].weights[subnet][n],
         key |-> IF n \in DOMAIN PChain[h2].weights[PrimaryNetworkID]
                 THEN PChain[h2].keys[n] ELSE NoKey]]

\* What GetValidatorSet may return.
ValidatorSets(subnet) ==
    {GetValidatorsAt(h, subnet) : h \in DOMAIN PChain} \cup
    {getCurrentValidatorSet(h[1], h[2], subnet) :
        h \in {g \in (DOMAIN PChain) \X (DOMAIN PChain) : g[1] <= g[2]}}

\* The sets ConnectPeers may return: all nodes, when they are connected already; none
\* if the info API fails; or those among the API node's peers, with the API node itself
\* unless asking for its ID or address fails.
ConnectPeers(nodeIDs) ==
    {nodeIDs, {}} \cup {nodeIDs \cap P : P \in SUBSET (Nodes \ {ApiNode})}
        \cup {nodeIDs \cap (P \cup {ApiNode}) : P \in SUBSET (Nodes \ {ApiNode})}

\* The canonical set merges the nodes that share a key and leaves out those without
\* one; nodes are those of all canonical validators.
Keyed(vdrs) == {n \in DOMAIN vdrs : vdrs[n].key # NoKey}
Weights(vdrs) == [n \in DOMAIN vdrs |-> vdrs[n].weight]
CanonicalWeight(vdrs, n) ==
    StakeOf(Weights(vdrs), {k \in Keyed(vdrs) : vdrs[k].key = vdrs[n].key})
TotalValidatorWeight(vdrs) == StakeOf(Weights(vdrs), DOMAIN vdrs)

\* The outcomes of ConnectToCanonicalValidators.
ConnectToCanonicalValidators(subnet) ==
    UNION {{[vdrs |-> vdrs, nodes |-> nodes] : nodes \in ConnectPeers(Keyed(vdrs))} :
           vdrs \in ValidatorSets(subnet)}

\* Mutant: all canonical validators count, connected or not.
ConnectedWeightAll(c) ==
    StakeOf([n \in Keyed(c.vdrs) |-> CanonicalWeight(c.vdrs, n)], Keyed(c.vdrs))

\* ConnectedWeight adds the weight of a canonical validator for each of its nodes.
ConnectedWeight(c) == StakeOf([n \in c.nodes |-> CanonicalWeight(c.vdrs, n)], c.nodes)

Sufficient(weight, total, chain) ==
    CheckStakeWeightExceedsThreshold(weight, total, warpQuorum[chain], WarpQuorumDenominator)

checkForSufficientConnectedStake(c, chain) ==
    IF ~ HasWarpQuorum(chain) THEN "error"
    ELSE IF Sufficient(ConnectedWeight(c), TotalValidatorWeight(c.vdrs), chain)
         THEN "ok" ELSE "insufficient"

\* The stake that can sign, that of each canonical validator with a connected node, is
\* not empty and suffices.
Backs(c, chain) ==
    LET signers == {n \in Keyed(c.vdrs) : \E k \in c.nodes : c.vdrs[k].key = c.vdrs[n].key}
    IN  /\ signers # {}
        /\ Sufficient(StakeOf(Weights(c.vdrs), signers), TotalValidatorWeight(c.vdrs), chain)

Source == cfg.sources[source]
Dests == SupportedDestinations(cfg, Source)

\* blockchainIDToSubnetID: the destinations' subnets, overwritten by the sources'.
GetSubnetID(chain) ==
    LET ofSources == {i \in DOMAIN cfg.sources : cfg.sources[i].chain = chain}
        ofDests == {i \in DOMAIN cfg.destinations : cfg.destinations[i].chain = chain}
    IN  IF ofSources # {} THEN cfg.sources[Max(ofSources)].subnet
        ELSE cfg.destinations[Max(ofDests)].subnet

\* NewApplicationRelayer: messages from the primary network are signed by the
\* destination's subnet.
SigningSubnet(s, chain) ==
    IF s.subnet = PrimaryNetworkID THEN GetSubnetID(chain) ELSE s.subnet

\* One set of validators, checked against the destinations until one falls short;
\* that is only logged.
connectToNonPrimaryNetworkPeers ==
    /\ phase = "connect"
    /\ source <= Len(cfg.sources)
    /\ Source.subnet # PrimaryNetworkID
    /\ \/ Exit
       \/ \E c \in ConnectToCanonicalValidators(Source.subnet) :
             LET verdict(j) == checkForSufficientConnectedStake(c, Dests[j].chain)
                 short == {j \in DOMAIN Dests : verdict(j) # "ok"}
                 checked == {j \in DOMAIN Dests : \A k \in short : j < k}
             IN  IF short # {} /\ verdict(Min(short)) = "error"
                 THEN Exit
                 ELSE /\ warned' = (warned \/ short # {})
                      /\ backed' = backed \cup
                             {<<Source.chain, Dests[j].chain, Source.subnet>> :
                                 j \in {k \in checked : Backs(c, Dests[k].chain)}}
                      /\ source' = source + 1
                      /\ UNCHANGED <<phase, cfg, warpQuorum, dest, relayers>>

\* A set of validators for each destination.  After one that falls short the rest of
\* the source's destinations are not connected to.
connectToPrimaryNetworkPeers ==
    /\ phase = "connect"
    /\ source <= Len(cfg.sources)
    /\ Source.subnet = PrimaryNetworkID
    /\ \/ Exit
       \/ \E c \in ConnectToCanonicalValidators(GetSubnetID(Dests[dest].chain)) :
             LET chain == Dests[dest].chain
                 verdict == checkForSufficientConnectedStake(c, chain)
                 isLast == dest = Len(Dests) \/ verdict # "ok"
             IN  IF verdict = "error"
                 THEN Exit
                 ELSE /\ warned' = (warned \/ verdict # "ok")
                      /\ backed' = IF verdict = "ok" /\ Backs(c, chain)
                                   THEN backed \cup {<<Source.chain, chain, GetSubnetID(chain)>>}
                                   ELSE backed
                      /\ source' = IF isLast THEN source + 1 ELSE source
                      /\ dest' = IF isLast THEN 1 ELSE dest + 1
                      /\ UNCHANGED <<phase, cfg, warpQuorum, relayers>>

\* All sources are connected; the database, the ticker, the decider connection, the
\* message handler factories and the signature aggregator follow, or fail.
InitializeServices ==
    /\ phase = "connect"
    /\ source > Len(cfg.sources)
    /\ \/ /\ phase' = "create"
          /\ source' = 1
          /\ UNCHANGED <<cfg, warpQuorum, dest, warned, backed, relayers>>
       \/ Exit

\* The application relayers of one source; NewApplicationRelayer needs the quorum.
createApplicationRelayersForSourceChain ==
    /\ phase = "create"
    /\ \A j \in DOMAIN Dests : HasWarpQuorum(Dests[j].chain)
    /\ relayers' = relayers \cup GetSourceBlockchainRelayerIDs(cfg, Source)
    /\ IF source = Len(cfg.sources)
       THEN phase' = "running" /\ source' = 1
       ELSE UNCHANGED phase /\ source' = source + 1
    /\ UNCHANGED <<cfg, warpQuorum, dest, warned, backed>>

\* The chain head cannot be read, a quorum is missing or a client cannot be dialled.
createApplicationRelayersFails == phase = "create" /\ Exit

Connect == \/ connectToNonPrimaryNetworkPeers
           \/ connectToPrimaryNetworkPeers
           \/ InitializeServices

\* What main does before it creates the application relayers.
Prepare == NewConfig \/ InitializeWarpQuorums \/ CreateClients \/ Connect

\* Every key of the P-chain is the key of one node.
NoSharedKeys ==
    \A h \in DOMAIN PChain : \A n, k \in Nodes :
        PChain[h].keys[n] = PChain[h].keys[k] => n = k \/ PChain[h].keys[n] = NoKey
==============================================================================
