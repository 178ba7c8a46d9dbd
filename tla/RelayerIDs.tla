------------------------------ MODULE RelayerIDs ------------------------------
(***************************************************************************)
(* The relayer's configuration (relayer/config), the application relayers  *)
(* it defines (database/relayer_id.go) and the choice of one for a message *)
(* (getApplicationRelayer in relayer/message_coordinator.go).              *)
(*                                                                         *)
(* A configuration is a record of two lists:                               *)
(*   sources       [chain, enc, subnet, origins, dests, wellFormed]        *)
(*   destinations  [chain, enc, subnet, wellFormed]                        *)
(* and an entry of dests is [chain, enc, addrs].  enc is the encoding the  *)
(* operator wrote the chain and subnet IDs in, "cb58" or "hex".  origins   *)
(* and addrs are the address lists; wellFormed stands for the endpoints,   *)
(* VM, message contracts and keys, which are checked one by one.           *)
(***************************************************************************)
EXTENDS Integers, Sequences

CONSTANTS
    Chains, Subnets,
    Addresses,
    ZeroAddress        \* AllAllowedAddress: any address, in a relayer ID

ASSUME ZeroAddressAssumption == ZeroAddress \in Addresses

Encodings == {"cb58", "hex"}

Destinations == [chain : Chains, enc : Encodings, subnet : Subnets, wellFormed : BOOLEAN]

Sources ==
    [chain : Chains, enc : Encodings, subnet : Subnets, origins : SUBSET Addresses,
     dests : Seq([chain : Chains, enc : Encodings, addrs : SUBSET Addresses]),
     wellFormed : BOOLEAN]

\* The text of a chain ID: the same chain has one per encoding.
Text(entry) == <<entry.chain, entry.enc>>

Texts(entries) == {Text(entries[i]) : i \in DOMAIN entries}

\* The check is on the text: one chain may be listed once per encoding.
HasUniqueIDs(entries) ==
    \A i, j \in DOMAIN entries : Text(entries[i]) = Text(entries[j]) => i = j

\* An empty list of supported destinations stands for all destinations, with any
\* address.  The code then lists them in no particular order (set.List), here in that
\* of the configuration; no property is about the order.
SupportedDestinations(cfg, source) ==
    IF source.dests = <<>>
    THEN [i \in DOMAIN cfg.destinations |->
            [chain |-> cfg.destinations[i].chain, enc |-> cfg.destinations[i].enc, addrs |-> {}]]
    ELSE source.dests

\* SourceBlockchain.Validate
ValidateSource(cfg, source) ==
    /\ source.wellFormed
    /\ ZeroAddress \notin source.origins
    /\ \A i \in DOMAIN source.dests :
          /\ Text(source.dests[i]) \in Texts(cfg.destinations)
          /\ ZeroAddress \notin source.dests[i].addrs

\* Config.Validate.  The limit on subnets, the API endpoints, the write interval and
\* the decider's URL end the start like an entry that is not well formed.
Validate(cfg) ==
    /\ cfg.sources # <<>>
    /\ cfg.destinations # <<>>
    /\ \A i \in DOMAIN cfg.destinations : cfg.destinations[i].wellFormed
    /\ HasUniqueIDs(cfg.destinations)
    /\ \A i \in DOMAIN cfg.sources : ValidateSource(cfg, cfg.sources[i])
    /\ HasUniqueIDs(cfg.sources)

------------------------------------------------------------------------------
(* Relayer IDs.                                                             *)

\* The hash of the four parts, which identifies them.
CalculateRelayerID(source, dest, origin, addr) == <<source, dest, origin, addr>>

IDs == Chains \X Chains \X Addresses \X Addresses
NoRelayer == <<>>

OrAllAllowed(addrs) == IF addrs = {} THEN {ZeroAddress} ELSE addrs

\* One ID for each origin address, destination and destination address.
GetSourceBlockchainRelayerIDs(cfg, source) ==
    LET dests == SupportedDestinations(cfg, source)
    IN  UNION {{CalculateRelayerID(source.chain, dests[i].chain, origin, addr) :
                   origin \in OrAllAllowed(source.origins), addr \in OrAllAllowed(dests[i].addrs)} :
               i \in DOMAIN dests}

GetConfigRelayerIDs(cfg) ==
    UNION {GetSourceBlockchainRelayerIDs(cfg, cfg.sources[i]) : i \in DOMAIN cfg.sources}

------------------------------------------------------------------------------
(* The lookup.  A message has a chain (its source), an origin, a dest (the  *)
(* destination chain) and an addr (the destination address).                *)

\* Mutant: a relayer for any origin and one destination address is not looked up.
getApplicationRelayerThreeKeys(relayers, m) ==
    LET exact == CalculateRelayerID(m.chain, m.dest, m.origin, m.addr)
        anyAddr == CalculateRelayerID(m.chain, m.dest, m.origin, ZeroAddress)
        anyBoth == CalculateRelayerID(m.chain, m.dest, ZeroAddress, ZeroAddress)
    IN  IF exact \in relayers THEN exact
        ELSE IF anyAddr \in relayers THEN anyAddr
        ELSE IF anyBoth \in relayers THEN anyBoth
        ELSE NoRelayer

\* Mutant: the destination address is ignored when no relayer has it.
getApplicationRelayerAnyAddress(relayers, m) ==
    LET found == {id \in relayers : id[1] = m.chain /\ id[2] = m.dest
                                    /\ id[3] \in {m.origin, ZeroAddress}}
    IN  IF found = {} THEN NoRelayer ELSE CHOOSE id \in found : TRUE

\* The first registered key of four.
getApplicationRelayer(relayers, m) ==
    LET exact == CalculateRelayerID(m.chain, m.dest, m.origin, m.addr)
        anyAddr == CalculateRelayerID(m.chain, m.dest, m.origin, ZeroAddress)
        anyOrigin == CalculateRelayerID(m.chain, m.dest, ZeroAddress, m.addr)
        anyBoth == CalculateRelayerID(m.chain, m.dest, ZeroAddress, ZeroAddress)
    IN  IF exact \in relayers THEN exact
        ELSE IF anyAddr \in relayers THEN anyAddr
        ELSE IF anyOrigin \in relayers THEN anyOrigin
        ELSE IF anyBoth \in relayers THEN anyBoth
        ELSE NoRelayer

------------------------------------------------------------------------------
(* What the configuration says, without relayer IDs.                        *)

\* The allow lists let m through.
Allows(cfg, m) ==
    \E i \in DOMAIN cfg.sources :
        LET source == cfg.sources[i]
            dests == SupportedDestinations(cfg, source)
        IN  /\ source.chain = m.chain
            /\ source.origins = {} \/ m.origin \in source.origins
            /\ \E j \in DOMAIN dests :
                  /\ dests[j].chain = m.dest
                  /\ dests[j].addrs = {} \/ m.addr \in dests[j].addrs

\* m is among the messages an application relayer is there for.
Covers(id, m) ==
    /\ id[1] = m.chain /\ id[2] = m.dest
    /\ id[3] \in {m.origin, ZeroAddress}
    /\ id[4] \in {m.addr, ZeroAddress}

\* Every chain is a source once, and a source lists every destination once.  Validate
\* checks neither.
ListsOnce(cfg) ==
    /\ \A i, j \in DOMAIN cfg.sources : cfg.sources[i].chain = cfg.sources[j].chain => i = j
    /\ \A i \in DOMAIN cfg.sources :
          LET dests == SupportedDestinations(cfg, cfg.sources[i])
          IN  \A j, k \in DOMAIN dests : dests[j].chain = dests[k].chain => j = k
==============================================================================
