-------------------------------- MODULE Routing --------------------------------
(***************************************************************************)
(* The message coordinator (relayer/message_coordinator.go) of a relayer   *)
(* that was started from a configuration: blocks are parsed                *)
(* (types/types.go), their messages handed to the application relayers,    *)
(* and messages submitted over the API (relayer/api/relay_message.go) are  *)
(* relayed beside them.  The process may stop at any time and start again  *)
(* with another configuration on the same database, with                   *)
(* process-missed-blocks and without a historical height.                  *)
(*                                                                         *)
(* A message is a record [chain, origin, dest, addr, handler]: handler is  *)
(* "ok", "none" (no message contract of the configuration sent it, or its  *)
(* handler cannot be made) or "invalid" (its log is not a Warp log).       *)
(***************************************************************************)
EXTENDS Startup, CheckpointOps

CONSTANTS
    Messages,
    MaxRestarts        \* bound: restarts of the process

ASSUME MessagesAssumption ==
    Messages \subseteq [chain : Chains, origin : Addresses, dest : Chains, addr : Addresses,
                        handler : {"ok", "none", "invalid"}]

ASSUME RestartsAssumption == MaxRestarts \in Nat

VARIABLES
    blocks,            \* the messages of each block of each chain
    row,               \* the database: a height for each relayer ID
    base,              \* the height the row of a relayer ID began at
    committedHeight,   \* of each application relayer's checkpoint manager ...
    pendingCommits,    \* ... and the heights staged above it
    processed,         \* heights of each chain that are behind the listener: those
                       \* before its starting height and those given to ProcessBlock
    heights,           \* heights at ProcessHeight, for each relayer ID
    relayed,           \* messages whose ProcessMessage succeeded
    overlapped,        \* some run's configuration listed a destination twice
    restarts

runVars == <<committedHeight, pendingCommits, processed, heights>>
routingVars == <<blocks, row, base, runVars, relayed, overlapped, restarts>>
vars == <<startupVars, routingVars>>

TypeOK ==
    /\ phase \in Phases
    /\ cfg \in Configs
    /\ source \in Nat \ {0}
    /\ warpQuorum \in [Chains -> {NoWarpConfig} \cup 1 .. WarpQuorumDenominator]
    /\ relayers \in SUBSET IDs
    /\ blocks \in [Chains -> Seq(SUBSET Messages)]
    /\ \A chain \in Chains : Len(blocks[chain]) <= MaxHeight
    /\ row \in [IDs -> Heights \cup {NotFound}]
    /\ base \in [IDs -> Heights]
    /\ committedHeight \in [IDs -> Heights]
    /\ pendingCommits \in [IDs -> SUBSET Heights]
    /\ processed \in [Chains -> SUBSET Heights]
    /\ heights \in [IDs -> SUBSET Heights]
    /\ relayed \in SUBSET Messages
    /\ overlapped \in BOOLEAN
    /\ restarts \in 0 .. MaxRestarts

RunInit ==
    /\ committedHeight = [id \in IDs |-> 0]
    /\ pendingCommits = [id \in IDs |-> {}]
    /\ processed = [chain \in Chains |-> {}]
    /\ heights = [id \in IDs |-> {}]

Init ==
    /\ \E c \in Configs : StartupInit(c) /\ overlapped = ~ ListsOnce(c)
    /\ RunInit
    /\ blocks = [chain \in Chains |-> <<>>]
    /\ row = [id \in IDs |-> NotFound]
    /\ base = [id \in IDs |-> 0]
    /\ relayed = {}
    /\ restarts = 0

\* Messages that are in a block.
Sent == {m \in Messages : \E h \in DOMAIN blocks[m.chain] : m \in blocks[m.chain][h]}

\* A chain accepts a block.  A block without messages is to a relayer ID like one
\* with messages of other IDs only; and nothing before "create" reads the chain.
NewBlock(chain, msgs) ==
    /\ phase \in {"create", "running"}
    /\ msgs # {}
    /\ Len(blocks[chain]) < MaxHeight
    /\ blocks' = [blocks EXCEPT ![chain] = Append(@, msgs)]
    /\ UNCHANGED <<startupVars, row, base, runVars, relayed, overlapped, restarts>>

\* The checkpoint managers of a source start at their rows or at the chain head, and
\* its listener at the lowest of them.
CreateApplicationRelayers ==
    LET chain == Source.chain
        new == GetSourceBlockchainRelayerIDs(cfg, Source)
        start == [id \in new |-> CalculateStartingBlockHeight(row[id], 0, Len(blocks[chain]))]
    IN  /\ createApplicationRelayersForSourceChain
        /\ committedHeight' = [id \in IDs |-> IF id \in new THEN start[id] ELSE committedHeight[id]]
        /\ base' = [id \in IDs |->
                       IF id \in new /\ row[id] = NotFound THEN start[id] ELSE base[id]]
        /\ processed' = [processed EXCEPT
               ![chain] = {h \in Heights : \A id \in new : h < start[id]}]
        /\ UNCHANGED <<blocks, row, pendingCommits, heights, relayed, overlapped, restarts>>

IsSource(chain) == \E i \in DOMAIN cfg.sources : cfg.sources[i].chain = chain

\* NewWarpBlockInfo: one log that is not a Warp log fails the block.
BlockParses(msgs) == \A m \in msgs : m.handler # "invalid"

\* The messages ProcessBlock registers with an application relayer.  Messages without
\* a handler or a relayer are skipped.
Handlers(id, h) ==
    {m \in blocks[id[1]][h] : m.handler = "ok" /\ getApplicationRelayer(relayers, m) = id}

\* ProcessBlock hands a block to all application relayers of its chain.
ProcessBlock(chain, h) ==
    /\ phase = "running"
    /\ IsSource(chain)
    /\ h \in DOMAIN blocks[chain] /\ h \notin processed[chain]
    /\ BlockParses(blocks[chain][h])
    /\ processed' = [processed EXCEPT ![chain] = @ \cup {h}]
    /\ heights' = [id \in IDs |->
           IF id \in relayers /\ id[1] = chain THEN heights[id] \cup {h} ELSE heights[id]]
    /\ UNCHANGED <<startupVars, blocks, row, base, committedHeight, pendingCommits, relayed,
                   overlapped, restarts>>

\* The logs cannot be fetched or parsed; the error goes to the listener.
ProcessBlockFails(chain, h) ==
    /\ phase = "running"
    /\ IsSource(chain)
    /\ h \in DOMAIN blocks[chain] /\ h \notin processed[chain]
    /\ processed' = [processed EXCEPT ![chain] = @ \cup {h}]
    /\ UNCHANGED <<startupVars, blocks, row, base, committedHeight, pendingCommits, heights,
                   relayed, overlapped, restarts>>

\* Commits up to the first height that is not pending.  A run processes a height once
\* here; RelayerProcess has the heights processed twice.
StageCommittedHeight(id, h) ==
    IF h <= committedHeight[id]
    THEN UNCHANGED <<committedHeight, pendingCommits>>
    ELSE LET pending == pendingCommits[id] \cup {h}
         IN  \E to \in committedHeight[id] .. MaxHeight :
                /\ committedHeight[id] + 1 .. to \subseteq pending
                /\ to + 1 \notin pending
                /\ committedHeight' = [committedHeight EXCEPT ![id] = to]
                /\ pendingCommits' = [pendingCommits EXCEPT ![id] = {k \in pending : k > to}]

\* ProcessHeight: the height is staged if every message was relayed or needs no relay.
ProcessHeight(id, h) ==
    /\ h \in heights[id]
    /\ heights' = [heights EXCEPT ![id] = @ \ {h}]
    /\ \E sent \in SUBSET Handlers(id, h) :
          /\ relayed' = relayed \cup sent
          /\ IF sent = Handlers(id, h)
             THEN StageCommittedHeight(id, h)
             ELSE UNCHANGED <<committedHeight, pendingCommits>>
    /\ UNCHANGED <<startupVars, blocks, row, base, processed, overlapped, restarts>>

WriteToDatabase(id) ==
    /\ id \in relayers
    /\ phase # "exited"
    /\ WriteAllowed(committedHeight[id], row[id])
    /\ row' = [row EXCEPT ![id] = committedHeight[id]]
    /\ UNCHANGED <<startupVars, blocks, base, runVars, relayed, overlapped, restarts>>

\* The API's ProcessWarpMessage, when it succeeds: no height is staged.
ProcessWarpMessage(m) ==
    /\ phase = "running"
    /\ IsSource(m.chain)
    /\ m.handler = "ok"
    /\ getApplicationRelayer(relayers, m) # NoRelayer
    /\ relayed' = relayed \cup {m}
    /\ UNCHANGED <<startupVars, blocks, row, base, runVars, overlapped, restarts>>

\* The API's ProcessMessageID: the message is fetched from a block that has it.
ProcessMessageID(m, h) ==
    /\ h \in DOMAIN blocks[m.chain]
    /\ m \in blocks[m.chain][h]
    /\ ProcessWarpMessage(m)

\* The process ends, at any time, and is started with a configuration.
Restart(c) ==
    /\ phase # "config"
    /\ restarts < MaxRestarts
    /\ restarts' = restarts + 1
    /\ StartupAgain(c)
    /\ committedHeight' = [id \in IDs |-> 0]
    /\ pendingCommits' = [id \in IDs |-> {}]
    /\ processed' = [chain \in Chains |-> {}]
    /\ heights' = [id \in IDs |-> {}]
    /\ overlapped' = (overlapped \/ ~ ListsOnce(c))
    /\ UNCHANGED <<blocks, row, base, relayed>>

Next ==
    \/ (Prepare \/ createApplicationRelayersFails) /\ UNCHANGED routingVars
    \/ CreateApplicationRelayers
    \/ \E chain \in Chains :
          \/ \E msgs \in SUBSET {m \in Messages \ Sent : m.chain = chain} : NewBlock(chain, msgs)
          \/ \E h \in Heights : ProcessBlock(chain, h) \/ ProcessBlockFails(chain, h)
    \/ \E id \in relayers : WriteToDatabase(id) \/ \E h \in Heights : ProcessHeight(id, h)
    \/ \E m \in Sent : ProcessWarpMessage(m) \/ \E h \in Heights : ProcessMessageID(m, h)
    \/ \E c \in Configs : Restart(c)

Spec == Init /\ [][Next]_vars

------------------------------------------------------------------------------
(* Properties.                                                              *)

\* A relayer that came up without a warning was connected, for every source and every
\* destination, to a quorum of the very validators that sign its messages.  Without
\* validators that share a key, whose weight is counted once per node.
NoWarningMeansBacked ==
    phase = "running" /\ ~ warned /\ NoSharedKeys =>
        \A i \in DOMAIN cfg.sources :
            LET s == cfg.sources[i]
                dests == SupportedDestinations(cfg, s)
            IN  \A j \in DOMAIN dests :
                    <<s.chain, dests[j].chain, SigningSubnet(s, dests[j].chain)>> \in backed

\* The lookup of relayer IDs relays what the allow lists of the current configuration
\* let through and nothing else, from blocks and from the API alike.
RelayedIsAllowed ==
    [][\A m \in relayed' \ relayed : Allows(cfg, m)]_vars

\* Nothing is left to do for a relayer ID in a block.
Done(id, h) ==
    \A m \in blocks[id[1]][h] : m.handler = "ok" /\ Covers(id, m) => m \in relayed

\* The stored height of a relayer ID stands for all messages that ID covers, whatever
\* configurations the relayer ran with since the row began: a relayer that finds the
\* row may skip the blocks up to it.  It needs configurations that list a destination
\* once per source; a second entry takes messages away from the first one's row.
RowMeansRelayed ==
    ~ overlapped =>
        \A id \in IDs : row[id] # NotFound => \A h \in base[id] + 1 .. row[id] : Done(id, h)

\* README.md: the IDs of a destination may be "cb58-encoded or "0x" prefixed
\* hex-encoded".  Once validated they can be used to fetch the quorum.
AcceptedIDsInitialize ==
    phase = "quorums" => \A i \in DOMAIN cfg.destinations :
        LET d == cfg.destinations[i]
        IN  getWarpQuorum(d.subnet, d.chain) # NoWarpConfig => CanInitializeWarpQuorum(d)
==============================================================================
