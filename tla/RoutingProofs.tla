----------------------------- MODULE RoutingProofs -----------------------------
(***************************************************************************)
(* Proofs about Routing, for every set of configurations, messages, chain  *)
(* configurations and validators: only allowed messages are relayed, and   *)
(* the stored heights stand for relayed messages (IInv); a start without a *)
(* warning found a quorum of the validators that sign (SInv).              *)
(***************************************************************************)
EXTENDS Routing, StartupProofs

\* Leaves are first-order and go to Zenon; those with arithmetic, and the larger ones, name SMT.
USE Zenon

------------------------------------------------------------------------------
(* The inductive invariant.                                                 *)

Types ==
    /\ cfg \in Configs
    /\ source \in Nat \ {0}
    /\ relayers \in SUBSET IDs
    /\ blocks \in [Chains -> Seq(SUBSET Messages)]
    /\ \A chain \in Chains : Len(blocks[chain]) <= MaxHeight
    /\ row \in [IDs -> Heights \cup {NotFound}]
    /\ base \in [IDs -> Heights]
    /\ committedHeight \in [IDs -> Heights]
    /\ pendingCommits \in [IDs -> SUBSET Heights]
    /\ heights \in [IDs -> SUBSET Heights]
    /\ relayed \in SUBSET Messages
    /\ overlapped \in BOOLEAN

\* Nothing gets past Validate, and the relayers are those of the configuration.
Configured ==
    /\ phase \in Phases
    /\ phase \notin {"config", "exited"} => Validate(cfg)
    /\ phase \in {"create", "running"} => source \in DOMAIN cfg.sources
    /\ relayers # {} => Validate(cfg)
    /\ relayers \subseteq GetConfigRelayerIDs(cfg)
    /\ ~ overlapped => ListsOnce(cfg)

\* No height is ahead of its chain.
WithinChain ==
    \A id \in IDs :
        /\ row[id] <= Len(blocks[id[1]])
        /\ committedHeight[id] <= Len(blocks[id[1]])
        /\ pendingCommits[id] \subseteq DOMAIN blocks[id[1]]
        /\ heights[id] \subseteq DOMAIN blocks[id[1]]

\* The heights a relayer has committed or staged are done, too.
CommittedDone ==
    ~ overlapped => \A id \in IDs :
        /\ id \in relayers => \A h \in base[id] + 1 .. committedHeight[id] : Done(id, h)
        /\ \A h \in pendingCommits[id] : Done(id, h)

IInv == Types /\ Configured /\ WithinChain /\ CommittedDone /\ RowMeansRelayed

\* The first component of a relayer ID is a chain.
LEMMA IDChain == \A id \in IDs : id[1] \in Chains
BY DEF IDs

\* What is done stays done while the chain grows and messages are relayed.
LEMMA DoneStays ==
    ASSUME NEW id \in IDs, NEW h \in DOMAIN blocks[id[1]], Done(id, h),
           blocks'[id[1]][h] = blocks[id[1]][h], relayed \subseteq relayed'
    PROVE  Done(id, h)'
BY DEF Done

\* The initial states satisfy the inductive invariant.
LEMMA InitIInv == Init => IInv
<1> SUFFICES ASSUME Init PROVE IInv
  OBVIOUS
<1>1. PICK c \in Configs : StartupInit(c) /\ overlapped = ~ ListsOnce(c)
  BY DEF Init
<1>2. <<>> \in Seq(SUBSET Messages) /\ Len(<<>>) = 0
  BY SMT
<1>3. Types
  BY <1>1, <1>2, MaxHeightAssumption, SMT DEF Types, Init, StartupInit, RunInit, Heights
<1>4. Configured
  BY <1>1 DEF Configured, StartupInit, Phases
<1>5. WithinChain
  BY <1>2, IDChain, SMT DEF WithinChain, Init, RunInit, NotFound
<1>6. CommittedDone /\ RowMeansRelayed
  BY <1>1 DEF CommittedDone, RowMeansRelayed, Init, RunInit, StartupInit
<1> QED BY <1>3, <1>4, <1>5, <1>6 DEF IInv

\* Before the relayers are created, main moves between phases and past Validate.
LEMMA StartupStep ==
    ASSUME IInv, Prepare \/ createApplicationRelayersFails
    PROVE  /\ UNCHANGED <<cfg, relayers>>
           /\ source' \in Nat \ {0}
           /\ phase' \in Phases
           /\ phase' \notin {"config", "exited"} => Validate(cfg)
           /\ phase' \in {"create", "running"} => source' \in DOMAIN cfg.sources
<1> USE DEF IInv, Types, Configured
<1>1. CASE NewConfig
  BY <1>1 DEF NewConfig, Exit, Phases
<1>2. CASE InitializeWarpQuorums
  BY <1>2 DEF InitializeWarpQuorums, Exit, Phases
<1>3. CASE CreateClients
  BY <1>3 DEF CreateClients, Exit, Phases
<1>4. CASE connectToNonPrimaryNetworkPeers
  <2>1. /\ phase = "connect"
        /\ Exit \/ (source' = source + 1 /\ UNCHANGED <<phase, cfg, relayers>>)
    BY <1>4 DEF connectToNonPrimaryNetworkPeers
  <2> QED BY <2>1, SMT DEF Exit, Phases
<1>5. CASE connectToPrimaryNetworkPeers
  BY <1>5, SMT DEF connectToPrimaryNetworkPeers, Exit, Phases
<1>6. CASE InitializeServices
  <2>1. cfg.sources \in Seq(Sources)
    BY ConfigsAssumption
  <2>2. Validate(cfg)
    BY <1>6 DEF InitializeServices
  <2>3. cfg.sources # <<>>
    BY <2>2 DEF Validate
  <2>4. 1 \in DOMAIN cfg.sources
    BY <2>1, <2>3, SMT
  <2> QED BY <1>6, <2>2, <2>4, SMT DEF InitializeServices, Exit, Phases
<1>7. CASE createApplicationRelayersFails
  BY <1>7 DEF createApplicationRelayersFails, Exit, Phases
<1> QED BY <1>1, <1>2, <1>3, <1>4, <1>5, <1>6, <1>7 DEF Prepare, Connect

\* A new block is above every height the relayers have to do with.
LEMMA NewBlockIInv ==
    ASSUME IInv, NEW chain \in Chains, NEW msgs \in SUBSET Messages, NewBlock(chain, msgs)
    PROVE  IInv'
<1> USE DEF IInv
<1>1. /\ blocks' = [blocks EXCEPT ![chain] = Append(@, msgs)]
      /\ Len(blocks[chain]) < MaxHeight
      /\ UNCHANGED <<phase, cfg, source, relayers, row, base, committedHeight, pendingCommits,
                     heights, relayed, overlapped>>
  BY DEF NewBlock, startupVars, runVars
<1>2. /\ blocks' \in [Chains -> Seq(SUBSET Messages)]
      /\ \A k \in Chains : Len(blocks'[k]) <= MaxHeight
  BY <1>1, MaxHeightAssumption, SMT DEF Types
<1>3. ASSUME NEW k \in Chains
      PROVE  /\ Len(blocks[k]) <= Len(blocks'[k])
             /\ DOMAIN blocks[k] \subseteq DOMAIN blocks'[k]
             /\ \A h \in DOMAIN blocks[k] : blocks'[k][h] = blocks[k][h]
  <2>1. blocks[k] \in Seq(SUBSET Messages) /\ blocks'[k] \in Seq(SUBSET Messages)
    BY <1>2 DEF Types
  <2>2. CASE k = chain
    BY <1>1, <2>1, <2>2, SMT DEF Types
  <2>3. CASE k # chain
    BY <1>1, <2>1, <2>3, SMT DEF Types
  <2> QED BY <2>2, <2>3
<1>4. Types'
  BY <1>1, <1>2 DEF Types
<1>5. Configured'
  BY <1>1 DEF Configured
<1>6. WithinChain'
  <2> SUFFICES ASSUME NEW id \in IDs
               PROVE  /\ row[id] <= Len(blocks'[id[1]])
                      /\ committedHeight[id] <= Len(blocks'[id[1]])
                      /\ pendingCommits[id] \subseteq DOMAIN blocks'[id[1]]
                      /\ heights[id] \subseteq DOMAIN blocks'[id[1]]
    BY <1>1 DEF WithinChain
  <2>1. id[1] \in Chains
    BY IDChain
  <2>2. /\ Len(blocks[id[1]]) \in Nat /\ Len(blocks'[id[1]]) \in Nat
        /\ row[id] \in Int /\ committedHeight[id] \in Int
    BY <1>2, <2>1, SMTT(30) DEF Types, Heights, NotFound
  <2> QED BY <1>3, <2>1, <2>2, SMT DEF WithinChain
<1>7. ASSUME NEW id \in IDs, NEW h \in DOMAIN blocks[id[1]], Done(id, h)
      PROVE  Done(id, h)'
  BY <1>1, <1>3, <1>7, IDChain, DoneStays
<1>8. ASSUME NEW id \in IDs, NEW to \in Heights, to <= Len(blocks[id[1]]),
             NEW h \in base[id] + 1 .. to
      PROVE  h \in DOMAIN blocks[id[1]]
  <2>1. blocks[id[1]] \in Seq(SUBSET Messages) /\ base[id] \in Nat
    BY IDChain, SMT DEF Types, Heights
  <2> QED BY <1>8, <2>1, SMT DEF Heights
<1>9. CommittedDone'
  <2> SUFFICES ASSUME ~ overlapped, NEW id \in IDs
               PROVE  /\ id \in relayers => \A h \in base[id] + 1 .. committedHeight[id] : Done(id, h)'
                      /\ \A h \in pendingCommits[id] : Done(id, h)'
    BY <1>1 DEF CommittedDone
  <2>1. /\ committedHeight[id] \in Heights /\ committedHeight[id] <= Len(blocks[id[1]])
        /\ pendingCommits[id] \subseteq DOMAIN blocks[id[1]]
    BY DEF WithinChain, Types
  <2> QED BY <1>7, <1>8, <2>1 DEF CommittedDone
<1>10. RowMeansRelayed'
  <2> SUFFICES ASSUME ~ overlapped, NEW id \in IDs, row[id] # NotFound, NEW h \in base[id] + 1 .. row[id]
               PROVE  Done(id, h)'
    BY <1>1 DEF RowMeansRelayed
  <2>1. row[id] \in Heights /\ row[id] <= Len(blocks[id[1]])
    BY DEF WithinChain, Types
  <2>2. h \in DOMAIN blocks[id[1]]
    BY <1>8, <2>1
  <2> QED BY <1>7, <2>2 DEF RowMeansRelayed
<1> QED BY <1>4, <1>5, <1>6, <1>9, <1>10

\* The relayers of a source begin where their rows end, or with an empty range.
LEMMA CreateIInv ==
    ASSUME IInv, CreateApplicationRelayers
    PROVE  IInv'
<1> DEFINE new == GetSourceBlockchainRelayerIDs(cfg, Source)
           start(id) == CalculateStartingBlockHeight(row[id], 0, Len(blocks[Source.chain]))
<1> USE DEF IInv
<1>1. /\ createApplicationRelayersForSourceChain
      /\ committedHeight' = [id \in IDs |-> IF id \in new THEN start(id) ELSE committedHeight[id]]
      /\ base' = [id \in IDs |-> IF id \in new /\ row[id] = NotFound THEN start(id) ELSE base[id]]
      /\ UNCHANGED <<blocks, row, pendingCommits, heights, relayed, overlapped>>
  BY DEF CreateApplicationRelayers
<1>2. /\ phase = "create" /\ phase' \in {"create", "running"}
      /\ relayers' = relayers \cup new
      /\ IF source = Len(cfg.sources) THEN source' = 1 ELSE source' = source + 1
      /\ UNCHANGED cfg
  BY <1>1 DEF createApplicationRelayersForSourceChain
<1>3. /\ cfg \in ConfigType /\ cfg.sources \in Seq(Sources)
      /\ Validate(cfg)
      /\ source \in DOMAIN cfg.sources
  BY <1>2, ConfigsAssumption DEF Types, Configured, ConfigType
<1>4. source' \in DOMAIN cfg.sources /\ source' \in Nat \ {0}
  BY <1>2, <1>3, SMT
<1>5. new \subseteq GetConfigRelayerIDs(cfg)
  BY <1>3 DEF GetConfigRelayerIDs, Source
<1>6. new \subseteq IDs
  BY <1>3, <1>5, IDType
<1>7. ASSUME NEW id \in new
      PROVE  id[1] = Source.chain
  BY <1>7, SMT DEF GetSourceBlockchainRelayerIDs, CalculateRelayerID
<1>8. ASSUME NEW id \in new
      PROVE  /\ start(id) \in Heights
             /\ start(id) <= Len(blocks[id[1]])
             /\ row[id] # NotFound => start(id) = row[id]
  <2>1. /\ id \in IDs /\ id[1] \in Chains
        /\ start(id) = CalculateStartingBlockHeight(row[id], 0, Len(blocks[id[1]]))
    BY <1>6, <1>7, IDChain
  <2>2. /\ Len(blocks[id[1]]) \in Heights
        /\ row[id] \in Heights \cup {NotFound}
        /\ row[id] <= Len(blocks[id[1]])
    BY <2>1, MaxHeightAssumption, SMT DEF Types, WithinChain, Heights
  <2> HIDE DEF start
  <2> QED BY <2>1, <2>2, MaxHeightAssumption, SMT DEF CalculateStartingBlockHeight, Heights, NotFound
<1> HIDE DEF new, start
<1>9. Types'
  BY <1>1, <1>2, <1>4, <1>6, <1>8 DEF Types
<1>10. Configured'
  BY <1>1, <1>2, <1>3, <1>4, <1>5 DEF Configured, Phases
<1>11. WithinChain'
  BY <1>1, <1>8 DEF WithinChain, Types
<1>12. ASSUME NEW id \in IDs, NEW h, Done(id, h)
       PROVE  Done(id, h)'
  BY <1>1, <1>12 DEF Done
<1>13. CommittedDone'
  <2> SUFFICES ASSUME ~ overlapped, NEW id \in IDs
               PROVE  /\ id \in relayers' =>
                            \A h \in base'[id] + 1 .. committedHeight'[id] : Done(id, h)
                      /\ \A h \in pendingCommits[id] : Done(id, h)
    BY <1>1, <1>12 DEF CommittedDone
  <2>1. CASE id \in new /\ row[id] = NotFound
    <3>1. base'[id] + 1 .. committedHeight'[id] = {}
      BY <1>1, <1>8, <2>1, SMT DEF Heights
    <3> QED BY <3>1 DEF CommittedDone
  <2>2. CASE id \in new /\ row[id] # NotFound
    <3>1. base'[id] = base[id] /\ committedHeight'[id] = row[id]
      BY <1>1, <1>8, <2>2
    <3> QED BY <2>2, <3>1 DEF CommittedDone, RowMeansRelayed
  <2>3. CASE id \notin new
    <3>1. base'[id] = base[id] /\ committedHeight'[id] = committedHeight[id]
      BY <1>1, <2>3
    <3> QED BY <1>2, <2>3, <3>1 DEF CommittedDone
  <2> QED BY <2>1, <2>2, <2>3
<1>14. RowMeansRelayed'
  <2> SUFFICES ASSUME ~ overlapped, NEW id \in IDs, row[id] # NotFound,
                      NEW h \in base'[id] + 1 .. row[id]
               PROVE  Done(id, h)
    BY <1>1, <1>12 DEF RowMeansRelayed
  <2>1. base'[id] = base[id]
    BY <1>1
  <2> QED BY <2>1 DEF RowMeansRelayed
<1> QED BY <1>9, <1>10, <1>11, <1>13, <1>14

\* A height whose messages were all relayed is done for the relayer, because the
\* lookup gives it every message it covers; so it may be committed.
LEMMA ProcessHeightIInv ==
    ASSUME IInv, NEW id \in relayers, NEW h \in Heights, ProcessHeight(id, h)
    PROVE  IInv'
<1> USE DEF IInv
<1>1. /\ h \in heights[id]
      /\ heights' = [heights EXCEPT ![id] = @ \ {h}]
      /\ UNCHANGED <<phase, cfg, source, relayers, blocks, row, base, overlapped>>
  BY DEF ProcessHeight, startupVars
<1>2. PICK sent \in SUBSET Handlers(id, h) :
         /\ relayed' = relayed \cup sent
         /\ IF sent = Handlers(id, h)
            THEN StageCommittedHeight(id, h)
            ELSE UNCHANGED <<committedHeight, pendingCommits>>
  BY DEF ProcessHeight
<1>3. /\ id \in IDs /\ id[1] \in Chains
      /\ blocks[id[1]] \in Seq(SUBSET Messages)
      /\ h \in DOMAIN blocks[id[1]]
  BY <1>1, IDChain DEF Types, WithinChain
<1>4. blocks[id[1]][h] \subseteq Messages
  BY <1>3, SMT
<1>5. relayed' \in SUBSET Messages /\ relayed \subseteq relayed'
  BY <1>2, <1>4 DEF Types, Handlers
<1>6. ASSUME NEW k \in IDs, NEW g, Done(k, g)
      PROVE  Done(k, g)'
  BY <1>1, <1>5, <1>6 DEF Done
<1>7. Configured'
  BY <1>1 DEF Configured
<1>8. RowMeansRelayed'
  BY <1>1, <1>6 DEF RowMeansRelayed
<1>9. heights' \in [IDs -> SUBSET Heights] /\ \A k \in IDs : heights'[k] \subseteq heights[k]
  BY <1>1, <1>3 DEF Types
<1>10. CASE UNCHANGED <<committedHeight, pendingCommits>>
  <2>1. Types'
    BY <1>1, <1>5, <1>9, <1>10 DEF Types
  <2>2. WithinChain'
    BY <1>1, <1>9, <1>10 DEF WithinChain
  <2>3. CommittedDone'
    BY <1>1, <1>6, <1>10 DEF CommittedDone
  <2> QED BY <1>7, <1>8, <2>1, <2>2, <2>3
<1>11. CASE sent = Handlers(id, h) /\ ~ (h <= committedHeight[id])
  <2> DEFINE pending == pendingCommits[id] \cup {h}
  <2>1. PICK to \in committedHeight[id] .. MaxHeight :
           /\ committedHeight[id] + 1 .. to \subseteq pending
           /\ committedHeight' = [committedHeight EXCEPT ![id] = to]
           /\ pendingCommits' = [pendingCommits EXCEPT ![id] = {k \in pending : k > to}]
    BY <1>2, <1>11 DEF StageCommittedHeight
  <2>2. /\ pending \subseteq Heights
        /\ pending \subseteq DOMAIN blocks[id[1]]
        /\ committedHeight[id] \in Heights
    BY <1>1, <1>3 DEF Types, WithinChain
  <2> HIDE DEF pending
  <2>3. to \in Heights /\ to <= Len(blocks[id[1]])
    <3>1. to \in Heights
      BY <2>1, <2>2, MaxHeightAssumption, SMT DEF Heights
    <3>2. CASE to = committedHeight[id]
      BY <1>3, <3>1, <3>2 DEF WithinChain
    <3>3. CASE to # committedHeight[id]
      <4>1. to \in committedHeight[id] + 1 .. to
        BY <2>1, <2>2, <3>1, <3>3, SMT DEF Heights
      <4> QED BY <1>3, <2>1, <2>2, <3>1, <4>1, SMT
    <3> QED BY <3>1, <3>2, <3>3
  <2>4. Types'
    <3>1. committedHeight' \in [IDs -> Heights]
      BY <1>3, <2>1, <2>3 DEF Types
    <3>2. pendingCommits' \in [IDs -> SUBSET Heights]
      BY <1>3, <2>1, <2>2 DEF Types
    <3> QED BY <1>1, <1>5, <1>9, <3>1, <3>2 DEF Types
  <2>5. WithinChain'
    <3> SUFFICES ASSUME NEW k \in IDs
                 PROVE  /\ row[k] <= Len(blocks[k[1]])
                        /\ committedHeight'[k] <= Len(blocks[k[1]])
                        /\ pendingCommits'[k] \subseteq DOMAIN blocks[k[1]]
                        /\ heights'[k] \subseteq DOMAIN blocks[k[1]]
      BY <1>1 DEF WithinChain
    <3>1. CASE k = id
      BY <1>3, <1>9, <2>1, <2>2, <2>3, <3>1 DEF WithinChain, Types
    <3>2. CASE k # id
      BY <1>3, <1>9, <2>1, <3>2 DEF WithinChain, Types
    <3> QED BY <3>1, <3>2
  <2>6. ASSUME ~ overlapped
        PROVE  Done(id, h)'
    <3> SUFFICES ASSUME NEW m \in blocks[id[1]][h], m.handler = "ok", Covers(id, m)
                 PROVE  m \in relayed'
      BY <1>1 DEF Done
    <3>1. /\ m \in MessageType /\ cfg \in ConfigType
          /\ Validate(cfg) /\ ListsOnce(cfg)
      BY <1>4, <2>6, MessagesAssumption, ConfigsAssumption
         DEF Types, Configured, MessageType, ConfigType
    <3> DEFINE r == getApplicationRelayer(relayers, m)
    <3>2. r \in relayers /\ Covers(r, m)
      BY <3>1, LookupCovers DEF Types
    <3>3. r = id
      <4> HIDE DEF r
      <4> QED BY <3>1, <3>2, AtMostOneKeyRegistered DEF Configured
    <3>4. m \in Handlers(id, h)
      BY <3>3 DEF Handlers
    <3> QED BY <1>2, <1>11, <3>4
  <2>7. CommittedDone'
    <3> SUFFICES ASSUME ~ overlapped, NEW k \in IDs
                 PROVE  /\ k \in relayers =>
                              \A g \in base[k] + 1 .. committedHeight'[k] : Done(k, g)'
                        /\ \A g \in pendingCommits'[k] : Done(k, g)'
      BY <1>1 DEF CommittedDone
    <3>1. CASE k # id
      <4>1. committedHeight'[k] = committedHeight[k] /\ pendingCommits'[k] = pendingCommits[k]
        BY <2>1, <3>1 DEF Types
      <4> QED BY <1>6, <4>1 DEF CommittedDone
    <3>2. CASE k = id
      <4>1. \A g \in pending : Done(id, g)'
        BY <1>3, <1>6, <2>6 DEF CommittedDone, pending
      <4>2. committedHeight'[id] = to /\ pendingCommits'[id] \subseteq pending
        BY <1>3, <2>1 DEF Types
      <4>3. ASSUME NEW g \in base[id] + 1 .. to
            PROVE  Done(id, g)'
        <5>1. base[id] \in Nat /\ committedHeight[id] \in Nat /\ to \in Nat
          BY <1>3, <2>3, SMT DEF Types, Heights
        <5>2. CASE g <= committedHeight[id]
          <6>1. g \in base[id] + 1 .. committedHeight[id]
            BY <5>1, <5>2, SMT
          <6> QED BY <1>3, <1>6, <6>1 DEF CommittedDone
        <5>3. CASE ~ (g <= committedHeight[id])
          <6>1. g \in committedHeight[id] + 1 .. to
            BY <5>1, <5>3, SMT
          <6> QED BY <2>1, <4>1, <6>1
        <5> QED BY <5>2, <5>3
      <4> QED BY <3>2, <4>1, <4>2, <4>3
    <3> QED BY <3>1, <3>2
  <2> QED BY <1>7, <1>8, <2>4, <2>5, <2>7
<1> QED BY <1>2, <1>10, <1>11 DEF StageCommittedHeight

\* Steps that move no height, row or block and forget no relayed message.
LEMMA FrameIInv ==
    ASSUME IInv, UNCHANGED <<blocks, row, base, committedHeight, pendingCommits, overlapped>>,
           UNCHANGED <<cfg, relayers>>, relayed \subseteq relayed', relayed' \subseteq Messages,
           source' \in Nat \ {0}, Configured',
           heights' \in [IDs -> SUBSET Heights],
           \A id \in IDs : heights'[id] \subseteq DOMAIN blocks[id[1]]
    PROVE  IInv'
<1> USE DEF IInv
<1>1. ASSUME NEW id \in IDs, NEW h, Done(id, h)
      PROVE  Done(id, h)'
  BY <1>1 DEF Done
<1>2. Types'
  BY DEF Types
<1>3. WithinChain'
  BY DEF WithinChain
<1>4. CommittedDone' /\ RowMeansRelayed'
  BY <1>1 DEF CommittedDone, RowMeansRelayed
<1> QED BY <1>2, <1>3, <1>4

\* A restart keeps the rows; the new process has no relayers yet.
LEMMA RestartIInv ==
    ASSUME IInv, NEW c \in Configs, Restart(c)
    PROVE  IInv'
<1> USE DEF IInv
<1>1. /\ phase' = "config" /\ cfg' = c /\ source' = 1 /\ relayers' = {}
      /\ committedHeight' = [id \in IDs |-> 0]
      /\ pendingCommits' = [id \in IDs |-> {}]
      /\ heights' = [id \in IDs |-> {}]
      /\ overlapped' = (overlapped \/ ~ ListsOnce(c))
      /\ UNCHANGED <<blocks, row, base, relayed>>
  BY DEF Restart, StartupAgain
<1>2. Types'
  BY <1>1, MaxHeightAssumption, SMT DEF Types, Heights
<1>3. Configured'
  BY <1>1 DEF Configured, Phases
<1>4. WithinChain'
  BY <1>1, IDChain, SMT DEF WithinChain, Types
<1>5. CommittedDone'
  BY <1>1 DEF CommittedDone
<1>6. RowMeansRelayed'
  BY <1>1 DEF RowMeansRelayed, Done, Types
<1> QED BY <1>2, <1>3, <1>4, <1>5, <1>6

\* Every step preserves the inductive invariant.
LEMMA NextIInv == IInv /\ [Next]_vars => IInv'
<1> SUFFICES ASSUME IInv, [Next]_vars PROVE IInv'
  OBVIOUS
<1>0. /\ relayed \subseteq Messages
      /\ source \in Nat \ {0}
      /\ heights \in [IDs -> SUBSET Heights]
      /\ \A id \in IDs : heights[id] \subseteq DOMAIN blocks[id[1]]
      /\ Configured
  BY DEF IInv, Types, WithinChain
<1>1. CASE (Prepare \/ createApplicationRelayersFails) /\ UNCHANGED routingVars
  <2>1. Configured'
    BY <1>0, <1>1, StartupStep DEF Configured, routingVars
  <2> QED BY <1>0, <1>1, <2>1, StartupStep, FrameIInv DEF routingVars, runVars
<1>2. CASE CreateApplicationRelayers
  BY <1>2, CreateIInv
<1>3. ASSUME NEW chain \in Chains,
             NEW msgs \in SUBSET {m \in Messages \ Sent : m.chain = chain}, NewBlock(chain, msgs)
      PROVE  IInv'
  BY <1>3, NewBlockIInv
<1>4. ASSUME NEW chain \in Chains, NEW h \in Heights, ProcessBlock(chain, h)
      PROVE  IInv'
  <2>1. /\ h \in DOMAIN blocks[chain]
        /\ heights' = [id \in IDs |->
               IF id \in relayers /\ id[1] = chain THEN heights[id] \cup {h} ELSE heights[id]]
        /\ UNCHANGED <<phase, cfg, source, relayers, blocks, row, base, committedHeight,
                       pendingCommits, relayed, overlapped>>
    BY <1>4 DEF ProcessBlock, startupVars
  <2>2. /\ heights' \in [IDs -> SUBSET Heights]
        /\ \A id \in IDs : heights'[id] \subseteq DOMAIN blocks[id[1]]
    BY <1>0, <2>1
  <2>3. Configured'
    BY <1>0, <2>1 DEF Configured
  <2> QED BY <1>0, <2>1, <2>2, <2>3, FrameIInv
<1>5. ASSUME NEW chain \in Chains, NEW h \in Heights, ProcessBlockFails(chain, h)
      PROVE  IInv'
  <2>1. UNCHANGED <<phase, cfg, source, relayers, blocks, row, base, committedHeight,
                    pendingCommits, heights, relayed, overlapped>>
    BY <1>5 DEF ProcessBlockFails, startupVars
  <2>2. Configured'
    BY <1>0, <2>1 DEF Configured
  <2> QED BY <1>0, <2>1, <2>2, FrameIInv
<1>6. ASSUME NEW id \in relayers, WriteToDatabase(id)
      PROVE  IInv'
  <2> USE DEF IInv
  <2>1. /\ row' = [row EXCEPT ![id] = committedHeight[id]]
        /\ UNCHANGED <<phase, cfg, source, relayers, blocks, base, committedHeight,
                       pendingCommits, heights, relayed, overlapped>>
    BY <1>6 DEF WriteToDatabase, startupVars, runVars
  <2>2. id \in IDs
    BY DEF Types
  <2>3. Types' /\ Configured' /\ WithinChain'
    BY <2>1, <2>2 DEF Types, Configured, WithinChain
  <2>4. ASSUME NEW k \in IDs, NEW h, Done(k, h)
        PROVE  Done(k, h)'
    BY <2>1, <2>4 DEF Done
  <2>5. CommittedDone'
    BY <2>1, <2>4 DEF CommittedDone
  <2>6. RowMeansRelayed'
    BY <2>1, <2>2, <2>4 DEF RowMeansRelayed, CommittedDone, Types
  <2> QED BY <2>3, <2>5, <2>6
<1>7. ASSUME NEW id \in relayers, NEW h \in Heights, ProcessHeight(id, h)
      PROVE  IInv'
  BY <1>7, ProcessHeightIInv
<1>8. ASSUME NEW m \in Sent, ProcessWarpMessage(m)
      PROVE  IInv'
  <2>1. /\ m \in Messages /\ relayed' = relayed \cup {m}
        /\ UNCHANGED <<phase, cfg, source, relayers, blocks, row, base, committedHeight,
                       pendingCommits, heights, overlapped>>
    BY <1>8 DEF ProcessWarpMessage, Sent, startupVars, runVars
  <2>2. Configured'
    BY <1>0, <2>1 DEF Configured
  <2> QED BY <1>0, <2>1, <2>2, FrameIInv
<1>9. ASSUME NEW c \in Configs, Restart(c)
      PROVE  IInv'
  BY <1>9, RestartIInv
<1>10. CASE UNCHANGED vars
  <2>1. Configured'
    BY <1>0, <1>10 DEF Configured, vars, startupVars, routingVars
  <2> QED BY <1>0, <1>10, <2>1, FrameIInv DEF vars, startupVars, routingVars, runVars
<1> QED
  BY <1>1, <1>2, <1>3, <1>4, <1>5, <1>6, <1>7, <1>8, <1>9, <1>10 DEF Next, ProcessMessageID

\* The inductive invariant holds.
LEMMA SpecIInv == Spec => []IInv
BY InitIInv, NextIInv, PTL DEF Spec

------------------------------------------------------------------------------
(* The theorems.                                                            *)

\* The row of a relayer ID stands for relayed messages, across restarts with any
\* configurations, each of which lists a destination once.
THEOREM RowsMeanRelayed == Spec => []RowMeansRelayed
BY SpecIInv, PTL DEF IInv

\* A message that was relayed, from a block or over the API, is one the allow lists of
\* the configuration let through.
LEMMA StepRelaysAllowed ==
    ASSUME IInv, [Next]_vars, NEW m \in relayed' \ relayed
    PROVE  Allows(cfg, m)
<1> USE DEF IInv
<1>1. ASSUME NEW n \in Messages, getApplicationRelayer(relayers, n) # NoRelayer
      PROVE  Allows(cfg, n)
  <2>1. n \in MessageType /\ cfg \in ConfigType /\ relayers \in SUBSET IDs
    BY MessagesAssumption, ConfigsAssumption DEF Types, MessageType, ConfigType
  <2>2. /\ getApplicationRelayer(relayers, n) \in relayers
        /\ Covers(getApplicationRelayer(relayers, n), n)
    BY <1>1, <2>1, LookupCovers
  <2>3. Validate(cfg) /\ getApplicationRelayer(relayers, n) \in GetConfigRelayerIDs(cfg)
    BY <2>2 DEF Configured
  <2> QED BY <2>1, <2>2, <2>3, CoveredIffAllowed
<1>2. ASSUME NEW id \in relayers, NEW h \in Heights, ProcessHeight(id, h)
      PROVE  Allows(cfg, m)
  <2>1. m \in Handlers(id, h) /\ h \in heights[id]
    BY <1>2 DEF ProcessHeight
  <2>2. /\ id \in IDs /\ id[1] \in Chains /\ id # NoRelayer
        /\ blocks[id[1]] \in Seq(SUBSET Messages)
        /\ h \in DOMAIN blocks[id[1]]
    BY <2>1, IDChain, SMT DEF Types, WithinChain, NoRelayer, IDs
  <2>3. blocks[id[1]][h] \in SUBSET Messages
    BY <2>2, SMT
  <2> QED BY <1>1, <2>1, <2>2, <2>3 DEF Handlers
<1>3. ASSUME NEW n \in Sent, ProcessWarpMessage(n)
      PROVE  Allows(cfg, m)
  BY <1>1, <1>3 DEF ProcessWarpMessage, Sent
<1>4. \/ \E id \in relayers, h \in Heights : ProcessHeight(id, h)
      \/ \E n \in Sent : ProcessWarpMessage(n)
  BY DEF Next, ProcessMessageID, NewBlock, CreateApplicationRelayers, ProcessBlock,
         ProcessBlockFails, WriteToDatabase, Restart, vars, routingVars
<1> QED BY <1>2, <1>3, <1>4

\* Relaying respects the allow lists, whatever is in the blocks or comes in over the API.
THEOREM OnlyAllowedIsRelayed == Spec => RelayedIsAllowed
<1>1. IInv /\ [Next]_vars => [\A m \in relayed' \ relayed : Allows(cfg, m)]_vars
  BY StepRelaysAllowed
<1> QED BY <1>1, SpecIInv, PTL DEF Spec, RelayedIsAllowed

------------------------------------------------------------------------------
(* The start.                                                               *)

\* A process begins with SInv.
LEMMA StartSInv == Init => SInv
BY InitSInv DEF Init

\* Every step preserves SInv: those of main's start do, the others leave it alone.
LEMMA NextSInv == FiniteFacts /\ IInv /\ SInv /\ [Next]_vars => SInv'
<1> SUFFICES ASSUME FiniteFacts, IInv, SInv, [Next]_vars PROVE SInv'
  OBVIOUS
<1>1. /\ cfg \in ConfigType
      /\ source \in Nat \ {0}
      /\ phase \notin {"config", "exited"} => Validate(cfg)
  BY ConfigsAssumption DEF IInv, Types, Configured, ConfigType
<1>2. CASE Prepare
  BY <1>1, <1>2, PrepareSInv
<1>3. CASE createApplicationRelayersFails
  BY <1>3, ExitSInv DEF createApplicationRelayersFails
<1>4. CASE CreateApplicationRelayers
  BY <1>1, <1>4, ConnectedSInv DEF CreateApplicationRelayers
<1>5. ASSUME NEW c, Restart(c) PROVE SInv'
  BY <1>5, RestartSInv DEF Restart
<1>6. CASE UNCHANGED startupVars
  BY <1>6, SameStartup
<1>7. ASSUME NEW chain, NEW msgs, NewBlock(chain, msgs) PROVE SInv'
  BY <1>6, <1>7 DEF NewBlock
<1>8. ASSUME NEW chain, NEW h, ProcessBlock(chain, h) \/ ProcessBlockFails(chain, h) PROVE SInv'
  BY <1>6, <1>8 DEF ProcessBlock, ProcessBlockFails
<1>9. ASSUME NEW id, WriteToDatabase(id) \/ \E h \in Heights : ProcessHeight(id, h) PROVE SInv'
  BY <1>6, <1>9 DEF WriteToDatabase, ProcessHeight
<1>10. ASSUME NEW m, ProcessWarpMessage(m) PROVE SInv'
  BY <1>6, <1>10 DEF ProcessWarpMessage
<1>11. CASE UNCHANGED vars
  BY <1>6, <1>11 DEF vars
<1> QED
  BY <1>2, <1>3, <1>4, <1>5, <1>7, <1>8, <1>9, <1>10, <1>11 DEF Next, ProcessMessageID

------------------------------------------------------------------------------
(* Types.                                                                   *)

\* What is left of TypeOK.
LEMMA InitTypes == Init => processed \in [Chains -> SUBSET Heights] /\ restarts \in 0 .. MaxRestarts
BY RestartsAssumption, SMT DEF Init, RunInit

\* Only the creation of the relayers, ProcessBlock and a restart touch these two.
LEMMA NextTypes ==
    ASSUME IInv, processed \in [Chains -> SUBSET Heights], restarts \in 0 .. MaxRestarts, [Next]_vars
    PROVE  processed' \in [Chains -> SUBSET Heights] /\ restarts' \in 0 .. MaxRestarts
<1>1. CASE UNCHANGED <<processed, restarts>>
  BY <1>1
<1>2. CASE (Prepare \/ createApplicationRelayersFails) /\ UNCHANGED routingVars
  BY <1>1, <1>2 DEF routingVars, runVars
<1>3. CASE CreateApplicationRelayers
  <2> DEFINE behind == {h \in Heights : \A id \in GetSourceBlockchainRelayerIDs(cfg, Source) :
                 h < [k \in GetSourceBlockchainRelayerIDs(cfg, Source) |->
                         CalculateStartingBlockHeight(row[k], 0, Len(blocks[Source.chain]))][id]}
  <2>1. processed' = [processed EXCEPT ![Source.chain] = behind] /\ UNCHANGED restarts
    BY <1>3 DEF CreateApplicationRelayers
  <2>2. behind \in SUBSET Heights
    OBVIOUS
  <2> HIDE DEF behind
  <2> QED BY <2>1, <2>2
<1>4. ASSUME NEW chain, NEW msgs, NewBlock(chain, msgs) PROVE UNCHANGED <<processed, restarts>>
  BY <1>4 DEF NewBlock, runVars
<1>5. ASSUME NEW chain \in Chains, NEW h \in Heights, ProcessBlock(chain, h) \/ ProcessBlockFails(chain, h)
      PROVE  processed' \in [Chains -> SUBSET Heights] /\ UNCHANGED restarts
  BY <1>5 DEF ProcessBlock, ProcessBlockFails
<1>6. ASSUME NEW id, WriteToDatabase(id) \/ \E h \in Heights : ProcessHeight(id, h)
      PROVE  UNCHANGED <<processed, restarts>>
  BY <1>6 DEF WriteToDatabase, ProcessHeight, runVars
<1>7. ASSUME NEW m, ProcessWarpMessage(m) PROVE UNCHANGED <<processed, restarts>>
  BY <1>7 DEF ProcessWarpMessage, runVars
<1>8. ASSUME NEW c, Restart(c)
      PROVE  processed' \in [Chains -> SUBSET Heights] /\ restarts' \in 0 .. MaxRestarts
  BY <1>8, RestartsAssumption, SMT DEF Restart
<1>9. CASE UNCHANGED vars
  BY <1>1, <1>9 DEF vars, routingVars, runVars
<1> QED BY <1>1, <1>2, <1>3, <1>4, <1>5, <1>6, <1>7, <1>8, <1>9 DEF Next, ProcessMessageID

------------------------------------------------------------------------------
(* The theorems about the start.                                            *)

Sums == INSTANCE StakeProofs

\* Of StakeProofs, with the operators that both share.
LEMMA FiniteFactsHold == FiniteFacts
<1>1. \A S : IsFiniteSet(S) <=> Sums!IsFiniteSet(S)
  BY DEF IsFiniteSet, Sums!IsFiniteSet
<1>2. \A w, S : StakeOf(w, S) = Sums!StakeOf(w, S)
  BY DEF StakeOf, MapThenSumSet, MapThenFoldSet,
               Sums!StakeOf, Sums!MapThenSumSet, Sums!MapThenFoldSet
<1>3. \A S : Max(S) = Sums!Max(S)
  BY DEF Max, Sums!Max
<1>4. ASSUME NEW S, NEW T, IsFiniteSet(S), T \subseteq S PROVE IsFiniteSet(T)
  BY <1>1, <1>4, Sums!FS_Subset
<1>5. ASSUME NEW n \in Nat PROVE IsFiniteSet(1 .. n)
  BY <1>1, Sums!FS_Interval, SMTT(30)
<1>6. ASSUME NEW R, NEW S, IsFiniteSet(S), S # {}, IsOrder(R, S)
      PROVE  \E x : IsLast(R, S, x)
  <2>1. /\ \A x, y \in S : <<x, y>> \in R \/ <<y, x>> \in R
        /\ \A x, y, z \in S : <<x, y>> \in R /\ <<y, z>> \in R => <<x, z>> \in R
    BY <1>6 DEF IsOrder
  <2>2. \E x \in S : \A y \in S : <<y, x>> \in R
    BY <1>1, <1>6, <2>1, Sums!LastElement
  <2> QED BY <2>2 DEF IsLast
<1>7. ASSUME NEW S, S \subseteq Nat, IsFiniteSet(S), S # {} PROVE Max(S) \in S
  BY <1>1, <1>3, <1>7, Sums!MaxElement
<1>8. \A w : StakeOf(w, {}) = 0
  BY <1>2, Sums!StakeOfEmpty
<1>9. \A w, y : w[y] \in Nat => StakeOf(w, {y}) = w[y]
  BY <1>2, Sums!StakeOfSingleton
<1>10. ASSUME NEW w, NEW v, NEW S, IsFiniteSet(S), \A x \in S : w[x] = v[x]
       PROVE  StakeOf(w, S) = StakeOf(v, S)
  BY <1>1, <1>2, <1>10, Sums!StakeOfSameWeights
<1>11. ASSUME NEW w, NEW S, IsFiniteSet(S), \A x \in S : w[x] \in Nat
       PROVE  StakeOf(w, S) \in Nat /\ ((\E x \in S : w[x] > 0) => StakeOf(w, S) > 0)
  <2>1. StakeOf(w, S) \in Nat
    BY <1>1, <1>2, <1>11, Sums!StakeOfType
  <2>2. ASSUME NEW y \in S, w[y] > 0 PROVE StakeOf(w, S) > 0
    BY <1>1, <1>2, <1>11, <2>2, Sums!StakeOfPositive, ZenonT(30)
  <2> QED BY <2>1, <2>2
<1>12. /\ \A S, T : IsFiniteSet(S) /\ T \subseteq S => IsFiniteSet(T)
       /\ \A n \in Nat : IsFiniteSet(1 .. n)
  BY <1>4, <1>5
<1>13. \A R, S : IsFiniteSet(S) /\ S # {} /\ IsOrder(R, S) => \E x : IsLast(R, S, x)
  BY <1>6
<1>14. \A S : S \subseteq Nat /\ IsFiniteSet(S) /\ S # {} => Max(S) \in S
  BY <1>7
<1>15. \A w, v, S : IsFiniteSet(S) /\ (\A x \in S : w[x] = v[x]) => StakeOf(w, S) = StakeOf(v, S)
  BY <1>10, SMT
<1>16. \A w, S : IsFiniteSet(S) /\ (\A x \in S : w[x] \in Nat) =>
          /\ StakeOf(w, S) \in Nat
          /\ (\E x \in S : w[x] > 0) => StakeOf(w, S) > 0
  BY <1>11
<1> QED BY <1>8, <1>9, <1>12, <1>13, <1>14, <1>15, <1>16, ZenonT(30) DEF FiniteFacts

\* A relayer that came up without a warning was connected to a quorum of the
\* validators that sign its messages, for every source and destination and whatever
\* the P-chain did meanwhile, if no two validators share a key.
THEOREM UnwarnedIsBacked == Spec => []NoWarningMeansBacked
<1>1. SInv => NoWarningMeansBacked
  <2> SUFFICES ASSUME SInv, phase = "running", ~ warned, NoSharedKeys,
                      NEW i \in DOMAIN cfg.sources,
                      NEW j \in DOMAIN SupportedDestinations(cfg, cfg.sources[i])
               PROVE  IsBacked(i, j)
    BY DEF NoWarningMeansBacked, IsBacked
  <2> QED BY DEF SInv, Backing, Behind
<1> QED BY <1>1, SpecIInv, FiniteFactsHold, StartSInv, NextSInv, PTL DEF Spec

\* In every behaviour every variable of the start-up and of the coordinator has its
\* type: in particular a Warp quorum is a percentage, and never zero.
THEOREM RoutingTypes == Spec => []TypeOK
<1> DEFINE Rest == processed \in [Chains -> SUBSET Heights] /\ restarts \in 0 .. MaxRestarts
<1>1. Init => Rest
  BY InitTypes
<1>2. IInv /\ Rest /\ [Next]_vars => Rest'
  BY NextTypes
<1>3. IInv /\ SInv /\ Rest => TypeOK
  BY DEF IInv, Types, Configured, SInv, Quorums, TypeOK
<1> HIDE DEF Rest
<1> QED BY <1>1, <1>2, <1>3, SpecIInv, FiniteFactsHold, StartSInv, NextSInv, PTL DEF Spec
================================================================================
