---------------------------- MODULE RelayerProcess ----------------------------
(***************************************************************************)
(* The relayer process for one source blockchain: the subscriber           *)
(* (vms/evm/subscriber.go), the listener (relayer/listener.go), the        *)
(* message coordinator's ProcessBlock, the application relayers'           *)
(* ProcessHeight and their checkpoint managers, with restarts.             *)
(*                                                                         *)
(* Every goroutine the code starts for a header runs on its own, so queues *)
(* of headers and of goroutines are bags (copies per height).  Relaying    *)
(* the messages of a block either succeeds or fails.                       *)
(***************************************************************************)
EXTENDS CheckpointOps, FiniteSetsExt

CONSTANTS Relayers,              \* application relayers of this source blockchain
          ProcessMissedBlocks,   \* configuration: process-missed-blocks
          HistoricalHeight,      \* configuration: process-historical-blocks-from-height
          HeadersCapacity,       \* capacity of the headers channel
          MaxRestarts,           \* bound: restarts of the process
          MaxErrors              \* bound: goroutines waiting to report an error

ASSUME RelayersAssumption == Relayers # {}
ASSUME ConfigAssumption == ProcessMissedBlocks \in BOOLEAN /\ HistoricalHeight \in Heights
ASSUME BoundsAssumption ==
    HeadersCapacity \in Nat \ {0} /\ MaxRestarts \in Nat /\ MaxErrors \in Nat

VARIABLES
    \* the source chain and the database, which survive a restart
    head, stored,
    \* the checkpoint managers
    committedHeight, pendingCommits,
    \* the listener: "created" (relayers exist, not subscribed), "listening" or "down"
    phase,
    minHeight,        \* where catch-up starts
    sub,              \* subscription: "none", "live" or "broken"
    delivered,        \* last height the subscription has delivered
    catchUp,          \* goroutine ProcessFromHeight
    headers,          \* the headers channel
    heights,          \* ProcessHeight goroutines of each relayer
    errs,             \* goroutines blocked on errChan
    health,           \* healthStatus
    \* history
    relayed,          \* heights whose messages a relayer has relayed, in any run
    origin, storedOrigin,
    failed,           \* heights of which a relayer, or the block itself, raised an error in this run
    missed,           \* heights the subscription skipped in this run
    reported,         \* the listener received an application relayer's error in this run
    restarts

checkpointVars == <<committedHeight, pendingCommits, origin>>
listenerVars == <<phase, minHeight, sub, delivered, missed>>
vars == <<head, stored, storedOrigin, checkpointVars, listenerVars, catchUp, headers,
          heights, errs, health, relayed, failed, reported, restarts>>

CatchUpStates == {"none", "begin", "running", "succeeded", "failed", "read"}
NoCatchUp == [state |-> "none", next |-> 0, latest |-> 0]
CatchUpIn(s) == [NoCatchUp EXCEPT !.state = s]

-------------------------------------------------------------------------------
(* Starting the process: createApplicationRelayersForSourceChain.            *)

\* The code's loop for minHeight takes 0 as "none yet"; a relayer starts at 0 only
\* on a chain without blocks, where all of them do, so the loop yields the minimum.
StartOf(r, inDb) == StartingHeight(ProcessMissedBlocks, inDb[r], HistoricalHeight, head)

Init ==
    /\ head \in 0 .. MaxHeight - 1
    /\ stored = [r \in Relayers |-> NotFound]
    /\ storedOrigin = [r \in Relayers |-> 0]
    /\ committedHeight = [r \in Relayers |-> StartOf(r, stored)]
    /\ pendingCommits = [r \in Relayers |-> EmptyHeap]
    /\ origin = committedHeight
    /\ phase = "created"
    /\ minHeight = Min({committedHeight[r] : r \in Relayers})
    /\ sub = "none"
    /\ delivered = 0
    /\ catchUp = NoCatchUp
    /\ headers = EmptyHeap
    /\ heights = [r \in Relayers |-> EmptyHeap]
    /\ errs = 0
    /\ health = TRUE
    /\ relayed = [r \in Relayers |-> {}]
    /\ failed = [r \in Relayers |-> {}]
    /\ missed = {}
    /\ reported = FALSE
    /\ restarts = 0

\* The process dies or exits, at any point, and is started again.
Restart ==
    /\ restarts < MaxRestarts
    /\ restarts' = restarts + 1
    /\ committedHeight' = [r \in Relayers |-> StartOf(r, stored)]
    /\ pendingCommits' = [r \in Relayers |-> EmptyHeap]
    /\ origin' = [r \in Relayers |-> IF committedHeight'[r] = stored[r]
                                     THEN storedOrigin[r] ELSE committedHeight'[r]]
    /\ phase' = "created"
    /\ minHeight' = Min({committedHeight'[r] : r \in Relayers})
    /\ sub' = "none"
    /\ delivered' = 0
    /\ catchUp' = NoCatchUp
    /\ headers' = EmptyHeap
    /\ heights' = [r \in Relayers |-> EmptyHeap]
    /\ errs' = 0
    /\ health' = TRUE
    /\ failed' = [r \in Relayers |-> {}]
    /\ missed' = {}
    /\ reported' = FALSE
    /\ UNCHANGED <<head, stored, storedOrigin, relayed>>

\* The listener returns an error, errGroup.Wait returns and main exits.
Exit ==
    /\ phase' = "down"
    /\ health' = FALSE

-------------------------------------------------------------------------------
(* The source chain and its node.                                            *)

NewBlock ==
    /\ head + 1 < MaxHeight
    /\ head' = head + 1
    /\ UNCHANGED <<stored, storedOrigin, checkpointVars, listenerVars, catchUp, headers,
                   heights, errs, health, relayed, failed, reported, restarts>>

HeadersRoom == FoldSet(LAMBDA h, n : headers[h] + n, 0, Heights) < HeadersCapacity

\* The node delivers the next new head to the subscription's channel.
DeliverHeader ==
    /\ phase = "listening" /\ sub = "live"
    /\ delivered < head
    /\ HeadersRoom
    /\ delivered' = delivered + 1
    /\ headers' = Push(headers, delivered + 1)
    /\ UNCHANGED <<head, stored, storedOrigin, checkpointVars, phase, minHeight, sub, missed,
                   catchUp, heights, errs, health, relayed, failed, reported, restarts>>

\* The websocket connection fails.
BreakSubscription ==
    /\ phase = "listening" /\ sub = "live"
    /\ sub' = "broken"
    /\ UNCHANGED <<head, stored, storedOrigin, checkpointVars, phase, minHeight, delivered,
                   missed, catchUp, headers, heights, errs, health, relayed, failed, reported,
                   restarts>>

-------------------------------------------------------------------------------
(* newListener: subscribe, then start catching up in a goroutine.            *)

\* subscriber.Subscribe succeeds: heads follow from the current one on.
SubscribeNewHead == sub' = "live" /\ delivered' = head

Subscribe ==
    /\ phase = "created"
    /\ \/ /\ phase' = "listening"
          /\ SubscribeNewHead
          /\ catchUp' = CatchUpIn("begin")
       \/ /\ phase' = "down"       \* all maxSubscribeAttempts failed
          /\ UNCHANGED <<sub, delivered, catchUp>>
    /\ UNCHANGED <<head, stored, storedOrigin, checkpointVars, minHeight, missed, headers,
                   heights, errs, health, relayed, failed, reported, restarts>>

\* processBlockRange has fetched the next header and is about to send it ("running"),
\* or failed to after rpcMaxRetries; after the last block the range is done.
Fetched(next, latest) ==
    IF next <= latest
    THEN {[state |-> "running", next |-> next, latest |-> latest], CatchUpIn("failed")}
    ELSE {CatchUpIn("succeeded")}

MaxBlocksPerRequest == 200

\* Mutant: the range of a request is not clamped to the latest block.
CatchUpBeginUnclamped ==
    /\ phase = "listening"
    /\ catchUp.state = "begin"
    /\ catchUp' \in {CatchUpIn("failed")} \cup Fetched(minHeight, minHeight + MaxBlocksPerRequest - 1)
    /\ UNCHANGED <<head, stored, storedOrigin, checkpointVars, listenerVars, headers, heights,
                   errs, health, relayed, failed, reported, restarts>>

\* Mutant: the range ends below the latest block.
CatchUpBeginExclusive ==
    /\ phase = "listening"
    /\ catchUp.state = "begin"
    /\ catchUp' \in {CatchUpIn("failed")} \cup Fetched(minHeight, head - 1)
    /\ UNCHANGED <<head, stored, storedOrigin, checkpointVars, listenerVars, headers, heights,
                   errs, health, relayed, failed, reported, restarts>>

\* ProcessFromHeight reads the latest height and fetches the first header.
CatchUpBegin ==
    /\ phase = "listening"
    /\ catchUp.state = "begin"
    /\ catchUp' \in {CatchUpIn("failed")} \cup Fetched(minHeight, head)
    /\ UNCHANGED <<head, stored, storedOrigin, checkpointVars, listenerVars, headers, heights,
                   errs, health, relayed, failed, reported, restarts>>

\* processBlockRange sends a header, which blocks on a full channel and cannot fail,
\* and fetches the next one, which only the RPC node sees.
CatchUpHeader ==
    /\ phase = "listening"
    /\ catchUp.state = "running"
    /\ HeadersRoom
    /\ headers' = Push(headers, catchUp.next)
    /\ catchUp' \in Fetched(catchUp.next + 1, catchUp.latest)
    /\ UNCHANGED <<head, stored, storedOrigin, checkpointVars, listenerVars, heights, errs,
                   health, relayed, failed, reported, restarts>>

-------------------------------------------------------------------------------
(* processLogs: one action per case of its select.                           *)

ReceiveError ==
    /\ phase = "listening"
    /\ errs > 0
    /\ errs' = errs - 1
    /\ health' = FALSE
    /\ reported' = TRUE
    /\ UNCHANGED <<head, stored, storedOrigin, checkpointVars, listenerVars, catchUp, headers,
                   heights, relayed, failed, restarts>>

ReceiveCatchUpResult ==
    /\ phase = "listening"
    /\ catchUp.state \in {"succeeded", "failed"}
    /\ IF catchUp.state = "failed" THEN Exit ELSE UNCHANGED <<phase, health>>
    /\ catchUp' = CatchUpIn("read")
    /\ UNCHANGED <<head, stored, storedOrigin, checkpointVars, minHeight, sub, delivered, missed,
                   headers, heights, errs, relayed, failed, reported, restarts>>

\* Mutant: the listener reads headers only when the catch-up is done.
ProcessBlockAfterCatchUp(h) ==
    /\ phase = "listening"
    /\ catchUp.state = "read"
    /\ headers[h] > 0
    /\ headers' = Pop(headers, h)
    /\ heights' = [r \in Relayers |-> Push(heights[r], h)]
    /\ UNCHANGED <<head, stored, storedOrigin, checkpointVars, listenerVars, catchUp, health,
                   errs, failed, relayed, reported, restarts>>

\* A header is received and ProcessBlock runs: the block's logs are fetched and
\* every application relayer of the chain gets a ProcessHeight goroutine.
ProcessBlock(h) ==
    /\ phase = "listening"
    /\ headers[h] > 0
    /\ headers' = Pop(headers, h)
    /\ \/ /\ heights' = [r \in Relayers |-> Push(heights[r], h)]
          /\ UNCHANGED <<errs, failed>>
       \/ /\ errs < MaxErrors     \* NewWarpBlockInfo failed
          /\ errs' = errs + 1
          /\ failed' = [r \in Relayers |-> failed[r] \cup {h}]
          /\ UNCHANGED heights
    /\ UNCHANGED <<head, stored, storedOrigin, checkpointVars, listenerVars, catchUp, health,
                   relayed, reported, restarts>>

\* Mutant: resubscribing replays the blocks from the starting height.
ReconnectReplaying ==
    /\ phase = "listening" /\ sub = "broken"
    /\ sub' = "live"
    /\ delivered' = minHeight
    /\ health' = TRUE
    /\ UNCHANGED <<head, stored, storedOrigin, checkpointVars, phase, minHeight, missed, catchUp,
                   headers, heights, errs, relayed, failed, reported, restarts>>

\* The subscription reports its error; the listener subscribes again or exits.
Reconnect ==
    /\ phase = "listening" /\ sub = "broken"
    /\ \/ /\ SubscribeNewHead
          /\ missed' = missed \cup ((delivered + 1) .. head)
          /\ health' = TRUE
          /\ UNCHANGED phase
       \/ /\ Exit
          /\ UNCHANGED <<sub, delivered, missed>>
    /\ UNCHANGED <<head, stored, storedOrigin, checkpointVars, minHeight, catchUp, headers,
                   heights, errs, relayed, failed, reported, restarts>>

-------------------------------------------------------------------------------
(* The application relayers and the checkpoint managers.                     *)

Stage(r, h) ==
    IF h <= committedHeight[r]
    THEN UNCHANGED <<committedHeight, pendingCommits>>
    ELSE LET pushed == Push(pendingCommits[r], h)
         IN  \E c \in committedHeight[r] .. MaxHeight :
                /\ CommitsThrough(pushed, committedHeight[r], c)
                /\ committedHeight' = [committedHeight EXCEPT ![r] = c]
                /\ pendingCommits' = [pendingCommits EXCEPT
                                        ![r] = Popped(pushed, committedHeight[r], c)]

\* Mutant: after an error the height is staged all the same.
ProcessHeightIgnoringError(r, h) ==
    /\ phase = "listening"
    /\ heights[r][h] > 0
    /\ heights' = [heights EXCEPT ![r] = Pop(@, h)]
    /\ Stage(r, h)
    /\ errs < MaxErrors
    /\ errs' = errs + 1
    /\ failed' = [failed EXCEPT ![r] = @ \cup {h}]
    /\ UNCHANGED <<head, stored, storedOrigin, origin, listenerVars, catchUp, headers, health,
                   relayed, reported, restarts>>

ProcessHeight(r, h) ==
    /\ phase = "listening"
    /\ heights[r][h] > 0
    /\ heights' = [heights EXCEPT ![r] = Pop(@, h)]
    /\ \/ /\ Stage(r, h)
          /\ relayed' = [relayed EXCEPT ![r] = @ \cup {h}]
          /\ UNCHANGED <<errs, failed>>
       \/ /\ errs < MaxErrors
          /\ errs' = errs + 1
          /\ failed' = [failed EXCEPT ![r] = @ \cup {h}]
          /\ UNCHANGED <<committedHeight, pendingCommits, relayed>>
    /\ UNCHANGED <<head, stored, storedOrigin, origin, listenerVars, catchUp, headers, health,
                   reported, restarts>>

WriteToDatabase(r) ==
    /\ phase # "down"
    /\ WriteAllowed(committedHeight[r], stored[r])
    /\ stored' = [stored EXCEPT ![r] = committedHeight[r]]
    /\ storedOrigin' = [storedOrigin EXCEPT ![r] = origin[r]]
    /\ UNCHANGED <<head, checkpointVars, listenerVars, catchUp, headers, heights, errs, health,
                   relayed, failed, reported, restarts>>

-------------------------------------------------------------------------------
Next ==
    \/ NewBlock \/ DeliverHeader \/ BreakSubscription
    \/ Subscribe \/ CatchUpBegin \/ CatchUpHeader
    \/ ReceiveError \/ ReceiveCatchUpResult \/ Reconnect
    \/ \E h \in Heights : ProcessBlock(h)
    \/ \E r \in Relayers, h \in Heights : ProcessHeight(r, h)
    \/ \E r \in Relayers : WriteToDatabase(r)
    \/ Restart

Spec == Init /\ [][Next]_vars

\* The goroutines run: select chooses among its ready cases at random, a sender
\* blocked on a channel is served in turn, and calls of an RPC node return.  The
\* environment (blocks, broken connections, restarts) promises nothing, and neither
\* does ProcessHeight: CreateSignedMessage has no deadline and may wait for ever.
Fairness ==
    /\ WF_vars(DeliverHeader)
    /\ WF_vars(Subscribe)
    /\ WF_vars(CatchUpBegin) /\ WF_vars(CatchUpHeader)
    /\ WF_vars(ReceiveCatchUpResult) /\ WF_vars(Reconnect)
    /\ \A h \in Heights : WF_vars(ProcessBlock(h))

FairSpec == Spec /\ Fairness

-------------------------------------------------------------------------------
\* The type invariant.
TypeOK ==
    /\ head \in 0 .. MaxHeight - 1
    /\ stored \in [Relayers -> Heights \cup {NotFound}]
    /\ storedOrigin \in [Relayers -> Heights]
    /\ committedHeight \in [Relayers -> Heights]
    /\ pendingCommits \in [Relayers -> [Heights -> Nat]]
    /\ origin \in [Relayers -> Heights]
    /\ phase \in {"created", "listening", "down"}
    /\ minHeight \in Heights
    /\ sub \in {"none", "live", "broken"}
    /\ delivered \in 0 .. MaxHeight - 1
    /\ catchUp \in [state : CatchUpStates, next : Heights, latest : Heights]
    /\ headers \in [Heights -> Nat]
    /\ heights \in [Relayers -> [Heights -> Nat]]
    /\ errs \in 0 .. MaxErrors
    /\ health \in BOOLEAN
    /\ relayed \in [Relayers -> SUBSET Heights]
    /\ failed \in [Relayers -> SUBSET Heights]
    /\ missed \subseteq Heights
    /\ reported \in BOOLEAN
    /\ restarts \in 0 .. MaxRestarts

\* Height h will still reach the listener: it is in the channel, or the live
\* subscription or the catch-up goroutine has yet to send it.
Coming(h) ==
    \/ headers[h] > 0
    \/ h > delivered
    \/ catchUp.state = "begin"
    \/ catchUp.state = "running" /\ catchUp.next <= h /\ h <= catchUp.latest

\* No block falls between catch-up and subscription: while the listener runs and
\* catch-up has not failed, every block from minHeight on is relayed, being
\* relayed, on its way, reported as failed, or was skipped by a resubscription.
NoBlockLost ==
    (phase = "listening" /\ catchUp.state # "failed") =>
        \A r \in Relayers, h \in minHeight .. head :
            \/ h \in relayed[r] \cup failed[r] \cup missed
            \/ heights[r][h] > 0
            \/ Coming(h)

\* A block is dispatched at most twice in a run (once by catch-up, once by the
\* subscription), however often the listener resubscribes, so no heap holds more
\* than two copies of a height.
AtMostTwice ==
    \A r \in Relayers, h \in Heights :
        headers[h] + heights[r][h] + pendingCommits[r][h] <= 2

\* A block the subscription skipped holds the checkpoint back until a restart:
\* the relayer never resumes above a block it has not relayed.
MissedHoldsCheckpoint ==
    \A r \in Relayers : \A h \in missed \cup failed[r] :
        (h > origin[r] /\ h \notin relayed[r]) => committedHeight[r] < h

CM(r) == INSTANCE CheckpointManager WITH
            MaxCopies <- 2,
            committedHeight <- committedHeight[r],
            pendingCommits <- pendingCommits[r],
            stored <- stored[r],
            processed <- relayed[r],
            origin <- origin[r],
            storedOrigin <- storedOrigin[r]

\* Seen from any one application relayer, the whole process behaves as the
\* CheckpointManager specification allows, so what is proved there holds here.
ImplementsCheckpointManager ==
    /\ \A r \in Relayers : CM(r)!Init
    /\ [][\A r \in Relayers : [CM(r)!Next]_(CM(r)!vars)]_vars

\* ProcessHeight has been called for the block in this run, or an error says why not,
\* or a resubscription skipped it.  A block staged in this run is committed or waits.
Dispatched(r, h) ==
    \/ heights[r][h] > 0
    \/ h \in failed[r] \cup missed
    \/ h \in relayed[r] /\ (h <= committedHeight[r] \/ pendingCommits[r][h] > 0)

\* A comment in newListener: catch-up runs beside the processing of new blocks because
\* otherwise it may "overload the message queue and cause a deadlock".  Catch-up, the
\* subscription and the listener never wait for each other for good: unless the
\* process ends, every block from minHeight on reaches every application relayer.
EveryBlockDispatched ==
    []<>(\/ phase = "down"
         \/ /\ phase = "listening"
            /\ \A r \in Relayers, h \in minHeight .. head : Dispatched(r, h))

-------------------------------------------------------------------------------
(* Statements of the repository that the code does not keep.                 *)

\* relayer/application_relayer.go: ProcessHeight "checkpoints the height with the
\* checkpoint manager when all messages are relayed": in the first run, the height
\* after the committed one is not among those already relayed.
RelayedHeightsAreCommitted ==
    restarts = 0 => \A r \in Relayers : committedHeight[r] + 1 \notin relayed[r]

\* relayer/application_relayer.go: ProcessHeight runs "for every block greater than
\* or equal to the startingHeight": the database passes a starting height only
\* once that block itself has been relayed.
StartingBlockRelayed ==
    \A r \in Relayers :
        (storedOrigin[r] < stored[r] /\ storedOrigin[r] <= head) => storedOrigin[r] \in relayed[r]

\* relayer/README.md: the health endpoint fails "if any of the Application Relayers
\* have experienced an unrecoverable error".
HealthReportsErrors == reported => ~ health
===============================================================================
