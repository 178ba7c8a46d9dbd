--------------------------- MODULE ExternalHandler ---------------------------
(***************************************************************************)
(* RelayerExternalHandler (peers/external_handler.go): it routes the       *)
(* inbound messages of one request ID to the channel its aggregator reads, *)
(* and turns requests that stay unanswered into AppError messages.         *)
(*                                                                         *)
(* Every method runs under the handler's mutex, so each is one step.  The  *)
(* one exception is the send to the response channel: it happens with the  *)
(* mutex held, and when it blocks the mutex stays held (lockHeld).         *)
(*                                                                         *)
(* Inbound messages carry the query attempt whose request they answer.     *)
(* The code cannot see it: all attempts use the same request ID.           *)
(***************************************************************************)
EXTENDS Integers, Sequences, FiniteSets

CONSTANTS
    Validators,     \* canonical validators; each is queried through NodeIDs[0]
    MaxAttempts     \* maxRelayerQueryAttempts

ASSUME ValidatorsAssumption == IsFiniteSet(Validators)
ASSUME AttemptsAssumption == MaxAttempts \in Nat \ {0}

VARIABLES
    registered,     \* responseChans has an entry for the request ID
    expected,       \* responsesCount[requestID].expected, also the capacity
    received,       \* responsesCount[requestID].received
    chan,           \* messages buffered in the response channel
    closed,         \* the channel has been closed
    timers,         \* timeoutManager: attempt whose timer runs, 0 when none
    firing,         \* timeouts popped by Dispatch, callback not yet run
    lockHeld        \* a send to a full channel holds the mutex

handlerVars == <<registered, expected, received, chan, closed, timers, firing,
                 lockHeld>>

Attempts == 1..MaxAttempts

\* An AppResponse with a valid signature, an AppResponse without one (empty,
\* malformed or not verifying), or an AppError.
Kinds == {"signature", "invalid", "error"}

Inbound == [node : Validators, kind : Kinds, attempt : Attempts]

HandlerTypeOK ==
    /\ registered \in BOOLEAN
    /\ expected \in Nat
    /\ received \in Nat
    /\ chan \in Seq(Inbound)
    /\ closed \in BOOLEAN
    /\ timers \in [Validators -> 0..MaxAttempts]
    /\ firing \subseteq Inbound
    /\ lockHeld \in BOOLEAN

HandlerInit ==
    /\ registered = FALSE
    /\ expected = 0
    /\ received = 0
    /\ chan = <<>>
    /\ closed = FALSE
    /\ timers = [v \in Validators |-> 0]
    /\ firing = {}
    /\ lockHeld = FALSE

-----------------------------------------------------------------------------

\* A mutant: a retry does not restart the timers.
RegisterAppRequestOnce(S, attempt) ==
    timers' = [v \in Validators |-> IF v \in S /\ attempt = 1 THEN attempt ELSE timers[v]]

\* RegisterAppRequest for every node of S: Put replaces a timer of the same ID.
RegisterAppRequest(S, attempt) ==
    timers' = [v \in Validators |-> IF v \in S THEN attempt ELSE timers[v]]

\* RegisterRequestID: a fresh channel replaces whatever the ID had before.
RegisterRequestID(numExpectedResponses) ==
    /\ ~lockHeld
    /\ registered' = TRUE
    /\ expected' = numExpectedResponses
    /\ received' = 0
    /\ chan' = <<>>
    /\ closed' = FALSE
    /\ UNCHANGED lockHeld

\* The timeout ID is registered for AppResponseOp, so only an AppResponse
\* removes the timer; an AppError of the peer leaves it running.
RemoveTimeout(m) ==
    timers' = IF m.kind = "error" THEN timers ELSE [timers EXCEPT ![m.node] = 0]

\* A mutant: the entry stays registered when the last response has arrived.
DispatchKeepingEntry(m) ==
    IF registered
    THEN IF Len(chan) < expected
         THEN /\ chan' = Append(chan, m)
              /\ received' = received + 1
              /\ closed' = (received + 1 = expected)
              /\ UNCHANGED <<registered, lockHeld>>
         ELSE /\ lockHeld' = TRUE
              /\ UNCHANGED <<registered, received, chan, closed>>
    ELSE UNCHANGED <<registered, received, chan, closed, lockHeld>>

\* The send, and the bookkeeping after it.  A full channel blocks the send: the
\* reader never frees a slot of a channel without capacity, and a channel with
\* capacity is never full (SendsHaveRoom), so blocking is final.
Dispatch(m) ==
    IF registered
    THEN IF Len(chan) < expected
         THEN /\ chan' = Append(chan, m)
              /\ received' = received + 1
              /\ closed' = (received + 1 = expected)
              /\ registered' = (received + 1 # expected)
              /\ UNCHANGED lockHeld
         ELSE /\ lockHeld' = TRUE
              /\ UNCHANGED <<registered, received, chan, closed>>
    ELSE UNCHANGED <<registered, received, chan, closed, lockHeld>>

\* HandleInbound and registerAppResponse.
HandleInbound(m) ==
    /\ ~lockHeld
    /\ RemoveTimeout(m)
    /\ Dispatch(m)
    /\ UNCHANGED expected

\* The timeout manager pops an expired timer; its callback runs later, without
\* the manager's lock.  Dispatch is one goroutine: one callback at a time.
TimeoutExpires(v) ==
    /\ timers[v] # 0
    /\ firing = {}
    /\ timers' = [timers EXCEPT ![v] = 0]
    /\ firing' = {[node |-> v, kind |-> "error", attempt |-> timers[v]]}
    /\ UNCHANGED <<registered, expected, received, chan, closed, lockHeld>>
=============================================================================
