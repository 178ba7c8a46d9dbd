------------------------- MODULE SignatureAggregator -------------------------
(***************************************************************************)
(* One call of SignatureAggregator.CreateSignedMessage                     *)
(* (signature-aggregator/aggregator/aggregator.go), for a request to the   *)
(* HTTP API (signature-aggregator/api/api.go) or for an application        *)
(* relayer, together with the external handler that delivers the peers'    *)
(* responses and the network that carries them: requests are lost or       *)
(* answered late, and every request that arrives is answered on its own,   *)
(* also those of an earlier attempt.                                       *)
(***************************************************************************)
EXTENDS ExternalHandler, Stake

CONSTANTS
    Weight,             \* stake of each canonical validator
    NumNodes,           \* nodes that share the validator's BLS key
    TotalValidatorWeight,   \* includes the stake of nodes without a BLS key
    QuorumPercentages   \* values of quorum-percentage in a request

ASSUME WeightAssumption == Weight \in [Validators -> Nat \ {0}]
ASSUME NumNodesAssumption == NumNodes \in [Validators -> Nat \ {0}]
ASSUME TotalAssumption ==
    /\ TotalValidatorWeight \in Nat
    /\ QuorumPercentages \subseteq Nat

VARIABLES
    pc,             \* where the API handler, then CreateSignedMessage, is
    attempt,        \* current query attempt, 0 before the first
    signatures,     \* keys of signatureMap
    weight,         \* accumulatedSignatureWeight
    sentTo,         \* nodes the current attempt's request was handed to
    responseCount,
    result,         \* what the call returned, "none" while it runs
    quorumPercentage,
    lossy,          \* the network may lose requests and responses
    cache,          \* validators with a cached signature of this message
    inflight,       \* requests a node has yet to answer, with their attempt
    stray,          \* a message of an earlier attempt was handled (history)
    heard           \* nodes whose response this attempt has read (history)

aggregatorVars == <<pc, attempt, signatures, weight, sentTo, responseCount,
                    result, cache, heard>>
inputs == <<quorumPercentage, lossy>>
vars == <<handlerVars, aggregatorVars, inputs, inflight, stray>>

Results == {"none", "signed", "notEnoughSignatures", "notEnoughConnectedStake",
            "error", "badRequest"}

WeightOf(S) == StakeOf(Weight, S)

TypeOK ==
    /\ HandlerTypeOK
    /\ pc \in {"request", "start", "register", "send", "receive", "endAttempt", "done"}
    /\ attempt \in 0..MaxAttempts
    /\ signatures \subseteq Validators
    /\ weight \in Nat
    /\ sentTo \subseteq Validators
    /\ responseCount \in 0..Cardinality(Validators)
    /\ result \in Results
    /\ quorumPercentage \in Nat
    /\ pc # "request" /\ result # "badRequest" => quorumPercentage \in 1..100
    /\ lossy \in BOOLEAN
    /\ cache \subseteq Validators
    /\ inflight \subseteq Validators \X Attempts
    /\ stray \in BOOLEAN
    /\ heard \subseteq sentTo

\* The cache may hold signatures an earlier call collected.
Init ==
    /\ HandlerInit
    /\ pc = "request"
    /\ attempt = 0
    /\ signatures = {}
    /\ weight = 0
    /\ sentTo = {}
    /\ responseCount = 0
    /\ result = "none"
    /\ quorumPercentage \in QuorumPercentages
    /\ lossy \in BOOLEAN
    /\ cache \in SUBSET Validators
    /\ inflight = {}
    /\ stray = FALSE
    /\ heard = {}

-----------------------------------------------------------------------------

\* CheckStakeWeightPercentageExceedsThreshold
CheckStakeWeight(w) ==
    CheckStakeWeightExceedsThreshold(w, TotalValidatorWeight, quorumPercentage, 100)

\* ConnectedWeight adds the validator's weight once per connected node.
ConnectedWeight(connected) ==
    StakeOf([v \in Validators |-> connected[v] * Weight[v]], Validators)

Return(r) == pc' = "done" /\ result' = r

\* aggregateIfSufficientWeight after signatures or weight changed; pcNext is
\* where the call goes on when the weight does not suffice.  There is no
\* aggregate of no signatures.
AggregateIfSufficientWeight(pcNext) ==
    IF CheckStakeWeight(weight')
    THEN Return(IF signatures' = {} THEN "error" ELSE "signed")
    ELSE pc' = pcNext /\ UNCHANGED result

Untouched == <<handlerVars, inflight, stray>>

DefaultQuorumPercentage == 67

\* signatureAggregationAPIHandler up to the call.  A body, message, justification
\* or subnet ID that cannot be decoded is a bad request too.
HandleRequest ==
    /\ pc = "request"
    /\ \/ /\ Return("badRequest")
          /\ UNCHANGED quorumPercentage
       \/ /\ quorumPercentage <= 100
          /\ quorumPercentage' = IF quorumPercentage = 0 THEN DefaultQuorumPercentage
                                 ELSE quorumPercentage
          /\ pc' = "start"
          /\ UNCHANGED result
    /\ UNCHANGED <<Untouched, attempt, signatures, weight, sentTo, responseCount, cache, heard,
                   lossy>>

\* Subnet lookup, validator set, marshalling or message construction fails.
StartFails ==
    /\ pc = "start"
    /\ Return("error")
    /\ UNCHANGED <<Untouched, attempt, signatures, weight, sentTo,
                   responseCount, cache, heard>>

\* From ConnectToCanonicalValidators to the first aggregation, which uses the
\* cached signatures only.
Start(connected) ==
    /\ pc = "start"
    /\ UNCHANGED <<Untouched, attempt, sentTo, responseCount, cache, heard>>
    /\ IF CheckStakeWeight(ConnectedWeight(connected))
       THEN /\ signatures' = cache
            /\ weight' = WeightOf(cache)
            /\ AggregateIfSufficientWeight("register")
       ELSE /\ Return("notEnoughConnectedStake")
            /\ UNCHANGED <<signatures, weight>>

Queried == Validators \ signatures

\* A mutant: the attempts are not counted.
RegisterTimeoutsUncounted ==
    /\ pc = "register"
    /\ attempt' = 1
    /\ RegisterAppRequest(Queried, 1)
    /\ pc' = "send"
    /\ UNCHANGED <<registered, expected, received, chan, closed, firing, lockHeld,
                   signatures, weight, sentTo, responseCount, result, cache,
                   inflight, stray, heard>>

\* Top of the retry loop: one timeout per queried node.
RegisterTimeouts ==
    /\ pc = "register"
    /\ attempt' = attempt + 1
    /\ RegisterAppRequest(Queried, attempt + 1)
    /\ pc' = "send"
    /\ UNCHANGED <<registered, expected, received, chan, closed, firing, lockHeld,
                   signatures, weight, sentTo, responseCount, result, cache,
                   inflight, stray, heard>>

\* RegisterRequestID, then Send, which reports the nodes it reached.  With
\* responsesExpected = 0 the channel is not read at all.
SendRequests(reached) ==
    /\ pc = "send"
    /\ RegisterRequestID(Cardinality(Queried))
    /\ sentTo' = reached
    /\ inflight' = inflight \union (reached \X {attempt})
    /\ responseCount' = 0
    /\ heard' = {}
    /\ pc' = IF reached = {} THEN "endAttempt" ELSE "receive"
    /\ UNCHANGED <<timers, firing, attempt, signatures, weight,
                   result, cache, stray>>

\* Where the loop over responseChan goes after a relevant response.
AfterResponse ==
    IF responseCount + 1 = Cardinality(sentTo) THEN "endAttempt" ELSE "receive"

\* The part of handleResponse every relevant response shares.
CountResponse(m) ==
    /\ responseCount' = responseCount + 1
    /\ heard' = heard \union {m.node}

\* A mutant: a response that does not verify is taken for a signature.
HandleResponseUnverified(m) ==
    IF m.node \notin sentTo
    THEN UNCHANGED <<pc, result, signatures, weight, responseCount, cache, heard>>
    ELSE /\ CountResponse(m)
         /\ signatures' = signatures \union {m.node}
         /\ cache' = cache \union {m.node}
         /\ weight' = IF m.kind = "signature" THEN weight + Weight[m.node] ELSE weight
         /\ AggregateIfSufficientWeight(AfterResponse)

\* A mutant: the weight counts before the signature is recorded as valid.
HandleResponseWeighingAll(m) ==
    IF m.node \notin sentTo
    THEN UNCHANGED <<pc, result, signatures, weight, responseCount, cache, heard>>
    ELSE /\ CountResponse(m)
         /\ weight' = weight + Weight[m.node]
         /\ IF m.kind = "signature"
            THEN /\ signatures' = signatures \union {m.node}
                 /\ cache' = cache \union {m.node}
            ELSE UNCHANGED <<signatures, cache>>
         /\ AggregateIfSufficientWeight(AfterResponse)

\* The response is an AppResponse with a signature that verifies.
isValidSignatureResponse(m) == m.kind = "signature"

\* handleResponse.  The weight is added whether or not signatureMap already has
\* the validator's signature.
HandleResponse(m) ==
    IF m.node \notin sentTo
    THEN UNCHANGED <<pc, result, signatures, weight, responseCount, cache, heard>>
    ELSE /\ CountResponse(m)
         /\ IF isValidSignatureResponse(m)
            THEN /\ signatures' = signatures \union {m.node}
                 /\ cache' = cache \union {m.node}
                 /\ weight' = weight + Weight[m.node]
                 /\ AggregateIfSufficientWeight(AfterResponse)
            ELSE /\ pc' = AfterResponse
                 /\ UNCHANGED <<result, signatures, weight, cache>>

\* One iteration of the loop over responseChan.
ReceiveResponse ==
    /\ pc = "receive"
    /\ chan # <<>>
    /\ HandleResponse(Head(chan))
    /\ chan' = Tail(chan)
    /\ UNCHANGED <<registered, expected, received, closed, timers, firing,
                   lockHeld, attempt, sentTo, inflight, stray>>

\* The loop ends with the channel closed and drained.
ChannelDrained ==
    /\ pc = "receive"
    /\ chan = <<>>
    /\ closed
    /\ pc' = "endAttempt"
    /\ UNCHANGED <<Untouched, attempt, signatures, weight, sentTo,
                   responseCount, result, cache, heard>>

\* A mutant: off by one, another attempt follows the last.
EndAttemptOffByOne ==
    /\ pc = "endAttempt"
    /\ IF attempt > MaxAttempts
       THEN Return("notEnoughSignatures")
       ELSE pc' = "register" /\ UNCHANGED result
    /\ UNCHANGED <<Untouched, attempt, signatures, weight, sentTo,
                   responseCount, cache, heard>>

\* Sleep and query again, or give up after the last attempt.
EndAttempt ==
    /\ pc = "endAttempt"
    /\ IF attempt = MaxAttempts
       THEN Return("notEnoughSignatures")
       ELSE pc' = "register" /\ UNCHANGED result
    /\ UNCHANGED <<Untouched, attempt, signatures, weight, sentTo,
                   responseCount, cache, heard>>

Aggregator ==
    \/ StartFails
    \/ \E connected \in [Validators -> 0..Max({NumNodes[v] : v \in Validators})] :
          /\ \A v \in Validators : connected[v] <= NumNodes[v]
          /\ Start(connected)
    \/ RegisterTimeouts
    \/ \E reached \in SUBSET Queried : SendRequests(reached)
    \/ ReceiveResponse
    \/ ChannelDrained
    \/ EndAttempt

Deliver(m) ==
    /\ HandleInbound(m)
    /\ stray' = (stray \/ m.attempt < attempt)
    /\ UNCHANGED aggregatorVars

\* A node answers a request of any attempt, at most once: the handler would take a
\* second answer like the first, and that peers send none is assumed.
Reply(v, a, kind) ==
    /\ <<v, a>> \in inflight
    /\ inflight' = inflight \ {<<v, a>>}
    /\ Deliver([node |-> v, kind |-> kind, attempt |-> a])
    /\ UNCHANGED firing

Lose(r) ==
    /\ lossy
    /\ r \in inflight
    /\ inflight' = inflight \ {r}
    /\ UNCHANGED <<handlerVars, aggregatorVars, stray>>

\* The callback of an expired timer calls HandleInbound.
RunTimeout ==
    \E m \in firing :
        /\ Deliver(m)
        /\ firing' = {}
        /\ UNCHANGED inflight

\* Timing: a timeout lasts seconds, so none expires between its registration
\* and the registration of the request ID a few instructions later.
Expire(v) ==
    /\ pc = "send" => timers[v] # attempt
    /\ TimeoutExpires(v)
    /\ UNCHANGED <<aggregatorVars, inflight, stray>>

\* During the call its argument and the kind of network stay as they are.
Step(A) == A /\ UNCHANGED inputs

Next ==
    \/ HandleRequest
    \/ Step(Aggregator)
    \/ \E v \in Validators, a \in Attempts, kind \in Kinds : Step(Reply(v, a, kind))
    \/ \E r \in inflight : Step(Lose(r))
    \/ \E v \in Validators : Step(Expire(v))
    \/ Step(RunTimeout)

Spec == Init /\ [][Next]_vars

\* The calling goroutine and the timeout manager's goroutine are scheduled,
\* timers expire, and a network that loses nothing delivers every answer.
Fairness ==
    /\ WF_vars(HandleRequest) /\ WF_vars(Step(Aggregator))
    /\ \A v \in Validators : WF_vars(Step(Expire(v)))
    /\ WF_vars(Step(RunTimeout))
    /\ \A v \in Validators, a \in Attempts :
          WF_vars(~lossy /\ \E kind \in Kinds : Step(Reply(v, a, kind)))

FairSpec == Spec /\ Fairness

-----------------------------------------------------------------------------
(* Properties.                                                              *)

\* Registered channels are open and have room: a response is never sent on a
\* closed channel (a panic), and registerAppResponse blocks with the handler's
\* mutex held only for a request that expects no response at all.
SendsHaveRoom ==
    /\ registered => ~closed
    /\ registered /\ expected > 0 => received < expected /\ Len(chan) <= received
    /\ lockHeld => registered /\ expected = 0

\* CreateSignedMessage never gives up while it holds signatures of a quorum:
\* the accumulated weight is never below the stake of signatureMap.
FailureMeansNoQuorum ==
    result = "notEnoughSignatures" => ~CheckStakeWeight(WeightOf(signatures))

\* As long as no message of an earlier attempt is handled in a later one, a
\* signed message carries the signatures of a quorum of the stake.
SignedMeansQuorum ==
    result = "signed" /\ ~stray => CheckStakeWeight(WeightOf(signatures))

\* When the network answers every request, however late, CreateSignedMessage
\* returns, unless the handler blocks on a request that expects no response.
Returns == lossy \/ <>(pc = "done" \/ lockHeld)

\* On a network that loses requests CreateSignedMessage still returns, through
\* the timeouts, unless a message of an earlier attempt is handled in a later one.
ReturnsUnlessStray == <>(pc = "done" \/ stray)

\* After the call the handler forgets the request ID, so that responseChans does
\* not grow, unless a message of an earlier attempt was handled in a later one
\* or the last attempt expected no response.
EntryCleared == <>[](~registered \/ stray \/ expected = 0)

\* A statement of signature-aggregator/README.md: the signed message is signed
\* by at least quorum-percentage of the validator set.
SignedByQuorum == result = "signed" => CheckStakeWeight(WeightOf(signatures))

\* A comment in CreateSignedMessage: a timeout is registered for each queried
\* node.  While the call waits for a node it has a timer, an expired timer or
\* a message of that node ahead of it.
TimeoutForEachNode ==
    pc = "receive" => \A v \in sentTo \ heard :
        \/ timers[v] # 0
        \/ v \in {m.node : m \in firing}
        \/ \E i \in 1..Len(chan) : chan[i].node = v
        \/ closed

\* The comment is right about the first attempt, and about the later ones until a
\* message of an earlier attempt is handled, which removes the timer just registered.
TimeoutUnlessStray == stray \/ TimeoutForEachNode

\* Whatever the call does meanwhile (it may have returned), an entry of responseChans
\* never outlives the timers that would complete it: the timeouts of its attempt
\* are as many as the responses it lacks.  Here too a message of an earlier
\* attempt, or an attempt that expects no response, is the exception.
EntryHasTimeout ==
    registered /\ ~stray /\ expected > 0 =>
        firing # {} \/ \E v \in Validators : timers[v] # 0
=============================================================================
