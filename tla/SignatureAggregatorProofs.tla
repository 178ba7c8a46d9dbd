---------------------- MODULE SignatureAggregatorProofs ----------------------
(***************************************************************************)
(* For every set of validators, every weight and every number of attempts: *)
(*  - the external handler never sends on a closed channel and never       *)
(*    blocks on the channel of a request that expects a response;          *)
(*  - CreateSignedMessage never gives up with the signatures of a quorum;  *)
(*  - what it signs has the signatures of a quorum, unless a message of an *)
(*    earlier attempt was handled in a later one;                          *)
(*  - up to then, every node it waits for has a timeout or an answer ahead *)
(*    of it, and the handler's entry a timer that will complete it.        *)
(***************************************************************************)
EXTENDS SignatureAggregator, TLAPS

\* Leaves are first-order and go to Zenon; those with arithmetic, and the larger ones, name SMT.
USE Zenon

\* What the proofs use of finite sets and of sums of stake: how many validators a set
\* has and what they weigh.  It holds (StakeFactsHold).
StakeFacts ==
    /\ WeightOf({}) = 0
    /\ \A S \in SUBSET Validators :
          /\ Cardinality(S) \in Nat
          /\ Cardinality(S) <= Cardinality(Validators)
          /\ S # {} => Cardinality(S) > 0
          /\ WeightOf(S) \in Nat
    /\ \A S \in SUBSET Validators, v \in Validators :
          WeightOf(S \cup {v}) = IF v \in S THEN WeightOf(S) ELSE WeightOf(S) + Weight[v]

\* A set of validators has a stake, and at most as many members as there are
\* validators.
LEMMA ValidatorSubset ==
    ASSUME StakeFacts, NEW S \in SUBSET Validators
    PROVE  /\ Cardinality(S) \in Nat
           /\ Cardinality(S) <= Cardinality(Validators)
           /\ S # {} => Cardinality(S) > 0
           /\ WeightOf(S) \in Nat
BY DEF StakeFacts

\* The inductive invariant: SendsHaveRoom with the types of the handler's state,
\* and the attempt counter's bound at the places that start a new attempt.
IInv ==
    /\ HandlerTypeOK
    /\ pc \in {"request", "start", "register", "send", "receive", "endAttempt", "done"}
    /\ attempt \in 0..MaxAttempts
    /\ pc \in {"request", "start", "register"} => attempt < MaxAttempts
    /\ pc \in {"send", "receive", "endAttempt"} => attempt \in Attempts
    /\ signatures \subseteq Validators
    /\ cache \subseteq Validators
    /\ inflight \subseteq Validators \X Attempts
    /\ SendsHaveRoom

USE DEF Attempts

\* A fresh response channel is a channel of inbound messages.
LEMMA EmptyChannel == <<>> \in Seq(Inbound)
  BY SMT

\* The invariant holds when CreateSignedMessage is called.
LEMMA InitIInv == Init => IInv
<1> SUFFICES ASSUME Init PROVE IInv
  OBVIOUS
<1>1. chan \in Seq(Inbound)
  BY EmptyChannel DEF Init, HandlerInit
<1>2. timers \in [Validators -> 0..MaxAttempts]
  BY AttemptsAssumption, SMT DEF Init, HandlerInit
<1>3. HandlerTypeOK
  BY <1>1, <1>2 DEF Init, HandlerInit, HandlerTypeOK
<1>4. SendsHaveRoom
  BY DEF Init, HandlerInit, SendsHaveRoom
<1> QED
  BY <1>3, <1>4, AttemptsAssumption, SMT DEF Init, IInv

\* Handing an inbound message to the response channel (registerAppResponse) keeps
\* the handler's types and its room for the responses still expected.
LEMMA HandleInboundKeeps ==
  ASSUME HandlerTypeOK, SendsHaveRoom, NEW m \in Inbound, HandleInbound(m),
         firing' \subseteq Inbound
  PROVE  HandlerTypeOK' /\ SendsHaveRoom'
<1>1. timers' \in [Validators -> 0..MaxAttempts]
  <2>1. timers \in [Validators -> 0..MaxAttempts] /\ 0 \in 0..MaxAttempts
    BY AttemptsAssumption, SMT DEF HandlerTypeOK
  <2> QED
    BY <2>1 DEF HandleInbound, RemoveTimeout
<1>2. CASE ~registered
  BY <1>1, <1>2 DEF HandlerTypeOK, SendsHaveRoom, HandleInbound, Dispatch
<1>3. CASE registered /\ ~(Len(chan) < expected)
  <2>1. expected = 0
    BY <1>3, SMT DEF HandlerTypeOK, SendsHaveRoom
  <2> QED
    BY <1>1, <1>3, <2>1 DEF HandlerTypeOK, SendsHaveRoom, HandleInbound, Dispatch
<1>4. CASE registered /\ Len(chan) < expected
  <2>1. chan \in Seq(Inbound) /\ expected \in Nat /\ received \in Nat /\ Len(chan) \in Nat
    BY SMT DEF HandlerTypeOK
  <2>2. received < expected /\ Len(chan) <= received
    BY <1>4, <2>1, SMT DEF SendsHaveRoom
  <2>3. chan' = Append(chan, m) /\ received' = received + 1 /\ expected' = expected
        /\ closed' = (received + 1 = expected) /\ registered' = (received + 1 # expected)
        /\ lockHeld' = lockHeld
    BY <1>4 DEF HandleInbound, Dispatch
  <2>4. chan' \in Seq(Inbound) /\ Len(chan') = Len(chan) + 1
    BY <2>1, <2>3, SMT
  <2>5. HandlerTypeOK'
    BY <1>1, <2>1, <2>3, <2>4, SMT DEF HandlerTypeOK
  <2>6. ~lockHeld
    BY DEF HandleInbound
  <2>7. CASE received + 1 = expected
    BY <2>3, <2>5, <2>6, <2>7 DEF SendsHaveRoom
  <2>8. CASE received + 1 # expected
    <3>1. received' < expected' /\ Len(chan') <= received'
      BY <2>1, <2>2, <2>3, <2>4, <2>8, SMT
    <3> QED
      BY <2>3, <2>5, <2>6, <2>8, <3>1 DEF SendsHaveRoom
  <2> QED BY <2>7, <2>8
<1> QED BY <1>2, <1>3, <1>4

\* Every step of the call, of the network and of the timeout manager keeps the
\* invariant.
LEMMA NextIInv == StakeFacts /\ IInv /\ [Next]_vars => IInv'
<1> SUFFICES ASSUME StakeFacts, IInv, [Next]_vars PROVE IInv'
  OBVIOUS
<1> USE AttemptsAssumption
<1>0. CASE HandleRequest
  BY <1>0 DEF IInv, HandleRequest, Return, Untouched, handlerVars, HandlerTypeOK, SendsHaveRoom
<1>1. CASE StartFails
  BY <1>1 DEF IInv, StartFails, Return, Untouched, handlerVars, HandlerTypeOK, SendsHaveRoom
<1>2. ASSUME NEW connected, Start(connected) PROVE IInv'
  BY <1>2 DEF IInv, Start, Return, AggregateIfSufficientWeight, Untouched, handlerVars,
              HandlerTypeOK, SendsHaveRoom
<1>3. CASE RegisterTimeouts
  <2>1. timers' \in [Validators -> 0..MaxAttempts] /\ attempt' \in Attempts
    BY <1>3, SMT DEF IInv, HandlerTypeOK, RegisterTimeouts, RegisterAppRequest
  <2> QED
    BY <1>3, <2>1, SMT DEF IInv, RegisterTimeouts, HandlerTypeOK, SendsHaveRoom
<1>4. ASSUME NEW reached \in SUBSET Queried, SendRequests(reached) PROVE IInv'
  <2>1. Cardinality(Queried) \in Nat
    BY ValidatorSubset DEF Queried
  <2>2. inflight' \subseteq Validators \X Attempts
    BY <1>4 DEF IInv, SendRequests, Queried
  <2>3. HandlerTypeOK'
    BY <1>4, <2>1, EmptyChannel DEF IInv, SendRequests, RegisterRequestID, HandlerTypeOK
  <2>4. SendsHaveRoom'
    BY <1>4, <2>1, SMT DEF IInv, SendRequests, RegisterRequestID, SendsHaveRoom
  <2> QED
    BY <1>4, <2>2, <2>3, <2>4 DEF IInv, SendRequests
<1>5. CASE ReceiveResponse
  <2> DEFINE m == Head(chan)
  <2>1. m \in Inbound /\ chan' \in Seq(Inbound) /\ Len(chan') = Len(chan) - 1 /\ Len(chan) \in Nat
    BY <1>5, SMT DEF IInv, HandlerTypeOK, ReceiveResponse
  <2>2. m.node \in Validators
    BY <2>1 DEF Inbound
  <2>3. pc' \in {"receive", "endAttempt", "done"} /\ signatures' \subseteq Validators
        /\ cache' \subseteq Validators
    BY <1>5, <2>2 DEF IInv, ReceiveResponse, HandleResponse, CountResponse, AfterResponse,
                      AggregateIfSufficientWeight, Return
  <2>4. HandlerTypeOK' /\ SendsHaveRoom'
    BY <1>5, <2>1, SMT DEF IInv, HandlerTypeOK, SendsHaveRoom, ReceiveResponse
  <2> QED
    BY <1>5, <2>3, <2>4 DEF IInv, ReceiveResponse
<1>6. CASE ChannelDrained
  BY <1>6 DEF IInv, ChannelDrained, Untouched, handlerVars, HandlerTypeOK, SendsHaveRoom
<1>7. CASE EndAttempt
  BY <1>7, SMT DEF IInv, EndAttempt, Return, Untouched, handlerVars, HandlerTypeOK, SendsHaveRoom
<1>8. ASSUME NEW v \in Validators, NEW a \in Attempts, NEW kind \in Kinds, Reply(v, a, kind)
      PROVE  IInv'
  <2> DEFINE m == [node |-> v, kind |-> kind, attempt |-> a]
  <2>1. m \in Inbound
    BY DEF Inbound
  <2>2. HandlerTypeOK' /\ SendsHaveRoom'
    BY <1>8, <2>1, HandleInboundKeeps DEF IInv, HandlerTypeOK, Reply, Deliver
  <2> QED
    BY <1>8, <2>2 DEF IInv, Reply, Deliver, aggregatorVars
<1>9. ASSUME NEW r \in inflight, Lose(r) PROVE IInv'
  BY <1>9 DEF IInv, Lose, handlerVars, aggregatorVars, HandlerTypeOK, SendsHaveRoom
<1>10. ASSUME NEW v \in Validators, Expire(v) PROVE IInv'
  <2>1. timers' \in [Validators -> 0..MaxAttempts] /\ firing' \subseteq Inbound
    BY <1>10, SMT DEF IInv, HandlerTypeOK, Expire, TimeoutExpires, Inbound, Kinds
  <2> QED
    BY <1>10, <2>1 DEF IInv, Expire, TimeoutExpires, aggregatorVars, HandlerTypeOK, SendsHaveRoom
<1>11. CASE RunTimeout
  <2>1. PICK m \in firing : Deliver(m) /\ firing' = {} /\ UNCHANGED inflight
    BY <1>11 DEF RunTimeout
  <2>2. HandlerTypeOK' /\ SendsHaveRoom'
    BY <2>1, HandleInboundKeeps DEF IInv, HandlerTypeOK, Deliver
  <2> QED
    BY <2>1, <2>2 DEF IInv, Deliver, aggregatorVars
<1>12. CASE UNCHANGED vars
  BY <1>12 DEF IInv, vars, handlerVars, aggregatorVars, HandlerTypeOK, SendsHaveRoom
<1> QED
  BY <1>0, <1>1, <1>2, <1>3, <1>4, <1>5, <1>6, <1>7, <1>8, <1>9, <1>10, <1>11, <1>12
  DEF Next, Step, Aggregator

------------------------------------------------------------------------------
(* Types and counters.                                                      *)

\* TypeOK, with what it rests on: only a call that has returned has a result, and
\* the loop over responseChan waits only while a response is outstanding.
Counts ==
    /\ TypeOK
    /\ pc # "done" => result = "none"
    /\ pc = "receive" => responseCount < Cardinality(sentTo)

\* The counters are right when CreateSignedMessage is called.
LEMMA InitCounts == StakeFacts /\ Init => Counts
<1> SUFFICES ASSUME StakeFacts, Init PROVE Counts
  OBVIOUS
<1>1. HandlerTypeOK
  BY InitIInv DEF IInv
<1>2. Cardinality(Validators) \in Nat
  BY ValidatorSubset
<1>3. quorumPercentage \in Nat
  BY TotalAssumption DEF Init
<1>4. /\ attempt \in 0..MaxAttempts
      /\ weight \in Nat
      /\ responseCount \in 0..Cardinality(Validators)
      /\ result \in Results
      /\ pc = "request" /\ result = "none"
  BY <1>2, AttemptsAssumption, SMT DEF Init, Results
<1>5. /\ signatures = {} /\ sentTo = {} /\ heard = {} /\ inflight = {}
      /\ cache \subseteq Validators /\ lossy \in BOOLEAN /\ stray \in BOOLEAN
  BY DEF Init
<1> QED BY <1>1, <1>3, <1>4, <1>5 DEF Counts, TypeOK

\* Every step of the aggregator, of the handler and of the nodes keeps them right.
LEMMA NextCounts == StakeFacts /\ IInv /\ IInv' /\ Counts /\ [Next]_vars => Counts'
<1> SUFFICES ASSUME StakeFacts, IInv, IInv', Counts, [Next]_vars PROVE Counts'
  OBVIOUS
<1>h. /\ HandlerTypeOK'
      /\ pc' \in {"request", "start", "register", "send", "receive", "endAttempt", "done"}
      /\ attempt' \in 0..MaxAttempts
      /\ signatures' \subseteq Validators
      /\ cache' \subseteq Validators
      /\ inflight' \subseteq Validators \X Attempts
  BY DEF IInv
<1> DEFINE Rest ==
      /\ weight \in Nat
      /\ sentTo \subseteq Validators
      /\ responseCount \in 0..Cardinality(Validators)
      /\ result \in Results
      /\ quorumPercentage \in Nat
      /\ pc # "request" /\ result # "badRequest" => quorumPercentage \in 1..100
      /\ lossy \in BOOLEAN
      /\ stray \in BOOLEAN
      /\ heard \subseteq sentTo
      /\ pc # "done" => result = "none"
      /\ pc = "receive" => responseCount < Cardinality(sentTo)
<1>r. Rest
  BY DEF Counts, TypeOK
<1> SUFFICES Rest'
  BY <1>h DEF Counts, TypeOK
<1>n. Cardinality(Validators) \in Nat
  BY ValidatorSubset
<1>0. CASE HandleRequest
  BY <1>0, <1>r, SMT DEF HandleRequest, Return, Untouched, Results, DefaultQuorumPercentage
<1>1. CASE StartFails /\ UNCHANGED inputs
  BY <1>1, <1>r DEF StartFails, Return, Untouched, Results, inputs
<1>2. ASSUME NEW connected, Start(connected), UNCHANGED inputs PROVE Rest'
  <2>1. WeightOf(cache) \in Nat
    BY ValidatorSubset DEF IInv
  <2> QED BY <1>2, <1>r, <2>1 DEF Start, Return, AggregateIfSufficientWeight, Untouched, Results, inputs
<1>3. CASE RegisterTimeouts /\ UNCHANGED inputs
  BY <1>3, <1>r DEF RegisterTimeouts, inputs
<1>4. ASSUME NEW reached \in SUBSET Queried, SendRequests(reached), UNCHANGED inputs PROVE Rest'
  <2>1. reached \in SUBSET Validators
    BY DEF Queried
  <2>2. Cardinality(reached) \in Nat /\ (reached # {} => Cardinality(reached) > 0)
    BY <2>1, ValidatorSubset
  <2> QED BY <1>4, <1>r, <1>n, <2>1, <2>2, SMT DEF SendRequests, inputs
<1>5. CASE ReceiveResponse /\ UNCHANGED inputs
  <2> DEFINE m == Head(chan)
  <2>1. m \in Inbound
    BY <1>5, SMT DEF IInv, HandlerTypeOK, ReceiveResponse
  <2>2. m.node \in Validators /\ Weight[m.node] \in Nat
    BY <2>1, WeightAssumption DEF Inbound
  <2>3. Cardinality(sentTo) \in Nat /\ Cardinality(sentTo) <= Cardinality(Validators)
    BY <1>r, ValidatorSubset
  <2>4. pc = "receive" /\ HandleResponse(m) /\ UNCHANGED <<sentTo, stray, quorumPercentage, lossy>>
    BY <1>5 DEF ReceiveResponse, inputs
  <2>5. weight' \in Nat
    BY <1>r, <2>2, <2>4, SMT DEF HandleResponse
  <2>6. responseCount' \in 0..Cardinality(Validators)
        /\ (pc' = "receive" => responseCount' < Cardinality(sentTo))
    BY <1>r, <1>n, <2>3, <2>4, SMT DEF HandleResponse, CountResponse, AfterResponse,
                                 AggregateIfSufficientWeight, Return
  <2>7. heard' \subseteq sentTo
    BY <1>r, <2>4 DEF HandleResponse, CountResponse
  <2>8. result' \in Results \ {"badRequest"} /\ (pc' # "done" => result' = "none")
        /\ pc' # "request"
    BY <1>r, <2>4 DEF HandleResponse, AfterResponse, AggregateIfSufficientWeight, Return, Results
  <2> QED BY <1>r, <2>4, <2>5, <2>6, <2>7, <2>8
<1>6. CASE ChannelDrained /\ UNCHANGED inputs
  BY <1>6, <1>r DEF ChannelDrained, Untouched, inputs
<1>7. CASE EndAttempt /\ UNCHANGED inputs
  BY <1>7, <1>r DEF EndAttempt, Return, Untouched, Results, inputs
<1>8. ASSUME NEW m, Deliver(m), UNCHANGED inputs PROVE Rest'
  BY <1>8, <1>r DEF Deliver, aggregatorVars, inputs
<1>9. CASE UNCHANGED <<aggregatorVars, inputs, stray>>
  BY <1>9, <1>r DEF aggregatorVars, inputs
<1>10. CASE UNCHANGED vars
  BY <1>9, <1>10 DEF vars
<1> QED
  <2> HIDE DEF Rest
  <2>1. CASE HandleRequest \/ Step(Aggregator)
    BY <1>0, <1>1, <1>2, <1>3, <1>4, <1>5, <1>6, <1>7, <2>1 DEF Step, Aggregator
  <2>2. CASE \E v \in Validators, a \in Attempts, kind \in Kinds : Step(Reply(v, a, kind))
    BY <1>8, <2>2 DEF Step, Reply
  <2>3. CASE \E r \in inflight : Step(Lose(r))
    BY <1>9, <2>3 DEF Step, Lose
  <2>4. CASE \E v \in Validators : Step(Expire(v))
    BY <1>9, <2>4 DEF Step, Expire
  <2>5. CASE Step(RunTimeout)
    BY <1>8, <2>5 DEF Step, RunTimeout
  <2> QED BY <1>10, <2>1, <2>2, <2>3, <2>4, <2>5 DEF Next

------------------------------------------------------------------------------
(* The accumulated weight.                                                  *)

\* accumulatedSignatureWeight is at least the stake of signatureMap, does not suffice
\* while the call goes on and when it gives up, and sufficed when a message was signed.
Weights ==
    /\ WeightOf(signatures) <= weight
    /\ pc \in {"register", "send", "receive", "endAttempt"} \/ result = "notEnoughSignatures"
          => ~ CheckStakeWeight(weight)
    /\ result = "signed" => CheckStakeWeight(weight)

\* A validator's signature adds its weight to the stake of signatureMap, once.
LEMMA WeightOfAdd ==
    ASSUME StakeFacts, NEW S \in SUBSET Validators, NEW v \in Validators
    PROVE  /\ WeightOf(S \cup {v}) <= WeightOf(S) + Weight[v]
           /\ v \notin S => WeightOf(S \cup {v}) = WeightOf(S) + Weight[v]
<1>1. WeightOf(S) \in Nat /\ Weight[v] \in Nat
  BY ValidatorSubset, WeightAssumption
<1>2. WeightOf(S \cup {v}) = IF v \in S THEN WeightOf(S) ELSE WeightOf(S) + Weight[v]
  BY DEF StakeFacts
<1> QED BY <1>1, <1>2, SMT

\* A smaller weight suffices for no more than a larger one.
LEMMA CheckStakeWeightMonotone ==
    ASSUME NEW w1 \in Nat, NEW w2 \in Nat, w1 <= w2, quorumPercentage \in Nat, CheckStakeWeight(w1)
    PROVE  CheckStakeWeight(w2)
<1>1. TotalValidatorWeight * quorumPercentage \in Nat
  BY TotalAssumption, SMT
<1> QED BY <1>1, SMT DEF CheckStakeWeight, CheckStakeWeightExceedsThreshold

\* Nothing is accumulated when CreateSignedMessage is called.
LEMMA InitWeights == StakeFacts /\ Init => Weights
<1> SUFFICES ASSUME StakeFacts, Init PROVE Weights
  OBVIOUS
<1>1. WeightOf(signatures) = 0
  BY DEF Init, StakeFacts
<1> QED BY <1>1, SMT DEF Init, Weights

\* handleResponse adds the weight of a signature when it stores it, and checks the sum.
LEMMA NextWeights == StakeFacts /\ IInv /\ Counts /\ Weights /\ [Next]_vars => Weights'
<1> SUFFICES ASSUME StakeFacts, IInv, Counts, Weights, [Next]_vars PROVE Weights'
  OBVIOUS
<1>t. /\ pc # "done" => result = "none"
      /\ weight \in Nat /\ signatures \in SUBSET Validators /\ cache \in SUBSET Validators
  BY DEF Counts, TypeOK
<1>0. CASE HandleRequest
  BY <1>0, <1>t DEF Weights, HandleRequest, Return
<1> DEFINE Goal ==
      /\ WeightOf(signatures') <= weight'
      /\ pc' \in {"register", "send", "receive", "endAttempt"} \/ result' = "notEnoughSignatures"
            => ~ CheckStakeWeight(weight')
      /\ result' = "signed" => CheckStakeWeight(weight')
<1>g. ASSUME UNCHANGED inputs, Goal PROVE Weights'
  <2>1. CheckStakeWeight(weight)' <=> CheckStakeWeight(weight')
    BY <1>g DEF CheckStakeWeight, inputs
  <2>2. WeightOf(signatures)' = WeightOf(signatures')
    BY DEF WeightOf
  <2> QED BY <1>g, <2>1, <2>2 DEF Weights
<1>1. ASSUME StartFails PROVE Goal
  BY <1>1, <1>t DEF Weights, StartFails, Return
<1>2. ASSUME NEW connected, Start(connected) PROVE Goal
  <2>1. WeightOf(cache) \in Nat
    BY <1>t, ValidatorSubset
  <2>2. CASE CheckStakeWeight(ConnectedWeight(connected))
    <3>1. signatures' = cache /\ weight' = WeightOf(cache) /\ AggregateIfSufficientWeight("register")
      BY <1>2, <2>2 DEF Start
    <3>2. WeightOf(signatures') <= weight'
      BY <2>1, <3>1, SMT
    <3> QED BY <1>2, <1>t, <3>1, <3>2 DEF Start, AggregateIfSufficientWeight, Return
  <2>3. CASE ~ CheckStakeWeight(ConnectedWeight(connected))
    BY <1>2, <2>3 DEF Weights, Start, Return
  <2> QED BY <2>2, <2>3
<1>3. ASSUME RegisterTimeouts PROVE Goal
  BY <1>3 DEF Weights, RegisterTimeouts
<1>4. ASSUME NEW reached, SendRequests(reached) PROVE Goal
  BY <1>4 DEF Weights, SendRequests
<1>5. ASSUME ReceiveResponse PROVE Goal
  <2> DEFINE m == Head(chan)
  <2>1. m \in Inbound
    BY <1>5, SMT DEF IInv, HandlerTypeOK, ReceiveResponse
  <2>2. m.node \in Validators /\ Weight[m.node] \in Nat
    BY <2>1, WeightAssumption DEF Inbound
  <2>3. pc = "receive" /\ result = "none" /\ HandleResponse(m)
    BY <1>5, <1>t DEF ReceiveResponse
  <2>4. CASE m.node \in sentTo /\ isValidSignatureResponse(m)
    <3>1. /\ signatures' = signatures \cup {m.node} /\ weight' = weight + Weight[m.node]
          /\ AggregateIfSufficientWeight(AfterResponse)
      BY <2>3, <2>4 DEF HandleResponse
    <3>2. WeightOf(signatures') <= weight'
      <4>1. WeightOf(signatures \cup {m.node}) <= WeightOf(signatures) + Weight[m.node]
        BY <1>t, <2>2, WeightOfAdd
      <4>2. WeightOf(signatures) \in Nat /\ WeightOf(signatures \cup {m.node}) \in Nat
        BY <1>t, <2>2, ValidatorSubset
      <4> QED BY <1>t, <2>2, <3>1, <4>1, <4>2, SMT DEF Weights
    <3> QED BY <2>3, <3>1, <3>2 DEF AggregateIfSufficientWeight, AfterResponse, Return
  <2>5. CASE ~ (m.node \in sentTo /\ isValidSignatureResponse(m))
    <3>1. UNCHANGED <<signatures, weight, result>> /\ pc' \in {"receive", "endAttempt"}
      BY <2>3, <2>5 DEF HandleResponse, AfterResponse
    <3> QED BY <2>3, <3>1 DEF Weights
  <2> QED BY <2>4, <2>5
<1>6. ASSUME ChannelDrained PROVE Goal
  BY <1>6 DEF Weights, ChannelDrained
<1>7. ASSUME EndAttempt PROVE Goal
  BY <1>7 DEF Weights, EndAttempt, Return
<1>8. ASSUME UNCHANGED <<pc, signatures, weight, result>> PROVE Goal
  BY <1>8 DEF Weights
<1> QED
  <2> HIDE DEF Goal
  <2>1. CASE Step(Aggregator)
    BY <1>g, <1>1, <1>2, <1>3, <1>4, <1>5, <1>6, <1>7, <2>1 DEF Step, Aggregator
  <2>2. ASSUME UNCHANGED aggregatorVars, UNCHANGED inputs PROVE Weights'
    BY <1>g, <1>8, <2>2 DEF aggregatorVars
  <2>3. CASE \E v \in Validators, a \in Attempts, kind \in Kinds : Step(Reply(v, a, kind))
    BY <2>2, <2>3 DEF Step, Reply, Deliver
  <2>4. CASE \E r \in inflight : Step(Lose(r))
    BY <2>2, <2>4 DEF Step, Lose
  <2>5. CASE \E v \in Validators : Step(Expire(v))
    BY <2>2, <2>5 DEF Step, Expire
  <2>6. CASE Step(RunTimeout)
    BY <2>2, <2>6 DEF Step, RunTimeout, Deliver
  <2>7. CASE UNCHANGED vars
    BY <2>2, <2>7 DEF vars
  <2> QED BY <1>0, <2>1, <2>3, <2>4, <2>5, <2>6, <2>7 DEF Next

\* A call that gave up has less weight than the quorum, and so have its signatures.
LEMMA WeightsSuffice == StakeFacts /\ Counts /\ Weights => FailureMeansNoQuorum
<1> SUFFICES ASSUME StakeFacts, Counts, Weights, CheckStakeWeight(WeightOf(signatures))
             PROVE  result # "notEnoughSignatures"
  BY DEF FailureMeansNoQuorum
<1>1. WeightOf(signatures) \in Nat /\ weight \in Nat /\ quorumPercentage \in Nat
  BY ValidatorSubset DEF Counts, TypeOK
<1>2. CheckStakeWeight(weight)
  BY <1>1, CheckStakeWeightMonotone DEF Weights
<1> QED BY <1>2 DEF Weights

------------------------------------------------------------------------------
(* Signatures are counted once, without messages of earlier attempts.       *)

\* Requests on the network belong to attempts already made, and expired timers come
\* back as errors.
OnTheWay ==
    /\ \A r \in inflight : r[2] <= attempt /\ (pc = "send" => r[2] # attempt)
    /\ \A m \in firing : m.kind = "error"

\* A signature that is buffered or still to come is of a validator whose signature
\* the call does not hold yet, and there is one per validator.
Fresh ==
    /\ \A v \in signatures : <<v, attempt>> \notin inflight
    /\ \A i \in DOMAIN chan : chan[i].kind = "signature" =>
          /\ chan[i].node \notin signatures
          /\ <<chan[i].node, attempt>> \notin inflight
          /\ \A j \in DOMAIN chan :
                chan[j].kind = "signature" /\ chan[j].node = chan[i].node => i = j

\* The accumulated weight is the stake of signatureMap.
CountedOnce ==
    ~ stray => /\ weight = WeightOf(signatures)
               /\ pc = "receive" => Fresh

\* A message is on its way only for an attempt that has begun.
LEMMA NextOnTheWay == IInv /\ OnTheWay /\ [Next]_vars => OnTheWay'
<1> SUFFICES ASSUME IInv, OnTheWay, [Next]_vars PROVE OnTheWay'
  OBVIOUS
<1>t. attempt \in Nat /\ \A r \in inflight : r[2] \in Nat
  BY AttemptsAssumption, SMT DEF IInv
<1>1. ASSUME UNCHANGED <<inflight, firing, attempt>>, pc' # "send" PROVE OnTheWay'
  BY <1>1 DEF OnTheWay
<1>2. CASE HandleRequest
  BY <1>1, <1>2 DEF HandleRequest, Return, Untouched, handlerVars
<1>3. CASE StartFails
  BY <1>1, <1>3 DEF StartFails, Return, Untouched, handlerVars
<1>4. ASSUME NEW connected, Start(connected) PROVE OnTheWay'
  BY <1>1, <1>4 DEF Start, AggregateIfSufficientWeight, Return, Untouched, handlerVars
<1>5. CASE RegisterTimeouts
  BY <1>5, <1>t, SMT DEF OnTheWay, RegisterTimeouts
<1>6. ASSUME NEW reached \in SUBSET Queried, SendRequests(reached) PROVE OnTheWay'
  <2>1. inflight' = inflight \cup (reached \X {attempt}) /\ attempt' = attempt
        /\ pc' # "send" /\ firing' = firing
    BY <1>6 DEF SendRequests
  <2>2. ASSUME NEW r \in inflight' PROVE r[2] <= attempt
    BY <1>t, <2>1, SMT DEF OnTheWay
  <2> QED BY <2>1, <2>2 DEF OnTheWay
<1>7. CASE ReceiveResponse
  <2>1. pc' # "send"
    BY <1>7 DEF ReceiveResponse, HandleResponse, AfterResponse, AggregateIfSufficientWeight, Return
  <2> QED BY <1>1, <1>7, <2>1 DEF ReceiveResponse
<1>8. CASE ChannelDrained
  BY <1>1, <1>8 DEF ChannelDrained, Untouched, handlerVars
<1>9. CASE EndAttempt
  BY <1>1, <1>9 DEF EndAttempt, Return, Untouched, handlerVars
<1>10. ASSUME NEW v, NEW a, NEW kind, Reply(v, a, kind) PROVE OnTheWay'
  BY <1>10 DEF OnTheWay, Reply, Deliver, aggregatorVars
<1>11. ASSUME NEW r, Lose(r) PROVE OnTheWay'
  BY <1>11 DEF OnTheWay, Lose, handlerVars, aggregatorVars
<1>12. ASSUME NEW v, Expire(v) PROVE OnTheWay'
  BY <1>12, SMT DEF OnTheWay, Expire, TimeoutExpires, aggregatorVars
<1>13. CASE RunTimeout
  BY <1>13 DEF OnTheWay, RunTimeout, Deliver, aggregatorVars
<1>14. CASE UNCHANGED vars
  BY <1>14 DEF OnTheWay, vars, handlerVars, aggregatorVars
<1> QED
  BY <1>2, <1>3, <1>4, <1>5, <1>6, <1>7, <1>8, <1>9, <1>10, <1>11, <1>12, <1>13, <1>14
  DEF Next, Step, Aggregator

\* An inbound message does not disturb Fresh if it is no signature, or the answer
\* to a request of this attempt.
LEMMA DispatchKeepsFresh ==
    ASSUME HandlerTypeOK, Fresh, NEW m \in Inbound, Dispatch(m),
           UNCHANGED <<signatures, attempt>>,
           \/ m.kind # "signature" /\ UNCHANGED inflight
           \/ <<m.node, attempt>> \in inflight /\ inflight' = inflight \ {<<m.node, attempt>>}
    PROVE  Fresh'
<1>1. CASE UNCHANGED chan
  BY <1>1 DEF Fresh
<1>2. CASE chan' = Append(chan, m)
  <2> DEFINE n == Len(chan) + 1
  <2>1. chan \in Seq(Inbound) /\ Len(chan) \in Nat
    BY SMT DEF HandlerTypeOK
  <2>2. DOMAIN chan' = 1..n /\ chan'[n] = m /\ \A i \in DOMAIN chan : chan'[i] = chan[i]
    BY <1>2, <2>1, SMT
  <2>3. DOMAIN chan = 1..Len(chan)
    BY <2>1, SMT
  <2>4. inflight' \subseteq inflight
    OBVIOUS
  <2>5. \A v \in signatures' : <<v, attempt'>> \notin inflight'
    BY <2>4 DEF Fresh
  <2>6. ASSUME m.kind = "signature"
        PROVE  /\ m.node \notin signatures
               /\ <<m.node, attempt>> \notin inflight'
               /\ \A i \in DOMAIN chan : chan[i].kind = "signature" => chan[i].node # m.node
    BY <2>6 DEF Fresh
  <2>7. ASSUME NEW i \in DOMAIN chan', chan'[i].kind = "signature"
        PROVE  /\ chan'[i].node \notin signatures'
               /\ <<chan'[i].node, attempt'>> \notin inflight'
               /\ \A j \in DOMAIN chan' :
                     chan'[j].kind = "signature" /\ chan'[j].node = chan'[i].node => i = j
    <3>1. CASE i = n
      <4>1. chan'[i] = m
        BY <2>2, <3>1
      <4>2. \A j \in DOMAIN chan' : j # n => j \in DOMAIN chan /\ chan'[j] = chan[j]
        BY <2>1, <2>2, <2>3, SMT
      <4> QED BY <2>6, <2>7, <3>1, <4>1, <4>2
    <3>2. CASE i # n
      <4>1. i \in DOMAIN chan /\ chan'[i] = chan[i]
        BY <2>1, <2>2, <2>3, <3>2, SMT
      <4>2. chan[i].node \notin signatures /\ <<chan[i].node, attempt>> \notin inflight
        BY <2>7, <4>1 DEF Fresh
      <4>3. ASSUME NEW j \in DOMAIN chan', chan'[j].kind = "signature",
                   chan'[j].node = chan'[i].node
            PROVE  i = j
        <5>1. CASE j = n
          BY <2>2, <2>6, <2>7, <4>1, <4>3, <5>1
        <5>2. CASE j # n
          <6>1. j \in DOMAIN chan /\ chan'[j] = chan[j]
            BY <2>1, <2>2, <2>3, <5>2, SMT
          <6> QED BY <2>7, <4>1, <4>3, <6>1 DEF Fresh
        <5> QED BY <5>1, <5>2
      <4> QED BY <2>4, <4>1, <4>2, <4>3
    <3> QED BY <3>1, <3>2
  <2> QED BY <2>5, <2>7 DEF Fresh
<1> QED BY <1>1, <1>2 DEF Dispatch

\* Reading the head of the channel does not disturb Fresh, and a signature read is
\* of a validator whose signature the call did not hold.
LEMMA ReceiveKeepsFresh ==
    ASSUME HandlerTypeOK, Fresh, chan # <<>>, chan' = Tail(chan), UNCHANGED <<attempt, inflight>>,
           \/ UNCHANGED signatures
           \/ Head(chan).kind = "signature" /\ signatures' = signatures \cup {Head(chan).node}
    PROVE  Fresh' /\ (Head(chan).kind = "signature" => Head(chan).node \notin signatures)
<1>1. chan \in Seq(Inbound) /\ Len(chan) \in Nat /\ Len(chan) > 0 /\ Head(chan) = chan[1]
  BY SMT DEF HandlerTypeOK
<1>2. /\ DOMAIN chan = 1..Len(chan) /\ 1 \in DOMAIN chan
      /\ \A i \in DOMAIN chan' : i \in Nat /\ i + 1 \in DOMAIN chan /\ chan'[i] = chan[i + 1]
      /\ \A i \in DOMAIN chan' : i + 1 # 1
  BY <1>1, SMT
<1>3. chan[1].kind = "signature" =>
          /\ chan[1].node \notin signatures
          /\ <<chan[1].node, attempt>> \notin inflight
          /\ \A i \in DOMAIN chan' : chan'[i].kind = "signature" => chan'[i].node # chan[1].node
  BY <1>2 DEF Fresh
<1>4. \A v \in signatures' : <<v, attempt'>> \notin inflight'
  BY <1>1, <1>3 DEF Fresh
<1>5. ASSUME NEW i \in DOMAIN chan', chan'[i].kind = "signature"
      PROVE  /\ chan'[i].node \notin signatures'
             /\ <<chan'[i].node, attempt'>> \notin inflight'
             /\ \A j \in DOMAIN chan' :
                   chan'[j].kind = "signature" /\ chan'[j].node = chan'[i].node => i = j
  <2>1. i + 1 \in DOMAIN chan /\ chan'[i] = chan[i + 1] /\ i \in Nat
    BY <1>2
  <2>2. chan'[i].node \notin signatures /\ <<chan'[i].node, attempt>> \notin inflight
    BY <1>5, <2>1 DEF Fresh
  <2>3. chan'[i].node \notin signatures'
    BY <1>1, <1>3, <1>5, <2>2
  <2>4. ASSUME NEW j \in DOMAIN chan', chan'[j].kind = "signature", chan'[j].node = chan'[i].node
        PROVE  i = j
    <3>1. j + 1 \in DOMAIN chan /\ chan'[j] = chan[j + 1] /\ j \in Nat
      BY <1>2
    <3>2. i + 1 = j + 1
      BY <1>5, <2>1, <2>4, <3>1 DEF Fresh
    <3> QED BY <2>1, <3>1, <3>2, SMT
  <2> QED BY <2>2, <2>3, <2>4
<1> QED BY <1>1, <1>3, <1>4, <1>5 DEF Fresh

\* No response is on its way when CreateSignedMessage is called.
LEMMA InitCountedOnce == StakeFacts /\ Init => OnTheWay /\ CountedOnce
<1> SUFFICES ASSUME StakeFacts, Init PROVE OnTheWay /\ CountedOnce
  OBVIOUS
<1>1. WeightOf(signatures) = 0
  BY DEF Init, StakeFacts
<1> QED BY <1>1 DEF Init, HandlerInit, OnTheWay, CountedOnce

\* Every step that is not stray leaves at most one response of each validator to handle.
LEMMA NextCountedOnce ==
    StakeFacts /\ IInv /\ Counts /\ OnTheWay /\ CountedOnce /\ [Next]_vars => CountedOnce'
<1> SUFFICES ASSUME StakeFacts, IInv, Counts, OnTheWay, CountedOnce, [Next]_vars, ~ stray'
             PROVE  weight' = WeightOf(signatures') /\ (pc' = "receive" => Fresh')
  BY DEF CountedOnce, WeightOf
<1> DEFINE Goal == weight' = WeightOf(signatures') /\ (pc' = "receive" => Fresh')
<1>t. /\ HandlerTypeOK /\ signatures \in SUBSET Validators
      /\ weight \in Nat
  BY DEF Counts, TypeOK
<1>1. ASSUME ~ stray, UNCHANGED <<signatures, weight>>, pc' # "receive" PROVE Goal
  BY <1>1 DEF CountedOnce
<1>2. CASE HandleRequest
  BY <1>1, <1>2 DEF HandleRequest, Return, Untouched
<1>3. CASE StartFails
  BY <1>1, <1>3 DEF StartFails, Return, Untouched
<1>4. ASSUME NEW connected, Start(connected) PROVE Goal
  <2>1. CASE UNCHANGED <<signatures, weight>>
    BY <1>1, <1>4, <2>1 DEF Start, AggregateIfSufficientWeight, Return, Untouched
  <2>2. CASE signatures' = cache /\ weight' = WeightOf(cache) /\ AggregateIfSufficientWeight("register")
    BY <2>2 DEF AggregateIfSufficientWeight, Return
  <2> QED BY <1>4, <2>1, <2>2 DEF Start
<1>5. CASE RegisterTimeouts
  BY <1>1, <1>5 DEF RegisterTimeouts
<1>6. ASSUME NEW reached \in SUBSET Queried, SendRequests(reached) PROVE Goal
  <2>1. /\ inflight' = inflight \cup (reached \X {attempt}) /\ chan' = <<>>
        /\ UNCHANGED <<attempt, signatures, weight, stray>> /\ pc = "send"
    BY <1>6 DEF SendRequests, RegisterRequestID
  <2>2. \A v \in signatures' : <<v, attempt'>> \notin inflight'
    <3>1. \A v \in signatures : <<v, attempt>> \notin inflight
      BY <2>1 DEF OnTheWay
    <3>2. \A v \in signatures : <<v, attempt>> \notin reached \X {attempt}
      BY DEF Queried
    <3> QED BY <2>1, <3>1, <3>2
  <2>3. Fresh'
    BY <2>1, <2>2, SMT DEF Fresh
  <2> QED BY <2>1, <2>3 DEF CountedOnce
<1>7. CASE ReceiveResponse
  <2> DEFINE m == Head(chan)
  <2>1. /\ pc = "receive" /\ chan # <<>> /\ chan' = Tail(chan) /\ HandleResponse(m)
        /\ UNCHANGED <<attempt, inflight, stray>>
    BY <1>7 DEF ReceiveResponse
  <2>2. Fresh /\ weight = WeightOf(signatures)
    BY <2>1 DEF CountedOnce
  <2>3. \/ UNCHANGED <<signatures, weight>>
        \/ /\ m.kind = "signature" /\ signatures' = signatures \cup {m.node}
           /\ weight' = weight + Weight[m.node]
    BY <2>1 DEF HandleResponse, isValidSignatureResponse
  <2>4. Fresh' /\ (m.kind = "signature" => m.node \notin signatures)
    BY <1>t, <2>1, <2>2, <2>3, ReceiveKeepsFresh
  <2>5. m.node \in Validators
    <3>1. m \in Inbound
      BY <1>t, <2>1, SMT DEF HandlerTypeOK
    <3> QED BY <3>1 DEF Inbound
  <2>6. m.kind = "signature" => WeightOf(signatures \cup {m.node}) = WeightOf(signatures) + Weight[m.node]
    BY <1>t, <2>4, <2>5, WeightOfAdd
  <2> QED BY <2>2, <2>3, <2>4, <2>6
<1>8. CASE ChannelDrained
  BY <1>1, <1>8 DEF ChannelDrained, Untouched
<1>9. CASE EndAttempt
  BY <1>1, <1>9 DEF EndAttempt, Return, Untouched
\* A signature delivered without becoming stray is one of this attempt.
<1>10. ASSUME NEW m \in Inbound, Deliver(m),
              \/ m.kind # "signature" /\ UNCHANGED inflight
              \/ /\ <<m.node, m.attempt>> \in inflight
                 /\ inflight' = inflight \ {<<m.node, m.attempt>>}
       PROVE  Goal
  <2>1. ~ stray /\ UNCHANGED <<pc, attempt, signatures, weight>> /\ Dispatch(m)
    BY <1>10 DEF Deliver, HandleInbound, aggregatorVars
  <2>2. CASE m.kind # "signature" /\ UNCHANGED inflight
    <3>1. Fresh => Fresh'
      BY <1>t, <1>10, <2>1, <2>2, DispatchKeepsFresh
    <3> QED BY <2>1, <3>1 DEF CountedOnce
  <2>3. CASE <<m.node, m.attempt>> \in inflight /\ inflight' = inflight \ {<<m.node, m.attempt>>}
    <3>1. m.attempt \in Nat /\ attempt \in Nat
      BY AttemptsAssumption, SMT DEF Inbound, IInv
    <3>2. ~ (m.attempt < attempt)
      BY <1>10 DEF Deliver
    <3>3. m.attempt <= attempt
      BY <2>3 DEF OnTheWay
    <3>4. m.attempt = attempt
      BY <3>1, <3>2, <3>3, SMT
    <3>5. Fresh => Fresh'
      BY <1>t, <1>10, <2>1, <2>3, <3>4, DispatchKeepsFresh
    <3> QED BY <2>1, <3>5 DEF CountedOnce
  <2> QED BY <1>10, <2>2, <2>3
<1>11. ASSUME NEW v \in Validators, NEW a \in Attempts, NEW kind \in Kinds, Reply(v, a, kind)
       PROVE  Goal
  <2> DEFINE m == [node |-> v, kind |-> kind, attempt |-> a]
  <2>1. m \in Inbound /\ m.node = v /\ m.attempt = a
    BY DEF Inbound
  <2>2. Deliver(m) /\ <<v, a>> \in inflight /\ inflight' = inflight \ {<<v, a>>}
    BY <1>11 DEF Reply
  <2> HIDE DEF m
  <2> QED BY <1>10, <2>1, <2>2
<1>12. ASSUME NEW r, Lose(r) PROVE Goal
  <2>1. /\ UNCHANGED <<pc, attempt, signatures, weight, stray, chan>>
        /\ inflight' \subseteq inflight
    BY <1>12 DEF Lose, aggregatorVars, handlerVars
  <2>2. Fresh => Fresh'
    BY <2>1 DEF Fresh
  <2> QED BY <2>1, <2>2 DEF CountedOnce
<1>13. ASSUME UNCHANGED <<pc, attempt, signatures, weight, stray, chan, inflight>> PROVE Goal
  BY <1>13 DEF CountedOnce, Fresh
<1>14. ASSUME NEW v, Expire(v) PROVE Goal
  BY <1>13, <1>14 DEF Expire, TimeoutExpires, aggregatorVars
<1>15. CASE RunTimeout
  <2>1. PICK m \in firing : Deliver(m) /\ UNCHANGED inflight
    BY <1>15 DEF RunTimeout
  <2>2. m \in Inbound /\ m.kind # "signature"
    BY <1>t, <2>1 DEF HandlerTypeOK, OnTheWay
  <2> QED BY <1>10, <2>1, <2>2
<1>16. CASE UNCHANGED vars
  BY <1>13, <1>16 DEF vars, aggregatorVars, handlerVars
<1> QED
  BY <1>2, <1>3, <1>4, <1>5, <1>6, <1>7, <1>8, <1>9, <1>11, <1>12, <1>14, <1>15, <1>16
  DEF Next, Step, Aggregator

------------------------------------------------------------------------------
(* Every node the call waits for has a timeout, without messages of earlier *)
(* attempts.                                                                *)

\* Timers are of attempts already made, none of the current attempt has expired before
\* its request ID is registered, one callback runs at a time, and the channel the call
\* reads has a slot to fill or is closed.
Timed ==
    /\ \A v \in Validators : timers[v] <= attempt
    /\ \A m \in firing : m.attempt <= attempt /\ (pc = "send" => m.attempt # attempt)
    /\ \A m, n \in firing : m = n
    /\ pc = "receive" => expected > 0 /\ (registered \/ closed)

\* Every queried node has a fresh timer when the requests are sent.
Armed ==
    ~ stray => /\ pc = "send" => \A v \in Queried : timers[v] = attempt
               /\ TimeoutForEachNode

\* Handing a message to the channel leaves the channel open or closed for good.
LEMMA DispatchKeepsOpen ==
    ASSUME IInv, expected > 0, registered \/ closed, NEW m, Dispatch(m)
    PROVE  /\ registered' \/ closed'
           /\ \/ closed /\ UNCHANGED <<chan, closed>>
              \/ chan' = Append(chan, m)
<1>1. CASE registered
  <2>1. Len(chan) < expected
    BY <1>1, SMT DEF IInv, HandlerTypeOK, SendsHaveRoom
  <2> QED BY <1>1, <2>1 DEF Dispatch
<1>2. CASE ~ registered
  BY <1>2 DEF Dispatch
<1> QED BY <1>1, <1>2

\* Every step keeps the timers and the expired ones in order.
LEMMA NextTimed == StakeFacts /\ IInv /\ Timed /\ [Next]_vars => Timed'
<1> SUFFICES ASSUME StakeFacts, IInv, Timed, [Next]_vars PROVE Timed'
  OBVIOUS
<1>t. /\ attempt \in Nat
      /\ timers \in [Validators -> Nat]
      /\ \A m \in firing : m.attempt \in Nat
  BY AttemptsAssumption, SMT DEF IInv, HandlerTypeOK, Inbound
<1>1. ASSUME UNCHANGED <<timers, firing, attempt, expected, registered, closed>>,
             pc' # "send", pc' = "receive" => pc = "receive"
      PROVE  Timed'
  BY <1>1 DEF Timed
<1>2. CASE HandleRequest
  BY <1>1, <1>2 DEF HandleRequest, Return, Untouched, handlerVars
<1>3. CASE StartFails
  BY <1>1, <1>3 DEF StartFails, Return, Untouched, handlerVars
<1>4. ASSUME NEW connected, Start(connected) PROVE Timed'
  BY <1>1, <1>4 DEF Start, AggregateIfSufficientWeight, Return, Untouched, handlerVars
<1>5. CASE RegisterTimeouts
  <2>1. /\ attempt' = attempt + 1 /\ firing' = firing /\ pc' = "send"
        /\ timers' = [v \in Validators |-> IF v \in Queried THEN attempt + 1 ELSE timers[v]]
    BY <1>5 DEF RegisterTimeouts, RegisterAppRequest
  <2>2. \A v \in Validators : timers'[v] <= attempt'
    BY <1>t, <2>1, SMT DEF Timed
  <2>3. \A m \in firing' : m.attempt <= attempt' /\ m.attempt # attempt'
    BY <1>t, <2>1, SMT DEF Timed
  <2> QED BY <2>1, <2>2, <2>3 DEF Timed
<1>6. ASSUME NEW reached \in SUBSET Queried, SendRequests(reached) PROVE Timed'
  <2>1. /\ UNCHANGED <<timers, firing, attempt>> /\ pc' # "send" /\ registered'
        /\ expected' = Cardinality(Queried) /\ (pc' = "receive" => reached # {})
    BY <1>6 DEF SendRequests, RegisterRequestID
  <2>2. reached # {} => Cardinality(Queried) > 0
    BY ValidatorSubset DEF Queried
  <2> QED BY <2>1, <2>2 DEF Timed
<1>7. CASE ReceiveResponse
  <2>1. pc = "receive" /\ pc' # "send"
    BY <1>7 DEF ReceiveResponse, HandleResponse, AfterResponse, AggregateIfSufficientWeight, Return
  <2> QED BY <1>1, <1>7, <2>1 DEF ReceiveResponse
<1>8. CASE ChannelDrained
  BY <1>1, <1>8 DEF ChannelDrained, Untouched, handlerVars
<1>9. CASE EndAttempt
  BY <1>1, <1>9 DEF EndAttempt, Return, Untouched, handlerVars
<1>10. ASSUME NEW m, Deliver(m), firing' \subseteq firing PROVE Timed'
  <2>1. /\ UNCHANGED <<attempt, pc, expected>>
        /\ RemoveTimeout(m) /\ Dispatch(m)
    BY <1>10 DEF Deliver, HandleInbound, aggregatorVars
  <2>2. \A v \in Validators : timers'[v] <= attempt'
    BY <1>t, <2>1, SMT DEF Timed, RemoveTimeout
  <2>3. pc = "receive" => registered' \/ closed'
    BY <2>1, DispatchKeepsOpen DEF Timed
  <2> QED BY <1>10, <2>1, <2>2, <2>3 DEF Timed
<1>11. ASSUME NEW v, NEW a, NEW kind, Reply(v, a, kind) PROVE Timed'
  BY <1>10, <1>11 DEF Reply
<1>12. ASSUME NEW r, Lose(r) PROVE Timed'
  BY <1>12 DEF Timed, Lose, handlerVars, aggregatorVars
<1>13. ASSUME NEW v \in Validators, Expire(v) PROVE Timed'
  <2>1. /\ timers' = [timers EXCEPT ![v] = 0]
        /\ firing' = {[node |-> v, kind |-> "error", attempt |-> timers[v]]}
        /\ UNCHANGED <<attempt, pc, expected, registered, closed>>
        /\ pc = "send" => timers[v] # attempt
    BY <1>13 DEF Expire, TimeoutExpires, aggregatorVars
  <2>2. \A w \in Validators : timers'[w] <= attempt'
    BY <1>t, <2>1, SMT DEF Timed
  <2>3. \A m \in firing' : m.attempt <= attempt' /\ (pc' = "send" => m.attempt # attempt')
    BY <2>1, SMT DEF Timed
  <2> QED BY <2>1, <2>2, <2>3 DEF Timed
<1>14. CASE RunTimeout
  BY <1>10, <1>14 DEF RunTimeout
<1>15. CASE UNCHANGED vars
  BY <1>15 DEF Timed, vars, handlerVars, aggregatorVars
<1> QED
  BY <1>2, <1>3, <1>4, <1>5, <1>6, <1>7, <1>8, <1>9, <1>11, <1>12, <1>13, <1>14, <1>15
  DEF Next, Step, Aggregator

\* Timers and responses are set up when CreateSignedMessage is called.
LEMMA InitArmed == Init => Timed /\ Armed
  BY SMT DEF Init, HandlerInit, Timed, Armed, TimeoutForEachNode

\* A message of this attempt takes the timer of its node away and stands in for it
\* on the channel.
LEMMA DeliverKeepsTimeouts ==
    ASSUME IInv, Timed, TimeoutForEachNode, pc = "receive", NEW m \in Inbound, Deliver(m),
           \A n \in firing : n \in firing' \/ n = m
    PROVE  TimeoutForEachNode'
<1> SUFFICES ASSUME NEW v \in sentTo \ heard, ~ closed'
             PROVE  \/ timers'[v] # 0
                    \/ v \in {n.node : n \in firing'}
                    \/ \E i \in 1..Len(chan') : chan'[i].node = v
  BY DEF TimeoutForEachNode, Deliver, aggregatorVars
<1>1. RemoveTimeout(m) /\ Dispatch(m)
  BY DEF Deliver, HandleInbound
<1>2. chan' = Append(chan, m)
  BY <1>1, DispatchKeepsOpen DEF Timed
<1>3. chan \in Seq(Inbound) /\ Len(chan) \in Nat /\ m.node \in Validators
  BY SMT DEF IInv, HandlerTypeOK, Inbound
<1>4. /\ Len(chan') = Len(chan) + 1 /\ chan'[Len(chan) + 1] = m
      /\ \A i \in 1..Len(chan) : i \in 1..Len(chan') /\ chan'[i] = chan[i]
  BY <1>2, <1>3, SMT
<1>5. CASE m.node = v
  <2>1. Len(chan) + 1 \in 1..Len(chan')
    BY <1>3, <1>4, SMT
  <2> QED BY <1>4, <1>5, <2>1
<1>6. CASE m.node # v
  <2>1. timers'[v] = timers[v]
    BY <1>1, <1>6, SMT DEF RemoveTimeout
  <2>2. CASE timers[v] # 0
    BY <2>1, <2>2
  <2>3. CASE v \in {n.node : n \in firing}
    BY <1>6, <2>3
  <2>4. CASE \E i \in 1..Len(chan) : chan[i].node = v
    BY <1>4, <2>4
  <2>5. ~ closed
    BY <1>1 DEF Dispatch, IInv, SendsHaveRoom
  <2> QED BY <2>2, <2>3, <2>4, <2>5 DEF TimeoutForEachNode
<1> QED BY <1>5, <1>6

\* Reading the channel moves a node from the channel to those heard.
LEMMA ReceiveKeepsTimeouts ==
    ASSUME IInv, TimeoutForEachNode, ReceiveResponse
    PROVE  TimeoutForEachNode'
<1> SUFFICES ASSUME NEW v \in sentTo \ heard'
             PROVE  \/ timers[v] # 0
                    \/ v \in {n.node : n \in firing}
                    \/ \E i \in 1..Len(chan') : chan'[i].node = v
                    \/ closed
  BY DEF TimeoutForEachNode, ReceiveResponse
<1>1. /\ pc = "receive" /\ chan # <<>> /\ chan' = Tail(chan)
      /\ heard' = IF Head(chan).node \in sentTo THEN heard \cup {Head(chan).node} ELSE heard
  BY DEF ReceiveResponse, HandleResponse, CountResponse
<1>2. /\ chan \in Seq(Inbound) /\ Len(chan) \in Nat /\ Head(chan) = chan[1]
      /\ Len(chan') = Len(chan) - 1
      /\ \A i \in 2..Len(chan) : i - 1 \in 1..Len(chan') /\ chan'[i - 1] = chan[i]
  <2>1. chan \in Seq(Inbound)
    BY DEF IInv, HandlerTypeOK
  <2> QED BY <1>1, <2>1, SMT
<1>3. v \in sentTo \ heard /\ v # chan[1].node
  BY <1>1, <1>2
<1>4. CASE \E i \in 1..Len(chan) : chan[i].node = v
  <2>1. PICK i \in 1..Len(chan) : chan[i].node = v
    BY <1>4
  <2>2. i \in 2..Len(chan)
    BY <1>2, <1>3, <2>1, SMT
  <2> QED BY <1>2, <2>1, <2>2
<1> QED BY <1>1, <1>3, <1>4 DEF TimeoutForEachNode

\* Every step that is not stray keeps a timeout or a message for each node waited for.
LEMMA NextArmed == IInv /\ Counts /\ OnTheWay /\ Timed /\ Armed /\ [Next]_vars => Armed'
<1> SUFFICES ASSUME IInv, Counts, OnTheWay, Timed, Armed, [Next]_vars, ~ stray'
             PROVE  /\ pc' = "send" => \A v \in Queried' : timers'[v] = attempt'
                    /\ TimeoutForEachNode'
  BY DEF Armed
<1> DEFINE Goal == /\ pc' = "send" => \A v \in Queried' : timers'[v] = attempt'
                   /\ TimeoutForEachNode'
<1>t. /\ attempt \in Nat /\ (pc = "send" => attempt # 0)
      /\ timers \in [Validators -> Nat]
      /\ sentTo \subseteq Validators
  BY AttemptsAssumption, SMT DEF IInv, HandlerTypeOK, Counts, TypeOK
<1>1. ASSUME pc' # "send", pc' # "receive" PROVE Goal
  BY <1>1 DEF TimeoutForEachNode
<1>2. ASSUME HandleRequest PROVE Goal
  BY <1>1, <1>2 DEF HandleRequest, Return
<1>3. ASSUME StartFails PROVE Goal
  BY <1>1, <1>3 DEF StartFails, Return
<1>4. ASSUME NEW connected, Start(connected) PROVE Goal
  BY <1>1, <1>4 DEF Start, AggregateIfSufficientWeight, Return
<1>5. ASSUME RegisterTimeouts PROVE Goal
  BY <1>5 DEF RegisterTimeouts, RegisterAppRequest, Queried, TimeoutForEachNode
<1>6. ASSUME NEW reached \in SUBSET Queried, SendRequests(reached) PROVE Goal
  <2>1. /\ pc = "send" /\ pc' # "send" /\ sentTo' = reached
        /\ UNCHANGED <<timers, stray>>
    BY <1>6 DEF SendRequests
  <2>2. \A v \in reached : timers'[v] # 0
    BY <1>t, <2>1 DEF Armed
  <2> QED BY <2>1, <2>2 DEF TimeoutForEachNode
<1>7. ASSUME ReceiveResponse PROVE Goal
  <2>1. pc' # "send" /\ stray' = stray
    BY <1>7 DEF ReceiveResponse, HandleResponse, AfterResponse, AggregateIfSufficientWeight, Return
  <2> QED BY <1>7, <2>1, ReceiveKeepsTimeouts DEF Armed
<1>8. ASSUME ChannelDrained PROVE Goal
  BY <1>1, <1>8 DEF ChannelDrained
<1>9. ASSUME EndAttempt PROVE Goal
  BY <1>1, <1>9 DEF EndAttempt, Return
\* Before the requests are sent, every message still to come is of an earlier attempt.
<1>10. ASSUME NEW m \in Inbound, Deliver(m), \A n \in firing : n \in firing' \/ n = m,
              m.attempt <= attempt, pc = "send" => m.attempt # attempt
       PROVE  Goal
  <2>0. m.attempt \in Nat
    BY SMT DEF Inbound
  <2>1. ~ (m.attempt < attempt) /\ ~ stray /\ pc' = pc
    BY <1>10 DEF Deliver, aggregatorVars
  <2>2. pc # "send"
    BY <1>t, <1>10, <2>0, <2>1, SMT
  <2>3. CASE pc = "receive"
    BY <1>10, <2>1, <2>3, DeliverKeepsTimeouts DEF Armed
  <2>4. CASE pc # "receive"
    BY <1>1, <2>1, <2>2, <2>4
  <2> QED BY <2>1, <2>2, <2>3, <2>4
<1>11. ASSUME NEW v \in Validators, NEW a \in Attempts, NEW kind \in Kinds, Reply(v, a, kind)
       PROVE  Goal
  <2> DEFINE m == [node |-> v, kind |-> kind, attempt |-> a]
  <2>1. m \in Inbound /\ m.attempt = a
    BY DEF Inbound
  <2>2. Deliver(m) /\ <<v, a>> \in inflight /\ firing' = firing
    BY <1>11 DEF Reply
  <2>3. a <= attempt /\ (pc = "send" => a # attempt)
    BY <2>2 DEF OnTheWay
  <2> HIDE DEF m
  <2> QED BY <1>10, <2>1, <2>2, <2>3
<1>12. ASSUME UNCHANGED <<aggregatorVars, handlerVars, stray>> PROVE Goal
  BY <1>12 DEF Armed, TimeoutForEachNode, Queried, aggregatorVars, handlerVars
<1>13. ASSUME NEW v \in Validators, Expire(v) PROVE Goal
  <2>1. /\ timers' = [timers EXCEPT ![v] = 0]
        /\ firing = {} /\ v \in {n.node : n \in firing'}
        /\ UNCHANGED <<attempt, pc, signatures, sentTo, heard, chan, closed, stray>>
        /\ pc = "send" => timers[v] # attempt
    BY <1>13 DEF Expire, TimeoutExpires, aggregatorVars
  <2>2. \A w \in Validators : w # v => timers'[w] = timers[w]
    BY <1>t, <2>1
  <2>3. pc' = "send" => \A w \in Queried' : timers'[w] = attempt'
    BY <2>1, <2>2 DEF Armed, Queried
  <2>4. TimeoutForEachNode'
    BY <1>t, <2>1, <2>2 DEF Armed, TimeoutForEachNode
  <2> QED BY <2>3, <2>4
<1>14. ASSUME RunTimeout PROVE Goal
  <2>1. PICK m \in firing : Deliver(m) /\ firing' = {}
    BY <1>14 DEF RunTimeout
  <2>2. m \in Inbound
    BY <2>1 DEF IInv, HandlerTypeOK
  <2>3. /\ \A n \in firing : n = m
        /\ m.attempt <= attempt /\ (pc = "send" => m.attempt # attempt)
    BY <2>1 DEF Timed
  <2> QED BY <1>10, <2>1, <2>2, <2>3
<1> QED
  <2> SUFFICES Goal
    OBVIOUS
  <2> HIDE DEF Goal
  <2>1. CASE HandleRequest \/ Step(Aggregator)
    BY <1>2, <1>3, <1>4, <1>5, <1>6, <1>7, <1>8, <1>9, <2>1 DEF Step, Aggregator
  <2>2. CASE \E v \in Validators, a \in Attempts, kind \in Kinds : Step(Reply(v, a, kind))
    BY <1>11, <2>2 DEF Step
  <2>3. CASE \E r \in inflight : Step(Lose(r))
    BY <1>12, <2>3 DEF Step, Lose
  <2>4. CASE \E v \in Validators : Step(Expire(v))
    BY <1>13, <2>4 DEF Step
  <2>5. CASE Step(RunTimeout)
    BY <1>14, <2>5 DEF Step
  <2>6. CASE UNCHANGED vars
    BY <1>12, <2>6 DEF vars
  <2> QED BY <2>1, <2>2, <2>3, <2>4, <2>5, <2>6 DEF Next

------------------------------------------------------------------------------
(* Entries of the handler: the timers ahead are enough to complete them.    *)

\* What counting the timers uses of finite sets.  It holds (CountFactsHold).
CountFacts ==
    \A S, T \in SUBSET Validators :
        /\ S \subseteq T => Cardinality(S) <= Cardinality(T)
        /\ \A v \in Validators : S \subseteq T \cup {v} => Cardinality(S) <= Cardinality(T) + 1

\* The nodes with a timer that runs or has expired, whose callback is yet to come.
Awaited == {v \in Validators : timers[v] # 0 \/ v \in {n.node : n \in firing}}

\* They are at least as many as the responses a registered entry lacks.
Covered == registered /\ ~ stray => expected - received <= Cardinality(Awaited)

\* An entry stays covered when the timers ahead are the same or more.
LEMMA CoveredByMore ==
    ASSUME StakeFacts, CountFacts, IInv, Covered, Awaited \subseteq Awaited',
           UNCHANGED <<registered, expected, received, stray>>
    PROVE  Covered'
<1>1. Awaited \in SUBSET Validators /\ Awaited' \in SUBSET Validators
  BY DEF Awaited
<1>2. Cardinality(Awaited) <= Cardinality(Awaited')
  BY <1>1 DEF CountFacts
<1>3. Cardinality(Awaited) \in Nat /\ Cardinality(Awaited') \in Nat
  BY <1>1, ValidatorSubset
<1>4. expected \in Nat /\ received \in Nat
  BY DEF IInv, HandlerTypeOK
<1> HIDE DEF Awaited
<1> QED BY <1>2, <1>3, <1>4, SMT DEF Covered

\* A message handed to the entry uses up at most the timer of its node.
LEMMA DeliverKeepsCovered ==
    ASSUME StakeFacts, CountFacts, IInv, Covered, NEW m \in Inbound, Deliver(m),
           \A n \in firing : n \in firing' \/ n = m
    PROVE  Covered'
<1>1. RemoveTimeout(m) /\ Dispatch(m) /\ expected' = expected /\ (stray => stray')
  BY DEF Deliver, HandleInbound
<1>2. m.node \in Validators /\ timers \in [Validators -> 0..MaxAttempts]
  BY DEF Inbound, IInv, HandlerTypeOK
<1>3. Awaited \subseteq Awaited' \cup {m.node}
  <2> SUFFICES ASSUME NEW v \in Awaited, v # m.node PROVE v \in Awaited'
    OBVIOUS
  <2>1. v \in Validators /\ timers'[v] = timers[v]
    BY <1>1, <1>2 DEF Awaited, RemoveTimeout
  <2>2. v \in {n.node : n \in firing} => v \in {n.node : n \in firing'}
    OBVIOUS
  <2> QED BY <2>1, <2>2 DEF Awaited
<1>4. Awaited \in SUBSET Validators /\ Awaited' \in SUBSET Validators
  BY DEF Awaited
<1>5. Cardinality(Awaited) <= Cardinality(Awaited') + 1
  BY <1>2, <1>3, <1>4 DEF CountFacts
<1>6. Cardinality(Awaited) \in Nat /\ Cardinality(Awaited') \in Nat
  BY <1>4, ValidatorSubset
<1>7. expected \in Nat /\ received \in Nat /\ Len(chan) \in Nat
  BY SMT DEF IInv, HandlerTypeOK
<1> SUFFICES ASSUME registered', ~ stray' PROVE expected - received' <= Cardinality(Awaited')
  BY <1>1 DEF Covered
<1>8. registered /\ expected - received <= Cardinality(Awaited)
  BY <1>1 DEF Dispatch, Covered
<1>9. CASE Len(chan) < expected
  <2>1. received' = received + 1
    BY <1>1, <1>8, <1>9 DEF Dispatch
  <2> HIDE DEF Awaited
  <2> QED BY <1>5, <1>6, <1>7, <1>8, <2>1, SMT
<1>10. CASE ~ (Len(chan) < expected)
  <2>1. received' = received
    BY <1>1, <1>8, <1>10 DEF Dispatch
  <2>2. expected = 0
    BY <1>7, <1>8, <1>10, SMT DEF IInv, SendsHaveRoom
  <2> HIDE DEF Awaited
  <2> QED BY <1>6, <1>7, <2>1, <2>2, SMT
<1> QED BY <1>9, <1>10

\* Every step keeps the entry covered: a fresh entry by the timers just registered,
\* one of an earlier attempt by the timers left of that attempt.
LEMMA NextCovered ==
    StakeFacts /\ CountFacts /\ IInv /\ Timed /\ Armed /\ Covered /\ [Next]_vars => Covered'
<1> SUFFICES ASSUME StakeFacts, CountFacts, IInv, Timed, Armed, Covered, [Next]_vars PROVE Covered'
  OBVIOUS
<1>t. attempt \in Nat /\ timers \in [Validators -> 0..MaxAttempts]
  BY AttemptsAssumption, SMT DEF IInv, HandlerTypeOK
<1>1. ASSUME UNCHANGED <<registered, expected, received, stray, timers, firing>> PROVE Covered'
  BY <1>1 DEF Covered, Awaited
<1>2. CASE HandleRequest
  BY <1>1, <1>2 DEF HandleRequest, Untouched, handlerVars
<1>3. CASE StartFails
  BY <1>1, <1>3 DEF StartFails, Untouched, handlerVars
<1>4. ASSUME NEW connected, Start(connected) PROVE Covered'
  BY <1>1, <1>4 DEF Start, Untouched, handlerVars
<1>5. CASE RegisterTimeouts
  <2>1. /\ firing' = firing /\ UNCHANGED <<registered, expected, received, stray>>
        /\ timers' = [v \in Validators |-> IF v \in Queried THEN attempt + 1 ELSE timers[v]]
    BY <1>5 DEF RegisterTimeouts, RegisterAppRequest
  <2>2. attempt + 1 # 0
    BY <1>t, SMT
  <2>3. \A v \in Validators : timers[v] # 0 => timers'[v] # 0
    BY <2>1, <2>2
  <2>4. Awaited \subseteq Awaited'
    BY <2>1, <2>3 DEF Awaited
  <2> QED BY <2>1, <2>4, CoveredByMore
<1>6. ASSUME NEW reached \in SUBSET Queried, SendRequests(reached) PROVE Covered'
  <2> SUFFICES ASSUME ~ stray' PROVE expected' - received' <= Cardinality(Awaited')
    BY DEF Covered
  <2>1. /\ pc = "send" /\ ~ stray /\ UNCHANGED <<timers, firing>>
        /\ expected' = Cardinality(Queried) /\ received' = 0
    BY <1>6 DEF SendRequests, RegisterRequestID
  <2>2. attempt # 0
    BY <2>1, SMT DEF IInv
  <2>3. Queried \in SUBSET Validators /\ Awaited' \in SUBSET Validators
    BY DEF Queried, Awaited
  <2>4. \A v \in Queried : timers[v] = attempt
    BY <2>1 DEF Armed
  <2>5. Queried \subseteq Awaited'
    BY <2>1, <2>2, <2>3, <2>4 DEF Awaited
  <2>6. Cardinality(Queried) <= Cardinality(Awaited')
    BY <2>3, <2>5 DEF CountFacts
  <2>7. Cardinality(Queried) \in Nat /\ Cardinality(Awaited') \in Nat
    BY <2>3, ValidatorSubset
  <2> HIDE DEF Awaited, Queried
  <2> QED BY <2>1, <2>6, <2>7, SMT
<1>7. CASE ReceiveResponse
  BY <1>1, <1>7 DEF ReceiveResponse
<1>8. CASE ChannelDrained
  BY <1>1, <1>8 DEF ChannelDrained, Untouched, handlerVars
<1>9. CASE EndAttempt
  BY <1>1, <1>9 DEF EndAttempt, Untouched, handlerVars
<1>10. ASSUME NEW v \in Validators, NEW a \in Attempts, NEW kind \in Kinds, Reply(v, a, kind)
       PROVE  Covered'
  <2> DEFINE m == [node |-> v, kind |-> kind, attempt |-> a]
  <2>1. m \in Inbound
    BY DEF Inbound
  <2>2. Deliver(m) /\ firing' = firing
    BY <1>10 DEF Reply
  <2> HIDE DEF m
  <2> QED BY <2>1, <2>2, DeliverKeepsCovered
<1>11. ASSUME NEW r, Lose(r) PROVE Covered'
  BY <1>1, <1>11 DEF Lose, handlerVars
<1>12. ASSUME NEW v \in Validators, Expire(v) PROVE Covered'
  <2>1. /\ timers' = [timers EXCEPT ![v] = 0] /\ firing = {} /\ v \in {n.node : n \in firing'}
        /\ UNCHANGED <<registered, expected, received, stray>>
    BY <1>12 DEF Expire, TimeoutExpires
  <2>2. \A w \in Validators : w # v => timers'[w] = timers[w]
    BY <1>t, <2>1
  <2>3. Awaited \subseteq Awaited'
    BY <2>1, <2>2 DEF Awaited
  <2> QED BY <2>1, <2>3, CoveredByMore
<1>13. CASE RunTimeout
  <2>1. PICK m \in firing : Deliver(m) /\ firing' = {}
    BY <1>13 DEF RunTimeout
  <2>2. m \in Inbound
    BY <2>1 DEF IInv, HandlerTypeOK
  <2>3. \A n \in firing : n = m
    BY <2>1 DEF Timed
  <2> QED BY <2>1, <2>2, <2>3, DeliverKeepsCovered
<1>14. CASE UNCHANGED vars
  BY <1>1, <1>14 DEF vars, handlerVars
<1> QED
  BY <1>2, <1>3, <1>4, <1>5, <1>6, <1>7, <1>8, <1>9, <1>10, <1>11, <1>12, <1>13, <1>14
  DEF Next, Step, Aggregator

------------------------------------------------------------------------------
(* The theorems.                                                            *)

Sums == INSTANCE StakeProofs

\* The validators are finitely many, with natural weights.
LEMMA StakeFactsHold == StakeFacts
<1>1. \A S : IsFiniteSet(S) <=> Sums!IsFiniteSet(S)
  BY DEF IsFiniteSet, Sums!IsFiniteSet
<1>2. \A S : Cardinality(S) = Sums!Cardinality(S)
  BY DEF Cardinality, Sums!Cardinality, IsFiniteSet, Sums!IsFiniteSet
<1>3. \A S : WeightOf(S) = Sums!StakeOf(Weight, S)
  BY DEF WeightOf, StakeOf, MapThenSumSet, MapThenFoldSet,
               Sums!StakeOf, Sums!MapThenSumSet, Sums!MapThenFoldSet
<1>4. Sums!IsFiniteSet(Validators) /\ \A v \in Validators : Weight[v] \in Nat
  BY <1>1, ValidatorsAssumption, WeightAssumption
<1>5. WeightOf({}) = 0
  BY <1>3, Sums!StakeOfEmpty
<1>6. ASSUME NEW S \in SUBSET Validators
      PROVE  /\ Sums!IsFiniteSet(S)
             /\ Cardinality(S) \in Nat
             /\ Cardinality(S) <= Cardinality(Validators)
             /\ S # {} => Cardinality(S) > 0
             /\ WeightOf(S) \in Nat
  <2>1. Sums!IsFiniteSet(S) /\ Sums!Cardinality(S) <= Sums!Cardinality(Validators)
    BY <1>4, Sums!FS_Subset
  <2>2. Sums!Cardinality(S) \in Nat /\ (Sums!Cardinality(S) = 0 <=> S = {})
    BY <2>1, Sums!FS_CardinalityType, Sums!FS_EmptySet
  <2>3. Sums!StakeOf(Weight, S) \in Nat
    BY <1>4, <2>1, Sums!StakeOfType
  <2> QED BY <1>2, <1>3, <2>1, <2>2, <2>3, SMTT(30)
<1>7. ASSUME NEW S \in SUBSET Validators, NEW v \in Validators
      PROVE  WeightOf(S \cup {v}) = IF v \in S THEN WeightOf(S) ELSE WeightOf(S) + Weight[v]
  <2>1. Sums!IsFiniteSet(S) /\ \A x \in S \cup {v} : Weight[x] \in Nat
    BY <1>4, <1>6
  <2>2. Sums!StakeOf(Weight, S \cup {v})
          = IF v \in S THEN Sums!StakeOf(Weight, S) ELSE Sums!StakeOf(Weight, S) + Weight[v]
    BY <2>1, Sums!StakeOfAdd
  <2> QED BY <1>3, <2>2
<1> QED BY <1>5, <1>6, <1>7 DEF StakeFacts

\* A set of validators is at most as large as one it is part of, and adding a
\* validator to a set adds at most one.
LEMMA CountFactsHold == CountFacts
<1>1. \A S : IsFiniteSet(S) <=> Sums!IsFiniteSet(S)
  BY DEF IsFiniteSet, Sums!IsFiniteSet
<1>2. \A S : Cardinality(S) = Sums!Cardinality(S)
  BY DEF Cardinality, Sums!Cardinality, IsFiniteSet, Sums!IsFiniteSet
<1>3. Sums!IsFiniteSet(Validators)
  BY <1>1, ValidatorsAssumption
<1>4. ASSUME NEW S \in SUBSET Validators, NEW T \in SUBSET Validators, NEW v \in Validators
      PROVE  /\ S \subseteq T => Cardinality(S) <= Cardinality(T)
             /\ S \subseteq T \cup {v} => Cardinality(S) <= Cardinality(T) + 1
  <2>1. Sums!IsFiniteSet(T)
    BY <1>3, Sums!FS_Subset
  <2>2. /\ Sums!IsFiniteSet(T \cup {v})
        /\ Sums!Cardinality(T \cup {v})
             = IF v \in T THEN Sums!Cardinality(T) ELSE Sums!Cardinality(T) + 1
    BY <2>1, Sums!FS_AddElement
  <2>3. Sums!Cardinality(T) \in Nat
    BY <2>1, Sums!FS_CardinalityType
  <2>4. S \subseteq T => Sums!Cardinality(S) <= Sums!Cardinality(T)
    BY <2>1, Sums!FS_Subset
  <2>5. ASSUME S \subseteq T \cup {v} PROVE Sums!Cardinality(S) <= Sums!Cardinality(T) + 1
    <3>1. /\ Sums!Cardinality(S) <= Sums!Cardinality(T \cup {v})
          /\ Sums!Cardinality(S) \in Nat
      BY <2>2, <2>5, Sums!FS_Subset, Sums!FS_CardinalityType
    <3> QED BY <2>2, <2>3, <3>1, SMT
  <2> QED BY <1>2, <2>4, <2>5
<1>5. ASSUME NEW S \in SUBSET Validators, NEW T \in SUBSET Validators, S \subseteq T
      PROVE  Cardinality(S) <= Cardinality(T)
  BY <1>2, <1>3, <1>5, Sums!FS_Subset
<1> QED BY <1>4, <1>5 DEF CountFacts

\* The empty set has no members.
LEMMA EmptyCount == Cardinality({}) = 0
<1>1. Cardinality({}) = Sums!Cardinality({})
  BY DEF Cardinality, Sums!Cardinality, IsFiniteSet, Sums!IsFiniteSet
<1> QED BY <1>1, Sums!FS_EmptySet

\* The invariants hold throughout.
LEMMA SpecInv == Spec => [](IInv /\ Counts /\ Weights /\ CountedOnce /\ Timed /\ Armed)
BY StakeFactsHold, InitIInv, NextIInv, InitCounts, NextCounts, InitWeights, NextWeights,
   NextOnTheWay, InitCountedOnce, NextCountedOnce, NextTimed, InitArmed, NextArmed, PTL DEF Spec

\* In every behaviour a registered response channel is open and has room for the
\* responses still expected, so registerAppResponse can block with the mutex held
\* only for a request registered with no expected response.
THEOREM SendsNeverBlock == Spec => []SendsHaveRoom
<1>1. IInv => SendsHaveRoom
  BY DEF IInv
<1> QED BY SpecInv, <1>1, PTL

\* In every behaviour every variable has its type.  In particular no attempt follows
\* the last, responseCount never exceeds the number of nodes asked, and past the
\* API's checks the quorum percentage is between 1 and 100.
THEOREM AggregatorTypes == Spec => []TypeOK
<1>1. Counts => TypeOK
  BY DEF Counts
<1> QED BY SpecInv, <1>1, PTL

\* In every behaviour a call that returns for lack of signatures does not hold the
\* signatures of a quorum, although signatures arrive over several attempts.
THEOREM FailureIsNoQuorum == Spec => []FailureMeansNoQuorum
BY StakeFactsHold, SpecInv, WeightsSuffice, PTL

\* In every behaviour, as long as no message of an earlier attempt was handled in a
\* later one, a message is signed only with the signatures of a quorum: within an
\* attempt a validator answers once, and later attempts do not ask those that signed.
THEOREM SignedIsQuorum == Spec => []SignedMeansQuorum
<1>1. Weights /\ CountedOnce => SignedMeansQuorum
  BY DEF Weights, CountedOnce, SignedMeansQuorum
<1> QED BY SpecInv, <1>1, PTL

\* In every behaviour, as long as no message of an earlier attempt was handled in a
\* later one, CreateSignedMessage waits only for nodes that have a timeout ahead of
\* them or a message on the channel: it cannot wait for a node that is never heard of.
THEOREM TimeoutsAreRegistered == Spec => []TimeoutUnlessStray
<1>1. Armed => TimeoutUnlessStray
  BY DEF Armed, TimeoutUnlessStray
<1> QED BY SpecInv, <1>1, PTL

\* In every behaviour, as long as no message of an earlier attempt was handled in a
\* later one, the handler's entry of an attempt that expects responses has a timer
\* ahead that is still to be counted towards it: no such entry is left behind
\* in responseChans with nothing to complete it.
THEOREM EntriesAreCompleted == Spec => []EntryHasTimeout
<1>1. Init => Covered
  BY DEF Init, HandlerInit, Covered
<1>2. IInv /\ Covered => EntryHasTimeout
  <2> SUFFICES ASSUME IInv, Covered, registered, ~ stray, expected > 0,
                      firing = {}, \A v \in Validators : timers[v] = 0
               PROVE  FALSE
    BY DEF EntryHasTimeout
  <2>1. Awaited = {}
    BY DEF Awaited
  <2>2. Cardinality({}) = 0
    BY EmptyCount
  <2>3. received \in Nat /\ expected \in Nat /\ received < expected
    BY DEF IInv, HandlerTypeOK, SendsHaveRoom
  <2>4. expected - received <= 0
    BY <2>1, <2>2 DEF Covered
  <2> QED BY <2>3, <2>4, SMT
<1> QED BY StakeFactsHold, CountFactsHold, SpecInv, NextCovered, <1>1, <1>2, PTL DEF Spec
==============================================================================
