------------------------- MODULE RelayerProcessProofs -------------------------
(***************************************************************************)
(* Proofs about RelayerProcess, for any set of application relayers, any   *)
(* chain length, channel capacity and number of restarts.                  *)
(***************************************************************************)
EXTENDS RelayerProcess, TLAPS

\* Leaves are first-order and go to Zenon; those with arithmetic, and the larger ones, name SMT.
USE Zenon

------------------------------------------------------------------------------
(* The computations of CheckpointOps, as in CheckpointManagerProofs.        *)

\* The commit loop of StageCommittedHeight pops only heights that are in the
\* heap, so the heap stays a bag of heights.
LEMMA LoopPopsPending ==
    ASSUME NEW heap \in [Heights -> Nat], NEW from \in Heights, NEW to \in from .. MaxHeight,
           CommitsThrough(heap, from, to)
    PROVE  /\ \A h \in (from + 1) .. to : h \in Heights /\ heap[h] > 0
           /\ Popped(heap, from, to) \in [Heights -> Nat]
           /\ \A h \in Heights : Popped(heap, from, to)[h] <= heap[h]
<1> USE MaxHeightAssumption DEF Heights
<1>1. ASSUME NEW h \in (from + 1) .. to
      PROVE  h \in Heights /\ heap[h] > 0
  <2>1. /\ h - 1 \in from .. to - 1
        /\ h \in Heights
        /\ (h - 1) + 1 = h
    BY SMT
  <2>2. IsPeek(Popped(heap, from, h - 1), h)
    BY <2>1 DEF CommitsThrough
  <2>3. Popped(heap, from, h - 1)[h] = heap[h]
    BY <2>1, SMT DEF Popped
  <2> QED BY <2>1, <2>2, <2>3 DEF IsPeek
<1>2. ASSUME NEW h \in Heights
      PROVE  /\ Popped(heap, from, to)[h] \in Nat
             /\ Popped(heap, from, to)[h] <= heap[h]
  <2>1. CASE from < h /\ h <= to
    <3>1. h \in (from + 1) .. to /\ heap[h] \in Nat
      BY <2>1, SMT
    <3>2. heap[h] > 0
      BY <1>1, <3>1
    <3> QED BY <2>1, <3>1, <3>2, SMT DEF Popped
  <2>2. CASE ~ (from < h /\ h <= to)
    BY <2>2, SMT DEF Popped
  <2> QED BY <2>1, <2>2
<1>3. Popped(heap, from, to) \in [Heights -> Nat]
  BY <1>2 DEF Popped
<1> QED BY <1>1, <1>2, <1>3

\* Whatever the configuration, the starting height is a height of the model.
LEMMA StartingHeightType ==
    ASSUME NEW inDb \in Heights \cup {NotFound}, NEW historical \in Heights,
           NEW current \in 0 .. MaxHeight - 1, NEW processMissed \in BOOLEAN
    PROVE  StartingHeight(processMissed, inDb, historical, current) \in Heights
BY MaxHeightAssumption, SMT DEF Heights, NotFound, StartingHeight, CalculateStartingBlockHeight

------------------------------------------------------------------------------
(* The inductive invariant.                                                 *)

\* Nothing runs ahead of the chain.
WithinChain ==
    /\ delivered <= head
    /\ catchUp.latest <= head
    /\ catchUp.state = "running" => catchUp.next <= catchUp.latest
    /\ \A h \in Heights : headers[h] > 0 => h <= head
    /\ \A r \in Relayers, h \in Heights : heights[r][h] > 0 => h <= head

\* Before it subscribes, the process has not dispatched anything.
CreatedIsIdle ==
    phase = "created" =>
        /\ headers = EmptyHeap
        /\ \A r \in Relayers : heights[r] = EmptyHeap /\ pendingCommits[r] = EmptyHeap

\* One dispatch of a height is with the subscription until it is delivered ...
FromSubscription(h) == IF h > delivered THEN 1 ELSE 0

\* ... and one with catch-up until it is sent.
FromCatchUp(h) ==
    IF \/ catchUp.state = "begin"
       \/ catchUp.state = "running" /\ catchUp.next <= h /\ h <= catchUp.latest
    THEN 1 ELSE 0

\* The dispatches of a height, to come, under way and waiting to be committed.
Dispatches(r, h) ==
    headers[h] + heights[r][h] + pendingCommits[r][h] + FromSubscription(h) + FromCatchUp(h)

AtMostTwoDispatches == \A r \in Relayers, h \in Heights : Dispatches(r, h) <= 2

\* Committed, stored and pending heights are relayed ones, for every relayer.
Covered ==
    \A r \in Relayers :
        /\ (origin[r] + 1) .. committedHeight[r] \subseteq relayed[r]
        /\ stored[r] # NotFound => (storedOrigin[r] + 1) .. stored[r] \subseteq relayed[r]
        /\ \A h \in Heights : pendingCommits[r][h] > 0 => h \in relayed[r]

IInv ==
    /\ TypeOK /\ WithinChain /\ CreatedIsIdle /\ AtMostTwoDispatches /\ Covered
    /\ NoBlockLost

------------------------------------------------------------------------------
(* The steps of the subscriber and of the listener.                         *)

CatchUps == [state : CatchUpStates, next : Heights, latest : Heights]

\* The catch-up goroutine outside the range of blocks it sends.
LEMMA CatchUpInType ==
    ASSUME NEW s \in CatchUpStates
    PROVE  /\ CatchUpIn(s) \in CatchUps
           /\ CatchUpIn(s).state = s /\ CatchUpIn(s).next = 0 /\ CatchUpIn(s).latest = 0
BY MaxHeightAssumption, SMT DEF CatchUpIn, NoCatchUp, CatchUps, Heights

\* Fetching a header leaves catch-up with that header in hand, failed, or done.
LEMMA FetchedCases ==
    ASSUME NEW next \in Heights, NEW latest \in Heights, NEW c \in Fetched(next, latest)
    PROVE  /\ c \in CatchUps
           /\ \/ /\ next <= latest
                 /\ c.state = "running" /\ c.next = next /\ c.latest = latest
              \/ c.state = "failed" /\ c.latest = 0
              \/ ~ (next <= latest) /\ c.state = "succeeded" /\ c.latest = 0
<1>1. CASE next <= latest
  <2>1. c = [state |-> "running", next |-> next, latest |-> latest] \/ c = CatchUpIn("failed")
    BY <1>1 DEF Fetched
  <2>2. CASE c = [state |-> "running", next |-> next, latest |-> latest]
    <3>1. c.state = "running" /\ c.next = next /\ c.latest = latest /\ c \in CatchUps
      BY <2>2 DEF CatchUps, CatchUpStates
    <3> QED BY <1>1, <3>1
  <2>3. CASE c = CatchUpIn("failed")
    BY <2>3, CatchUpInType DEF CatchUpStates
  <2> QED BY <2>1, <2>2, <2>3
<1>2. CASE ~ (next <= latest)
  <2>1. c = CatchUpIn("succeeded")
    BY <1>2 DEF Fetched
  <2> QED BY <1>2, <2>1, CatchUpInType DEF CatchUpStates
<1> QED BY <1>1, <1>2

\* Dispatches that only move from the subscription or catch-up to the channel.
LEMMA DispatchesMove ==
    ASSUME TypeOK, TypeOK', AtMostTwoDispatches, UNCHANGED <<heights, pendingCommits>>,
           \A h \in Heights :
               headers'[h] + FromSubscription(h)' + FromCatchUp(h)'
                   <= headers[h] + FromSubscription(h) + FromCatchUp(h)
    PROVE  AtMostTwoDispatches'
<1> SUFFICES ASSUME NEW r \in Relayers, NEW h \in Heights
             PROVE  Dispatches(r, h)' <= 2
  BY DEF AtMostTwoDispatches
<1>1. /\ headers[h] \in Nat /\ headers'[h] \in Nat
      /\ heights[r][h] \in Nat /\ pendingCommits[r][h] \in Nat
  BY SMT DEF TypeOK
<1>2. /\ FromSubscription(h) \in Nat /\ FromSubscription(h)' \in Nat
      /\ FromCatchUp(h) \in Nat /\ FromCatchUp(h)' \in Nat
  BY DEF FromSubscription, FromCatchUp
<1>3. Dispatches(r, h) <= 2
  BY DEF AtMostTwoDispatches
<1> QED BY <1>1, <1>2, <1>3, SMT DEF Dispatches

\* The steps of the listener, its subscription and catch-up preserve the invariant.
LEMMA ListenerIInv ==
    ASSUME IInv,
           \/ NewBlock \/ DeliverHeader \/ BreakSubscription
           \/ Subscribe \/ CatchUpBegin \/ CatchUpHeader
           \/ ReceiveError \/ ReceiveCatchUpResult \/ Reconnect
    PROVE  IInv'
<1> USE MaxHeightAssumption, BoundsAssumption DEF IInv
<1>0. health' \in BOOLEAN /\ reported' \in BOOLEAN
  BY DEF TypeOK, Exit, NewBlock, DeliverHeader, BreakSubscription, Subscribe, CatchUpBegin, CatchUpHeader, ReceiveError, ReceiveCatchUpResult, Reconnect, SubscribeNewHead
<1>1. CASE NewBlock
  <2>1. UNCHANGED <<stored, storedOrigin, committedHeight, pendingCommits, origin,
                   phase, minHeight, sub, delivered, missed, catchUp, headers, heights, errs,
                   relayed, failed, restarts>>
    BY <1>1 DEF NewBlock, checkpointVars, listenerVars
  <2>2. head' \in 0 .. MaxHeight - 1
    BY <1>1, SMT DEF NewBlock, TypeOK
  <2>10. TypeOK'
    BY <1>0, <2>1, <2>2 DEF TypeOK, CatchUps
  <2>11. WithinChain'
    BY <1>1, <2>1, <2>10, SMT DEF NewBlock, WithinChain, TypeOK, Heights
  <2>12. CreatedIsIdle'
    BY <1>1, <2>1 DEF NewBlock, CreatedIsIdle
  <2>13. \A h \in Heights : headers'[h] + FromSubscription(h)' + FromCatchUp(h)'
                              <= headers[h] + FromSubscription(h) + FromCatchUp(h)
    BY <1>1, <2>1, <2>10, SMTT(30) DEF NewBlock, FromSubscription, FromCatchUp, TypeOK, WithinChain, Heights
  <2>14. Covered'
    BY <2>1 DEF Covered
  <2>15. NoBlockLost'
    <3> SUFFICES ASSUME (phase = "listening" /\ catchUp.state # "failed")',
                        NEW r \in Relayers, NEW h \in (minHeight .. head)'
                 PROVE  \/ h \in relayed'[r] \cup failed'[r] \cup missed'
                        \/ heights'[r][h] > 0
                        \/ Coming(h)'
      BY DEF NoBlockLost
    <3>1. CASE h \in minHeight .. head
      <4>1. \/ h \in relayed[r] \cup failed[r] \cup missed
            \/ heights[r][h] > 0
            \/ Coming(h)
        BY <2>1, <3>1 DEF NoBlockLost
      <4> QED BY <2>1, <4>1 DEF Coming
    <3>2. CASE h \notin minHeight .. head
      <4>1. h > delivered
        BY <1>1, <2>1, <3>2, SMT DEF NewBlock, TypeOK, WithinChain, Heights
      <4> QED BY <2>1, <4>1 DEF Coming
    <3> QED BY <3>1, <3>2
  <2> QED BY <2>1, <2>10, <2>11, <2>12, <2>13, <2>14, <2>15, DispatchesMove
<1>2. CASE DeliverHeader
  <2>1. UNCHANGED <<head, stored, storedOrigin, committedHeight, pendingCommits, origin,
                   phase, minHeight, sub, missed, catchUp, heights, errs, relayed, failed,
                   restarts>>
    BY <1>2 DEF DeliverHeader, checkpointVars, listenerVars
  <2>2. delivered' \in 0 .. MaxHeight - 1
    BY <1>2, SMT DEF DeliverHeader, TypeOK, Push, Heights
  <2>3. headers' \in [Heights -> Nat]
    BY <1>2, SMTT(30) DEF DeliverHeader, TypeOK, Push, Heights
  <2>10. TypeOK'
    BY <1>0, <2>1, <2>2, <2>3 DEF TypeOK, CatchUps
  <2>11. WithinChain'
    BY <1>2, <2>1, <2>10, SMT DEF DeliverHeader, WithinChain, TypeOK, Heights, Push
  <2>12. CreatedIsIdle'
    BY <1>2, <2>1 DEF DeliverHeader, CreatedIsIdle
  <2>13. \A h \in Heights : headers'[h] + FromSubscription(h)' + FromCatchUp(h)'
                              <= headers[h] + FromSubscription(h) + FromCatchUp(h)
    BY <1>2, <2>1, <2>10, SMTT(30) DEF DeliverHeader, FromSubscription, FromCatchUp, TypeOK, WithinChain, Heights, Push
  <2>14. Covered'
    BY <2>1 DEF Covered
  <2>15. NoBlockLost'
    <3> SUFFICES ASSUME (phase = "listening" /\ catchUp.state # "failed")',
                        NEW r \in Relayers, NEW h \in (minHeight .. head)'
                 PROVE  \/ h \in relayed'[r] \cup failed'[r] \cup missed'
                        \/ heights'[r][h] > 0
                        \/ Coming(h)'
      BY DEF NoBlockLost
    <3>1. \/ h \in relayed[r] \cup failed[r] \cup missed
          \/ heights[r][h] > 0
          \/ Coming(h)
      BY <1>2, <2>1 DEF NoBlockLost, DeliverHeader
    <3>2. h \in Heights
      BY <2>10, SMT DEF TypeOK, Heights
    <3>3. \A k \in Heights : headers'[k] >= headers[k]
      BY <1>2, SMT DEF DeliverHeader, Push, TypeOK
    <3>4. CASE h > delivered /\ ~ (h > delivered')
      <4>1. /\ delivered' = delivered + 1 /\ headers' = Push(headers, delivered + 1)
            /\ delivered \in Nat /\ headers \in [Heights -> Nat]
        BY <1>2, SMT DEF DeliverHeader, TypeOK
      <4>2. h = delivered + 1
        BY <3>2, <3>4, <4>1, SMT DEF Heights
      <4>3. headers'[h] > 0
        BY <3>2, <4>1, <4>2, SMT DEF Push
      <4> QED BY <4>3 DEF Coming
    <3>5. CASE ~ (h > delivered /\ ~ (h > delivered'))
      <4>1. headers[h] \in Nat /\ headers'[h] \in Nat
        BY <2>10, <3>2 DEF TypeOK
      <4> QED BY <2>1, <3>1, <3>2, <3>3, <3>5, <4>1, SMT DEF Coming
    <3> QED BY <3>4, <3>5
  <2> QED BY <2>1, <2>10, <2>11, <2>12, <2>13, <2>14, <2>15, DispatchesMove
<1>3. CASE BreakSubscription
  <2>1. UNCHANGED <<head, stored, storedOrigin, committedHeight, pendingCommits, origin,
                   phase, minHeight, delivered, missed, catchUp, headers, heights, errs, relayed,
                   failed, restarts>>
    BY <1>3 DEF BreakSubscription, checkpointVars, listenerVars
  <2>2. sub' \in {"none", "live", "broken"}
    BY <1>3 DEF BreakSubscription
  <2>10. TypeOK'
    BY <1>0, <2>1, <2>2 DEF TypeOK, CatchUps
  <2>11. WithinChain'
    BY <1>3, <2>1, <2>10, SMT DEF BreakSubscription, WithinChain, TypeOK, Heights
  <2>12. CreatedIsIdle'
    BY <1>3, <2>1 DEF BreakSubscription, CreatedIsIdle
  <2>13. \A h \in Heights : headers'[h] + FromSubscription(h)' + FromCatchUp(h)'
                              <= headers[h] + FromSubscription(h) + FromCatchUp(h)
    BY <1>3, <2>1, <2>10, SMTT(30) DEF BreakSubscription, FromSubscription, FromCatchUp, TypeOK, WithinChain, Heights
  <2>14. Covered'
    BY <2>1 DEF Covered
  <2>15. NoBlockLost'
    BY <1>3, <2>1, <2>10 DEF BreakSubscription, NoBlockLost, Coming, TypeOK, WithinChain, Heights
  <2> QED BY <2>1, <2>10, <2>11, <2>12, <2>13, <2>14, <2>15, DispatchesMove
<1>4. CASE Subscribe
  <2>1. UNCHANGED <<head, stored, storedOrigin, committedHeight, pendingCommits, origin,
                   minHeight, missed, headers, heights, errs, relayed, failed, restarts>>
    BY <1>4 DEF Subscribe, SubscribeNewHead, checkpointVars, listenerVars
  <2>2. phase' \in {"created", "listening", "down"}
    BY <1>4 DEF Subscribe, SubscribeNewHead, TypeOK, NoCatchUp, CatchUpStates, CatchUps, Heights
  <2>3. sub' \in {"none", "live", "broken"}
    BY <1>4 DEF Subscribe, SubscribeNewHead, TypeOK, NoCatchUp, CatchUpStates, CatchUps, Heights
  <2>4. delivered' \in 0 .. MaxHeight - 1
    BY <1>4 DEF Subscribe, SubscribeNewHead, TypeOK, NoCatchUp, CatchUpStates, CatchUps, Heights
  <2>5. catchUp' \in CatchUps
    BY <1>4, CatchUpInType DEF Subscribe, TypeOK, CatchUpStates, CatchUps
  <2>6. /\ phase = "created"
        /\ \/ /\ delivered' = head
              /\ catchUp'.state = "begin" /\ catchUp'.next = 0 /\ catchUp'.latest = 0
           \/ phase' = "down" /\ UNCHANGED <<delivered, catchUp>>
    BY <1>4, CatchUpInType DEF Subscribe, SubscribeNewHead, CatchUpStates
  <2>10. TypeOK'
    BY <1>0, <2>1, <2>2, <2>3, <2>4, <2>5 DEF TypeOK, CatchUps
  <2>11. WithinChain'
    <3>1. /\ delivered' <= head /\ catchUp'.latest <= head
          /\ catchUp'.state = "running" => catchUp'.next <= catchUp'.latest
      BY <2>6, SMT DEF WithinChain, TypeOK
    <3> QED BY <2>1, <3>1 DEF WithinChain
  <2>12. CreatedIsIdle'
    BY <1>4, <2>1 DEF Subscribe, SubscribeNewHead, CreatedIsIdle, NoCatchUp
  <2>13. AtMostTwoDispatches'
    <3> SUFFICES ASSUME NEW r \in Relayers, NEW h \in Heights
                 PROVE  Dispatches(r, h)' <= 2
      BY DEF AtMostTwoDispatches
    <3>1. headers'[h] = 0 /\ heights'[r][h] = 0 /\ pendingCommits'[r][h] = 0
      BY <2>1, <2>6 DEF CreatedIsIdle, EmptyHeap
    <3>2. FromSubscription(h)' \in {0, 1} /\ FromCatchUp(h)' \in {0, 1}
      BY DEF FromSubscription, FromCatchUp
    <3> QED BY <3>1, <3>2, SMT DEF Dispatches
  <2>14. Covered'
    BY <2>1 DEF Covered
  <2>15. NoBlockLost'
    BY <2>6, <2>1 DEF NoBlockLost, Coming
  <2> QED BY <2>10, <2>11, <2>12, <2>13, <2>14, <2>15
<1>5. CASE CatchUpBegin
  <2>1. UNCHANGED <<head, stored, storedOrigin, committedHeight, pendingCommits, origin,
                   phase, minHeight, sub, delivered, missed, headers, heights, errs, relayed,
                   failed, restarts>>
    BY <1>5 DEF CatchUpBegin, checkpointVars, listenerVars
  <2>2. minHeight \in Heights /\ head \in Heights
    BY SMT DEF TypeOK, Heights
  <2>3. \/ catchUp' = CatchUpIn("failed")
        \/ catchUp' \in Fetched(minHeight, head)
    BY <1>5 DEF CatchUpBegin
  <2>4. /\ catchUp.state = "begin"
        /\ catchUp' \in CatchUps
        /\ \/ /\ minHeight <= head /\ catchUp'.state = "running"
              /\ catchUp'.next = minHeight /\ catchUp'.latest = head
           \/ catchUp'.state = "failed" /\ catchUp'.latest = 0
           \/ ~ (minHeight <= head) /\ catchUp'.state = "succeeded" /\ catchUp'.latest = 0
    BY <1>5, <2>2, <2>3, CatchUpInType, FetchedCases DEF CatchUpBegin, CatchUpStates
  <2>10. TypeOK'
    BY <1>0, <2>1, <2>4 DEF TypeOK, CatchUps
  <2>11. WithinChain'
    <3>1. catchUp'.latest <= head /\ (catchUp'.state = "running" => catchUp'.next <= catchUp'.latest)
      BY <2>2, <2>4, SMT DEF Heights
    <3> QED BY <2>1, <3>1 DEF WithinChain
  <2>12. CreatedIsIdle'
    BY <1>5, <2>1 DEF CatchUpBegin, CreatedIsIdle
  <2>13. \A h \in Heights : headers'[h] + FromSubscription(h)' + FromCatchUp(h)'
                              <= headers[h] + FromSubscription(h) + FromCatchUp(h)
    <3> SUFFICES ASSUME NEW h \in Heights
                 PROVE  headers'[h] + FromSubscription(h)' + FromCatchUp(h)'
                            <= headers[h] + FromSubscription(h) + FromCatchUp(h)
      OBVIOUS
    <3>1. headers[h] \in Nat /\ headers'[h] \in Nat
      BY <2>10 DEF TypeOK
    <3>2. FromSubscription(h)' = FromSubscription(h) /\ FromSubscription(h) \in Nat
      BY <2>1 DEF FromSubscription
    <3>3. FromCatchUp(h)' \in {0, 1} /\ FromCatchUp(h) = 1
      BY <2>4 DEF FromCatchUp
    <3> QED BY <2>1, <3>1, <3>2, <3>3, SMT
  <2>14. Covered'
    BY <2>1 DEF Covered
  <2>15. NoBlockLost'
    <3> SUFFICES ASSUME (phase = "listening" /\ catchUp.state # "failed")',
                        NEW r \in Relayers, NEW h \in (minHeight .. head)'
                 PROVE  Coming(h)'
      BY DEF NoBlockLost
    <3>1. h \in Int /\ minHeight <= h /\ h <= head
      BY <2>1, <2>2, SMT DEF Heights
    <3>2. minHeight <= head
      BY <2>2, <3>1, SMT DEF Heights
    <3> QED BY <2>4, <3>1, <3>2 DEF Coming
  <2> QED BY <2>1, <2>10, <2>11, <2>12, <2>13, <2>14, <2>15, DispatchesMove
<1>6. CASE CatchUpHeader
  <2>1. UNCHANGED <<head, stored, storedOrigin, committedHeight, pendingCommits, origin,
                   phase, minHeight, sub, delivered, missed, heights, errs, relayed, failed,
                   restarts>>
    BY <1>6 DEF CatchUpHeader, checkpointVars, listenerVars
  <2>2. /\ catchUp.state = "running" /\ catchUp.next <= catchUp.latest
        /\ headers' = Push(headers, catchUp.next)
        /\ catchUp' \in Fetched(catchUp.next + 1, catchUp.latest)
    BY <1>6 DEF CatchUpHeader, WithinChain
  <2>3. /\ catchUp.next \in Heights /\ catchUp.latest \in Heights /\ head \in 0 .. MaxHeight - 1
        /\ headers \in [Heights -> Nat]
        /\ catchUp.latest <= head
    BY SMT DEF TypeOK, WithinChain
  <2>4. catchUp.next + 1 \in Heights
    BY <2>2, <2>3, SMT DEF Heights
  <2>5. /\ catchUp' \in CatchUps
        /\ \/ /\ catchUp.next + 1 <= catchUp.latest
              /\ catchUp'.state = "running" /\ catchUp'.next = catchUp.next + 1
              /\ catchUp'.latest = catchUp.latest
           \/ catchUp'.state = "failed" /\ catchUp'.latest = 0
           \/ /\ ~ (catchUp.next + 1 <= catchUp.latest)
              /\ catchUp'.state = "succeeded" /\ catchUp'.latest = 0
    <3> DEFINE next == catchUp.next + 1
    <3>1. next \in Heights /\ catchUp.latest \in Heights /\ catchUp' \in Fetched(next, catchUp.latest)
      BY <2>2, <2>3, <2>4
    <3> HIDE DEF next
    <3>2. /\ catchUp' \in CatchUps
          /\ \/ /\ next <= catchUp.latest
                /\ catchUp'.state = "running" /\ catchUp'.next = next
                /\ catchUp'.latest = catchUp.latest
             \/ catchUp'.state = "failed" /\ catchUp'.latest = 0
             \/ ~ (next <= catchUp.latest) /\ catchUp'.state = "succeeded" /\ catchUp'.latest = 0
      BY <3>1, FetchedCases
    <3> QED BY <3>2 DEF next
  <2>6. /\ headers' \in [Heights -> Nat]
        /\ \A h \in Heights : headers'[h] = IF h = catchUp.next THEN headers[h] + 1 ELSE headers[h]
    BY <2>2, <2>3, SMT DEF Push
  <2>10. TypeOK'
    BY <1>0, <2>1, <2>5, <2>6 DEF TypeOK, CatchUps
  <2>11. WithinChain'
    <3>1. catchUp'.latest <= head /\ (catchUp'.state = "running" => catchUp'.next <= catchUp'.latest)
      BY <2>3, <2>5, SMT DEF Heights
    <3>2. ASSUME NEW h \in Heights, headers'[h] > 0
          PROVE  h <= head
      <4>1. CASE h # catchUp.next
        BY <2>6, <3>2, <4>1 DEF WithinChain
      <4>2. CASE h = catchUp.next
        BY <2>2, <2>3, <4>2, SMT DEF Heights
      <4> QED BY <4>1, <4>2
    <3> QED BY <2>1, <3>1, <3>2 DEF WithinChain
  <2>12. CreatedIsIdle'
    BY <1>6, <2>1 DEF CatchUpHeader, CreatedIsIdle
  <2>13. \A h \in Heights : headers'[h] + FromSubscription(h)' + FromCatchUp(h)'
                              <= headers[h] + FromSubscription(h) + FromCatchUp(h)
    <3> SUFFICES ASSUME NEW h \in Heights
                 PROVE  headers'[h] + FromSubscription(h)' + FromCatchUp(h)'
                            <= headers[h] + FromSubscription(h) + FromCatchUp(h)
      OBVIOUS
    <3>1. headers[h] \in Nat /\ headers'[h] \in Nat
      BY <2>10 DEF TypeOK
    <3>2. FromSubscription(h)' = FromSubscription(h) /\ FromSubscription(h) \in Nat
      BY <2>1 DEF FromSubscription
    <3>3. CASE h = catchUp.next
      <4>1. FromCatchUp(h) = 1
        BY <2>2, <3>3, SMT DEF FromCatchUp, Heights
      <4>2. FromCatchUp(h)' = 0
        BY <2>3, <2>5, <3>3, SMT DEF FromCatchUp, Heights
      <4>3. headers'[h] = headers[h] + 1
        BY <2>6, <3>3
      <4> QED BY <3>1, <3>2, <4>1, <4>2, <4>3, SMT
    <3>4. CASE h # catchUp.next
      <4>1. FromCatchUp(h)' <= FromCatchUp(h) /\ FromCatchUp(h) \in Nat /\ FromCatchUp(h)' \in Nat
        BY <2>2, <2>3, <2>5, SMTT(30) DEF FromCatchUp, Heights
      <4>2. headers'[h] = headers[h]
        BY <2>6, <3>4
      <4> QED BY <3>1, <3>2, <4>1, <4>2, SMT
    <3> QED BY <3>3, <3>4
  <2>14. Covered'
    BY <2>1 DEF Covered
  <2>15. NoBlockLost'
    <3> SUFFICES ASSUME (phase = "listening" /\ catchUp.state # "failed")',
                        NEW r \in Relayers, NEW h \in (minHeight .. head)'
                 PROVE  \/ h \in relayed'[r] \cup failed'[r] \cup missed'
                        \/ heights'[r][h] > 0
                        \/ Coming(h)'
      BY DEF NoBlockLost
    <3>1. \/ h \in relayed[r] \cup failed[r] \cup missed
          \/ heights[r][h] > 0
          \/ Coming(h)
      BY <2>1, <2>2 DEF NoBlockLost
    <3>2. h \in Heights
      BY <2>10, SMT DEF TypeOK, Heights
    <3>3. CASE h = catchUp.next
      <4>1. headers'[h] > 0
        BY <2>3, <2>6, <3>2, <3>3, SMT
      <4> QED BY <4>1 DEF Coming
    <3>4. CASE h # catchUp.next
      <4>1. headers'[h] = headers[h]
        BY <2>6, <3>2, <3>4
      <4>2. (catchUp.next <= h /\ h <= catchUp.latest) =>
               catchUp.next + 1 <= h /\ catchUp.next + 1 <= catchUp.latest
        BY <2>3, <3>2, <3>4, SMT DEF Heights
      <4> QED BY <2>1, <2>2, <2>5, <3>1, <4>1, <4>2 DEF Coming
    <3> QED BY <3>3, <3>4
  <2> QED BY <2>1, <2>10, <2>11, <2>12, <2>13, <2>14, <2>15, DispatchesMove
<1>7. CASE ReceiveError
  <2>1. UNCHANGED <<head, stored, storedOrigin, committedHeight, pendingCommits, origin,
                   phase, minHeight, sub, delivered, missed, catchUp, headers, heights, relayed,
                   failed, restarts>>
    BY <1>7 DEF ReceiveError, checkpointVars, listenerVars
  <2>2. errs' \in 0 .. MaxErrors
    BY <1>7, SMT DEF ReceiveError, TypeOK
  <2>10. TypeOK'
    BY <1>0, <2>1, <2>2 DEF TypeOK, CatchUps
  <2>11. WithinChain'
    BY <1>7, <2>1, <2>10, SMT DEF ReceiveError, WithinChain, TypeOK, Heights
  <2>12. CreatedIsIdle'
    BY <1>7, <2>1 DEF ReceiveError, CreatedIsIdle
  <2>13. \A h \in Heights : headers'[h] + FromSubscription(h)' + FromCatchUp(h)'
                              <= headers[h] + FromSubscription(h) + FromCatchUp(h)
    BY <1>7, <2>1, <2>10, SMTT(30) DEF ReceiveError, FromSubscription, FromCatchUp, TypeOK, WithinChain, Heights
  <2>14. Covered'
    BY <2>1 DEF Covered
  <2>15. NoBlockLost'
    BY <1>7, <2>1, <2>10 DEF ReceiveError, NoBlockLost, Coming, TypeOK, WithinChain, Heights
  <2> QED BY <2>1, <2>10, <2>11, <2>12, <2>13, <2>14, <2>15, DispatchesMove
<1>8. CASE ReceiveCatchUpResult
  <2>1. UNCHANGED <<head, stored, storedOrigin, committedHeight, pendingCommits, origin,
                   minHeight, sub, delivered, missed, headers, heights, errs, relayed, failed,
                   restarts>>
    BY <1>8 DEF ReceiveCatchUpResult, checkpointVars, listenerVars
  <2>2. phase' \in {"created", "listening", "down"}
    BY <1>8 DEF ReceiveCatchUpResult, TypeOK, Exit, NoCatchUp, CatchUpStates, CatchUps, Heights
  <2>3. catchUp' \in CatchUps
    BY <1>8, CatchUpInType DEF ReceiveCatchUpResult, CatchUpStates
  <2>4. /\ catchUp.state \in {"succeeded", "failed"}
        /\ catchUp'.state = "read" /\ catchUp'.latest = 0
    BY <1>8, CatchUpInType DEF ReceiveCatchUpResult, CatchUpStates
  <2>10. TypeOK'
    BY <1>0, <2>1, <2>2, <2>3 DEF TypeOK, CatchUps
  <2>11. WithinChain'
    BY <2>1, <2>4, <2>10, SMT DEF WithinChain, TypeOK
  <2>12. CreatedIsIdle'
    BY <1>8, <2>1 DEF ReceiveCatchUpResult, CreatedIsIdle, NoCatchUp, Exit
  <2>13. \A h \in Heights : headers'[h] + FromSubscription(h)' + FromCatchUp(h)'
                              <= headers[h] + FromSubscription(h) + FromCatchUp(h)
    <3> SUFFICES ASSUME NEW h \in Heights
                 PROVE  headers'[h] + FromSubscription(h)' + FromCatchUp(h)'
                            <= headers[h] + FromSubscription(h) + FromCatchUp(h)
      OBVIOUS
    <3>1. headers[h] \in Nat /\ headers'[h] \in Nat
      BY <2>10 DEF TypeOK
    <3>2. FromSubscription(h)' = FromSubscription(h) /\ FromSubscription(h) \in Nat
      BY <2>1 DEF FromSubscription
    <3>3. FromCatchUp(h)' = 0 /\ FromCatchUp(h) = 0
      BY <2>4 DEF FromCatchUp
    <3> QED BY <2>1, <3>1, <3>2, <3>3, SMT
  <2>14. Covered'
    BY <2>1 DEF Covered
  <2>15. NoBlockLost'
    BY <1>8, <2>1, <2>4 DEF ReceiveCatchUpResult, NoBlockLost, Coming, Exit
  <2> QED BY <2>1, <2>10, <2>11, <2>12, <2>13, <2>14, <2>15, DispatchesMove
<1>9. CASE Reconnect
  <2>1. UNCHANGED <<head, stored, storedOrigin, committedHeight, pendingCommits, origin,
                   minHeight, catchUp, headers, heights, errs, relayed, failed, restarts>>
    BY <1>9 DEF Reconnect, SubscribeNewHead, checkpointVars, listenerVars
  <2>2. phase' \in {"created", "listening", "down"}
    BY <1>9 DEF Reconnect, SubscribeNewHead, TypeOK, Exit, Heights
  <2>3. sub' \in {"none", "live", "broken"}
    BY <1>9 DEF Reconnect, SubscribeNewHead, TypeOK, Exit, Heights
  <2>4. delivered' \in 0 .. MaxHeight - 1
    BY <1>9 DEF Reconnect, SubscribeNewHead, TypeOK, Exit, Heights
  <2>5. missed' \subseteq Heights
    <3>1. /\ missed \subseteq Heights
          /\ delivered \in 0 .. MaxHeight - 1 /\ head \in 0 .. MaxHeight - 1
      BY DEF TypeOK
    <3>2. (delivered + 1) .. head \subseteq Heights
      BY <3>1, SMT DEF Heights
    <3>3. missed' = missed \cup ((delivered + 1) .. head) \/ missed' = missed
      BY <1>9 DEF Reconnect, SubscribeNewHead
    <3> QED BY <3>1, <3>2, <3>3
  <2>10. TypeOK'
    BY <1>0, <2>1, <2>2, <2>3, <2>4, <2>5, ZenonT(30) DEF TypeOK, CatchUps
  <2>11. WithinChain'
    BY <1>9, <2>1, <2>10, SMT DEF Reconnect, SubscribeNewHead, WithinChain, TypeOK, Heights, Exit
  <2>12. CreatedIsIdle'
    BY <1>9, <2>1 DEF Reconnect, SubscribeNewHead, CreatedIsIdle, Exit
  <2>13. \A h \in Heights : headers'[h] + FromSubscription(h)' + FromCatchUp(h)'
                              <= headers[h] + FromSubscription(h) + FromCatchUp(h)
    BY <1>9, <2>1, <2>10, SMTT(30) DEF Reconnect, SubscribeNewHead, FromSubscription, FromCatchUp, TypeOK, WithinChain, Heights, Exit
  <2>14. Covered'
    BY <2>1 DEF Covered
  <2>15. NoBlockLost'
    <3> SUFFICES ASSUME (phase = "listening" /\ catchUp.state # "failed")',
                        NEW r \in Relayers, NEW h \in (minHeight .. head)'
                 PROVE  \/ h \in relayed'[r] \cup failed'[r] \cup missed'
                        \/ heights'[r][h] > 0
                        \/ Coming(h)'
      BY DEF NoBlockLost
    <3>1. /\ delivered' = head /\ missed' = missed \cup ((delivered + 1) .. head)
          /\ phase = "listening"
      BY <1>9 DEF Reconnect, SubscribeNewHead, Exit
    <3>2. \/ h \in relayed[r] \cup failed[r] \cup missed
          \/ heights[r][h] > 0
          \/ Coming(h)
      BY <2>1, <3>1 DEF NoBlockLost
    <3>3. CASE h > delivered
      BY <2>1, <3>1, <3>3, SMT DEF TypeOK, Heights
    <3>4. CASE ~ (h > delivered)
      BY <2>1, <3>1, <3>2, <3>4 DEF Coming
    <3> QED BY <3>3, <3>4
  <2> QED BY <2>1, <2>10, <2>11, <2>12, <2>13, <2>14, <2>15, DispatchesMove
<1> QED BY <1>1, <1>2, <1>3, <1>4, <1>5, <1>6, <1>7, <1>8, <1>9

------------------------------------------------------------------------------
(* The steps of the coordinator and of the application relayers.            *)

\* A block moves from the channel to every relayer, or is reported as failed.
LEMMA ProcessBlockIInv ==
    ASSUME IInv, NEW h \in Heights, ProcessBlock(h)
    PROVE  IInv'
<1> USE MaxHeightAssumption, BoundsAssumption DEF IInv
<1>1. /\ phase = "listening" /\ headers[h] > 0
      /\ headers' = Pop(headers, h)
      /\ UNCHANGED <<head, stored, storedOrigin, committedHeight, pendingCommits, origin, phase,
                     minHeight, sub, delivered, missed, catchUp, health, relayed, reported,
                     restarts>>
  BY DEF ProcessBlock, checkpointVars, listenerVars
<1>2. \/ /\ heights' = [r \in Relayers |-> Push(heights[r], h)]
         /\ UNCHANGED <<errs, failed>>
      \/ /\ errs < MaxErrors /\ errs' = errs + 1
         /\ failed' = [r \in Relayers |-> failed[r] \cup {h}] /\ UNCHANGED heights
  BY DEF ProcessBlock
<1>3. headers \in [Heights -> Nat] /\ heights \in [Relayers -> [Heights -> Nat]]
  BY DEF TypeOK
<1>4. /\ headers' \in [Heights -> Nat]
      /\ \A k \in Heights : headers'[k] = IF k = h THEN headers[k] - 1 ELSE headers[k]
  BY <1>1, <1>3, SMT DEF Pop
<1>5. /\ heights' \in [Relayers -> [Heights -> Nat]]
      /\ \A r \in Relayers, k \in Heights :
            \/ heights'[r][k] = heights[r][k]
            \/ k = h /\ heights'[r][k] = heights[r][k] + 1
  BY <1>2, <1>3, SMT DEF Push
<1>6. TypeOK'
  <2>1. errs' \in 0 .. MaxErrors
    BY <1>2, SMT DEF TypeOK
  <2>2. failed' \in [Relayers -> SUBSET Heights]
    BY <1>2, SMT DEF TypeOK
  <2> QED BY <1>1, <1>4, <1>5, <2>1, <2>2 DEF TypeOK
<1>7. WithinChain'
  <2>1. h <= head
    BY <1>1 DEF WithinChain
  <2>2. ASSUME NEW k \in Heights, headers'[k] > 0
        PROVE  k <= head
    BY <1>3, <1>4, <2>2, SMT DEF WithinChain
  <2>3. ASSUME NEW r \in Relayers, NEW k \in Heights, heights'[r][k] > 0
        PROVE  k <= head
    BY <1>5, <2>1, <2>3 DEF WithinChain
  <2> QED BY <1>1, <2>2, <2>3 DEF WithinChain
<1>8. CreatedIsIdle'
  BY <1>1 DEF CreatedIsIdle
<1>9. AtMostTwoDispatches'
  <2> SUFFICES ASSUME NEW r \in Relayers, NEW k \in Heights
               PROVE  Dispatches(r, k)' <= 2
    BY DEF AtMostTwoDispatches
  <2>1. /\ headers[k] \in Nat /\ heights[r][k] \in Nat /\ pendingCommits[r][k] \in Nat
        /\ headers'[k] \in Nat /\ heights'[r][k] \in Nat
    BY <1>3, <1>4, <1>5, SMT DEF TypeOK
  <2>2. headers'[k] + heights'[r][k] <= headers[k] + heights[r][k]
    BY <1>4, <1>5, <2>1, SMT
  <2>3. /\ FromSubscription(k)' = FromSubscription(k) /\ FromSubscription(k) \in Nat
        /\ FromCatchUp(k)' = FromCatchUp(k) /\ FromCatchUp(k) \in Nat
    BY <1>1 DEF FromSubscription, FromCatchUp
  <2>4. headers[k] + heights[r][k] + pendingCommits[r][k]
           + FromSubscription(k) + FromCatchUp(k) <= 2
    BY DEF AtMostTwoDispatches, Dispatches
  <2>5. headers'[k] + heights'[r][k] + pendingCommits[r][k]
           + FromSubscription(k) + FromCatchUp(k) <= 2
    BY <2>1, <2>2, <2>3, <2>4, SMT
  <2>6. Dispatches(r, k)' = headers'[k] + heights'[r][k] + pendingCommits[r][k]
                               + FromSubscription(k) + FromCatchUp(k)
    BY <1>1, <2>3 DEF Dispatches
  <2> QED BY <2>5, <2>6
<1>10. Covered'
  BY <1>1 DEF Covered
<1>11. NoBlockLost'
  <2> SUFFICES ASSUME catchUp.state # "failed", NEW r \in Relayers, NEW k \in minHeight .. head
               PROVE  \/ k \in relayed[r] \cup failed'[r] \cup missed
                      \/ heights'[r][k] > 0
                      \/ Coming(k)'
    BY <1>1 DEF NoBlockLost
  <2>1. \/ k \in relayed[r] \cup failed[r] \cup missed
        \/ heights[r][k] > 0
        \/ Coming(k)
    BY <1>1 DEF NoBlockLost
  <2>2. k \in Heights
    BY SMT DEF TypeOK, Heights
  <2>3. CASE k = h
    <3>1. heights'[r][k] > 0 \/ k \in failed'[r]
      BY <1>2, <1>3, <2>2, <2>3, SMT DEF Push
    <3> QED BY <3>1
  <2>4. CASE k # h
    <3>1. headers'[k] = headers[k] /\ heights'[r][k] = heights[r][k] /\ failed[r] \subseteq failed'[r]
      BY <1>2, <1>4, <1>5, <2>2, <2>4
    <3> QED BY <1>1, <2>1, <3>1 DEF Coming
  <2> QED BY <2>3, <2>4
<1> QED BY <1>6, <1>7, <1>8, <1>9, <1>10, <1>11

\* Staging a height moves it to the heap and commits only relayed heights.
LEMMA StageCovers ==
    ASSUME IInv, NEW r \in Relayers, NEW h \in Heights, Stage(r, h),
           relayed' = [relayed EXCEPT ![r] = @ \cup {h}]
    PROVE  /\ committedHeight' \in [Relayers -> Heights]
           /\ pendingCommits' \in [Relayers -> [Heights -> Nat]]
           /\ \A k \in Relayers : k # r =>
                 committedHeight'[k] = committedHeight[k] /\ pendingCommits'[k] = pendingCommits[k]
           /\ \A k \in Heights :
                 pendingCommits'[r][k] <= IF k = h THEN pendingCommits[r][k] + 1
                                          ELSE pendingCommits[r][k]
           /\ (committedHeight[r] + 1) .. committedHeight'[r] \subseteq relayed'[r]
           /\ \A k \in Heights : pendingCommits'[r][k] > 0 => k \in relayed'[r]
<1> USE MaxHeightAssumption
<1>0. /\ committedHeight \in [Relayers -> Heights]
      /\ pendingCommits \in [Relayers -> [Heights -> Nat]]
      /\ relayed'[r] = relayed[r] \cup {h}
      /\ \A k \in Heights : pendingCommits[r][k] > 0 => k \in relayed[r]
  BY DEF IInv, TypeOK, Covered
<1>1. CASE h <= committedHeight[r]
  <2>1. UNCHANGED <<committedHeight, pendingCommits>>
    BY <1>1 DEF Stage
  <2>2. (committedHeight[r] + 1) .. committedHeight[r] = {}
    BY <1>0, SMT DEF Heights
  <2>3. \A k \in Heights : pendingCommits[r][k] \in Nat
    BY <1>0
  <2> QED BY <1>0, <2>1, <2>2, <2>3, SMT
<1>2. CASE ~ (h <= committedHeight[r])
  <2> DEFINE pushed == Push(pendingCommits[r], h)
  <2>1. PICK c \in committedHeight[r] .. MaxHeight :
           /\ CommitsThrough(pushed, committedHeight[r], c)
           /\ committedHeight' = [committedHeight EXCEPT ![r] = c]
           /\ pendingCommits' = [pendingCommits EXCEPT ![r] = Popped(pushed, committedHeight[r], c)]
    BY <1>2 DEF Stage
  <2>2. /\ pushed \in [Heights -> Nat]
        /\ \A k \in Heights : pushed[k] = IF k = h THEN pendingCommits[r][k] + 1
                                           ELSE pendingCommits[r][k]
        /\ \A k \in Heights : pushed[k] > 0 => k \in relayed'[r]
    BY <1>0, SMT DEF Push
  <2> HIDE DEF pushed
  <2>3. /\ committedHeight[r] \in Heights /\ c \in Heights
        /\ committedHeight'[r] = c
        /\ pendingCommits'[r] = Popped(pushed, committedHeight[r], c)
    BY <1>0, <2>1, SMT DEF Heights
  <2>4. /\ \A k \in (committedHeight[r] + 1) .. c : k \in Heights /\ pushed[k] > 0
        /\ pendingCommits'[r] \in [Heights -> Nat]
        /\ \A k \in Heights : pendingCommits'[r][k] <= pushed[k]
    BY <2>1, <2>2, <2>3, LoopPopsPending, SMT
  <2>5. committedHeight' \in [Relayers -> Heights]
    BY <1>0, <2>1, <2>3
  <2>6. pendingCommits' \in [Relayers -> [Heights -> Nat]]
    BY <1>0, <2>1, <2>3, <2>4
  <2>7. \A k \in Relayers : k # r =>
           committedHeight'[k] = committedHeight[k] /\ pendingCommits'[k] = pendingCommits[k]
    BY <1>0, <2>1
  <2>8. (committedHeight[r] + 1) .. committedHeight'[r] \subseteq relayed'[r]
    BY <2>2, <2>3, <2>4
  <2>9. \A k \in Heights : pendingCommits'[r][k] > 0 => k \in relayed'[r]
    <3>1. \A k \in Heights : pendingCommits'[r][k] \in Nat /\ pushed[k] \in Nat
      BY <2>2, <2>4
    <3> QED BY <2>2, <2>4, <3>1, SMT
  <2>10. \A k \in Heights :
            pendingCommits'[r][k] <= IF k = h THEN pendingCommits[r][k] + 1
                                     ELSE pendingCommits[r][k]
    BY <2>2, <2>4
  <2> QED BY <2>5, <2>6, <2>7, <2>8, <2>9, <2>10
<1> QED BY <1>1, <1>2

\* A height leaves its goroutine for the heap, or is reported as failed.
LEMMA ProcessHeightIInv ==
    ASSUME IInv, NEW r \in Relayers, NEW h \in Heights, ProcessHeight(r, h)
    PROVE  IInv'
<1> USE MaxHeightAssumption, BoundsAssumption
<1>0. TypeOK /\ WithinChain /\ CreatedIsIdle /\ AtMostTwoDispatches /\ Covered /\ NoBlockLost
  BY DEF IInv
<1>1. /\ phase = "listening" /\ heights[r][h] > 0
      /\ heights' = [heights EXCEPT ![r] = Pop(@, h)]
      /\ UNCHANGED <<head, stored, storedOrigin, origin, phase, minHeight, sub, delivered, missed,
                     catchUp, headers, health, reported, restarts>>
  BY DEF ProcessHeight, listenerVars
<1>2. \/ /\ Stage(r, h)
         /\ relayed' = [relayed EXCEPT ![r] = @ \cup {h}]
         /\ UNCHANGED <<errs, failed>>
      \/ /\ errs < MaxErrors /\ errs' = errs + 1
         /\ failed' = [failed EXCEPT ![r] = @ \cup {h}]
         /\ UNCHANGED <<committedHeight, pendingCommits, relayed>>
  BY DEF ProcessHeight
<1>3. /\ headers \in [Heights -> Nat] /\ heights \in [Relayers -> [Heights -> Nat]]
      /\ pendingCommits \in [Relayers -> [Heights -> Nat]]
      /\ relayed \in [Relayers -> SUBSET Heights]
      /\ committedHeight \in [Relayers -> Heights]
  BY <1>0 DEF TypeOK
<1>4. /\ heights' \in [Relayers -> [Heights -> Nat]]
      /\ \A q \in Relayers, k \in Heights :
            heights'[q][k] = IF q = r /\ k = h THEN heights[q][k] - 1 ELSE heights[q][k]
  BY <1>1, <1>3, SMT DEF Pop
<1>5. /\ relayed' \in [Relayers -> SUBSET Heights]
      /\ \A q \in Relayers : relayed[q] \subseteq relayed'[q]
      /\ errs' \in 0 .. MaxErrors
      /\ failed' \in [Relayers -> SUBSET Heights]
      /\ \A q \in Relayers : failed[q] \subseteq failed'[q]
      /\ h \in relayed'[r] \/ h \in failed'[r]
  <2>1. /\ relayed' \in [Relayers -> SUBSET Heights]
        /\ \A q \in Relayers : relayed[q] \subseteq relayed'[q]
    <3>1. CASE relayed' = [relayed EXCEPT ![r] = @ \cup {h}]
      <4>1. relayed[r] \cup {h} \in SUBSET Heights
        BY <1>3
      <4> QED BY <1>3, <3>1, <4>1
    <3>2. CASE relayed' = relayed
      BY <1>3, <3>2
    <3> QED BY <1>2, <3>1, <3>2
  <2>2. errs' \in 0 .. MaxErrors
    BY <1>0, <1>2, SMT DEF TypeOK
  <2>3. /\ failed' \in [Relayers -> SUBSET Heights]
        /\ \A q \in Relayers : failed[q] \subseteq failed'[q]
    <3>0. failed \in [Relayers -> SUBSET Heights]
      BY <1>0 DEF TypeOK
    <3>1. CASE failed' = [failed EXCEPT ![r] = @ \cup {h}]
      <4>1. failed[r] \cup {h} \in SUBSET Heights
        BY <3>0
      <4> QED BY <3>0, <3>1, <4>1
    <3>2. CASE failed' = failed
      BY <3>0, <3>2
    <3> QED BY <1>2, <3>1, <3>2
  <2>4. h \in relayed'[r] \/ h \in failed'[r]
    <3>1. failed \in [Relayers -> SUBSET Heights]
      BY <1>0 DEF TypeOK
    <3> QED BY <1>2, <1>3, <3>1, ZenonT(30)
  <2> QED BY <2>1, <2>2, <2>3, <2>4
<1>6. /\ committedHeight' \in [Relayers -> Heights]
      /\ pendingCommits' \in [Relayers -> [Heights -> Nat]]
      /\ \A q \in Relayers : q # r =>
            committedHeight'[q] = committedHeight[q] /\ pendingCommits'[q] = pendingCommits[q]
      /\ \A k \in Heights :
            pendingCommits'[r][k] <= IF k = h THEN pendingCommits[r][k] + 1
                                     ELSE pendingCommits[r][k]
      /\ (committedHeight[r] + 1) .. committedHeight'[r] \subseteq relayed'[r]
      /\ \A k \in Heights : pendingCommits'[r][k] > 0 => k \in relayed'[r]
  <2>1. CASE Stage(r, h) /\ relayed' = [relayed EXCEPT ![r] = @ \cup {h}]
    BY <2>1, StageCovers
  <2>2. CASE UNCHANGED <<committedHeight, pendingCommits, relayed>>
    <3>1. (committedHeight[r] + 1) .. committedHeight[r] = {}
      BY <1>3, SMT DEF Heights
    <3>2. \A k \in Heights : pendingCommits[r][k] \in Nat
      BY <1>3, ZenonT(30)
    <3> QED BY <1>0, <1>3, <2>2, <3>1, <3>2, SMT DEF Covered
  <2> QED BY <1>2, <2>1, <2>2
<1>7. TypeOK'
  BY <1>0, <1>1, <1>4, <1>5, <1>6 DEF TypeOK
<1>8. WithinChain'
  <2>1. ASSUME NEW q \in Relayers, NEW k \in Heights, heights'[q][k] > 0
        PROVE  k <= head
    <3>1. heights[q][k] > 0
      BY <1>3, <1>4, <2>1, SMTT(30)
    <3> QED BY <1>0, <3>1 DEF WithinChain
  <2> QED BY <1>0, <1>1, <2>1 DEF WithinChain
<1>9. CreatedIsIdle'
  BY <1>1 DEF CreatedIsIdle
<1>10. AtMostTwoDispatches'
  <2> SUFFICES ASSUME NEW q \in Relayers, NEW k \in Heights
               PROVE  Dispatches(q, k)' <= 2
    BY DEF AtMostTwoDispatches
  <2>1. /\ headers[k] \in Nat /\ heights[q][k] \in Nat /\ pendingCommits[q][k] \in Nat
        /\ heights'[q][k] \in Nat /\ pendingCommits'[q][k] \in Nat
    BY <1>3, <1>4, <1>6, SMT
  <2>2. heights'[q][k] + pendingCommits'[q][k] <= heights[q][k] + pendingCommits[q][k]
    <3>1. CASE q # r
      BY <1>4, <1>6, <2>1, <3>1, SMT
    <3>2. CASE q = r
      BY <1>4, <1>6, <2>1, <3>2, SMT
    <3> QED BY <3>1, <3>2
  <2>3. /\ FromSubscription(k)' = FromSubscription(k) /\ FromSubscription(k) \in Nat
        /\ FromCatchUp(k)' = FromCatchUp(k) /\ FromCatchUp(k) \in Nat
    BY <1>1 DEF FromSubscription, FromCatchUp
  <2>4. headers[k] + heights[q][k] + pendingCommits[q][k]
           + FromSubscription(k) + FromCatchUp(k) <= 2
    BY <1>0 DEF AtMostTwoDispatches, Dispatches
  <2>5. headers[k] + heights'[q][k] + pendingCommits'[q][k]
           + FromSubscription(k) + FromCatchUp(k) <= 2
    BY <2>1, <2>2, <2>3, <2>4, SMT
  <2>6. Dispatches(q, k)' = headers[k] + heights'[q][k] + pendingCommits'[q][k]
                               + FromSubscription(k) + FromCatchUp(k)
    BY <1>1, <2>3 DEF Dispatches
  <2> QED BY <2>5, <2>6
<1>11. Covered'
  <2> SUFFICES ASSUME NEW q \in Relayers
               PROVE  /\ (origin[q] + 1) .. committedHeight'[q] \subseteq relayed'[q]
                      /\ stored[q] # NotFound =>
                            (storedOrigin[q] + 1) .. stored[q] \subseteq relayed'[q]
                      /\ \A k \in Heights : pendingCommits'[q][k] > 0 => k \in relayed'[q]
    BY <1>1 DEF Covered
  <2>1. /\ (origin[q] + 1) .. committedHeight[q] \subseteq relayed[q]
        /\ stored[q] # NotFound => (storedOrigin[q] + 1) .. stored[q] \subseteq relayed[q]
        /\ \A k \in Heights : pendingCommits[q][k] > 0 => k \in relayed[q]
    BY <1>0 DEF Covered
  <2>2. CASE q # r
    BY <1>5, <1>6, <2>1, <2>2
  <2>3. CASE q = r
    <3>1. origin[q] \in Int /\ committedHeight[q] \in Int /\ committedHeight'[q] \in Int
      BY <1>0, <1>6, SMT DEF TypeOK, Heights
    <3>2. (origin[q] + 1) .. committedHeight'[q] \subseteq
             ((origin[q] + 1) .. committedHeight[q]) \cup
             ((committedHeight[q] + 1) .. committedHeight'[q])
      BY <3>1, SMT
    <3> QED BY <1>5, <1>6, <2>1, <2>3, <3>2
  <2> QED BY <2>2, <2>3
<1>12. NoBlockLost'
  <2> SUFFICES ASSUME catchUp.state # "failed", NEW q \in Relayers, NEW k \in minHeight .. head
               PROVE  \/ k \in relayed'[q] \cup failed'[q] \cup missed
                      \/ heights'[q][k] > 0
                      \/ Coming(k)
    BY <1>1 DEF NoBlockLost, Coming
  <2>1. \/ k \in relayed[q] \cup failed[q] \cup missed
        \/ heights[q][k] > 0
        \/ Coming(k)
    BY <1>0, <1>1 DEF NoBlockLost
  <2>2. k \in Heights
    BY <1>0, SMT DEF TypeOK, Heights
  <2> QED BY <1>4, <1>5, <2>1, <2>2
<1> QED BY <1>7, <1>8, <1>9, <1>10, <1>11, <1>12 DEF IInv

\* The write ticker moves a covered height to the database.
LEMMA WriteIInv ==
    ASSUME IInv, NEW r \in Relayers, WriteToDatabase(r)
    PROVE  IInv'
<1> USE MaxHeightAssumption
<1>1. /\ stored' = [stored EXCEPT ![r] = committedHeight[r]]
      /\ storedOrigin' = [storedOrigin EXCEPT ![r] = origin[r]]
      /\ UNCHANGED <<head, committedHeight, pendingCommits, origin, phase, minHeight, sub,
                     delivered, missed, catchUp, headers, heights, errs, health, relayed, failed,
                     reported, restarts>>
  BY DEF WriteToDatabase, checkpointVars, listenerVars
<1>2. TypeOK'
  <2>1. /\ stored' \in [Relayers -> Heights \cup {NotFound}]
        /\ storedOrigin' \in [Relayers -> Heights]
    BY <1>1 DEF IInv, TypeOK
  <2> QED BY <1>1, <2>1 DEF IInv, TypeOK
<1>3. WithinChain' /\ CreatedIsIdle' /\ NoBlockLost'
  BY <1>1 DEF IInv, WithinChain, CreatedIsIdle, NoBlockLost, Coming
<1>4. AtMostTwoDispatches'
  BY <1>1 DEF IInv, AtMostTwoDispatches, Dispatches, FromSubscription, FromCatchUp
<1>5. Covered'
  BY <1>1 DEF IInv, Covered, TypeOK
<1> QED BY <1>2, <1>3, <1>4, <1>5 DEF IInv

------------------------------------------------------------------------------
(* One relayer's checkpoint manager within the process.                     *)

\* The instance shares the constant MaxHeight, and with it every operator: the
\* heights and what stands for no row and for an empty heap ...
LEMMA SameConstants ==
    ASSUME NEW r
    PROVE  CM(r)!Heights = Heights /\ CM(r)!NotFound = NotFound /\ CM(r)!EmptyHeap = EmptyHeap
<1>1. CM(r)!Heights = Heights /\ CM(r)!NotFound = NotFound
  BY DEF CM!Heights, CM!NotFound, Heights, NotFound
<1>2. CM(r)!EmptyHeap = EmptyHeap
  BY <1>1 DEF CM!EmptyHeap, EmptyHeap
<1> QED BY <1>1, <1>2

\* ... the operations on the heap of pending commits ...
LEMMA SamePush ==
    ASSUME NEW r, NEW heap, NEW h
    PROVE  CM(r)!Push(heap, h) = Push(heap, h)
BY DEF CM!Push, Push

LEMMA SamePopped ==
    ASSUME NEW r, NEW heap, NEW from, NEW to
    PROVE  CM(r)!Popped(heap, from, to) = Popped(heap, from, to)
<1>1. CM(r)!Heights = Heights
  BY SameConstants
<1> QED BY <1>1 DEF CM!Popped, Popped

LEMMA SameCommitsThrough ==
    ASSUME NEW r, NEW heap, NEW from, NEW to
    PROVE  CM(r)!CommitsThrough(heap, from, to) <=> CommitsThrough(heap, from, to)
<1>1. CM(r)!Heights = Heights
  BY SameConstants
<1>2. \A other, h : CM(r)!IsPeek(other, h) <=> IsPeek(other, h)
  BY <1>1 DEF CM!IsPeek, IsPeek
<1>3. \A other, k, l : CM(r)!Popped(other, k, l) = Popped(other, k, l)
  BY SamePopped
<1> QED BY <1>2, <1>3 DEF CM!CommitsThrough, CommitsThrough

\* ... the test of a write and the height a run starts from.
LEMMA SameWriteAllowed ==
    ASSUME NEW r, NEW committed, NEW inDb
    PROVE  CM(r)!WriteAllowed(committed, inDb) <=> WriteAllowed(committed, inDb)
<1>1. CM(r)!NotFound = NotFound
  BY SameConstants
<1> QED BY <1>1 DEF CM!WriteAllowed, WriteAllowed

LEMMA SameStartingHeight ==
    ASSUME NEW r, NEW missedToo, NEW inDb, NEW historical, NEW current
    PROVE  CM(r)!StartingHeight(missedToo, inDb, historical, current)
             = StartingHeight(missedToo, inDb, historical, current)
<1>1. CM(r)!NotFound = NotFound
  BY SameConstants
<1> QED BY <1>1 DEF CM!StartingHeight, StartingHeight,
                           CM!CalculateStartingBlockHeight, CalculateStartingBlockHeight

\* A step of the process is, for the checkpoint manager of any one relayer, a
\* step of the CheckpointManager specification or a stuttering step.
LEMMA StepImplements ==
    ASSUME IInv, [Next]_vars, NEW r \in Relayers
    PROVE  [CM(r)!Next]_(CM(r)!vars)
<1> USE MaxHeightAssumption
<1>0. /\ stored \in [Relayers -> Heights \cup {NotFound}]
      /\ storedOrigin \in [Relayers -> Heights]
      /\ committedHeight \in [Relayers -> Heights]
      /\ pendingCommits \in [Relayers -> [Heights -> Nat]]
      /\ heights \in [Relayers -> [Heights -> Nat]]
      /\ headers \in [Heights -> Nat]
      /\ origin \in [Relayers -> Heights]
      /\ relayed \in [Relayers -> SUBSET Heights]
  BY DEF IInv, TypeOK
<1>1. CASE NewBlock
  <2>1. CM(r)!NewBlock
    BY <1>1 DEF NewBlock, checkpointVars, CM!NewBlock
  <2> QED BY <2>1 DEF CM!Next
<1>2. CASE \/ DeliverHeader \/ BreakSubscription
           \/ Subscribe \/ CatchUpBegin \/ CatchUpHeader
           \/ ReceiveError \/ ReceiveCatchUpResult \/ Reconnect
           \/ (\E h \in Heights : ProcessBlock(h))
           \/ UNCHANGED vars
  <2>1. UNCHANGED <<head, committedHeight, pendingCommits, origin, stored, storedOrigin, relayed>>
    BY <1>2 DEF DeliverHeader, BreakSubscription, Subscribe, SubscribeNewHead, CatchUpBegin, CatchUpHeader,
                ReceiveError, ReceiveCatchUpResult, Reconnect, ProcessBlock, vars,
                checkpointVars
  <2> QED BY <2>1 DEF CM!vars
<1>3. ASSUME NEW q \in Relayers, NEW h \in Heights, ProcessHeight(q, h)
      PROVE  [CM(r)!Next]_(CM(r)!vars)
  <2>1. /\ heights[q][h] > 0
        /\ UNCHANGED <<head, stored, storedOrigin, origin>>
        /\ \/ Stage(q, h) /\ relayed' = [relayed EXCEPT ![q] = @ \cup {h}]
           \/ UNCHANGED <<committedHeight, pendingCommits, relayed>>
    BY <1>3 DEF ProcessHeight
  <2>2. CASE UNCHANGED <<committedHeight, pendingCommits, relayed>>
    BY <2>1, <2>2 DEF CM!vars
  <2>3. CASE q # r /\ Stage(q, h) /\ relayed' = [relayed EXCEPT ![q] = @ \cup {h}]
    <3>1. /\ committedHeight'[r] = committedHeight[r]
          /\ pendingCommits'[r] = pendingCommits[r]
          /\ relayed'[r] = relayed[r]
      BY <1>0, <2>3, StageCovers
    <3> QED BY <2>1, <3>1 DEF CM!vars
  <2>4. CASE q = r /\ Stage(q, h) /\ relayed' = [relayed EXCEPT ![q] = @ \cup {h}]
    <3>1. h <= head
      BY <2>1, <2>4 DEF IInv, WithinChain
    <3>2. pendingCommits[r][h] < 2
      <4>1. headers[h] \in Nat /\ heights[r][h] \in Nat /\ pendingCommits[r][h] \in Nat
        BY <1>0, SMT
      <4>2. FromSubscription(h) \in Nat /\ FromCatchUp(h) \in Nat
        BY DEF FromSubscription, FromCatchUp
      <4>3. Dispatches(r, h) <= 2
        BY DEF IInv, AtMostTwoDispatches
      <4> QED BY <2>1, <2>4, <4>1, <4>2, <4>3, SMT DEF Dispatches
    <3>3. relayed'[r] = relayed[r] \cup {h}
      BY <1>0, <2>4
    <3>4. CASE h <= committedHeight[r]
      <4>1. UNCHANGED <<committedHeight, pendingCommits>>
        BY <2>4, <3>4 DEF Stage
      <4>2. CM(r)!StageCommittedHeight(h)
        BY <2>1, <3>1, <3>3, <3>4, <4>1 DEF CM!StageCommittedHeight
      <4>3. \E k \in CM(r)!Heights : CM(r)!StageCommittedHeight(k)
        BY <4>2, SameConstants
      <4> QED BY <4>3 DEF CM!Next
    <3>5. CASE ~ (h <= committedHeight[r])
      <4>1. PICK c \in committedHeight[r] .. MaxHeight :
               /\ CommitsThrough(Push(pendingCommits[r], h), committedHeight[r], c)
               /\ committedHeight' = [committedHeight EXCEPT ![r] = c]
               /\ pendingCommits' = [pendingCommits EXCEPT
                     ![r] = Popped(Push(pendingCommits[r], h), committedHeight[r], c)]
        BY <2>4, <3>5 DEF Stage
      <4>2. /\ committedHeight'[r] = c
            /\ pendingCommits'[r] = Popped(Push(pendingCommits[r], h), committedHeight[r], c)
        BY <1>0, <4>1
      <4>3. CM(r)!StageCommittedHeight(h)
        <5>1. CM(r)!Push(pendingCommits[r], h) = Push(pendingCommits[r], h)
          BY SamePush
        <5>2. CM(r)!CommitsThrough(CM(r)!Push(pendingCommits[r], h), committedHeight[r], c)
          BY <4>1, <5>1, SameCommitsThrough
        <5>3. pendingCommits'[r] =
                CM(r)!Popped(CM(r)!Push(pendingCommits[r], h), committedHeight[r], c)
          BY <4>2, <5>1, SamePopped
        <5> QED BY <2>1, <3>1, <3>2, <3>3, <3>5, <4>2, <5>2, <5>3 DEF CM!StageCommittedHeight
      <4>4. \E k \in CM(r)!Heights : CM(r)!StageCommittedHeight(k)
        BY <4>3, SameConstants
      <4> QED BY <4>4 DEF CM!Next
    <3> QED BY <3>4, <3>5
  <2> QED BY <2>1, <2>2, <2>3, <2>4
<1>4. ASSUME NEW q \in Relayers, WriteToDatabase(q)
      PROVE  [CM(r)!Next]_(CM(r)!vars)
  <2>1. /\ WriteAllowed(committedHeight[q], stored[q])
        /\ stored' = [stored EXCEPT ![q] = committedHeight[q]]
        /\ storedOrigin' = [storedOrigin EXCEPT ![q] = origin[q]]
        /\ UNCHANGED <<head, committedHeight, pendingCommits, origin, relayed>>
    BY <1>4 DEF WriteToDatabase, checkpointVars
  <2>2. CASE q = r
    <3>1. stored'[r] = committedHeight[r] /\ storedOrigin'[r] = origin[r]
      BY <1>0, <2>1, <2>2
    <3>2. CM(r)!WriteToDatabase
      <4>1. CM(r)!WriteAllowed(committedHeight[r], stored[r])
        BY <2>1, <2>2, SameWriteAllowed
      <4> QED BY <2>1, <3>1, <4>1 DEF CM!WriteToDatabase
    <3> QED BY <3>2 DEF CM!Next
  <2>3. CASE q # r
    <3>1. stored'[r] = stored[r] /\ storedOrigin'[r] = storedOrigin[r]
      BY <1>0, <2>1, <2>3
    <3> QED BY <2>1, <3>1 DEF CM!vars
  <2> QED BY <2>2, <2>3
<1>5. CASE Restart
  <2>1. /\ committedHeight'[r] = StartingHeight(ProcessMissedBlocks, stored[r], HistoricalHeight, head)
        /\ pendingCommits'[r] = EmptyHeap
        /\ origin'[r] = IF committedHeight'[r] = stored[r] THEN storedOrigin[r]
                        ELSE committedHeight'[r]
        /\ UNCHANGED <<head, stored, storedOrigin, relayed>>
    BY <1>5 DEF Restart, StartOf
  <2>2. CM(r)!Restart(ProcessMissedBlocks, HistoricalHeight)
    <3>1. CM(r)!EmptyHeap = EmptyHeap
      BY SameConstants
    <3>2. CM(r)!StartingHeight(ProcessMissedBlocks, stored[r], HistoricalHeight, head)
            = committedHeight'[r]
      BY <2>1, SameStartingHeight
    <3> QED BY <2>1, <3>1, <3>2 DEF CM!Restart
  <2>3. ProcessMissedBlocks \in BOOLEAN /\ HistoricalHeight \in CM(r)!Heights
    BY ConfigAssumption, SameConstants
  <2>4. \E processMissed \in BOOLEAN, historical \in CM(r)!Heights :
           CM(r)!Restart(processMissed, historical)
    BY <2>2, <2>3
  <2> QED BY <2>4 DEF CM!Next
<1> QED BY <1>1, <1>2, <1>3, <1>4, <1>5 DEF Next

------------------------------------------------------------------------------
(* The start of a process and of its successors, and all steps together.    *)

Orders == INSTANCE WellFoundedInduction

\* The least element of a set of natural numbers is one of them.
LEMMA MinType ==
    ASSUME NEW S \in SUBSET Nat, S # {}
    PROVE  Min(S) \in S
<1>1. PICK x \in S : \A y \in S : ~ (<<y, x>> \in Orders!OpToRel(<, Nat))
  BY Orders!NatLessThanWellFounded, Orders!WFMin
<1>2. ASSUME NEW y \in S
      PROVE  x =< y
  <2>1. Orders!OpToRel(<, Nat) = {ss \in Nat \X Nat : ss[1] < ss[2]}
    BY DEF Orders!OpToRel
  <2>2. ~ (<<y, x>> \in {ss \in Nat \X Nat : ss[1] < ss[2]})
    BY <1>1, <2>1
  <2> QED BY <2>2, SMT
<1> QED BY <1>2 DEF Min

\* The starting heights of the relayers, and the least of them, are heights.
LEMMA StartType ==
    ASSUME NEW inDb \in [Relayers -> Heights \cup {NotFound}], head \in 0 .. MaxHeight - 1
    PROVE  /\ [r \in Relayers |-> StartOf(r, inDb)] \in [Relayers -> Heights]
           /\ Min({[r \in Relayers |-> StartOf(r, inDb)][k] : k \in Relayers}) \in Heights
<1> DEFINE start == [r \in Relayers |-> StartOf(r, inDb)]
           S == {start[k] : k \in Relayers}
<1>1. ASSUME NEW r \in Relayers
      PROVE  StartOf(r, inDb) \in Heights
  BY StartingHeightType, ConfigAssumption DEF StartOf
<1>2. start \in [Relayers -> Heights]
  BY <1>1
<1> HIDE DEF start
<1>3. S \in SUBSET Heights /\ S # {}
  BY <1>2, RelayersAssumption
<1>4. S \in SUBSET Nat
  BY <1>3, SMT DEF Heights
<1> HIDE DEF S
<1>5. Min(S) \in Heights
  BY <1>3, <1>4, MinType
<1> QED BY <1>2, <1>5 DEF start, S

\* The initial states satisfy the inductive invariant.
LEMMA InitIInv == Init => IInv
<1> SUFFICES ASSUME Init PROVE IInv
  OBVIOUS
<1> USE MaxHeightAssumption, BoundsAssumption DEF Heights, NotFound
<1>1. /\ committedHeight \in [Relayers -> Heights]
      /\ minHeight \in Heights
  BY StartType, ZenonT(30) DEF Init
<1>2. /\ head \in 0 .. MaxHeight - 1
      /\ stored = [r \in Relayers |-> NotFound] /\ storedOrigin = [r \in Relayers |-> 0]
      /\ pendingCommits = [r \in Relayers |-> EmptyHeap]
      /\ origin = committedHeight
      /\ phase = "created" /\ sub = "none" /\ delivered = 0
      /\ catchUp = NoCatchUp
      /\ headers = EmptyHeap /\ heights = [r \in Relayers |-> EmptyHeap]
      /\ errs = 0 /\ health = TRUE
      /\ relayed = [r \in Relayers |-> {}]
      /\ failed = [r \in Relayers |-> {}] /\ missed = {} /\ reported = FALSE /\ restarts = 0
  BY DEF Init
<1>3. EmptyHeap \in [Heights -> Nat] /\ \A h \in Heights : EmptyHeap[h] = 0
  BY DEF EmptyHeap
<1>4. catchUp \in [state : CatchUpStates, next : Heights, latest : Heights]
  BY <1>2, SMT DEF NoCatchUp, CatchUpStates
<1>5. TypeOK
  <2>1. /\ (head \in 0 .. MaxHeight - 1)
        /\ stored \in [Relayers -> Heights \cup {NotFound}]
        /\ storedOrigin \in [Relayers -> Heights]
        /\ origin \in [Relayers -> Heights]
    BY <1>1, <1>2, SMT
  <2>2. /\ pendingCommits \in [Relayers -> [Heights -> Nat]]
        /\ heights \in [Relayers -> [Heights -> Nat]]
        /\ headers \in [Heights -> Nat]
    BY <1>2, <1>3
  <2>3. /\ delivered \in 0 .. MaxHeight - 1
        /\ errs \in 0 .. MaxErrors
        /\ restarts \in 0 .. MaxRestarts
    BY <1>2, SMT
  <2>4. /\ phase \in {"created", "listening", "down"}
        /\ sub \in {"none", "live", "broken"}
        /\ relayed \in [Relayers -> SUBSET Heights]
        /\ failed \in [Relayers -> SUBSET Heights] /\ missed \subseteq Heights
    BY <1>2
  <2>5. health \in BOOLEAN /\ reported \in BOOLEAN
    BY <1>2
  <2> QED BY <1>1, <1>4, <2>1, <2>2, <2>3, <2>4, <2>5 DEF TypeOK
<1>6. WithinChain /\ CreatedIsIdle
  BY <1>2, <1>3, SMT DEF WithinChain, CreatedIsIdle, NoCatchUp
<1>7. AtMostTwoDispatches
  <2> SUFFICES ASSUME NEW r \in Relayers, NEW h \in Heights
               PROVE  Dispatches(r, h) <= 2
    BY DEF AtMostTwoDispatches
  <2>1. headers[h] = 0 /\ heights[r][h] = 0 /\ pendingCommits[r][h] = 0
    BY <1>2, <1>3
  <2>2. FromSubscription(h) \in {0, 1} /\ FromCatchUp(h) = 0
    BY <1>2 DEF FromSubscription, FromCatchUp, NoCatchUp
  <2> QED BY <2>1, <2>2, SMT DEF Dispatches
<1>8. Covered
  BY <1>1, <1>2, <1>3, SMT DEF Covered
<1>9. NoBlockLost
  BY <1>2 DEF NoBlockLost
<1> QED BY <1>5, <1>6, <1>7, <1>8, <1>9 DEF IInv

\* A restart satisfies it again: the managers resume from covered rows.
LEMMA RestartIInv ==
    ASSUME IInv, Restart
    PROVE  IInv'
<1> USE MaxHeightAssumption, BoundsAssumption DEF Heights, NotFound
<1>0. TypeOK
  BY DEF IInv
<1>1. /\ committedHeight' \in [Relayers -> Heights]
      /\ minHeight' \in Heights
  <2>1. /\ stored \in [Relayers -> Heights \cup {NotFound}]
        /\ head \in 0 .. MaxHeight - 1
    BY <1>0 DEF TypeOK
  <2>2. /\ committedHeight' = [r \in Relayers |-> StartOf(r, stored)]
        /\ minHeight' = Min({committedHeight'[r] : r \in Relayers})
    BY DEF Restart
  <2> QED BY <2>1, <2>2, StartType
<1>2. /\ restarts < MaxRestarts /\ restarts' = restarts + 1
      /\ pendingCommits' = [r \in Relayers |-> EmptyHeap]
      /\ origin' = [r \in Relayers |-> IF committedHeight'[r] = stored[r]
                                       THEN storedOrigin[r] ELSE committedHeight'[r]]
      /\ phase' = "created" /\ sub' = "none" /\ delivered' = 0
      /\ catchUp' = NoCatchUp
      /\ headers' = EmptyHeap /\ heights' = [r \in Relayers |-> EmptyHeap]
      /\ errs' = 0 /\ health' = TRUE
      /\ failed' = [r \in Relayers |-> {}] /\ missed' = {} /\ reported' = FALSE
      /\ UNCHANGED <<head, stored, storedOrigin, relayed>>
  BY DEF Restart
<1>3. EmptyHeap \in [Heights -> Nat] /\ \A h \in Heights : EmptyHeap[h] = 0
  BY DEF EmptyHeap
<1>4. catchUp' \in [state : CatchUpStates, next : Heights, latest : Heights]
  BY <1>2, SMT DEF NoCatchUp, CatchUpStates
<1>5. TypeOK'
  <2>1. /\ (head \in 0 .. MaxHeight - 1)'
        /\ stored' \in [Relayers -> Heights \cup {NotFound}]
        /\ storedOrigin' \in [Relayers -> Heights]
        /\ origin' \in [Relayers -> Heights]
    BY <1>0, <1>1, <1>2 DEF TypeOK
  <2>2. /\ pendingCommits' \in [Relayers -> [Heights -> Nat]]
        /\ heights' \in [Relayers -> [Heights -> Nat]]
        /\ headers' \in [Heights -> Nat]
    BY <1>2, <1>3
  <2>3. /\ delivered' \in 0 .. MaxHeight - 1
        /\ errs' \in 0 .. MaxErrors
        /\ restarts' \in 0 .. MaxRestarts
    BY <1>0, <1>2, SMT DEF TypeOK
  <2>4. /\ phase' \in {"created", "listening", "down"}
        /\ sub' \in {"none", "live", "broken"}
        /\ relayed' \in [Relayers -> SUBSET Heights]
        /\ failed' \in [Relayers -> SUBSET Heights] /\ missed' \subseteq Heights
    BY <1>0, <1>2 DEF TypeOK
  <2>5. health' \in BOOLEAN /\ reported' \in BOOLEAN
    BY <1>2
  <2> QED BY <1>1, <1>4, <2>1, <2>2, <2>3, <2>4, <2>5 DEF TypeOK
<1>6. WithinChain' /\ CreatedIsIdle'
  BY <1>0, <1>2, <1>3, SMT DEF WithinChain, CreatedIsIdle, NoCatchUp, TypeOK
<1>7. AtMostTwoDispatches'
  <2> SUFFICES ASSUME NEW r \in Relayers, NEW h \in Heights
               PROVE  Dispatches(r, h)' <= 2
    BY DEF AtMostTwoDispatches
  <2>1. headers'[h] = 0 /\ heights'[r][h] = 0 /\ pendingCommits'[r][h] = 0
    BY <1>2, <1>3
  <2>2. FromSubscription(h)' \in {0, 1} /\ FromCatchUp(h)' = 0
    BY <1>2 DEF FromSubscription, FromCatchUp, NoCatchUp
  <2> QED BY <2>1, <2>2, SMT DEF Dispatches
<1>8. Covered'
  <2> SUFFICES ASSUME NEW r \in Relayers
               PROVE  /\ (origin'[r] + 1) .. committedHeight'[r] \subseteq relayed[r]
                      /\ stored[r] # NotFound =>
                            (storedOrigin[r] + 1) .. stored[r] \subseteq relayed[r]
                      /\ \A h \in Heights : pendingCommits'[r][h] > 0 => h \in relayed[r]
    BY <1>2 DEF Covered
  <2>1. \A h \in Heights : pendingCommits'[r][h] = 0
    BY <1>2, <1>3
  <2>2. stored[r] # NotFound => (storedOrigin[r] + 1) .. stored[r] \subseteq relayed[r]
    BY DEF IInv, Covered
  <2>3. committedHeight'[r] \in Heights
    BY <1>1
  <2>4. CASE committedHeight'[r] = stored[r]
    BY <1>2, <2>1, <2>2, <2>3, <2>4, SMT
  <2>5. CASE committedHeight'[r] # stored[r]
    <3>1. (origin'[r] + 1) .. committedHeight'[r] = {}
      BY <1>2, <2>3, <2>5, SMT
    <3> QED BY <2>1, <2>2, <3>1, SMTT(30)
  <2> QED BY <2>4, <2>5
<1>9. NoBlockLost'
  BY <1>2 DEF NoBlockLost
<1> QED BY <1>5, <1>6, <1>7, <1>8, <1>9 DEF IInv

\* Every step preserves the inductive invariant.
LEMMA NextIInv == IInv /\ [Next]_vars => IInv'
<1> SUFFICES ASSUME IInv, [Next]_vars PROVE IInv'
  OBVIOUS
<1>1. CASE \/ NewBlock \/ DeliverHeader \/ BreakSubscription
           \/ Subscribe \/ CatchUpBegin \/ CatchUpHeader
           \/ ReceiveError \/ ReceiveCatchUpResult \/ Reconnect
  BY <1>1, ListenerIInv
<1>2. CASE \E h \in Heights : ProcessBlock(h)
  BY <1>2, ProcessBlockIInv
<1>3. CASE \E r \in Relayers, h \in Heights : ProcessHeight(r, h)
  BY <1>3, ProcessHeightIInv
<1>4. CASE \E r \in Relayers : WriteToDatabase(r)
  BY <1>4, WriteIInv
<1>5. CASE Restart
  BY <1>5, RestartIInv
<1>6. CASE UNCHANGED vars
  <2>1. UNCHANGED <<head, stored, storedOrigin, committedHeight, pendingCommits, origin, phase,
                    minHeight, sub, delivered, missed, catchUp, headers, heights, errs, health,
                    relayed, failed, reported, restarts>>
    BY <1>6 DEF vars, checkpointVars, listenerVars
  <2>2. TypeOK' /\ WithinChain' /\ CreatedIsIdle' /\ Covered' /\ NoBlockLost'
    BY <2>1 DEF IInv, TypeOK, WithinChain, CreatedIsIdle, Covered, NoBlockLost, Coming
  <2>3. AtMostTwoDispatches'
    BY <2>1 DEF IInv, AtMostTwoDispatches, Dispatches, FromSubscription, FromCatchUp
  <2> QED BY <2>2, <2>3 DEF IInv
<1> QED BY <1>1, <1>2, <1>3, <1>4, <1>5, <1>6 DEF Next

\* The inductive invariant holds throughout.
LEMMA SpecIInv == Spec => []IInv
BY InitIInv, NextIInv, PTL DEF Spec

------------------------------------------------------------------------------
(* The theorems.                                                            *)

\* The state of the whole process is well-typed in every run and after every
\* restart: no queue or heap ever holds a negative number of copies.
THEOREM ProcessTypeOK == Spec => []TypeOK
<1>1. IInv => TypeOK
  BY DEF IInv
<1> QED BY <1>1, SpecIInv, PTL

\* Between catch-up and subscription (newListener subscribes before
\* ProcessFromHeight reads the latest height) no block is lost.
THEOREM NoBlockIsLost == Spec => []NoBlockLost
<1>1. IInv => NoBlockLost
  BY DEF IInv
<1> QED BY <1>1, SpecIInv, PTL

\* However often the listener resubscribes, a height is dispatched by catch-up
\* and by the subscription at most once each.
THEOREM DispatchedAtMostTwice == Spec => []AtMostTwice
<1>1. IInv => AtMostTwice
  <2> SUFFICES ASSUME IInv, NEW r \in Relayers, NEW h \in Heights
               PROVE  headers[h] + heights[r][h] + pendingCommits[r][h] <= 2
    BY DEF AtMostTwice
  <2>1. headers[h] \in Nat /\ heights[r][h] \in Nat /\ pendingCommits[r][h] \in Nat
    BY SMT DEF IInv, TypeOK
  <2>2. FromSubscription(h) \in Nat /\ FromCatchUp(h) \in Nat
    BY DEF FromSubscription, FromCatchUp
  <2>3. Dispatches(r, h) <= 2
    BY DEF IInv, AtMostTwoDispatches
  <2> QED BY <2>1, <2>2, <2>3, SMT DEF Dispatches
<1> QED BY <1>1, SpecIInv, PTL

\* A block that a resubscription skipped, or that failed, keeps the checkpoint of
\* every relayer that has not relayed it below it (StageCommittedHeight commits
\* only consecutive heights).
THEOREM MissedBlocksHoldCheckpoints == Spec => []MissedHoldsCheckpoint
<1>1. IInv => MissedHoldsCheckpoint
  <2> SUFFICES ASSUME IInv, NEW r \in Relayers, NEW h \in missed \cup failed[r],
                      h > origin[r], h \notin relayed[r]
               PROVE  committedHeight[r] < h
    BY DEF MissedHoldsCheckpoint
  <2>1. h \in Int /\ origin[r] \in Int /\ committedHeight[r] \in Int
    BY MaxHeightAssumption, SMT DEF IInv, TypeOK, Heights
  <2>2. (origin[r] + 1) .. committedHeight[r] \subseteq relayed[r]
    BY DEF IInv, Covered
  <2> QED BY <2>1, <2>2, SMT
<1> QED BY <1>1, SpecIInv, PTL

\* The listener, the coordinator and the relayers drive each checkpoint manager
\* only as CheckpointManager allows, so what is proved there holds of the process.
THEOREM ProcessImplementsCheckpointManager == Spec => ImplementsCheckpointManager
<1>1. Init => \A r \in Relayers : CM(r)!Init
  <2> SUFFICES ASSUME Init, NEW r \in Relayers
               PROVE  CM(r)!Init
    OBVIOUS
  <2>1. /\ head \in 0 .. MaxHeight - 1
        /\ stored[r] = NotFound /\ storedOrigin[r] = 0
        /\ committedHeight[r] =
              StartingHeight(ProcessMissedBlocks, NotFound, HistoricalHeight, head)
        /\ pendingCommits[r] = EmptyHeap
        /\ origin[r] = committedHeight[r]
        /\ relayed[r] = {}
    BY DEF Init, StartOf
  <2>2. /\ ProcessMissedBlocks \in BOOLEAN /\ HistoricalHeight \in CM(r)!Heights
        /\ CM(r)!NotFound = NotFound /\ CM(r)!EmptyHeap = EmptyHeap
    BY ConfigAssumption, SameConstants
  <2>3. CM(r)!StartingHeight(ProcessMissedBlocks, NotFound, HistoricalHeight, head)
          = committedHeight[r]
    BY <2>1, SameStartingHeight
  <2>4. \E processMissed \in BOOLEAN, historical \in CM(r)!Heights :
           committedHeight[r]
             = CM(r)!StartingHeight(processMissed, CM(r)!NotFound, historical, head)
    BY <2>2, <2>3
  <2> QED BY <2>1, <2>2, <2>4 DEF CM!Init
<1>2. IInv /\ [Next]_vars => [\A r \in Relayers : [CM(r)!Next]_(CM(r)!vars)]_vars
  BY StepImplements
<1> QED BY <1>1, <1>2, SpecIInv, PTL DEF Spec, ImplementsCheckpointManager

------------------------------------------------------------------------------
(* What stops a checkpoint.                                                 *)

\* In the first run, every relayed height above the committed one is in the heap.
RelayedIsPending ==
    restarts = 0 =>
        \A r \in Relayers, h \in Heights :
            h \in relayed[r] /\ ~ (h <= committedHeight[r]) => pendingCommits[r][h] > 0

\* The next height is in the heap only with a committed one in front of it.
LoopEnded ==
    \A r \in Relayers :
        committedHeight[r] + 1 \in Heights /\ pendingCommits[r][committedHeight[r] + 1] > 0 =>
            \E k \in Heights : k <= committedHeight[r] /\ pendingCommits[r][k] > 0

\* The checkpoint of a relayer is behind what it relayed only because of a duplicate:
\* in the first run, a relayed height that is next to be committed waits in the heap
\* behind a second copy of a height that is committed already.
StuckOnlyOnDuplicates ==
    restarts = 0 =>
        \A r \in Relayers : committedHeight[r] + 1 \in relayed[r] =>
            \E k \in Heights : k <= committedHeight[r] /\ pendingCommits[r][k] > 0

\* StageCommittedHeight pushes the height and commits as long as the next one is on top.
LEMMA StageKeepsUp ==
    ASSUME IInv, RelayedIsPending, LoopEnded, NEW r \in Relayers, NEW h \in Heights, Stage(r, h),
           relayed' = [relayed EXCEPT ![r] = @ \cup {h}], UNCHANGED restarts
    PROVE  RelayedIsPending' /\ LoopEnded'
<1> USE MaxHeightAssumption
<1>0. /\ committedHeight \in [Relayers -> Heights]
      /\ pendingCommits \in [Relayers -> [Heights -> Nat]]
      /\ relayed \in [Relayers -> SUBSET Heights]
      /\ relayed'[r] = relayed[r] \cup {h}
      /\ \A q \in Relayers : q # r => relayed'[q] = relayed[q]
  BY DEF IInv, TypeOK
<1>1. CASE h <= committedHeight[r]
  <2>1. UNCHANGED <<committedHeight, pendingCommits>>
    BY <1>1 DEF Stage
  <2>2. LoopEnded'
    BY <2>1 DEF LoopEnded
  <2>3. RelayedIsPending'
    BY <1>0, <1>1, <2>1 DEF RelayedIsPending
  <2> QED BY <2>2, <2>3
<1>2. CASE ~ (h <= committedHeight[r])
  <2> DEFINE pushed == Push(pendingCommits[r], h)
  <2>1. PICK c \in committedHeight[r] .. MaxHeight :
           /\ CommitsThrough(pushed, committedHeight[r], c)
           /\ committedHeight' = [committedHeight EXCEPT ![r] = c]
           /\ pendingCommits' = [pendingCommits EXCEPT ![r] = Popped(pushed, committedHeight[r], c)]
    BY <1>2 DEF Stage
  <2>2. /\ pushed \in [Heights -> Nat] /\ pushed[h] > 0
        /\ \A k \in Heights : pendingCommits[r][k] > 0 => pushed[k] > 0
    BY <1>0, SMT DEF Push
  <2> HIDE DEF pushed
  <2>3. /\ committedHeight[r] \in Heights /\ c \in Heights /\ committedHeight[r] <= c
        /\ committedHeight'[r] = c
        /\ pendingCommits'[r] = Popped(pushed, committedHeight[r], c)
        /\ \A q \in Relayers : q # r =>
              committedHeight'[q] = committedHeight[q] /\ pendingCommits'[q] = pendingCommits[q]
    BY <1>0, <2>1, SMT DEF Heights
  <2>4. pendingCommits'[r] \in [Heights -> Nat]
    <3>1. Popped(pushed, committedHeight[r], c) \in [Heights -> Nat]
      BY <2>1, <2>2, <2>3, LoopPopsPending
    <3> QED BY <2>3, <3>1
  <2>5. \A k \in Heights : ~ (k <= c) =>
           pendingCommits'[r][k] = pushed[k] /\ ~ (k <= committedHeight[r])
    <3>1. \A k \in Heights : ~ (k <= c) => ~ (k <= committedHeight[r])
      BY <2>3, SMT DEF Heights
    <3> QED BY <2>3, <3>1 DEF Popped
  <2>6. ASSUME restarts' = 0, NEW q \in Relayers, NEW k \in Heights,
               k \in relayed'[q], ~ (k <= committedHeight'[q])
        PROVE  pendingCommits'[q][k] > 0
    <3>1. CASE q # r
      BY <1>0, <2>3, <2>6, <3>1 DEF RelayedIsPending
    <3>2. CASE q = r
      <4>1. ~ (k <= c)
        BY <2>3, <2>6, <3>2
      <4>2. pendingCommits'[r][k] = pushed[k] /\ ~ (k <= committedHeight[r])
        BY <2>5, <4>1
      <4>3. k = h \/ pendingCommits[r][k] > 0
        BY <1>0, <2>6, <3>2, <4>2 DEF RelayedIsPending
      <4> QED BY <2>2, <3>2, <4>2, <4>3
    <3> QED BY <3>1, <3>2
  <2>7. ASSUME NEW q \in Relayers, committedHeight'[q] + 1 \in Heights,
               pendingCommits'[q][committedHeight'[q] + 1] > 0
        PROVE  \E k \in Heights : k <= committedHeight'[q] /\ pendingCommits'[q][k] > 0
    <3>1. CASE q # r
      BY <2>3, <2>7, <3>1 DEF LoopEnded
    <3>2. CASE q = r
      <4>1. c + 1 \in Heights /\ pendingCommits'[r][c + 1] > 0
        BY <2>3, <2>7, <3>2
      <4>2. ~ IsPeek(pendingCommits'[r], c + 1)
        BY <2>1, <2>3 DEF CommitsThrough
      <4>3. PICK k \in Heights : k < c + 1 /\ pendingCommits'[r][k] # 0
        BY <4>1, <4>2 DEF IsPeek
      <4>4. k <= c /\ pendingCommits'[r][k] > 0
        BY <2>3, <2>4, <4>3, SMT DEF Heights
      <4> QED BY <2>3, <3>2, <4>4
    <3> QED BY <3>1, <3>2
  <2>8. RelayedIsPending'
    BY <2>6 DEF RelayedIsPending
  <2>9. LoopEnded'
    BY <2>7 DEF LoopEnded
  <2> QED BY <2>8, <2>9
<1> QED BY <1>1, <1>2

\* Only ProcessHeight and a restart touch what the two facts are about.
LEMMA NextKeepsUp ==
    IInv /\ RelayedIsPending /\ LoopEnded /\ [Next]_vars => RelayedIsPending' /\ LoopEnded'
<1> SUFFICES ASSUME IInv, RelayedIsPending, LoopEnded, [Next]_vars
             PROVE  RelayedIsPending' /\ LoopEnded'
  OBVIOUS
<1>1. CASE UNCHANGED <<committedHeight, pendingCommits, relayed, restarts>>
  BY <1>1 DEF RelayedIsPending, LoopEnded
<1>2. ASSUME NEW r \in Relayers, NEW h \in Heights, ProcessHeight(r, h)
      PROVE  RelayedIsPending' /\ LoopEnded'
  <2>1. \/ /\ Stage(r, h) /\ relayed' = [relayed EXCEPT ![r] = @ \cup {h}]
           /\ UNCHANGED restarts
        \/ UNCHANGED <<committedHeight, pendingCommits, relayed, restarts>>
    BY <1>2 DEF ProcessHeight
  <2> QED BY <1>1, <2>1, StageKeepsUp
<1>3. CASE Restart
  <2>1. restarts' # 0
    <3>1. restarts \in 0 .. MaxRestarts /\ restarts' = restarts + 1
      BY <1>3 DEF Restart, IInv, TypeOK
    <3> QED BY <3>1, BoundsAssumption, SMT
  <2>2. \A r \in Relayers, h \in Heights : pendingCommits'[r][h] = 0
    BY <1>3 DEF Restart, EmptyHeap
  <2>3. LoopEnded'
    BY <2>2, SMT DEF LoopEnded
  <2> QED BY <2>1, <2>3 DEF RelayedIsPending
<1>4. CASE \/ NewBlock \/ DeliverHeader \/ BreakSubscription
           \/ Subscribe \/ CatchUpBegin \/ CatchUpHeader
           \/ ReceiveError \/ ReceiveCatchUpResult \/ Reconnect
           \/ (\E h \in Heights : ProcessBlock(h))
           \/ (\E r \in Relayers : WriteToDatabase(r))
           \/ UNCHANGED vars
  <2>1. UNCHANGED <<committedHeight, pendingCommits, relayed, restarts>>
    BY <1>4 DEF NewBlock, DeliverHeader, BreakSubscription, Subscribe, CatchUpBegin,
                CatchUpHeader, ReceiveError, ReceiveCatchUpResult, Reconnect,
                ProcessBlock, WriteToDatabase, vars, checkpointVars
  <2> QED BY <1>1, <2>1
<1> QED BY <1>2, <1>3, <1>4 DEF Next

\* For every number of relayers and blocks, and however catch-up and the subscription
\* overlap: ProcessHeight's checkpoint falls behind only where a height was staged twice.
THEOREM StallsNeedDuplicates == Spec => []StuckOnlyOnDuplicates
<1>1. Init => RelayedIsPending /\ LoopEnded
  <2> SUFFICES ASSUME Init PROVE RelayedIsPending /\ LoopEnded
    OBVIOUS
  <2>1. \A r \in Relayers : relayed[r] = {}
    BY DEF Init
  <2>2. \A r \in Relayers, h \in Heights : pendingCommits[r][h] = 0
    BY DEF Init, EmptyHeap
  <2>3. LoopEnded
    BY <2>2, SMT DEF LoopEnded
  <2> QED BY <2>1, <2>3 DEF RelayedIsPending
<1>2. IInv /\ RelayedIsPending /\ LoopEnded => StuckOnlyOnDuplicates
  <2> SUFFICES ASSUME TypeOK, RelayedIsPending, LoopEnded, restarts = 0, NEW r \in Relayers,
                      committedHeight[r] + 1 \in relayed[r]
               PROVE  \E k \in Heights : k <= committedHeight[r] /\ pendingCommits[r][k] > 0
    BY DEF IInv, StuckOnlyOnDuplicates
  <2>1. committedHeight[r] + 1 \in Heights /\ committedHeight[r] \in Heights
    BY DEF TypeOK
  <2>2. ~ (committedHeight[r] + 1 <= committedHeight[r])
    BY <2>1, MaxHeightAssumption, SMT DEF Heights
  <2> QED BY <2>1, <2>2 DEF RelayedIsPending, LoopEnded
<1> QED BY <1>1, <1>2, NextKeepsUp, SpecIInv, PTL DEF Spec

------------------------------------------------------------------------------
(* The promise of a checkpoint, kept by the whole process.                  *)

Promise(r) == INSTANCE AbstractCheckpoint WITH
                 processed <- relayed[r],
                 durable <- stored[r],
                 base <- storedOrigin[r]

\* For each relayer the process is an AbstractCheckpoint: its row moves forward only,
\* and only over blocks whose messages that relayer has relayed.
KeepsPromise ==
    /\ \A r \in Relayers : Promise(r)!Init
    /\ [][\A r \in Relayers : [Promise(r)!Next]_(Promise(r)!vars)]_vars

\* A height is never below the one it is counted from.
OriginsBelow ==
    \A r \in Relayers :
        /\ origin[r] <= committedHeight[r]
        /\ stored[r] # NotFound => storedOrigin[r] <= stored[r]

\* Staging only raises the committed height.
LEMMA StageRaises ==
    ASSUME TypeOK, OriginsBelow, NEW r \in Relayers, NEW h \in Heights, Stage(r, h),
           UNCHANGED <<origin, stored, storedOrigin>>
    PROVE  OriginsBelow'
<1> SUFFICES ASSUME NEW q \in Relayers PROVE origin[q] <= committedHeight'[q]
  BY DEF OriginsBelow
<1>1. /\ committedHeight \in [Relayers -> Heights]
      /\ origin[q] \in Heights /\ committedHeight[q] \in Heights
      /\ origin[q] <= committedHeight[q]
  BY DEF TypeOK, OriginsBelow
<1>2. CASE h <= committedHeight[r]
  BY <1>1, <1>2 DEF Stage
<1>3. CASE ~ (h <= committedHeight[r])
  <2>1. PICK c \in committedHeight[r] .. MaxHeight :
           committedHeight' = [committedHeight EXCEPT ![r] = c]
    BY <1>3 DEF Stage
  <2>2. CASE q = r
    <3>1. committedHeight'[q] = c
      BY <1>1, <2>1, <2>2
    <3> QED BY <1>1, <2>2, <3>1, MaxHeightAssumption, SMT DEF Heights
  <2>3. CASE q # r
    BY <1>1, <2>1, <2>3
  <2> QED BY <2>2, <2>3
<1> QED BY <1>2, <1>3

\* A write takes the committed height with its origin, and a restart counts from the
\* row's origin or from its own start.
LEMMA NextOrigins == IInv /\ OriginsBelow /\ [Next]_vars => OriginsBelow'
<1> SUFFICES ASSUME TypeOK, OriginsBelow, [Next]_vars PROVE OriginsBelow'
  BY DEF IInv
<1>1. CASE UNCHANGED <<committedHeight, origin, stored, storedOrigin>>
  BY <1>1 DEF OriginsBelow
<1>2. ASSUME NEW r \in Relayers, NEW h \in Heights, ProcessHeight(r, h) PROVE OriginsBelow'
  BY <1>1, <1>2, StageRaises DEF ProcessHeight
<1>3. ASSUME NEW r \in Relayers, WriteToDatabase(r) PROVE OriginsBelow'
  <2>1. /\ stored' = [stored EXCEPT ![r] = committedHeight[r]]
        /\ storedOrigin' = [storedOrigin EXCEPT ![r] = origin[r]]
        /\ UNCHANGED <<committedHeight, origin>>
    BY <1>3 DEF WriteToDatabase, checkpointVars
  <2> QED BY <2>1 DEF TypeOK, OriginsBelow
<1>4. CASE Restart
  <2> SUFFICES ASSUME NEW r \in Relayers PROVE origin'[r] <= committedHeight'[r]
    BY <1>4 DEF Restart, OriginsBelow
  <2>1. /\ committedHeight'[r] = StartOf(r, stored)
        /\ origin'[r] = IF committedHeight'[r] = stored[r] THEN storedOrigin[r]
                        ELSE committedHeight'[r]
    BY <1>4 DEF Restart
  <2>2. StartOf(r, stored) \in Heights
    BY StartingHeightType, ConfigAssumption DEF StartOf, TypeOK
  <2>3. StartOf(r, stored) # NotFound /\ StartOf(r, stored) <= StartOf(r, stored)
    BY <2>2, MaxHeightAssumption, SMT DEF Heights, NotFound
  <2> QED BY <2>1, <2>3 DEF OriginsBelow
<1>5. CASE \/ NewBlock \/ DeliverHeader \/ BreakSubscription
           \/ Subscribe \/ CatchUpBegin \/ CatchUpHeader
           \/ ReceiveError \/ ReceiveCatchUpResult \/ Reconnect
           \/ (\E h \in Heights : ProcessBlock(h))
           \/ UNCHANGED vars
  <2>1. UNCHANGED <<committedHeight, origin, stored, storedOrigin>>
    BY <1>5 DEF NewBlock, DeliverHeader, BreakSubscription, Subscribe, CatchUpBegin,
                CatchUpHeader, ReceiveError, ReceiveCatchUpResult, Reconnect,
                ProcessBlock, vars, checkpointVars
  <2> QED BY <1>1, <2>1
<1> QED BY <1>2, <1>3, <1>4, <1>5 DEF Next

\* Relaying a block is a Process of the promise and a database write an Advance.
LEMMA StepKeepsPromise ==
    ASSUME IInv, OriginsBelow, [Next]_vars, NEW r \in Relayers
    PROVE  [Promise(r)!Next]_(Promise(r)!vars)
<1>0. /\ stored \in [Relayers -> Heights \cup {NotFound}]
      /\ storedOrigin \in [Relayers -> Heights]
      /\ committedHeight \in [Relayers -> Heights]
      /\ origin \in [Relayers -> Heights]
      /\ relayed \in [Relayers -> SUBSET Heights]
      /\ Promise(r)!Heights = Heights
  BY DEF IInv, TypeOK, Promise!Heights, Heights
<1>1. CASE UNCHANGED <<relayed, stored, storedOrigin>>
  BY <1>1 DEF Promise!vars
<1>2. ASSUME NEW q \in Relayers, NEW h \in Heights, ProcessHeight(q, h)
      PROVE  [Promise(r)!Next]_(Promise(r)!vars)
  <2>1. /\ UNCHANGED <<stored, storedOrigin>>
        /\ relayed' = [relayed EXCEPT ![q] = @ \cup {h}] \/ relayed' = relayed
    BY <1>2 DEF ProcessHeight
  <2>2. CASE relayed'[r] = relayed[r]
    BY <2>1, <2>2 DEF Promise!vars
  <2>3. CASE relayed'[r] = relayed[r] \cup {h}
    <3>1. Promise(r)!Process(h)
      BY <2>1, <2>3 DEF Promise!Process
    <3> QED BY <1>0, <3>1 DEF Promise!Next
  <2> QED BY <1>0, <2>1, <2>2, <2>3
<1>3. ASSUME NEW q \in Relayers, WriteToDatabase(q)
      PROVE  [Promise(r)!Next]_(Promise(r)!vars)
  <2>1. /\ WriteAllowed(committedHeight[q], stored[q])
        /\ stored' = [stored EXCEPT ![q] = committedHeight[q]]
        /\ storedOrigin' = [storedOrigin EXCEPT ![q] = origin[q]]
        /\ UNCHANGED relayed
    BY <1>3 DEF WriteToDatabase
  <2>2. CASE q # r
    <3>1. stored'[r] = stored[r] /\ storedOrigin'[r] = storedOrigin[r]
      BY <1>0, <2>1, <2>2
    <3> QED BY <2>1, <3>1 DEF Promise!vars
  <2>3. CASE q = r
    <3>1. stored'[r] = committedHeight[r] /\ storedOrigin'[r] = origin[r]
      BY <1>0, <2>1, <2>3
    <3>2. stored[r] < committedHeight[r]
      <4>1. stored[r] \in Heights \cup {NotFound} /\ committedHeight[r] \in Heights
        BY <1>0
      <4> QED BY <2>1, <2>3, <4>1, MaxHeightAssumption, SMT DEF WriteAllowed, Heights, NotFound
    <3>3. Promise(r)!Advance(origin[r], committedHeight[r])
      BY <2>1, <3>1, <3>2 DEF Promise!Advance, IInv, Covered, OriginsBelow
    <3> QED BY <1>0, <3>3 DEF Promise!Next
  <2> QED BY <2>2, <2>3
<1>4. CASE \/ NewBlock \/ DeliverHeader \/ BreakSubscription
           \/ Subscribe \/ CatchUpBegin \/ CatchUpHeader
           \/ ReceiveError \/ ReceiveCatchUpResult \/ Reconnect
           \/ (\E h \in Heights : ProcessBlock(h))
           \/ Restart \/ UNCHANGED vars
  <2>1. UNCHANGED <<relayed, stored, storedOrigin>>
    BY <1>4 DEF NewBlock, DeliverHeader, BreakSubscription, Subscribe, CatchUpBegin,
                CatchUpHeader, ReceiveError, ReceiveCatchUpResult, Reconnect,
                ProcessBlock, Restart, vars
  <2> QED BY <1>1, <2>1
<1> QED BY <1>2, <1>3, <1>4 DEF Next

\* From the subscription to the database: for every relayer, whatever is missed, fails
\* or is dispatched twice and whenever the process restarts, the row in the database
\* never decreases and passes only blocks that the relayer has relayed.
THEOREM ProcessKeepsPromise == Spec => KeepsPromise
<1>1. Init => \A r \in Relayers : Promise(r)!Init
  BY DEF Init, Promise!Init, NotFound
<1>2. Init => OriginsBelow
  <2> SUFFICES ASSUME Init PROVE OriginsBelow
    OBVIOUS
  <2>1. IInv
    BY InitIInv
  <2>2. \A r \in Relayers : origin[r] = committedHeight[r] /\ origin[r] \in Heights
    BY <2>1 DEF Init, IInv, TypeOK
  <2>3. \A r \in Relayers : origin[r] <= committedHeight[r]
    BY <2>2, MaxHeightAssumption, SMT DEF Heights
  <2> QED BY <2>3 DEF Init, OriginsBelow
<1>3. IInv /\ OriginsBelow /\ [Next]_vars =>
         [\A r \in Relayers : [Promise(r)!Next]_(Promise(r)!vars)]_vars
  BY StepKeepsPromise
<1> QED BY <1>1, <1>2, <1>3, NextOrigins, SpecIInv, PTL DEF Spec, KeepsPromise
===============================================================================
