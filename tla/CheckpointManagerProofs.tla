------------------------ MODULE CheckpointManagerProofs ------------------------
(***************************************************************************)
(* Proofs about CheckpointManager, for every MaxHeight and MaxCopies.      *)
(***************************************************************************)
EXTENDS CheckpointManager, TLAPS

\* Leaves are first-order and go to Zenon; those with arithmetic, and the larger ones, name SMT.
USE Zenon

\* The commit loop of StageCommittedHeight pops only heights that are in the
\* heap, so the heap stays a bag of heights.
LEMMA LoopPopsPending ==
    ASSUME NEW heap \in [Heights -> Nat], NEW from \in Heights, NEW to \in from .. MaxHeight,
           CommitsThrough(heap, from, to)
    PROVE  /\ \A h \in (from + 1) .. to : h \in Heights /\ heap[h] > 0
           /\ Popped(heap, from, to) \in [Heights -> Nat]
           /\ \A h \in Heights : Popped(heap, from, to)[h] <= heap[h]
<1> USE MaxHeightAssumption DEF Heights
<1>1. ASSUME NEW h \in (from + 1) .. to
      PROVE  h \in Heights /\ heap[h] > 0
  <2>1. /\ h - 1 \in from .. to - 1
        /\ h \in Heights
        /\ (h - 1) + 1 = h
    BY SMT
  <2>2. IsPeek(Popped(heap, from, h - 1), h)
    BY <2>1 DEF CommitsThrough
  <2>3. Popped(heap, from, h - 1)[h] = heap[h]
    BY <2>1, SMT DEF Popped
  <2> QED BY <2>1, <2>2, <2>3 DEF IsPeek
<1>2. ASSUME NEW h \in Heights
      PROVE  /\ Popped(heap, from, to)[h] \in Nat
             /\ Popped(heap, from, to)[h] <= heap[h]
  <2>1. CASE from < h /\ h <= to
    <3>1. h \in (from + 1) .. to /\ heap[h] \in Nat
      BY <2>1, SMT
    <3>2. heap[h] > 0
      BY <1>1, <3>1
    <3> QED BY <2>1, <3>1, <3>2, SMT DEF Popped
  <2>2. CASE ~ (from < h /\ h <= to)
    BY <2>2, SMT DEF Popped
  <2> QED BY <2>1, <2>2
<1>3. Popped(heap, from, to) \in [Heights -> Nat]
  BY <1>2 DEF Popped
<1> QED BY <1>1, <1>2, <1>3

\* Whatever the configuration, the starting height is a height of the model.
LEMMA StartingHeightType ==
    ASSUME NEW inDb \in Heights \cup {NotFound}, NEW historical \in Heights,
           NEW current \in 0 .. MaxHeight - 1, NEW processMissed \in BOOLEAN
    PROVE  StartingHeight(processMissed, inDb, historical, current) \in Heights
BY MaxHeightAssumption, SMT DEF Heights, NotFound, StartingHeight, CalculateStartingBlockHeight

\* The initial states satisfy the inductive invariant.
LEMMA InitIInv == Init => IInv
<1> SUFFICES ASSUME Init PROVE IInv
  OBVIOUS
<1> USE MaxHeightAssumption DEF Init
<1>1. committedHeight \in Heights
  <2>1. PICK processMissed \in BOOLEAN, historical \in Heights :
           committedHeight = StartingHeight(processMissed, NotFound, historical, head)
    OBVIOUS
  <2>2. NotFound \in Heights \cup {NotFound} /\ head \in 0 .. MaxHeight - 1
    OBVIOUS
  <2> QED BY <2>1, <2>2, StartingHeightType
<1>2. TypeOK
  BY <1>1, SMT DEF TypeOK, EmptyHeap, Heights
<1>3. CommittedCovered
  BY <1>1, SMT DEF CommittedCovered, Heights
<1>4. StoredCovered /\ PendingProcessed /\ OriginsBelow
  BY <1>1, SMT DEF StoredCovered, PendingProcessed, OriginsBelow, EmptyHeap, Heights
<1> QED BY <1>2, <1>3, <1>4 DEF IInv

\* Staging a height preserves the inductive invariant.
LEMMA StageIInv ==
    ASSUME IInv, NEW h \in Heights, StageCommittedHeight(h)
    PROVE  IInv'
<1> USE MaxHeightAssumption DEF IInv, TypeOK
<1>0. /\ processed' = processed \cup {h}
      /\ UNCHANGED <<head, stored, origin, storedOrigin>>
  BY DEF StageCommittedHeight
<1>1. StoredCovered'
  BY <1>0 DEF StoredCovered
<1>2. CASE h <= committedHeight
  <2>1. UNCHANGED <<committedHeight, pendingCommits>>
    BY <1>2 DEF StageCommittedHeight
  <2> QED
    BY <1>0, <1>1, <2>1 DEF CommittedCovered, PendingProcessed, OriginsBelow, Heights
<1>3. CASE ~ (h <= committedHeight)
  <2> DEFINE pushed == Push(pendingCommits, h)
  <2>1. PICK c \in committedHeight .. MaxHeight :
           /\ CommitsThrough(pushed, committedHeight, c)
           /\ committedHeight' = c
           /\ pendingCommits' = Popped(pushed, committedHeight, c)
    BY <1>3 DEF StageCommittedHeight
  <2>2. /\ pushed \in [Heights -> Nat]
        /\ \A k \in Heights : pushed[k] > 0 => k \in processed'
    BY <1>0, SMT DEF PendingProcessed, Push
  <2> HIDE DEF pushed
  <2>3. /\ \A k \in (committedHeight + 1) .. c : k \in Heights /\ pushed[k] > 0
        /\ pendingCommits' \in [Heights -> Nat]
        /\ \A k \in Heights : pendingCommits'[k] <= pushed[k]
    BY <2>1, <2>2, LoopPopsPending
  <2>4. TypeOK'
    BY <1>0, <2>1, <2>3, SMTT(30) DEF Heights
  <2>5. CommittedCovered'
    <3>1. (committedHeight + 1) .. c \subseteq processed'
      BY <2>2, <2>3
    <3>2. (origin + 1) .. committedHeight \subseteq processed'
      BY <1>0 DEF CommittedCovered
    <3> QED BY <1>0, <2>1, <3>1, <3>2, SMT DEF CommittedCovered, Heights
  <2>6. PendingProcessed'
    BY <2>2, <2>3, SMT DEF PendingProcessed
  <2>7. OriginsBelow'
    BY <1>0, <2>1, SMT DEF OriginsBelow, Heights
  <2> QED BY <1>1, <2>4, <2>5, <2>6, <2>7
<1> QED BY <1>2, <1>3

\* A restart preserves the inductive invariant: a run that resumes from the
\* database inherits what the database covers, any other run starts afresh.
LEMMA RestartIInv ==
    ASSUME IInv, NEW processMissed \in BOOLEAN, NEW historical \in Heights,
           Restart(processMissed, historical)
    PROVE  IInv'
<1> DEFINE start == StartingHeight(processMissed, stored, historical, head)
<1>1. start \in Heights
  BY StartingHeightType DEF IInv, TypeOK
<1>2. /\ committedHeight' = start
      /\ pendingCommits' = EmptyHeap
      /\ origin' = IF start = stored THEN storedOrigin ELSE start
      /\ UNCHANGED <<head, stored, processed, storedOrigin>>
  BY DEF Restart
<1> HIDE DEF start
<1> USE MaxHeightAssumption DEF IInv, Heights, NotFound
<1>3. TypeOK'
  BY <1>1, <1>2 DEF TypeOK, EmptyHeap
<1>4. CommittedCovered' /\ OriginsBelow'
  <2>1. CASE start = stored
    BY <1>1, <1>2, <2>1, SMT DEF TypeOK, CommittedCovered, StoredCovered, OriginsBelow
  <2>2. CASE start # stored
    BY <1>1, <1>2, <2>2, SMT DEF TypeOK, CommittedCovered, OriginsBelow
  <2> QED BY <2>1, <2>2
<1>5. StoredCovered' /\ PendingProcessed'
  BY <1>2, SMT DEF StoredCovered, PendingProcessed, EmptyHeap
<1> QED BY <1>3, <1>4, <1>5

\* Every step preserves the inductive invariant.
LEMMA NextIInv == IInv /\ [Next]_vars => IInv'
<1> SUFFICES ASSUME IInv, [Next]_vars PROVE IInv'
  OBVIOUS
<1> USE MaxHeightAssumption
<1>1. CASE NewBlock
  BY <1>1, SMT DEF NewBlock, IInv, TypeOK, CommittedCovered, StoredCovered,
              PendingProcessed, OriginsBelow
<1>2. CASE \E h \in Heights : StageCommittedHeight(h)
  BY <1>2, StageIInv
<1>3. CASE WriteToDatabase
  BY <1>3 DEF WriteToDatabase, IInv, TypeOK, CommittedCovered, StoredCovered,
              PendingProcessed, OriginsBelow
<1>4. CASE \E processMissed \in BOOLEAN, historical \in Heights :
              Restart(processMissed, historical)
  BY <1>4, RestartIInv
<1>5. CASE UNCHANGED vars
  BY <1>5 DEF vars, IInv, TypeOK, CommittedCovered, StoredCovered,
              PendingProcessed, OriginsBelow
<1> QED BY <1>1, <1>2, <1>3, <1>4, <1>5 DEF Next

\* The inductive invariant holds in every reachable state.
THEOREM Invariance == Spec => []IInv
BY InitIInv, NextIInv, PTL DEF Spec

\* Type correctness of the checkpoint manager.
THEOREM TypeCorrect == Spec => []TypeOK
<1>1. IInv => TypeOK
  BY DEF IInv
<1> QED BY <1>1, Invariance, PTL

\* StageCommittedHeight commits heights in sequence: no height is committed
\* before every height since the start of the run has been processed.
THEOREM CommitsInSequence == Spec => []CommittedCovered
<1>1. IInv => CommittedCovered
  BY DEF IInv
<1> QED BY <1>1, Invariance, PTL

\* What writeToDatabase stores never passes an unprocessed height, across
\* restarts and configuration changes.
THEOREM StoredIsCovered == Spec => []StoredCovered
<1>1. IInv => StoredCovered
  BY DEF IInv
<1> QED BY <1>1, Invariance, PTL

\* writeToDatabase never moves the stored height backwards.
THEOREM StoredMonotone == Spec => StoredNeverDecreases
<1>1. IInv /\ [Next]_vars => [stored' >= stored]_vars
  <2> SUFFICES ASSUME IInv, Next PROVE stored' >= stored
    OBVIOUS
  <2> USE MaxHeightAssumption DEF IInv, TypeOK, Heights, NotFound
  <2>1. CASE WriteToDatabase
    BY <2>1, SMT DEF WriteToDatabase, WriteAllowed
  <2>2. CASE ~ WriteToDatabase
    <3>1. stored' = stored
      BY <2>2 DEF Next, NewBlock, StageCommittedHeight, Restart
    <3> QED BY <3>1, SMT
  <2> QED BY <2>1, <2>2
<1> QED BY <1>1, Invariance, PTL DEF Spec, StoredNeverDecreases

\* The manager, its database row and its restarts implement AbstractCheckpoint:
\* each write is an Advance over processed heights, each staged height a
\* Process, and everything else leaves the promise's state alone.
THEOREM Refinement == Spec => AbstractSpec
<1>1. Init => Abstract!Init
  BY DEF Init, Abstract!Init, NotFound
<1>2. IInv /\ [Next]_vars => [Abstract!Next]_(Abstract!vars)
  <2> SUFFICES ASSUME IInv, [Next]_vars
               PROVE  Abstract!Next \/ UNCHANGED Abstract!vars
    OBVIOUS
  <2> USE MaxHeightAssumption
  <2>1. ASSUME NEW h \in Heights, StageCommittedHeight(h)
        PROVE  Abstract!Next
    <3>1. Abstract!Process(h)
      BY <2>1 DEF StageCommittedHeight, Abstract!Process
    <3> QED BY <3>1 DEF Abstract!Next, Abstract!Heights, Heights
  <2>2. CASE WriteToDatabase
    <3>1. /\ stored < committedHeight
          /\ origin \in Heights /\ committedHeight \in Heights
      BY <2>2, SMT DEF WriteToDatabase, WriteAllowed, IInv, TypeOK, Heights, NotFound
    <3>2. Abstract!Advance(origin, committedHeight)
      BY <2>2, <3>1 DEF WriteToDatabase, Abstract!Advance, IInv, CommittedCovered, OriginsBelow
    <3> QED BY <3>1, <3>2 DEF Abstract!Next, Abstract!Heights, Heights
  <2>3. CASE NewBlock \/ (\E processMissed \in BOOLEAN, historical \in Heights :
                             Restart(processMissed, historical))
    BY <2>3 DEF NewBlock, Restart, Abstract!vars
  <2>4. CASE UNCHANGED vars
    BY <2>4 DEF vars, Abstract!vars
  <2> QED BY <2>1, <2>2, <2>3, <2>4 DEF Next
<1> QED BY <1>1, <1>2, Invariance, PTL DEF Spec, AbstractSpec, Abstract!Spec
------------------------------------------------------------------------------
(* What stops the checkpoint.                                               *)

\* No height has more copies in the heap than are staged.
BoundedCopies == \A h \in Heights : pendingCommits[h] <= MaxCopies

\* Without second copies, nothing that is committed is still in the heap.
NoneLeftBehind ==
    MaxCopies = 1 => \A h \in Heights : h <= committedHeight => pendingCommits[h] = 0

StallInv == BoundedCopies /\ NoneLeftBehind /\ StallsOnlyOnDuplicates

\* The loop ends only when the next height is not at the top of the heap, and it
\* pops one copy of each height it commits.
LEMMA StageStall ==
    ASSUME IInv, StallInv, NEW h \in Heights, StageCommittedHeight(h)
    PROVE  StallInv'
<1> USE MaxHeightAssumption, MaxCopiesAssumption DEF IInv, TypeOK
<1>1. CASE h <= committedHeight
  <2>1. UNCHANGED <<committedHeight, pendingCommits>>
    BY <1>1 DEF StageCommittedHeight
  <2> QED BY <2>1 DEF StallInv, BoundedCopies, NoneLeftBehind, StallsOnlyOnDuplicates, Stalled
<1>2. CASE ~ (h <= committedHeight)
  <2> DEFINE pushed == Push(pendingCommits, h)
  <2>1. PICK c \in committedHeight .. MaxHeight :
           /\ CommitsThrough(pushed, committedHeight, c)
           /\ committedHeight' = c
           /\ pendingCommits' = Popped(pushed, committedHeight, c)
    BY <1>2 DEF StageCommittedHeight
  <2>2. /\ pushed \in [Heights -> Nat]
        /\ \A k \in Heights : pushed[k] <= MaxCopies
        /\ \A k \in Heights : k <= committedHeight => pushed[k] = pendingCommits[k]
    <3>1. pendingCommits[h] < MaxCopies
      BY <1>2 DEF StageCommittedHeight
    <3> QED BY <1>2, <3>1, SMT DEF StallInv, BoundedCopies, Push, Heights
  <2> HIDE DEF pushed
  <2>3. \A k \in (committedHeight + 1) .. c : k \in Heights /\ pushed[k] > 0
    BY <2>1, <2>2, LoopPopsPending
  <2>4. \A k \in Heights : pendingCommits'[k] =
           IF committedHeight < k /\ k <= c THEN pushed[k] - 1 ELSE pushed[k]
    BY <2>1 DEF Popped
  <2>5. BoundedCopies'
    BY <2>2, <2>4, SMT DEF BoundedCopies
  <2>6. NoneLeftBehind'
    <3> SUFFICES ASSUME MaxCopies = 1, NEW k \in Heights, k <= c
                 PROVE  pendingCommits'[k] = 0
      BY <2>1 DEF NoneLeftBehind
    <3>1. CASE k <= committedHeight
      <4>1. pendingCommits[k] = 0
        BY <3>1 DEF StallInv, NoneLeftBehind
      <4>2. pushed[k] = pendingCommits[k]
        BY <2>2, <3>1
      <4>3. ~ (committedHeight < k)
        BY <3>1, SMT DEF Heights
      <4>4. pendingCommits'[k] = pushed[k]
        BY <2>4, <4>3
      <4> QED BY <4>1, <4>2, <4>4
    <3>2. CASE committedHeight < k
      <4>1. k \in (committedHeight + 1) .. c
        BY <3>2, SMT DEF Heights
      <4>2. pushed[k] > 0
        BY <2>3, <4>1
      <4>3. pushed[k] \in Nat /\ pushed[k] <= 1
        BY <2>2
      <4> QED BY <2>4, <3>2, <4>2, <4>3, SMT
    <3> QED BY <3>1, <3>2, SMT DEF Heights
  <2>7. StallsOnlyOnDuplicates'
    <3> SUFFICES ASSUME c + 1 \in Heights, pendingCommits'[c + 1] > 0
                 PROVE  \E k \in Heights : k <= c /\ pendingCommits'[k] > 0
      BY <2>1 DEF StallsOnlyOnDuplicates, Stalled
    <3>1. ~ IsPeek(pendingCommits', c + 1)
      BY <2>1 DEF CommitsThrough
    <3>2. PICK k \in Heights : k < c + 1 /\ pendingCommits'[k] # 0
      BY <3>1 DEF IsPeek
    <3>3. pendingCommits'[k] \in Nat
      <4>1. pushed[k] \in Nat /\ (committedHeight < k /\ k <= c => pushed[k] > 0)
        BY <2>2, <2>3, SMT DEF Heights
      <4> QED BY <2>4, <4>1, SMT
    <3> QED BY <3>2, <3>3, SMT DEF Heights
  <2> QED BY <2>5, <2>6, <2>7 DEF StallInv
<1> QED BY <1>1, <1>2

\* A new heap is empty, and no other step touches the heap or the committed height.
LEMMA NextStall == IInv /\ StallInv /\ [Next]_vars => StallInv'
<1> SUFFICES ASSUME IInv, StallInv, [Next]_vars PROVE StallInv'
  OBVIOUS
<1>1. CASE \E h \in Heights : StageCommittedHeight(h)
  BY <1>1, StageStall
<1>2. CASE \E processMissed \in BOOLEAN, historical \in Heights : Restart(processMissed, historical)
  <2>1. pendingCommits' = EmptyHeap
    BY <1>2 DEF Restart
  <2> QED BY <2>1, MaxCopiesAssumption, SMT
          DEF StallInv, BoundedCopies, NoneLeftBehind, StallsOnlyOnDuplicates, Stalled, EmptyHeap
<1>3. CASE UNCHANGED <<committedHeight, pendingCommits>>
  BY <1>3 DEF StallInv, BoundedCopies, NoneLeftBehind, StallsOnlyOnDuplicates, Stalled
<1> QED BY <1>1, <1>2, <1>3 DEF Next, NewBlock, WriteToDatabase, vars

\* StallInv holds in every reachable state.
LEMMA SpecStall == Spec => []StallInv
<1>1. Init => StallInv
  BY MaxCopiesAssumption, SMT
     DEF Init, StallInv, BoundedCopies, NoneLeftBehind, StallsOnlyOnDuplicates, Stalled, EmptyHeap
<1> QED BY <1>1, NextStall, Invariance, PTL DEF Spec

\* StageCommittedHeight leaves the next height in the heap only behind a duplicate of
\* a committed one.
THEOREM StallsBehindDuplicates == Spec => []StallsOnlyOnDuplicates
<1>1. StallInv => StallsOnlyOnDuplicates
  BY DEF StallInv
<1> QED BY <1>1, SpecStall, PTL

\* If no height is staged again while it is pending, StageCommittedHeight commits
\* every height as soon as it can: the duplicates are the only reason for a stall.
THEOREM NoDuplicatesNoStall == MaxCopies = 1 => (Spec => []~ Stalled)
<1> SUFFICES ASSUME MaxCopies = 1 PROVE Spec => []~ Stalled
  OBVIOUS
<1>1. StallInv => ~ Stalled
  BY SMT DEF StallInv, NoneLeftBehind, StallsOnlyOnDuplicates
<1> QED BY <1>1, SpecStall, PTL
===============================================================================
