----------------------------- MODULE CheckpointOps -----------------------------
(***************************************************************************)
(* The computations of relayer/checkpoint and of the choice of a starting  *)
(* height (database/utils.go, relayer/main/main.go), as operators shared   *)
(* by CheckpointManager and RelayerProcess.                                *)
(***************************************************************************)
EXTENDS Integers

CONSTANT MaxHeight     \* bound: the chain stays below it

ASSUME MaxHeightAssumption == MaxHeight \in Nat \ {0}

Heights == 0 .. MaxHeight
NotFound == -1         \* the database row is missing (IsKeyNotFoundError)

\* A heap of heights is modelled as a bag: the number of copies of each height.
EmptyHeap == [h \in Heights |-> 0]
Push(heap, h) == [heap EXCEPT ![h] = @ + 1]
Pop(heap, h) == [heap EXCEPT ![h] = @ - 1]

\* pendingCommits.Peek() = h
IsPeek(heap, h) ==
    /\ h \in Heights
    /\ heap[h] > 0
    /\ \A k \in Heights : k < h => heap[k] = 0

\* The heap once one copy of each height in from+1 .. to has been popped.
Popped(heap, from, to) ==
    [h \in Heights |-> IF from < h /\ h <= to THEN heap[h] - 1 ELSE heap[h]]

\* Mutant: the loop pops whatever the minimum is, next height or not.
CommitsThroughAnyMinimum(heap, from, to) ==
    /\ \A h \in from .. to - 1 : \E k \in h + 1 .. MaxHeight : IsPeek(Popped(heap, from, h), k)
    /\ ~ \E k \in Heights : k > to /\ IsPeek(Popped(heap, from, to), k)

\* Mutant: the loop is an if, it commits one height at most.
CommitsThroughOnce(heap, from, to) ==
    to = IF IsPeek(heap, from + 1) THEN from + 1 ELSE from

\* Started with committedHeight = from, the loop ends with committedHeight = to:
\* its condition holds before every iteration and fails after the last.
CommitsThrough(heap, from, to) ==
    /\ \A h \in from .. to - 1 : IsPeek(Popped(heap, from, h), h + 1)
    /\ ~ IsPeek(Popped(heap, from, to), to + 1)

\* Mutant: the comparison with the stored height is missing.
WriteAllowedAlways(committed, inDb) ==
    committed # 0 /\ committed # inDb

\* writeToDatabase skips a height of zero and one that is not ahead of the
\* database, where a missing row reads as zero.
WriteAllowed(committed, inDb) ==
    LET storedHeight == IF inDb = NotFound THEN 0 ELSE inDb
    IN  committed # 0 /\ storedHeight < committed

\* Without a row, the configured height or else the chain head; otherwise the
\* later of the row and the configured height.
CalculateStartingBlockHeight(inDb, historical, current) ==
    IF inDb = NotFound
    THEN IF historical = 0 THEN current ELSE historical
    ELSE IF inDb > historical THEN inDb ELSE historical

\* The height given to NewCheckpointManager; without process-missed-blocks it
\* is the block after the chain head.
StartingHeight(processMissed, inDb, historical, current) ==
    IF processMissed
    THEN CalculateStartingBlockHeight(inDb, historical, current)
    ELSE current + 1
===============================================================================
