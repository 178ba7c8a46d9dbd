--------------------------- MODULE CheckpointManager ---------------------------
(***************************************************************************)
(* relayer/checkpoint: the CheckpointManager of ONE application relayer,   *)
(* with the database row it writes and the choice of a starting height     *)
(* when the process (re)starts (database/utils.go, relayer/main/main.go).  *)
(*                                                                         *)
(* Both operations of the manager hold its lock from start to end, so each *)
(* is one action.  A failing database Get or Put changes nothing and is a  *)
(* stuttering step; a Put that fails after it took effect looks like       *)
(* WriteToDatabase.                                                        *)
(***************************************************************************)
EXTENDS CheckpointOps

CONSTANT MaxCopies     \* bound: copies of one height in the heap

ASSUME MaxCopiesAssumption == MaxCopies \in Nat \ {0}

VARIABLES
    head,              \* height of the source chain
    committedHeight,   \* cm.committedHeight, in memory
    pendingCommits,    \* cm.pendingCommits, the heap as a bag: copies of each height
    stored,            \* LatestProcessedBlockKey in the database, or NotFound
    processed,         \* history: heights handed to StageCommittedHeight, in any run
    origin,            \* history: the height from which committedHeight was counted
    storedOrigin       \* history: the same for stored

vars == <<head, committedHeight, pendingCommits, stored, processed, origin, storedOrigin>>

-------------------------------------------------------------------------------
Init ==
    /\ head \in 0 .. MaxHeight - 1
    /\ \E processMissed \in BOOLEAN, historical \in Heights :
          committedHeight = StartingHeight(processMissed, NotFound, historical, head)
    /\ pendingCommits = EmptyHeap
    /\ stored = NotFound
    /\ processed = {}
    /\ origin = committedHeight
    /\ storedOrigin = 0

\* The source chain accepts a block.
NewBlock ==
    /\ head + 1 < MaxHeight
    /\ head' = head + 1
    /\ UNCHANGED <<committedHeight, pendingCommits, stored, processed, origin, storedOrigin>>

\* ProcessHeight has relayed every message of block h and stages it.
StageCommittedHeight(h) ==
    /\ h <= head
    /\ processed' = processed \cup {h}
    /\ IF h <= committedHeight
       THEN UNCHANGED <<committedHeight, pendingCommits>>
       ELSE /\ pendingCommits[h] < MaxCopies
            /\ LET pushed == Push(pendingCommits, h)
               IN  \E c \in committedHeight .. MaxHeight :
                      /\ CommitsThrough(pushed, committedHeight, c)
                      /\ committedHeight' = c
                      /\ pendingCommits' = Popped(pushed, committedHeight, c)
    /\ UNCHANGED <<head, stored, origin, storedOrigin>>

\* writeToDatabase, on a tick of the write ticker.
WriteToDatabase ==
    /\ WriteAllowed(committedHeight, stored)
    /\ stored' = committedHeight
    /\ storedOrigin' = origin
    /\ UNCHANGED <<head, committedHeight, pendingCommits, processed, origin>>

\* The process stops at any point and is started again, perhaps with another
\* configuration: what is in memory is rebuilt from the database.
Restart(processMissed, historical) ==
    LET start == StartingHeight(processMissed, stored, historical, head)
    IN  /\ committedHeight' = start
        /\ pendingCommits' = EmptyHeap
        /\ origin' = IF start = stored THEN storedOrigin ELSE start
        /\ UNCHANGED <<head, stored, processed, storedOrigin>>

Next ==
    \/ NewBlock
    \/ \E h \in Heights : StageCommittedHeight(h)
    \/ WriteToDatabase
    \/ \E processMissed \in BOOLEAN, historical \in Heights : Restart(processMissed, historical)

Spec == Init /\ [][Next]_vars

-------------------------------------------------------------------------------
\* The type invariant.
TypeOK ==
    /\ head \in 0 .. MaxHeight - 1
    /\ committedHeight \in Heights
    /\ pendingCommits \in [Heights -> Nat]
    /\ stored \in Heights \cup {NotFound}
    /\ processed \subseteq Heights
    /\ origin \in Heights
    /\ storedOrigin \in Heights

\* Heights are committed in sequence: whatever the order in which blocks finish
\* and however often the process restarts, StageCommittedHeight never counts a
\* height as committed before every height since the start has been processed.
CommittedCovered == (origin + 1) .. committedHeight \subseteq processed

\* The same for the height in the database, from which the next run resumes.
StoredCovered == stored # NotFound => (storedOrigin + 1) .. stored \subseteq processed

\* The next height waits in the heap.
Stalled == committedHeight + 1 \in Heights /\ pendingCommits[committedHeight + 1] > 0

\* The loop of StageCommittedHeight leaves a height that could be committed in the
\* heap only behind a second copy of a height that is committed already.
StallsOnlyOnDuplicates ==
    Stalled => \E k \in Heights : k <= committedHeight /\ pendingCommits[k] > 0

\* A height waits in the heap only if its block was processed.
PendingProcessed == \A h \in Heights : pendingCommits[h] > 0 => h \in processed

\* The origins never lie above the heights counted from them.
OriginsBelow ==
    /\ origin <= committedHeight
    /\ stored # NotFound => storedOrigin <= stored

\* The inductive invariant: StoredCovered survives a restart because the new
\* origin is the stored one, and CommittedCovered survives a commit because the
\* popped heights were processed when they were staged.
IInv == TypeOK /\ CommittedCovered /\ StoredCovered /\ PendingProcessed /\ OriginsBelow

\* writeToDatabase never moves the stored height backwards, even when a changed
\* configuration restarts the manager below it.
StoredNeverDecreases == [][stored' >= stored]_vars

Abstract == INSTANCE AbstractCheckpoint WITH durable <- stored, base <- storedOrigin

\* The manager and its restarts implement the abstract promise.
AbstractSpec == Abstract!Spec
===============================================================================
