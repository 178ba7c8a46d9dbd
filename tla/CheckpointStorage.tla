-------------------------- MODULE CheckpointStorage --------------------------
(***************************************************************************)
(* How committed heights reach the disk: the write ticker                  *)
(* (utils/ticker.go), the goroutine of each checkpoint manager             *)
(* (relayer/checkpoint/checkpoint.go) and the JSON file storage            *)
(* (database/json_file_storage.go), from the creation of the managers      *)
(* (relayer/main/main.go) on, with crashes at every step.                  *)
(*                                                                         *)
(* A checkpoint manager has a relayer ID; a configuration that lists an    *)
(* address twice creates two managers with the same ID, of which only the  *)
(* later one is given heights.                                             *)
(***************************************************************************)
EXTENDS CheckpointOps, Sequences, FiniteSets

CONSTANTS
    Managers,       \* checkpoint managers
    IDs,            \* relayer IDs
    IDOf,           \* the relayer ID of each manager
    Order,          \* the managers in the order main creates them
    MaxRestarts,    \* bound: restarts of the process
    MaxFailures     \* bound: file operations that fail

ASSUME ManagersAssumption ==
    /\ IDOf \in [Managers -> IDs]
    /\ Order \in Seq(Managers)
    /\ \A m \in Managers : \E i \in 1 .. Len(Order) : Order[i] = m
    /\ \A i, j \in 1 .. Len(Order) : Order[i] = Order[j] => i = j
ASSUME StorageBoundsAssumption == MaxRestarts \in Nat /\ MaxFailures \in Nat

VARIABLES
    file,           \* <relayerID>.json; NotFound when it does not exist
    tmp,            \* <relayerID>.json.tmp
    currentState,   \* JSONFileStorage.currentState
    committedHeight,
    pc,             \* where each manager, or its creation, is
    subscriptions,  \* Ticker.subscriptions, as managers
    sending,        \* index of the subscription Run is sending to, 0 when the
                    \* ticker's lock is free
    process,        \* "starting", "running" or "down"
    processMissed,  \* process-missed-blocks of this run
    currentHeight,  \* the chain head main read; the node it asked may lag
    restarts, failures

diskVars == <<file, tmp>>
tickerVars == <<subscriptions, sending>>
configVars == <<processMissed, currentHeight>>
processVars == <<process, configVars, restarts>>
vars == <<diskVars, currentState, committedHeight, pc, tickerVars, processVars, failures>>

Torn == -2              \* a file that is not valid JSON
Contents == Heights \cup {NotFound, Torn}

\* What a manager does with its relayer ID's mutex write-locked (Put).
PutSteps == {"write", "rename"}
\* What it does with its own lock read-locked (writeToDatabase).
WriteSteps == {"get", "put"} \cup PutSteps
\* Creation: "none", starting height known, subscribed; then "waiting" for a tick.
States == {"none", "created", "subscribed", "waiting"} \cup WriteSteps

TypeOK ==
    /\ file \in [IDs -> Contents]
    /\ tmp \in [IDs -> Contents]
    /\ currentState \in [IDs -> Heights \cup {NotFound}]
    /\ committedHeight \in [Managers -> Heights]
    /\ pc \in [Managers -> States]
    /\ subscriptions \in Seq(Managers)
    /\ sending \in 0 .. Len(subscriptions)
    /\ process \in {"starting", "running", "down"}
    /\ processMissed \in BOOLEAN
    /\ currentHeight \in 0 .. MaxHeight - 1
    /\ restarts \in 0 .. MaxRestarts
    /\ failures \in 0 .. MaxFailures

Init ==
    /\ file = [id \in IDs |-> NotFound]
    /\ tmp = [id \in IDs |-> NotFound]
    /\ currentState = [id \in IDs |-> NotFound]
    /\ committedHeight = [m \in Managers |-> 0]
    /\ pc = [m \in Managers |-> "none"]
    /\ subscriptions = <<>>
    /\ sending = 0
    /\ process = "starting"
    /\ processMissed \in BOOLEAN
    /\ currentHeight \in 0 .. MaxHeight - 1
    /\ restarts = 0
    /\ failures = 0

Goto(m, s) == pc' = [pc EXCEPT ![m] = s]

Fails == failures < MaxFailures /\ failures' = failures + 1

------------------------------------------------------------------------------
(* The JSON file storage.                                                   *)

\* The relayer ID's mutex, seen by a manager that wants it.
Unlocked(id) == \A m \in Managers : IDOf[m] = id => pc[m] \notin PutSteps

\* A mutant: Get answers from memory.
GetCurrentState(id) == currentState[id]

\* Get reads the file, not currentState.
Get(id) == file[id]

\* A mutant: Put does not take the mutex.
PutUnlocked(m) ==
    /\ pc[m] = "put"
    /\ currentState' = [currentState EXCEPT ![IDOf[m]] = committedHeight[m]]
    /\ tmp' = [tmp EXCEPT ![IDOf[m]] = Torn]
    /\ Goto(m, "write")
    /\ UNCHANGED <<file, committedHeight, tickerVars, processVars, failures>>

\* Put: lock, update currentState and call write, whose os.WriteFile truncates the
\* temporary file ...
Put(m) ==
    /\ pc[m] = "put"
    /\ Unlocked(IDOf[m])
    /\ currentState' = [currentState EXCEPT ![IDOf[m]] = committedHeight[m]]
    /\ tmp' = [tmp EXCEPT ![IDOf[m]] = Torn]
    /\ Goto(m, "write")
    /\ UNCHANGED <<file, committedHeight, tickerVars, processVars, failures>>

\* ... and fills it.
WriteTmp(m) ==
    /\ pc[m] = "write"
    /\ tmp' = [tmp EXCEPT ![IDOf[m]] = currentState[IDOf[m]]]
    /\ Goto(m, "rename")
    /\ UNCHANGED <<file, currentState, committedHeight, tickerVars, processVars, failures>>

\* os.Rename replaces the file at once; Put returns.
Rename(m) ==
    /\ pc[m] = "rename"
    /\ file' = [file EXCEPT ![IDOf[m]] = tmp[IDOf[m]]]
    /\ tmp' = [tmp EXCEPT ![IDOf[m]] = NotFound]
    /\ Goto(m, "waiting")
    /\ UNCHANGED <<currentState, committedHeight, tickerVars, processVars, failures>>

\* Opening, writing or renaming fails, and Put returns the error.  What was
\* written of the temporary file stays, and so does currentState.
PutFails(m) ==
    /\ pc[m] \in PutSteps
    /\ Fails
    /\ Goto(m, "waiting")
    /\ UNCHANGED <<diskVars, currentState, committedHeight, tickerVars, processVars>>

------------------------------------------------------------------------------
(* The checkpoint managers.                                                 *)

\* writeToDatabase up to the decision to write; a row that cannot be read ends it.
ReadStored(m) ==
    /\ pc[m] = "get"
    /\ Unlocked(IDOf[m])
    /\ Goto(m, IF Get(IDOf[m]) # Torn /\ WriteAllowed(committedHeight[m], Get(IDOf[m]))
               THEN "put" ELSE "waiting")
    /\ UNCHANGED <<diskVars, currentState, committedHeight, tickerVars, processVars, failures>>

ReadFails(m) ==
    /\ pc[m] = "get"
    /\ Unlocked(IDOf[m])
    /\ Fails
    /\ Goto(m, "waiting")
    /\ UNCHANGED <<diskVars, currentState, committedHeight, tickerVars, processVars>>

\* The managers main keeps in its map: the last of each ID.
Registered(m) ==
    \E i \in 1 .. Len(Order) :
        /\ Order[i] = m
        /\ \A j \in i + 1 .. Len(Order) : IDOf[Order[j]] # IDOf[m]

\* StageCommittedHeight commits the next height; writeToDatabase holds it off.
Commit(m) ==
    /\ process = "running"
    /\ Registered(m)
    /\ pc[m] \notin WriteSteps
    /\ committedHeight[m] < MaxHeight
    /\ committedHeight' = [committedHeight EXCEPT ![m] = @ + 1]
    /\ UNCHANGED <<diskVars, currentState, pc, tickerVars, processVars, failures>>

------------------------------------------------------------------------------
(* The ticker.                                                              *)

\* Run: on a tick, take the lock.  Without subscribers a tick does nothing.
Tick ==
    /\ process # "down"
    /\ sending = 0
    /\ subscriptions # <<>>
    /\ sending' = 1
    /\ UNCHANGED <<diskVars, currentState, committedHeight, pc, subscriptions, processVars,
                   failures>>

\* A mutant: the loop runs past the last subscription.
SendPastEnd ==
    /\ sending # 0
    /\ pc[subscriptions[sending]] = "waiting"
    /\ Goto(subscriptions[sending], "get")
    /\ sending' = IF sending > Len(subscriptions) THEN 0 ELSE sending + 1
    /\ UNCHANGED <<diskVars, currentState, committedHeight, subscriptions, processVars, failures>>

\* The channels have no buffer: the send waits for the manager to receive.  After
\* the last one the lock is released.
Send ==
    /\ sending # 0
    /\ pc[subscriptions[sending]] = "waiting"
    /\ Goto(subscriptions[sending], "get")
    /\ sending' = IF sending = Len(subscriptions) THEN 0 ELSE sending + 1
    /\ UNCHANGED <<diskVars, currentState, committedHeight, subscriptions, processVars, failures>>

------------------------------------------------------------------------------
(* Start-up: createApplicationRelayersForSourceChain, one manager after the *)
(* other, while the ticker already runs.                                    *)

\* A mutant: the next manager is created once the one before it is subscribed.
CreatingEarly(m) ==
    /\ process = "starting"
    /\ \E i \in 1 .. Len(Order) :
          /\ Order[i] = m
          /\ \A j \in 1 .. i - 1 : pc[Order[j]] \notin {"none", "created"}

\* m is next: every manager before it runs.
Creating(m) ==
    /\ process = "starting"
    /\ \E i \in 1 .. Len(Order) :
          /\ Order[i] = m
          /\ \A j \in 1 .. i - 1 : pc[Order[j]] \notin {"none", "created", "subscribed"}

\* With process-missed-blocks the starting height comes from the database, and main
\* exits if that fails.  No historical height is configured.
CreateManager(m) ==
    /\ Creating(m)
    /\ pc[m] = "none"
    /\ processMissed => Unlocked(IDOf[m])
    /\ IF processMissed /\ Get(IDOf[m]) = Torn
       THEN process' = "down" /\ UNCHANGED <<pc, committedHeight>>
       ELSE /\ committedHeight' = [committedHeight EXCEPT
                   ![m] = StartingHeight(processMissed, Get(IDOf[m]), 0, currentHeight)]
            /\ Goto(m, "created")
            /\ UNCHANGED process
    /\ UNCHANGED <<diskVars, currentState, tickerVars, configVars, restarts, failures>>

\* Ticker.Subscribe waits for the ticker's lock.
Subscribe(m) ==
    /\ Creating(m)
    /\ pc[m] = "created"
    /\ sending = 0
    /\ subscriptions' = Append(subscriptions, m)
    /\ Goto(m, "subscribed")
    /\ UNCHANGED <<diskVars, currentState, committedHeight, sending, processVars, failures>>

\* A mutant: the managers run only once all of them are subscribed.
RunManagerLast(m) ==
    /\ process = "starting"
    /\ pc[m] = "subscribed"
    /\ Len(subscriptions) = Len(Order)
    /\ Goto(m, "waiting")
    /\ UNCHANGED <<diskVars, currentState, committedHeight, tickerVars, processVars, failures>>

\* NewApplicationRelayer runs the manager, whose goroutine waits for ticks.
RunManager(m) ==
    /\ Creating(m)
    /\ pc[m] = "subscribed"
    /\ Goto(m, "waiting")
    /\ UNCHANGED <<diskVars, currentState, committedHeight, tickerVars, processVars, failures>>

\* All are created; the listeners start.
Started ==
    /\ process = "starting"
    /\ \A m \in Managers : pc[m] \notin {"none", "created", "subscribed"}
    /\ process' = "running"
    /\ UNCHANGED <<diskVars, currentState, committedHeight, pc, tickerVars, configVars, restarts,
                   failures>>

\* The process dies, at any point.
Crash ==
    /\ process # "down"
    /\ process' = "down"
    /\ pc' = [m \in Managers |-> "none"]
    /\ committedHeight' = [m \in Managers |-> 0]
    /\ subscriptions' = <<>>
    /\ sending' = 0
    /\ currentState' = [id \in IDs |-> NotFound]
    /\ UNCHANGED <<diskVars, configVars, restarts, failures>>

\* A mutant: a complete temporary file is taken over.
RestartFromTmp ==
    /\ process = "down"
    /\ restarts < MaxRestarts
    /\ restarts' = restarts + 1
    /\ \A id \in IDs : file[id] # Torn
    /\ file' = [id \in IDs |-> IF tmp[id] \in Heights THEN tmp[id] ELSE file[id]]
    /\ currentState' = file'
    /\ process' = "starting"
    /\ processMissed' \in BOOLEAN
    /\ currentHeight' \in 0 .. MaxHeight - 1
    /\ UNCHANGED <<tmp, committedHeight, pc, tickerVars, failures>>

\* NewJSONFileStorage reads the files that exist; one it cannot read keeps the
\* process from starting.  Temporary files are left alone.
Restart ==
    /\ process = "down"
    /\ restarts < MaxRestarts
    /\ restarts' = restarts + 1
    /\ \A id \in IDs : file[id] # Torn
    /\ currentState' = file
    /\ process' = "starting"
    /\ processMissed' \in BOOLEAN
    /\ currentHeight' \in 0 .. MaxHeight - 1
    /\ UNCHANGED <<diskVars, committedHeight, pc, tickerVars, failures>>

StartUp == \/ \E m \in Managers : CreateManager(m) \/ Subscribe(m) \/ RunManager(m)
           \/ Started

Write(m) == ReadStored(m) \/ Put(m) \/ WriteTmp(m) \/ Rename(m)

Next ==
    \/ StartUp
    \/ Tick \/ Send
    \/ \E m \in Managers : Write(m) \/ ReadFails(m) \/ PutFails(m) \/ Commit(m)
    \/ Crash \/ Restart

Spec == Init /\ [][Next]_vars

\* Goroutines are scheduled and time passes.  The ticker's mutex is contended for
\* ever, and Go's sync.Mutex hands a mutex to a waiter that has starved, so
\* Subscribe is strongly fair.
Fairness ==
    /\ WF_vars(StartUp)
    /\ SF_vars(\E m \in Managers : Subscribe(m))
    /\ \A m \in Managers : WF_vars(Write(m))
    /\ WF_vars(Tick) /\ WF_vars(Send)

FairSpec == Spec /\ Fairness

------------------------------------------------------------------------------
(* Properties.                                                              *)

\* No crash, failure or concurrent Put leaves a file that cannot be read: writing
\* aside and renaming under the mutex keeps <relayerID>.json complete, so the next
\* run can always start from it.
FilesComplete == \A id \in IDs : file[id] # Torn

\* A row moves backwards only by the write of a manager that a later one with the
\* same relayer ID has replaced: the registered manager never lowers it, whatever
\* fails, however often the process restarts and even when a run begins at a chain
\* head behind the row.
RowNeverLowered ==
    [][\A id \in IDs : file'[id] < file[id] =>
          \E m \in Managers : IDOf[m] = id /\ ~ Registered(m) /\ pc[m] = "rename"]_vars

\* With its lock held the ticker waits for a manager whose goroutine runs, or for the
\* last one subscribed, which main runs next and for that needs no lock: the ticker
\* and the start-up never wait for each other.
TickerWaitsForRunning ==
    sending # 0 =>
        LET m == subscriptions[sending]
        IN  \/ pc[m] \in {"waiting"} \cup WriteSteps
            \/ pc[m] = "subscribed" /\ sending = Len(subscriptions) /\ Creating(m)

Database == INSTANCE AbstractDatabase WITH
    Clients <- Managers,
    Values <- Heights,
    None <- NotFound,
    row <- file,
    putting <- [m \in Managers |-> IF pc[m] \in PutSteps THEN committedHeight[m] ELSE NotFound]

\* Through the eyes of the managers the files are a database whose rows change
\* atomically, only to a value being put, and survive a crash at every step.
ImplementsDatabase == Database!Spec

\* The ticker, which holds its lock while it waits for managers, never stops the
\* start-up, which waits for that lock between managers.
StartUpCompletes == process = "starting" ~> process # "starting"

\* A committed height reaches the file although writes may fail on the way: the
\* next tick compares with the file and writes again.
CommittedReachesFile ==
    \A m \in Managers, c \in Heights \ {0} :
        (pc[m] # "none" /\ committedHeight[m] = c) ~> (file[IDOf[m]] >= c \/ process = "down")
==============================================================================
