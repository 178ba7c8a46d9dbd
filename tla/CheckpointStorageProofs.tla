----------------------- MODULE CheckpointStorageProofs -----------------------
(***************************************************************************)
(* Proofs about CheckpointStorage: for any managers, relayer IDs and       *)
(* bounds, the files stay complete, the storage implements the abstract    *)
(* database, no registered manager lowers a row, and the ticker waits only *)
(* for managers that run or are run next.                                  *)
(***************************************************************************)
EXTENDS CheckpointStorage, TLAPS

\* Leaves are first-order and go to Zenon; those with arithmetic, and the larger ones, name SMT.
USE Zenon

------------------------------------------------------------------------------
(* The inductive invariant.                                                 *)

\* The relayer ID's mutex excludes two Puts of the same ID.
PutsExclude ==
    \A m, n \in Managers :
        m # n /\ IDOf[m] = IDOf[n] => pc[m] \notin PutSteps \/ pc[n] \notin PutSteps

\* What a Put has written so far is its manager's committed height.
PutsOwnHeight ==
    \A m \in Managers :
        /\ pc[m] \in PutSteps => currentState[IDOf[m]] = committedHeight[m]
        /\ pc[m] = "rename" => tmp[IDOf[m]] = committedHeight[m]

\* A process that is down has no goroutines.
DownIsIdle == process = "down" => \A m \in Managers : pc[m] = "none"

IInv == TypeOK /\ FilesComplete /\ PutsExclude /\ PutsOwnHeight /\ DownIsIdle

\* The starting height is a height of the chain.
LEMMA StartingHeightInHeights ==
    ASSUME NEW missed \in BOOLEAN, NEW inDb \in Heights \cup {NotFound},
           NEW current \in 0 .. MaxHeight - 1
    PROVE  StartingHeight(missed, inDb, 0, current) \in Heights
BY MaxHeightAssumption, SMT DEF Heights, NotFound, StartingHeight, CalculateStartingBlockHeight

\* A torn file is neither a height nor a missing one.
LEMMA TornIsNoHeight == Torn \notin Heights /\ Torn # NotFound /\ NotFound \notin Heights
BY MaxHeightAssumption, SMT DEF Torn, Heights, NotFound

\* The invariant holds when the process first starts.
LEMMA InitIInv == Init => IInv
<1> SUFFICES ASSUME Init PROVE IInv
  OBVIOUS
<1>1. subscriptions \in Seq(Managers) /\ sending \in 0 .. Len(subscriptions)
  <2>1. subscriptions = <<>> /\ sending = 0
    BY DEF Init
  <2> QED  BY <2>1, SMT
<1>2. TypeOK
  BY <1>1, MaxHeightAssumption, StorageBoundsAssumption, SMT
     DEF Init, TypeOK, Contents, Heights, NotFound, States
<1>3. FilesComplete
  BY TornIsNoHeight DEF Init, FilesComplete
<1> QED
  BY <1>2, <1>3 DEF Init, IInv, PutsExclude, PutsOwnHeight, DownIsIdle, PutSteps

------------------------------------------------------------------------------
(* One lemma per action that touches the files or the process.              *)

\* Taking the mutex and truncating the temporary file.
LEMMA PutIInv ==
    ASSUME IInv, NEW m \in Managers, Put(m)
    PROVE  IInv'
<1> USE DEF IInv
<1>1. IDOf[m] \in IDs
  BY ManagersAssumption
<1>2. TypeOK'
  BY <1>1 DEF TypeOK, Put, Goto, Contents, States, WriteSteps, PutSteps, tickerVars, processVars,
              configVars
<1>3. FilesComplete'
  BY DEF Put, FilesComplete
<1>4. PutsExclude'
  BY DEF Put, Goto, PutsExclude, Unlocked, TypeOK
<1>5. PutsOwnHeight'
  <2> SUFFICES ASSUME NEW n \in Managers
               PROVE  /\ pc'[n] \in PutSteps => currentState'[IDOf[n]] = committedHeight'[n]
                      /\ pc'[n] = "rename" => tmp'[IDOf[n]] = committedHeight'[n]
    BY DEF PutsOwnHeight
  <2>1. CASE n = m
    BY <1>1, <2>1 DEF Put, Goto, TypeOK
  <2>2. CASE n # m
    <3>1. pc'[n] = pc[n] /\ committedHeight'[n] = committedHeight[n]
      BY <2>2 DEF Put, Goto, TypeOK
    <3>2. CASE pc[n] \notin PutSteps
      BY <3>1, <3>2 DEF PutSteps
    <3>3. CASE pc[n] \in PutSteps
      <4>1. IDOf[n] # IDOf[m]
        BY <3>3 DEF Put, Unlocked
      <4>2. currentState'[IDOf[n]] = currentState[IDOf[n]] /\ tmp'[IDOf[n]] = tmp[IDOf[n]]
        BY <4>1, ManagersAssumption DEF Put, TypeOK
      <4> QED  BY <3>1, <4>2 DEF PutsOwnHeight
    <3> QED  BY <3>2, <3>3
  <2> QED  BY <2>1, <2>2
<1>6. DownIsIdle'
  BY DEF Put, Goto, DownIsIdle, TypeOK, processVars
<1> QED  BY <1>2, <1>3, <1>4, <1>5, <1>6

\* Filling the temporary file.
LEMMA WriteTmpIInv ==
    ASSUME IInv, NEW m \in Managers, WriteTmp(m)
    PROVE  IInv'
<1> USE DEF IInv
<1>1. IDOf[m] \in IDs
  BY ManagersAssumption
<1>2. TypeOK'
  BY <1>1 DEF TypeOK, WriteTmp, Goto, Contents, States, WriteSteps, PutSteps, tickerVars,
              processVars, configVars
<1>3. FilesComplete'
  BY DEF WriteTmp, FilesComplete
<1>4. PutsExclude'
  BY DEF WriteTmp, Goto, PutsExclude, PutSteps, TypeOK
<1>5. PutsOwnHeight'
  <2> SUFFICES ASSUME NEW n \in Managers
               PROVE  /\ pc'[n] \in PutSteps => currentState'[IDOf[n]] = committedHeight'[n]
                      /\ pc'[n] = "rename" => tmp'[IDOf[n]] = committedHeight'[n]
    BY DEF PutsOwnHeight
  <2>1. CASE n = m
    BY <1>1, <2>1 DEF WriteTmp, Goto, TypeOK, PutsOwnHeight, PutSteps
  <2>2. CASE n # m
    <3>1. /\ pc'[n] = pc[n]
          /\ committedHeight' = committedHeight
          /\ currentState' = currentState
      BY <2>2 DEF WriteTmp, Goto, TypeOK
    <3>2. pc[n] \in PutSteps => tmp'[IDOf[n]] = tmp[IDOf[n]]
      BY <2>2, ManagersAssumption DEF WriteTmp, TypeOK, PutsExclude, PutSteps
    <3> QED  BY <3>1, <3>2 DEF PutsOwnHeight, PutSteps
  <2> QED  BY <2>1, <2>2
<1>6. DownIsIdle'
  BY DEF WriteTmp, Goto, DownIsIdle, TypeOK, processVars
<1> QED  BY <1>2, <1>3, <1>4, <1>5, <1>6

\* Renaming installs the manager's committed height.
LEMMA RenameIInv ==
    ASSUME IInv, NEW m \in Managers, Rename(m)
    PROVE  IInv' /\ file' = [file EXCEPT ![IDOf[m]] = committedHeight[m]]
<1> USE DEF IInv
<1>1. IDOf[m] \in IDs
  BY ManagersAssumption
<1>2. file' = [file EXCEPT ![IDOf[m]] = committedHeight[m]]
  BY DEF Rename, PutsOwnHeight
<1>3. TypeOK'
  BY <1>1, <1>2 DEF TypeOK, Rename, Goto, Contents, States, WriteSteps, PutSteps, tickerVars,
                    processVars, configVars
<1>4. FilesComplete'
  BY <1>1, <1>2, TornIsNoHeight DEF FilesComplete, TypeOK
<1>5. PutsExclude'
  BY DEF Rename, Goto, PutsExclude, PutSteps, TypeOK
<1>6. PutsOwnHeight'
  <2> SUFFICES ASSUME NEW n \in Managers
               PROVE  /\ pc'[n] \in PutSteps => currentState'[IDOf[n]] = committedHeight'[n]
                      /\ pc'[n] = "rename" => tmp'[IDOf[n]] = committedHeight'[n]
    BY DEF PutsOwnHeight
  <2>1. CASE n = m
    BY <2>1 DEF Rename, Goto, TypeOK, PutSteps
  <2>2. CASE n # m
    <3>1. /\ pc'[n] = pc[n]
          /\ committedHeight' = committedHeight
          /\ currentState' = currentState
      BY <2>2 DEF Rename, Goto, TypeOK
    <3>2. pc[n] \in PutSteps => tmp'[IDOf[n]] = tmp[IDOf[n]]
      BY <2>2, ManagersAssumption DEF Rename, TypeOK, PutsExclude, PutSteps
    <3> QED  BY <3>1, <3>2 DEF PutsOwnHeight, PutSteps
  <2> QED  BY <2>1, <2>2
<1>7. DownIsIdle'
  BY DEF Rename, Goto, DownIsIdle, TypeOK, processVars
<1> QED  BY <1>2, <1>3, <1>4, <1>5, <1>6, <1>7

\* Every other step leaves the storage alone and begins no Put.
LEMMA QuietIInv ==
    ASSUME IInv, TypeOK', DownIsIdle', UNCHANGED <<diskVars, currentState>>,
           \A n \in Managers : pc'[n] \in PutSteps =>
               pc'[n] = pc[n] /\ committedHeight'[n] = committedHeight[n]
    PROVE  IInv'
<1>1. FilesComplete'
  BY DEF IInv, FilesComplete, diskVars
<1>2. PutsExclude'
  BY DEF IInv, PutsExclude
<1>3. PutsOwnHeight'
  BY DEF IInv, PutsOwnHeight, PutSteps, diskVars
<1> QED  BY <1>1, <1>2, <1>3 DEF IInv

\* Steps of one manager, the ticker's among them, that only move it.
LEMMA MoveIInv ==
    ASSUME IInv, NEW m \in Managers, NEW s \in States \ PutSteps, Goto(m, s), pc[m] # "none",
           UNCHANGED <<diskVars, currentState, committedHeight, configVars, process, restarts>>,
           subscriptions' \in Seq(Managers), sending' \in 0 .. Len(subscriptions'),
           failures' \in 0 .. MaxFailures
    PROVE  IInv'
<1>1. TypeOK'
  BY DEF IInv, TypeOK, Goto, diskVars, configVars
<1>2. DownIsIdle'
  BY DEF IInv, DownIsIdle, Goto, TypeOK
<1>3. \A n \in Managers : pc'[n] \in PutSteps =>
          pc'[n] = pc[n] /\ committedHeight'[n] = committedHeight[n]
  BY DEF IInv, TypeOK, Goto
<1> QED  BY <1>1, <1>2, <1>3, QuietIInv

\* A failure counted against the bound.
LEMMA FailsType ==
    ASSUME TypeOK, Fails
    PROVE  failures' \in 0 .. MaxFailures
BY StorageBoundsAssumption, SMT DEF TypeOK, Fails

\* A new manager starts at its row or at the chain head, which are heights.
LEMMA CreateManagerIInv ==
    ASSUME IInv, NEW m \in Managers, CreateManager(m)
    PROVE  IInv'
<1>1. IDOf[m] \in IDs
  BY ManagersAssumption
<1>2. file[IDOf[m]] \in Heights \cup {NotFound}
  BY <1>1 DEF IInv, TypeOK, FilesComplete, Contents
<1>3. /\ committedHeight' = [committedHeight EXCEPT
              ![m] = StartingHeight(processMissed, file[IDOf[m]], 0, currentHeight)]
      /\ Goto(m, "created")
      /\ UNCHANGED process
  BY <1>2, TornIsNoHeight DEF CreateManager, Get
<1>4. StartingHeight(processMissed, file[IDOf[m]], 0, currentHeight) \in Heights
  BY <1>2, StartingHeightInHeights DEF IInv, TypeOK
<1> HIDE DEF StartingHeight
<1>5. TypeOK'
  BY <1>3, <1>4 DEF IInv, TypeOK, CreateManager, Goto, States, diskVars, tickerVars, configVars
<1>6. DownIsIdle'
  BY <1>3 DEF IInv, DownIsIdle, CreateManager, Creating
<1>7. \A n \in Managers : pc'[n] \in PutSteps =>
          pc'[n] = pc[n] /\ committedHeight'[n] = committedHeight[n]
  BY <1>3 DEF IInv, TypeOK, Goto, PutSteps
<1>8. UNCHANGED <<diskVars, currentState>>
  BY DEF CreateManager
<1> QED  BY <1>5, <1>6, <1>7, <1>8, QuietIInv

\* Subscribing appends the manager.
LEMMA SubscribeIInv ==
    ASSUME IInv, NEW m \in Managers, Subscribe(m)
    PROVE  IInv'
<1>1. subscriptions \in Seq(Managers) /\ sending = 0
  BY DEF IInv, TypeOK, Subscribe
<1>2. subscriptions' = Append(subscriptions, m) /\ sending' = 0
  BY <1>1 DEF Subscribe
<1>3. subscriptions' \in Seq(Managers) /\ sending' \in 0 .. Len(subscriptions')
  BY <1>1, <1>2, SMT
<1>4. failures' \in 0 .. MaxFailures
  BY DEF IInv, TypeOK, Subscribe
<1> QED
  BY <1>3, <1>4, MoveIInv DEF Subscribe, States, PutSteps, processVars

\* The ticker hands a tick to the manager whose turn it is.
LEMMA SendIInv ==
    ASSUME IInv, Send
    PROVE  IInv'
<1>1. subscriptions \in Seq(Managers) /\ sending \in 1 .. Len(subscriptions)
  BY SMT DEF IInv, TypeOK, Send
<1>2. subscriptions[sending] \in Managers
  BY <1>1, SMT
<1>3. subscriptions' = subscriptions
  BY DEF Send
<1>4. sending' \in 0 .. Len(subscriptions')
  <2>1. CASE sending = Len(subscriptions)
    BY <1>1, <1>3, <2>1, SMT DEF Send
  <2>2. CASE sending # Len(subscriptions)
    BY <1>1, <1>3, <2>2, SMT DEF Send
  <2> QED  BY <2>1, <2>2
<1>5. failures' \in 0 .. MaxFailures
  BY DEF IInv, TypeOK, Send
<1> QED
  BY <1>1, <1>2, <1>3, <1>4, <1>5, MoveIInv DEF Send, States, WriteSteps, PutSteps, processVars

------------------------------------------------------------------------------
(* Every step preserves the invariant.                                      *)

\* Every step of the managers, the ticker and the storage keeps the invariant.
LEMMA NextIInv == IInv /\ [Next]_vars => IInv'
<1> SUFFICES ASSUME IInv, [Next]_vars PROVE IInv'
  OBVIOUS
<1>1. TypeOK
  BY DEF IInv
<1>2. ASSUME NEW m \in Managers, CreateManager(m) PROVE IInv'
  BY <1>2, CreateManagerIInv
<1>3. ASSUME NEW m \in Managers, Subscribe(m) PROVE IInv'
  BY <1>3, SubscribeIInv
<1>4. ASSUME NEW m \in Managers, RunManager(m) PROVE IInv'
  BY <1>1, <1>4, MoveIInv
     DEF RunManager, TypeOK, States, PutSteps, tickerVars, processVars
<1>5. CASE Started
  <2>1. TypeOK' /\ DownIsIdle' /\ UNCHANGED <<diskVars, currentState, pc, committedHeight>>
    BY <1>1, <1>5 DEF Started, TypeOK, DownIsIdle, diskVars, tickerVars, configVars
  <2> QED  BY <2>1, QuietIInv
<1>6. CASE Tick
  <2>1. subscriptions \in Seq(Managers) /\ subscriptions # <<>>
    BY <1>1, <1>6 DEF Tick, TypeOK
  <2>2. 1 \in 0 .. Len(subscriptions)
    BY <2>1, SMT
  <2>3. TypeOK' /\ DownIsIdle' /\ UNCHANGED <<diskVars, currentState, pc, committedHeight>>
    BY <1>1, <1>6, <2>2 DEF Tick, TypeOK, DownIsIdle, diskVars, processVars, configVars
  <2> QED  BY <2>3, QuietIInv
<1>7. CASE Send
  BY <1>7, SendIInv
<1>8. ASSUME NEW m \in Managers, ReadStored(m) PROVE IInv'
  <2>1. PICK s \in {"put", "waiting"} : Goto(m, s)
    BY <1>8 DEF ReadStored
  <2>2. s \in States \ PutSteps
    BY <2>1 DEF States, WriteSteps, PutSteps
  <2> QED
    BY <1>1, <1>8, <2>1, <2>2, MoveIInv DEF ReadStored, TypeOK, tickerVars, processVars
<1>9. ASSUME NEW m \in Managers, ReadFails(m) PROVE IInv'
  BY <1>1, <1>9, MoveIInv, FailsType
     DEF ReadFails, TypeOK, States, PutSteps, tickerVars, processVars
<1>10. ASSUME NEW m \in Managers, PutFails(m) PROVE IInv'
  BY <1>1, <1>10, MoveIInv, FailsType
     DEF PutFails, TypeOK, States, PutSteps, tickerVars, processVars
<1>11. ASSUME NEW m \in Managers, Put(m) PROVE IInv'
  BY <1>11, PutIInv
<1>12. ASSUME NEW m \in Managers, WriteTmp(m) PROVE IInv'
  BY <1>12, WriteTmpIInv
<1>13. ASSUME NEW m \in Managers, Rename(m) PROVE IInv'
  BY <1>13, RenameIInv
<1>14. ASSUME NEW m \in Managers, Commit(m) PROVE IInv'
  <2>1. committedHeight[m] + 1 \in Heights
    BY <1>1, <1>14, MaxHeightAssumption, SMT DEF Commit, TypeOK, Heights
  <2>2. TypeOK' /\ DownIsIdle' /\ UNCHANGED <<diskVars, currentState>>
    BY <1>1, <1>14, <2>1
       DEF Commit, TypeOK, DownIsIdle, diskVars, tickerVars, processVars, configVars
  <2>3. \A n \in Managers : pc'[n] \in PutSteps =>
            pc'[n] = pc[n] /\ committedHeight'[n] = committedHeight[n]
    BY <1>1, <1>14 DEF Commit, TypeOK, WriteSteps
  <2> QED  BY <2>2, <2>3, QuietIInv
<1>15. CASE Crash
  <2>1. <<>> \in Seq(Managers) /\ 0 \in 0 .. Len(<<>>)
    BY SMT
  <2>2. TypeOK'
    BY <1>1, <1>15, <2>1, MaxHeightAssumption, SMT
       DEF Crash, TypeOK, Heights, States, diskVars, configVars
  <2>3. FilesComplete'
    BY <1>15 DEF Crash, IInv, FilesComplete, diskVars
  <2> QED
    BY <1>15, <2>2, <2>3 DEF Crash, IInv, PutsExclude, PutsOwnHeight, DownIsIdle, PutSteps
<1>16. CASE Restart
  <2>1. \A m \in Managers : pc'[m] = "none"
    BY <1>16 DEF Restart, IInv, DownIsIdle
  <2>2. file \in [IDs -> Heights \cup {NotFound}]
    BY <1>1 DEF IInv, FilesComplete, TypeOK, Contents
  <2>3. TypeOK'
    BY <1>1, <1>16, <2>2, StorageBoundsAssumption, SMT
       DEF Restart, TypeOK, diskVars, tickerVars
  <2>4. FilesComplete'
    BY <1>16 DEF Restart, IInv, FilesComplete, diskVars
  <2> QED
    BY <1>16, <2>1, <2>3, <2>4
       DEF Restart, IInv, PutsExclude, PutsOwnHeight, DownIsIdle, PutSteps
<1>17. CASE UNCHANGED vars
  <2>1. TypeOK' /\ DownIsIdle' /\ UNCHANGED <<diskVars, currentState, pc, committedHeight>>
    BY <1>1, <1>17
       DEF vars, IInv, TypeOK, DownIsIdle, diskVars, tickerVars, processVars, configVars
  <2> QED  BY <2>1, QuietIInv
<1> QED
  BY <1>2, <1>3, <1>4, <1>5, <1>6, <1>7, <1>8, <1>9, <1>10, <1>11, <1>12, <1>13, <1>14, <1>15,
     <1>16, <1>17 DEF Next, StartUp, Write

\* The invariant holds in every reachable state.
LEMMA SpecIInv == Spec => []IInv
BY InitIInv, NextIInv, PTL DEF Spec

\* The variables keep their types, whatever the numbers of managers and IDs.
THEOREM StorageTypeOK == Spec => []TypeOK
BY SpecIInv, PTL DEF IInv

\* json_file_storage.go keeps every <relayerID>.json readable through crashes, failed
\* writes and concurrent Puts: a restart never meets a partial file.
THEOREM StorageFilesComplete == Spec => []FilesComplete
BY SpecIInv, PTL DEF IInv

------------------------------------------------------------------------------
(* The refinement.                                                          *)

putting == [m \in Managers |-> IF pc[m] \in PutSteps THEN committedHeight[m] ELSE NotFound]

\* No step but Rename changes a file, and what it changes it to is being put.
LEMMA DatabaseStep ==
    ASSUME IInv, [Next]_vars
    PROVE  [Database!Next]_(Database!vars)
<1>1. TypeOK
  BY DEF IInv
<1>2. ASSUME file' = file, putting' = putting PROVE UNCHANGED Database!vars
  BY <1>2 DEF Database!vars, putting
<1>3. ASSUME NEW m \in Managers, NEW s \in States \ PutSteps, Goto(m, s), pc[m] \notin PutSteps,
             file' = file, \A n \in Managers \ {m} : committedHeight'[n] = committedHeight[n]
      PROVE  UNCHANGED Database!vars
  <2>1. putting' = putting
    BY <1>1, <1>3 DEF putting, Goto, TypeOK
  <2> QED  BY <1>2, <1>3, <2>1
<1> USE DEF States, WriteSteps, PutSteps
<1>4. ASSUME NEW m \in Managers, CreateManager(m) PROVE UNCHANGED Database!vars
  <2>1. CASE UNCHANGED <<pc, committedHeight>>
    BY <1>2, <1>4, <2>1 DEF CreateManager, diskVars, putting
  <2>2. CASE Goto(m, "created") /\ \A n \in Managers \ {m} :
                                      committedHeight'[n] = committedHeight[n]
    BY <1>3, <1>4, <2>2 DEF CreateManager, diskVars
  <2> QED
    BY <1>1, <1>4, <2>1, <2>2 DEF CreateManager, TypeOK
<1>5. ASSUME NEW m \in Managers, Subscribe(m) PROVE UNCHANGED Database!vars
  BY <1>3, <1>5 DEF Subscribe, diskVars
<1>6. ASSUME NEW m \in Managers, RunManager(m) PROVE UNCHANGED Database!vars
  BY <1>3, <1>6 DEF RunManager, diskVars
<1>7. CASE Started \/ Tick \/ UNCHANGED vars
  BY <1>2, <1>7 DEF Started, Tick, vars, diskVars, putting
<1>8. CASE Send
  <2>1. subscriptions \in Seq(Managers) /\ sending \in 1 .. Len(subscriptions)
    BY <1>1, <1>8, SMT DEF TypeOK, Send
  <2>2. subscriptions[sending] \in Managers
    BY <2>1, SMT
  <2> QED  BY <1>3, <1>8, <2>2 DEF Send, diskVars
<1>9. ASSUME NEW m \in Managers, ReadStored(m) PROVE UNCHANGED Database!vars
  <2>1. PICK s \in {"put", "waiting"} : Goto(m, s)
    BY <1>9 DEF ReadStored
  <2> QED  BY <1>3, <1>9, <2>1 DEF ReadStored, diskVars
<1>10. ASSUME NEW m \in Managers, ReadFails(m) PROVE UNCHANGED Database!vars
  BY <1>3, <1>10 DEF ReadFails, diskVars
<1>11. ASSUME NEW m \in Managers, WriteTmp(m) PROVE UNCHANGED Database!vars
  <2>1. putting' = putting
    BY <1>1, <1>11 DEF putting, WriteTmp, Goto, TypeOK
  <2> QED  BY <1>2, <1>11, <2>1 DEF WriteTmp
<1>12. ASSUME NEW m \in Managers, Commit(m) PROVE UNCHANGED Database!vars
  <2>1. putting' = putting
    BY <1>1, <1>12 DEF putting, Commit, TypeOK
  <2> QED  BY <1>2, <1>12, <2>1 DEF Commit, diskVars
<1>13. CASE Restart
  BY <1>2, <1>13 DEF Restart, diskVars, putting
<1>14. ASSUME NEW m \in Managers, NEW v \in Heights, v = committedHeight[m], Put(m)
       PROVE  Database!Call(m, v)
  <2>1. putting[m] = NotFound
    BY <1>14 DEF putting, Put
  <2>2. putting' = [putting EXCEPT ![m] = committedHeight[m]]
    BY <1>1, <1>14 DEF putting, Put, Goto, TypeOK
  <2> QED  BY <1>14, <2>1, <2>2 DEF Database!Call, Put, putting
<1>15. ASSUME NEW m \in Managers, Rename(m) PROVE Database!Put(m)
  <2>1. file' = [file EXCEPT ![IDOf[m]] = committedHeight[m]]
    BY <1>15, RenameIInv
  <2>2. putting[m] = committedHeight[m] /\ putting[m] # NotFound
    BY <1>1, <1>15, TornIsNoHeight DEF putting, Rename, TypeOK
  <2>3. putting' = [putting EXCEPT ![m] = NotFound]
    BY <1>1, <1>15 DEF putting, Rename, Goto, TypeOK
  <2> QED  BY <2>1, <2>2, <2>3 DEF Database!Put, putting
<1>16. ASSUME NEW m \in Managers, PutFails(m) PROVE Database!PutFails(m)
  <2>1. putting' = [putting EXCEPT ![m] = NotFound]
    BY <1>1, <1>16 DEF putting, PutFails, Goto, TypeOK
  <2> QED  BY <1>16, <2>1 DEF Database!PutFails, PutFails, diskVars, putting
<1>17. CASE Crash
  <2>1. putting' = [m \in Managers |-> NotFound]
    BY <1>17 DEF putting, Crash
  <2> QED  BY <1>17, <2>1 DEF Database!Next, Database!Crash, Crash, diskVars, putting
<1>18. \A m \in Managers : committedHeight[m] \in Heights
  BY <1>1 DEF TypeOK
<1>19. CASE \E m \in Managers : Put(m) \/ Rename(m) \/ PutFails(m)
  <2>1. ASSUME NEW m \in Managers, Put(m) PROVE Database!Next
    <3>1. PICK v \in Heights : v = committedHeight[m]
      BY <1>18
    <3>2. Database!Call(m, v)
      BY <1>14, <2>1, <3>1
    <3> QED  BY <3>2 DEF Database!Next
  <2>2. ASSUME NEW m \in Managers, Rename(m) PROVE Database!Next
    BY <1>15, <2>2 DEF Database!Next
  <2>3. ASSUME NEW m \in Managers, PutFails(m) PROVE Database!Next
    BY <1>16, <2>3 DEF Database!Next
  <2> QED  BY <1>19, <2>1, <2>2, <2>3
<1> QED
  BY <1>4, <1>5, <1>6, <1>7, <1>8, <1>9, <1>10, <1>11, <1>12, <1>13, <1>17, <1>19
     DEF Next, StartUp, Write

\* The JSON file storage, used by the managers' goroutines and killed at any step, is
\* a database with atomic rows: what Redis gives with SET, the files give with write
\* and rename under a mutex.
THEOREM StorageImplementsDatabase == Spec => ImplementsDatabase
<1>1. Init => Database!Init
  BY DEF Init, Database!Init, PutSteps
<1>2. IInv /\ [Next]_vars => [Database!Next]_(Database!vars)
  BY DatabaseStep
<1> QED
  BY <1>1, <1>2, SpecIInv, PTL DEF Spec, ImplementsDatabase, Database!Spec
------------------------------------------------------------------------------
(* The row of a relayer ID.                                                 *)

PutPath == {"put"} \cup PutSteps

\* While main creates managers nothing is committed: each of them is where a manager
\* of its ID would start now.
StartHeights ==
    process = "starting" =>
        \A m \in Managers : pc[m] # "none" =>
            committedHeight[m] = StartingHeight(processMissed, file[IDOf[m]], 0, currentHeight)

\* A replaced manager stays at the height where all managers of its ID started.
ReplacedBelow ==
    \A m, n \in Managers :
        pc[m] # "none" /\ pc[n] # "none" /\ IDOf[m] = IDOf[n] /\ ~ Registered(n) =>
            committedHeight[n] <= committedHeight[m]

\* A registered manager that decided to write still has nothing newer to overwrite.
AheadOfRow ==
    \A m \in Managers :
        Registered(m) /\ pc[m] \in PutPath => file[IDOf[m]] <= committedHeight[m]

HInv == StartHeights /\ ReplacedBelow /\ AheadOfRow

\* main's map keeps one manager per relayer ID.
LEMMA OneRegistered ==
    ASSUME NEW m \in Managers, NEW n \in Managers, Registered(m), Registered(n),
           IDOf[m] = IDOf[n]
    PROVE  m = n
<1>1. PICK i \in 1 .. Len(Order) :
          Order[i] = m /\ \A j \in i + 1 .. Len(Order) : IDOf[Order[j]] # IDOf[m]
  BY DEF Registered
<1>2. PICK k \in 1 .. Len(Order) :
          Order[k] = n /\ \A j \in k + 1 .. Len(Order) : IDOf[Order[j]] # IDOf[n]
  BY DEF Registered
<1>3. Len(Order) \in Nat
  BY ManagersAssumption, SMT
<1>4. ~ (i < k) /\ ~ (k < i)
  BY <1>1, <1>2, <1>3, SMT
<1>5. i = k
  BY <1>3, <1>4, SMT
<1> QED  BY <1>1, <1>2, <1>5

\* Files and heights can be compared.
LEMMA HeightsAreInts ==
    ASSUME IInv
    PROVE  /\ \A id \in IDs : file[id] \in Int
           /\ \A m \in Managers : committedHeight[m] \in Int /\ IDOf[m] \in IDs
           /\ currentHeight \in Int
<1>1. \A c \in Contents : c \in Int
  BY MaxHeightAssumption, SMT DEF Contents, Heights, NotFound, Torn
<1>2. \A h \in Heights \cup 0 .. MaxHeight - 1 : h \in Int
  BY MaxHeightAssumption, SMT DEF Heights
<1>3. \A id \in IDs : file[id] \in Contents
  BY DEF IInv, TypeOK
<1>4. \A m \in Managers : committedHeight[m] \in Heights /\ IDOf[m] \in IDs
  BY ManagersAssumption DEF IInv, TypeOK
<1>5. currentHeight \in 0 .. MaxHeight - 1
  BY DEF IInv, TypeOK
<1> QED  BY <1>1, <1>2, <1>3, <1>4, <1>5

\* Steps that change neither files nor heights, and let no registered manager decide
\* to write that is behind its row.
LEMMA FrameHInv ==
    ASSUME HInv, UNCHANGED <<file, committedHeight, configVars>>,
           process' = "starting" => process = "starting",
           \A n \in Managers : pc'[n] # "none" => pc[n] # "none",
           \A n \in Managers : Registered(n) /\ pc'[n] \in PutPath =>
               pc[n] \in PutPath \/ file[IDOf[n]] <= committedHeight[n]
    PROVE  HInv'
<1>1. StartHeights'
  BY DEF HInv, StartHeights, configVars
<1>2. ReplacedBelow'
  BY DEF HInv, ReplacedBelow, Registered
<1>3. AheadOfRow'
  BY DEF HInv, AheadOfRow, Registered
<1> QED  BY <1>1, <1>2, <1>3 DEF HInv

\* A step of one manager that is not a decision to write.
LEMMA StepHInv ==
    ASSUME IInv, HInv, NEW m \in Managers, NEW s, Goto(m, s), pc[m] # "none",
           s \in PutPath => pc[m] \in PutPath,
           UNCHANGED <<file, committedHeight, processVars>>
    PROVE  HInv'
<1>1. \A n \in Managers : pc'[n] # "none" => pc[n] # "none"
  BY DEF Goto, IInv, TypeOK
<1>2. \A n \in Managers : pc'[n] \in PutPath => pc[n] \in PutPath
  BY DEF Goto, IInv, TypeOK
<1> QED  BY <1>1, <1>2, FrameHInv DEF processVars

\* A new manager of an ID starts where the others of the ID are.
LEMMA CreateManagerHInv ==
    ASSUME IInv, HInv, NEW m \in Managers, CreateManager(m)
    PROVE  HInv'
<1>1. file[IDOf[m]] # Torn
  BY HeightsAreInts DEF IInv, FilesComplete
<1> DEFINE start(n) == StartingHeight(processMissed, file[IDOf[n]], 0, currentHeight)
<1> HIDE DEF start
<1>2. /\ committedHeight' = [committedHeight EXCEPT ![m] = start(m)]
      /\ Goto(m, "created")
      /\ process = "starting" /\ process' = process
      /\ pc[m] = "none"
      /\ UNCHANGED <<file, configVars>>
  BY <1>1 DEF CreateManager, Creating, Get, start, diskVars
<1>3. \A n \in Managers : pc'[n] # "none" => committedHeight'[n] = start(n)
  BY <1>2 DEF HInv, StartHeights, Goto, IInv, TypeOK, start
<1>4. StartHeights'
  BY <1>2, <1>3 DEF StartHeights, start, configVars
<1>5. \A n \in Managers : start(n) \in Int
  BY HeightsAreInts, SMT DEF start, StartingHeight, CalculateStartingBlockHeight
<1>6. \A n, k \in Managers : IDOf[n] = IDOf[k] => start(n) = start(k)
  BY DEF start
<1>7. ReplacedBelow'
  BY <1>3, <1>5, <1>6, SMT DEF ReplacedBelow
<1>8. AheadOfRow'
  BY <1>2 DEF HInv, AheadOfRow, Registered, Goto, PutPath, PutSteps, IInv, TypeOK
<1> QED  BY <1>4, <1>7, <1>8 DEF HInv

\* Only a manager that is ahead of its row decides to write.
LEMMA ReadStoredHInv ==
    ASSUME IInv, HInv, NEW m \in Managers, ReadStored(m)
    PROVE  HInv'
<1>1. CASE WriteAllowed(committedHeight[m], file[IDOf[m]])
  <2>1. file[IDOf[m]] <= committedHeight[m]
    BY <1>1, HeightsAreInts, MaxHeightAssumption, SMT
       DEF WriteAllowed, NotFound, IInv, TypeOK, Heights
  <2>2. \A n \in Managers : pc'[n] # "none" => pc[n] # "none"
    BY DEF ReadStored, Goto, IInv, TypeOK
  <2>3. \A n \in Managers : pc'[n] \in PutPath => pc[n] \in PutPath \/ n = m
    BY DEF ReadStored, Goto, IInv, TypeOK
  <2> QED  BY <2>1, <2>2, <2>3, FrameHInv DEF ReadStored, diskVars, processVars
<1>2. CASE ~ WriteAllowed(committedHeight[m], file[IDOf[m]])
  <2>1. Goto(m, "waiting")
    BY <1>2 DEF ReadStored, Get
  <2> QED  BY <2>1, StepHInv DEF ReadStored, diskVars, PutPath, PutSteps
<1> QED  BY <1>1, <1>2

\* A rename brings the row to a height that no other manager of the ID is ahead of
\* unless it is the registered one.
LEMMA RenameHInv ==
    ASSUME IInv, HInv, NEW m \in Managers, Rename(m)
    PROVE  HInv'
<1>1. file' = [file EXCEPT ![IDOf[m]] = committedHeight[m]]
  BY RenameIInv
<1>2. /\ committedHeight' = committedHeight /\ UNCHANGED <<process, configVars>>
      /\ Goto(m, "waiting") /\ pc[m] = "rename"
  BY DEF Rename, processVars
<1>3. \A n \in Managers : pc'[n] # "none" => pc[n] # "none"
  BY <1>2 DEF Goto, IInv, TypeOK
<1>4. StartHeights'
  <2> SUFFICES ASSUME process = "starting", NEW n \in Managers, pc[n] # "none"
               PROVE  committedHeight[n] =
                          StartingHeight(processMissed, file'[IDOf[n]], 0, currentHeight)
    BY <1>2, <1>3 DEF StartHeights, configVars
  <2>1. /\ committedHeight[n] = StartingHeight(processMissed, file[IDOf[n]], 0, currentHeight)
        /\ committedHeight[m] = StartingHeight(processMissed, file[IDOf[m]], 0, currentHeight)
    BY <1>2 DEF HInv, StartHeights
  <2>2. CASE IDOf[n] # IDOf[m]
    BY <1>1, <2>1, <2>2, HeightsAreInts DEF IInv, TypeOK
  <2>3. CASE IDOf[n] = IDOf[m]
    <3>1. committedHeight[n] = committedHeight[m] /\ file'[IDOf[n]] = committedHeight[m]
      BY <1>1, <2>1, <2>3, HeightsAreInts DEF IInv, TypeOK
    <3>2. committedHeight[m] \in Nat
      BY MaxHeightAssumption, SMT DEF IInv, TypeOK, Heights
    <3>3. CASE processMissed
      BY <3>1, <3>2, <3>3, SMT DEF StartingHeight, CalculateStartingBlockHeight, NotFound
    <3>4. CASE ~ processMissed
      BY <2>1, <3>4 DEF StartingHeight
    <3> QED  BY <3>3, <3>4
  <2> QED  BY <2>2, <2>3
<1>5. ReplacedBelow'
  BY <1>2, <1>3 DEF HInv, ReplacedBelow, Registered
<1>6. AheadOfRow'
  <2> SUFFICES ASSUME NEW n \in Managers, Registered(n), pc'[n] \in PutPath
               PROVE  file'[IDOf[n]] <= committedHeight[n]
    BY <1>2 DEF AheadOfRow, Registered
  <2>1. n # m /\ pc[n] \in PutPath
    BY <1>2 DEF Goto, PutPath, PutSteps, IInv, TypeOK
  <2>2. CASE IDOf[n] # IDOf[m]
    BY <1>1, <2>1, <2>2, HeightsAreInts DEF HInv, AheadOfRow, IInv, TypeOK
  <2>3. CASE IDOf[n] = IDOf[m]
    <3>1. ~ Registered(m)
      BY <2>1, <2>3, OneRegistered
    <3>2. committedHeight[m] <= committedHeight[n]
      BY <1>2, <2>1, <2>3, <3>1 DEF HInv, ReplacedBelow, PutPath, PutSteps
    <3> QED  BY <1>1, <2>3, <3>2, HeightsAreInts DEF IInv, TypeOK
  <2> QED  BY <2>2, <2>3
<1> QED  BY <1>4, <1>5, <1>6 DEF HInv

\* Only the registered manager of an ID commits, and not while it writes.
LEMMA CommitHInv ==
    ASSUME IInv, HInv, NEW m \in Managers, Commit(m)
    PROVE  HInv'
<1>1. /\ committedHeight' = [committedHeight EXCEPT ![m] = @ + 1]
      /\ UNCHANGED <<file, pc, process, configVars>>
      /\ process = "running" /\ Registered(m) /\ pc[m] \notin PutPath
  BY DEF Commit, diskVars, processVars, PutPath, WriteSteps
<1>2. StartHeights'
  BY <1>1 DEF StartHeights
<1>3. \A n \in Managers : /\ committedHeight[n] <= committedHeight'[n]
                          /\ n # m => committedHeight'[n] = committedHeight[n]
  BY <1>1, HeightsAreInts, SMT DEF IInv, TypeOK
<1>4. \A n \in Managers : committedHeight'[n] \in Int
  BY <1>1, HeightsAreInts, SMT DEF IInv, TypeOK
<1>5. ReplacedBelow'
  BY <1>1, <1>3, <1>4, HeightsAreInts, SMTT(30) DEF HInv, ReplacedBelow, Registered
<1>6. AheadOfRow'
  BY <1>1, <1>3 DEF HInv, AheadOfRow, Registered
<1> QED  BY <1>2, <1>5, <1>6 DEF HInv

\* Without goroutines there is nothing to say of them.
LEMMA IdleHInv ==
    ASSUME \A m \in Managers : pc'[m] = "none"
    PROVE  HInv'
BY DEF HInv, StartHeights, ReplacedBelow, AheadOfRow, PutPath, PutSteps

\* Every step keeps the order between rows and heights.
LEMMA NextHInv == IInv /\ HInv /\ [Next]_vars => HInv'
<1> SUFFICES ASSUME IInv, HInv, [Next]_vars PROVE HInv'
  OBVIOUS
<1> USE DEF diskVars, PutPath, PutSteps
<1>1. ASSUME NEW m \in Managers, Subscribe(m) \/ RunManager(m) PROVE HInv'
  <2>1. PICK s \in {"subscribed", "waiting"} : Goto(m, s)
    BY <1>1 DEF Subscribe, RunManager
  <2> QED  BY <1>1, <2>1, StepHInv DEF Subscribe, RunManager
<1>2. CASE Started \/ Tick \/ UNCHANGED vars
  BY <1>2, FrameHInv DEF Started, Tick, vars, processVars
<1>3. CASE Send
  <2>1. subscriptions \in Seq(Managers) /\ sending \in 1 .. Len(subscriptions)
    BY <1>3, SMT DEF IInv, TypeOK, Send
  <2>2. subscriptions[sending] \in Managers
    BY <2>1, SMT
  <2> QED  BY <1>3, <2>2, StepHInv DEF Send
<1>4. ASSUME NEW m \in Managers, ReadFails(m) \/ PutFails(m) PROVE HInv'
  <2>1. Goto(m, "waiting") /\ pc[m] # "none" /\ UNCHANGED <<file, committedHeight, processVars>>
    BY <1>4 DEF ReadFails, PutFails
  <2> QED  BY <2>1, StepHInv
<1>5. ASSUME NEW m \in Managers, Put(m) PROVE HInv'
  BY <1>5, StepHInv DEF Put
<1>6. ASSUME NEW m \in Managers, WriteTmp(m) PROVE HInv'
  BY <1>6, StepHInv DEF WriteTmp
<1>7. CASE Crash \/ Restart
  <2>1. \A m \in Managers : pc'[m] = "none"
    BY <1>7 DEF Crash, Restart, IInv, DownIsIdle
  <2> QED  BY <2>1, IdleHInv
<1> QED
  BY <1>1, <1>2, <1>3, <1>4, <1>5, <1>6, <1>7, CreateManagerHInv, ReadStoredHInv, RenameHInv,
     CommitHInv DEF Next, StartUp, Write

\* A step lowers a row only as the rename of a replaced manager.
LEMMA StepKeepsRow ==
    ASSUME IInv, HInv, [Next]_vars, NEW id \in IDs, file'[id] < file[id]
    PROVE  \E m \in Managers : IDOf[m] = id /\ ~ Registered(m) /\ pc[m] = "rename"
<1>1. file' # file
  BY HeightsAreInts, SMT
<1>2. PICK m \in Managers : Rename(m)
  BY <1>1 DEF Next, StartUp, Write, CreateManager, Subscribe, RunManager, Started, Tick, Send,
              ReadStored, ReadFails, Put, PutFails, WriteTmp, Commit, Crash, Restart, vars, diskVars
<1>3. file' = [file EXCEPT ![IDOf[m]] = committedHeight[m]] /\ pc[m] = "rename"
  BY <1>2, RenameIInv DEF Rename
<1>4. IDOf[m] = id
  BY <1>3, HeightsAreInts, SMT DEF IInv, TypeOK
<1>5. file'[id] = committedHeight[m]
  BY <1>3, <1>4 DEF IInv, TypeOK
<1>6. ~ Registered(m)
  BY <1>3, <1>4, <1>5, HeightsAreInts, SMT DEF HInv, AheadOfRow, PutPath, PutSteps
<1> QED  BY <1>3, <1>4, <1>6

\* checkpoint.go compares with the row before it writes.  For any number of managers
\* and of sharing of relayer IDs, no write of a registered manager lowers a row.
THEOREM StorageRowNeverLowered == Spec => RowNeverLowered
<1>1. Init => HInv
  BY DEF Init, HInv, StartHeights, ReplacedBelow, AheadOfRow, PutPath, PutSteps
<1>2. IInv /\ HInv /\ [Next]_vars =>
          [\A id \in IDs : file'[id] < file[id] =>
              \E m \in Managers : IDOf[m] = id /\ ~ Registered(m) /\ pc[m] = "rename"]_vars
  BY StepKeepsRow
<1> QED
  BY <1>1, <1>2, NextHInv, SpecIInv, PTL DEF Spec, RowNeverLowered

------------------------------------------------------------------------------
(* The ticker and the start-up.                                             *)

Running == {"waiting"} \cup WriteSteps

\* Every subscribed manager runs, but for the last one, which may be the one that
\* main is about to run.
SubscribedRun ==
    \A i \in 1 .. Len(subscriptions) :
        \/ pc[subscriptions[i]] \in Running
        \/ /\ pc[subscriptions[i]] = "subscribed"
           /\ i = Len(subscriptions)
           /\ Creating(subscriptions[i])

\* main is creating at most one manager that does not run yet.
LEMMA OneIsCreated ==
    ASSUME NEW m \in Managers, NEW n \in Managers, Creating(m), Creating(n),
           pc[m] \in {"none", "created", "subscribed"}, pc[n] \in {"none", "created", "subscribed"}
    PROVE  m = n
<1>1. PICK i \in 1 .. Len(Order) :
         Order[i] = m /\ \A j \in 1 .. i - 1 : pc[Order[j]] \notin {"none", "created", "subscribed"}
  BY DEF Creating
<1>2. PICK k \in 1 .. Len(Order) :
         Order[k] = n /\ \A j \in 1 .. k - 1 : pc[Order[j]] \notin {"none", "created", "subscribed"}
  BY DEF Creating
<1>3. Len(Order) \in Nat
  BY ManagersAssumption, SMT
<1>4. ~ (i < k) /\ ~ (k < i)
  BY <1>1, <1>2, <1>3, SMT
<1>5. i = k
  BY <1>3, <1>4, SMT
<1> QED  BY <1>1, <1>2, <1>5

\* A manager stays the next one to be created while no earlier one is reset.
LEMMA CreatingStays ==
    ASSUME NEW m, Creating(m), process' = "starting",
           \A n \in Managers : pc'[n] \in {"none", "created", "subscribed"} =>
               pc[n] \in {"none", "created", "subscribed"}
    PROVE  Creating(m)'
<1>1. PICK i \in 1 .. Len(Order) :
         Order[i] = m /\ \A j \in 1 .. i - 1 : pc[Order[j]] \notin {"none", "created", "subscribed"}
  BY DEF Creating
<1>2. \A j \in 1 .. i - 1 : Order[j] \in Managers
  BY ManagersAssumption, SMT
<1>3. \A j \in 1 .. i - 1 : pc'[Order[j]] \notin {"none", "created", "subscribed"}
  BY <1>1, <1>2
<1> QED  BY <1>1, <1>3 DEF Creating

\* Steps that subscribe nobody: a subscribed manager that runs goes on running, and
\* one that main has yet to run stays where it is or runs.
LEMMA StaysSubscribed ==
    ASSUME TypeOK, SubscribedRun, UNCHANGED subscriptions,
           \A n \in Managers : pc[n] \in Running => pc'[n] \in Running,
           \A n \in Managers : pc[n] = "subscribed" =>
               pc'[n] \in Running \/ (pc'[n] = "subscribed" /\ process' = process),
           \A n \in Managers : pc'[n] \in {"none", "created", "subscribed"} =>
               pc[n] \in {"none", "created", "subscribed"}
    PROVE  SubscribedRun'
<1> SUFFICES ASSUME NEW i \in 1 .. Len(subscriptions)
             PROVE  \/ pc'[subscriptions[i]] \in Running
                    \/ /\ pc'[subscriptions[i]] = "subscribed"
                       /\ i = Len(subscriptions)
                       /\ Creating(subscriptions[i])'
  BY DEF SubscribedRun
<1>1. subscriptions[i] \in Managers
  BY SMT DEF TypeOK
<1>2. CASE pc[subscriptions[i]] \in Running
  BY <1>1, <1>2
<1>3. CASE /\ pc[subscriptions[i]] = "subscribed" /\ i = Len(subscriptions)
           /\ Creating(subscriptions[i])
  <2>1. CASE pc'[subscriptions[i]] \in Running
    BY <2>1
  <2>2. CASE pc'[subscriptions[i]] = "subscribed" /\ process' = process
    <3>1. process' = "starting"
      BY <1>3, <2>2 DEF Creating
    <3>2. Creating(subscriptions[i])'
      BY <1>3, <3>1, CreatingStays
    <3> QED  BY <1>3, <2>2, <3>2
  <2> QED  BY <1>1, <1>3, <2>1, <2>2
<1> QED  BY <1>2, <1>3 DEF SubscribedRun

\* Subscribing a manager: the one before it runs already, or main would not have
\* created this one.
LEMMA SubscribeRuns ==
    ASSUME TypeOK, SubscribedRun, NEW m \in Managers, Subscribe(m)
    PROVE  SubscribedRun'
<1>1. /\ subscriptions \in Seq(Managers) /\ subscriptions' = Append(subscriptions, m)
      /\ pc' = [pc EXCEPT ![m] = "subscribed"] /\ pc'[m] = "subscribed" /\ process' = process
      /\ Creating(m) /\ pc[m] = "created"
  BY DEF TypeOK, Subscribe, Goto, processVars
<1>2. /\ Len(subscriptions) \in Nat /\ Len(subscriptions') = Len(subscriptions) + 1
      /\ \A i \in 1 .. Len(subscriptions) :
            subscriptions'[i] = subscriptions[i] /\ subscriptions[i] \in Managers
      /\ subscriptions'[Len(subscriptions) + 1] = m
  BY <1>1, SMT
<1>3. ASSUME NEW i \in 1 .. Len(subscriptions) PROVE pc'[subscriptions'[i]] \in Running
  <2>1. subscriptions'[i] = subscriptions[i] /\ subscriptions[i] \in Managers
    BY <1>2
  <2>2. pc[subscriptions[i]] \in Running
    <3>1. SUFFICES ASSUME pc[subscriptions[i]] = "subscribed", Creating(subscriptions[i])
                   PROVE  FALSE
      BY DEF SubscribedRun
    <3>2. subscriptions[i] = m
      BY <1>1, <2>1, <3>1, OneIsCreated
    <3> QED  BY <1>1, <3>1, <3>2
  <2>3. subscriptions[i] # m
    BY <1>1, <2>2 DEF Running, WriteSteps, PutSteps
  <2> QED  BY <1>1, <2>1, <2>2, <2>3 DEF TypeOK
<1>4. Creating(m)'
  <2>1. process' = "starting"
    BY <1>1 DEF Creating
  <2>2. \A n \in Managers : pc'[n] \in {"none", "created", "subscribed"} =>
            pc[n] \in {"none", "created", "subscribed"}
    BY <1>1 DEF TypeOK
  <2> QED  BY <1>1, <2>1, <2>2, CreatingStays
<1>5. ASSUME NEW i \in 1 .. Len(subscriptions')
      PROVE  i \in 1 .. Len(subscriptions) \/ i = Len(subscriptions')
  BY <1>2, SMT
<1>6. subscriptions'[Len(subscriptions')] = m
  BY <1>2
<1> SUFFICES ASSUME NEW i \in 1 .. Len(subscriptions')
             PROVE  \/ pc'[subscriptions'[i]] \in Running
                    \/ /\ pc'[subscriptions'[i]] = "subscribed"
                       /\ i = Len(subscriptions')
                       /\ Creating(subscriptions[i])'
  BY DEF SubscribedRun
<1>7. CASE i \in 1 .. Len(subscriptions)
  BY <1>3, <1>7
<1>8. CASE i = Len(subscriptions')
  <2>1. subscriptions'[i] = m
    BY <1>6, <1>8
  <2> QED  BY <1>1, <1>4, <1>8, <2>1 DEF Creating
<1> QED  BY <1>5, <1>7, <1>8

\* Every step keeps the subscribed managers running.
LEMMA NextRuns == IInv /\ SubscribedRun /\ [Next]_vars => SubscribedRun'
<1> SUFFICES ASSUME IInv, SubscribedRun, [Next]_vars PROVE SubscribedRun'
  OBVIOUS
<1> USE DEF Running, WriteSteps, PutSteps
<1>1. TypeOK
  BY DEF IInv
<1>2. ASSUME NEW m \in Managers, NEW s \in Running, pc[m] \in Running \cup {"subscribed"},
             Goto(m, s), UNCHANGED <<subscriptions, process>>
      PROVE  SubscribedRun'
  <2>1. \A n \in Managers : pc'[n] = IF n = m THEN s ELSE pc[n]
    BY <1>1, <1>2 DEF TypeOK, Goto
  <2> QED  BY <1>1, <1>2, <2>1, StaysSubscribed
<1>3. ASSUME NEW m \in Managers, CreateManager(m) PROVE SubscribedRun'
  <2>1. /\ pc[m] = "none" /\ UNCHANGED subscriptions
        /\ pc' = pc \/ pc' = [pc EXCEPT ![m] = "created"]
    BY <1>3 DEF CreateManager, Goto, tickerVars
  <2>2. FilesComplete
    BY DEF IInv
  <2>3. process' = process
    BY <1>3, <2>2, ManagersAssumption DEF CreateManager, FilesComplete, Get
  <2> QED  BY <1>1, <2>1, <2>3, StaysSubscribed DEF TypeOK
<1>4. ASSUME NEW m \in Managers, Subscribe(m) PROVE SubscribedRun'
  BY <1>1, <1>4, SubscribeRuns
<1>5. ASSUME NEW m \in Managers, RunManager(m) PROVE SubscribedRun'
  BY <1>2, <1>5 DEF RunManager, tickerVars, processVars
<1>6. CASE Started
  BY <1>1, <1>6, StaysSubscribed DEF Started, tickerVars
<1>7. CASE Tick
  BY <1>1, <1>7, StaysSubscribed DEF Tick, processVars
<1>8. CASE Send
  <2>1. subscriptions[sending] \in Managers
    BY <1>1, <1>8, SMT DEF Send, TypeOK
  <2> QED  BY <1>2, <1>8, <2>1 DEF Send, processVars
<1>9. ASSUME NEW m \in Managers, Write(m) \/ ReadFails(m) \/ PutFails(m) PROVE SubscribedRun'
  <2>1. PICK s \in Running : Goto(m, s) /\ pc[m] \in Running /\ UNCHANGED <<subscriptions, process>>
    BY <1>9 DEF Write, ReadStored, Put, WriteTmp, Rename, ReadFails, PutFails, tickerVars,
                processVars
  <2> QED  BY <1>2, <2>1
<1>10. ASSUME NEW m \in Managers, Commit(m) PROVE SubscribedRun'
  BY <1>1, <1>10, StaysSubscribed DEF Commit, tickerVars, processVars
<1>11. CASE Crash
  <2>1. subscriptions' = <<>>
    BY <1>11 DEF Crash
  <2>2. 1 .. Len(<<>>) = {}
    BY SMT
  <2> QED  BY <2>1, <2>2 DEF SubscribedRun
<1>12. CASE Restart
  <2>1. UNCHANGED <<subscriptions, pc>> /\ \A m \in Managers : pc[m] = "none"
    BY <1>12 DEF Restart, IInv, DownIsIdle, tickerVars
  <2> QED  BY <1>1, <2>1, StaysSubscribed
<1>13. CASE UNCHANGED vars
  BY <1>1, <1>13, StaysSubscribed DEF vars, tickerVars, processVars
<1> QED
  BY <1>3, <1>4, <1>5, <1>6, <1>7, <1>8, <1>9, <1>10, <1>11, <1>12, <1>13 DEF Next, StartUp

\* utils/ticker.go sends with its lock held and main subscribes with the same lock: for
\* any number of managers the send never waits for a manager that could run only after
\* the lock is released.
THEOREM TickerIsServed == Spec => []TickerWaitsForRunning
<1>1. Init => SubscribedRun
  <2>1. 1 .. Len(<<>>) = {}
    BY SMT
  <2> QED  BY <2>1 DEF Init, SubscribedRun
<1>2. IInv /\ SubscribedRun => TickerWaitsForRunning
  <2> SUFFICES ASSUME TypeOK, SubscribedRun, sending # 0
               PROVE  \/ pc[subscriptions[sending]] \in Running
                      \/ /\ pc[subscriptions[sending]] = "subscribed"
                         /\ sending = Len(subscriptions)
                         /\ Creating(subscriptions[sending])
    BY DEF IInv, TickerWaitsForRunning, Running
  <2>1. sending \in 1 .. Len(subscriptions)
    BY SMT DEF TypeOK
  <2> QED  BY <2>1 DEF SubscribedRun
<1> QED  BY <1>1, <1>2, NextRuns, SpecIInv, PTL DEF Spec
==============================================================================
