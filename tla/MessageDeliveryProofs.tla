------------------------- MODULE MessageDeliveryProofs -------------------------
(***************************************************************************)
(* For every set of messages and of concurrent ProcessMessage calls: a     *)
(* staged block is delivered; and with a node that loses nothing, the      *)
(* client's nonce stays in step with the mempool and a call that waits for *)
(* a receipt waits for a transaction that exists.                          *)
(***************************************************************************)
EXTENDS MessageDelivery, TLAPS

\* Leaves are first-order and go to Zenon; those with arithmetic, and the larger ones, name SMT.
USE Zenon

\* A task that ended without an error has its message on the chain, unless it
\* was rejected or belongs to the off-chain registry.
EndedIsDelivered ==
    \A t \in Tasks :
        \/ state[t] = "skipped"
        \/ state[t] = "relayed" /\ MsgOf[t] \notin OffChain
        => MsgOf[t] \in delivered

\* Successful transactions have delivered their messages.
SuccessIsDelivered ==
    \A i \in 1..Len(mined) : mined[i].status = "success" => MsgOf[mined[i].task] \in delivered

StagedHasEnded == staged => \A t \in BlockTasks : state[t] \in Final \ {"failed"}

\* The inductive invariant.  A staged block stays delivered because final tasks
\* do not move and delivered messages are not taken back.
IInv == TypeOK /\ EndedIsDelivered /\ SuccessIsDelivered /\ StagedHasEnded

\* Steps that only move task t to a state that promises nothing about delivery.
LEMMA Moves ==
  ASSUME IInv, NEW t \in Tasks, NEW s \in States, state[t] \notin Final,
         state' = [state EXCEPT ![t] = s], UNCHANGED <<mined, delivered, staged>>,
         s = "skipped" => MsgOf[t] \in delivered,
         s = "relayed" => MsgOf[t] \in delivered \union OffChain
  PROVE  EndedIsDelivered' /\ SuccessIsDelivered' /\ StagedHasEnded'
<1>1. EndedIsDelivered'
  BY DEF IInv, TypeOK, EndedIsDelivered
<1>2. SuccessIsDelivered'
  BY DEF IInv, SuccessIsDelivered
<1>3. StagedHasEnded'
  BY SMT DEF IInv, TypeOK, StagedHasEnded
<1> QED BY <1>1, <1>2, <1>3

\* The invariant holds when the block's processing starts.
LEMMA InitIInv == Init => IInv
<1> SUFFICES ASSUME Init PROVE IInv
  OBVIOUS
<1>1. mined \in Seq([task : Tasks, status : Statuses]) /\ Len(mined) = 0
  BY SMT DEF Init
<1>2. TypeOK
  <2>1. state \in [Tasks -> States] /\ sent \in [Tasks -> Nat]
    BY DEF Init, States
  <2>2. pool \subseteq Transactions /\ delivered \subseteq Messages
    BY DEF Init
  <2>3. staged \in BOOLEAN /\ disturbed \in BOOLEAN
    BY DEF Init
  <2>4. currentNonce \in Nat /\ restarts \in 0..MaxRestarts
    BY RestartsAssumption, SMT DEF Init
  <2> QED
    BY <1>1, <2>1, <2>2, <2>3, <2>4 DEF TypeOK
<1> QED
  BY <1>1, <1>2, SMT DEF Init, IInv, EndedIsDelivered, SuccessIsDelivered, StagedHasEnded

\* A step of a ProcessMessage call keeps the invariant.
LEMMA TaskIInv ==
  ASSUME IInv, NEW t \in Tasks, Task(t) PROVE IInv'
<1> USE DEF Goto
<1>1. CASE ShouldSendMessage(t)
  <2>1. PICK s \in {"failed", "rejected", "skipped", "signing"} :
           /\ s = "skipped" => MsgOf[t] \in delivered
           /\ state' = [state EXCEPT ![t] = s]
    BY <1>1 DEF ShouldSendMessage, TeleporterVerdicts, RegistryVerdicts
  <2>2. EndedIsDelivered' /\ SuccessIsDelivered' /\ StagedHasEnded'
    BY <1>1, <2>1, Moves DEF ShouldSendMessage, States, Final, chainVars
  <2> QED
    BY <1>1, <2>1, <2>2 DEF ShouldSendMessage, IInv, TypeOK, States, Final, chainVars
<1>2. CASE CreateSignedMessage(t)
  <2>1. PICK s \in {"sending", "failed"} : state' = [state EXCEPT ![t] = s]
    BY <1>2 DEF CreateSignedMessage
  <2>2. EndedIsDelivered' /\ SuccessIsDelivered' /\ StagedHasEnded'
    BY <1>2, <2>1, Moves DEF CreateSignedMessage, States, Final, chainVars
  <2> QED
    BY <1>2, <2>1, <2>2 DEF CreateSignedMessage, IInv, TypeOK, States, Final, chainVars
<1>3. CASE SendTxFails(t)
  <2>1. EndedIsDelivered' /\ SuccessIsDelivered' /\ StagedHasEnded'
    BY <1>3, Moves DEF SendTxFails, States, Final, chainVars
  <2> QED
    BY <1>3, <2>1 DEF SendTxFails, IInv, TypeOK, States, Final, chainVars
<1>4. CASE SendTx(t)
  <2> DEFINE s == AfterSend(MsgOf[t])
  <2>1. EndedIsDelivered' /\ SuccessIsDelivered' /\ StagedHasEnded'
    <3>1. s \in States /\ (s = "relayed" => MsgOf[t] \in OffChain) /\ s # "skipped"
      BY DEF States, Final, AfterSend
    <3>2. state' = [state EXCEPT ![t] = s] /\ state[t] \notin Final
          /\ UNCHANGED <<mined, delivered, staged>>
      BY <1>4 DEF SendTx, Final
    <3> HIDE DEF s
    <3> QED
      BY <3>1, <3>2, Moves
  <2>2. pool' \subseteq Transactions
    BY <1>4, SMT DEF SendTx, NodeAccepts, IInv, TypeOK, Transactions
  <2>3. sent' \in [Tasks -> Nat] /\ currentNonce' \in Nat
    BY <1>4, SMT DEF SendTx, IInv, TypeOK
  <2> QED
    BY <1>4, <2>1, <2>2, <2>3 DEF SendTx, AfterSend, IInv, TypeOK, States, Final
<1>5. CASE SendTxAnswerLost(t)
  <2>1. EndedIsDelivered' /\ SuccessIsDelivered' /\ StagedHasEnded'
    BY <1>5, Moves DEF SendTxAnswerLost, States, Final
  <2>2. pool' \subseteq Transactions
    BY <1>5, SMT DEF SendTxAnswerLost, NodeAccepts, IInv, TypeOK, Transactions
  <2> QED
    BY <1>5, <2>1, <2>2 DEF SendTxAnswerLost, IInv, TypeOK, States, Final
<1>6. CASE WaitForReceipt(t)
  <2> DEFINE i == sent[t] + 1
             s == IF mined[i].status = "success" THEN "relayed" ELSE "failed"
  <2>1. i \in 1..Len(mined) /\ mined[i].task = t
    BY <1>6, SMT DEF WaitForReceipt, HasReceipt, AccountNonce, IInv, TypeOK
  <2>2. s = "relayed" => MsgOf[t] \in delivered
    BY <2>1 DEF IInv, SuccessIsDelivered
  <2>3. s \in States /\ s # "skipped"
    BY DEF States, Final
  <2>4. state' = [state EXCEPT ![t] = s] /\ state[t] \notin Final
        /\ UNCHANGED <<chainVars, sent, staged, currentNonce, disturbed, restarts>>
    BY <1>6 DEF WaitForReceipt, Final
  <2> HIDE DEF s
  <2>5. EndedIsDelivered' /\ SuccessIsDelivered' /\ StagedHasEnded'
    BY <2>2, <2>3, <2>4, Moves DEF chainVars
  <2> QED
    BY <2>3, <2>4, <2>5 DEF IInv, TypeOK, chainVars
<1>7. CASE ReceiptTimesOut(t)
  <2>1. EndedIsDelivered' /\ SuccessIsDelivered' /\ StagedHasEnded'
    BY <1>7, Moves DEF ReceiptTimesOut, States, Final, chainVars
  <2> QED
    BY <1>7, <2>1 DEF ReceiptTimesOut, IInv, TypeOK, States, Final, chainVars
<1> QED
  BY <1>1, <1>2, <1>3, <1>4, <1>5, <1>6, <1>7 DEF Task

\* A transaction in the mempool is included, successfully or not.
LEMMA MineIInv ==
  ASSUME IInv, NEW tx \in pool, NEW status \in Statuses, Mine(tx, status) PROVE IInv'
<1> DEFINE r == [task |-> tx.task, status |-> status]
<1>1. tx \in Transactions /\ tx.task \in Tasks /\ MsgOf[tx.task] \in Messages
  BY MessagesAssumption DEF IInv, TypeOK, Transactions
<1>2. r \in [task : Tasks, status : Statuses]
  BY <1>1
<1>3. /\ mined' \in Seq([task : Tasks, status : Statuses])
      /\ Len(mined') = Len(mined) + 1
      /\ mined'[Len(mined) + 1] = r
      /\ \A i \in 1..Len(mined) : mined'[i] = mined[i]
  BY <1>2, SMT DEF Mine, IInv, TypeOK
<1>4. delivered \subseteq delivered' /\ delivered' \subseteq Messages
  BY <1>1 DEF Mine, IInv, TypeOK
<1>5. TypeOK'
  BY <1>3, <1>4 DEF Mine, IInv, TypeOK
<1>6. SuccessIsDelivered'
  <2> SUFFICES ASSUME NEW i \in 1..Len(mined'), mined'[i].status = "success"
               PROVE  MsgOf[mined'[i].task] \in delivered'
    BY DEF SuccessIsDelivered
  <2>1. CASE i \in 1..Len(mined)
    BY <1>3, <1>4, <2>1 DEF IInv, SuccessIsDelivered
  <2>2. CASE i = Len(mined) + 1
    BY <1>3, <2>2, SMT DEF Mine
  <2>3. Len(mined) \in Nat
    BY SMT DEF IInv, TypeOK
  <2> QED
    BY <1>3, <2>1, <2>2, <2>3, SMT
<1>7. EndedIsDelivered' /\ StagedHasEnded'
  BY <1>4 DEF Mine, IInv, EndedIsDelivered, StagedHasEnded
<1> QED
  BY <1>5, <1>6, <1>7 DEF IInv

\* Every step keeps the invariant.
LEMMA NextIInv == IInv /\ [Next]_vars => IInv'
<1> SUFFICES ASSUME IInv, [Next]_vars PROVE IInv'
  OBVIOUS
<1>1. CASE \E t \in Tasks : Task(t)
  BY <1>1, TaskIInv
<1>2. CASE StageHeight
  BY <1>2 DEF StageHeight, chainVars, IInv, TypeOK, EndedIsDelivered, SuccessIsDelivered,
              StagedHasEnded
<1>3. CASE Restart
  <2>1. AccountNonce \in Nat
    BY SMT DEF AccountNonce, IInv, TypeOK
  <2>2. (pool # {}) \in BOOLEAN
    OBVIOUS
  <2>3. restarts' \in 0..MaxRestarts
    BY <1>3, RestartsAssumption, SMT DEF Restart, IInv, TypeOK
  <2>4. state' \in [Tasks -> States] /\ sent' \in [Tasks -> Nat]
    BY <1>3 DEF Restart, States
  <2>5. disturbed' \in BOOLEAN
    BY <1>3, <2>2 DEF Restart
  <2>6. TypeOK'
    BY <1>3, <2>1, <2>3, <2>4, <2>5 DEF Restart, chainVars, IInv, TypeOK
  <2>7. EndedIsDelivered' /\ SuccessIsDelivered' /\ StagedHasEnded'
    BY <1>3 DEF Restart, chainVars, IInv, EndedIsDelivered, SuccessIsDelivered, StagedHasEnded
  <2> QED
    BY <2>6, <2>7 DEF IInv
<1>4. CASE \E tx \in pool, status \in Statuses : Mine(tx, status)
  BY <1>4, MineIInv
<1>5. CASE \E tx \in pool : Evict(tx)
  <2>1. /\ pool' \subseteq pool /\ disturbed' = TRUE
        /\ UNCHANGED <<mined, delivered, state, sent, staged, currentNonce, restarts>>
    BY <1>5 DEF Evict
  <2>2. TypeOK'
    BY <2>1 DEF IInv, TypeOK
  <2>3. EndedIsDelivered' /\ SuccessIsDelivered' /\ StagedHasEnded'
    BY <2>1 DEF IInv, EndedIsDelivered, SuccessIsDelivered, StagedHasEnded
  <2> QED BY <2>2, <2>3 DEF IInv
<1>6. CASE \E m \in Messages : DeliveredElsewhere(m)
  BY <1>6, SMT DEF DeliveredElsewhere, IInv, TypeOK, EndedIsDelivered, SuccessIsDelivered,
              StagedHasEnded
<1>7. CASE UNCHANGED vars
  BY <1>7 DEF vars, IInv, TypeOK, EndedIsDelivered, SuccessIsDelivered, StagedHasEnded
<1> QED
  BY <1>1, <1>2, <1>3, <1>4, <1>5, <1>6, <1>7 DEF Next

\* A final task that has not failed was rejected, or its message is delivered or
\* of the off-chain registry.
LEMMA IInvImplies == IInv => StagedIsDelivered
BY TasksAssumption DEF IInv, EndedIsDelivered, StagedHasEnded, StagedIsDelivered, Final

LEMMA Invariance == Spec => []IInv
<1> QED BY InitIInv, NextIInv, PTL DEF Spec

\* The types hold for every set of tasks.
THEOREM TypeCorrect == Spec => []TypeOK
<1>1. IInv => TypeOK
  BY DEF IInv
<1> QED BY <1>1, Invariance, PTL

\* ProcessHeight stages a block only when its Teleporter messages are delivered or
\* rejected for this relayer, for every number of concurrent calls and restarts.
THEOREM StagedSafe == Spec => []StagedIsDelivered
<1> QED BY IInvImplies, Invariance, PTL

-----------------------------------------------------------------------------
(* The nonce.                                                              *)

\* One step of a call keeps the nonces contiguous: only SendTx moves the nonce,
\* and it adds the transaction that carries the old one.
LEMMA TaskNonces ==
  ASSUME TypeOK, NoncesContiguous, NEW t \in Tasks, Task(t) PROVE NoncesContiguous'
<1>0. AccountNonce \in Nat /\ currentNonce \in Nat /\ \A tx \in pool : tx.nonce \in Nat
  BY SMT DEF TypeOK, AccountNonce, Transactions
<1>1. CASE SendTx(t)
  <2> SUFFICES ASSUME ~disturbed'
               PROVE  /\ AccountNonce' <= currentNonce'
                      /\ {tx.nonce : tx \in pool'} = AccountNonce' .. (currentNonce' - 1)
                      /\ \A tx1, tx2 \in pool' : tx1.nonce = tx2.nonce => tx1 = tx2
    BY DEF NoncesContiguous
  <2> DEFINE new == [task |-> t, nonce |-> currentNonce]
  <2>1. /\ AccountNonce <= currentNonce
        /\ {tx.nonce : tx \in pool} = AccountNonce .. (currentNonce - 1)
        /\ \A tx1, tx2 \in pool : tx1.nonce = tx2.nonce => tx1 = tx2
    BY <1>1 DEF SendTx, NoncesContiguous
  <2>2. AccountNonce' = AccountNonce /\ currentNonce' = currentNonce + 1
    BY <1>1 DEF SendTx, AccountNonce
  <2>3. \A tx \in pool : tx.nonce \in AccountNonce .. (currentNonce - 1)
    BY <2>1
  <2>4. \A tx \in pool : tx.nonce # currentNonce
    BY <1>0, <2>3, SMT
  <2>5. pool' = pool \union {new} /\ new.nonce = currentNonce
    BY <1>1, <2>4 DEF SendTx, NodeAccepts
  <2>6. {tx.nonce : tx \in pool'} = {tx.nonce : tx \in pool} \union {currentNonce}
    <3> HIDE DEF new
    <3> QED BY <2>5
  <2>7. AccountNonce .. currentNonce = (AccountNonce .. (currentNonce - 1)) \union {currentNonce}
    BY <1>0, <2>1, SMT
  <2>8. currentNonce' - 1 = currentNonce /\ AccountNonce' <= currentNonce'
    BY <1>0, <2>1, <2>2, SMT
  <2>9. \A tx1, tx2 \in pool' : tx1.nonce = tx2.nonce => tx1 = tx2
    <3> HIDE DEF new
    <3> QED BY <2>1, <2>4, <2>5
  <2> QED BY <2>1, <2>2, <2>6, <2>7, <2>8, <2>9
<1>2. CASE SendTxAnswerLost(t)
  BY <1>2 DEF SendTxAnswerLost, NoncesContiguous
<1>3. CASE UNCHANGED <<chainVars, currentNonce, disturbed>>
  BY <1>3 DEF chainVars, NoncesContiguous, AccountNonce
<1> QED
  BY <1>1, <1>2, <1>3 DEF Task, ShouldSendMessage, CreateSignedMessage, SendTxFails,
                          WaitForReceipt, ReceiptTimesOut

\* Including the transaction with the account's next nonce moves the lower end.
LEMMA MineNonces ==
  ASSUME TypeOK, NoncesContiguous, NEW tx \in pool, NEW status \in Statuses, Mine(tx, status)
  PROVE  NoncesContiguous'
<1> SUFFICES ASSUME ~disturbed'
             PROVE  /\ AccountNonce' <= currentNonce'
                    /\ {x.nonce : x \in pool'} = AccountNonce' .. (currentNonce' - 1)
                    /\ \A tx1, tx2 \in pool' : tx1.nonce = tx2.nonce => tx1 = tx2
  BY DEF NoncesContiguous
<1>1. /\ AccountNonce <= currentNonce
      /\ {x.nonce : x \in pool} = AccountNonce .. (currentNonce - 1)
      /\ \A tx1, tx2 \in pool : tx1.nonce = tx2.nonce => tx1 = tx2
  BY DEF Mine, NoncesContiguous
<1>2. AccountNonce \in Nat /\ currentNonce \in Nat
  BY SMT DEF TypeOK, AccountNonce
<1>3. AccountNonce' = AccountNonce + 1 /\ currentNonce' = currentNonce
  BY SMT DEF Mine, TypeOK, AccountNonce
<1>4. pool' = pool \ {tx} /\ tx.nonce = AccountNonce
  BY DEF Mine
<1>5. AccountNonce \in AccountNonce .. (currentNonce - 1)
  BY <1>1, <1>4
<1>6. {x.nonce : x \in pool'} = {x.nonce : x \in pool} \ {AccountNonce}
  BY <1>1, <1>4
<1>7. (AccountNonce .. (currentNonce - 1)) \ {AccountNonce}
        = (AccountNonce + 1) .. (currentNonce - 1)
  BY <1>2, SMT
<1>8. AccountNonce' <= currentNonce'
  BY <1>2, <1>3, <1>5, SMT
<1> QED BY <1>1, <1>3, <1>4, <1>6, <1>7, <1>8

\* While the node loses no transaction and no answer, the mempool has exactly one
\* transaction for each nonce the client has used and the chain has not.
THEOREM NoncesSafe == Spec => []NoncesContiguous
<1>1. Init => NoncesContiguous
  BY SMT DEF Init, NoncesContiguous, AccountNonce
<1>2. TypeOK /\ NoncesContiguous /\ [Next]_vars => NoncesContiguous'
  <2> SUFFICES ASSUME TypeOK, NoncesContiguous, [Next]_vars PROVE NoncesContiguous'
    OBVIOUS
  <2>1. CASE \E t \in Tasks : Task(t)
    BY <2>1, TaskNonces
  <2>2. CASE StageHeight
    BY <2>2 DEF StageHeight, chainVars, NoncesContiguous, AccountNonce
  <2>3. CASE Restart
    <3>1. CASE pool = {}
      <4>1. pool' = {} /\ AccountNonce' = AccountNonce /\ currentNonce' = AccountNonce
        BY <2>3, <3>1 DEF Restart, chainVars, AccountNonce
      <4>2. AccountNonce \in Nat
        BY SMT DEF TypeOK, AccountNonce
      <4>3. AccountNonce .. (AccountNonce - 1) = {}
        BY <4>2, SMT
      <4> QED BY <4>1, <4>2, <4>3, SMT DEF NoncesContiguous
    <3>2. CASE pool # {}
      <4>1. disturbed'
        BY <2>3, <3>2 DEF Restart
      <4> QED BY <4>1 DEF NoncesContiguous
    <3> QED BY <3>1, <3>2
  <2>4. CASE \E tx \in pool, status \in Statuses : Mine(tx, status)
    BY <2>4, MineNonces
  <2>5. CASE \E tx \in pool : Evict(tx)
    BY <2>5 DEF Evict, NoncesContiguous
  <2>6. CASE \E m \in Messages : DeliveredElsewhere(m)
    BY <2>6, SMT DEF DeliveredElsewhere, NoncesContiguous, AccountNonce
  <2>7. CASE UNCHANGED vars
    BY <2>7 DEF vars, NoncesContiguous, AccountNonce
  <2> QED BY <2>1, <2>2, <2>3, <2>4, <2>5, <2>6, <2>7 DEF Next
<1> QED BY <1>1, <1>2, TypeCorrect, PTL DEF Spec

-----------------------------------------------------------------------------
(* The receipts.                                                           *)

\* A step of a call: SendTx adds the transaction the call will wait for, and
\* replaces none because the current nonce is not in the mempool.
LEMMA TaskWaits ==
  ASSUME TypeOK, NoncesContiguous, WaitedForExists, NEW t \in Tasks, Task(t)
  PROVE  WaitedForExists'
<1>0. AccountNonce \in Nat /\ currentNonce \in Nat
  BY SMT DEF TypeOK, AccountNonce
<1>1. CASE SendTx(t)
  <2> SUFFICES ASSUME ~disturbed', NEW u \in Tasks, state'[u] = "waiting"
               PROVE  [task |-> u, nonce |-> sent'[u]] \in pool' \/ HasReceipt(u)'
    BY DEF WaitedForExists
  <2>1. ~disturbed /\ mined' = mined
    BY <1>1 DEF SendTx
  <2>2. \A tx \in pool : tx.nonce \in AccountNonce .. (currentNonce - 1)
    BY <2>1 DEF NoncesContiguous
  <2>3. \A tx \in pool : tx.nonce # currentNonce
    BY <1>0, <2>2, SMT
  <2>4. pool' = pool \union {[task |-> t, nonce |-> currentNonce]}
    BY <1>1, <2>3 DEF SendTx, NodeAccepts
  <2>5. CASE u = t
    <3>1. sent'[u] = currentNonce
      BY <1>1, <2>5 DEF SendTx, TypeOK
    <3> QED BY <2>4, <2>5, <3>1
  <2>6. CASE u # t
    <3>1. sent'[u] = sent[u] /\ state'[u] = state[u]
      BY <1>1, <2>6 DEF SendTx, Goto, TypeOK
    <3> QED BY <2>1, <2>4, <3>1 DEF WaitedForExists, HasReceipt, AccountNonce
  <2> QED BY <2>5, <2>6
<1>2. CASE SendTxAnswerLost(t)
  BY <1>2 DEF SendTxAnswerLost, WaitedForExists
<1>3. CASE /\ \E s \in States \ {"waiting"} : Goto(t, s)
           /\ UNCHANGED <<chainVars, sent, disturbed>>
  BY <1>3 DEF Goto, chainVars, TypeOK, WaitedForExists, HasReceipt, AccountNonce
<1>4. CASE ShouldSendMessage(t)
  BY <1>3, <1>4 DEF ShouldSendMessage, TeleporterVerdicts, RegistryVerdicts, States, Final
<1>5. CASE CreateSignedMessage(t)
  BY <1>3, <1>5 DEF CreateSignedMessage, States, Final
<1>6. CASE SendTxFails(t)
  BY <1>3, <1>6 DEF SendTxFails, States, Final
<1>7. CASE WaitForReceipt(t)
  BY <1>3, <1>7 DEF WaitForReceipt, States, Final
<1>8. CASE ReceiptTimesOut(t)
  BY <1>3, <1>8 DEF ReceiptTimesOut, States, Final
<1> QED BY <1>1, <1>2, <1>4, <1>5, <1>6, <1>7, <1>8 DEF Task

\* The transaction that leaves the mempool for the chain is at the place of its
\* nonce there, and it is the only one with that nonce.
LEMMA MineWaits ==
  ASSUME TypeOK, NoncesContiguous, WaitedForExists,
         NEW tx \in pool, NEW status \in Statuses, Mine(tx, status)
  PROVE  WaitedForExists'
<1> SUFFICES ASSUME ~disturbed', NEW u \in Tasks, state'[u] = "waiting"
             PROVE  [task |-> u, nonce |-> sent'[u]] \in pool' \/ HasReceipt(u)'
  BY DEF WaitedForExists
<1> DEFINE mine == [task |-> u, nonce |-> sent[u]]
           r == [task |-> tx.task, status |-> status]
<1>1. ~disturbed /\ state[u] = "waiting" /\ sent' = sent /\ pool' = pool \ {tx}
      /\ tx.nonce = Len(mined)
  BY DEF Mine, AccountNonce
<1>2. mine \in pool \/ HasReceipt(u)
  BY <1>1 DEF WaitedForExists
<1>3. tx.task \in Tasks
  BY DEF TypeOK, Transactions
<1>4. /\ Len(mined) \in Nat /\ Len(mined') = Len(mined) + 1
      /\ mined'[Len(mined) + 1] = r
      /\ \A i \in 1..Len(mined) : mined'[i] = mined[i]
  BY <1>3, SMT DEF Mine, TypeOK
<1>5. CASE mine \in pool /\ mine # tx
  BY <1>1, <1>5
<1>6. CASE mine = tx
  <2>1. sent[u] = Len(mined) /\ r.task = u
    BY <1>1, <1>6
  <2>2. sent'[u] < Len(mined') /\ mined'[sent'[u] + 1].task = u
    BY <1>1, <1>4, <2>1, SMT
  <2> QED BY <2>2 DEF HasReceipt, AccountNonce
<1>7. CASE HasReceipt(u)
  <2>1. sent[u] \in Nat /\ sent[u] < Len(mined) /\ mined[sent[u] + 1].task = u
    BY <1>7 DEF HasReceipt, AccountNonce, TypeOK
  <2>2. sent[u] + 1 \in 1..Len(mined) /\ sent[u] < Len(mined')
    BY <1>4, <2>1, SMT
  <2> QED BY <1>1, <1>4, <2>1, <2>2 DEF HasReceipt, AccountNonce
<1> QED BY <1>2, <1>5, <1>6, <1>7

\* While the node loses nothing, every transaction whose receipt a call waits for
\* exists and is the call's own, for every number of concurrent calls.
THEOREM WaitsAreMet == Spec => []WaitedForExists
<1>1. Init => WaitedForExists
  BY DEF Init, WaitedForExists
<1>2. TypeOK /\ NoncesContiguous /\ WaitedForExists /\ [Next]_vars => WaitedForExists'
  <2> SUFFICES ASSUME TypeOK, NoncesContiguous, WaitedForExists, [Next]_vars
               PROVE  WaitedForExists'
    OBVIOUS
  <2>1. CASE \E t \in Tasks : Task(t)
    BY <2>1, TaskWaits
  <2>2. CASE StageHeight
    BY <2>2 DEF StageHeight, chainVars, WaitedForExists, HasReceipt, AccountNonce
  <2>3. CASE Restart
    BY <2>3 DEF Restart, WaitedForExists
  <2>4. CASE \E tx \in pool, status \in Statuses : Mine(tx, status)
    BY <2>4, MineWaits
  <2>5. CASE \E tx \in pool : Evict(tx)
    BY <2>5 DEF Evict, WaitedForExists
  <2>6. CASE \E m \in Messages : DeliveredElsewhere(m)
    BY <2>6, SMT DEF DeliveredElsewhere, WaitedForExists, HasReceipt, AccountNonce
  <2>7. CASE UNCHANGED vars
    BY <2>7 DEF vars, WaitedForExists, HasReceipt, AccountNonce
  <2> QED BY <2>1, <2>2, <2>3, <2>4, <2>5, <2>6, <2>7 DEF Next
<1> QED BY <1>1, <1>2, TypeCorrect, NoncesSafe, PTL DEF Spec
================================================================================
