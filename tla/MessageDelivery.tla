--------------------------- MODULE MessageDelivery ---------------------------
(***************************************************************************)
(* How the messages of one block reach a destination chain:                *)
(* ApplicationRelayer.ProcessHeight and ProcessMessage, the Teleporter and *)
(* off-chain registry message handlers, and the destination client with    *)
(* the nonce it keeps in memory, against a node whose mempool may lose     *)
(* transactions and whose answers may be wrong.                            *)
(*                                                                         *)
(* A task is one ProcessMessage call.  The block's tasks run concurrently  *)
(* with each other and with tasks the HTTP API starts for the same         *)
(* messages; another relayer may deliver a message at any time.            *)
(***************************************************************************)
EXTENDS Integers, Sequences, FiniteSets

CONSTANTS
    Tasks,          \* ProcessMessage calls
    BlockTasks,     \* those ProcessHeight starts; the others come from the API
    Messages,
    MsgOf,          \* the message of each task
    OffChain,       \* messages of the off-chain registry protocol
    Ineligible,     \* messages this relayer never sends: gas limit, allowed
                    \* relayers, another registry
    MaxRestarts     \* bound: restarts of the process

ASSUME TasksAssumption == BlockTasks \subseteq Tasks /\ IsFiniteSet(Tasks)
ASSUME MessagesAssumption == /\ MsgOf \in [Tasks -> Messages]
                             /\ OffChain \subseteq Messages
                             /\ Ineligible \subseteq Messages
ASSUME RestartsAssumption == MaxRestarts \in Nat

VARIABLES
    state,          \* where each task is
    sent,           \* nonce of the transaction a task waits for
    staged,         \* ProcessHeight has staged the block
    currentNonce,   \* destinationClient.currentNonce
    pool,           \* transactions in the node's mempool
    mined,          \* the account's transactions on chain, in nonce order
    delivered,      \* messages the destination contracts have accepted
    disturbed,      \* the nonce in memory may be out of step (history)
    restarts

vars == <<state, sent, staged, currentNonce, pool, mined, delivered, disturbed, restarts>>

Final == {"relayed", "skipped", "rejected", "failed"}
States == {"idle", "signing", "sending", "waiting"} \union Final
Statuses == {"success", "reverted"}
Transactions == [task : Tasks, nonce : Nat]

\* The nonce of the account's next transaction on chain (NonceAt).
AccountNonce == Len(mined)

Init ==
    /\ state = [t \in Tasks |-> "idle"]
    /\ sent = [t \in Tasks |-> 0]
    /\ staged = FALSE
    /\ currentNonce = 0
    /\ pool = {}
    /\ mined = <<>>
    /\ delivered = {}
    /\ disturbed = FALSE
    /\ restarts = 0

Goto(t, s) == state' = [state EXCEPT ![t] = s]

chainVars == <<pool, mined, delivered>>

-----------------------------------------------------------------------------
(* ProcessMessage.                                                          *)

\* The Teleporter handler's ShouldSendMessage.  A decider is asked last, and one
\* that fails is not obeyed.
TeleporterVerdicts(m) ==
    {"failed"} \union IF m \in Ineligible THEN {"rejected"}
                      ELSE IF m \in delivered THEN {"skipped"}
                      ELSE {"rejected", "signing"}

\* The off-chain registry handler's ShouldSendMessage asks the registry for the
\* message's version; there is no decider.
RegistryVerdicts(m) ==
    {"failed"} \union IF m \in Ineligible THEN {"rejected"}
                      ELSE IF m \in delivered THEN {"skipped"}
                      ELSE {"signing"}

ShouldSendMessage(t) ==
    /\ state[t] = "idle"
    /\ \E s \in IF MsgOf[t] \in OffChain THEN RegistryVerdicts(MsgOf[t])
                                         ELSE TeleporterVerdicts(MsgOf[t]) : Goto(t, s)
    /\ UNCHANGED <<chainVars, sent, staged, currentNonce, disturbed, restarts>>

\* CreateSignedMessage, or createSignedMessage through the RPC node.
CreateSignedMessage(t) ==
    /\ state[t] = "signing"
    /\ \E s \in {"sending", "failed"} : Goto(t, s)
    /\ UNCHANGED <<chainVars, sent, staged, currentNonce, disturbed, restarts>>

\* SendMessage fails before the node is asked, or the node refuses: nothing is
\* sent and the nonce stays.
SendTxFails(t) ==
    /\ state[t] = "sending"
    /\ Goto(t, "failed")
    /\ UNCHANGED <<chainVars, sent, staged, currentNonce, disturbed, restarts>>

\* The node takes the transaction with the current nonce, which replaces one of
\* the same nonce when it pays more.  It refuses a nonce already on chain.
NodeAccepts(t) ==
    /\ AccountNonce <= currentNonce
    /\ pool' = {tx \in pool : tx.nonce # currentNonce}
                 \union {[task |-> t, nonce |-> currentNonce]}

\* The off-chain registry handler's SendMessage does not wait for a receipt.
AfterSend(m) == IF m \in OffChain THEN "relayed" ELSE "waiting"

\* A mutant: the nonce is advanced before the transaction is sent.
SendTxAdvancingFirst(t) ==
    /\ state[t] = "sending"
    /\ \/ NodeAccepts(t) /\ Goto(t, AfterSend(MsgOf[t]))
       \/ UNCHANGED pool /\ Goto(t, "failed")
    /\ sent' = [sent EXCEPT ![t] = currentNonce]
    /\ currentNonce' = currentNonce + 1
    /\ UNCHANGED <<mined, delivered, staged, disturbed, restarts>>

\* A mutant: the nonce is advanced before the transaction to wait for is noted.
SendTxNotingNext(t) ==
    /\ state[t] = "sending"
    /\ NodeAccepts(t)
    /\ currentNonce' = currentNonce + 1
    /\ sent' = [sent EXCEPT ![t] = currentNonce']
    /\ Goto(t, AfterSend(MsgOf[t]))
    /\ UNCHANGED <<mined, delivered, staged, disturbed, restarts>>

\* SendTx holds the client's lock from reading the nonce to advancing it.
SendTx(t) ==
    /\ state[t] = "sending"
    /\ NodeAccepts(t)
    /\ currentNonce' = currentNonce + 1
    /\ sent' = [sent EXCEPT ![t] = currentNonce]
    /\ Goto(t, AfterSend(MsgOf[t]))
    /\ UNCHANGED <<mined, delivered, staged, disturbed, restarts>>

\* SendTransaction fails although the node took the transaction.
SendTxAnswerLost(t) ==
    /\ state[t] = "sending"
    /\ NodeAccepts(t)
    /\ Goto(t, "failed")
    /\ disturbed' = TRUE
    /\ UNCHANGED <<mined, delivered, sent, staged, currentNonce, restarts>>

\* The receipt of the task's own transaction, once it is on chain.
HasReceipt(t) ==
    /\ sent[t] < AccountNonce
    /\ mined[sent[t] + 1].task = t

\* A mutant: any receipt counts as delivery.
WaitForReceiptAnyStatus(t) ==
    /\ state[t] = "waiting"
    /\ HasReceipt(t)
    /\ Goto(t, "relayed")
    /\ UNCHANGED <<chainVars, sent, staged, currentNonce, disturbed, restarts>>

WaitForReceipt(t) ==
    /\ state[t] = "waiting"
    /\ HasReceipt(t)
    /\ Goto(t, IF mined[sent[t] + 1].status = "success" THEN "relayed" ELSE "failed")
    /\ UNCHANGED <<chainVars, sent, staged, currentNonce, disturbed, restarts>>

\* A mutant: the wait for the receipt has no deadline.
ReceiptTimesOutNever(t) == FALSE /\ UNCHANGED vars

\* CallWithRetry gives up when its context's deadline passes.
ReceiptTimesOut(t) ==
    /\ state[t] = "waiting"
    /\ Goto(t, "failed")
    /\ UNCHANGED <<chainVars, sent, staged, currentNonce, disturbed, restarts>>

\* ProcessHeight: eg.Wait returns when every task has, and without an error the
\* height is staged.
StageHeight ==
    /\ ~staged
    /\ \A t \in BlockTasks : state[t] \in Final \ {"failed"}
    /\ staged' = TRUE
    /\ UNCHANGED <<chainVars, state, sent, currentNonce, disturbed, restarts>>

\* A mutant: the client starts with the nonce of the account's last transaction.
RestartFromLastNonce ==
    /\ restarts < MaxRestarts
    /\ restarts' = restarts + 1
    /\ state' = [t \in Tasks |-> "idle"]
    /\ sent' = [t \in Tasks |-> 0]
    /\ staged' = FALSE
    /\ currentNonce' = AccountNonce - 1
    /\ disturbed' = (pool # {})
    /\ UNCHANGED chainVars

\* NewDestinationClient reads the nonce of the latest block, which leaves out
\* transactions still in the mempool; the block is processed again.
Restart ==
    /\ restarts < MaxRestarts
    /\ restarts' = restarts + 1
    /\ state' = [t \in Tasks |-> "idle"]
    /\ sent' = [t \in Tasks |-> 0]
    /\ staged' = FALSE
    /\ currentNonce' = AccountNonce
    /\ disturbed' = (pool # {})
    /\ UNCHANGED chainVars

-----------------------------------------------------------------------------
(* The destination chain.                                                   *)

\* A block includes the account's next transaction.  The contract accepts a
\* message once; other reasons to revert are always possible.
Mine(tx, status) ==
    /\ tx.nonce = AccountNonce
    /\ status = "success" => MsgOf[tx.task] \notin delivered
    /\ pool' = pool \ {tx}
    /\ mined' = Append(mined, [task |-> tx.task, status |-> status])
    /\ delivered' = IF status = "success" THEN delivered \union {MsgOf[tx.task]} ELSE delivered
    /\ UNCHANGED <<state, sent, staged, currentNonce, disturbed, restarts>>

\* The node forgets a transaction it accepted.
Evict(tx) ==
    /\ pool' = pool \ {tx}
    /\ disturbed' = TRUE
    /\ UNCHANGED <<mined, delivered, state, sent, staged, currentNonce, restarts>>

\* Another relayer delivers the message.  No code asks whether an ineligible
\* message was delivered.
DeliveredElsewhere(m) ==
    /\ m \notin delivered \union Ineligible
    /\ delivered' = delivered \union {m}
    /\ UNCHANGED <<pool, mined, state, sent, staged, currentNonce, disturbed, restarts>>

-----------------------------------------------------------------------------
Task(t) ==
    \/ ShouldSendMessage(t) \/ CreateSignedMessage(t)
    \/ SendTxFails(t) \/ SendTx(t) \/ SendTxAnswerLost(t)
    \/ WaitForReceipt(t) \/ ReceiptTimesOut(t)

Next ==
    \/ \E t \in Tasks : Task(t)
    \/ StageHeight
    \/ Restart
    \/ \E tx \in pool, status \in Statuses : Mine(tx, status)
    \/ \E tx \in pool : Evict(tx)
    \/ \E m \in Messages : DeliveredElsewhere(m)

Spec == Init /\ [][Next]_vars

\* The goroutines of ProcessHeight run; a call of an RPC node returns and the wait
\* for a receipt has a deadline.  Nothing says that CreateSignedMessage returns: it
\* has no deadline, and the aggregator may wait for an answer that was dropped.
\* The chain promises nothing.
Fairness ==
    /\ WF_vars(StageHeight)
    /\ \A t \in BlockTasks :
          /\ WF_vars(ShouldSendMessage(t))
          /\ WF_vars(SendTxFails(t) \/ SendTx(t) \/ SendTxAnswerLost(t))
          /\ WF_vars(WaitForReceipt(t) \/ ReceiptTimesOut(t))

FairSpec == Spec /\ Fairness

-----------------------------------------------------------------------------
(* Properties.                                                              *)

\* The type invariant.
TypeOK ==
    /\ state \in [Tasks -> States]
    /\ sent \in [Tasks -> Nat]
    /\ staged \in BOOLEAN
    /\ currentNonce \in Nat
    /\ pool \subseteq Transactions
    /\ mined \in Seq([task : Tasks, status : Statuses])
    /\ delivered \subseteq Messages
    /\ disturbed \in BOOLEAN
    /\ restarts \in 0..MaxRestarts

\* A block is staged for the checkpoint only when each of its Teleporter messages
\* is on the destination chain or was rejected for this relayer, whoever delivered
\* it and whatever happened to the transactions.
StagedIsDelivered ==
    staged => \A t \in BlockTasks :
        MsgOf[t] \in delivered \union OffChain \/ state[t] = "rejected"

\* As long as the node loses no transaction and no answer, the mempool holds one
\* transaction for each nonce between the chain's and the client's, so every
\* transaction can be included and the next nonce is accepted.
NoncesContiguous ==
    ~disturbed =>
        /\ AccountNonce <= currentNonce
        /\ {tx.nonce : tx \in pool} = AccountNonce .. (currentNonce - 1)
        /\ \A tx1, tx2 \in pool : tx1.nonce = tx2.nonce => tx1 = tx2

\* As long as the node loses nothing, a call that waits for a receipt waits for a
\* transaction that is its own and is in the mempool or on chain: concurrent calls
\* never replace each other's transactions.
WaitedForExists ==
    ~disturbed => \A t \in Tasks : state[t] = "waiting" =>
        [task |-> t, nonce |-> sent[t]] \in pool \/ HasReceipt(t)

\* ProcessHeight decides every block, also the one processed again after a restart:
\* whatever the chain does, all its calls return and the height is staged or reported
\* as failed, unless one of them waits for signatures.
HeightDecided ==
    []<>(\/ staged
         \/ /\ \A t \in BlockTasks : state[t] \in Final
            /\ \E t \in BlockTasks : state[t] = "failed"
         \/ \E t \in BlockTasks : state[t] = "signing")
=============================================================================
