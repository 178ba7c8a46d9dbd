--------------------------- MODULE AbstractDatabase ---------------------------
(***************************************************************************)
(* What database.RelayerDatabase promises to the checkpoint managers: one  *)
(* row per relayer ID, changed atomically and only to a value some client  *)
(* is putting.  The Redis database is this specification (one GET or SET   *)
(* of a composite key); the JSON file storage implements it.               *)
(***************************************************************************)
CONSTANTS Clients,      \* goroutines that use the database
          IDs,          \* relayer IDs
          IDOf,         \* the relayer ID of each client
          Values,
          None          \* no row; no Put in progress

VARIABLES row,          \* the value of each relayer ID
          putting       \* the value each client is putting

vars == <<row, putting>>

Init ==
    /\ row = [id \in IDs |-> None]
    /\ putting = [c \in Clients |-> None]

Call(c, v) ==
    /\ putting[c] = None
    /\ putting' = [putting EXCEPT ![c] = v]
    /\ UNCHANGED row

\* Put takes effect.
Put(c) ==
    /\ putting[c] # None
    /\ row' = [row EXCEPT ![IDOf[c]] = putting[c]]
    /\ putting' = [putting EXCEPT ![c] = None]

\* Put returns an error.  Redis may have stored the value all the same, when the
\* answer to SET is lost; that is Put.
PutFails(c) ==
    /\ putting' = [putting EXCEPT ![c] = None]
    /\ UNCHANGED row

\* The process dies; every call it had begun is gone.
Crash ==
    /\ putting' = [c \in Clients |-> None]
    /\ UNCHANGED row

Next ==
    \/ \E c \in Clients, v \in Values : Call(c, v)
    \/ \E c \in Clients : Put(c) \/ PutFails(c)
    \/ Crash

Spec == Init /\ [][Next]_vars
===============================================================================
