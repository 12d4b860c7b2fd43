----------------------------- MODULE WalChannel -----------------------------
(***************************************************************************)
(* What the asynchronous WAL append pipeline of a SafekeeperClient        *)
(* promises (spec 4.3 and 4.4), written without its queue, worker or      *)
(* socket.  Accepted records wait in pending, in submission order.  The   *)
(* oldest one is either delivered to the safekeeper's log or lost by a    *)
(* transport failure; when the client is torn down, what is still pending *)
(* is discarded.  The log is therefore always an in-order subsequence of  *)
(* what was accepted: the pipeline never reorders or duplicates.           *)
(***************************************************************************)
EXTENDS Sequences

CONSTANT Records   \* the WAL records callers can submit

VARIABLES
    pending,   \* Seq(Records): accepted, not yet sent or dropped
    log,       \* Seq(Records): what the safekeeper received, in order
    state      \* "open", "closing" (shutdown requested), "closed"

chanVars == <<pending, log, state>>

Init ==
    /\ pending = <<>>
    /\ log = <<>>
    /\ state = "open"

\* append_wal_record_async accepts a record while the client is open.
Accept(r) ==
    /\ state = "open"
    /\ pending' = Append(pending, r)
    /\ UNCHANGED <<log, state>>

\* The oldest pending record reaches the safekeeper.
Deliver ==
    /\ pending # <<>>
    /\ log' = Append(log, Head(pending))
    /\ pending' = Tail(pending)
    /\ UNCHANGED state

\* The oldest pending record is dropped by a transport failure.
Lose ==
    /\ pending # <<>>
    /\ pending' = Tail(pending)
    /\ UNCHANGED <<log, state>>

\* Shutdown is requested: no more records are accepted.
Shut ==
    /\ state = "open"
    /\ state' = "closing"
    /\ UNCHANGED <<pending, log>>

\* Teardown discards whatever is still pending.
Discard ==
    /\ state = "closing"
    /\ state' = "closed"
    /\ pending' = <<>>
    /\ UNCHANGED log

Next ==
    \/ \E r \in Records : Accept(r)
    \/ Deliver \/ Lose \/ Shut \/ Discard

Spec == Init /\ [][Next]_chanVars

=============================================================================
