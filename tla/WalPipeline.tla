----------------------------- MODULE WalPipeline -----------------------------
(***************************************************************************)
(* The write path of the table handlers and the SafekeeperClient they     *)
(* share (src/src/safekeeper_client.cc).  Each open ha_serverless handler *)
(* turns write_row, update_row and delete_row into a WalRecord numbered by *)
(* its own current_lsn and calls append_wal_record_async on the global    *)
(* safekeeper client, which queues the request under queue_mutex.  One    *)
(* worker thread per client pops requests and sends each one with the     *)
(* synchronous append_wal_record: reconnect_if_needed, serialize, send,   *)
(* receive.  The destructor sets shutdown_requested, joins the worker,    *)
(* deletes what is still queued and closes the socket.                    *)
(*                                                                         *)
(* A record is its handler, its LSN and whether its JSON text fits the    *)
(* 4096-byte request buffer; the row bytes are left out.  The safekeeper  *)
(* is up or down, and the TCP connection the client holds is "ok" or      *)
(* "reset" (the server went down under it).  inet_pton is modelled by     *)
(* what it does with the host string: it accepts dotted quads only.      *)
(***************************************************************************)
EXTENDS Naturals, Sequences

CONSTANTS
    Handlers,    \* ha_serverless objects open on one table (one timeline)
    Host,        \* the host string the client was constructed with
    MaxWrites,   \* bound: row operations, all handlers together
    MaxFaults    \* bound: safekeeper crashes

ASSUME PipelineAssumption ==
    /\ MaxWrites \in Nat /\ MaxFaults \in Nat
    /\ Host \in {"localhost", "127.0.0.1"}

\* The host strings inet_pton(AF_INET, ...) accepts.
DottedQuads == {"127.0.0.1"}
InetPton(h) == h \in DottedQuads

Records == [h : Handlers, lsn : Nat, fits : BOOLEAN]
None == [none |-> TRUE]

VARIABLES
    isopen,        \* [Handlers -> BOOLEAN]: the handler's table is open
    current_lsn,   \* [Handlers -> Nat]: each handler's current_lsn
    append_queue,  \* Seq(Records): append_queue
    inflight,      \* the request the worker popped, or None
    wpc,           \* the worker: "wait", "process" or "exited"
    shutdown_requested,
    connected,     \* connected (and socket_fd >= 0)
    link,          \* "ok" or "reset": the TCP connection behind socket_fd
    serverUp,      \* the safekeeper accepts connections
    wal,           \* Seq(Records): appends the safekeeper received, in order
    client,        \* "alive", "joining" (destructor started), "destroyed"
    writes,        \* row operations so far
    faults         \* crashes so far

vars == <<isopen, current_lsn, append_queue, inflight, wpc, shutdown_requested,
          connected, link, serverUp, wal, client, writes, faults>>

netVars == <<connected, link, serverUp, faults>>

-----------------------------------------------------------------------------
(* ha_serverless::open: initialize_timeline sets current_lsn to 1; the    *)
(* ensure_*_connection checks pass once the pool exists.                   *)
Open(h) ==
    /\ client = "alive" /\ ~isopen[h]
    /\ isopen' = [isopen EXCEPT ![h] = TRUE]
    /\ current_lsn' = [current_lsn EXCEPT ![h] = 1]
    /\ UNCHANGED <<append_queue, inflight, wpc, shutdown_requested, wal,
                   client, writes>>
    /\ UNCHANGED netVars

\* ha_serverless::close: flushes dirty pages, and no page is ever dirty.
Close(h) ==
    /\ isopen[h]
    /\ isopen' = [isopen EXCEPT ![h] = FALSE]
    /\ UNCHANGED <<current_lsn, append_queue, inflight, wpc, shutdown_requested,
                   wal, client, writes>>
    /\ UNCHANGED netVars

(* write_row, update_row, delete_row: WalRecord(current_lsn++, reclength, *)
(* buf), then append_wal_record_async pushes it under queue_mutex and      *)
(* returns 0.                                                              *)
Write(h, fits) ==
    /\ client = "alive" /\ isopen[h] /\ writes < MaxWrites
    /\ append_queue' = Append(append_queue,
                              [h |-> h, lsn |-> current_lsn[h], fits |-> fits])
    /\ current_lsn' = [current_lsn EXCEPT ![h] = @ + 1]
    /\ writes' = writes + 1
    /\ UNCHANGED <<isopen, inflight, wpc, shutdown_requested, wal, client>>
    /\ UNCHANGED netVars

\* Mutant: the worker also leaves its loop when it finds the queue empty.
WorkerExitWhenIdle ==
    /\ wpc = "wait" /\ (shutdown_requested \/ append_queue = <<>>)
    /\ wpc' = "exited"
    /\ UNCHANGED <<isopen, current_lsn, append_queue, inflight,
                   shutdown_requested, wal, client, writes>>
    /\ UNCHANGED netVars

(* worker_thread_main: woken with shutdown_requested set, the worker       *)
(* breaks out of its loop, whatever is still queued.                       *)
WorkerExit ==
    /\ wpc = "wait" /\ shutdown_requested
    /\ wpc' = "exited"
    /\ UNCHANGED <<isopen, current_lsn, append_queue, inflight,
                   shutdown_requested, wal, client, writes>>
    /\ UNCHANGED netVars

\* Mutant: the newest request is taken instead of the oldest.
WorkerPopNewest ==
    /\ wpc = "wait" /\ ~shutdown_requested /\ append_queue # <<>>
    /\ inflight' = append_queue[Len(append_queue)]
    /\ append_queue' = SubSeq(append_queue, 1, Len(append_queue) - 1)
    /\ wpc' = "process"
    /\ UNCHANGED <<isopen, current_lsn, shutdown_requested, wal, client, writes>>
    /\ UNCHANGED netVars

\* Otherwise, with the queue non-empty, it pops the front request.
WorkerPop ==
    /\ wpc = "wait" /\ ~shutdown_requested /\ append_queue # <<>>
    /\ inflight' = Head(append_queue)
    /\ append_queue' = Tail(append_queue)
    /\ wpc' = "process"
    /\ UNCHANGED <<isopen, current_lsn, shutdown_requested, wal, client, writes>>
    /\ UNCHANGED netVars

(* process_append_request = append_wal_record, with queue_mutex released. *)
(* reconnect_if_needed calls establish_connection only when not          *)
(* connected; it fails when inet_pton rejects the host or connect() is    *)
(* refused.  serialize_append_request fails when the text does not fit.   *)
(* send_message and receive_message fail on a reset connection and       *)
(* return -1 without calling close_connection.  The result is stored in   *)
(* the request, which is then deleted.                                     *)
WorkerProcess ==
    LET r       == inflight
        reached == connected \/ (InetPton(Host) /\ serverUp)
        linkNow == IF connected THEN link ELSE "ok"
        sent    == reached /\ r.fits /\ linkNow = "ok"
    IN  /\ wpc = "process"
        /\ connected' = reached
        /\ link' = IF reached THEN linkNow ELSE link
        /\ wal' = IF sent THEN Append(wal, r) ELSE wal
        /\ inflight' = None
        /\ wpc' = "wait"
        /\ UNCHANGED <<isopen, current_lsn, append_queue, shutdown_requested,
                       serverUp, faults, client, writes>>

\* The safekeeper goes down; a connection the client holds is reset.
ServerCrash ==
    /\ serverUp /\ faults < MaxFaults
    /\ serverUp' = FALSE
    /\ link' = "reset"
    /\ faults' = faults + 1
    /\ UNCHANGED <<isopen, current_lsn, append_queue, inflight, wpc,
                   shutdown_requested, connected, wal, client, writes>>

ServerRestart ==
    /\ ~serverUp
    /\ serverUp' = TRUE
    /\ UNCHANGED <<isopen, current_lsn, append_queue, inflight, wpc,
                   shutdown_requested, connected, link, wal, client, writes, faults>>

(* ~SafekeeperClient, from serverless_done_func once every table is       *)
(* closed: set shutdown_requested under queue_mutex, notify, then join.    *)
DestroyBegin ==
    /\ client = "alive" /\ \A h \in Handlers : ~isopen[h]
    /\ shutdown_requested' = TRUE
    /\ client' = "joining"
    /\ UNCHANGED <<isopen, current_lsn, append_queue, inflight, wpc, wal, writes>>
    /\ UNCHANGED netVars

\* After join: delete every queued request, close_connection.
DestroyFinish ==
    /\ client = "joining" /\ wpc = "exited"
    /\ append_queue' = <<>>
    /\ connected' = FALSE
    /\ client' = "destroyed"
    /\ UNCHANGED <<isopen, current_lsn, inflight, wpc, shutdown_requested,
                   link, serverUp, wal, writes, faults>>

\* The client is gone; nothing more happens.
Unloaded ==
    /\ client = "destroyed"
    /\ UNCHANGED vars

Init ==
    /\ isopen = [h \in Handlers |-> FALSE]
    /\ current_lsn = [h \in Handlers |-> 0]
    /\ append_queue = <<>>
    /\ inflight = None
    /\ wpc = "wait"
    /\ shutdown_requested = FALSE
    /\ connected = FALSE
    /\ link = "ok"
    /\ serverUp = TRUE
    /\ wal = <<>>
    /\ client = "alive"
    /\ writes = 0
    /\ faults = 0

Next ==
    \/ \E h \in Handlers : Open(h) \/ Close(h)
    \/ \E h \in Handlers, fits \in BOOLEAN : Write(h, fits)
    \/ WorkerExit \/ WorkerPop \/ WorkerProcess
    \/ ServerCrash \/ ServerRestart
    \/ DestroyBegin \/ DestroyFinish \/ Unloaded

Spec == Init /\ [][Next]_vars

(* The worker is an OS thread blocked on queue_condition, which is        *)
(* notified after every push and at shutdown; the destructor's tail runs *)
(* straight after join() returns.                                          *)
FairSpec ==
    /\ Spec
    /\ WF_vars(WorkerPop) /\ WF_vars(WorkerProcess) /\ WF_vars(WorkerExit)
    /\ WF_vars(DestroyFinish)

-----------------------------------------------------------------------------
TypeOK ==
    /\ isopen \in [Handlers -> BOOLEAN]
    /\ current_lsn \in [Handlers -> Nat]
    /\ append_queue \in Seq(Records)
    /\ inflight \in Records \cup {None}
    /\ wpc \in {"wait", "process", "exited"}
    /\ shutdown_requested \in BOOLEAN
    /\ connected \in BOOLEAN /\ link \in {"ok", "reset"} /\ serverUp \in BOOLEAN
    /\ wal \in Seq(Records)
    /\ client \in {"alive", "joining", "destroyed"}
    /\ writes \in 0..MaxWrites /\ faults \in 0..MaxFaults

(* The refinement mapping onto WalChannel: the requests still to be sent  *)
(* are the one the worker holds, followed by the queue.                    *)
Pending == IF inflight = None THEN append_queue ELSE <<inflight>> \o append_queue

ChanState ==
    CASE client = "alive"   -> "open"
      [] client = "joining" -> "closing"
      [] OTHER              -> "closed"

\* The records a run can produce (WalChannel's Accept ranges over them).
RecordsUpTo == [h : Handlers, lsn : 1..MaxWrites, fits : BOOLEAN]

Chan == INSTANCE WalChannel WITH Records <- RecordsUpTo, pending <- Pending,
                                 log <- wal, state <- ChanState

(* The queue and its single worker implement the FIFO channel of spec     *)
(* 4.4: the safekeeper receives accepted records in submission order,     *)
(* each at most once, whatever the interleaving of writers, worker,        *)
(* crashes and teardown.                                                   *)
ChannelRefined == Chan!Spec

(* Every record accepted by append_wal_record_async is eventually taken   *)
(* off the queue (sent, lost or discarded at teardown): the worker never  *)
(* sleeps on a non-empty queue (spec 4.4).                                 *)
QueueDrains == Pending # <<>> ~> Pending = <<>>

(* The safekeeper sees the LSNs of the timeline in non-decreasing order   *)
(* (spec 3: LSNs are monotonically increasing per timeline).               *)
LsnNonDecreasing ==
    \A i \in 1..Len(wal) - 1 : wal[i].lsn <= wal[i + 1].lsn

=============================================================================
