--------------------------- MODULE WalPipelineProofs ---------------------------
(***************************************************************************)
(* Machine-checked proofs about the WalPipeline model, for every set of   *)
(* handlers and every bound: the state stays well typed, and the queue    *)
(* with its worker implements the FIFO channel WalChannel under the        *)
(* refinement mapping Pending, wal, ChanState.                             *)
(***************************************************************************)
EXTENDS WalPipeline, SequenceTheorems, TLAPS

-----------------------------------------------------------------------------
(* Facts about the values the model is built from.                         *)

\* The sentinel of an empty inflight slot is not a record.
LEMMA NoneNotRecord == None \notin Records
<1>1. DOMAIN None = {"none"}
    BY DEF None
<1>2. \A r \in Records : DOMAIN r = {"h", "lsn", "fits"}
    BY DEF Records
<1>. QED
    BY <1>1, <1>2

\* Putting back the head of a non-empty queue in front of its tail gives
\* the queue.
LEMMA HeadTailConcat ==
    ASSUME NEW S, NEW q \in Seq(S), q # <<>>
    PROVE  <<Head(q)>> \o Tail(q) = q
<1>1. /\ Head(q) \in S /\ Tail(q) \in Seq(S) /\ Len(Tail(q)) = Len(q) - 1
      /\ \A i \in 1 .. Len(Tail(q)) : Tail(q)[i] = q[i + 1]
    BY HeadTailProperties
<1>2. <<Head(q)>> \in Seq(S)
    BY <1>1
<1>. QED
    BY <1>1, <1>2, ConcatProperties, SeqEqual

\* Appending behind a queue with a request in front of it.
LEMMA AppendBehind ==
    ASSUME NEW S, NEW x \in S, NEW q \in Seq(S), NEW r \in S
    PROVE  <<x>> \o Append(q, r) = Append(<<x>> \o q, r)
<1>1. <<x>> \in Seq(S) /\ <<r>> \in Seq(S)
    OBVIOUS
<1>2. Append(q, r) = q \o <<r>> /\ Append(<<x>> \o q, r) = (<<x>> \o q) \o <<r>>
    BY <1>1, AppendIsConcat, ConcatProperties
<1>. QED
    BY <1>1, <1>2, ConcatAssociative

-----------------------------------------------------------------------------
(* The inductive invariant.  TypeOK alone is not inductive: the worker's   *)
(* send reads the fields of inflight, which is a record only while the    *)
(* worker is processing, and the LSN of a new record lies in              *)
(* 1..MaxWrites only because a handler's counter is reset to 1 on open    *)
(* and grows with the writes.                                              *)

IInv ==
    /\ TypeOK
    /\ \A h \in Handlers : isopen[h] => current_lsn[h] \in 1..writes + 1
    /\ (wpc = "process") <=> (inflight # None)
    /\ wpc = "exited" => shutdown_requested
    /\ shutdown_requested <=> (client # "alive")

\* The bounds are natural numbers.
LEMMA BoundsNat == MaxWrites \in Nat /\ MaxFaults \in Nat
BY PipelineAssumption DEF PipelineAssumption

USE NoneNotRecord, BoundsNat

LEMMA InitIInv == Init => IInv
<1> SUFFICES ASSUME Init PROVE IInv
    OBVIOUS
<1>a. 0 \in 0..MaxWrites /\ 0 \in 0..MaxFaults
    BY BoundsNat
<1>b. <<>> \in Seq(Records) /\ None \in Records \cup {None}
    OBVIOUS
<1>c. [h \in Handlers |-> FALSE] \in [Handlers -> BOOLEAN]
      /\ [h \in Handlers |-> 0] \in [Handlers -> Nat]
    OBVIOUS
<1>1. TypeOK
    BY <1>a, <1>b, <1>c DEF Init, TypeOK
<1>2. (wpc = "process") <=> (inflight # None)
    BY DEF Init
<1>. QED
    BY <1>1, <1>2 DEF Init, IInv

LEMMA OpenIInv ==
    ASSUME IInv, NEW h \in Handlers, Open(h)
    PROVE  IInv'
BY DEF IInv, TypeOK, Open, netVars

LEMMA CloseIInv ==
    ASSUME IInv, NEW h \in Handlers, Close(h)
    PROVE  IInv'
BY DEF IInv, TypeOK, Close, netVars

LEMMA WriteIInv ==
    ASSUME IInv, NEW h \in Handlers, NEW fits \in BOOLEAN, Write(h, fits)
    PROVE  IInv'
<1>0. current_lsn[h] \in Nat
    BY DEF IInv, TypeOK
<1>1. [h |-> h, lsn |-> current_lsn[h], fits |-> fits] \in Records
    BY <1>0 DEF Records
<1>2. append_queue' \in Seq(Records)
    BY <1>1 DEF IInv, TypeOK, Write
<1>3. writes' \in 0..MaxWrites /\ writes' = writes + 1
    BY DEF IInv, TypeOK, Write
<1>4. current_lsn' \in [Handlers -> Nat]
      /\ \A g \in Handlers : isopen'[g] => current_lsn'[g] \in 1..writes' + 1
    BY <1>3 DEF IInv, TypeOK, Write
<1>. QED
    BY <1>2, <1>3, <1>4 DEF IInv, TypeOK, Write, netVars

LEMMA WorkerExitIInv ==
    ASSUME IInv, WorkerExit
    PROVE  IInv'
BY DEF IInv, TypeOK, WorkerExit, netVars

LEMMA WorkerPopIInv ==
    ASSUME IInv, WorkerPop
    PROVE  IInv'
<1>1. append_queue \in Seq(Records) /\ append_queue # <<>>
    BY DEF IInv, TypeOK, WorkerPop
<1>2. Head(append_queue) \in Records /\ Tail(append_queue) \in Seq(Records)
    BY <1>1, HeadTailProperties
<1>. QED
    BY <1>2 DEF IInv, TypeOK, WorkerPop, netVars

LEMMA WorkerProcessIInv ==
    ASSUME IInv, WorkerProcess
    PROVE  IInv'
<1>0. wpc = "process" /\ inflight \in Records \cup {None}
    BY DEF IInv, TypeOK, WorkerProcess
<1>1. inflight \in Records
    BY <1>0 DEF IInv
<1>2. wal' = wal \/ wal' = Append(wal, inflight)
    BY DEF WorkerProcess
<1>3. wal' \in Seq(Records)
    <2>1. wal \in Seq(Records)
        BY DEF IInv, TypeOK
    <2>2. Append(wal, inflight) \in Seq(Records)
        BY <1>1, <2>1, AppendProperties
    <2>. QED
        BY <1>2, <2>1, <2>2
<1>4. connected' \in BOOLEAN /\ link' \in {"ok", "reset"}
    BY DEF IInv, TypeOK, WorkerProcess
<1>. QED
    BY <1>3, <1>4 DEF IInv, TypeOK, WorkerProcess

LEMMA ServerCrashIInv ==
    ASSUME IInv, ServerCrash
    PROVE  IInv'
<1>1. faults' \in 0..MaxFaults
    BY DEF IInv, TypeOK, ServerCrash
<1>2. serverUp' = FALSE /\ link' = "reset"
    BY DEF ServerCrash
<1>3. UNCHANGED <<isopen, current_lsn, append_queue, inflight, wpc,
                  shutdown_requested, connected, wal, client, writes>>
    BY DEF ServerCrash
<1>. QED
    BY <1>1, <1>2, <1>3 DEF IInv, TypeOK

LEMMA ServerRestartIInv ==
    ASSUME IInv, ServerRestart
    PROVE  IInv'
BY DEF IInv, TypeOK, ServerRestart

LEMMA DestroyBeginIInv ==
    ASSUME IInv, DestroyBegin
    PROVE  IInv'
BY DEF IInv, TypeOK, DestroyBegin, netVars

LEMMA DestroyFinishIInv ==
    ASSUME IInv, DestroyFinish
    PROVE  IInv'
<1>1. append_queue' = <<>> /\ connected' = FALSE /\ client' = "destroyed"
    BY DEF DestroyFinish
<1>2. shutdown_requested /\ wpc = "exited"
    BY DEF IInv, DestroyFinish
<1>3. UNCHANGED <<isopen, current_lsn, inflight, wpc, shutdown_requested,
                  link, serverUp, wal, writes, faults>>
    BY DEF DestroyFinish
<1>4. <<>> \in Seq(Records)
    OBVIOUS
<1>. QED
    BY <1>1, <1>2, <1>3, <1>4 DEF IInv, TypeOK

LEMMA StepIInv == IInv /\ [Next]_vars => IInv'
<1> SUFFICES ASSUME IInv, [Next]_vars PROVE IInv'
    OBVIOUS
<1>1. CASE \E h \in Handlers : Open(h) \/ Close(h)
    BY <1>1, OpenIInv, CloseIInv
<1>2. CASE \E h \in Handlers, fits \in BOOLEAN : Write(h, fits)
    BY <1>2, WriteIInv
<1>3. CASE WorkerExit \/ WorkerPop \/ WorkerProcess
    BY <1>3, WorkerExitIInv, WorkerPopIInv, WorkerProcessIInv
<1>4. CASE ServerCrash \/ ServerRestart
    BY <1>4, ServerCrashIInv, ServerRestartIInv
<1>5. CASE DestroyBegin \/ DestroyFinish
    BY <1>5, DestroyBeginIInv, DestroyFinishIInv
<1>6. CASE Unloaded \/ UNCHANGED vars
    BY <1>6 DEF Unloaded, vars, IInv, TypeOK
<1>. QED
    BY <1>1, <1>2, <1>3, <1>4, <1>5, <1>6 DEF Next

(* In every reachable state of the pipeline, for all handler sets and     *)
(* bounds: an open handler's current_lsn lies in 1..writes + 1, so the     *)
(* next record it writes has a positive LSN no larger than the writes so  *)
(* far (initialize_timeline starts it at 1 and write_row increments it);  *)
(* worker_thread_main holds a popped request exactly while it processes   *)
(* it; the worker leaves its loop only after shutdown_requested was set;  *)
(* and shutdown_requested is set exactly once the destructor has begun.   *)
THEOREM PipelineInvariant == Spec => []IInv
BY InitIInv, StepIInv, PTL DEF Spec

\* Every reachable state is well typed.
THEOREM TypeCorrect == Spec => []TypeOK
<1>1. IInv => TypeOK
    BY DEF IInv
<1>. QED
    BY PipelineInvariant, <1>1, PTL

-----------------------------------------------------------------------------
(* Refinement: every step of the pipeline is a step of WalChannel, or     *)
(* leaves the mapped state (Pending, wal, ChanState) alone.                *)

\* The head and tail of a request put in front of the queue.
LEMMA ConsHeadTail ==
    ASSUME NEW S, NEW x \in S, NEW q \in Seq(S)
    PROVE  Head(<<x>> \o q) = x /\ Tail(<<x>> \o q) = q
<1>1. <<x>> \in Seq(S) /\ <<x>> \o q \in Seq(S) /\ Len(<<x>> \o q) = 1 + Len(q)
    BY ConcatProperties
<1>2. <<x>> \o q # <<>>
    BY <1>1
<1>3. Head(<<x>> \o q) = x
    BY <1>1, ConcatProperties
<1>4. Tail(<<x>> \o q) = q
    BY <1>1, <1>2, HeadTailProperties, ConcatProperties, SeqEqual
<1>. QED
    BY <1>3, <1>4

\* Steps that touch neither the queue, the worker's request, the log nor
\* the client's lifecycle map to stuttering steps of the channel.
LEMMA QuietStep ==
    ASSUME UNCHANGED <<append_queue, inflight, wal, client>>
    PROVE  UNCHANGED Chan!chanVars
BY DEF Chan!chanVars, Pending, ChanState

LEMMA WriteRefines ==
    ASSUME IInv, NEW h \in Handlers, NEW fits \in BOOLEAN, Write(h, fits)
    PROVE  Chan!Next
<1> DEFINE r == [h |-> h, lsn |-> current_lsn[h], fits |-> fits]
<1>1. r \in RecordsUpTo /\ r \in Records
    <2>1. current_lsn[h] \in 1..writes + 1 /\ writes < MaxWrites /\ writes \in Nat
        BY DEF IInv, TypeOK, Write
    <2>. QED
        BY <2>1 DEF RecordsUpTo, Records
<1>2. append_queue' = Append(append_queue, r) /\ append_queue \in Seq(Records)
    BY DEF IInv, TypeOK, Write
<1>3. Pending' = Append(Pending, r)
    <2>1. UNCHANGED inflight
        BY DEF Write
    <2>2. CASE inflight = None
        BY <1>2, <2>1, <2>2 DEF Pending
    <2>3. CASE inflight # None
        <3>1. inflight \in Records
            BY <2>3 DEF IInv, TypeOK
        <3>. QED
            BY <1>1, <1>2, <2>1, <2>3, <3>1, AppendBehind DEF Pending
    <2>. QED
        BY <2>2, <2>3
<1>4. ChanState = "open" /\ UNCHANGED <<wal, client>>
    BY DEF Write, ChanState
<1>. QED
    BY <1>1, <1>3, <1>4 DEF Chan!Next, Chan!Accept, ChanState

LEMMA WorkerPopRefines ==
    ASSUME IInv, WorkerPop
    PROVE  UNCHANGED Chan!chanVars
<1>1. inflight = None /\ inflight' = Head(append_queue)
      /\ append_queue' = Tail(append_queue)
    BY DEF IInv, WorkerPop
<1>2. append_queue \in Seq(Records) /\ append_queue # <<>>
    BY DEF IInv, TypeOK, WorkerPop
<1>3. Head(append_queue) \in Records
    BY <1>2, HeadTailProperties
<1>4. Pending' = Pending
    BY <1>1, <1>2, <1>3, HeadTailConcat DEF Pending
<1>. QED
    BY <1>4 DEF WorkerPop, Chan!chanVars, ChanState

LEMMA WorkerProcessRefines ==
    ASSUME IInv, WorkerProcess
    PROVE  Chan!Next
<1>1. inflight \in Records /\ append_queue \in Seq(Records)
    BY DEF IInv, TypeOK, WorkerProcess
<1>2. Pending = <<inflight>> \o append_queue /\ Pending' = append_queue
    BY <1>1 DEF WorkerProcess, Pending
<1>3. Pending # <<>> /\ Head(Pending) = inflight /\ Tail(Pending) = append_queue
    BY <1>1, <1>2, ConsHeadTail
<1>4. UNCHANGED client
    BY DEF WorkerProcess
<1>5. wal' = Append(wal, inflight) \/ wal' = wal
    BY DEF WorkerProcess
<1>. QED
    BY <1>2, <1>3, <1>4, <1>5 DEF Chan!Next, Chan!Deliver, Chan!Lose, ChanState

LEMMA DestroyBeginRefines ==
    ASSUME DestroyBegin
    PROVE  Chan!Next
BY DEF DestroyBegin, Chan!Next, Chan!Shut, ChanState, Pending

LEMMA DestroyFinishRefines ==
    ASSUME IInv, DestroyFinish
    PROVE  Chan!Next
<1>1. inflight = None /\ inflight' = None
    BY DEF IInv, DestroyFinish
<1>2. Pending' = <<>>
    BY <1>1 DEF DestroyFinish, Pending
<1>. QED
    BY <1>2 DEF DestroyFinish, Chan!Next, Chan!Discard, ChanState

LEMMA StepRefines == IInv /\ [Next]_vars => [Chan!Next]_Chan!chanVars
<1> SUFFICES ASSUME IInv, [Next]_vars PROVE [Chan!Next]_Chan!chanVars
    OBVIOUS
<1>1. CASE \E h \in Handlers : Open(h) \/ Close(h)
    BY <1>1, QuietStep DEF Open, Close
<1>2. CASE \E h \in Handlers, fits \in BOOLEAN : Write(h, fits)
    BY <1>2, WriteRefines
<1>3. CASE WorkerExit \/ ServerCrash \/ ServerRestart \/ Unloaded \/ UNCHANGED vars
    BY <1>3, QuietStep DEF WorkerExit, ServerCrash, ServerRestart, Unloaded, vars
<1>4. CASE WorkerPop
    BY <1>4, WorkerPopRefines
<1>5. CASE WorkerProcess
    BY <1>5, WorkerProcessRefines
<1>6. CASE DestroyBegin \/ DestroyFinish
    BY <1>6, DestroyBeginRefines, DestroyFinishRefines
<1>. QED
    BY <1>1, <1>2, <1>3, <1>4, <1>5, <1>6 DEF Next

(* The queue and its single worker implement the FIFO channel of spec     *)
(* 4.4 for every number of handlers and every bound: the safekeeper       *)
(* receives accepted records in submission order, each at most once.      *)
THEOREM ChannelRefinement == Spec => ChannelRefined
<1>1. Init => Chan!Init
    BY DEF Init, Chan!Init, Pending, ChanState
<1>. QED
    BY <1>1, PipelineInvariant, StepRefines, PTL DEF Spec, ChannelRefined, Chan!Spec

=============================================================================
