--------------------------- MODULE ConnectionPool ---------------------------
(***************************************************************************)
(* The connection pool of src/src/connection_pool.cc and its header        *)
(* (src/unnamed/part_001).  The pool keeps, for each of the two kinds of   *)
(* client (pageserver, safekeeper), a FIFO queue of owning pointers        *)
(* (available_*_connections) and a vector of owning pointers               *)
(* (all_*_connections).  Caller threads lease a client with                *)
(* get_*_connection and give it back with return_*_connection; a           *)
(* background thread runs health_check_worker, which ends in               *)
(* scale_pool_if_needed.                                                   *)
(*                                                                         *)
(* A client object is a member of Conns.  Ownership is tracked exactly:   *)
(* every entry of the queue and every entry of the vector is a             *)
(* std::unique_ptr that deletes its object when it is destroyed, so the    *)
(* number of owners of c is the number of times c occurs in the queue     *)
(* plus the number of times it occurs in the vector.  The vector is kept   *)
(* as a bag (c |-> number of entries holding c): the only operations on it *)
(* are push_back, erase of the first entry equal to a pointer, erase of    *)
(* the entries the health probe rejects, size() and clear(), none of which *)
(* depends on the order of its entries except when warm_connections copies *)
(* it into the queue, where every order of the entries is allowed.         *)
(***************************************************************************)
EXTENDS Naturals, Sequences, FiniteSets, Functions

CONSTANTS
    Threads,        \* caller threads (database sessions) using the pool
    Conns,          \* identities of the client objects the pool can create
    NoConn,         \* the null pointer returned when no client is obtained
    MinPageserver,  \* min_pageserver_connections
    MaxPageserver,  \* max_pageserver_connections
    MinSafekeeper,  \* min_safekeeper_connections
    MaxSafekeeper,  \* max_safekeeper_connections
    HealthResults,  \* the values is_connection_healthy can return
    MaxRequests     \* bound: get_*_connection calls per kind

ASSUME PoolAssumption ==
    /\ NoConn \notin Conns
    /\ IsFiniteSet(Conns)
    /\ {MinPageserver, MaxPageserver, MinSafekeeper, MaxSafekeeper} \subseteq Nat
    /\ HealthResults \subseteq BOOLEAN /\ HealthResults # {}
    /\ MaxRequests \in Nat

PS == "pageserver"
SK == "safekeeper"
Kinds == {PS, SK}

MinConns == [k \in Kinds |-> IF k = PS THEN MinPageserver ELSE MinSafekeeper]
MaxConns == [k \in Kinds |-> IF k = PS THEN MaxPageserver ELSE MaxSafekeeper]

VARIABLES
    available,   \* [Kinds -> Seq(Conns)]: available_*_connections
    all_conns,   \* [Kinds -> [Conns -> Nat]]: all_*_connections, as a bag
    held,        \* [Threads -> [Kinds -> Conns \cup {NoConn}]]: leased pointers
    created,     \* [Kinds -> SUBSET Conns]: client objects constructed so far
    freed,       \* [Conns -> Nat]: how many times each object was deleted
    requests,    \* [Kinds -> Nat]: *_requests
    hits,        \* [Kinds -> Nat]: *_cache_hits
    running,     \* health_check_running
    hpc,         \* where the health-check thread is
    phase        \* "constructed", "initialized", "running", "stopping", "shutdown"

vars == <<available, all_conns, held, created, freed, requests, hits,
          running, hpc, phase>>

-----------------------------------------------------------------------------
(* Helpers on the queue and the vector.                                    *)

\* Number of entries of sequence s equal to c.
Occurrences(s, c) == Cardinality({i \in DOMAIN s : s[i] = c})

\* The bag of the entries of s.
BagOf(s) == [c \in Conns |-> Occurrences(s, c)]

\* all_*_connections.size()
Size(b) == SumFunction(b)

\* The orders in which the entries of bag b can sit in the vector.
Enumerations(b) ==
    {s \in UNION {[1..n -> Conns] : n \in 0..Size(b)} : BagOf(s) = b}

NoBag == [c \in Conns |-> 0]

AllCreated == UNION {created[k] : k \in Kinds}

\* create_*_connection(): a fresh client object, or nullptr when the health
\* probe rejects it.  When Conns is used up the model takes the nullptr path,
\* which stands for the exception path of the constructor.
CreateResults ==
    (Conns \ AllCreated)
    \cup (IF FALSE \in HealthResults \/ Conns \subseteq AllCreated
          THEN {NoConn} ELSE {})

\* The clients obtained by n calls of create_*_connection when the objects in
\* used are taken: distinct fresh objects, fewer than n only on failures.
Creations(n, used) ==
    LET fresh == Conns \ used
        counts == IF FALSE \in HealthResults THEN 0..n
                  ELSE {IF n <= Cardinality(fresh) THEN n ELSE Cardinality(fresh)}
    IN {s \in UNION {[1..m -> fresh] : m \in counts} : IsInjective(s)}

\* Entry counts the health probe may reject in bag b (none when it only
\* returns TRUE).
Removals(b) ==
    IF FALSE \in HealthResults
    THEN {r \in [Conns -> UNION {0..b[c] : c \in Conns}] : \A c \in Conns : r[c] <= b[c]}
    ELSE {NoBag}

\* scale_pool_if_needed: hit rate = hits / requests (1.0 when no request)
\* compared with 0.8.
HitRateLow(k) == requests[k] > 0 /\ 10 * hits[k] < 8 * requests[k]

Idle(t) == \A k \in Kinds : held[t][k] = NoConn

\* Program points of health_check_worker and scale_pool_if_needed.
CheckPc == [k \in Kinds |-> IF k = PS THEN "check_pageserver" ELSE "check_safekeeper"]
ScalePc == [k \in Kinds |-> IF k = PS THEN "scale_pageserver" ELSE "scale_safekeeper"]
AddPc == [k \in Kinds |-> IF k = PS THEN "add_pageserver" ELSE "add_safekeeper"]

-----------------------------------------------------------------------------
(* warm_connections(): for the pageserver kind, the queue and the vector   *)
(* both end up holding  vector ++ queue ++ new  (one owner in each); for   *)
(* the safekeeper kind the vector becomes  vector ++ new  and the queue    *)
(* gets a second owner of every entry of that vector appended.             *)
WarmConnections ==
    \E np \in Creations(MinPageserver, AllCreated) :
    \E ns \in Creations(MinSafekeeper, AllCreated \cup Range(np)) :
    \E vp \in Enumerations(all_conns[PS]), vs \in Enumerations(all_conns[SK]) :
        LET psq == vp \o available[PS] \o np
            skv == vs \o ns
        IN /\ available' = [available EXCEPT ![PS] = psq, ![SK] = @ \o skv]
           /\ all_conns' = [all_conns EXCEPT ![PS] = BagOf(psq), ![SK] = BagOf(skv)]
           /\ created' = [created EXCEPT ![PS] = @ \cup Range(np),
                                         ![SK] = @ \cup Range(ns)]

\* initialize(), called by serverless_init_func on the new pool:
\* warm_connections(), then start the health-check thread.
Initialize ==
    /\ phase = "constructed"
    /\ WarmConnections
    /\ running' = TRUE
    /\ hpc' = "sleep"
    /\ phase' = "initialized"
    /\ UNCHANGED <<held, freed, requests, hits>>

\* serverless_init_func then calls warm_connections() a second time ("Pre-warm
\* connections for zero cold start"); sessions start after it returns.
PluginWarm ==
    /\ phase = "initialized"
    /\ WarmConnections
    /\ phase' = "running"
    /\ UNCHANGED <<held, freed, requests, hits, running, hpc>>

\* get_*_connection: the queue is not empty (now or before the timeout).
GetFromPool(t, k) ==
    /\ phase = "running"
    /\ held[t][k] = NoConn
    /\ requests[k] < MaxRequests
    /\ available[k] # <<>>
    /\ held' = [held EXCEPT ![t][k] = Head(available[k])]
    /\ available' = [available EXCEPT ![k] = Tail(@)]
    /\ requests' = [requests EXCEPT ![k] = @ + 1]
    /\ hits' = [hits EXCEPT ![k] = @ + 1]
    /\ UNCHANGED <<all_conns, created, freed, running, hpc, phase>>

\* get_*_connection: wait_for timed out on an empty queue; below the maximum
\* a new client is created, pushed to the vector only, and returned.
GetAfterTimeout(t, k) ==
    /\ phase = "running"
    /\ held[t][k] = NoConn
    /\ requests[k] < MaxRequests
    /\ available[k] = <<>>
    /\ requests' = [requests EXCEPT ![k] = @ + 1]
    /\ \E c \in IF Size(all_conns[k]) < MaxConns[k] THEN CreateResults ELSE {NoConn} :
          /\ held' = [held EXCEPT ![t][k] = c]
          /\ all_conns' = IF c = NoConn THEN all_conns
                          ELSE [all_conns EXCEPT ![k][c] = @ + 1]
          /\ created' = IF c = NoConn THEN created
                        ELSE [created EXCEPT ![k] = @ \cup {c}]
    /\ UNCHANGED <<available, hits, freed, running, hpc, phase>>

\* Mutant: find_if's result used without the  it != end()  test.
ReturnWithoutFind(t, k) ==
    LET c == held[t][k] IN
    /\ c # NoConn
    /\ available' = [available EXCEPT ![k] = Append(@, c)]
    /\ all_conns' = [all_conns EXCEPT ![k][c] = @ - 1]
    /\ held' = [held EXCEPT ![t][k] = NoConn]
    /\ UNCHANGED <<created, freed, requests, hits, running, hpc, phase>>

\* return_*_connection of a pointer found in the vector: its entry is moved
\* to the back of the queue and erased from the vector.
ReturnKnown(t, k) ==
    LET c == held[t][k] IN
    /\ c # NoConn
    /\ all_conns[k][c] > 0
    /\ available' = [available EXCEPT ![k] = Append(@, c)]
    /\ all_conns' = [all_conns EXCEPT ![k][c] = @ - 1]
    /\ held' = [held EXCEPT ![t][k] = NoConn]
    /\ UNCHANGED <<created, freed, requests, hits, running, hpc, phase>>

\* return_*_connection of a pointer not in the vector: a warning, nothing else.
ReturnUnknown(t, k) ==
    LET c == held[t][k] IN
    /\ c # NoConn
    /\ all_conns[k][c] = 0
    /\ held' = [held EXCEPT ![t][k] = NoConn]
    /\ UNCHANGED <<available, all_conns, created, freed, requests, hits,
                   running, hpc, phase>>

\* ha_serverless::create obtains a client of each kind and returns without
\* giving it back: the pointer goes out of scope and the lease is forgotten.
AbandonLease(t, k) ==
    /\ held[t][k] # NoConn
    /\ held' = [held EXCEPT ![t][k] = NoConn]
    /\ UNCHANGED <<available, all_conns, created, freed, requests, hits,
                   running, hpc, phase>>

-----------------------------------------------------------------------------
(* The health-check thread: sleep, probe the pageserver vector, probe the  *)
(* safekeeper vector, then scale_pool_if_needed for each kind in turn.     *)

\* Mutant: the loop tests of health_check_running dropped.
HealthWakeUnconditional ==
    /\ hpc = "sleep"
    /\ hpc' = CheckPc[PS]
    /\ UNCHANGED <<available, all_conns, held, created, freed, requests, hits,
                   running, phase>>

HealthWake ==
    /\ hpc = "sleep"
    /\ running
    /\ hpc' = CheckPc[PS]
    /\ UNCHANGED <<available, all_conns, held, created, freed, requests, hits,
                   running, phase>>

HealthExit ==
    /\ hpc = "sleep"
    /\ ~running
    /\ hpc' = "exited"
    /\ UNCHANGED <<available, all_conns, held, created, freed, requests, hits,
                   running, phase>>

\* Under the kind's mutex, entries whose probe fails are erased from the
\* vector, which deletes their objects.
HealthCheck(k) ==
    /\ hpc = CheckPc[k]
    /\ \E r \in Removals(all_conns[k]) :
          /\ all_conns' = [all_conns EXCEPT ![k] = [c \in Conns |-> @[c] - r[c]]]
          /\ freed' = [c \in Conns |-> freed[c] + r[c]]
    /\ hpc' = IF k = PS THEN CheckPc[SK] ELSE ScalePc[PS]
    /\ UNCHANGED <<available, held, created, requests, hits, running, phase>>

AfterScale(k) == IF k = PS THEN ScalePc[SK] ELSE "sleep"

\* The hit rate and all_*_connections.size() are read without the mutex.
ScaleDecide(k) ==
    /\ hpc = ScalePc[k]
    /\ hpc' = IF HitRateLow(k) /\ Size(all_conns[k]) < MaxConns[k]
              THEN AddPc[k] ELSE AfterScale(k)
    /\ UNCHANGED <<available, all_conns, held, created, freed, requests, hits,
                   running, phase>>

\* Then, under the mutex, one new client is pushed to the vector only.
ScaleAdd(k) ==
    /\ hpc = AddPc[k]
    /\ \E c \in CreateResults :
          /\ all_conns' = IF c = NoConn THEN all_conns
                          ELSE [all_conns EXCEPT ![k][c] = @ + 1]
          /\ created' = IF c = NoConn THEN created
                        ELSE [created EXCEPT ![k] = @ \cup {c}]
    /\ hpc' = AfterScale(k)
    /\ UNCHANGED <<available, held, freed, requests, hits, running, phase>>

-----------------------------------------------------------------------------
(* shutdown(), called from serverless_done_func once no session is left:   *)
(* clear the running flag, join the health thread, then pop every queue    *)
(* entry and clear the vector, each destroying its unique_ptr.             *)

ShutdownBegin ==
    /\ phase = "running"
    /\ \A t \in Threads : Idle(t)
    /\ running' = FALSE
    /\ phase' = "stopping"
    /\ UNCHANGED <<available, all_conns, held, created, freed, requests, hits,
                   hpc>>

ShutdownDrain ==
    /\ phase = "stopping"
    /\ hpc = "exited"
    /\ freed' = [c \in Conns |-> freed[c]
                     + Occurrences(available[PS], c) + Occurrences(available[SK], c)
                     + all_conns[PS][c] + all_conns[SK][c]]
    /\ available' = [k \in Kinds |-> <<>>]
    /\ all_conns' = [k \in Kinds |-> NoBag]
    /\ phase' = "shutdown"
    /\ UNCHANGED <<held, created, requests, hits, running, hpc>>

\* The plugin is unloaded: nothing happens any more.
Unloaded ==
    /\ phase = "shutdown"
    /\ UNCHANGED vars

-----------------------------------------------------------------------------
Init ==
    /\ available = [k \in Kinds |-> <<>>]
    /\ all_conns = [k \in Kinds |-> NoBag]
    /\ held = [t \in Threads |-> [k \in Kinds |-> NoConn]]
    /\ created = [k \in Kinds |-> {}]
    /\ freed = [c \in Conns |-> 0]
    /\ requests = [k \in Kinds |-> 0]
    /\ hits = [k \in Kinds |-> 0]
    /\ running = FALSE
    /\ hpc = "none"
    /\ phase = "constructed"

Next ==
    \/ Initialize
    \/ PluginWarm
    \/ \E t \in Threads, k \in Kinds :
          \/ GetFromPool(t, k)
          \/ GetAfterTimeout(t, k)
          \/ ReturnKnown(t, k)
          \/ ReturnUnknown(t, k)
          \/ AbandonLease(t, k)
    \/ HealthWake
    \/ HealthExit
    \/ \E k \in Kinds : HealthCheck(k) \/ ScaleDecide(k) \/ ScaleAdd(k)
    \/ ShutdownBegin
    \/ ShutdownDrain
    \/ Unloaded

Spec == Init /\ [][Next]_vars

\* One turn of the health-check thread.
HealthStep ==
    \/ HealthWake
    \/ HealthExit
    \/ \E k \in Kinds : HealthCheck(k) \/ ScaleDecide(k) \/ ScaleAdd(k)

\* The health thread is an OS thread that the scheduler keeps running, and
\* shutdown() drains the pool as soon as join() returns.
FairSpec == Spec /\ WF_vars(HealthStep) /\ WF_vars(ShutdownDrain)

-----------------------------------------------------------------------------
(* Properties.                                                             *)

HpcValues == {"none", "sleep", "exited"}
             \cup Range(CheckPc) \cup Range(ScalePc) \cup Range(AddPc)

\* Every variable stays in its domain.
TypeOK ==
    /\ available \in [Kinds -> Seq(Conns)]
    /\ all_conns \in [Kinds -> [Conns -> Nat]]
    /\ held \in [Threads -> [Kinds -> Conns \cup {NoConn}]]
    /\ created \in [Kinds -> SUBSET Conns]
    /\ freed \in [Conns -> Nat]
    /\ requests \in [Kinds -> 0..MaxRequests]
    /\ hits \in [Kinds -> Nat]
    /\ running \in BOOLEAN
    /\ hpc \in HpcValues
    /\ phase \in {"constructed", "initialized", "running", "stopping", "shutdown"}

\* Number of threads holding client c of kind k.
Lessees(k, c) == Cardinality({t \in Threads : held[t][k] = c})

\* The spec's lease contract (spec 3, "Pooled Connection"): a client is either
\* queued once or leased to one caller, never both and never twice.  The code
\* that must keep it is the pointer juggling of warm_connections together with
\* get/return_*_connection.
ExclusiveLease ==
    \A k \in Kinds, c \in Conns : Lessees(k, c) + Occurrences(available[k], c) <= 1

\* Whether the pool's structures or session k-leases still point at c.
Referenced(c) ==
    \E k \in Kinds :
        Occurrences(available[k], c) + all_conns[k][c] + Lessees(k, c) > 0

\* shutdown() deletes every client object at most once (spec 4.1: it
\* "drains all managed connections"); the queue and the vector both own
\* the clients that warm_connections created.
NoDoubleFree ==
    \A c \in Conns : freed[c] <= 1

\* A client created by the pool and not deleted is never lost: it is queued,
\* managed, or leased (spec 3: "it is either in the available queue or
\* explicitly held"; 4.1: release returns it to the available set).
NoLostConnection ==
    \A k \in Kinds : \A c \in created[k] : freed[c] = 0 => Referenced(c)

\* Every client the pool manages and no session holds is queued, so that
\* get_*_connection can hand it out (what scale_pool_if_needed's growth is for).
IdleConnectionsQueued ==
    \A k \in Kinds, c \in Conns :
        all_conns[k][c] > 0 /\ Lessees(k, c) = 0 => Occurrences(available[k], c) > 0

\* all_*_connections never grows past max_*_connections: both get_*_connection
\* and scale_pool_if_needed check its size before they push.
ManagedWithinMax ==
    \A k \in Kinds : Size(all_conns[k]) <= MaxConns[k]

\* Once serverless_done_func has begun shutdown(), the health thread leaves its
\* loop, join() returns and the pool is drained: the plugin unload never hangs.
ShutdownCompletes == phase = "stopping" ~> phase = "shutdown"

=============================================================================
