------------------------ MODULE ConnectionPoolProofs ------------------------
(***************************************************************************)
(* Machine-checked proofs about the ConnectionPool model, for every value  *)
(* of its constants that satisfies PoolAssumption.                         *)
(***************************************************************************)
EXTENDS ConnectionPool, FiniteSetTheorems, TLAPS

-----------------------------------------------------------------------------
(* Lemmas about the helpers on the queue and the vector.                    *)

\* Counting the entries of a queue equal to c yields a natural number.
LEMMA OccurrencesNat ==
    ASSUME NEW s \in Seq(Conns), NEW c
    PROVE  Occurrences(s, c) \in Nat
<1>1. {i \in DOMAIN s : s[i] = c} \subseteq 1..Len(s)
    OBVIOUS
<1>2. IsFiniteSet({i \in DOMAIN s : s[i] = c})
    BY <1>1, FS_Interval, FS_Subset
<1>. QED
    BY <1>2, FS_CardinalityType DEF Occurrences

\* The bag of a queue's entries is a bag over Conns.
LEMMA BagOfType ==
    ASSUME NEW s \in Seq(Conns)
    PROVE  BagOf(s) \in [Conns -> Nat]
BY OccurrencesNat DEF BagOf

\* Every order of a vector's entries is a finite sequence of client objects.
LEMMA EnumerationsType ==
    ASSUME NEW b
    PROVE  Enumerations(b) \subseteq Seq(Conns)
<1>1. \A n \in 0..Size(b) : [1..n -> Conns] \subseteq Seq(Conns)
    OBVIOUS
<1>. QED
    BY <1>1 DEF Enumerations

\* The clients obtained by n calls of the factory form a sequence of
\* objects not yet used.
LEMMA CreationsType ==
    ASSUME NEW n \in Nat, NEW used
    PROVE  Creations(n, used) \subseteq Seq(Conns \ used)
<1>1. Cardinality(Conns \ used) \in Nat
    BY PoolAssumption, FS_Subset, FS_CardinalityType
<1>2. \A m \in Nat : [1..m -> Conns \ used] \subseteq Seq(Conns \ used)
    OBVIOUS
<1>3. 0..n \subseteq Nat
    OBVIOUS
<1>4. (IF n <= Cardinality(Conns \ used) THEN n ELSE Cardinality(Conns \ used)) \in Nat
    BY <1>1
<1>. QED
    BY <1>2, <1>3, <1>4 DEF Creations

\* The fresh objects are client objects.
LEMMA SeqFreshType ==
    ASSUME NEW used
    PROVE  Seq(Conns \ used) \subseteq Seq(Conns)
OBVIOUS

\* The factory returns a client object or the null pointer.
LEMMA CreateResultsType ==
    CreateResults \subseteq Conns \cup {NoConn}
BY DEF CreateResults

\* A rejection count never exceeds the entries present.
LEMMA RemovalsType ==
    ASSUME NEW b \in [Conns -> Nat]
    PROVE  \A r \in Removals(b) : \A c \in Conns : r[c] \in 0..b[c]
<1>1. UNION {0..b[c] : c \in Conns} \subseteq Nat
    OBVIOUS
<1>2. \A r \in [Conns -> UNION {0..b[c] : c \in Conns}] :
         (\A c \in Conns : r[c] <= b[c]) => \A c \in Conns : r[c] \in 0..b[c]
    BY <1>1
<1>3. NoBag \in [Conns -> Nat] /\ \A c \in Conns : NoBag[c] \in 0..b[c]
    BY DEF NoBag
<1>. QED
    BY <1>2, <1>3 DEF Removals

\* The program points of the health thread are values of hpc.
LEMMA HpcValuesCover ==
    /\ {"none", "sleep", "exited"} \subseteq HpcValues
    /\ \A k \in {PS, SK} : {CheckPc[k], ScalePc[k], AddPc[k]} \subseteq HpcValues
BY DEF HpcValues, Range, CheckPc, ScalePc, AddPc, PS, SK, Kinds

-----------------------------------------------------------------------------
(* Type correctness, one lemma per action.                                  *)

USE DEF PS, SK, Kinds

\* The constants the type proofs need.
LEMMA ConstantsType ==
    /\ IsFiniteSet(Conns)
    /\ {MinPageserver, MinSafekeeper, MaxRequests} \subseteq Nat
BY PoolAssumption DEF PoolAssumption

\* warm_connections rebuilds both queues and vectors from sequences of
\* client objects.
LEMMA WarmType ==
    ASSUME TypeOK, WarmConnections
    PROVE  /\ available' \in [Kinds -> Seq(Conns)]
           /\ all_conns' \in [Kinds -> [Conns -> Nat]]
           /\ created' \in [Kinds -> SUBSET Conns]
<1>0. PICK np \in Creations(MinPageserver, AllCreated) :
         \E ns \in Creations(MinSafekeeper, AllCreated \cup Range(np)),
           vp \in Enumerations(all_conns[PS]), vs \in Enumerations(all_conns[SK]) :
         /\ available' = [available EXCEPT ![PS] = vp \o available[PS] \o np,
                                           ![SK] = @ \o (vs \o ns)]
         /\ all_conns' = [all_conns EXCEPT ![PS] = BagOf(vp \o available[PS] \o np),
                                           ![SK] = BagOf(vs \o ns)]
         /\ created' = [created EXCEPT ![PS] = @ \cup Range(np),
                                       ![SK] = @ \cup Range(ns)]
    BY DEF WarmConnections
<1>1. PICK ns \in Creations(MinSafekeeper, AllCreated \cup Range(np)),
           vp \in Enumerations(all_conns[PS]), vs \in Enumerations(all_conns[SK]) :
         /\ available' = [available EXCEPT ![PS] = vp \o available[PS] \o np,
                                           ![SK] = @ \o (vs \o ns)]
         /\ all_conns' = [all_conns EXCEPT ![PS] = BagOf(vp \o available[PS] \o np),
                                           ![SK] = BagOf(vs \o ns)]
         /\ created' = [created EXCEPT ![PS] = @ \cup Range(np),
                                       ![SK] = @ \cup Range(ns)]
    BY <1>0
<1>2. /\ np \in Seq(Conns) /\ ns \in Seq(Conns)
      /\ vp \in Seq(Conns) /\ vs \in Seq(Conns)
    BY ConstantsType, CreationsType, SeqFreshType, EnumerationsType
<1>3. Range(np) \subseteq Conns /\ Range(ns) \subseteq Conns
    BY <1>2 DEF Range
<1>4. /\ vp \o available[PS] \o np \in Seq(Conns)
      /\ available[SK] \o (vs \o ns) \in Seq(Conns)
      /\ vs \o ns \in Seq(Conns)
    BY <1>2 DEF TypeOK
<1>5. /\ BagOf(vp \o available[PS] \o np) \in [Conns -> Nat]
      /\ BagOf(vs \o ns) \in [Conns -> Nat]
    BY <1>4, BagOfType
<1>6. available \in [Kinds -> Seq(Conns)] /\ all_conns \in [Kinds -> [Conns -> Nat]]
      /\ created \in [Kinds -> SUBSET Conns]
    BY DEF TypeOK
<1>. QED
    BY <1>1, <1>3, <1>4, <1>5, <1>6

LEMMA InitializeType ==
    ASSUME TypeOK, Initialize
    PROVE  TypeOK'
<1>1. /\ available' \in [Kinds -> Seq(Conns)]
      /\ all_conns' \in [Kinds -> [Conns -> Nat]]
      /\ created' \in [Kinds -> SUBSET Conns]
    BY WarmType DEF Initialize
<1>2. running' = TRUE /\ hpc' = "sleep" /\ phase' = "initialized"
    BY DEF Initialize
<1>3. UNCHANGED <<held, freed, requests, hits>>
    BY DEF Initialize
<1>. QED
    BY <1>1, <1>2, <1>3, HpcValuesCover DEF TypeOK

LEMMA PluginWarmType ==
    ASSUME TypeOK, PluginWarm
    PROVE  TypeOK'
<1>1. /\ available' \in [Kinds -> Seq(Conns)]
      /\ all_conns' \in [Kinds -> [Conns -> Nat]]
      /\ created' \in [Kinds -> SUBSET Conns]
    BY WarmType DEF PluginWarm
<1>2. phase' = "running" /\ UNCHANGED <<held, freed, requests, hits, running, hpc>>
    BY DEF PluginWarm
<1>. QED
    BY <1>1, <1>2 DEF TypeOK

LEMMA GetFromPoolType ==
    ASSUME TypeOK, NEW t \in Threads, NEW k \in Kinds, GetFromPool(t, k)
    PROVE  TypeOK'
<1>1. available[k] \in Seq(Conns) /\ available[k] # <<>>
    BY DEF TypeOK, GetFromPool
<1>2. Head(available[k]) \in Conns /\ Tail(available[k]) \in Seq(Conns)
    BY <1>1
<1>3. available' \in [Kinds -> Seq(Conns)]
    <2>1. available' = [available EXCEPT ![k] = Tail(available[k])]
        BY DEF GetFromPool
    <2>. QED
        BY <1>2, <2>1 DEF TypeOK
<1>4. held' \in [Threads -> [Kinds -> Conns \cup {NoConn}]]
    <2>1. held' = [held EXCEPT ![t][k] = Head(available[k])]
        BY DEF GetFromPool
    <2>. QED
        BY <1>2, <2>1 DEF TypeOK
<1>5. requests' \in [Kinds -> 0..MaxRequests]
    <2>1. requests' = [requests EXCEPT ![k] = requests[k] + 1]
        BY DEF GetFromPool
    <2>2. requests \in [Kinds -> 0..MaxRequests] /\ requests[k] < MaxRequests
        BY DEF TypeOK, GetFromPool
    <2>. QED
        BY <2>1, <2>2, ConstantsType
<1>6. hits' \in [Kinds -> Nat]
    <2>1. hits' = [hits EXCEPT ![k] = hits[k] + 1]
        BY DEF GetFromPool
    <2>2. hits \in [Kinds -> Nat]
        BY DEF TypeOK
    <2>. QED
        BY <2>1, <2>2
<1>7. UNCHANGED <<all_conns, created, freed, running, hpc, phase>>
    BY DEF GetFromPool
<1>. QED
    BY <1>3, <1>4, <1>5, <1>6, <1>7 DEF TypeOK

\* A client pushed to a vector: the count of c grows by one.
LEMMA PushType ==
    ASSUME NEW b \in [Kinds -> [Conns -> Nat]], NEW k \in Kinds, NEW c \in Conns
    PROVE  [b EXCEPT ![k][c] = @ + 1] \in [Kinds -> [Conns -> Nat]]
OBVIOUS

LEMMA GetAfterTimeoutType ==
    ASSUME TypeOK, NEW t \in Threads, NEW k \in Kinds, GetAfterTimeout(t, k)
    PROVE  TypeOK'
<1>1. PICK c \in IF Size(all_conns[k]) < MaxConns[k] THEN CreateResults ELSE {NoConn} :
         /\ held' = [held EXCEPT ![t][k] = c]
         /\ all_conns' = IF c = NoConn THEN all_conns
                         ELSE [all_conns EXCEPT ![k][c] = @ + 1]
         /\ created' = IF c = NoConn THEN created
                       ELSE [created EXCEPT ![k] = @ \cup {c}]
    BY DEF GetAfterTimeout
<1>2. c \in Conns \cup {NoConn}
    BY CreateResultsType
<1>3. held' \in [Threads -> [Kinds -> Conns \cup {NoConn}]]
    BY <1>1, <1>2 DEF TypeOK
<1>4. all_conns' \in [Kinds -> [Conns -> Nat]] /\ created' \in [Kinds -> SUBSET Conns]
    BY <1>1, <1>2, PushType DEF TypeOK
<1>5. requests' \in [Kinds -> 0..MaxRequests]
    <2>1. requests' = [requests EXCEPT ![k] = requests[k] + 1]
        BY DEF GetAfterTimeout
    <2>2. requests \in [Kinds -> 0..MaxRequests] /\ requests[k] < MaxRequests
        BY DEF TypeOK, GetAfterTimeout
    <2>. QED
        BY <2>1, <2>2, ConstantsType
<1>6. UNCHANGED <<available, hits, freed, running, hpc, phase>>
    BY DEF GetAfterTimeout
<1>. QED
    BY <1>3, <1>4, <1>5, <1>6 DEF TypeOK

\* The erase of return_*_connection happens only on an entry find_if
\* located, so the count stays a natural number.
LEMMA ReturnKnownType ==
    ASSUME TypeOK, NEW t \in Threads, NEW k \in Kinds, ReturnKnown(t, k)
    PROVE  TypeOK'
<1>. DEFINE c == held[t][k]
<1>1. c \in Conns /\ all_conns[k][c] > 0
    BY DEF TypeOK, ReturnKnown
<1>2. available' = [available EXCEPT ![k] = Append(available[k], c)]
    BY DEF ReturnKnown
<1>3. available' \in [Kinds -> Seq(Conns)]
    BY <1>1, <1>2 DEF TypeOK
<1>4. all_conns' = [all_conns EXCEPT ![k][c] = @ - 1]
    BY DEF ReturnKnown
<1>5. all_conns' \in [Kinds -> [Conns -> Nat]]
    BY <1>1, <1>4 DEF TypeOK
<1>6. held' = [held EXCEPT ![t][k] = NoConn]
    BY DEF ReturnKnown
<1>7. held' \in [Threads -> [Kinds -> Conns \cup {NoConn}]]
    BY <1>6 DEF TypeOK
<1>8. UNCHANGED <<created, freed, requests, hits, running, hpc, phase>>
    BY DEF ReturnKnown
<1>. QED
    BY <1>3, <1>5, <1>7, <1>8 DEF TypeOK

LEMMA ReturnUnknownType ==
    ASSUME TypeOK, NEW t \in Threads, NEW k \in Kinds, ReturnUnknown(t, k)
    PROVE  TypeOK'
<1>1. held' = [held EXCEPT ![t][k] = NoConn]
    BY DEF ReturnUnknown
<1>2. UNCHANGED <<available, all_conns, created, freed, requests, hits,
                  running, hpc, phase>>
    BY DEF ReturnUnknown
<1>. QED
    BY <1>1, <1>2 DEF TypeOK

LEMMA AbandonLeaseType ==
    ASSUME TypeOK, NEW t \in Threads, NEW k \in Kinds, AbandonLease(t, k)
    PROVE  TypeOK'
<1>1. held' = [held EXCEPT ![t][k] = NoConn]
    BY DEF AbandonLease
<1>2. UNCHANGED <<available, all_conns, created, freed, requests, hits,
                  running, hpc, phase>>
    BY DEF AbandonLease
<1>. QED
    BY <1>1, <1>2 DEF TypeOK

\* A step of the health thread that only moves its program point.
LEMMA HealthMoveType ==
    ASSUME TypeOK, hpc' \in HpcValues,
           UNCHANGED <<available, all_conns, held, created, freed, requests, hits,
                       running, phase>>
    PROVE  TypeOK'
BY DEF TypeOK

LEMMA HealthCheckType ==
    ASSUME TypeOK, NEW k \in Kinds, HealthCheck(k)
    PROVE  TypeOK'
<1>1. PICK r \in Removals(all_conns[k]) :
         /\ all_conns' = [all_conns EXCEPT ![k] = [c \in Conns |-> @[c] - r[c]]]
         /\ freed' = [c \in Conns |-> freed[c] + r[c]]
    BY DEF HealthCheck
<1>2. \A c \in Conns : r[c] \in 0..all_conns[k][c]
    BY RemovalsType DEF TypeOK
<1>3. all_conns' \in [Kinds -> [Conns -> Nat]] /\ freed' \in [Conns -> Nat]
    BY <1>1, <1>2 DEF TypeOK
<1>4. hpc' \in HpcValues
    <2>1. hpc' = IF k = PS THEN CheckPc[SK] ELSE ScalePc[PS]
        BY DEF HealthCheck
    <2>. QED
        BY <2>1, HpcValuesCover
<1>5. UNCHANGED <<available, held, created, requests, hits, running, phase>>
    BY DEF HealthCheck
<1>. QED
    BY <1>3, <1>4, <1>5 DEF TypeOK

LEMMA ScaleAddType ==
    ASSUME TypeOK, NEW k \in Kinds, ScaleAdd(k)
    PROVE  TypeOK'
<1>1. PICK c \in CreateResults :
         /\ all_conns' = IF c = NoConn THEN all_conns
                         ELSE [all_conns EXCEPT ![k][c] = @ + 1]
         /\ created' = IF c = NoConn THEN created
                       ELSE [created EXCEPT ![k] = @ \cup {c}]
    BY DEF ScaleAdd
<1>2. c \in Conns \cup {NoConn}
    BY CreateResultsType
<1>3. all_conns' \in [Kinds -> [Conns -> Nat]] /\ created' \in [Kinds -> SUBSET Conns]
    BY <1>1, <1>2, PushType DEF TypeOK
<1>4. hpc' \in HpcValues
    <2>1. hpc' = AfterScale(k)
        BY DEF ScaleAdd
    <2>. QED
        BY <2>1, HpcValuesCover DEF AfterScale
<1>5. UNCHANGED <<available, held, freed, requests, hits, running, phase>>
    BY DEF ScaleAdd
<1>. QED
    BY <1>3, <1>4, <1>5 DEF TypeOK

\* shutdown() adds every remaining owner of an object to its delete count.
LEMMA ShutdownDrainType ==
    ASSUME TypeOK, ShutdownDrain
    PROVE  TypeOK'
<1>1. \A c \in Conns : /\ Occurrences(available[PS], c) \in Nat
                       /\ Occurrences(available[SK], c) \in Nat
    BY OccurrencesNat DEF TypeOK
<1>2. freed' = [c \in Conns |-> freed[c]
                    + Occurrences(available[PS], c) + Occurrences(available[SK], c)
                    + all_conns[PS][c] + all_conns[SK][c]]
    BY DEF ShutdownDrain
<1>3. freed' \in [Conns -> Nat]
    BY <1>1, <1>2 DEF TypeOK
<1>4. available' = [k \in Kinds |-> <<>>] /\ all_conns' = [k \in Kinds |-> NoBag]
      /\ phase' = "shutdown"
    BY DEF ShutdownDrain
<1>5. UNCHANGED <<held, created, requests, hits, running, hpc>>
    BY DEF ShutdownDrain
<1>. QED
    BY <1>3, <1>4, <1>5 DEF TypeOK, NoBag

\* The initial state is well typed.
LEMMA TypeInit == Init => TypeOK
<1> SUFFICES ASSUME Init PROVE TypeOK
    OBVIOUS
<1>1. available \in [Kinds -> Seq(Conns)] /\ all_conns \in [Kinds -> [Conns -> Nat]]
    BY DEF Init, NoBag
<1>2. held \in [Threads -> [Kinds -> Conns \cup {NoConn}]]
    BY DEF Init
<1>3. /\ created \in [Kinds -> SUBSET Conns]
      /\ freed \in [Conns -> Nat]
      /\ requests \in [Kinds -> 0..MaxRequests]
      /\ hits \in [Kinds -> Nat]
    BY ConstantsType DEF Init
<1>4. running \in BOOLEAN /\ hpc \in HpcValues
    BY HpcValuesCover DEF Init
<1>5. phase \in {"constructed", "initialized", "running", "stopping", "shutdown"}
    BY DEF Init
<1>. QED
    BY <1>1, <1>2, <1>3, <1>4, <1>5 DEF TypeOK

\* Every step keeps the state well typed.
LEMMA TypeStep == TypeOK /\ [Next]_vars => TypeOK'
<1> SUFFICES ASSUME TypeOK, [Next]_vars PROVE TypeOK'
    OBVIOUS
<1>1. CASE Initialize
    BY <1>1, InitializeType
<1>2. CASE PluginWarm
    BY <1>2, PluginWarmType
<1>3. CASE \E t \in Threads, k \in Kinds :
             \/ GetFromPool(t, k)
             \/ GetAfterTimeout(t, k)
             \/ ReturnKnown(t, k)
             \/ ReturnUnknown(t, k)
             \/ AbandonLease(t, k)
    BY <1>3, GetFromPoolType, GetAfterTimeoutType, ReturnKnownType,
       ReturnUnknownType, AbandonLeaseType
<1>4. CASE HealthWake
    BY <1>4, HealthMoveType, HpcValuesCover DEF HealthWake
<1>5. CASE HealthExit
    BY <1>5, HealthMoveType, HpcValuesCover DEF HealthExit
<1>6. CASE \E k \in Kinds : HealthCheck(k)
    BY <1>6, HealthCheckType
<1>7. CASE \E k \in Kinds : ScaleDecide(k)
    <2>1. PICK k \in Kinds : ScaleDecide(k)
        BY <1>7
    <2>2. hpc' \in HpcValues
        BY <2>1, HpcValuesCover DEF ScaleDecide, AfterScale
    <2>. QED
        BY <2>1, <2>2, HealthMoveType DEF ScaleDecide
<1>8. CASE \E k \in Kinds : ScaleAdd(k)
    BY <1>8, ScaleAddType
<1>9. CASE ShutdownBegin
    BY <1>9 DEF ShutdownBegin, TypeOK
<1>10. CASE ShutdownDrain
    BY <1>10, ShutdownDrainType
<1>11. CASE Unloaded \/ UNCHANGED vars
    BY <1>11 DEF Unloaded, vars, TypeOK
<1>. QED
    BY <1>1, <1>2, <1>3, <1>4, <1>5, <1>6, <1>7, <1>8, <1>9, <1>10, <1>11
    DEF Next

-----------------------------------------------------------------------------
\* Every state the pool reaches, from its construction to its shutdown,
\* keeps the queues, vectors, leases and counters in their domains: in
\* particular no vector count ever becomes negative, because
\* return_*_connection erases only an entry that find_if located.
THEOREM TypeCorrect == Spec => []TypeOK
BY TypeInit, TypeStep, PTL DEF Spec

=============================================================================
