--------------------------- MODULE PageCacheProofs ---------------------------
(***************************************************************************)
(* Proofs about the page cache of ha_serverless: the capacity bound and   *)
(* the agreement of page_cache with lru_list hold in every reachable state *)
(* for every set of sessions and keys, every capacity and every bound on   *)
(* the number of reads.                                                    *)
(***************************************************************************)
EXTENDS PageCache, FiniteSetTheorems, SequenceTheorems, TLAPS

-----------------------------------------------------------------------------
(* Facts about std::list::remove.                                          *)

\* The count of kept positions up to a kept position i lies in 1..n, where
\* n is the number of kept positions.
LEMMA RankRange ==
    ASSUME NEW l \in Seq(Keys), NEW v, NEW i \in Kept(l, v)
    PROVE  /\ IsFiniteSet(Kept(l, v))
           /\ Cardinality(Kept(l, v)) \in Nat
           /\ IsFiniteSet({j \in Kept(l, v) : j <= i})
           /\ Rank(l, v, i) \in 1..Cardinality(Kept(l, v))
<1> DEFINE K == Kept(l, v)
           A == {j \in K : j <= i}
<1>1. IsFiniteSet(K) /\ Cardinality(K) \in Nat
  <2>1. IsFiniteSet(1..Len(l))
    BY FS_Interval
  <2>2. K \subseteq 1..Len(l)
    BY DEF Kept
  <2> QED
    BY <2>1, <2>2, FS_Subset, FS_CardinalityType
<1>2. IsFiniteSet(A) /\ Cardinality(A) <= Cardinality(K)
  BY <1>1, FS_Subset
<1>3. Cardinality(A) # 0
  <2>1. i \in A
    BY DEF Kept
  <2> QED
    BY <1>2, <2>1, FS_EmptySet
<1>4. Cardinality(A) \in Nat
  BY <1>2, FS_CardinalityType
<1> QED
  BY <1>1, <1>2, <1>3, <1>4 DEF Rank

\* A later kept position has a strictly larger count.
LEMMA RankIncreasing ==
    ASSUME NEW l \in Seq(Keys), NEW v,
           NEW i1 \in Kept(l, v), NEW i2 \in Kept(l, v), i1 < i2
    PROVE  Rank(l, v, i1) < Rank(l, v, i2)
<1> DEFINE K  == Kept(l, v)
           A1 == {j \in K : j <= i1}
           A2 == {j \in K : j <= i2}
<1>1. IsFiniteSet(A2) /\ Cardinality(A2) \in Nat
  BY RankRange, FS_CardinalityType
<1>2. A1 \subseteq A2 /\ A1 # A2
  <2>1. K \subseteq Nat
    BY DEF Kept
  <2>2. i2 \in A2 /\ i2 \notin A1
    BY <2>1
  <2> QED
    BY <2>1, <2>2
<1>3. Cardinality(A1) <= Cardinality(A2) /\ Cardinality(A1) # Cardinality(A2)
  BY <1>1, <1>2, FS_Subset
<1>4. Cardinality(A1) \in Nat
  BY <1>1, <1>2, FS_Subset, FS_CardinalityType
<1> QED
  BY <1>1, <1>3, <1>4 DEF Rank

\* Every count 1..n belongs to exactly one kept position.
LEMMA RankBijective ==
    ASSUME NEW l \in Seq(Keys), NEW v
    PROVE  /\ \A n \in 1..Cardinality(Kept(l, v)) :
                  \E i \in Kept(l, v) : Rank(l, v, i) = n
           /\ \A i1, i2 \in Kept(l, v) :
                  Rank(l, v, i1) = Rank(l, v, i2) => i1 = i2
<1> DEFINE K == Kept(l, v)
           N == Cardinality(K)
           f == [i \in K |-> Rank(l, v, i)]
<1>1. IsFiniteSet(K) /\ N \in Nat
  <2>1. IsFiniteSet(1..Len(l)) /\ K \subseteq 1..Len(l)
    BY FS_Interval DEF Kept
  <2> QED
    BY <2>1, FS_Subset, FS_CardinalityType
<1>2. \A i1, i2 \in K : Rank(l, v, i1) = Rank(l, v, i2) => i1 = i2
  <2> SUFFICES ASSUME NEW i1 \in K, NEW i2 \in K, i1 # i2
               PROVE  Rank(l, v, i1) # Rank(l, v, i2)
    OBVIOUS
  <2>1. i1 \in Nat /\ i2 \in Nat
    BY DEF Kept
  <2>2. Rank(l, v, i1) \in Nat /\ Rank(l, v, i2) \in Nat
    <3>1. Rank(l, v, i1) \in 1..N
      BY RankRange
    <3>2. Rank(l, v, i2) \in 1..N
      BY RankRange
    <3> QED
      BY <1>1, <3>1, <3>2
  <2>3. CASE i1 < i2
    <3>1. Rank(l, v, i1) < Rank(l, v, i2)
      BY <2>3, RankIncreasing
    <3> QED
      BY <2>2, <3>1
  <2>4. CASE i2 < i1
    <3>1. Rank(l, v, i2) < Rank(l, v, i1)
      BY <2>4, RankIncreasing
    <3> QED
      BY <2>2, <3>1
  <2> QED
    BY <2>1, <2>3, <2>4
<1>3. f \in Injection(K, 1..N)
  BY <1>2, RankRange DEF Injection, IsInjective
<1>4. IsFiniteSet(1..N) /\ Cardinality(1..N) = N
  BY <1>1, FS_Interval
<1>5. f \in Surjection(K, 1..N)
  BY <1>1, <1>3, <1>4, FS_Injection
<1> QED
  BY <1>2, <1>5 DEF Surjection

\* remove(v) keeps a list of keys, and its keys are the old ones but v.
LEMMA RemoveKeys ==
    ASSUME NEW l \in Seq(Keys), NEW v
    PROVE  /\ Remove(l, v) \in Seq(Keys)
           /\ ListKeys(Remove(l, v)) = ListKeys(l) \ {v}
<1> DEFINE K == Kept(l, v)
           N == Cardinality(K)
           Pos(n) == CHOOSE i \in K : Rank(l, v, i) = n
<1>1. IsFiniteSet(K) /\ N \in Nat
  <2>1. IsFiniteSet(1..Len(l)) /\ K \subseteq 1..Len(l)
    BY FS_Interval DEF Kept
  <2> QED
    BY <2>1, FS_Subset, FS_CardinalityType
<1>2. \A n \in 1..N : Pos(n) \in K /\ Rank(l, v, Pos(n)) = n
  BY RankBijective
<1>3. Remove(l, v) = [n \in 1..N |-> l[Pos(n)]]
  BY DEF Remove
<1>4. Remove(l, v) \in Seq(Keys)
  <2>1. \A n \in 1..N : l[Pos(n)] \in Keys
    BY <1>2, ElementOfSeq DEF Kept
  <2>2. Remove(l, v) \in [1..N -> Keys]
    BY <1>3, <2>1
  <2> QED
    BY <1>1, <2>2, SeqDef
<1>5. Len(Remove(l, v)) = N
  BY <1>1, <1>3
<1>6. ListKeys(Remove(l, v)) \subseteq ListKeys(l) \ {v}
  <2> SUFFICES ASSUME NEW n \in 1..N
               PROVE  Remove(l, v)[n] \in ListKeys(l) \ {v}
    BY <1>5 DEF ListKeys
  <2>1. Pos(n) \in 1..Len(l) /\ l[Pos(n)] # v
    BY <1>2 DEF Kept
  <2>2. Remove(l, v)[n] = l[Pos(n)]
    BY <1>3
  <2> QED
    BY <2>1, <2>2 DEF ListKeys
<1>7. ListKeys(l) \ {v} \subseteq ListKeys(Remove(l, v))
  <2> SUFFICES ASSUME NEW i \in 1..Len(l), l[i] # v
               PROVE  l[i] \in ListKeys(Remove(l, v))
    BY DEF ListKeys
  <2>1. i \in K
    BY DEF Kept
  <2>2. Rank(l, v, i) \in 1..N
    BY <2>1, RankRange
  <2>3. Pos(Rank(l, v, i)) = i
    BY <1>2, <2>1, <2>2, RankBijective
  <2>4. Remove(l, v)[Rank(l, v, i)] = l[i]
    BY <1>3, <2>2, <2>3
  <2> QED
    BY <1>5, <2>2, <2>4 DEF ListKeys
<1> QED
  BY <1>4, <1>6, <1>7

\* The constants, in the form the provers use.
LEMMA CacheConstants ==
    /\ IsFiniteSet(Keys) /\ Keys # {}
    /\ Capacity \in Nat \ {0}
    /\ MaxReads \in Nat
BY CacheAssumption DEF CacheAssumption

USE CacheConstants

\* Every set of keys is finite, with a natural number as its size.
LEMMA KeySetsFinite ==
    ASSUME NEW S \in SUBSET Keys
    PROVE  IsFiniteSet(S) /\ Cardinality(S) \in Nat
BY FS_Subset, FS_CardinalityType

\* Adding one key adds at most one to the size.
LEMMA AddKeyBound ==
    ASSUME NEW S, NEW x, IsFiniteSet(S), Cardinality(S) \in Nat
    PROVE  /\ Cardinality(S \cup {x}) \in Nat
           /\ Cardinality(S \cup {x}) <= Cardinality(S) + 1
<1>1. Cardinality(S \cup {x}) =
        IF x \in S THEN Cardinality(S) ELSE Cardinality(S) + 1
  BY FS_AddElement
<1> QED
  BY <1>1

\* lru_list.push_front(k): the list gains k in front of the old keys.
LEMMA PushFrontKeys ==
    ASSUME NEW l \in Seq(Keys), NEW k \in Keys
    PROVE  /\ <<k>> \o l \in Seq(Keys)
           /\ ListKeys(<<k>> \o l) = {k} \cup ListKeys(l)
<1>1. <<k>> \in Seq(Keys) /\ Len(<<k>>) = 1
  OBVIOUS
<1>2. /\ <<k>> \o l \in Seq(Keys)
      /\ Len(<<k>> \o l) = 1 + Len(l)
      /\ \A i \in 1..1 + Len(l) :
            (<<k>> \o l)[i] = IF i <= 1 THEN <<k>>[i] ELSE l[i - 1]
  BY <1>1, ConcatProperties
<1>3. ListKeys(<<k>> \o l) \subseteq {k} \cup ListKeys(l)
  BY <1>2 DEF ListKeys
<1>4. {k} \cup ListKeys(l) \subseteq ListKeys(<<k>> \o l)
  <2>1. k \in ListKeys(<<k>> \o l)
    BY <1>2 DEF ListKeys
  <2>2. ASSUME NEW i \in 1..Len(l) PROVE l[i] \in ListKeys(<<k>> \o l)
    <3>1. i + 1 \in 1..1 + Len(l) /\ (<<k>> \o l)[i + 1] = l[i]
      BY <1>2
    <3> QED
      BY <1>2, <3>1 DEF ListKeys
  <2> QED
    BY <2>1, <2>2 DEF ListKeys
<1> QED
  BY <1>2, <1>3, <1>4

-----------------------------------------------------------------------------
(* The inductive invariant.  CacheBounded alone is not inductive: the     *)
(* insert stays within the capacity only because the victim                *)
(* lru_list.back() is an entry of the map, which is LruTracksCache.  That *)
(* in turn needs the types, and the fact that once the destructor ran no  *)
(* session is inside a read and the map is empty.                          *)
CacheInv ==
    /\ TypeOK
    /\ CacheBounded
    /\ LruTracksCache
    /\ ~alive => (\A s \in Sessions : pc[s] = "idle") /\ CachedKeys = {}

LEMMA InitCacheInv == Init => CacheInv
<1> SUFFICES ASSUME Init PROVE CacheInv
  OBVIOUS
<1>1. CachedKeys = {}
  BY DEF Init, CachedKeys, NoPage
<1>2. TypeOK
  BY DEF Init, TypeOK, NoPage
<1>3. Cardinality(CachedKeys) <= Capacity
  BY <1>1, FS_EmptySet
<1>4. ListKeys(lru_list) = {}
  BY DEF Init, ListKeys
<1> QED
  BY <1>1, <1>2, <1>3, <1>4 DEF CacheInv, CacheBounded, LruTracksCache, Init

\* The steps that leave page_cache, lru_list and alive alone.
LEMMA LookupHitCacheInv ==
    ASSUME CacheInv, NEW s \in Sessions, NEW k \in Keys, LookupHit(s, k)
    PROVE  CacheInv'
<1>1. TypeOK'
  BY DEF CacheInv, TypeOK, LookupHit
<1>2. CachedKeys' = CachedKeys
  BY DEF LookupHit, CachedKeys
<1> QED
  BY <1>1, <1>2 DEF CacheInv, CacheBounded, LruTracksCache, LookupHit

LEMMA LookupMissCacheInv ==
    ASSUME CacheInv, NEW s \in Sessions, NEW k \in Keys, LookupMiss(s, k)
    PROVE  CacheInv'
<1>1. TypeOK'
  BY DEF CacheInv, TypeOK, LookupMiss
<1>2. CachedKeys' = CachedKeys
  BY DEF LookupMiss, CachedKeys
<1> QED
  BY <1>1, <1>2 DEF CacheInv, CacheBounded, LruTracksCache, LookupMiss

LEMMA FetchCacheInv ==
    ASSUME CacheInv, NEW s \in Sessions, FetchFails(s) \/ FetchOk(s)
    PROVE  CacheInv'
<1>1. alive
  BY DEF CacheInv, FetchFails, FetchOk
<1>2. TypeOK'
  BY DEF CacheInv, TypeOK, FetchFails, FetchOk
<1>3. CachedKeys' = CachedKeys
  BY DEF FetchFails, FetchOk, CachedKeys
<1> QED
  BY <1>1, <1>2, <1>3 DEF CacheInv, CacheBounded, LruTracksCache, FetchFails, FetchOk

\* The destructor empties the map and leaves every session idle.
LEMMA DestroyCacheInv ==
    ASSUME CacheInv, Destroy
    PROVE  CacheInv'
<1>1. CachedKeys' = {}
  BY DEF Destroy, CachedKeys, NoPage
<1>2. deleted' \subseteq 1..allocs'
  <2>1. \A k \in CachedKeys : page_cache[k] \in 1..allocs
    BY DEF CacheInv, TypeOK, CachedKeys, NoPage
  <2>2. deleted' = deleted \cup {page_cache[k] : k \in CachedKeys} /\ allocs' = allocs
    BY DEF Destroy
  <2> QED
    BY <2>1, <2>2 DEF CacheInv, TypeOK
<1>3. TypeOK'
  <2>1. allocs \in Nat
    BY DEF CacheInv, TypeOK
  <2>2. page_cache' \in [Keys -> 0..allocs']
    BY <2>1 DEF Destroy, NoPage
  <2> QED
    BY <1>2, <2>2 DEF CacheInv, TypeOK, Destroy
<1>4. Cardinality(CachedKeys') <= Capacity
  <2>1. Cardinality({}) = 0
    BY FS_EmptySet
  <2> QED
    BY <1>1, <2>1
<1> QED
  BY <1>1, <1>3, <1>4 DEF CacheInv, CacheBounded, LruTracksCache, Destroy

(* What the insert does, with its eviction spelled out: when the map is   *)
(* full, the entry of lru_list.back() is deleted and erased and its key   *)
(* removed from the list; then the new object is stored and the key       *)
(* pushed to the front.                                                    *)
LEMMA InsertEffect ==
    ASSUME NEW s \in Sessions, Insert(s)
    PROVE  LET key == want[s]
               v   == Back(lru_list)
           IN  \/ /\ CacheFull(Cardinality(CachedKeys))
                  /\ page_cache' = [[page_cache EXCEPT ![v] = NoPage]
                                       EXCEPT ![key] = allocs + 1]
                  /\ lru_list' = <<key>> \o Remove(lru_list, v)
                  /\ deleted' = deleted \cup (IF page_cache[v] # NoPage
                                                THEN {page_cache[v]} ELSE {})
               \/ /\ ~CacheFull(Cardinality(CachedKeys))
                  /\ page_cache' = [page_cache EXCEPT ![key] = allocs + 1]
                  /\ lru_list' = <<key>> \o lru_list
                  /\ deleted' = deleted
<1>1. CASE CacheFull(Cardinality(CachedKeys))
  BY <1>1 DEF Insert, Evict
<1>2. CASE ~CacheFull(Cardinality(CachedKeys))
  BY <1>2 DEF Insert, NoEviction
<1> QED
  BY <1>1, <1>2

(* The end of the insert: whatever the eviction did, it left a set E of   *)
(* cached keys below the capacity and a list l naming exactly them; the   *)
(* new key is then stored and pushed in front.                             *)
LEMMA InsertFinish ==
    ASSUME CacheInv, NEW s \in Sessions, Insert(s),
           NEW E \in SUBSET Keys, NEW l \in Seq(Keys),
           IsFiniteSet(E), Cardinality(E) \in Nat, Cardinality(E) < Capacity,
           ListKeys(l) = E,
           page_cache' \in [Keys -> 0..allocs'],
           CachedKeys' = E \cup {want[s]},
           lru_list' = <<want[s]>> \o l,
           deleted' \subseteq 1..allocs'
    PROVE  CacheInv'
<1>1. want[s] \in Keys /\ allocs \in Nat
  BY DEF CacheInv, TypeOK
<1>2. /\ allocs' = allocs + 1 /\ alive' = alive
      /\ last_access' \in [Keys -> Nat]
      /\ pc' \in [Sessions -> {"idle", "fetch", "insert"}]
      /\ want' \in [Sessions -> Keys]
      /\ clock' \in Nat /\ reads' \in 0..MaxReads
      /\ alive
  BY DEF CacheInv, TypeOK, Insert
<1>3. Cardinality(CachedKeys') <= Capacity
  <2>1. /\ Cardinality(E \cup {want[s]}) \in Nat
        /\ Cardinality(E \cup {want[s]}) <= Cardinality(E) + 1
    BY AddKeyBound
  <2>2. Cardinality(E \cup {want[s]}) <= Capacity
    BY <2>1
  <2> QED
    BY <2>2
<1>4. lru_list' \in Seq(Keys) /\ ListKeys(lru_list') = CachedKeys'
  BY <1>1, PushFrontKeys
<1>5. TypeOK'
  BY <1>1, <1>2, <1>4 DEF TypeOK
<1> QED
  BY <1>2, <1>3, <1>4, <1>5 DEF CacheInv, CacheBounded, LruTracksCache

(* At a full map the victim lru_list.back() is a key of the map: the map  *)
(* is not empty, so neither is the list that names its keys.               *)
LEMMA VictimCached ==
    ASSUME CacheInv, CacheFull(Cardinality(CachedKeys))
    PROVE  LET v == Back(lru_list)
           IN  v \in Keys /\ v \in CachedKeys /\ page_cache[v] \in 1..allocs
<1> DEFINE C == CachedKeys
<1>1. lru_list \in Seq(Keys) /\ allocs \in Nat
      /\ page_cache \in [Keys -> 0..allocs]
  BY DEF CacheInv, TypeOK
<1>2. IsFiniteSet(C) /\ Cardinality(C) \in Nat
  BY KeySetsFinite DEF CachedKeys
<1>3. C # {}
  <2>1. Cardinality(C) >= Capacity
    BY DEF CacheFull
  <2> QED
    BY <1>2, <2>1, FS_EmptySet
<1>4. ListKeys(lru_list) = C
  <2>1. alive
    BY <1>3 DEF CacheInv
  <2> QED
    BY <2>1 DEF CacheInv, LruTracksCache
<1>5. Len(lru_list) \in Nat \ {0}
  BY <1>1, <1>3, <1>4 DEF ListKeys
<1> QED
  BY <1>1, <1>4, <1>5 DEF Back, ListKeys, CachedKeys, NoPage

(* The insert keeps the invariant: when the map is full, the victim        *)
(* lru_list.back() is an entry of the map (by LruTracksCache), so the     *)
(* eviction frees a slot before the new key is stored.                     *)
LEMMA InsertCacheInv ==
    ASSUME CacheInv, NEW s \in Sessions, Insert(s)
    PROVE  CacheInv'
<1> DEFINE key  == want[s]
           C    == CachedKeys
           v    == Back(lru_list)
<1>1. alive /\ key \in Keys /\ lru_list \in Seq(Keys) /\ allocs \in Nat
      /\ page_cache \in [Keys -> 0..allocs] /\ deleted \subseteq 1..allocs
      /\ allocs' = allocs + 1
  BY DEF CacheInv, TypeOK, Insert
<1>2. /\ IsFiniteSet(C) /\ Cardinality(C) \in Nat
      /\ Cardinality(C) <= Capacity
      /\ ListKeys(lru_list) = C
  BY <1>1, KeySetsFinite DEF CacheInv, CacheBounded, LruTracksCache, CachedKeys
<1>3. CASE CacheFull(Cardinality(CachedKeys))
  <2>1. v \in Keys /\ v \in C /\ page_cache[v] \in 1..allocs
    BY <1>3, VictimCached
  <2>2. /\ page_cache' = [[page_cache EXCEPT ![v] = NoPage]
                           EXCEPT ![key] = allocs + 1]
        /\ lru_list' = <<key>> \o Remove(lru_list, v)
        /\ deleted' = deleted \cup {page_cache[v]}
    BY <1>3, <2>1, InsertEffect DEF NoPage
  <2>3. Remove(lru_list, v) \in Seq(Keys)
        /\ ListKeys(Remove(lru_list, v)) = C \ {v}
    BY <1>1, <1>2, RemoveKeys
  <2>4. IsFiniteSet(C \ {v}) /\ Cardinality(C \ {v}) = Cardinality(C) - 1
    BY <1>2, <2>1, FS_RemoveElement
  <2>5. Cardinality(C) # 0
    BY <1>2, <2>1, FS_EmptySet
  <2>6. Cardinality(C \ {v}) \in Nat /\ Cardinality(C \ {v}) < Capacity
    BY <1>2, <2>4, <2>5
  <2>7. CachedKeys' = (C \ {v}) \cup {key}
    BY <1>1, <2>1, <2>2 DEF CachedKeys, NoPage
  <2>8. page_cache' \in [Keys -> 0..allocs']
    BY <1>1, <2>1, <2>2 DEF NoPage
  <2>9. deleted' \subseteq 1..allocs'
    <3>1. deleted \subseteq 1..allocs'
      BY <1>1
    <3>2. page_cache[v] \in 1..allocs'
      BY <1>1, <2>1
    <3> QED
      BY <2>2, <3>1, <3>2
  <2>10. C \ {v} \in SUBSET Keys
    BY DEF CachedKeys
  <2> QED
    BY <2>2, <2>3, <2>4, <2>6, <2>7, <2>8, <2>9, <2>10, InsertFinish
<1>4. CASE ~CacheFull(Cardinality(CachedKeys))
  <2>1. /\ page_cache' = [page_cache EXCEPT ![key] = allocs + 1]
        /\ lru_list' = <<key>> \o lru_list
        /\ deleted' = deleted
    BY <1>4, InsertEffect
  <2>2. Cardinality(C) < Capacity
    BY <1>2, <1>4 DEF CacheFull
  <2>3. CachedKeys' = C \cup {key}
    BY <1>1, <2>1 DEF CachedKeys, NoPage
  <2>4. page_cache' \in [Keys -> 0..allocs'] /\ deleted' \subseteq 1..allocs'
    BY <1>1, <2>1
  <2>5. C \in SUBSET Keys
    BY DEF CachedKeys
  <2> QED
    BY <1>1, <1>2, <2>1, <2>2, <2>3, <2>4, <2>5, InsertFinish
<1> QED
  BY <1>3, <1>4

LEMMA StutterCacheInv ==
    ASSUME CacheInv, Destroyed \/ UNCHANGED vars
    PROVE  CacheInv'
<1>1. UNCHANGED vars
  BY DEF Destroyed
<1>2. CachedKeys' = CachedKeys
  BY <1>1 DEF vars, CachedKeys
<1>3. TypeOK'
  BY <1>1 DEF CacheInv, TypeOK, vars
<1> QED
  BY <1>1, <1>2, <1>3 DEF CacheInv, CacheBounded, LruTracksCache, vars

(* CacheInv is inductive: every operation of the page cache keeps it.    *)
LEMMA StepCacheInv == CacheInv /\ [Next]_vars => CacheInv'
<1> SUFFICES ASSUME CacheInv, [Next]_vars PROVE CacheInv'
  OBVIOUS
<1>1. CASE \E s \in Sessions, k \in Keys : LookupHit(s, k) \/ LookupMiss(s, k)
  BY <1>1, LookupHitCacheInv, LookupMissCacheInv
<1>2. CASE \E s \in Sessions : FetchFails(s) \/ FetchOk(s) \/ Insert(s)
  BY <1>2, FetchCacheInv, InsertCacheInv
<1>3. CASE Destroy
  BY <1>3, DestroyCacheInv
<1>4. CASE Destroyed \/ UNCHANGED vars
  BY <1>4, StutterCacheInv
<1> QED
  BY <1>1, <1>2, <1>3, <1>4 DEF Next

(* Every reachable state of the page cache satisfies CacheInv.             *)
THEOREM CacheInvariant == Spec => []CacheInv
<1>1. Init => CacheInv
  BY InitCacheInv
<1>2. CacheInv /\ [Next]_vars => CacheInv'
  BY StepCacheInv
<1> QED
  BY <1>1, <1>2, PTL DEF Spec

(* PageCacheImpl::Insert never lets page_cache grow past max_size: the    *)
(* eviction of lru_list.back() at a full map always frees a slot, for     *)
(* every capacity and number of keys and sessions.                         *)
THEOREM CacheBoundedHolds == Spec => []CacheBounded
<1>1. CacheInv => CacheBounded
  BY DEF CacheInv
<1> QED
  BY <1>1, CacheInvariant, PTL

(* While the cache is alive, lru_list names exactly the keys of           *)
(* page_cache: Lookup's splice, Insert's push_front and the eviction's     *)
(* remove keep the two structures in step.                                  *)
THEOREM LruTracksCacheHolds == Spec => []LruTracksCache
<1>1. CacheInv => LruTracksCache
  BY DEF CacheInv
<1> QED
  BY <1>1, CacheInvariant, PTL

-----------------------------------------------------------------------------
(* No two keys hold the same CachedPage: each insert stores a freshly      *)
(* allocated object.  DeletesOnlyUnmapped rests on it: erasing the victim *)
(* leaves its object under no other key.                                   *)
MapInjective ==
    \A a, b \in CachedKeys : page_cache[a] = page_cache[b] => a = b

LEMMA InitMapInjective == Init => MapInjective
BY DEF Init, MapInjective, CachedKeys, NoPage

LEMMA InsertMapInjective ==
    ASSUME CacheInv, MapInjective, NEW s \in Sessions, Insert(s)
    PROVE  MapInjective'
<1> DEFINE key == want[s]
           v   == Back(lru_list)
<1>1. key \in Keys /\ allocs \in Nat /\ page_cache \in [Keys -> 0..allocs]
  BY DEF CacheInv, TypeOK
<1>2. CASE /\ page_cache' = [[page_cache EXCEPT ![v] = NoPage]
                               EXCEPT ![key] = allocs + 1]
  BY <1>1, <1>2 DEF MapInjective, CachedKeys, NoPage
<1>3. CASE page_cache' = [page_cache EXCEPT ![key] = allocs + 1]
  BY <1>1, <1>3 DEF MapInjective, CachedKeys, NoPage
<1> QED
  BY <1>2, <1>3, InsertEffect

LEMMA StepMapInjective ==
    CacheInv /\ MapInjective /\ [Next]_vars => MapInjective'
<1> SUFFICES ASSUME CacheInv, MapInjective, [Next]_vars PROVE MapInjective'
  OBVIOUS
<1>1. CASE \E s \in Sessions : Insert(s)
  BY <1>1, InsertMapInjective
<1>2. CASE Destroy
  BY <1>2 DEF Destroy, MapInjective, CachedKeys, NoPage
<1>3. CASE page_cache' = page_cache
  BY <1>3 DEF MapInjective, CachedKeys
<1>4. CASE \/ \E s \in Sessions, k \in Keys : LookupHit(s, k) \/ LookupMiss(s, k)
           \/ \E s \in Sessions : FetchFails(s) \/ FetchOk(s)
           \/ Destroyed \/ UNCHANGED vars
  <2>1. page_cache' = page_cache
    BY <1>4 DEF LookupHit, LookupMiss, FetchFails, FetchOk, Destroyed, vars
  <2> QED
    BY <1>3, <2>1
<1> QED
  BY <1>1, <1>2, <1>4 DEF Next

(* The insert deletes at most the victim's object, which it erases; the    *)
(* object it stores is new, and no other key holds the victim's.          *)
LEMMA InsertDeletes ==
    ASSUME CacheInv, MapInjective, NEW s \in Sessions, Insert(s)
    PROVE  DeletedWereMapped
<1> DEFINE key == want[s]
           v   == Back(lru_list)
<1>1. key \in Keys /\ allocs \in Nat /\ page_cache \in [Keys -> 0..allocs]
  BY DEF CacheInv, TypeOK
<1>2. CASE /\ CacheFull(Cardinality(CachedKeys))
           /\ page_cache' = [[page_cache EXCEPT ![v] = NoPage]
                               EXCEPT ![key] = allocs + 1]
           /\ deleted' = deleted \cup (IF page_cache[v] # NoPage
                                         THEN {page_cache[v]} ELSE {})
  <2> SUFFICES ASSUME NEW p \in deleted' \ deleted
               PROVE  /\ \E k \in Keys : page_cache[k] = p
                      /\ \A k \in Keys : page_cache'[k] # p
    BY DEF DeletedWereMapped
  <2>1. p = page_cache[v] /\ p # NoPage
    BY <1>2
  <2>2. v \in Keys
    BY <1>2, VictimCached
  <2>3. p \in 1..allocs
    BY <1>1, <2>1, <2>2 DEF NoPage
  <2>4. \A k \in Keys \ {v} : page_cache[k] # p
    BY <2>1, <2>2 DEF MapInjective, CachedKeys
  <2> QED
    BY <1>1, <1>2, <2>1, <2>2, <2>3, <2>4 DEF NoPage
<1>3. CASE deleted' = deleted
  BY <1>3 DEF DeletedWereMapped
<1> QED
  BY <1>2, <1>3, InsertEffect

LEMMA StepDeletes ==
    CacheInv /\ MapInjective /\ [Next]_vars => [DeletedWereMapped]_vars
<1> SUFFICES ASSUME CacheInv, MapInjective, [Next]_vars
             PROVE  [DeletedWereMapped]_vars
  OBVIOUS
<1>1. CASE \E s \in Sessions : Insert(s)
  BY <1>1, InsertDeletes
<1>2. CASE Destroy
  <2> SUFFICES ASSUME NEW p \in deleted' \ deleted
               PROVE  /\ \E k \in Keys : page_cache[k] = p
                      /\ \A k \in Keys : page_cache'[k] # p
    BY DEF DeletedWereMapped
  <2>1. PICK k \in CachedKeys : p = page_cache[k]
    BY <1>2 DEF Destroy
  <2>2. k \in Keys /\ p # NoPage
    BY <2>1 DEF CachedKeys
  <2> QED
    BY <1>2, <2>1, <2>2 DEF Destroy, NoPage
<1>3. CASE deleted' = deleted
  BY <1>3 DEF DeletedWereMapped
<1>4. CASE \/ \E s \in Sessions, k \in Keys : LookupHit(s, k) \/ LookupMiss(s, k)
           \/ \E s \in Sessions : FetchFails(s) \/ FetchOk(s)
           \/ Destroyed \/ UNCHANGED vars
  <2>1. deleted' = deleted
    BY <1>4 DEF LookupHit, LookupMiss, FetchFails, FetchOk, Destroyed, vars
  <2> QED
    BY <1>3, <2>1
<1> QED
  BY <1>1, <1>2, <1>4 DEF Next

(* evict_page_from_cache and the destructor delete only CachedPage        *)
(* objects the map holds, and erase them: no step leaves a deleted object *)
(* under a key, for every capacity and number of keys and sessions.       *)
THEOREM DeletesOnlyUnmappedHolds == Spec => DeletesOnlyUnmapped
<1>1. Init => CacheInv /\ MapInjective
  BY InitCacheInv, InitMapInjective
<1>2. CacheInv /\ MapInjective /\ [Next]_vars => (CacheInv /\ MapInjective)'
  BY StepCacheInv, StepMapInjective
<1>3. CacheInv /\ MapInjective /\ [Next]_vars => [DeletedWereMapped]_vars
  BY StepDeletes
<1> QED
  BY <1>1, <1>2, <1>3, PTL DEF Spec, DeletesOnlyUnmapped

-----------------------------------------------------------------------------
(* The insert seen through the refinement mapping: at a full map the key *)
(* set loses the victim, a cached key, and gains the new key; otherwise   *)
(* it only gains the new key.                                              *)
LEMMA InsertKeys ==
    ASSUME CacheInv, NEW s \in Sessions, Insert(s)
    PROVE  LET key == want[s]
               v   == Back(lru_list)
           IN  /\ alive /\ alive' = alive
               /\ CacheFull(Cardinality(CachedKeys)) =>
                     /\ v \in CachedKeys
                     /\ CachedKeys' = (CachedKeys \ {v}) \cup {key}
               /\ ~CacheFull(Cardinality(CachedKeys)) =>
                     CachedKeys' = CachedKeys \cup {key}
<1> DEFINE key == want[s]
           v   == Back(lru_list)
<1>1. key \in Keys /\ allocs \in Nat /\ page_cache \in [Keys -> 0..allocs]
  BY DEF CacheInv, TypeOK
<1>2. alive /\ alive' = alive
  BY DEF CacheInv, Insert
<1>3. ASSUME CacheFull(Cardinality(CachedKeys))
      PROVE  v \in CachedKeys /\ CachedKeys' = (CachedKeys \ {v}) \cup {key}
  <2>1. v \in Keys /\ v \in CachedKeys
    BY <1>3, VictimCached
  <2>2. page_cache' = [[page_cache EXCEPT ![v] = NoPage]
                         EXCEPT ![key] = allocs + 1]
    BY <1>3, InsertEffect
  <2> QED
    BY <1>1, <2>1, <2>2 DEF CachedKeys, NoPage
<1>4. ASSUME ~CacheFull(Cardinality(CachedKeys))
      PROVE  CachedKeys' = CachedKeys \cup {key}
  <2>1. page_cache' = [page_cache EXCEPT ![key] = allocs + 1]
    BY <1>4, InsertEffect
  <2> QED
    BY <1>1, <2>1 DEF CachedKeys, NoPage
<1> QED
  BY <1>2, <1>3, <1>4

\* BoundedCache counts its keys with the same Cardinality.
LEMMA AbsCardinality ==
    ASSUME NEW S
    PROVE  Abs!Cardinality(S) = Cardinality(S)
BY DEF Abs!Cardinality, Cardinality

(* Every step of the page cache is a step of BoundedCache on the keys    *)
(* it maps to, or leaves them and alive as they are.                       *)
LEMMA StepRefines == CacheInv /\ [Next]_vars => [Abs!Next]_Abs!cacheVars
<1> SUFFICES ASSUME CacheInv, [Next]_vars PROVE [Abs!Next]_Abs!cacheVars
  OBVIOUS
<1>1. CASE \E s \in Sessions : Insert(s)
  <2>1. PICK s \in Sessions : Insert(s)
    BY <1>1
  <2>2. CASE CacheFull(Cardinality(CachedKeys))
    <3>1. Cardinality(CachedKeys) >= Capacity
      BY <2>2 DEF CacheFull
    <3>2. Abs!StoreEvicting(want[s])
      BY <2>1, <2>2, <3>1, InsertKeys, AbsCardinality DEF Abs!StoreEvicting
    <3> QED
      BY <3>2, <2>1 DEF Abs!Next, CacheInv, TypeOK
  <2>3. CASE ~CacheFull(Cardinality(CachedKeys))
    <3>1. Cardinality(CachedKeys) < Capacity
      <4>1. Cardinality(CachedKeys) \in Nat
        BY KeySetsFinite DEF CachedKeys
      <4> QED
        BY <2>3, <4>1 DEF CacheFull
    <3>2. Abs!StoreFree(want[s])
      BY <2>1, <2>3, <3>1, InsertKeys, AbsCardinality DEF Abs!StoreFree
    <3> QED
      BY <3>2, <2>1 DEF Abs!Next, CacheInv, TypeOK
  <2> QED
    BY <2>2, <2>3
<1>2. CASE Destroy
  <2>1. Abs!Teardown
    BY <1>2 DEF Destroy, Abs!Teardown, CachedKeys, NoPage
  <2> QED
    BY <2>1 DEF Abs!Next
<1>3. CASE \/ \E s \in Sessions, k \in Keys : LookupHit(s, k) \/ LookupMiss(s, k)
           \/ \E s \in Sessions : FetchFails(s) \/ FetchOk(s)
           \/ Destroyed \/ UNCHANGED vars
  <2>1. page_cache' = page_cache /\ alive' = alive
    BY <1>3 DEF LookupHit, LookupMiss, FetchFails, FetchOk, Destroyed, vars
  <2> QED
    BY <2>1 DEF Abs!cacheVars, CachedKeys
<1> QED
  BY <1>1, <1>2, <1>3 DEF Next

(* The page cache of ha_serverless implements BoundedCache under the      *)
(* mapping cached = the keys of page_cache, for all constants: the cache  *)
(* starts empty, an insert evicts one cached key exactly when the map is  *)
(* full, and the destructor empties it.                                    *)
THEOREM CacheRefinement == Spec => CacheRefined
<1>1. Init => Abs!Init
  BY DEF Init, Abs!Init, CachedKeys, NoPage
<1>2. CacheInv /\ [Next]_vars => [Abs!Next]_Abs!cacheVars
  BY StepRefines
<1> QED
  BY <1>1, <1>2, CacheInvariant, PTL DEF Spec, CacheRefined, Abs!Spec

=============================================================================
