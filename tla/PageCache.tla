------------------------------ MODULE PageCache ------------------------------
(***************************************************************************)
(* The page cache of one ha_serverless handler (safekeeper_client.cc,      *)
(* read_page_from_cache_or_pageserver, evict_page_from_cache and the       *)
(* destructor; fields in ha_serverless.h).  The cache is the map           *)
(* page_cache from page keys to CachedPage objects, the list lru_list of   *)
(* keys (front = most recently inserted) and cache_mutex.  Several         *)
(* sessions read pages through the same handler.                           *)
(*                                                                         *)
(* A read is three steps, as in the code: the lookup under cache_mutex,    *)
(* the fetch from the pageserver with the lock released, and the insert    *)
(* under cache_mutex.  A CachedPage object is a natural number (its        *)
(* allocation order); 0 stands for "no entry".  The page bytes are left    *)
(* out: the properties are about which objects the cache owns.  The dirty *)
(* flag is left out because nothing in the code ever sets it, so the       *)
(* write-back branches of evict_page_from_cache and close() never run.    *)
(* time(nullptr) is a logical clock that ticks at every timestamp.         *)
(***************************************************************************)
EXTENDS Naturals, Sequences, FiniteSets

CONSTANTS
    Sessions,   \* sessions reading through the handler
    Keys,       \* page keys (page_key(page_id))
    Capacity,   \* MAX_CACHED_PAGES
    MaxReads    \* bound: calls of read_page_from_cache_or_pageserver

ASSUME CacheAssumption ==
    /\ IsFiniteSet(Keys) /\ Keys # {}
    /\ Capacity \in Nat \ {0}
    /\ MaxReads \in Nat

NoPage == 0

VARIABLES
    page_cache,   \* [Keys -> Nat]: the CachedPage of each key, NoPage if absent
    lru_list,     \* Seq(Keys): lru_list
    last_access,  \* [Keys -> Nat]: last_access of the cached page of each key
    pc,           \* [Sessions -> {"idle", "fetch", "insert"}]
    want,         \* [Sessions -> Keys]: the key a session is reading
    allocs,       \* CachedPage objects allocated so far (1..allocs)
    deleted,      \* the CachedPage objects deleted so far
    clock,        \* time(nullptr)
    reads,        \* read calls started so far
    alive         \* the handler object exists

vars == <<page_cache, lru_list, last_access, pc, want, allocs, deleted,
          clock, reads, alive>>

CachedKeys == {k \in Keys : page_cache[k] # NoPage}

\* The keys that occur in a list.
ListKeys(l) == {l[i] : i \in 1..Len(l)}

\* std::list::back()
Back(l) == l[Len(l)]

(* std::list::remove(v): the positions whose key is not v, in order.  The *)
(* kept position i becomes the Rank-th element of the result, where Rank   *)
(* counts the kept positions up to i.                                      *)
Kept(l, v) == {i \in 1..Len(l) : l[i] # v}

Rank(l, v, i) == Cardinality({j \in Kept(l, v) : j <= i})

Remove(l, v) ==
    [n \in 1..Cardinality(Kept(l, v)) |->
        l[CHOOSE i \in Kept(l, v) : Rank(l, v, i) = n]]

-----------------------------------------------------------------------------
(* read_page_from_cache_or_pageserver, lookup under cache_mutex: a hit    *)
(* copies the page, refreshes last_access and returns; lru_list is left   *)
(* as it is.                                                               *)
LookupHit(s, k) ==
    /\ alive /\ pc[s] = "idle" /\ reads < MaxReads
    /\ page_cache[k] # NoPage
    /\ last_access' = [last_access EXCEPT ![k] = clock + 1]
    /\ clock' = clock + 1
    /\ reads' = reads + 1
    /\ UNCHANGED <<page_cache, lru_list, pc, want, allocs, deleted, alive>>

\* A miss releases the lock and goes on to the fetch.
LookupMiss(s, k) ==
    /\ alive /\ pc[s] = "idle" /\ reads < MaxReads
    /\ page_cache[k] = NoPage
    /\ pc' = [pc EXCEPT ![s] = "fetch"]
    /\ want' = [want EXCEPT ![s] = k]
    /\ reads' = reads + 1
    /\ UNCHANGED <<page_cache, lru_list, last_access, allocs, deleted, clock, alive>>

\* The fetch without the lock: a null pointer from the pool or a failed
\* read_page returns an error and leaves the cache alone.
FetchFails(s) ==
    /\ pc[s] = "fetch"
    /\ pc' = [pc EXCEPT ![s] = "idle"]
    /\ UNCHANGED <<page_cache, lru_list, last_access, want, allocs, deleted,
                   clock, reads, alive>>

FetchOk(s) ==
    /\ pc[s] = "fetch"
    /\ pc' = [pc EXCEPT ![s] = "insert"]
    /\ UNCHANGED <<page_cache, lru_list, last_access, want, allocs, deleted,
                   clock, reads, alive>>

\* Mutant: the entry is erased but lru_list.remove is left out.
EvictKeepingList(v) ==
    [cache |-> [page_cache EXCEPT ![v] = NoPage],
     gone  |-> IF page_cache[v] # NoPage THEN {page_cache[v]} ELSE {},
     lru   |-> lru_list]

\* Mutant: the object is deleted but page_cache.erase(it) is left out.
EvictKeepingEntry(v) ==
    [cache |-> page_cache,
     gone  |-> IF page_cache[v] # NoPage THEN {page_cache[v]} ELSE {},
     lru   |-> Remove(lru_list, v)]

(* evict_page_from_cache(v): delete and erase the entry of v if there is   *)
(* one, then remove every occurrence of v from lru_list.                   *)
Evict(v) ==
    [cache |-> [page_cache EXCEPT ![v] = NoPage],
     gone  |-> IF page_cache[v] # NoPage THEN {page_cache[v]} ELSE {},
     lru   |-> Remove(lru_list, v)]

NoEviction ==
    [cache |-> page_cache, gone |-> {}, lru |-> lru_list]

\* Mutant: the capacity test written with > instead of >=.
CacheFullLate(n) == n > Capacity

\* page_cache.size() >= MAX_CACHED_PAGES
CacheFull(n) == n >= Capacity

(* The insert under cache_mutex: when the map holds MAX_CACHED_PAGES       *)
(* entries, evict lru_list.back(); then allocate a CachedPage, store it    *)
(* under the key (page_cache[key] = new_page replaces an entry another     *)
(* session inserted meanwhile, without deleting it) and push the key to   *)
(* the front of lru_list.                                                  *)
Insert(s) ==
    LET k  == want[s]
        ev == IF CacheFull(Cardinality(CachedKeys)) THEN Evict(Back(lru_list))
              ELSE NoEviction
    IN  /\ pc[s] = "insert"
        /\ page_cache' = [ev.cache EXCEPT ![k] = allocs + 1]
        /\ lru_list' = <<k>> \o ev.lru
        /\ deleted' = deleted \cup ev.gone
        /\ allocs' = allocs + 1
        /\ last_access' = [last_access EXCEPT ![k] = clock + 1]
        /\ clock' = clock + 1
        /\ pc' = [pc EXCEPT ![s] = "idle"]
        /\ UNCHANGED <<want, reads, alive>>

\* ~ha_serverless: deletes every object in the map, once no read is running.
Destroy ==
    /\ alive /\ \A s \in Sessions : pc[s] = "idle"
    /\ deleted' = deleted \cup {page_cache[k] : k \in CachedKeys}
    /\ page_cache' = [k \in Keys |-> NoPage]
    /\ alive' = FALSE
    /\ UNCHANGED <<lru_list, last_access, pc, want, allocs, clock, reads>>

\* The handler is gone; nothing more happens.
Destroyed ==
    /\ ~alive
    /\ UNCHANGED vars

Init ==
    /\ page_cache = [k \in Keys |-> NoPage]
    /\ lru_list = <<>>
    /\ last_access = [k \in Keys |-> 0]
    /\ pc = [s \in Sessions |-> "idle"]
    /\ want \in [Sessions -> Keys]
    /\ allocs = 0 /\ deleted = {}
    /\ clock = 0 /\ reads = 0
    /\ alive = TRUE

Next ==
    \/ \E s \in Sessions, k \in Keys : LookupHit(s, k) \/ LookupMiss(s, k)
    \/ \E s \in Sessions : FetchFails(s) \/ FetchOk(s) \/ Insert(s)
    \/ Destroy
    \/ Destroyed

Spec == Init /\ [][Next]_vars

-----------------------------------------------------------------------------
TypeOK ==
    /\ page_cache \in [Keys -> 0..allocs]
    /\ lru_list \in Seq(Keys)
    /\ last_access \in [Keys -> Nat]
    /\ pc \in [Sessions -> {"idle", "fetch", "insert"}]
    /\ want \in [Sessions -> Keys]
    /\ allocs \in Nat /\ deleted \subseteq 1..allocs
    /\ clock \in Nat /\ reads \in 0..MaxReads
    /\ alive \in BOOLEAN

(* The map never holds more than MAX_CACHED_PAGES entries, whatever the    *)
(* interleaving of concurrent misses and inserts (spec 3, capacity bound). *)
CacheBounded == Cardinality(CachedKeys) <= Capacity

(* The map and lru_list name the same keys while the handler lives: the   *)
(* victim lru_list.back() is always an entry of the map, so an eviction    *)
(* always frees a slot, also after two sessions inserted the same key.     *)
LruTracksCache == alive => ListKeys(lru_list) = CachedKeys

(* The cache deletes only objects it holds, and never keeps one it has    *)
(* deleted: every CachedPage a step deletes (evict_page_from_cache's       *)
(* delete page, or the destructor's loop) was in page_cache before the     *)
(* step and is under no key after it, so no later lookup hit can copy     *)
(* from freed memory.                                                      *)
DeletedWereMapped ==
    \A p \in deleted' \ deleted :
        /\ \E k \in Keys : page_cache[k] = p
        /\ \A k \in Keys : page_cache'[k] # p

DeletesOnlyUnmapped == [][DeletedWereMapped]_vars

(* The refinement mapping onto BoundedCache: the abstract cache holds the *)
(* keys that have an entry in page_cache.                                  *)
Abs == INSTANCE BoundedCache WITH cached <- CachedKeys

(* The handler's cache implements the bounded cache of spec 3: an insert  *)
(* adds its key, and evicts one key that is cached exactly when the map   *)
(* is full, whatever the interleaving of sessions; the destructor empties *)
(* it.                                                                     *)
CacheRefined == Abs!Spec

(* Every CachedPage the cache allocated is still in the map or has been    *)
(* deleted: the insert never drops an object without deleting it.          *)
NoLeakedPage ==
    \A p \in 1..allocs : p \in deleted \/ \E k \in Keys : page_cache[k] = p

(* An eviction removes the cached page with the oldest last_access among   *)
(* the entries present (spec 3 and 4.2: strict least-recently-used).       *)
EvictsLeastRecentlyUsed ==
    [][\A v \in CachedKeys :
          (alive' /\ page_cache'[v] = NoPage)
             => \A k \in CachedKeys : last_access[v] <= last_access[k]]_vars

=============================================================================
