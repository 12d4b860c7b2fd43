---------------------------- MODULE BoundedCache ----------------------------
(***************************************************************************)
(* What the page cache of an ha_serverless handler promises (spec 3 and   *)
(* 4.2), written without its map, list, objects or lock: the set of keys  *)
(* whose page is cached.  Storing a page adds its key; when the cache is  *)
(* full, one key that is cached is evicted to make room, and only then.   *)
(* Reads that hit or miss change nothing here.  Tearing the handler down  *)
(* empties the cache for good.                                             *)
(***************************************************************************)
EXTENDS Naturals, FiniteSets

CONSTANTS
    Keys,       \* page keys
    Capacity    \* MAX_CACHED_PAGES

VARIABLES
    cached,     \* the keys whose page is in the cache
    alive       \* the handler exists

cacheVars == <<cached, alive>>

Init ==
    /\ cached = {}
    /\ alive = TRUE

\* A page is stored with room to spare: nothing is evicted.
StoreFree(k) ==
    /\ alive /\ Cardinality(cached) < Capacity
    /\ cached' = cached \cup {k}
    /\ UNCHANGED alive

\* A page is stored in a full cache: one cached key v makes room for it.
StoreEvicting(k) ==
    /\ alive /\ Cardinality(cached) >= Capacity
    /\ \E v \in cached : cached' = (cached \ {v}) \cup {k}
    /\ UNCHANGED alive

\* The handler is destroyed with everything it cached.
Teardown ==
    /\ alive
    /\ cached' = {}
    /\ alive' = FALSE

Next ==
    \/ \E k \in Keys : StoreFree(k) \/ StoreEvicting(k)
    \/ Teardown

Spec == Init /\ [][Next]_cacheVars

=============================================================================
