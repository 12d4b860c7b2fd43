---------------------------- MODULE MCPageCache ----------------------------
(* Model-checking instance of PageCache: two sessions sharing a handler,  *)
(* three page keys and a capacity of two pages, so that the map fills and *)
(* the third key forces an eviction.                                       *)
EXTENDS PageCache, TLC

CONSTANTS s1, s2, k1, k2, k3

MCSessions == {s1, s2}
MCKeys == {k1, k2, k3}

\* Sessions are interchangeable, and so are page keys.
MCCacheSymmetry == Permutations(MCSessions) \cup Permutations(MCKeys)
=============================================================================
