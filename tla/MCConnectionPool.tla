------------------------- MODULE MCConnectionPool -------------------------
(* Model-checking instance of ConnectionPool: two sessions, five client  *)
(* objects, pool limits 1/3 and 1/2.  As with the plugin's 5/20 and 3/10,  *)
(* two warm-ups stay within the maximum.                                   *)
EXTENDS ConnectionPool, TLC

CONSTANTS t1, t2, c1, c2, c3, c4, c5, c6

MCThreads == {t1, t2}
MCConns == {c1, c2, c3, c4, c5}

\* Six objects, for the runs that need four clients of one kind.
MCConns6 == MCConns \cup {c6}

\* Sessions and client objects are interchangeable.
MCSymmetry == Permutations(MCThreads) \cup Permutations(MCConns)
MCSymmetry6 == Permutations(MCThreads) \cup Permutations(MCConns6)
=============================================================================
