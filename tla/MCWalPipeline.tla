--------------------------- MODULE MCWalPipeline ---------------------------
(* Model-checking instance of WalPipeline: two handlers open on the same  *)
(* table, writing through the global safekeeper client.                    *)
EXTENDS WalPipeline, TLC

CONSTANTS h1, h2

MCHandlers == {h1, h2}
=============================================================================
