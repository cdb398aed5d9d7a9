----------------------------- MODULE MCStateCache -----------------------------
(* The small instance of StateCache.                                        *)
EXTENDS StateCache, MCEmulator

=============================================================================
