--------------------------- MODULE MCResultStore ---------------------------
(* latency-sweep, which has a summary, idle-latency, which depends on it, and *)
(* a storage recipe, which does not.                                          *)
EXTENDS ResultStore, TLC

CONSTANTS sweep, idle, storage

MCRank == (sweep :> 0) @@ (idle :> 2) @@ (storage :> 100)
=============================================================================
