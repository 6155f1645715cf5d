--------------------------- MODULE MC_SchemaDelta ---------------------------
(* Schema upgrades of a server that keeps the full states of contract      *)
(* actions (contractStateHistory 'all').                                   *)
EXTENDS SchemaDelta, Releases
=============================================================================
