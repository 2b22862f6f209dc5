---------------------------- MODULE MCCachedQueries ----------------------------
(* CachedQueries for TLC. *)
EXTENDS CachedQueries

MCRunners == Callers \X {"main", "store"}
===============================================================================
