--------------------------- MODULE MCTaskCounter ---------------------------
(* Instances of TaskCounter: two RPCs that race two resets, with a task     *)
(* that outlives the RPC that spawned it.                                   *)
EXTENDS TaskCounter
=============================================================================
