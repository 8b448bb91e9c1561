---------------------------- MODULE MCOrderCache ----------------------------
(* Small instances of OrderCache for TLC. *)
EXTENDS OrderCache
=============================================================================
