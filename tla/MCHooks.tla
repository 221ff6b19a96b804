------------------------------ MODULE MCHooks ------------------------------
(***************************************************************************)
(* Hooks for TLC: runs of one hook process beside one server.              *)
(***************************************************************************)
EXTENDS Hooks, TLC
=============================================================================
