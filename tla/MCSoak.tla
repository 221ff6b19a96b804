------------------------------- MODULE MCSoak -------------------------------
(***************************************************************************)
(* Soak for TLC: a soak of two days with two days of use.                  *)
(***************************************************************************)
EXTENDS Soak, TLC
=============================================================================
