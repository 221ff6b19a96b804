----------------------------- MODULE MCAuditLog -----------------------------
(***************************************************************************)
(* AuditLog for TLC.                                                       *)
(***************************************************************************)
EXTENDS AuditLog, TLC

\* Processes run the same code and are interchangeable, and so are the
\* contents of the other tables.
Interchangeable == Permutations(Proc) \cup Permutations(Rest)
=============================================================================
