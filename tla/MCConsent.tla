----------------------------- MODULE MCConsent -----------------------------
(***************************************************************************)
(* Consent for TLC: a file and the directory it is in.                    *)
(***************************************************************************)
EXTENDS Consent, TLC

CONSTANTS dir, file

MCPaths == {<<dir>>, <<dir, file>>}

\* check() treats every scope alike.
Interchangeable == Permutations(Proc) \cup Permutations(Scopes)
=============================================================================
