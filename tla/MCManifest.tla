----------------------------- MODULE MCManifest -----------------------------
(***************************************************************************)
(* Manifest for TLC: two files, interchangeable, each in two versions.     *)
(***************************************************************************)
EXTENDS Manifest, TLC

Interchangeable == Permutations(Files) \cup Permutations(Versions)
=============================================================================
