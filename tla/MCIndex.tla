------------------------------ MODULE MCIndex ------------------------------
(***************************************************************************)
(* Index for TLC.                                                          *)
(***************************************************************************)
EXTENDS Index, TLC

MCRest == Tables

\* Processes run the same code, and files are treated alike.
Interchangeable == {p @@ f : p \in Permutations(Proc), f \in Permutations(Files)}
=============================================================================
