------------------------------- MODULE MCGroups --------------------------------
(***************************************************************************)
(* Small instances of Groups for TLC.                                      *)
(***************************************************************************)
EXTENDS Groups, TLC

\* Identifiers are only compared with one another.
Symmetry == Permutations(Users) \cup Permutations(Groups)
================================================================================
