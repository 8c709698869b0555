------------------------------ MODULE MCSessions -------------------------------
(***************************************************************************)
(* Small instances of Sessions for TLC.                                    *)
(***************************************************************************)
EXTENDS Sessions, TLC

\* Identifiers and passwords are only compared with one another.
Symmetry ==
    Permutations(Users) \cup Permutations(Devices) \cup Permutations(Tokens)
      \cup Permutations(Passwords) \cup Permutations(Resets)
================================================================================
