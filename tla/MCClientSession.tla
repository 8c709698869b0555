---------------------------- MODULE MCClientSession ----------------------------
(***************************************************************************)
(* Small instances of ClientSession for TLC.                               *)
(***************************************************************************)
EXTENDS ClientSession, TLC

Symmetry ==
    Permutations(Devices) \cup Permutations(Tokens) \cup Permutations(Threads)
================================================================================
