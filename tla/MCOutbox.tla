------------------------------- MODULE MCOutbox --------------------------------
(***************************************************************************)
(* Small instances of Outbox for TLC.                                      *)
(***************************************************************************)
EXTENDS Outbox

\* Whose account is the first makes no difference.
MCInit == Init /\ account = CHOOSE u \in Users : TRUE

MCSpec == MCInit /\ [][Next]_vars /\ Fairness
================================================================================
