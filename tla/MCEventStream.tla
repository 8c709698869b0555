----------------------------- MODULE MCEventStream -----------------------------
(***************************************************************************)
(* Small instances of EventStream for TLC, and the refinement of EventFeed.*)
(***************************************************************************)
EXTENDS EventStream

\* EventStream implements the contract of EventFeed: whatever handlers overtake
\* each other or are dropped, connections break, receivers lag, servers crash and
\* clients restart, a client confirms nothing that it has not received and that
\* is not excused, and every event that is due arrives.
ImplementsFeed == Feed!FairSpec
================================================================================
