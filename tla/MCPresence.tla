------------------------------ MODULE MCPresence -------------------------------
\* Two users, the first with two devices.
EXTENDS Presence
CONSTANT u1
MCUserOf == [s \in Sessions |-> u1]
================================================================================
