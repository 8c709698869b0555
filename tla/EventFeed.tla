------------------------------- MODULE EventFeed -------------------------------
(***************************************************************************)
(* What cursor synchronisation promises a client (docs/adr/0002), with the *)
(* losses the code has: a client that is up confirms a position only when  *)
(* its interface has received every event below it, except those before    *)
(* the position it started at, those sent after a later event, and those   *)
(* that fell out of the buffer of what was sent.  Connections, frames,     *)
(* pages and retries are not visible here.                                 *)
(***************************************************************************)
EXTENDS Integers, Sequences

CONSTANTS Users, MaxEvents

VARIABLES
    log,         \* log[n]: recipients of the event with cursor n
    sent,        \* the events sent to whoever listens, in that order
    up,          \* up[u]: the client of u runs and can sign in
    start,       \* start[u]: position u's client started at
    confirmed,   \* confirmed[u]: position u has confirmed
    received,    \* received[u]: events u's interface has received
    behind,      \* behind[u]: events u was too slow to be given
    held         \* held[u]: events u is given with its next connection only

vars == <<log, sent, up, start, confirmed, received, behind, held>>

EventsFor(u) == {n \in 1..Len(log) : u \in log[n]}

Overtaken(n) ==
    \E i \in 1..Len(sent) : sent[i] > n /\ \A j \in 1..i : sent[j] # n

Excused(u, n) == n <= start[u] \/ n \in behind[u] \/ Overtaken(n)

Init ==
    /\ log = <<>>
    /\ sent = <<>>
    /\ up = [u \in Users |-> TRUE]
    /\ start = [u \in Users |-> 0]
    /\ confirmed = [u \in Users |-> 0]
    /\ received = [u \in Users |-> {}]
    /\ behind = [u \in Users |-> {}]
    /\ held = [u \in Users |-> {}]

\* The log grows.  The new events may be held from some of their users.
Commit ==
    /\ \E k \in 1..(MaxEvents - Len(log)) :
         \E batch \in [1..k -> SUBSET Users] : log' = log \o batch
    /\ \E S \in SUBSET Users :
         held' = [u \in Users |->
                    IF u \in S
                    THEN held[u] \cup {n \in Len(log) + 1 .. Len(log') : u \in log'[n]}
                    ELSE held[u]]
    /\ UNCHANGED <<sent, up, start, confirmed, received, behind>>

\* An event of the log is sent, once.
Send ==
    /\ \E n \in 1..Len(log) :
         /\ \A i \in 1..Len(sent) : sent[i] # n
         /\ sent' = Append(sent, n)
    /\ UNCHANGED <<log, up, start, confirmed, received, behind, held>>

\* A listener misses events that were sent.
FallBehind(u) ==
    /\ \E ns \in SUBSET {sent[i] : i \in 1..Len(sent)} :
         behind' = [behind EXCEPT ![u] = @ \cup ns]
    /\ UNCHANGED <<log, sent, up, start, confirmed, received, held>>

\* Some events arrive, and the confirmed position may move up over events that
\* have arrived or are excused.
Receive(u) ==
    /\ up[u]
    /\ \E ns \in SUBSET EventsFor(u), position \in confirmed[u]..Len(log) :
         /\ \A n \in EventsFor(u) :
              n <= position => n \in received[u] \cup ns \/ Excused(u, n)
         /\ received' = [received EXCEPT ![u] = @ \cup ns]
         /\ confirmed' = [confirmed EXCEPT ![u] = position]
         /\ held' = [held EXCEPT ![u] = {n \in @ : n > position}]
    /\ UNCHANGED <<log, sent, up, start, behind>>

\* Connections end or begin anew: nothing is held from their users any more.
Renew ==
    /\ \E S \in SUBSET Users : held' = [u \in Users |-> IF u \in S THEN {} ELSE held[u]]
    /\ UNCHANGED <<log, sent, up, start, confirmed, received, behind>>

\* The client's process ends.
Stop(u) ==
    /\ up' = [up EXCEPT ![u] = FALSE]
    /\ received' = [received EXCEPT ![u] = {}]
    /\ behind' = [behind EXCEPT ![u] = {}]
    /\ held' = [held EXCEPT ![u] = {}]
    /\ UNCHANGED <<log, sent, start, confirmed>>

\* It starts from a snapshot that carries a position of the log, and is not up
\* if it could not sign in.
Start(u) ==
    /\ ~up[u]
    /\ \E ready \in BOOLEAN, position \in 0..Len(log) :
         /\ up' = [up EXCEPT ![u] = ready]
         /\ start' = [start EXCEPT ![u] = position]
         /\ confirmed' = [confirmed EXCEPT ![u] = position]
    /\ UNCHANGED <<log, sent, received, behind, held>>

Next ==
    \/ Commit \/ Send \/ Renew
    \/ \E u \in Users : FallBehind(u) \/ Receive(u) \/ Stop(u) \/ Start(u)

Spec == Init /\ [][Next]_vars

Due(u, n) ==
    up[u] /\ n \in EventsFor(u) \ (received[u] \cup held[u]) /\ ~Excused(u, n)

\* No event stays due for ever.
Delivers == \A u \in Users : \A n \in 1..MaxEvents : Due(u, n) ~> ~Due(u, n)

FairSpec == Spec /\ Delivers
================================================================================
