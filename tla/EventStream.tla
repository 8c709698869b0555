------------------------------ MODULE EventStream ------------------------------
(***************************************************************************)
(* How an event of the server's log reaches the user interface of a        *)
(* desktop client.                                                         *)
(*                                                                         *)
(* Server: every committed ChatService::mutate appends events to the log   *)
(* under the store lock, gives the lock back and only then sends them, one *)
(* by one, to a bounded tokio broadcast channel.  Each WebSocket session   *)
(* is one receiver of that channel.                                        *)
(* Client: the realtime task keeps a cursor, asks /sync for the pages it   *)
(* misses when the session's welcome frame shows a later cursor, and then  *)
(* takes the live events whose cursor is above its own.                    *)
(*                                                                         *)
(* The cursor of an event is its position in the log, so an event is       *)
(* represented by its cursor and the log by the recipients of each event.  *)
(***************************************************************************)
EXTENDS Integers, Sequences, FiniteSets

CONSTANTS
    Users,        \* users, each with one desktop client
    Tasks,        \* request handlers that may be inside mutate at once
    Capacity,     \* events the broadcast channel retains (512 in the code)
    PageSize,     \* events in a page of /sync (200 in the code)
    Bursts,       \* numbers of events one mutate may append
    MaxEvents,    \* bound on the length of the log
    MaxFaults,    \* bound on lost connections, failed syncs, server crashes
    MaxRestarts   \* bound on restarts of client processes

ASSUME CapacityAssumption == Capacity \in Nat \ {0}
ASSUME PageSizeAssumption == PageSize \in Nat \ {0}
ASSUME BurstsAssumption == Bursts \subseteq Nat \ {0}
ASSUME BoundsAssumption ==
    MaxEvents \in Nat /\ MaxFaults \in Nat /\ MaxRestarts \in Nat

VARIABLES
    events,       \* events[n]: recipients of the event with cursor n
    publishing,   \* publishing[t]: cursors the task still has to broadcast
    channel,      \* cursors sent to the broadcast channel, oldest first
    session,      \* session[u]: the server's side of u's WebSocket
    next,         \* next[u]: how many of channel u's receiver has passed
    lagged,       \* lagged[u]: events that receiver was too slow to get
    socket,       \* socket[u]: frames sent to u and not yet read
    state,        \* state[u]: what u's client is doing
    cursor,       \* cursor[u]: cursor of u's realtime task
    catching,     \* catching[u]: the local cursor of a running catch_up
    base,         \* base[u]: log position u's bootstrap snapshot was read at
    start,        \* start[u]: cursor u's bootstrap carried
    cached,       \* cached[u]: base and cursor of the bootstrap stored by u
    delivered,    \* delivered[u]: events handed to u's interface in this run
    redelivered,  \* redelivered[u]: those handed to it a second time
    faults,       \* faults so far
    restarts      \* client restarts so far

serverVars == <<events, publishing, channel>>
sessionVars == <<session, next, lagged, socket>>
clientVars == <<state, cursor, catching, delivered, redelivered>>
bootVars == <<base, start, cached>>
vars == <<serverVars, sessionVars, clientVars, bootVars, faults, restarts>>

Frame == [kind : {"Welcome", "Event"}, cursor : Nat]

ClientState ==
    {"Starting", "Bootstrapping", "Stranded",
     "Connecting", "Syncing", "Online", "Offline"}

\* The events of the log addressed to u.
EventsFor(u) == {n \in 1..Len(events) : u \in events[n]}

Fault == faults < MaxFaults /\ faults' = faults + 1

--------------------------------------------------------------------------------
(***************************************************************************)
(* The server                                                              *)
(***************************************************************************)

\* Events of one operation enter the log, while the store lock is held.
AppendEvents(k) ==
    /\ Len(events) + k <= MaxEvents
    /\ \E batch \in [1..k -> SUBSET Users] : events' = events \o batch

\* One committed mutate: the handler leaves the lock with the list of what it
\* must broadcast.  Nothing is awaited from there to the last broadcast.
Mutate(t) ==
    /\ publishing[t] = <<>>
    /\ \E k \in Bursts :
         /\ AppendEvents(k)
         /\ publishing' = [publishing EXCEPT ![t] = [i \in 1..k |-> Len(events) + i]]
    /\ UNCHANGED <<channel, sessionVars, clientVars, bootVars, faults, restarts>>

\* The request's future is dropped while it awaits the statement: memory keeps
\* the change and its events, and nobody broadcasts them.  The statement is
\* taken to reach the database all the same; Durability has the other outcome.
MutateDropped ==
    /\ Fault
    /\ \E k \in Bursts : AppendEvents(k)
    /\ UNCHANGED <<publishing, channel, sessionVars, clientVars, bootVars, restarts>>

\* The handler sends the next of its events to the channel; another handler
\* that committed later may have sent its own before.
Publish(t) ==
    /\ publishing[t] # <<>>
    /\ channel' = Append(channel, Head(publishing[t]))
    /\ publishing' = [publishing EXCEPT ![t] = Tail(@)]
    /\ UNCHANGED <<events, sessionVars, clientVars, bootVars, faults, restarts>>

\* The socket is accepted: serve subscribes before it reads the log's cursor.
Subscribe(u) ==
    /\ state[u] = "Connecting"
    /\ session[u] = "Closed"
    /\ socket[u] = <<>>
    /\ session' = [session EXCEPT ![u] = "Subscribed"]
    /\ next' = [next EXCEPT ![u] = Len(channel)]
    /\ UNCHANGED <<serverVars, lagged, socket, clientVars, bootVars, faults, restarts>>

SendWelcome(u) ==
    /\ session[u] = "Subscribed"
    /\ session' = [session EXCEPT ![u] = "Serving"]
    /\ socket' = [socket EXCEPT ![u] = <<[kind |-> "Welcome", cursor |-> Len(events)]>>]
    /\ UNCHANGED <<serverVars, next, lagged, clientVars, bootVars, faults, restarts>>

Lagging(u) == Len(channel) - next[u] > Capacity

\* Mutant of Forward: the session frames every event of the channel.
ForwardToAll(u) ==
    /\ session[u] = "Serving"
    /\ next[u] < Len(channel)
    /\ ~Lagging(u)
    /\ socket' = [socket EXCEPT
         ![u] = Append(@, [kind |-> "Event", cursor |-> channel[next[u] + 1]])]
    /\ next' = [next EXCEPT ![u] = @ + 1]
    /\ UNCHANGED <<serverVars, session, lagged, clientVars, bootVars, faults, restarts>>

\* recv() yields the next retained event; it is framed for a recipient only.
Forward(u) ==
    /\ session[u] = "Serving"
    /\ next[u] < Len(channel)
    /\ ~Lagging(u)
    /\ LET n == channel[next[u] + 1]
       IN  socket' = IF u \in events[n]
                     THEN [socket EXCEPT ![u] = Append(@, [kind |-> "Event", cursor |-> n])]
                     ELSE socket
    /\ next' = [next EXCEPT ![u] = @ + 1]
    /\ UNCHANGED <<serverVars, session, lagged, clientVars, bootVars, faults, restarts>>

\* recv() yields Lagged: the receiver jumps to the oldest retained event and
\* the session's loop ignores that anything was lost.
Lag(u) ==
    /\ session[u] = "Serving"
    /\ Lagging(u)
    /\ LET oldest == Len(channel) - Capacity
       IN  /\ next' = [next EXCEPT ![u] = oldest]
           /\ lagged' = [lagged EXCEPT
                ![u] = @ \cup {channel[i] : i \in next[u] + 1 .. oldest}]
    /\ UNCHANGED <<serverVars, session, socket, clientVars, bootVars, faults, restarts>>

\* The server process dies and starts again from the stored snapshot: the log
\* survives, what was committed but not yet broadcast never will be.
ServerCrash ==
    /\ Fault
    /\ publishing' = [t \in Tasks |-> <<>>]
    /\ session' = [u \in Users |-> "Closed"]
    /\ UNCHANGED <<events, channel, next, lagged, socket, clientVars, bootVars, restarts>>

--------------------------------------------------------------------------------
(***************************************************************************)
(* The realtime task of a client                                           *)
(***************************************************************************)

\* The welcome frame either starts a catch-up or puts the client online.
ReceiveWelcome(u) ==
    /\ state[u] = "Connecting"
    /\ socket[u] # <<>>
    /\ Head(socket[u]).kind = "Welcome"
    /\ socket' = [socket EXCEPT ![u] = Tail(@)]
    /\ IF Head(socket[u]).cursor > cursor[u]
       THEN /\ state' = [state EXCEPT ![u] = "Syncing"]
            /\ catching' = [catching EXCEPT ![u] = cursor[u]]
       ELSE /\ state' = [state EXCEPT ![u] = "Online"]
            /\ UNCHANGED catching
    /\ UNCHANGED <<serverVars, session, next, lagged, cursor, delivered, redelivered,
                   bootVars, faults, restarts>>

HandOver(u, ns) ==
    /\ delivered' = [delivered EXCEPT ![u] = @ \cup ns]
    /\ redelivered' = [redelivered EXCEPT ![u] = @ \cup (delivered[u] \cap ns)]

\* Mutant of ReceiveEvent: a live event is taken without a look at the cursor.
ReceiveAnyEvent(u) ==
    /\ state[u] = "Online"
    /\ socket[u] # <<>>
    /\ Head(socket[u]).kind = "Event"
    /\ socket' = [socket EXCEPT ![u] = Tail(@)]
    /\ cursor' = [cursor EXCEPT ![u] = Head(socket[u]).cursor]
    /\ HandOver(u, {Head(socket[u]).cursor})
    /\ UNCHANGED <<serverVars, session, next, lagged, state, catching, bootVars,
                   faults, restarts>>

\* A live event is taken only above the cursor, and dropped otherwise.
ReceiveEvent(u) ==
    /\ state[u] = "Online"
    /\ socket[u] # <<>>
    /\ Head(socket[u]).kind = "Event"
    /\ socket' = [socket EXCEPT ![u] = Tail(@)]
    /\ LET n == Head(socket[u]).cursor
       IN  IF n > cursor[u]
           THEN /\ cursor' = [cursor EXCEPT ![u] = n]
                /\ HandOver(u, {n})
           ELSE UNCHANGED <<cursor, delivered, redelivered>>
    /\ UNCHANGED <<serverVars, session, next, lagged, state, catching, bootVars,
                   faults, restarts>>

\* Pages of /sync after position n: the first PageSize events for u.
IsPage(u, n, page) ==
    LET pending == {m \in EventsFor(u) : m > n}
    IN  /\ page \in SUBSET pending
        /\ \A m \in page, k \in pending \ page : m < k
        /\ IF Cardinality(pending) > PageSize
           THEN Cardinality(page) = PageSize
           ELSE page = pending

\* Mutant of HasMore: catch_up is content with one page.
HasMoreNever(u, n, page) == FALSE

HasMore(u, n, page) == \E m \in EventsFor(u) : m > n /\ m \notin page

\* next_cursor of a page asked for after position n.
IsNextCursor(page, n, after) ==
    /\ after \in page \cup {n}
    /\ \A m \in page : m <= after

IsGreatest(m, S) == m \in S /\ \A k \in S : k <= m

\* One round of catch_up, which takes the greatest of its cursor, those of the
\* page and next_cursor; only the last page moves the task's own cursor.
SyncPage(u) ==
    /\ state[u] = "Syncing"
    /\ \E page \in SUBSET EventsFor(u), after, reached \in 0..Len(events) :
         /\ IsPage(u, catching[u], page)
         /\ IsNextCursor(page, catching[u], after)
         /\ IsGreatest(reached, page \cup {catching[u], after})
         /\ HandOver(u, page)
         /\ catching' = [catching EXCEPT ![u] = reached]
         /\ IF HasMore(u, catching[u], page)
            THEN UNCHANGED <<cursor, state>>
            ELSE /\ cursor' = [cursor EXCEPT ![u] = reached]
                 /\ state' = [state EXCEPT ![u] = "Online"]
    /\ UNCHANGED <<serverVars, sessionVars, bootVars, faults, restarts>>

\* A page fails: connect_once returns, the pages already handed over stay
\* handed over and the cursor is still the one before the catch-up.
SyncFails(u) ==
    /\ state[u] = "Syncing"
    /\ Fault
    /\ state' = [state EXCEPT ![u] = "Offline"]
    /\ session' = [session EXCEPT ![u] = "Closed"]
    /\ socket' = [socket EXCEPT ![u] = <<>>]
    /\ UNCHANGED <<serverVars, next, lagged, cursor, catching, delivered, redelivered,
                   bootVars, restarts>>

\* The server's side of a session ends; what it sent may still be read.
SessionEnds(u) ==
    /\ session[u] # "Closed"
    /\ Fault
    /\ session' = [session EXCEPT ![u] = "Closed"]
    /\ UNCHANGED <<serverVars, next, lagged, socket, clientVars, bootVars, restarts>>

\* Mutant of Disconnected: a client that is online never notices.
DisconnectedBeforeWelcome(u) ==
    /\ session[u] = "Closed"
    /\ state[u] = "Connecting" /\ socket[u] # <<>>
    /\ state' = [state EXCEPT ![u] = "Offline"]
    /\ socket' = [socket EXCEPT ![u] = <<>>]
    /\ UNCHANGED <<serverVars, session, next, lagged, cursor, catching, delivered,
                   redelivered, bootVars, faults, restarts>>

\* The client finds its connection gone, with whatever frames it had unread.
Disconnected(u) ==
    /\ session[u] = "Closed"
    /\ \/ state[u] = "Online"
       \/ state[u] = "Connecting" /\ socket[u] # <<>>
    /\ state' = [state EXCEPT ![u] = "Offline"]
    /\ socket' = [socket EXCEPT ![u] = <<>>]
    /\ UNCHANGED <<serverVars, session, next, lagged, cursor, catching, delivered,
                   redelivered, bootVars, faults, restarts>>

\* The back-off timer of run fires.
Reconnect(u) ==
    /\ state[u] = "Offline"
    /\ state' = [state EXCEPT ![u] = "Connecting"]
    /\ UNCHANGED <<serverVars, sessionVars, cursor, catching, delivered, redelivered,
                   bootVars, faults, restarts>>

--------------------------------------------------------------------------------
(***************************************************************************)
(* Start of a client process                                               *)
(***************************************************************************)

\* The process ends at any moment and is started again.
Restart(u) ==
    /\ restarts < MaxRestarts
    /\ restarts' = restarts + 1
    /\ state' = [state EXCEPT ![u] = "Starting"]
    /\ session' = [session EXCEPT ![u] = "Closed"]
    /\ socket' = [socket EXCEPT ![u] = <<>>]
    /\ delivered' = [delivered EXCEPT ![u] = {}]
    /\ redelivered' = [redelivered EXCEPT ![u] = {}]
    /\ lagged' = [lagged EXCEPT ![u] = {}]
    /\ UNCHANGED <<serverVars, next, cursor, catching, bootVars, faults>>

\* ChatService::bootstrap reads the parts of the snapshot one after the
\* other; base is the log position of the first part it reads.
BootstrapRead(u) ==
    /\ state[u] = "Starting"
    /\ base' = [base EXCEPT ![u] = Len(events)]
    /\ state' = [state EXCEPT ![u] = "Bootstrapping"]
    /\ UNCHANGED <<serverVars, sessionVars, cursor, catching, delivered, redelivered,
                   start, cached, faults, restarts>>

\* It reads the cursor last.  The client starts its realtime task there and
\* stores the bootstrap in a task of its own, which may not get to run.
BootstrapCursor(u) ==
    /\ state[u] = "Bootstrapping"
    /\ cursor' = [cursor EXCEPT ![u] = Len(events)]
    /\ start' = [start EXCEPT ![u] = Len(events)]
    /\ state' = [state EXCEPT ![u] = "Connecting"]
    /\ \/ cached' = [cached EXCEPT ![u] = [base |-> base[u], cursor |-> Len(events)]]
       \/ UNCHANGED cached
    /\ UNCHANGED <<serverVars, sessionVars, catching, delivered, redelivered, base,
                   faults, restarts>>

\* The server cannot be reached: the stored bootstrap takes its place.  If
\* even the stored refresh token could not be exchanged, the client has no
\* access token and its realtime task never gets past asking for a ticket.
RestoreCached(u) ==
    /\ state[u] \in {"Starting", "Bootstrapping"}
    /\ base' = [base EXCEPT ![u] = cached[u].base]
    /\ start' = [start EXCEPT ![u] = cached[u].cursor]
    /\ cursor' = [cursor EXCEPT ![u] = cached[u].cursor]
    /\ \/ state' = [state EXCEPT ![u] = "Connecting"]
       \/ state' = [state EXCEPT ![u] = "Stranded"] /\ state[u] = "Starting"
    /\ UNCHANGED <<serverVars, sessionVars, catching, delivered, redelivered, cached,
                   faults, restarts>>

\* A running client fetches another bootstrap, read at any two moments since it
\* started, and stores it; the realtime task keeps its own cursor.  What is
\* stored matters to a later restart only.
RefreshStored(u) ==
    /\ state[u] \in {"Connecting", "Syncing", "Online", "Offline"}
    /\ restarts < MaxRestarts
    /\ \E b \in start[u]..Len(events) : \E c \in b..Len(events) :
         cached' = [cached EXCEPT ![u] = [base |-> b, cursor |-> c]]
    /\ UNCHANGED <<serverVars, sessionVars, clientVars, base, start, faults, restarts>>

--------------------------------------------------------------------------------
\* Every client has signed in on the empty log and stored that bootstrap.
Init ==
    /\ events = <<>>
    /\ publishing = [t \in Tasks |-> <<>>]
    /\ channel = <<>>
    /\ session = [u \in Users |-> "Closed"]
    /\ next = [u \in Users |-> 0]
    /\ lagged = [u \in Users |-> {}]
    /\ socket = [u \in Users |-> <<>>]
    /\ state = [u \in Users |-> "Connecting"]
    /\ cursor = [u \in Users |-> 0]
    /\ catching = [u \in Users |-> 0]
    /\ base = [u \in Users |-> 0]
    /\ start = [u \in Users |-> 0]
    /\ cached = [u \in Users |-> [base |-> 0, cursor |-> 0]]
    /\ delivered = [u \in Users |-> {}]
    /\ redelivered = [u \in Users |-> {}]
    /\ faults = 0
    /\ restarts = 0

Session(u) == Subscribe(u) \/ SendWelcome(u) \/ Forward(u) \/ Lag(u)

Realtime(u) ==
    ReceiveWelcome(u) \/ ReceiveEvent(u) \/ SyncPage(u) \/ Disconnected(u) \/ Reconnect(u)

Boot(u) == BootstrapRead(u) \/ BootstrapCursor(u) \/ RestoreCached(u)

Next ==
    \/ \E t \in Tasks : Mutate(t) \/ Publish(t)
    \/ \E u \in Users : Session(u) \/ Realtime(u) \/ Boot(u)
    \/ \E u \in Users : SyncFails(u) \/ SessionEnds(u) \/ Restart(u) \/ RefreshStored(u)
    \/ MutateDropped \/ ServerCrash

Spec == Init /\ [][Next]_vars

\* tokio runs every task that can run, and the client's timers fire; requests
\* arrive and faults happen when they like.  A handler that has begun to
\* broadcast cannot be dropped any more, as it awaits nothing.
Fairness ==
    /\ \A t \in Tasks : WF_vars(Publish(t))
    /\ \A u \in Users : WF_vars(Session(u)) /\ WF_vars(Realtime(u)) /\ WF_vars(Boot(u))

FairSpec == Spec /\ Fairness

--------------------------------------------------------------------------------
(***************************************************************************)
(* Properties                                                              *)
(***************************************************************************)

TypeOK ==
    /\ events \in Seq(SUBSET Users)
    /\ publishing \in [Tasks -> Seq(Nat)]
    /\ channel \in Seq(Nat)
    /\ session \in [Users -> {"Closed", "Subscribed", "Serving"}]
    /\ next \in [Users -> Nat]
    /\ lagged \in [Users -> SUBSET Nat]
    /\ socket \in [Users -> Seq(Frame)]
    /\ state \in [Users -> ClientState]
    /\ cursor \in [Users -> Nat]
    /\ catching \in [Users -> Nat]
    /\ base \in [Users -> Nat]
    /\ start \in [Users -> Nat]
    /\ cached \in [Users -> [base : Nat, cursor : Nat]]
    /\ delivered \in [Users -> SUBSET Nat]
    /\ redelivered \in [Users -> SUBSET Nat]
    /\ faults \in Nat
    /\ restarts \in Nat

Running(u) == state[u] \notin {"Starting", "Bootstrapping"}

\* What the cursor of u has passed although neither the snapshot u started
\* from nor the interface of u has it.
Missing(u) ==
    {n \in EventsFor(u) : base[u] < n /\ n <= cursor[u] /\ n \notin delivered[u]}

\* A later event went out on the broadcast channel before n did.
Overtaken(n) ==
    \E i \in 1..Len(channel) :
        channel[i] > n /\ \A j \in 1..i : channel[j] # n

\* The cursor of a client passes an undelivered event in three ways only: the
\* event was appended between the parts of the bootstrap and its cursor, it was
\* overtaken on its way to the broadcast channel, or the session lagged.  In
\* particular no event is lost between subscription, welcome frame, catch-up
\* pages and live frames, whatever disconnects or crashes in between.
SkippedOnlyIf ==
    \A u \in Users : Running(u) =>
        \A n \in Missing(u) : n <= start[u] \/ Overtaken(n) \/ n \in lagged[u]

\* Only recipients of an event ever get it, live or by catch-up.
OnlyRecipients == \A u \in Users : delivered[u] \subseteq EventsFor(u)

\* The cursor a realtime task asks /sync from never moves back, so no page or
\* live event makes a client fetch what it has confirmed.
CursorNeverRetreats ==
    [][\A u \in Users : Running(u) /\ Running(u)' => cursor'[u] >= cursor[u]]_vars

\* Live events are never handed over twice: being online implies that all that
\* earlier, even failed, catch-ups handed over lies at or below the cursor.
LiveEventsAreFresh ==
    [][\A u \in Users : state[u] = "Online" => redelivered'[u] \subseteq redelivered[u]]_vars

\* Nobody is going to broadcast n: its request was dropped, or the server died.
Unsent(n) ==
    /\ \A i \in 1..Len(channel) : channel[i] # n
    /\ \A t \in Tasks : \A i \in 1..Len(publishing[t]) : publishing[t][i] # n

\* The open connection of u will not bring an unsent n: it is online, or its
\* welcome frame was written before n.
Withheld(u, n) ==
    /\ Unsent(n)
    /\ n > cursor[u]
    /\ session[u] = "Serving"
    /\ \/ state[u] = "Online"
       \/ state[u] = "Connecting" /\ Head(socket[u]).cursor < n

Settled(u, n) ==
    \/ n \in delivered[u] \/ n <= start[u] \/ state[u] = "Stranded"
    \/ Overtaken(n) \/ n \in lagged[u]

\* Every event reaches every recipient whose client could sign in when it was
\* started, or is lost to one of the three causes SkippedOnlyIf names.  An event
\* whose request was dropped may wait for the next connection, not longer.
EventuallySettled ==
    \A u \in Users : \A n \in 1..MaxEvents :
        (n \in EventsFor(u) /\ ~Withheld(u, n)) ~> (n \in EventsFor(u) /\ Settled(u, n))

\* What docs/adr/0002 promises: nothing below the confirmed cursor is missing.
AtLeastOnce == \A u \in Users : Running(u) => Missing(u) = {}

\* What docs/ACCEPTANCE_CRITERIA.md promises of live events and sync pages: the
\* interface gets each event once.
AppliedOnce == \A u \in Users : redelivered[u] = {}

--------------------------------------------------------------------------------
\* What EventFeed promises, and what stands for its variables here.
FeedUp ==
    [u \in Users |-> state[u] \in {"Connecting", "Syncing", "Online", "Offline"}]

FeedHeld == [u \in Users |-> {n \in EventsFor(u) : Withheld(u, n)}]

Feed == INSTANCE EventFeed WITH
            log <- events, sent <- channel, up <- FeedUp, start <- start,
            confirmed <- cursor, received <- delivered, behind <- lagged,
            held <- FeedHeld
================================================================================
