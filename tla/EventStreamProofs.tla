--------------------------- MODULE EventStreamProofs ---------------------------
(***************************************************************************)
(* Proofs about EventStream, for every set of users and handlers and every *)
(* channel capacity, page size and bound.                                  *)
(***************************************************************************)
EXTENDS EventStream, SequenceTheorems, TLAPS

--------------------------------------------------------------------------------
(***************************************************************************)
(* The inductive invariant                                                 *)
(***************************************************************************)

\* Why event n needs no further delivery to u.
Accounted(u, n) ==
    \/ u \notin events[n]
    \/ n <= start[u]
    \/ n \in delivered[u]
    \/ n \in lagged[u]
    \/ Overtaken(n)

InSocket(u, n) ==
    \E a \in 1..Len(socket[u]) :
        socket[u][a].kind = "Event" /\ socket[u][a].cursor = n

\* Every position in use is a position of the log.
InLog ==
    /\ \A t \in Tasks : \A i \in 1..Len(publishing[t]) :
         publishing[t][i] \in 1..Len(events)
    /\ \A i \in 1..Len(channel) : channel[i] \in 1..Len(events)

\* A cursor is broadcast once: it is in one handler's list or in the channel.
BroadcastOnce ==
    /\ \A i, j \in 1..Len(channel) : channel[i] = channel[j] => i = j
    /\ \A t \in Tasks : \A i \in 1..Len(publishing[t]) :
         /\ \A j \in 1..Len(channel) : channel[j] # publishing[t][i]
         /\ \A s \in Tasks : \A j \in 1..Len(publishing[s]) :
              publishing[s][j] = publishing[t][i] => s = t /\ i = j

\* The positions a client and its session hold lie within log and channel.
WithinLog(u) ==
    /\ next[u] <= Len(channel)
    /\ start[u] <= Len(events)
    /\ cursor[u] <= Len(events)
    /\ catching[u] <= Len(events)
    /\ cached[u].cursor <= Len(events)
    /\ \A n \in delivered[u] : n \in 1..Len(events) /\ u \in events[n]

\* How the two ends of a connection go together.
Connected(u) ==
    /\ session[u] = "Subscribed" => state[u] = "Connecting" /\ socket[u] = <<>>
    /\ session[u] = "Serving" => state[u] \in {"Connecting", "Syncing", "Online"}
    /\ session[u] = "Serving" /\ state[u] = "Connecting" => socket[u] # <<>>
    /\ state[u] \in {"Starting", "Bootstrapping", "Stranded", "Offline"} =>
         session[u] = "Closed" /\ socket[u] = <<>>
    /\ \A a \in 1..Len(socket[u]) :
         socket[u][a].kind = "Welcome" <=> state[u] = "Connecting" /\ a = 1

\* Event frames are events of the channel the receiver has passed, addressed
\* to u and in channel order; a welcome frame shows a cursor of the log.
Framed(u) ==
    /\ \A a \in 1..Len(socket[u]) :
         IF socket[u][a].kind = "Welcome"
         THEN socket[u][a].cursor <= Len(events)
         ELSE /\ \E i \in 1..next[u] : channel[i] = socket[u][a].cursor
              /\ u \in events[socket[u][a].cursor]
    /\ \A a, b \in 1..Len(socket[u]) :
         a < b /\ socket[u][a].kind = "Event" =>
           \A i, j \in 1..next[u] :
             channel[i] = socket[u][a].cursor /\ channel[j] = socket[u][b].cursor => i < j

\* All below the cursor, and below the cursor of a running catch-up.
BelowCursor(u) ==
    /\ Running(u) => \A n \in 1..cursor[u] : Accounted(u, n)
    /\ state[u] = "Syncing" => \A n \in 1..catching[u] : Accounted(u, n)

\* All the receiver has passed: it is still in the socket, or, before the
\* welcome frame is read, the catch-up the frame leads to will get it.
PassedByReceiver(u) ==
    \A i \in 1..next[u] :
        /\ state[u] = "Online" => Accounted(u, channel[i]) \/ InSocket(u, channel[i])
        /\ state[u] = "Connecting" /\ socket[u] # <<>> =>
             \/ Accounted(u, channel[i])
             \/ InSocket(u, channel[i])
             \/ channel[i] <= socket[u][1].cursor

ServerInv == InLog /\ BroadcastOnce

UserInv(u) ==
    WithinLog(u) /\ Connected(u) /\ Framed(u) /\ BelowCursor(u) /\ PassedByReceiver(u)

IInv == TypeOK /\ ServerInv /\ \A u \in Users : UserInv(u)

--------------------------------------------------------------------------------
(***************************************************************************)
(* Type correctness                                                        *)
(***************************************************************************)

\* What an operation does to the log, and a mutate to its handler's list.
LEMMA AppendLog ==
    ASSUME TypeOK, NEW k \in Bursts, AppendEvents(k)
    PROVE  /\ k \in Nat \ {0}
           /\ events' \in Seq(SUBSET Users)
           /\ Len(events') = Len(events) + k
           /\ \A n \in 1..Len(events) : events'[n] = events[n]
<1>1. PICK batch \in [1..k -> SUBSET Users] : events' = events \o batch
  BY DEF AppendEvents
<1>2. k \in Nat \ {0}
  BY BurstsAssumption
<1>3. batch \in Seq(SUBSET Users) /\ Len(batch) = k
  BY <1>1, <1>2
<1>4. events \in Seq(SUBSET Users)
  BY DEF TypeOK
<1>5. events' \in Seq(SUBSET Users)
  BY <1>1, <1>3, <1>4
<1>6. Len(events \o batch) = Len(events) + Len(batch)
  BY <1>3, <1>4, ConcatProperties
<1>7. \A n \in 1..Len(events) : events'[n] = events[n]
  BY <1>1, <1>3, <1>4, ConcatProperties
<1> QED
  BY <1>1, <1>2, <1>3, <1>5, <1>6, <1>7

LEMMA MutateLog ==
    ASSUME TypeOK, NEW t \in Tasks, Mutate(t)
    PROVE  \E k \in Nat :
             /\ events' \in Seq(SUBSET Users)
             /\ Len(events') = Len(events) + k
             /\ \A n \in 1..Len(events) : events'[n] = events[n]
             /\ publishing' =
                  [publishing EXCEPT ![t] = [i \in 1..k |-> Len(events) + i]]
<1>1. PICK k \in Bursts :
          /\ AppendEvents(k)
          /\ publishing' = [publishing EXCEPT ![t] = [i \in 1..k |-> Len(events) + i]]
  BY DEF Mutate
<1> QED
  BY <1>1, AppendLog

\* The client's own greatest position is the server's next_cursor.
LEMMA SyncPageParts ==
    ASSUME TypeOK, NEW u \in Users, SyncPage(u)
    PROVE  \E page \in SUBSET EventsFor(u), after \in 0..Len(events) :
             /\ IsPage(u, catching[u], page)
             /\ IsNextCursor(page, catching[u], after)
             /\ HandOver(u, page)
             /\ catching' = [catching EXCEPT ![u] = after]
             /\ IF HasMore(u, catching[u], page)
                THEN UNCHANGED <<cursor, state>>
                ELSE /\ cursor' = [cursor EXCEPT ![u] = after]
                     /\ state' = [state EXCEPT ![u] = "Online"]
<1>1. PICK page \in SUBSET EventsFor(u), after, reached \in 0..Len(events) :
        /\ IsPage(u, catching[u], page)
        /\ IsNextCursor(page, catching[u], after)
        /\ IsGreatest(reached, page \cup {catching[u], after})
        /\ HandOver(u, page)
        /\ catching' = [catching EXCEPT ![u] = reached]
        /\ IF HasMore(u, catching[u], page)
           THEN UNCHANGED <<cursor, state>>
           ELSE /\ cursor' = [cursor EXCEPT ![u] = reached]
                /\ state' = [state EXCEPT ![u] = "Online"]
  BY DEF SyncPage
<1>2. catching[u] \in Nat /\ after \in Nat /\ reached \in Nat /\ page \subseteq Nat
  BY DEF TypeOK, EventsFor
<1>3. \A n \in page : n > catching[u]
  BY <1>1 DEF IsPage
<1>4. \A n \in page \cup {catching[u], after} : n <= after
  BY <1>1, <1>2, <1>3 DEF IsNextCursor
<1>5. reached <= after /\ after <= reached
  BY <1>1, <1>4 DEF IsGreatest
<1>6. reached = after
  BY <1>2, <1>5
<1> QED
  BY <1>1, <1>6

LEMMA HandOverType ==
    ASSUME TypeOK, NEW u \in Users, NEW ns \in SUBSET Nat, HandOver(u, ns)
    PROVE  /\ delivered' \in [Users -> SUBSET Nat]
           /\ redelivered' \in [Users -> SUBSET Nat]
  BY DEF HandOver, TypeOK

LEMMA MutateType ==
    ASSUME TypeOK, NEW t \in Tasks, Mutate(t)
    PROVE  TypeOK'
<1>1. PICK k \in Nat :
          /\ events' \in Seq(SUBSET Users)
          /\ publishing' = [publishing EXCEPT ![t] = [i \in 1..k |-> Len(events) + i]]
  BY MutateLog
<1>2. [i \in 1..k |-> Len(events) + i] \in Seq(Nat)
  BY DEF TypeOK
<1>3. publishing' \in [Tasks -> Seq(Nat)]
  BY <1>1, <1>2 DEF TypeOK
<1> QED
  BY <1>1, <1>3 DEF TypeOK, Mutate, sessionVars, clientVars, bootVars

LEMMA DroppedType ==
    ASSUME TypeOK, MutateDropped
    PROVE  TypeOK'
<1>1. PICK k \in Bursts : AppendEvents(k)
  BY DEF MutateDropped
<1>2. events' \in Seq(SUBSET Users)
  BY <1>1, AppendLog
<1> QED
  BY <1>2 DEF TypeOK, MutateDropped, Fault, sessionVars, clientVars, bootVars

LEMMA SessionType ==
    ASSUME TypeOK, NEW u \in Users, Session(u)
    PROVE  TypeOK'
<1> USE DEF TypeOK, serverVars, clientVars, bootVars, Frame
<1>1. CASE Subscribe(u)
  BY <1>1 DEF Subscribe
<1>2. CASE SendWelcome(u)
  BY <1>2, SMTT(30) DEF SendWelcome
<1>3. CASE Forward(u)
  <2> DEFINE n == channel[next[u] + 1]
             frame == [kind |-> "Event", cursor |-> n]
  <2>1. n \in Nat
    BY <1>3, SMTT(30) DEF Forward
  <2>2. frame \in Frame /\ Append(socket[u], frame) \in Seq(Frame)
    BY <2>1
  <2>3. socket' \in [Users -> Seq(Frame)]
    BY <1>3, <2>2 DEF Forward
  <2>4. next' \in [Users -> Nat]
    BY <1>3, SMTT(30) DEF Forward
  <2>5. UNCHANGED <<serverVars, session, lagged, clientVars, bootVars, faults, restarts>>
    BY <1>3 DEF Forward
  <2> HIDE DEF n, frame
  <2> QED
    BY <2>3, <2>4, <2>5
<1>4. CASE Lag(u)
  <2> DEFINE oldest == Len(channel) - Capacity
  <2>1. oldest \in Nat /\ oldest <= Len(channel) /\ next[u] \in Nat
    BY <1>4, CapacityAssumption DEF Lag, Lagging
  <2>2. {channel[i] : i \in next[u] + 1 .. oldest} \in SUBSET Nat
    BY <2>1, SMTT(30)
  <2> QED
    BY <1>4, <2>1, <2>2 DEF Lag
<1> QED
  BY <1>1, <1>2, <1>3, <1>4 DEF Session

LEMMA RealtimeType ==
    ASSUME TypeOK, NEW u \in Users, Realtime(u)
    PROVE  TypeOK'
<1> USE DEF TypeOK, serverVars, sessionVars, bootVars, ClientState
<1>1. CASE ReceiveWelcome(u)
  <2>1. Tail(socket[u]) \in Seq(Frame)
    BY <1>1 DEF ReceiveWelcome
  <2>2. socket' \in [Users -> Seq(Frame)]
    BY <1>1, <2>1 DEF ReceiveWelcome
  <2>3. \/ state' = [state EXCEPT ![u] = "Syncing"]
        \/ state' = [state EXCEPT ![u] = "Online"]
    BY <1>1 DEF ReceiveWelcome
  <2>4. state' \in [Users -> ClientState]
    BY <2>3
  <2>5. \/ catching' = [catching EXCEPT ![u] = cursor[u]]
        \/ catching' = catching
    BY <1>1 DEF ReceiveWelcome
  <2>6. catching' \in [Users -> Nat]
    BY <2>5, SMTT(30)
  <2>7. UNCHANGED <<serverVars, session, next, lagged, cursor, delivered, redelivered,
                    bootVars, faults, restarts>>
    BY <1>1 DEF ReceiveWelcome
  <2> QED
    BY <2>2, <2>4, <2>6, <2>7
<1>2. CASE ReceiveEvent(u)
  <2>1. Tail(socket[u]) \in Seq(Frame)
    BY <1>2 DEF ReceiveEvent
  <2>2. Head(socket[u]) \in Frame
    BY <1>2 DEF ReceiveEvent
  <2>3. Head(socket[u]).cursor \in Nat
    BY <2>2 DEF Frame
  <2>4. /\ delivered' \in [Users -> SUBSET Nat]
        /\ redelivered' \in [Users -> SUBSET Nat]
        /\ cursor' \in [Users -> Nat]
    <3>1. CASE Head(socket[u]).cursor > cursor[u]
      <4>1. HandOver(u, {Head(socket[u]).cursor})
        BY <1>2, <3>1 DEF ReceiveEvent
      <4>2. cursor' = [cursor EXCEPT ![u] = Head(socket[u]).cursor]
        BY <1>2, <3>1 DEF ReceiveEvent
      <4> QED
        BY <4>1, <4>2, <2>3, HandOverType
    <3>2. CASE ~(Head(socket[u]).cursor > cursor[u])
      BY <1>2, <3>2 DEF ReceiveEvent
    <3> QED
      BY <3>1, <3>2
  <2>5. socket' \in [Users -> Seq(Frame)]
    BY <1>2, <2>1 DEF ReceiveEvent
  <2>6. UNCHANGED <<serverVars, session, next, lagged, state, catching, bootVars,
                    faults, restarts>>
    BY <1>2 DEF ReceiveEvent
  <2> QED
    BY <2>4, <2>5, <2>6
<1>3. CASE SyncPage(u)
  <2>1. PICK page \in SUBSET EventsFor(u), after \in 0..Len(events) :
          /\ HandOver(u, page)
          /\ catching' = [catching EXCEPT ![u] = after]
          /\ \/ UNCHANGED <<cursor, state>>
             \/ /\ cursor' = [cursor EXCEPT ![u] = after]
                /\ state' = [state EXCEPT ![u] = "Online"]
    BY <1>3, SyncPageParts
  <2>2. page \in SUBSET Nat /\ after \in Nat
    BY DEF EventsFor
  <2>3. /\ delivered' \in [Users -> SUBSET Nat]
        /\ redelivered' \in [Users -> SUBSET Nat]
    BY <2>1, <2>2, HandOverType
  <2>4. UNCHANGED <<serverVars, sessionVars, bootVars, faults, restarts>>
    BY <1>3 DEF SyncPage
  <2>5. catching' \in [Users -> Nat]
    BY <2>1, <2>2
  <2>6. cursor' \in [Users -> Nat]
    BY <2>1, <2>2
  <2>7. state' \in [Users -> ClientState]
    BY <2>1
  <2> QED
    BY <2>3, <2>4, <2>5, <2>6, <2>7
<1>4. CASE Disconnected(u)
  BY <1>4 DEF Disconnected
<1>5. CASE Reconnect(u)
  BY <1>5 DEF Reconnect
<1> QED
  BY <1>1, <1>2, <1>3, <1>4, <1>5 DEF Realtime

LEMMA BootType ==
    ASSUME TypeOK, NEW u \in Users, Boot(u)
    PROVE  TypeOK'
<1> USE DEF TypeOK, serverVars, sessionVars, ClientState
<1>1. CASE BootstrapRead(u)
  <2>1. base' \in [Users -> Nat] /\ state' \in [Users -> ClientState]
    BY <1>1 DEF BootstrapRead
  <2> QED
    BY <1>1, <2>1 DEF BootstrapRead
<1>2. CASE BootstrapCursor(u)
  <2>1. cached' \in [Users -> [base : Nat, cursor : Nat]]
    <3>1. [base |-> base[u], cursor |-> Len(events)] \in [base : Nat, cursor : Nat]
      OBVIOUS
    <3> QED
      BY <1>2, <3>1 DEF BootstrapCursor
  <2>2. start' \in [Users -> Nat] /\ cursor' \in [Users -> Nat]
    BY <1>2 DEF BootstrapCursor
  <2>3. state' \in [Users -> ClientState]
    BY <1>2 DEF BootstrapCursor
  <2>4. UNCHANGED <<serverVars, sessionVars, catching, delivered, redelivered, base,
                    faults, restarts>>
    BY <1>2 DEF BootstrapCursor
  <2> QED
    BY <2>1, <2>2, <2>3, <2>4
<1>3. CASE RestoreCached(u)
  BY <1>3 DEF RestoreCached
<1> QED
  BY <1>1, <1>2, <1>3 DEF Boot

LEMMA FaultType ==
    ASSUME TypeOK,
           \/ ServerCrash
           \/ \E u \in Users : SyncFails(u) \/ SessionEnds(u) \/ Restart(u) \/ RefreshStored(u)
    PROVE  TypeOK'
<1> USE DEF TypeOK, serverVars, sessionVars, clientVars, bootVars, Fault, ClientState
<1>1. CASE ServerCrash
  BY <1>1 DEF ServerCrash
<1>2. ASSUME NEW u \in Users, SyncFails(u)
      PROVE  TypeOK'
  <2>1. state' \in [Users -> ClientState]
    BY <1>2 DEF SyncFails
  <2>2. socket' \in [Users -> Seq(Frame)]
    BY <1>2 DEF SyncFails
  <2> QED
    BY <1>2, <2>1, <2>2, SMTT(30) DEF SyncFails
<1>3. ASSUME NEW u \in Users, SessionEnds(u)
      PROVE  TypeOK'
  BY <1>3, SMTT(30) DEF SessionEnds
<1>4. ASSUME NEW u \in Users, Restart(u)
      PROVE  TypeOK'
  BY <1>4, SMTT(30) DEF Restart
<1>5. ASSUME NEW u \in Users, RefreshStored(u)
      PROVE  TypeOK'
  <2>1. PICK b \in start[u]..Len(events) : \E c \in b..Len(events) :
          cached' = [cached EXCEPT ![u] = [base |-> b, cursor |-> c]]
    BY <1>5 DEF RefreshStored
  <2>2. PICK c \in b..Len(events) : cached' = [cached EXCEPT ![u] = [base |-> b, cursor |-> c]]
    BY <2>1
  <2>3. [base |-> b, cursor |-> c] \in [base : Nat, cursor : Nat]
    OBVIOUS
  <2>4. cached' \in [Users -> [base : Nat, cursor : Nat]]
    BY <2>2, <2>3
  <2> QED
    BY <1>5, <2>4 DEF RefreshStored
<1> QED
  BY <1>1, <1>2, <1>3, <1>4, <1>5

LEMMA TypeStep ==
    ASSUME TypeOK, [Next]_vars
    PROVE  TypeOK'
<1>1. ASSUME NEW t \in Tasks, Publish(t)
      PROVE  TypeOK'
  <2>1. Head(publishing[t]) \in Nat /\ Tail(publishing[t]) \in Seq(Nat)
    BY <1>1 DEF TypeOK, Publish
  <2> QED
    BY <1>1, <2>1 DEF TypeOK, Publish, sessionVars, clientVars, bootVars
<1>2. CASE UNCHANGED vars
  BY <1>2 DEF TypeOK, vars, serverVars, sessionVars, clientVars, bootVars
<1> QED
  BY <1>1, <1>2, MutateType, DroppedType, SessionType, RealtimeType, BootType, FaultType DEF Next

\* Every variable keeps its type.
THEOREM TypeCorrect == Spec => []TypeOK
<1>1. Init => TypeOK
  BY DEF Init, TypeOK, ClientState
<1> QED
  BY <1>1, TypeStep, PTL DEF Spec

--------------------------------------------------------------------------------
(***************************************************************************)
(* What steps leave alone                                                  *)
(***************************************************************************)

\* The log and the channel only grow.
Grows ==
    /\ Len(events) <= Len(events')
    /\ \A n \in 1..Len(events) : events'[n] = events[n]
    /\ Len(channel) <= Len(channel')
    /\ \A i \in 1..Len(channel) : channel'[i] = channel[i]

\* A step that is not u's.
Untouched(u) ==
    /\ session'[u] = session[u] /\ next'[u] = next[u]
    /\ lagged'[u] = lagged[u] /\ socket'[u] = socket[u]
    /\ state'[u] = state[u] /\ cursor'[u] = cursor[u] /\ catching'[u] = catching[u]
    /\ start'[u] = start[u] /\ cached'[u] = cached[u] /\ delivered'[u] = delivered[u]

LEMMA Lengths ==
    ASSUME TypeOK
    PROVE  /\ Len(events) \in Nat /\ Len(channel) \in Nat
           /\ \A u \in Users :
                /\ next[u] \in Nat /\ cursor[u] \in Nat /\ catching[u] \in Nat
                /\ start[u] \in Nat /\ cached[u].cursor \in Nat
                /\ Len(socket[u]) \in Nat
  BY DEF TypeOK

LEMMA LengthsNext ==
    ASSUME TypeOK'
    PROVE  /\ Len(events') \in Nat /\ Len(channel') \in Nat
           /\ \A u \in Users :
                /\ next'[u] \in Nat /\ cursor'[u] \in Nat /\ catching'[u] \in Nat
                /\ start'[u] \in Nat /\ cached'[u].cursor \in Nat
                /\ Len(socket'[u]) \in Nat
  BY DEF TypeOK

\* A socket without frames, and one whose first frame was read.
LEMMA FramedEmpty ==
    ASSUME NEW u \in Users, socket'[u] = <<>>
    PROVE  Framed(u)'
BY DEF Framed

LEMMA FramedTail ==
    ASSUME NEW u \in Users, socket[u] \in Seq(Frame), socket[u] # <<>>, Framed(u),
           socket'[u] = Tail(socket[u]), UNCHANGED <<events, channel, next>>
    PROVE  Framed(u)'
<1>1. /\ Len(socket[u]) \in Nat /\ Len(socket'[u]) = Len(socket[u]) - 1
      /\ \A a \in 1..Len(socket'[u]) :
           a + 1 \in 1..Len(socket[u]) /\ socket'[u][a] = socket[u][a + 1]
  OBVIOUS
<1>2. ASSUME NEW a \in 1..Len(socket'[u])
      PROVE  IF socket'[u][a].kind = "Welcome"
             THEN socket'[u][a].cursor <= Len(events)
             ELSE /\ \E i \in 1..next[u] : channel[i] = socket'[u][a].cursor
                  /\ u \in events[socket'[u][a].cursor]
  BY <1>1 DEF Framed
<1>3. ASSUME NEW a \in 1..Len(socket'[u]), NEW b \in 1..Len(socket'[u]),
             a < b, socket'[u][a].kind = "Event",
             NEW i \in 1..next[u], NEW j \in 1..next[u],
             channel[i] = socket'[u][a].cursor, channel[j] = socket'[u][b].cursor
      PROVE  i < j
  <2>1. PICK d \in 1..Len(socket[u]) : d = a + 1 /\ socket[u][d] = socket'[u][a]
    BY <1>1
  <2>2. PICK e \in 1..Len(socket[u]) : e = b + 1 /\ socket[u][e] = socket'[u][b]
    BY <1>1
  <2>3. d < e
    BY <1>3, <2>1, <2>2
  <2> QED
    BY <1>3, <2>1, <2>2, <2>3 DEF Framed
<1> QED
  BY <1>2, <1>3 DEF Framed

LEMMA OvertakenStays ==
    ASSUME TypeOK, TypeOK', Grows, NEW n, Overtaken(n)
    PROVE  Overtaken(n)'
<1>1. PICK i \in 1..Len(channel) : channel[i] > n /\ \A j \in 1..i : channel[j] # n
  BY DEF Overtaken
<1>2. i \in 1..Len(channel') /\ channel'[i] > n
  BY <1>1 DEF Grows, TypeOK
<1>3. \A j \in 1..i : j \in 1..Len(channel)
  BY Lengths
<1>4. \A j \in 1..i : channel'[j] # n
  BY <1>1, <1>3 DEF Grows
<1> QED
  BY <1>2, <1>4 DEF Overtaken

LEMMA AccountedStays ==
    ASSUME TypeOK, TypeOK', Grows, NEW u \in Users, NEW n \in 1..Len(events),
           start'[u] = start[u],
           delivered[u] \subseteq delivered'[u], lagged[u] \subseteq lagged'[u],
           Accounted(u, n)
    PROVE  Accounted(u, n)'
<1>1. events'[n] = events[n]
  BY DEF Grows
<1>2. CASE Overtaken(n)
  BY <1>2, OvertakenStays DEF Accounted
<1>3. CASE ~Overtaken(n)
  BY <1>1, <1>3 DEF Accounted
<1> QED
  BY <1>2, <1>3

LEMMA UntouchedKeeps ==
    ASSUME TypeOK, TypeOK', Grows, InLog, NEW u \in Users, Untouched(u), UserInv(u)
    PROVE  UserInv(u)'
<1> USE DEF UserInv, Untouched
<1>0. /\ \A i \in 1..next[u] : i \in 1..Len(channel) /\ channel'[i] = channel[i]
      /\ \A i \in 1..next[u] : channel[i] \in 1..Len(events)
  BY Lengths DEF Grows, WithinLog, InLog
<1>1. \A n \in 1..Len(events) : Accounted(u, n) => Accounted(u, n)'
  BY AccountedStays
<1>2. WithinLog(u)'
  <2>1. /\ next[u] <= Len(channel') /\ start[u] <= Len(events')
        /\ cursor[u] <= Len(events') /\ catching[u] <= Len(events')
        /\ cached[u].cursor <= Len(events')
    BY Lengths, LengthsNext DEF WithinLog, Grows
  <2>2. \A n \in delivered[u] : n \in 1..Len(events') /\ u \in events'[n]
    BY Lengths, LengthsNext DEF WithinLog, Grows
  <2> QED
    BY <2>1, <2>2 DEF WithinLog
<1>3. Connected(u)'
  BY DEF Connected
<1>4. Framed(u)'
  <2>1. \A i \in 1..next[u] : events'[channel[i]] = events[channel[i]]
    BY <1>0 DEF Grows
  <2>2. ASSUME NEW a \in 1..Len(socket[u]), socket[u][a].kind = "Welcome"
        PROVE  socket[u][a].cursor <= Len(events')
    <3>1. socket[u][a] \in Frame
      BY DEF TypeOK
    <3>2. socket[u][a].cursor \in Nat /\ socket[u][a].cursor <= Len(events)
      BY <2>2, <3>1 DEF Framed, Frame
    <3> QED
      BY <3>2, Lengths, LengthsNext DEF Grows
  <2>3. ASSUME NEW a \in 1..Len(socket[u]), socket[u][a].kind # "Welcome"
        PROVE  /\ \E i \in 1..next[u] : channel'[i] = socket[u][a].cursor
               /\ u \in events'[socket[u][a].cursor]
    BY <1>0, <2>1, <2>3 DEF Framed
  <2>4. ASSUME NEW a \in 1..Len(socket[u]), NEW b \in 1..Len(socket[u]),
               a < b, socket[u][a].kind = "Event",
               NEW i \in 1..next[u], NEW j \in 1..next[u],
               channel'[i] = socket[u][a].cursor, channel'[j] = socket[u][b].cursor
        PROVE  i < j
    BY <1>0, <2>4 DEF Framed
  <2>5. socket'[u] = socket[u] /\ next'[u] = next[u]
    OBVIOUS
  <2> HIDE DEF UserInv, Untouched
  <2> QED
    BY <2>2, <2>3, <2>4, <2>5 DEF Framed
<1>5. BelowCursor(u)'
  BY <1>1, SMTT(30) DEF BelowCursor, Running, WithinLog, TypeOK
<1>6. PassedByReceiver(u)'
  <2>1. ASSUME NEW i \in 1..next[u]
        PROVE  /\ channel'[i] = channel[i]
               /\ Accounted(u, channel[i]) => Accounted(u, channel[i])'
    BY <1>0, <1>1
  <2>2. \A n : InSocket(u, n)' = InSocket(u, n)
    BY DEF InSocket
  <2> QED
    BY <2>1, <2>2 DEF PassedByReceiver
<1> QED
  BY <1>2, <1>3, <1>4, <1>5, <1>6

LEMMA SameLogGrows ==
    ASSUME TypeOK, UNCHANGED <<events, channel>>
    PROVE  Grows
  BY Lengths DEF Grows

\* A step of one client or its session has to be checked for that client only.
LEMMA OneUserStep ==
    ASSUME IInv, TypeOK', UNCHANGED serverVars, NEW u \in Users,
           \A v \in Users \ {u} : Untouched(v),
           UserInv(u)'
    PROVE  IInv'
<1>1. Grows
  BY SameLogGrows DEF IInv, serverVars
<1>2. \A v \in Users \ {u} : UserInv(v)'
  BY <1>1, UntouchedKeeps DEF IInv, ServerInv
<1>3. ServerInv'
  BY DEF IInv, ServerInv, InLog, BroadcastOnce, serverVars
<1> QED
  BY <1>2, <1>3 DEF IInv

LEMMA PassedStays ==
    ASSUME TypeOK, TypeOK', Grows, InLog, NEW u \in Users, WithinLog(u),
           PassedByReceiver(u), next'[u] = next[u], state'[u] = state[u],
           socket'[u] = socket[u], start'[u] = start[u],
           delivered[u] \subseteq delivered'[u], lagged[u] \subseteq lagged'[u]
    PROVE  PassedByReceiver(u)'
<1>1. ASSUME NEW i \in 1..next[u]
      PROVE  /\ channel'[i] = channel[i]
             /\ Accounted(u, channel[i]) => Accounted(u, channel[i])'
  <2>1. i \in 1..Len(channel)
    BY Lengths DEF WithinLog
  <2> QED
    BY <2>1, AccountedStays DEF Grows, InLog
<1>2. \A n : InSocket(u, n)' = InSocket(u, n)
  BY DEF InSocket
<1> QED
  BY <1>1, <1>2 DEF PassedByReceiver

\* The frame of an event lies behind the receiver's position in the channel.
LEMMA FrameIndex ==
    ASSUME TypeOK, BroadcastOnce, NEW u \in Users, WithinLog(u), Framed(u),
           NEW a \in 1..Len(socket[u]), socket[u][a].kind # "Welcome",
           NEW i \in 1..Len(channel), channel[i] = socket[u][a].cursor
    PROVE  i <= next[u]
<1>1. PICK k \in 1..next[u] : channel[k] = socket[u][a].cursor
  BY DEF Framed
<1>2. k \in 1..Len(channel)
  BY Lengths DEF WithinLog
<1>3. i = k
  BY <1>1, <1>2 DEF BroadcastOnce
<1> QED
  BY <1>3

--------------------------------------------------------------------------------
(***************************************************************************)
(* Every step preserves the inductive invariant                            *)
(***************************************************************************)

LEMMA SubscribeStep ==
    ASSUME IInv, NEW u \in Users, Subscribe(u)
    PROVE  IInv'
<1> USE DEF Subscribe, serverVars, sessionVars, clientVars, bootVars
<1>1. TypeOK /\ TypeOK' /\ UserInv(u)
  BY TypeStep DEF IInv, Next, Session, Realtime, Boot
<1>2. \A v \in Users \ {u} : Untouched(v)
  BY <1>1 DEF Untouched, TypeOK
<1>3. WithinLog(u)'
  BY <1>1, Lengths DEF TypeOK, UserInv, WithinLog
<1>4. Connected(u)'
  BY <1>1, Lengths DEF TypeOK, UserInv, Connected, ClientState
<1>5. Framed(u)'
  BY <1>1, Lengths DEF TypeOK, UserInv, Framed
<1>6. BelowCursor(u)'
  BY <1>1, Lengths DEF TypeOK, UserInv, BelowCursor, Running, Accounted, Overtaken
<1>7. PassedByReceiver(u)'
  BY <1>1, Lengths DEF TypeOK, UserInv, PassedByReceiver, Accounted, Overtaken, InSocket
<1> QED
  BY <1>1, <1>2, <1>3, <1>4, <1>5, <1>6, <1>7, OneUserStep DEF UserInv

LEMMA SendWelcomeStep ==
    ASSUME IInv, NEW u \in Users, SendWelcome(u)
    PROVE  IInv'
<1> USE DEF SendWelcome, serverVars, sessionVars, clientVars, bootVars
<1>1. TypeOK /\ TypeOK' /\ UserInv(u)
  BY TypeStep DEF IInv, Next, Session, Realtime, Boot
<1>2. \A v \in Users \ {u} : Untouched(v)
  BY <1>1 DEF Untouched, TypeOK
<1>3. WithinLog(u)'
  BY <1>1, Lengths DEF TypeOK, UserInv, WithinLog
<1>4. Connected(u)'
  BY <1>1, Lengths DEF TypeOK, UserInv, Connected, ClientState
<1>5. Framed(u)'
  <2>1. socket'[u] = <<[kind |-> "Welcome", cursor |-> Len(events)]>>
    BY <1>1 DEF TypeOK
  <2>2. Len(socket'[u]) = 1 /\ socket'[u][1] = [kind |-> "Welcome", cursor |-> Len(events)]
    BY <2>1
  <2> QED
    BY <2>2 DEF Framed
<1>6. BelowCursor(u)'
  BY <1>1, Lengths DEF TypeOK, UserInv, BelowCursor, Running, Accounted, Overtaken
<1>7. PassedByReceiver(u)'
  <2>1. socket'[u] = <<[kind |-> "Welcome", cursor |-> Len(events)]>>
    BY <1>1 DEF TypeOK
  <2>2. socket'[u][1].cursor = Len(events)
    BY <2>1
  <2>3. state'[u] = "Connecting"
    BY <1>1 DEF UserInv, Connected
  <2>4. \A i \in 1..next[u] : channel[i] <= Len(events)
    BY <1>1, Lengths DEF UserInv, WithinLog, IInv, ServerInv, InLog
  <2> QED
    BY <2>2, <2>3, <2>4 DEF PassedByReceiver
<1> QED
  BY <1>1, <1>2, <1>3, <1>4, <1>5, <1>6, <1>7, OneUserStep DEF UserInv

LEMMA LagStep ==
    ASSUME IInv, NEW u \in Users, Lag(u)
    PROVE  IInv'
<1> USE DEF Lag, serverVars, sessionVars, clientVars, bootVars
<1>1. TypeOK /\ TypeOK' /\ UserInv(u)
  BY TypeStep DEF IInv, Next, Session, Realtime, Boot
<1>2. \A v \in Users \ {u} : Untouched(v)
  BY <1>1 DEF Untouched, TypeOK
<1>3. WithinLog(u)'
  <2>1. next'[u] = Len(channel) - Capacity
    BY <1>1 DEF TypeOK
  <2> QED
    BY <1>1, <2>1, CapacityAssumption, Lengths DEF UserInv, WithinLog
<1>4. Connected(u)'
  BY <1>1, Lengths DEF TypeOK, UserInv, Connected, ClientState
<1>5. Framed(u)'
  <2>1. next'[u] \in next[u]..Len(channel)
    BY <1>1, CapacityAssumption, Lengths, SMTT(30) DEF TypeOK, Lagging
  <2>2. ASSUME NEW a \in 1..Len(socket[u]), socket[u][a].kind # "Welcome",
               NEW i \in 1..next'[u], channel[i] = socket[u][a].cursor
        PROVE  i \in 1..next[u]
    BY <1>1, <2>1, <2>2, FrameIndex, Lengths DEF IInv, ServerInv, UserInv
  <2>3. \A a, b \in 1..Len(socket[u]) :
          a < b /\ socket[u][a].kind = "Event" => socket[u][b].kind # "Welcome"
    BY <1>1, Lengths DEF UserInv, Connected
  <2>4. 1..next[u] \subseteq 1..next'[u]
    BY <2>1, <1>1, Lengths
  <2> QED
    BY <1>1, <2>2, <2>3, <2>4 DEF UserInv, Framed
<1>6. BelowCursor(u)'
  BY <1>1, Lengths DEF TypeOK, UserInv, BelowCursor, Running, Accounted, Overtaken
<1>7. PassedByReceiver(u)'
  <2> DEFINE oldest == Len(channel) - Capacity
  <2>1. next'[u] = oldest /\ oldest \in next[u]..Len(channel)
    BY <1>1, CapacityAssumption, Lengths, SMTT(30) DEF TypeOK, Lagging
  <2>2. lagged'[u] = lagged[u] \cup {channel[i] : i \in next[u] + 1 .. oldest}
    BY <1>1 DEF TypeOK
  <2> HIDE DEF oldest
  <2>3. Grows
    BY <1>1, SameLogGrows
  <2>4. ASSUME NEW i \in 1..next[u]
        PROVE  Accounted(u, channel[i]) => Accounted(u, channel[i])'
    BY <1>1, <2>2, <2>3, AccountedStays, Lengths
    DEF UserInv, WithinLog, IInv, ServerInv, InLog
  <2>5. ASSUME NEW i \in next[u] + 1 .. oldest
        PROVE  Accounted(u, channel[i])'
    BY <2>2 DEF Accounted
  <2>6. \A n : InSocket(u, n)' = InSocket(u, n)
    BY DEF InSocket
  <2>7. \A i \in 1..next'[u] : i \in 1..next[u] \/ i \in next[u] + 1 .. oldest
    BY <1>1, <2>1, Lengths
  <2> QED
    BY <1>1, <2>4, <2>5, <2>6, <2>7 DEF UserInv, PassedByReceiver
<1> QED
  BY <1>1, <1>2, <1>3, <1>4, <1>5, <1>6, <1>7, OneUserStep DEF UserInv

LEMMA ReceiveWelcomeStep ==
    ASSUME IInv, NEW u \in Users, ReceiveWelcome(u)
    PROVE  IInv'
<1> USE DEF ReceiveWelcome, serverVars, sessionVars, clientVars, bootVars
<1>1. TypeOK /\ TypeOK' /\ UserInv(u)
  BY TypeStep DEF IInv, Next, Session, Realtime, Boot
<1>2. \A v \in Users \ {u} : Untouched(v)
  BY <1>1 DEF Untouched, TypeOK
<1>3. WithinLog(u)'
  BY <1>1, Lengths DEF TypeOK, UserInv, WithinLog
<1>4. Connected(u)'
  BY <1>1, Lengths DEF TypeOK, UserInv, Connected, ClientState
<1>5. Framed(u)'
  <2>1. socket'[u] = Tail(socket[u]) /\ UNCHANGED <<events, channel, next>>
    BY <1>1 DEF TypeOK
  <2>2. socket[u] \in Seq(Frame) /\ socket[u] # <<>> /\ Framed(u)
    BY <1>1 DEF TypeOK, UserInv
  <2> HIDE DEF ReceiveWelcome
  <2> QED
    BY <2>1, <2>2, FramedTail
<1>6. BelowCursor(u)'
  BY <1>1, Lengths DEF TypeOK, UserInv, BelowCursor, Running, Accounted, Overtaken
<1>7. PassedByReceiver(u)'
  <2>1. CASE Head(socket[u]).cursor > cursor[u]
    BY <1>1, <2>1 DEF TypeOK, PassedByReceiver
  <2>2. CASE ~(Head(socket[u]).cursor > cursor[u])
    <3>1. Grows
      BY <1>1, SameLogGrows
    <3>2. ASSUME NEW i \in 1..next[u]
          PROVE  /\ channel[i] \in 1..Len(events)
                 /\ Accounted(u, channel[i]) => Accounted(u, channel[i])'
      BY <1>1, <3>1, AccountedStays, Lengths
      DEF UserInv, WithinLog, IInv, ServerInv, InLog
    <3>3. ASSUME NEW n, InSocket(u, n)
          PROVE  InSocket(u, n)'
      <4>1. PICK a \in 1..Len(socket[u]) : socket[u][a].kind = "Event" /\ socket[u][a].cursor = n
        BY <3>3 DEF InSocket
      <4>2. a # 1
        BY <1>1, <4>1 DEF UserInv, Connected
      <4>3. socket'[u] = Tail(socket[u])
        BY <1>1 DEF TypeOK
      <4>4. a - 1 \in 1..Len(socket'[u]) /\ socket'[u][a - 1] = socket[u][a]
        BY <1>1, <4>2, <4>3 DEF TypeOK
      <4> QED
        BY <4>1, <4>4 DEF InSocket
    <3>4. socket[u][1] = Head(socket[u]) /\ Head(socket[u]).cursor \in Nat
      <4>1. Head(socket[u]) \in Frame /\ socket[u][1] = Head(socket[u])
        BY <1>1 DEF TypeOK
      <4> QED
        BY <4>1 DEF Frame
    <3>5. ASSUME NEW i \in 1..next[u], channel[i] <= Head(socket[u]).cursor
          PROVE  Accounted(u, channel[i])
      <4>1. channel[i] \in 1..cursor[u]
        BY <1>1, <2>2, <3>2, <3>4, <3>5, Lengths
      <4> QED
        BY <1>1, <4>1 DEF UserInv, BelowCursor, Running
    <3> QED
      BY <1>1, <3>2, <3>3, <3>4, <3>5 DEF UserInv, PassedByReceiver
  <2> QED
    BY <2>1, <2>2
<1> QED
  BY <1>1, <1>2, <1>3, <1>4, <1>5, <1>6, <1>7, OneUserStep DEF UserInv

LEMMA SyncFailsStep ==
    ASSUME IInv, NEW u \in Users, SyncFails(u)
    PROVE  IInv'
<1> USE DEF SyncFails, serverVars, sessionVars, clientVars, bootVars
<1>1. TypeOK /\ TypeOK' /\ UserInv(u)
  BY TypeStep DEF IInv, Next, Session, Realtime, Boot
<1>2. \A v \in Users \ {u} : Untouched(v)
  BY <1>1 DEF Untouched, TypeOK
<1>3. WithinLog(u)'
  BY <1>1, Lengths DEF TypeOK, UserInv, WithinLog
<1>4. Connected(u)'
  BY <1>1, Lengths DEF TypeOK, UserInv, Connected, ClientState
<1>5. Framed(u)'
  BY <1>1, Lengths DEF TypeOK, UserInv, Framed
<1>6. BelowCursor(u)'
  BY <1>1, Lengths DEF TypeOK, UserInv, BelowCursor, Running, Accounted, Overtaken
<1>7. PassedByReceiver(u)'
  BY <1>1, Lengths DEF TypeOK, UserInv, PassedByReceiver, Accounted, Overtaken, InSocket
<1> QED
  BY <1>1, <1>2, <1>3, <1>4, <1>5, <1>6, <1>7, OneUserStep DEF UserInv

LEMMA SessionEndsStep ==
    ASSUME IInv, NEW u \in Users, SessionEnds(u)
    PROVE  IInv'
<1> USE DEF SessionEnds, serverVars, sessionVars, clientVars, bootVars
<1>1. TypeOK /\ TypeOK' /\ UserInv(u)
  BY TypeStep DEF IInv, Next, Session, Realtime, Boot
<1>2. \A v \in Users \ {u} : Untouched(v)
  BY <1>1 DEF Untouched, TypeOK
<1>3. WithinLog(u)'
  BY <1>1, Lengths DEF TypeOK, UserInv, WithinLog
<1>4. Connected(u)'
  BY <1>1, Lengths DEF TypeOK, UserInv, Connected, ClientState
<1>5. Framed(u)'
  BY <1>1, Lengths DEF TypeOK, UserInv, Framed
<1>6. BelowCursor(u)'
  BY <1>1, Lengths DEF TypeOK, UserInv, BelowCursor, Running, Accounted, Overtaken
<1>7. PassedByReceiver(u)'
  BY <1>1, SameLogGrows, PassedStays DEF UserInv, IInv, ServerInv
<1> QED
  BY <1>1, <1>2, <1>3, <1>4, <1>5, <1>6, <1>7, OneUserStep DEF UserInv

LEMMA DisconnectedStep ==
    ASSUME IInv, NEW u \in Users, Disconnected(u)
    PROVE  IInv'
<1> USE DEF Disconnected, serverVars, sessionVars, clientVars, bootVars
<1>1. TypeOK /\ TypeOK' /\ UserInv(u)
  BY TypeStep DEF IInv, Next, Session, Realtime, Boot
<1>2. \A v \in Users \ {u} : Untouched(v)
  BY <1>1 DEF Untouched, TypeOK
<1>3. WithinLog(u)'
  BY <1>1, Lengths DEF TypeOK, UserInv, WithinLog
<1>4. Connected(u)'
  BY <1>1, Lengths DEF TypeOK, UserInv, Connected, ClientState
<1>5. Framed(u)'
  BY <1>1, Lengths DEF TypeOK, UserInv, Framed
<1>6. BelowCursor(u)'
  BY <1>1, Lengths DEF TypeOK, UserInv, BelowCursor, Running, Accounted, Overtaken
<1>7. PassedByReceiver(u)'
  BY <1>1, Lengths DEF TypeOK, UserInv, PassedByReceiver, Accounted, Overtaken, InSocket
<1> QED
  BY <1>1, <1>2, <1>3, <1>4, <1>5, <1>6, <1>7, OneUserStep DEF UserInv

LEMMA ReconnectStep ==
    ASSUME IInv, NEW u \in Users, Reconnect(u)
    PROVE  IInv'
<1> USE DEF Reconnect, serverVars, sessionVars, clientVars, bootVars
<1>1. TypeOK /\ TypeOK' /\ UserInv(u)
  BY TypeStep DEF IInv, Next, Session, Realtime, Boot
<1>2. \A v \in Users \ {u} : Untouched(v)
  BY <1>1 DEF Untouched, TypeOK
<1>3. WithinLog(u)'
  BY <1>1, Lengths DEF TypeOK, UserInv, WithinLog
<1>4. Connected(u)'
  BY <1>1, Lengths DEF TypeOK, UserInv, Connected, ClientState
<1>5. Framed(u)'
  BY <1>1, Lengths DEF TypeOK, UserInv, Framed
<1>6. BelowCursor(u)'
  BY <1>1, Lengths DEF TypeOK, UserInv, BelowCursor, Running, Accounted, Overtaken
<1>7. PassedByReceiver(u)'
  BY <1>1 DEF UserInv, Connected, PassedByReceiver
<1> QED
  BY <1>1, <1>2, <1>3, <1>4, <1>5, <1>6, <1>7, OneUserStep DEF UserInv

LEMMA RestartStep ==
    ASSUME IInv, NEW u \in Users, Restart(u)
    PROVE  IInv'
<1> USE DEF Restart, serverVars, sessionVars, clientVars, bootVars
<1>1. TypeOK /\ TypeOK' /\ UserInv(u)
  BY TypeStep DEF IInv, Next, Session, Realtime, Boot
<1>2. \A v \in Users \ {u} : Untouched(v)
  BY <1>1 DEF Untouched, TypeOK
<1>3. WithinLog(u)'
  BY <1>1, Lengths DEF TypeOK, UserInv, WithinLog
<1>4. Connected(u)'
  BY <1>1, Lengths DEF TypeOK, UserInv, Connected, ClientState
<1>5. Framed(u)'
  BY <1>1, Lengths DEF TypeOK, UserInv, Framed
<1>6. BelowCursor(u)'
  BY <1>1, Lengths DEF TypeOK, UserInv, BelowCursor, Running, Accounted, Overtaken
<1>7. PassedByReceiver(u)'
  BY <1>1, Lengths DEF TypeOK, UserInv, PassedByReceiver, Accounted, Overtaken, InSocket
<1> QED
  BY <1>1, <1>2, <1>3, <1>4, <1>5, <1>6, <1>7, OneUserStep DEF UserInv

LEMMA BootstrapReadStep ==
    ASSUME IInv, NEW u \in Users, BootstrapRead(u)
    PROVE  IInv'
<1> USE DEF BootstrapRead, serverVars, sessionVars, clientVars, bootVars
<1>1. TypeOK /\ TypeOK' /\ UserInv(u)
  BY TypeStep DEF IInv, Next, Session, Realtime, Boot
<1>2. \A v \in Users \ {u} : Untouched(v)
  BY <1>1 DEF Untouched, TypeOK
<1>3. WithinLog(u)'
  BY <1>1, Lengths DEF TypeOK, UserInv, WithinLog
<1>4. Connected(u)'
  BY <1>1, Lengths DEF TypeOK, UserInv, Connected, ClientState
<1>5. Framed(u)'
  BY <1>1, Lengths DEF TypeOK, UserInv, Framed
<1>6. BelowCursor(u)'
  BY <1>1, Lengths DEF TypeOK, UserInv, BelowCursor, Running, Accounted, Overtaken
<1>7. PassedByReceiver(u)'
  BY <1>1, Lengths DEF TypeOK, UserInv, PassedByReceiver, Accounted, Overtaken, InSocket
<1> QED
  BY <1>1, <1>2, <1>3, <1>4, <1>5, <1>6, <1>7, OneUserStep DEF UserInv

LEMMA BootstrapCursorStep ==
    ASSUME IInv, NEW u \in Users, BootstrapCursor(u)
    PROVE  IInv'
<1> USE DEF BootstrapCursor, serverVars, sessionVars, clientVars, bootVars
<1>1. TypeOK /\ TypeOK' /\ UserInv(u)
  BY TypeStep DEF IInv, Next, Session, Realtime, Boot
<1>2. \A v \in Users \ {u} : Untouched(v)
  BY <1>1, SMTT(30) DEF Untouched, TypeOK
<1>3. WithinLog(u)'
  BY <1>1, Lengths DEF TypeOK, UserInv, WithinLog
<1>4. Connected(u)'
  BY <1>1, Lengths DEF TypeOK, UserInv, Connected, ClientState
<1>5. Framed(u)'
  BY <1>1, Lengths DEF TypeOK, UserInv, Framed
<1>6. BelowCursor(u)'
  BY <1>1, Lengths DEF TypeOK, UserInv, BelowCursor, Running, Accounted, Overtaken
<1>7. PassedByReceiver(u)'
  BY <1>1 DEF UserInv, Connected, PassedByReceiver
<1> QED
  BY <1>1, <1>2, <1>3, <1>4, <1>5, <1>6, <1>7, OneUserStep DEF UserInv

LEMMA RestoreCachedStep ==
    ASSUME IInv, NEW u \in Users, RestoreCached(u)
    PROVE  IInv'
<1> USE DEF RestoreCached, serverVars, sessionVars, clientVars, bootVars
<1>1. TypeOK /\ TypeOK' /\ UserInv(u)
  BY TypeStep DEF IInv, Next, Session, Realtime, Boot
<1>2. \A v \in Users \ {u} : Untouched(v)
  BY <1>1 DEF Untouched, TypeOK
<1>3. WithinLog(u)'
  BY <1>1, Lengths DEF TypeOK, UserInv, WithinLog
<1>0. /\ session'[u] = "Closed" /\ socket'[u] = <<>> /\ UNCHANGED <<socket, next, channel, events>>
      /\ state'[u] \in {"Connecting", "Stranded"}
  BY <1>1 DEF TypeOK, UserInv, Connected
<1>4. Connected(u)'
  <2>1. Len(socket'[u]) = 0
    BY <1>0
  <2> QED
    BY <1>0, <2>1 DEF Connected
<1>5. Framed(u)'
  BY <1>0, FramedEmpty
<1>6. BelowCursor(u)'
  BY <1>1, Lengths DEF TypeOK, UserInv, BelowCursor, Running, Accounted, Overtaken
<1>7. PassedByReceiver(u)'
  BY <1>0, Lengths DEF PassedByReceiver
<1> QED
  BY <1>1, <1>2, <1>3, <1>4, <1>5, <1>6, <1>7, OneUserStep DEF UserInv

LEMMA RefreshStoredStep ==
    ASSUME IInv, NEW u \in Users, RefreshStored(u)
    PROVE  IInv'
<1>1. TypeOK /\ TypeOK' /\ UserInv(u) /\ Grows
  BY TypeStep, SameLogGrows DEF IInv, Next, RefreshStored, serverVars
<1>2. UNCHANGED <<serverVars, sessionVars, clientVars, base, start>>
  BY DEF RefreshStored
<1>3. PICK b \in start[u]..Len(events) : \E c \in b..Len(events) :
        cached' = [cached EXCEPT ![u] = [base |-> b, cursor |-> c]]
  BY DEF RefreshStored
<1>4. PICK c \in b..Len(events) : cached' = [cached EXCEPT ![u] = [base |-> b, cursor |-> c]]
  BY <1>3
<1>5. /\ cached'[u].cursor = c /\ c <= Len(events)
      /\ \A v \in Users \ {u} : cached'[v] = cached[v]
  BY <1>1, <1>4 DEF TypeOK
<1>6. \A v \in Users \ {u} : Untouched(v)
  BY <1>2, <1>5 DEF Untouched, sessionVars, clientVars
<1>7. WithinLog(u)'
  BY <1>1, <1>2, <1>5 DEF UserInv, WithinLog, serverVars, sessionVars, clientVars
<1>8. Connected(u)' /\ Framed(u)'
  BY <1>1, <1>2 DEF UserInv, Connected, Framed, serverVars, sessionVars, clientVars
<1>9. BelowCursor(u)'
  BY <1>1, <1>2 DEF UserInv, BelowCursor, Running, Accounted, Overtaken, serverVars,
     sessionVars, clientVars
<1>10. PassedByReceiver(u)'
  BY <1>1, <1>2 DEF UserInv, PassedByReceiver, Accounted, Overtaken, InSocket, serverVars,
     sessionVars, clientVars
<1> QED
  BY <1>1, <1>2, <1>6, <1>7, <1>8, <1>9, <1>10, OneUserStep DEF UserInv

LEMMA MutateStep ==
    ASSUME IInv, NEW t \in Tasks, Mutate(t)
    PROVE  IInv'
<1>1. TypeOK /\ TypeOK'
  BY TypeStep DEF IInv, Next
<1>2. PICK k \in Nat :
         /\ Len(events') = Len(events) + k
         /\ \A n \in 1..Len(events) : events'[n] = events[n]
         /\ publishing' = [publishing EXCEPT ![t] = [i \in 1..k |-> Len(events) + i]]
  BY <1>1, MutateLog
<1>3. publishing[t] = <<>> /\ UNCHANGED <<channel, sessionVars, clientVars, bootVars>>
  BY DEF Mutate
<1>4. Grows
  BY <1>1, <1>2, <1>3, Lengths DEF Grows
<1>5. \A u \in Users : UserInv(u)'
  <2>1. \A u \in Users : Untouched(u)
    BY <1>3 DEF Untouched, sessionVars, clientVars, bootVars
  <2> QED
    BY <1>1, <1>4, <2>1, UntouchedKeeps DEF IInv, ServerInv
<1>6. /\ publishing'[t] = [i \in 1..k |-> Len(events) + i]
      /\ \A s \in Tasks \ {t} : publishing'[s] = publishing[s]
  BY <1>1, <1>2 DEF TypeOK
<1>7. /\ Len(publishing'[t]) = k
      /\ \A i \in 1..k : publishing'[t][i] = Len(events) + i
  BY <1>6
<1>8. InLog'
  <2>1. \A n \in 1..Len(events) : n \in 1..Len(events')
    BY <1>1, <1>2, Lengths
  <2>2. \A i \in 1..k : publishing'[t][i] \in 1..Len(events')
    BY <1>1, <1>2, <1>7, Lengths
  <2>3. \A i \in 1..Len(channel') : channel'[i] \in 1..Len(events')
    BY <1>3, <2>1 DEF IInv, ServerInv, InLog
  <2>4. \A r \in Tasks \ {t} : \A i \in 1..Len(publishing'[r]) :
          publishing'[r][i] \in 1..Len(events')
    BY <1>6, <2>1 DEF IInv, ServerInv, InLog
  <2> QED
    BY <1>7, <2>2, <2>3, <2>4 DEF InLog
<1>9. BroadcastOnce'
  <2>1. \A s \in Tasks \ {t} : \A i \in 1..Len(publishing[s]) :
          publishing[s][i] \in 1..Len(events)
    BY DEF IInv, ServerInv, InLog
  <2>2. \A j \in 1..Len(channel) : channel[j] \in 1..Len(events)
    BY DEF IInv, ServerInv, InLog
  <2>3. \A i \in 1..k : publishing'[t][i] > Len(events)
    BY <1>1, <1>7, Lengths
  <2>4. \A i, j \in 1..k : publishing'[t][i] = publishing'[t][j] => i = j
    BY <1>1, <1>7, Lengths
  <2>5. \A i, j \in 1..Len(channel') : channel'[i] = channel'[j] => i = j
    BY <1>3 DEF IInv, ServerInv, BroadcastOnce
  <2>6. ASSUME NEW r \in Tasks, NEW i \in 1..Len(publishing'[r])
        PROVE  /\ \A j \in 1..Len(channel') : channel'[j] # publishing'[r][i]
               /\ \A s \in Tasks : \A j \in 1..Len(publishing'[s]) :
                    publishing'[s][j] = publishing'[r][i] => s = r /\ i = j
    <3>1. CASE r = t
      <4>1. i \in 1..k /\ publishing'[r][i] > Len(events)
        BY <1>7, <2>3, <2>6, <3>1
      <4>2. \A j \in 1..Len(channel') : channel'[j] # publishing'[r][i]
        BY <1>1, <1>3, <2>2, <4>1, Lengths
      <4>3. \A s \in Tasks \ {t} : \A j \in 1..Len(publishing'[s]) :
              publishing'[s][j] # publishing'[r][i]
        BY <1>1, <1>6, <2>1, <4>1, Lengths, SMTT(30)
      <4> QED
        BY <1>7, <2>4, <3>1, <4>1, <4>2, <4>3
    <3>2. CASE r # t
      <4>1. publishing'[r] = publishing[r] /\ publishing[r][i] \in 1..Len(events)
        BY <1>6, <2>1, <3>2
      <4>2. \A j \in 1..Len(publishing'[t]) : publishing'[t][j] # publishing'[r][i]
        BY <1>1, <1>7, <2>3, <4>1, Lengths
      <4>3. \A j \in 1..Len(channel') : channel'[j] # publishing'[r][i]
        BY <1>3, <4>1 DEF IInv, ServerInv, BroadcastOnce
      <4>4. \A s \in Tasks \ {t} : \A j \in 1..Len(publishing'[s]) :
              publishing'[s][j] = publishing'[r][i] => s = r /\ i = j
        BY <1>6, <4>1 DEF IInv, ServerInv, BroadcastOnce
      <4> QED
        BY <4>2, <4>3, <4>4
    <3> QED
      BY <3>1, <3>2
  <2> QED
    BY <2>5, <2>6 DEF BroadcastOnce
<1> QED
  BY <1>1, <1>5, <1>8, <1>9 DEF IInv, ServerInv

LEMMA DroppedStep ==
    ASSUME IInv, MutateDropped
    PROVE  IInv'
<1>1. TypeOK /\ TypeOK'
  BY TypeStep DEF IInv, Next
<1>2. PICK k \in Bursts : AppendEvents(k)
  BY DEF MutateDropped
<1>3. /\ k \in Nat /\ Len(events') = Len(events) + k
      /\ \A n \in 1..Len(events) : events'[n] = events[n]
  BY <1>1, <1>2, AppendLog
<1>4. UNCHANGED <<publishing, channel, sessionVars, clientVars, bootVars>>
  BY DEF MutateDropped
<1>5. Grows
  BY <1>1, <1>3, <1>4, Lengths DEF Grows
<1>6. \A u \in Users : Untouched(u)
  BY <1>4 DEF Untouched, sessionVars, clientVars, bootVars
<1>7. \A u \in Users : UserInv(u)'
  BY <1>1, <1>5, <1>6, UntouchedKeeps DEF IInv, ServerInv
<1>8. InLog'
  <2>1. \A n \in 1..Len(events) : n \in 1..Len(events')
    BY <1>1, <1>3, Lengths
  <2> QED
    BY <1>4, <2>1 DEF IInv, ServerInv, InLog
<1>9. BroadcastOnce'
  BY <1>4 DEF IInv, ServerInv, BroadcastOnce
<1> QED
  BY <1>1, <1>7, <1>8, <1>9 DEF IInv, ServerInv

LEMMA PublishStep ==
    ASSUME IInv, NEW t \in Tasks, Publish(t)
    PROVE  IInv'
<1> DEFINE c == Head(publishing[t])
<1>1. TypeOK /\ TypeOK'
  BY TypeStep DEF IInv, Next
<1>2. publishing[t] \in Seq(Nat) /\ publishing[t] # <<>> /\ channel \in Seq(Nat)
  BY <1>1 DEF Publish, TypeOK
<1>3. c \in Nat /\ 1 \in 1..Len(publishing[t]) /\ c = publishing[t][1]
  BY <1>2
<1>4. /\ Len(channel') = Len(channel) + 1
      /\ channel'[Len(channel) + 1] = c
      /\ \A i \in 1..Len(channel) : channel'[i] = channel[i]
  BY <1>2, <1>3 DEF Publish
<1>5. /\ Len(publishing'[t]) = Len(publishing[t]) - 1
      /\ \A i \in 1..Len(publishing'[t]) :
           i + 1 \in 1..Len(publishing[t]) /\ publishing'[t][i] = publishing[t][i + 1]
  <2>1. publishing'[t] = Tail(publishing[t])
    BY <1>1 DEF Publish, TypeOK
  <2> QED
    BY <1>2, <2>1
<1>6. \A s \in Tasks \ {t} : publishing'[s] = publishing[s]
  BY <1>1 DEF Publish, TypeOK
<1> HIDE DEF c
<1>7. events' = events /\ Grows
  BY <1>1, <1>4, Lengths DEF Publish, Grows
<1>8. \A u \in Users : UserInv(u)'
  <2>1. \A u \in Users : Untouched(u)
    BY DEF Publish, Untouched, sessionVars, clientVars, bootVars
  <2> QED
    BY <1>1, <1>7, <2>1, UntouchedKeeps DEF IInv, ServerInv
<1>9. InLog'
  <2>1. \A i \in 1..Len(channel') : i \in 1..Len(channel) \/ i = Len(channel) + 1
    BY <1>1, <1>4, Lengths
  <2>2. \A i \in 1..Len(channel') : channel'[i] \in 1..Len(events)
    BY <1>3, <1>4, <2>1 DEF IInv, ServerInv, InLog
  <2> QED
    BY <1>5, <1>6, <1>7, <2>2 DEF IInv, ServerInv, InLog
<1>10. BroadcastOnce'
  <2>1. \A i \in 1..Len(channel) : channel[i] # c
    BY <1>3 DEF IInv, ServerInv, BroadcastOnce
  <2>2. \A i, j \in 1..Len(channel') : channel'[i] = channel'[j] => i = j
    <3>1. \A i \in 1..Len(channel') : i \in 1..Len(channel) \/ i = Len(channel) + 1
      BY <1>1, <1>4, Lengths
    <3> QED
      BY <1>4, <2>1, <3>1 DEF IInv, ServerInv, BroadcastOnce
  <2>3. ASSUME NEW s \in Tasks, NEW i \in 1..Len(publishing'[s])
        PROVE  \E j \in 1..Len(publishing[s]) :
                 /\ publishing'[s][i] = publishing[s][j]
                 /\ s = t => j = i + 1
                 /\ s # t => j = i
    BY <1>5, <1>6
  <2>4. \A s \in Tasks : \A i \in 1..Len(publishing'[s]) : publishing'[s][i] # c
    BY <1>3, <1>5, <1>6, SMTT(30) DEF IInv, ServerInv, BroadcastOnce
  <2>5. \A s \in Tasks : \A i \in 1..Len(publishing'[s]) :
          \A j \in 1..Len(channel') : channel'[j] # publishing'[s][i]
    <3>1. \A j \in 1..Len(channel') : j \in 1..Len(channel) \/ j = Len(channel) + 1
      BY <1>1, <1>4, Lengths
    <3>2. \A s \in Tasks : \A i \in 1..Len(publishing'[s]) :
            \A j \in 1..Len(channel) : channel[j] # publishing'[s][i]
      BY <2>3, SMTT(30) DEF IInv, ServerInv, BroadcastOnce
    <3> QED
      BY <1>4, <2>4, <3>1, <3>2
  <2>6. ASSUME NEW r \in Tasks, NEW i \in 1..Len(publishing'[r]),
               NEW s \in Tasks, NEW j \in 1..Len(publishing'[s]),
               publishing'[s][j] = publishing'[r][i]
        PROVE  s = r /\ i = j
    <3>1. PICK a \in 1..Len(publishing[r]) :
             /\ publishing'[r][i] = publishing[r][a]
             /\ r = t => a = i + 1
             /\ r # t => a = i
      BY <2>3
    <3>2. PICK b \in 1..Len(publishing[s]) :
             /\ publishing'[s][j] = publishing[s][b]
             /\ s = t => b = j + 1
             /\ s # t => b = j
      BY <2>3
    <3>3. s = r /\ a = b
      BY <2>6, <3>1, <3>2 DEF IInv, ServerInv, BroadcastOnce
    <3> QED
      BY <3>1, <3>2, <3>3
  <2> QED
    BY <2>2, <2>5, <2>6 DEF BroadcastOnce
<1> QED
  BY <1>1, <1>8, <1>9, <1>10 DEF IInv, ServerInv

LEMMA ServerCrashStep ==
    ASSUME IInv, ServerCrash
    PROVE  IInv'
<1> USE DEF ServerCrash, sessionVars, clientVars, bootVars
<1>1. TypeOK /\ TypeOK' /\ Grows
  BY TypeStep, SameLogGrows DEF IInv, Next
<1>2. ServerInv'
  BY DEF IInv, ServerInv, InLog, BroadcastOnce
<1>3. ASSUME NEW u \in Users
      PROVE  UserInv(u)'
  <2>1. UserInv(u)
    BY DEF IInv
  <2>2. WithinLog(u)'
    BY <2>1 DEF UserInv, WithinLog
  <2>3. Connected(u)'
    BY <2>1 DEF UserInv, Connected
  <2>4. Framed(u)'
    BY <2>1 DEF UserInv, Framed
  <2>5. BelowCursor(u)'
    BY <2>1 DEF UserInv, BelowCursor, Running, Accounted, Overtaken
  <2>6. PassedByReceiver(u)'
    BY <1>1, <2>1, PassedStays DEF UserInv, IInv, ServerInv
  <2> QED
    BY <2>2, <2>3, <2>4, <2>5, <2>6 DEF UserInv
<1> QED
  BY <1>1, <1>2, <1>3 DEF IInv

LEMMA ForwardStep ==
    ASSUME IInv, NEW u \in Users, Forward(u)
    PROVE  IInv'
<1>0. PICK n : n = channel[next[u] + 1]
  OBVIOUS
<1>1. TypeOK /\ TypeOK' /\ UserInv(u) /\ ServerInv /\ Grows
  BY TypeStep, SameLogGrows DEF IInv, Next, Session, Forward, serverVars
<1>2. UNCHANGED <<serverVars, session, lagged, clientVars, bootVars>>
  BY DEF Forward
<1>3. \A v \in Users \ {u} : Untouched(v)
  BY <1>1, <1>2 DEF Forward, Untouched, TypeOK, clientVars, bootVars
<1>4. next'[u] = next[u] + 1 /\ next'[u] \in 1..Len(channel) /\ next[u] \in Nat
  <2>1. next'[u] = next[u] + 1 /\ next[u] < Len(channel)
    BY <1>1 DEF Forward, TypeOK
  <2> QED
    BY <1>1, <2>1, Lengths
<1>5. n \in 1..Len(events)
  BY <1>0, <1>1, <1>4 DEF ServerInv, InLog
<1> DEFINE frame == [kind |-> "Event", cursor |-> n]
<1>6. socket[u] \in Seq(Frame) /\ frame \in Frame
  <2>1. socket[u] \in Seq(Frame)
    BY <1>1 DEF TypeOK
  <2>2. frame \in Frame
    BY <1>1, <1>5, Lengths DEF Frame
  <2> QED
    BY <2>1, <2>2
<1>7. IF u \in events[n]
      THEN socket'[u] = Append(socket[u], frame)
      ELSE socket'[u] = socket[u]
  BY <1>0, <1>1 DEF Forward, TypeOK
<1>8. socket[u] # <<>> \/ state[u] # "Connecting"
  BY <1>1 DEF Forward, UserInv, Connected
\* Old frames keep their place and a new frame can only be the last one.
<1>9. /\ Len(socket[u]) \in Nat
      /\ \A a \in 1..Len(socket[u]) : a \in 1..Len(socket'[u]) /\ socket'[u][a] = socket[u][a]
      /\ \A a \in 1..Len(socket'[u]) :
           \/ a \in 1..Len(socket[u])
           \/ a = Len(socket[u]) + 1 /\ socket'[u][a] = frame /\ u \in events[n]
      /\ u \in events[n] =>
           Len(socket[u]) + 1 \in 1..Len(socket'[u]) /\ socket'[u][Len(socket[u]) + 1] = frame
  <2>1. CASE u \in events[n]
    BY <1>6, <1>7, <2>1
  <2>2. CASE u \notin events[n]
    BY <1>6, <1>7, <2>2
  <2> QED
    BY <2>1, <2>2
<1>10. frame.kind = "Event" /\ frame.cursor = n
  OBVIOUS
<1> HIDE DEF frame
<1>11. UNCHANGED <<events, channel, publishing, session, lagged, state, cursor, catching,
                   delivered, start, cached>>
  BY <1>2 DEF serverVars, clientVars, bootVars
<1>12. WithinLog(u)'
  BY <1>1, <1>4, <1>11 DEF UserInv, WithinLog
<1>13. Connected(u)'
  <2>1. session[u] = "Serving"
    BY DEF Forward
  <2>2. state[u] \in {"Connecting", "Syncing", "Online"}
    BY <1>1, <2>1 DEF UserInv, Connected
  <2>3. state[u] = "Connecting" => Len(socket[u]) # 0
    BY <1>6, <1>8
  <2>4. socket[u] # <<>> => socket'[u] # <<>>
    BY <1>6, <1>7
  <2>5. \A a \in 1..Len(socket'[u]) :
          socket'[u][a].kind = "Welcome" <=> state[u] = "Connecting" /\ a = 1
    BY <1>1, <1>9, <1>10, <2>3 DEF UserInv, Connected
  <2> QED
    BY <1>8, <1>11, <2>1, <2>2, <2>4, <2>5 DEF Connected
<1>14. Framed(u)'
  <2>1. ASSUME NEW a \in 1..Len(socket'[u])
        PROVE  IF socket'[u][a].kind = "Welcome"
               THEN socket'[u][a].cursor <= Len(events)
               ELSE /\ \E i \in 1..next'[u] : channel[i] = socket'[u][a].cursor
                    /\ u \in events[socket'[u][a].cursor]
    <3>1. CASE a \in 1..Len(socket[u])
      <4>1. socket'[u][a] = socket[u][a]
        BY <1>9, <3>1
      <4>2. \A i \in 1..next[u] : i \in 1..next'[u]
        BY <1>4
      <4> QED
        BY <1>1, <3>1, <4>1, <4>2 DEF UserInv, Framed
    <3>2. CASE a \notin 1..Len(socket[u])
      <4>1. socket'[u][a] = frame /\ u \in events[n]
        BY <1>9, <3>2
      <4>2. next'[u] \in 1..next'[u] /\ channel[next'[u]] = n
        BY <1>0, <1>4
      <4> QED
        BY <1>10, <4>1, <4>2
    <3> QED
      BY <3>1, <3>2
  <2>2. ASSUME NEW a \in 1..Len(socket'[u]), NEW b \in 1..Len(socket'[u]),
               a < b, socket'[u][a].kind = "Event",
               NEW i \in 1..next'[u], NEW j \in 1..next'[u],
               channel[i] = socket'[u][a].cursor, channel[j] = socket'[u][b].cursor
        PROVE  i < j
    <3>1. a \in 1..Len(socket[u]) /\ socket'[u][a] = socket[u][a]
      BY <1>9, <2>2
    <3>2. i \in 1..Len(channel) /\ j \in 1..Len(channel)
      BY <1>4, <1>1, Lengths
    <3>3. i <= next[u]
      BY <1>1, <2>2, <3>1, <3>2, FrameIndex DEF UserInv, ServerInv
    <3>4. CASE b \in 1..Len(socket[u])
      <4>1. socket'[u][b] = socket[u][b] /\ socket[u][b].kind # "Welcome"
        BY <1>1, <1>9, <2>2, <3>4 DEF UserInv, Connected
      <4>2. j <= next[u]
        BY <1>1, <2>2, <3>2, <3>4, <4>1, FrameIndex DEF UserInv, ServerInv
      <4>3. i \in 1..next[u] /\ j \in 1..next[u]
        BY <1>4, <3>3, <4>2
      <4> QED
        BY <1>1, <2>2, <3>1, <3>4, <4>1, <4>3 DEF UserInv, Framed
    <3>5. CASE b \notin 1..Len(socket[u])
      <4>1. channel[j] = n
        BY <1>9, <1>10, <2>2, <3>5
      <4>2. next'[u] \in 1..Len(channel) /\ channel[next'[u]] = n
        BY <1>0, <1>4
      <4>3. j = next'[u]
        BY <1>1, <3>2, <4>1, <4>2 DEF ServerInv, BroadcastOnce
      <4> QED
        BY <1>4, <3>3, <4>3
    <3> QED
      BY <3>4, <3>5
  <2> QED
    BY <1>11, <2>1, <2>2 DEF Framed
<1>15. BelowCursor(u)'
  BY <1>1, <1>11 DEF UserInv, BelowCursor, Running, Accounted, Overtaken
<1>16. PassedByReceiver(u)'
  <2>1. \A m : InSocket(u, m) => InSocket(u, m)'
    BY <1>9 DEF InSocket
  <2>2. \A m : Accounted(u, m)' = Accounted(u, m)
    BY <1>11 DEF Accounted, Overtaken
  <2>3. Accounted(u, n) \/ InSocket(u, n)'
    <3>1. CASE u \in events[n]
      <4>1. /\ Len(socket[u]) + 1 \in 1..Len(socket'[u])
            /\ socket'[u][Len(socket[u]) + 1].kind = "Event"
            /\ socket'[u][Len(socket[u]) + 1].cursor = n
        BY <1>9, <1>10, <3>1
      <4> QED
        BY <4>1 DEF InSocket
    <3>2. CASE u \notin events[n]
      BY <3>2 DEF Accounted
    <3> QED
      BY <3>1, <3>2
  <2>4. \A i \in 1..next'[u] : i \in 1..next[u] \/ (i = next[u] + 1 /\ channel[i] = n)
    BY <1>0, <1>4
  <2>5. state[u] = "Connecting" => socket'[u][1] = socket[u][1]
    BY <1>6, <1>8, <1>9
  <2>6. ASSUME NEW i \in 1..next'[u]
        PROVE  /\ state[u] = "Online" => Accounted(u, channel[i]) \/ InSocket(u, channel[i])'
               /\ state[u] = "Connecting" /\ socket[u] # <<>> =>
                    \/ Accounted(u, channel[i])
                    \/ InSocket(u, channel[i])'
                    \/ channel[i] <= socket[u][1].cursor
    <3>1. CASE i \in 1..next[u]
      BY <1>1, <1>11, <2>1, <3>1 DEF UserInv, PassedByReceiver
    <3>2. CASE channel[i] = n
      BY <1>11, <2>3, <3>2
    <3> QED
      BY <2>4, <3>1, <3>2
  <2> QED
    BY <1>8, <1>11, <2>2, <2>5, <2>6 DEF PassedByReceiver
<1> QED
  BY <1>1, <1>2, <1>3, <1>12, <1>13, <1>14, <1>15, <1>16, OneUserStep DEF UserInv

\* What reading one frame does to the socket, when it is an event frame.
LEMMA ReadEventFrame ==
    ASSUME IInv, NEW u \in Users, state[u] = "Online", socket[u] # <<>>,
           socket' = [socket EXCEPT ![u] = Tail(@)]
    PROVE  /\ Head(socket[u]) = socket[u][1] /\ 1 \in 1..Len(socket[u])
           /\ socket[u][1].cursor \in Nat
           /\ \A a \in 1..Len(socket[u]) : socket[u][a].kind = "Event"
           /\ \A a \in 1..Len(socket'[u]) :
                a + 1 \in 1..Len(socket[u]) /\ socket'[u][a] = socket[u][a + 1]
           /\ \A m : InSocket(u, m) =>
                InSocket(u, m)' \/ m = socket[u][1].cursor
<1>1. socket[u] \in Seq(Frame) /\ socket'[u] = Tail(socket[u])
  BY DEF IInv, TypeOK
<1>2. Head(socket[u]) = socket[u][1] /\ 1 \in 1..Len(socket[u]) /\ Len(socket[u]) \in Nat
  BY <1>1
<1>3. \A a \in 1..Len(socket[u]) :
        socket[u][a].kind \in {"Welcome", "Event"} /\ socket[u][a].cursor \in Nat
  <2>1. \A a \in 1..Len(socket[u]) : socket[u][a] \in Frame
    BY <1>1
  <2> QED
    BY <2>1 DEF Frame
<1>4. \A a \in 1..Len(socket[u]) : socket[u][a].kind = "Event"
  BY <1>3 DEF IInv, UserInv, Connected
<1>5. /\ Len(socket'[u]) = Len(socket[u]) - 1
      /\ \A a \in 1..Len(socket'[u]) :
           a + 1 \in 1..Len(socket[u]) /\ socket'[u][a] = socket[u][a + 1]
  <2>1. /\ Len(Tail(socket[u])) = Len(socket[u]) - 1
        /\ \A a \in 1..Len(Tail(socket[u])) : Tail(socket[u])[a] = socket[u][a + 1]
    BY <1>1, HeadTailProperties
  <2>2. Len(socket'[u]) = Len(socket[u]) - 1
    BY <1>1, <2>1
  <2>3. \A a \in 1..Len(socket'[u]) : socket'[u][a] = socket[u][a + 1]
    BY <1>1, <2>1
  <2> QED
    BY <1>2, <2>2, <2>3
<1>6. ASSUME NEW m, InSocket(u, m), m # socket[u][1].cursor
      PROVE  InSocket(u, m)'
  <2>1. PICK a \in 1..Len(socket[u]) : socket[u][a].kind = "Event" /\ socket[u][a].cursor = m
    BY <1>6 DEF InSocket
  <2>2. a # 1
    BY <1>6, <2>1
  <2>3. a - 1 \in 1..Len(socket'[u]) /\ socket'[u][a - 1] = socket[u][a]
    BY <1>2, <1>5, <2>2
  <2> QED
    BY <2>1, <2>3 DEF InSocket
<1> QED
  BY <1>2, <1>3, <1>4, <1>5, <1>6

\* A live event above the cursor finds everything below it accounted for.
LEMMA BelowLiveEvent ==
    ASSUME IInv, NEW u \in Users, state[u] = "Online", socket[u] # <<>>,
           socket[u][1].kind = "Event", 1 \in 1..Len(socket[u]),
           NEW n \in 1..Len(events), n < socket[u][1].cursor, socket[u][1].cursor \in Nat,
           \A a \in 1..Len(socket[u]) : socket[u][a].kind = "Event"
    PROVE  Accounted(u, n)
<1> DEFINE c == socket[u][1].cursor
<1>1. TypeOK /\ UserInv(u) /\ ServerInv
  BY DEF IInv
<1>2. PICK k \in 1..next[u] : channel[k] = c
  BY <1>1 DEF UserInv, Framed
<1>3. k \in 1..Len(channel)
  BY <1>1, Lengths DEF UserInv, WithinLog
<1> HIDE DEF c
<1>4. CASE \A j \in 1..k : channel[j] # n
  <2>1. channel[k] > n
    BY <1>2 DEF c
  <2> QED
    BY <1>3, <1>4, <2>1 DEF Accounted, Overtaken
<1>5. CASE \E j \in 1..k : channel[j] = n
  <2>1. PICK j \in 1..k : channel[j] = n
    BY <1>5
  <2>2. j # k /\ j \in 1..next[u] /\ j < k
    <3>1. j # k
      BY <1>2, <2>1 DEF c
    <3> QED
      BY <1>1, <3>1, Lengths
  <2>3. CASE InSocket(u, n)
    <3>1. PICK b \in 1..Len(socket[u]) : socket[u][b].cursor = n
      BY <2>3 DEF InSocket
    <3>2. b # 1 /\ 1 < b
      BY <3>1
    <3>3. k < j
      BY <1>1, <1>2, <2>1, <2>2, <3>1, <3>2 DEF UserInv, Framed, c
    <3> QED
      BY <2>2, <3>3
  <2>4. CASE ~InSocket(u, n)
    BY <1>1, <2>1, <2>2, <2>4 DEF UserInv, PassedByReceiver
  <2> QED
    BY <2>3, <2>4
<1> QED
  BY <1>4, <1>5

LEMMA ReceiveEventStep ==
    ASSUME IInv, NEW u \in Users, ReceiveEvent(u)
    PROVE  IInv'
<1>1. TypeOK /\ TypeOK' /\ UserInv(u) /\ ServerInv /\ Grows
  BY TypeStep, SameLogGrows DEF IInv, Next, Realtime, ReceiveEvent, serverVars
<1>2. /\ state[u] = "Online" /\ socket[u] # <<>> /\ Head(socket[u]).kind = "Event"
      /\ socket' = [socket EXCEPT ![u] = Tail(@)]
      /\ UNCHANGED <<serverVars, session, next, lagged, state, catching, start, cached>>
  BY DEF ReceiveEvent, bootVars
<1>3. PICK c : c = socket[u][1].cursor
  OBVIOUS
<1>4. /\ Head(socket[u]) = socket[u][1] /\ 1 \in 1..Len(socket[u]) /\ c \in Nat
      /\ \A a \in 1..Len(socket[u]) : socket[u][a].kind = "Event"
      /\ \A a \in 1..Len(socket'[u]) :
           a + 1 \in 1..Len(socket[u]) /\ socket'[u][a] = socket[u][a + 1]
      /\ \A m : InSocket(u, m) => InSocket(u, m)' \/ m = c
  BY <1>2, <1>3, ReadEventFrame
<1>5. \E i \in 1..next[u] : channel[i] = c
  BY <1>1, <1>3, <1>4 DEF UserInv, Framed
<1>6. c \in 1..Len(events) /\ u \in events[c]
  <2>1. \A i \in 1..next[u] : i \in 1..Len(channel)
    BY <1>1, Lengths DEF UserInv, WithinLog
  <2>2. u \in events[c]
    BY <1>1, <1>3, <1>4 DEF UserInv, Framed
  <2> QED
    BY <1>1, <1>5, <2>1, <2>2 DEF ServerInv, InLog
\* The two outcomes: taken and delivered, or dropped as already confirmed.
<1>7. /\ cursor'[u] \in {cursor[u], c} /\ cursor'[u] >= c
      /\ \A v \in Users \ {u} : cursor'[v] = cursor[v] /\ delivered'[v] = delivered[v]
      /\ delivered[u] \subseteq delivered'[u] /\ delivered'[u] \subseteq delivered[u] \cup {c}
      /\ cursor'[u] # cursor[u] => c \in delivered'[u] /\ c > cursor[u]
  <2>1. CASE c > cursor[u]
    <3>1. cursor' = [cursor EXCEPT ![u] = c] /\ HandOver(u, {c})
      BY <1>3, <1>4, <2>1 DEF ReceiveEvent
    <3>2. delivered' = [delivered EXCEPT ![u] = @ \cup {c}]
      BY <3>1 DEF HandOver
    <3>3. cursor'[u] = c /\ \A v \in Users \ {u} : cursor'[v] = cursor[v]
      BY <1>1, <3>1 DEF TypeOK
    <3>4. delivered'[u] = delivered[u] \cup {c}
      BY <1>1, <3>2 DEF TypeOK
    <3>5. \A v \in Users \ {u} : delivered'[v] = delivered[v]
      BY <1>1, <3>2 DEF TypeOK
    <3> QED
      BY <1>4, <2>1, <3>3, <3>4, <3>5
  <2>2. CASE ~(c > cursor[u])
    BY <1>1, <1>3, <1>4, <2>2, Lengths DEF ReceiveEvent
  <2> QED
    BY <2>1, <2>2
<1>8. \A v \in Users \ {u} : Untouched(v)
  BY <1>1, <1>2, <1>7 DEF Untouched, TypeOK
<1>9. WithinLog(u)'
  BY <1>1, <1>2, <1>6, <1>7 DEF UserInv, WithinLog, serverVars
<1>10. Connected(u)'
  BY <1>1, <1>2, <1>4 DEF UserInv, Connected
<1>11. Framed(u)'
  <2>1. socket'[u] = Tail(socket[u]) /\ UNCHANGED <<events, channel, next>>
    BY <1>1, <1>2 DEF TypeOK, serverVars
  <2>2. socket[u] \in Seq(Frame) /\ socket[u] # <<>> /\ Framed(u)
    BY <1>1, <1>2 DEF TypeOK, UserInv
  <2> QED
    BY <2>1, <2>2, FramedTail
<1>12. \A n \in 1..Len(events) : Accounted(u, n) => Accounted(u, n)'
  BY <1>1, <1>2, <1>7, AccountedStays
<1>13. \A n \in 1..cursor'[u] : Accounted(u, n)'
  <2>1. ASSUME NEW n \in 1..cursor'[u]
        PROVE  Accounted(u, n)'
    <3>1. n \in 1..Len(events)
      BY <1>1, <1>6, <1>7, Lengths DEF UserInv, WithinLog
    <3>2. CASE n \in 1..cursor[u]
      BY <1>1, <1>2, <1>12, <3>1, <3>2 DEF UserInv, BelowCursor, Running
    <3>3. CASE n = c /\ cursor'[u] # cursor[u]
      BY <1>7, <3>3 DEF Accounted
    <3>4. CASE n < c
      <4>1. Accounted(u, n)
        BY <1>2, <1>3, <1>4, <3>1, <3>4, BelowLiveEvent
      <4> QED
        BY <1>12, <3>1, <4>1
    <3>5. n \in 1..cursor[u] \/ (n = c /\ cursor'[u] # cursor[u]) \/ n < c
      BY <1>1, <1>4, <1>7, Lengths
    <3> QED
      BY <3>2, <3>3, <3>4, <3>5
  <2> QED
    BY <2>1
<1>14. BelowCursor(u)'
  BY <1>2, <1>13 DEF BelowCursor
<1>15. PassedByReceiver(u)'
  <2>1. ASSUME NEW i \in 1..next[u]
        PROVE  Accounted(u, channel[i])' \/ InSocket(u, channel[i])'
    <3>1. PICK m : m = channel[i]
      OBVIOUS
    <3>2. m \in 1..Len(events) /\ channel' = channel
      BY <1>1, <1>2, <3>1, Lengths DEF UserInv, WithinLog, ServerInv, InLog, serverVars
    <3>3. Accounted(u, m) \/ InSocket(u, m)
      BY <1>1, <1>2, <3>1 DEF UserInv, PassedByReceiver
    <3>4. Accounted(u, m)' \/ InSocket(u, m)'
      <4>1. CASE m = c
        <5>1. m \in 1..cursor'[u]
          BY <1>6, <1>7, <4>1, <1>1, LengthsNext
        <5> QED
          BY <1>13, <5>1
      <4>2. CASE m # c
        BY <1>4, <1>12, <3>2, <3>3, <4>2
      <4> QED
        BY <4>1, <4>2
    <3> QED
      BY <3>1, <3>2, <3>4
  <2> QED
    BY <1>2, <2>1 DEF PassedByReceiver
<1> QED
  BY <1>1, <1>2, <1>8, <1>9, <1>10, <1>11, <1>14, <1>15, OneUserStep DEF UserInv

LEMMA SyncPageStep ==
    ASSUME IInv, NEW u \in Users, SyncPage(u)
    PROVE  IInv'
<1>1. TypeOK /\ TypeOK' /\ UserInv(u) /\ ServerInv /\ Grows
  BY TypeStep, SameLogGrows DEF IInv, Next, Realtime, SyncPage, serverVars
<1>2. /\ state[u] = "Syncing"
      /\ UNCHANGED <<serverVars, session, next, lagged, socket, start, cached>>
  BY DEF SyncPage, sessionVars, bootVars
<1>3. PICK page \in SUBSET EventsFor(u), after \in 0..Len(events) :
        /\ IsPage(u, catching[u], page)
        /\ IsNextCursor(page, catching[u], after)
        /\ HandOver(u, page)
        /\ catching' = [catching EXCEPT ![u] = after]
        /\ IF HasMore(u, catching[u], page)
           THEN UNCHANGED <<cursor, state>>
           ELSE /\ cursor' = [cursor EXCEPT ![u] = after]
                /\ state' = [state EXCEPT ![u] = "Online"]
  BY <1>1, SyncPageParts
<1>4. /\ catching'[u] = after
      /\ \A v \in Users \ {u} : catching'[v] = catching[v]
  BY <1>1, <1>3 DEF TypeOK
<1>5. /\ delivered'[u] = delivered[u] \cup page
      /\ \A v \in Users \ {u} : delivered'[v] = delivered[v]
  <2>1. delivered' = [delivered EXCEPT ![u] = @ \cup page]
    BY <1>3 DEF HandOver
  <2> QED
    BY <1>1, <2>1 DEF TypeOK
<1>6. /\ \A v \in Users \ {u} : cursor'[v] = cursor[v] /\ state'[v] = state[v]
      /\ \/ /\ HasMore(u, catching[u], page)
            /\ cursor'[u] = cursor[u] /\ state'[u] = "Syncing"
         \/ /\ ~HasMore(u, catching[u], page)
            /\ cursor'[u] = after /\ state'[u] = "Online"
  <2>1. CASE HasMore(u, catching[u], page)
    BY <1>2, <1>3, <2>1
  <2>2. CASE ~HasMore(u, catching[u], page)
    BY <1>1, <1>3, <2>2 DEF TypeOK
  <2> QED
    BY <2>1, <2>2
<1>7. \A v \in Users \ {u} : Untouched(v)
  BY <1>2, <1>4, <1>5, <1>6 DEF Untouched
<1>8. \A n \in page : n \in 1..Len(events) /\ u \in events[n] /\ n > catching[u]
  BY <1>3 DEF IsPage, EventsFor
<1>9. \A n \in 1..Len(events) : Accounted(u, n) => Accounted(u, n)'
  BY <1>1, <1>2, <1>5, AccountedStays
<1>10. \A n \in 1..Len(events) : n <= catching[u] \/ u \notin events[n] \/ n \in page =>
         Accounted(u, n)'
  <2>1. ASSUME NEW n \in 1..Len(events), n <= catching[u]
        PROVE  Accounted(u, n)'
    <3>1. n \in 1..catching[u]
      BY <1>1, <2>1, Lengths
    <3> QED
      BY <1>1, <1>2, <1>9, <3>1 DEF UserInv, BelowCursor
  <2>2. events' = events
    BY <1>2 DEF serverVars
  <2> QED
    BY <1>5, <2>1, <2>2 DEF Accounted
\* A page leaves nothing out below the position it moves catch_up to.
<1>11. \A n \in 1..after : Accounted(u, n)'
  <2>1. ASSUME NEW n \in 1..after, u \in events[n], n > catching[u], n \notin page
        PROVE  FALSE
    <3>1. n \in 1..Len(events)
      BY <1>1, Lengths
    <3>2. n \in {m \in EventsFor(u) : m > catching[u]} \ page
      BY <2>1, <3>1 DEF EventsFor
    <3>3. after \in page
      BY <1>1, <1>3, <2>1, Lengths DEF IsNextCursor
    <3>4. after < n
      BY <1>3, <3>2, <3>3 DEF IsPage
    <3> QED
      BY <3>4
  <2>2. \A n \in 1..after : n \in 1..Len(events)
    BY <1>1, Lengths
  <2>3. \A n \in 1..after : n <= catching[u] \/ n > catching[u]
    BY <1>1, Lengths
  <2> QED
    BY <1>10, <2>1, <2>2, <2>3
\* The last page leaves nothing out at all.
<1>12. ~HasMore(u, catching[u], page) => \A n \in 1..Len(events) : Accounted(u, n)'
  <2>1. ASSUME ~HasMore(u, catching[u], page), NEW n \in 1..Len(events),
               u \in events[n], n > catching[u]
        PROVE  n \in page
    BY <2>1 DEF HasMore, EventsFor
  <2>2. \A n \in 1..Len(events) : n <= catching[u] \/ n > catching[u]
    BY <1>1, Lengths
  <2> QED
    BY <1>10, <2>1, <2>2
<1>13. WithinLog(u)'
  <2>1. after <= Len(events)
    BY <1>1, Lengths
  <2> QED
    BY <1>1, <1>2, <1>4, <1>5, <1>6, <1>8, <2>1 DEF UserInv, WithinLog, serverVars
<1>14. Connected(u)'
  BY <1>1, <1>2, <1>6 DEF UserInv, Connected
<1>15. Framed(u)'
  BY <1>1, <1>2 DEF UserInv, Framed, serverVars
<1>16. BelowCursor(u)'
  <2>1. \A n \in 1..cursor[u] : Accounted(u, n)'
    <3>1. \A n \in 1..cursor[u] : n \in 1..Len(events)
      BY <1>1, Lengths DEF UserInv, WithinLog
    <3> QED
      BY <1>1, <1>2, <1>9, <3>1 DEF UserInv, BelowCursor, Running
  <2> QED
    BY <1>4, <1>6, <1>11, <2>1 DEF BelowCursor
<1>17. PassedByReceiver(u)'
  <2>1. \A i \in 1..next[u] : channel[i] \in 1..Len(events)
    BY <1>1, Lengths DEF UserInv, WithinLog, ServerInv, InLog
  <2>2. channel' = channel /\ next' = next
    BY <1>2 DEF serverVars
  <2> QED
    BY <1>6, <1>12, <2>1, <2>2 DEF PassedByReceiver
<1> QED
  BY <1>1, <1>2, <1>7, <1>13, <1>14, <1>15, <1>16, <1>17, OneUserStep DEF UserInv

--------------------------------------------------------------------------------
(***************************************************************************)
(* Theorems                                                                *)
(***************************************************************************)

LEMMA InitIInv == Init => IInv
<1> SUFFICES ASSUME Init
             PROVE  IInv
  OBVIOUS
<1>1. TypeOK
  BY DEF Init, TypeOK, ClientState
<1>2. ServerInv
  BY DEF Init, ServerInv, InLog, BroadcastOnce
<1>3. ASSUME NEW u \in Users
      PROVE  UserInv(u)
  BY DEF Init, UserInv, WithinLog, Connected, Framed, BelowCursor, PassedByReceiver
<1> QED
  BY <1>1, <1>2, <1>3 DEF IInv

LEMMA NextIInv == IInv /\ [Next]_vars => IInv'
<1> SUFFICES ASSUME IInv, [Next]_vars
             PROVE  IInv'
  OBVIOUS
<1>1. CASE \E t \in Tasks : Mutate(t) \/ Publish(t)
  BY <1>1, MutateStep, PublishStep
<1>2. ASSUME NEW u \in Users, Session(u)
      PROVE  IInv'
  BY <1>2, SubscribeStep, SendWelcomeStep, ForwardStep, LagStep DEF Session
<1>3. ASSUME NEW u \in Users, Realtime(u)
      PROVE  IInv'
  BY <1>3, ReceiveWelcomeStep, ReceiveEventStep, SyncPageStep, DisconnectedStep,
     ReconnectStep DEF Realtime
<1>4. ASSUME NEW u \in Users, Boot(u)
      PROVE  IInv'
  BY <1>4, BootstrapReadStep, BootstrapCursorStep, RestoreCachedStep DEF Boot
<1>5. ASSUME NEW u \in Users,
             SyncFails(u) \/ SessionEnds(u) \/ Restart(u) \/ RefreshStored(u)
      PROVE  IInv'
  BY <1>5, SyncFailsStep, SessionEndsStep, RestartStep, RefreshStoredStep
<1>6. CASE MutateDropped \/ ServerCrash
  BY <1>6, DroppedStep, ServerCrashStep
<1>7. CASE UNCHANGED vars
  <2>1. TypeOK' /\ Grows
    BY <1>7, TypeStep, SameLogGrows DEF IInv, vars, serverVars
  <2>2. \A u \in Users : Untouched(u)
    BY <1>7 DEF vars, sessionVars, clientVars, bootVars, Untouched
  <2>3. ServerInv'
    BY <1>7 DEF IInv, ServerInv, InLog, BroadcastOnce, vars, serverVars
  <2> QED
    BY <2>1, <2>2, <2>3, UntouchedKeeps DEF IInv, ServerInv
<1> QED
  BY <1>1, <1>2, <1>3, <1>4, <1>5, <1>6, <1>7 DEF Next

THEOREM IInvHolds == Spec => []IInv
  BY InitIInv, NextIInv, PTL DEF Spec

\* A client's cursor passes an undelivered event only for one of the three
\* reasons SkippedOnlyIf names: whatever the number of clients and handlers,
\* the channel capacity and the page size.
THEOREM SkippedOnlyIfHolds == Spec => []SkippedOnlyIf
<1>1. IInv => SkippedOnlyIf
  <2> SUFFICES ASSUME IInv, NEW u \in Users, Running(u), NEW n \in Missing(u)
               PROVE  n <= start[u] \/ Overtaken(n) \/ n \in lagged[u]
    BY DEF SkippedOnlyIf
  <2>1. n \in 1..Len(events) /\ u \in events[n] /\ n <= cursor[u] /\ n \notin delivered[u]
    BY DEF Missing, EventsFor
  <2>2. n \in 1..cursor[u]
    BY <2>1, Lengths DEF IInv
  <2> QED
    BY <2>1, <2>2 DEF IInv, UserInv, BelowCursor, Accounted
<1> QED
  BY <1>1, IInvHolds, PTL

\* Nobody's interface is ever handed an event addressed to others.
THEOREM OnlyRecipientsHolds == Spec => []OnlyRecipients
<1>1. IInv => OnlyRecipients
  BY DEF IInv, UserInv, WithinLog, OnlyRecipients, EventsFor
<1> QED
  BY <1>1, IInvHolds, PTL

--------------------------------------------------------------------------------
(***************************************************************************)
(* What is handed over lies below the cursor                               *)
(***************************************************************************)

\* A client that is online has nothing from above its cursor, although failed
\* catch-ups may have left it some: the welcome frame shows a later cursor then
\* and a new catch-up passes them all.  A catch-up begins at the cursor.
Fresh(u) ==
    /\ state[u] = "Online" => \A n \in delivered[u] : n <= cursor[u]
    /\ state[u] = "Connecting" /\ socket[u] # <<>> =>
         \A n \in delivered[u] : n <= socket[u][1].cursor
    /\ state[u] = "Syncing" => cursor[u] <= catching[u]

FreshInv == \A u \in Users : Fresh(u)

\* CursorNeverRetreats and LiveEventsAreFresh, of one step.
Advances(u) == Running(u) /\ Running(u)' => cursor'[u] >= cursor[u]

Once(u) == state[u] = "Online" => redelivered'[u] \subseteq redelivered[u]

LEMMA SameClientFresh ==
    ASSUME TypeOK, TypeOK', NEW u \in Users, Fresh(u),
           state'[u] = state[u], cursor'[u] = cursor[u], catching'[u] = catching[u],
           delivered'[u] = delivered[u], redelivered'[u] = redelivered[u],
           socket[u] # <<>> => socket'[u] # <<>> /\ socket'[u][1] = socket[u][1],
           socket[u] = <<>> => state[u] # "Connecting" \/ socket'[u] = <<>>
    PROVE  Fresh(u)' /\ Advances(u) /\ Once(u)
<1>1. cursor[u] \in Nat
  BY DEF TypeOK
<1> QED
  BY <1>1 DEF Fresh, Advances, Once

\* The server, and the steps of a session.
LEMMA ServerFresh ==
    ASSUME IInv, TypeOK', FreshInv, NEW u \in Users,
           \/ \E t \in Tasks : Mutate(t) \/ Publish(t)
           \/ MutateDropped \/ ServerCrash \/ UNCHANGED vars
           \/ \E v \in Users : Subscribe(v) \/ Lag(v) \/ SessionEnds(v) \/ RefreshStored(v)
    PROVE  Fresh(u)' /\ Advances(u) /\ Once(u)
<1>1. UNCHANGED <<clientVars, socket>>
  BY DEF Mutate, Publish, MutateDropped, ServerCrash, Subscribe, Lag, SessionEnds,
     RefreshStored, sessionVars, vars
<1>2. TypeOK /\ Fresh(u)
  BY DEF IInv, FreshInv
<1> QED
  BY <1>1, <1>2, SameClientFresh DEF clientVars

LEMMA SendWelcomeFresh ==
    ASSUME IInv, TypeOK', FreshInv, NEW v \in Users, SendWelcome(v), NEW u \in Users
    PROVE  Fresh(u)' /\ Advances(u) /\ Once(u)
<1>1. TypeOK /\ Fresh(u) /\ UserInv(u) /\ UserInv(v)
  BY DEF IInv, FreshInv
<1>2. UNCHANGED <<state, cursor, catching, delivered, redelivered>>
  BY DEF SendWelcome, clientVars
<1>3. socket' = [socket EXCEPT ![v] = <<[kind |-> "Welcome", cursor |-> Len(events)]>>]
  BY DEF SendWelcome
<1>4. CASE u # v
  <2>1. socket'[u] = socket[u]
    BY <1>1, <1>3, <1>4 DEF TypeOK
  <2> QED
    BY <1>1, <1>2, <2>1, SameClientFresh
<1>5. CASE u = v
  <2>1. socket'[u][1].cursor = Len(events)
    BY <1>1, <1>3, <1>5 DEF TypeOK
  <2>2. state[u] = "Connecting"
    BY <1>1, <1>5 DEF SendWelcome, UserInv, Connected
  <2>3. \A n \in delivered[u] : n <= Len(events)
    BY <1>1, Lengths DEF UserInv, WithinLog
  <2>4. cursor[u] \in Nat
    BY <1>1 DEF TypeOK
  <2> QED
    BY <1>2, <2>1, <2>2, <2>3, <2>4 DEF Fresh, Advances, Once
<1> QED
  BY <1>4, <1>5

LEMMA ForwardFresh ==
    ASSUME IInv, TypeOK', FreshInv, NEW v \in Users, Forward(v), NEW u \in Users
    PROVE  Fresh(u)' /\ Advances(u) /\ Once(u)
<1>1. TypeOK /\ Fresh(u) /\ UserInv(u) /\ UserInv(v)
  BY DEF IInv, FreshInv
<1>2. UNCHANGED <<state, cursor, catching, delivered, redelivered>>
  BY DEF Forward, clientVars
<1>3. PICK f : socket' = socket \/ socket' = [socket EXCEPT ![v] = Append(@, f)]
  BY DEF Forward
<1>4. socket'[u] = socket[u] \/ (u = v /\ socket'[u] = Append(socket[u], f))
  BY <1>1, <1>3 DEF TypeOK
<1>5. socket[u] # <<>> => socket'[u] # <<>> /\ socket'[u][1] = socket[u][1]
  <2>1. socket[u] \in Seq(Frame) /\ socket'[u] \in Seq(Frame)
    BY <1>1 DEF TypeOK
  <2>2. CASE socket'[u] = Append(socket[u], f) /\ socket[u] # <<>>
    <3>1. Len(socket[u]) \in Nat \ {0} /\ Len(socket'[u]) = Len(socket[u]) + 1
      BY <2>1, <2>2
    <3>2. socket'[u][1] = socket[u][1]
      BY <2>1, <2>2, <3>1
    <3> QED
      BY <2>1, <3>1, <3>2
  <2> QED
    BY <1>4, <2>2
<1>6. socket[u] = <<>> => state[u] # "Connecting" \/ socket'[u] = <<>>
  BY <1>1, <1>4 DEF Forward, UserInv, Connected
<1> QED
  BY <1>1, <1>2, <1>5, <1>6, SameClientFresh

\* Steps of another client.
LEMMA OtherFresh ==
    ASSUME IInv, TypeOK', FreshInv, NEW v \in Users, NEW u \in Users, u # v,
           Realtime(v) \/ Boot(v) \/ SyncFails(v) \/ Restart(v)
    PROVE  Fresh(u)' /\ Advances(u) /\ Once(u)
<1>1. TypeOK /\ Fresh(u)
  BY DEF IInv, FreshInv
<1>3. SyncPage(v) =>
        \E page, after :
          /\ HandOver(v, page)
          /\ catching' = [catching EXCEPT ![v] = after]
          /\ \/ UNCHANGED <<cursor, state>>
             \/ /\ cursor' = [cursor EXCEPT ![v] = after]
                /\ state' = [state EXCEPT ![v] = "Online"]
          /\ socket' = socket
  <2>1. SyncPage(v) => socket' = socket
    BY DEF SyncPage, sessionVars
  <2> QED
    BY <1>1, <2>1, SyncPageParts
<1>2. /\ state'[u] = state[u] /\ cursor'[u] = cursor[u] /\ catching'[u] = catching[u]
      /\ delivered'[u] = delivered[u] /\ redelivered'[u] = redelivered[u]
      /\ socket'[u] = socket[u]
  <2> USE <1>1 DEF TypeOK, clientVars, sessionVars, HandOver
  <2>1. CASE ReceiveWelcome(v)
    BY <2>1 DEF ReceiveWelcome
  <2>2. CASE ReceiveEvent(v)
    BY <2>2 DEF ReceiveEvent
  <2>3. CASE SyncPage(v)
    <3>1. PICK page, after :
             /\ HandOver(v, page)
             /\ catching' = [catching EXCEPT ![v] = after]
             /\ \/ UNCHANGED <<cursor, state>>
                \/ /\ cursor' = [cursor EXCEPT ![v] = after]
                   /\ state' = [state EXCEPT ![v] = "Online"]
             /\ socket' = socket
      BY <1>3, <2>3
    <3> QED
      BY <3>1
  <2>4. CASE Disconnected(v) \/ Reconnect(v) \/ SyncFails(v) \/ Restart(v)
    BY <2>4 DEF Disconnected, Reconnect, SyncFails, Restart
  <2>5. CASE Boot(v)
    BY <2>5 DEF Boot, BootstrapRead, BootstrapCursor, RestoreCached
  <2> QED
    BY <2>1, <2>2, <2>3, <2>4, <2>5 DEF Realtime
<1> QED
  BY <1>1, <1>2, SameClientFresh

LEMMA ReceiveWelcomeFresh ==
    ASSUME IInv, TypeOK', FreshInv, NEW u \in Users, ReceiveWelcome(u)
    PROVE  Fresh(u)' /\ Advances(u) /\ Once(u)
<1>1. TypeOK /\ Fresh(u) /\ UserInv(u)
  BY DEF IInv, FreshInv
<1>2. /\ state[u] = "Connecting" /\ socket[u] # <<>>
      /\ UNCHANGED <<cursor, delivered, redelivered>>
  BY DEF ReceiveWelcome
<1>3. Head(socket[u]) = socket[u][1] /\ socket[u][1].cursor \in Nat
  <2>1. socket[u] \in Seq(Frame)
    BY <1>1 DEF TypeOK
  <2>2. socket[u][1] \in Frame
    BY <1>2, <2>1
  <2> QED
    BY <1>2, <2>1, <2>2 DEF Frame
<1>4. cursor[u] \in Nat /\ delivered[u] \subseteq Nat
  BY <1>1 DEF TypeOK
<1>5. \A n \in delivered[u] : n <= socket[u][1].cursor
  BY <1>1, <1>2 DEF Fresh
<1>6. CASE socket[u][1].cursor > cursor[u]
  <2>1. state'[u] = "Syncing" /\ catching'[u] = cursor[u]
    BY <1>1, <1>3, <1>6 DEF ReceiveWelcome, TypeOK
  <2> QED
    BY <1>2, <1>4, <2>1 DEF Fresh, Advances, Once
<1>7. CASE ~(socket[u][1].cursor > cursor[u])
  <2>1. state'[u] = "Online"
    BY <1>1, <1>3, <1>7 DEF ReceiveWelcome, TypeOK
  <2>2. \A n \in delivered[u] : n <= cursor[u]
    BY <1>3, <1>4, <1>5, <1>7
  <2> QED
    BY <1>2, <1>4, <2>1, <2>2 DEF Fresh, Advances, Once
<1> QED
  BY <1>6, <1>7

LEMMA ReceiveEventFresh ==
    ASSUME IInv, TypeOK', FreshInv, NEW u \in Users, ReceiveEvent(u)
    PROVE  Fresh(u)' /\ Advances(u) /\ Once(u)
<1>1. TypeOK /\ Fresh(u)
  BY DEF IInv, FreshInv
<1>2. state[u] = "Online" /\ state' = state /\ \A n \in delivered[u] : n <= cursor[u]
  BY <1>1 DEF ReceiveEvent, Fresh
<1>3. PICK c : c = Head(socket[u]).cursor
  OBVIOUS
<1>4. c \in Nat /\ cursor[u] \in Nat /\ delivered[u] \subseteq Nat
  <2>1. socket[u] \in Seq(Frame) /\ socket[u] # <<>>
    BY <1>1 DEF TypeOK, ReceiveEvent
  <2>2. Head(socket[u]) \in Frame
    BY <2>1
  <2> QED
    BY <1>1, <1>3, <2>2 DEF TypeOK, Frame
<1>5. CASE c > cursor[u]
  <2>1. cursor' = [cursor EXCEPT ![u] = c] /\ HandOver(u, {c})
    BY <1>3, <1>5 DEF ReceiveEvent
  <2>2. cursor'[u] = c /\ delivered'[u] = delivered[u] \cup {c}
    BY <1>1, <2>1 DEF HandOver, TypeOK
  <2>3. c \notin delivered[u]
    BY <1>2, <1>4, <1>5
  <2>4. redelivered'[u] = redelivered[u] \cup (delivered[u] \cap {c})
    BY <1>1, <2>1 DEF HandOver, TypeOK
  <2>5. \A n \in delivered'[u] : n <= cursor'[u]
    BY <1>2, <1>4, <1>5, <2>2
  <2>6. Fresh(u)'
    BY <1>2, <2>5 DEF Fresh
  <2>7. Advances(u)
    BY <1>4, <1>5, <2>2 DEF Advances
  <2>8. Once(u)
    BY <2>3, <2>4 DEF Once
  <2> QED
    BY <2>6, <2>7, <2>8
<1>6. CASE ~(c > cursor[u])
  <2>1. UNCHANGED <<cursor, delivered, redelivered>>
    BY <1>3, <1>6 DEF ReceiveEvent
  <2> QED
    BY <1>2, <1>4, <2>1 DEF Fresh, Advances, Once
<1> QED
  BY <1>5, <1>6

LEMMA SyncPageFresh ==
    ASSUME IInv, TypeOK', FreshInv, NEW u \in Users, SyncPage(u)
    PROVE  Fresh(u)' /\ Advances(u) /\ Once(u)
<1>1. TypeOK /\ Fresh(u) /\ UserInv(u)
  BY DEF IInv, FreshInv
<1>2. state[u] = "Syncing" /\ cursor[u] <= catching[u]
  BY <1>1 DEF SyncPage, Fresh
<1>3. PICK page \in SUBSET EventsFor(u), after \in 0..Len(events) :
        /\ IsPage(u, catching[u], page)
        /\ IsNextCursor(page, catching[u], after)
        /\ HandOver(u, page)
        /\ catching' = [catching EXCEPT ![u] = after]
        /\ IF HasMore(u, catching[u], page)
           THEN UNCHANGED <<cursor, state>>
           ELSE /\ cursor' = [cursor EXCEPT ![u] = after]
                /\ state' = [state EXCEPT ![u] = "Online"]
  BY <1>1, SyncPageParts
<1>4. cursor[u] \in Nat /\ catching[u] \in Nat /\ after \in Nat /\ page \subseteq Nat
  BY <1>1, <1>3, Lengths DEF EventsFor
<1>5. catching'[u] = after
  BY <1>1, <1>3 DEF TypeOK
<1>6. delivered'[u] = delivered[u] \cup page
  BY <1>1, <1>3 DEF HandOver, TypeOK
<1>7. catching[u] <= after
  <2>1. \A n \in page : n > catching[u]
    BY <1>3 DEF IsPage
  <2> QED
    BY <1>3, <1>4, <2>1 DEF IsNextCursor
<1>8. CASE HasMore(u, catching[u], page)
  <2>1. UNCHANGED <<cursor, state>>
    BY <1>3, <1>8
  <2> QED
    BY <1>2, <1>4, <1>5, <1>7, <2>1 DEF Fresh, Advances, Once
<1>9. CASE ~HasMore(u, catching[u], page)
  <2>1. cursor'[u] = after /\ state'[u] = "Online"
    BY <1>1, <1>3, <1>9 DEF TypeOK
  <2>2. ASSUME NEW n \in delivered'[u]
        PROVE  n <= after
    <3>1. n \in EventsFor(u) /\ n \in Nat
      BY <1>1, <1>3, <1>6, Lengths DEF UserInv, WithinLog, EventsFor
    <3>2. CASE n <= catching[u]
      BY <1>4, <1>7, <3>1, <3>2
    <3>3. CASE n > catching[u]
      BY <1>3, <1>9, <3>1, <3>3 DEF HasMore, IsNextCursor
    <3> QED
      BY <1>4, <3>1, <3>2, <3>3
  <2> QED
    BY <1>2, <1>4, <1>7, <2>1, <2>2 DEF Fresh, Advances, Once
<1> QED
  BY <1>8, <1>9

\* Connections break, and the client starts: nothing is confirmed yet.
LEMMA OutsideFresh ==
    ASSUME IInv, TypeOK', FreshInv, NEW u \in Users,
           Disconnected(u) \/ Reconnect(u) \/ SyncFails(u) \/ Restart(u) \/ Boot(u)
    PROVE  Fresh(u)' /\ Advances(u) /\ Once(u)
<1>1. TypeOK /\ Fresh(u) /\ UserInv(u)
  BY DEF IInv, FreshInv
<1>2. cursor[u] \in Nat
  BY <1>1 DEF TypeOK
<1>3. CASE Disconnected(u) \/ SyncFails(u)
  <2>1. state'[u] = "Offline" /\ UNCHANGED <<cursor, redelivered>>
    BY <1>1, <1>3 DEF Disconnected, SyncFails, TypeOK
  <2> QED
    BY <1>2, <2>1 DEF Fresh, Advances, Once
<1>4. CASE Reconnect(u)
  <2>1. /\ state'[u] = "Connecting" /\ state[u] = "Offline"
        /\ UNCHANGED <<cursor, redelivered, socket>>
    BY <1>1, <1>4 DEF Reconnect, TypeOK, sessionVars
  <2>2. socket[u] = <<>>
    BY <1>1, <2>1 DEF UserInv, Connected
  <2> QED
    BY <1>2, <2>1, <2>2 DEF Fresh, Advances, Once
<1>5. CASE Restart(u)
  <2>1. state'[u] = "Starting" /\ redelivered'[u] = {} /\ UNCHANGED cursor
    BY <1>1, <1>5 DEF Restart, TypeOK
  <2> QED
    BY <1>2, <2>1 DEF Fresh, Advances, Once
<1>6. CASE Boot(u)
  <2>1. /\ state[u] \in {"Starting", "Bootstrapping"}
        /\ state'[u] \in {"Bootstrapping", "Connecting", "Stranded"} /\ UNCHANGED socket
    BY <1>1, <1>6 DEF Boot, BootstrapRead, BootstrapCursor, RestoreCached, TypeOK, sessionVars
  <2>2. socket[u] = <<>>
    BY <1>1, <2>1 DEF UserInv, Connected
  <2> QED
    BY <2>1, <2>2 DEF Fresh, Advances, Once, Running
<1> QED
  BY <1>3, <1>4, <1>5, <1>6

LEMMA NextFresh ==
    IInv /\ FreshInv /\ [Next]_vars =>
      FreshInv' /\ \A u \in Users : Advances(u) /\ Once(u)
<1> SUFFICES ASSUME IInv, FreshInv, [Next]_vars, NEW u \in Users
             PROVE  Fresh(u)' /\ Advances(u) /\ Once(u)
  BY DEF FreshInv
<1>1. TypeOK'
  BY TypeStep DEF IInv
<1>2. CASE \/ \E t \in Tasks : Mutate(t) \/ Publish(t)
           \/ MutateDropped \/ ServerCrash \/ UNCHANGED vars
  BY <1>1, <1>2, ServerFresh
<1>3. ASSUME NEW v \in Users, Session(v) \/ SessionEnds(v) \/ RefreshStored(v)
      PROVE  Fresh(u)' /\ Advances(u) /\ Once(u)
  BY <1>1, <1>3, ServerFresh, SendWelcomeFresh, ForwardFresh DEF Session
<1>4. ASSUME NEW v \in Users, Realtime(v) \/ Boot(v) \/ SyncFails(v) \/ Restart(v)
      PROVE  Fresh(u)' /\ Advances(u) /\ Once(u)
  <2>1. CASE u # v
    BY <1>1, <1>4, <2>1, OtherFresh
  <2>2. CASE u = v
    BY <1>1, <1>4, <2>2, ReceiveWelcomeFresh, ReceiveEventFresh, SyncPageFresh, OutsideFresh
       DEF Realtime
  <2> QED
    BY <2>1, <2>2
<1> QED
  BY <1>2, <1>3, <1>4 DEF Next

LEMMA FreshHolds == Spec => []FreshInv
<1>1. Init => FreshInv
  BY DEF Init, FreshInv, Fresh
<1> QED
  BY <1>1, NextFresh, IInvHolds, PTL DEF Spec

\* The cursor of a client that keeps running never moves back: not by a page,
\* nor by a live event that was overtaken.
THEOREM CursorAdvances == Spec => CursorNeverRetreats
<1>1. IInv /\ FreshInv /\ [Next]_vars =>
        [\A u \in Users : Running(u) /\ Running(u)' => cursor'[u] >= cursor[u]]_vars
  BY NextFresh DEF Advances
<1> QED
  BY <1>1, IInvHolds, FreshHolds, PTL DEF Spec, CursorNeverRetreats

\* A live event is new to the interface, whatever pages of broken catch-ups
\* have been handed over before.
THEOREM LiveEventsFresh == Spec => LiveEventsAreFresh
<1>1. IInv /\ FreshInv /\ [Next]_vars =>
        [\A u \in Users : state[u] = "Online" => redelivered'[u] \subseteq redelivered[u]]_vars
  BY NextFresh DEF Once
<1> QED
  BY <1>1, IInvHolds, FreshHolds, PTL DEF Spec, LiveEventsAreFresh

--------------------------------------------------------------------------------
(***************************************************************************)
(* EventStream implements EventFeed                                        *)
(*                                                                         *)
(* What a client confirms is accounted for (BelowCursor), which is what    *)
(* the contract asks of a received position; the rest is how the events    *)
(* that nobody will send are held: they become so when their request is    *)
(* dropped, and stop being so with the connection.                         *)
(***************************************************************************)

Held(u) == {n \in EventsFor(u) : Withheld(u, n)}

\* The part of Withheld that speaks of u's connection.
Deaf(u, n) ==
    /\ n > cursor[u]
    /\ session[u] = "Serving"
    /\ \/ state[u] = "Online"
       \/ state[u] = "Connecting" /\ Head(socket[u]).cursor < n

LEMMA HeldDeaf ==
    ASSUME NEW u \in Users
    PROVE  /\ Held(u) = {n \in EventsFor(u) : Unsent(n) /\ Deaf(u, n)}
           /\ Held(u)' = {n \in EventsFor(u)' : Unsent(n)' /\ Deaf(u, n)'}
<1>1. \A n : Withheld(u, n) <=> Unsent(n) /\ Deaf(u, n)
  BY DEF Withheld, Deaf
<1>2. \A n : Withheld(u, n)' <=> Unsent(n)' /\ Deaf(u, n)'
  BY DEF Withheld, Deaf
<1> QED
  BY <1>1, <1>2 DEF Held

\* Only a session that serves holds events back.
LEMMA NotServing ==
    ASSUME NEW u \in Users
    PROVE  /\ session[u] # "Serving" => Held(u) = {}
           /\ session'[u] # "Serving" => Held(u)' = {}
           /\ state[u] \notin {"Online", "Connecting"} => Held(u) = {}
           /\ state'[u] \notin {"Online", "Connecting"} => Held(u)' = {}
<1>1. \A n : Withheld(u, n) => session[u] = "Serving" /\ state[u] \in {"Online", "Connecting"}
  BY DEF Withheld
<1>2. \A n : Withheld(u, n)' =>
        session'[u] = "Serving" /\ state'[u] \in {"Online", "Connecting"}
  BY DEF Withheld
<1> QED
  BY <1>1, <1>2 DEF Held

LEMMA SameHeld ==
    ASSUME NEW u \in Users, UNCHANGED events,
           \A n \in EventsFor(u) : Unsent(n)' <=> Unsent(n),
           \A n \in EventsFor(u) : Deaf(u, n)' <=> Deaf(u, n)
    PROVE  Held(u)' = Held(u)
<1>1. EventsFor(u)' = EventsFor(u)
  BY DEF EventsFor
<1> QED
  BY <1>1, HeldDeaf

LEMMA SameUnsent ==
    ASSUME UNCHANGED <<publishing, channel>>
    PROVE  \A n : Unsent(n)' <=> Unsent(n)
  BY DEF Unsent

LEMMA SameDeaf ==
    ASSUME NEW u \in Users,
           cursor'[u] = cursor[u], session'[u] = session[u],
           state'[u] = state[u], socket'[u] = socket[u]
    PROVE  \A n : Deaf(u, n)' <=> Deaf(u, n)
  BY DEF Deaf

\* A step of u's client or session leaves what others hold.
LEMMA OthersHeld ==
    ASSUME UNCHANGED serverVars, NEW v \in Users, Untouched(v)
    PROVE  Held(v)' = Held(v)
  BY SameHeld, SameUnsent, SameDeaf DEF Untouched, serverVars

\* How the contract's variables are read here.
LEMMA FeedReads ==
    /\ FeedHeld = [u \in Users |-> Held(u)]
    /\ FeedHeld' = [u \in Users |-> Held(u)']
    /\ \A u \in Users : Feed!EventsFor(u) = EventsFor(u)
    /\ \A n : Feed!Overtaken(n) <=> Overtaken(n)
  BY DEF FeedHeld, Held, EventsFor, Feed!EventsFor, Overtaken, Feed!Overtaken

LEMMA SameFeedHeld ==
    ASSUME \A u \in Users : Held(u)' = Held(u)
    PROVE  FeedHeld' = FeedHeld
  BY FeedReads

LEMMA SameFeedUp ==
    ASSUME UNCHANGED state
    PROVE  FeedUp' = FeedUp
  BY DEF FeedUp

\* FeedUp where every user's client but u's is in the same state.
LEMMA UpAfter ==
    ASSUME NEW u \in Users, \A v \in Users \ {u} : state'[v] = state[v],
           NEW ready \in BOOLEAN,
           ready <=> state'[u] \in {"Connecting", "Syncing", "Online", "Offline"}
    PROVE  FeedUp' = [FeedUp EXCEPT ![u] = ready]
<1> DEFINE Up(x) == x \in {"Connecting", "Syncing", "Online", "Offline"}
<1>1. FeedUp = [v \in Users |-> Up(state[v])] /\ FeedUp' = [v \in Users |-> Up(state'[v])]
  BY DEF FeedUp
<1>2. \A x : Up(x) \in BOOLEAN
  OBVIOUS
<1>3. Up(state'[u]) = ready
  OBVIOUS
<1> HIDE DEF Up
<1>4. \A v \in Users : Up(state'[v]) = IF v = u THEN ready ELSE Up(state[v])
  BY <1>3
<1>5. [FeedUp EXCEPT ![u] = ready] = [v \in Users |-> IF v = u THEN ready ELSE Up(state[v])]
  BY <1>1
<1> QED
  BY <1>1, <1>4, <1>5

\* Steps the contract does not see.
Unseen ==
    /\ UNCHANGED <<events, channel, start, cursor, delivered, lagged>>
    /\ FeedUp' = FeedUp /\ FeedHeld' = FeedHeld

LEMMA UnseenStutters == Unseen => UNCHANGED Feed!vars
  BY DEF Unseen, Feed!vars

--------------------------------------------------------------------------------
(***************************************************************************)
(* Steps of the server                                                     *)
(***************************************************************************)

LEMMA AppendBatch ==
    ASSUME TypeOK, NEW k \in Bursts, AppendEvents(k)
    PROVE  \E j \in 1..(MaxEvents - Len(events)) :
             \E batch \in [1..j -> SUBSET Users] : events' = events \o batch
<1>1. k \in Nat \ {0} /\ Len(events) \in Nat /\ Len(events) + k <= MaxEvents
  BY AppendLog, Lengths DEF AppendEvents
<1>2. k \in 1..(MaxEvents - Len(events))
  BY <1>1, BoundsAssumption
<1>3. \E batch \in [1..k -> SUBSET Users] : events' = events \o batch
  BY DEF AppendEvents
<1> QED
  BY <1>2, <1>3

LEMMA MutateFeed ==
    ASSUME IInv, IInv', NEW t \in Tasks, Mutate(t)
    PROVE  Feed!Commit
<1>1. TypeOK
  BY DEF IInv
<1>2. PICK k \in Bursts :
        /\ AppendEvents(k)
        /\ publishing' = [publishing EXCEPT ![t] = [i \in 1..k |-> Len(events) + i]]
  BY DEF Mutate
<1>3. /\ k \in Nat /\ Len(events) \in Nat /\ Len(events') = Len(events) + k
      /\ \A n \in 1..Len(events) : events'[n] = events[n]
  BY <1>1, <1>2, AppendLog, Lengths
<1>4. /\ UNCHANGED <<channel, sessionVars, clientVars, bootVars>>
      /\ publishing[t] = <<>>
  BY DEF Mutate
<1>5. /\ publishing'[t] = [i \in 1..k |-> Len(events) + i]
      /\ \A r \in Tasks \ {t} : publishing'[r] = publishing[r]
  BY <1>1, <1>2 DEF TypeOK
<1>6. \A n \in 1..Len(events) : Unsent(n)' <=> Unsent(n)
  <2>1. ASSUME NEW n \in 1..Len(events)
        PROVE  Unsent(n)' <=> Unsent(n)
    <3>1. \A i \in 1..Len(publishing'[t]) : publishing'[t][i] # n
      BY <1>3, <1>5
    <3>2. \A i \in 1..Len(publishing[t]) : publishing[t][i] # n
      BY <1>4
    <3> QED
      BY <1>4, <1>5, <3>1, <3>2 DEF Unsent
  <2> QED
    BY <2>1
<1>7. \A n \in Len(events) + 1 .. Len(events') : ~Unsent(n)'
  <2>1. ASSUME NEW n \in Len(events) + 1 .. Len(events')
        PROVE  ~Unsent(n)'
    <3>1. n - Len(events) \in 1..k /\ Len(publishing'[t]) = k
      BY <1>3, <1>5
    <3>2. publishing'[t][n - Len(events)] = n
      BY <1>3, <1>5, <3>1
    <3> QED
      BY <3>1, <3>2 DEF Unsent
  <2> QED
    BY <2>1
<1>8. ASSUME NEW u \in Users
      PROVE  Held(u)' = Held(u)
  <2>1. \A n : Deaf(u, n)' <=> Deaf(u, n)
    BY <1>4, SameDeaf DEF sessionVars, clientVars
  <2>2. \A n \in EventsFor(u) : n \in 1..Len(events) /\ n \in EventsFor(u)'
    BY <1>3 DEF EventsFor
  <2>3. \A n \in EventsFor(u)' : n \in EventsFor(u) \/ n \in Len(events) + 1 .. Len(events')
    BY <1>3 DEF EventsFor
  <2> QED
    BY <1>6, <1>7, <2>1, <2>2, <2>3, HeldDeaf
<1>9. PICK S \in SUBSET Users :
         FeedHeld' =
           [u \in Users |->
              IF u \in S
              THEN FeedHeld[u] \cup {n \in Len(events) + 1 .. Len(events') : u \in events'[n]}
              ELSE FeedHeld[u]]
  <2>1. FeedHeld' = [u \in Users |-> FeedHeld[u]]
    BY <1>8, FeedReads
  <2>2. PICK S \in SUBSET Users : S = {}
    OBVIOUS
  <2>3. \A u \in Users : u \notin S
    BY <2>2
  <2> QED
    BY <2>1, <2>3
<1>10. FeedUp' = FeedUp
  BY <1>4, SameFeedUp DEF clientVars
<1> QED
  BY <1>1, <1>2, <1>4, <1>9, <1>10, AppendBatch DEF Feed!Commit, sessionVars, clientVars, bootVars

\* A dropped request holds its events from whoever is past a catch-up.
LEMMA DroppedFeed ==
    ASSUME IInv, IInv', MutateDropped
    PROVE  Feed!Commit
<1>1. TypeOK
  BY DEF IInv
<1>2. PICK k \in Bursts : AppendEvents(k)
  BY DEF MutateDropped
<1>3. /\ k \in Nat /\ Len(events) \in Nat /\ Len(events') = Len(events) + k
      /\ \A n \in 1..Len(events) : events'[n] = events[n]
  BY <1>1, <1>2, AppendLog, Lengths
<1>4. UNCHANGED <<publishing, channel, sessionVars, clientVars, bootVars>>
  BY DEF MutateDropped
<1>5. \A n : Unsent(n)' <=> Unsent(n)
  BY <1>4, SameUnsent
<1>6. \A n \in Len(events) + 1 .. Len(events') : Unsent(n)
  BY <1>3 DEF IInv, ServerInv, InLog, Unsent
<1> DEFINE S == {u \in Users : session[u] = "Serving" /\ state[u] \in {"Online", "Connecting"}}
           New(u) == {n \in Len(events) + 1 .. Len(events') : u \in events'[n]}
<1>7. ASSUME NEW u \in Users
      PROVE  Held(u)' = IF u \in S THEN Held(u) \cup New(u) ELSE Held(u)
  <2>1. \A n : Deaf(u, n)' <=> Deaf(u, n)
    BY <1>4, SameDeaf DEF sessionVars, clientVars
  <2>2. EventsFor(u)' = EventsFor(u) \cup New(u)
    BY <1>3 DEF EventsFor
  <2>3. Held(u)' = Held(u) \cup {n \in New(u) : Deaf(u, n)}
    BY <1>5, <1>6, <2>1, <2>2, HeldDeaf
  <2>4. CASE u \in S
    <3>1. cursor[u] \in Nat /\ cursor[u] <= Len(events) /\ Connected(u) /\ Framed(u)
      BY <1>1 DEF IInv, UserInv, WithinLog, TypeOK
    <3>2. state[u] = "Connecting" =>
            Head(socket[u]).cursor \in Nat /\ Head(socket[u]).cursor <= Len(events)
      <4>1. SUFFICES ASSUME state[u] = "Connecting"
                     PROVE  Head(socket[u]).cursor \in Nat /\ Head(socket[u]).cursor <= Len(events)
        OBVIOUS
      <4>2. socket[u] # <<>> /\ socket[u] \in Seq(Frame)
        BY <1>1, <2>4, <3>1, <4>1 DEF Connected, TypeOK
      <4>3. 1 \in 1..Len(socket[u]) /\ Head(socket[u]) = socket[u][1] /\ socket[u][1] \in Frame
        BY <4>2
      <4>4. socket[u][1].kind = "Welcome"
        BY <3>1, <4>1, <4>3 DEF Connected
      <4> QED
        BY <3>1, <4>3, <4>4 DEF Framed, Frame
    <3>3. \A n \in New(u) : Deaf(u, n)
      BY <1>3, <2>4, <3>1, <3>2 DEF Deaf
    <3> QED
      BY <2>3, <2>4, <3>3
  <2>5. CASE u \notin S
    BY <2>3, <2>5 DEF Deaf
  <2> QED
    BY <2>4, <2>5
<1>8. FeedHeld' = [u \in Users |-> IF u \in S THEN FeedHeld[u] \cup New(u) ELSE FeedHeld[u]]
  BY <1>7, FeedReads
<1>9. S \in SUBSET Users /\ FeedUp' = FeedUp
  BY <1>4, SameFeedUp DEF clientVars
<1> QED
  BY <1>1, <1>2, <1>4, <1>8, <1>9, AppendBatch DEF Feed!Commit, sessionVars, clientVars, bootVars

LEMMA PublishFeed ==
    ASSUME IInv, IInv', NEW t \in Tasks, Publish(t)
    PROVE  Feed!Send
<1>1. PICK c : c = Head(publishing[t])
  OBVIOUS
<1>2. /\ channel' = Append(channel, c) /\ publishing[t] # <<>>
      /\ publishing' = [publishing EXCEPT ![t] = Tail(publishing[t])]
      /\ UNCHANGED <<events, sessionVars, clientVars, bootVars>>
  BY <1>1 DEF Publish
<1>3. publishing[t] \in Seq(Nat) /\ channel \in Seq(Nat) /\ publishing \in [Tasks -> Seq(Nat)]
  BY DEF IInv, TypeOK
<1>4. /\ 1 \in 1..Len(publishing[t]) /\ publishing[t][1] = c
      /\ Len(Tail(publishing[t])) = Len(publishing[t]) - 1
      /\ \A i \in 1..Len(Tail(publishing[t])) : Tail(publishing[t])[i] = publishing[t][i + 1]
  BY <1>1, <1>2, <1>3
<1>5. c \in 1..Len(events) /\ \A i \in 1..Len(channel) : channel[i] # c
  BY <1>4 DEF IInv, ServerInv, InLog, BroadcastOnce
<1>6. \A n : Unsent(n)' <=> Unsent(n)
  <2>1. ASSUME NEW n
        PROVE  Unsent(n)' <=> Unsent(n)
    <3>1. (\E i \in 1..Len(channel') : channel'[i] = n)
            <=> (n = c \/ \E i \in 1..Len(channel) : channel[i] = n)
      <4>1. /\ Len(channel') = Len(channel) + 1 /\ channel'[Len(channel) + 1] = c
            /\ \A i \in 1..Len(channel) : channel'[i] = channel[i]
            /\ Len(channel) \in Nat
        BY <1>2, <1>3, <1>5
      <4> QED
        BY <4>1
    <3>2. (\E i \in 1..Len(publishing[t]) : publishing[t][i] = n)
            <=> (n = c \/ \E i \in 1..Len(Tail(publishing[t])) : Tail(publishing[t])[i] = n)
      <4>1. Len(publishing[t]) \in Nat
        BY <1>3
      <4>2. \A i \in 1..Len(publishing[t]) : i = 1 \/ i - 1 \in 1..Len(Tail(publishing[t]))
        BY <1>4, <4>1
      <4>3. \A i \in 1..Len(Tail(publishing[t])) : i + 1 \in 1..Len(publishing[t])
        BY <1>4, <4>1
      <4>4. ASSUME NEW i \in 1..Len(publishing[t]), publishing[t][i] = n
            PROVE  n = c \/ \E j \in 1..Len(Tail(publishing[t])) : Tail(publishing[t])[j] = n
        <5>1. CASE i = 1
          BY <1>4, <4>4, <5>1
        <5>2. CASE i - 1 \in 1..Len(Tail(publishing[t]))
          <6>1. Tail(publishing[t])[i - 1] = publishing[t][(i - 1) + 1]
            BY <1>4, <5>2
          <6>2. (i - 1) + 1 = i
            OBVIOUS
          <6> QED
            BY <4>4, <5>2, <6>1, <6>2
        <5> QED
          BY <4>2, <5>1, <5>2
      <4>5. ASSUME NEW j \in 1..Len(Tail(publishing[t])), Tail(publishing[t])[j] = n
            PROVE  \E i \in 1..Len(publishing[t]) : publishing[t][i] = n
        BY <1>4, <4>3, <4>5
      <4> QED
        BY <1>4, <4>4, <4>5
    <3>3. publishing'[t] = Tail(publishing[t]) /\ \A r \in Tasks \ {t} : publishing'[r] = publishing[r]
      BY <1>2, <1>3
    <3> QED
      BY <3>1, <3>2, <3>3 DEF Unsent
  <2> QED
    BY <2>1
<1>7. \A u \in Users : Held(u)' = Held(u)
  <2>1. ASSUME NEW u \in Users
        PROVE  Held(u)' = Held(u)
    <3>1. \A n : Deaf(u, n)' <=> Deaf(u, n)
      BY <1>2, SameDeaf DEF sessionVars, clientVars
    <3> QED
      BY <1>2, <1>6, <3>1, SameHeld
  <2> QED
    BY <2>1
<1>8. FeedHeld' = FeedHeld /\ FeedUp' = FeedUp
  BY <1>2, <1>7, SameFeedHeld, SameFeedUp DEF clientVars
<1> QED
  BY <1>2, <1>5, <1>8 DEF Feed!Send, sessionVars, clientVars, bootVars

LEMMA CrashFeed ==
    ASSUME IInv, ServerCrash
    PROVE  Feed!Renew
<1>1. /\ session' = [u \in Users |-> "Closed"]
      /\ UNCHANGED <<events, channel, next, lagged, socket, clientVars, bootVars>>
  BY DEF ServerCrash
<1>2. \A u \in Users : Held(u)' = {}
  BY <1>1, NotServing
<1>3. FeedHeld' = [u \in Users |-> IF u \in Users THEN {} ELSE FeedHeld[u]]
  BY <1>2, FeedReads
<1>4. FeedUp' = FeedUp
  BY <1>1, SameFeedUp DEF clientVars
<1> QED
  BY <1>1, <1>3, <1>4 DEF Feed!Renew, clientVars, bootVars

--------------------------------------------------------------------------------
(***************************************************************************)
(* Steps of one session or client                                          *)
(***************************************************************************)

\* What u's step may do to what is held: only u's part changes.
LEMMA HeldAfter ==
    ASSUME TypeOK, TypeOK', NEW u \in Users, UNCHANGED <<events, publishing, channel>>,
           \A v \in Users \ {u} : Untouched(v),
           NEW H, Held(u)' = H
    PROVE  FeedHeld' = [FeedHeld EXCEPT ![u] = H]
<1>1. \A v \in Users \ {u} : Held(v)' = Held(v)
  BY OthersHeld DEF serverVars
<1> QED
  BY <1>1, FeedReads

LEMMA SubscribeFeed ==
    ASSUME IInv, TypeOK', NEW u \in Users, Subscribe(u)
    PROVE  Unseen
<1>1. TypeOK /\ UNCHANGED <<events, publishing, channel, clientVars, bootVars, lagged, socket>>
  BY DEF Subscribe, serverVars, IInv
<1>2. \A v \in Users \ {u} : Untouched(v)
  BY <1>1 DEF Subscribe, Untouched, TypeOK, clientVars, bootVars
<1>3. session[u] = "Closed" /\ session'[u] = "Subscribed"
  BY <1>1 DEF Subscribe, TypeOK
<1>4. Held(u)' = Held(u)
  BY <1>3, NotServing
<1> QED
  BY <1>1, <1>2, <1>4, OthersHeld, SameFeedHeld, SameFeedUp DEF Unseen, clientVars, bootVars, serverVars

LEMMA SendWelcomeFeed ==
    ASSUME IInv, TypeOK', NEW u \in Users, SendWelcome(u)
    PROVE  Unseen
<1>1. TypeOK /\ UNCHANGED <<events, publishing, channel, clientVars, bootVars, lagged>>
  BY DEF SendWelcome, serverVars, IInv
<1>2. \A v \in Users \ {u} : Untouched(v)
  BY <1>1, SMTT(30) DEF SendWelcome, Untouched, TypeOK, clientVars, bootVars
<1>3. /\ session[u] = "Subscribed" /\ state'[u] = "Connecting"
      /\ socket'[u] = <<[kind |-> "Welcome", cursor |-> Len(events)]>>
  BY <1>1 DEF SendWelcome, TypeOK, IInv, UserInv, Connected, clientVars
<1>4. Head(socket'[u]).cursor = Len(events)
  BY <1>3
<1>5. \A n \in EventsFor(u)' : ~Deaf(u, n)'
  BY <1>1, <1>3, <1>4, Lengths DEF Deaf, EventsFor
<1>6. Held(u)' = {} /\ Held(u) = {}
  BY <1>3, <1>5, HeldDeaf, NotServing
<1> QED
  BY <1>1, <1>2, <1>6, OthersHeld, SameFeedHeld, SameFeedUp DEF Unseen, clientVars, bootVars, serverVars

LEMMA ForwardFeed ==
    ASSUME IInv, TypeOK', NEW u \in Users, Forward(u)
    PROVE  Unseen
<1>1. TypeOK /\ UNCHANGED <<events, publishing, channel, clientVars, bootVars, lagged, session>>
  BY DEF Forward, serverVars, IInv
<1>2. PICK f : socket' = socket \/ socket' = [socket EXCEPT ![u] = Append(socket[u], f)]
  BY DEF Forward
<1>3. \A v \in Users \ {u} : Untouched(v)
  <2>1. \A v \in Users \ {u} : next'[v] = next[v]
    BY <1>1 DEF Forward, TypeOK
  <2> QED
    BY <1>1, <1>2, <2>1 DEF Untouched, TypeOK, clientVars, bootVars
<1>4. state[u] = "Connecting" => Head(socket'[u]) = Head(socket[u])
  <2>1. state[u] = "Connecting" => socket[u] # <<>>
    BY DEF Forward, IInv, UserInv, Connected
  <2>2. socket[u] \in Seq(Frame) /\ socket'[u] \in Seq(Frame)
    BY <1>1 DEF TypeOK
  <2>3. socket'[u] = socket[u] \/ socket'[u] = Append(socket[u], f)
    BY <1>1, <1>2 DEF TypeOK
  <2>4. CASE socket'[u] = Append(socket[u], f) /\ socket[u] # <<>>
    <3>1. Len(socket[u]) \in Nat \ {0} /\ Len(socket'[u]) = Len(socket[u]) + 1
      BY <2>2, <2>4
    <3>2. socket'[u][1] = socket[u][1]
      BY <2>2, <2>4, <3>1
    <3> QED
      BY <2>2, <2>4, <3>1, <3>2
  <2> QED
    BY <2>1, <2>3, <2>4
<1>5. \A n : Deaf(u, n)' <=> Deaf(u, n)
  BY <1>1, <1>4 DEF Deaf, clientVars
<1>6. Held(u)' = Held(u)
  BY <1>1, <1>5, SameHeld, SameUnsent
<1> QED
  BY <1>1, <1>3, <1>6, OthersHeld, SameFeedHeld, SameFeedUp DEF Unseen, clientVars, bootVars, serverVars

LEMMA LagFeed ==
    ASSUME IInv, TypeOK', NEW u \in Users, Lag(u)
    PROVE  Feed!FallBehind(u)
<1>1. TypeOK /\ UNCHANGED <<events, publishing, channel, clientVars, bootVars, socket, session>>
  BY DEF Lag, serverVars, IInv
<1>2. PICK ns : /\ lagged' = [lagged EXCEPT ![u] = @ \cup ns]
                /\ ns = {channel[i] : i \in next[u] + 1 .. Len(channel) - Capacity}
  BY DEF Lag
<1>3. ns \in SUBSET {channel[i] : i \in 1..Len(channel)}
  <2>1. next[u] \in Nat /\ Len(channel) \in Nat /\ Capacity \in Nat
    BY <1>1, Lengths, CapacityAssumption
  <2> QED
    BY <1>2, <2>1
<1>4. \A v \in Users : Held(v)' = Held(v)
  BY <1>1, SameHeld, SameUnsent, SameDeaf DEF clientVars
<1>5. FeedHeld' = FeedHeld /\ FeedUp' = FeedUp
  BY <1>1, <1>4, SameFeedHeld, SameFeedUp DEF clientVars
<1> QED
  BY <1>1, <1>2, <1>3, <1>5 DEF Feed!FallBehind, clientVars, bootVars

\* A connection ends on the server: nothing is held from u any more.
LEMMA SessionEndsFeed ==
    ASSUME IInv, TypeOK', NEW u \in Users, SessionEnds(u)
    PROVE  Feed!Renew
<1>1. TypeOK /\ UNCHANGED <<events, publishing, channel, clientVars, bootVars, lagged, socket, next>>
  BY DEF SessionEnds, serverVars, IInv
<1>2. session'[u] = "Closed" /\ \A v \in Users \ {u} : Untouched(v)
  BY <1>1 DEF SessionEnds, Untouched, TypeOK, clientVars, bootVars
<1>3. Held(u)' = {}
  BY <1>2, NotServing
<1>4. \A v \in Users \ {u} : Held(v)' = Held(v)
  BY <1>1, <1>2, OthersHeld DEF serverVars
<1>5. FeedHeld' = [v \in Users |-> IF v \in {u} THEN {} ELSE FeedHeld[v]]
  BY <1>3, <1>4, FeedReads
<1>6. {u} \in SUBSET Users /\ FeedUp' = FeedUp
  BY <1>1, SameFeedUp DEF clientVars
<1> QED
  BY <1>1, <1>5, <1>6 DEF Feed!Renew, clientVars, bootVars

\* The welcome frame: a catch-up will bring what is held.
LEMMA ReceiveWelcomeFeed ==
    ASSUME IInv, TypeOK', NEW u \in Users, ReceiveWelcome(u)
    PROVE  Feed!Renew \/ Unseen
<1>1. /\ TypeOK
      /\ UNCHANGED <<events, publishing, channel, session, next, lagged, cursor, delivered, bootVars>>
  BY DEF ReceiveWelcome, serverVars, IInv
<1>2. \A v \in Users \ {u} : Untouched(v)
  <2>1. \A v \in Users \ {u} : state'[v] = state[v] /\ catching'[v] = catching[v]
    BY <1>1 DEF ReceiveWelcome, TypeOK
  <2>2. \A v \in Users \ {u} : socket'[v] = socket[v]
    BY <1>1 DEF ReceiveWelcome, TypeOK
  <2> QED
    BY <1>1, <2>1, <2>2 DEF Untouched, bootVars
<1>3. FeedUp' = FeedUp
  <2>1. state[u] = "Connecting" /\ state'[u] \in {"Syncing", "Online"}
    BY <1>1 DEF ReceiveWelcome, TypeOK
  <2> QED
    BY <1>2, <2>1 DEF FeedUp, Untouched
<1>4. Head(socket[u]).cursor \in Nat /\ cursor[u] \in Nat
  <2>1. socket[u] \in Seq(Frame) /\ socket[u] # <<>>
    BY <1>1 DEF TypeOK, ReceiveWelcome
  <2>2. Head(socket[u]) \in Frame
    BY <2>1
  <2> QED
    BY <1>1, <2>2 DEF Frame, TypeOK
<1>5. \A v \in Users \ {u} : Held(v)' = Held(v)
  BY <1>1, <1>2, OthersHeld DEF serverVars
<1>6. CASE Head(socket[u]).cursor > cursor[u]
  <2>1. state'[u] = "Syncing"
    BY <1>1, <1>6 DEF ReceiveWelcome, TypeOK
  <2>2. Held(u)' = {}
    BY <2>1, NotServing
  <2>3. FeedHeld' = [v \in Users |-> IF v \in {u} THEN {} ELSE FeedHeld[v]]
    BY <1>5, <2>2, FeedReads
  <2>4. {u} \in SUBSET Users
    OBVIOUS
  <2> QED
    BY <1>1, <1>3, <2>3, <2>4 DEF Feed!Renew, bootVars
<1>7. CASE ~(Head(socket[u]).cursor > cursor[u])
  <2>1. state[u] = "Connecting" /\ state'[u] = "Online"
    BY <1>1, <1>7 DEF ReceiveWelcome, TypeOK
  <2>2. \A n \in EventsFor(u) : Deaf(u, n)' <=> Deaf(u, n)
    BY <1>1, <1>4, <1>7, <2>1 DEF Deaf, EventsFor
  <2>3. Held(u)' = Held(u)
    BY <1>1, <2>2, SameHeld, SameUnsent
  <2> QED
    BY <1>1, <1>3, <1>5, <2>3, SameFeedHeld DEF Unseen, bootVars
<1> QED
  BY <1>6, <1>7

\* What a client confirms it has received, or it is excused.
LEMMA ReceiveFeed ==
    ASSUME IInv, IInv', NEW u \in Users, cursor'[u] >= cursor[u],
           state[u] \in {"Syncing", "Online"}, state'[u] \in {"Syncing", "Online"},
           UNCHANGED <<serverVars, session, next, lagged, bootVars>>,
           \A v \in Users \ {u} : Untouched(v),
           NEW ns \in SUBSET EventsFor(u),
           delivered' = [delivered EXCEPT ![u] = @ \cup ns],
           Held(u)' = {n \in Held(u) : n > cursor'[u]}
    PROVE  Feed!Receive(u)
<1>1. TypeOK /\ TypeOK' /\ delivered'[u] = delivered[u] \cup ns
  BY DEF IInv, TypeOK
<1>2. PICK position : position = cursor'[u]
  OBVIOUS
<1>3. cursor' = [cursor EXCEPT ![u] = position]
  BY <1>1, <1>2 DEF Untouched, TypeOK
<1>4. position \in cursor[u]..Len(events)
  <2>1. cursor[u] \in Nat /\ cursor'[u] \in Nat /\ Len(events) \in Nat
    BY <1>1, Lengths, LengthsNext
  <2>2. cursor'[u] <= Len(events)
    BY DEF IInv, UserInv, WithinLog, serverVars
  <2> QED
    BY <1>2, <2>1, <2>2
<1>5. ASSUME NEW n \in EventsFor(u), n <= position
      PROVE  n \in delivered[u] \cup ns \/ Feed!Excused(u, n)
  <2>1. n \in 1..cursor'[u] /\ u \in events[n]
    BY <1>2, <1>4, <1>5, <1>1, LengthsNext DEF EventsFor
  <2>2. Accounted(u, n)'
    BY <2>1 DEF IInv, UserInv, BelowCursor, Running
  <2>3. Overtaken(n)' <=> Overtaken(n)
    BY DEF Overtaken, serverVars
  <2> QED
    BY <1>1, <2>1, <2>2, <2>3, FeedReads DEF Accounted, Feed!Excused, serverVars, bootVars
<1>6. FeedHeld' = [FeedHeld EXCEPT ![u] = {n \in @ : n > position}]
  <2>1. Held(u)' = {n \in FeedHeld[u] : n > position}
    BY <1>2, FeedReads
  <2>2. FeedHeld' = [FeedHeld EXCEPT ![u] = {n \in FeedHeld[u] : n > position}]
    BY <1>1, <2>1, HeldAfter DEF serverVars
  <2> QED
    BY <2>2
<1>7. FeedUp[u] /\ FeedUp' = FeedUp
  <2>1. FeedUp[u] = TRUE
    BY DEF FeedUp
  <2>2. FeedUp' = [FeedUp EXCEPT ![u] = TRUE]
    BY UpAfter DEF Untouched
  <2>3. [FeedUp EXCEPT ![u] = FeedUp[u]] = FeedUp
    BY DEF FeedUp
  <2> QED
    BY <2>1, <2>2, <2>3
<1>8. Feed!EventsFor(u) = EventsFor(u)
  BY FeedReads
<1> QED
  BY <1>3, <1>4, <1>5, <1>6, <1>7, <1>8 DEF Feed!Receive, serverVars, bootVars

LEMMA ReceiveEventFeed ==
    ASSUME IInv, IInv', NEW u \in Users, ReceiveEvent(u), cursor'[u] >= cursor[u]
    PROVE  Feed!Receive(u) \/ Unseen
<1>1. /\ TypeOK /\ state[u] = "Online"
      /\ UNCHANGED <<serverVars, session, next, lagged, state, catching, bootVars>>
  BY DEF ReceiveEvent, IInv
<1>2. PICK c : c = Head(socket[u]).cursor
  OBVIOUS
<1>3. \A v \in Users \ {u} : Untouched(v)
  <2>1. \A v \in Users \ {u} : socket'[v] = socket[v]
    BY <1>1 DEF ReceiveEvent, TypeOK
  <2>2. \A v \in Users \ {u} : cursor'[v] = cursor[v] /\ delivered'[v] = delivered[v]
    <3>1. \/ UNCHANGED <<cursor, delivered>>
          \/ /\ cursor' = [cursor EXCEPT ![u] = c]
             /\ delivered' = [delivered EXCEPT ![u] = @ \cup {c}]
      BY <1>2 DEF ReceiveEvent, HandOver
    <3> QED
      BY <1>1, <3>1 DEF TypeOK
  <2> QED
    BY <1>1, <2>1, <2>2 DEF Untouched, bootVars
<1>4. cursor[u] \in Nat /\ cursor'[u] \in Nat
  BY Lengths, LengthsNext DEF IInv
<1>5. Held(u)' = {n \in Held(u) : n > cursor'[u]}
  <2>1. \A n \in EventsFor(u) : n \in Nat
    BY DEF EventsFor
  <2>2. \A n \in EventsFor(u) : Deaf(u, n)' <=> Deaf(u, n) /\ n > cursor'[u]
    BY <1>1, <1>4, <2>1 DEF Deaf
  <2>3. EventsFor(u)' = EventsFor(u)
    BY <1>1 DEF EventsFor, serverVars
  <2> QED
    BY <1>1, <2>2, <2>3, HeldDeaf, SameUnsent DEF serverVars
<1>6. CASE c > cursor[u]
  <2>1. delivered' = [delivered EXCEPT ![u] = @ \cup {c}]
    BY <1>2, <1>6 DEF ReceiveEvent, HandOver
  <2>2. {c} \in SUBSET EventsFor(u)
    <3>1. c \in delivered'[u]
      BY <1>1, <2>1 DEF TypeOK
    <3>2. c \in 1..Len(events') /\ u \in events'[c]
      BY <3>1 DEF IInv, UserInv, WithinLog
    <3> QED
      BY <1>1, <3>2 DEF EventsFor, serverVars
  <2> QED
    BY <1>1, <1>3, <1>5, <2>1, <2>2, ReceiveFeed
<1>7. CASE ~(c > cursor[u])
  <2>1. UNCHANGED <<cursor, delivered>>
    BY <1>2, <1>7 DEF ReceiveEvent
  <2>2. Held(u)' = Held(u)
    BY <1>5, <2>1, HeldDeaf DEF Deaf
  <2>3. FeedHeld' = FeedHeld
    BY <1>1, <1>3, <2>2, OthersHeld, SameFeedHeld
  <2> QED
    BY <1>1, <2>1, <2>3, SameFeedUp DEF Unseen, serverVars, bootVars
<1> QED
  BY <1>6, <1>7

LEMMA SyncPageFeed ==
    ASSUME IInv, IInv', NEW u \in Users, SyncPage(u), cursor'[u] >= cursor[u]
    PROVE  Feed!Receive(u)
<1>1. /\ TypeOK /\ state[u] = "Syncing"
      /\ UNCHANGED <<serverVars, session, next, lagged, socket, bootVars>>
  BY DEF SyncPage, IInv, sessionVars
<1>2. PICK page \in SUBSET EventsFor(u), after \in 0..Len(events) :
        /\ IsNextCursor(page, catching[u], after)
        /\ HandOver(u, page)
        /\ catching' = [catching EXCEPT ![u] = after]
        /\ IF HasMore(u, catching[u], page)
           THEN UNCHANGED <<cursor, state>>
           ELSE /\ cursor' = [cursor EXCEPT ![u] = after]
                /\ state' = [state EXCEPT ![u] = "Online"]
        /\ IsPage(u, catching[u], page)
  BY <1>1, SyncPageParts
<1>3. delivered' = [delivered EXCEPT ![u] = @ \cup page]
  BY <1>2 DEF HandOver
<1>4. \A v \in Users \ {u} : Untouched(v)
  <2>1. \A v \in Users \ {u} : cursor'[v] = cursor[v] /\ state'[v] = state[v]
    BY <1>1, <1>2 DEF TypeOK
  <2>2. \A v \in Users \ {u} : catching'[v] = catching[v] /\ delivered'[v] = delivered[v]
    BY <1>1, <1>2, <1>3 DEF TypeOK
  <2> QED
    BY <1>1, <2>1, <2>2 DEF Untouched, bootVars
<1>5. Held(u) = {}
  BY <1>1, NotServing
<1>6. Held(u)' = {} /\ state'[u] \in {"Syncing", "Online"}
  <2>1. CASE HasMore(u, catching[u], page)
    <3>1. state'[u] = "Syncing"
      BY <1>1, <1>2, <2>1
    <3> QED
      BY <3>1, NotServing
  <2>2. CASE ~HasMore(u, catching[u], page)
    <3>1. cursor'[u] = after /\ state'[u] = "Online"
      BY <1>1, <1>2, <2>2 DEF TypeOK
    <3>2. catching[u] \in Nat /\ after \in Nat
      BY <1>1, Lengths
    <3>3. \A m \in page : m > catching[u]
      BY <1>2 DEF IsPage
    <3>4. catching[u] <= after
      BY <1>2, <3>2, <3>3 DEF IsNextCursor
    <3>5. ASSUME NEW n \in EventsFor(u)
          PROVE  n <= after
      <4>1. n \in Nat
        BY DEF EventsFor
      <4>2. n \in page \/ n <= catching[u]
        BY <2>2, <3>2, <4>1 DEF HasMore
      <4> QED
        BY <1>2, <3>2, <3>4, <4>1, <4>2 DEF IsNextCursor
    <3>6. \A n \in EventsFor(u)' : n \in Nat /\ n <= after
      BY <1>1, <3>5 DEF EventsFor, serverVars
    <3>7. \A n \in EventsFor(u)' : ~Deaf(u, n)'
      BY <3>1, <3>2, <3>6 DEF Deaf
    <3> QED
      BY <3>1, <3>7, HeldDeaf
  <2> QED
    BY <2>1, <2>2
<1>7. Held(u)' = {n \in Held(u) : n > cursor'[u]}
  BY <1>5, <1>6
<1> QED
  BY <1>1, <1>3, <1>4, <1>6, <1>7, ReceiveFeed

\* Broken connections, and a newer bootstrap in the cache.
LEMMA BrokenFeed ==
    ASSUME IInv, TypeOK', NEW u \in Users,
           SyncFails(u) \/ Disconnected(u) \/ Reconnect(u) \/ RefreshStored(u)
    PROVE  Unseen
<1>1. TypeOK /\ UNCHANGED <<events, publishing, channel, next, lagged, cursor, delivered, base, start>>
  BY DEF SyncFails, Disconnected, Reconnect, RefreshStored, serverVars, sessionVars, clientVars,
     bootVars, IInv
<1>2. \A v \in Users \ {u} :
        /\ cursor'[v] = cursor[v] /\ session'[v] = session[v]
        /\ state'[v] = state[v] /\ socket'[v] = socket[v]
  <2>1. CASE SyncFails(u)
    BY <1>1, <2>1 DEF SyncFails, TypeOK
  <2>2. CASE Disconnected(u) \/ Reconnect(u)
    BY <1>1, <2>2 DEF Disconnected, Reconnect, TypeOK, sessionVars
  <2>3. CASE RefreshStored(u)
    BY <2>3 DEF RefreshStored, sessionVars, clientVars
  <2> QED
    BY <2>1, <2>2, <2>3
<1>3. Held(u)' = Held(u) /\ FeedUp' = FeedUp
  <2>1. CASE SyncFails(u)
    <3>1. state[u] = "Syncing" /\ state'[u] = "Offline"
      BY <1>1, <2>1 DEF SyncFails, TypeOK
    <3> QED
      BY <1>2, <3>1, NotServing DEF FeedUp
  <2>2. CASE Disconnected(u)
    <3>1. state[u] \in {"Online", "Connecting"} /\ state'[u] = "Offline" /\ session[u] = "Closed"
      BY <1>1, <2>2 DEF Disconnected, TypeOK
    <3> QED
      BY <1>2, <3>1, NotServing DEF FeedUp
  <2>3. CASE Reconnect(u)
    <3>1. state[u] = "Offline" /\ state'[u] = "Connecting" /\ session' = session
      BY <1>1, <2>3 DEF Reconnect, TypeOK, sessionVars
    <3>2. session[u] = "Closed"
      BY <3>1 DEF IInv, UserInv, Connected
    <3> QED
      BY <1>2, <3>1, <3>2, NotServing DEF FeedUp
  <2>4. CASE RefreshStored(u)
    <3>1. UNCHANGED <<sessionVars, clientVars>>
      BY <2>4 DEF RefreshStored
    <3> QED
      BY <1>1, <3>1, SameHeld, SameUnsent, SameDeaf, SameFeedUp DEF sessionVars, clientVars
  <2> QED
    BY <2>1, <2>2, <2>3, <2>4
<1>4. \A v \in Users \ {u} : Held(v)' = Held(v)
  BY <1>1, <1>2, SameHeld, SameUnsent, SameDeaf
<1> QED
  BY <1>1, <1>3, <1>4, SameFeedHeld DEF Unseen

LEMMA RestartFeed ==
    ASSUME IInv, TypeOK', NEW u \in Users, Restart(u)
    PROVE  Feed!Stop(u)
<1>1. TypeOK /\ UNCHANGED <<serverVars, next, cursor, catching, bootVars>>
  BY DEF Restart, IInv
<1>2. /\ state' = [state EXCEPT ![u] = "Starting"]
      /\ delivered' = [delivered EXCEPT ![u] = {}]
      /\ lagged' = [lagged EXCEPT ![u] = {}]
      /\ session'[u] = "Closed"
  BY <1>1 DEF Restart, TypeOK
<1>3. \A v \in Users \ {u} : Untouched(v)
  BY <1>1, SMTT(30) DEF Restart, Untouched, TypeOK, bootVars
<1>4. Held(u)' = {}
  BY <1>2, NotServing
<1>5. FeedHeld' = [FeedHeld EXCEPT ![u] = {}]
  BY <1>1, <1>3, <1>4, HeldAfter DEF serverVars
<1>6. FeedUp' = [FeedUp EXCEPT ![u] = FALSE]
  <2>1. state'[u] = "Starting" /\ \A v \in Users \ {u} : state'[v] = state[v]
    BY <1>1, <1>2 DEF TypeOK
  <2> QED
    BY <2>1, UpAfter
<1> QED
  BY <1>1, <1>2, <1>5, <1>6 DEF Feed!Stop, serverVars, bootVars

LEMMA BootFeed ==
    ASSUME IInv, IInv', NEW u \in Users, Boot(u)
    PROVE  Feed!Start(u) \/ Unseen
<1>1. TypeOK /\ TypeOK' /\ UNCHANGED <<serverVars, sessionVars, catching, delivered>>
  BY DEF Boot, BootstrapRead, BootstrapCursor, RestoreCached, IInv
<1>2. state[u] \in {"Starting", "Bootstrapping"} /\ session[u] = "Closed" /\ session' = session
  BY <1>1 DEF Boot, BootstrapRead, BootstrapCursor, RestoreCached, IInv, UserInv, Connected,
     sessionVars
<1>3. Held(u)' = {} /\ Held(u) = {}
  BY <1>2, NotServing
<1>4. \A v \in Users \ {u} :
        cursor'[v] = cursor[v] /\ state'[v] = state[v] /\ session'[v] = session[v]
        /\ socket'[v] = socket[v]
  BY <1>1 DEF Boot, BootstrapRead, BootstrapCursor, RestoreCached, TypeOK, sessionVars
<1>5. \A v \in Users : Held(v)' = Held(v)
  BY <1>1, <1>3, <1>4, SameHeld, SameUnsent, SameDeaf DEF serverVars
<1>6. FeedHeld' = FeedHeld /\ ~FeedUp[u]
  BY <1>2, <1>5, SameFeedHeld DEF FeedUp
<1>7. PICK ready \in BOOLEAN : FeedUp' = [FeedUp EXCEPT ![u] = ready]
  <2>1. PICK ready \in BOOLEAN :
          ready <=> state'[u] \in {"Connecting", "Syncing", "Online", "Offline"}
    OBVIOUS
  <2> QED
    BY <1>4, <2>1, UpAfter
<1>8. CASE BootstrapRead(u)
  <2>1. state'[u] = "Bootstrapping"
    BY <1>1, <1>8 DEF BootstrapRead, TypeOK
  <2>2. FeedUp' = FeedUp
    BY <1>2, <1>4, <2>1 DEF FeedUp
  <2> QED
    BY <1>1, <1>6, <1>8, <2>2 DEF BootstrapRead, Unseen, serverVars, sessionVars
<1>9. CASE BootstrapCursor(u) \/ RestoreCached(u)
  <2>1. PICK p : /\ start' = [start EXCEPT ![u] = p]
                 /\ cursor' = [cursor EXCEPT ![u] = p]
    BY <1>9 DEF BootstrapCursor, RestoreCached
  <2>2. p \in 0..Len(events)
    <3>1. start'[u] = p /\ start'[u] \in Nat /\ start'[u] <= Len(events')
      BY <1>1, <2>1 DEF TypeOK, IInv, UserInv, WithinLog
    <3> QED
      BY <1>1, <3>1, Lengths DEF serverVars
  <2> QED
    BY <1>1, <1>6, <1>7, <2>1, <2>2 DEF Feed!Start, serverVars, sessionVars
<1> QED
  BY <1>8, <1>9 DEF Boot

--------------------------------------------------------------------------------
(***************************************************************************)
(* The refinement                                                          *)
(***************************************************************************)

LEMMA StepImplements ==
    ASSUME IInv, IInv', [Next]_vars, \A u \in Users : Advances(u)
    PROVE  [Feed!Next]_(Feed!vars)
<1>1. TypeOK /\ TypeOK'
  BY DEF IInv
<1>2. ASSUME Unseen
      PROVE  UNCHANGED Feed!vars
  BY <1>2, UnseenStutters
<1>3. CASE UNCHANGED vars
  <2>1. \A u \in Users : Held(u)' = Held(u)
    BY <1>3, SameHeld, SameUnsent, SameDeaf DEF vars, serverVars, sessionVars, clientVars
  <2> QED
    BY <1>2, <1>3, <2>1, SameFeedHeld, SameFeedUp
       DEF Unseen, vars, serverVars, sessionVars, clientVars, bootVars
<1>4. CASE (\E t \in Tasks : Mutate(t) \/ Publish(t)) \/ MutateDropped \/ ServerCrash
  BY <1>4, MutateFeed, PublishFeed, DroppedFeed, CrashFeed DEF Feed!Next
<1>5. ASSUME NEW u \in Users, Session(u) \/ SessionEnds(u)
      PROVE  [Feed!Next]_(Feed!vars)
  BY <1>1, <1>2, <1>5, SubscribeFeed, SendWelcomeFeed, ForwardFeed, LagFeed, SessionEndsFeed
     DEF Session, Feed!Next
<1>6. ASSUME NEW u \in Users, ReceiveEvent(u) \/ SyncPage(u)
      PROVE  [Feed!Next]_(Feed!vars)
  <2>1. cursor'[u] >= cursor[u]
    <3>1. Running(u) /\ Running(u)'
      <4>1. state[u] \in {"Online", "Syncing"}
        BY <1>6 DEF ReceiveEvent, SyncPage
      <4>2. state' = state \/ state' = [state EXCEPT ![u] = "Online"]
        BY <1>6 DEF ReceiveEvent, SyncPage
      <4>3. state'[u] \in {"Online", "Syncing"}
        BY <1>1, <4>1, <4>2 DEF TypeOK
      <4> QED
        BY <4>1, <4>3 DEF Running
    <3> QED
      BY <3>1 DEF Advances
  <2> QED
    BY <1>2, <1>6, <2>1, ReceiveEventFeed, SyncPageFeed DEF Feed!Next
<1>7. ASSUME NEW u \in Users,
             ReceiveWelcome(u) \/ Disconnected(u) \/ Reconnect(u) \/ SyncFails(u) \/ RefreshStored(u)
      PROVE  [Feed!Next]_(Feed!vars)
  BY <1>1, <1>2, <1>7, ReceiveWelcomeFeed, BrokenFeed DEF Feed!Next
<1>8. ASSUME NEW u \in Users, Boot(u) \/ Restart(u)
      PROVE  [Feed!Next]_(Feed!vars)
  BY <1>1, <1>2, <1>8, BootFeed, RestartFeed DEF Feed!Next
<1> QED
  BY <1>3, <1>4, <1>5, <1>6, <1>7, <1>8 DEF Next, Realtime

\* The server, the channel, the sockets and the realtime tasks together are a
\* feed that confirms nothing it has not handed over and that is not excused,
\* with any number of handlers overtaking each other or dropped, lagging
\* receivers, broken connections, failed catch-ups, server crashes and client
\* restarts.
THEOREM ImplementsFeedSafety == Spec => Feed!Spec
<1>1. Init => Feed!Init
  <2> SUFFICES ASSUME Init
               PROVE  Feed!Init
    OBVIOUS
  <2>1. \A u \in Users : Held(u) = {}
    BY NotServing DEF Init
  <2>2. FeedHeld = [u \in Users |-> {}] /\ FeedUp = [u \in Users |-> TRUE]
    BY <2>1, FeedReads DEF Init, FeedUp
  <2> QED
    BY <2>2 DEF Init, Feed!Init
<1>2. IInv /\ FreshInv /\ IInv' /\ [Next]_vars => [Feed!Next]_(Feed!vars)
  BY NextFresh, StepImplements
<1> QED
  BY <1>1, <1>2, IInvHolds, FreshHolds, PTL DEF Spec, Feed!Spec
================================================================================
