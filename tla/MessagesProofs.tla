----------------------------- MODULE MessagesProofs ----------------------------
(***************************************************************************)
(* Theorems about Messages, for any users, identifiers and bounds.         *)
(*                                                                         *)
(* The invariants speak of the store in memory and of the row.  A restart  *)
(* or a late statement brings another store back, so the inductive         *)
(* invariant says of every store that may come back that it is sound and   *)
(* holds what has been confirmed, unless it is older than a commit.        *)
(***************************************************************************)
EXTENDS Messages, SequenceTheorems, TLAPS

\* What the properties ask of one store.
Sound(s, joined) ==
    /\ s \in Store
    /\ Latest(s) <= MaxLog
    /\ \A m, n \in 1 .. Latest(s) : s.log[m].id = s.log[n].id /\ s.log[m].id # None => m = n
    /\ \A u \in Users :
         /\ s.lastRead[u] <= s.position[u]
         /\ \A n \in 1 .. Latest(s) : s.log[n].receipt[u] = 2 =>
              /\ n <= s.position[u]
              /\ n \in Unread(s, u) => u \in joined \/ ~CanRead(s, u)

Facts == {"Sent", "Recalled", "Scheduled", "Cancelled"} \X Ids

Holds(s, facts) == \A f \in facts : Agrees(s, f)

\* Everything that can become the store.
StoresInv ==
    /\ Sound(memory, rejoined) /\ Holds(memory, acked)
    /\ Sound(database, rejoined) /\ (regressed \/ Holds(database, acked))
    /\ \A w \in late : Sound(w.snapshot, rejoined) /\ (w.old \/ Holds(w.snapshot, acked))

\* The worker removes what it has posted.
WorkerInv == worker.at = "Remove" => worker.current \in Ids /\ Posted(memory, worker.current)

IInv == TypeOK /\ StoresInv /\ WorkerInv

(***************************************************************************)
(* Logs only grow.                                                         *)
(***************************************************************************)
Follows(t, s) ==
    /\ Latest(s) <= Latest(t)
    /\ \A n \in 1 .. Latest(s) :
         /\ t.log[n].id = s.log[n].id
         /\ s.log[n].kind = "Recalled" => t.log[n].kind = "Recalled"

LEMMA LogIs ==
  \A s \in Store : /\ Latest(s) \in Nat /\ s.log \in [1 .. Latest(s) -> Entries]
                   /\ DOMAIN s.log = 1 .. Latest(s)
  BY LenProperties DEF Store, Latest

LEMMA IsALog ==
  ASSUME NEW k \in Nat, NEW f \in [1 .. k -> Entries]
  PROVE  f \in Seq(Entries) /\ Len(f) = k
<1>1. f \in Seq(Entries)
  BY SeqDef
<1>2. Len(f) \in Nat /\ 1 .. Len(f) = 1 .. k
  BY <1>1, LenProperties
<1>3. QED
  BY <1>1, <1>2

\* Facts stay true while the log grows, but for what happens to schedules.
LEMMA FactsStay ==
  ASSUME NEW s \in Store, NEW t \in Store, Follows(t, s), NEW facts \in SUBSET Facts, Holds(s, facts),
         \A id \in Ids :
            /\ <<"Scheduled", id>> \in facts /\ id \in s.scheduled => id \in t.scheduled \/ Posted(t, id)
            /\ <<"Cancelled", id>> \in facts /\ id \in t.scheduled => id \in s.scheduled
  PROVE  Holds(t, facts)
<1> SUFFICES ASSUME NEW f \in facts
             PROVE  Agrees(t, f)
  BY DEF Holds
<1>1. PICK id \in Ids : f[2] = id /\ f = <<f[1], id>> /\ f[1] \in {"Sent", "Recalled", "Scheduled", "Cancelled"}
  BY DEF Facts
<1>2. Agrees(s, f)
  BY DEF Holds
<1>3. Latest(s) \in Nat /\ Latest(t) \in Nat /\ 1 .. Latest(s) \subseteq 1 .. Latest(t)
  BY LogIs DEF Follows
<1>4. Posted(s, id) => Posted(t, id)
  BY <1>3 DEF Posted, Follows
<1>5. CASE f[1] = "Recalled"
  BY <1>1, <1>2, <1>3, <1>5 DEF Agrees, Follows
<1>6. CASE f[1] # "Recalled"
  BY <1>1, <1>2, <1>4, <1>6 DEF Agrees
<1>7. QED
  BY <1>5, <1>6

\* Messages at the end of the log.
LEMMA AppendingIsSound ==
  ASSUME NEW s, NEW joined, Sound(s, joined), NEW tail \in Seq(Entries), Latest(s) + Len(tail) <= MaxLog,
         \A k \in 1 .. Len(tail) :
            /\ \A u \in Users : tail[k].receipt[u] # 2
            /\ tail[k].id # None => Len(tail) = 1 /\ ~Posted(s, tail[k].id)
  PROVE  LET t == [s EXCEPT !.log = @ \o tail] IN Sound(t, joined) /\ Follows(t, s)
<1> DEFINE t == [s EXCEPT !.log = @ \o tail]
<1> SUFFICES Sound(t, joined) /\ Follows(t, s)
  OBVIOUS
<1>1. s \in Store /\ s.log \in Seq(Entries) /\ Latest(s) \in Nat /\ Len(tail) \in Nat
  <2>1. s \in Store /\ Latest(s) \in Nat
    BY LogIs DEF Sound
  <2>2. s.log \in Seq(Entries)
    BY <2>1 DEF Store
  <2>3. QED
    BY <2>1, <2>2, LenProperties
<1>2. /\ t.log \in Seq(Entries) /\ Latest(t) = Latest(s) + Len(tail)
      /\ \A i \in 1 .. Latest(s) + Len(tail) :
           t.log[i] = IF i <= Latest(s) THEN s.log[i] ELSE tail[i - Latest(s)]
  BY <1>1, ConcatProperties DEF Latest, Store
<1>3. t \in Store /\ \A field \in {"scheduled", "standing", "position", "lastRead", "unread", "marks"} : t[field] = s[field]
  BY <1>1, <1>2 DEF Store
<1> HIDE DEF t
<1>4. Follows(t, s)
  BY <1>1, <1>2 DEF Follows
<1>5. ASSUME NEW m \in 1 .. Latest(t), NEW n \in 1 .. Latest(t), t.log[m].id = t.log[n].id, t.log[m].id # None
      PROVE  m = n
  <2>1. CASE m <= Latest(s) /\ n <= Latest(s)
    <3>1. m \in 1 .. Latest(s) /\ n \in 1 .. Latest(s) /\ t.log[m] = s.log[m] /\ t.log[n] = s.log[n]
      BY <1>1, <1>2, <2>1
    <3>2. QED
      BY <1>5, <3>1 DEF Sound
  <2>2. ASSUME NEW k \in 1 .. Latest(t), NEW i \in 1 .. Latest(t), k <= Latest(s), i > Latest(s),
               t.log[k].id = t.log[i].id, t.log[i].id # None
        PROVE  FALSE
    <3>1. k \in 1 .. Latest(s) /\ t.log[k] = s.log[k] /\ i - Latest(s) \in 1 .. Len(tail) /\ t.log[i] = tail[i - Latest(s)]
      BY <1>1, <1>2, <2>2
    <3>2. QED
      BY <2>2, <3>1 DEF Posted
  <2>3. CASE m > Latest(s) /\ n > Latest(s)
    <3>1. m - Latest(s) \in 1 .. Len(tail) /\ n - Latest(s) \in 1 .. Len(tail) /\ t.log[m] = tail[m - Latest(s)]
      BY <1>1, <1>2, <2>3
    <3>2. Len(tail) = 1
      BY <1>5, <3>1
    <3>3. QED
      BY <1>1, <1>2, <3>1, <3>2
  <2>4. QED
    BY <1>1, <1>2, <1>5, <2>1, <2>2, <2>3
<1>6. ASSUME NEW u \in Users, NEW n \in 1 .. Latest(t), t.log[n].receipt[u] = 2
      PROVE  n <= t.position[u] /\ (n \in Unread(t, u) => u \in joined \/ ~CanRead(t, u))
  <2>1. n \in 1 .. Latest(s) /\ t.log[n] = s.log[n]
    BY <1>1, <1>2, <1>6
  <2>2. QED
    BY <1>1, <1>3, <1>6, <2>1 DEF Sound, Unread, CanRead
<1>7. QED
  BY <1>1, <1>2, <1>3, <1>4, <1>5, <1>6 DEF Sound

(***************************************************************************)
(* One mutate of Durability.                                               *)
(***************************************************************************)
LEMMA SoundStays == \A s, j, k : Sound(s, j) /\ j \subseteq k => Sound(s, k)
  BY DEF Sound

LEMMA FollowsItself == \A s : Sound(s, rejoined) => Follows(s, s)
<1> SUFFICES ASSUME NEW s, Sound(s, rejoined)
             PROVE  Follows(s, s)
  OBVIOUS
<1>1. Latest(s) \in Nat
  BY LogIs DEF Sound
<1>2. QED
  BY <1>1 DEF Follows

LEMMA MutateKeepsStores ==
  ASSUME StoresInv, DurabilityTypeOK(Store), NEW new, NEW outcome \in Outcomes, Mutate(new, outcome),
         rejoined \subseteq rejoined', Sound(new, rejoined'), Follows(new, memory), Holds(new, acked'),
         outcome # "Committed" => acked' \subseteq acked
  PROVE  StoresInv' /\ DurabilityTypeOK(Store)' /\ Follows(memory', memory)
<1>1. ASSUME NEW s, Sound(s, rejoined)
      PROVE  Sound(s, rejoined')
  BY <1>1, SoundStays
<1>2. new \in Store
  BY DEF Sound
<1>3. CASE outcome = "Committed"
  <2>1. /\ memory' = new /\ database' = new /\ regressed' = FALSE /\ faults' = faults
        /\ late' = {[w EXCEPT !.old = TRUE] : w \in late}
    BY <1>3 DEF Mutate, Committed
  <2>2. \A w \in late' : w \in [snapshot : Store, old : BOOLEAN] /\ Sound(w.snapshot, rejoined') /\ w.old
    <3> SUFFICES ASSUME NEW w \in late
                 PROVE  LET x == [w EXCEPT !.old = TRUE]
                        IN  x \in [snapshot : Store, old : BOOLEAN] /\ Sound(x.snapshot, rejoined') /\ x.old
      BY <2>1
    <3>1. w \in [snapshot : Store, old : BOOLEAN]
      BY DEF DurabilityTypeOK
    <3>2. Sound(w.snapshot, rejoined')
      BY <1>1 DEF StoresInv
    <3>3. QED
      BY <3>1, <3>2
  <2>3. StoresInv'
    BY <2>1, <2>2 DEF StoresInv
  <2>4. QED
    BY <1>2, <2>1, <2>2, <2>3 DEF DurabilityTypeOK
<1>4. CASE outcome # "Committed"
  <2>1. /\ database' = database /\ regressed' = regressed /\ faults < MaxFaults /\ faults' = faults + 1
        /\ late' \subseteq late \cup {[snapshot |-> new, old |-> FALSE]}
        /\ memory' = memory \/ memory' = new
    BY <1>4 DEF Mutate, GivenUp, Fault, Outcomes
  <2>2. ASSUME NEW s, Holds(s, acked)
        PROVE  Holds(s, acked')
    BY <1>4, <2>2 DEF Holds
  <2>3. \A w \in late' : Sound(w.snapshot, rejoined') /\ (w.old \/ Holds(w.snapshot, acked'))
    BY <1>1, <2>1, <2>2 DEF StoresInv
  <2>4. Sound(memory', rejoined') /\ Holds(memory', acked')
    BY <1>1, <2>1, <2>2 DEF StoresInv
  <2>5. StoresInv'
    BY <1>1, <2>1, <2>2, <2>3, <2>4 DEF StoresInv
  <2>6. DurabilityTypeOK(Store)'
    <3>0. [snapshot |-> new, old |-> FALSE] \in [snapshot : Store, old : BOOLEAN]
      BY <1>2
    <3>1. \A w \in late' : w \in [snapshot : Store, old : BOOLEAN]
      BY <2>1, <3>0 DEF DurabilityTypeOK
    <3>2. memory' \in Store
      BY <1>2, <2>1 DEF DurabilityTypeOK
    <3>3. QED
      BY <2>1, <3>1, <3>2, MaxFaultsAssumption DEF DurabilityTypeOK
  <2>7. QED
    BY <2>1, <2>5, <2>6, FollowsItself DEF StoresInv
<1>5. QED
  BY <1>3, <1>4

\* A request of a client whose operation makes the store new.
LEMMA RequestKeepsIInv ==
  ASSUME IInv, requests < MaxRequests, NEW new, NEW outcome \in Outcomes, NEW withdrawn,
         NEW facts \in SUBSET Facts, Request(new, outcome, withdrawn, facts),
         due' \subseteq Ids, rejoined \subseteq rejoined', rejoined' \subseteq Users,
         Sound(new, rejoined'), Follows(new, memory), Holds(new, acked \ withdrawn), Holds(new, facts)
  PROVE  IInv'
<1>1. /\ requests' = requests + 1 /\ Mutate(new, outcome)
      /\ acked' = (acked \ withdrawn) \cup (IF outcome = "Committed" THEN facts ELSE {})
      /\ worker' = [worker EXCEPT !.old = @ \cup (worker.copies \ memory'.scheduled)]
  BY DEF Request
<1>2. Holds(new, acked')
  BY <1>1 DEF Holds
<1>3. StoresInv' /\ DurabilityTypeOK(Store)' /\ Follows(memory', memory)
  BY <1>1, <1>2, MutateKeepsStores DEF IInv, TypeOK
<1>4. acked' \subseteq Facts /\ requests' \in 0 .. MaxRequests
  BY <1>1, MessagesAssumption DEF IInv, TypeOK, Facts
<1>5. /\ worker' \in [at : {"Idle", "Send", "Remove"}, copies : SUBSET Ids, old : SUBSET Ids, current : Ids \cup {None}]
      /\ worker'.at = worker.at /\ worker'.current = worker.current
  BY <1>1 DEF IInv, TypeOK
<1>6. WorkerInv'
  <2> SUFFICES ASSUME worker.at = "Remove"
               PROVE  worker.current \in Ids /\ Posted(memory', worker.current)
    BY <1>5 DEF WorkerInv, Posted, Latest
  <2>1. Latest(memory) \in Nat /\ Latest(memory') \in Nat
    BY <1>3, LogIs DEF IInv, TypeOK, DurabilityTypeOK
  <2>2. QED
    BY <1>3, <2>1 DEF Follows, Posted, IInv, WorkerInv
<1>7. QED
  BY <1>3, <1>4, <1>5, <1>6 DEF IInv, TypeOK, Facts

(***************************************************************************)
(* The operations on a store.                                              *)
(***************************************************************************)
\* Messages are rewritten in place, and none becomes read.
LEMMA RewritingIsSound ==
  ASSUME NEW s, NEW joined, Sound(s, joined), NEW log \in [1 .. Latest(s) -> Entries],
         \A n \in 1 .. Latest(s) :
            /\ log[n].id = s.log[n].id /\ log[n].by = s.log[n].by
            /\ s.log[n].kind = "Recalled" => log[n].kind = "Recalled"
            /\ \A u \in Users : log[n].receipt[u] = 2 => s.log[n].receipt[u] = 2
  PROVE  LET t == [s EXCEPT !.log = log] IN Sound(t, joined) /\ Follows(t, s)
<1> DEFINE t == [s EXCEPT !.log = log]
<1> SUFFICES Sound(t, joined) /\ Follows(t, s)
  OBVIOUS
<1>1. s \in Store /\ Latest(s) \in Nat
  BY LogIs DEF Sound
<1>2. log \in Seq(Entries) /\ Len(log) = Latest(s)
  BY <1>1, IsALog
<1>3. /\ t.log = log /\ Latest(t) = Latest(s) /\ t \in Store
      /\ \A field \in {"scheduled", "standing", "position", "lastRead", "unread", "marks"} : t[field] = s[field]
  BY <1>1, <1>2 DEF Store, Latest
<1> HIDE DEF t
<1>4. Follows(t, s)
  BY <1>1, <1>3 DEF Follows
<1>5. Sound(t, joined)
  BY <1>1, <1>3 DEF Sound, Unread, CanRead
<1>6. QED
  BY <1>4, <1>5

LEMMA EntriesAre ==
  ASSUME NEW s \in Store, NEW n \in 1 .. Latest(s)
  PROVE  s.log[n] \in Entries
  BY LogIs

LEMMA SendingIsSound ==
  ASSUME NEW s, Sound(s, rejoined), NEW id \in Ids, Sendable(s, id)
  PROVE  /\ Sound(SendInStore(s, id), rejoined) /\ Follows(SendInStore(s, id), s)
         /\ Posted(SendInStore(s, id), id) /\ SendInStore(s, id).scheduled = s.scheduled
<1>1. s \in Store /\ Latest(s) \in Nat /\ s.log \in Seq(Entries)
  <2>1. s \in Store
    BY DEF Sound
  <2>2. s.log \in Seq(Entries)
    BY <2>1 DEF Store
  <2>3. QED
    BY <2>1, <2>2, LogIs
<1>2. CASE Posted(s, id)
  BY <1>2, FollowsItself DEF SendInStore
<1>3. CASE ~Posted(s, id)
  <2> DEFINE e == Entry(id, Author[id], "Text", SentBy(Author[id]))
             tail == <<e>>
  <2>1. e \in Entries /\ e.id = id /\ \A u \in Users : e.receipt[u] # 2
    BY MessagesAssumption DEF Entries, Entry, SentBy
  <2>2. tail \in Seq(Entries) /\ Len(tail) = 1 /\ tail[1] = e
    BY <2>1
  <2>3. SendInStore(s, id) = [s EXCEPT !.log = @ \o tail]
    <3>1. Append(s.log, e) = s.log \o tail
      BY <1>1, <2>1
    <3>2. QED
      BY <1>3, <3>1 DEF SendInStore
  <2> HIDE DEF e, tail
  <2>4. Latest(s) + Len(tail) <= MaxLog
    BY <1>3, <2>2 DEF Sendable, Room
  <2>5. Sound(SendInStore(s, id), rejoined) /\ Follows(SendInStore(s, id), s)
    <3>1. \A k \in 1 .. Len(tail) :
             /\ \A u \in Users : tail[k].receipt[u] # 2
             /\ tail[k].id # None => Len(tail) = 1 /\ ~Posted(s, tail[k].id)
      <4>1. \A k \in 1 .. Len(tail) : tail[k] = e
        BY <2>2
      <4>2. QED
        BY <1>3, <2>1, <2>2, <4>1
    <3>2. QED
      BY <2>2, <2>3, <2>4, <3>1, AppendingIsSound
  <2>6. /\ SendInStore(s, id).log = s.log \o tail
        /\ Latest(SendInStore(s, id)) = Latest(s) + 1
        /\ SendInStore(s, id).log[Latest(s) + 1] = e
    <3>1. SendInStore(s, id).log = s.log \o tail
      BY <1>1, <2>3 DEF Store
    <3>2. QED
      <4>1. /\ Len(s.log \o tail) = Len(s.log) + Len(tail)
            /\ \A i \in 1 .. Len(s.log) + Len(tail) :
                 (s.log \o tail)[i] = IF i <= Len(s.log) THEN s.log[i] ELSE tail[i - Len(s.log)]
        BY <1>1, <2>2, ConcatProperties
      <4>2. Latest(s) + 1 \in 1 .. Len(s.log) + Len(tail) /\ Len(s.log) \in Nat
        BY <1>1, <2>2 DEF Latest
      <4>3. QED
        BY <2>2, <3>1, <4>1, <4>2 DEF Latest
  <2>7. Posted(SendInStore(s, id), id)
    <3>1. Latest(s) + 1 \in 1 .. Latest(SendInStore(s, id))
      BY <1>1, <2>6
    <3>2. SendInStore(s, id).log[Latest(s) + 1].id = id
      BY <2>1, <2>6
    <3>3. QED
      BY <3>1, <3>2 DEF Posted
  <2>8. SendInStore(s, id).scheduled = s.scheduled
    BY <1>1, <2>3 DEF Store
  <2>9. QED
    BY <2>5, <2>7, <2>8
<1>4. QED
  BY <1>2, <1>3

(***************************************************************************)
(* The requests of clients.                                                *)
(***************************************************************************)
\* Requests that leave the scheduled messages alone.
LEMMA PlainRequestKeepsIInv ==
  ASSUME IInv, requests < MaxRequests, NEW new, NEW outcome \in Outcomes, NEW withdrawn,
         NEW facts \in SUBSET Facts, Request(new, outcome, withdrawn, facts),
         due' = due, rejoined \subseteq rejoined', rejoined' \subseteq Users,
         Sound(new, rejoined'), Follows(new, memory), new.scheduled = memory.scheduled, Holds(new, facts)
  PROVE  IInv'
<1>1. /\ memory \in Store /\ new \in Store /\ acked \in SUBSET Facts /\ Holds(memory, acked)
      /\ due \subseteq Ids
  BY DEF IInv, TypeOK, DurabilityTypeOK, StoresInv, Sound, Facts
<1>2. Holds(new, acked)
  BY <1>1, FactsStay
<1>3. Holds(new, acked \ withdrawn)
  BY <1>2 DEF Holds
<1>4. QED
  BY <1>1, <1>3, RequestKeepsIInv

LEMMA MemoryIs ==
  IInv => /\ Sound(memory, rejoined) /\ memory \in Store /\ Latest(memory) \in Nat /\ rejoined \subseteq Users
          /\ memory.log \in [1 .. Latest(memory) -> Entries] /\ Follows(memory, memory)
          /\ Holds(memory, acked) /\ acked \in SUBSET Facts /\ due \subseteq Ids /\ Holds(memory, {})
  BY LogIs, FollowsItself DEF IInv, TypeOK, DurabilityTypeOK, StoresInv, Facts, Holds

LEMMA SchedulingKeepsIInv ==
  ASSUME IInv, requests < MaxRequests, NEW id \in Ids, NEW outcome \in Outcomes,
         SendMessage(id, outcome) \/ ScheduleMessage(id, outcome) \/ CancelScheduled(id, outcome)
  PROVE  IInv'
<1> USE MemoryIs
<1>1. CASE SendMessage(id, outcome)
  <2> DEFINE new == SendInStore(memory, id)
  <2>1. /\ Sound(new, rejoined) /\ Follows(new, memory) /\ Posted(new, id) /\ new.scheduled = memory.scheduled
    BY <1>1, SendingIsSound DEF SendMessage
  <2>2. {<<"Sent", id>>} \in SUBSET Facts /\ Holds(new, {<<"Sent", id>>})
    BY <2>1 DEF Facts, Holds, Agrees
  <2> HIDE DEF new
  <2>3. QED
    BY <1>1, <2>1, <2>2, PlainRequestKeepsIInv DEF SendMessage, new
<1>2. CASE ScheduleMessage(id, outcome)
  <2> DEFINE new == [memory EXCEPT !.scheduled = @ \cup {id}]
             rest == acked \ {<<"Cancelled", id>>}
  <2>1. /\ new \in Store /\ new.scheduled = memory.scheduled \cup {id} /\ new.log = memory.log
        /\ \A field \in {"standing", "position", "lastRead", "unread", "marks"} : new[field] = memory[field]
    BY DEF Store
  <2> HIDE DEF new
  <2>2. Sound(new, rejoined) /\ Follows(new, memory)
    BY <2>1 DEF Sound, Follows, Latest, Unread, CanRead
  <2>3. Holds(new, rest)
    <3>1. rest \in SUBSET Facts /\ Holds(memory, rest)
      BY DEF Holds
    <3>2. QED
      BY <2>1, <2>2, <3>1, FactsStay
  <2>4. {<<"Scheduled", id>>} \in SUBSET Facts /\ Holds(new, {<<"Scheduled", id>>})
    BY <2>1 DEF Facts, Holds, Agrees
  <2>5. QED
    BY <1>2, <2>1, <2>2, <2>3, <2>4, RequestKeepsIInv DEF ScheduleMessage, new
<1>3. CASE CancelScheduled(id, outcome)
  <2> DEFINE new == [memory EXCEPT !.scheduled = @ \ {id}]
             rest == acked \ {<<"Scheduled", id>>}
  <2>1. /\ new \in Store /\ new.scheduled = memory.scheduled \ {id} /\ new.log = memory.log
        /\ \A field \in {"standing", "position", "lastRead", "unread", "marks"} : new[field] = memory[field]
    BY DEF Store
  <2> HIDE DEF new
  <2>2. Sound(new, rejoined) /\ Follows(new, memory)
    BY <2>1 DEF Sound, Follows, Latest, Unread, CanRead
  <2>3. Holds(new, rest)
    <3>1. rest \in SUBSET Facts /\ Holds(memory, rest)
      BY DEF Holds
    <3>2. QED
      BY <2>1, <2>2, <3>1, FactsStay
  <2>4. {<<"Cancelled", id>>} \in SUBSET Facts /\ Holds(new, {<<"Cancelled", id>>})
    BY <2>1 DEF Facts, Holds, Agrees
  <2>5. QED
    BY <1>3, <2>1, <2>2, <2>3, <2>4, RequestKeepsIInv DEF CancelScheduled, new
<1>4. QED
  BY <1>1, <1>2, <1>3

LEMMA ContentKeepsIInv ==
  ASSUME IInv, requests < MaxRequests, NEW id \in Ids, NEW outcome \in Outcomes,
         ContentChanges(id, outcome)
  PROVE  IInv'
<1> USE MemoryIs
<1> DEFINE new == [memory EXCEPT !.refused = (@ \ {id}) \cup ({id} \ @)]
<1>1. /\ new \in Store /\ new.log = memory.log
      /\ \A field \in {"scheduled", "standing", "position", "lastRead"} : new[field] = memory[field]
  BY DEF Store
<1>2. Request(new, outcome, {}, {}) /\ UNCHANGED <<due, rejoined>>
  BY DEF ContentChanges
<1> HIDE DEF new
<1>3. Sound(new, rejoined) /\ Follows(new, memory)
  BY <1>1 DEF Sound, Follows, Latest, Unread, CanRead
<1>4. {} \in SUBSET Facts /\ Holds(new, {})
  BY DEF Holds
<1>5. QED
  BY <1>1, <1>2, <1>3, <1>4, PlainRequestKeepsIInv

LEMMA MessageRequestsKeepIInv ==
  ASSUME IInv, requests < MaxRequests, NEW u \in Users, NEW n \in 1 .. Latest(memory), NEW outcome \in Outcomes,
         RecallMessage(u, n, outcome) \/ AcknowledgeDelivery(u, n, outcome) \/ MarkMessage(u, n, outcome)
  PROVE  IInv'
<1>0. /\ Sound(memory, rejoined) /\ memory \in Store /\ Latest(memory) \in Nat /\ rejoined \subseteq Users
      /\ memory.log \in [1 .. Latest(memory) -> Entries] /\ memory.log[n] \in Entries /\ Follows(memory, memory)
  BY MemoryIs
<1>1. CASE RecallMessage(u, n, outcome)
  <2> DEFINE log == [memory.log EXCEPT ![n].kind = "Recalled"]
             new == [memory EXCEPT !.log = log]
             facts == {"Recalled"} \X ({memory.log[n].id} \ {None})
  <2>1. log \in [1 .. Latest(memory) -> Entries]
    BY <1>0 DEF Entries
  <2>2. \A k \in 1 .. Latest(memory) :
            /\ log[k].id = memory.log[k].id /\ log[k].by = memory.log[k].by
            /\ memory.log[k].kind = "Recalled" => log[k].kind = "Recalled"
            /\ \A w \in Users : log[k].receipt[w] = 2 => memory.log[k].receipt[w] = 2
    BY <1>0 DEF Entries
  <2>3. log[n].kind = "Recalled" /\ log[n].id = memory.log[n].id
    BY <1>0 DEF Entries
  <2>4. new = [memory EXCEPT !.log[n].kind = "Recalled"] /\ new.log = log /\ new.scheduled = memory.scheduled
    BY <1>0 DEF Store
  <2> HIDE DEF log
  <2>5. Sound(new, rejoined) /\ Follows(new, memory)
    BY <1>0, <2>1, <2>2, RewritingIsSound
  <2>6. facts \in SUBSET Facts
    BY <1>0 DEF Facts, Entries
  <2>7. Holds(new, facts)
    <3>1. Latest(new) = Latest(memory)
      BY <1>0, <2>1, <2>4, IsALog DEF Latest
    <3>2. QED
      BY <1>0, <2>3, <2>4, <3>1 DEF Holds, Agrees
  <2> HIDE DEF new, facts
  <2>8. Request(new, outcome, {}, facts) /\ UNCHANGED <<due, rejoined>>
    BY <1>1, <2>4 DEF RecallMessage, facts
  <2>9. QED
    BY <1>0, <2>4, <2>5, <2>6, <2>7, <2>8, PlainRequestKeepsIInv
<1>2. CASE AcknowledgeDelivery(u, n, outcome)
  <2> DEFINE log == [memory.log EXCEPT ![n].receipt[u] = MaxOf(@, 1)]
             new == [memory EXCEPT !.log = log]
  <2>1. log \in [1 .. Latest(memory) -> Entries]
    BY <1>0 DEF Entries, MaxOf
  <2>2. \A k \in 1 .. Latest(memory) :
            /\ log[k].id = memory.log[k].id /\ log[k].by = memory.log[k].by
            /\ memory.log[k].kind = "Recalled" => log[k].kind = "Recalled"
            /\ \A w \in Users : log[k].receipt[w] = 2 => memory.log[k].receipt[w] = 2
    BY <1>0 DEF Entries, MaxOf
  <2>4. new = [memory EXCEPT !.log[n].receipt[u] = MaxOf(@, 1)] /\ new.scheduled = memory.scheduled
    BY <1>0 DEF Store
  <2> HIDE DEF log
  <2>5. Sound(new, rejoined) /\ Follows(new, memory)
    BY <1>0, <2>1, <2>2, RewritingIsSound
  <2> HIDE DEF new
  <2>6. Request(new, outcome, {}, {}) /\ UNCHANGED <<due, rejoined>>
    BY <1>2, <2>4 DEF AcknowledgeDelivery
  <2>7. {} \in SUBSET Facts /\ Holds(new, {})
    BY DEF Holds
  <2>8. QED
    BY <1>0, <2>4, <2>5, <2>6, <2>7, PlainRequestKeepsIInv
<1>3. CASE MarkMessage(u, n, outcome)
  <2> DEFINE mark == <<u, n>>
             new == [memory EXCEPT !.marks = (@ \ {mark}) \cup ({mark} \ @)]
  <2>1. /\ new \in Store /\ new.log = memory.log
        /\ \A field \in {"scheduled", "standing", "position", "lastRead", "unread"} : new[field] = memory[field]
    <3>1. n \in 1 .. MaxLog
      BY <1>0, MessagesAssumption DEF Sound
    <3>2. memory.marks \in SUBSET (Users \X (1 .. MaxLog))
      BY <1>0 DEF Store
    <3>3. (memory.marks \ {mark}) \cup ({mark} \ memory.marks) \in SUBSET (Users \X (1 .. MaxLog))
      BY <3>1, <3>2
    <3>4. QED
      BY <1>0, <3>3 DEF Store
  <2>2. Request(new, outcome, {}, {}) /\ UNCHANGED <<due, rejoined>>
    BY <1>3 DEF MarkMessage
  <2> HIDE DEF new
  <2>3. Sound(new, rejoined) /\ Follows(new, memory)
    BY <1>0, <2>1 DEF Sound, Follows, Latest, Unread, CanRead
  <2>4. QED
    BY <1>0, <2>1, <2>2, <2>3, PlainRequestKeepsIInv DEF Holds
<1>4. QED
  BY <1>1, <1>2, <1>3

LEMMA NoticeIsSound ==
  ASSUME IInv, NEW u \in Users, Room(memory, 1)
  PROVE  LET s == WithNotice(memory, u)
         IN  /\ Sound(s, rejoined) /\ Follows(s, memory)
             /\ \A field \in {"scheduled", "standing", "position", "lastRead", "unread", "marks"} :
                  s[field] = memory[field]
<1>0. /\ Sound(memory, rejoined) /\ memory \in Store /\ Latest(memory) \in Nat
  BY MemoryIs
<1>1. memory.log \in Seq(Entries)
  BY <1>0 DEF Store
<1> DEFINE e == Entry(None, u, "System", [v \in Users |-> 0])
           tail == <<e>>
           t == [memory EXCEPT !.log = @ \o tail]
<1>2. e \in Entries /\ e.id = None /\ \A v \in Users : e.receipt[v] # 2
  BY DEF Entries, Entry
<1>3. tail \in Seq(Entries) /\ Len(tail) = 1 /\ tail[1] = e
  BY <1>2
<1>4. WithNotice(memory, u) = t
  <2>1. Append(memory.log, e) = memory.log \o tail
    BY <1>1, <1>2
  <2>2. QED
    BY <2>1 DEF WithNotice
<1>5. \A field \in {"scheduled", "standing", "position", "lastRead", "unread", "marks"} : t[field] = memory[field]
  BY <1>0 DEF Store
<1> HIDE DEF e, tail
<1>6. \A k \in 1 .. Len(tail) : tail[k] = e
  BY <1>3
<1>7. \A k \in 1 .. Len(tail) :
         /\ \A v \in Users : tail[k].receipt[v] # 2
         /\ tail[k].id # None => Len(tail) = 1 /\ ~Posted(memory, tail[k].id)
  BY <1>2, <1>6
<1>8. Sound(t, rejoined) /\ Follows(t, memory)
  BY <1>0, <1>3, <1>7, AppendingIsSound DEF Room
<1> HIDE DEF t
<1>9. QED
  BY <1>4, <1>5, <1>8

LEMMA MemberRequestsKeepIInv ==
  ASSUME IInv, requests < MaxRequests, NEW u \in Users, NEW outcome \in Outcomes,
         \/ MarkAllRead(u, outcome) \/ MarkUnread(u, outcome) \/ Leave(u, outcome) \/ Join(u, outcome)
         \/ \E standing \in Standings : StandingChanges(u, standing, outcome)
         \/ \E through \in 0 .. Latest(memory) : MarkRead(u, through, outcome)
  PROVE  IInv'
<1>0. /\ Sound(memory, rejoined) /\ memory \in Store /\ Latest(memory) \in Nat /\ rejoined \subseteq Users
      /\ memory.log \in [1 .. Latest(memory) -> Entries] /\ Follows(memory, memory)
      /\ Latest(memory) \in 0 .. MaxLog
  BY MemoryIs, MessagesAssumption DEF Sound
<1>a. ASSUME NEW new, Request(new, outcome, {}, {}), due' = due, rejoined \subseteq rejoined', rejoined' \subseteq Users,
             Sound(new, rejoined'), Follows(new, memory), new.scheduled = memory.scheduled
      PROVE  IInv'
  <2>1. {} \in SUBSET Facts /\ Holds(new, {})
    BY DEF Holds
  <2>2. QED
    BY <1>0, <1>a, <2>1, PlainRequestKeepsIInv
<1>1. CASE MarkAllRead(u, outcome)
  <2> DEFINE new == [memory EXCEPT !.position[u] = Latest(memory), !.lastRead[u] = Latest(memory),
                                   !.unread = @ \ {u}]
  <2>1. /\ new \in Store /\ new.log = memory.log /\ new.scheduled = memory.scheduled
        /\ new.standing = memory.standing
        /\ \A v \in Users : /\ new.position[v] = IF v = u THEN Latest(memory) ELSE memory.position[v]
                            /\ new.lastRead[v] = IF v = u THEN Latest(memory) ELSE memory.lastRead[v]
    BY <1>0 DEF Store
  <2>2. Request(new, outcome, {}, {}) /\ UNCHANGED <<due, rejoined>>
    BY <1>1 DEF MarkAllRead
  <2> HIDE DEF new
  <2>3. Latest(new) = Latest(memory) /\ Follows(new, memory)
    BY <1>0, <2>1 DEF Follows, Latest
  <2>4. Sound(new, rejoined)
    BY <1>0, <2>1, <2>3 DEF Sound, Unread, CanRead
  <2>5. QED
    BY <1>0, <1>a, <2>1, <2>2, <2>3, <2>4
<1>2. CASE MarkUnread(u, outcome)
  <2> DEFINE new == [memory EXCEPT !.unread = @ \cup {u}]
  <2>1. /\ new \in Store /\ new.log = memory.log
        /\ \A field \in {"scheduled", "standing", "position", "lastRead"} : new[field] = memory[field]
    BY <1>0 DEF Store
  <2>2. Request(new, outcome, {}, {}) /\ UNCHANGED <<due, rejoined>>
    BY <1>2 DEF MarkUnread
  <2> HIDE DEF new
  <2>3. Sound(new, rejoined) /\ Follows(new, memory)
    BY <1>0, <2>1 DEF Sound, Follows, Latest, Unread, CanRead
  <2>4. QED
    BY <1>0, <1>a, <2>1, <2>2, <2>3
<1>3. CASE Leave(u, outcome)
  <2> DEFINE s == WithNotice(memory, u)
             new == [s EXCEPT !.standing[u] = "Out", !.lastRead[u] = 0, !.unread = @ \ {u}]
  <2>1. /\ Sound(s, rejoined) /\ Follows(s, memory) /\ s.scheduled = memory.scheduled
    BY <1>3, NoticeIsSound DEF Leave
  <2>2. Request(new, outcome, {}, {}) /\ UNCHANGED <<due, rejoined>>
    BY <1>3 DEF Leave
  <2> HIDE DEF s
  <2>3. s \in Store /\ Latest(s) \in Nat
    BY <2>1, LogIs DEF Sound
  <2>4. /\ new \in Store /\ new.log = s.log /\ new.scheduled = s.scheduled /\ new.position = s.position
        /\ \A v \in Users : /\ new.standing[v] = IF v = u THEN "Out" ELSE s.standing[v]
                            /\ new.lastRead[v] = IF v = u THEN 0 ELSE s.lastRead[v]
                            /\ s.position[v] \in Nat
    <3>1. /\ s.standing \in [Users -> Standings] /\ s.lastRead \in [Users -> 0 .. MaxLog]
          /\ s.position \in [Users -> 0 .. MaxLog] /\ 0 \in 0 .. MaxLog
      BY <2>3, MessagesAssumption DEF Store
    <3>2. /\ [s.standing EXCEPT ![u] = "Out"] \in [Users -> Standings]
          /\ [s.lastRead EXCEPT ![u] = 0] \in [Users -> 0 .. MaxLog]
      BY <3>1 DEF Standings
    <3>3. /\ new \in Store /\ new.log = s.log /\ new.scheduled = s.scheduled /\ new.position = s.position
          /\ new.standing = [s.standing EXCEPT ![u] = "Out"] /\ new.lastRead = [s.lastRead EXCEPT ![u] = 0]
      BY <2>3, <3>2 DEF Store
    <3>4. QED
      BY <3>1, <3>3
  <2> HIDE DEF new
  <2>5. Sound(new, rejoined) /\ Follows(new, memory)
    BY <2>1, <2>3, <2>4 DEF Sound, Follows, Latest, Unread, CanRead
  <2>6. QED
    BY <1>0, <1>a, <2>1, <2>2, <2>4, <2>5
<1>4. CASE Join(u, outcome)
  <2> DEFINE s == WithNotice(memory, u)
             new == [s EXCEPT !.standing[u] = "Voice"]
  <2>1. /\ Sound(s, rejoined) /\ Follows(s, memory) /\ s.scheduled = memory.scheduled
    BY <1>4, NoticeIsSound DEF Join
  <2>2. Request(new, outcome, {}, {}) /\ due' = due /\ rejoined' = rejoined \cup {u}
    BY <1>4 DEF Join
  <2> HIDE DEF s
  <2>3. s \in Store /\ Latest(s) \in Nat
    BY <2>1, LogIs DEF Sound
  <2>4. /\ new \in Store /\ new.log = s.log
        /\ \A field \in {"scheduled", "position", "lastRead"} : new[field] = s[field]
        /\ \A v \in Users : v # u => new.standing[v] = s.standing[v]
    BY <2>3 DEF Store, Standings
  <2> HIDE DEF new
  <2>5. Sound(new, rejoined') /\ Follows(new, memory)
    BY <2>1, <2>2, <2>3, <2>4 DEF Sound, Follows, Latest, Unread, CanRead
  <2>6. QED
    BY <1>0, <1>a, <2>1, <2>2, <2>4, <2>5
<1>5. ASSUME NEW standing \in Standings, StandingChanges(u, standing, outcome)
      PROVE  IInv'
  <2> DEFINE new == [memory EXCEPT !.standing[u] = standing]
  <2>1. /\ new \in Store /\ new.log = memory.log
        /\ \A field \in {"scheduled", "position", "lastRead"} : new[field] = memory[field]
        /\ \A v \in Users : new.standing[v] = IF v = u THEN standing ELSE memory.standing[v]
    BY <1>0 DEF Store
  <2>2. Request(new, outcome, {}, {}) /\ UNCHANGED <<due, rejoined>> /\ CanRead(memory, u) /\ standing # "Out"
    BY <1>5 DEF StandingChanges
  <2> HIDE DEF new
  <2>3. Sound(new, rejoined) /\ Follows(new, memory)
    BY <1>0, <2>1, <2>2 DEF Sound, Follows, Latest, Unread, CanRead
  <2>4. QED
    BY <1>0, <1>a, <2>1, <2>2, <2>3
<1>6. ASSUME NEW through \in 0 .. Latest(memory), MarkRead(u, through, outcome)
      PROVE  IInv'
  <2> DEFINE log == [n \in 1 .. Latest(memory) |->
                       IF n <= through /\ memory.log[n].by # u
                       THEN [memory.log[n] EXCEPT !.receipt[u] = 2] ELSE memory.log[n]]
             new == ReadThrough(memory, u, through)
  <2>1. log \in [1 .. Latest(memory) -> Entries]
    BY <1>0 DEF Entries
  <2>2. \A n \in 1 .. Latest(memory) :
           /\ log[n].id = memory.log[n].id /\ log[n].by = memory.log[n].by /\ log[n].kind = memory.log[n].kind
           /\ \A v \in Users : log[n].receipt[v] = 2 =>
                memory.log[n].receipt[v] = 2 \/ (v = u /\ n <= through /\ log[n].by # u)
    BY <1>0 DEF Entries
  <2>3. log \in Seq(Entries) /\ Len(log) = Latest(memory)
    BY <1>0, <2>1, IsALog
  <2>4. DOMAIN memory.log = 1 .. Latest(memory) /\ through \in 0 .. MaxLog
    BY <1>0, MessagesAssumption
  <2>5. new = [memory EXCEPT !.log = log, !.position[u] = MaxOf(@, through),
                             !.lastRead[u] = MaxOf(@, through), !.unread = @ \ {u}]
    BY <1>0, <2>4 DEF ReadThrough
  <2> HIDE DEF log
  <2>6. /\ new \in Store /\ new.log = log /\ new.scheduled = memory.scheduled /\ new.standing = memory.standing
        /\ \A v \in Users :
             /\ new.position[v] = IF v = u THEN MaxOf(memory.position[v], through) ELSE memory.position[v]
             /\ new.lastRead[v] = IF v = u THEN MaxOf(memory.lastRead[v], through) ELSE memory.lastRead[v]
             /\ memory.position[v] \in 0 .. MaxLog /\ memory.lastRead[v] \in 0 .. MaxLog
    <3>1. memory.position \in [Users -> 0 .. MaxLog] /\ memory.lastRead \in [Users -> 0 .. MaxLog]
      BY <1>0 DEF Store
    <3> DEFINE position == [memory.position EXCEPT ![u] = MaxOf(@, through)]
               lastRead == [memory.lastRead EXCEPT ![u] = MaxOf(@, through)]
    <3>2. position \in [Users -> 0 .. MaxLog] /\ lastRead \in [Users -> 0 .. MaxLog]
      BY <2>4, <3>1 DEF MaxOf
    <3>3. new = [memory EXCEPT !.log = log, !.position = position, !.lastRead = lastRead, !.unread = @ \ {u}]
      BY <1>0, <2>5 DEF Store
    <3>4. \A v \in Users :
             /\ position[v] = IF v = u THEN MaxOf(memory.position[v], through) ELSE memory.position[v]
             /\ lastRead[v] = IF v = u THEN MaxOf(memory.lastRead[v], through) ELSE memory.lastRead[v]
      BY <3>1
    <3> HIDE DEF position, lastRead
    <3>5. /\ new \in Store /\ new.log = log /\ new.scheduled = memory.scheduled /\ new.standing = memory.standing
          /\ new.position = position /\ new.lastRead = lastRead
      BY <1>0, <2>3, <3>2, <3>3 DEF Store
    <3>6. QED
      BY <3>1, <3>4, <3>5
  <2>7. Request(new, outcome, {}, {}) /\ UNCHANGED <<due, rejoined>>
    BY <1>6 DEF MarkRead
  <2> HIDE DEF new
  <2>8. Latest(new) = Latest(memory) /\ Follows(new, memory)
    BY <1>0, <2>2, <2>3, <2>6 DEF Follows, Latest
  <2>9. Sound(new, rejoined)
    <3>1. ASSUME NEW v \in Users
          PROVE  /\ new.lastRead[v] <= new.position[v] /\ memory.lastRead[v] <= new.lastRead[v]
                 /\ memory.position[v] <= new.position[v]
                 /\ v = u => through <= new.lastRead[v]
                 /\ {memory.lastRead[v], memory.position[v], new.lastRead[v], new.position[v], through} \subseteq Int
      BY <1>0, <2>4, <2>6 DEF Sound, MaxOf
    <3>2. ASSUME NEW v \in Users, NEW n \in 1 .. Latest(memory), log[n].receipt[v] = 2
          PROVE  /\ n <= new.position[v]
                 /\ n > new.lastRead[v] /\ log[n].by # v => v \in rejoined \/ ~CanRead(memory, v)
      <4>1. n \in Int
        OBVIOUS
      <4>2. CASE memory.log[n].receipt[v] = 2
        <5>1. /\ n <= memory.position[v]
              /\ n > memory.lastRead[v] /\ memory.log[n].by # v => v \in rejoined \/ ~CanRead(memory, v)
          BY <1>0, <4>2 DEF Sound, Unread
        <5>2. QED
          BY <2>2, <3>1, <4>1, <5>1
      <4>3. CASE v = u /\ n <= through
        BY <3>1, <4>1, <4>3
      <4>4. QED
        BY <2>2, <3>2, <4>2, <4>3
    <3>3. \A m, n \in 1 .. Latest(memory) : log[m].id = log[n].id /\ log[m].id # None => m = n
      BY <1>0, <2>2 DEF Sound
    <3>4. QED
      BY <1>0, <2>6, <2>8, <3>1, <3>2, <3>3 DEF Sound, Unread, CanRead
  <2>10. QED
    BY <1>0, <1>a, <2>6, <2>7, <2>8, <2>9
<1>7. QED
  BY <1>1, <1>2, <1>3, <1>4, <1>5, <1>6

LEMMA ForwardingKeepsIInv ==
  ASSUME IInv, requests < MaxRequests, NEW u \in Users, NEW sources \in Selections(memory),
         NEW merged \in BOOLEAN, NEW outcome \in Outcomes, ForwardMessages(u, sources, merged, outcome)
  PROVE  IInv'
<1> DEFINE tail == Forwards(memory, u, sources, merged)
           new == [memory EXCEPT !.log = @ \o tail]
<1>0. /\ Sound(memory, rejoined) /\ memory \in Store /\ Latest(memory) \in Nat /\ rejoined \subseteq Users
      /\ memory.log \in [1 .. Latest(memory) -> Entries]
  BY MemoryIs
<1>1. PICK k \in 1 .. Latest(memory) : sources \in [1 .. k -> 1 .. Latest(memory)]
  BY DEF Selections
<1>2. Len(sources) = k /\ DOMAIN sources = 1 .. k /\ k \in Nat
  <2>1. sources \in Seq(1 .. Latest(memory)) /\ k \in Nat
    BY <1>0, <1>1, SeqDef
  <2>2. Len(sources) \in Nat /\ 1 .. Len(sources) = 1 .. k
    BY <1>1, <2>1, LenProperties
  <2>3. QED
    BY <1>1, <2>1, <2>2
<1>3. /\ tail \in Seq(Entries) /\ Len(tail) = IF merged THEN 1 ELSE k
      /\ \A i \in 1 .. Len(tail) : tail[i].id = None /\ \A v \in Users : tail[i].receipt[v] # 2
  <2>1. \A kind \in {"Text", "Bundle"} :
          LET e == Entry(None, u, kind, SentBy(u))
          IN  e \in Entries /\ e.id = None /\ \A v \in Users : e.receipt[v] # 2
    BY DEF Entries, Entry, SentBy
  <2>2. CASE merged
    <3> DEFINE e == Entry(None, u, "Bundle", SentBy(u))
    <3>1. e \in Entries /\ e.id = None /\ \A v \in Users : e.receipt[v] # 2
      BY <2>1
    <3>2. tail = <<e>>
      BY <2>2 DEF Forwards
    <3> HIDE DEF e, tail
    <3>3. tail \in Seq(Entries) /\ Len(tail) = 1 /\ \A i \in 1 .. Len(tail) : tail[i] = e
      BY <3>1, <3>2
    <3>4. QED
      BY <2>2, <3>1, <3>3
  <2>3. CASE ~merged
    <3>1. tail = [i \in 1 .. k |-> Entry(None, u, memory.log[sources[i]].kind, SentBy(u))]
      BY <1>2, <2>3 DEF Forwards
    <3>2. \A i \in 1 .. k : memory.log[sources[i]].kind \in {"Text", "Bundle"}
      BY <1>2, <2>3 DEF ForwardMessages, Forwardable
    <3> HIDE DEF tail
    <3>3. /\ tail \in [1 .. k -> Entries]
          /\ \A i \in 1 .. k : tail[i].id = None /\ \A v \in Users : tail[i].receipt[v] # 2
      BY <2>1, <3>1, <3>2
    <3>4. tail \in Seq(Entries) /\ Len(tail) = k
      BY <1>2, <3>3, IsALog
    <3>5. QED
      BY <2>3, <3>3, <3>4
  <2>4. QED
    BY <2>2, <2>3
<1>4. /\ Request(new, outcome, {}, {}) /\ UNCHANGED <<due, rejoined>>
      /\ Latest(memory) + Len(tail) <= MaxLog
  BY <1>2, <1>3 DEF ForwardMessages, Room
<1>5. new.scheduled = memory.scheduled
  BY <1>0 DEF Store
<1> HIDE DEF tail
<1>6. Sound(new, rejoined) /\ Follows(new, memory)
  BY <1>0, <1>3, <1>4, AppendingIsSound
<1>7. {} \in SUBSET Facts /\ Holds(new, {})
  BY DEF Holds
<1> HIDE DEF new
<1>8. QED
  BY <1>0, <1>4, <1>5, <1>6, <1>7, PlainRequestKeepsIInv

(***************************************************************************)
(* The worker, time, the database.                                         *)
(***************************************************************************)
LEMMA AfterCopyIs ==
  ASSUME IInv, NEW id \in Ids \cup {None}
  PROVE  /\ AfterCopy(id) \in [at : {"Idle", "Send", "Remove"}, copies : SUBSET Ids, old : SUBSET Ids,
                               current : Ids \cup {None}]
         /\ AfterCopy(id).at # "Remove"
  BY DEF AfterCopy, IInv, TypeOK

LEMMA WorkerSendKeepsIInv ==
  ASSUME IInv, NEW id \in Ids, NEW outcome \in Outcomes, WorkerSend(id, outcome)
  PROVE  IInv'
<1> USE MemoryIs
<1> DEFINE new == SendInStore(memory, id)
<1>1. UNCHANGED <<due, acked, rejoined, requests>> /\ worker.at = "Send"
  BY DEF WorkerSend
<1>2. CASE Sendable(memory, id)
  <2>1. /\ Sound(new, rejoined) /\ Follows(new, memory) /\ Posted(new, id) /\ new.scheduled = memory.scheduled
    BY <1>2, SendingIsSound
  <2>2. /\ Mutate(new, outcome)
        /\ worker' = IF outcome = "Committed" THEN [worker EXCEPT !.at = "Remove", !.current = id] ELSE AfterCopy(id)
    BY <1>2 DEF WorkerSend
  <2> HIDE DEF new
  <2>3. Holds(new, acked)
    <3>1. new \in Store
      BY <2>1 DEF Sound
    <3>2. QED
      BY <2>1, <3>1, FactsStay
  <2>4. StoresInv' /\ DurabilityTypeOK(Store)' /\ (outcome = "Committed" => memory' = new)
    <3>1. outcome = "Committed" => memory' = new
      BY <2>2 DEF Mutate, Committed
    <3>2. QED
      BY <1>1, <2>1, <2>2, <2>3, <3>1, MutateKeepsStores DEF IInv, TypeOK
  <2>5. CASE outcome = "Committed"
    <3>1. /\ worker' = [worker EXCEPT !.at = "Remove", !.current = id] /\ memory' = new
      BY <2>2, <2>4, <2>5
    <3>2. WorkerInv'
      BY <2>1, <3>1 DEF WorkerInv, Posted, Latest, IInv, TypeOK
    <3>3. QED
      BY <1>1, <2>4, <3>1, <3>2 DEF IInv, TypeOK
  <2>6. CASE outcome # "Committed"
    BY <1>1, <2>2, <2>4, <2>6, AfterCopyIs DEF IInv, TypeOK, WorkerInv
  <2>7. QED
    BY <2>5, <2>6
<1>3. CASE ~Sendable(memory, id)
  <2>1. worker' = AfterCopy(id) /\ UNCHANGED durabilityVars
    BY <1>3 DEF WorkerSend
  <2>2. StoresInv' /\ DurabilityTypeOK(Store)'
    BY <1>1, <2>1 DEF durabilityVars, IInv, TypeOK, DurabilityTypeOK, StoresInv
  <2>3. QED
    BY <1>1, <2>1, <2>2, AfterCopyIs DEF IInv, TypeOK, WorkerInv
<1>4. QED
  BY <1>2, <1>3

LEMMA WorkerRemoveKeepsIInv ==
  ASSUME IInv, NEW outcome \in Outcomes, WorkerRemove(outcome)
  PROVE  IInv'
<1> DEFINE rest == IF worker.current \in worker.old THEN memory.scheduled ELSE memory.scheduled \ {worker.current}
           new == [memory EXCEPT !.scheduled = rest]
<1>0. /\ Sound(memory, rejoined) /\ memory \in Store /\ Latest(memory) \in Nat /\ Follows(memory, memory)
      /\ Holds(memory, acked) /\ acked \in SUBSET Facts
  BY MemoryIs
<1>1. /\ UNCHANGED <<due, acked, rejoined, requests>> /\ worker' = AfterCopy(worker.current)
      /\ worker.current \in Ids /\ Posted(memory, worker.current)
      /\ Mutate(new, outcome)
  BY DEF WorkerRemove, IInv, WorkerInv
<1>2. /\ new \in Store /\ new.scheduled = rest /\ new.log = memory.log
      /\ \A field \in {"standing", "position", "lastRead", "unread", "marks"} : new[field] = memory[field]
  BY <1>0 DEF Store
<1> HIDE DEF new
<1>3. Sound(new, rejoined) /\ Follows(new, memory)
  BY <1>0, <1>2 DEF Sound, Follows, Latest, Unread, CanRead
<1>4. Posted(new, worker.current)
  BY <1>1, <1>2 DEF Posted, Latest
<1>5. Holds(new, acked)
  BY <1>0, <1>2, <1>3, <1>4, FactsStay
<1>6. StoresInv' /\ DurabilityTypeOK(Store)'
  BY <1>1, <1>3, <1>5, MutateKeepsStores DEF IInv, TypeOK
<1>7. QED
  BY <1>1, <1>6, AfterCopyIs DEF IInv, TypeOK, WorkerInv

LEMMA OthersKeepIInv ==
  ASSUME IInv, WorkerTick \/ ServerRestarts \/ DatabaseCatchesUp \/ \E id \in Ids : TimePasses(id)
  PROVE  IInv'
<1>1. ASSUME UNCHANGED <<durabilityVars, acked, rejoined>>
      PROVE  StoresInv' /\ DurabilityTypeOK(Store)'
  BY <1>1 DEF durabilityVars, IInv, TypeOK, DurabilityTypeOK, StoresInv
<1>2. CASE WorkerTick
  <2>1. UNCHANGED <<durabilityVars, due, acked, rejoined, requests>>
    BY <1>2 DEF WorkerTick
  <2>2. /\ worker' \in [at : {"Idle", "Send", "Remove"}, copies : SUBSET Ids, old : SUBSET Ids, current : Ids \cup {None}]
        /\ worker'.at = "Send"
    BY <1>2 DEF WorkerTick, IInv, TypeOK
  <2>3. QED
    BY <1>1, <2>1, <2>2 DEF IInv, TypeOK, WorkerInv
<1>3. ASSUME NEW id \in Ids, TimePasses(id)
      PROVE  IInv'
  BY <1>1, <1>3 DEF TimePasses, IInv, TypeOK, WorkerInv, durabilityVars, Posted, Latest
<1>4. CASE ServerRestarts
  <2>1. /\ memory' = database /\ regressed' = FALSE /\ UNCHANGED <<database, late, due, rejoined, requests>>
        /\ faults < MaxFaults /\ faults' = faults + 1
        /\ worker' = [at |-> "Idle", copies |-> {}, old |-> {}, current |-> None]
        /\ acked' = IF regressed THEN {f \in acked : Agrees(database, f)} ELSE acked
    BY <1>4 DEF ServerRestarts, Restart, Fault
  <2>2. acked' \subseteq acked /\ Holds(database, acked')
    BY <2>1 DEF IInv, StoresInv, Holds
  <2>3. StoresInv'
    BY <2>1, <2>2 DEF IInv, StoresInv, Holds
  <2>4. TypeOK'
    <3>1. DurabilityTypeOK(Store)'
      <4>1. DurabilityTypeOK(Store)
        BY DEF IInv, TypeOK
      <4>2. faults' \in 0 .. MaxFaults
        BY <2>1, <4>1, MaxFaultsAssumption DEF DurabilityTypeOK
      <4>3. QED
        BY <2>1, <4>1, <4>2 DEF DurabilityTypeOK
    <3>2. worker' \in [at : {"Idle", "Send", "Remove"}, copies : SUBSET Ids, old : SUBSET Ids, current : Ids \cup {None}]
      BY <2>1
    <3>3. QED
      BY <2>1, <2>2, <3>1, <3>2 DEF IInv, TypeOK
  <2>5. QED
    BY <2>1, <2>3, <2>4 DEF IInv, WorkerInv
<1>5. CASE DatabaseCatchesUp
  <2>1. PICK w \in late : LateWrite(w)
    BY <1>5 DEF DatabaseCatchesUp
  <2>2. /\ late' = late \ {w} /\ database' = w.snapshot /\ regressed' = (regressed \/ w.old)
        /\ UNCHANGED <<memory, faults, due, worker, acked, rejoined, requests>>
    BY <1>5, <2>1 DEF DatabaseCatchesUp, LateWrite
  <2>3. StoresInv'
    BY <2>2 DEF IInv, StoresInv
  <2>4. TypeOK'
    <3>1. w \in [snapshot : Store, old : BOOLEAN]
      BY DEF IInv, TypeOK, DurabilityTypeOK
    <3>2. QED
      BY <2>2, <3>1 DEF IInv, TypeOK, DurabilityTypeOK
  <2>5. QED
    BY <2>2, <2>3, <2>4 DEF IInv, WorkerInv, Posted, Latest
<1>6. QED
  BY <1>2, <1>3, <1>4, <1>5

LEMMA InitIInv == Init => IInv
<1> SUFFICES ASSUME Init
             PROVE  IInv
  OBVIOUS
<1> USE MessagesAssumption, MaxFaultsAssumption
<1>1. /\ memory = EmptyStore /\ database = EmptyStore /\ late = {} /\ regressed = FALSE /\ faults = 0
      /\ due = {} /\ acked = {} /\ rejoined = {} /\ requests = 0
      /\ worker = [at |-> "Idle", copies |-> {}, old |-> {}, current |-> None]
  BY DEF Init, StartWith
<1>2. EmptyStore \in Store /\ EmptyStore.log = <<>>
  BY DEF EmptyStore, Store, Standings
<1>3. Latest(EmptyStore) = 0
  BY <1>2 DEF Latest
<1>4. \A u \in Users : EmptyStore.lastRead[u] = 0 /\ EmptyStore.position[u] = 0
  BY DEF EmptyStore
<1>5. Sound(EmptyStore, rejoined)
  BY <1>2, <1>3, <1>4 DEF Sound
<1>6. TypeOK
  <2>1. DurabilityTypeOK(Store)
    <3>1. EmptyStore \in Store /\ 0 \in 0 .. MaxFaults
      BY <1>2
    <3> HIDE MessagesAssumption, MaxFaultsAssumption
    <3>2. QED
      BY <1>1, <3>1 DEF DurabilityTypeOK
  <2>2. worker \in [at : {"Idle", "Send", "Remove"}, copies : SUBSET Ids, old : SUBSET Ids, current : Ids \cup {None}]
    BY <1>1
  <2>3. QED
    BY <1>1, <2>1, <2>2 DEF TypeOK
<1>7. StoresInv /\ WorkerInv
  BY <1>1, <1>5 DEF StoresInv, WorkerInv, Holds
<1>8. QED
  BY <1>6, <1>7 DEF IInv

LEMMA StepKeepsIInv == IInv /\ [Next]_vars => IInv'
<1> SUFFICES ASSUME IInv, [Next]_vars
             PROVE  IInv'
  OBVIOUS
<1>1. ASSUME requests < MaxRequests, NEW outcome \in Outcomes, ByClient(outcome)
      PROVE  IInv'
  BY <1>1, SchedulingKeepsIInv, ContentKeepsIInv, MemberRequestsKeepIInv, MessageRequestsKeepIInv, ForwardingKeepsIInv
  DEF ByClient
<1>2. ASSUME NEW outcome \in Outcomes, Worker(outcome)
      PROVE  IInv'
  BY <1>2, WorkerSendKeepsIInv, WorkerRemoveKeepsIInv, OthersKeepIInv DEF Worker
<1>3. CASE UNCHANGED vars
  BY <1>3 DEF vars, durabilityVars, IInv, TypeOK, DurabilityTypeOK, StoresInv, WorkerInv, Posted, Latest
<1>4. QED
  BY <1>1, <1>2, <1>3, OthersKeepIInv DEF Next

LEMMA Inductive == Spec => []IInv
  BY InitIInv, StepKeepsIInv, PTL DEF Spec

(***************************************************************************)
(* The theorems.                                                           *)
(***************************************************************************)
\* Every variable of Messages keeps its type: every operation of the service
\* makes a store from a store, within the bounds.
THEOREM TypeCorrect == Spec => []TypeOK
<1>1. IInv => TypeOK
  BY DEF IInv
<1>2. QED
  BY <1>1, Inductive, PTL

\* What the server has confirmed is in memory and, but for a late statement,
\* in the row of application_state_snapshots: no failed or dropped mutate,
\* no restart and no scheduled delivery loses it.
THEOREM ConfirmedHolds == Spec => []ConfirmedIsDurable
<1>1. IInv => ConfirmedIsDurable
  BY DEF IInv, StoresInv, Holds, ConfirmedIsDurable
<1>2. QED
  BY <1>1, Inductive, PTL

\* send_message_in_store puts a message into the log once, whoever sends it
\* again and whatever the worker of scheduled messages does.
THEOREM PostedOnceHolds == Spec => []PostedOnce
<1>1. IInv => PostedOnce
  BY DEF IInv, StoresInv, Sound, PostedOnce
<1>2. QED
  BY <1>1, Inductive, PTL

\* mark_read, mark_all_read, receipts and the counts of unread messages agree
\* whatever the order in which the requests arrive.
THEOREM ReadsAgreeHolds == Spec => []ReadsAgree
<1>1. IInv => ReadsAgree
  BY DEF IInv, StoresInv, Sound, ReadsAgree
<1>2. QED
  BY <1>1, Inductive, PTL
================================================================================
