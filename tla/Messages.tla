------------------------------- MODULE Messages --------------------------------
(***************************************************************************)
(* The messages of one group: sending with deduplication, recall, receipts *)
(* and read positions, reactions and favourites, forwarding, and scheduled *)
(* messages with the worker that delivers them.  Every operation is a      *)
(* mutate of Durability.                                                   *)
(*                                                                         *)
(* Messages are never removed and numbered in order, so a message is known *)
(* by its sequence.  Its content is its kind; a recalled message has       *)
(* content of kind System and is called Recalled here.                     *)
(***************************************************************************)
EXTENDS Durability, Sequences, FiniteSets

CONSTANTS
    Users,
    Moderators,    \* owner and administrators
    Ids,           \* client message identifiers, each for one message
    Author,        \* Author[id]: the user who has made up id
    Mentions,      \* Mentions[id]: the users that id mentions
    None,          \* identifier of messages made by the server
    MaxLog,        \* bound on the messages
    MaxMarks,      \* bound on reactions and favourites
    MaxRequests    \* bound on the requests of clients

ASSUME MessagesAssumption ==
    /\ Moderators \subseteq Users
    /\ Author \in [Ids -> Users]
    /\ Mentions \in [Ids -> SUBSET Users]
    /\ None \notin Ids
    /\ MaxLog \in Nat /\ MaxMarks \in Nat /\ MaxRequests \in Nat

VARIABLES
    due,       \* scheduled messages whose time has come
    worker,    \* deliver_due_messages
    acked,     \* what the server has confirmed (history)
    rejoined,  \* users who have joined again (history)
    requests   \* requests so far

vars == <<durabilityVars, due, worker, acked, rejoined, requests>>

(***************************************************************************)
(* The store.                                                              *)
(***************************************************************************)
\* Standing of a user: can_send fails for Out and Muted; sending is refused
\* to Barred too, by a mute of all members or, in a direct conversation, by
\* the end of the friendship or a block.
Standings == {"Out", "Muted", "Barred", "Voice"}

\* Receipt of a user: 0, 1 for delivered_to, 2 for read_by as well.
Entry(id, by, kind, receipt) == [id |-> id, by |-> by, kind |-> kind, receipt |-> receipt]

Entries == [id : Ids \cup {None}, by : Users, kind : {"Text", "Bundle", "System", "Recalled"},
            receipt : [Users -> 0 .. 2]]

Store ==
    [log : Seq(Entries),
     scheduled : SUBSET Ids,
     refused : SUBSET Ids,                 \* content that may not be sent
     standing : [Users -> Standings],
     position : [Users -> 0 .. MaxLog],    \* read_positions
     lastRead : [Users -> 0 .. MaxLog],    \* ConversationSettings
     unread : SUBSET Users,                \* manually_unread
     marks : SUBSET (Users \X (1 .. MaxLog))]      \* reactions and favourites

EmptyStore ==
    [log |-> <<>>, scheduled |-> {}, refused |-> {},
     standing |-> [u \in Users |-> "Voice"],
     position |-> [u \in Users |-> 0], lastRead |-> [u \in Users |-> 0],
     unread |-> {}, marks |-> {}]

CanRead(s, u) == s.standing[u] # "Out"
CanSend(s, u) == s.standing[u] \in {"Voice", "Barred"}
MaySend(s, u) == s.standing[u] = "Voice"

Latest(s) == Len(s.log)
Room(s, n) == Latest(s) + n <= MaxLog
Posted(s, id) == \E n \in 1 .. Latest(s) : s.log[n].id = id

\* The sender has the message.
SentBy(u) == [v \in Users |-> IF v = u THEN 1 ELSE 0]

\* append_system_message tells the members of a change; it writes no receipts.
WithNotice(s, u) == [s EXCEPT !.log = Append(@, Entry(None, u, "System", [v \in Users |-> 0]))]

(***************************************************************************)
(* What the server has confirmed, and a store that agrees with it.         *)
(***************************************************************************)
Agrees(s, fact) ==
    CASE fact[1] = "Sent" -> Posted(s, fact[2])
      [] fact[1] = "Recalled" -> \E n \in 1 .. Latest(s) :
                                    s.log[n].id = fact[2] /\ s.log[n].kind = "Recalled"
      [] fact[1] = "Scheduled" -> fact[2] \in s.scheduled \/ Posted(s, fact[2])
      [] fact[1] = "Cancelled" -> fact[2] \notin s.scheduled

Init ==
    /\ StartWith(EmptyStore)
    /\ due = {}
    /\ worker = [at |-> "Idle", copies |-> {}, old |-> {}, current |-> None]
    /\ acked = {}
    /\ rejoined = {}
    /\ requests = 0

TypeOK ==
    /\ DurabilityTypeOK(Store)
    /\ due \subseteq Ids
    /\ worker \in [at : {"Idle", "Send", "Remove"}, copies : SUBSET Ids,
                   old : SUBSET Ids, current : Ids \cup {None}]
    /\ acked \subseteq {"Sent", "Recalled", "Scheduled", "Cancelled"} \X Ids
    /\ rejoined \subseteq Users
    /\ requests \in 0 .. MaxRequests

\* A request of a client; its facts are confirmed with the commit, those in
\* withdrawn need not hold any more: the row may get the change of a request that
\* failed, too, if its statement is executed late.
Request(new, outcome, withdrawn, facts) ==
    /\ requests' = requests + 1
    /\ Mutate(new, outcome)
    /\ acked' = (acked \ withdrawn) \cup (IF outcome = "Committed" THEN facts ELSE {})
    /\ worker' = [worker EXCEPT !.old = @ \cup (worker.copies \ memory'.scheduled)]

(***************************************************************************)
(* Messages.                                                               *)
(***************************************************************************)
\* Mutant of SendInStore: the deduplication is gone.
SendWithoutDedup(s, id) ==
    [s EXCEPT !.log = Append(@, Entry(id, Author[id], "Text", SentBy(Author[id])))]

\* send_message_in_store: a message that is there already is confirmed again,
\* before anything else is checked.
SendInStore(s, id) ==
    IF Posted(s, id) THEN s
    ELSE [s EXCEPT !.log = Append(@, Entry(id, Author[id], "Text", SentBy(Author[id])))]

\* validate_message_mentions: members, and not the author.
MentionsMembers(s, id) ==
    \A u \in Mentions[id] : CanRead(s, u) /\ u # Author[id]

\* What send_message_in_store asks of a message that is not there: its mentions,
\* the standing of its author, and content that is not refused.
Sendable(s, id) ==
    \/ Posted(s, id)
    \/ /\ MentionsMembers(s, id) /\ MaySend(s, Author[id]) /\ id \notin s.refused
       /\ Room(s, 1)

SendMessage(id, outcome) ==
    /\ Sendable(memory, id)
    /\ Request(SendInStore(memory, id), outcome, {}, {<<"Sent", id>>})
    /\ UNCHANGED <<due, rejoined>>

\* recall_message: the sender within two minutes, or a moderator.
RecallMessage(u, n, outcome) ==
    /\ CanRead(memory, u)
    /\ memory.log[n].by = u \/ u \in Moderators
    /\ memory.log[n].kind # "Recalled"
    /\ Request([memory EXCEPT !.log[n].kind = "Recalled"], outcome,
               {}, {"Recalled"} \X ({memory.log[n].id} \ {None}))
    /\ UNCHANGED <<due, rejoined>>

\* Lists of different messages, in the order the client gives.
Selections(s) ==
    {list \in UNION {[1 .. k -> 1 .. Latest(s)] : k \in 1 .. Latest(s)} :
        \A i, j \in DOMAIN list : list[i] = list[j] => i = j}

\* collect_forward_sources: readable, not of kind System, and no bundle in a
\* bundle; a bundle has two messages at least.
Forwardable(s, sources, merged) ==
    /\ \A k \in DOMAIN sources :
         s.log[sources[k]].kind \in (IF merged THEN {"Text"} ELSE {"Text", "Bundle"})
    /\ merged => Len(sources) >= 2

Forwards(s, u, sources, merged) ==
    IF merged THEN <<Entry(None, u, "Bundle", SentBy(u))>>
    ELSE [k \in DOMAIN sources |-> Entry(None, u, s.log[sources[k]].kind, SentBy(u))]

\* forward_messages asks can_send of the target, not what sending asks.
ForwardMessages(u, sources, merged, outcome) ==
    /\ CanSend(memory, u)
    /\ Forwardable(memory, sources, merged)
    /\ Room(memory, IF merged THEN 1 ELSE Len(sources))
    /\ Request([memory EXCEPT !.log = @ \o Forwards(memory, u, sources, merged)], outcome, {}, {})
    /\ UNCHANGED <<due, rejoined>>

\* react_to_message and set_message_favorite, set or taken back.
MarkMessage(u, n, outcome) ==
    /\ CanRead(memory, u)
    /\ LET mark == <<u, n>>
       IN  /\ mark \notin memory.marks => Cardinality(memory.marks) < MaxMarks
           /\ Request([memory EXCEPT !.marks = (@ \ {mark}) \cup ({mark} \ @)], outcome, {}, {})
    /\ UNCHANGED <<due, rejoined>>

(***************************************************************************)
(* Receipts and read positions.                                            *)
(***************************************************************************)
MaxOf(a, b) == IF a > b THEN a ELSE b

AcknowledgeDelivery(u, n, outcome) ==
    /\ CanRead(memory, u) /\ memory.log[n].by # u
    /\ Request([memory EXCEPT !.log[n].receipt[u] = MaxOf(@, 1)], outcome, {}, {})
    /\ UNCHANGED <<due, rejoined>>

\* Mutant of ReadThrough: an older read takes the position back.
ReadThroughLast(s, u, next) ==
    [s EXCEPT !.log = [n \in DOMAIN @ |-> IF n <= next /\ @[n].by # u
                                          THEN [@[n] EXCEPT !.receipt[u] = 2] ELSE @[n]],
              !.position[u] = next,
              !.lastRead[u] = next,
              !.unread = @ \ {u}]

ReadThrough(s, u, next) ==
    [s EXCEPT !.log = [n \in DOMAIN @ |-> IF n <= next /\ @[n].by # u
                                          THEN [@[n] EXCEPT !.receipt[u] = 2] ELSE @[n]],
              !.position[u] = MaxOf(@, next),
              !.lastRead[u] = MaxOf(@, next),
              !.unread = @ \ {u}]

\* mark_read, of a position that a window has seen some time ago.
MarkRead(u, through, outcome) ==
    /\ CanRead(memory, u)
    /\ Request(ReadThrough(memory, u, through), outcome, {}, {})
    /\ UNCHANGED <<due, rejoined>>

\* mark_all_read writes no receipts.
MarkAllRead(u, outcome) ==
    /\ CanRead(memory, u)
    /\ Request([memory EXCEPT !.position[u] = Latest(memory), !.lastRead[u] = Latest(memory),
                              !.unread = @ \ {u}], outcome, {}, {})
    /\ UNCHANGED <<due, rejoined>>

\* update_conversation_settings; the other settings have no part here.
MarkUnread(u, outcome) ==
    /\ CanRead(memory, u) /\ u \notin memory.unread
    /\ Request([memory EXCEPT !.unread = @ \cup {u}], outcome, {}, {})
    /\ UNCHANGED <<due, rejoined>>

\* conversation_states counts the unread messages.
Unread(s, u) == {n \in 1 .. Latest(s) : n > s.lastRead[u] /\ s.log[n].by # u}

(***************************************************************************)
(* Scheduled messages.                                                     *)
(***************************************************************************)
ScheduleMessage(id, outcome) ==
    /\ MentionsMembers(memory, id) /\ CanSend(memory, Author[id])
    /\ id \notin memory.scheduled /\ ~Posted(memory, id)
    /\ Request([memory EXCEPT !.scheduled = @ \cup {id}], outcome,
               {<<"Cancelled", id>>}, {<<"Scheduled", id>>})
    /\ due' = due \ {id}
    /\ UNCHANGED rejoined

CancelScheduled(id, outcome) ==
    /\ id \in memory.scheduled
    /\ Request([memory EXCEPT !.scheduled = @ \ {id}], outcome,
               {<<"Scheduled", id>>}, {<<"Cancelled", id>>})
    /\ UNCHANGED <<due, rejoined>>

\* scheduled_for passes.
TimePasses(id) ==
    /\ id \in memory.scheduled \ due
    /\ due' = due \cup {id}
    /\ UNCHANGED <<durabilityVars, worker, acked, rejoined, requests>>

\* deliver_due_messages copies what is due under the read lock,
WorkerTick ==
    /\ worker.at = "Idle"
    /\ memory.scheduled \cap due # {}
    /\ worker' = [at |-> "Send", copies |-> memory.scheduled \cap due, old |-> {}, current |-> None]
    /\ UNCHANGED <<durabilityVars, due, acked, rejoined, requests>>

\* Mutant of AfterCopy: a copy is kept until it can be sent.
AfterCopySent(id) ==
    LET rest == IF worker.at = "Send" THEN worker.copies ELSE worker.copies \ {id}
    IN  [at |-> IF rest = {} THEN "Idle" ELSE "Send", copies |-> rest,
         old |-> worker.old \ {id}, current |-> None]

\* The copy is done with.
AfterCopy(id) ==
    LET rest == worker.copies \ {id}
    IN  [at |-> IF rest = {} THEN "Idle" ELSE "Send", copies |-> rest,
         old |-> worker.old \ {id}, current |-> None]

\* sends one after the other,
WorkerSend(id, outcome) ==
    /\ worker.at = "Send" /\ id \in worker.copies
    /\ outcome \in {"Committed", "Failed"}
    /\ IF Sendable(memory, id)
       THEN /\ Mutate(SendInStore(memory, id), outcome)
            /\ worker' = IF outcome = "Committed"
                         THEN [worker EXCEPT !.at = "Remove", !.current = id]
                         ELSE AfterCopy(id)
       ELSE worker' = AfterCopy(id) /\ outcome = "Failed" /\ UNCHANGED durabilityVars
    /\ UNCHANGED <<due, acked, rejoined, requests>>

\* and removes each, by the identifier of its schedule, in a second mutate.
WorkerRemove(outcome) ==
    /\ worker.at = "Remove"
    /\ outcome \in {"Committed", "Failed"}
    /\ Mutate([memory EXCEPT !.scheduled =
                 IF worker.current \in worker.old THEN @ ELSE @ \ {worker.current}], outcome)
    /\ worker' = AfterCopy(worker.current)
    /\ UNCHANGED <<due, acked, rejoined, requests>>

(***************************************************************************)
(* Members, and faults.                                                    *)
(***************************************************************************)
\* A mute of the user or of all, its end, or the end of a friendship.
StandingChanges(u, standing, outcome) ==
    /\ CanRead(memory, u) /\ standing \notin {"Out", memory.standing[u]}
    /\ Request([memory EXCEPT !.standing[u] = standing], outcome, {}, {})
    /\ UNCHANGED <<due, rejoined>>

\* validate_message_attachment, allow_files of the other one in a direct conversation
\* and the role that mentioning all takes begin or cease to stand against a message.
ContentChanges(id, outcome) ==
    /\ Request([memory EXCEPT !.refused = (@ \ {id}) \cup ({id} \ @)], outcome, {}, {})
    /\ UNCHANGED <<due, rejoined>>

\* leave_group and remove_group_member: settings go, read_positions stay.
Leave(u, outcome) ==
    /\ CanRead(memory, u) /\ Room(memory, 1)
    /\ Request([WithNotice(memory, u) EXCEPT !.standing[u] = "Out", !.lastRead[u] = 0,
                                             !.unread = @ \ {u}], outcome, {}, {})
    /\ UNCHANGED <<due, rejoined>>

\* add_group_members, or a join request is accepted.
Join(u, outcome) ==
    /\ ~CanRead(memory, u) /\ Room(memory, 1)
    /\ Request([WithNotice(memory, u) EXCEPT !.standing[u] = "Voice"], outcome, {}, {})
    /\ rejoined' = rejoined \cup {u}
    /\ UNCHANGED due

\* What a regressed row no longer holds is lost here, and only here.
ServerRestarts ==
    /\ Restart
    /\ worker' = [at |-> "Idle", copies |-> {}, old |-> {}, current |-> None]
    /\ acked' = IF regressed THEN {f \in acked : Agrees(database, f)} ELSE acked
    /\ UNCHANGED <<due, rejoined, requests>>

DatabaseCatchesUp ==
    /\ \E w \in late : LateWrite(w)
    /\ UNCHANGED <<due, worker, acked, rejoined, requests>>

ByClient(outcome) ==
    \/ \E id \in Ids :
         \/ SendMessage(id, outcome)
         \/ ScheduleMessage(id, outcome)
         \/ CancelScheduled(id, outcome)
         \/ ContentChanges(id, outcome)
    \/ \E u \in Users :
         \/ MarkAllRead(u, outcome)
         \/ MarkUnread(u, outcome)
         \/ Leave(u, outcome)
         \/ Join(u, outcome)
         \/ \E standing \in Standings : StandingChanges(u, standing, outcome)
         \/ \E through \in 0 .. Latest(memory) : MarkRead(u, through, outcome)
         \/ \E n \in 1 .. Latest(memory) :
              \/ RecallMessage(u, n, outcome)
              \/ AcknowledgeDelivery(u, n, outcome)
              \/ MarkMessage(u, n, outcome)
         \/ \E sources \in Selections(memory), merged \in BOOLEAN :
              ForwardMessages(u, sources, merged, outcome)

Worker(outcome) ==
    \/ WorkerTick
    \/ \E id \in Ids : WorkerSend(id, outcome)
    \/ WorkerRemove(outcome)

Next ==
    \/ requests < MaxRequests /\ \E outcome \in Outcomes : ByClient(outcome)
    \/ \E outcome \in Outcomes : Worker(outcome)
    \/ \E id \in Ids : TimePasses(id)
    \/ ServerRestarts
    \/ DatabaseCatchesUp

Spec == Init /\ [][Next]_vars

\* The worker ticks every second, and time passes.
Fairness ==
    /\ WF_vars(\E outcome \in Outcomes : Worker(outcome))
    /\ \A id \in Ids : WF_vars(TimePasses(id))

FairSpec == Spec /\ Fairness

(***************************************************************************)
(* Properties.                                                             *)
(***************************************************************************)
\* What the server has confirmed is in memory, and in the row unless a late
\* statement has overwritten it: failed and dropped commits, restarts and
\* repeated requests lose nothing else.
ConfirmedIsDurable ==
    \A f \in acked : Agrees(memory, f) /\ (regressed \/ Agrees(database, f))

\* A message is in the log once, sent again or not, scheduled or not.
PostedOnce ==
    \A m, n \in 1 .. Latest(memory) :
        memory.log[m].id = memory.log[n].id /\ memory.log[m].id # None => m = n

\* Receipts, read positions and unread counts agree, also after requests
\* that arrive out of order: who has read a message has a position at or
\* behind it and, unless they left and joined again, does not count it.
ReadsAgree ==
    \A u \in Users :
        /\ memory.lastRead[u] <= memory.position[u]
        /\ \A n \in 1 .. Latest(memory) : memory.log[n].receipt[u] = 2 =>
             /\ n <= memory.position[u]
             /\ n \in Unread(memory, u) => u \in rejoined \/ ~CanRead(memory, u)

\* A scheduled message is posted, cancelled or at some time after refused, by its
\* mentions, its content or its author's standing: neither failed commits, restarts
\* and statements that come late nor messages that are refused again and again hold
\* it up for ever.
DueIsDelivered ==
    \A id \in Ids : id \in memory.scheduled ~>
        Posted(memory, id) \/ id \notin memory.scheduled \/ ~Sendable(memory, id)
================================================================================
