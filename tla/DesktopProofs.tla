----------------------------- MODULE DesktopProofs -----------------------------
(***************************************************************************)
(* Theorems about the parts of the desktop: its window (DesktopView), for  *)
(* any conversations, requests and page size, and the encryption of its    *)
(* cache (LocalCache), for any rows, tasks and number of keys.             *)
(*                                                                         *)
(* Of the window's properties only ShownBelongs is inductive, together     *)
(* with the types.  The others need what a request on its way carries and  *)
(* which events wait: HomeInv, ListInv, LoadInv and CurrentInv say it.     *)
(***************************************************************************)
EXTENDS DesktopView, LocalCache, FiniteSetTheorems, TLAPS

USE DEF feed, session

(***************************************************************************)
(* Types.                                                                  *)
(***************************************************************************)
\* Messages and events, with whatever number.
Numbered == [conv : Conversations, n : Nat, status : {"Sent", "Recalled"}]
Event == Numbered \cup {[conv |-> None]}
Posted(m) == m.n \in InLog(m.conv)

\* A page holds messages of its conversation, each once.
PageOf(c, page) ==
    /\ page \subseteq Numbered
    /\ \A m \in page : m.conv = c /\ Posted(m)
    /\ \A p, q \in page : p.n = q.n => p = q

TimelineRequest(r) ==
    r.kind \in {"Timeline", "Older"} =>
        /\ r.conv \in Conversations
        /\ r.gen \in 0 .. generation
        /\ r.at = "Read" => PageOf(r.conv, r.page) /\ r.next \in Nat
        /\ r.kind = "Older" /\ r.at = "Asked" => r.before \in Nat

ListRequest(r) ==
    r.kind = "List" =>
        /\ r.at \in {"Asked", "Read"}
        /\ r.at = "Read" => /\ r.rows \subseteq Conversations
                            /\ r.version \in 0 .. version
                            /\ r.version = version => r.rows = Listed

OtherRequest(r) ==
    /\ r.kind \in {"Details", "Group"} => r.conv \in Conversations
    /\ r.kind = "Message" => /\ r.message \in Numbered
                             /\ r.at \in {"Asked", "Read"}
                             /\ \/ Posted(r.message)
                                \/ r.at = "Asked" /\ r.message.n = 0 /\ r.message.status = "Sent"

Request(r) == TimelineRequest(r) /\ ListRequest(r) /\ OtherRequest(r)

ServerTypes ==
    /\ log \in [Conversations -> Seq({"Sent", "Recalled"})]
    /\ joined \subseteq Conversations
    /\ version \in Nat
    /\ events \in Seq(Event)

WindowTypes ==
    /\ list \in [rows : SUBSET Conversations, version : Nat]
    /\ selected \in list.rows \cup {None}
    /\ shown \subseteq Numbered /\ \A m \in shown : Posted(m)
    /\ cursor \in Nat /\ generation \in Nat
    /\ composer \in Texts
    /\ drafts \in [Conversations -> SUBSET Conversations]

TaskTypes == DOMAIN task = Tasks /\ \A t \in Tasks : Request(task[t])

\* An event that is out of date is followed by the one that is not, or that one was missed.
EventsInv ==
    /\ \A i \in 1 .. Len(events) : \A m \in Numbered : events[i] = m =>
        /\ Posted(m)
        /\ \/ \E j \in i .. Len(events) : events[j] = Message(m.conv, m.n)
           \/ <<m.conv, m.n>> \in missed
    /\ ~Listening => events = <<>>

BootTypes ==
    /\ bootstrap \in [at : {"None", "List", "Cursor"}, rows : SUBSET Conversations, version : Nat]
    /\ signedIn => bootstrap.at = "None"

\* The window shows, or will show, the last change of message n of c: its event has been handled.
Handled(c, n) == ~Waits(c, n) /\ <<c, n>> \notin missed

Types == ServerTypes /\ EventsInv /\ BootTypes /\ WindowTypes /\ TaskTypes

LEMMA InitTypes == Init => Types
<1> SUFFICES ASSUME Init PROVE Types
  OBVIOUS
<1>1. ServerTypes /\ EventsInv /\ BootTypes
  BY DEF Init, ServerTypes, EventsInv, BootTypes, NoBootstrap
<1>2. WindowTypes
  BY DesktopViewAssumption DEF Init, WindowTypes, DemoList, Texts
<1>3. TaskTypes
  BY DEF Init, TaskTypes, Idle, Request, TimelineRequest, ListRequest, OtherRequest
<1> QED
  BY <1>1, <1>2, <1>3 DEF Types

(***************************************************************************)
(* The log changes at one message, whose present content is announced.     *)
(***************************************************************************)
Changes(c, n) ==
    /\ c \in Conversations /\ n \in 1 .. Len(log[c]) + 1
    /\ log' \in [Conversations -> Seq({"Sent", "Recalled"})]
    /\ Len(log'[c]) = IF n > Len(log[c]) THEN n ELSE Len(log[c])
    /\ \A k \in InLog(c) \ {n} : log'[c][k] = log[c][k]
    /\ \A d \in Conversations \ {c} : log'[d] = log[d]
    /\ Announce([conv |-> c, n |-> n, status |-> log'[c][n]])

LEMMA Appended ==
  ASSUME ServerTypes, NEW c \in Conversations, log' = [log EXCEPT ![c] = Append(log[c], "Sent")],
         Announce([conv |-> c, n |-> Len(log[c]) + 1, status |-> "Sent"])
  PROVE  Changes(c, Len(log[c]) + 1)
<1>1. log[c] \in Seq({"Sent", "Recalled"}) /\ Len(log[c]) \in Nat
  BY DEF ServerTypes
<1>2. log' \in [Conversations -> Seq({"Sent", "Recalled"})]
  BY <1>1 DEF ServerTypes
<1>3. log'[c] = Append(log[c], "Sent") /\ \A d \in Conversations \ {c} : log'[d] = log[d]
  BY DEF ServerTypes
<1>4. /\ Len(log'[c]) = Len(log[c]) + 1
      /\ log'[c][Len(log[c]) + 1] = "Sent"
      /\ \A k \in InLog(c) : log'[c][k] = log[c][k]
  BY <1>1, <1>3 DEF InLog
<1> DEFINE n == Len(log[c]) + 1
<1>5. n \in 1 .. Len(log[c]) + 1
  BY <1>1
<1>6. Len(log'[c]) = IF n > Len(log[c]) THEN n ELSE Len(log[c])
  BY <1>1, <1>4
<1>7. \A k \in InLog(c) \ {n} : log'[c][k] = log[c][k]
  BY <1>4
<1>8. Announce([conv |-> c, n |-> n, status |-> log'[c][n]])
  BY <1>4
<1> HIDE DEF n
<1>9. Changes(c, n)
  BY <1>2, <1>3, <1>5, <1>6, <1>7, <1>8 DEF Changes
<1> QED
  BY <1>9 DEF n

LEMMA Revoked ==
  ASSUME ServerTypes, NEW c \in Conversations, NEW n \in InLog(c),
         log' = [log EXCEPT ![c] = [log[c] EXCEPT ![n] = "Recalled"]],
         Announce([conv |-> c, n |-> n, status |-> "Recalled"])
  PROVE  Changes(c, n)
<1>1. log[c] \in Seq({"Sent", "Recalled"}) /\ Len(log[c]) \in Nat /\ n \in 1 .. Len(log[c])
  BY DEF ServerTypes, InLog
<1>2. [log[c] EXCEPT ![n] = "Recalled"] \in Seq({"Sent", "Recalled"})
  BY <1>1
<1>3. log' \in [Conversations -> Seq({"Sent", "Recalled"})]
  BY <1>2 DEF ServerTypes
<1>4. log'[c] = [log[c] EXCEPT ![n] = "Recalled"] /\ \A d \in Conversations \ {c} : log'[d] = log[d]
  BY DEF ServerTypes
<1>5. /\ Len(log'[c]) = Len(log[c])
      /\ log'[c][n] = "Recalled"
      /\ \A k \in InLog(c) \ {n} : log'[c][k] = log[c][k]
  BY <1>1, <1>4 DEF InLog
<1> QED
  BY <1>1, <1>3, <1>4, <1>5 DEF Changes, Announce

LEMMA PostChanges ==
  ASSUME ServerTypes, NEW c \in Conversations, Post(c)
  PROVE  Changes(c, Len(log[c]) + 1)
<1>1. log' = [log EXCEPT ![c] = Append(log[c], "Sent")]
  BY DEF Post
<1> QED
  BY <1>1, Appended DEF Post

LEMMA RecallChanges ==
  ASSUME ServerTypes, NEW c \in Conversations, NEW n \in Numbers, Recall(c, n)
  PROVE  Changes(c, n)
<1>1. log' = [log EXCEPT ![c] = [log[c] EXCEPT ![n] = "Recalled"]]
  BY DEF Recall
<1> QED
  BY <1>1, Revoked DEF Recall

\* What the server answers to an action on a message is the message it changed.
LEMMA ServeChanges ==
  ASSUME ServerTypes, TaskTypes, NEW t \in Tasks, ServeMessageAction(t)
  PROVE  \E c \in Conversations : \E n \in 1 .. Len(log[c]) + 1 :
            /\ Changes(c, n)
            /\ task' = [task EXCEPT ![t] = [kind |-> "Message", at |-> "Read",
                                            message |-> [conv |-> c, n |-> n, status |-> log'[c][n]]]]
<1>1. PICK m \in Numbered : m = task[t].message
  BY DEF TaskTypes, Request, OtherRequest, ServeMessageAction, Is
<1>2. /\ m.conv \in Conversations /\ m.n \in Nat
      /\ m = [conv |-> m.conv, n |-> m.n, status |-> m.status]
      /\ log[m.conv] \in Seq({"Sent", "Recalled"}) /\ Len(log[m.conv]) \in Nat
  BY <1>1 DEF Numbered, ServerTypes
<1>3. m.n = 0 \/ m.n \in InLog(m.conv)
  BY <1>1 DEF TaskTypes, Request, OtherRequest, ServeMessageAction, Is, Posted
<1>4. CASE m.n = 0
  <2> DEFINE n == Len(log[m.conv]) + 1
  <2>1. m.status = "Sent"
    BY <1>1, <1>4 DEF TaskTypes, Request, OtherRequest, ServeMessageAction, Is, Posted, InLog
  <2>2. [m EXCEPT !.n = n] = [conv |-> m.conv, n |-> n, status |-> "Sent"]
    BY <1>2, <2>1
  <2>3. log' = [log EXCEPT ![m.conv] = Append(log[m.conv], "Sent")]
    BY <1>1, <1>4 DEF ServeMessageAction
  <2>4. Announce([conv |-> m.conv, n |-> n, status |-> "Sent"])
    BY <1>1, <1>4, <2>2 DEF ServeMessageAction
  <2>5. Changes(m.conv, n)
    BY <1>2, <2>3, <2>4, Appended
  <2>6. log'[m.conv][n] = "Sent"
    BY <1>2, <2>3 DEF ServerTypes
  <2>7. task' = [task EXCEPT ![t] = [kind |-> "Message", at |-> "Read",
                                     message |-> [conv |-> m.conv, n |-> n, status |-> "Sent"]]]
    BY <1>1, <1>4, <2>2 DEF ServeMessageAction
  <2>8. m.conv \in Conversations /\ n \in 1 .. Len(log[m.conv]) + 1
    BY <1>2
  <2> HIDE DEF n
  <2> QED
    BY <2>5, <2>6, <2>7, <2>8
<1>5. CASE m.n # 0
  <2>1. [m EXCEPT !.status = "Recalled"] = [conv |-> m.conv, n |-> m.n, status |-> "Recalled"]
    BY <1>2
  <2>2. log' = [log EXCEPT ![m.conv] = [log[m.conv] EXCEPT ![m.n] = "Recalled"]]
    BY <1>1, <1>5 DEF ServeMessageAction
  <2>3. Announce([conv |-> m.conv, n |-> m.n, status |-> "Recalled"])
    BY <1>1, <1>5, <2>1 DEF ServeMessageAction
  <2>4. Changes(m.conv, m.n)
    BY <1>2, <1>3, <1>5, <2>2, <2>3, Revoked
  <2>5. log'[m.conv][m.n] = "Recalled"
    BY <1>2, <1>3, <1>5, <2>2 DEF ServerTypes, InLog
  <2>6. task' = [task EXCEPT ![t] = [kind |-> "Message", at |-> "Read",
                                     message |-> [conv |-> m.conv, n |-> m.n, status |-> "Recalled"]]]
    BY <1>1, <1>5, <2>1 DEF ServeMessageAction
  <2>7. m.conv \in Conversations /\ m.n \in 1 .. Len(log[m.conv]) + 1
    BY <1>2, <1>3, <1>5 DEF InLog
  <2> QED
    BY <2>4, <2>5, <2>6, <2>7
<1> QED
  BY <1>3, <1>4, <1>5

(***************************************************************************)
(* The steps by what they do.                                              *)
(***************************************************************************)
Answered(c, n) == [kind |-> "Message", at |-> "Read", message |-> [conv |-> c, n |-> n, status |-> log'[c][n]]]

\* Post, Recall and ServeMessageAction.
LogStep(c, n) ==
    /\ Changes(c, n)
    /\ \/ task' = task
       \/ \E t \in Tasks : task[t].kind = "Message" /\ task' = [task EXCEPT ![t] = Answered(c, n)]
    /\ UNCHANGED <<joined, hidden, version, session, list, screen, aside, typing, mishaps, inputs>>

\* The steps next to the timeline and the list: of the panel, of actions, of the composer.
Apart ==
    /\ UNCHANGED <<server, feed, session, list, screen>>
    /\ mishaps' \ {"Panel"} = mishaps \ {"Panel"}
    /\ \/ task' = task
       \/ \E t \in Tasks : \E r :
            /\ task' = [task EXCEPT ![t] = r]
            /\ task[t].kind \notin {"Timeline", "Older", "List"}
            /\ r.kind \notin {"Timeline", "Older"} /\ (r.kind = "List" => r.at = "Asked")
            /\ Request(r)

TypingStep == Type \/ SendComposer \/ SaveDraft

AsideStep(t) ==
    \/ CloseDetails \/ OpenDetails(t) \/ ApplyDetails(t)
    \/ GroupAnswer(t) \/ ContactAnswer(t) \/ ActionFails(t) \/ RowAnswer(t) \/ LeaveAnswer(t)
    \/ \E kind \in {"Group", "Settings", "Contact"} : StartAction(t, kind)

MessageStep(t) ==
    \/ StartRecall(t) \/ MessageActionFails(t)
    \/ \E c \in Conversations : StartForward(t, c)

LEMMA TypingApart ==
  ASSUME TypingStep
  PROVE  Apart
BY DEF TypingStep, Type, SendComposer, SaveDraft, Apart, server, screen, timeline

LEMMA AsideApart ==
  ASSUME Types, NEW t \in Tasks, AsideStep(t)
  PROVE  Apart /\ UNCHANGED typing
<1> USE DEF Apart, typing, server, screen, timeline
<1>1. selected \in Conversations \cup {None}
  BY DEF Types, WindowTypes
<1> DEFINE New(r) == /\ task' = [task EXCEPT ![t] = r]
                     /\ task[t].kind \notin {"Timeline", "Older", "List"}
                     /\ r.kind \notin {"Timeline", "Older"} /\ (r.kind = "List" => r.at = "Asked")
                     /\ Request(r)
<1>2. Request(Idle) /\ Idle.kind = "Idle"
  BY DEF Idle, Request, TimelineRequest, ListRequest, OtherRequest
<1>3. \A keep : Request(AskList(keep)) /\ AskList(keep).kind = "List" /\ AskList(keep).at = "Asked"
  BY DEF AskList, Request, TimelineRequest, ListRequest, OtherRequest
<1>4. \A c \in Conversations : Request(AskDetails(c)) /\ AskDetails(c).kind = "Details"
  BY DEF AskDetails, Request, TimelineRequest, ListRequest, OtherRequest
<1>5. \A kind \in {"Group", "Contact"} : \A c :
        (kind = "Group" => c \in Conversations) => Request(AskAction(kind, c)) /\ AskAction(kind, c).kind = kind
  BY DEF AskAction, Request, TimelineRequest, ListRequest, OtherRequest
<1>6. CASE CloseDetails
  BY <1>6 DEF CloseDetails
<1>7. CASE OpenDetails(t)
  <2>1. New(AskDetails(selected))
    BY <1>1, <1>2, <1>4, <1>7 DEF OpenDetails, Free
  <2> QED
    BY <1>7, <2>1 DEF OpenDetails
<1>8. CASE \/ ApplyDetails(t) \/ GroupAnswer(t) \/ ActionFails(t) \/ RowAnswer(t)
  <2>1. New(Idle)
    BY <1>2, <1>8 DEF ApplyDetails, GroupAnswer, ActionFails, RowAnswer
  <2> QED
    BY <1>8, <2>1 DEF ApplyDetails, GroupAnswer, ActionFails, RowAnswer
<1>9. CASE LeaveAnswer(t) \/ ContactAnswer(t)
  <2>1. New(AskList(selected))
    BY <1>3, <1>9 DEF LeaveAnswer, ContactAnswer
  <2> QED
    BY <1>9, <2>1 DEF LeaveAnswer, ContactAnswer
<1>10. ASSUME NEW kind \in {"Group", "Settings", "Contact"}, StartAction(t, kind)
       PROVE  Apart /\ UNCHANGED typing
  <2>1. PICK k \in {"Group", "Contact"} : k = IF kind = "Group" THEN "Group" ELSE "Contact"
    OBVIOUS
  <2>2. New(AskAction(k, selected))
    BY <1>1, <1>2, <1>5, <1>10, <2>1 DEF StartAction, Free
  <2> QED
    BY <1>10, <2>1, <2>2 DEF StartAction
<1> QED
  BY <1>6, <1>7, <1>8, <1>9, <1>10 DEF AsideStep

LEMMA MessageApart ==
  ASSUME Types, NEW t \in Tasks, MessageStep(t)
  PROVE  Apart /\ UNCHANGED typing
<1> USE DEF Apart, typing, server, screen, timeline
<1> DEFINE New(r) == /\ task' = [task EXCEPT ![t] = r]
                     /\ task[t].kind \notin {"Timeline", "Older", "List"}
                     /\ r.kind \notin {"Timeline", "Older"} /\ (r.kind = "List" => r.at = "Asked")
                     /\ Request(r)
<1>1. Request(Idle) /\ Idle.kind = "Idle"
  BY DEF Idle, Request, TimelineRequest, ListRequest, OtherRequest
<1>2. \A m \in Numbered : /\ AskMessage(m).kind = "Message"
                          /\ Posted(m) \/ (m.n = 0 /\ m.status = "Sent") => Request(AskMessage(m))
  BY DEF AskMessage, Request, TimelineRequest, ListRequest, OtherRequest
<1>3. ASSUME NEW m \in Numbered, Posted(m) \/ (m.n = 0 /\ m.status = "Sent"), StartMessageAction(t, m)
      PROVE  Apart /\ UNCHANGED typing
  <2>1. New(AskMessage(m))
    BY <1>1, <1>2, <1>3 DEF StartMessageAction, Free
  <2> QED
    BY <1>3, <2>1 DEF StartMessageAction
<1>4. CASE StartRecall(t)
  BY <1>3, <1>4 DEF StartRecall, Types, WindowTypes
<1>5. ASSUME NEW c \in Conversations, StartForward(t, c)
      PROVE  Apart /\ UNCHANGED typing
  <2>1. [conv |-> c, n |-> 0, status |-> "Sent"] \in Numbered
    BY DEF Numbered
  <2> QED
    BY <1>3, <1>5, <2>1 DEF StartForward
<1>6. CASE MessageActionFails(t)
  <2>1. New(Idle)
    BY <1>1, <1>6 DEF MessageActionFails
  <2> QED
    BY <1>6, <2>1 DEF MessageActionFails
<1> QED
  BY <1>4, <1>5, <1>6 DEF MessageStep

TimelineStep(t) ==
    \/ ReadPage(t) \/ ApplyTimeline(t) \/ LoadOlderMessages(t) \/ ApplyOlder(t) \/ OlderFails(t)
    \/ task[t].kind = "Timeline" /\ \E cached \in SUBSET Cacheable(task[t].conv) : TimelineFails(t, cached)

ListStep(t) ==
    \/ HandleOtherEvent(t) \/ ReadList(t) \/ ListFails(t)
    \/ \E c \in Texts : ApplyList(t, c)

SelectionStep(t) ==
    \/ \E c \in Conversations : SelectConversation(t, c)
    \/ \E c \in Texts : SignIn(t, c)

\* A change of the rows.
RowsStep(c) == MembershipChanges(c) \/ Hide(c)

\* A bootstrap on its way.
BootStep == ReadConversations \/ ReadCursor \/ SignInFails

LEMMA Steps ==
  ASSUME Types, Next
  PROVE  \/ \E c \in Conversations : \E n \in 1 .. Len(log[c]) + 1 : LogStep(c, n)
         \/ \E c \in Conversations : RowsStep(c)
         \/ BootStep \/ TypingStep \/ HandleMessageEvent \/ CloseDetails \/ SignOut
         \/ \E t \in Tasks : \/ AsideStep(t) \/ MessageStep(t) \/ MessageAnswer(t)
                            \/ TimelineStep(t) \/ ListStep(t) \/ SelectionStep(t)
<1>1. ASSUME NEW c \in Conversations, Post(c)
      PROVE  \E d \in Conversations : \E n \in 1 .. Len(log[d]) + 1 : LogStep(d, n)
  <2>1. Changes(c, Len(log[c]) + 1)
    BY <1>1, PostChanges DEF Types
  <2>2. LogStep(c, Len(log[c]) + 1)
    BY <1>1, <2>1 DEF Post, LogStep
  <2> QED
    BY <2>1, <2>2 DEF Changes
<1>2. ASSUME NEW c \in Conversations, NEW n \in Numbers, Recall(c, n)
      PROVE  \E d \in Conversations : \E k \in 1 .. Len(log[d]) + 1 : LogStep(d, k)
  <2>1. Changes(c, n)
    BY <1>2, RecallChanges DEF Types
  <2>2. LogStep(c, n)
    BY <1>2, <2>1 DEF Recall, LogStep
  <2> QED
    BY <2>1, <2>2 DEF Changes
<1>3. ASSUME NEW t \in Tasks, ServeMessageAction(t)
      PROVE  \E d \in Conversations : \E k \in 1 .. Len(log[d]) + 1 : LogStep(d, k)
  <2>1. PICK c \in Conversations : \E n \in 1 .. Len(log[c]) + 1 :
            /\ Changes(c, n)
            /\ task' = [task EXCEPT ![t] = [kind |-> "Message", at |-> "Read",
                                            message |-> [conv |-> c, n |-> n, status |-> log'[c][n]]]]
    BY <1>3, ServeChanges DEF Types
  <2>2. PICK n \in 1 .. Len(log[c]) + 1 :
            /\ Changes(c, n)
            /\ task' = [task EXCEPT ![t] = [kind |-> "Message", at |-> "Read",
                                            message |-> [conv |-> c, n |-> n, status |-> log'[c][n]]]]
    BY <2>1
  <2>3. LogStep(c, n)
    BY <1>3, <2>2 DEF LogStep, ServeMessageAction, Is, Answered
  <2> QED
    BY <2>3
<1> QED
  BY <1>1, <1>2, <1>3 DEF Next, RowsStep, BootStep, TypingStep, AsideStep, MessageStep, TimelineStep, ListStep,
     SelectionStep

(***************************************************************************)
(* The server and the events keep their types.                             *)
(***************************************************************************)
\* Whatever a request carries stays true of the server.
Grows ==
    /\ \A c \in Conversations : InLog(c) \subseteq InLog(c)'
    /\ version' \in Nat /\ version <= version' /\ (version' = version => Listed' = Listed)
    /\ generation' \in Nat /\ generation <= generation'

LEMMA RequestStays ==
  ASSUME Types, Grows, NEW r, Request(r)
  PROVE  Request(r)'
<1> USE DEF Types, ServerTypes, WindowTypes
<1>1. ASSUME NEW m \in Numbered, Posted(m) PROVE Posted(m)'
  BY <1>1 DEF Grows, Posted, Numbered
<1>2. TimelineRequest(r)'
  <2> SUFFICES ASSUME r.kind \in {"Timeline", "Older"}
               PROVE  /\ r.conv \in Conversations
                      /\ r.gen \in 0 .. generation'
                      /\ r.at = "Read" => PageOf(r.conv, r.page)' /\ r.next \in Nat
                      /\ r.kind = "Older" /\ r.at = "Asked" => r.before \in Nat
    BY DEF TimelineRequest
  <2>1. r.conv \in Conversations /\ r.gen \in 0 .. generation'
    BY DEF Request, TimelineRequest, Grows
  <2>2. /\ r.at = "Read" => PageOf(r.conv, r.page)' /\ r.next \in Nat
        /\ r.kind = "Older" /\ r.at = "Asked" => r.before \in Nat
    BY <1>1 DEF Request, TimelineRequest, PageOf
  <2> QED
    BY <2>1, <2>2
<1>3. ListRequest(r)'
  BY DEF Request, ListRequest, Grows
<1>4. OtherRequest(r)'
  BY <1>1 DEF Request, OtherRequest
<1> QED
  BY <1>2, <1>3, <1>4 DEF Request

LEMMA LogStepTypes ==
  ASSUME Types, NEW c \in Conversations, NEW n \in 1 .. Len(log[c]) + 1, Changes(c, n)
  PROVE  /\ log' \in [Conversations -> Seq({"Sent", "Recalled"})]
         /\ \A d \in Conversations : InLog(d) \subseteq InLog(d)'
         /\ n \in InLog(c)'
         /\ [conv |-> c, n |-> n, status |-> log'[c][n]] \in Numbered
         /\ events' \in Seq(Event)
<1>1. log[c] \in Seq({"Sent", "Recalled"}) /\ Len(log[c]) \in Nat /\ n \in Nat
  BY DEF Types, ServerTypes
<1>2. log' \in [Conversations -> Seq({"Sent", "Recalled"})] /\ log'[c] \in Seq({"Sent", "Recalled"})
  BY DEF Changes
<1>3. \A d \in Conversations : InLog(d) \subseteq InLog(d)'
  <2>1. Len(log'[c]) \in Nat /\ Len(log[c]) <= Len(log'[c])
    BY <1>1, <1>2 DEF Changes
  <2>2. InLog(c) \subseteq InLog(c)'
    BY <1>1, <2>1 DEF InLog
  <2>3. \A d \in Conversations \ {c} : InLog(d) = InLog(d)'
    BY DEF Changes, InLog
  <2> QED
    BY <2>2, <2>3
<1>4. n \in 1 .. Len(log'[c])
  BY <1>1 DEF Changes
<1>5. log'[c][n] \in {"Sent", "Recalled"}
  BY <1>2, <1>4
<1>6. PICK e : e = [conv |-> c, n |-> n, status |-> log'[c][n]]
  OBVIOUS
<1>7. e \in Numbered
  BY <1>1, <1>5, <1>6 DEF Numbered
<1>8. events' = Append(events, e) \/ events' = events
  BY <1>6 DEF Changes, Announce
<1>9. events' \in Seq(Event)
  BY <1>7, <1>8 DEF Types, ServerTypes, Event
<1> QED
  BY <1>2, <1>3, <1>4, <1>6, <1>7, <1>9 DEF InLog

\* Every change of a message is announced to a window that listens, behind what waits there, or missed.
LEMMA Announced ==
  ASSUME Types, NEW c \in Conversations, NEW n \in 1 .. Len(log[c]) + 1, Changes(c, n),
         UNCHANGED session
  PROVE  /\ EventsInv'
         /\ Listening => ~Handled(c, n)'
         /\ \A d \in Conversations : \A k \in InLog(d) :
              /\ Listening /\ ~Handled(d, k) => ~Handled(d, k)'
              /\ d # c \/ k # n => Message(d, k)' = Message(d, k)
<1>1. PICK e : e = [conv |-> c, n |-> n, status |-> log'[c][n]]
  OBVIOUS
<1>2. /\ e \in Numbered /\ n \in InLog(c)' /\ events \in Seq(Event) /\ e = Message(c, n)'
      /\ e.conv = c /\ e.n = n
      /\ \A d \in Conversations : InLog(d) \subseteq InLog(d)'
  BY <1>1, LogStepTypes DEF Types, ServerTypes, Message
<1>3. \A d \in Conversations : \A k \in InLog(d) : d # c \/ k # n => Message(d, k)' = Message(d, k)
  BY DEF Changes, Message
<1>4. Listening' = Listening
  BY DEF Listening
<1>5. CASE ~Listening
  <2>1. events = <<>> /\ events' = <<>>
    BY <1>5 DEF Changes, Announce, Types, EventsInv
  <2> QED
    BY <1>3, <1>5, <2>1 DEF EventsInv
<1>6. CASE Listening /\ events' = Append(events, e) /\ missed' = missed \ {<<c, n>>}
  <2> DEFINE L == Len(events)
  <2>1. /\ L \in Nat /\ events' = Append(events, e) /\ Len(events') = L + 1 /\ events'[L + 1] = e
        /\ \A i \in 1 .. L : events'[i] = events[i]
    BY <1>2, <1>6
  <2> HIDE DEF L
  <2>2. ~Handled(c, n)'
    BY <1>2, <2>1 DEF Handled, Waits
  <2>3. ASSUME NEW d \in Conversations, NEW k \in InLog(d), ~Handled(d, k)
        PROVE  ~Handled(d, k)'
    <3>1. CASE d = c /\ k = n
      BY <2>2, <3>1
    <3>2. CASE (d # c \/ k # n) /\ <<d, k>> \in missed
      BY <1>6, <3>2 DEF Handled
    <3>3. CASE (d # c \/ k # n) /\ <<d, k>> \notin missed
      <4>1. PICK i \in 1 .. L : events[i] = Message(d, k)
        BY <2>3, <3>3 DEF Handled, Waits, L
      <4>2. events'[i] = Message(d, k)' /\ i \in 1 .. Len(events')
        BY <1>3, <2>1, <3>3, <4>1
      <4> QED
        BY <4>2 DEF Handled, Waits
    <3> QED
      BY <3>1, <3>2, <3>3
  <2>4. ASSUME NEW i \in 1 .. Len(events'), NEW m \in Numbered, events'[i] = m
        PROVE  /\ Posted(m)'
               /\ (\E j \in i .. Len(events') : events'[j] = Message(m.conv, m.n)') \/ <<m.conv, m.n>> \in missed'
    <3>1. m.conv \in Conversations /\ m.n \in Nat
      BY DEF Numbered
    <3>2. CASE i = L + 1
      <4>1. m = e /\ m.conv = c /\ m.n = n
        BY <1>2, <2>1, <2>4, <3>2
      <4>2. Posted(m)'
        BY <1>2, <4>1 DEF Posted
      <4>3. events'[L + 1] = Message(m.conv, m.n)' /\ L + 1 \in i .. Len(events')
        BY <1>2, <2>1, <3>2, <4>1
      <4> QED
        BY <4>2, <4>3
    <3>3. CASE i \in 1 .. L
      <4>1. events[i] = m /\ Posted(m)
        BY <2>1, <2>4, <3>3 DEF EventsInv, Types, L
      <4>2. m.n \in InLog(m.conv) /\ Posted(m)'
        BY <1>2, <3>1, <4>1 DEF Posted
      <4>3. CASE m.conv = c /\ m.n = n
        <5>1. events'[L + 1] = Message(m.conv, m.n)' /\ L + 1 \in i .. Len(events')
          BY <1>2, <2>1, <3>3, <4>3
        <5> QED
          BY <4>2, <5>1
      <4>4. CASE (m.conv # c \/ m.n # n) /\ <<m.conv, m.n>> \in missed
        BY <1>6, <4>2, <4>4
      <4>5. CASE (m.conv # c \/ m.n # n) /\ <<m.conv, m.n>> \notin missed
        <5>1. PICK j \in i .. L : events[j] = Message(m.conv, m.n)
          BY <2>1, <3>3, <4>1, <4>5 DEF EventsInv, Types, L
        <5>2. events'[j] = Message(m.conv, m.n)' /\ j \in i .. Len(events')
          BY <1>3, <2>1, <3>1, <3>3, <4>2, <4>5, <5>1
        <5> QED
          BY <4>2, <5>2
      <4> QED
        BY <4>3, <4>4, <4>5
    <3> QED
      BY <2>1, <3>2, <3>3
  <2>5. EventsInv'
    BY <1>4, <1>6, <2>4 DEF EventsInv
  <2> QED
    BY <1>3, <2>2, <2>3, <2>5
<1>7. CASE Listening /\ events' = events /\ missed' = missed \cup {<<c, n>>}
  <2>1. ASSUME NEW d \in Conversations, NEW k \in InLog(d), ~Handled(d, k)
        PROVE  ~Handled(d, k)'
    BY <1>3, <1>7, <2>1 DEF Handled, Waits
  <2>2. ASSUME NEW i \in 1 .. Len(events), NEW m \in Numbered, events[i] = m
        PROVE  /\ Posted(m)'
               /\ (\E j \in i .. Len(events) : events[j] = Message(m.conv, m.n)') \/ <<m.conv, m.n>> \in missed'
    <3>1. Posted(m) /\ m.conv \in Conversations
      BY <2>2 DEF EventsInv, Types, Numbered
    <3>2. Posted(m)' /\ m.n \in InLog(m.conv)
      BY <1>2, <3>1 DEF Posted
    <3>3. CASE m.conv = c /\ m.n = n
      BY <1>7, <3>2, <3>3
    <3>4. CASE m.conv # c \/ m.n # n
      <4>1. Message(m.conv, m.n)' = Message(m.conv, m.n)
        BY <1>3, <3>1, <3>2, <3>4
      <4>2. (\E j \in i .. Len(events) : events[j] = Message(m.conv, m.n)) \/ <<m.conv, m.n>> \in missed
        BY <2>2 DEF EventsInv, Types
      <4> QED
        BY <1>7, <3>2, <4>1, <4>2
    <3> QED
      BY <3>3, <3>4
  <2>3. EventsInv'
    BY <1>4, <1>7, <2>2 DEF EventsInv
  <2>4. ~Handled(c, n)'
    BY <1>7 DEF Handled
  <2> QED
    BY <1>3, <2>1, <2>3, <2>4
<1> QED
  BY <1>1, <1>2, <1>5, <1>6, <1>7 DEF Changes, Announce

LEMMA TakeEvent ==
  ASSUME Types, events # <<>>, events' = Tail(events), UNCHANGED <<log, missed, session>>
  PROVE  /\ events' \in Seq(Event) /\ EventsInv'
         /\ Head(events) \in Event
         /\ \A c \in Conversations : \A n \in InLog(c) :
              ~Handled(c, n) => ~Handled(c, n)' \/ Head(events) = Message(c, n)
         /\ \A m \in Numbered : Head(events) = m =>
              Posted(m) /\ (m = Message(m.conv, m.n) \/ ~Handled(m.conv, m.n)')
<1> DEFINE L == Len(events)
<1>1. events \in Seq(Event) /\ L \in Nat \ {0} /\ Listening /\ Listening'
  BY DEF Types, ServerTypes, EventsInv, Listening
<1>2. /\ events' \in Seq(Event) /\ Len(events') = L - 1 /\ Head(events) = events[1] /\ events[1] \in Event
      /\ \A i \in 1 .. L - 1 : events'[i] = events[i + 1]
  BY <1>1
<1> HIDE DEF L
<1>3. \A c, n : Message(c, n)' = Message(c, n)
  BY DEF Message
<1>4. ASSUME NEW i \in 2 .. L
      PROVE  i - 1 \in 1 .. Len(events') /\ events'[i - 1] = events[i]
  <2>1. i - 1 \in 1 .. L - 1 /\ (i - 1) + 1 = i
    BY <1>1
  <2> QED
    BY <1>2, <2>1
<1>5. ASSUME NEW c \in Conversations, NEW n \in InLog(c), ~Handled(c, n), Head(events) # Message(c, n)
      PROVE  ~Handled(c, n)'
  <2>1. CASE <<c, n>> \in missed
    BY <2>1 DEF Handled
  <2>2. CASE <<c, n>> \notin missed
    <3>1. PICK i \in 1 .. L : events[i] = Message(c, n)
      BY <1>5, <2>2 DEF Handled, Waits, L
    <3>2. i \in 2 .. L
      BY <1>1, <1>2, <1>5, <3>1
    <3> QED
      BY <1>3, <1>4, <3>1, <3>2 DEF Handled, Waits
  <2> QED
    BY <2>1, <2>2
<1>6. ASSUME NEW m \in Numbered, Head(events) = m
      PROVE  Posted(m) /\ (m = Message(m.conv, m.n) \/ ~Handled(m.conv, m.n)')
  <2>1. events[1] = m /\ 1 \in 1 .. L
    BY <1>1, <1>2, <1>6
  <2>2. Posted(m)
    BY <2>1 DEF Types, EventsInv, L
  <2>3. CASE <<m.conv, m.n>> \in missed
    BY <2>2, <2>3 DEF Handled
  <2>4. CASE <<m.conv, m.n>> \notin missed
    <3>1. PICK j \in 1 .. L : events[j] = Message(m.conv, m.n)
      BY <2>1, <2>4 DEF Types, EventsInv, L
    <3>2. CASE j = 1
      BY <2>1, <2>2, <3>1, <3>2
    <3>3. CASE j \in 2 .. L
      BY <1>3, <1>4, <2>2, <3>1, <3>3 DEF Handled, Waits
    <3> QED
      BY <1>1, <3>2, <3>3
  <2> QED
    BY <2>3, <2>4
<1>7. ASSUME NEW i \in 1 .. Len(events'), NEW m \in Numbered, events'[i] = m
      PROVE  /\ Posted(m)'
             /\ (\E j \in i .. Len(events') : events'[j] = Message(m.conv, m.n)') \/ <<m.conv, m.n>> \in missed'
  <2>1. i + 1 \in 1 .. L /\ events[i + 1] = m
    BY <1>1, <1>2, <1>7
  <2>2. Posted(m)'
    BY <2>1 DEF Types, EventsInv, L, Posted, InLog
  <2>3. CASE <<m.conv, m.n>> \in missed
    BY <2>2, <2>3
  <2>4. CASE <<m.conv, m.n>> \notin missed
    <3>1. PICK j \in i + 1 .. L : events[j] = Message(m.conv, m.n)
      BY <2>1, <2>4 DEF Types, EventsInv, L
    <3>2. j \in 2 .. L /\ j - 1 \in i .. Len(events')
      BY <1>1, <1>2, <1>7, <3>1
    <3> QED
      BY <1>3, <1>4, <2>2, <3>1, <3>2
  <2> QED
    BY <2>3, <2>4
<1>8. EventsInv'
  BY <1>1, <1>7 DEF EventsInv
<1> QED
  BY <1>2, <1>5, <1>6, <1>8

\* What waits and what was missed stays true of a log that does not change.
LEMMA SameEvents ==
  ASSUME Types, UNCHANGED <<log, events>>, Listening => Listening' \/ events = <<>>,
         \A x \in missed : Mentioned(x[1], x[2]) => x \in missed'
  PROVE  EventsInv'
<1>1. \A c, n : Message(c, n)' = Message(c, n)
  BY DEF Message
<1>2. ASSUME NEW i \in 1 .. Len(events), NEW m \in Numbered, events[i] = m
      PROVE  /\ Posted(m)'
             /\ (\E j \in i .. Len(events) : events[j] = Message(m.conv, m.n)') \/ <<m.conv, m.n>> \in missed'
  <2>1. Posted(m)'
    BY <1>2 DEF Types, EventsInv, Posted, InLog
  <2>2. (\E j \in i .. Len(events) : events[j] = Message(m.conv, m.n)) \/ <<m.conv, m.n>> \in missed
    BY <1>2 DEF Types, EventsInv
  <2>3. PICK x : x = <<m.conv, m.n>>
    OBVIOUS
  <2>4. x[1] = m.conv /\ x[2] = m.n /\ Mentioned(m.conv, m.n)
    BY <1>2, <2>3 DEF Mentioned
  <2> QED
    BY <1>1, <2>1, <2>2, <2>3, <2>4
<1> QED
  BY <1>2 DEF Types, EventsInv

\* An event without a message.
LEMMA OtherEvent ==
  ASSUME Types, AnnounceRows, UNCHANGED <<log, session>>
  PROVE  /\ events' \in Seq(Event) /\ EventsInv'
         /\ \A c \in Conversations : \A n \in InLog(c) : ~Handled(c, n) => ~Handled(c, n)'
<1> DEFINE L == Len(events)
<1>1. events \in Seq(Event) /\ L \in Nat /\ missed' = missed /\ Listening' = Listening
  BY DEF Types, ServerTypes, AnnounceRows, Listening
<1>2. \A c, n : Message(c, n)' = Message(c, n)
  BY DEF Message
<1>3. PICK e : e = [conv |-> None]
  OBVIOUS
<1>4. e \in Event /\ e \notin Numbered
  BY <1>3, DesktopViewAssumption DEF Event, Numbered
<1>5. CASE events' = events
  BY <1>1, <1>2, <1>5, SameEvents DEF Handled, Waits
<1>6. CASE Listening /\ events' = Append(events, e)
  <2>1. /\ events' = Append(events, e) /\ events' \in Seq(Event) /\ Len(events') = L + 1
        /\ events'[L + 1] = e /\ \A i \in 1 .. L : events'[i] = events[i]
    BY <1>1, <1>4, <1>6
  <2> HIDE DEF L
  <2>2. ASSUME NEW c \in Conversations, NEW n \in InLog(c), ~Handled(c, n)
        PROVE  ~Handled(c, n)'
    <3>1. CASE <<c, n>> \in missed
      BY <1>1, <3>1 DEF Handled
    <3>2. CASE <<c, n>> \notin missed
      <4>1. PICK i \in 1 .. L : events[i] = Message(c, n)
        BY <2>2, <3>2 DEF Handled, Waits, L
      <4>2. i \in 1 .. Len(events') /\ events'[i] = Message(c, n)'
        BY <1>1, <1>2, <2>1, <4>1
      <4> QED
        BY <4>2 DEF Handled, Waits
    <3> QED
      BY <3>1, <3>2
  <2>3. ASSUME NEW i \in 1 .. Len(events'), NEW m \in Numbered, events'[i] = m
        PROVE  /\ Posted(m)'
               /\ (\E j \in i .. Len(events') : events'[j] = Message(m.conv, m.n)') \/ <<m.conv, m.n>> \in missed'
    <3>1. i \in 1 .. L /\ events[i] = m
      BY <1>1, <1>4, <2>1, <2>3
    <3>2. Posted(m)'
      BY <3>1 DEF Types, EventsInv, L, Posted, InLog
    <3>3. CASE <<m.conv, m.n>> \in missed
      BY <1>1, <3>2, <3>3
    <3>4. CASE <<m.conv, m.n>> \notin missed
      <4>1. PICK j \in i .. L : events[j] = Message(m.conv, m.n)
        BY <3>1, <3>4 DEF Types, EventsInv, L
      <4>2. j \in i .. Len(events') /\ events'[j] = Message(m.conv, m.n)'
        BY <1>1, <1>2, <2>1, <3>1, <4>1
      <4> QED
        BY <3>2, <4>2
    <3> QED
      BY <3>3, <3>4
  <2>4. EventsInv'
    BY <1>1, <1>6, <2>3 DEF EventsInv
  <2> QED
    BY <2>1, <2>2, <2>4
<1> QED
  BY <1>3, <1>5, <1>6 DEF AnnounceRows

LEMMA SameServer ==
  ASSUME Types, UNCHANGED <<server, events>>, generation' \in {generation, generation + 1},
         Listening => Listening' \/ events = <<>>,
         \A x \in missed : Mentioned(x[1], x[2]) => x \in missed'
  PROVE  ServerTypes' /\ EventsInv' /\ Grows
<1>1. UNCHANGED <<log, joined, hidden, version, events>>
  BY DEF server
<1>2. ServerTypes' /\ EventsInv'
  BY <1>1, SameEvents DEF Types, ServerTypes
<1>3. Grows
  BY <1>1 DEF Types, ServerTypes, WindowTypes, Grows, InLog, Listed
<1> QED
  BY <1>2, <1>3

LEMMA SameFeed ==
  ASSUME Types, UNCHANGED <<server, feed, session>>, generation' \in {generation, generation + 1}
  PROVE  ServerTypes' /\ EventsInv' /\ Grows
<1>1. Listening' = Listening /\ UNCHANGED <<events, missed>>
  BY DEF Listening
<1> QED
  BY <1>1, SameServer

LEMMA EmptyFeed ==
  ASSUME Types, UNCHANGED server, events' = <<>>, generation' \in {generation, generation + 1}
  PROVE  ServerTypes' /\ EventsInv' /\ Grows
<1>1. UNCHANGED <<log, joined, hidden, version>>
  BY DEF server
<1>2. ServerTypes' /\ EventsInv'
  BY <1>1 DEF Types, ServerTypes, EventsInv
<1>3. Grows
  BY <1>1 DEF Types, ServerTypes, WindowTypes, Grows, InLog, Listed
<1> QED
  BY <1>2, <1>3

LEMMA Loads ==
  ASSUME Types, NEW t \in Tasks, NEW c \in Texts, LoadSelectedTimeline(t, c)
  PROVE  generation' \in {generation, generation + 1}
BY DEF LoadSelectedTimeline

\* A page that is applied says what the window missed of the messages it shows.
LEMMA TimelineStepKeepsServer ==
  ASSUME Types, NEW t \in Tasks, TimelineStep(t)
  PROVE  /\ UNCHANGED <<server, events, session, list, selected, generation, typing>>
         /\ \A x \in missed : Mentioned(x[1], x[2]) => x \in missed'
<1>1. CASE ApplyTimeline(t)
  BY <1>1 DEF ApplyTimeline
<1>2. CASE ~ApplyTimeline(t)
  BY <1>2 DEF TimelineStep, ReadPage, LoadOlderMessages, ApplyOlder, OlderFails, TimelineFails, screen,
     timeline
<1> QED
  BY <1>1, <1>2

LEMMA ListStepKeepsServer ==
  ASSUME Types, NEW t \in Tasks, ListStep(t)
  PROVE  UNCHANGED <<server, missed, session, timeline, aside, typing>>
BY DEF ListStep, HandleOtherEvent, ReadList, ListFails, ApplyList, screen

LEMMA ServerStep ==
  ASSUME Types, Next
  PROVE  ServerTypes' /\ EventsInv' /\ Grows
<1> DEFINE G == ServerTypes' /\ EventsInv' /\ Grows
<1>1. ASSUME NEW c \in Conversations, NEW n \in 1 .. Len(log[c]) + 1, LogStep(c, n)
      PROVE  G
  <2>1. Changes(c, n) /\ UNCHANGED <<joined, hidden, version, session, generation>>
    BY <1>1 DEF LogStep, screen, timeline
  <2>2. ServerTypes'
    BY <2>1, LogStepTypes DEF Types, ServerTypes
  <2>3. EventsInv'
    BY <2>1, Announced
  <2>4. \A d \in Conversations : InLog(d) \subseteq InLog(d)'
    BY <2>1, LogStepTypes
  <2>5. Grows
    BY <2>1, <2>4 DEF Types, ServerTypes, WindowTypes, Grows, Listed
  <2> QED
    BY <2>2, <2>3, <2>5
<1>2. ASSUME NEW c \in Conversations, RowsStep(c)
      PROVE  G
  <2>1. AnnounceRows /\ UNCHANGED <<log, session, generation>>
    BY <1>2 DEF RowsStep, MembershipChanges, Hide, screen, timeline
  <2>2. joined' \subseteq Conversations /\ version' = version + 1
    BY <1>2 DEF RowsStep, MembershipChanges, Hide, AnnounceRows, Types, ServerTypes
  <2> QED
    BY <2>1, <2>2, OtherEvent DEF Types, ServerTypes, WindowTypes, Grows, InLog
<1>3. CASE Apart
  BY <1>3, SameFeed DEF Apart, screen, timeline
<1>4. CASE HandleMessageEvent \/ \E t \in Tasks : HandleOtherEvent(t)
  <2>1. /\ events # <<>> /\ events' = Tail(events)
        /\ UNCHANGED <<log, joined, hidden, version, missed, session, generation>>
    BY <1>4 DEF HandleMessageEvent, HandleOtherEvent, server, screen, timeline
  <2> QED
    BY <2>1, TakeEvent DEF Types, ServerTypes, WindowTypes, Grows, InLog, Listed
<1>5. ASSUME NEW t \in Tasks, SelectionStep(t)
      PROVE  G
  <2>1. ASSUME NEW c \in Texts, SignIn(t, c)
        PROVE  G
    <3>1. UNCHANGED <<server, feed>> /\ generation' \in {generation, generation + 1} /\ Listening'
      BY <2>1, Loads DEF SignIn, Listening
    <3> QED
      BY <3>1, SameServer
  <2>2. ASSUME NEW c \in Conversations, SelectConversation(t, c)
        PROVE  G
    <3>1. UNCHANGED <<server, feed, session>> /\ generation' \in {generation, generation + 1}
      BY <2>2, Loads DEF SelectConversation, Texts
    <3> QED
      BY <3>1, SameFeed
  <2> QED
    BY <1>5, <2>1, <2>2 DEF SelectionStep
<1>6. ASSUME NEW t \in Tasks, MessageAnswer(t) \/ TimelineStep(t)
      PROVE  G
  <2>1. /\ UNCHANGED <<server, events, session, generation>>
        /\ \A x \in missed : Mentioned(x[1], x[2]) => x \in missed'
    BY <1>6, TimelineStepKeepsServer DEF MessageAnswer
  <2>2. Listening' = Listening
    BY <2>1 DEF Listening
  <2> QED
    BY <2>1, <2>2, SameServer
<1>7. ASSUME NEW t \in Tasks, ListStep(t)
      PROVE  G
  <2>1. CASE HandleOtherEvent(t)
    BY <1>4, <2>1
  <2>2. CASE ~HandleOtherEvent(t)
    <3>1. UNCHANGED <<server, feed, session, generation>>
      BY <1>7, <2>2, ListStepKeepsServer DEF ListStep, ReadList, ListFails, ApplyList, timeline
    <3> QED
      BY <3>1, SameFeed
  <2> QED
    BY <2>1, <2>2
<1>8. CASE CloseDetails \/ ReadConversations
  <2>1. CASE CloseDetails
    BY <2>1, SameFeed DEF CloseDetails, screen, timeline
  <2>2. CASE ReadConversations
    <3>1. UNCHANGED <<server, feed, generation>> /\ (Listening => Listening')
      BY <2>2 DEF ReadConversations, screen, timeline, Listening
    <3> QED
      BY <3>1, SameServer
  <2> QED
    BY <1>8, <2>1, <2>2
<1>9. CASE SignOut \/ ReadCursor \/ SignInFails
  <2>1. UNCHANGED server /\ events' = <<>> /\ generation' \in {generation, generation + 1}
    BY <1>9 DEF SignOut, ReadCursor, SignInFails, screen, timeline
  <2> QED
    BY <2>1, EmptyFeed
<1> QED
  BY <1>1, <1>2, <1>3, <1>4, <1>5, <1>6, <1>7, <1>8, <1>9, Steps, TypingApart, AsideApart,
     MessageApart DEF BootStep

\* A sign-in under way: only outside of a session.
LEMMA BootTypesStep ==
  ASSUME Types, Next
  PROVE  BootTypes'
<1>1. CASE UNCHANGED session
  BY <1>1 DEF Types, BootTypes
<1>2. CASE ReadConversations
  BY <1>2 DEF ReadConversations, Types, BootTypes, ServerTypes, Listed
<1>3. CASE ReadCursor
  <2>1. bootstrap.at # "None"
    BY <1>3 DEF ReadCursor
  <2> QED
    BY <1>3, <2>1 DEF ReadCursor, Types, BootTypes
<1>4. CASE SignInFails \/ \E t \in Tasks, c \in Texts : SignIn(t, c)
  BY <1>4 DEF SignInFails, SignIn, NoBootstrap, Types, BootTypes
<1>5. CASE SignOut
  BY <1>5 DEF SignOut, Types, BootTypes
<1>6. ASSUME NEW t \in Tasks, ListStep(t) \/ TimelineStep(t)
      PROVE  UNCHANGED session
  BY <1>6, ListStepKeepsServer, TimelineStepKeepsServer
<1>7. CASE \/ \E c \in Conversations : \E n \in 1 .. Len(log[c]) + 1 : LogStep(c, n)
           \/ \E c \in Conversations : RowsStep(c)
  BY <1>1, <1>7 DEF LogStep, RowsStep, MembershipChanges, Hide
<1>8. CASE HandleMessageEvent \/ CloseDetails \/ Apart
           \/ \E t \in Tasks : MessageAnswer(t) \/ \E c \in Conversations : SelectConversation(t, c)
  BY <1>1, <1>8 DEF HandleMessageEvent, CloseDetails, Apart, MessageAnswer, SelectConversation
<1> QED
  BY <1>1, <1>2, <1>3, <1>4, <1>5, <1>6, <1>7, <1>8, Steps, TypingApart, AsideApart, MessageApart
     DEF BootStep, SelectionStep

(***************************************************************************)
(* The window and the requests keep their types.                           *)
(***************************************************************************)
LEMMA NewTask ==
  ASSUME Types, Grows, NEW t \in Tasks, NEW r, Request(r)', task' = [task EXCEPT ![t] = r]
  PROVE  TaskTypes'
<1>1. DOMAIN task' = Tasks /\ task'[t] = r /\ \A s \in Tasks \ {t} : task'[s] = task[s]
  BY DEF Types, TaskTypes
<1>2. ASSUME NEW s \in Tasks PROVE Request(task[s])'
  <2>1. PICK x : x = task'[s]
    OBVIOUS
  <2>2. Request(x)'
    <3>1. CASE s = t
      BY <1>1, <2>1, <3>1
    <3>2. CASE s # t
      <4>1. x = task[s] /\ Request(x)
        BY <1>1, <2>1, <3>2 DEF Types, TaskTypes
      <4> QED
        BY <4>1, RequestStays
    <3> QED
      BY <3>1, <3>2
  <2> QED
    BY <2>1, <2>2
<1> QED
  BY <1>1, <1>2 DEF TaskTypes

LEMMA PageTypes ==
  ASSUME Types, NEW c \in Conversations, NEW before \in Nat
  PROVE  /\ PageOf(c, Page(c, before))
         /\ PageNextCursor(Page(c, before), before) \in Nat
         /\ \A m \in Page(c, before) : m = Message(c, m.n)
<1>1. log[c] \in Seq({"Sent", "Recalled"}) /\ Len(log[c]) \in Nat /\ PageSize \in Nat \ {0}
  BY DesktopViewAssumption DEF Types, ServerTypes
<1>2. PICK end : end = IF before = 0 \/ before > Len(log[c]) THEN Len(log[c]) ELSE before - 1
  OBVIOUS
<1>3. end \in 0 .. Len(log[c])
  BY <1>1, <1>2
<1>4. PICK page : page = Page(c, before)
  OBVIOUS
<1>5. page = {Message(c, n) : n \in {k \in 1 .. end : k > end - PageSize}}
  BY <1>2, <1>4 DEF Page
<1>6. \A n \in 1 .. end : log[c][n] \in {"Sent", "Recalled"} /\ n \in Nat /\ n \in InLog(c)
  BY <1>1, <1>3 DEF InLog
<1>7. \A m \in page : \E n \in 1 .. end : m = Message(c, n)
  BY <1>5
<1>8. \A m \in page : m \in Numbered /\ m.conv = c /\ m.n \in 1 .. end /\ m = Message(c, m.n)
  BY <1>6, <1>7 DEF Message, Numbered
<1>9. PageOf(c, page)
  BY <1>6, <1>8 DEF PageOf, Posted
<1>10. PageNextCursor(page, before) \in Nat
  <2>1. CASE Cardinality(page) < PageSize
    BY <2>1 DEF PageNextCursor
  <2>2. CASE ~(Cardinality(page) < PageSize)
    <3>1. page # {}
      <4>1. Cardinality({}) = 0
        BY FS_EmptySet
      <4>2. page = {} => Cardinality(page) = 0
        BY <4>1
      <4>3. 0 < PageSize
        BY <1>1
      <4> QED
        BY <2>2, <4>2, <4>3
    <3>2. end \in Nat \ {0}
      BY <1>3, <1>7, <3>1
    <3>3. PICK low \in 1 .. end : low > end - PageSize /\ \A k \in 1 .. end : k > end - PageSize => low <= k
      <4>1. CASE end > PageSize
        <5>1. end - PageSize + 1 \in 1 .. end
          BY <1>1, <3>2, <4>1
        <5>2. \A k \in 1 .. end : k > end - PageSize => end - PageSize + 1 <= k
          BY <1>1, <3>2
        <5>3. end - PageSize + 1 > end - PageSize
          BY <1>1, <3>2
        <5> QED
          BY <5>1, <5>2, <5>3
      <4>2. CASE ~(end > PageSize)
        <5>1. 1 \in 1 .. end /\ 1 > end - PageSize /\ \A k \in 1 .. end : 1 <= k
          BY <1>1, <3>2, <4>2
        <5> QED
          BY <5>1
      <4> QED
        BY <4>1, <4>2
    <3>4. Message(c, low) \in page /\ Message(c, low).n = low
      BY <1>5, <3>3 DEF Message
    <3>5. \A m \in page : low <= m.n
      BY <1>5, <3>3 DEF Message
    <3>6. PICK first : first = CHOOSE n \in {m.n : m \in page} : \A m \in page : n <= m.n
      OBVIOUS
    <3>7. first \in {m.n : m \in page}
      BY <3>4, <3>5, <3>6
    <3>8. first \in Nat
      BY <1>8, <3>2, <3>7
    <3>9. PageNextCursor(page, before) = IF before = 0 \/ first < before THEN first ELSE 0
      BY <2>2, <3>6 DEF PageNextCursor
    <3> QED
      BY <3>8, <3>9
  <2> QED
    BY <2>1, <2>2
<1> QED
  BY <1>4, <1>8, <1>9, <1>10

LEMMA SameTasks ==
  ASSUME Types, Grows, task' = task
  PROVE  TaskTypes'
<1>1. ASSUME NEW s \in Tasks PROVE Request(task[s])'
  <2>1. PICK x : x = task[s]
    OBVIOUS
  <2>2. Request(x)'
    BY <2>1, RequestStays DEF Types, TaskTypes
  <2> QED
    BY <2>1, <2>2
<1> QED
  BY <1>1 DEF Types, TaskTypes

LEMMA IdleRequest == Request(Idle)'
BY DEF Idle, Request, TimelineRequest, ListRequest, OtherRequest

LEMMA LoadTasks ==
  ASSUME Types, Grows, NEW t \in Tasks, NEW c \in Texts, LoadSelectedTimeline(t, c)
  PROVE  TaskTypes'
<1>1. CASE c = None
  BY <1>1, SameTasks DEF LoadSelectedTimeline
<1>2. CASE c # None
  <2>1. PICK r : r = AskTimeline(c, generation + 1)
    OBVIOUS
  <2>2. r.kind = "Timeline" /\ r.at = "Asked" /\ r.conv = c /\ r.gen = generation + 1
    BY <2>1 DEF AskTimeline
  <2>3. generation' = generation + 1 /\ generation \in Nat
    BY <1>2 DEF LoadSelectedTimeline, Types, WindowTypes
  <2>4. Request(r)'
    BY <1>2, <2>2, <2>3 DEF Texts, Request, TimelineRequest, ListRequest, OtherRequest
  <2> QED
    BY <1>2, <2>1, <2>4, NewTask DEF LoadSelectedTimeline
<1> QED
  BY <1>1, <1>2

LEMMA TimelineStepTasks ==
  ASSUME Types, Grows, NEW t \in Tasks, TimelineStep(t)
  PROVE  TaskTypes'
<1>1. UNCHANGED <<log, joined, hidden, version, generation>>
  BY TimelineStepKeepsServer DEF server
<1>2. CASE ReadPage(t)
  <2>1. PICK x : x = task[t]
    OBVIOUS
  <2>2. x.kind \in {"Timeline", "Older"} /\ x.at = "Asked" /\ TimelineRequest(x)
    BY <1>2, <2>1 DEF ReadPage, Types, TaskTypes, Request
  <2>3. PICK before : before = IF x.kind = "Older" THEN x.before ELSE 0
    OBVIOUS
  <2>4. before \in Nat /\ x.conv \in Conversations /\ x.gen \in 0 .. generation
    BY <2>2, <2>3 DEF TimelineRequest
  <2>5. PICK page : page = Page(x.conv, before)
    OBVIOUS
  <2>6. PICK next : next = PageNextCursor(page, before)
    OBVIOUS
  <2>7. PageOf(x.conv, page) /\ next \in Nat
    BY <2>4, <2>5, <2>6, PageTypes
  <2>8. PICK r : r = [kind |-> x.kind, at |-> "Read", conv |-> x.conv, gen |-> x.gen,
                      page |-> page, next |-> next]
    OBVIOUS
  <2>9. task' = [task EXCEPT ![t] = r]
    BY <1>2, <2>1, <2>3, <2>5, <2>6, <2>8 DEF ReadPage
  <2>10. PageOf(x.conv, page)'
    BY <1>1, <2>7 DEF PageOf, Posted, InLog
  <2>11. Request(r)'
    <3>1. r.kind = x.kind /\ r.at = "Read" /\ r.conv = x.conv /\ r.gen = x.gen /\ r.page = page /\ r.next = next
      BY <2>8
    <3> QED
      BY <1>1, <2>2, <2>4, <2>7, <2>10, <3>1 DEF Request, TimelineRequest, ListRequest, OtherRequest
  <2> QED
    BY <2>9, <2>11, NewTask
<1>3. CASE LoadOlderMessages(t)
  <2>1. PICK r : r = AskOlder(selected, generation, cursor)
    OBVIOUS
  <2>2. /\ r.kind = "Older" /\ r.at = "Asked" /\ r.conv = selected /\ r.gen = generation /\ r.before = cursor
    BY <2>1 DEF AskOlder
  <2>3. selected \in Conversations /\ generation \in Nat /\ cursor \in Nat
    BY <1>3 DEF LoadOlderMessages, Types, WindowTypes
  <2>4. Request(r)'
    BY <1>1, <2>2, <2>3 DEF Request, TimelineRequest, ListRequest, OtherRequest
  <2> QED
    BY <1>3, <2>1, <2>4, NewTask DEF LoadOlderMessages
<1>4. CASE ~ReadPage(t) /\ ~LoadOlderMessages(t)
  <2>1. task' = [task EXCEPT ![t] = Idle]
    BY <1>4 DEF TimelineStep, ApplyTimeline, ApplyOlder, OlderFails, TimelineFails
  <2> QED
    BY <2>1, NewTask, IdleRequest
<1> QED
  BY <1>2, <1>3, <1>4

LEMMA ListStepTasks ==
  ASSUME Types, Grows, NEW t \in Tasks, ListStep(t)
  PROVE  TaskTypes'
<1>1. UNCHANGED <<joined, hidden, version>>
  BY ListStepKeepsServer DEF server
<1>2. CASE HandleOtherEvent(t)
  <2>1. PICK r : r = AskList(selected)
    OBVIOUS
  <2>2. Request(r)'
    BY <2>1 DEF AskList, Request, TimelineRequest, ListRequest, OtherRequest
  <2> QED
    BY <1>2, <2>1, <2>2, NewTask DEF HandleOtherEvent, RefreshBootstrap
<1>3. CASE ReadList(t)
  <2>1. PICK r : r = [kind |-> "List", at |-> "Read", keep |-> task[t].keep, rows |-> Listed, version |-> version]
    OBVIOUS
  <2>2. r.kind = "List" /\ r.at = "Read" /\ r.rows = Listed /\ r.version = version
    BY <2>1
  <2>3. Listed \subseteq Conversations /\ version \in Nat
    BY DEF Types, ServerTypes, Listed
  <2>4. Request(r)'
    BY <1>1, <2>2, <2>3 DEF Request, TimelineRequest, ListRequest, OtherRequest, Listed
  <2> QED
    BY <1>3, <2>1, <2>4, NewTask DEF ReadList
<1>4. CASE ~HandleOtherEvent(t) /\ ~ReadList(t)
  <2>1. task' = [task EXCEPT ![t] = Idle]
    BY <1>4 DEF ListStep, ListFails, ApplyList
  <2> QED
    BY <2>1, NewTask, IdleRequest
<1> QED
  BY <1>2, <1>3, <1>4

LEMMA TasksStep ==
  ASSUME Types, Next
  PROVE  TaskTypes'
<1>0. Grows
  BY ServerStep
<1>1. ASSUME NEW c \in Conversations, NEW n \in 1 .. Len(log[c]) + 1, LogStep(c, n)
      PROVE  TaskTypes'
  <2>1. PICK m : m = [conv |-> c, n |-> n, status |-> log'[c][n]]
    OBVIOUS
  <2>2. m \in Numbered /\ m.n \in InLog(m.conv)'
    BY <1>1, <2>1, LogStepTypes DEF LogStep
  <2>3. PICK r : r = [kind |-> "Message", at |-> "Read", message |-> m]
    OBVIOUS
  <2>4. r.kind = "Message" /\ r.at = "Read" /\ r.message = m
    BY <2>3
  <2>5. Request(r)'
    BY <2>2, <2>4 DEF Request, TimelineRequest, ListRequest, OtherRequest, Posted
  <2>6. task' = task \/ \E t \in Tasks : task' = [task EXCEPT ![t] = r]
    BY <1>1, <2>1, <2>3 DEF LogStep, Answered
  <2> QED
    BY <1>0, <2>5, <2>6, SameTasks, NewTask
<1>2. CASE Apart
  <2>1. \A r : Request(r) => Request(r)'
    BY <1>0, RequestStays
  <2> QED
    BY <1>0, <1>2, <2>1, SameTasks, NewTask DEF Apart
<1>3. CASE \/ (\E c \in Conversations : RowsStep(c)) \/ BootStep
           \/ HandleMessageEvent \/ CloseDetails \/ SignOut
  <2>1. task' = task
    BY <1>3 DEF RowsStep, MembershipChanges, Hide, BootStep, ReadConversations, ReadCursor, SignInFails,
       HandleMessageEvent, CloseDetails, SignOut
  <2> QED
    BY <1>0, <2>1, SameTasks
<1>4. ASSUME NEW t \in Tasks, MessageAnswer(t)
      PROVE  TaskTypes'
  BY <1>0, <1>4, NewTask, IdleRequest DEF MessageAnswer
<1>5. ASSUME NEW t \in Tasks, SelectionStep(t)
      PROVE  TaskTypes'
  <2>1. \E c \in Texts : LoadSelectedTimeline(t, c)
    BY <1>5 DEF SelectionStep, SelectConversation, SignIn, Texts
  <2> QED
    BY <1>0, <2>1, LoadTasks
<1> QED
  BY <1>0, <1>1, <1>2, <1>3, <1>4, <1>5, Steps, TypingApart, AsideApart, MessageApart,
     TimelineStepTasks, ListStepTasks

\* Messages come on the screen from events, from pages and from answers.
LEMMA Onscreen ==
  ASSUME Types, NEW e \in Event, e.conv = selected => e \in Numbered /\ Posted(e)
  PROVE  WithMessage(e) \subseteq Numbered /\ \A m \in WithMessage(e) : Posted(m)
BY DEF WithMessage, Types, WindowTypes

LEMMA WindowStep ==
  ASSUME Types, Next
  PROVE  WindowTypes'
<1>0. Grows /\ selected \in Conversations \cup {None}
  BY ServerStep DEF Types, WindowTypes
<1>1. ASSUME NEW S, S \subseteq Numbered, \A m \in S : Posted(m)
      PROVE  \A m \in S : Posted(m)'
  BY <1>0, <1>1 DEF Grows, Posted, Numbered
<1>2. \A m \in shown : Posted(m)'
  BY <1>1 DEF Types, WindowTypes
<1>3. CASE UNCHANGED <<list, selected, shown, cursor, generation, composer, drafts>>
  BY <1>2, <1>3 DEF Types, WindowTypes
<1>4. CASE (\E c \in Conversations : \E n \in 1 .. Len(log[c]) + 1 : LogStep(c, n))
        \/ (\E c \in Conversations : RowsStep(c)) \/ BootStep \/ CloseDetails
        \/ \E t \in Tasks : AsideStep(t) \/ MessageStep(t)
  <2>1. UNCHANGED <<list, screen, typing>>
    BY <1>4, AsideApart, MessageApart DEF LogStep, RowsStep, MembershipChanges, Hide, BootStep,
       ReadConversations, ReadCursor, SignInFails, CloseDetails, Apart
  <2> QED
    BY <1>3, <2>1 DEF screen, timeline, typing
<1>5. CASE TypingStep
  <2>1. UNCHANGED <<list, selected, shown, cursor, generation>>
    BY <1>5 DEF TypingStep, Type, SendComposer, SaveDraft, screen, timeline
  <2>2. composer' \in Texts
    BY <1>0, <1>5 DEF TypingStep, Type, SendComposer, SaveDraft, Types, WindowTypes, Texts
  <2>3. drafts' \in [Conversations -> SUBSET Conversations]
    BY <1>0, <1>5 DEF TypingStep, Type, SendComposer, SaveDraft, Types, WindowTypes, Texts,
       Persisted
  <2> QED
    BY <1>2, <2>1, <2>2, <2>3 DEF Types, WindowTypes
<1>6. ASSUME NEW e \in Event, e.conv = selected => e \in Numbered /\ Posted(e), shown' = WithMessage(e),
             UNCHANGED <<list, selected, cursor, generation, composer, drafts>>
      PROVE  WindowTypes'
  <2>1. shown' \subseteq Numbered /\ \A m \in WithMessage(e) : Posted(m)'
    BY <1>1, <1>6, Onscreen
  <2>2. \A m \in shown' : m.n \in InLog(m.conv)'
    BY <1>6, <2>1 DEF Posted
  <2> QED
    BY <1>6, <2>1, <2>2 DEF Types, WindowTypes, Posted
<1>7. CASE HandleMessageEvent
  <2>1. PICK e : e = Head(events)
    OBVIOUS
  <2>2. e \in Event /\ (e \in Numbered => Posted(e)) /\ e.conv # None
    BY <1>7, <2>1, TakeEvent DEF HandleMessageEvent, server
  <2>3. e \in Numbered
    BY <2>2 DEF Event
  <2> QED
    BY <1>6, <1>7, <2>1, <2>2, <2>3 DEF HandleMessageEvent, typing
<1>8. ASSUME NEW t \in Tasks, MessageAnswer(t)
      PROVE  WindowTypes'
  <2>1. PICK e : e = task[t].message
    OBVIOUS
  <2>2. e \in Numbered /\ Posted(e)
    BY <1>8, <2>1 DEF MessageAnswer, Is, Types, TaskTypes, Request, OtherRequest
  <2> QED
    BY <1>6, <1>8, <2>1, <2>2 DEF MessageAnswer, typing, Event
<1>9. ASSUME NEW t \in Tasks, TimelineStep(t)
      PROVE  WindowTypes'
  <2>1. UNCHANGED <<list, selected, generation, composer, drafts>>
    BY <1>9, TimelineStepKeepsServer DEF typing
  <2>2. PICK r : r = task[t]
    OBVIOUS
  <2>3. TimelineRequest(r)
    BY <2>2 DEF Types, TaskTypes, Request
  <2>4. ASSUME NEW S, S \subseteq Numbered, \A m \in S : Posted(m), shown' = S, cursor' \in Nat
        PROVE  WindowTypes'
    <3>1. \A m \in shown' : m.n \in InLog(m.conv)'
      BY <1>1, <2>4 DEF Posted
    <3> QED
      BY <2>1, <2>4, <3>1 DEF Types, WindowTypes, Posted
  <2>5. shown \subseteq Numbered /\ (\A m \in shown : Posted(m)) /\ cursor \in Nat
    BY DEF Types, WindowTypes
  <2>6. CASE UNCHANGED <<shown, cursor>>
    BY <2>4, <2>5, <2>6
  <2>7. CASE ReadPage(t) \/ LoadOlderMessages(t) \/ OlderFails(t)
    BY <2>6, <2>7 DEF ReadPage, LoadOlderMessages, OlderFails, screen, timeline
  <2>8. CASE ApplyTimeline(t)
    <3>1. r.page \subseteq Numbered /\ (\A m \in r.page : Posted(m)) /\ r.next \in Nat
      BY <2>2, <2>3, <2>8 DEF ApplyTimeline, Is, TimelineRequest, PageOf
    <3>2. (shown' = r.page /\ cursor' = r.next) \/ UNCHANGED <<shown, cursor>>
      BY <2>2, <2>8 DEF ApplyTimeline
    <3> QED
      BY <2>4, <2>6, <3>1, <3>2
  <2>9. CASE ApplyOlder(t)
    <3>1. r.page \subseteq Numbered /\ (\A m \in r.page : Posted(m)) /\ r.next \in Nat
      BY <2>2, <2>3, <2>9 DEF ApplyOlder, Is, TimelineRequest, PageOf
    <3>2. Prepended(r.page) \subseteq Numbered /\ \A m \in Prepended(r.page) : Posted(m)
      BY <2>5, <3>1 DEF Prepended
    <3>3. (shown' = Prepended(r.page) /\ cursor' = r.next) \/ UNCHANGED <<shown, cursor>>
      BY <2>2, <2>9 DEF ApplyOlder
    <3> QED
      BY <2>4, <2>6, <3>1, <3>2, <3>3
  <2>10. ASSUME NEW cached \in SUBSET Cacheable(task[t].conv), TimelineFails(t, cached)
         PROVE  WindowTypes'
    <3>1. Numbers \subseteq Nat
      BY DesktopViewAssumption DEF Numbers
    <3>2. cached \subseteq Numbered /\ \A m \in cached : Posted(m)
      BY <3>1 DEF Cacheable, Messages, Numbered, Posted
    <3>3. (shown' = cached /\ cursor' = 0) \/ UNCHANGED <<shown, cursor>>
      BY <2>10 DEF TimelineFails
    <3> QED
      BY <2>4, <2>6, <3>2, <3>3
  <2> QED
    BY <1>9, <2>7, <2>8, <2>9, <2>10 DEF TimelineStep
<1>10. ASSUME NEW t \in Tasks, ListStep(t)
       PROVE  WindowTypes'
  <2>1. UNCHANGED <<shown, cursor, generation, composer, drafts>>
    BY <1>10, ListStepKeepsServer DEF timeline, typing
  <2>2. CASE HandleOtherEvent(t) \/ ReadList(t) \/ ListFails(t)
    BY <1>3, <2>1, <2>2 DEF HandleOtherEvent, ReadList, ListFails, screen
  <2>3. ASSUME NEW c \in Texts, ApplyList(t, c)
        PROVE  WindowTypes'
    <3>1. PICK r : r = task[t]
      OBVIOUS
    <3>2. r.rows \subseteq Conversations /\ r.version \in Nat
      BY <2>3, <3>1 DEF ApplyList, Is, Types, ServerTypes, TaskTypes, Request, ListRequest
    <3>3. list' = [rows |-> r.rows, version |-> r.version] /\ selected' = c /\ c \in Reselected(r)
      BY <2>3, <3>1 DEF ApplyList
    <3>4. c \in r.rows \cup {None}
      BY <3>3 DEF Reselected, First
    <3> QED
      BY <1>2, <2>1, <3>2, <3>3, <3>4 DEF Types, WindowTypes
  <2> QED
    BY <1>10, <2>2, <2>3 DEF ListStep
<1>11. generation' \in Nat
  BY <1>0 DEF Grows
<1>12. ASSUME NEW t \in Tasks, NEW c \in Conversations, SelectConversation(t, c)
       PROVE  WindowTypes'
  <2>1. drafts' \in [Conversations -> SUBSET Conversations]
    BY <1>0, <1>12 DEF SelectConversation, Persisted, Types, WindowTypes, Texts
  <2>2. composer' \in Texts
    BY <1>12, <2>1 DEF SelectConversation, DraftOf, Texts
  <2>3. UNCHANGED <<list, shown>> /\ selected' = c /\ c \in list.rows /\ cursor' = 0
    BY <1>12 DEF SelectConversation
  <2> QED
    BY <1>2, <1>11, <2>1, <2>2, <2>3 DEF Types, WindowTypes
<1>13. CASE SignOut \/ \E t \in Tasks, c \in Texts : SignIn(t, c)
  <2>1. shown' = {} /\ cursor' = 0 /\ UNCHANGED <<composer, drafts>>
    BY <1>13 DEF SignOut, SignIn, typing
  <2>2. list' \in [rows : SUBSET Conversations, version : Nat] /\ selected' \in list'.rows \cup {None}
    BY <1>13 DEF SignOut, SignIn, DemoList, First, Types, ServerTypes, BootTypes
  <2> QED
    BY <1>11, <2>1, <2>2 DEF Types, WindowTypes
<1> QED
  BY <1>4, <1>5, <1>7, <1>8, <1>9, <1>10, <1>12, <1>13, Steps DEF SelectionStep

LEMMA TypesStep == Types /\ [Next]_vars => Types'
<1>1. ASSUME Types, UNCHANGED vars PROVE Types'
  <2>1. /\ UNCHANGED <<log, joined, version, session, list, selected, shown, cursor, generation, task,
                       composer, drafts>>
    BY <1>1 DEF vars, server, screen, timeline, typing
  <2> USE DEF Types
  <2>2. UNCHANGED <<server, feed, session, generation>>
    BY <1>1 DEF vars, screen, timeline
  <2>5. ServerTypes' /\ EventsInv' /\ Grows
    BY <1>1, <2>2, SameFeed DEF ServerTypes, WindowTypes
  <2>3. WindowTypes'
    BY <1>1, <2>1 DEF WindowTypes, Posted, InLog
  <2>6. signedIn' = signedIn /\ bootstrap' = bootstrap
    BY <2>1
  <2>4. BootTypes'
    BY <1>1, <2>6 DEF BootTypes
  <2> QED
    BY <1>1, <2>1, <2>3, <2>4, <2>5, SameTasks
<1> QED
  BY <1>1, ServerStep, BootTypesStep, TasksStep, WindowStep DEF Types

(***************************************************************************)
(* The text of the composer and the drafts.                                *)
(***************************************************************************)
\* Whoever signs in finds an empty composer, or the text of before is displaced.
HomeInv == TextStaysHome /\ (~signedIn /\ "Displaced" \notin mishaps => composer = None)

LEMMA HomeStep ==
  ASSUME Types, HomeInv, [Next]_vars
  PROVE  HomeInv'
<1>1. selected \in Conversations \cup {None} /\ composer \in Conversations \cup {None}
  BY DEF Types, WindowTypes, Texts
<1>2. CASE UNCHANGED <<signedIn, selected, composer, drafts>> /\ ("Displaced" \in mishaps => "Displaced" \in mishaps')
  BY <1>2 DEF HomeInv, TextStaysHome
<1>3. CASE (\E c \in Conversations : \E n \in 1 .. Len(log[c]) + 1 : LogStep(c, n))
        \/ (\E c \in Conversations : RowsStep(c)) \/ BootStep
        \/ HandleMessageEvent \/ CloseDetails
        \/ \E t \in Tasks : AsideStep(t) \/ MessageStep(t) \/ MessageAnswer(t)
  <2>1. CASE (\E c \in Conversations : \E n \in 1 .. Len(log[c]) + 1 : LogStep(c, n))
          \/ (\E c \in Conversations : RowsStep(c)) \/ BootStep
    BY <1>2, <2>1 DEF LogStep, RowsStep, MembershipChanges, Hide, AnnounceRows, BootStep,
       ReadConversations, ReadCursor, SignInFails, screen, typing
  <2>2. CASE HandleMessageEvent \/ CloseDetails \/ \E t \in Tasks : MessageAnswer(t)
    BY <1>2, <2>2 DEF HandleMessageEvent, CloseDetails, MessageAnswer, screen, typing
  <2>3. CASE \E t \in Tasks : AsideStep(t) \/ MessageStep(t)
    BY <1>2, <2>3, AsideApart, MessageApart DEF Apart, screen, typing
  <2> QED
    BY <1>3, <2>1, <2>2, <2>3
<1>4. CASE TypingStep
  BY <1>1, <1>4 DEF TypingStep, Type, SendComposer, SaveDraft, Persisted, HomeInv, TextStaysHome,
     screen,
     Types, WindowTypes
<1>5. ASSUME NEW t \in Tasks, TimelineStep(t)
      PROVE  HomeInv'
  <2>1. UNCHANGED <<signedIn, selected, composer, drafts>>
    BY <1>5, TimelineStepKeepsServer DEF typing
  <2>2. "Displaced" \in mishaps => "Displaced" \in mishaps'
    BY <1>5 DEF TimelineStep, ReadPage, ApplyTimeline, LoadOlderMessages, ApplyOlder, OlderFails,
       TimelineFails
  <2> QED
    BY <1>2, <2>1, <2>2
<1>6. ASSUME NEW t \in Tasks, ListStep(t)
      PROVE  HomeInv'
  <2>1. CASE HandleOtherEvent(t) \/ ReadList(t) \/ ListFails(t)
    BY <1>2, <2>1 DEF HandleOtherEvent, ReadList, ListFails, screen, typing
  <2>2. ASSUME NEW c \in Texts, ApplyList(t, c)
        PROVE  HomeInv'
    BY <1>1, <2>2 DEF ApplyList, HomeInv, TextStaysHome, typing
  <2> QED
    BY <1>6, <2>1, <2>2 DEF ListStep
<1>7. ASSUME NEW t \in Tasks, NEW c \in Conversations, SelectConversation(t, c)
      PROVE  HomeInv'
  <2>1. CASE "Displaced" \in mishaps
    BY <1>7, <2>1 DEF SelectConversation, HomeInv, TextStaysHome
  <2>2. CASE "Displaced" \notin mishaps
    <3>1. \A d \in Conversations : Persisted[d] \subseteq {d}
      BY <1>1, <2>2 DEF Persisted, HomeInv, TextStaysHome, Types, WindowTypes
    <3> QED
      BY <1>7, <3>1 DEF SelectConversation, DraftOf, HomeInv, TextStaysHome
  <2> QED
    BY <2>1, <2>2
<1>8. CASE SignOut \/ \E t \in Tasks, c \in Texts : SignIn(t, c)
  <2>1. UNCHANGED <<composer, drafts>>
    BY <1>8 DEF SignOut, SignIn, typing
  <2>2. CASE SignOut
    BY <2>1, <2>2 DEF SignOut, HomeInv, TextStaysHome
  <2>3. ASSUME NEW t \in Tasks, NEW c \in Texts, SignIn(t, c)
        PROVE  HomeInv'
    <3>1. ~signedIn
      BY <2>3 DEF SignIn, Types, BootTypes
    <3>2. signedIn' /\ mishaps' = mishaps \cap {"Displaced", "Stale"}
      BY <2>3 DEF SignIn
    <3> QED
      BY <2>1, <3>1, <3>2 DEF HomeInv, TextStaysHome
  <2> QED
    BY <1>8, <2>2, <2>3
<1>9. CASE UNCHANGED vars
  <2>1. UNCHANGED <<signedIn, selected, composer, drafts, mishaps>>
    BY <1>9 DEF vars, screen, typing
  <2> QED
    BY <2>1 DEF HomeInv, TextStaysHome
<1> QED
  BY <1>3, <1>4, <1>5, <1>6, <1>7, <1>8, <1>9, Steps DEF SelectionStep

(***************************************************************************)
(* What is on the screen and in the panel.                                 *)
(***************************************************************************)
LEMMA BelongsStep ==
  ASSUME Types, ShownBelongs, [Next]_vars
  PROVE  ShownBelongs'
<1> DEFINE Screen == ~loading /\ mishaps \cap {"Moved", "Failed"} = {} => \A m \in shown : m.conv = selected
           Panel == "Panel" \notin mishaps => panel \subseteq {selected}
<1>1. Screen /\ Panel
  BY DEF ShownBelongs
<1>2. CASE UNCHANGED <<selected, shown, loading, panel, mishaps>>
  BY <1>1, <1>2 DEF ShownBelongs
<1>3. CASE (\E c \in Conversations : \E n \in 1 .. Len(log[c]) + 1 : LogStep(c, n))
        \/ TypingStep
        \/ \E t \in Tasks : MessageStep(t)
  <2>1. UNCHANGED <<screen, panel, mishaps>>
    BY <1>3 DEF LogStep, TypingStep, Type, SendComposer, SaveDraft, aside,
       MessageStep, StartRecall, StartForward, StartMessageAction, MessageActionFails
  <2> QED
    BY <1>2, <2>1 DEF screen, timeline
<1>12. CASE (\E c \in Conversations : RowsStep(c)) \/ BootStep
  <2>1. UNCHANGED <<selected, shown, loading, panel>> /\ mishaps' \ {"Stale"} = mishaps \ {"Stale"}
    BY <1>12 DEF RowsStep, MembershipChanges, Hide, AnnounceRows, BootStep, ReadConversations, ReadCursor,
       SignInFails, screen, timeline, aside
  <2> QED
    BY <1>1, <2>1 DEF ShownBelongs
<1>4. ASSUME NEW t \in Tasks, AsideStep(t)
      PROVE  ShownBelongs'
  <2>1. UNCHANGED <<selected, shown, loading>> /\ mishaps' \ {"Panel"} = mishaps \ {"Panel"}
    BY <1>4, AsideApart DEF Apart, screen, timeline
  <2>2. Screen'
    BY <1>1, <2>1
  <2>3. Panel'
    BY <1>1, <1>4, <2>1 DEF AsideStep, CloseDetails, OpenDetails, ApplyDetails, PanelWants,
       GroupAnswer,
       ContactAnswer, ActionFails, RowAnswer, LeaveAnswer, StartAction
  <2> QED
    BY <2>2, <2>3 DEF ShownBelongs
<1>5. CASE CloseDetails
  BY <1>1, <1>5 DEF CloseDetails, screen, timeline, ShownBelongs
<1>6. CASE HandleMessageEvent \/ \E t \in Tasks : MessageAnswer(t)
  <2>1. \E e : shown' = WithMessage(e)
    BY <1>6 DEF HandleMessageEvent, MessageAnswer
  <2>2. UNCHANGED <<selected, loading, panel>> /\ mishaps' = mishaps
    BY <1>6 DEF HandleMessageEvent, MessageAnswer, aside
  <2> QED
    BY <1>1, <2>1, <2>2 DEF WithMessage, ShownBelongs
<1>7. ASSUME NEW t \in Tasks, TimelineStep(t)
      PROVE  ShownBelongs'
  <2>1. PICK r : r = task[t] /\ TimelineRequest(r)
    BY DEF Types, TaskTypes, Request
  <2>2. CASE ReadPage(t) \/ LoadOlderMessages(t) \/ OlderFails(t)
    BY <1>2, <2>2 DEF ReadPage, LoadOlderMessages, OlderFails, screen, timeline, aside
  <2>3. CASE ApplyTimeline(t)
    <3>1. \A m \in r.page : m.conv = r.conv
      BY <2>1, <2>3 DEF ApplyTimeline, Is, TimelineRequest, PageOf
    <3>2. CASE StillWanted(r)
      BY <1>1, <2>1, <2>3, <3>1, <3>2 DEF ApplyTimeline, StillWanted, aside, ShownBelongs
    <3>3. CASE ~StillWanted(r)
      BY <1>2, <2>1, <2>3, <3>3 DEF ApplyTimeline, aside
    <3> QED
      BY <3>2, <3>3
  <2>4. CASE ApplyOlder(t)
    <3>1. \A m \in r.page : m.conv = r.conv
      BY <2>1, <2>4 DEF ApplyOlder, Is, TimelineRequest, PageOf
    <3>2. CASE StillWanted(r)
      BY <1>1, <2>1, <2>4, <3>1, <3>2 DEF ApplyOlder, Prepended, StillWanted, aside, ShownBelongs
    <3>3. CASE ~StillWanted(r)
      BY <1>2, <2>1, <2>4, <3>3 DEF ApplyOlder, aside
    <3> QED
      BY <3>2, <3>3
  <2>5. ASSUME NEW cached, TimelineFails(t, cached)
        PROVE  ShownBelongs'
    BY <1>1, <2>5 DEF TimelineFails, aside, ShownBelongs
  <2> QED
    BY <1>7, <2>2, <2>3, <2>4, <2>5 DEF TimelineStep
<1>8. ASSUME NEW t \in Tasks, ListStep(t)
      PROVE  ShownBelongs'
  <2>1. CASE HandleOtherEvent(t) \/ ReadList(t)
    BY <1>2, <2>1 DEF HandleOtherEvent, ReadList, screen, timeline, aside
  <2>2. CASE ListFails(t)
    BY <1>1, <2>2 DEF ListFails, screen, timeline, aside, ShownBelongs
  <2>3. ASSUME NEW c \in Texts, ApplyList(t, c)
        PROVE  ShownBelongs'
    <3>1. UNCHANGED <<shown, loading, panel>> /\ selected' = c
      BY <2>3 DEF ApplyList, timeline, aside
    <3>2. CASE c = selected
      BY <1>1, <2>3, <3>1, <3>2 DEF ApplyList, ShownBelongs
    <3>3. CASE c # selected
      BY <1>1, <2>3, <3>1, <3>3 DEF ApplyList, ShownBelongs
    <3> QED
      BY <3>2, <3>3
  <2> QED
    BY <1>8, <2>1, <2>2, <2>3 DEF ListStep
<1>9. ASSUME NEW t \in Tasks, NEW c \in Conversations, SelectConversation(t, c)
      PROVE  ShownBelongs'
  <2>1. panel' = {} /\ loading' = TRUE
    BY <1>9, DesktopViewAssumption DEF SelectConversation, LoadSelectedTimeline
  <2> QED
    BY <2>1 DEF ShownBelongs
<1>10. CASE SignOut \/ \E t \in Tasks, c \in Texts : SignIn(t, c)
  <2>1. shown' = {} /\ panel' = {}
    BY <1>10 DEF SignOut, SignIn
  <2> QED
    BY <2>1 DEF ShownBelongs
<1>11. CASE UNCHANGED vars
  BY <1>2, <1>11 DEF vars, screen, timeline, aside
<1> QED
  BY <1>3, <1>4, <1>5, <1>6, <1>7, <1>8, <1>9, <1>10, <1>11, <1>12, Steps DEF SelectionStep

(***************************************************************************)
(* The conversation list.                                                  *)
(***************************************************************************)
NoticeWaits == \E i \in 1 .. Len(events) : events[i].conv = None
Refreshes(r) == r.kind = "List" /\ (r.at = "Asked" \/ r.version = version)
RefreshUnderWay == \E t \in Tasks : Refreshes(task[t])

\* A list that is out of date is about to be replaced: an event waits, or a request that will be or
\* has been answered with the present list.
ListInv ==
    /\ signedIn => list.version <= version /\ (list.version = version => list.rows = Listed)
    /\ signedIn /\ "Stale" \notin mishaps => list.version = version \/ NoticeWaits \/ RefreshUnderWay
    /\ bootstrap.at # "None" =>
          bootstrap.version <= version /\ (bootstrap.version = version => bootstrap.rows = Listed)
    /\ bootstrap.at = "Cursor" /\ "Stale" \notin mishaps => bootstrap.version = version \/ NoticeWaits

LEMMA NoticeStays ==
  ASSUME Types, NoticeWaits
  PROVE  /\ \A e : events' = Append(events, e) => NoticeWaits'
         /\ events # <<>> /\ events' = Tail(events) => NoticeWaits' \/ Head(events).conv = None
<1>1. events \in Seq(Event) /\ Len(events) \in Nat
  BY DEF Types, ServerTypes
<1>2. PICK i \in 1 .. Len(events) : events[i].conv = None
  BY DEF NoticeWaits
<1>3. ASSUME NEW e, events' = Append(events, e)
      PROVE  NoticeWaits'
  <2>1. i \in 1 .. Len(events') /\ events'[i] = events[i]
    BY <1>1, <1>2, <1>3
  <2> QED
    BY <1>2, <2>1 DEF NoticeWaits
<1>4. ASSUME events # <<>>, events' = Tail(events), Head(events).conv # None
      PROVE  NoticeWaits'
  <2>1. i # 1 /\ Len(events') = Len(events) - 1
    BY <1>1, <1>2, <1>4
  <2>2. i - 1 \in 1 .. Len(events') /\ (i - 1) + 1 = i
    BY <1>1, <1>2, <2>1
  <2>3. events'[i - 1] = events[i]
    BY <1>1, <1>4, <2>1, <2>2
  <2> QED
    BY <1>2, <2>2, <2>3 DEF NoticeWaits
<1> QED
  BY <1>3, <1>4

\* A change of the rows is told to a window that listens, or its list is Stale.
LEMMA NoticeComes ==
  ASSUME Types, Listening, AnnounceRows
  PROVE  NoticeWaits' \/ "Stale" \in mishaps'
<1>1. events \in Seq(Event) /\ Len(events) \in Nat
  BY DEF Types, ServerTypes
<1>2. PICK e : e = [conv |-> None]
  OBVIOUS
<1>3. CASE events' = Append(events, e)
  <2>1. Len(events') = Len(events) + 1 /\ events'[Len(events) + 1] = e /\ e.conv = None
    BY <1>1, <1>2, <1>3
  <2>2. Len(events) + 1 \in 1 .. Len(events')
    BY <1>1, <2>1
  <2> QED
    BY <2>1, <2>2 DEF NoticeWaits
<1> QED
  BY <1>2, <1>3 DEF AnnounceRows

LEMMA RefreshStays ==
  ASSUME Types, RefreshUnderWay, UNCHANGED version, NEW t \in Tasks, NEW r,
         task' = [task EXCEPT ![t] = r], task[t].kind # "List"
  PROVE  RefreshUnderWay'
<1>1. PICK s \in Tasks : Refreshes(task[s])
  BY DEF RefreshUnderWay
<1>2. task'[s] = task[s]
  BY <1>1 DEF Types, TaskTypes, Refreshes
<1> QED
  BY <1>1, <1>2 DEF RefreshUnderWay, Refreshes

LEMMA RefreshBegins ==
  ASSUME Types, NEW t \in Tasks, NEW r, task' = [task EXCEPT ![t] = r], Refreshes(r)'
  PROVE  RefreshUnderWay'
BY DEF Types, TaskTypes, RefreshUnderWay, Refreshes

LEMMA ListInvStep ==
  ASSUME Types, ListInv, [Next]_vars
  PROVE  ListInv'
<1>0. /\ version \in Nat /\ list.version \in Nat /\ bootstrap.version \in Nat
      /\ signedIn => bootstrap.at = "None"
  BY DEF Types, ServerTypes, WindowTypes, BootTypes
<1>1. ASSUME UNCHANGED <<joined, hidden, version, session, list>>,
             "Stale" \in mishaps => "Stale" \in mishaps',
             NoticeWaits => NoticeWaits' \/ (signedIn /\ RefreshUnderWay'),
             RefreshUnderWay => RefreshUnderWay'
      PROVE  ListInv'
  BY <1>0, <1>1 DEF ListInv, Listed
<1>2. ASSUME UNCHANGED <<server, session, list, events>>, "Stale" \in mishaps => "Stale" \in mishaps',
             \/ task' = task
             \/ \E t \in Tasks : \E r : task' = [task EXCEPT ![t] = r] /\ task[t].kind # "List"
      PROVE  ListInv'
  <2>1. UNCHANGED <<joined, hidden, version>> /\ (NoticeWaits => NoticeWaits')
    BY <1>2 DEF server, NoticeWaits
  <2>2. RefreshUnderWay => RefreshUnderWay'
    BY <1>2, <2>1, RefreshStays DEF RefreshUnderWay, Refreshes
  <2> QED
    BY <1>1, <1>2, <2>1, <2>2
<1>3. ASSUME NEW c \in Conversations, NEW n \in 1 .. Len(log[c]) + 1, LogStep(c, n)
      PROVE  ListInv'
  <2>1. UNCHANGED <<joined, hidden, version, session, list, mishaps>> /\ \E e : Announce(e)
    BY <1>3 DEF LogStep, Changes
  <2>2. \/ task' = task
        \/ \E t \in Tasks : \E r : task' = [task EXCEPT ![t] = r] /\ task[t].kind # "List"
    BY <1>3 DEF LogStep
  <2>3. NoticeWaits => NoticeWaits'
    <3>1. CASE events' = events
      BY <3>1 DEF NoticeWaits
    <3>2. CASE \E e : events' = Append(events, e)
      BY <3>2, NoticeStays
    <3> QED
      BY <2>1, <3>1, <3>2 DEF Announce
  <2>4. RefreshUnderWay => RefreshUnderWay'
    BY <2>1, <2>2, RefreshStays DEF RefreshUnderWay, Refreshes
  <2> QED
    BY <1>1, <2>1, <2>3, <2>4
<1>4. ASSUME NEW c \in Conversations, RowsStep(c)
      PROVE  ListInv'
  <2>1. version' = version + 1 /\ UNCHANGED <<session, list>> /\ AnnounceRows
    BY <1>4 DEF RowsStep, MembershipChanges, Hide, AnnounceRows
  <2>2. Listening => NoticeWaits' \/ "Stale" \in mishaps'
    BY <2>1, NoticeComes
  <2>3. Listening <=> signedIn \/ bootstrap.at = "Cursor"
    BY DEF Listening
  <2> QED
    BY <1>0, <2>1, <2>2, <2>3 DEF ListInv
<1>5. CASE Apart \/ CloseDetails
  <2>1. CASE Apart
    BY <1>2, <2>1 DEF Apart
  <2>2. CASE CloseDetails
    BY <1>2, <2>2 DEF CloseDetails
  <2> QED
    BY <1>5, <2>1, <2>2
<1>6. CASE HandleMessageEvent
  <2>1. UNCHANGED <<joined, hidden, version, session, list, mishaps, task>>
    BY <1>6 DEF HandleMessageEvent, server
  <2>2. NoticeWaits => NoticeWaits'
    BY <1>6, NoticeStays DEF HandleMessageEvent
  <2> QED
    BY <1>1, <2>1, <2>2 DEF RefreshUnderWay, Refreshes
<1>7. ASSUME NEW t \in Tasks, MessageAnswer(t)
      PROVE  ListInv'
  <2>1. UNCHANGED <<server, session, list, events, mishaps>>
    BY <1>7 DEF MessageAnswer
  <2>2. task' = [task EXCEPT ![t] = Idle] /\ task[t].kind # "List"
    BY <1>7 DEF MessageAnswer, Is
  <2> QED
    BY <1>2, <2>1, <2>2
<1>8. ASSUME NEW t \in Tasks, TimelineStep(t)
      PROVE  ListInv'
  <2>1. UNCHANGED <<server, session, list, events>>
    BY <1>8, TimelineStepKeepsServer
  <2>2. "Stale" \in mishaps => "Stale" \in mishaps'
    BY <1>8 DEF TimelineStep, ReadPage, ApplyTimeline, LoadOlderMessages, ApplyOlder, OlderFails,
       TimelineFails
  <2>3. task[t].kind # "List"
    <3>1. CASE LoadOlderMessages(t)
      BY <3>1 DEF LoadOlderMessages, Free, Idle
    <3>2. CASE ReadPage(t)
      BY <3>2 DEF ReadPage
    <3>3. CASE ApplyTimeline(t) \/ ApplyOlder(t) \/ OlderFails(t) \/ task[t].kind = "Timeline"
      BY <3>3 DEF ApplyTimeline, ApplyOlder, OlderFails, Is
    <3> QED
      BY <1>8, <3>1, <3>2, <3>3 DEF TimelineStep
  <2>4. \E r : task' = [task EXCEPT ![t] = r]
    <3>1. CASE ReadPage(t)
      BY <3>1 DEF ReadPage
    <3>2. CASE ~ReadPage(t)
      BY <1>8, <3>2 DEF TimelineStep, ApplyTimeline, LoadOlderMessages, ApplyOlder, OlderFails,
         TimelineFails
    <3> QED
      BY <3>1, <3>2
  <2> QED
    BY <1>2, <2>1, <2>2, <2>3, <2>4
<1>9. ASSUME NEW t \in Tasks, HandleOtherEvent(t)
      PROVE  ListInv'
  <2>1. PICK r : r = AskList(selected)
    OBVIOUS
  <2>2. /\ UNCHANGED <<joined, hidden, version, session, list, mishaps>> /\ signedIn
        /\ task' = [task EXCEPT ![t] = r]
    BY <1>9, <2>1 DEF HandleOtherEvent, RefreshBootstrap, server
  <2>3. Refreshes(r)'
    BY <2>1 DEF AskList, Refreshes
  <2> QED
    BY <1>1, <2>2, <2>3, RefreshBegins
<1>10. ASSUME NEW t \in Tasks, ReadList(t)
       PROVE  ListInv'
  <2>1. PICK r : r = [kind |-> "List", at |-> "Read", keep |-> task[t].keep, rows |-> Listed, version |-> version]
    OBVIOUS
  <2>2. /\ UNCHANGED <<joined, hidden, version, session, list, mishaps, events>>
        /\ task' = [task EXCEPT ![t] = r]
    BY <1>10, <2>1 DEF ReadList, server
  <2>3. Refreshes(r)'
    BY <2>1, <2>2 DEF Refreshes
  <2>4. NoticeWaits => NoticeWaits'
    BY <2>2 DEF NoticeWaits
  <2> QED
    BY <1>1, <2>2, <2>3, <2>4, RefreshBegins
<1>11. ASSUME NEW t \in Tasks, ListFails(t)
       PROVE  ListInv'
  <2>1. /\ UNCHANGED <<joined, hidden, version, session, list, events>>
        /\ mishaps' = IF signedIn THEN mishaps \cup {"Stale"} ELSE mishaps
    BY <1>11 DEF ListFails, server
  <2>2. NoticeWaits => NoticeWaits'
    BY <2>1 DEF NoticeWaits
  <2> QED
    BY <1>0, <2>1, <2>2 DEF ListInv, Listed
<1>12. ASSUME NEW t \in Tasks, NEW c \in Texts, ApplyList(t, c)
       PROVE  ListInv'
  <2>1. PICK r : r = task[t]
    OBVIOUS
  <2>2. r.kind = "List" /\ r.at = "Read" /\ r.version \in 0 .. version /\ (r.version = version => r.rows = Listed)
    BY <1>12, <2>1 DEF ApplyList, Is, Types, TaskTypes, Request, ListRequest
  <2>3. /\ list' = [rows |-> r.rows, version |-> r.version] /\ task' = [task EXCEPT ![t] = Idle]
        /\ UNCHANGED <<joined, hidden, version, session, events>>
        /\ "Stale" \notin mishaps' => r.version = version \/ ("Stale" \notin mishaps /\ ~(r.version < list.version))
                                      \/ ~signedIn
        /\ ~signedIn => ("Stale" \in mishaps' <=> "Stale" \in mishaps)
    BY <1>12, <2>1 DEF ApplyList, server
  <2>4. list'.version = r.version /\ list'.rows = r.rows
    BY <2>3
  <2>5. signedIn => list'.version <= version /\ (list'.version = version => list'.rows = Listed)
    BY <1>0, <2>2, <2>4
  <2>6. NoticeWaits => NoticeWaits'
    BY <2>3 DEF NoticeWaits
  <2>7. ASSUME signedIn, "Stale" \notin mishaps', r.version # version
        PROVE  NoticeWaits' \/ RefreshUnderWay'
    <3>1. NoticeWaits \/ RefreshUnderWay
      BY <1>0, <2>2, <2>3, <2>7 DEF ListInv
    <3>2. ASSUME NEW s \in Tasks, Refreshes(task[s])
          PROVE  RefreshUnderWay'
      <4>1. s # t
        BY <2>1, <2>2, <2>7, <3>2 DEF Refreshes
      <4>2. task'[s] = task[s]
        BY <2>3, <4>1 DEF Types, TaskTypes
      <4> QED
        BY <2>3, <3>2, <4>2 DEF RefreshUnderWay, Refreshes
    <3> QED
      BY <2>6, <3>1, <3>2 DEF RefreshUnderWay
  <2> QED
    BY <1>0, <2>3, <2>4, <2>5, <2>6, <2>7 DEF ListInv, Listed
<1>13. ASSUME NEW t \in Tasks, NEW c \in Conversations, SelectConversation(t, c)
       PROVE  ListInv'
  <2>1. UNCHANGED <<server, session, list, events>> /\ ("Stale" \in mishaps => "Stale" \in mishaps')
    BY <1>13 DEF SelectConversation
  <2>2. task[t].kind # "List" /\ \E r : task' = [task EXCEPT ![t] = r]
    BY <1>13, DesktopViewAssumption DEF SelectConversation, LoadSelectedTimeline, Free, Idle
  <2> QED
    BY <1>2, <2>1, <2>2
<1>14. CASE SignOut
  BY <1>0, <1>14 DEF SignOut, ListInv
<1>15. ASSUME NEW t \in Tasks, NEW c \in Texts, SignIn(t, c)
       PROVE  ListInv'
  <2>1. /\ list' = [rows |-> bootstrap.rows, version |-> bootstrap.version] /\ bootstrap.at = "Cursor"
        /\ UNCHANGED <<joined, hidden, version, events>> /\ bootstrap'.at = "None"
        /\ "Stale" \in mishaps => "Stale" \in mishaps'
    BY <1>15 DEF SignIn, server, NoBootstrap
  <2>2. list'.version = bootstrap.version /\ list'.rows = bootstrap.rows
    BY <2>1
  <2>3. NoticeWaits => NoticeWaits'
    BY <2>1 DEF NoticeWaits
  <2> QED
    BY <1>0, <2>1, <2>2, <2>3 DEF ListInv, Listed
<1>16. CASE UNCHANGED vars
  BY <1>2, <1>16 DEF vars
<1>17. CASE BootStep
  <2>1. UNCHANGED <<joined, hidden, version, signedIn, list>> /\ ~signedIn
    BY <1>0, <1>17 DEF BootStep, ReadConversations, ReadCursor, SignInFails, server
  <2>2. CASE ReadConversations
    <3>1. bootstrap'.at = "List" /\ bootstrap'.rows = Listed /\ bootstrap'.version = version
      BY <2>2 DEF ReadConversations
    <3> QED
      BY <1>0, <2>1, <3>1 DEF ListInv, Listed
  <2>3. CASE ReadCursor
    <3>1. /\ bootstrap'.rows = bootstrap.rows /\ bootstrap'.version = bootstrap.version /\ bootstrap.at = "List"
          /\ "Stale" \notin mishaps' => bootstrap.version = version
      BY <2>3 DEF ReadCursor, Types, BootTypes
    <3> QED
      BY <2>1, <3>1 DEF ListInv, Listed
  <2>4. CASE SignInFails
    BY <2>1, <2>4 DEF SignInFails, NoBootstrap, ListInv
  <2> QED
    BY <1>17, <2>2, <2>3, <2>4 DEF BootStep
<1> QED
  BY <1>3, <1>4, <1>5, <1>6, <1>7, <1>8, <1>9, <1>10, <1>11, <1>12, <1>13, <1>14, <1>15, <1>16, <1>17,
     Steps,
     TypingApart, AsideApart, MessageApart DEF SelectionStep, ListStep

(***************************************************************************)
(* The timeline that is being loaded.                                      *)
(***************************************************************************)
PageRequest(r) == r.kind \in {"Timeline", "Older"} /\ r.gen = generation

\* Of the requests for pages only those of the present generation matter: one for the newest page
\* while the window loads, or one for older pages after it.
LoadInv ==
    /\ \A t \in Tasks : PageRequest(task[t]) => (loading <=> task[t].kind = "Timeline")
    /\ \A s, t \in Tasks : /\ PageRequest(task[s]) /\ task[s].kind = "Timeline"
                          /\ PageRequest(task[t]) /\ task[t].kind = "Timeline"
                          => s = t
    /\ signedIn /\ ~loading /\ mishaps \cap {"Away", "Failed"} = {} => "Moved" \notin mishaps

LEMMA OtherTask ==
  ASSUME Types, LoadInv, UNCHANGED <<generation, loading>>,
         \/ task' = task
         \/ \E t \in Tasks : \E r : task' = [task EXCEPT ![t] = r] /\ r.kind \notin {"Timeline", "Older"},
         signedIn' /\ ~loading' /\ mishaps' \cap {"Away", "Failed"} = {} => "Moved" \notin mishaps'
  PROVE  LoadInv'
<1>1. ASSUME NEW t \in Tasks, (PageRequest(task[t]))'
      PROVE  PageRequest(task[t]) /\ task'[t] = task[t]
  BY <1>1 DEF PageRequest, Types, TaskTypes
<1> QED
  BY <1>1 DEF LoadInv

LEMMA LoadInvStep ==
  ASSUME Types, LoadInv, [Next]_vars
  PROVE  LoadInv'
<1> DEFINE Still == signedIn /\ ~loading /\ mishaps \cap {"Away", "Failed"} = {} => "Moved" \notin mishaps
           Other == \/ task' = task
                    \/ \E t \in Tasks : \E r : /\ task' = [task EXCEPT ![t] = r]
                                              /\ r.kind \notin {"Timeline", "Older"}
<1>0. Still /\ generation \in Nat /\ Idle.kind = "Idle"
  BY DEF LoadInv, Types, WindowTypes, Idle
<1>1. CASE (\E c \in Conversations : \E n \in 1 .. Len(log[c]) + 1 : LogStep(c, n))
        \/ (\E c \in Conversations : RowsStep(c)) \/ BootStep
  <2>1. UNCHANGED <<signedIn, screen>> /\ mishaps' \ {"Stale"} = mishaps \ {"Stale"}
    BY <1>1 DEF LogStep, RowsStep, MembershipChanges, Hide, AnnounceRows, BootStep, ReadConversations,
       ReadCursor, SignInFails
  <2>2. Other
    BY <1>1 DEF LogStep, RowsStep, MembershipChanges, Hide, BootStep, ReadConversations, ReadCursor,
       SignInFails, Answered
  <2> QED
    BY <1>0, <2>1, <2>2, OtherTask DEF screen, timeline
<1>2. CASE Apart
  <2>1. UNCHANGED <<signedIn, screen>> /\ mishaps' \ {"Panel"} = mishaps \ {"Panel"} /\ Other
    BY <1>2 DEF Apart
  <2>2. Still'
    BY <1>0, <2>1 DEF screen, timeline
  <2> QED
    BY <2>1, <2>2, OtherTask DEF screen, timeline
<1>3. CASE CloseDetails \/ HandleMessageEvent
  <2>1. UNCHANGED <<signedIn, generation, loading, task>>
    BY <1>3 DEF CloseDetails, HandleMessageEvent, screen, timeline
  <2>2. mishaps' \in {mishaps, mishaps \ {"Panel"}}
    BY <1>3 DEF CloseDetails, HandleMessageEvent
  <2> QED
    BY <1>0, <2>1, <2>2, OtherTask
<1>4. ASSUME NEW t \in Tasks, MessageAnswer(t)
      PROVE  LoadInv'
  <2>1. UNCHANGED <<signedIn, generation, loading>> /\ task' = [task EXCEPT ![t] = Idle]
    BY <1>4 DEF MessageAnswer
  <2>2. mishaps' = mishaps
    BY <1>4 DEF MessageAnswer
  <2> QED
    BY <1>0, <2>1, <2>2, OtherTask
<1>5. ASSUME NEW t \in Tasks, ListStep(t)
      PROVE  LoadInv'
  <2>1. UNCHANGED <<signedIn, generation, loading>>
    BY <1>5, ListStepKeepsServer DEF timeline
  <2>2. Other
    <3>1. CASE HandleOtherEvent(t)
      <4>1. AskList(selected).kind = "List" /\ task' = [task EXCEPT ![t] = AskList(selected)]
        BY <3>1 DEF HandleOtherEvent, RefreshBootstrap, AskList
      <4> QED
        BY <4>1
    <3>2. CASE ReadList(t)
      <4>1. PICK r : r = [kind |-> "List", at |-> "Read", keep |-> task[t].keep, rows |-> Listed,
                          version |-> version]
        OBVIOUS
      <4>2. r.kind = "List" /\ task' = [task EXCEPT ![t] = r]
        BY <3>2, <4>1 DEF ReadList
      <4> QED
        BY <4>2
    <3>3. CASE ~HandleOtherEvent(t) /\ ~ReadList(t)
      BY <1>0, <1>5, <3>3 DEF ListStep, ListFails, ApplyList
    <3> QED
      BY <3>1, <3>2, <3>3
  <2>3. Still'
    BY <1>0, <1>5, <2>1 DEF ListStep, HandleOtherEvent, ReadList, ListFails, ApplyList
  <2> QED
    BY <2>1, <2>2, <2>3, OtherTask
<1>6. ASSUME NEW t \in Tasks, NEW c \in Conversations, generation' = generation + 1, loading' = TRUE,
             task' = [task EXCEPT ![t] = AskTimeline(c, generation + 1)]
      PROVE  LoadInv'
  <2>1. PICK r : r = AskTimeline(c, generation + 1)
    OBVIOUS
  <2>2. r.kind = "Timeline"
    BY <2>1 DEF AskTimeline
  <2>3. task'[t] = r /\ \A s \in Tasks \ {t} : task'[s] = task[s]
    BY <1>6, <2>1 DEF Types, TaskTypes
  <2>4. \A s \in Tasks : task[s].kind \in {"Timeline", "Older"} => task[s].gen # generation'
    BY <1>0, <1>6 DEF Types, TaskTypes, Request, TimelineRequest
  <2>5. \A s \in Tasks : (PageRequest(task[s]))' => s = t
    BY <2>3, <2>4 DEF PageRequest
  <2> QED
    BY <1>6, <2>2, <2>3, <2>5 DEF LoadInv
<1>7. CASE SignOut
  <2>1. \A s \in Tasks : task[s].kind \in {"Timeline", "Older"} => task[s].gen # generation'
    BY <1>0, <1>7 DEF SignOut, Types, TaskTypes, Request, TimelineRequest
  <2>2. task' = task /\ ~signedIn'
    BY <1>7 DEF SignOut
  <2> QED
    BY <2>1, <2>2 DEF LoadInv, PageRequest
<1>8. ASSUME NEW t \in Tasks, NEW c \in Conversations, SelectConversation(t, c)
      PROVE  LoadInv'
  BY <1>6, <1>8, DesktopViewAssumption DEF SelectConversation, LoadSelectedTimeline
<1>9. ASSUME NEW t \in Tasks, NEW c \in Texts, SignIn(t, c)
      PROVE  LoadInv'
  <2>1. CASE c = None
    <3>1. UNCHANGED <<loading, generation, task>> /\ "Moved" \notin mishaps'
      BY <1>9, <2>1 DEF SignIn, LoadSelectedTimeline
    <3> QED
      BY <3>1, OtherTask
  <2>2. CASE c # None
    BY <1>6, <1>9, <2>2 DEF SignIn, LoadSelectedTimeline, Texts
  <2> QED
    BY <2>1, <2>2
<1>10. ASSUME NEW t \in Tasks, ReadPage(t)
       PROVE  LoadInv'
  <2>1. PICK r : r = task'[t]
    OBVIOUS
  <2>2. /\ r.kind = task[t].kind /\ r.gen = task[t].gen
        /\ \A s \in Tasks \ {t} : task'[s] = task[s]
    BY <1>10, <2>1 DEF ReadPage, Types, TaskTypes
  <2>3. UNCHANGED <<signedIn, mishaps, generation, loading>>
    BY <1>10 DEF ReadPage, screen, timeline
  <2>4. \A s \in Tasks : task'[s].kind = task[s].kind /\ task'[s].gen = task[s].gen
    BY <2>1, <2>2
  <2>5. \A s \in Tasks : (PageRequest(task[s]))' <=> PageRequest(task[s])
    BY <2>3, <2>4 DEF PageRequest
  <2> QED
    BY <2>3, <2>4, <2>5 DEF LoadInv
<1>11. ASSUME NEW t \in Tasks, LoadOlderMessages(t)
       PROVE  LoadInv'
  <2>1. PICK r : r = AskOlder(selected, generation, cursor)
    OBVIOUS
  <2>2. r.kind = "Older" /\ r.gen = generation /\ task' = [task EXCEPT ![t] = r]
    BY <1>11, <2>1 DEF AskOlder, LoadOlderMessages
  <2>3. task'[t] = r /\ \A s \in Tasks \ {t} : task'[s] = task[s]
    BY <2>2 DEF Types, TaskTypes
  <2>4. UNCHANGED <<signedIn, mishaps, generation, loading>> /\ ~loading
    BY <1>11 DEF LoadOlderMessages
  <2>5. \A s \in Tasks \ {t} : (PageRequest(task[s]))' <=> PageRequest(task[s])
    BY <2>3, <2>4 DEF PageRequest
  <2>6. \A s \in Tasks : (PageRequest(task[s]))' => task'[s].kind # "Timeline"
    BY <2>2, <2>3, <2>4, <2>5 DEF LoadInv
  <2> QED
    BY <2>4, <2>6 DEF LoadInv
<1>12. ASSUME NEW t \in Tasks, task[t].kind = "Timeline",
              ApplyTimeline(t) \/ \E cached : TimelineFails(t, cached)
       PROVE  LoadInv'
  <2>1. task[t].kind = "Timeline" /\ task' = [task EXCEPT ![t] = Idle] /\ UNCHANGED <<signedIn, generation>>
    BY <1>12 DEF ApplyTimeline, TimelineFails, Is
  <2>2. CASE ~StillWanted(task[t])
    <3>1. UNCHANGED <<loading, mishaps>>
      BY <1>12, <2>2 DEF ApplyTimeline, TimelineFails
    <3> QED
      BY <1>0, <2>1, <3>1, OtherTask
  <2>3. CASE StillWanted(task[t])
    <3>1. loading' = FALSE /\ ("Moved" \notin mishaps' \/ "Failed" \in mishaps')
      BY <1>12, <2>3 DEF ApplyTimeline, TimelineFails
    <3>2. task'[t] = Idle /\ \A s \in Tasks \ {t} : task'[s] = task[s]
      BY <2>1 DEF Types, TaskTypes
    <3>3. PageRequest(task[t])
      BY <2>1, <2>3 DEF PageRequest, StillWanted
    <3>4. ASSUME NEW s \in Tasks, (PageRequest(task[s]))'
          PROVE  s # t /\ PageRequest(task[s]) /\ task'[s] = task[s] /\ task[s].kind # "Timeline"
      <4>1. s # t
        BY <1>0, <3>2, <3>4 DEF PageRequest
      <4>2. PageRequest(task[s]) /\ task'[s] = task[s]
        BY <2>1, <3>2, <3>4, <4>1 DEF PageRequest
      <4> QED
        BY <2>1, <3>3, <4>1, <4>2 DEF LoadInv
    <3> QED
      BY <3>1, <3>4 DEF LoadInv
  <2> QED
    BY <2>2, <2>3
<1>13. ASSUME NEW t \in Tasks, ApplyOlder(t) \/ OlderFails(t)
       PROVE  LoadInv'
  <2>1. task' = [task EXCEPT ![t] = Idle] /\ UNCHANGED <<signedIn, mishaps, generation, loading>>
    BY <1>13 DEF ApplyOlder, OlderFails
  <2> QED
    BY <1>0, <2>1, OtherTask
<1>14. ASSUME NEW t \in Tasks, TimelineStep(t)
       PROVE  LoadInv'
  <2>1. CASE ReadPage(t) \/ LoadOlderMessages(t) \/ ApplyOlder(t) \/ OlderFails(t)
    BY <1>10, <1>11, <1>13, <2>1
  <2>2. CASE ApplyTimeline(t)
    BY <1>12, <2>2 DEF ApplyTimeline, Is
  <2>3. ASSUME task[t].kind = "Timeline", NEW cached, TimelineFails(t, cached)
        PROVE  LoadInv'
    BY <1>12, <2>3
  <2> QED
    BY <1>14, <2>1, <2>2, <2>3 DEF TimelineStep
<1>15. CASE UNCHANGED vars
  BY <1>0, <1>15, OtherTask DEF vars, screen, timeline
<1> QED
  BY <1>1, <1>2, <1>3, <1>4, <1>5, <1>7, <1>8, <1>9, <1>14, <1>15, Steps,
     TypingApart, AsideApart, MessageApart DEF SelectionStep

(***************************************************************************)
(* Whether the screen is current.                                          *)
(***************************************************************************)
\* What is shown of a message is its present content, or its last change waits or was missed.
Kept(m) == m = Message(m.conv, m.n) \/ ~Handled(m.conv, m.n)

OnScreen(m) == \E s \in shown : s.conv = m.conv /\ s.n = m.n

Newest(c) == Message(c, Len(log[c]))

\* A page of older messages that will be put on the screen: prepend_timeline prefers what is there.
OlderKept(r) ==
    r.kind = "Older" /\ r.at = "Read" /\ StillWanted(r) => \A m \in r.page : Kept(m) \/ OnScreen(m)

\* The window shows the timeline it has loaded, and none of the mishaps has happened.
Settled ==
    /\ signedIn /\ selected # None /\ ~loading
    /\ mishaps \cap {"Away", "Failed"} = {}

NewestKept ==
    Len(log[selected]) > 0 => Newest(selected) \in shown \/ ~Handled(selected, Len(log[selected]))

CurrentInv ==
    Settled => /\ \A m \in shown : Kept(m)
               /\ NewestKept
               /\ \A t \in Tasks : OlderKept(task[t])

LEMMA SettledShows ==
  ASSUME Types, LoadInv, ShownBelongs, Settled
  PROVE  /\ selected \in Conversations /\ selected \in list.rows
         /\ \A m \in shown : m \in Numbered /\ m.conv = selected /\ m.n \in InLog(selected)
         /\ log[selected] \in Seq({"Sent", "Recalled"}) /\ Len(log[selected]) \in Nat
BY DEF Types, ServerTypes, WindowTypes, LoadInv, ShownBelongs, Settled, Posted

\* A page that is still wanted is of posted messages of the selected conversation.
LEMMA WantedPage ==
  ASSUME Types, NEW r, Request(r), r.kind = "Older", r.at = "Read", StillWanted(r)
  PROVE  \A m \in r.page : m \in Numbered /\ m.conv = selected /\ m.conv \in Conversations /\ m.n \in InLog(selected)
BY DEF Request, TimelineRequest, PageOf, Posted, StillWanted

LEMMA OlderStays ==
  ASSUME Types, \A t \in Tasks : OlderKept(task[t]),
         \A x : Request(x) /\ OlderKept(x) => OlderKept(x)',
         \/ task' = task
         \/ \E t \in Tasks : \E r : task' = [task EXCEPT ![t] = r] /\ OlderKept(r)'
  PROVE  \A t \in Tasks : OlderKept(task[t])'
<1> SUFFICES ASSUME NEW t \in Tasks PROVE OlderKept(task[t])'
  OBVIOUS
<1>1. PICK x : x = task'[t]
  OBVIOUS
<1>2. OlderKept(x)'
  <2>1. CASE x = task[t]
    BY <2>1 DEF Types, TaskTypes
  <2>2. CASE x # task[t]
    BY <1>1, <2>2 DEF Types, TaskTypes
  <2> QED
    BY <2>1, <2>2
<1> QED
  BY <1>1, <1>2

\* Steps that leave the screen alone and take no event of a message.
LEMMA SameScreen ==
  ASSUME Types, LoadInv, ShownBelongs, CurrentInv,
         Settled' => Settled, UNCHANGED <<log, selected, shown, generation>>,
         \A c \in Conversations : \A n \in InLog(c) : ~Handled(c, n) => ~Handled(c, n)',
         \/ task' = task
         \/ \E t \in Tasks : \E r : task' = [task EXCEPT ![t] = r] /\ OlderKept(r)'
  PROVE  CurrentInv'
<1> SUFFICES ASSUME Settled'
             PROVE  (\A m \in shown : Kept(m))' /\ NewestKept' /\ \A t \in Tasks : OlderKept(task[t])'
  BY DEF CurrentInv
<1>1. Settled
  OBVIOUS
<1>2. \A c, n : Message(c, n)' = Message(c, n)
  BY DEF Message
<1>3. \A m \in Numbered : m.n \in InLog(m.conv) /\ Kept(m) => Kept(m)'
  BY <1>2 DEF Kept, Numbered
<1>4. (\A m \in shown : Kept(m))'
  <2>1. \A m \in shown : Kept(m) /\ m \in Numbered /\ m.n \in InLog(m.conv)
    BY <1>1, SettledShows DEF CurrentInv
  <2>2. \A m \in shown : Kept(m)'
    BY <1>3, <2>1
  <2> QED
    BY <2>2
<1>5. NewestKept'
  <2>1. Len(log[selected]) > 0 => Len(log[selected]) \in InLog(selected)
    BY <1>1, SettledShows DEF InLog
  <2> QED
    BY <1>1, <1>2, <2>1, SettledShows DEF CurrentInv, NewestKept, Newest
<1>6. ASSUME NEW x, Request(x), OlderKept(x)
      PROVE  OlderKept(x)'
  <2> SUFFICES ASSUME x.kind = "Older", x.at = "Read", StillWanted(x)', NEW m \in x.page
               PROVE  Kept(m)' \/ OnScreen(m)'
    BY DEF OlderKept
  <2>1. StillWanted(x)
    BY DEF StillWanted
  <2>2. m \in Numbered /\ m.n \in InLog(m.conv) /\ (Kept(m) \/ OnScreen(m))
    BY <1>6, <2>1, WantedPage DEF OlderKept
  <2> QED
    BY <1>3, <2>2 DEF OnScreen
<1>7. \A t \in Tasks : OlderKept(task[t])'
  BY <1>1, <1>6, OlderStays DEF CurrentInv
<1> QED
  BY <1>4, <1>5, <1>7

\* A change of a message on the screen is announced.
LEMMA LogStepCurrent ==
  ASSUME Types, LoadInv, ShownBelongs, CurrentInv,
         NEW c \in Conversations, NEW n \in 1 .. Len(log[c]) + 1, LogStep(c, n)
  PROVE  CurrentInv'
<1>0. /\ Changes(c, n) /\ UNCHANGED <<session, list, selected, shown, loading, generation, mishaps>>
      /\ \/ task' = task
         \/ \E t \in Tasks : task[t].kind = "Message" /\ task' = [task EXCEPT ![t] = Answered(c, n)]
  BY DEF LogStep, screen, timeline
<1> SUFFICES ASSUME Settled'
             PROVE  (\A m \in shown : Kept(m))' /\ NewestKept' /\ \A t \in Tasks : OlderKept(task[t])'
  BY DEF CurrentInv
<1>1. Settled /\ Listening
  BY <1>0 DEF Settled, Listening
<1>2. /\ ~Handled(c, n)'
      /\ \A d \in Conversations : \A k \in InLog(d) :
            /\ ~Handled(d, k) => ~Handled(d, k)'
            /\ d # c \/ k # n => Message(d, k)' = Message(d, k)
  BY <1>0, <1>1, Announced
<1>3. \A m \in Numbered : m.n \in InLog(m.conv) /\ Kept(m) => Kept(m)'
  <2> SUFFICES ASSUME NEW m \in Numbered, m.n \in InLog(m.conv), Kept(m) PROVE Kept(m)'
    OBVIOUS
  <2>1. m.conv \in Conversations
    BY DEF Numbered
  <2>2. CASE m.conv = c /\ m.n = n
    BY <1>2, <2>2 DEF Kept
  <2>3. CASE m.conv # c \/ m.n # n
    BY <1>2, <2>1, <2>3 DEF Kept
  <2> QED
    BY <2>2, <2>3
<1>4. (\A m \in shown : Kept(m))'
  <2>1. \A m \in shown : Kept(m) /\ m \in Numbered /\ m.n \in InLog(m.conv)
    BY <1>1, SettledShows DEF CurrentInv
  <2>2. \A m \in shown : Kept(m)'
    BY <1>3, <2>1
  <2> QED
    BY <1>0, <2>2
<1>5. NewestKept'
  <2> DEFINE L == Len(log[selected])
  <2>1. selected \in Conversations /\ L \in Nat /\ Len(log[c]) \in Nat
    BY <1>1, SettledShows DEF Types, ServerTypes
  <2>2. CASE selected = c /\ n > Len(log[c])
    <3>1. Len(log'[selected]) = n
      BY <1>0, <2>2 DEF Changes
    <3> QED
      BY <1>0, <1>2, <2>2, <3>1 DEF NewestKept
  <2>3. CASE ~(selected = c /\ n > Len(log[c]))
    <3>1. Len(log'[selected]) = L
      BY <1>0, <2>1, <2>3 DEF Changes
    <3> SUFFICES ASSUME L > 0
                 PROVE  Newest(selected)' \in shown \/ ~Handled(selected, L)'
      BY <1>0, <3>1 DEF NewestKept
    <3>2. L \in InLog(selected) /\ (Newest(selected) \in shown \/ ~Handled(selected, L))
      BY <1>1, <2>1 DEF CurrentInv, NewestKept, InLog
    <3>3. CASE selected = c /\ L = n
      BY <1>0, <1>2, <3>1, <3>3
    <3>4. CASE selected # c \/ L # n
      BY <1>0, <1>2, <2>1, <3>1, <3>2, <3>4 DEF Newest
    <3> QED
      BY <3>3, <3>4
  <2> QED
    BY <2>2, <2>3
<1>6. ASSUME NEW x, Request(x), OlderKept(x)
      PROVE  OlderKept(x)'
  <2> SUFFICES ASSUME x.kind = "Older", x.at = "Read", StillWanted(x)', NEW m \in x.page
               PROVE  Kept(m)' \/ OnScreen(m)'
    BY DEF OlderKept
  <2>1. StillWanted(x)
    BY <1>0 DEF StillWanted
  <2>2. m \in Numbered /\ m.n \in InLog(m.conv) /\ (Kept(m) \/ OnScreen(m))
    BY <1>6, <2>1, WantedPage DEF OlderKept
  <2> QED
    BY <1>0, <1>3, <2>2 DEF OnScreen
<1>7. \A t \in Tasks : OlderKept(task[t])'
  <2>1. PICK r : r = Answered(c, n)
    OBVIOUS
  <2>2. OlderKept(r)'
    BY <2>1 DEF Answered, OlderKept
  <2> QED
    BY <1>0, <1>1, <1>6, <2>1, <2>2, OlderStays DEF CurrentInv
<1> QED
  BY <1>4, <1>5, <1>7

\* apply_realtime_message, of an event or of an answer.
LEMMA AppliedKeeps ==
  ASSUME Types, LoadInv, ShownBelongs, CurrentInv, Settled, NEW e \in Numbered,
         shown' = WithMessage(e), UNCHANGED <<log, selected, generation>>,
         e.conv = selected => Posted(e) /\ Kept(e)',
         \A c \in Conversations : \A n \in InLog(c) : ~Handled(c, n) => ~Handled(c, n)' \/ e = Message(c, n),
         \/ task' = task
         \/ \E t \in Tasks : task' = [task EXCEPT ![t] = Idle]
  PROVE  (\A m \in shown : Kept(m))' /\ NewestKept' /\ \A t \in Tasks : OlderKept(task[t])'
<1>1. \A c, n : /\ Message(c, n)' = Message(c, n)
               /\ Message(c, n).conv = c /\ Message(c, n).n = n
  BY DEF Message
<1>2. /\ selected \in Conversations /\ selected \in list.rows
      /\ \A m \in shown : m \in Numbered /\ m.conv = selected /\ m.n \in InLog(selected) /\ Kept(m)
      /\ Len(log[selected]) \in Nat
  BY SettledShows DEF CurrentInv
<1>3. /\ e.conv = selected => shown' = {m \in shown : <<m.conv, m.n>> # <<e.conv, e.n>>} \cup {e}
      /\ e.conv # selected => shown' = shown
  BY <1>2 DEF WithMessage
<1>4. ASSUME NEW m \in shown, m \in shown', m # e
      PROVE  Kept(m)'
  <2>1. e = Message(m.conv, m.n) => e.conv = selected /\ e.n = m.n
    BY <1>1, <1>2, <1>4
  <2>2. e # Message(m.conv, m.n)
    BY <1>2, <1>3, <1>4, <2>1
  <2> QED
    BY <1>1, <1>2, <1>4, <2>2 DEF Kept
<1>5. ASSUME NEW m \in shown' PROVE Kept(m)'
  <2>1. CASE m = e /\ e.conv = selected
    BY <2>1
  <2>2. CASE m # e
    BY <1>3, <1>4, <1>5, <2>2
  <2>3. CASE m = e /\ e.conv # selected
    BY <1>2, <1>3, <1>5, <2>3
  <2> QED
    BY <2>1, <2>2, <2>3
<1>6. (\A m \in shown : Kept(m))'
  BY <1>5
<1>7. NewestKept'
  <2> DEFINE L == Len(log[selected])
  <2> SUFFICES ASSUME L > 0
               PROVE  Newest(selected) \in shown' \/ ~Handled(selected, L)'
    BY <1>1 DEF NewestKept, Newest
  <2>1. L \in InLog(selected) /\ (Newest(selected) \in shown \/ ~Handled(selected, L))
    BY <1>2 DEF CurrentInv, NewestKept, InLog
  <2>2. CASE e = Newest(selected)
    BY <1>1, <1>3, <2>2 DEF Newest
  <2>3. CASE e # Newest(selected) /\ ~Handled(selected, L)
    BY <1>2, <2>1, <2>3 DEF Newest
  <2>4. CASE e # Newest(selected) /\ Newest(selected) \in shown
    <3>1. CASE e.conv = selected /\ e.n = L
      BY <1>1, <2>4, <3>1 DEF Kept, Newest
    <3>2. CASE ~(e.conv = selected /\ e.n = L)
      BY <1>1, <1>3, <2>4, <3>2 DEF Newest
    <3> QED
      BY <3>1, <3>2
  <2> QED
    BY <2>1, <2>2, <2>3, <2>4
<1>8. ASSUME NEW x, Request(x), OlderKept(x)
      PROVE  OlderKept(x)'
  <2> SUFFICES ASSUME x.kind = "Older", x.at = "Read", StillWanted(x)', NEW m \in x.page
               PROVE  Kept(m)' \/ OnScreen(m)'
    BY DEF OlderKept
  <2>1. StillWanted(x)
    BY DEF StillWanted
  <2>2. /\ m \in Numbered /\ m.conv = selected /\ m.conv \in Conversations /\ m.n \in InLog(m.conv)
        /\ Kept(m) \/ OnScreen(m)
    BY <1>8, <2>1, WantedPage DEF OlderKept
  <2>3. ASSUME OnScreen(m) PROVE OnScreen(m)'
    <3>1. PICK s \in shown : s.conv = m.conv /\ s.n = m.n
      BY <2>3 DEF OnScreen
    <3>2. s \in shown' \/ (e \in shown' /\ e.conv = s.conv /\ e.n = s.n)
      BY <1>2, <1>3
    <3> QED
      BY <3>1, <3>2 DEF OnScreen
  <2>4. CASE e = Message(m.conv, m.n)
    BY <1>1, <1>3, <2>2, <2>4 DEF OnScreen
  <2>5. CASE e # Message(m.conv, m.n) /\ Kept(m)
    BY <1>1, <2>2, <2>5 DEF Kept
  <2> QED
    BY <2>2, <2>3, <2>4, <2>5
<1>9. OlderKept(Idle)'
  BY DEF OlderKept, Idle
<1>10. \A t \in Tasks : OlderKept(task[t])'
  <2>1. PICK r : r = Idle
    OBVIOUS
  <2>2. OlderKept(r)'
    BY <1>9, <2>1
  <2> QED
    BY <1>8, <2>1, <2>2, OlderStays DEF CurrentInv
<1> QED
  BY <1>6, <1>7, <1>10

\* A page that comes late is not older than the events handled, or what it lacks was missed.
LEMMA TimelineCurrent ==
  ASSUME Types, LoadInv, ShownBelongs, CurrentInv, NEW t \in Tasks, ApplyTimeline(t),
         StillWanted(task[t])
  PROVE  CurrentInv'
<1> SUFFICES ASSUME Settled'
             PROVE  (\A m \in shown : Kept(m))' /\ NewestKept' /\ \A s \in Tasks : OlderKept(task[s])'
  BY DEF CurrentInv
<1>1. PICK r : r = task[t]
  OBVIOUS
<1>2. /\ r.kind = "Timeline" /\ r.at = "Read" /\ StillWanted(r) /\ task' = [task EXCEPT ![t] = Idle]
      /\ shown' = r.page /\ UNCHANGED <<log, events, selected, generation>>
      /\ missed' = {x \in missed : x[1] = r.conv => Mentioned(x[1], x[2])} \cup Behind(r)
  BY <1>1 DEF ApplyTimeline, Is, server
<1>3. r.conv = selected /\ PageOf(selected, r.page) /\ selected \in Conversations
  BY <1>1, <1>2 DEF Settled, StillWanted, Types, TaskTypes, Request, TimelineRequest
<1>4. \A n \in InLog(selected) : Covers(r, n) \/ Waits(selected, n) \/ <<selected, n>> \in missed'
  BY <1>2, <1>3 DEF Behind
<1>5. /\ \A c, n : Message(c, n)' = Message(c, n) /\ (Waits(c, n)' <=> Waits(c, n))
      /\ \A m : m = Message(m.conv, m.n) \/ Waits(m.conv, m.n) \/ <<m.conv, m.n>> \in missed' => Kept(m)'
  BY <1>2 DEF Message, Handled, Waits, Kept
<1>6. Len(log[selected]) \in Nat
  BY <1>3 DEF Types, ServerTypes
<1>7. \A m \in r.page : m.conv = selected /\ m.n \in InLog(selected) /\ m.n \in Nat
  BY <1>3 DEF PageOf, Posted, Numbered
<1>8. (\A m \in shown : Kept(m))'
  <2> SUFFICES ASSUME NEW m \in r.page PROVE Kept(m)'
    BY <1>2
  <2>1. CASE Message(selected, m.n) \in r.page
    <3>1. PICK x : x = Message(selected, m.n)
      OBVIOUS
    <3>2. x \in r.page /\ x.n = m.n
      BY <2>1, <3>1 DEF Message
    <3>3. m = x
      BY <1>3, <3>2 DEF PageOf
    <3> QED
      BY <1>5, <1>7, <3>1, <3>3
  <2>2. CASE Message(selected, m.n) \notin r.page
    <3>1. ~(m.n < m.n)
      BY <1>7
    <3>2. ~Covers(r, m.n)
      BY <1>3, <2>2, <3>1 DEF Covers
    <3> QED
      BY <1>4, <1>5, <1>7, <3>2
  <2> QED
    BY <2>1, <2>2
<1>9. NewestKept'
  <2> SUFFICES ASSUME Len(log[selected]) > 0
               PROVE  Newest(selected) \in r.page \/ ~Handled(selected, Len(log[selected]))'
    BY <1>2, <1>5 DEF NewestKept, Newest
  <2>1. Len(log[selected]) \in InLog(selected) /\ \A p \in r.page : ~(Len(log[selected]) < p.n)
    BY <1>6, <1>7 DEF InLog
  <2>2. Covers(r, Len(log[selected])) => Newest(selected) \in r.page
    BY <1>3, <2>1 DEF Covers, Newest
  <2>3. CASE Waits(selected, Len(log[selected])) \/ <<selected, Len(log[selected])>> \in missed'
    BY <1>2, <1>5, <2>3 DEF Handled
  <2> QED
    BY <1>4, <2>1, <2>2, <2>3
<1>10. ASSUME NEW s \in Tasks
       PROVE  OlderKept(task[s])'
  <2>1. CASE s = t
    BY <1>2, <2>1 DEF OlderKept, Idle, Types, TaskTypes
  <2>2. CASE s # t
    <3>1. task'[s] = task[s]
      BY <1>2, <2>2 DEF Types, TaskTypes
    <3>2. ~(task[s].kind = "Older" /\ task[s].gen = generation)
      BY <1>1, <1>2 DEF LoadInv, PageRequest, StillWanted
    <3> QED
      BY <1>2, <3>1, <3>2 DEF OlderKept, StillWanted
  <2> QED
    BY <2>1, <2>2
<1> QED
  BY <1>8, <1>9, <1>10

LEMMA OlderCurrent ==
  ASSUME Types, LoadInv, ShownBelongs, CurrentInv, NEW t \in Tasks, ApplyOlder(t),
         StillWanted(task[t])
  PROVE  CurrentInv'
<1> SUFFICES ASSUME Settled'
             PROVE  (\A m \in shown : Kept(m))' /\ NewestKept' /\ \A s \in Tasks : OlderKept(task[s])'
  BY DEF CurrentInv
<1>1. PICK r : r = task[t]
  OBVIOUS
<1>2. /\ r.kind = "Older" /\ r.at = "Read" /\ StillWanted(r) /\ task' = [task EXCEPT ![t] = Idle]
      /\ shown' = Prepended(r.page)
      /\ UNCHANGED <<log, events, missed, signedIn, selected, loading, generation, mishaps>>
  BY <1>1 DEF ApplyOlder, Is, server
<1>3. Settled /\ OlderKept(r)
  BY <1>1, <1>2 DEF Settled, CurrentInv
<1>4. \A c, n : Message(c, n)' = Message(c, n) /\ (Handled(c, n)' <=> Handled(c, n))
  BY <1>2 DEF Message, Handled, Waits
<1>5. \A m : Kept(m) => Kept(m)'
  BY <1>4 DEF Kept
<1>6. (\A m \in shown : Kept(m))'
  <2> SUFFICES ASSUME NEW m \in Prepended(r.page) PROVE Kept(m)'
    BY <1>2
  <2>1. CASE m \in shown
    BY <1>3, <1>5, <2>1 DEF CurrentInv
  <2>2. CASE m \notin shown
    <3>1. m \in r.page /\ ~OnScreen(m)
      BY <2>2 DEF Prepended, OnScreen
    <3> QED
      BY <1>2, <1>3, <1>5, <3>1 DEF OlderKept
  <2> QED
    BY <2>1, <2>2
<1>7. shown \subseteq shown'
  BY <1>2 DEF Prepended
<1>8. NewestKept'
  BY <1>2, <1>3, <1>4, <1>7 DEF CurrentInv, NewestKept, Newest
<1>9. \A x : Request(x) /\ OlderKept(x) => OlderKept(x)'
  BY <1>2, <1>5, <1>7 DEF OlderKept, StillWanted, OnScreen
<1>10. PICK idle : idle = Idle
  OBVIOUS
<1>11. OlderKept(idle)'
  BY <1>10 DEF OlderKept, Idle
<1>12. \A s \in Tasks : OlderKept(task[s])'
  BY <1>2, <1>3, <1>9, <1>10, <1>11, OlderStays DEF CurrentInv
<1> QED
  BY <1>6, <1>8, <1>12

\* A step that leaves the screen and the events alone.
LEMMA QuietStep ==
  ASSUME Types, LoadInv, ShownBelongs, CurrentInv,
         Settled' => Settled, UNCHANGED <<log, events, missed, selected, shown, generation>>,
         \/ task' = task
         \/ \E t \in Tasks : \E r : task' = [task EXCEPT ![t] = r] /\ OlderKept(r)'
  PROVE  CurrentInv'
<1>1. \A c \in Conversations : \A n \in InLog(c) : ~Handled(c, n) => ~Handled(c, n)'
  BY DEF Handled, Waits, Message
<1> QED
  BY <1>1, SameScreen

\* A request that is not an answered one for older pages.
LEMMA QuietTask ==
  ASSUME Types, LoadInv, ShownBelongs, CurrentInv,
         Settled' => Settled, UNCHANGED <<log, events, missed, selected, shown, generation>>,
         \/ task' = task
         \/ \E t \in Tasks : \E r : task' = [task EXCEPT ![t] = r] /\ (r.kind # "Older" \/ r.at # "Read")
  PROVE  CurrentInv'
<1>1. \A r : r.kind # "Older" \/ r.at # "Read" => OlderKept(r)'
  BY DEF OlderKept
<1> QED
  BY <1>1, QuietStep

LEMMA TimelineStepCurrent ==
  ASSUME Types, LoadInv, ShownBelongs, CurrentInv, NEW t \in Tasks, TimelineStep(t)
  PROVE  CurrentInv'
<1>0. UNCHANGED <<log, events, signedIn, selected, generation>> /\ Idle.kind = "Idle"
  BY TimelineStepKeepsServer DEF server, Idle
<1>1. CASE ReadPage(t)
  <2>1. PICK c, before :
          /\ c = task[t].conv /\ before = IF task[t].kind = "Older" THEN task[t].before ELSE 0
    OBVIOUS
  <2>2. c \in Conversations /\ before \in Nat
    BY <1>1, <2>1 DEF ReadPage, Types, TaskTypes, Request, TimelineRequest
  <2>3. PICK page : page = Page(c, before)
    OBVIOUS
  <2>4. PICK r : r = [kind |-> task[t].kind, at |-> "Read", conv |-> c, gen |-> task[t].gen,
                      page |-> page, next |-> PageNextCursor(page, before)]
    OBVIOUS
  <2>5. task' = [task EXCEPT ![t] = r] /\ UNCHANGED <<missed, screen, mishaps>>
    BY <1>1, <2>1, <2>3, <2>4 DEF ReadPage
  <2>6. \A m \in page : m.conv = c /\ m = Message(c, m.n)
    BY <2>2, <2>3, PageTypes DEF PageOf
  <2>7. \A k, n : Message(k, n)' = Message(k, n)
    BY <1>0 DEF Message
  <2>8. OlderKept(r)'
    BY <2>4, <2>6, <2>7 DEF OlderKept, Kept
  <2>9. Settled' => Settled
    BY <1>0, <2>5 DEF Settled, screen, timeline
  <2> QED
    BY <1>0, <2>5, <2>8, <2>9, QuietStep DEF screen, timeline
<1>2. CASE ApplyTimeline(t)
  <2>1. CASE StillWanted(task[t])
    BY <1>2, <2>1, TimelineCurrent
  <2>2. CASE ~StillWanted(task[t])
    <3>1. UNCHANGED <<missed, loading, shown, mishaps>> /\ task' = [task EXCEPT ![t] = Idle]
      BY <1>2, <2>2 DEF ApplyTimeline
    <3> QED
      BY <1>0, <3>1, QuietTask DEF Settled
  <2> QED
    BY <2>1, <2>2
<1>3. CASE LoadOlderMessages(t)
  <2>1. PICK r : r = AskOlder(selected, generation, cursor)
    OBVIOUS
  <2>2. r.at = "Asked" /\ task' = [task EXCEPT ![t] = r] /\ UNCHANGED <<missed, loading, shown, mishaps>>
    BY <1>3, <2>1 DEF LoadOlderMessages, AskOlder
  <2>3. Settled' => Settled
    BY <1>0, <2>2 DEF Settled
  <2> QED
    BY <1>0, <2>2, <2>3, QuietTask
<1>4. CASE ApplyOlder(t)
  <2>1. CASE StillWanted(task[t])
    BY <1>4, <2>1, OlderCurrent
  <2>2. CASE ~StillWanted(task[t])
    <3>1. UNCHANGED <<missed, loading, shown, mishaps>> /\ task' = [task EXCEPT ![t] = Idle]
      BY <1>4, <2>2 DEF ApplyOlder
    <3> QED
      BY <1>0, <3>1, QuietTask DEF Settled
  <2> QED
    BY <2>1, <2>2
<1>5. CASE OlderFails(t)
  <2>1. UNCHANGED <<missed, loading, shown, mishaps>> /\ task' = [task EXCEPT ![t] = Idle]
    BY <1>5 DEF OlderFails
  <2> QED
    BY <1>0, <2>1, QuietTask DEF Settled
<1>6. ASSUME NEW cached, TimelineFails(t, cached)
      PROVE  CurrentInv'
  <2>1. CASE StillWanted(task[t])
    BY <1>6, <2>1 DEF TimelineFails, CurrentInv, Settled
  <2>2. CASE ~StillWanted(task[t])
    <3>1. UNCHANGED <<missed, loading, shown, mishaps>> /\ task' = [task EXCEPT ![t] = Idle]
      BY <1>6, <2>2 DEF TimelineFails
    <3> QED
      BY <1>0, <3>1, QuietTask DEF Settled
  <2> QED
    BY <2>1, <2>2
<1> QED
  BY <1>1, <1>2, <1>3, <1>4, <1>5, <1>6 DEF TimelineStep

LEMMA ListStepCurrent ==
  ASSUME Types, LoadInv, ShownBelongs, CurrentInv, NEW t \in Tasks, ListStep(t)
  PROVE  CurrentInv'
<1>0. UNCHANGED <<log, missed, session, shown, loading, generation>> /\ Idle.kind = "Idle"
  BY ListStepKeepsServer DEF server, timeline, Idle
<1>1. CASE HandleOtherEvent(t)
  <2>1. /\ events # <<>> /\ events' = Tail(events) /\ Head(events).conv = None
        /\ UNCHANGED <<selected, mishaps>> /\ task' = [task EXCEPT ![t] = AskList(selected)]
    BY <1>1 DEF HandleOtherEvent, RefreshBootstrap, screen
  <2>2. \A c \in Conversations : \A n \in InLog(c) : ~Handled(c, n) => ~Handled(c, n)' \/ Head(events) = Message(c, n)
    BY <1>0, <2>1, TakeEvent
  <2>3. \A c \in Conversations : \A n : Head(events) # Message(c, n)
    BY <2>1, DesktopViewAssumption DEF Message
  <2>4. PICK r : r = AskList(selected)
    OBVIOUS
  <2>5. OlderKept(r)'
    BY <2>4 DEF AskList, OlderKept
  <2>6. Settled' => Settled
    BY <1>0, <2>1 DEF Settled
  <2>7. \A c \in Conversations : \A n \in InLog(c) : ~Handled(c, n) => ~Handled(c, n)'
    BY <2>2, <2>3
  <2>8. task' = [task EXCEPT ![t] = r] /\ OlderKept(r)'
    BY <2>1, <2>4, <2>5
  <2> QED
    BY <1>0, <2>1, <2>6, <2>7, <2>8, SameScreen
<1>2. CASE ReadList(t)
  <2>1. PICK r : r = [kind |-> "List", at |-> "Read", keep |-> task[t].keep, rows |-> Listed,
                      version |-> version]
    OBVIOUS
  <2>2. r.kind # "Older" /\ task' = [task EXCEPT ![t] = r] /\ UNCHANGED <<events, selected, mishaps>>
    BY <1>2, <2>1 DEF ReadList, screen
  <2>3. Settled' => Settled
    BY <1>0, <2>2 DEF Settled
  <2> QED
    BY <1>0, <2>2, <2>3, QuietTask
<1>3. CASE ListFails(t)
  <2>1. /\ UNCHANGED <<events, selected>> /\ mishaps \subseteq mishaps'
        /\ task' = [task EXCEPT ![t] = Idle]
    BY <1>3 DEF ListFails, screen
  <2>2. Settled' => Settled
    BY <1>0, <2>1 DEF Settled
  <2> QED
    BY <1>0, <2>1, <2>2, QuietTask
<1>4. ASSUME NEW c \in Texts, ApplyList(t, c)
      PROVE  CurrentInv'
  <2>1. /\ UNCHANGED events /\ selected' = c /\ mishaps \ {"Stale"} \subseteq mishaps' /\ task' = [task EXCEPT ![t] = Idle]
        /\ c # selected => "Away" \in mishaps'
    BY <1>4 DEF ApplyList
  <2>2. CASE c # selected
    BY <2>1, <2>2 DEF CurrentInv, Settled
  <2>3. CASE c = selected
    <3>1. Settled' => Settled
      BY <1>0, <2>1, <2>3 DEF Settled
    <3> QED
      BY <1>0, <2>1, <2>3, <3>1, QuietTask
  <2> QED
    BY <2>2, <2>3
<1> QED
  BY <1>1, <1>2, <1>3, <1>4 DEF ListStep

LEMMA MessageAnswerCurrent ==
  ASSUME Types, LoadInv, ShownBelongs, CurrentInv, NEW t \in Tasks, MessageAnswer(t)
  PROVE  CurrentInv'
<1> SUFFICES ASSUME Settled'
             PROVE  (\A m \in shown : Kept(m))' /\ NewestKept' /\ \A s \in Tasks : OlderKept(task[s])'
  BY DEF CurrentInv
<1>1. PICK e : e = task[t].message
  OBVIOUS
<1>2. /\ UNCHANGED <<log, events, signedIn, selected, loading, generation, mishaps>>
      /\ task' = [task EXCEPT ![t] = Idle] /\ shown' = WithMessage(e)
      /\ missed' = missed \cup (IF e.conv = selected /\ e # Message(e.conv, e.n) /\ ~Waits(e.conv, e.n)
                                THEN {<<e.conv, e.n>>} ELSE {})
  BY <1>1 DEF MessageAnswer, server
<1>3. Settled
  BY <1>2 DEF Settled
<1>4. e \in Numbered /\ Posted(e)
  BY <1>1 DEF MessageAnswer, Is, Types, TaskTypes, Request, OtherRequest
<1>5. \A c, n : Message(c, n)' = Message(c, n) /\ Waits(c, n)' = Waits(c, n)
  BY <1>2 DEF Message, Waits
<1>6. \A c, n : ~Handled(c, n) => ~Handled(c, n)'
  BY <1>2, <1>5 DEF Handled
<1>7. e.conv = selected => Kept(e)'
  <2> SUFFICES ASSUME e.conv = selected, e # Message(e.conv, e.n), ~Waits(e.conv, e.n)
               PROVE  ~Handled(e.conv, e.n)'
    BY <1>2, <1>5 DEF Kept, Handled
  <2> QED
    BY <1>2 DEF Handled
<1> QED
  BY <1>2, <1>3, <1>4, <1>6, <1>7, AppliedKeeps

LEMMA MessageEventCurrent ==
  ASSUME Types, LoadInv, ShownBelongs, CurrentInv, HandleMessageEvent
  PROVE  CurrentInv'
<1> SUFFICES ASSUME Settled'
             PROVE  (\A m \in shown : Kept(m))' /\ NewestKept' /\ \A s \in Tasks : OlderKept(task[s])'
  BY DEF CurrentInv
<1>1. PICK e : e = Head(events)
  OBVIOUS
<1>2. /\ UNCHANGED <<log, missed, session, signedIn, selected, loading, generation, mishaps, task>>
      /\ events # <<>> /\ events' = Tail(events) /\ shown' = WithMessage(e) /\ e.conv # None
  BY <1>1 DEF HandleMessageEvent, server
<1>3. Settled
  BY <1>2 DEF Settled
<1>4. /\ e \in Event /\ \A c \in Conversations : \A n \in InLog(c) :
                          ~Handled(c, n) => ~Handled(c, n)' \/ e = Message(c, n)
      /\ e \in Numbered => Posted(e) /\ (e = Message(e.conv, e.n) \/ ~Handled(e.conv, e.n)')
  BY <1>1, <1>2, TakeEvent
<1>5. e \in Numbered
  BY <1>2, <1>4 DEF Event
<1>6. Posted(e) /\ Kept(e)'
  <2>1. Message(e.conv, e.n)' = Message(e.conv, e.n)
    BY <1>2 DEF Message
  <2> QED
    BY <1>4, <1>5, <2>1 DEF Kept
<1> QED
  BY <1>2, <1>3, <1>4, <1>5, <1>6, AppliedKeeps

LEMMA CurrentStep ==
  ASSUME Types, LoadInv, ShownBelongs, CurrentInv, [Next]_vars
  PROVE  CurrentInv'
<1>1. ASSUME NEW c \in Conversations, RowsStep(c)
      PROVE  CurrentInv'
  <2>1. /\ UNCHANGED <<log, session, screen, task>> /\ AnnounceRows
    BY <1>1 DEF RowsStep, MembershipChanges, Hide
  <2>2. \A d \in Conversations : \A n \in InLog(d) : ~Handled(d, n) => ~Handled(d, n)'
    BY <2>1, OtherEvent
  <2>3. mishaps \subseteq mishaps'
    BY <2>1 DEF AnnounceRows
  <2>4. Settled' => Settled
    BY <2>1, <2>3 DEF Settled, screen, timeline
  <2> QED
    BY <2>1, <2>2, <2>4, SameScreen DEF screen, timeline
<1>2. CASE Apart
  <2>1. UNCHANGED <<log, events, missed, signedIn, screen>> /\ mishaps' \ {"Panel"} = mishaps \ {"Panel"}
    BY <1>2 DEF Apart, server
  <2>2. Settled' => Settled
    BY <2>1 DEF Settled, screen, timeline
  <2>3. \/ task' = task
        \/ \E t \in Tasks : \E r : task' = [task EXCEPT ![t] = r] /\ (r.kind # "Older" \/ r.at # "Read")
    BY <1>2 DEF Apart
  <2> QED
    BY <2>1, <2>2, <2>3, QuietTask DEF screen, timeline
<1>3. CASE CloseDetails
  <2>1. UNCHANGED <<log, events, missed, signedIn, screen, task>> /\ mishaps' = mishaps \ {"Panel"}
    BY <1>3 DEF CloseDetails, server
  <2> QED
    BY <2>1, QuietTask DEF Settled, screen, timeline
<1>4. ASSUME NEW t \in Tasks, SelectionStep(t)
      PROVE  CurrentInv'
  <2>1. ASSUME NEW c \in Texts, LoadSelectedTimeline(t, c), selected' = c
        PROVE  CurrentInv'
    BY <2>1 DEF LoadSelectedTimeline, CurrentInv, Settled
  <2> QED
    BY <1>4, <2>1 DEF SelectionStep, SelectConversation, SignIn, Texts
<1>5. CASE SignOut
  BY <1>5 DEF SignOut, CurrentInv, Settled
<1>6. CASE UNCHANGED vars
  <2>1. UNCHANGED <<log, events, missed, signedIn, screen, task, mishaps>>
    BY <1>6 DEF vars, server
  <2> QED
    BY <2>1, QuietTask DEF Settled, screen, timeline
<1>7. CASE BootStep
  <2>1. ~signedIn'
    BY <1>7 DEF BootStep, ReadConversations, ReadCursor, SignInFails, Types, BootTypes
  <2> QED
    BY <2>1 DEF CurrentInv, Settled
<1> QED
  BY <1>1, <1>2, <1>3, <1>4, <1>5, <1>6, <1>7, Steps, LogStepCurrent, TypingApart, AsideApart,
     MessageApart,
     MessageEventCurrent, MessageAnswerCurrent, TimelineStepCurrent, ListStepCurrent

(***************************************************************************)
(* The invariant, and what it says of the window.                          *)
(***************************************************************************)
IInv == Types /\ HomeInv /\ ShownBelongs /\ ListInv /\ LoadInv /\ CurrentInv

LEMMA InitInv == Init => IInv
<1> SUFFICES ASSUME Init PROVE IInv
  OBVIOUS
<1>1. Types
  BY InitTypes
<1>2. HomeInv /\ ShownBelongs
  BY DEF Init, HomeInv, TextStaysHome, ShownBelongs
<1>3. ListInv /\ CurrentInv
  BY DEF Init, ListInv, CurrentInv, Settled, NoBootstrap
<1>4. LoadInv
  BY DEF Init, LoadInv, PageRequest, Idle
<1> QED
  BY <1>1, <1>2, <1>3, <1>4 DEF IInv

\* The invariant the theorems below follow from.
THEOREM Inductive == Spec => []IInv
<1>1. Init => IInv
  BY InitInv
<1>2. IInv /\ [Next]_vars => IInv'
  BY TypesStep, HomeStep, BelongsStep, ListInvStep, LoadInvStep, CurrentStep DEF IInv
<1> QED
  BY <1>1, <1>2, PTL DEF Spec

(***************************************************************************)
(* The theorems about the window.                                          *)
(***************************************************************************)
\* Every variable keeps its type, whatever the bounds; every request that is answered carries posted
\* messages or the rows of its version; every waiting event that is out of date is followed by the
\* one that is not, or the window has missed that one.
THEOREM WellFormed == Spec => []Types
<1>1. IInv => Types
  BY DEF IInv
<1> QED
  BY Inductive, <1>1, PTL

\* However late the answers of load_selected_timeline and load_older_messages come, the messages on
\* the screen are of the selected conversation, and the panel shows the selected group, but for the
\* races ShownBelongs names.
THEOREM ShownBelongsHolds == Spec => []ShownBelongs
<1>1. IInv => ShownBelongs
  BY DEF IInv
<1> QED
  BY Inductive, <1>1, PTL

\* A typed text is not saved as draft of another conversation by persist_current_draft, unless a
\* list answer or a sign-in changed the selection under it.
THEOREM TextStaysHomeHolds == Spec => []TextStaysHome
<1>1. IInv => TextStaysHome
  BY DEF IInv, HomeInv
<1> QED
  BY Inductive, <1>1, PTL

\* After the last refresh_bootstrap the rows are the conversations the account is in and has not
\* hidden, also after a bootstrap read in parts, unless a request failed, answers passed each other
\* or no event told a change.
THEOREM ListIsCurrentHolds == Spec => []ListIsCurrent
<1>1. IInv => ListIsCurrent
  BY DEF IInv, ListInv, ListIsCurrent, NoticeWaits, RefreshUnderWay, Refreshes
<1> QED
  BY Inductive, <1>1, PTL

\* Pages, events and answers of message actions, in whatever order they are applied, leave the
\* newest message on the screen and every message there as it is, but for the messages whose last
\* change this window was not told of.
THEOREM ShownIsCurrentHolds == Spec => []ShownIsCurrent
<1>1. ASSUME IInv PROVE ShownIsCurrent
  <2> DEFINE Lost(n) == <<selected, n>> \in missed
  <2> SUFFICES ASSUME Settled, events = <<>>
               PROVE  /\ \A m \in shown : m = Message(selected, m.n) \/ Lost(m.n)
                      /\ Len(log[selected]) # 0 =>
                            Message(selected, Len(log[selected])) \in shown \/ Lost(Len(log[selected]))
    BY DEF ShownIsCurrent, Settled
  <2>1. \A c, n : ~Handled(c, n) => <<c, n>> \in missed
    BY DEF Handled, Waits
  <2>2. \A m \in shown : m.conv = selected /\ Kept(m)
    BY <1>1, SettledShows DEF IInv, CurrentInv
  <2>3. \A m \in shown : m = Message(selected, m.n) \/ Lost(m.n)
    BY <2>1, <2>2 DEF Kept
  <2>4. ASSUME Len(log[selected]) # 0
        PROVE  Message(selected, Len(log[selected])) \in shown \/ Lost(Len(log[selected]))
    <3>1. Len(log[selected]) > 0
      BY <1>1, <2>4, SettledShows DEF IInv
    <3> QED
      BY <1>1, <2>1, <3>1 DEF IInv, CurrentInv, NewestKept, Newest
  <2> QED
    BY <2>3, <2>4
<1> QED
  BY Inductive, <1>1, PTL

(***************************************************************************)
(* The encryption of the cache.                                            *)
(***************************************************************************)
\* KeyIsKept is not inductive: whether a step of set_encryption_enabled may touch the key in the
\* credential store depends on what the steps before it have written.  SwitchInv says it for each
\* step: where mode, the key in memory and the key in the credential store are.
SwitchInv ==
    /\ switch.at = "Idle" /\ app = "Open" => key = mode
    /\ switch.at = "Encrypt" => mode = Plain /\ key = Plain /\ credential = switch.key
    /\ switch.at = "RollBack" => mode = Plain /\ key = Plain
    /\ switch.at = "Publish" => mode = switch.key /\ key = Plain
    /\ switch.at = "Decrypt" => mode = switch.key /\ key = switch.key
    /\ switch.at = "Drop" => mode = Plain
    /\ switch.at = "Forget" => mode = Plain /\ key = Plain
    /\ switch.at \in {"Encrypt", "Publish", "Decrypt"} => switch.key # Plain
    /\ app # "Open" => switch.at = "Idle"

\* A row that no outdated task has written is as the committed mode says.
RowsInv == \A r \in Rows \ stray : row[r] \in {Absent, mode}

CacheInv == CacheTypeOK /\ SwitchInv /\ KeyIsKept /\ IndexMatchesPlaintext /\ RowsInv

LEMMA InitCache == CacheInit => CacheInv
  BY LocalCacheAssumption DEF CacheInit, CacheInv, CacheTypeOK, SwitchInv, KeyIsKept,
     IndexMatchesPlaintext, RowsInv, Resting, NoTask, Plain, Absent

\* The steps of set_encryption_enabled.
LEMMA SwitchingStep == CacheInv /\ Switching => CacheInv'
<1> SUFFICES ASSUME CacheInv, Switching PROVE CacheInv'
  OBVIOUS
<1> USE LocalCacheAssumption DEF CacheInv, CacheTypeOK, SwitchInv, KeyIsKept,
        IndexMatchesPlaintext, RowsInv, Plain, Absent, Resting, To, Rest
<1>1. CASE SaveKey
  BY <1>1 DEF SaveKey
<1>2. CASE EncryptExisting
  BY <1>2 DEF EncryptExisting, Protect
<1>3. CASE EncryptFails
  BY <1>3 DEF EncryptFails
<1>4. CASE RollBackKey
  BY <1>4 DEF RollBackKey
<1>5. CASE PublishKey
  BY <1>5 DEF PublishKey
<1>6. CASE TurnOff
  BY <1>6 DEF TurnOff
<1>7. CASE DecryptExisting
  BY <1>7 DEF DecryptExisting
<1>8. CASE DecryptFails
  BY <1>8 DEF DecryptFails
<1>9. CASE DropKey
  BY <1>9 DEF DropKey
<1>10. CASE ForgetKey
  BY <1>10 DEF ForgetKey
<1>11. QED
  BY <1>1, <1>2, <1>3, <1>4, <1>5, <1>6, <1>7, <1>8, <1>9, <1>10 DEF Switching

\* The tasks that write rows, the end of the application and its start.
LEMMA WriterStep ==
  ASSUME CacheInv,
         \/ \E t \in Writers, rows \in SUBSET Rows : BeginWrite(t, rows)
         \/ \E t \in Writers : CommitWrite(t)
         \/ \E r \in Rows : DeleteRow(r)
         \/ ClearAccountCache \/ Quit \/ OpenStore
  PROVE  CacheInv'
<1> USE LocalCacheAssumption DEF CacheInv, CacheTypeOK, SwitchInv, KeyIsKept,
        IndexMatchesPlaintext, RowsInv, Plain, Absent, Resting, NoTask, Rest
<1>1. ASSUME NEW t \in Writers, NEW rows \in SUBSET Rows, BeginWrite(t, rows)
      PROVE  CacheInv'
  BY <1>1 DEF BeginWrite
<1>2. ASSUME NEW t \in Writers, CommitWrite(t)
      PROVE  CacheInv'
  BY <1>2 DEF CommitWrite, Indexed
<1>3. ASSUME NEW r \in Rows, DeleteRow(r)
      PROVE  CacheInv'
  BY <1>3 DEF DeleteRow
<1>4. CASE ClearAccountCache
  BY <1>4 DEF ClearAccountCache
<1>5. CASE Quit
  BY <1>5 DEF Quit
<1>6. CASE OpenStore
  BY <1>6 DEF OpenStore
<1>7. QED
  BY <1>1, <1>2, <1>3, <1>4, <1>5, <1>6

LEMMA CacheStep == CacheInv /\ [CacheNext]_cacheVars => CacheInv'
<1> SUFFICES ASSUME CacheInv, [CacheNext]_cacheVars PROVE CacheInv'
  OBVIOUS
<1>1. CASE CacheNext
  BY <1>1, SwitchingStep, WriterStep DEF CacheNext
<1>2. CASE UNCHANGED cacheVars
  BY <1>2 DEF cacheVars, CacheInv, CacheTypeOK, SwitchInv, KeyIsKept,
     IndexMatchesPlaintext, RowsInv
<1>3. QED
  BY <1>1, <1>2

LEMMA CacheInductive == CacheSpec => []CacheInv
<1>1. CacheInit => CacheInv
  BY InitCache
<1>2. CacheInv /\ [CacheNext]_cacheVars => CacheInv'
  BY CacheStep
<1> QED
  BY <1>1, <1>2, PTL DEF CacheSpec

(***************************************************************************)
(* The theorems about the cache.                                           *)
(***************************************************************************)
\* Every variable keeps its type.
THEOREM CacheTypeCorrect == CacheSpec => []CacheTypeOK
<1>1. CacheInv => CacheTypeOK
  BY DEF CacheInv
<1> QED
  BY CacheInductive, <1>1, PTL

\* However often encryption is switched, and wherever the process ends in set_encryption_enabled,
\* the credential store has the key of the committed mode and LocalStore::open finds it.
THEOREM KeyIsKeptHolds == CacheSpec => []KeyIsKept
<1>1. CacheInv => KeyIsKept
  BY DEF CacheInv
<1> QED
  BY CacheInductive, <1>1, PTL

\* message_search never keeps the text of an encrypted message and never lacks that of a plain one.
THEOREM IndexHolds == CacheSpec => []IndexMatchesPlaintext
<1>1. CacheInv => IndexMatchesPlaintext
  BY DEF CacheInv
<1> QED
  BY CacheInductive, <1>1, PTL

\* Between switches the rows are as the cache is, but for those written by a task that took its key
\* before the last switch.
THEOREM RowsHold == CacheSpec => []RowsFollowTheSwitch
<1>1. CacheInv => RowsFollowTheSwitch
  BY DEF CacheInv, SwitchInv, RowsInv, RowsFollowTheSwitch
<1> QED
  BY CacheInductive, <1>1, PTL
================================================================================
