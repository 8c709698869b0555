---------------------------- MODULE DesktopView ----------------------------
(***************************************************************************)
(* The chat window of the desktop (apps/desktop/src/ui.rs): which          *)
(* conversation is selected, the messages on the screen, the conversation  *)
(* list and the text in the composer.  Every request runs on a background  *)
(* thread and its answer is applied when it comes back, in whatever state  *)
(* the window is by then.  A request is two steps: the server reads its    *)
(* answer (Read...), and the window applies it (Apply...).  Events of the  *)
(* server reach the window one by one, in order, next to those answers;    *)
(* an event may be lost, in the ways module EventStream names, and there   *)
(* is none for an account that is not a member.                            *)
(*                                                                         *)
(* Abstracted: names, previews, unread badges and scroll positions; a      *)
(* message is its conversation, its sequence number and whether it was     *)
(* recalled; a typed text is the conversation it was typed in.             *)
(***************************************************************************)
EXTENDS Integers, Sequences, FiniteSets

CONSTANTS
    Conversations,
    Tasks,          \* requests that can be under way at once
    PageSize,       \* messages a page of the timeline holds (50 in the code)
    MaxLog,         \* bound: messages posted and recalled
    MaxChanges,     \* bound: changes of the rows: membership changes and conversations hidden
    MaxLoads,       \* bound: timeline_generation
    MaxInputs,      \* bound: texts typed, panels opened and actions started
    None

ASSUME DesktopViewAssumption ==
    /\ IsFiniteSet(Conversations) /\ IsFiniteSet(Tasks)
    /\ PageSize \in Nat \ {0}
    /\ MaxLog \in Nat /\ MaxChanges \in Nat /\ MaxLoads \in Nat /\ MaxInputs \in Nat
    /\ None \notin Conversations

VARIABLES
    log,        \* server: log[c][n], whether message n of c is "Sent" or "Recalled"
    joined,     \* server: the conversations the account is in
    hidden,     \* server: the conversations of the account that are hidden
    version,    \* server: changes of the rows so far
    events,     \* events sent to this desktop and not handled yet, oldest first
    missed,     \* history: <<c, n>> whose last change no event tells, or an older answer undid
    signedIn,   \* authenticated
    bootstrap,  \* what the server has read of the bootstrap of a sign-in under way
    list,       \* conversations and bootstrap: the rows and the version they were read at
    selected,   \* id of conversations[selected_conversation], None for a demo row
    shown,      \* messages: what is on the screen
    cursor,     \* timeline_next_cursor, 0 for None
    loading,    \* messages_loading
    older,      \* timeline_loading_older
    generation, \* timeline_generation
    panel,      \* the groups whose settings, announcements and polls the details panel shows
    busy,       \* action_busy
    sending,    \* message_action_busy
    task,       \* the request each background task makes
    composer,   \* the conversation the text in the composer was typed in, None if empty
    drafts,     \* the texts saved as draft of each conversation, here or at the server
    inputs,     \* texts typed, panels opened and actions started (for the bound MaxInputs)
    mishaps     \* history: the races and failures behind what the window shows now

server == <<log, joined, hidden, version>>
feed == <<events, missed>>
session == <<signedIn, bootstrap>>
timeline == <<shown, cursor, loading, older, generation>>
screen == <<selected, timeline>>
aside == <<panel, busy, sending>>
typing == <<composer, drafts>>
vars == <<server, feed, session, list, screen, aside, task, typing, inputs, mishaps>>

Texts == Conversations \cup {None}
DemoList == [rows |-> {}, version |-> 0]
NoBootstrap == [at |-> "None", rows |-> {}, version |-> 0]

Message(c, n) == [conv |-> c, n |-> n, status |-> log[c][n]]
Numbers == 1 .. MaxLog + MaxInputs
Messages == [conv : Conversations, n : Numbers, status : {"Sent", "Recalled"}]
InLog(c) == 1 .. Len(log[c])

\* conversations(): those the account is in, without the hidden ones.
Listed == joined \ hidden

Mishaps == {"Moved", "Failed", "Displaced", "Stale", "Panel", "Away"}

(***************************************************************************)
(* Requests under way.  "Asked" until the server has read the answer.      *)
(***************************************************************************)
Idle == [kind |-> "Idle"]
AskTimeline(c, g) == [kind |-> "Timeline", at |-> "Asked", conv |-> c, gen |-> g]
AskOlder(c, g, before) == [kind |-> "Older", at |-> "Asked", conv |-> c, gen |-> g, before |-> before]
AskList(keep) == [kind |-> "List", at |-> "Asked", keep |-> keep]
AskDetails(c) == [kind |-> "Details", at |-> "Asked", conv |-> c]
AskAction(kind, c) == [kind |-> kind, at |-> "Asked", conv |-> c]
AskMessage(m) == [kind |-> "Message", at |-> "Asked", message |-> m]
Free(t) == task[t] = Idle
Is(t, kind, at) == task[t].kind = kind /\ task[t].at = at

TypeOK ==
    /\ log \in [Conversations -> Seq({"Sent", "Recalled"})]
    /\ joined \subseteq Conversations /\ hidden \subseteq joined /\ version \in 0 .. MaxChanges
    /\ missed \subseteq Conversations \X Numbers
    /\ drafts \in [Conversations -> SUBSET Conversations]
    /\ signedIn \in BOOLEAN
    /\ bootstrap \in [at : {"None", "List", "Cursor"}, rows : SUBSET Conversations,
                       version : 0 .. MaxChanges]
    /\ list \in [rows : SUBSET Conversations, version : 0 .. MaxChanges]
    /\ selected \in list.rows \cup {None}
    /\ shown \subseteq Messages
    /\ cursor \in 0 .. MaxLog + MaxInputs
    /\ loading \in BOOLEAN /\ older \in BOOLEAN /\ (older => cursor # 0)
    /\ generation \in 0 .. MaxLoads
    /\ panel \subseteq Conversations /\ busy \in BOOLEAN /\ sending \in BOOLEAN
    /\ composer \in Texts
    /\ inputs \in 0 .. MaxInputs
    /\ mishaps \subseteq Mishaps

Input == inputs < MaxInputs /\ inputs' = inputs + 1

Init ==
    /\ log = [c \in Conversations |-> <<>>]
    /\ joined \in SUBSET Conversations
    /\ hidden = {} /\ version = 0
    /\ events = <<>> /\ missed = {}
    /\ signedIn = FALSE /\ bootstrap = NoBootstrap
    /\ list = DemoList
    /\ selected = None
    /\ shown = {}
    /\ cursor = 0
    /\ loading = FALSE /\ older = FALSE
    /\ generation = 0
    /\ panel = {} /\ busy = FALSE /\ sending = FALSE
    /\ task = [t \in Tasks |-> Idle]
    /\ composer = None /\ drafts = [c \in Conversations |-> {}]
    /\ inputs = 0
    /\ mishaps = {}

(***************************************************************************)
(* The server.                                                             *)
(***************************************************************************)
\* Whether events are for this window: from the cursor of its bootstrap on.
Listening == signedIn \/ bootstrap.at = "Cursor"

\* append_event of a message: to the members of its conversation.  The event of a member may be
\* lost all the same: published behind a later one, dropped by a channel that is full, or sequenced
\* while the bootstrap was read (module EventStream).
Announce(e) ==
    \/ /\ Listening /\ e.conv \in joined
       /\ events' = Append(events, e) /\ missed' = missed \ {<<e.conv, e.n>>}
    \/ /\ events' = events
       /\ missed' = IF Listening THEN missed \cup {<<e.conv, e.n>>} ELSE missed

\* append_event of a change of the rows, an event without a message; it may be lost too.
AnnounceRows ==
    /\ version' = version + 1
    /\ missed' = missed
    /\ \/ Listening /\ events' = Append(events, [conv |-> None]) /\ mishaps' = mishaps
       \/ events' = events /\ mishaps' = IF Listening THEN mishaps \cup {"Stale"} ELSE mishaps

LogChanges ==
    LET all == UNION {{c} \X InLog(c) : c \in Conversations}
    IN  Cardinality(all) + Cardinality({x \in all : log[x[1]][x[2]] = "Recalled"})

\* A message of this account or of another member, who may post while the account is not in c.
Post(c) ==
    /\ LogChanges < MaxLog
    /\ log' = [log EXCEPT ![c] = Append(@, "Sent")]
    /\ Announce([conv |-> c, n |-> Len(log[c]) + 1, status |-> "Sent"])
    /\ UNCHANGED <<joined, hidden, version, session, list, screen, aside, task, typing, mishaps, inputs>>

\* A message action has been served and its answer is on the way; its recall exceeds the bound.
AnswerUnderWay(m) == \E t \in Tasks : Is(t, "Message", "Read") /\ task[t].message = m

Recall(c, n) ==
    /\ n \in InLog(c) /\ log[c][n] = "Sent"
    /\ LogChanges < MaxLog \/ AnswerUnderWay(Message(c, n))
    /\ log' = [log EXCEPT ![c][n] = "Recalled"]
    /\ Announce([conv |-> c, n |-> n, status |-> "Recalled"])
    /\ UNCHANGED <<joined, hidden, version, session, list, screen, aside, task, typing, mishaps, inputs>>

\* The account is added to a conversation, or leaves one and its settings go with it.
MembershipChanges(c) ==
    /\ version < MaxChanges
    /\ joined' = IF c \in joined THEN joined \ {c} ELSE joined \cup {c}
    /\ hidden' = hidden \ {c}
    /\ AnnounceRows
    /\ UNCHANGED <<log, session, list, screen, aside, task, typing, inputs>>

\* update_conversation_settings of this window (StartAction) or of another device of the account.
\* Nothing shows the conversation again, a new message neither.
Hide(c) ==
    /\ version < MaxChanges
    /\ c \in Listed
    /\ hidden' = hidden \cup {c}
    /\ AnnounceRows
    /\ UNCHANGED <<log, joined, session, list, screen, aside, task, typing, inputs>>

(***************************************************************************)
(* Loading a timeline.                                                     *)
(***************************************************************************)
\* load_selected_timeline for conversation c, the task t free.
LoadSelectedTimeline(t, c) ==
    IF c = None
    THEN UNCHANGED <<loading, generation, task>>
    ELSE /\ generation < MaxLoads
         /\ Free(t)
         /\ generation' = generation + 1
         /\ loading' = TRUE
         /\ task' = [task EXCEPT ![t] = AskTimeline(c, generation + 1)]

\* The page before a message, the newest one for before = 0.
Page(c, before) ==
    LET end == IF before = 0 \/ before > Len(log[c]) THEN Len(log[c]) ELSE before - 1
    IN  {Message(c, n) : n \in {k \in 1 .. end : k > end - PageSize}}

\* page_next_cursor: only a full page has one, and it must move back.
PageNextCursor(page, before) ==
    IF Cardinality(page) < PageSize THEN 0
    ELSE LET first == CHOOSE n \in {m.n : m \in page} : \A m \in page : n <= m.n
         IN  IF before = 0 \/ first < before THEN first ELSE 0

ReadPage(t) ==
    /\ task[t].kind \in {"Timeline", "Older"} /\ task[t].at = "Asked"
    /\ signedIn /\ task[t].conv \in joined
    /\ LET before == IF task[t].kind = "Older" THEN task[t].before ELSE 0
           page == Page(task[t].conv, before)
       IN  task' = [task EXCEPT ![t] = [kind |-> @.kind, at |-> "Read", conv |-> @.conv, gen |-> @.gen,
                                        page |-> page, next |-> PageNextCursor(page, before)]]
    /\ UNCHANGED <<server, feed, session, list, screen, aside, typing, mishaps, inputs>>

\* Mutant: the selection is not compared.
StillWantedIfNewest(r) == generation = r.gen

\* still_selected and the generation: whether an answer is for what the window shows now.
StillWanted(r) == generation = r.gen /\ selected = r.conv

\* The event of the last change of message n of c waits.
Waits(c, n) == \E i \in 1 .. Len(events) : events[i] = Message(c, n)

\* An event about message n of c waits, of its last change or of an earlier one.
Mentioned(c, n) == \E i \in 1 .. Len(events) : events[i].conv = c /\ events[i].n = n

\* With the page on the screen message n is shown as it is, or it is older than the page.
Covers(r, n) == Message(r.conv, n) \in r.page \/ (r.page # {} /\ \A p \in r.page : n < p.n)

\* Behind the page: it was read before the change of a message whose event was handled or lost.
Behind(r) == {<<r.conv, n>> : n \in {k \in InLog(r.conv) : ~Covers(r, k) /\ ~Waits(r.conv, k)}}

ApplyTimeline(t) ==
    /\ Is(t, "Timeline", "Read")
    /\ task' = [task EXCEPT ![t] = Idle]
    /\ IF StillWanted(task[t])
       THEN /\ loading' = FALSE
            /\ shown' = task[t].page
            /\ cursor' = task[t].next
            /\ mishaps' = mishaps \ {"Moved", "Failed"}
            /\ missed' = {x \in missed : x[1] = task[t].conv => Mentioned(x[1], x[2])}
                         \cup Behind(task[t])
       ELSE UNCHANGED <<loading, shown, cursor, mishaps, missed>>
    /\ UNCHANGED <<server, events, session, list, selected, older, generation, aside, typing, inputs>>

\* What the local store can hold of a conversation: messages as they are or as they were once.
Cacheable(c) == {m \in Messages : m.conv = c /\ m.n \in InLog(c) /\ m.status \in {"Sent", log[c][m.n]}}

\* The request fails: the cached messages of the conversation are shown, if there are any.
TimelineFails(t, cached) ==
    /\ task[t].kind = "Timeline"
    /\ \A m1, m2 \in cached : m1.n = m2.n => m1 = m2
    /\ task' = [task EXCEPT ![t] = Idle]
    /\ IF StillWanted(task[t])
       THEN /\ loading' = FALSE
            /\ mishaps' = mishaps \cup {"Failed"}
            /\ IF cached = {} THEN UNCHANGED <<shown, cursor>>
                              ELSE shown' = cached /\ cursor' = 0
       ELSE UNCHANGED <<loading, shown, cursor, mishaps>>
    /\ UNCHANGED <<server, feed, session, list, selected, older, generation, aside, typing, inputs>>

LoadOlderMessages(t) ==
    /\ ~loading /\ ~older /\ cursor # 0 /\ selected # None
    /\ Free(t)
    /\ older' = TRUE
    /\ task' = [task EXCEPT ![t] = AskOlder(selected, generation, cursor)]
    /\ UNCHANGED <<server, feed, session, list, selected, shown, cursor, loading, generation,
                   aside, typing, mishaps, inputs>>

\* Mutant of Prepended: the page replaces what is on the screen.
PrependedOver(page) == page \cup {m \in shown : \A p \in page : <<p.conv, p.n>> # <<m.conv, m.n>>}

\* prepend_timeline keeps what is on the screen where a message is in both.
Prepended(page) == shown \cup {m \in page : \A s \in shown : <<s.conv, s.n>> # <<m.conv, m.n>>}

ApplyOlder(t) ==
    /\ Is(t, "Older", "Read")
    /\ task' = [task EXCEPT ![t] = Idle]
    /\ IF StillWanted(task[t])
       THEN /\ older' = FALSE
            /\ shown' = Prepended(task[t].page)
            /\ cursor' = task[t].next
       ELSE UNCHANGED <<older, shown, cursor>>
    /\ UNCHANGED <<server, feed, session, list, selected, loading, generation, aside, typing, mishaps, inputs>>

OlderFails(t) ==
    /\ task[t].kind = "Older"
    /\ task' = [task EXCEPT ![t] = Idle]
    /\ older' = IF StillWanted(task[t]) THEN FALSE ELSE older
    /\ UNCHANGED <<server, feed, session, list, selected, shown, cursor, loading, generation,
                   aside, typing, mishaps, inputs>>

(***************************************************************************)
(* Selecting a conversation, and the composer.                             *)
(***************************************************************************)
\* persist_current_draft: into the bootstrap at once, to the local store and the server behind.
\* Saves pass each other and a list answer brings back what the server had when it was read, so
\* which of the texts saved for a conversation is its draft later on is left open.
Persisted ==
    IF selected = None \/ composer = None THEN drafts
    ELSE [drafts EXCEPT ![selected] = @ \cup {composer}]

\* Mutant of DraftOf: the text stays where it is.
DraftKept(c) == {composer}

\* What may be in the composer after conversation c is selected.
DraftOf(c) == Persisted[c] \cup {None}

SelectConversation(t, c) ==
    /\ signedIn /\ c \in list.rows
    /\ drafts' = Persisted
    /\ composer' \in DraftOf(c)
    /\ selected' = c
    /\ cursor' = 0 /\ older' = FALSE
    /\ panel' = {}
    /\ LoadSelectedTimeline(t, c)
    /\ sending' = FALSE
    /\ mishaps' = mishaps \ {"Panel", "Away"}
    /\ UNCHANGED <<server, feed, session, list, shown, busy, inputs>>

Type ==
    /\ signedIn /\ selected # None /\ composer = None
    /\ Input
    /\ composer' = selected
    /\ UNCHANGED <<server, feed, session, list, screen, aside, task, drafts, mishaps>>

\* send_composer empties the composer; what becomes of the message is module Outbox.
SendComposer ==
    /\ signedIn /\ selected # None /\ composer # None
    /\ composer' = None
    /\ UNCHANGED <<server, feed, session, list, screen, aside, task, drafts, mishaps, inputs>>

\* schedule_draft_save: half a second after the last keystroke.
SaveDraft ==
    /\ signedIn /\ Persisted # drafts
    /\ drafts' = Persisted
    /\ UNCHANGED <<server, feed, session, list, screen, aside, task, composer, mishaps, inputs>>

(***************************************************************************)
(* Events.                                                                 *)
(***************************************************************************)
\* apply_realtime_message: replaces the message or adds it, in the selected conversation only.
WithMessage(e) ==
    IF e.conv = selected /\ e.conv \in list.rows
    THEN {m \in shown : <<m.conv, m.n>> # <<e.conv, e.n>>} \cup {e}
    ELSE shown

HandleMessageEvent ==
    /\ signedIn /\ events # <<>> /\ Head(events).conv # None
    /\ events' = Tail(events)
    /\ shown' = WithMessage(Head(events))
    /\ UNCHANGED <<server, missed, session, list, selected, cursor, loading, older, generation, aside, task,
                   typing, mishaps, inputs>>

\* Mutant: not while a list is on its way.
RefreshOnce(t) ==
    IF \E t2 \in Tasks : task[t2].kind = "List" THEN UNCHANGED task
    ELSE Free(t) /\ task' = [task EXCEPT ![t] = AskList(selected)]

\* refresh_bootstrap remembers the selection of now.
RefreshBootstrap(t) == Free(t) /\ task' = [task EXCEPT ![t] = AskList(selected)]

HandleOtherEvent(t) ==
    /\ signedIn /\ events # <<>> /\ Head(events).conv = None
    /\ events' = Tail(events)
    /\ RefreshBootstrap(t)
    /\ UNCHANGED <<server, missed, session, list, screen, aside, typing, mishaps, inputs>>

(***************************************************************************)
(* The conversation list.                                                  *)
(***************************************************************************)
ReadList(t) ==
    /\ Is(t, "List", "Asked") /\ signedIn
    /\ task' = [task EXCEPT ![t] = [kind |-> "List", at |-> "Read", keep |-> @.keep, rows |-> Listed,
                                    version |-> version]]
    /\ UNCHANGED <<server, feed, session, list, screen, aside, typing, mishaps, inputs>>

\* The row at index 0: pinned and then in the order of the server.
First(rows) == IF rows = {} THEN {None} ELSE rows

\* The answer of refresh_bootstrap selects what was selected when it was asked for.
Reselected(r) == IF r.keep \in r.rows THEN {r.keep} ELSE First(r.rows)

ApplyList(t, c) ==
    /\ Is(t, "List", "Read")
    /\ c \in Reselected(task[t])
    /\ task' = [task EXCEPT ![t] = Idle]
    /\ list' = [rows |-> task[t].rows, version |-> task[t].version]
    /\ selected' = c
    /\ mishaps' = (IF signedIn /\ task[t].version = version THEN mishaps \ {"Stale"} ELSE mishaps)
                  \cup (IF c # selected THEN {"Moved", "Away"} ELSE {})
                  \cup (IF c # selected /\ composer # None THEN {"Displaced"} ELSE {})
                  \cup (IF c # selected /\ panel # {} THEN {"Panel"} ELSE {})
                  \cup (IF signedIn /\ task[t].version < list.version THEN {"Stale"} ELSE {})
    /\ UNCHANGED <<server, feed, session, timeline, aside, typing, inputs>>

ListFails(t) ==
    /\ task[t].kind = "List"
    /\ task' = [task EXCEPT ![t] = Idle]
    /\ mishaps' = IF signedIn THEN mishaps \cup {"Stale"} ELSE mishaps
    /\ UNCHANGED <<server, feed, session, list, screen, aside, typing, inputs>>

(***************************************************************************)
(* The details panel of a group, and the actions of the user.              *)
(***************************************************************************)
\* toggle_conversation_details and load_group_details.
OpenDetails(t) ==
    /\ signedIn /\ selected # None /\ Free(t)
    /\ Input
    /\ panel' = {}
    /\ mishaps' = mishaps \ {"Panel"}
    /\ task' = [task EXCEPT ![t] = AskDetails(selected)]
    /\ UNCHANGED <<server, feed, session, list, screen, busy, sending, typing>>

CloseDetails ==
    /\ panel # {}
    /\ panel' = {}
    /\ mishaps' = mishaps \ {"Panel"}
    /\ UNCHANGED <<server, feed, session, list, screen, busy, sending, task, typing, inputs>>

\* The details of group c are put into the panel only while c is selected; they may fail to load.
PanelWants(c) == c = selected /\ c \in list.rows

ApplyDetails(t) ==
    /\ task[t].kind = "Details"
    /\ task' = [task EXCEPT ![t] = Idle]
    /\ panel' \in {panel, IF PanelWants(task[t].conv) THEN {task[t].conv} ELSE panel}
    /\ UNCHANGED <<server, feed, session, list, screen, busy, sending, typing, mishaps, inputs>>

\* An action on the selected group (its answer goes into the panel), on the settings of the selected
\* conversation or on a contact (their answer asks for the list again).  Those on contacts do not
\* test action_busy, so that several can be under way.
StartAction(t, kind) ==
    /\ signedIn
    /\ Input
    /\ kind \in {"Group", "Settings"} => ~busy /\ selected # None
    /\ Free(t)
    /\ busy' = TRUE
    /\ task' = [task EXCEPT ![t] = AskAction(IF kind = "Group" THEN "Group" ELSE "Contact", selected)]
    /\ UNCHANGED <<server, feed, session, list, screen, panel, sending, typing, mishaps>>

\* The answer of a group action is not compared with the selection of now.
GroupAnswer(t) ==
    /\ task[t].kind = "Group"
    /\ busy' = FALSE
    /\ task' = [task EXCEPT ![t] = Idle]
    /\ panel' = panel \cup {task[t].conv}
    /\ mishaps' = mishaps \cup (IF task[t].conv # selected THEN {"Panel"} ELSE {})
    /\ UNCHANGED <<server, feed, session, list, screen, sending, typing, inputs>>

\* Renaming, members and roles go to the row of the group; decisions and votes to what they are
\* about, if it is still in the panel.
RowAnswer(t) ==
    /\ task[t].kind = "Group"
    /\ busy' = FALSE
    /\ task' = [task EXCEPT ![t] = Idle]
    /\ UNCHANGED <<server, feed, session, list, screen, panel, sending, typing, mishaps, inputs>>

\* leave_or_disband_group closes the panel, whatever it shows by now.
LeaveAnswer(t) ==
    /\ task[t].kind = "Group"
    /\ busy' = FALSE
    /\ panel' = {}
    /\ mishaps' = mishaps \ {"Panel"}
    /\ task' = [task EXCEPT ![t] = AskList(selected)]
    /\ UNCHANGED <<server, feed, session, list, screen, sending, typing, inputs>>

ContactAnswer(t) ==
    /\ task[t].kind = "Contact"
    /\ busy' = FALSE
    /\ task' = [task EXCEPT ![t] = AskList(selected)]
    /\ UNCHANGED <<server, feed, session, list, screen, panel, sending, typing, mishaps, inputs>>

ActionFails(t) ==
    /\ task[t].kind \in {"Group", "Contact"}
    /\ busy' = FALSE
    /\ task' = [task EXCEPT ![t] = Idle]
    /\ UNCHANGED <<server, feed, session, list, screen, panel, sending, typing, mishaps, inputs>>

(***************************************************************************)
(* Actions on a message.  The buttons are off while message_action_busy is *)
(* set, but selecting a conversation, a sign-in and a sign-out reset it    *)
(* with the action under way, and then a second one can be started.        *)
(***************************************************************************)
\* confirm_or_recall_message, forward_message_to: of a message on the screen, into c.
StartMessageAction(t, m) ==
    /\ signedIn /\ shown # {}
    /\ Free(t) /\ ~sending
    /\ Input
    /\ sending' = TRUE
    /\ task' = [task EXCEPT ![t] = AskMessage(m)]
    /\ UNCHANGED <<server, feed, session, list, screen, panel, busy, typing, mishaps>>

StartRecall(t) == \E m \in shown : m.status = "Sent" /\ StartMessageAction(t, m)

StartForward(t, c) == c \in list.rows /\ StartMessageAction(t, [conv |-> c, n |-> 0, status |-> "Sent"])

\* The server recalls the message, or appends the forwarded one; its answer is that message.
ServeMessageAction(t) ==
    LET m == task[t].message
        new == IF m.n = 0 THEN [m EXCEPT !.n = Len(log[m.conv]) + 1] ELSE [m EXCEPT !.status = "Recalled"]
    IN  /\ Is(t, "Message", "Asked") /\ signedIn /\ m.conv \in joined
        /\ m.n # 0 => log[m.conv][m.n] = "Sent"
        /\ log' = [log EXCEPT ![m.conv] = IF m.n = 0 THEN Append(@, "Sent")
                                                      ELSE [@ EXCEPT ![m.n] = "Recalled"]]
        /\ Announce(new)
        /\ task' = [task EXCEPT ![t] = [kind |-> "Message", at |-> "Read", message |-> new]]
        /\ UNCHANGED <<joined, hidden, version, session, list, screen, aside, typing, mishaps, inputs>>

\* Both apply the message of the answer like one of an event.
MessageAnswer(t) ==
    /\ Is(t, "Message", "Read")
    /\ task' = [task EXCEPT ![t] = Idle]
    /\ shown' = WithMessage(task[t].message)
    /\ sending' = FALSE
    /\ LET m == task[t].message
           undone == m.conv = selected /\ m # Message(m.conv, m.n) /\ ~Waits(m.conv, m.n)
       IN  missed' = missed \cup (IF undone THEN {<<m.conv, m.n>>} ELSE {})
    /\ UNCHANGED <<server, events, session, list, selected, cursor, loading, older, generation, panel, busy,
                   typing, mishaps, inputs>>

MessageActionFails(t) ==
    /\ task[t].kind = "Message"
    /\ sending' = FALSE
    /\ task' = [task EXCEPT ![t] = Idle]
    /\ UNCHANGED <<server, feed, session, list, screen, panel, busy, typing, mishaps, inputs>>

(***************************************************************************)
(* Signing in and out.                                                     *)
(***************************************************************************)
\* The server reads the bootstrap of a sign-in in parts, each under a lock of its own.
ReadConversations ==
    /\ ~signedIn /\ bootstrap.at = "None"
    /\ bootstrap' = [at |-> "List", rows |-> Listed, version |-> version]
    /\ UNCHANGED <<server, feed, signedIn, list, screen, aside, task, typing, inputs, mishaps>>

\* The cursor comes last: what changed since the list was read is told by no event.
ReadCursor ==
    /\ bootstrap.at = "List"
    /\ bootstrap' = [bootstrap EXCEPT !.at = "Cursor"]
    /\ events' = <<>> /\ missed' = {}
    /\ mishaps' = IF bootstrap.version = version THEN mishaps \ {"Stale"} ELSE mishaps \cup {"Stale"}
    /\ UNCHANGED <<server, signedIn, list, screen, aside, task, typing, inputs>>

SignInFails ==
    /\ bootstrap.at # "None"
    /\ bootstrap' = NoBootstrap
    /\ events' = <<>> /\ missed' = {}
    /\ UNCHANGED <<server, signedIn, list, screen, aside, task, typing, inputs, mishaps>>

\* apply_bootstrap: the list read at sign-in, its first row selected and loaded (the increment of
\* the generation it makes itself is one with that of the load).
SignIn(t, c) ==
    /\ bootstrap.at = "Cursor"
    /\ c \in First(bootstrap.rows)
    /\ signedIn' = TRUE
    /\ bootstrap' = NoBootstrap
    /\ list' = [rows |-> bootstrap.rows, version |-> bootstrap.version]
    /\ selected' = c
    /\ shown' = {} /\ cursor' = 0 /\ older' = FALSE
    /\ LoadSelectedTimeline(t, c)
    /\ panel' = {} /\ sending' = FALSE
    /\ mishaps' = mishaps \cap {"Displaced", "Stale"}
    /\ UNCHANGED <<server, feed, busy, typing, inputs>>

SignOut ==
    /\ signedIn
    /\ signedIn' = FALSE
    /\ list' = DemoList /\ selected' = None
    /\ shown' = {} /\ cursor' = 0 /\ loading' = FALSE /\ older' = FALSE
    /\ generation < MaxLoads /\ generation' = generation + 1
    /\ events' = <<>> /\ missed' = {}
    /\ panel' = {} /\ sending' = FALSE
    /\ mishaps' = (mishaps \ {"Panel"}) \cup (IF composer # None THEN {"Displaced"} ELSE {})
    /\ UNCHANGED <<server, bootstrap, busy, task, typing, inputs>>

Next ==
    \/ \E c \in Conversations : Post(c) \/ MembershipChanges(c) \/ Hide(c) \/ \E n \in Numbers : Recall(c, n)
    \/ Type \/ SendComposer \/ SaveDraft \/ HandleMessageEvent \/ CloseDetails
    \/ ReadConversations \/ ReadCursor \/ SignInFails \/ SignOut
    \/ \E t \in Tasks :
        \/ ReadPage(t) \/ ApplyTimeline(t) \/ LoadOlderMessages(t) \/ ApplyOlder(t) \/ OlderFails(t)
        \/ OpenDetails(t) \/ ApplyDetails(t) \/ GroupAnswer(t) \/ ContactAnswer(t) \/ ActionFails(t)
        \/ RowAnswer(t) \/ LeaveAnswer(t)
        \/ StartRecall(t) \/ ServeMessageAction(t) \/ MessageAnswer(t) \/ MessageActionFails(t)
        \/ \E kind \in {"Group", "Settings", "Contact"} : StartAction(t, kind)
        \/ HandleOtherEvent(t) \/ ReadList(t) \/ ListFails(t)
        \/ task[t].kind = "Timeline" /\ \E cached \in SUBSET Cacheable(task[t].conv) : TimelineFails(t, cached)
        \/ \E c \in Conversations : SelectConversation(t, c) \/ StartForward(t, c)
        \/ \E c \in Texts : ApplyList(t, c) \/ SignIn(t, c)

Spec == Init /\ [][Next]_vars

(***************************************************************************)
(* Properties.                                                             *)
(***************************************************************************)
\* Every message on the screen is of the selected conversation, unless a list answer moved the
\* selection or the conversation could not be loaded: no answer of load_selected_timeline or
\* load_older_messages, however late, puts messages of one conversation under another.  The details
\* panel shows the selected group, unless the list moved the selection or the answer of a group
\* action came after another conversation was selected.
ShownBelongs ==
    /\ ~loading /\ mishaps \cap {"Moved", "Failed"} = {} => \A m \in shown : m.conv = selected
    /\ "Panel" \notin mishaps => panel \subseteq {selected}

\* What docs/ACCEPTANCE_CRITERIA.md:23 asks for: an outdated answer does not replace what was
\* selected since.  It does not hold: refresh_bootstrap selects again, without loading its messages,
\* the conversation that was selected when the list was asked for.
OutdatedAnswersLose ==
    signedIn /\ ~loading /\ "Failed" \notin mishaps => \A m \in shown : m.conv = selected

\* Once the events are handled the newest message of the selected conversation is on the screen and
\* every message there has its present content, unless the conversation could not be loaded or the
\* list moved the selection.  Excused are, one by one, the messages whose last change no event told
\* this window (the account was not a member, the event was lost), or whose change was undone by a
\* page or an answer read before and applied after it.
ShownIsCurrent ==
    (signedIn /\ selected # None /\ ~loading /\ events = <<>> /\ mishaps \cap {"Away", "Failed"} = {})
    => /\ \A m \in shown : m = Message(selected, m.n) \/ <<selected, m.n>> \in missed
       /\ LET last == Len(log[selected])
          IN  last # 0 => Message(selected, last) \in shown \/ <<selected, last>> \in missed

\* A text stays with the conversation it was typed in, as text of the composer and as draft, unless
\* the selection was changed under it by a list answer or a sign-in.
TextStaysHome ==
    "Displaced" \notin mishaps => /\ composer \in {None, selected}
                                  /\ \A c \in Conversations : drafts[c] \subseteq {c}

\* When no list is on its way and the events are handled, the rows are the conversations the account
\* is in and has not hidden, unless since the last answer read after every change a list request
\* failed, its answer came after that of a later request, or a change was told by no event.
ListIsCurrent ==
    (signedIn /\ events = <<>> /\ \A t \in Tasks : task[t].kind # "List") /\ "Stale" \notin mishaps
    => list.rows = Listed
=============================================================================
