-------------------------------- MODULE Outbox ---------------------------------
(***************************************************************************)
(* How a message gets from the composer of a desktop client to the server: *)
(* the local store's message cache and outbox, the threads that send       *)
(* (send_pending_message, one per composed message, and flush_ready_outbox *)
(* for what is left behind), the interface that starts them, and           *)
(* send_message_in_store, which takes each client_message_id of a user     *)
(* once.  Every statement or transaction of the store is a step, and a     *)
(* request is one step at the server and others at the client.             *)
(*                                                                         *)
(* A message is represented by its client_message_id; all belong to one    *)
(* conversation, which every user here may write to.                       *)
(***************************************************************************)
EXTENDS Naturals, Sequences, FiniteSets

CONSTANTS
    Users,         \* accounts that sign in on this computer
    Messages,      \* messages they may compose
    Flushers,      \* threads that run flush_ready_outbox
    None,          \* absence of a user or message
    MaxMishaps     \* bound on what does not go by itself: lost requests and answers,
                   \* refusals, lost connections, sessions and keys, logouts, restarts,
                   \* cleared caches, messages retried or discarded by hand

ASSUME NoneAssumption ==
    None \notin Users \cup Messages \cup Flushers /\ Messages \cap Flushers = {}
ASSUME BoundsAssumption == MaxMishaps \in Nat

VARIABLES
    log,          \* the conversation at the server, in order of sequence
    late,         \* requests their sender has given up, still on their way
    row,          \* the store has the conversation both tables refer to
    cache,        \* cache[m]: status of m in cached_messages
    outbox,       \* outbox[m]: row of m in outbox
    stray,        \* rows of the outbox written with a key that was out of date
    pc,           \* pc[th]: what a sending thread does next
    item,         \* item[th]: message the thread is at
    user,         \* user[th]: account its request was sent for
    batch,        \* batch[f]: what ready_outbox returned, less what is done
    report,       \* report[f]: sent and retrying messages, and the one to retry
    account,      \* account signed in
    session,      \* "Live": it has an access token; "Stored": only the credential
                  \* store has a session; "Ended": neither
    online,       \* connection state of the interface
    shown,        \* shown[m]: status of m in the interface
    flushing,     \* outbox_flushing
    busy,         \* message_action_busy
    timers,       \* flush timers of the current generation
    discarding,   \* messages being discarded
    author,       \* author[m]: who composed m
    queued,       \* messages that have been in the outbox
    dropped,      \* messages discarded, or cleared with the cache
    mishaps       \* how many there have been

netVars == <<log, late>>
storeVars == <<row, cache, outbox, stray>>
threadVars == <<pc, item, user, batch, report>>
screenVars == <<account, session, online, shown, flushing, busy, timers, discarding>>
pastVars == <<author, queued, dropped>>
vars == <<netVars, storeVars, threadVars, screenVars, pastVars, mishaps>>

Threads == Messages \cup Flushers

CacheStatus == {"None", "Pending", "Failed", "Sent"}
OutboxStatus == {"None", "Ready", "Delayed"}
ShownStatus == {"None", "Sending", "Failed", "Waiting", "Retrying", "Sent"}
Steps == {"Idle", "Cache", "Enqueue", "RetryNow", "Select", "Next", "Send", "Requested",
          "Accepted", "Refused", "Load", "MarkSent", "Acknowledge", "MarkFailed",
          "Record", "ReportSent", "ReportFailed", "Report"}

Report == [sent : SUBSET Messages, retrying : SUBSET Messages, wanted : Messages \cup {None}]
NoReport == [sent |-> {}, retrying |-> {}, wanted |-> None]

Mishap == mishaps < MaxMishaps /\ mishaps' = mishaps + 1

Entry(m, u) == [id |-> m, sender |-> u]
Entries == {log[i] : i \in 1..Len(log)}
OnServer(m) == \E e \in Entries : e.id = m

Goto(th, s) == pc' = [pc EXCEPT ![th] = s]

End(th) ==
    /\ Goto(th, "Idle")
    /\ item' = [item EXCEPT ![th] = None]
    /\ user' = [user EXCEPT ![th] = None]

\* Where a thread goes on after its request: a sender has the message in its
\* hands, a flusher has to load it, and only a sender marks it failed.
OnSuccess(th) == IF th \in Flushers THEN "Load" ELSE "MarkSent"

\* Mutant of OnFailure: an error is taken for an acknowledgement.
OnFailureAsSuccess(th) == OnSuccess(th)

OnFailure(th) == IF th \in Flushers THEN "Record" ELSE "MarkFailed"

--------------------------------------------------------------------------------
(***************************************************************************)
(* The server and the network                                              *)
(***************************************************************************)

\* Mutant of Insert: retries are not recognised.
InsertAlways(m, u) == log' = Append(log, Entry(m, u))

\* send_message_in_store: a known (actor, client_message_id) is answered with
\* the sequence it has, anything else is appended.
Insert(m, u) ==
    log' = IF Entry(m, u) \in Entries THEN log ELSE Append(log, Entry(m, u))

\* What becomes of the request of th is decided.
Answered(th, s) == Goto(th, s) /\ user' = [user EXCEPT ![th] = None]

Serve(th) ==
    /\ pc[th] = "Requested"
    /\ Insert(item[th], user[th])
    /\ Answered(th, "Accepted")
    /\ UNCHANGED <<late, storeVars, item, batch, report, screenVars, pastVars, mishaps>>

\* The server answers with an error and has done nothing.
Refuse(th) ==
    /\ pc[th] = "Requested"
    /\ Mishap
    /\ Answered(th, OnFailure(th))
    /\ UNCHANGED <<netVars, storeVars, item, batch, report, screenVars, pastVars>>

Receive(th) ==
    /\ pc[th] = "Accepted"
    /\ Goto(th, OnSuccess(th))
    /\ UNCHANGED <<netVars, storeVars, item, user, batch, report, screenVars, pastVars, mishaps>>

\* The time limit passes, before the server has seen the request or after.
TimeOut(th) ==
    /\ pc[th] \in {"Requested", "Accepted"}
    /\ Mishap
    /\ late' = IF pc[th] = "Requested"
               THEN late \cup {Entry(item[th], user[th])} ELSE late
    /\ Answered(th, OnFailure(th))
    /\ UNCHANGED <<log, storeVars, item, batch, report, screenVars, pastVars>>

\* A request nobody waits for reaches the server, or gets lost.
ServeLate ==
    /\ \E e \in late :
         /\ late' = late \ {e}
         /\ Insert(e.id, e.sender) \/ UNCHANGED log
    /\ UNCHANGED <<storeVars, threadVars, screenVars, pastVars, mishaps>>

--------------------------------------------------------------------------------
(***************************************************************************)
(* The steps of send_pending_message and flush_ready_outbox                *)
(***************************************************************************)

\* cache_messages: without the conversation's row the foreign key refuses it.
SetCache(m, status) == cache' = IF row THEN [cache EXCEPT ![m] = status] ELSE cache

CachePending(th) ==
    /\ pc[th] = "Cache"
    /\ SetCache(th, "Pending")
    /\ Goto(th, "Enqueue")
    /\ UNCHANGED <<netVars, row, outbox, stray, item, user, batch, report, screenVars, pastVars, mishaps>>

\* A message that cannot be queued is sent all the same.  If the store's key
\* changes in between, the row is left under the old one (LocalCache).
Enqueue(th) ==
    /\ pc[th] = "Enqueue"
    /\ outbox' = IF row THEN [outbox EXCEPT ![th] = "Ready"] ELSE outbox
    /\ queued' = IF row THEN queued \cup {th} ELSE queued
    /\ \/ UNCHANGED <<stray, mishaps>>
       \/ row /\ Mishap /\ stray' = stray \cup {th}
    /\ Goto(th, "Send")
    /\ UNCHANGED <<netVars, row, cache, item, user, batch, report, screenVars, author, dropped>>

\* The request carries the token of whoever is signed in now; authorized_json
\* sends none without a token.
Send(th) ==
    /\ pc[th] = "Send"
    /\ IF session = "Live"
       THEN Goto(th, "Requested") /\ user' = [user EXCEPT ![th] = account]
       ELSE Goto(th, OnFailure(th)) /\ UNCHANGED user
    /\ UNCHANGED <<netVars, storeVars, item, batch, report, screenVars, pastVars, mishaps>>

MarkSent(th) ==
    /\ pc[th] = "MarkSent"
    /\ SetCache(item[th], "Sent")
    /\ Goto(th, "Acknowledge")
    /\ UNCHANGED <<netVars, row, outbox, stray, item, user, batch, report, screenVars, pastVars, mishaps>>

MarkFailed(th) ==
    /\ pc[th] = "MarkFailed"
    /\ SetCache(th, "Failed")
    /\ Goto(th, "Record")
    /\ UNCHANGED <<netVars, row, outbox, stray, item, user, batch, report, screenVars, pastVars, mishaps>>

\* The outbox row of a message is settled; a flusher notes it in its report.
Settle(th, status, kind, last) ==
    /\ outbox' = [outbox EXCEPT ![item[th]] = status]
    /\ IF th \in Flushers
       THEN /\ report' = [report EXCEPT ![th][kind] = @ \cup {item[th]}]
            /\ Goto(th, "Next")
       ELSE Goto(th, last) /\ UNCHANGED report
    /\ UNCHANGED <<netVars, row, cache, stray, item, user, batch, screenVars, pastVars, mishaps>>

Acknowledge(th) ==
    pc[th] = "Acknowledge" /\ Settle(th, "None", "sent", "ReportSent")

\* Mutant of Record: a message that could not be sent leaves the outbox.
RecordDropping(th) ==
    pc[th] = "Record" /\ Settle(th, "None", "retrying", "ReportFailed")

\* Mutant of Record: the row is written whether it exists or not.
RecordInserting(th) ==
    pc[th] = "Record" /\ Settle(th, "Delayed", "retrying", "ReportFailed")

\* record_outbox_failure delays the next attempt, if the row still exists.
Record(th) ==
    /\ pc[th] = "Record"
    /\ Settle(th, IF outbox[item[th]] = "None" THEN "None" ELSE "Delayed",
              "retrying", "ReportFailed")

\* The status of a message the interface lists is replaced.
Show(m, status) ==
    shown' = [shown EXCEPT ![m] = IF @ = "None" THEN @ ELSE status]

\* The callback of a sender's thread.
Sent(th) ==
    /\ pc[th] \in {"ReportSent", "ReportFailed"}
    /\ Show(th, IF pc[th] = "ReportSent" THEN "Sent" ELSE "Failed")
    /\ End(th)
    /\ UNCHANGED <<netVars, storeVars, batch, report, account, session, online, flushing, busy,
                   timers, discarding, pastVars, mishaps>>

\* retry_outbox_now, before the flush of a retry.
RetryNow(f) ==
    /\ pc[f] = "RetryNow"
    /\ LET m == report[f].wanted
       IN  IF outbox[m] = "None"
           THEN Goto(f, "Report") /\ UNCHANGED outbox
           ELSE Goto(f, "Select") /\ outbox' = [outbox EXCEPT ![m] = "Ready"]
    /\ UNCHANGED <<netVars, row, cache, stray, item, user, batch, report, screenVars, pastVars, mishaps>>

\* ready_outbox fails as a whole when it cannot decrypt one of the rows.
Select(f) ==
    /\ pc[f] = "Select"
    /\ LET ready == {m \in Messages : outbox[m] = "Ready"}
       IN  batch' = [batch EXCEPT ![f] = IF ready \cap stray = {} THEN ready ELSE {}]
    /\ Goto(f, "Next")
    /\ UNCHANGED <<netVars, storeVars, item, user, report, screenVars, pastVars, mishaps>>

Advance(f) ==
    /\ pc[f] = "Next"
    /\ IF batch[f] = {}
       THEN Goto(f, "Report") /\ UNCHANGED <<item, batch>>
       ELSE \E m \in batch[f] :
              /\ item' = [item EXCEPT ![f] = m]
              /\ batch' = [batch EXCEPT ![f] = @ \ {m}]
              /\ Goto(f, "Send")
    /\ UNCHANGED <<netVars, storeVars, user, report, screenVars, pastVars, mishaps>>

\* Only a pending or failed message can be marked sent.
Load(f) ==
    /\ pc[f] = "Load"
    /\ Goto(f, IF cache[item[f]] \in {"Pending", "Failed"} THEN "MarkSent" ELSE "Acknowledge")
    /\ UNCHANGED <<netVars, storeVars, item, user, batch, report, screenVars, pastVars, mishaps>>

\* Mutant of Flushed: no timer is started.
FlushedWithoutTimer(f) ==
    /\ pc[f] = "Report"
    /\ LET r == report[f]
       IN  /\ shown' = [m \in Messages |->
                IF shown[m] = "None" THEN "None"
                ELSE IF m \in r.retrying THEN "Waiting"
                ELSE IF m \in r.sent THEN "Sent"
                ELSE IF m = r.wanted THEN "Failed"
                ELSE shown[m]]
           /\ busy' = IF r.wanted = None THEN busy ELSE None
    /\ flushing' = FALSE
    /\ timers' = timers
    /\ report' = [report EXCEPT ![f] = NoReport]
    /\ End(f)
    /\ UNCHANGED <<netVars, storeVars, batch, account, session, online, discarding, pastVars, mishaps>>

\* The callback of a flush or a retry: apply_outbox_report, and the next timer.
Flushed(f) ==
    /\ pc[f] = "Report"
    /\ LET r == report[f]
       IN  /\ shown' = [m \in Messages |->
                IF shown[m] = "None" THEN "None"
                ELSE IF m \in r.retrying THEN "Waiting"
                ELSE IF m \in r.sent THEN "Sent"
                ELSE IF m = r.wanted THEN "Failed"
                ELSE shown[m]]
           /\ busy' = IF r.wanted = None THEN busy ELSE None
    /\ flushing' = FALSE
    /\ timers' = timers + 1
    /\ report' = [report EXCEPT ![f] = NoReport]
    /\ End(f)
    /\ UNCHANGED <<netVars, storeVars, batch, account, session, online, discarding, pastVars, mishaps>>

--------------------------------------------------------------------------------
(***************************************************************************)
(* The interface                                                           *)
(***************************************************************************)

\* send_composer: the message is listed at once and a thread of its own sends it.
Compose(m) ==
    /\ account # None
    /\ author[m] = None
    /\ author' = [author EXCEPT ![m] = account]
    /\ shown' = [shown EXCEPT ![m] = "Sending"]
    /\ item' = [item EXCEPT ![m] = m]
    /\ Goto(m, "Cache")
    /\ UNCHANGED <<discarding, netVars, storeVars, user, batch, report, account, session, online, flushing,
                   busy, timers, queued, dropped, mishaps>>

\* The flusher a new flush runs on: which of the idle ones it is makes no difference.
Spare == CHOOSE f \in Flushers : \A g \in Flushers : pc[g] = "Idle" => pc[f] = "Idle"

\* A thread begins a flush, for the message wanted if there is one.
StartFlush(f, wanted) ==
    /\ f = Spare /\ pc[f] = "Idle"
    /\ report' = [report EXCEPT ![f] = [NoReport EXCEPT !.wanted = wanted]]
    /\ Goto(f, IF wanted = None THEN "Select" ELSE "RetryNow")
    /\ flushing' = TRUE
    /\ UNCHANGED <<discarding, netVars, storeVars, item, user, batch, account, session, pastVars>>

\* The realtime task reports a connection, which it needs a token for: timers
\* of the old state are void.
Connect ==
    /\ session = "Live"
    /\ ~online
    /\ online' = TRUE
    /\ timers' = 0
    /\ IF flushing
       THEN UNCHANGED <<discarding, netVars, storeVars, threadVars, account, session, flushing, pastVars>>
       ELSE \E f \in Flushers : StartFlush(f, None)
    /\ UNCHANGED <<shown, busy, mishaps>>

Disconnect ==
    /\ online
    /\ Mishap
    /\ online' = FALSE
    /\ timers' = 0
    /\ UNCHANGED <<discarding, netVars, storeVars, threadVars, account, session, shown, flushing, busy,
                   pastVars>>

\* A flush timer fires; it is lost when the client is offline or flushing.
TimerFires ==
    /\ timers > 0
    /\ timers' = timers - 1
    /\ IF flushing \/ ~online
       THEN UNCHANGED <<discarding, netVars, storeVars, threadVars, account, session, flushing, pastVars>>
       ELSE \E f \in Flushers : StartFlush(f, None)
    /\ UNCHANGED <<online, shown, busy, mishaps>>

\* next_attempt_at of a delayed row passes.
BackoffEnds(m) ==
    /\ outbox[m] = "Delayed"
    /\ outbox' = [outbox EXCEPT ![m] = "Ready"]
    /\ UNCHANGED <<netVars, row, cache, stray, threadVars, screenVars, pastVars, mishaps>>

\* Buttons the interface offers for a message that could not be sent.
Offered(m) ==
    /\ shown[m] \in {"Failed", "Waiting"}
    /\ ~flushing
    /\ busy = None
    /\ Mishap

Retry(m) ==
    /\ Offered(m)
    /\ online
    /\ busy' = m
    /\ shown' = [shown EXCEPT ![m] = "Retrying"]
    /\ \E f \in Flushers : StartFlush(f, m)
    /\ UNCHANGED <<online, timers>>

StartDiscard(m) ==
    /\ Offered(m)
    /\ busy' = m
    /\ discarding' = discarding \cup {m}
    /\ UNCHANGED <<netVars, storeVars, threadVars, account, session, online, shown, flushing,
                   timers, pastVars>>

\* discard_pending_message removes both rows, and the interface the message.
Discard(m) ==
    /\ m \in discarding
    /\ discarding' = discarding \ {m}
    /\ cache' = [cache EXCEPT ![m] = "None"]
    /\ outbox' = [outbox EXCEPT ![m] = "None"]
    /\ shown' = [shown EXCEPT ![m] = "None"]
    /\ busy' = None
    /\ dropped' = dropped \cup {m}
    /\ UNCHANGED <<netVars, row, stray, threadVars, account, session, online, flushing, timers, author,
                   queued, mishaps>>

\* A realtime event of the message reaches the interface ...
EventShown(m) ==
    /\ online
    /\ OnServer(m)
    /\ shown' = [shown EXCEPT ![m] = "Sent"]
    /\ UNCHANGED <<discarding, netVars, storeVars, threadVars, account, session, online, flushing, busy, timers,
                   pastVars, mishaps>>

\* ... and, from a task of its own, the cache.
EventCached(m) ==
    /\ OnServer(m)
    /\ SetCache(m, "Sent")
    /\ UNCHANGED <<netVars, row, outbox, stray, threadVars, screenVars, pastVars, mishaps>>

\* What the timeline shows of m once it is loaded, from the server or, without
\* it, from the cache alone.
Loaded(m, live) ==
    CASE live /\ OnServer(m) -> "Sent"
      [] cache[m] = "Pending" -> "Sending"
      [] cache[m] = "Failed" -> "Failed"
      [] cache[m] = "Sent" /\ ~live -> "Sent"
      [] OTHER -> "None"

\* The conversation is selected again and its timeline loaded.
Reload ==
    /\ account # None
    /\ \E live \in {FALSE} \cup {session = "Live"} : shown' = [m \in Messages |-> Loaded(m, live)]
    /\ busy' = None
    /\ UNCHANGED <<discarding, netVars, storeVars, threadVars, account, session, online, flushing, timers,
                   pastVars, mishaps>>

\* A request is answered 401 and the refresh token refused: the session is forgotten
\* everywhere, the window stays as it is.
SessionEnds ==
    /\ session = "Live"
    /\ Mishap
    /\ session' = "Ended"
    /\ UNCHANGED <<netVars, storeVars, threadVars, account, online, shown, flushing, busy,
                   timers, discarding, pastVars>>

\* clear_account_cache, on request of the user or after a logout.
ClearCache ==
    /\ Mishap
    /\ row' = FALSE
    /\ cache' = [m \in Messages |-> "None"]
    /\ outbox' = [m \in Messages |-> "None"]
    /\ dropped' = dropped \cup queued
    /\ UNCHANGED <<netVars, stray, threadVars, screenVars, author, queued>>

\* A bootstrap is stored: the tables have the conversation (again).
PersistBootstrap ==
    /\ session = "Live"
    /\ ~row
    /\ row' = TRUE
    /\ UNCHANGED <<netVars, cache, outbox, stray, threadVars, screenVars, pastVars, mishaps>>

\* By default a logout leaves the cache and the outbox as they are.
Logout ==
    /\ account # None
    /\ Mishap
    /\ account' = None
    /\ session' = "Ended"
    /\ online' = FALSE
    /\ shown' = [m \in Messages |-> "None"]
    /\ flushing' = FALSE
    /\ busy' = None
    /\ timers' = 0
    /\ UNCHANGED <<discarding, netVars, storeVars, threadVars, pastVars>>

Login(u) ==
    /\ account = None
    /\ account' = u
    /\ session' = "Live"
    /\ shown' = [m \in Messages |-> Loaded(m, TRUE)]
    /\ flushing' = FALSE
    /\ busy' = None
    /\ timers' = 0
    /\ UNCHANGED <<discarding, netVars, storeVars, threadVars, online, pastVars, mishaps>>

\* restore_session, when the process starts: with the server it obtains a token;
\* without it, it shows the stored bootstrap and has none; and if no session is
\* stored, it shows the sign-in form.
Restore ==
    \/ /\ session # "Ended"
       /\ session' = "Live" /\ UNCHANGED account
       /\ \E live \in BOOLEAN : shown' = [m \in Messages |-> Loaded(m, live)]
    \/ /\ session # "Ended" /\ row
       /\ session' = "Stored" /\ UNCHANGED account
       /\ shown' = [m \in Messages |-> Loaded(m, FALSE)]
    \/ /\ session = "Ended" /\ UNCHANGED session /\ account' = None
       /\ shown' = [m \in Messages |-> "None"]

\* The process ends, and starts again with the store it had.
Restart ==
    /\ account # None
    /\ Mishap
    /\ late' = late \cup {Entry(item[th], user[th]) :
                            th \in {t \in Threads : pc[t] = "Requested"}}
    /\ pc' = [th \in Threads |-> "Idle"]
    /\ item' = [th \in Threads |-> None]
    /\ user' = [th \in Threads |-> None]
    /\ batch' = [f \in Flushers |-> {}]
    /\ report' = [f \in Flushers |-> NoReport]
    /\ online' = FALSE
    /\ Restore
    /\ flushing' = FALSE
    /\ busy' = None
    /\ timers' = 0
    /\ discarding' = {}
    /\ UNCHANGED <<log, storeVars, pastVars>>

--------------------------------------------------------------------------------
\* The first user has signed in and the bootstrap is stored.
Init ==
    /\ log = <<>>
    /\ late = {}
    /\ row = TRUE
    /\ stray = {}
    /\ cache = [m \in Messages |-> "None"]
    /\ outbox = [m \in Messages |-> "None"]
    /\ pc = [th \in Threads |-> "Idle"]
    /\ item = [th \in Threads |-> None]
    /\ user = [th \in Threads |-> None]
    /\ batch = [f \in Flushers |-> {}]
    /\ report = [f \in Flushers |-> NoReport]
    /\ account \in Users
    /\ session = "Live"
    /\ online = FALSE
    /\ shown = [m \in Messages |-> "None"]
    /\ flushing = FALSE
    /\ busy = None
    /\ timers = 0
    /\ discarding = {}
    /\ author = [m \in Messages |-> None]
    /\ queued = {}
    /\ dropped = {}
    /\ mishaps = 0

SendStep(th) ==
    \/ Serve(th) \/ Receive(th) \/ Send(th) \/ MarkSent(th) \/ Acknowledge(th) \/ Record(th)

SenderStep(m) == CachePending(m) \/ Enqueue(m) \/ MarkFailed(m) \/ Sent(m)

FlusherStep(f) == RetryNow(f) \/ Select(f) \/ Advance(f) \/ Load(f) \/ Flushed(f)

Interface ==
    \/ \E m \in Messages : Compose(m) \/ Retry(m) \/ StartDiscard(m)
    \/ \E m \in Messages : EventShown(m) \/ EventCached(m)
    \/ Disconnect \/ SessionEnds \/ Reload \/ ClearCache \/ PersistBootstrap \/ Logout \/ Restart
    \/ \E u \in Users : Login(u)

Next ==
    \/ \E th \in Threads : SendStep(th) \/ Refuse(th) \/ TimeOut(th)
    \/ \E m \in Messages : SenderStep(m) \/ BackoffEnds(m) \/ Discard(m)
    \/ \E f \in Flushers : FlusherStep(f)
    \/ ServeLate \/ Connect \/ TimerFires
    \/ Interface

Spec == Init /\ [][Next]_vars

\* Threads and timers run, and the realtime task reconnects while it has a token.
Fairness ==
    /\ \A m \in Messages :
         /\ WF_vars(SendStep(m) \/ SenderStep(m))
         /\ WF_vars(BackoffEnds(m)) /\ WF_vars(Discard(m))
    /\ \A f \in Flushers : WF_vars(SendStep(f) \/ FlusherStep(f))
    /\ WF_vars(Connect) /\ WF_vars(TimerFires)

FairSpec == Spec /\ Fairness

--------------------------------------------------------------------------------
(***************************************************************************)
(* Properties                                                              *)
(***************************************************************************)

TypeOK ==
    /\ log \in Seq([id : Messages, sender : Users])
    /\ late \in SUBSET [id : Messages, sender : Users]
    /\ row \in BOOLEAN
    /\ cache \in [Messages -> CacheStatus]
    /\ outbox \in [Messages -> OutboxStatus]
    /\ pc \in [Threads -> Steps]
    /\ item \in [Threads -> Messages \cup {None}]
    /\ user \in [Threads -> Users \cup {None}]
    /\ batch \in [Flushers -> SUBSET Messages]
    /\ report \in [Flushers -> Report]
    /\ stray \in SUBSET Messages
    /\ account \in Users \cup {None}
    /\ session \in {"Live", "Stored", "Ended"}
    /\ online \in BOOLEAN
    /\ shown \in [Messages -> ShownStatus]
    /\ flushing \in BOOLEAN
    /\ busy \in Messages \cup {None}
    /\ timers \in Nat
    /\ discarding \in SUBSET Messages
    /\ author \in [Messages -> Users \cup {None}]
    /\ queued \in SUBSET Messages
    /\ dropped \in SUBSET Messages
    /\ mishaps \in Nat

\* However often a message is sent, by its own thread, by flushes, by requests
\* that arrive after their time limit and after restarts: a sender has it in
\* the conversation once.
EntriesUnique ==
    \A i, j \in 1..Len(log) : log[i] = log[j] => i = j

\* A message that was queued stays queued until the server has it, from whichever
\* account: no thread, flush, late answer, restart, logout or sign-in by somebody
\* else takes its row away before, unless the user discards it or clears the cache.
QueuedOrOnServer ==
    \A m \in queued \ dropped : outbox[m] # "None" \/ OnServer(m)

\* Neither the cache nor the interface ever takes a message for sent that the
\* server does not have.
SentIsOnServer ==
    \A m \in Messages : cache[m] = "Sent" \/ shown[m] = "Sent" => OnServer(m)

\* A message that was discarded is never queued again, whatever threads still
\* have it in their hands.
DiscardIsFinal ==
    [][\A m \in dropped : outbox[m] = "None" => outbox'[m] = "None"]_vars

\* A row of the outbox that no key of the store opens any more blocks them all.
Blocked == \E m \in stray : outbox[m] # "None"

\* A client that has a token empties its outbox without the user's help: every
\* connection, finished flush and retry leaves a flush or a timer behind, in
\* whatever order they overlap, and back-off ends.
OutboxDrains ==
    \A m \in Messages :
        outbox[m] # "None" ~> (outbox[m] = "None" \/ session # "Live" \/ Blocked)

\* docs/ACCEPTANCE_CRITERIA.md:22 says that the outbox loses nothing; what one account
\* composed is to reach the server as its own.
SentByAuthor ==
    \A m \in queued \ dropped : outbox[m] # "None" \/ Entry(m, author[m]) \in Entries

Quiet == discarding = {} /\ \A th \in Threads : pc[th] = "Idle"

\* What docs/ACCEPTANCE_CRITERIA.md says of a message that could not be sent:
\* it can be retried.
FailedCanBeRetried ==
    Quiet => \A m \in Messages : shown[m] = "Failed" => outbox[m] # "None"
================================================================================
