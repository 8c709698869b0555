------------------------------ MODULE OutboxProofs -----------------------------
(***************************************************************************)
(* Theorems about Outbox, for any accounts, messages, flushes and bounds.  *)
(*                                                                         *)
(* The properties speak of the tables, the interface and the server; the   *)
(* inductive invariant adds what the threads between them carry: a thread  *)
(* past its answer has a message that is at the server, and a message that *)
(* is not queued yet is in nobody else's hands.                            *)
(***************************************************************************)
EXTENDS Outbox, SequenceTheorems, TLAPS

\* The message and the account of a thread at work.
ItemInv ==
    /\ \A m \in Messages : pc[m] # "Idle" => item[m] = m /\ author[m] # None
    /\ \A th \in Threads :
         /\ pc[th] \in {"Send", "Requested", "Accepted", "Refused", "Load", "MarkSent", "Acknowledge",
                        "MarkFailed", "Record", "ReportSent"} => item[th] \in Messages
         /\ pc[th] = "Requested" => user[th] \in Users
    /\ session = "Live" => account # None

\* A thread goes on as after a success with a message that is at the server.
AnswerInv ==
    /\ \A th \in Threads :
         pc[th] \in {"Accepted", "Load", "MarkSent", "Acknowledge", "ReportSent"} => OnServer(item[th])
    /\ \A f \in Flushers : \A m \in report[f].sent : OnServer(m)

\* A message leaves the outbox when the server has it, from whatever account.
QueueInv ==
    \A m \in queued :
        /\ author[m] # None
        /\ m \notin dropped => outbox[m] # "None" \/ OnServer(m)

\* A message not queued yet has no row, and no thread, button or report has it.
Fresh(m) == author[m] = None \/ pc[m] \in {"Cache", "Enqueue"}

FreshInv ==
    \A m \in Messages : Fresh(m) =>
        /\ outbox[m] = "None" /\ m \notin queued \cup dropped \cup discarding
        /\ cache[m] # "Failed" /\ shown[m] \notin {"Failed", "Waiting"}
        /\ \A f \in Flushers : /\ m \notin batch[f] /\ item[f] # m
                               /\ m \notin report[f].retrying /\ report[f].wanted # m

IInv == TypeOK /\ ItemInv /\ AnswerInv /\ QueueInv /\ FreshInv /\ EntriesUnique /\ SentIsOnServer

(***************************************************************************)
(* The log.                                                                *)
(***************************************************************************)
LEMMA SameLog == log' = log => \A m : OnServer(m)' = OnServer(m)
  BY DEF OnServer, Entries

LEMMA Inserted ==
  ASSUME log \in Seq([id : Messages, sender : Users]), EntriesUnique,
         NEW m \in Messages, NEW u \in Users, Insert(m, u)
  PROVE  /\ log' \in Seq([id : Messages, sender : Users]) /\ EntriesUnique'
         /\ Entries' = Entries \cup {Entry(m, u)}
<1>0. Entry(m, u) \in [id : Messages, sender : Users] /\ Len(log) \in Nat
  BY LenProperties DEF Entry
<1>1. CASE Entry(m, u) \in Entries
  <2>1. log' = log
    BY <1>1 DEF Insert
  <2>2. QED
    BY <1>1, <2>1 DEF EntriesUnique, Entries
<1>2. CASE Entry(m, u) \notin Entries
  <2> DEFINE e == Entry(m, u)
  <2>1. log' = Append(log, e)
    BY <1>2 DEF Insert
  <2> HIDE DEF e
  <2>2. /\ log' \in Seq([id : Messages, sender : Users]) /\ Len(log') = Len(log) + 1
        /\ \A i \in 1 .. Len(log) : log'[i] = log[i]
        /\ log'[Len(log) + 1] = e
    BY <1>0, <2>1 DEF e
  <2>3. \A i \in 1 .. Len(log') : i \in 1 .. Len(log) \/ i = Len(log) + 1
    BY <1>0, <2>2
  <2>4. \A i \in 1 .. Len(log) : i \in 1 .. Len(log')
    BY <1>0, <2>2
  <2>5. Len(log) + 1 \in 1 .. Len(log')
    BY <1>0, <2>2
  <2>6. Entries' = Entries \cup {e}
    BY <2>2, <2>3, <2>4, <2>5 DEF Entries
  <2>7. \A i \in 1 .. Len(log) : log[i] # e
    BY <1>2 DEF Entries, e
  <2>8. EntriesUnique'
    BY <2>2, <2>3, <2>7 DEF EntriesUnique
  <2>9. QED
    BY <2>2, <2>6, <2>8 DEF e
<1>3. QED
  BY <1>1, <1>2

LEMMA InsertedOnServer ==
  ASSUME NEW m, NEW u, Entries' = Entries \cup {Entry(m, u)}
  PROVE  OnServer(m)' /\ \A n : OnServer(n) => OnServer(n)'
<1>1. Entry(m, u) \in Entries' /\ Entry(m, u).id = m
  BY DEF Entry
<1>2. \A e \in Entries : e \in Entries'
  OBVIOUS
<1>3. OnServer(m)'
  BY <1>1 DEF OnServer
<1>4. \A n : OnServer(n) => OnServer(n)'
  BY <1>2 DEF OnServer
<1>5. QED
  BY <1>3, <1>4

(***************************************************************************)
(* The server and the network.                                             *)
(***************************************************************************)
LEMMA NetworkKeepsIInv ==
  ASSUME IInv, \/ \E th \in Threads : Serve(th) \/ Receive(th) \/ Refuse(th) \/ TimeOut(th)
               \/ ServeLate
  PROVE  IInv'
<1> USE NoneAssumption DEF IInv, TypeOK, ItemInv, AnswerInv, QueueInv, Fresh, FreshInv, SentIsOnServer,
        Goto, Answered, Steps, Threads, OnSuccess, OnFailure, Mishap,
        storeVars, threadVars, screenVars, pastVars, netVars
<1>1. ASSUME NEW th \in Threads, Serve(th)
      PROVE  IInv'
  <2>1. /\ log' \in Seq([id : Messages, sender : Users]) /\ EntriesUnique'
        /\ OnServer(item[th])' /\ \A n : OnServer(n) => OnServer(n)'
    <3>1. PICK m \in Messages, u \in Users : item[th] = m /\ user[th] = u
      BY <1>1 DEF Serve
    <3>2. Insert(m, u) /\ item' = item /\ log \in Seq([id : Messages, sender : Users])
      BY <1>1, <3>1 DEF Serve
    <3>3. /\ log' \in Seq([id : Messages, sender : Users]) /\ EntriesUnique'
          /\ Entries' = Entries \cup {Entry(m, u)}
      BY ONLY <3>2, EntriesUnique, Inserted
    <3>4. OnServer(m)' /\ \A n : OnServer(n) => OnServer(n)'
      BY ONLY <3>3, InsertedOnServer
    <3>5. QED
      BY <3>1, <3>2, <3>3, <3>4
  <2>2. QED
    BY <1>1, <2>1 DEF Serve
<1>2. ASSUME NEW th \in Threads, Receive(th)
      PROVE  IInv'
  BY <1>2, SameLog DEF Receive, EntriesUnique
<1>3. ASSUME NEW th \in Threads, Refuse(th)
      PROVE  IInv'
  BY <1>3, SameLog DEF Refuse, EntriesUnique
<1>4. ASSUME NEW th \in Threads, TimeOut(th)
      PROVE  IInv'
  <2>1. log' = log
    BY <1>4 DEF TimeOut
  <2>2. late' \in SUBSET [id : Messages, sender : Users]
    BY <1>4 DEF TimeOut, Entry
  <2>3. QED
    BY <1>4, <2>1, <2>2, SameLog DEF TimeOut, EntriesUnique
<1>5. CASE ServeLate
  <2>1. PICK e \in late : /\ late' = late \ {e}
                          /\ Insert(e.id, e.sender) \/ UNCHANGED log
    BY <1>5 DEF ServeLate
  <2>2. /\ log' \in Seq([id : Messages, sender : Users]) /\ EntriesUnique'
        /\ \A n : OnServer(n) => OnServer(n)'
    <3>1. CASE Insert(e.id, e.sender)
      <4>1. e.id \in Messages /\ e.sender \in Users
        BY <2>1
      <4>2. log \in Seq([id : Messages, sender : Users])
        OBVIOUS
      <4>3. /\ log' \in Seq([id : Messages, sender : Users]) /\ EntriesUnique'
            /\ Entries' = Entries \cup {Entry(e.id, e.sender)}
        BY ONLY <3>1, <4>1, <4>2, EntriesUnique, Inserted
      <4>4. QED
        BY ONLY <4>3, InsertedOnServer
    <3>2. CASE UNCHANGED log
      BY <3>2, SameLog DEF EntriesUnique
    <3>3. QED
      BY <2>1, <3>1, <3>2
  <2>3. QED
    BY <1>5, <2>1, <2>2 DEF ServeLate
<1>6. QED
  BY <1>1, <1>2, <1>3, <1>4, <1>5

(***************************************************************************)
(* The threads: their steps leave the server alone.                        *)
(***************************************************************************)
LEMMA NotedIsReport ==
  ASSUME NEW r \in Report, NEW m \in Messages
  PROVE  [r EXCEPT !.sent = @ \cup {m}] \in Report
  BY DEF Report

LEMMA SendStepsKeepIInv ==
  ASSUME IInv, NEW th \in Threads,
         Send(th) \/ MarkSent(th) \/ Acknowledge(th) \/ Record(th)
  PROVE  IInv'
<1> USE NoneAssumption DEF IInv, TypeOK, ItemInv, AnswerInv, QueueInv, Fresh, FreshInv, SentIsOnServer,
        Goto, Steps, Threads, OnFailure, SetCache, CacheStatus, OutboxStatus, Report,
        storeVars, threadVars, screenVars, pastVars, netVars
<1>1. CASE Send(th)
  BY <1>1, SameLog DEF Send, EntriesUnique
<1>2. CASE MarkSent(th)
  BY <1>2, SameLog DEF MarkSent, EntriesUnique
<1>3. CASE Acknowledge(th)
  <2>0. /\ report' \in [Flushers -> Report] /\ pc' \in [Threads -> Steps]
        /\ item[th] \in Messages /\ outbox' \in [Messages -> OutboxStatus]
        /\ \A f \in Flushers : /\ report'[f].retrying = report[f].retrying
                               /\ report'[f].wanted = report[f].wanted
                               /\ report'[f].sent = report[f].sent \/ report'[f].sent = report[f].sent \cup {item[th]}
    <3>1. item[th] \in Messages
      BY <1>3 DEF Acknowledge
    <3>2. CASE th \in Flushers
      <4>1. report' = [report EXCEPT ![th].sent = @ \cup {item[th]}] /\ report[th] \in Report
        BY <1>3, <3>2 DEF Acknowledge, Settle
      <4>2. report' \in [Flushers -> Report]
        <5>1. [report[th] EXCEPT !.sent = @ \cup {item[th]}] \in Report
          BY <3>1, <4>1, NotedIsReport
        <5>2. report' = [report EXCEPT ![th] = [report[th] EXCEPT !.sent = @ \cup {item[th]}]]
          BY <3>2, <4>1
        <5>3. report \in [Flushers -> Report]
          OBVIOUS
        <5>4. QED
          BY ONLY <3>2, <5>1, <5>2, <5>3
      <4>3. \A f \in Flushers :
               /\ report'[f].retrying = report[f].retrying
               /\ report'[f].wanted = report[f].wanted
               /\ report'[f].sent = report[f].sent \/ report'[f].sent = report[f].sent \cup {item[th]}
        BY <3>2, <4>1
      <4>4. pc' \in [Threads -> Steps] /\ outbox' \in [Messages -> OutboxStatus]
        <5>1. pc' = [pc EXCEPT ![th] = "Next"] /\ outbox' = [outbox EXCEPT ![item[th]] = "None"]
          BY <1>3, <3>2 DEF Acknowledge, Settle
        <5>2. pc' \in [Threads -> Steps]
          BY <5>1
        <5>3. outbox' \in [Messages -> OutboxStatus]
          BY <5>1
        <5>4. QED
          BY <5>2, <5>3
      <4>5. QED
        BY <3>1, <4>2, <4>3, <4>4
    <3>3. CASE th \notin Flushers
      BY <1>3, <3>1, <3>3 DEF Acknowledge, Settle
    <3>4. QED
      BY <3>2, <3>3
  <2>1. TypeOK'
    BY <1>3, <2>0 DEF Acknowledge, Settle
  <2>2. ItemInv'
    BY <1>3 DEF Acknowledge, Settle
  <2>3. AnswerInv'
    <3>1. OnServer(item[th]) /\ item' = item /\ \A n : OnServer(n)' = OnServer(n)
      BY <1>3, SameLog DEF Acknowledge, Settle
    <3>2. \A t \in Threads : pc'[t] = pc[t] \/ (t = th /\ pc'[t] \in {"Next", "ReportSent"})
      BY <1>3 DEF Acknowledge, Settle
    <3>3. \A t \in Threads :
             pc'[t] \in {"Accepted", "Load", "MarkSent", "Acknowledge", "ReportSent"} => OnServer(item[t])
      BY <3>1, <3>2
    <3>4. \A f \in Flushers : \A m \in report'[f].sent : OnServer(m)
      <4>1. \A f \in Flushers : \A m \in report[f].sent : OnServer(m)
        OBVIOUS
      <4>2. \A f \in Flushers : report'[f].sent \subseteq report[f].sent \cup {item[th]}
        BY ONLY <2>0
      <4>3. QED
        BY ONLY <3>1, <4>1, <4>2
    <3>5. QED
      BY <3>1, <3>3, <3>4
  <2>4. QueueInv'
    BY <1>3, SameLog DEF Acknowledge, Settle
  <2>5. FreshInv'
    BY <1>3, <2>0 DEF Acknowledge, Settle
  <2>6. EntriesUnique' /\ SentIsOnServer'
    BY <1>3, SameLog DEF Acknowledge, Settle, EntriesUnique
  <2>7. QED
    BY <2>1, <2>2, <2>3, <2>4, <2>5, <2>6
<1>4. CASE Record(th)
  <2>1. /\ item[th] \in Messages /\ pc[th] = "Record"
        /\ UNCHANGED <<log, late, row, cache, stray, item, user, batch, account, session, online,
                       shown, flushing, busy, timers, discarding, author, queued, dropped, mishaps>>
    BY <1>4 DEF Record, Settle
  <2>2. outbox' = [outbox EXCEPT ![item[th]] = IF outbox[item[th]] = "None" THEN "None" ELSE "Delayed"]
    BY <1>4 DEF Record, Settle
  <2>3. pc' = [pc EXCEPT ![th] = "Next"] \/ pc' = [pc EXCEPT ![th] = "ReportFailed"]
    BY <1>4 DEF Record, Settle
  <2>4. /\ report' \in [Flushers -> Report]
        /\ \A f \in Flushers : /\ report'[f].sent = report[f].sent
                               /\ report'[f].wanted = report[f].wanted
                               /\ report'[f].retrying \subseteq report[f].retrying \cup {item[th]}
    <3>1. CASE th \in Flushers
      <4>1. report' = [report EXCEPT ![th] = [report[th] EXCEPT !.retrying = @ \cup {item[th]}]]
        BY <1>4, <3>1 DEF Record, Settle
      <4>2. [report[th] EXCEPT !.retrying = @ \cup {item[th]}] \in Report
        BY <2>1, <3>1
      <4>3. report \in [Flushers -> Report]
        OBVIOUS
      <4>4. QED
        BY ONLY <3>1, <4>1, <4>2, <4>3 DEF Report
    <3>2. CASE th \notin Flushers
      <4>1. report' = report
        BY <1>4, <3>2 DEF Record, Settle
      <4>2. QED
        BY <4>1
    <3>3. QED
      BY <3>1, <3>2
  <2>5. TypeOK'
    <3>1. pc' \in [Threads -> Steps]
      BY <2>3
    <3>2. outbox' \in [Messages -> OutboxStatus]
      BY <2>1, <2>2
    <3>3. QED
      BY <2>1, <2>4, <3>1, <3>2
  <2>6. ItemInv'
    BY <2>1, <2>3
  <2>7. AnswerInv'
    BY <2>1, <2>3, <2>4, SameLog
  <2>8. QueueInv'
    BY <2>1, <2>2, SameLog
  <2>9. FreshInv'
    <3>1. \A m \in Messages : Fresh(m)' => Fresh(m) /\ m # item[th]
      BY <2>1, <2>3
    <3>2. QED
      BY <2>1, <2>2, <2>4, <3>1
  <2>10. EntriesUnique' /\ SentIsOnServer'
    BY <2>1, SameLog DEF EntriesUnique
  <2>11. QED
    BY <2>5, <2>6, <2>7, <2>8, <2>9, <2>10
<1>5. QED
  BY <1>1, <1>2, <1>3, <1>4

LEMMA SenderStepsKeepIInv ==
  ASSUME IInv, NEW m \in Messages, SenderStep(m)
  PROVE  IInv'
<1> USE NoneAssumption DEF IInv, TypeOK, ItemInv, AnswerInv, QueueInv, Fresh, FreshInv, SentIsOnServer,
        Goto, Steps, Threads, SetCache, End, Show, Mishap, CacheStatus, OutboxStatus, ShownStatus,
        storeVars, threadVars, screenVars, pastVars, netVars
<1>1. CASE CachePending(m)
  BY <1>1, SameLog DEF CachePending, EntriesUnique
<1>2. CASE Enqueue(m)
  BY <1>2, SameLog DEF Enqueue, EntriesUnique
<1>3. CASE MarkFailed(m)
  BY <1>3, SameLog DEF MarkFailed, EntriesUnique
<1>4. CASE Sent(m)
  BY <1>4, SameLog DEF Sent, EntriesUnique
<1>5. QED
  BY <1>1, <1>2, <1>3, <1>4 DEF SenderStep

LEMMA FlusherStepsKeepIInv ==
  ASSUME IInv, NEW f \in Flushers, FlusherStep(f)
  PROVE  IInv'
<1> USE NoneAssumption DEF IInv, TypeOK, ItemInv, AnswerInv, QueueInv, Fresh, FreshInv, SentIsOnServer,
        Goto, Steps, Threads, End, OutboxStatus, ShownStatus, Report, NoReport,
        storeVars, threadVars, screenVars, pastVars, netVars
<1>1. CASE RetryNow(f)
  <2>1. TypeOK'
    <3>1. pc' \in [Threads -> Steps]
      <4>1. pc' = [pc EXCEPT ![f] = "Report"] \/ pc' = [pc EXCEPT ![f] = "Select"]
        BY <1>1 DEF RetryNow
      <4>2. QED
        BY <4>1
    <3>2. outbox' \in [Messages -> OutboxStatus]
      BY <1>1 DEF RetryNow
    <3>3. QED
      BY <1>1, <3>1, <3>2 DEF RetryNow
  <2>2. ItemInv'
    BY <1>1 DEF RetryNow
  <2>3. AnswerInv'
    BY <1>1, SameLog DEF RetryNow
  <2>4. QueueInv'
    BY <1>1, SameLog DEF RetryNow
  <2>5. FreshInv'
    BY <1>1 DEF RetryNow
  <2>6. EntriesUnique' /\ SentIsOnServer'
    BY <1>1, SameLog DEF RetryNow, EntriesUnique
  <2>7. QED
    BY <2>1, <2>2, <2>3, <2>4, <2>5, <2>6
<1>2. CASE Select(f)
  BY <1>2, SameLog DEF Select, EntriesUnique
<1>3. CASE Advance(f)
  <2>1. TypeOK'
    <3>1. \/ pc' = [pc EXCEPT ![f] = "Report"] /\ UNCHANGED <<item, batch>>
          \/ \E m \in batch[f] : /\ pc' = [pc EXCEPT ![f] = "Send"]
                                 /\ item' = [item EXCEPT ![f] = m]
                                 /\ batch' = [batch EXCEPT ![f] = @ \ {m}]
      BY <1>3 DEF Advance
    <3>2. /\ pc' \in [Threads -> Steps]
          /\ item' \in [Threads -> Messages \cup {None}] /\ batch' \in [Flushers -> SUBSET Messages]
      <4>1. CASE pc' = [pc EXCEPT ![f] = "Report"] /\ UNCHANGED <<item, batch>>
        BY <4>1
      <4>2. ASSUME NEW m \in batch[f], pc' = [pc EXCEPT ![f] = "Send"],
                   item' = [item EXCEPT ![f] = m], batch' = [batch EXCEPT ![f] = @ \ {m}]
            PROVE  /\ pc' \in [Threads -> Steps]
                   /\ item' \in [Threads -> Messages \cup {None}]
                   /\ batch' \in [Flushers -> SUBSET Messages]
        <5>1. m \in Messages
          OBVIOUS
        <5>2. pc' \in [Threads -> Steps]
          BY <4>2
        <5>3. item' \in [Threads -> Messages \cup {None}]
          BY <4>2, <5>1
        <5>4. batch' \in [Flushers -> SUBSET Messages]
          BY <4>2
        <5>5. QED
          BY <5>2, <5>3, <5>4
      <4>3. QED
        BY <3>1, <4>1, <4>2
    <3>3. QED
      BY <1>3, <3>2 DEF Advance
  <2>2. ItemInv'
    BY <1>3 DEF Advance
  <2>3. AnswerInv'
    <3>1. /\ \A t \in Threads : t # f => pc'[t] = pc[t] /\ item'[t] = item[t]
          /\ pc'[f] \in {"Report", "Send"}
      BY <1>3 DEF Advance
    <3>2. report' = report /\ log' = log
      BY <1>3 DEF Advance
    <3>3. \A t \in Threads :
             pc'[t] \in {"Accepted", "Load", "MarkSent", "Acknowledge", "ReportSent"} =>
               OnServer(item[t]) /\ item'[t] = item[t]
      BY <3>1
    <3>4. \A t \in Threads :
             pc'[t] \in {"Accepted", "Load", "MarkSent", "Acknowledge", "ReportSent"} =>
               \E e \in Entries' : e.id = item'[t]
      BY ONLY <3>2, <3>3 DEF OnServer, Entries
    <3>5. \A g \in Flushers : \A m \in report'[g].sent : \E e \in Entries' : e.id = m
      BY <3>2 DEF OnServer, Entries
    <3>6. QED
      BY ONLY <3>4, <3>5 DEF AnswerInv, OnServer
  <2>4. QueueInv'
    BY <1>3, SameLog DEF Advance
  <2>5. FreshInv'
    BY <1>3 DEF Advance
  <2>6. EntriesUnique' /\ SentIsOnServer'
    BY <1>3, SameLog DEF Advance, EntriesUnique
  <2>7. QED
    BY <2>1, <2>2, <2>3, <2>4, <2>5, <2>6
<1>4. CASE Load(f)
  BY <1>4, SameLog DEF Load, EntriesUnique
<1>5. CASE Flushed(f)
  <2>1. TypeOK'
    <3>1. pc' \in [Threads -> Steps] /\ report' \in [Flushers -> Report]
      BY <1>5 DEF Flushed
    <3>2. item' \in [Threads -> Messages \cup {None}] /\ user' \in [Threads -> Users \cup {None}]
      BY <1>5 DEF Flushed
    <3>3. shown' \in [Messages -> ShownStatus] /\ busy' \in Messages \cup {None} /\ timers' \in Nat
      BY <1>5 DEF Flushed
    <3>4. QED
      BY <1>5, <3>1, <3>2, <3>3 DEF Flushed
  <2>2. ItemInv'
    BY <1>5 DEF Flushed
  <2>3. AnswerInv'
    BY <1>5, SameLog DEF Flushed
  <2>4. QueueInv'
    BY <1>5, SameLog DEF Flushed
  <2>5. FreshInv'
    BY <1>5 DEF Flushed
  <2>6. EntriesUnique' /\ SentIsOnServer'
    BY <1>5, SameLog DEF Flushed, EntriesUnique
  <2>7. QED
    BY <2>1, <2>2, <2>3, <2>4, <2>5, <2>6
<1>6. QED
  BY <1>1, <1>2, <1>3, <1>4, <1>5 DEF FlusherStep

(***************************************************************************)
(* The interface.                                                          *)
(***************************************************************************)
\* A flush begins with an empty report.
LEMMA StartedFlush ==
  ASSUME IInv, NEW f \in Flushers, NEW w \in Messages \cup {None}, StartFlush(f, w)
  PROVE  /\ report' \in [Flushers -> Report] /\ pc' \in [Threads -> Steps] /\ flushing'
         /\ item' = item /\ user' = user /\ batch' = batch
         /\ \A g \in Flushers : \/ report'[g] = report[g]
                                \/ report'[g] = [NoReport EXCEPT !.wanted = w]
         /\ \A t \in Threads : pc'[t] = pc[t] \/ (t = f /\ pc'[t] \in {"Select", "RetryNow"})
<1> USE NoneAssumption DEF IInv, TypeOK, Threads
<1>1. [NoReport EXCEPT !.wanted = w] \in Report
  BY DEF NoReport, Report
<1>2. report' = [report EXCEPT ![f] = [NoReport EXCEPT !.wanted = w]]
  BY DEF StartFlush
<1>3. pc' = [pc EXCEPT ![f] = "Select"] \/ pc' = [pc EXCEPT ![f] = "RetryNow"]
  BY DEF StartFlush, Goto
<1>4. report' \in [Flushers -> Report]
  BY <1>1, <1>2
<1>5. pc' \in [Threads -> Steps]
  BY <1>3 DEF Steps
<1>6. /\ item' = item /\ user' = user /\ batch' = batch /\ flushing'
  BY DEF StartFlush
<1>7. \A g \in Flushers : report'[g] = report[g] \/ report'[g] = [NoReport EXCEPT !.wanted = w]
  BY <1>2
<1>8. \A t \in Threads : pc'[t] = pc[t] \/ (t = f /\ pc'[t] \in {"Select", "RetryNow"})
  BY <1>3
<1>9. QED
  BY <1>4, <1>5, <1>6, <1>7, <1>8

\* A flush begins, for a message that may be retried if for any, and the rest
\* of the step only concerns the interface.
LEMMA FlushKeepsIInv ==
  ASSUME IInv, NEW f \in Flushers, NEW w \in Messages \cup {None}, StartFlush(f, w),
         w # None => ~Fresh(w),
         online' \in BOOLEAN, timers' \in Nat, mishaps' \in Nat, busy' \in Messages \cup {None},
         shown' = shown \/ (w # None /\ shown' = [shown EXCEPT ![w] = "Retrying"])
  PROVE  IInv'
<1> USE NoneAssumption DEF IInv, TypeOK, ItemInv, AnswerInv, QueueInv, Fresh, FreshInv, SentIsOnServer,
        Threads, NoReport, storeVars, pastVars, netVars
<1>0. /\ report' \in [Flushers -> Report] /\ pc' \in [Threads -> Steps] /\ flushing'
      /\ item' = item /\ user' = user /\ batch' = batch
      /\ \A g \in Flushers : \/ report'[g] = report[g]
                             \/ report'[g] = [NoReport EXCEPT !.wanted = w]
      /\ \A t \in Threads : pc'[t] = pc[t] \/ (t = f /\ pc'[t] \in {"Select", "RetryNow"})
  BY StartedFlush
<1>1. UNCHANGED <<log, late, row, cache, outbox, author, queued, dropped, discarding, account, session, stray>>
  BY DEF StartFlush
<1>2. shown' \in [Messages -> ShownStatus] /\ \A m \in Messages : shown'[m] \in {shown[m], "Retrying"}
  BY DEF ShownStatus
<1>3. \A g \in Flushers : /\ report'[g].sent \subseteq report[g].sent
                           /\ report'[g].retrying \subseteq report[g].retrying
                           /\ report'[g].wanted \in {report[g].wanted, w}
  BY ONLY <1>0 DEF NoReport
<1>4. TypeOK'
  BY <1>0, <1>1, <1>2
<1>5. ItemInv'
  BY <1>0, <1>1, <1>2
<1>6. AnswerInv'
  BY <1>0, <1>1, <1>2, <1>3, SameLog
<1>7. QueueInv'
  BY <1>0, <1>1, <1>2, SameLog
<1>8. FreshInv'
  <2> SUFFICES ASSUME NEW m \in Messages, Fresh(m)'
               PROVE  /\ outbox'[m] = "None" /\ m \notin (queued \cup dropped \cup discarding)'
                      /\ cache'[m] # "Failed" /\ shown'[m] \notin {"Failed", "Waiting"}
                      /\ \A g \in Flushers : /\ m \notin batch'[g] /\ item'[g] # m
                                             /\ m \notin report'[g].retrying /\ report'[g].wanted # m
    BY DEF FreshInv
  <2>1. Fresh(m)
    BY <1>0, <1>1
  <2>2. w # m
    BY <2>1
  <2>3. QED
    BY <1>0, <1>1, <1>2, <1>3, <2>1, <2>2
<1>9. EntriesUnique' /\ SentIsOnServer'
  BY <1>0, <1>1, <1>2, SameLog DEF EntriesUnique
<1>10. QED
  BY <1>4, <1>5, <1>6, <1>7, <1>8, <1>9

LEMMA FlushesKeepIInv ==
  ASSUME IInv, Connect \/ TimerFires \/ \E m \in Messages : Retry(m)
  PROVE  IInv'
<1> USE NoneAssumption DEF IInv, TypeOK
<1>1. CASE Connect
  <2>1. CASE flushing
    BY <1>1, <2>1, SameLog DEF Connect, EntriesUnique, ItemInv, AnswerInv, QueueInv, Fresh, FreshInv,
       SentIsOnServer, netVars, storeVars, threadVars, pastVars
  <2>2. CASE ~flushing
    <3>1. PICK f \in Flushers : StartFlush(f, None)
      BY <1>1, <2>2 DEF Connect
    <3>2. online' \in BOOLEAN /\ timers' \in Nat /\ UNCHANGED <<shown, busy, mishaps>>
      BY <1>1 DEF Connect
    <3>3. QED
      BY <3>1, <3>2, FlushKeepsIInv
  <2>3. QED
    BY <2>1, <2>2
<1>2. CASE TimerFires
  <2>1. timers' \in Nat /\ UNCHANGED <<online, shown, busy, mishaps>>
    BY <1>2 DEF TimerFires
  <2>2. CASE flushing \/ ~online
    BY <1>2, <2>1, <2>2, SameLog DEF TimerFires, EntriesUnique, ItemInv, AnswerInv, QueueInv, Fresh,
       FreshInv, SentIsOnServer, netVars, storeVars, threadVars, pastVars
  <2>3. CASE ~(flushing \/ ~online)
    <3>1. PICK f \in Flushers : StartFlush(f, None)
      BY <1>2, <2>3 DEF TimerFires
    <3>2. QED
      BY <2>1, <3>1, FlushKeepsIInv
  <2>4. QED
    BY <2>2, <2>3
<1>3. ASSUME NEW m \in Messages, Retry(m)
      PROVE  IInv'
  <2>1. PICK f \in Flushers : StartFlush(f, m)
    BY <1>3 DEF Retry
  <2>2. /\ busy' = m /\ shown' = [shown EXCEPT ![m] = "Retrying"] /\ mishaps' \in Nat
        /\ UNCHANGED <<online, timers>>
    BY <1>3 DEF Retry, Offered, Mishap
  <2>3. m # None /\ ~Fresh(m)
    BY <1>3 DEF Retry, Offered, FreshInv
  <2>4. QED
    BY <2>1, <2>2, <2>3, FlushKeepsIInv
<1>4. QED
  BY <1>1, <1>2, <1>3

LEMMA ButtonsKeepIInv ==
  ASSUME IInv, NEW m \in Messages, Compose(m) \/ StartDiscard(m) \/ Discard(m) \/ BackoffEnds(m)
  PROVE  IInv'
<1> USE NoneAssumption DEF IInv, TypeOK, ItemInv, AnswerInv, QueueInv, Fresh, FreshInv, SentIsOnServer,
        Goto, Steps, Threads, CacheStatus, OutboxStatus, ShownStatus, Offered, Mishap,
        storeVars, threadVars, screenVars, pastVars, netVars
<1>1. CASE Compose(m)
  BY <1>1, SameLog DEF Compose, EntriesUnique
<1>2. CASE StartDiscard(m)
  BY <1>2, SameLog DEF StartDiscard, EntriesUnique
<1>3. CASE Discard(m)
  BY <1>3, SameLog DEF Discard, EntriesUnique
<1>4. CASE BackoffEnds(m)
  BY <1>4, SameLog DEF BackoffEnds, EntriesUnique
<1>5. QED
  BY <1>1, <1>2, <1>3, <1>4

\* What a loaded timeline shows of a message.
LEMMA LoadedShows ==
  ASSUME IInv, NEW m \in Messages, NEW live \in BOOLEAN
  PROVE  /\ Loaded(m, live) \in ShownStatus \ {"Waiting"}
         /\ Loaded(m, live) = "Failed" => cache[m] = "Failed"
         /\ Loaded(m, live) = "Sent" => OnServer(m)
  BY DEF IInv, Loaded, ShownStatus, SentIsOnServer

LEMMA EventsKeepIInv ==
  ASSUME IInv, \/ \E m \in Messages : EventShown(m) \/ EventCached(m)
               \/ Disconnect \/ SessionEnds \/ Reload \/ PersistBootstrap
  PROVE  IInv'
<1> USE NoneAssumption DEF IInv, TypeOK, ItemInv, AnswerInv, QueueInv, Fresh, FreshInv, SentIsOnServer,
        Threads, SetCache, CacheStatus, Mishap,
        storeVars, threadVars, screenVars, pastVars, netVars
<1>1. ASSUME NEW m \in Messages, EventShown(m)
      PROVE  IInv'
  BY <1>1, SameLog DEF EventShown, EntriesUnique, ShownStatus
<1>2. ASSUME NEW m \in Messages, EventCached(m)
      PROVE  IInv'
  BY <1>2, SameLog DEF EventCached, EntriesUnique
<1>3. CASE Disconnect
  <2>1. TypeOK'
    <3>1. online' \in BOOLEAN
      BY <1>3, Zenon DEF Disconnect
    <3>2. timers' \in Nat /\ mishaps' \in Nat
      BY <1>3 DEF Disconnect
    <3>3. QED
      BY <1>3, <3>1, <3>2 DEF Disconnect
  <2>2. ItemInv'
    BY <1>3 DEF Disconnect
  <2>3. AnswerInv'
    BY <1>3, SameLog DEF Disconnect
  <2>4. QueueInv'
    BY <1>3, SameLog DEF Disconnect
  <2>5. FreshInv'
    BY <1>3 DEF Disconnect
  <2>6. EntriesUnique' /\ SentIsOnServer'
    BY <1>3, SameLog DEF Disconnect, EntriesUnique
  <2>7. QED
    BY <2>1, <2>2, <2>3, <2>4, <2>5, <2>6
<1>4. CASE Reload
  <2>1. PICK live \in {FALSE} \cup {session = "Live"} : shown' = [m \in Messages |-> Loaded(m, live)]
    BY <1>4 DEF Reload
  <2>0. live \in BOOLEAN
    BY Zenon
  <2>2. QED
    BY <1>4, <2>0, <2>1, LoadedShows, SameLog DEF Reload, EntriesUnique
<1>5. CASE PersistBootstrap
  BY <1>5, SameLog DEF PersistBootstrap, EntriesUnique
<1>6. CASE SessionEnds
  BY <1>6, SameLog DEF SessionEnds, EntriesUnique
<1>7. QED
  BY <1>1, <1>2, <1>3, <1>4, <1>5, <1>6

LEMMA SwitchesKeepIInv ==
  ASSUME IInv, ClearCache \/ Logout \/ Restart \/ \E u \in Users : Login(u)
  PROVE  IInv'
<1> USE NoneAssumption DEF IInv, TypeOK, ItemInv, AnswerInv, QueueInv, Fresh, FreshInv, SentIsOnServer,
        Threads, Mishap, storeVars, threadVars, screenVars, pastVars, netVars
<1>1. CASE ClearCache
  <2>1. TypeOK'
    <3>1. row' \in BOOLEAN
      BY <1>1, Zenon DEF ClearCache
    <3>2. mishaps' \in Nat
      BY <1>1 DEF ClearCache
    <3>3. cache' \in [Messages -> CacheStatus] /\ outbox' \in [Messages -> OutboxStatus]
      BY <1>1 DEF ClearCache, CacheStatus, OutboxStatus
    <3>4. QED
      BY <1>1, <3>1, <3>2, <3>3 DEF ClearCache
  <2>2. ItemInv'
    BY <1>1 DEF ClearCache, CacheStatus, OutboxStatus
  <2>3. AnswerInv'
    BY <1>1, SameLog DEF ClearCache, CacheStatus, OutboxStatus
  <2>4. QueueInv'
    BY <1>1, SameLog DEF ClearCache, CacheStatus, OutboxStatus
  <2>5. FreshInv'
    BY <1>1 DEF ClearCache, CacheStatus, OutboxStatus
  <2>6. EntriesUnique' /\ SentIsOnServer'
    BY <1>1, SameLog DEF ClearCache, CacheStatus, OutboxStatus, EntriesUnique
  <2>7. QED
    BY <2>1, <2>2, <2>3, <2>4, <2>5, <2>6
<1>2. CASE Logout
  <2>1. TypeOK'
    <3>1. online' \in BOOLEAN /\ flushing' \in BOOLEAN
      BY <1>2, Zenon DEF Logout
    <3>2. timers' \in Nat /\ mishaps' \in Nat
      BY <1>2 DEF Logout
    <3>3. shown' \in [Messages -> ShownStatus]
      BY <1>2 DEF Logout, ShownStatus
    <3>4. QED
      BY <1>2, <3>1, <3>2, <3>3 DEF Logout
  <2>2. ItemInv'
    BY <1>2 DEF Logout, ShownStatus
  <2>3. AnswerInv'
    BY <1>2, SameLog DEF Logout, ShownStatus
  <2>4. QueueInv'
    BY <1>2, SameLog DEF Logout, ShownStatus
  <2>5. FreshInv'
    BY <1>2 DEF Logout, ShownStatus
  <2>6. EntriesUnique' /\ SentIsOnServer'
    BY <1>2, SameLog DEF Logout, ShownStatus, EntriesUnique
  <2>7. QED
    BY <2>1, <2>2, <2>3, <2>4, <2>5, <2>6
<1>3. ASSUME NEW u \in Users, Login(u)
      PROVE  IInv'
  BY <1>3, LoadedShows, SameLog DEF Login, EntriesUnique
<1>4. CASE Restart
  <2>1. /\ shown' \in [Messages -> ShownStatus]
        /\ \A m \in Messages : \/ shown'[m] = "None"
                               \/ \E live \in BOOLEAN : shown'[m] = Loaded(m, live)
    <3>1. CASE shown' = [m \in Messages |-> "None"]
      BY <3>1 DEF ShownStatus
    <3>2. ASSUME NEW live \in BOOLEAN, shown' = [m \in Messages |-> Loaded(m, live)]
          PROVE  /\ shown' \in [Messages -> ShownStatus]
                 /\ \A m \in Messages : \E l \in BOOLEAN : shown'[m] = Loaded(m, l)
      BY <3>2, LoadedShows
    <3>3. \/ shown' = [m \in Messages |-> "None"]
          \/ \E live \in BOOLEAN : shown' = [m \in Messages |-> Loaded(m, live)]
      BY <1>4 DEF Restart, Restore
    <3>4. QED
      BY <3>1, <3>2, <3>3
  <2>7. /\ account' \in Users \cup {None} /\ session' \in {"Live", "Stored", "Ended"}
        /\ session' = "Live" => account' # None
    BY <1>4 DEF Restart, Restore
  <2>2. \A th \in Threads : pc[th] = "Requested" => Entry(item[th], user[th]) \in [id : Messages, sender : Users]
    BY DEF Entry
  <2>3. late' \in SUBSET [id : Messages, sender : Users]
    BY <1>4, <2>2 DEF Restart
  <2>4. /\ report' \in [Flushers -> Report] /\ \A f \in Flushers : report'[f] = NoReport
    BY <1>4 DEF Restart, NoReport, Report
  <2>5. pc' \in [Threads -> Steps] /\ \A th \in Threads : pc'[th] = "Idle"
    BY <1>4 DEF Restart, Steps
  <2>6. QED
    <3>1. TypeOK'
      <4>1. online' \in BOOLEAN /\ flushing' \in BOOLEAN
        BY <1>4, Zenon DEF Restart
      <4>2. /\ timers' \in Nat /\ mishaps' \in Nat
            /\ busy' \in Messages \cup {None} /\ discarding' \in SUBSET Messages
        BY <1>4 DEF Restart
      <4>3. shown' \in [Messages -> ShownStatus]
        BY <2>1
      <4>4. /\ item' \in [Threads -> Messages \cup {None}] /\ user' \in [Threads -> Users \cup {None}]
            /\ batch' \in [Flushers -> SUBSET Messages]
        BY <1>4 DEF Restart
      <4>5. QED
        BY <1>4, <2>3, <2>4, <2>5, <2>7, <4>1, <4>2, <4>3, <4>4 DEF Restart
    <3>2. ItemInv'
      BY <1>4, <2>1, <2>3, <2>4, <2>5, <2>7 DEF Restart, NoReport
    <3>3. AnswerInv'
      BY <1>4, <2>1, <2>3, <2>4, <2>5, LoadedShows, SameLog DEF Restart, NoReport
    <3>4. QueueInv'
      BY <1>4, <2>1, <2>3, <2>4, <2>5, LoadedShows, SameLog DEF Restart, NoReport
    <3>5. FreshInv'
      BY <1>4, <2>1, <2>3, <2>4, <2>5, LoadedShows DEF Restart, NoReport
    <3>6. EntriesUnique' /\ SentIsOnServer'
      BY <1>4, <2>1, <2>3, <2>4, <2>5, LoadedShows, SameLog DEF Restart, NoReport, EntriesUnique
    <3>7. QED
      BY <3>1, <3>2, <3>3, <3>4, <3>5, <3>6
<1>5. QED
  BY <1>1, <1>2, <1>3, <1>4

(***************************************************************************)
(* Every step, and the whole behaviour.                                    *)
(***************************************************************************)
LEMMA InitIInv == Init => IInv
<1> SUFFICES ASSUME Init
             PROVE  IInv
  OBVIOUS
<1> USE NoneAssumption DEF Init
<1>1. Len(log) = 0
  OBVIOUS
<1>2. TypeOK
  <2>1. log \in Seq([id : Messages, sender : Users]) /\ late \in SUBSET [id : Messages, sender : Users]
    OBVIOUS
  <2>2. row \in BOOLEAN /\ online \in BOOLEAN /\ flushing \in BOOLEAN
    BY Zenon
  <2>3. cache \in [Messages -> CacheStatus] /\ outbox \in [Messages -> OutboxStatus]
        /\ shown \in [Messages -> ShownStatus] /\ author \in [Messages -> Users \cup {None}]
    BY DEF CacheStatus, OutboxStatus, ShownStatus
  <2>4. pc \in [Threads -> Steps] /\ item \in [Threads -> Messages \cup {None}]
        /\ user \in [Threads -> Users \cup {None}]
    BY DEF Steps
  <2>5. batch \in [Flushers -> SUBSET Messages] /\ report \in [Flushers -> Report]
    BY DEF Report, NoReport
  <2>6. /\ account \in Users \cup {None} /\ busy \in Messages \cup {None} /\ timers \in Nat
        /\ discarding \in SUBSET Messages /\ queued \in SUBSET Messages /\ dropped \in SUBSET Messages
        /\ mishaps \in Nat /\ stray \in SUBSET Messages /\ session \in {"Live", "Stored", "Ended"}
    OBVIOUS
  <2>7. QED
    BY <2>1, <2>2, <2>3, <2>4, <2>5, <2>6 DEF TypeOK
<1>3. ItemInv /\ AnswerInv /\ QueueInv
  BY DEF ItemInv, AnswerInv, QueueInv, Threads, NoReport
<1>4. FreshInv
  BY DEF FreshInv, NoReport, Threads
<1>5. EntriesUnique /\ SentIsOnServer
  BY <1>1 DEF EntriesUnique, SentIsOnServer
<1>6. QED
  BY <1>2, <1>3, <1>4, <1>5 DEF IInv

LEMMA StepKeepsIInv == IInv /\ [Next]_vars => IInv'
<1> SUFFICES ASSUME IInv, [Next]_vars
             PROVE  IInv'
  OBVIOUS
<1>1. CASE UNCHANGED vars
  <2>1. /\ UNCHANGED <<log, late, row, cache, outbox, stray, pc, item, user, batch, report>>
        /\ UNCHANGED <<account, session, online, shown, flushing, busy, timers, discarding>>
        /\ UNCHANGED <<author, queued, dropped, mishaps>>
    BY <1>1 DEF vars, netVars, storeVars, threadVars, screenVars, pastVars
  <2>2. TypeOK' /\ ItemInv' /\ FreshInv'
    BY <2>1 DEF IInv, TypeOK, ItemInv, Fresh, FreshInv
  <2>3. AnswerInv' /\ QueueInv' /\ SentIsOnServer' /\ EntriesUnique'
    BY <2>1, SameLog DEF IInv, AnswerInv, QueueInv, SentIsOnServer, EntriesUnique
  <2>4. QED
    BY <2>2, <2>3 DEF IInv
<1>2. CASE Next
  <2>1. CASE \E th \in Threads : SendStep(th) \/ Refuse(th) \/ TimeOut(th)
    BY <2>1, NetworkKeepsIInv, SendStepsKeepIInv DEF SendStep
  <2>2. CASE \E m \in Messages : SenderStep(m) \/ BackoffEnds(m) \/ Discard(m)
    BY <2>2, SenderStepsKeepIInv, ButtonsKeepIInv
  <2>3. CASE \E f \in Flushers : FlusherStep(f)
    BY <2>3, FlusherStepsKeepIInv
  <2>4. CASE ServeLate \/ Connect \/ TimerFires
    BY <2>4, NetworkKeepsIInv, FlushesKeepIInv
  <2>5. CASE Interface
    BY <2>5, ButtonsKeepIInv, FlushesKeepIInv, EventsKeepIInv, SwitchesKeepIInv DEF Interface
  <2>6. QED
    BY <1>2, <2>1, <2>2, <2>3, <2>4, <2>5 DEF Next
<1>3. QED
  BY <1>1, <1>2

LEMMA Inductive == Spec => []IInv
  BY InitIInv, StepKeepsIInv, PTL DEF Spec

(***************************************************************************)
(* The theorems.                                                           *)
(***************************************************************************)
\* Every variable of Outbox keeps its type.
THEOREM TypeCorrect == Spec => []TypeOK
<1>1. IInv => TypeOK
  BY DEF IInv
<1>2. QED
  BY <1>1, Inductive, PTL

\* send_message_in_store takes a message of a sender once, however many
\* threads, flushes and late requests carry it there.
THEOREM EntriesUniqueHolds == Spec => []EntriesUnique
<1>1. IInv => EntriesUnique
  BY DEF IInv
<1>2. QED
  BY <1>1, Inductive, PTL

\* What the cache or the interface takes for sent is in the conversation at
\* the server: reports, events and loaded timelines may overtake each other.
THEOREM SentIsOnServerHolds == Spec => []SentIsOnServer
<1>1. IInv => SentIsOnServer
  BY DEF IInv
<1>2. QED
  BY <1>1, Inductive, PTL

\* A queued message stays in the outbox until the server has it, for any accounts,
\* threads and flushes: a row goes after an answer only, or at the user's request.
THEOREM QueuedOrOnServerHolds == Spec => []QueuedOrOnServer
<1>1. IInv => QueuedOrOnServer
  BY DEF IInv, QueueInv, QueuedOrOnServer
<1>2. QED
  BY <1>1, Inductive, PTL

\* No thread that still has a discarded message puts it back: only its own
\* thread adds a row, and no button is offered before it has.
THEOREM DiscardIsFinalHolds == Spec => DiscardIsFinal
<1>1. IInv /\ [Next]_vars => [\A m \in dropped : outbox[m] = "None" => outbox'[m] = "None"]_vars
  <2> SUFFICES ASSUME IInv, Next, NEW m \in dropped, outbox[m] = "None"
               PROVE  outbox'[m] = "None"
    OBVIOUS
  <2> USE NoneAssumption DEF Threads, storeVars, threadVars, OutboxStatus
  <2>1. m \in Messages /\ ~Fresh(m) /\ outbox \in [Messages -> OutboxStatus]
    BY DEF IInv, TypeOK, FreshInv
  <2>2. ASSUME NEW th \in Threads, SendStep(th) \/ Refuse(th) \/ TimeOut(th)
        PROVE  outbox'[m] = "None"
    BY <2>1, <2>2 DEF SendStep, Serve, Receive, Send, MarkSent, Acknowledge, Record, Settle, Refuse, TimeOut
  <2>3. ASSUME NEW n \in Messages, SenderStep(n) \/ BackoffEnds(n) \/ Discard(n)
        PROVE  outbox'[m] = "None"
    BY <2>1, <2>3 DEF SenderStep, CachePending, Enqueue, MarkFailed, Sent, BackoffEnds, Discard, Fresh
  <2>4. ASSUME NEW f \in Flushers, FlusherStep(f)
        PROVE  outbox'[m] = "None"
    BY <2>1, <2>4 DEF FlusherStep, RetryNow, Select, Advance, Load, Flushed
  <2>5. CASE ServeLate \/ Connect \/ TimerFires
    BY <2>1, <2>5 DEF ServeLate, Connect, TimerFires, StartFlush
  <2>6. CASE Interface
    BY <2>1, <2>6 DEF Interface, Compose, Retry, StartDiscard, EventShown, EventCached, Disconnect,
       SessionEnds, Reload, ClearCache, PersistBootstrap, Logout, Restart, Login, StartFlush
  <2>7. QED
    BY <2>2, <2>3, <2>4, <2>5, <2>6 DEF Next
<1>2. QED
  BY <1>1, Inductive, PTL DEF Spec, DiscardIsFinal
================================================================================
