# TLA+ verification of I Am Rust

I Am Rust is a desktop messenger: a GPUI client (`apps/desktop`) with an
encrypted SQLite cache (`crates/client-core`), and an Axum server
(`apps/server`) over one application service (`crates/application`) whose
store is kept in memory and written to PostgreSQL.  This directory holds the
TLA+ models of it, the TLC runs that check them on small instances, and the
TLAPS proofs of their main properties for every instance.

    tlc -config MCGroups.cfg MCGroups        # one run, see PROJECT.json "runs"
    tlapm SessionsProofs.tla                 # all proofs of a module

Contents: 1 the system, 2 the modules, 3 the runs, 4 bounds and fairness,
5 the proofs, 6 what the models refute, 7 what is not modelled, 8 the plan.

## 1. The system

| component | state | operations | hard because |
|---|---|---|---|
| store and `mutate` (`service.rs:664`) | one `Store` under a read-write lock, `cursor`, `events` | a closure under the write lock, the transaction, then `publish` | the transaction may fail; publishing happens after the lock |
| event log and channel | `events`, broadcast channel of 512, one receiver per WebSocket session | `append_event`, `publish`, `sync`, `bootstrap` | handlers overtake each other; a receiver lags; the bootstrap is read in parts |
| WebSocket session (`websocket.rs`) | receiver, heartbeat counter | welcome, forward, ping, close | breaks at any point |
| realtime task (`realtime.rs`) | cursor | welcome, catch-up page by page, live events, reconnect | catch-up next to live events |
| sessions (`service.rs:716-1342`) | accounts, devices, access and refresh tokens by family, QR challenges, reset tokens | register, login, refresh, logout, revoke, change and reset password, QR begin/approve/poll, suspend, delete | requests authenticated before the lock; QR poll under two locks; token reuse |
| desktop session (`apps/desktop/src/api.rs`) | tokens in memory, refresh token in the credential store, refresh gate | `authorized_json`, `refresh_session`, `authenticate`, `restore`, `logout` | parallel threads, late answers, a store that cannot be written |
| sending (`ui.rs`, `client-core`, `service.rs:4479`) | bubble in the window, row in `cached_messages`, row in `outbox`, message in the conversation | compose, enqueue, send, flush, retry, discard, acknowledge, timers | threads, flushes and timers hold copies of the same row; requests time out and arrive later |
| groups (`service.rs:2222-3021`, `conversation.rs`) | members with role and mute, settings, join requests, mute-all | create, add, leave, remove, disband, update, transfer, mute, request, decide, delete account | long sequences of legal calls; requests decided late |
| friends and blocks (`service.rs:1842-2220`, `friend.rs`) | requests, friendships with settings, blocks, direct conversations | request, decide, delete, block, unblock, create direct, delete account | requests cross, answers come late |
| presence (`service.rs:587-662`, `1365-1483`, `4948-5026`) | connection counts, presence, preferred presence, privacy | session opened, session closed, profile and privacy updates | the count and the presence are written in two steps; who may see what changes under the events |
| messages (`service.rs:3223-4027`, `4479-5269`) | the log of a conversation, receipts, read positions, marks, scheduled messages | send, forward, recall, receive, read, react, schedule, cancel, deliver | repeated requests, a worker of two mutations, members who leave and return |
| attachments (`service.rs:1573-1821`, server `api.rs`, `object_store.rs`, `malware.rs`, `main.rs`) | record, object, references | authorise, put, complete, scan, quarantine, refer, download, sweep | verification and scan run outside the lock, next to the sweep |
| local cache (`client-core`) | rows, search index, the key in memory and in the credential store | switch encryption on and off, write, delete, clear, open | rows are rewritten while tasks with the old key write |
| chat window (`ui.rs`) | selection, timeline, list, group panel, composer, drafts | select, load, page, refresh, act, sign in and out | every answer comes back into a window that may have moved on |
| second factor, calls and typing, polls and announcements, reports, administration | see section 7 | | |

The client calls the server over REST; every operation of the service is one
`mutate`, which is atomic for readers of the store.  `mutate` appends events,
the WebSocket sessions forward those addressed to their user, the realtime
task moves its cursor and hands the event to the window, which updates the
timeline and the cache.  A client that was away asks `/sync` for the events
after its cursor.

What makes each part correct:

- events: an event addressed to a user reaches that user's window, or the
  cursor does not pass it, or it is lost to a cause that can be named; nobody gets another's event; cursors do not go
  back.
- sessions: nothing opens an account that is suspended, deleted or whose
  credentials were revoked; a refresh token is exchanged once; a presented
  consumed token closes its family for good.
- desktop session: the client never presents a consumed token of its own
  doing, and finds its way back to a live session.
- sending: a composed message is in the conversation once, leaves the outbox only
  for the server, and its status does not run ahead of the server.
- friends: a friendship is whole or not there, a block leaves nothing standing.
- presence: a user is offline when and only when no session is open, as far as
  sessions had the last word, and friends are shown what they may see.
- messages: nothing confirmed is lost, nothing is posted twice, receipts,
  positions and counts agree, a scheduled message is posted, cancelled or refused.
- attachments: what is referred to is stored; what is infected never becomes
  available; every upload ends.
- local cache: no step of a switch loses the key; no plain text stays behind.
- window: what is shown belongs to the selected conversation and becomes
  current; a text stays with its conversation.
- groups: one owner, settings for the members and nobody else, and no change
  of standing except by superiors.

## 2. The modules

| module | models | lines of |
|---|---|---|
| `EventStream` | log, channel, sessions, realtime task, bootstrap | `service.rs`, `websocket.rs`, `realtime.rs`, `ui.rs` |
| `EventFeed` | the contract of ADR 0002 with the losses the code has: append, receive, confirm | abstract specification |
| `EventStreamProofs` | theorems about `EventStream`, and that it implements `EventFeed` | |
| `Sessions`, `SessionsProofs` | accounts, devices, tokens, QR sign-in, password reset | `service.rs`, server `api.rs` |
| `ClientSession` | one desktop against `Sessions`, which it extends; its theorems are in `SessionsProofs` | desktop `api.rs`, `ui.rs` |
| `Outbox`, `OutboxProofs` | one desktop, its cache and outbox, one conversation at the server | `ui.rs`, `client-core`, `service.rs` |
| `Groups`, `GroupsProofs` | groups, join requests, deleted accounts | `service.rs`, `conversation.rs` |
| `Durability` | `mutate`: memory, the row in the database, late statements, restart | `service.rs` |
| `Messages`, `MessagesProofs` | the messages of a group and its scheduled messages; extends `Durability` | `service.rs`, `main.rs`, `conversation.rs` |
| `Contacts` | friend requests, friendships, blocks, direct conversations | `service.rs`, `friend.rs`, server `api.rs` |
| `Presence`, `PresenceProofs` | sessions, presence, privacy and what friends are told; extends `Contacts` | `service.rs`, `ui.rs` |
| `Attachments`, `AttachmentsProofs` | uploads from the desktop to the sweep, and what refers to them | `service.rs`, server, desktop |
| `LocalCache` | the encryption switch of the cache next to its writers | `client-core`, `ui.rs` |
| `DesktopView` | the chat window: timeline, list, panel, composer | `ui.rs`, `model.rs`, desktop `api.rs`, `service.rs` |
| `DesktopProofs` | theorems about `DesktopView`, and `LocalCache`, both of which it extends | |
| `MC*` | instances for TLC, symmetry | |

`PROJECT.json` maps every definition to the lines it stands for.

**EventStream.**  `Mutate` commits one to two events (`Bursts`) and leaves them
in the hands of a handler; `Publish` sends them to the channel, in a later
step, as the code does after it has released the lock.  `MutateDropped` is a
request given up during its statement: memory keeps the change and its events,
and nobody publishes them.  A session's queue holds `Capacity` events; `Lag`
drops what was overwritten and goes on, as `serve` does.  The client's steps are
those of `handle_server_frame` and `catch_up`: welcome, a page (`SyncPage`) or
its failure, a live event, which is dropped when its cursor is not above the
client's.  Pages are handed over when they arrive, the cursor moves when the
last one has, to the greatest of itself, the page's cursors and `next_cursor`.
`ServerCrash` loses the channel and the handlers' unpublished events, never the
log.  `Restart` is a new start of the client: a bootstrap read in parts, or,
without a network, the stored one, which `RefreshStored` renews while the client
runs (`refresh_bootstrap`).  `Withheld` is an event nobody is going to publish,
above the cursor of a client whose connection was open before it: it arrives
with the next connection.

**Sessions.**  A token of the module is a pair; a device stands for its token
family, because a new session always gets both new.  A request is
`Authenticate`d under one lock and executed under the next; between the two
anything may happen to its account.  Time is the four `Expire` actions.
`TakeQr` and `IssueQr` are the two halves of `poll_qr_login`.  A handler of a
`mutate` that fails is `RequestFails`.

**ClientSession.**  Each thread runs `authorized_json`, a sign-in or a logout
step by step; the gate is `refresh_gate`.  What the server does with a token is
the action of `Sessions`.  `Save` may fail (credential store), answers may be
lost (`RefreshUnreached` after the server has rotated), the client may restart
at any time, and an administrator may revoke the account elsewhere.  A QR
sign-in (`StartQrPoll`) does not look at `auth_busy`, so it may run next to a
sign-in by password or a logout.

**Outbox.**  A sender is the thread of a message (`send_pending_message`) or a
flush (`flush_ready_outbox`), which copies the ready rows and sends them one
by one.  A request is served, refused, or given up, and one given up may still
be served later.  The four places a message's status is kept (window, cache,
outbox, server) are separate variables; retry, discard, reload, cleared cache,
logout, login (of any account) and restart are the user's steps.  A request
carries the token of whoever is signed in when it is sent.  `session` says
whether the client has a token: a client started without the server has none
(`"Stored"`), and neither `Connect` nor a request gets anywhere with it.  A row
written under a key that was replaced meanwhile (`stray`) makes `ready_outbox`
fail for all rows.

**Groups.**  Roles are numbers in the order of `MemberRole`.  Operations of an
account deleted after its request was authenticated may still run (`late`).
`joined_at`, which decides between successors of the same role, is left out:
any of them may succeed.  Friendships change freely.

**Durability.**  The store is written under the lock, so nobody sees a `mutate`
half done and it is one step with an outcome: committed, failed (memory is put
back), or dropped, when the request's future is given up during the statement:
memory keeps the change, no events are published, and the row may be written
at once, later or never.  `Restart` reads the row.  `ConfirmedIsDurable` says
what the confirmed facts may rely on: `regressed` names the one exception, a
late statement that overwrites a newer row.

**Messages.**  Every operation is a `Mutate` of the store of one group.  A
message is known by its number, a client's message by its identifier, which is
what deduplication compares.  The worker copies the messages that are due
(`WorkerTick`) and sends and removes them one by one in two mutations each;
between them the author may cancel, be muted or leave, and the server may
restart.  `Sendable` is what `send_message_in_store` asks: the author's standing,
that those the message mentions are still members, and content that is not
refused (`refused`: an attachment that is not available, files the group no
longer allows).  A message that is refused stays scheduled and is tried again at
every tick, so `DueIsDelivered` says that it is posted, cancelled or refused.

**Contacts, Presence.**  An account deleted after its request was authenticated
may still finish it (`running`).  A session counts itself in one step and
writes the presence in another (`WritePresence`), which uses the count as it
read it then.  `told` is what each user was last shown of another: an event
makes its recipients fetch what they may see, so it tells them the truth of
that moment; the delivery itself is `EventStream`.  A login by password writes
`Online` with no session open, over whatever the user prefers, and appends no
event (`Login`); a new account starts in the same way; `UpdateProfile` writes what it is given.
Four history variables name what that and the races do: `unaware`, what a friend
sees of the user has changed without an event to them; `adrift`, the last write
of the presence was not for the count it found; `overtaken`, another session
connected between the count and the write of one that closes; `miscounted`, a
count went with a session that failed to open.

**Attachments.**  A handler of `complete_upload` verifies, scans, quarantines or
finishes in steps of its own, because the object store and the scanner are
asked outside the lock.  The presigned address stays valid after the file is
put, so `PutArrives` may happen again until `PutsEnd`, before and after
verification, scan and completion; `replaced` are the files whose object is not
the one that was verified.  The sweep removes records in one mutation and the
objects after it, one by one; a restart or a failing object store leaves the
rest behind (`escaped`).

**LocalCache.**  A row's content is the key it is encrypted with.  The switch
goes through the steps of `set_encryption_enabled`: the key to the credential
store, the rows in one transaction, the key in memory.  A task takes the key
before its transaction, so it may write with one that is out of date (`stray`).

**DesktopView.**  A request is `Asked`, then `Read` at the server, then applied in
whatever state the window is in.  `StillWanted` is the pair of comparisons
(generation and selection) that guards timelines; list answers, group answers
and answers about messages have weaker guards or none, and the `mishaps` name
what that leads to: a property of this module excuses exactly the states
behind a named race, and each name is needed (without it TLC finds the
counterexample).  Others post and recall in a conversation the account is not in,
without an event for it, and the event of a member may be lost, as `EventStream`
shows; `missed` are the messages whose last change the window was not told of,
one by one, until a page shows them.  The rows of the list are the conversations
the account is in without those it has hidden (`Listed`).  A sign-in reads them
and the position of the events in two steps (`ReadConversations`, `ReadCursor`),
and what changes in between is told by no event.  Two message actions may be
under way, because a change of the selection, a sign-in and a sign-out reset
`message_action_busy`; actions on contacts do not look at `action_busy` at all.

## 3. The runs

| run | checks | what it shows |
|---|---|---|
| `event_stream` | `SkippedOnlyIf`, `OnlyRecipients`, `CursorNeverRetreats`, `LiveEventsAreFresh` | @event_stream@ states: a cursor passes an undelivered event only for one of three causes (appended during a bootstrap, overtaken on the way to the channel, lost to lag), dropped requests included; live events are never duplicates |
| `event_feed` | `EventuallySettled`, `ImplementsFeed` | @event_feed@ states: every event is delivered or lost to one of the three causes, and the stream implements `EventFeed`, which names them, liveness included |
| `sessions` | `TokenSafety`, `SingleUse`, `LostFamiliesStayLost` | @sessions@ states: what opens an account after any mix of suspension, deletion, revocation, rotation, reuse, password changes, QR sign-ins and restarts |
| `client_session` | `NeverCutOffByItself`, `RestingTokensAreNewest` | @client_session@ states: parallel 401 answers, sign-ins by password and by QR code and logouts never make the client present a consumed token |
| `client_session_live` | `EveryCallReturns` | @client_session_live@ states: nobody waits for the gate for ever |
| `outbox` | `EntriesUnique`, `QueuedOrOnServer`, `SentIsOnServer`, `DiscardIsFinal`, `OutboxDrains` | @outbox@ states of one message, its thread, two flushes and two accounts: a queued message is in the outbox or at the server, once for each sender, and a client with a token empties its outbox |
| `groups` | `AtMostOneOwner`, `OwnershipMoves`, `SettingsFollowMembership`, `OnlySuperiorsAct` | @groups@ states of three users and a group |
| `attachments` | `ReferencedIsStored`, `OrphansOnlyIf`, `QuarantineIsFinal`, `UploadsSettle` | @attachments@ states: no sweep, late completion or crash takes away what is referred to, and every upload is completed or swept |
| `messages` | `ConfirmedIsDurable`, `PostedOnce`, `ReadsAgree`, `DueIsDelivered` | @messages@ states: failed and dropped commits, restarts, repeats, refusals and the two mutations of the worker |
| `presence` | `FriendshipsAreWhole`, `BlocksCut`, `PresenceFollowsSessions`, `FriendsAreTold` | @presence@ states of two users, one with two devices, who log in, connect and change what they show |
| `local_cache` | `KeyIsKept`, `IndexMatchesPlaintext`, `RowsFollowTheSwitch` | @local_cache@ states: every interleaving of the switch with two writers, and an end of the process at each step |
| `desktop_view` | `ShownBelongs`, `ShownIsCurrent`, `TextStaysHome`, `ListIsCurrent` | @desktop_view@ states: two requests under way, answered in any order, next to events that may be lost, changes of the selection and of the rows |

Each module also states its type invariant (`TypeOK`), which is a theorem; of
`DesktopView` the theorem (`WellFormed`) has the types without the bounds, and the
`TypeOK` with them holds in its run when added to the configuration.
`TokenSafety` and `SingleUse` are conjunctions of named parts, each of which is
also a theorem.  For each property `PROJECT.json` names a mutant, a plausible
mistake in the code, that TLC finds with that property.

## 4. Bounds and fairness

- `EventStream`: one user suffices, because sessions share nothing but the log;
  two handlers are what overtaking needs, three events what a page boundary, a
  lagging queue of one and an overtaken event need together; one fault
  (`MaxFaults`: broken connection, failed page, dropped request, crash) and one
  restart.  The run with liveness has two events and two faults, so that the
  events of a dropped request wait for a connection that breaks.
- `Sessions`: three devices, because a QR challenge needs the approver's device
  and could wrongly open two more; three pairs for two rotations or a QR
  session; one request in progress is enough to be overtaken by everything
  else; a second reset token for the same user is left to the proof.
- `ClientSession`: two threads, three pairs, two devices (a sign-in next to a
  logout), one fault.  The liveness run has two pairs.
- `Outbox`: one message, because messages meet only in a flush's copy of the
  rows; two accounts, because rows carry none; two flushes, because
  `apply_bootstrap` resets `outbox_flushing` while one runs; two mishaps of any
  kind (`MaxMishaps`): lost requests and answers, refusals, lost connections,
  sessions and keys, logouts, restarts, cleared caches, messages retried or
  discarded by hand.  A logout and a lost answer send a message under two
  accounts; a failure and a retry by hand put a copy of a row that is out of
  date in a thread, a flush and the server at once.  Further mishaps repeat
  these.
- `Groups`: three users (applicant, friend, administrator) and one group; the
  member limit is 2 so that it is reached.
- `Attachments`: one file, because records share nothing, put as often as one
  likes while its address is valid; two users (owner and reader), two handlers
  that complete the same upload.
- `Messages`: two users, one of them a moderator, a message of each that is
  sent, scheduled or both, one of them with a mention of the other user, a log of three, three requests of clients and two
  faults: a dropped commit and the restart that shows it, or the late statement
  after a newer one.
- `Presence`: two sessions of one user are what overtaking needs; three direct
  conversations so that one is made again after a deletion; a user asks for
  `Online` or `Invisible` (`Choices`), which differ in what friends see; one who
  asks for `Offline` is excused by `PresenceFollowsSessions` and left to the
  proof; one failed write or restart.
- `LocalCache`: two rows, one in the search index and one not, two writers, and
  three keys, so that encryption is switched on, off and on again while a task
  still has the first key.
- `DesktopView`: two conversations, two requests under way, two changes of the
  rows (`MaxChanges`: the account leaves and is added again, or hides one), two
  timeline loads (`MaxLoads`: that of the sign-in and one more selection) and one
  input of the user (`MaxInputs`: a text typed, a panel opened or an action
  started), with pages of two messages.  Four posts or recalls (`MaxLog`; the
  recall of a message whose forward is still to be answered comes on top) are
  what it takes to load an older page and to change a message in the middle of
  it; with pages of one message the mistake of `PrependedOver` would not be seen.
  The constraint `Scope` keeps these dimensions apart: changes of the rows next to
  one change of a message; two changes of messages next to changes of the
  selection, at most one of them missed; more of them only in an account of one
  conversation, with none missed.  A message posted while the account is out of
  the conversation, and the account added again before the list is read, is
  within it.  The proofs have no such bound.

Identifiers are only compared, so runs of safety properties use symmetry; runs
of liveness properties do not.

Fairness is weak and per step of a task or thread: tokio tasks and OS threads
that can run do run, timers fire, a request is answered or times out (the
HTTP client has a timeout), a client that is disconnected and has a token
reconnects.  A handler of `EventStream` that has begun to publish goes on,
because it awaits nothing from there on; one that is dropped before never
publishes, and nothing is assumed of when.  The delivery worker ticks and the times of scheduled messages and of uploads
pass; a request of `Attachments` is answered or fails; the sweep runs.
`Outbox` assumes in addition that mishaps are finitely many, which is what
`MaxMishaps` says: a server that refuses a message for ever is retried for
ever.  Nothing is assumed of users, administrators or crashes, nor of expiry in
`Sessions`.

## 5. The proofs

TLAPS proves, for all values of the constants (`PROJECT.json` "theorems"), the
type invariant of each module below and the properties named.  Each proof rests
on one inductive invariant, called `IInv`, which TLC has checked on the
instances of the runs.

- `EventStreamProofs`: `SkippedOnlyIf`, `OnlyRecipients`.  The inductive invariant
  says of every event between its commit and a user's cursor where it is: in the
  hands of a handler, in the session's queue, still ahead of the page being
  read, delivered, or lost to one of the three causes; the queue and the pages
  are ordered.  `SkippedOnlyIf` alone is not inductive: whether a live event may
  move the cursor depends on what lies in the queue and in the handlers' hands.
  `CursorNeverRetreats` and `LiveEventsAreFresh` need one thing more (`FreshInv`):
  a failed catch-up leaves events above the cursor with the interface, and the
  next welcome frame shows a cursor that none of them lies above.
- The same module proves that `EventStream` implements the safety part of
  `EventFeed` (`ImplementsFeedSafety`), with any handlers, lag, restarts and dropped
  requests: the contract names the losses, and the steps that cause them map to
  steps of it (`Lag` to `FallBehind`, `Publish` to `Send`, the bootstrap to `Start`).
  `ReceiveEvent` and `SyncPage` are its `Receive`; that the cursor passes nothing
  but what has arrived or is excused is `SkippedOnlyIf` in the next state.
  `Mutate` and `MutateDropped` are its `Commit`; the events of a dropped request
  are `held` from the users whose connection will not bring them, until it ends
  (`Renew`) or the cursor passes them.
- `SessionsProofs`: `TokenSafety` and `SingleUse` with their six parts, and the
  action property `LostFamiliesStayLost`.  The strengthening ties tokens to
  devices (a live token has a device that is not revoked and belongs to an
  account that is active or, for a QR challenge, approved by it), and challenges
  and reset tokens to their users.  The proofs are organised by what an
  operation does to the token table (issue, consume, revoke a set of devices,
  nothing), with one lemma per kind.
- The same module proves `NeverCutOffByItself` and `RestingTokensAreNewest` of
  `ClientSession`, and `OneRefresher`: for any number of threads and faults, the
  steps from reading the refresh token to installing its successor are one
  thread's at a time.  `ClientInv` adds to the invariant of `Sessions` where a
  consumed refresh token may be while no fault has happened: in memory, while the
  thread with its successor or the logout that consumed it is under way; in
  the credential store, until that thread has written or cleared it; on its way
  to the server, if its family has no live token left.  A new pair is in one
  thread's hands and nowhere else.  What other users do to the server is
  `Elsewhere`; a step of the server keeps issued pairs issued and dead families
  dead (`ServingStays`), by the lemma behind `LostFamiliesStayLost`.
- `GroupsProofs`: `AtMostOneOwner`, `SettingsFollowMembership` and the action
  properties `OwnershipMoves` and `OnlySuperiorsAct`.  The last is proved action by
  action, by what an operation touches: one row, the mute of the whole group, a
  row that a decided request brings, or the rows of a deleted account.
- `OutboxProofs`: `EntriesUnique`, `QueuedOrOnServer`, `SentIsOnServer`,
  `DiscardIsFinal`, for any messages, accounts and flushes.  The properties speak
  of the tables, the window and the server; the invariant adds what the threads
  carry between them: a thread past an accepting answer has a message that is at
  the server under some account, a message is queued before anybody but its own
  thread has it, and a queued message that was not dropped is in the outbox or
  at the server.
- `MessagesProofs`: `ConfirmedIsDurable`, `PostedOnce`, `ReadsAgree`.  A restart or a
  late statement brings another store back, so the invariant says of every
  store that may come back (memory, row, late snapshots) that it is sound and
  holds what was confirmed, unless it is older than a commit.
- `PresenceProofs`, over `Contacts` and `Presence`: `FriendshipsAreWhole`,
  `BlocksCut`, `PresenceFollowsSessions`, `FriendsAreTold`.  Friendships need a bound
  on what the requests of two users may still make of them.  Presence needs that
  the count is the number of sessions open or about to be (`CountInv`), that an
  offline write nobody has overtaken finds no connection (`OfflineInv`), and that
  a presence which contradicts the count, and was not left so by a login or a
  profile update (`adrift`), has its write under way (`WriteInv`), for finitely
  many sessions.  `FriendsAreTold` holds step by step: a write either tells every
  friend it concerns or puts the friend into `unaware`.
- `AttachmentsProofs`: `ReferencedIsStored`, `OrphansOnlyIf` and the action property
  `QuarantineIsFinal`.  A handler about to finish has seen the object some steps
  ago; the invariant says why one is still there: only the object of a record
  that is gone is deleted, and an object that is not the verified one has been
  put again by the client (`replaced`).
- `DesktopProofs`: `ShownBelongs`, `TextStaysHome`, `ListIsCurrent` and
  `ShownIsCurrent` of the window, for any conversations, requests under way and
  size of a page.  `Types` adds to the types that events are in order: one that is
  out of date is followed by the one that is not, or the window has missed that
  one (`EventsInv`).  `HomeInv` says that a
  signed-out window holds no text unless it was displaced; `ListInv`, that a list
  out of date, that on the screen or that of a sign-in under way, is about to be
  replaced, by a refresh under way or by one that a waiting event will start; `LoadInv`, that of the requests for pages of the
  present generation there is one for the newest page exactly while the window
  loads, and that older pages are asked for only afterwards; `CurrentInv`, that of
  each message on the screen, of the newest one, and of each message in an older
  page on its way that is not on the screen, the present content is there, or the
  event that brings it waits, or the window has missed it.  The window's steps are first sorted by what they
  touch (`Steps`), so that most need no more than one lemma (`SameScreen`).
- The same module proves `KeyIsKept`, `IndexMatchesPlaintext` and `RowsFollowTheSwitch`
  of `LocalCache`.  The invariant (`CacheInv`) says at each step of a switch where the
  mode, the key in memory and the key in the credential store are.

The assumptions are the named `ASSUME`s of the modules: the sentinel `None` is
no member of the sets it stands beside, the bounds are natural numbers, the page
size and the channel are not empty, users of groups and sessions are finitely
many, the rows with a text and the files that are images are some of the rows
and files.

Only model-checked: liveness (`EventuallySettled`, `EveryCallReturns`,
`OutboxDrains`, `UploadsSettle`, `DueIsDelivered`, and the fairness of `EventFeed` in
`ImplementsFeed`), which is out of reach of the prover here; and the bounds in the
`TypeOK` of `DesktopView`.

## 6. What the models refute

The modules state claims of the documentation, or of the code's own design,
that the code does not keep.  None of them is in a configuration; TLC finds the
counterexample when the definition takes the place of a run's properties.

| definition | claim | what happens |
|---|---|---|
| `EventStream!AtLeastOnce` | ADR 0002: delivery at least once | two handlers publish in the other order than they committed (`service.rs:711`), and the client drops the earlier event; a lagging session and an event committed during a bootstrap lose events in the same way; the events of a dropped request wait for the next connection |
| `EventStream!AppliedOnce` | `docs/ACCEPTANCE_CRITERIA.md:23` | a page handed over before its catch-up fails is handed over again |
| `ClientSession!OfflineStartRecovers` (fair) | `docs/OPERATIONS.md:25` | a client started without a network never obtains an access token again, because only a 401 answer leads to a refresh |
| `ClientSession!SignedOutHasNoToken` | | a logout that meets a refresh, or an abandoned QR poll that succeeds, leaves a live token |
| `ClientSession!RestorableSession` | | a late logout clears the credential store of the next sign-in |
| `Outbox!SentByAuthor` | `docs/ACCEPTANCE_CRITERIA.md:22` | rows of the outbox carry no account (`ui.rs:6986`); after a logout the next account sends them as its own |
| `Outbox!FailedCanBeRetried` | | a message a flush has sent is shown as failed |
| `Groups!GroupHasOwner` | `docs/GLOSSARY.md:7` | accepting a join request of somebody who is a member by now resets the role (`service.rs:2974`); the group may be left without an owner |
| `Groups!SettingsEndWithAccount` | `docs/DATA_RETENTION.md:11` | a join request outlives its applicant |
| `Attachments!SweepIsComplete` (fair) | `docs/DATA_RETENTION.md:8` | the record is removed first; when the object store fails, nobody tries again |
| `LocalCache!RowsReadable` | | a task writes a row with the key from before the switch |
| `DesktopView!OutdatedAnswersLose` | `docs/ACCEPTANCE_CRITERIA.md:23` | a list answer selects again what was selected when it was asked for, and does not load its messages |

The properties that are checked name their exceptions instead, and the
exceptions are findings of the same kind: a text typed while a list answer
moves the selection, or kept in the composer through a sign-out, becomes
another conversation's draft (`TextStaysHome`, against
`docs/ACCEPTANCE_CRITERIA.md:25`); the answer of a group action appears in the
panel of the group selected by then (`ShownBelongs`); the answer of a forward
puts back a message that was recalled meanwhile, a page read before an event
hides it, and a message posted while the account was out of the conversation is
missing when it is added again with the conversation still selected, each until
the next load (`ShownIsCurrent`); an old list answer that comes after a newer
one replaces it, and what changes between the two parts of a bootstrap is not
in the list until the next event of another kind (`ListIsCurrent`); the presence
written by an overtaken session stays wrong, and so does the `Online` of a login
whose device never connects (`service.rs:834`, `PresenceFollowsSessions`); that
login shows a user who chose to be invisible to any friend who looks, and tells
none, and a change of the settings for one friend is not told to that friend
(`FriendsAreTold`); a file put again after its completion is served without
having been verified or scanned (`ReferencedIsStored`); a scheduled message
whose mentioned member has left is refused at every tick
(`DueIsDelivered`); a row of the outbox under a key that is gone blocks all of
them (`OutboxDrains`); a statement given up may be executed after a later commit
and undo it in the database (`ConfirmedIsDurable`).  Three more are seen in the
modules without a property: `ui.rs:4500` tells the user that a hidden conversation
comes back with a new message, and no code brings it back (`Hide`); the member
limit is checked where members are added and not where a group is created or a
request accepted (`Groups`); messages sent one after the other by threads and
flushes are numbered as they arrive (`Outbox`).

## 7. What is not modelled

- Rendering, wording, validation of text, window, tray and notifications: pure
  layout and platform calls.  `ui.rs` and `api.rs` of the server are mostly this.
- The REST layer and OpenAPI, the rate limiter, configuration, error mapping:
  routing and formatting around the service; the state of the limiter is read
  by nothing else.
- Mailer, translation, transcription: I/O to other services.  The object store
  and the malware scanner are external parts of `Attachments`.
- The second factor: its state is read and written in one mutation of login and
  meets no other operation; `Sessions` counts it as knowing the credentials.
- Call rooms, typing indicators, the heartbeat counter and the WebSocket ticket:
  in memory only, and nothing in the store depends on them.
- Polls, announcements, reports, export, the audit log: single mutations with a
  guard on the membership of `Groups` and a list of their own.  A composition
  with `Groups` was tried and exceeds what TLC explores in minutes; without it
  there is nothing but their guards.
- Group names and avatars, languages and themes: data nothing else reads.
- Admin CLI, migrations, fuzz targets, scripts and deployment.

Within the modelled parts: `DesktopView` leaves out the offline start from a
stored bootstrap (it is in `EventStream`, `ClientSession` and `Outbox`) and the
unhiding of a conversation, which the API allows and the window never asks for.
In the other modules a `mutate` that fails changes nothing, which `Durability`
shows for the outcome `Failed`; the outcome `Dropped`, a change without its
events, is composed with `Messages` and, as `MutateDropped`, with `EventStream`.
`Sessions`, `Groups` and `Presence` take memory for what a restart brings back.
`EventStream` takes the statement of a dropped request to reach the database.

## 8. The plan

Done: the event path with its abstract specification, sessions and the
desktop's session, sending, groups, durability and messages, contacts and
presence, attachments, the local cache and the window; the theorems of section
5, which state every safety and action property of the runs.  Left, in this
order:

1. The log of `EventStream` over the row of `Durability`, so that a restart of the
   server may bring back a shorter log than clients have confirmed.
2. Announcements, polls and calls next to `Groups`, in an instance of two users.
