----------------------------- MODULE ClientSession -----------------------------
(***************************************************************************)
(* How a desktop client holds its session: the calls of ApiClient that     *)
(* read, replace or drop the tokens, running in parallel threads, against  *)
(* the token operations of Sessions.                                       *)
(*                                                                         *)
(* A thread takes the client's session mutex only to read or to replace    *)
(* the tokens in memory, and writes the credential store outside it.       *)
(* refresh_gate is held from the decision to refresh to the end of the     *)
(* retried request; login and logout do not take it.                       *)
(***************************************************************************)
EXTENDS Sessions

CONSTANTS
    Threads,      \* background threads of the client that may call the server
    User,         \* the user of this client
    MaxFaults     \* bound on lost answers, failed writes and restarts

ASSUME UserAssumption == User \in Users
ASSUME FaultsAssumption == MaxFaults \in Nat
ASSUME ThreadsAssumption == None \notin Threads \cup Tokens

VARIABLES
    memory,       \* memory.access, memory.refresh: pairs whose tokens are in memory
    stored,       \* pair whose refresh token is in the credential store
    gate,         \* thread that holds refresh_gate
    call,         \* call[th]: the call the thread executes
    pc,           \* pc[th]: what the thread does next
    token,        \* token[th]: pair the thread has sent or received
    signedIn,     \* the interface shows a signed-in user
    cutOff,       \* reuse detection has revoked a live family
    faults        \* faults so far

threadVars == <<call, pc, token>>
tokenStores == <<memory, stored>>
allVars == <<vars, tokenStores, gate, threadVars, signedIn, cutOff, faults>>

Calls == {"None", "Request", "Restore", "SignIn", "QrLogin", "Logout"}

Steps == {"Idle", "Request", "Gate", "ReadRefresh", "Retry", "Refresh", "Save",
          "Install", "ClearMemory", "ClearStore", "SignIn", "ReadLogout", "Logout"}

NoTokens == [access |-> None, refresh |-> None]

Fault == faults < MaxFaults /\ faults' = faults + 1

\* A call of kind c begins with step s.
Begin(th, c, s) ==
    /\ pc[th] = "Idle"
    /\ call' = [call EXCEPT ![th] = c]
    /\ pc' = [pc EXCEPT ![th] = s]

\* The thread goes on with step s and the pair t in its hands.
Continue(th, s, t) ==
    /\ pc' = [pc EXCEPT ![th] = s]
    /\ token' = [token EXCEPT ![th] = t]
    /\ UNCHANGED call

\* Mutant of Return: the guard of the gate is leaked.
ReturnWithGate(th) ==
    /\ call' = [call EXCEPT ![th] = "None"]
    /\ pc' = [pc EXCEPT ![th] = "Idle"]
    /\ token' = [token EXCEPT ![th] = None]
    /\ UNCHANGED gate

\* The call returns; if it has the gate, it gives it up.
Return(th) ==
    /\ call' = [call EXCEPT ![th] = "None"]
    /\ pc' = [pc EXCEPT ![th] = "Idle"]
    /\ token' = [token EXCEPT ![th] = None]
    /\ gate' = IF gate = th THEN None ELSE gate

\* A call that failed: a client restoring its session goes on with the cached
\* bootstrap, if there is one.
Fail(th) ==
    /\ Return(th)
    /\ \/ UNCHANGED signedIn
       \/ call[th] = "Restore" /\ signedIn' = TRUE

--------------------------------------------------------------------------------
(***************************************************************************)
(* authorized_json                                                         *)
(***************************************************************************)

StartRequest(th) ==
    /\ memory.access # None
    /\ Begin(th, "Request", "Request")
    /\ token' = [token EXCEPT ![th] = memory.access]
    /\ UNCHANGED <<vars, tokenStores, gate, signedIn, cutOff, faults>>

\* Any answer but 401, and any answer to the retried request, is the caller's.
Answered(th) ==
    /\ \/ pc[th] = "Retry"
       \/ pc[th] = "Request" /\ Authentic(token[th])
    /\ Return(th)
    /\ UNCHANGED <<vars, tokenStores, signedIn, cutOff, faults>>

Rejected(th) ==
    /\ pc[th] = "Request"
    /\ ~Authentic(token[th])
    /\ Continue(th, "Gate", token[th])
    /\ UNCHANGED <<vars, tokenStores, gate, signedIn, cutOff, faults>>

\* Mutant of EnterGate: threads refresh without taking the gate.
EnterWithoutGate(th) ==
    /\ pc[th] = "Gate"
    /\ \/ memory.access = token[th] /\ Continue(th, "ReadRefresh", None)
       \/ memory.access \notin {token[th], None} /\ Continue(th, "Retry", memory.access)
    /\ UNCHANGED <<vars, tokenStores, gate, signedIn, cutOff, faults>>

\* Behind the gate the thread refreshes only if the token the server rejected
\* is still the one in memory; if it is not, it tries again with the new one.
EnterGate(th) ==
    /\ pc[th] = "Gate"
    /\ gate = None
    /\ \/ /\ memory.access = token[th]
          /\ Continue(th, "ReadRefresh", None)
          /\ gate' = th
       \/ /\ memory.access \notin {token[th], None}
          /\ Continue(th, "Retry", memory.access)
          /\ gate' = th
       \/ /\ memory.access = None
          /\ Return(th)
    /\ UNCHANGED <<vars, tokenStores, signedIn, cutOff, faults>>

--------------------------------------------------------------------------------
(***************************************************************************)
(* refresh_session, accept_session, clear_session                          *)
(***************************************************************************)

\* Without a refresh token in memory the refresh fails like a refused one.
ReadRefresh(th) ==
    /\ pc[th] = "ReadRefresh"
    /\ IF memory.refresh = None
       THEN Continue(th, "ClearMemory", None)
       ELSE Continue(th, "Refresh", memory.refresh)
    /\ UNCHANGED <<vars, tokenStores, gate, signedIn, cutOff, faults>>

\* The server exchanges the token; the thread receives the new pair, or the
\* answer is lost on its way.
RefreshServed(th) ==
    /\ pc[th] = "Refresh"
    /\ Rotate(token[th])
    /\ \/ /\ \E n \in Tokens : device'[n] # device[n] /\ Continue(th, "Save", n)
          /\ UNCHANGED <<gate, signedIn, faults>>
       \/ Fault /\ Fail(th)
    /\ UNCHANGED <<tokenStores, cutOff>>

\* The server takes the token for a stolen one and revokes the family.
RefreshReused(th) ==
    /\ pc[th] = "Refresh"
    /\ Reuse(token[th])
    /\ cutOff' = (cutOff \/ \E t \in TokensOf(device[token[th]]) : refresh[t] = "Live")
    /\ Continue(th, "ClearMemory", None)
    /\ UNCHANGED <<tokenStores, gate, signedIn, faults>>

RefreshRefused(th) ==
    /\ pc[th] = "Refresh"
    /\ refresh[token[th]] \in {"Expired", "Revoked"}
    /\ Continue(th, "ClearMemory", None)
    /\ UNCHANGED <<vars, tokenStores, gate, signedIn, cutOff, faults>>

\* The server is not reached, or answers with an error that is not a 401.
RefreshUnreached(th) ==
    /\ pc[th] = "Refresh"
    /\ Fail(th)
    /\ UNCHANGED <<vars, tokenStores, cutOff, faults>>

\* Mutant of Save: an entry of the credential store is not replaced.
SaveIfAbsent(th) ==
    /\ pc[th] = "Save"
    /\ \/ /\ stored' = IF stored = None THEN token[th] ELSE stored
          /\ Continue(th, "Install", token[th])
          /\ UNCHANGED <<gate, signedIn, faults>>
       \/ Fault /\ Fail(th) /\ UNCHANGED stored
    /\ UNCHANGED <<vars, memory, cutOff>>

\* accept_session writes the credential store first, and fails if it cannot.
Save(th) ==
    /\ pc[th] = "Save"
    /\ \/ /\ stored' = token[th]
          /\ Continue(th, "Install", token[th])
          /\ UNCHANGED <<gate, signedIn, faults>>
       \/ Fault /\ Fail(th) /\ UNCHANGED stored
    /\ UNCHANGED <<vars, memory, cutOff>>

\* What a poll for a QR login brings is not shown if the form has changed since; the tokens stay.
Install(th) ==
    /\ pc[th] = "Install"
    /\ memory' = [access |-> token[th], refresh |-> token[th]]
    /\ IF call[th] = "Request"
       THEN Continue(th, "Retry", token[th]) /\ UNCHANGED <<gate, signedIn>>
       ELSE Return(th) /\ (signedIn' = TRUE \/ (call[th] = "QrLogin" /\ UNCHANGED signedIn))
    /\ UNCHANGED <<vars, stored, cutOff, faults>>

\* clear_session: memory first, then the credential store.
ClearMemory(th) ==
    /\ pc[th] = "ClearMemory"
    /\ memory' = NoTokens
    /\ Continue(th, "ClearStore", None)
    /\ UNCHANGED <<vars, stored, gate, signedIn, cutOff, faults>>

ClearStore(th) ==
    /\ pc[th] = "ClearStore"
    /\ stored' = None
    /\ Return(th)
    /\ UNCHANGED <<vars, memory, signedIn, cutOff, faults>>

--------------------------------------------------------------------------------
(***************************************************************************)
(* Signing in and out, restarting                                          *)
(***************************************************************************)

\* auth_busy admits one sign-in at a time, the restored session's included.
StartSignIn(th) ==
    /\ ~signedIn
    /\ \A other \in Threads : call[other] \notin {"SignIn", "Restore"}
    /\ Begin(th, "SignIn", "SignIn")
    /\ UNCHANGED <<vars, tokenStores, gate, token, signedIn, cutOff, faults>>

\* poll_qr_login every two seconds, whatever auth_busy says: a sign-in with a password, an earlier
\* poll or the session restored can be under way.
StartQrPoll(th) ==
    /\ ~signedIn
    /\ Begin(th, "QrLogin", "SignIn")
    /\ UNCHANGED <<vars, tokenStores, gate, token, signedIn, cutOff, faults>>

SignInServed(th) ==
    /\ pc[th] = "SignIn"
    /\ Open(User)
    /\ \/ /\ \E n \in Tokens : device'[n] # device[n] /\ Continue(th, "Save", n)
          /\ UNCHANGED <<gate, faults>>
       \/ Fault /\ Return(th)
    /\ UNCHANGED <<tokenStores, signedIn, cutOff>>

\* Refused, or the QR login is still pending.
SignInFails(th) ==
    /\ pc[th] = "SignIn"
    /\ Return(th)
    /\ UNCHANGED <<vars, tokenStores, signedIn, cutOff, faults>>

\* The interface shows the sign-in form at once; a thread does the rest.
StartLogout(th) ==
    /\ signedIn
    /\ Begin(th, "Logout", "ReadLogout")
    /\ signedIn' = FALSE
    /\ UNCHANGED <<vars, tokenStores, gate, token, cutOff, faults>>

ReadLogout(th) ==
    /\ pc[th] = "ReadLogout"
    /\ IF memory.refresh = None
       THEN Continue(th, "ClearMemory", None)
       ELSE Continue(th, "Logout", memory.refresh)
    /\ UNCHANGED <<vars, tokenStores, gate, signedIn, cutOff, faults>>

\* The server knows the token, or it has consumed it and does nothing, or it
\* is not reached; the client does not look at the answer.
LogoutServed(th) ==
    /\ pc[th] = "Logout"
    /\ \/ Logout(token[th]) /\ UNCHANGED faults
       \/ refresh[token[th]] = "Consumed" /\ UNCHANGED <<vars, faults>>
       \/ Fault /\ UNCHANGED vars
    /\ Continue(th, "ClearMemory", None)
    /\ UNCHANGED <<tokenStores, gate, signedIn, cutOff>>

\* The process ends and starts again; restore puts the stored refresh token
\* into memory and exchanges it behind the gate.
Restart(th) ==
    /\ Fault
    /\ LET again == stored # None
       IN  /\ call' = [o \in Threads |-> IF again /\ o = th THEN "Restore" ELSE "None"]
           /\ pc' = [o \in Threads |-> IF again /\ o = th THEN "ReadRefresh" ELSE "Idle"]
           /\ gate' = IF again THEN th ELSE None
    /\ memory' = [access |-> None, refresh |-> stored]
    /\ token' = [o \in Threads |-> None]
    /\ signedIn' = FALSE
    /\ UNCHANGED <<vars, stored, cutOff>>

--------------------------------------------------------------------------------
\* What happens to the session without this client.
Elsewhere ==
    /\ \/ RevokeSessions(User)
       \/ \E t \in Tokens : ExpireAccess(t) \/ ExpireRefresh(t)
    /\ UNCHANGED <<tokenStores, gate, threadVars, signedIn, cutOff, faults>>

DesktopInit ==
    /\ Init
    /\ memory = NoTokens
    /\ stored = None
    /\ gate = None
    /\ call = [th \in Threads |-> "None"]
    /\ pc = [th \in Threads |-> "Idle"]
    /\ token = [th \in Threads |-> None]
    /\ signedIn = FALSE
    /\ cutOff = FALSE
    /\ faults = 0

Start(th) == StartRequest(th) \/ StartSignIn(th) \/ StartQrPoll(th) \/ StartLogout(th)

Advance(th) ==
    \/ Answered(th) \/ Rejected(th) \/ EnterGate(th) \/ ReadRefresh(th)
    \/ RefreshServed(th) \/ RefreshReused(th) \/ RefreshRefused(th) \/ RefreshUnreached(th)
    \/ Save(th) \/ Install(th) \/ ClearMemory(th) \/ ClearStore(th)
    \/ SignInServed(th) \/ SignInFails(th) \/ ReadLogout(th) \/ LogoutServed(th)

DesktopNext ==
    \/ \E th \in Threads : Start(th) \/ Advance(th) \/ Restart(th)
    \/ Elsewhere

DesktopSpec == DesktopInit /\ [][DesktopNext]_allVars

\* Calls have time limits and mutexes are fair enough: a thread that can go on
\* does.  What users, clocks and administrators do is theirs.
FairDesktopSpec == DesktopSpec /\ \A th \in Threads : SF_allVars(Advance(th))

--------------------------------------------------------------------------------
(***************************************************************************)
(* Properties                                                              *)
(***************************************************************************)

DesktopTypeOK ==
    /\ memory \in [access : Tokens \cup {None}, refresh : Tokens \cup {None}]
    /\ stored \in Tokens \cup {None}
    /\ gate \in Threads \cup {None}
    /\ call \in [Threads -> Calls]
    /\ pc \in [Threads -> Steps]
    /\ token \in [Threads -> Tokens \cup {None}]
    /\ signedIn \in BOOLEAN
    /\ cutOff \in BOOLEAN
    /\ faults \in Nat

Quiet == \A th \in Threads : pc[th] = "Idle"

\* Parallel requests that all find their access token expired never make the
\* server see a refresh token twice: unless an answer was lost, a write of the
\* credential store failed or the process died, reuse detection revokes nothing
\* that lives.
NeverCutOffByItself == cutOff => faults > 0

\* Without faults the newest pair is never dropped while calls rest: the refresh
\* token in memory and the one in the credential store can both be exchanged
\* unless something outside the client ended them.
RestingTokensAreNewest ==
    faults = 0 /\ Quiet =>
        \A t \in {memory.refresh, stored} \ {None} : refresh[t] # "Consumed"

\* Refreshing is exclusive: two threads never have the same refresh token on its
\* way to the server, or a new pair on its way to the client's stores.
OneRefresher ==
    \A a, b \in Threads :
        /\ {call[a], call[b]} \subseteq {"Request", "Restore"}
        /\ {pc[a], pc[b]} \subseteq {"ReadRefresh", "Refresh", "Save", "Install"}
        => a = b

\* No call waits for ever, for the gate in particular, whoever fails inside it.
EveryCallReturns == \A th \in Threads : pc[th] # "Idle" ~> pc[th] = "Idle"

\* What docs/DATA_RETENTION.md says of refresh tokens: a logout revokes them.
SignedOutHasNoToken ==
    faults = 0 /\ Quiet /\ ~signedIn => \A t \in Tokens : refresh[t] # "Live"

\* What docs/ACCEPTANCE_CRITERIA.md says of restarts: a signed-in client whose
\* session lives can restore it from the credential store.
RestorableSession ==
    faults = 0 /\ Quiet /\ signedIn /\ (\E t \in Tokens : refresh[t] = "Live") =>
        stored # None

\* What docs/OPERATIONS.md says of a broken network: a signed-in client gets
\* back to the server by itself.
OfflineStartRecovers == signedIn ~> (memory.access # None \/ ~signedIn)
================================================================================
