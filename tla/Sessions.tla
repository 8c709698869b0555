------------------------------- MODULE Sessions --------------------------------
(***************************************************************************)
(* Accounts, devices and the tokens that authenticate them: the session    *)
(* operations of ChatService.  Each is one mutate of the store, so one     *)
(* step; what is not one step is a request, whose caller is authenticated  *)
(* before its operation gets the store lock, and the poll of a QR login,   *)
(* which takes the challenge under one lock and issues the session under   *)
(* another.                                                                *)
(*                                                                         *)
(* issue_session gives an access and a refresh token to a new device under *)
(* a new token family, and a refresh keeps both, so a device stands for    *)
(* its family too, and a token of this module is the pair.                 *)
(***************************************************************************)
EXTENDS Naturals, FiniteSets

CONSTANTS
    Users, Passwords,
    Devices, Tokens,    \* identifiers not yet given out are fresh
    Challenges,         \* QR login challenges
    Resets,             \* password reset tokens
    Handlers,           \* requests in progress
    None                \* absence of a user, device, password or challenge

ASSUME NoneAssumption ==
    /\ None \notin Users \cup Devices \cup Passwords \cup Challenges
    /\ Passwords \cap Challenges = {}

VARIABLES
    account,     \* account[u]
    password,    \* password[u]
    owner,       \* owner[d]: user the device belongs to, None when fresh
    revoked,     \* revoked[d]: the device has a revoked_at
    origin,      \* origin[d]: password or challenge that authorised the device
    device,      \* device[t]: device of the token pair, None when fresh
    access,      \* access[t]: the access token of the pair
    refresh,     \* refresh[t]: the refresh token of the pair
    challenge,   \* challenge[c]
    approver,    \* approver[c]: user who approved the challenge
    reset,       \* reset[r]
    resetUser,   \* resetUser[r]: user whose password r may reset
    handler      \* handler[h]: user a request was authenticated as

accountVars == <<account, password>>
deviceVars == <<owner, revoked, origin>>
tokenVars == <<device, access, refresh>>
qrVars == <<challenge, approver>>
resetVars == <<reset, resetUser>>
vars == <<accountVars, deviceVars, tokenVars, qrVars, resetVars, handler>>

AccountStatus == {"Absent", "Active", "Suspended", "Deleted"}
AccessStatus == {"None", "Live", "Expired", "Revoked"}
RefreshStatus == AccessStatus \cup {"Consumed"}
ChallengeStatus == {"None", "Waiting", "Approved", "Taken", "Gone"}
ResetStatus == {"None", "Usable", "Consumed", "Expired", "Dropped"}

DevicesOf(u) == {d \in Devices : owner[d] = u}

\* authenticate_identity accepts the access token of t.
Authentic(t) ==
    /\ access[t] = "Live"
    /\ ~revoked[device[t]]
    /\ account[owner[device[t]]] = "Active"

--------------------------------------------------------------------------------
(***************************************************************************)
(* Issuing and revoking                                                    *)
(***************************************************************************)

\* issue_session_in_family: a fresh token pair for d.
IssueToken(d, t) ==
    /\ device[t] = None
    /\ device' = [device EXCEPT ![t] = d]

\* issue_session: a new device of u, authorised by o, with a token pair.
IssueSession(u, o) ==
    \E d \in Devices, t \in Tokens :
        /\ owner[d] = None
        /\ owner' = [owner EXCEPT ![d] = u]
        /\ origin' = [origin EXCEPT ![d] = o]
        /\ IssueToken(d, t)
        /\ access' = [access EXCEPT ![t] = "Live"]
        /\ refresh' = [refresh EXCEPT ![t] = "Live"]
        /\ UNCHANGED revoked

\* revoke_family and revoke_user_sessions: every record of the devices ds is
\* revoked; a consumed refresh token has no record any more.
RevokedAccess(ds) ==
    [t \in Tokens |-> IF device[t] \in ds THEN "Revoked" ELSE access[t]]

RevokedRefresh(ds) ==
    [t \in Tokens |-> IF device[t] \in ds /\ refresh[t] # "Consumed"
                      THEN "Revoked" ELSE refresh[t]]

RevokeTokens(ds) ==
    /\ access' = RevokedAccess(ds)
    /\ refresh' = RevokedRefresh(ds)
    /\ UNCHANGED device

\* revoke_user_sessions with a revocation time.
RevokeDevices(u) ==
    /\ RevokeTokens(DevicesOf(u))
    /\ revoked' = [d \in Devices |-> revoked[d] \/ owner[d] = u]
    /\ UNCHANGED <<owner, origin>>

--------------------------------------------------------------------------------
(***************************************************************************)
(* Operations that need no access token                                    *)
(***************************************************************************)

Register(u, p) ==
    /\ account[u] = "Absent"
    /\ account' = [account EXCEPT ![u] = "Active"]
    /\ password' = [password EXCEPT ![u] = p]
    /\ IssueSession(u, p)
    /\ UNCHANGED <<qrVars, resetVars, handler>>

Login(u, p) ==
    /\ account[u] = "Active"
    /\ password[u] = p
    /\ IssueSession(u, p)
    /\ UNCHANGED <<accountVars, qrVars, resetVars, handler>>

\* Mutant of Rotate: the exchanged token stays in the table.
RotateKeepingOld(t) ==
    /\ refresh[t] = "Live"
    /\ \E n \in Tokens :
         /\ IssueToken(device[t], n)
         /\ access' = [access EXCEPT ![n] = "Live"]
         /\ refresh' = [refresh EXCEPT ![n] = "Live"]
    /\ UNCHANGED <<accountVars, deviceVars, qrVars, resetVars, handler>>

\* Mutant of Rotate: revocation and expiry of the record are not looked at.
RotateAny(t) ==
    /\ refresh[t] \in {"Live", "Expired", "Revoked"}
    /\ \E n \in Tokens :
         /\ IssueToken(device[t], n)
         /\ access' = [access EXCEPT ![n] = "Live"]
         /\ refresh' = [refresh EXCEPT ![t] = "Consumed", ![n] = "Live"]
    /\ UNCHANGED <<accountVars, deviceVars, qrVars, resetVars, handler>>

\* A live refresh token is exchanged for a new pair of the same family.
Rotate(t) ==
    /\ refresh[t] = "Live"
    /\ account[owner[device[t]]] # "Deleted"
    /\ \E n \in Tokens :
         /\ IssueToken(device[t], n)
         /\ access' = [access EXCEPT ![n] = "Live"]
         /\ refresh' = [refresh EXCEPT ![t] = "Consumed", ![n] = "Live"]
    /\ UNCHANGED <<accountVars, deviceVars, qrVars, resetVars, handler>>

\* A refresh token presented again costs its family every token.
Reuse(t) ==
    /\ refresh[t] = "Consumed"
    /\ RevokeTokens({device[t]})
    /\ UNCHANGED <<accountVars, deviceVars, qrVars, resetVars, handler>>

\* Only a token that has not been consumed is logged out.
Logout(t) ==
    /\ refresh[t] \notin {"None", "Consumed"}
    /\ access' = RevokedAccess({device[t]})
    /\ refresh' = [RevokedRefresh({device[t]}) EXCEPT ![t] = "Consumed"]
    /\ UNCHANGED <<device, accountVars, deviceVars, qrVars, resetVars, handler>>

\* A new reset token drops the usable ones of the same user.
RequestReset(u) ==
    /\ account[u] \in {"Active", "Suspended"}
    /\ \E r \in Resets :
         /\ reset[r] = "None"
         /\ reset' = [s \in Resets |->
              IF s = r THEN "Usable"
              ELSE IF resetUser[s] = u /\ reset[s] = "Usable" THEN "Dropped"
              ELSE reset[s]]
         /\ resetUser' = [resetUser EXCEPT ![r] = u]
    /\ UNCHANGED <<accountVars, deviceVars, tokenVars, qrVars, handler>>

ResetPassword(r, p) ==
    /\ reset[r] = "Usable"
    /\ reset' = [reset EXCEPT ![r] = "Consumed"]
    /\ password' = [password EXCEPT ![resetUser[r]] = p]
    /\ RevokeDevices(resetUser[r])
    /\ UNCHANGED <<account, qrVars, resetUser, handler>>

--------------------------------------------------------------------------------
(***************************************************************************)
(* Requests: authenticated first, executed later                           *)
(***************************************************************************)

Authenticate(h, t) ==
    /\ handler[h] = None
    /\ device[t] # None
    /\ Authentic(t)
    /\ handler' = [handler EXCEPT ![h] = owner[device[t]]]
    /\ UNCHANGED <<accountVars, deviceVars, tokenVars, qrVars, resetVars>>

Answer(h) == handler' = [handler EXCEPT ![h] = None]

RevokeDevice(h, d) ==
    /\ handler[h] # None
    /\ owner[d] = handler[h]
    /\ revoked' = [revoked EXCEPT ![d] = TRUE]
    /\ RevokeTokens({d})
    /\ Answer(h)
    /\ UNCHANGED <<accountVars, owner, origin, qrVars, resetVars>>

\* The devices keep their records, their tokens are revoked.
ChangePassword(h, p, new) ==
    /\ handler[h] # None
    /\ password[handler[h]] = p
    /\ password' = [password EXCEPT ![handler[h]] = new]
    /\ RevokeTokens(DevicesOf(handler[h]))
    /\ Answer(h)
    /\ UNCHANGED <<account, deviceVars, qrVars, resetVars>>

DeleteAccount(h, p) ==
    /\ handler[h] # None
    /\ account[handler[h]] # "Deleted"
    /\ password[handler[h]] = p
    /\ account' = [account EXCEPT ![handler[h]] = "Deleted"]
    /\ RevokeDevices(handler[h])
    /\ reset' = [r \in Resets |->
         IF resetUser[r] = handler[h] THEN "Dropped" ELSE reset[r]]
    /\ Answer(h)
    /\ UNCHANGED <<password, qrVars, resetUser>>

\* The operation refuses, or fails in the database and is rolled back.
RequestFails(h) ==
    /\ handler[h] # None
    /\ Answer(h)
    /\ UNCHANGED <<accountVars, deviceVars, tokenVars, qrVars, resetVars>>

--------------------------------------------------------------------------------
(***************************************************************************)
(* Administration                                                          *)
(***************************************************************************)

Suspend(u) ==
    /\ account[u] \in {"Active", "Suspended"}
    /\ account' = [account EXCEPT ![u] = "Suspended"]
    /\ RevokeDevices(u)
    /\ UNCHANGED <<password, qrVars, resetVars, handler>>

Restore(u) ==
    /\ account[u] \in {"Active", "Suspended"}
    /\ account' = [account EXCEPT ![u] = "Active"]
    /\ UNCHANGED <<password, deviceVars, tokenVars, qrVars, resetVars, handler>>

RevokeSessions(u) ==
    /\ account[u] \in {"Active", "Suspended"}
    /\ RevokeDevices(u)
    /\ UNCHANGED <<accountVars, qrVars, resetVars, handler>>

--------------------------------------------------------------------------------
(***************************************************************************)
(* QR login: challenges live in memory only                                *)
(***************************************************************************)

BeginQr(c) ==
    /\ challenge[c] = "None"
    /\ challenge' = [challenge EXCEPT ![c] = "Waiting"]
    /\ UNCHANGED <<accountVars, deviceVars, tokenVars, approver, resetVars, handler>>

ApproveQr(h, c) ==
    /\ handler[h] # None
    /\ challenge[c] = "Waiting"
    /\ challenge' = [challenge EXCEPT ![c] = "Approved"]
    /\ approver' = [approver EXCEPT ![c] = handler[h]]
    /\ Answer(h)
    /\ UNCHANGED <<accountVars, deviceVars, tokenVars, resetVars>>

\* A poll takes an approved challenge out of the table ...
TakeQr(c) ==
    /\ challenge[c] = "Approved"
    /\ challenge' = [challenge EXCEPT ![c] = "Taken"]
    /\ UNCHANGED <<accountVars, deviceVars, tokenVars, approver, resetVars, handler>>

\* Mutant of IssueQr: the account of the approver is not looked at.
IssueQrUnchecked(c) ==
    /\ challenge[c] = "Taken"
    /\ challenge' = [challenge EXCEPT ![c] = "Gone"]
    /\ IssueSession(approver[c], c)
    /\ UNCHANGED <<accountVars, approver, resetVars, handler>>

\* ... and then issues the session,
IssueQr(c) ==
    /\ challenge[c] = "Taken"
    /\ account[approver[c]] = "Active"
    /\ challenge' = [challenge EXCEPT ![c] = "Gone"]
    /\ IssueSession(approver[c], c)
    /\ UNCHANGED <<accountVars, approver, resetVars, handler>>

\* ... or fails, and the challenge is lost.
QrFails(c) ==
    /\ challenge[c] = "Taken"
    /\ challenge' = [challenge EXCEPT ![c] = "Gone"]
    /\ UNCHANGED <<accountVars, deviceVars, tokenVars, approver, resetVars, handler>>

--------------------------------------------------------------------------------
(***************************************************************************)
(* Time and restarts                                                       *)
(***************************************************************************)

ExpireAccess(t) ==
    /\ access[t] = "Live"
    /\ access' = [access EXCEPT ![t] = "Expired"]
    /\ UNCHANGED <<accountVars, deviceVars, device, refresh, qrVars, resetVars, handler>>

\* Thirty days against fifteen minutes: the access token has expired before.
ExpireRefresh(t) ==
    /\ refresh[t] = "Live"
    /\ access[t] # "Live"
    /\ refresh' = [refresh EXCEPT ![t] = "Expired"]
    /\ UNCHANGED <<accountVars, deviceVars, device, access, qrVars, resetVars, handler>>

ExpireReset(r) ==
    /\ reset[r] = "Usable"
    /\ reset' = [reset EXCEPT ![r] = "Expired"]
    /\ UNCHANGED <<accountVars, deviceVars, tokenVars, qrVars, resetUser, handler>>

ExpireQr(c) ==
    /\ challenge[c] \in {"Waiting", "Approved"}
    /\ challenge' = [challenge EXCEPT ![c] = "Gone"]
    /\ UNCHANGED <<accountVars, deviceVars, tokenVars, approver, resetVars, handler>>

\* The store comes back from its snapshot; requests and challenges are gone.
Crash ==
    /\ handler' = [h \in Handlers |-> None]
    /\ challenge' = [c \in Challenges |->
         IF challenge[c] = "None" THEN "None" ELSE "Gone"]
    /\ UNCHANGED <<accountVars, deviceVars, tokenVars, approver, resetVars>>

--------------------------------------------------------------------------------
Init ==
    /\ account = [u \in Users |-> "Absent"]
    /\ password = [u \in Users |-> None]
    /\ owner = [d \in Devices |-> None]
    /\ revoked = [d \in Devices |-> FALSE]
    /\ origin = [d \in Devices |-> None]
    /\ device = [t \in Tokens |-> None]
    /\ access = [t \in Tokens |-> "None"]
    /\ refresh = [t \in Tokens |-> "None"]
    /\ challenge = [c \in Challenges |-> "None"]
    /\ approver = [c \in Challenges |-> None]
    /\ reset = [r \in Resets |-> "None"]
    /\ resetUser = [r \in Resets |-> None]
    /\ handler = [h \in Handlers |-> None]

Open(u) == \E p \in Passwords : Register(u, p) \/ Login(u, p)

Token(t) == Rotate(t) \/ Reuse(t) \/ Logout(t) \/ ExpireAccess(t) \/ ExpireRefresh(t)

Request(h) ==
    \/ \E t \in Tokens : Authenticate(h, t)
    \/ \E d \in Devices : RevokeDevice(h, d)
    \/ \E p, new \in Passwords : ChangePassword(h, p, new)
    \/ \E p \in Passwords : DeleteAccount(h, p)
    \/ \E c \in Challenges : ApproveQr(h, c)
    \/ RequestFails(h)

Administer(u) == Suspend(u) \/ Restore(u) \/ RevokeSessions(u)

Qr(c) == BeginQr(c) \/ TakeQr(c) \/ IssueQr(c) \/ QrFails(c) \/ ExpireQr(c)

Resetting ==
    \/ \E u \in Users : RequestReset(u)
    \/ \E r \in Resets : ExpireReset(r) \/ \E p \in Passwords : ResetPassword(r, p)

Next ==
    \/ \E u \in Users : Open(u) \/ Administer(u)
    \/ \E t \in Tokens : Token(t)
    \/ \E h \in Handlers : Request(h)
    \/ \E c \in Challenges : Qr(c)
    \/ Resetting
    \/ Crash

Spec == Init /\ [][Next]_vars

--------------------------------------------------------------------------------
(***************************************************************************)
(* Properties                                                              *)
(***************************************************************************)

TypeOK ==
    /\ account \in [Users -> AccountStatus]
    /\ password \in [Users -> Passwords \cup {None}]
    /\ owner \in [Devices -> Users \cup {None}]
    /\ revoked \in [Devices -> BOOLEAN]
    /\ origin \in [Devices -> Passwords \cup Challenges \cup {None}]
    /\ device \in [Tokens -> Devices \cup {None}]
    /\ access \in [Tokens -> AccessStatus]
    /\ refresh \in [Tokens -> RefreshStatus]
    /\ challenge \in [Challenges -> ChallengeStatus]
    /\ approver \in [Challenges -> Users \cup {None}]
    /\ reset \in [Resets -> ResetStatus]
    /\ resetUser \in [Resets -> Users \cup {None}]
    /\ handler \in [Handlers -> Users \cup {None}]

TokensOf(d) == {t \in Tokens : device[t] = d}

Live(t) == access[t] = "Live" \/ refresh[t] = "Live"

\* A suspended or deleted account has no token that opens anything, although
\* refresh does not look at the suspension: every way to a token that was open
\* when the account was closed, a QR challenge it had approved and requests in
\* progress included, ends there.
ClosedAccountsHaveNoTokens ==
    \A t \in Tokens : Live(t) => account[owner[device[t]]] = "Active"

\* The refresh tokens of a family form a chain: one can be exchanged at most,
\* so two holders of a family cannot both go on.
OneLiveRefreshPerFamily ==
    \A s, t \in Tokens :
        refresh[s] = "Live" /\ refresh[t] = "Live" /\ device[s] = device[t] => s = t

\* A device once revoked never has a token again, by refresh or otherwise.
RevokedDevicesHaveNoTokens ==
    \A t \in Tokens : Live(t) => ~revoked[device[t]]

\* Sessions opened with a password, with all their refreshes, do not outlive
\* it; only a session a QR challenge opened may have been approved before the
\* password changed.
TokensKnowThePassword ==
    \A t \in Tokens : Live(t) =>
        LET d == device[t]
        IN  origin[d] = password[owner[d]] \/ origin[d] \in Challenges

\* However many polls, approvals, failures and restarts: one challenge, one device,
\* and that of the user who approved it.
ChallengeOpensOneDevice ==
    \A c \in Challenges : \A d, e \in Devices :
        /\ origin[d] = c /\ origin[e] = c => d = e
        /\ origin[d] = c => owner[d] = approver[c]

\* Of all the reset tokens mailed to a user one is usable, and none when the
\* account is deleted.
OneUsableReset ==
    \A r \in Resets : reset[r] = "Usable" =>
        /\ account[resetUser[r]] # "Deleted"
        /\ \A s \in Resets : reset[s] = "Usable" /\ resetUser[s] = resetUser[r] => s = r

\* A token that works belongs to an open account, to a device that is not revoked, and to the
\* password of now or a QR approval: issue_session, refresh and every revocation keep to that.
TokenSafety ==
    ClosedAccountsHaveNoTokens /\ RevokedDevicesHaveNoTokens /\ TokensKnowThePassword

\* What is meant to be used once opens one thing: a refresh token one successor, a QR challenge
\* one device, the mailed reset tokens one new password.
SingleUse ==
    OneLiveRefreshPerFamily /\ ChallengeOpensOneDevice /\ OneUsableReset

\* A family that has lost its refresh token, to reuse, logout, revocation or
\* time, never gets one again.
LostFamiliesStayLost ==
    [][\A d \in Devices :
         owner[d] # None /\ (\A t \in TokensOf(d) : refresh[t] # "Live") =>
           \A t \in Tokens : device'[t] = d => refresh'[t] # "Live"]_vars
================================================================================
