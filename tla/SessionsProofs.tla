---------------------------- MODULE SessionsProofs -----------------------------
(***************************************************************************)
(* Proofs about Sessions, for every set of users, devices, tokens, QR      *)
(* challenges, reset tokens and concurrent requests, and about             *)
(* ClientSession, for every number of threads of the client and of faults. *)
(***************************************************************************)
EXTENDS ClientSession, TLAPS

--------------------------------------------------------------------------------
(***************************************************************************)
(* The inductive invariant                                                 *)
(***************************************************************************)

\* A token has a device and a device an owner from the moment they are given
\* out; a fresh device is not revoked and nothing authorised it.
GivenOut ==
    /\ \A t \in Tokens :
         /\ device[t] = None <=> access[t] = "None"
         /\ device[t] = None <=> refresh[t] = "None"
         /\ device[t] # None => owner[device[t]] # None
    /\ \A d \in Devices : owner[d] = None => ~revoked[d] /\ origin[d] = None

\* Only a challenge that is gone has opened a device.
SpentChallenges ==
    \A d \in Devices : origin[d] \in Challenges =>
        /\ challenge[origin[d]] = "Gone"
        /\ owner[d] = approver[origin[d]]

\* A challenge is approved by someone.
ApprovedBySomeone ==
    \A c \in Challenges : challenge[c] \in {"Approved", "Taken"} => approver[c] # None

\* A reset token that can be used is a user's.
UsableResetHasUser == \A r \in Resets : reset[r] = "Usable" => resetUser[r] # None

TokenInv ==
    /\ GivenOut
    /\ ClosedAccountsHaveNoTokens
    /\ OneLiveRefreshPerFamily
    /\ RevokedDevicesHaveNoTokens
    /\ TokensKnowThePassword

QrInv ==
    /\ SpentChallenges
    /\ ApprovedBySomeone
    /\ ChallengeOpensOneDevice

ResetInv == UsableResetHasUser /\ OneUsableReset

IInv == TypeOK /\ TokenInv /\ QrInv /\ ResetInv

--------------------------------------------------------------------------------
(***************************************************************************)
(* Types                                                                   *)
(***************************************************************************)

LEMMA InitType == Init => TypeOK
  BY NoneAssumption DEF Init, TypeOK, AccountStatus, AccessStatus, RefreshStatus,
     ChallengeStatus, ResetStatus

LEMMA RevokeTokensType ==
  ASSUME TypeOK, NEW ds, RevokeTokens(ds)
  PROVE  /\ device' = device
         /\ access' \in [Tokens -> AccessStatus]
         /\ refresh' \in [Tokens -> RefreshStatus]
  BY DEF TypeOK, RevokeTokens, RevokedAccess, RevokedRefresh, AccessStatus, RefreshStatus

LEMMA IssueSessionType ==
  ASSUME TypeOK, NEW u \in Users, NEW o \in Passwords \cup Challenges, IssueSession(u, o)
  PROVE  /\ owner' \in [Devices -> Users \cup {None}]
         /\ revoked' = revoked
         /\ origin' \in [Devices -> Passwords \cup Challenges \cup {None}]
         /\ device' \in [Tokens -> Devices \cup {None}]
         /\ access' \in [Tokens -> AccessStatus]
         /\ refresh' \in [Tokens -> RefreshStatus]
  BY DEF TypeOK, IssueSession, IssueToken, AccessStatus, RefreshStatus

LEMMA RevokeDevicesType ==
  ASSUME TypeOK, NEW u, RevokeDevices(u)
  PROVE  /\ owner' = owner
         /\ origin' = origin
         /\ revoked' \in [Devices -> BOOLEAN]
         /\ device' = device
         /\ access' \in [Tokens -> AccessStatus]
         /\ refresh' \in [Tokens -> RefreshStatus]
  <1>1. RevokeTokens(DevicesOf(u))
    BY DEF RevokeDevices
  <1>2. \A d \in Devices : (revoked[d] \/ owner[d] = u) \in BOOLEAN
    OBVIOUS
  <1>3. revoked' \in [Devices -> BOOLEAN]
    BY <1>2 DEF RevokeDevices
  <1> QED
    BY <1>1, <1>3, RevokeTokensType DEF RevokeDevices

LEMMA OpenType ==
  ASSUME TypeOK, NEW u \in Users, NEW p \in Passwords, Register(u, p) \/ Login(u, p)
  PROVE  TypeOK'
  <1>1. IssueSession(u, p)
    BY DEF Register, Login
  <1>2. CASE Register(u, p)
    BY <1>1, <1>2, IssueSessionType
       DEF Register, TypeOK, AccountStatus, qrVars, resetVars
  <1>3. CASE Login(u, p)
    BY <1>1, <1>3, IssueSessionType
       DEF Login, TypeOK, accountVars, qrVars, resetVars
  <1> QED
    BY <1>2, <1>3

LEMMA AdministerType ==
  ASSUME TypeOK, NEW u \in Users, Administer(u)
  PROVE  TypeOK'
  <1>1. CASE Suspend(u)
    BY <1>1, RevokeDevicesType
       DEF Suspend, TypeOK, AccountStatus, qrVars, resetVars
  <1>2. CASE Restore(u)
    BY <1>2 DEF Restore, TypeOK, AccountStatus, deviceVars, tokenVars, qrVars, resetVars
  <1>3. CASE RevokeSessions(u)
    BY <1>3, RevokeDevicesType DEF RevokeSessions, TypeOK, accountVars, qrVars, resetVars
  <1> QED
    BY <1>1, <1>2, <1>3 DEF Administer

LEMMA TokenType ==
  ASSUME TypeOK, NEW t \in Tokens, Token(t)
  PROVE  TypeOK'
  <1> USE DEF accountVars, deviceVars, qrVars, resetVars
  <1>1. CASE Rotate(t)
    <2>1. PICK n \in Tokens : 
            /\ IssueToken(device[t], n)
            /\ access' = [access EXCEPT ![n] = "Live"]
            /\ refresh' = [refresh EXCEPT ![t] = "Consumed", ![n] = "Live"]
      BY <1>1 DEF Rotate
    <2>2. /\ device' \in [Tokens -> Devices \cup {None}]
          /\ access' \in [Tokens -> AccessStatus]
          /\ refresh' \in [Tokens -> RefreshStatus]
      BY <2>1 DEF IssueToken, TypeOK, AccessStatus, RefreshStatus
    <2> QED
      BY <1>1, <2>2 DEF Rotate, TypeOK
  <1>2. CASE Reuse(t)
    BY <1>2, RevokeTokensType DEF Reuse, TypeOK
  <1>3. CASE Logout(t)
    BY <1>3 DEF Logout, RevokedAccess, RevokedRefresh, TypeOK, AccessStatus, RefreshStatus
  <1>4. CASE ExpireAccess(t)
    BY <1>4 DEF ExpireAccess, TypeOK, AccessStatus
  <1>5. CASE ExpireRefresh(t)
    BY <1>5 DEF ExpireRefresh, TypeOK, AccessStatus, RefreshStatus
  <1> QED
    BY <1>1, <1>2, <1>3, <1>4, <1>5 DEF Token

LEMMA RequestType ==
  ASSUME TypeOK, NEW h \in Handlers, Request(h)
  PROVE  TypeOK'
  <1> USE DEF accountVars, deviceVars, tokenVars, qrVars, resetVars
  <1>1. CASE \E t \in Tokens : Authenticate(h, t)
    BY <1>1 DEF Authenticate, TypeOK
  <1>2. CASE \E d \in Devices : RevokeDevice(h, d)
    BY <1>2, RevokeTokensType DEF RevokeDevice, Answer, TypeOK
  <1>3. CASE \E p, new \in Passwords : ChangePassword(h, p, new)
    BY <1>3, RevokeTokensType DEF ChangePassword, Answer, TypeOK
  <1>4. CASE \E p \in Passwords : DeleteAccount(h, p)
    BY <1>4, RevokeDevicesType DEF DeleteAccount, Answer, TypeOK, AccountStatus, ResetStatus
  <1>5. CASE \E c \in Challenges : ApproveQr(h, c)
    BY <1>5 DEF ApproveQr, Answer, TypeOK, ChallengeStatus
  <1>6. CASE RequestFails(h)
    BY <1>6 DEF RequestFails, Answer, TypeOK
  <1> QED
    BY <1>1, <1>2, <1>3, <1>4, <1>5, <1>6 DEF Request

LEMMA QrType ==
  ASSUME TypeOK, ApprovedBySomeone, NEW c \in Challenges, Qr(c)
  PROVE  TypeOK'
  <1> USE DEF accountVars, deviceVars, tokenVars, qrVars, resetVars, ChallengeStatus
  <1>1. CASE BeginQr(c)
    BY <1>1 DEF BeginQr, TypeOK
  <1>2. CASE TakeQr(c)
    BY <1>2 DEF TakeQr, TypeOK
  <1>3. CASE IssueQr(c)
    <2>1. approver[c] \in Users /\ IssueSession(approver[c], c)
      BY <1>3 DEF IssueQr, ApprovedBySomeone, TypeOK
    <2> QED
      BY <1>3, <2>1, IssueSessionType DEF IssueQr, TypeOK
  <1>4. CASE QrFails(c)
    BY <1>4 DEF QrFails, TypeOK
  <1>5. CASE ExpireQr(c)
    BY <1>5 DEF ExpireQr, TypeOK
  <1> QED
    BY <1>1, <1>2, <1>3, <1>4, <1>5 DEF Qr

LEMMA ResettingType ==
  ASSUME TypeOK, Resetting
  PROVE  TypeOK'
  <1> USE DEF accountVars, deviceVars, tokenVars, qrVars, ResetStatus
  <1>1. CASE \E u \in Users : RequestReset(u)
    BY <1>1 DEF RequestReset, TypeOK
  <1>2. CASE \E r \in Resets : ExpireReset(r)
    BY <1>2 DEF ExpireReset, TypeOK
  <1>3. CASE \E r \in Resets, p \in Passwords : ResetPassword(r, p)
    BY <1>3, RevokeDevicesType DEF ResetPassword, TypeOK
  <1> QED
    BY <1>1, <1>2, <1>3 DEF Resetting

--------------------------------------------------------------------------------
(***************************************************************************)
(* What the operations on tokens do to the tokens' invariant               *)
(***************************************************************************)

\* A new session of an active account, authorised by its password or a challenge.
LEMMA IssueKeeps ==
  ASSUME TypeOK, TypeOK', TokenInv,
         NEW u \in Users, NEW o \in Passwords \cup Challenges, IssueSession(u, o),
         account'[u] = "Active",
         o = password'[u] \/ o \in Challenges,
         \A v \in Users : v # u \/ account[u] # "Absent" =>
           account'[v] = account[v] /\ password'[v] = password[v]
  PROVE  TokenInv'
  <1>1. PICK d \in Devices, t \in Tokens :
          /\ owner[d] = None
          /\ device[t] = None
          /\ owner' = [owner EXCEPT ![d] = u]
          /\ origin' = [origin EXCEPT ![d] = o]
          /\ device' = [device EXCEPT ![t] = d]
          /\ access' = [access EXCEPT ![t] = "Live"]
          /\ refresh' = [refresh EXCEPT ![t] = "Live"]
          /\ revoked' = revoked
    BY DEF IssueSession, IssueToken
  <1>2. /\ device'[t] = d /\ owner'[d] = u /\ origin'[d] = o /\ ~revoked[d]
        /\ \A s \in Tokens : device[s] # d
    BY <1>1, NoneAssumption DEF TypeOK, TokenInv, GivenOut
  <1>3. \A s \in Tokens : s # t =>
          /\ device'[s] = device[s] /\ access'[s] = access[s] /\ refresh'[s] = refresh[s]
          /\ Live(s) => /\ device[s] \in Devices /\ device[s] # d
                        /\ owner'[device[s]] = owner[device[s]]
                        /\ owner[device[s]] \in Users
                        /\ origin'[device[s]] = origin[device[s]]
    BY <1>1, <1>2, NoneAssumption DEF TypeOK, TokenInv, GivenOut, Live
  <1>4. \A s \in Tokens : s # t /\ Live(s) =>
          LET v == owner[device[s]]
          IN  account[v] = "Active" /\ account'[v] = account[v] /\ password'[v] = password[v]
    BY <1>3 DEF TokenInv, ClosedAccountsHaveNoTokens
  <1>5. GivenOut'
    BY <1>1, <1>2, NoneAssumption DEF TypeOK, TokenInv, GivenOut
  <1>6. ClosedAccountsHaveNoTokens'
    BY <1>2, <1>3, <1>4 DEF ClosedAccountsHaveNoTokens, Live
  <1>7. OneLiveRefreshPerFamily'
    BY <1>2, <1>3 DEF TokenInv, OneLiveRefreshPerFamily
  <1>8. RevokedDevicesHaveNoTokens'
    BY <1>1, <1>2, <1>3 DEF TokenInv, RevokedDevicesHaveNoTokens, Live
  <1>9. TokensKnowThePassword'
    BY <1>2, <1>3, <1>4 DEF TokenInv, TokensKnowThePassword, Live
  <1> QED
    BY <1>5, <1>6, <1>7, <1>8, <1>9 DEF TokenInv

\* The family's only live refresh token passes its place on.
LEMMA RotateKeeps ==
  ASSUME TypeOK, TokenInv, NEW t \in Tokens, Rotate(t)
  PROVE  TokenInv'
  <1>1. PICK n \in Tokens :
          /\ device[n] = None
          /\ device' = [device EXCEPT ![n] = device[t]]
          /\ access' = [access EXCEPT ![n] = "Live"]
          /\ refresh' = [refresh EXCEPT ![t] = "Consumed", ![n] = "Live"]
    BY DEF Rotate, IssueToken
  <1>2. /\ refresh[t] = "Live" /\ n # t /\ device[t] # None /\ device[t] \in Devices
        /\ UNCHANGED <<account, password, owner, revoked, origin>>
    BY <1>1 DEF Rotate, TypeOK, TokenInv, GivenOut, accountVars, deviceVars
  <1>3. /\ device'[n] = device[t] /\ access'[n] = "Live" /\ refresh'[n] = "Live"
        /\ device'[t] = device[t] /\ access'[t] = access[t] /\ refresh'[t] = "Consumed"
        /\ \A s \in Tokens \ {n, t} :
             device'[s] = device[s] /\ access'[s] = access[s] /\ refresh'[s] = refresh[s]
    BY <1>1, <1>2 DEF TypeOK
  <1>4. GivenOut'
    <2>1. owner[device[t]] # None /\ owner' = owner /\ revoked' = revoked /\ origin' = origin
      BY <1>2 DEF TokenInv, GivenOut
    <2>2. \A s \in Tokens :
            /\ device'[s] = None <=> access'[s] = "None"
            /\ device'[s] = None <=> refresh'[s] = "None"
            /\ device'[s] # None => owner[device'[s]] # None
      BY <1>2, <1>3, <2>1 DEF TokenInv, GivenOut
    <2> QED
      BY <2>1, <2>2 DEF TokenInv, GivenOut
  <1>5. ClosedAccountsHaveNoTokens'
    BY <1>2, <1>3 DEF TokenInv, ClosedAccountsHaveNoTokens, Live
  <1>6. OneLiveRefreshPerFamily'
    BY <1>2, <1>3 DEF TokenInv, OneLiveRefreshPerFamily
  <1>7. RevokedDevicesHaveNoTokens'
    BY <1>2, <1>3 DEF TokenInv, RevokedDevicesHaveNoTokens, Live
  <1>8. TokensKnowThePassword'
    BY <1>2, <1>3 DEF TokenInv, TokensKnowThePassword, Live
  <1> QED
    BY <1>4, <1>5, <1>6, <1>7, <1>8 DEF TokenInv

\* Tokens only lose their life, those of the devices ds and of accounts and
\* passwords that change in particular, and revoked devices are in ds.
LEMMA RevocationKeeps ==
  ASSUME TypeOK, TypeOK', TokenInv, NEW ds,
         UNCHANGED <<owner, origin, device>>,
         \A t \in Tokens :
           /\ access[t] = "None" <=> access'[t] = "None"
           /\ refresh[t] = "None" <=> refresh'[t] = "None"
           /\ access'[t] = "Live" => access[t] = "Live" /\ device[t] \notin ds
           /\ refresh'[t] = "Live" => refresh[t] = "Live" /\ device[t] \notin ds,
         \A d \in Devices : revoked'[d] # revoked[d] => d \in ds /\ owner[d] # None,
         \A u \in Users : account[u] = "Active" =>
           \/ account'[u] = "Active" /\ password'[u] = password[u]
           \/ DevicesOf(u) \subseteq ds
  PROVE  TokenInv'
  <1>1. GivenOut'
    BY DEF TypeOK, TokenInv, GivenOut
  <1>2. \A t \in Tokens : Live(t)' =>
          /\ Live(t) /\ device[t] \in Devices \ ds
          /\ owner[device[t]] \in Users /\ account[owner[device[t]]] = "Active"
    BY DEF TypeOK, TokenInv, GivenOut, ClosedAccountsHaveNoTokens, Live
  <1>3. \A t \in Tokens : Live(t)' =>
          /\ account'[owner[device[t]]] = "Active"
          /\ password'[owner[device[t]]] = password[owner[device[t]]]
    BY <1>2 DEF DevicesOf
  <1>4. ClosedAccountsHaveNoTokens'
    BY <1>3 DEF ClosedAccountsHaveNoTokens
  <1>5. OneLiveRefreshPerFamily'
    BY DEF TokenInv, OneLiveRefreshPerFamily
  <1>6. RevokedDevicesHaveNoTokens'
    BY <1>2 DEF TokenInv, RevokedDevicesHaveNoTokens
  <1>7. TokensKnowThePassword'
    BY <1>2, <1>3 DEF TokenInv, TokensKnowThePassword
  <1> QED
    BY <1>1, <1>4, <1>5, <1>6, <1>7 DEF TokenInv

\* Nothing is revoked, tokens may expire and accounts may be opened again.
LEMMA ExpiryKeeps ==
  ASSUME TypeOK, TypeOK', TokenInv,
         UNCHANGED <<owner, origin, revoked, device, password>>,
         \A t \in Tokens :
           /\ access[t] = "None" <=> access'[t] = "None"
           /\ refresh[t] = "None" <=> refresh'[t] = "None"
           /\ access'[t] = "Live" => access[t] = "Live"
           /\ refresh'[t] = "Live" => refresh[t] = "Live",
         \A u \in Users : account[u] = "Active" => account'[u] = "Active"
  PROVE  TokenInv'
  <1>1. PICK ds : ds = {}
    OBVIOUS
  <1>2. \A t \in Tokens : device[t] \notin ds
    BY <1>1
  <1> QED
    BY <1>2, RevocationKeeps

LEMMA RevokeTokensEffect ==
  ASSUME TypeOK, TokenInv, NEW ds, None \notin ds, RevokeTokens(ds)
  PROVE  \A t \in Tokens :
           /\ access[t] = "None" <=> access'[t] = "None"
           /\ refresh[t] = "None" <=> refresh'[t] = "None"
           /\ access'[t] = "Live" => access[t] = "Live" /\ device[t] \notin ds
           /\ refresh'[t] = "Live" => refresh[t] = "Live" /\ device[t] \notin ds
  <1> SUFFICES ASSUME NEW t \in Tokens
               PROVE  /\ access[t] = "None" <=> access'[t] = "None"
                      /\ refresh[t] = "None" <=> refresh'[t] = "None"
                      /\ access'[t] = "Live" => access[t] = "Live" /\ device[t] \notin ds
                      /\ refresh'[t] = "Live" => refresh[t] = "Live" /\ device[t] \notin ds
    OBVIOUS
  <1>1. CASE device[t] \in ds
    BY <1>1 DEF RevokeTokens, RevokedAccess, RevokedRefresh, TokenInv, GivenOut
  <1>2. CASE device[t] \notin ds
    BY <1>2 DEF RevokeTokens, RevokedAccess, RevokedRefresh
  <1> QED
    BY <1>1, <1>2

LEMMA RevokeDevicesEffect ==
  ASSUME TypeOK, TokenInv, NEW u \in Users, RevokeDevices(u)
  PROVE  /\ UNCHANGED <<owner, origin, device>>
         /\ \A t \in Tokens :
              /\ access[t] = "None" <=> access'[t] = "None"
              /\ refresh[t] = "None" <=> refresh'[t] = "None"
              /\ access'[t] = "Live" => access[t] = "Live" /\ device[t] \notin DevicesOf(u)
              /\ refresh'[t] = "Live" => refresh[t] = "Live" /\ device[t] \notin DevicesOf(u)
         /\ \A d \in Devices : revoked'[d] # revoked[d] =>
              d \in DevicesOf(u) /\ owner[d] # None
  <1>1. None \notin DevicesOf(u) /\ RevokeTokens(DevicesOf(u))
    BY NoneAssumption DEF RevokeDevices, DevicesOf
  <1>2. \A d \in Devices : revoked'[d] # revoked[d] => d \in DevicesOf(u) /\ owner[d] # None
    BY NoneAssumption DEF RevokeDevices, DevicesOf, TypeOK
  <1> QED
    BY <1>1, <1>2, RevokeTokensEffect DEF RevokeDevices, RevokeTokens

LEMMA SameTokensKeep ==
  ASSUME TokenInv, UNCHANGED <<accountVars, deviceVars, tokenVars>>
  PROVE  TokenInv'
  BY DEF TokenInv, GivenOut, ClosedAccountsHaveNoTokens, OneLiveRefreshPerFamily,
     RevokedDevicesHaveNoTokens, TokensKnowThePassword, Live, accountVars, deviceVars,
     tokenVars

--------------------------------------------------------------------------------
(***************************************************************************)
(* Every step keeps the tokens' invariant                                  *)
(***************************************************************************)

LEMMA NextTokenInv ==
  ASSUME TypeOK, TypeOK', TokenInv, QrInv, ResetInv, [Next]_vars
  PROVE  TokenInv'
  <1>1. ASSUME NEW u \in Users, NEW p \in Passwords, Register(u, p)
        PROVE  TokenInv'
    <2>1. /\ IssueSession(u, p) /\ account'[u] = "Active" /\ password'[u] = p
          /\ account[u] = "Absent"
          /\ \A v \in Users : v # u => account'[v] = account[v] /\ password'[v] = password[v]
      BY <1>1 DEF Register, TypeOK
    <2> QED
      BY <2>1, IssueKeeps
  <1>2. ASSUME NEW u \in Users, NEW p \in Passwords, Login(u, p)
        PROVE  TokenInv'
    BY <1>2, IssueKeeps DEF Login, accountVars
  <1>3. ASSUME NEW u \in Users, Suspend(u)
        PROVE  TokenInv'
    <2>1. /\ RevokeDevices(u)
          /\ \A v \in Users : v # u => account'[v] = account[v] /\ password'[v] = password[v]
      BY <1>3 DEF Suspend, TypeOK
    <2> QED
      BY <2>1, RevokeDevicesEffect, RevocationKeeps
  <1>4. ASSUME NEW u \in Users, Restore(u)
        PROVE  TokenInv'
    <2>1. UNCHANGED <<owner, origin, revoked, device, access, refresh, password>>
      BY <1>4 DEF Restore, deviceVars, tokenVars
    <2>2. \A v \in Users : account[v] = "Active" => account'[v] = "Active"
      BY <1>4 DEF Restore, TypeOK
    <2>3. \A s \in Tokens :
            /\ access[s] = "None" <=> access'[s] = "None"
            /\ refresh[s] = "None" <=> refresh'[s] = "None"
            /\ access'[s] = "Live" => access[s] = "Live"
            /\ refresh'[s] = "Live" => refresh[s] = "Live"
      BY <2>1
    <2> QED
      BY <2>1, <2>2, <2>3, ExpiryKeeps
  <1>5. ASSUME NEW u \in Users, RevokeSessions(u)
        PROVE  TokenInv'
    BY <1>5, RevokeDevicesEffect, RevocationKeeps DEF RevokeSessions, accountVars
  <1>6. ASSUME NEW t \in Tokens, Rotate(t)
        PROVE  TokenInv'
    BY <1>6, RotateKeeps
  <1>7. ASSUME NEW t \in Tokens, Reuse(t)
        PROVE  TokenInv'
    <2>1. RevokeTokens({device[t]}) /\ None \notin {device[t]}
      BY <1>7 DEF Reuse, TokenInv, GivenOut
    <2>2. UNCHANGED <<owner, origin, revoked, device, account, password>>
      BY <1>7 DEF Reuse, RevokeTokens, accountVars, deviceVars
    <2> QED
      BY <2>1, <2>2, RevokeTokensEffect, RevocationKeeps
  <1>8. ASSUME NEW t \in Tokens, Logout(t)
        PROVE  TokenInv'
    <2>1. UNCHANGED <<owner, origin, revoked, device, account, password>>
      BY <1>8 DEF Logout, accountVars, deviceVars
    <2>2. device[t] # None /\ access[t] # "None" /\ refresh[t] # "None"
      BY <1>8 DEF Logout, TokenInv, GivenOut
    <2>3. \A s \in Tokens :
            /\ access[s] = "None" <=> access'[s] = "None"
            /\ refresh[s] = "None" <=> refresh'[s] = "None"
            /\ access'[s] = "Live" => access[s] = "Live" /\ device[s] # device[t]
            /\ refresh'[s] = "Live" => refresh[s] = "Live" /\ device[s] # device[t]
      BY <1>8, <2>2 DEF Logout, RevokedAccess, RevokedRefresh, TokenInv, GivenOut, TypeOK
    <2>4. \A s \in Tokens :
            /\ access'[s] = "Live" => device[s] \notin {device[t]}
            /\ refresh'[s] = "Live" => device[s] \notin {device[t]}
      BY <2>3
    <2> QED
      BY <2>1, <2>3, <2>4, RevocationKeeps
  <1>9. ASSUME NEW t \in Tokens, ExpireAccess(t) \/ ExpireRefresh(t)
        PROVE  TokenInv'
    <2>1. UNCHANGED <<owner, origin, revoked, device, account, password>>
      BY <1>9 DEF ExpireAccess, ExpireRefresh, accountVars, deviceVars
    <2>2. \A s \in Tokens :
            /\ access[s] = "None" <=> access'[s] = "None"
            /\ refresh[s] = "None" <=> refresh'[s] = "None"
            /\ access'[s] = "Live" => access[s] = "Live"
            /\ refresh'[s] = "Live" => refresh[s] = "Live"
      BY <1>9 DEF ExpireAccess, ExpireRefresh, TypeOK
    <2> QED
      BY <2>1, <2>2, ExpiryKeeps
  <1>10. ASSUME NEW h \in Handlers, NEW d \in Devices, RevokeDevice(h, d)
         PROVE  TokenInv'
    <2>1. RevokeTokens({d}) /\ None \notin {d} /\ owner[d] # None
      BY <1>10, NoneAssumption DEF RevokeDevice
    <2>2. UNCHANGED <<owner, origin, device, account, password>>
      BY <1>10 DEF RevokeDevice, RevokeTokens, accountVars
    <2>3. \A e \in Devices : revoked'[e] # revoked[e] => e \in {d} /\ owner[e] # None
      BY <1>10, <2>1 DEF RevokeDevice, TypeOK
    <2> QED
      BY <2>1, <2>2, <2>3, RevokeTokensEffect, RevocationKeeps
  <1>11. ASSUME NEW h \in Handlers, NEW p \in Passwords, NEW new \in Passwords,
                ChangePassword(h, p, new)
         PROVE  TokenInv'
    <2> DEFINE ds == DevicesOf(handler[h])
    <2>1. RevokeTokens(ds) /\ None \notin ds
      BY <1>11, NoneAssumption DEF ChangePassword, DevicesOf
    <2>2. UNCHANGED <<owner, origin, revoked, device, account>>
      BY <1>11 DEF ChangePassword, RevokeTokens, deviceVars
    <2>3. \A u \in Users : u # handler[h] => password'[u] = password[u]
      BY <1>11 DEF ChangePassword, TypeOK
    <2>4. \A u \in Users : password'[u] = password[u] \/ DevicesOf(u) \subseteq ds
      BY <2>3
    <2> QED
      BY <2>1, <2>2, <2>4, RevokeTokensEffect, RevocationKeeps
  <1>12. ASSUME NEW h \in Handlers, NEW p \in Passwords, DeleteAccount(h, p)
         PROVE  TokenInv'
    <2>1. /\ handler[h] \in Users /\ RevokeDevices(handler[h])
          /\ \A v \in Users : v # handler[h] =>
               account'[v] = account[v] /\ password'[v] = password[v]
      BY <1>12 DEF DeleteAccount, TypeOK
    <2>2. \A v \in Users :
            \/ account'[v] = account[v] /\ password'[v] = password[v]
            \/ DevicesOf(v) \subseteq DevicesOf(handler[h])
      BY <2>1
    <2> QED
      BY <2>1, <2>2, RevokeDevicesEffect, RevocationKeeps
  <1>13. ASSUME NEW c \in Challenges, IssueQr(c)
         PROVE  TokenInv'
    <2>1. approver[c] \in Users
      BY <1>13 DEF IssueQr, QrInv, ApprovedBySomeone, TypeOK
    <2> QED
      BY <1>13, <2>1, IssueKeeps DEF IssueQr, accountVars
  <1>14. ASSUME NEW r \in Resets, NEW p \in Passwords, ResetPassword(r, p)
         PROVE  TokenInv'
    <2>0. resetUser[r] \in Users
      BY <1>14 DEF ResetPassword, ResetInv, UsableResetHasUser, TypeOK
    <2>1. /\ RevokeDevices(resetUser[r]) /\ account' = account
          /\ \A v \in Users : v # resetUser[r] => password'[v] = password[v]
      BY <1>14 DEF ResetPassword, TypeOK
    <2>2. \A v \in Users :
            password'[v] = password[v] \/ DevicesOf(v) \subseteq DevicesOf(resetUser[r])
      BY <2>1
    <2> QED
      BY <2>0, <2>1, <2>2, RevokeDevicesEffect, RevocationKeeps
  <1>15. CASE UNCHANGED <<accountVars, deviceVars, tokenVars>>
    BY <1>15, SameTokensKeep
  <1>16. ASSUME NEW h \in Handlers, Request(h),
                ~ \E d \in Devices : RevokeDevice(h, d),
                ~ \E p, new \in Passwords : ChangePassword(h, p, new),
                ~ \E p \in Passwords : DeleteAccount(h, p)
         PROVE  UNCHANGED <<accountVars, deviceVars, tokenVars>>
    BY <1>16 DEF Request, Authenticate, ApproveQr, RequestFails
  <1>17. ASSUME NEW c \in Challenges, Qr(c), ~IssueQr(c)
         PROVE  UNCHANGED <<accountVars, deviceVars, tokenVars>>
    BY <1>17 DEF Qr, BeginQr, TakeQr, QrFails, ExpireQr
  <1>18. ASSUME Resetting, ~ \E r \in Resets, p \in Passwords : ResetPassword(r, p)
         PROVE  UNCHANGED <<accountVars, deviceVars, tokenVars>>
    BY <1>18 DEF Resetting, RequestReset, ExpireReset
  <1>19. ASSUME Crash \/ UNCHANGED vars
         PROVE  UNCHANGED <<accountVars, deviceVars, tokenVars>>
    BY <1>19 DEF Crash, vars
  <1>20. CASE \E u \in Users : Open(u) \/ Administer(u)
    BY <1>20, <1>1, <1>2, <1>3, <1>4, <1>5 DEF Open, Administer
  <1>21. CASE \E t \in Tokens : Token(t)
    BY <1>21, <1>6, <1>7, <1>8, <1>9 DEF Token
  <1>22. CASE \E h \in Handlers : Request(h)
    BY <1>22, <1>10, <1>11, <1>12, <1>15, <1>16
  <1>23. CASE \E c \in Challenges : Qr(c)
    BY <1>23, <1>13, <1>15, <1>17
  <1>24. CASE Resetting
    BY <1>24, <1>14, <1>15, <1>18
  <1> QED
    BY <1>15, <1>19, <1>20, <1>21, <1>22, <1>23, <1>24 DEF Next

--------------------------------------------------------------------------------
(***************************************************************************)
(* QR challenges and reset tokens                                          *)
(***************************************************************************)

\* Challenges that are gone stay gone, with the user who approved them, and
\* devices keep what authorised them.
LEMMA NextQrInv ==
  ASSUME TypeOK, TokenInv, QrInv, [Next]_vars
  PROVE  QrInv'
  <1>1. ASSUME NEW u \in Users, NEW o \in Passwords, IssueSession(u, o), UNCHANGED qrVars
        PROVE  QrInv'
    BY <1>1, NoneAssumption
       DEF IssueSession, qrVars, QrInv, SpentChallenges, ApprovedBySomeone,
           ChallengeOpensOneDevice, TypeOK, TokenInv, GivenOut
  <1>2. ASSUME NEW c \in Challenges, IssueQr(c)
        PROVE  QrInv'
    <2>1. PICK d \in Devices :
            /\ owner[d] = None
            /\ owner' = [owner EXCEPT ![d] = approver[c]]
            /\ origin' = [origin EXCEPT ![d] = c]
      BY <1>2 DEF IssueQr, IssueSession
    <2>2. /\ challenge[c] = "Taken" /\ approver' = approver
          /\ challenge' = [challenge EXCEPT ![c] = "Gone"]
      BY <1>2 DEF IssueQr
    <2>3. \A e \in Devices : origin[e] # c
      BY <2>2 DEF QrInv, SpentChallenges
    <2>4. SpentChallenges'
      BY <2>1, <2>2, <2>3 DEF QrInv, SpentChallenges, TypeOK
    <2>5. ApprovedBySomeone'
      BY <2>2 DEF QrInv, ApprovedBySomeone, TypeOK
    <2>6. ChallengeOpensOneDevice'
      BY <2>1, <2>2, <2>3 DEF QrInv, ChallengeOpensOneDevice, TypeOK
    <2> QED
      BY <2>4, <2>5, <2>6 DEF QrInv
  <1>3. ASSUME UNCHANGED <<owner, origin>>,
               \A c \in Challenges :
                 /\ challenge[c] = "Gone" => challenge'[c] = "Gone" /\ approver'[c] = approver[c]
                 /\ challenge'[c] \in {"Approved", "Taken"} => approver'[c] # None
        PROVE  QrInv'
    <2>1. SpentChallenges'
      BY <1>3 DEF QrInv, SpentChallenges, TypeOK
    <2>2. ApprovedBySomeone'
      BY <1>3 DEF ApprovedBySomeone
    <2>3. ChallengeOpensOneDevice'
      BY <1>3 DEF QrInv, SpentChallenges, ChallengeOpensOneDevice, TypeOK
    <2> QED
      BY <2>1, <2>2, <2>3 DEF QrInv
  <1>4. ASSUME UNCHANGED <<owner, origin, qrVars>>
        PROVE  QrInv'
    BY <1>3, <1>4 DEF QrInv, ApprovedBySomeone, qrVars
  <1>5. CASE \E u \in Users : Open(u)
    BY <1>5, <1>1 DEF Open, Register, Login
  <1>6. CASE \E u \in Users : Administer(u)
    BY <1>6, <1>4
       DEF Administer, Suspend, Restore, RevokeSessions, RevokeDevices, deviceVars
  <1>7. CASE \E t \in Tokens : Token(t)
    BY <1>7, <1>4
       DEF Token, Rotate, Reuse, Logout, ExpireAccess, ExpireRefresh, deviceVars
  <1>8. ASSUME NEW h \in Handlers, Request(h)
        PROVE  QrInv'
    <2>1. CASE \E c \in Challenges : ApproveQr(h, c)
      <3>1. PICK c \in Challenges : ApproveQr(h, c)
        BY <2>1
      <3>2. UNCHANGED <<owner, origin>> /\ challenge[c] = "Waiting" /\ handler[h] # None
        BY <3>1 DEF ApproveQr, deviceVars
      <3> QED
        BY <3>1, <3>2, <1>3 DEF ApproveQr, QrInv, ApprovedBySomeone, TypeOK
    <2>2. CASE ~ \E c \in Challenges : ApproveQr(h, c)
      <3>1. UNCHANGED <<owner, origin, qrVars>>
        BY <1>8, <2>2
           DEF Request, Authenticate, RevokeDevice, ChangePassword, DeleteAccount,
               RequestFails, RevokeDevices, deviceVars
      <3> QED
        BY <3>1, <1>4
    <2> QED
      BY <2>1, <2>2
  <1>9. ASSUME NEW c \in Challenges, Qr(c)
        PROVE  QrInv'
    <2>1. CASE IssueQr(c)
      BY <2>1, <1>2
    <2>2. CASE ~IssueQr(c)
      <3>1. /\ UNCHANGED <<owner, origin, approver>> /\ challenge[c] # "Gone"
            /\ challenge' = [challenge EXCEPT ![c] = challenge'[c]]
            /\ challenge'[c] = "Taken" => challenge[c] = "Approved"
            /\ challenge'[c] # "Approved"
        BY <1>9, <2>2
           DEF Qr, BeginQr, TakeQr, QrFails, ExpireQr, deviceVars, TypeOK
      <3> QED
        BY <3>1, <1>3 DEF QrInv, ApprovedBySomeone, TypeOK
    <2> QED
      BY <2>1, <2>2
  <1>10. CASE Resetting
    BY <1>10, <1>4
       DEF Resetting, RequestReset, ExpireReset, ResetPassword, RevokeDevices, deviceVars
  <1>11. CASE Crash
    <2>1. UNCHANGED <<owner, origin, approver>>
      BY <1>11 DEF Crash, deviceVars
    <2>2. \A c \in Challenges :
            /\ challenge[c] = "Gone" => challenge'[c] = "Gone"
            /\ challenge'[c] \notin {"Approved", "Taken"}
      BY <1>11 DEF Crash
    <2> QED
      BY <2>1, <2>2, <1>3
  <1>12. CASE UNCHANGED vars
    BY <1>12, <1>4 DEF vars, deviceVars
  <1> QED
    BY <1>5, <1>6, <1>7, <1>8, <1>9, <1>10, <1>11, <1>12 DEF Next

\* Reset tokens lose their use, or a fresh one replaces the usable ones of an
\* account that is open.
LEMMA NextResetInv ==
  ASSUME TypeOK, ResetInv, [Next]_vars
  PROVE  ResetInv'
  <1>1. ASSUME resetUser' = resetUser,
               \A r \in Resets : reset'[r] = "Usable" =>
                 /\ reset[r] = "Usable"
                 /\ account'[resetUser[r]] # "Deleted"
        PROVE  ResetInv'
    BY <1>1 DEF ResetInv, UsableResetHasUser, OneUsableReset
  <1>2. ASSUME UNCHANGED resetVars, UNCHANGED account
        PROVE  ResetInv'
    BY <1>2 DEF resetVars, ResetInv, UsableResetHasUser, OneUsableReset
  <1>3. ASSUME NEW u \in Users, UNCHANGED resetVars, account'[u] # "Deleted",
               \A v \in Users : v # u => account'[v] = account[v]
        PROVE  ResetInv'
    BY <1>3 DEF resetVars, ResetInv, UsableResetHasUser, OneUsableReset, TypeOK
  <1>4. CASE \E u \in Users : Open(u) \/ Administer(u)
    BY <1>4, <1>2, <1>3
       DEF Open, Administer, Register, Login, Suspend, Restore, RevokeSessions,
           accountVars, TypeOK
  <1>5. CASE \E t \in Tokens : Token(t)
    BY <1>5, <1>2
       DEF Token, Rotate, Reuse, Logout, ExpireAccess, ExpireRefresh, accountVars
  <1>6. ASSUME NEW h \in Handlers, Request(h)
        PROVE  ResetInv'
    <2>1. CASE \E p \in Passwords : DeleteAccount(h, p)
      <3>1. /\ resetUser' = resetUser /\ handler[h] \in Users
            /\ \A r \in Resets : reset'[r] = "Usable" =>
                 reset[r] = "Usable" /\ resetUser[r] # handler[h]
            /\ \A v \in Users : v # handler[h] => account'[v] = account[v]
        BY <2>1 DEF DeleteAccount, TypeOK
      <3> QED
        BY <3>1, <1>1 DEF ResetInv, UsableResetHasUser, OneUsableReset, TypeOK
    <2>2. CASE ~ \E p \in Passwords : DeleteAccount(h, p)
      BY <1>6, <2>2, <1>2
         DEF Request, Authenticate, RevokeDevice, ChangePassword, ApproveQr, RequestFails,
             accountVars
    <2> QED
      BY <2>1, <2>2
  <1>7. CASE \E c \in Challenges : Qr(c)
    BY <1>7, <1>2 DEF Qr, BeginQr, TakeQr, IssueQr, QrFails, ExpireQr, accountVars
  <1>8. ASSUME NEW u \in Users, RequestReset(u)
        PROVE  ResetInv'
    <2>1. PICK r \in Resets :
            /\ reset[r] = "None"
            /\ reset' = [s \in Resets |->
                 IF s = r THEN "Usable"
                 ELSE IF resetUser[s] = u /\ reset[s] = "Usable" THEN "Dropped"
                 ELSE reset[s]]
            /\ resetUser' = [resetUser EXCEPT ![r] = u]
      BY <1>8 DEF RequestReset
    <2>2. account' = account /\ account[u] # "Deleted"
      BY <1>8 DEF RequestReset, accountVars
    <2>3. resetUser'[r] = u /\ \A s \in Resets : s # r => resetUser'[s] = resetUser[s]
      BY <2>1 DEF TypeOK
    <2>4. \A s \in Resets : reset'[s] = "Usable" =>
            s = r \/ (s # r /\ reset[s] = "Usable" /\ resetUser[s] # u)
      BY <2>1
    <2> QED
      BY <2>2, <2>3, <2>4, NoneAssumption DEF ResetInv, UsableResetHasUser, OneUsableReset
  <1>9. ASSUME NEW r \in Resets, NEW p \in Passwords, ExpireReset(r) \/ ResetPassword(r, p)
        PROVE  ResetInv'
    <2>1. resetUser' = resetUser /\ account' = account
      BY <1>9 DEF ExpireReset, ResetPassword, accountVars
    <2>2. \A s \in Resets : reset'[s] = "Usable" => reset[s] = "Usable"
      BY <1>9 DEF ExpireReset, ResetPassword, TypeOK
    <2> QED
      BY <2>1, <2>2, <1>1 DEF ResetInv, OneUsableReset
  <1>10. CASE \E r \in Resets : ExpireReset(r)
    <2>1. PICK r \in Resets : ExpireReset(r)
      BY <1>10
    <2>2. resetUser' = resetUser /\ account' = account
      BY <2>1 DEF ExpireReset, accountVars
    <2>3. \A s \in Resets : reset'[s] = "Usable" => reset[s] = "Usable"
      BY <2>1 DEF ExpireReset, TypeOK
    <2> QED
      BY <2>2, <2>3, <1>1 DEF ResetInv, OneUsableReset
  <1>11. CASE Resetting
    BY <1>11, <1>8, <1>9, <1>10 DEF Resetting
  <1>12. CASE Crash \/ UNCHANGED vars
    BY <1>12, <1>2 DEF Crash, vars, accountVars
  <1> QED
    BY <1>4, <1>5, <1>6, <1>7, <1>11, <1>12 DEF Next

--------------------------------------------------------------------------------
(***************************************************************************)
(* The theorems                                                            *)
(***************************************************************************)

LEMMA InitIInv == Init => IInv
  BY InitType, NoneAssumption
     DEF Init, IInv, TokenInv, QrInv, ResetInv, GivenOut, ClosedAccountsHaveNoTokens,
         OneLiveRefreshPerFamily, RevokedDevicesHaveNoTokens, TokensKnowThePassword, Live,
         SpentChallenges, ApprovedBySomeone, ChallengeOpensOneDevice, UsableResetHasUser,
         OneUsableReset

LEMMA NextType ==
  ASSUME TypeOK, ApprovedBySomeone, [Next]_vars
  PROVE  TypeOK'
  <1>1. CASE \E u \in Users : Open(u) \/ Administer(u)
    BY <1>1, OpenType, AdministerType DEF Open
  <1>2. CASE Crash
    BY <1>2 DEF Crash, TypeOK, accountVars, deviceVars, tokenVars, resetVars, ChallengeStatus
  <1>3. CASE UNCHANGED vars
    BY <1>3 DEF vars, TypeOK, accountVars, deviceVars, tokenVars, qrVars, resetVars
  <1> QED
    BY <1>1, <1>2, <1>3, TokenType, RequestType, QrType, ResettingType DEF Next

LEMMA NextIInv == IInv /\ [Next]_vars => IInv'
  BY NextType, NextTokenInv, NextQrInv, NextResetInv DEF IInv, QrInv

\* Accounts, devices, tokens and challenges keep their shapes through every
\* operation of ChatService on sessions.
THEOREM TypeCorrect == Spec => []TypeOK
  <1>1. IInv => TypeOK
    BY DEF IInv
  <1> QED
    BY InitIInv, NextIInv, <1>1, PTL DEF Spec

\* A suspended or deleted account holds no token that authenticate_identity or
\* refresh accepts.
THEOREM ClosedAccountsHold == Spec => []ClosedAccountsHaveNoTokens
  <1>1. IInv => ClosedAccountsHaveNoTokens
    BY DEF IInv, TokenInv
  <1> QED
    BY InitIInv, NextIInv, <1>1, PTL DEF Spec

\* Rotation leaves a family at most one refresh token.
THEOREM OneLiveRefreshHolds == Spec => []OneLiveRefreshPerFamily
  <1>1. IInv => OneLiveRefreshPerFamily
    BY DEF IInv, TokenInv
  <1> QED
    BY InitIInv, NextIInv, <1>1, PTL DEF Spec

\* revoke_device, suspension, deletion and password reset are final for the
\* devices they revoke.
THEOREM RevokedDevicesHold == Spec => []RevokedDevicesHaveNoTokens
  <1>1. IInv => RevokedDevicesHaveNoTokens
    BY DEF IInv, TokenInv
  <1> QED
    BY InitIInv, NextIInv, <1>1, PTL DEF Spec

\* A changed password leaves no session that was opened with another one.
THEOREM TokensKnowThePasswordHolds == Spec => []TokensKnowThePassword
  <1>1. IInv => TokensKnowThePassword
    BY DEF IInv, TokenInv
  <1> QED
    BY InitIInv, NextIInv, <1>1, PTL DEF Spec

\* poll_qr_login opens one device per challenge, for the user who approved it.
THEOREM ChallengeOpensOneDeviceHolds == Spec => []ChallengeOpensOneDevice
  <1>1. IInv => ChallengeOpensOneDevice
    BY DEF IInv, QrInv
  <1> QED
    BY InitIInv, NextIInv, <1>1, PTL DEF Spec

\* request_password_reset leaves a user one reset token to use.
THEOREM OneUsableResetHolds == Spec => []OneUsableReset
  <1>1. IInv => OneUsableReset
    BY DEF IInv, ResetInv
  <1> QED
    BY InitIInv, NextIInv, <1>1, PTL DEF Spec

\* A refresh token that lives after a step lived before, or belongs to a device
\* that was fresh, or follows a live one of its family.
LEMMA LiveRefreshFrom ==
  ASSUME IInv, [Next]_vars, NEW t \in Tokens, refresh'[t] = "Live"
  PROVE  \/ refresh[t] = "Live" /\ device'[t] = device[t]
         \/ device'[t] \in Devices /\ owner[device'[t]] = None
         \/ \E s \in Tokens : refresh[s] = "Live" /\ device[s] = device'[t]
  <1> DEFINE Before == refresh[t] = "Live" /\ device'[t] = device[t]
  <1> USE DEF IInv
  <1>1. ASSUME NEW u \in Users, NEW o \in Passwords \cup Challenges, IssueSession(u, o), ~Before
        PROVE  device'[t] \in Devices /\ owner[device'[t]] = None
    BY <1>1 DEF IssueSession, IssueToken, TypeOK
  <1>2. ASSUME NEW ds, RevokeTokens(ds)
        PROVE  Before
    BY <1>2 DEF RevokeTokens, RevokedRefresh
  <1>3. ASSUME UNCHANGED tokenVars
        PROVE  Before
    BY <1>3 DEF tokenVars
  <1>4. CASE \E u \in Users : Open(u)
    BY <1>4, <1>1 DEF Open, Register, Login
  <1>5. CASE \E u \in Users : Administer(u)
    BY <1>5, <1>2, <1>3 DEF Administer, Suspend, Restore, RevokeSessions, RevokeDevices
  <1>6. ASSUME NEW s \in Tokens, Rotate(s), ~Before
        PROVE  refresh[s] = "Live" /\ device[s] = device'[t]
    BY <1>6 DEF Rotate, IssueToken, TypeOK
  <1>7. ASSUME NEW s \in Tokens, Token(s), ~Rotate(s)
        PROVE  Before
    BY <1>7 DEF Token, Reuse, Logout, ExpireAccess, ExpireRefresh, RevokeTokens,
                RevokedRefresh, TypeOK
  <1>8. CASE \E h \in Handlers : Request(h)
    BY <1>8, <1>2, <1>3
       DEF Request, Authenticate, RevokeDevice, ChangePassword, DeleteAccount, ApproveQr,
           RequestFails, RevokeDevices
  <1>9. ASSUME NEW c \in Challenges, IssueQr(c), ~Before
        PROVE  device'[t] \in Devices /\ owner[device'[t]] = None
    <2>1. approver[c] \in Users /\ IssueSession(approver[c], c)
      BY <1>9 DEF IssueQr, QrInv, ApprovedBySomeone, TypeOK
    <2> QED
      BY <1>9, <2>1, <1>1
  <1>10. ASSUME NEW c \in Challenges, Qr(c), ~IssueQr(c)
         PROVE  Before
    BY <1>10, <1>3 DEF Qr, BeginQr, TakeQr, QrFails, ExpireQr
  <1>11. CASE Resetting
    BY <1>11, <1>2, <1>3 DEF Resetting, RequestReset, ExpireReset, ResetPassword, RevokeDevices
  <1>12. CASE Crash \/ UNCHANGED vars
    BY <1>12, <1>3 DEF Crash, vars
  <1> QED
    BY <1>4, <1>5, <1>6, <1>7, <1>8, <1>9, <1>10, <1>11, <1>12 DEF Next

\* Tokens that work belong to open accounts, unrevoked devices and the present password or a QR
\* approval, for any number of users, devices, tokens and handlers.
THEOREM TokenSafetyHolds == Spec => []TokenSafety
  <1>1. IInv => TokenSafety
    BY DEF IInv, TokenInv, TokenSafety
  <1> QED
    BY InitIInv, NextIInv, <1>1, PTL DEF Spec

\* Refresh tokens, QR challenges and reset tokens are each good for one use.
THEOREM SingleUseHolds == Spec => []SingleUse
  <1>1. IInv => SingleUse
    BY DEF IInv, TokenInv, QrInv, ResetInv, SingleUse
  <1> QED
    BY InitIInv, NextIInv, <1>1, PTL DEF Spec

\* Once a family has lost its refresh token no operation gives it another.
THEOREM LostFamiliesHold == Spec => LostFamiliesStayLost
  <1> DEFINE Lost(d) == owner[d] # None /\ \A t \in TokensOf(d) : refresh[t] # "Live"
  <1>1. ASSUME IInv, [Next]_vars
        PROVE  \A d \in Devices : Lost(d) =>
                 \A t \in Tokens : device'[t] = d => refresh'[t] # "Live"
    BY <1>1, LiveRefreshFrom DEF TokensOf
  <1>2. IInv /\ [Next]_vars =>
          [\A d \in Devices :
             owner[d] # None /\ (\A t \in TokensOf(d) : refresh[t] # "Live") =>
               \A t \in Tokens : device'[t] = d => refresh'[t] # "Live"]_vars
    BY <1>1
  <1> QED
    BY InitIInv, NextIInv, <1>2, PTL DEF Spec, LostFamiliesStayLost

--------------------------------------------------------------------------------
(***************************************************************************)
(* A desktop client (ClientSession) against these operations.              *)
(*                                                                         *)
(* As long as no answer is lost, no write fails and the process lives, a   *)
(* consumed refresh token is in the client's stores, or on its way to the  *)
(* server, only while the thread that has its successor or clears them is  *)
(* under way, or when its family has no live token left to lose.           *)
(***************************************************************************)
Consumed(t) == refresh[t] = "Consumed"

Issued(t) == t \in Tokens /\ device[t] # None

\* Nothing a reuse could revoke.
Dead(d) == owner[d] # None /\ \A t \in TokensOf(d) : refresh[t] # "Live"

\* A new pair on its way to the client's stores.
Receiving(th) == pc[th] \in {"Save", "Install"}

\* A refresh token on its way to the server.
Presenting(th) == pc[th] \in {"Refresh", "Logout"}

\* The steps of a refresh, which belong to whoever holds the gate.
Refreshing(th) == call[th] = "Request" /\ (pc[th] \in {"ReadRefresh", "Refresh"} \/ Receiving(th))

\* Whose steps they are.
CallInv(th) ==
    /\ pc[th] \in {"Request", "Gate", "ReadRefresh", "Refresh", "Retry"} => call[th] = "Request"
    /\ pc[th] \in {"ReadLogout", "Logout"} => call[th] = "Logout"
    /\ pc[th] = "SignIn" => call[th] \in {"SignIn", "QrLogin"}
    /\ Receiving(th) => call[th] \in {"Request", "SignIn", "QrLogin"}
    /\ pc[th] \in {"ClearMemory", "ClearStore"} => call[th] \in {"Request", "Logout"}

GateInv(th) == Refreshing(th) => gate = th

\* A new pair is nobody else's and not in memory yet.
ReceivedInv(th) ==
    Receiving(th) =>
        /\ Issued(token[th]) /\ ~Consumed(token[th]) /\ memory.refresh # token[th]
        /\ \A o \in Threads \ {th} : Receiving(o) \/ Presenting(o) => token[o] # token[th]

\* A pair may be presented after its end only if nothing lives that a reuse could
\* revoke; a logout never counts as a reuse.
PresentedInv(th) ==
    Presenting(th) =>
        /\ Issued(token[th])
        /\ pc[th] = "Refresh" /\ Consumed(token[th]) => Dead(device[token[th]])

\* A consumed refresh token rests in memory only until its successor comes or
\* the logout that consumed it clears it.
MemoryInv ==
    memory.refresh # None =>
        /\ Issued(memory.refresh)
        /\ Consumed(memory.refresh) =>
             \/ \E th \in Threads : call[th] = "Request" /\ Receiving(th)
             \/ /\ Dead(device[memory.refresh])
                /\ \E th \in Threads : call[th] = "Logout" /\ pc[th] = "ClearMemory"

\* The same of the credential store, which is written before memory and cleared
\* after it.
StoredInv ==
    stored # None =>
        /\ Issued(stored)
        /\ Consumed(stored) =>
             \E th \in Threads :
                \/ call[th] = "Request" /\ pc[th] = "Save"
                \/ call[th] = "Logout" /\ pc[th] \in {"ClearMemory", "ClearStore"}

HandsInv ==
    /\ ~cutOff
    /\ \A th \in Threads : CallInv(th) /\ GateInv(th) /\ ReceivedInv(th) /\ PresentedInv(th)
    /\ MemoryInv
    /\ StoredInv

\* With faults too, whoever presents or receives a pair has one.
PairsInHands == \A th \in Threads : Presenting(th) \/ Receiving(th) => token[th] \in Tokens

ClientInv ==
    /\ IInv
    /\ DesktopTypeOK
    /\ PairsInHands
    /\ faults = 0 => HandsInv

\* The operations of the server that this client meets.
Serving ==
    \/ \E t \in Tokens : Token(t)
    \/ Open(User) \/ RevokeSessions(User)
    \/ UNCHANGED vars

\* What every one of them leaves alone: pairs that are out, and dead families.
Stays ==
    /\ \A t : Issued(t) => Issued(t)' /\ device'[t] = device[t]
    /\ \A d \in Devices : Dead(d) => Dead(d)'

LEMMA ServingStays ==
  ASSUME IInv, Serving
  PROVE  IInv' /\ Stays
  <1>1. [Next]_vars
    BY UserAssumption DEF Serving, Next, Administer
  <1>2. IInv' /\ TypeOK
    BY <1>1, NextIInv DEF IInv
  <1>3. \A t : Issued(t) => Issued(t)' /\ device'[t] = device[t]
    BY <1>2, NoneAssumption
       DEF Issued, Serving, Token, Rotate, Reuse, Logout, ExpireAccess, ExpireRefresh, Open,
           Register, Login, IssueSession, IssueToken, RevokeSessions, RevokeDevices,
           RevokeTokens, vars, tokenVars, TypeOK
  <1>4. \A d \in Devices : owner[d] # None => owner'[d] # None
    BY <1>2, NoneAssumption, UserAssumption
       DEF Serving, Token, Rotate, Reuse, Logout, ExpireAccess, ExpireRefresh, Open, Register,
           Login, IssueSession, RevokeSessions, RevokeDevices, vars, deviceVars, TypeOK
  <1>5. ASSUME NEW d \in Devices, Dead(d)
        PROVE  Dead(d)'
    <2>1. ASSUME NEW t \in Tokens, device'[t] = d
          PROVE  refresh'[t] # "Live"
      BY <1>1, <1>5, <2>1, LiveRefreshFrom DEF Dead, TokensOf
    <2> QED
      BY <1>4, <1>5, <2>1 DEF Dead, TokensOf
  <1> QED
    BY <1>2, <1>3, <1>5 DEF Stays

\* A pair that is new after a step: nobody has it, and it is not consumed.
LEMMA NewPair ==
  ASSUME IInv, NEW t \in Tokens, Rotate(t) \/ Open(User), NEW n \in Tokens, device'[n] # device[n]
  PROVE  ~Issued(n) /\ Issued(n)' /\ ~Consumed(n)'
  <1>1. CASE Rotate(t)
    <2>1. device[t] # None
      BY <1>1 DEF Rotate, IInv, TokenInv, GivenOut
    <2> QED
      BY <1>1, <2>1 DEF IInv, Rotate, IssueToken, Issued, Consumed, TypeOK
  <1>2. CASE Open(User)
    BY <1>2, NoneAssumption
       DEF IInv, Open, Register, Login, IssueSession, IssueToken, Issued, Consumed, TypeOK
  <1> QED
    BY <1>1, <1>2

\* A logout ends the family of its token.
LEMMA LogoutKills ==
  ASSUME IInv, NEW t \in Tokens, Logout(t)
  PROVE  Issued(t) /\ Dead(device[t])'
  <1>1. device[t] # None /\ owner[device[t]] # None
    BY DEF IInv, TokenInv, GivenOut, Logout
  <1>2. owner' = owner /\ device' = device
    BY DEF Logout, deviceVars
  <1>3. \A s \in Tokens : device[s] = device[t] => refresh'[s] # "Live"
    BY DEF Logout, RevokedRefresh, IInv, TypeOK
  <1> QED
    BY <1>1, <1>2, <1>3 DEF Issued, Dead, TokensOf

\* Steps inside the client.
LEMMA LocalStep ==
  ASSUME DesktopTypeOK, HandsInv, NEW th \in Threads, UNCHANGED vars, faults' = 0,
         \/ StartRequest(th) \/ Answered(th) \/ Rejected(th) \/ EnterGate(th)
         \/ ReadRefresh(th) \/ RefreshRefused(th) \/ RefreshUnreached(th) \/ Save(th)
         \/ Install(th) \/ ClearMemory(th) \/ ClearStore(th) \/ StartSignIn(th) \/ StartQrPoll(th)
         \/ SignInFails(th) \/ StartLogout(th) \/ ReadLogout(th)
  PROVE  HandsInv'
  <1> USE NoneAssumption, ThreadsAssumption
      DEF HandsInv, CallInv, GateInv, ReceivedInv, PresentedInv, MemoryInv, StoredInv,
          Refreshing, Receiving, Presenting, Issued, Consumed, Dead, TokensOf,
          vars, deviceVars, tokenVars, tokenStores, threadVars, DesktopTypeOK,
          Begin, Continue, Return, Fail, Fault, NoTokens
  <1>1. CASE StartRequest(th)
    BY <1>1 DEF StartRequest
  <1>2. CASE Answered(th)
    BY <1>2 DEF Answered
  <1>3. CASE Rejected(th)
    BY <1>3 DEF Rejected
  <1>4. CASE EnterGate(th)
    BY <1>4 DEF EnterGate
  <1>5. CASE ReadRefresh(th)
    BY <1>5 DEF ReadRefresh
  <1>6. CASE RefreshRefused(th)
    BY <1>6 DEF RefreshRefused
  <1>7. CASE RefreshUnreached(th)
    BY <1>7 DEF RefreshUnreached
  <1>8. CASE Save(th)
    BY <1>8 DEF Save
  <1>9. CASE Install(th)
    BY <1>9 DEF Install
  <1>10. CASE ClearMemory(th)
    BY <1>10 DEF ClearMemory
  <1>11. CASE ClearStore(th)
    BY <1>11 DEF ClearStore
  <1>12. CASE StartSignIn(th) \/ StartQrPoll(th)
    BY <1>12 DEF StartSignIn, StartQrPoll
  <1>13. CASE SignInFails(th)
    BY <1>13 DEF SignInFails
  <1>14. CASE StartLogout(th)
    BY <1>14 DEF StartLogout
  <1>15. CASE ReadLogout(th)
    BY <1>15 DEF ReadLogout
  <1> QED
    BY <1>1, <1>2, <1>3, <1>4, <1>5, <1>6, <1>7, <1>8, <1>9, <1>10, <1>11, <1>12, <1>13,
       <1>14, <1>15

\* Steps outside the client.
LEMMA ElsewhereStep ==
  ASSUME IInv, HandsInv, DesktopTypeOK, Elsewhere
  PROVE  HandsInv'
  <1>1. Serving
    BY DEF Elsewhere, Serving, Token
  <1>2. Stays /\ TypeOK
    BY <1>1, ServingStays DEF IInv
  <1>3. \A x : Issued(x) => (Consumed(x)' <=> Consumed(x))
    BY <1>2, NoneAssumption
       DEF Elsewhere, RevokeSessions, RevokeDevices, RevokeTokens, RevokedRefresh,
           ExpireAccess, ExpireRefresh, Issued, Consumed, TypeOK
  <1>4. UNCHANGED <<memory, stored, gate, call, pc, token, cutOff>>
    BY DEF Elsewhere, tokenStores, threadVars
  <1>5. \A x : Issued(x) => x \in Tokens /\ device[x] \in Devices
    BY <1>2 DEF Issued, TypeOK
  <1>6. \A th \in Threads : CallInv(th)' /\ GateInv(th)'
    BY <1>4 DEF HandsInv, CallInv, GateInv, Receiving, Refreshing
  <1>7. \A th \in Threads : ReceivedInv(th)'
    BY <1>2, <1>3, <1>4 DEF HandsInv, ReceivedInv, Receiving, Presenting, Stays
  <1>8. \A th \in Threads : PresentedInv(th)'
    BY <1>2, <1>3, <1>4, <1>5 DEF HandsInv, PresentedInv, Presenting, Stays
  <1>9. MemoryInv'
    BY <1>2, <1>3, <1>4, <1>5 DEF HandsInv, MemoryInv, Receiving, Stays
  <1>10. StoredInv'
    BY <1>2, <1>3, <1>4, <1>5 DEF HandsInv, StoredInv, Receiving, Stays
  <1> QED
    BY <1>4, <1>6, <1>7, <1>8, <1>9, <1>10 DEF HandsInv

\* The only pairs that a client gets to present twice are those of families
\* that have nothing left to revoke.
LEMMA ReusedStep ==
  ASSUME IInv, HandsInv, DesktopTypeOK, NEW th \in Threads, RefreshReused(th)
  PROVE  HandsInv'
  <1> DEFINE x == token[th]
  <1>1. x \in Tokens /\ Reuse(x) /\ Consumed(x) /\ Dead(device[x]) /\ call[th] = "Request"
    BY DEF RefreshReused, Reuse, Consumed, HandsInv, PresentedInv, Presenting, Issued, CallInv
  <1>2. Serving
    BY <1>1 DEF Serving, Token
  <1>3. Stays /\ TypeOK
    BY <1>2, ServingStays DEF IInv
  <1>4. ~cutOff'
    BY <1>1 DEF RefreshReused, HandsInv, Dead
  <1>5. \A y : Issued(y) => (Consumed(y)' <=> Consumed(y))
    BY <1>1, <1>3 DEF Reuse, RevokeTokens, RevokedRefresh, Issued, Consumed, TypeOK
  <1>6. \A y : Issued(y) => y \in Tokens /\ device[y] \in Devices
    BY <1>3 DEF Issued, TypeOK
  <1>7. /\ UNCHANGED <<memory, stored, gate, call>>
        /\ pc[th] = "Refresh" /\ pc'[th] = "ClearMemory"
        /\ \A o \in Threads \ {th} : pc'[o] = pc[o] /\ token'[o] = token[o]
    BY DEF RefreshReused, Continue, tokenStores, DesktopTypeOK
  <1>8. \A o \in Threads : CallInv(o)' /\ GateInv(o)'
    BY <1>1, <1>7 DEF HandsInv, CallInv, GateInv, Receiving, Refreshing
  <1>9. \A o \in Threads : ReceivedInv(o)'
    BY <1>3, <1>5, <1>7 DEF HandsInv, ReceivedInv, Receiving, Presenting, Stays
  <1>10. \A o \in Threads : PresentedInv(o)'
    BY <1>3, <1>5, <1>6, <1>7 DEF HandsInv, PresentedInv, Presenting, Stays
  <1>11. MemoryInv'
    BY <1>3, <1>5, <1>6, <1>7 DEF HandsInv, MemoryInv, Receiving, Stays
  <1>12. StoredInv'
    BY <1>3, <1>5, <1>6, <1>7 DEF HandsInv, StoredInv, Receiving, Stays
  <1> QED
    BY <1>4, <1>8, <1>9, <1>10, <1>11, <1>12 DEF HandsInv

\* The thread that has the successor of a pair answers for the pair.
LEMMA RefreshedStep ==
  ASSUME IInv, HandsInv, DesktopTypeOK, NEW th \in Threads, RefreshServed(th), faults' = 0
  PROVE  HandsInv'
  <1> DEFINE x == token[th]
  <1>1. PICK n \in Tokens : device'[n] # device[n] /\ Continue(th, "Save", n) /\ UNCHANGED gate
    BY DEF RefreshServed, Fault, DesktopTypeOK
  <1>2. /\ x \in Tokens /\ Rotate(x) /\ ~Consumed(x)
        /\ call[th] = "Request" /\ gate = th
    BY DEF RefreshServed, Rotate, Consumed, HandsInv, PresentedInv, Presenting, Issued,
           CallInv, GateInv, Refreshing
  <1>3. Serving
    BY <1>2 DEF Serving, Token
  <1>4. Stays /\ TypeOK
    BY <1>3, ServingStays DEF IInv
  <1>5. ~Issued(n) /\ Issued(n)' /\ ~Consumed(n)'
    BY <1>1, <1>2, NewPair
  <1>6. \A y : Issued(y) /\ y # x => (Consumed(y)' <=> Consumed(y))
    BY <1>2, <1>4, <1>5 DEF Rotate, IssueToken, Issued, Consumed, TypeOK
  <1>7. \A y : Issued(y) => y \in Tokens /\ device[y] \in Devices
    BY <1>4 DEF Issued, TypeOK
  <1>8. /\ UNCHANGED <<memory, stored, gate, call, cutOff>>
        /\ pc[th] = "Refresh" /\ pc'[th] = "Save" /\ token'[th] = n
        /\ \A o \in Threads \ {th} : pc'[o] = pc[o] /\ token'[o] = token[o]
    BY <1>1 DEF RefreshServed, Continue, tokenStores, DesktopTypeOK
  <1>9. \A o \in Threads : CallInv(o)' /\ GateInv(o)'
    BY <1>2, <1>8 DEF HandsInv, CallInv, GateInv, Receiving, Refreshing
  <1>10. \A o \in Threads \ {th} : ReceivedInv(o)'
    BY <1>4, <1>5, <1>6, <1>8 DEF HandsInv, ReceivedInv, Receiving, Presenting, Stays
  <1>11. ReceivedInv(th)'
    BY <1>4, <1>5, <1>8, NoneAssumption, ThreadsAssumption
       DEF HandsInv, ReceivedInv, PresentedInv, MemoryInv, Receiving, Presenting
  <1>12. \A o \in Threads : PresentedInv(o)'
    BY <1>2, <1>4, <1>6, <1>7, <1>8
       DEF HandsInv, PresentedInv, Presenting, Stays, CallInv, GateInv, Refreshing
  <1>13. MemoryInv'
    BY <1>2, <1>4, <1>6, <1>7, <1>8 DEF HandsInv, MemoryInv, Receiving, Stays
  <1>14. StoredInv'
    BY <1>2, <1>4, <1>6, <1>7, <1>8 DEF HandsInv, StoredInv, Receiving, Stays
  <1> QED
    BY <1>8, <1>9, <1>10, <1>11, <1>12, <1>13, <1>14 DEF HandsInv

\* A sign-in consumes nothing.
LEMMA SignedInStep ==
  ASSUME IInv, HandsInv, DesktopTypeOK, NEW th \in Threads, SignInServed(th), faults' = 0
  PROVE  HandsInv'
  <1>1. PICK n \in Tokens : device'[n] # device[n] /\ Continue(th, "Save", n) /\ UNCHANGED gate
    BY DEF SignInServed, Fault, DesktopTypeOK
  <1>2. Open(User) /\ Serving /\ call[th] \in {"SignIn", "QrLogin"}
    BY DEF SignInServed, Serving, HandsInv, CallInv
  <1>3. Stays /\ TypeOK
    BY <1>2, ServingStays DEF IInv
  <1>4. ~Issued(n) /\ Issued(n)' /\ ~Consumed(n)'
    BY <1>1, <1>2, NewPair
  <1>5. \A y : Issued(y) => (Consumed(y)' <=> Consumed(y))
    BY <1>2, <1>3 DEF Open, Register, Login, IssueSession, IssueToken, Issued, Consumed, TypeOK
  <1>6. \A y : Issued(y) => y \in Tokens /\ device[y] \in Devices
    BY <1>3 DEF Issued, TypeOK
  <1>7. /\ UNCHANGED <<memory, stored, gate, call, cutOff>>
        /\ pc[th] = "SignIn" /\ pc'[th] = "Save" /\ token'[th] = n
        /\ \A o \in Threads \ {th} : pc'[o] = pc[o] /\ token'[o] = token[o]
    BY <1>1 DEF SignInServed, Continue, tokenStores, DesktopTypeOK
  <1>8. \A o \in Threads : CallInv(o)' /\ GateInv(o)'
    BY <1>2, <1>7 DEF HandsInv, CallInv, GateInv, Receiving, Refreshing
  <1>9. \A o \in Threads \ {th} : ReceivedInv(o)'
    BY <1>3, <1>4, <1>5, <1>7 DEF HandsInv, ReceivedInv, Receiving, Presenting, Stays
  <1>10. ReceivedInv(th)'
    BY <1>4, <1>7, NoneAssumption, ThreadsAssumption
       DEF HandsInv, ReceivedInv, PresentedInv, MemoryInv, Receiving, Presenting
  <1>11. \A o \in Threads : PresentedInv(o)'
    BY <1>3, <1>5, <1>6, <1>7 DEF HandsInv, PresentedInv, Presenting, Stays
  <1>12. MemoryInv'
    BY <1>3, <1>5, <1>6, <1>7 DEF HandsInv, MemoryInv, Receiving, Stays
  <1>13. StoredInv'
    BY <1>3, <1>5, <1>6, <1>7 DEF HandsInv, StoredInv, Receiving, Stays
  <1> QED
    BY <1>7, <1>8, <1>9, <1>10, <1>11, <1>12, <1>13 DEF HandsInv

\* The thread whose logout has consumed a pair clears the stores, and the
\* pair's family is dead.
LEMMA LoggedOutStep ==
  ASSUME IInv, HandsInv, DesktopTypeOK, NEW th \in Threads, LogoutServed(th), faults' = 0
  PROVE  HandsInv'
  <1>1. PICK x \in Tokens :
          /\ x = token[th] /\ Issued(x) /\ call[th] = "Logout"
          /\ Logout(x) \/ UNCHANGED vars
    BY DEF LogoutServed, Fault, DesktopTypeOK, HandsInv, PresentedInv, Presenting, Issued,
           CallInv
  <1>2. Serving
    BY <1>1 DEF Serving, Token
  <1>3. Stays /\ TypeOK
    BY <1>2, ServingStays DEF IInv
  <1>4. \A y : Issued(y) /\ y # x => (Consumed(y)' <=> Consumed(y))
    BY <1>1, <1>3 DEF Logout, RevokedRefresh, Issued, Consumed, TypeOK, vars, tokenVars
  <1>5. ~Consumed(x) /\ Consumed(x)' => Dead(device[x])'
    BY <1>1, LogoutKills DEF Consumed, vars, tokenVars
  <1>6. device'[x] = device[x] /\ \A y : Issued(y) => y \in Tokens /\ device[y] \in Devices
    BY <1>1, <1>3 DEF Issued, TypeOK, Stays
  <1>7. /\ UNCHANGED <<memory, stored, gate, call, cutOff>>
        /\ pc[th] = "Logout" /\ pc'[th] = "ClearMemory"
        /\ \A o \in Threads \ {th} : pc'[o] = pc[o] /\ token'[o] = token[o]
    BY DEF LogoutServed, Continue, tokenStores, DesktopTypeOK
  <1>8. \A o \in Threads : CallInv(o)' /\ GateInv(o)'
    BY <1>1, <1>7 DEF HandsInv, CallInv, GateInv, Receiving, Refreshing
  <1>9. \A o \in Threads : ReceivedInv(o)'
    BY <1>1, <1>3, <1>4, <1>7 DEF HandsInv, ReceivedInv, Receiving, Presenting, Stays
  <1>10. \A o \in Threads : PresentedInv(o)'
    BY <1>3, <1>4, <1>5, <1>6, <1>7 DEF HandsInv, PresentedInv, Presenting, Stays
  <1>11. MemoryInv'
    BY <1>1, <1>3, <1>4, <1>5, <1>6, <1>7 DEF HandsInv, MemoryInv, Receiving, Stays
  <1>12. StoredInv'
    BY <1>1, <1>3, <1>4, <1>6, <1>7 DEF HandsInv, StoredInv, Receiving, Stays
  <1> QED
    BY <1>7, <1>8, <1>9, <1>10, <1>11, <1>12 DEF HandsInv

\* Whatever the client does, the server executes one of these operations.
LEMMA DesktopServing ==
  ASSUME PairsInHands, DesktopNext \/ UNCHANGED allVars
  PROVE  Serving
  <1>1. CASE UNCHANGED allVars \/ Elsewhere
    BY <1>1 DEF allVars, Elsewhere, Serving, Token
  <1>2. CASE \E th \in Threads : Start(th) \/ Restart(th)
    BY <1>2 DEF Start, StartRequest, StartSignIn, StartQrPoll, StartLogout, Restart, Serving
  <1>3. CASE \E th \in Threads : RefreshServed(th) \/ RefreshReused(th) \/ LogoutServed(th)
    BY <1>3
       DEF RefreshServed, RefreshReused, LogoutServed, PairsInHands, Presenting, Serving,
           Token
  <1>4. ASSUME NEW th \in Threads, Advance(th),
               ~RefreshServed(th), ~RefreshReused(th), ~LogoutServed(th)
        PROVE  Serving
    BY <1>4
       DEF Advance, Answered, Rejected, EnterGate, ReadRefresh, RefreshRefused,
           RefreshUnreached, Save, Install, ClearMemory, ClearStore, SignInServed,
           SignInFails, ReadLogout, Serving
  <1> QED
    BY <1>1, <1>2, <1>3, <1>4 DEF DesktopNext

LEMMA DesktopTypeStep ==
  ASSUME DesktopTypeOK, PairsInHands, DesktopNext \/ UNCHANGED allVars
  PROVE  DesktopTypeOK' /\ PairsInHands'
  <1> USE NoneAssumption, ThreadsAssumption
      DEF DesktopTypeOK, PairsInHands, Presenting, Receiving, Steps, Calls, Begin, Continue,
         Return, Fail, Fault, NoTokens, tokenStores, threadVars
  <1>1. CASE UNCHANGED allVars \/ Elsewhere
    BY <1>1 DEF allVars, Elsewhere
  <1>2. ASSUME NEW th \in Threads, Start(th)
        PROVE  DesktopTypeOK' /\ PairsInHands'
    <2>1. CASE StartRequest(th)
      BY <2>1 DEF StartRequest
    <2>2. CASE StartSignIn(th)
      BY <2>2 DEF StartSignIn
    <2>3. CASE StartQrPoll(th)
      BY <2>3 DEF StartQrPoll
    <2>4. CASE StartLogout(th)
      BY <2>4 DEF StartLogout
    <2> QED
      BY <1>2, <2>1, <2>2, <2>3, <2>4 DEF Start
  <1>3. ASSUME NEW th \in Threads, Answered(th)
        PROVE  DesktopTypeOK' /\ PairsInHands'
    BY <1>3 DEF Answered
  <1>4. ASSUME NEW th \in Threads, Rejected(th)
        PROVE  DesktopTypeOK' /\ PairsInHands'
    BY <1>4 DEF Rejected
  <1>5. ASSUME NEW th \in Threads, EnterGate(th)
        PROVE  DesktopTypeOK' /\ PairsInHands'
    BY <1>5 DEF EnterGate
  <1>6. ASSUME NEW th \in Threads, ReadRefresh(th)
        PROVE  DesktopTypeOK' /\ PairsInHands'
    BY <1>6 DEF ReadRefresh
  <1>7. ASSUME NEW th \in Threads, RefreshServed(th)
        PROVE  DesktopTypeOK' /\ PairsInHands'
    <2>1. /\ memory' \in [access : Tokens \cup {None}, refresh : Tokens \cup {None}]
          /\ stored' \in Tokens \cup {None} /\ gate' \in Threads \cup {None}
      BY <1>7 DEF RefreshServed
    <2>2. call' \in [Threads -> Calls] /\ pc' \in [Threads -> Steps]
      BY <1>7 DEF RefreshServed
    <2>3. token' \in [Threads -> Tokens \cup {None}]
      BY <1>7 DEF RefreshServed
    <2>4. signedIn' \in BOOLEAN /\ cutOff' \in BOOLEAN
      BY <1>7 DEF RefreshServed
    <2>5. faults' \in Nat
      BY <1>7 DEF RefreshServed
    <2>6. PairsInHands'
      BY <1>7 DEF RefreshServed
    <2> QED
      BY <2>1, <2>2, <2>3, <2>4, <2>5, <2>6
  <1>8. ASSUME NEW th \in Threads, RefreshReused(th)
        PROVE  DesktopTypeOK' /\ PairsInHands'
    BY <1>8 DEF RefreshReused
  <1>9. ASSUME NEW th \in Threads, RefreshRefused(th)
        PROVE  DesktopTypeOK' /\ PairsInHands'
    BY <1>9 DEF RefreshRefused
  <1>10. ASSUME NEW th \in Threads, RefreshUnreached(th)
        PROVE  DesktopTypeOK' /\ PairsInHands'
    BY <1>10 DEF RefreshUnreached
  <1>11. ASSUME NEW th \in Threads, Save(th)
        PROVE  DesktopTypeOK' /\ PairsInHands'
    <2>1. /\ memory' \in [access : Tokens \cup {None}, refresh : Tokens \cup {None}]
          /\ stored' \in Tokens \cup {None} /\ gate' \in Threads \cup {None}
      BY <1>11 DEF Save
    <2>2. call' \in [Threads -> Calls] /\ pc' \in [Threads -> Steps]
      BY <1>11 DEF Save
    <2>3. token' \in [Threads -> Tokens \cup {None}]
      BY <1>11 DEF Save
    <2>4. signedIn' \in BOOLEAN /\ cutOff' \in BOOLEAN
      BY <1>11 DEF Save
    <2>5. faults' \in Nat
      BY <1>11 DEF Save
    <2>6. PairsInHands'
      BY <1>11 DEF Save
    <2> QED
      BY <2>1, <2>2, <2>3, <2>4, <2>5, <2>6
  <1>12. ASSUME NEW th \in Threads, Install(th)
        PROVE  DesktopTypeOK' /\ PairsInHands'
    <2>1. /\ memory' \in [access : Tokens \cup {None}, refresh : Tokens \cup {None}]
          /\ stored' \in Tokens \cup {None} /\ gate' \in Threads \cup {None}
      BY <1>12 DEF Install
    <2>2. call' \in [Threads -> Calls] /\ pc' \in [Threads -> Steps]
      BY <1>12 DEF Install
    <2>3. token' \in [Threads -> Tokens \cup {None}]
      BY <1>12 DEF Install
    <2>4. signedIn' \in BOOLEAN /\ cutOff' \in BOOLEAN
      BY <1>12 DEF Install
    <2>5. faults' \in Nat
      BY <1>12 DEF Install
    <2>6. PairsInHands'
      BY <1>12 DEF Install
    <2> QED
      BY <2>1, <2>2, <2>3, <2>4, <2>5, <2>6
  <1>13. ASSUME NEW th \in Threads, ClearMemory(th)
        PROVE  DesktopTypeOK' /\ PairsInHands'
    BY <1>13 DEF ClearMemory
  <1>14. ASSUME NEW th \in Threads, ClearStore(th)
        PROVE  DesktopTypeOK' /\ PairsInHands'
    BY <1>14 DEF ClearStore
  <1>15. ASSUME NEW th \in Threads, SignInServed(th)
        PROVE  DesktopTypeOK' /\ PairsInHands'
    BY <1>15 DEF SignInServed
  <1>16. ASSUME NEW th \in Threads, SignInFails(th)
        PROVE  DesktopTypeOK' /\ PairsInHands'
    BY <1>16 DEF SignInFails
  <1>17. ASSUME NEW th \in Threads, ReadLogout(th)
        PROVE  DesktopTypeOK' /\ PairsInHands'
    BY <1>17 DEF ReadLogout
  <1>18. ASSUME NEW th \in Threads, LogoutServed(th)
        PROVE  DesktopTypeOK' /\ PairsInHands'
    BY <1>18 DEF LogoutServed
  <1>19. ASSUME NEW th \in Threads, Restart(th)
        PROVE  DesktopTypeOK' /\ PairsInHands'
    <2>1. /\ memory' \in [access : Tokens \cup {None}, refresh : Tokens \cup {None}]
          /\ stored' \in Tokens \cup {None} /\ gate' \in Threads \cup {None}
      BY <1>19 DEF Restart
    <2>2. call' \in [Threads -> Calls] /\ pc' \in [Threads -> Steps]
      BY <1>19 DEF Restart
    <2>3. token' \in [Threads -> Tokens \cup {None}]
      BY <1>19 DEF Restart
    <2>4. signedIn' \in BOOLEAN /\ cutOff' \in BOOLEAN
      BY <1>19 DEF Restart
    <2>5. faults' \in Nat
      BY <1>19 DEF Restart
    <2>6. PairsInHands'
      BY <1>19 DEF Restart
    <2> QED
      BY <2>1, <2>2, <2>3, <2>4, <2>5, <2>6
  <1> QED
    BY <1>1, <1>2, <1>3, <1>4, <1>5, <1>6, <1>7, <1>8, <1>9, <1>10, <1>11, <1>12, <1>13,
       <1>14, <1>15, <1>16, <1>17, <1>18, <1>19
       DEF DesktopNext, Advance

LEMMA HandsStep ==
  ASSUME ClientInv, DesktopNext \/ UNCHANGED allVars, faults' = 0
  PROVE  HandsInv'
  <1>1. faults = 0
    BY DEF DesktopNext, Start, StartRequest, StartSignIn, StartQrPoll, StartLogout, Advance, Answered,
           Rejected, EnterGate, ReadRefresh, RefreshServed, RefreshReused, RefreshRefused,
           RefreshUnreached, Save, Install, ClearMemory, ClearStore, SignInServed,
           SignInFails, ReadLogout, LogoutServed, Restart, Elsewhere, Fault, allVars,
           ClientInv, DesktopTypeOK
  <1>2. IInv /\ HandsInv /\ DesktopTypeOK
    BY <1>1 DEF ClientInv
  <1>3. CASE Elsewhere
    BY <1>2, <1>3, ElsewhereStep
  <1>4. CASE UNCHANGED allVars
    BY <1>2, <1>4
       DEF allVars, vars, tokenVars, deviceVars, tokenStores, threadVars, HandsInv, CallInv,
           GateInv, ReceivedInv, PresentedInv, MemoryInv, StoredInv, Refreshing, Receiving,
           Presenting, Issued, Consumed, Dead, TokensOf
  <1>5. ASSUME NEW th \in Threads, Start(th) \/ Advance(th)
        PROVE  HandsInv'
    <2>1. CASE RefreshServed(th) \/ RefreshReused(th) \/ SignInServed(th) \/ LogoutServed(th)
      BY <1>2, <2>1, RefreshedStep, ReusedStep, SignedInStep, LoggedOutStep
    <2>2. CASE ~(RefreshServed(th) \/ RefreshReused(th) \/ SignInServed(th) \/ LogoutServed(th))
      <3>1. UNCHANGED vars
        BY <1>5, <2>2
           DEF Start, StartRequest, StartSignIn, StartQrPoll, StartLogout, Advance, Answered, Rejected,
               EnterGate, ReadRefresh, RefreshRefused, RefreshUnreached, Save, Install,
               ClearMemory, ClearStore, SignInFails, ReadLogout
      <3> QED
        BY <1>2, <1>5, <2>2, <3>1, LocalStep DEF Start, Advance
    <2> QED
      BY <2>1, <2>2
  <1>6. ~ \E th \in Threads : Restart(th)
    BY <1>1 DEF Restart, Fault
  <1> QED
    BY <1>3, <1>4, <1>5, <1>6 DEF DesktopNext

LEMMA InitClientInv == DesktopInit => ClientInv
  <1>1. DesktopInit => IInv
    BY InitIInv DEF DesktopInit
  <1>2. DesktopInit => DesktopTypeOK
    <2> SUFFICES ASSUME DesktopInit PROVE DesktopTypeOK
      OBVIOUS
    <2>1. memory \in [access : Tokens \cup {None}, refresh : Tokens \cup {None}]
      BY DEF DesktopInit, NoTokens
    <2>2. call \in [Threads -> Calls] /\ pc \in [Threads -> Steps]
      BY DEF DesktopInit, Calls, Steps
    <2>3. token \in [Threads -> Tokens \cup {None}] /\ signedIn \in BOOLEAN /\ cutOff \in BOOLEAN
      BY DEF DesktopInit
    <2> QED
      BY <2>1, <2>2, <2>3 DEF DesktopInit, DesktopTypeOK
  <1>3. DesktopInit => PairsInHands /\ HandsInv
    BY DEF DesktopInit, PairsInHands, NoTokens, HandsInv, CallInv, GateInv, ReceivedInv,
           PresentedInv, MemoryInv, StoredInv, Refreshing, Receiving, Presenting
  <1> QED
    BY <1>1, <1>2, <1>3 DEF ClientInv

LEMMA NextClientInv == ClientInv /\ [DesktopNext]_allVars => ClientInv'
  <1> SUFFICES ASSUME ClientInv, DesktopNext \/ UNCHANGED allVars
               PROVE  ClientInv'
    OBVIOUS
  <1>1. IInv'
    BY DesktopServing, ServingStays DEF ClientInv
  <1>2. DesktopTypeOK' /\ PairsInHands'
    BY DesktopTypeStep DEF ClientInv
  <1> QED
    BY <1>1, <1>2, HandsStep DEF ClientInv

\* The desktop client's tokens, calls and gate keep their shapes through every
\* call of ApiClient, and through restarts.
THEOREM ClientTypeCorrect == DesktopSpec => []DesktopTypeOK
  <1>1. ClientInv => DesktopTypeOK
    BY DEF ClientInv
  <1> QED
    BY InitClientInv, NextClientInv, <1>1, PTL DEF DesktopSpec

\* refresh_gate and the check behind it keep any number of threads from
\* presenting a refresh token twice to a family that lives: without lost answers,
\* failed writes or restarts, reuse detection never cuts the client off.
THEOREM NeverCutOffHolds == DesktopSpec => []NeverCutOffByItself
  <1>1. ClientInv => NeverCutOffByItself
    BY DEF ClientInv, DesktopTypeOK, HandsInv, NeverCutOffByItself
  <1> QED
    BY InitClientInv, NextClientInv, <1>1, PTL DEF DesktopSpec

\* While no call runs, neither memory nor the credential store is left with a
\* refresh token that the server has exchanged or logged out.
THEOREM RestingTokensHold == DesktopSpec => []RestingTokensAreNewest
  <1>1. ClientInv => RestingTokensAreNewest
    BY DEF ClientInv, HandsInv, MemoryInv, StoredInv, Receiving, Consumed, Quiet,
           RestingTokensAreNewest
  <1> QED
    BY InitClientInv, NextClientInv, <1>1, PTL DEF DesktopSpec

\* Faults or not, the steps of a refresh are taken with the gate in hand.
GateHeld ==
    \A th \in Threads :
        /\ pc[th] = "SignIn" => call[th] \in {"SignIn", "QrLogin"}
        /\ /\ call[th] \in {"Request", "Restore"}
           /\ pc[th] \in {"ReadRefresh", "Refresh", "Save", "Install"}
           => gate = th

LEMMA GateStep ==
  ASSUME DesktopTypeOK, GateHeld, DesktopNext \/ UNCHANGED allVars
  PROVE  GateHeld'
  <1> USE NoneAssumption, ThreadsAssumption
      DEF GateHeld, DesktopTypeOK, Begin, Continue, Return, Fail, threadVars
  <1>1. CASE UNCHANGED allVars \/ Elsewhere
    BY <1>1 DEF allVars, Elsewhere
  <1>2. ASSUME NEW th \in Threads, Start(th) \/ Restart(th)
        PROVE  GateHeld'
    BY <1>2 DEF Start, StartRequest, StartSignIn, StartQrPoll, StartLogout, Restart
  <1>3. ASSUME NEW th \in Threads, EnterGate(th)
        PROVE  GateHeld'
    BY <1>3 DEF EnterGate
  <1>4. ASSUME NEW th \in Threads,
               \/ Answered(th) \/ RefreshUnreached(th) \/ Install(th) \/ ClearStore(th)
               \/ SignInServed(th) \/ SignInFails(th) \/ RefreshServed(th) \/ Save(th)
        PROVE  GateHeld'
    BY <1>4
       DEF Answered, RefreshUnreached, Install, ClearStore, SignInServed, SignInFails,
           RefreshServed, Save
  <1>5. ASSUME NEW th \in Threads,
               \/ Rejected(th) \/ ReadRefresh(th) \/ RefreshReused(th) \/ RefreshRefused(th)
               \/ ClearMemory(th) \/ ReadLogout(th) \/ LogoutServed(th)
        PROVE  GateHeld'
    BY <1>5
       DEF Rejected, ReadRefresh, RefreshReused, RefreshRefused, ClearMemory, ReadLogout,
           LogoutServed
  <1> QED
    BY <1>1, <1>2, <1>3, <1>4, <1>5 DEF DesktopNext, Advance

\* However answers are lost, writes fail and the process restarts, one thread at
\* a time exchanges the refresh token of a running session: whoever does holds
\* refresh_gate.
THEOREM OneRefresherHolds == DesktopSpec => []OneRefresher
  <1>1. DesktopInit => GateHeld
    BY DEF DesktopInit, GateHeld
  <1>2. ClientInv /\ GateHeld /\ [DesktopNext]_allVars => GateHeld'
    BY GateStep DEF ClientInv
  <1>3. GateHeld => OneRefresher
    BY DEF GateHeld, OneRefresher
  <1> QED
    BY InitClientInv, NextClientInv, <1>1, <1>2, <1>3, PTL DEF DesktopSpec
================================================================================
