------------------------------- MODULE Presence --------------------------------
(***************************************************************************)
(* Presence of users: WebSocket sessions that count connections in one     *)
(* step and write the presence in another, logins, profile and privacy     *)
(* updates, and what the friends of a user are told, composed with         *)
(* Contacts.                                                               *)
(*                                                                         *)
(* Every event but a message makes a client fetch what it may see again    *)
(* (handle_sync_event), so an event tells its recipients the truth of its  *)
(* moment.  The delivery of events is the matter of EventStream.           *)
(***************************************************************************)
EXTENDS Contacts

CONSTANTS
    Sessions,     \* WebSocket sessions
    UserOf,       \* UserOf[s]: their user
    Choices,      \* presences a user asks for with update_profile
    MaxFaults     \* bound on failed writes and restarts

ASSUME PresenceAssumption ==
    /\ IsFiniteSet(Sessions) /\ UserOf \in [Sessions -> Users]
    /\ Choices \subseteq {"Online", "Invisible", "Offline"}
    /\ MaxFaults \in Nat

VARIABLES
    at,          \* at[s]: step of the session
    count,       \* connections; 0 for a missing entry
    presence,    \* profile.presence
    preferred,   \* preferred_presence
    private,     \* users whose presence_visibility is Nobody
    told,        \* told[v][u]: presence of u that v, another user, was shown last
    unaware,     \* <<v, u>>: what v may see of u has changed and v was not told
    overtaken,   \* sessions whose offline write another session's connect precedes
    miscounted,  \* users whose count went with a session that failed to open
    adrift,      \* users whose last write of presence contradicts their count
    faults

sessionVars == <<at, count, overtaken, miscounted, adrift, faults>>
profileVars == <<presence, preferred, private>>
toldVars == <<told, unaware>>
vars == <<contactVars, sessionVars, profileVars, toldVars>>

Shown == {"Online", "Offline"}

\* visible_profile, of an account that is not deleted.
VisibleTo(v, u) ==
    IF v = u THEN IF presence[u] = "Invisible" THEN "Online" ELSE presence[u]
    ELSE IF \/ presence[u] = "Invisible" \/ u \in private
            \/ <<u, v>> \in DOMAIN sharing /\ ~sharing[<<u, v>>]
         THEN "Offline" ELSE presence[u]

TypeOK ==
    /\ ContactsTypeOK
    /\ at \in [Sessions -> {"None", "SetOnline", "Open", "SetOffline"}]
    /\ count \in [Users -> 0 .. Cardinality(Sessions)]
    /\ presence \in [Users -> {"Online", "Invisible", "Offline"}]
    /\ preferred \in [Users -> {"Online", "Invisible", "Offline"}]
    /\ private \subseteq Users
    /\ told \in [Users -> [Users -> Shown]]
    /\ unaware \subseteq Ordered
    /\ overtaken \subseteq Sessions
    /\ miscounted \subseteq Users /\ adrift \subseteq Users
    /\ faults \in 0 .. MaxFaults

\* register: a new account is online before its first session.
Init ==
    /\ ContactsInit
    /\ at = [s \in Sessions |-> "None"]
    /\ count = [u \in Users |-> 0]
    /\ presence = [u \in Users |-> "Online"]
    /\ preferred = [u \in Users |-> "Online"]
    /\ private = {}
    /\ told = [v \in Users |-> [u \in Users |-> "Offline"]]
    /\ unaware = {} /\ overtaken = {} /\ miscounted = {}
    /\ adrift = Users
    /\ faults = 0

\* An event reaches these users.
Tell(viewers) ==
    /\ told' = [v \in Users |-> [u \in Users |->
                  IF v \in viewers \ {u} THEN VisibleTo(v, u)' ELSE told[v][u]]]
    /\ unaware' = {e \in unaware : e[1] \notin viewers}

\* append_profile_events.
TellOf(u) == Tell({u} \cup FriendsOf(u))

(***************************************************************************)
(* Contacts, with the recipients of their events.                          *)
(***************************************************************************)
ContactStep(a, b) ==
    \/ SendFriendRequest(a, b) /\ Tell({a, b})
    \/ AcceptFriendRequest(a, b) /\ Tell({a, b})
    \/ RejectFriendRequest(a, b) /\ Tell({a, b})
    \/ DeleteFriend(a, b) /\ Tell({a, b})
    \/ BlockUser(a, b) /\ Tell({a, b})
    \/ UnblockUser(a, b) /\ Tell({a})
    \/ CreateDirect(a, b) /\ Tell(IF directs' = directs THEN {} ELSE {a, b})

\* The event of update_friend_settings is for the actor alone.
SettingsStep(a, b, share) ==
    /\ UpdateFriendSettings(a, b, share)
    /\ told' = [told EXCEPT ![a] = [u \in Users |-> IF u = a THEN @[u] ELSE VisibleTo(a, u)']]
    /\ unaware' = {e \in unaware : e[1] # a} \cup {<<b, a>>}

\* anonymize_account; friends and members are told.
DeleteAccount(a) ==
    /\ DeleteContacts(a)
    /\ presence' = [presence EXCEPT ![a] = "Offline"]
    /\ preferred' = [preferred EXCEPT ![a] = "Online"]
    /\ private' = private \ {a}
    /\ UNCHANGED sessionVars
    /\ Tell(FriendsOf(a) \cup {v \in Users \ {a} : directs[{a, v}] > 0})

(***************************************************************************)
(* WebSocket sessions.                                                     *)
(***************************************************************************)
\* connection_opened counts; only the first connection writes.
Connect(s) ==
    LET u == UserOf[s]
    IN  /\ at[s] = "None" /\ u \in accounts
        /\ count' = [count EXCEPT ![u] = @ + 1]
        /\ at' = [at EXCEPT ![s] = IF count[u] = 0 THEN "SetOnline" ELSE "Open"]
        /\ overtaken' = IF count[u] = 0
                        THEN overtaken \cup {t \in Sessions : UserOf[t] = u /\ at[t] = "SetOffline"}
                        ELSE overtaken
        /\ UNCHANGED <<contactVars, profileVars, toldVars, miscounted, adrift, faults>>

\* Mutant of ClosedCount: the entry is forgotten with any connection.
ForgottenCount(n) == 0

ClosedCount(n) == n - 1

\* connection_closed counts; only the last connection writes.
Disconnect(s) ==
    LET u == UserOf[s]
    IN  /\ at[s] = "Open"
        /\ IF count[u] = 0 THEN at' = [at EXCEPT ![s] = "None"] /\ UNCHANGED count
           ELSE /\ count' = [count EXCEPT ![u] = ClosedCount(@)]
                /\ at' = [at EXCEPT ![s] = IF ClosedCount(count[u]) = 0 THEN "SetOffline" ELSE "None"]
        /\ UNCHANGED <<contactVars, profileVars, toldVars, overtaken, miscounted, adrift, faults>>

\* set_connection_presence writes.
WritePresence(s, connected) ==
    LET u == UserOf[s]
    IN  /\ at[s] = (IF connected THEN "SetOnline" ELSE "SetOffline")
        /\ u \in accounts
        /\ presence' = [presence EXCEPT ![u] = IF connected THEN preferred[u] ELSE "Offline"]
        /\ at' = [at EXCEPT ![s] = IF connected THEN "Open" ELSE "None"]
        /\ adrift' = IF s \in overtaken /\ count[u] > 0 THEN adrift \cup {u} ELSE adrift \ {u}
        /\ overtaken' = overtaken \ {s}
        /\ UNCHANGED <<contactVars, count, preferred, private, miscounted, faults>>
        /\ TellOf(u)

\* It fails: the commit fails, or the account is deleted.  A session that
\* cannot open takes the whole count with it.
PresenceFails(s) ==
    LET u == UserOf[s]
    IN  /\ at[s] \in {"SetOnline", "SetOffline"}
        /\ \/ faults < MaxFaults /\ faults' = faults + 1
           \/ u \notin accounts /\ UNCHANGED faults
        /\ count' = IF at[s] = "SetOnline" THEN [count EXCEPT ![u] = 0] ELSE count
        /\ at' = [at EXCEPT ![s] = "None"]
        /\ overtaken' = overtaken \ {s}
        /\ miscounted' = IF at[s] = "SetOnline" /\ count[u] # 1 THEN miscounted \cup {u} ELSE miscounted
        /\ adrift' = IF count'[u] = 0 /\ presence[u] # "Offline" THEN adrift \cup {u} ELSE adrift
        /\ UNCHANGED <<contactVars, profileVars, toldVars>>

\* The counts are in memory, the presence is in the store.
ServerRestarts ==
    /\ faults < MaxFaults /\ faults' = faults + 1
    /\ at' = [s \in Sessions |-> "None"]
    /\ count' = [u \in Users |-> 0]
    /\ overtaken' = {} /\ miscounted' = {}
    /\ adrift' = {u \in Users : presence[u] # "Offline"}
    /\ running' = {}
    /\ UNCHANGED <<accounts, pending, links, sharing, blocks, directs, profileVars, toldVars>>

(***************************************************************************)
(* Logins, profile and privacy.                                            *)
(***************************************************************************)
\* A write of the presence by no session, connected or not.
SetPresence(u, choice) ==
    /\ presence' = [presence EXCEPT ![u] = choice]
    /\ adrift' = IF choice # "Offline" <=> count[u] > 0 THEN adrift \ {u} ELSE adrift \cup {u}

\* login_with_second_factor, by password, before any connection of the new
\* device: the user is online whatever they prefer, and no event says so.
Login(u) ==
    /\ u \in accounts
    /\ SetPresence(u, "Online")
    /\ UNCHANGED <<contactVars, at, count, overtaken, miscounted, faults, preferred, private>>
    /\ unaware' = unaware \cup {<<v, u>> : v \in {w \in FriendsOf(u) : VisibleTo(w, u)' # VisibleTo(w, u)}}
    /\ UNCHANGED told

\* update_profile writes the given or the preferred presence.
UpdateProfile(u, choice) ==
    /\ Acts(u)
    /\ SetPresence(u, choice)
    /\ preferred' = [preferred EXCEPT ![u] = choice]
    /\ UNCHANGED <<pending, links, sharing, blocks, directs, at, count, overtaken, miscounted, faults, private>>
    /\ TellOf(u)

\* Mutant of PrivacyAudience: the friends of the user are not told.
PrivacyAudienceSelf(u) == {u}

PrivacyAudience(u) == {u} \cup FriendsOf(u)

UpdatePrivacy(u, nobody) ==
    /\ u \in accounts
    /\ private' = IF nobody THEN private \cup {u} ELSE private \ {u}
    /\ UNCHANGED <<contactVars, sessionVars, presence, preferred>>
    /\ Tell(PrivacyAudience(u))

Next ==
    \/ \E a, b \in Users :
         \/ UNCHANGED <<sessionVars, profileVars>> /\ ContactStep(a, b)
         \/ \E share \in BOOLEAN :
              UNCHANGED <<sessionVars, profileVars>> /\ SettingsStep(a, b, share)
    \/ \E u \in Users :
         \/ DeleteAccount(u)
         \/ Login(u)
         \/ \E choice \in Choices : UpdateProfile(u, choice)
         \/ \E nobody \in BOOLEAN : UpdatePrivacy(u, nobody)
    \/ \E s \in Sessions :
         \/ Connect(s)
         \/ Disconnect(s)
         \/ \E connected \in BOOLEAN : WritePresence(s, connected)
         \/ PresenceFails(s)
    \/ ServerRestarts

Spec == Init /\ [][Next]_vars

(***************************************************************************)
(* Properties.                                                             *)
(***************************************************************************)
Settled(u) == \A s \in Sessions : UserOf[s] = u => at[s] \in {"None", "Open"}

\* Once the sessions of a user have written what they had to, the user is
\* offline exactly when no session is open, whatever the order in which
\* several were opened and closed.  The exceptions are a user who prefers to
\* be offline, a count lost with a session that failed to open, and a last
\* write of the presence that was not for the count it found: by register,
\* login or update_profile, by a session that another one's connect overtook
\* between its count and its write, or before a failure or a restart.  The
\* next write of a session ends the exception.
PresenceFollowsSessions ==
    \A u \in accounts \ (adrift \cup miscounted) : Settled(u) /\ preferred[u] # "Offline" =>
        (presence[u] = "Offline" <=> \A s \in Sessions : UserOf[s] = u => at[s] = "None")

\* What a user was last shown of a friend is what the friend lets them see
\* now: changes of presence, privacy and friendship reach those they
\* concern, all but the change of the settings for one friend and the
\* presence a login writes, until the user is told of anything else.
FriendsAreTold ==
    \A v \in accounts : \A u \in FriendsOf(v) \cap accounts :
        told[v][u] = VisibleTo(v, u) \/ <<v, u>> \in unaware
================================================================================
