----------------------------- MODULE PresenceProofs ----------------------------
(***************************************************************************)
(* Theorems about Contacts and Presence, for any users and sessions.       *)
(*                                                                         *)
(* FriendshipsAreWhole and BlocksCut are proved with RequestsInv, which    *)
(* bounds what the requests of two users may still make of them.           *)
(* PresenceFollowsSessions is about settled users; CountInv, OfflineInv    *)
(* and WriteInv say how count and presence relate while a write is under   *)
(* way.                                                                    *)
(***************************************************************************)
EXTENDS Presence, FiniteSetTheorems, TLAPS

\* What the requests of two users leave room for: a friendship for each.
RequestsInv ==
    \A e \in pending :
        /\ links[{e[1], e[2]}] < 2
        /\ <<e[2], e[1]>> \in pending => links[{e[1], e[2]}] = 0

ContactsInv == ContactsTypeOK /\ RequestsInv /\ FriendshipsAreWhole /\ BlocksCut

LEMMA PairOfTwo == \A a, b \in Users : a # b => {a, b} \in Pairs
<1> SUFFICES ASSUME NEW a \in Users, NEW b \in Users, a # b
             PROVE  Cardinality({a, b}) = 2
  BY DEF Pairs
<1>1. IsFiniteSet({a}) /\ Cardinality({a}) = 1
  BY FS_Singleton
<1>2. {a, b} = {a} \cup {b} /\ b \notin {a}
  OBVIOUS
<1>3. QED
  BY <1>1, <1>2, FS_AddElement

LEMMA Ordering ==
  /\ \A e \in Ordered : e = <<e[1], e[2]>> /\ e[1] \in Users /\ e[2] \in Users /\ e[1] # e[2]
  /\ \A a, b \in Users : a # b => <<a, b>> \in Ordered
  /\ \A e \in Ordered : {e[1], e[2]} \in Pairs
  BY PairOfTwo DEF Ordered

LEMMA SamePair ==
  \A a, b \in Users : \A e \in Ordered : {e[1], e[2]} = {a, b} <=> e \in Both(a, b)
<1> SUFFICES ASSUME NEW a \in Users, NEW b \in Users, NEW e \in Ordered
             PROVE  {e[1], e[2]} = {a, b} <=> e \in Both(a, b)
  OBVIOUS
<1>1. e = <<e[1], e[2]>> /\ e[1] # e[2]
  BY Ordering
<1>2. {e[1], e[2]} = {a, b} <=> (e[1] = a /\ e[2] = b) \/ (e[1] = b /\ e[2] = a)
  BY <1>1
<1>3. e \in Both(a, b) <=> (e[1] = a /\ e[2] = b) \/ (e[1] = b /\ e[2] = a)
  BY <1>1 DEF Both
<1>4. QED
  BY <1>2, <1>3

LEMMA ContactsInitially == ContactsInit => ContactsInv
  BY ContactsAssumption, Ordering DEF ContactsInit, ContactsInv, ContactsTypeOK, RequestsInv,
     FriendshipsAreWhole, BlocksCut, AreFriends

\* The operations on the friend requests of two users.
LEMMA RequestsKeepInv ==
  ASSUME ContactsInv, NEW a \in Users, NEW b \in Users,
         SendFriendRequest(a, b) \/ AcceptFriendRequest(a, b) \/ RejectFriendRequest(a, b)
  PROVE  ContactsInv'
<1>1. CASE SendFriendRequest(a, b)
  <2>1. a # b /\ links[{a, b}] = 0 /\ {a, b} \in Pairs /\ <<a, b>> \in Ordered
    BY <1>1, PairOfTwo DEF SendFriendRequest, AreFriends, ContactsInv, ContactsTypeOK, Ordered
  <2>2. ContactsTypeOK' /\ FriendshipsAreWhole'
    BY <1>1, <2>1 DEF SendFriendRequest, Acts, ContactsInv, ContactsTypeOK, FriendshipsAreWhole, AreFriends
  <2>3. RequestsInv'
    <3> SUFFICES ASSUME NEW e \in pending'
                 PROVE  links[{e[1], e[2]}] < 2 /\ (<<e[2], e[1]>> \in pending' => links[{e[1], e[2]}] = 0)
      BY <1>1 DEF SendFriendRequest, RequestsInv
    <3>1. CASE e = <<a, b>>
      BY <2>1, <3>1
    <3>2. CASE e # <<a, b>>
      <4>1. e \in pending /\ e \in Ordered
        BY <1>1, <3>2 DEF SendFriendRequest, ContactsInv, ContactsTypeOK
      <4>2. <<e[2], e[1]>> = <<a, b>> => {e[1], e[2]} = {a, b}
        OBVIOUS
      <4>3. QED
        BY <1>1, <2>1, <4>1, <4>2 DEF SendFriendRequest, ContactsInv, RequestsInv
    <3>3. QED
      BY <3>1, <3>2
  <2>4. BlocksCut'
    BY <1>1, Ordering DEF SendFriendRequest, ContactsInv, ContactsTypeOK, BlocksCut, AreFriends, Blocked, Both
  <2>5. QED
    BY <2>2, <2>3, <2>4 DEF ContactsInv
<1>2. CASE AcceptFriendRequest(a, b)
  <2>1. /\ {a, b} \in Pairs /\ <<a, b>> \in Ordered /\ <<b, a>> \in Ordered /\ a # b
        /\ links[{a, b}] \in 0 .. 1 /\ links'[{a, b}] = links[{a, b}] + 1
        /\ \A p \in Pairs : p # {a, b} => links'[p] = links[p] /\ directs'[p] = directs[p]
        /\ directs'[{a, b}] > 0
    BY <1>2, PairOfTwo DEF AcceptFriendRequest, ContactsInv, ContactsTypeOK, RequestsInv, Ordered
  <2>2. ContactsTypeOK'
    <3>1. links' \in [Pairs -> 0 .. 2] /\ directs' \in [Pairs -> 0 .. MaxDirects]
      BY <1>2, <2>1, ContactsAssumption DEF AcceptFriendRequest, ContactsInv, ContactsTypeOK
    <3>2. DOMAIN sharing' \subseteq Ordered /\ \A e \in DOMAIN sharing' : sharing'[e] \in BOOLEAN
      BY <1>2, <2>1 DEF AcceptFriendRequest, ContactsInv, ContactsTypeOK, With, Both
    <3>3. QED
      BY <1>2, <3>1, <3>2 DEF AcceptFriendRequest, Acts, ContactsInv, ContactsTypeOK
  <2>3. RequestsInv'
    <3> SUFFICES ASSUME NEW e \in pending'
                 PROVE  links'[{e[1], e[2]}] < 2 /\ (<<e[2], e[1]>> \in pending' => links'[{e[1], e[2]}] = 0)
      BY DEF RequestsInv
    <3>1. e \in pending /\ e # <<a, b>> /\ e \in Ordered /\ {e[1], e[2]} \in Pairs
      BY <1>2, Ordering DEF AcceptFriendRequest, ContactsInv, ContactsTypeOK
    <3>2. CASE e = <<b, a>>
      BY <1>2, <2>1, <3>1, <3>2 DEF AcceptFriendRequest, ContactsInv, RequestsInv
    <3>3. CASE e # <<b, a>>
      <4>1. {e[1], e[2]} # {a, b}
        BY <3>1, <3>3, SamePair DEF Both
      <4>2. QED
        BY <1>2, <2>1, <3>1, <4>1 DEF AcceptFriendRequest, ContactsInv, RequestsInv
    <3>4. QED
      BY <3>2, <3>3
  <2>4. FriendshipsAreWhole'
    <3>1. \A e \in Ordered : e \in DOMAIN sharing' <=> links'[{e[1], e[2]}] > 0
      <4> SUFFICES ASSUME NEW e \in Ordered
                   PROVE  e \in DOMAIN sharing' <=> links'[{e[1], e[2]}] > 0
        OBVIOUS
      <4>1. e \in DOMAIN sharing' <=> e \in DOMAIN sharing \/ e \in Both(a, b)
        BY <1>2 DEF AcceptFriendRequest, With
      <4>2. e \in DOMAIN sharing <=> links[{e[1], e[2]}] > 0
        BY Ordering DEF ContactsInv, FriendshipsAreWhole, AreFriends
      <4>3. QED
        <5>1. CASE e \in Both(a, b)
          <6>1. {e[1], e[2]} = {a, b}
            BY <5>1, SamePair
          <6>2. links'[{a, b}] > 0
            BY <2>1
          <6>3. QED
            BY <4>1, <5>1, <6>1, <6>2
        <5>2. CASE e \notin Both(a, b)
          <6>1. {e[1], e[2]} \in Pairs /\ {e[1], e[2]} # {a, b}
            BY <5>2, SamePair, Ordering
          <6>2. links'[{e[1], e[2]}] = links[{e[1], e[2]}]
            BY <2>1, <6>1
          <6>3. QED
            BY <4>1, <4>2, <5>2, <6>2
        <5>3. QED
          BY <5>1, <5>2
    <3>2. DOMAIN sharing' = {e \in Ordered : AreFriends(e[1], e[2])'}
      BY <2>2, <3>1, Ordering DEF ContactsTypeOK, AreFriends
    <3>3. QED
      BY <2>1, <3>2 DEF ContactsInv, FriendshipsAreWhole
  <2>5. BlocksCut'
    <3> SUFFICES ASSUME NEW e \in blocks
                 PROVE  ~AreFriends(e[1], e[2])' /\ pending' \cap Both(e[1], e[2]) = {}
      BY <1>2 DEF AcceptFriendRequest, BlocksCut, Both
    <3>1. e \in Ordered /\ {e[1], e[2]} \in Pairs /\ links[{e[1], e[2]}] = 0 /\ pending \cap Both(e[1], e[2]) = {}
      BY Ordering DEF ContactsInv, ContactsTypeOK, BlocksCut, AreFriends
    <3>2. e \notin Both(a, b)
      BY <1>2, <3>1 DEF AcceptFriendRequest, Both
    <3>3. QED
      BY <1>2, <2>1, <3>1, <3>2, SamePair DEF AcceptFriendRequest, AreFriends
  <2>6. QED
    BY <2>2, <2>3, <2>4, <2>5 DEF ContactsInv
<1>3. CASE RejectFriendRequest(a, b)
  BY <1>3 DEF RejectFriendRequest, Acts, ContactsInv, ContactsTypeOK, RequestsInv, FriendshipsAreWhole,
     BlocksCut, AreFriends
<1>4. QED
  BY <1>1, <1>2, <1>3

\* The operations on the friendship of two users.
LEMMA LinksKeepInv ==
  ASSUME ContactsInv, NEW a \in Users, NEW b \in Users, NEW share \in BOOLEAN,
         \/ UpdateFriendSettings(a, b, share) \/ DeleteFriend(a, b) \/ BlockUser(a, b)
         \/ UnblockUser(a, b) \/ CreateDirect(a, b)
  PROVE  ContactsInv'
<1>1. CASE UpdateFriendSettings(a, b, share)
  <2>1. <<a, b>> \in DOMAIN sharing
    BY <1>1, Ordering DEF UpdateFriendSettings, ContactsInv, FriendshipsAreWhole, AreFriends
  <2>2. DOMAIN sharing' = DOMAIN sharing /\ \A e \in DOMAIN sharing' : sharing'[e] \in BOOLEAN
    BY <1>1, <2>1 DEF UpdateFriendSettings, With, ContactsInv, ContactsTypeOK
  <2>3. QED
    BY <1>1, <2>2
    DEF UpdateFriendSettings, Acts, ContactsInv, ContactsTypeOK, RequestsInv, FriendshipsAreWhole, BlocksCut, AreFriends
<1>2. CASE DeleteFriend(a, b) \/ BlockUser(a, b)
  <2>1. /\ {a, b} \in Pairs /\ <<a, b>> \in Ordered /\ a # b
        /\ links' = [links EXCEPT ![{a, b}] = 0]
        /\ sharing' = Without(sharing, Both(a, b))
        /\ pending' \subseteq pending /\ directs' = directs
        /\ blocks \subseteq blocks' /\ blocks' \subseteq blocks \cup {<<a, b>>}
        /\ <<a, b>> \in blocks' => <<a, b>> \in blocks \/ pending' \cap Both(a, b) = {}
    BY <1>2, PairOfTwo, Ordering DEF DeleteFriend, BlockUser, AreFriends
  <2>2. links' \in [Pairs -> 0 .. 2] /\ \A p \in Pairs : links'[p] = IF p = {a, b} THEN 0 ELSE links[p]
    BY <2>1 DEF ContactsInv, ContactsTypeOK
  <2>3. ContactsTypeOK'
    BY <1>2, <2>1, <2>2 DEF DeleteFriend, BlockUser, Acts, ContactsInv, ContactsTypeOK, Without
  <2>4. RequestsInv'
    <3> SUFFICES ASSUME NEW e \in pending'
                 PROVE  links'[{e[1], e[2]}] < 2 /\ (<<e[2], e[1]>> \in pending' => links'[{e[1], e[2]}] = 0)
      BY DEF RequestsInv
    <3>1. e \in pending /\ {e[1], e[2]} \in Pairs
      BY <2>1, Ordering DEF ContactsInv, ContactsTypeOK
    <3>2. QED
      BY <2>1, <2>2, <3>1 DEF ContactsInv, RequestsInv
  <2>5. FriendshipsAreWhole'
    <3>1. \A e \in Ordered : e \in DOMAIN sharing' <=> links'[{e[1], e[2]}] > 0
      <4> SUFFICES ASSUME NEW e \in Ordered
                   PROVE  e \in DOMAIN sharing' <=> links'[{e[1], e[2]}] > 0
        OBVIOUS
      <4>1. e \in DOMAIN sharing' <=> e \in DOMAIN sharing /\ e \notin Both(a, b)
        BY <2>1 DEF Without
      <4>2. e \in DOMAIN sharing <=> links[{e[1], e[2]}] > 0
        BY Ordering DEF ContactsInv, FriendshipsAreWhole, AreFriends
      <4>3. {e[1], e[2]} \in Pairs /\ ({e[1], e[2]} = {a, b} <=> e \in Both(a, b))
        BY SamePair, Ordering
      <4>4. QED
        BY <2>2, <4>1, <4>2, <4>3
    <3>2. DOMAIN sharing' = {e \in Ordered : AreFriends(e[1], e[2])'}
      BY <2>3, <3>1, Ordering DEF ContactsTypeOK, AreFriends
    <3>3. QED
      BY <2>1, <2>2, <3>2 DEF ContactsInv, FriendshipsAreWhole
  <2>6. BlocksCut'
    <3> SUFFICES ASSUME NEW e \in blocks'
                 PROVE  ~AreFriends(e[1], e[2])' /\ pending' \cap Both(e[1], e[2]) = {}
      BY DEF BlocksCut, Both
    <3>1. CASE e \in blocks
      <4>1. {e[1], e[2]} \in Pairs
        BY <3>1, Ordering DEF ContactsInv, ContactsTypeOK
      <4>2. QED
        BY <2>1, <2>2, <3>1, <4>1 DEF ContactsInv, BlocksCut, AreFriends
    <3>2. CASE e \notin blocks
      <4>1. e = <<a, b>> /\ e[1] = a /\ e[2] = b
        BY <2>1, <3>2
      <4>2. ~AreFriends(a, b)'
        BY <2>1, <2>2 DEF AreFriends
      <4>3. pending' \cap Both(a, b) = {}
        BY <2>1, <3>2, <4>1
      <4>4. QED
        BY <4>1, <4>2, <4>3 DEF AreFriends
    <3>3. QED
      BY <3>1, <3>2
  <2>7. QED
    BY <2>3, <2>4, <2>5, <2>6 DEF ContactsInv
<1>3. CASE UnblockUser(a, b)
  BY <1>3 DEF UnblockUser, Acts, ContactsInv, ContactsTypeOK, RequestsInv, FriendshipsAreWhole, BlocksCut, AreFriends
<1>4. CASE CreateDirect(a, b)
  <2>1. directs' = directs
    BY <1>4, PairOfTwo DEF CreateDirect, AreFriends, ContactsInv, FriendshipsAreWhole
  <2>2. QED
    BY <1>4, <2>1
    DEF CreateDirect, Acts, ContactsInv, ContactsTypeOK, RequestsInv, FriendshipsAreWhole, BlocksCut, AreFriends
<1>5. QED
  BY <1>1, <1>2, <1>3, <1>4

LEMMA DeletionKeepsInv == \A a \in Users : ContactsInv /\ DeleteContacts(a) => ContactsInv'
<1> SUFFICES ASSUME ContactsInv, NEW a \in Users, DeleteContacts(a)
             PROVE  ContactsInv'
  OBVIOUS
<1>1. links' \in [Pairs -> 0 .. 2] /\ \A p \in Pairs : links'[p] = IF a \in p THEN 0 ELSE links[p]
  BY DEF DeleteContacts, ContactsInv, ContactsTypeOK
<1>2. ContactsTypeOK'
  BY <1>1, ContactsAssumption DEF DeleteContacts, ContactsInv, ContactsTypeOK, Without
<1>3. RequestsInv'
  <2> SUFFICES ASSUME NEW e \in pending'
               PROVE  links'[{e[1], e[2]}] < 2 /\ (<<e[2], e[1]>> \in pending' => links'[{e[1], e[2]}] = 0)
    BY DEF RequestsInv
  <2>1. e \in pending /\ {e[1], e[2]} \in Pairs /\ (<<e[2], e[1]>> \in pending' => <<e[2], e[1]>> \in pending)
    BY Ordering DEF DeleteContacts, ContactsInv, ContactsTypeOK
  <2>2. QED
    BY <1>1, <2>1 DEF ContactsInv, RequestsInv
<1>4. FriendshipsAreWhole'
  <2>1. \A e \in Ordered : e \in DOMAIN sharing' <=> links'[{e[1], e[2]}] > 0
    <3> SUFFICES ASSUME NEW e \in Ordered
                 PROVE  e \in DOMAIN sharing' <=> links'[{e[1], e[2]}] > 0
      OBVIOUS
    <3>1. e \in DOMAIN sharing' <=> e \in DOMAIN sharing /\ a \notin {e[1], e[2]}
      BY DEF DeleteContacts, Without
    <3>2. e \in DOMAIN sharing <=> links[{e[1], e[2]}] > 0
      BY Ordering DEF ContactsInv, FriendshipsAreWhole, AreFriends
    <3>3. QED
      BY <1>1, <3>1, <3>2, Ordering
  <2>2. DOMAIN sharing' = {e \in Ordered : AreFriends(e[1], e[2])'}
    BY <1>2, <2>1, Ordering DEF ContactsTypeOK, AreFriends
  <2>3. \A p \in Pairs : links'[p] > 0 => directs'[p] > 0
    BY <1>1 DEF DeleteContacts, ContactsInv, FriendshipsAreWhole
  <2>4. QED
    BY <2>2, <2>3 DEF FriendshipsAreWhole
<1>5. BlocksCut'
  <2> SUFFICES ASSUME NEW e \in blocks'
               PROVE  ~AreFriends(e[1], e[2])' /\ pending' \cap Both(e[1], e[2]) = {}
    BY DEF BlocksCut, Both
  <2>1. e \in blocks /\ {e[1], e[2]} \in Pairs /\ pending' \subseteq pending
    BY Ordering DEF DeleteContacts, ContactsInv, ContactsTypeOK
  <2>2. QED
    BY <1>1, <2>1 DEF ContactsInv, BlocksCut, AreFriends
<1>6. QED
  BY <1>2, <1>3, <1>4, <1>5 DEF ContactsInv

\* Every step of Presence keeps the invariant of Contacts.
LEMMA ContactsStayWhole == ContactsInv /\ [Next]_vars => ContactsInv'
<1> SUFFICES ASSUME ContactsInv, [Next]_vars
             PROVE  ContactsInv'
  OBVIOUS
<1>1. ASSUME NEW a \in Users, NEW b \in Users, ContactStep(a, b)
      PROVE  ContactsInv'
  BY <1>1, RequestsKeepInv, LinksKeepInv DEF ContactStep
<1>2. ASSUME NEW a \in Users, NEW b \in Users, NEW share \in BOOLEAN, SettingsStep(a, b, share)
      PROVE  ContactsInv'
  BY <1>2, LinksKeepInv DEF SettingsStep
<1>3. ASSUME NEW a \in Users, DeleteAccount(a)
      PROVE  ContactsInv'
  BY <1>3, DeletionKeepsInv DEF DeleteAccount
<1>4. ASSUME /\ running' \subseteq running /\ accounts' = accounts
             /\ UNCHANGED <<pending, links, sharing, blocks, directs>>
      PROVE  ContactsInv'
  BY <1>4 DEF ContactsInv, ContactsTypeOK, RequestsInv, FriendshipsAreWhole, BlocksCut, AreFriends
<1>5. ASSUME NEW u \in Users,
             \/ Login(u)
             \/ \E choice \in Choices : UpdateProfile(u, choice)
             \/ \E nobody \in BOOLEAN : UpdatePrivacy(u, nobody)
      PROVE  ContactsInv'
  BY <1>4, <1>5 DEF Login, UpdateProfile, UpdatePrivacy, Acts, contactVars
<1>6. ASSUME NEW s \in Sessions,
             \/ Connect(s) \/ Disconnect(s) \/ PresenceFails(s)
             \/ \E connected \in BOOLEAN : WritePresence(s, connected)
      PROVE  ContactsInv'
  BY <1>4, <1>6 DEF Connect, Disconnect, PresenceFails, WritePresence, contactVars
<1>7. CASE ServerRestarts
  BY <1>4, <1>7 DEF ServerRestarts
<1>8. CASE UNCHANGED vars
  BY <1>4, <1>8 DEF vars, contactVars
<1>9. QED
  BY <1>1, <1>2, <1>3, <1>5, <1>6, <1>7, <1>8 DEF Next

(***************************************************************************)
(* The sessions.                                                           *)
(***************************************************************************)
SessionTypes ==
    /\ at \in [Sessions -> {"None", "SetOnline", "Open", "SetOffline"}]
    /\ count \in [Users -> Nat]
    /\ presence \in [Users -> {"Online", "Invisible", "Offline"}]
    /\ preferred \in [Users -> {"Online", "Invisible", "Offline"}]
    /\ private \subseteq Users
    /\ overtaken \subseteq Sessions
    /\ miscounted \subseteq Users /\ adrift \subseteq Users
    /\ faults \in 0 .. MaxFaults

ToldTypes == told \in [Users -> [Users -> Shown]] /\ unaware \subseteq Ordered

Live(u) == {s \in Sessions : UserOf[s] = u /\ at[s] \in {"SetOnline", "Open"}}

\* count counts the sessions that are open or about to be.
CountInv ==
    \A u \in Users :
        /\ count[u] <= Cardinality(Live(u))
        /\ u \notin miscounted => count[u] = Cardinality(Live(u))

\* An offline write that no connect has overtaken finds no connection.
OfflineInv ==
    \A s \in Sessions :
        at[s] = "SetOffline" /\ s \notin overtaken /\ UserOf[s] \notin miscounted => count[UserOf[s]] = 0

\* A presence that contradicts the count has its write under way.
WriteInv ==
    \A u \in accounts \ (adrift \cup miscounted) : preferred[u] # "Offline" =>
        /\ count[u] > 0 /\ presence[u] = "Offline" => \E s \in Sessions : UserOf[s] = u /\ at[s] = "SetOnline"
        /\ count[u] = 0 /\ presence[u] # "Offline" => \E s \in Sessions : UserOf[s] = u /\ at[s] = "SetOffline"

SessionsInv == SessionTypes /\ CountInv /\ OfflineInv /\ WriteInv

IInv == ContactsInv /\ SessionsInv /\ ToldTypes /\ FriendsAreTold

LEMMA SetsOfSessions ==
  \A S \in SUBSET Sessions :
     /\ IsFiniteSet(S) /\ Cardinality(S) \in Nat
     /\ Cardinality(S) <= Cardinality(Sessions)
     /\ Cardinality(S) = 0 <=> S = {}
<1> SUFFICES ASSUME NEW S \in SUBSET Sessions
             PROVE  /\ IsFiniteSet(S) /\ Cardinality(S) \in Nat
                    /\ Cardinality(S) <= Cardinality(Sessions)
                    /\ Cardinality(S) = 0 <=> S = {}
  OBVIOUS
<1>1. IsFiniteSet(S) /\ Cardinality(S) <= Cardinality(Sessions)
  BY PresenceAssumption, FS_Subset
<1>2. QED
  BY <1>1, FS_CardinalityType, FS_EmptySet

LEMMA LiveIsFinite ==
  \A u : /\ IsFiniteSet(Live(u)) /\ Cardinality(Live(u)) \in Nat
         /\ Cardinality(Live(u)) <= Cardinality(Sessions)
         /\ Cardinality(Live(u)) = 0 <=> Live(u) = {}
  BY SetsOfSessions DEF Live

\* Steps that leave the sessions and their counts alone.
LEMMA CountUntouched ==
  /\ CountInv /\ UNCHANGED <<at, count>> /\ miscounted \subseteq miscounted' => CountInv'
  /\ OfflineInv /\ UNCHANGED <<at, count, overtaken, miscounted>> => OfflineInv'
  BY DEF CountInv, OfflineInv, Live

LEMMA ConnectKeepsInv ==
  ASSUME accounts \subseteq Users, SessionsInv, NEW s \in Sessions, Connect(s)
  PROVE  SessionsInv'
<1> DEFINE u == UserOf[s]
<1> u \in Users
  BY PresenceAssumption
<1> USE PresenceAssumption DEF SessionsInv, SessionTypes
<1>1. Live(u)' = Live(u) \cup {s} /\ s \notin Live(u) /\ \A w \in Users : w # u => Live(w)' = Live(w)
  BY DEF Connect, Live
<1>2. Cardinality(Live(u)') = Cardinality(Live(u)) + 1
  BY <1>1, LiveIsFinite, FS_AddElement
<1>3. CountInv'
  <2>1. /\ Cardinality(Live(u)) \in Nat /\ count[u] \in Nat /\ count[u] <= Cardinality(Live(u))
        /\ u \notin miscounted => count[u] = Cardinality(Live(u))
    BY LiveIsFinite DEF CountInv
  <2>2. count'[u] <= Cardinality(Live(u)') /\ (u \notin miscounted' => count'[u] = Cardinality(Live(u)'))
    BY <1>2, <2>1 DEF Connect
  <2>3. \A w \in Users : w # u => count'[w] = count[w] /\ (w \notin miscounted' => w \notin miscounted)
    BY DEF Connect
  <2>4. QED
    BY <1>1, <2>2, <2>3 DEF CountInv
<1>4. OfflineInv'
  <2> SUFFICES ASSUME NEW t \in Sessions, at'[t] = "SetOffline", t \notin overtaken', UserOf[t] \notin miscounted
               PROVE  count'[UserOf[t]] = 0
    BY DEF OfflineInv, Connect
  <2>1. t # s /\ at[t] = "SetOffline" /\ t \notin overtaken
    BY DEF Connect
  <2>2. count[UserOf[t]] = 0
    BY <2>1 DEF OfflineInv
  <2>3. UserOf[t] # u
    BY <2>1, <2>2 DEF Connect
  <2>4. QED
    BY <2>2, <2>3 DEF Connect
<1>5. WriteInv'
  BY DEF Connect, WriteInv, contactVars, profileVars
<1>6. SessionTypes'
  BY DEF Connect, profileVars
<1>7. QED
  BY <1>3, <1>4, <1>5, <1>6

LEMMA DisconnectKeepsInv ==
  ASSUME accounts \subseteq Users, SessionsInv, NEW s \in Sessions, Disconnect(s)
  PROVE  SessionsInv'
<1> DEFINE u == UserOf[s]
<1> u \in Users
  BY PresenceAssumption
<1> USE PresenceAssumption DEF SessionsInv, SessionTypes
<1>0. Cardinality(Live(u)') \in Nat
  BY SetsOfSessions DEF Live
<1>1. Live(u)' = Live(u) \ {s} /\ s \in Live(u) /\ \A w \in Users : w # u => Live(w)' = Live(w)
  BY DEF Disconnect, Live
<1>2. Cardinality(Live(u)') = Cardinality(Live(u)) - 1
  <2>1. Cardinality(Live(u) \ {s}) = Cardinality(Live(u)) - 1
    BY <1>1, LiveIsFinite, FS_RemoveElement
  <2>2. QED
    BY <1>1, <2>1
<1>3. CountInv'
  <2>1. /\ Cardinality(Live(u)) \in Nat /\ count[u] \in Nat /\ count[u] <= Cardinality(Live(u))
        /\ u \notin miscounted => count[u] = Cardinality(Live(u))
    BY LiveIsFinite DEF CountInv
  <2>2. count'[u] <= Cardinality(Live(u)') /\ (u \notin miscounted' => count'[u] = Cardinality(Live(u)'))
    BY <1>0, <1>2, <2>1 DEF Disconnect, ClosedCount
  <2>3. \A w \in Users : w # u => count'[w] = count[w] /\ (w \notin miscounted' => w \notin miscounted)
    BY DEF Disconnect, ClosedCount
  <2>4. QED
    BY <1>1, <2>2, <2>3 DEF CountInv
<1>4. u \notin miscounted => count[u] > 0
  BY <1>1, LiveIsFinite DEF CountInv
<1>5. \A t \in Sessions : t # s => at'[t] = at[t]
  BY DEF Disconnect
<1>6. u \notin miscounted => count'[u] = count[u] - 1 /\ (at'[s] = "SetOffline" <=> count'[u] = 0)
  BY <1>4 DEF Disconnect, ClosedCount
<1>7. /\ at[s] = "Open" /\ UNCHANGED <<accounts, adrift, miscounted, overtaken, presence, preferred>>
      /\ \A w \in Users : w # u => count'[w] = count[w]
  BY DEF Disconnect, contactVars, profileVars
<1>8. OfflineInv'
  <2> SUFFICES ASSUME NEW t \in Sessions, at'[t] = "SetOffline", t \notin overtaken, UserOf[t] \notin miscounted
               PROVE  count'[UserOf[t]] = 0
    BY <1>7 DEF OfflineInv
  <2>1. CASE t = s
    BY <1>6, <2>1
  <2>2. CASE t # s
    <3>1. count[UserOf[t]] = 0
      BY <1>5, <2>2 DEF OfflineInv
    <3>2. QED
      BY <1>4, <1>7, <3>1
  <2>3. QED
    BY <2>1, <2>2
<1>9. WriteInv'
  <2> SUFFICES ASSUME NEW w \in accounts \ (adrift \cup miscounted), preferred[w] # "Offline"
               PROVE  /\ count'[w] > 0 /\ presence[w] = "Offline" => \E t \in Sessions : UserOf[t] = w /\ at'[t] = "SetOnline"
                      /\ count'[w] = 0 /\ presence[w] # "Offline" => \E t \in Sessions : UserOf[t] = w /\ at'[t] = "SetOffline"
    BY <1>7 DEF WriteInv
  <2>1. CASE w = u
    <3>1. ASSUME count[u] > 0, NEW t \in Sessions, at[t] = "SetOnline"
          PROVE  at'[t] = "SetOnline"
      BY <1>5, <1>7, <3>1
    <3>2. QED
      BY <1>4, <1>6, <1>7, <2>1, <3>1 DEF WriteInv
  <2>2. CASE w # u
    BY <1>5, <1>7, <2>2 DEF WriteInv
  <2>3. QED
    BY <2>1, <2>2
<1>10. SessionTypes'
  BY DEF Disconnect, ClosedCount, profileVars
<1>11. QED
  BY <1>3, <1>8, <1>9, <1>10

LEMMA FailureKeepsInv ==
  ASSUME accounts \subseteq Users, SessionsInv, NEW s \in Sessions, PresenceFails(s)
  PROVE  SessionsInv'
<1> DEFINE u == UserOf[s]
<1> u \in Users
  BY PresenceAssumption
<1> USE PresenceAssumption DEF SessionsInv, SessionTypes
<1>0. Cardinality(Live(u)') \in Nat
  BY SetsOfSessions DEF Live
<1>1. Live(u)' = Live(u) \ {s} /\ \A w \in Users : w # u => Live(w)' = Live(w)
  BY DEF PresenceFails, Live
<1>2. s \in Live(u) <=> at[s] = "SetOnline"
  BY DEF PresenceFails, Live
<1>3. s \in Live(u) => Cardinality(Live(u) \ {s}) = Cardinality(Live(u)) - 1
  BY LiveIsFinite, FS_RemoveElement
<1>4. \A w \in Users : w # u => count'[w] = count[w] /\ (w \notin miscounted' => w \notin miscounted)
  BY DEF PresenceFails
<1>5. CountInv'
  <2>1. /\ Cardinality(Live(u)) \in Nat /\ count[u] \in Nat /\ count[u] <= Cardinality(Live(u))
        /\ u \notin miscounted => count[u] = Cardinality(Live(u))
    BY LiveIsFinite DEF CountInv
  <2>2. CASE at[s] = "SetOnline"
    <3>1. count'[u] = 0 /\ (u \notin miscounted' => u \notin miscounted /\ count[u] = 1)
      BY <2>2 DEF PresenceFails
    <3>2. Cardinality(Live(u)') = Cardinality(Live(u)) - 1
      BY <1>1, <1>2, <1>3, <2>2
    <3>3. count'[u] <= Cardinality(Live(u)') /\ (u \notin miscounted' => count'[u] = Cardinality(Live(u)'))
      BY <1>0, <2>1, <3>1, <3>2
    <3>4. QED
      BY <1>1, <1>4, <3>3 DEF CountInv
  <2>3. CASE at[s] = "SetOffline"
    <3>1. count' = count /\ miscounted' = miscounted /\ Live(u)' = Live(u)
      BY <1>1, <1>2, <2>3 DEF PresenceFails
    <3>2. QED
      BY <1>1, <3>1 DEF CountInv
  <2>4. QED
    BY <2>2, <2>3 DEF PresenceFails
<1>6. \A t \in Sessions : t # s => at'[t] = at[t] /\ (t \notin overtaken' => t \notin overtaken)
  BY DEF PresenceFails
<1>7. at'[s] = "None" /\ (count'[u] = 0 \/ count'[u] = count[u]) /\ (u \notin miscounted' => u \notin miscounted)
  BY DEF PresenceFails
<1>8. OfflineInv'
  BY <1>4, <1>6, <1>7 DEF OfflineInv
<1>9. WriteInv'
  <2> SUFFICES ASSUME NEW w \in accounts \ (adrift' \cup miscounted'), preferred[w] # "Offline"
               PROVE  /\ count'[w] > 0 /\ presence[w] = "Offline" => \E t \in Sessions : UserOf[t] = w /\ at'[t] = "SetOnline"
                      /\ count'[w] = 0 /\ presence[w] # "Offline" => \E t \in Sessions : UserOf[t] = w /\ at'[t] = "SetOffline"
    BY DEF PresenceFails, WriteInv, contactVars, profileVars
  <2>1. w \notin adrift \cup miscounted
    BY DEF PresenceFails
  <2>2. CASE w = u
    <3>1. ~(count'[u] = 0 /\ presence[u] # "Offline")
      BY <2>2 DEF PresenceFails
    <3>2. count'[u] > 0 => at[s] = "SetOffline" /\ count'[u] = count[u]
      BY DEF PresenceFails
    <3>3. QED
      BY <1>6, <2>1, <2>2, <3>1, <3>2 DEF WriteInv
  <2>3. CASE w # u
    BY <1>4, <1>6, <2>1, <2>3 DEF WriteInv
  <2>4. QED
    BY <2>2, <2>3
<1>10. SessionTypes'
  BY DEF PresenceFails, profileVars
<1>11. QED
  BY <1>5, <1>8, <1>9, <1>10

LEMMA WriteKeepsInv ==
  ASSUME accounts \subseteq Users, SessionsInv, NEW s \in Sessions, NEW connected \in BOOLEAN, WritePresence(s, connected)
  PROVE  SessionsInv'
<1> DEFINE u == UserOf[s]
<1> u \in Users
  BY PresenceAssumption
<1> USE PresenceAssumption DEF SessionsInv, SessionTypes
<1>1. \A w \in Users : Live(w)' = Live(w)
  BY DEF WritePresence, Live
<1>2. CountInv'
  BY <1>1 DEF WritePresence, CountInv
<1>3. OfflineInv'
  BY DEF WritePresence, OfflineInv
<1>4. at[s] = "SetOnline" /\ u \notin miscounted => count[u] > 0
  <2>1. at[s] = "SetOnline" => s \in Live(u)
    BY DEF Live
  <2>2. QED
    BY <2>1, LiveIsFinite DEF CountInv
<1>5. at[s] = "SetOffline" /\ u \notin adrift' \cup miscounted => count[u] = 0
  BY DEF WritePresence, OfflineInv
<1>6. \A t \in Sessions : t # s => at'[t] = at[t]
  BY DEF WritePresence
<1>7. WriteInv'
  <2> SUFFICES ASSUME NEW w \in accounts \ (adrift' \cup miscounted), preferred[w] # "Offline"
               PROVE  /\ count[w] > 0 /\ presence'[w] = "Offline" => \E t \in Sessions : UserOf[t] = w /\ at'[t] = "SetOnline"
                      /\ count[w] = 0 /\ presence'[w] # "Offline" => \E t \in Sessions : UserOf[t] = w /\ at'[t] = "SetOffline"
    BY DEF WritePresence, WriteInv, contactVars
  <2>1. CASE w = u
    <3>1. CASE connected
      <4>1. at[s] = "SetOnline" /\ presence'[u] = preferred[u]
        BY <3>1 DEF WritePresence
      <4>2. QED
        BY <1>4, <2>1, <4>1
    <3>2. CASE ~connected
      <4>1. at[s] = "SetOffline" /\ presence'[u] = "Offline"
        BY <3>2 DEF WritePresence
      <4>2. QED
        BY <1>5, <2>1, <4>1
    <3>3. QED
      BY <3>1, <3>2
  <2>2. CASE w # u
    <3>1. w \notin adrift /\ presence'[w] = presence[w]
      BY <2>2 DEF WritePresence
    <3>2. QED
      BY <1>6, <2>2, <3>1 DEF WriteInv
  <2>3. QED
    BY <2>1, <2>2
<1>8. SessionTypes'
  BY DEF WritePresence
<1>9. QED
  BY <1>2, <1>3, <1>7, <1>8

\* A write of the presence by login or update_profile.
LEMMA SettingKeepsInv ==
  ASSUME accounts \subseteq Users, SessionsInv, NEW u \in Users, NEW choice \in {"Online", "Invisible", "Offline"}, SetPresence(u, choice),
         UNCHANGED <<accounts, at, count, overtaken, miscounted, faults, private>>,
         preferred' = preferred \/ preferred' = [preferred EXCEPT ![u] = choice]
  PROVE  SessionsInv'
<1> USE DEF SessionsInv, SessionTypes
<1>1. CountInv' /\ OfflineInv'
  BY CountUntouched
<1>2. SessionTypes'
  BY DEF SetPresence
<1>3. WriteInv'
  <2> SUFFICES ASSUME NEW w \in Users, w \in accounts, w \notin adrift' \cup miscounted, preferred'[w] # "Offline"
               PROVE  /\ count[w] > 0 /\ presence'[w] = "Offline" => \E t \in Sessions : UserOf[t] = w /\ at[t] = "SetOnline"
                      /\ count[w] = 0 /\ presence'[w] # "Offline" => \E t \in Sessions : UserOf[t] = w /\ at[t] = "SetOffline"
    BY DEF WriteInv
  <2>1. CASE w = u
    BY <2>1 DEF SetPresence
  <2>2. CASE w # u
    BY <2>2 DEF SetPresence, WriteInv
  <2>3. QED
    BY <2>1, <2>2
<1>4. QED
  BY <1>1, <1>2, <1>3

LEMMA SessionsStayRight == ContactsInv /\ SessionsInv /\ [Next]_vars => SessionsInv'
<1> SUFFICES ASSUME ContactsInv, SessionsInv, [Next]_vars
             PROVE  SessionsInv'
  OBVIOUS
<1>0. accounts \subseteq Users
  BY DEF ContactsInv, ContactsTypeOK
<1>1. ASSUME UNCHANGED <<sessionVars, profileVars>>, accounts' \subseteq accounts
      PROVE  SessionsInv'
  BY <1>1, CountUntouched DEF SessionsInv, SessionTypes, WriteInv, sessionVars, profileVars
<1>2. ASSUME NEW a \in Users, NEW b \in Users, UNCHANGED <<sessionVars, profileVars>>,
             ContactStep(a, b) \/ \E share \in BOOLEAN : SettingsStep(a, b, share)
      PROVE  SessionsInv'
  BY <1>1, <1>2 DEF ContactStep, SettingsStep, SendFriendRequest, AcceptFriendRequest, RejectFriendRequest,
     UpdateFriendSettings, DeleteFriend, BlockUser, UnblockUser, CreateDirect, Acts
<1>3. ASSUME NEW a \in Users, DeleteAccount(a)
      PROVE  SessionsInv'
  <2>1. CountInv' /\ OfflineInv'
    BY <1>3, CountUntouched DEF SessionsInv, DeleteAccount, sessionVars
  <2>2. WriteInv' /\ SessionTypes'
    BY <1>0, <1>3 DEF SessionsInv, SessionTypes, WriteInv, DeleteAccount, DeleteContacts, sessionVars
  <2>3. QED
    BY <2>1, <2>2 DEF SessionsInv
<1>4. ASSUME NEW u \in Users, NEW choice \in Choices, UpdateProfile(u, choice)
      PROVE  SessionsInv'
  BY <1>0, <1>4, SettingKeepsInv, PresenceAssumption DEF UpdateProfile, Acts
<1>5. ASSUME NEW u \in Users, Login(u)
      PROVE  SessionsInv'
  BY <1>0, <1>5, SettingKeepsInv DEF Login, contactVars
<1>6. ASSUME NEW u \in Users, NEW nobody \in BOOLEAN, UpdatePrivacy(u, nobody)
      PROVE  SessionsInv'
  BY <1>6, CountUntouched DEF SessionsInv, SessionTypes, WriteInv, UpdatePrivacy, sessionVars, contactVars
<1>7. CASE ServerRestarts
  <2>1. \A u \in Users : Live(u)' = {}
    BY <1>7 DEF ServerRestarts, Live
  <2>2. CountInv' /\ OfflineInv'
    BY <1>7, <2>1, FS_EmptySet DEF ServerRestarts, CountInv, OfflineInv
  <2>3. WriteInv' /\ SessionTypes'
    BY <1>0, <1>7, PresenceAssumption DEF SessionsInv, SessionTypes, WriteInv, ServerRestarts, profileVars
  <2>4. QED
    BY <2>2, <2>3 DEF SessionsInv
<1>8. CASE UNCHANGED vars
  BY <1>1, <1>8 DEF vars, contactVars
<1>9. QED
  BY <1>0, <1>2, <1>3, <1>4, <1>5, <1>6, <1>7, <1>8, ConnectKeepsInv, DisconnectKeepsInv, FailureKeepsInv, WriteKeepsInv DEF Next

(***************************************************************************)
(* What the users were told.                                               *)
(***************************************************************************)
\* An event shows its recipients what is true after the step; what the
\* others see must then be as before.
LEMMA TellKeepsTold ==
  ASSUME ContactsInv, ToldTypes, SessionTypes', FriendsAreTold, NEW viewers, Tell(viewers),
         accounts' \subseteq accounts,
         \A v \in accounts' \ viewers : \A u \in accounts' :
            AreFriends(v, u)' => AreFriends(v, u) /\ VisibleTo(v, u)' = VisibleTo(v, u)
  PROVE  ToldTypes' /\ FriendsAreTold'
<1>1. \A v, u \in Users : VisibleTo(v, u)' \in Shown
  BY DEF SessionTypes, VisibleTo, Shown
<1>2. ToldTypes'
  BY <1>1 DEF ToldTypes, Tell
<1>3. FriendsAreTold'
  <2> SUFFICES ASSUME NEW v \in accounts', NEW u \in accounts', u \in Users, v \in Users, AreFriends(v, u)'
               PROVE  told'[v][u] = VisibleTo(v, u)' \/ <<v, u>> \in unaware'
    BY DEF FriendsAreTold, FriendsOf, ContactsInv, ContactsTypeOK
  <2>1. CASE v \in viewers
    BY <2>1 DEF Tell, AreFriends
  <2>2. CASE v \notin viewers
    <3>1. told[v][u] = VisibleTo(v, u) \/ <<v, u>> \in unaware
      BY <2>2 DEF FriendsAreTold, FriendsOf
    <3>2. told'[v][u] = told[v][u] /\ (<<v, u>> \in unaware => <<v, u>> \in unaware')
      BY <2>2 DEF Tell
    <3>3. QED
      BY <2>2, <3>1, <3>2
  <2>3. QED
    BY <2>1, <2>2
<1>4. QED
  BY <1>2, <1>3

LEMMA ContactStepsTell ==
  ASSUME ContactsInv, ToldTypes, SessionTypes, SessionTypes', FriendsAreTold,
         NEW a \in Users, NEW b \in Users,
         UNCHANGED <<sessionVars, profileVars>>, ContactStep(a, b)
  PROVE  ToldTypes' /\ FriendsAreTold'
<1> DEFINE Same(v, u) == AreFriends(v, u)' => AreFriends(v, u) /\ VisibleTo(v, u)' = VisibleTo(v, u)
<1> UNCHANGED <<presence, private, accounts>>
  BY DEF profileVars, ContactStep, SendFriendRequest, AcceptFriendRequest, RejectFriendRequest,
     DeleteFriend, BlockUser, UnblockUser, CreateDirect, Acts
<1>1. ASSUME UNCHANGED <<links, sharing>>
      PROVE  \A v, u \in Users : Same(v, u)
  BY <1>1 DEF AreFriends, VisibleTo
<1>2. ASSUME a # b, AcceptFriendRequest(a, b) \/ DeleteFriend(a, b) \/ BlockUser(a, b)
      PROVE  \A v \in Users \ {a, b} : \A u \in Users : Same(v, u)
  <2> SUFFICES ASSUME NEW v \in Users \ {a, b}, NEW u \in Users
               PROVE  Same(v, u)
    OBVIOUS
  <2>1. <<u, v>> \in DOMAIN sharing' <=> <<u, v>> \in DOMAIN sharing
    BY <1>2 DEF AcceptFriendRequest, DeleteFriend, BlockUser, With, Without, Both
  <2>2. <<u, v>> \in DOMAIN sharing => sharing'[<<u, v>>] = sharing[<<u, v>>]
    BY <1>2 DEF AcceptFriendRequest, DeleteFriend, BlockUser, With, Without, Both
  <2>3. v # u => links'[{v, u}] = links[{v, u}]
    <3>1. v # u => {v, u} \in Pairs /\ {v, u} # {a, b}
      BY PairOfTwo
    <3>2. {a, b} \in Pairs /\ links \in [Pairs -> 0 .. 2]
      BY <1>2, PairOfTwo DEF ContactsInv, ContactsTypeOK
    <3>3. QED
      BY <1>2, <3>1, <3>2 DEF AcceptFriendRequest, DeleteFriend, BlockUser
  <2>4. QED
    BY <2>1, <2>2, <2>3 DEF AreFriends, VisibleTo
<1>3. CASE SendFriendRequest(a, b) \/ RejectFriendRequest(a, b) \/ UnblockUser(a, b)
  <2>1. UNCHANGED <<links, sharing>> /\ \E viewers : Tell(viewers)
    BY <1>3 DEF ContactStep, SendFriendRequest, RejectFriendRequest, UnblockUser
  <2>2. PICK viewers : Tell(viewers)
    BY <2>1
  <2>3. QED
    BY <1>1, <2>1, <2>2, TellKeepsTold DEF ContactsInv, ContactsTypeOK
<1>4. CASE CreateDirect(a, b)
  <2>1. UNCHANGED <<links, sharing>>
    BY <1>4 DEF CreateDirect
  <2>2. QED
    BY <1>1, <2>1, TellKeepsTold DEF ContactStep, ContactsInv, ContactsTypeOK
<1>5. CASE (AcceptFriendRequest(a, b) \/ DeleteFriend(a, b) \/ BlockUser(a, b)) /\ Tell({a, b})
  <2>1. a # b
    BY <1>5, Ordering DEF AcceptFriendRequest, DeleteFriend, BlockUser, AreFriends, ContactsInv, ContactsTypeOK, Ordered
  <2>2. \A v \in Users \ {a, b} : \A u \in Users : Same(v, u)
    BY <1>2, <1>5, <2>1
  <2>3. QED
    BY <1>5, <2>2, TellKeepsTold DEF ContactsInv, ContactsTypeOK
<1>6. QED
  BY <1>3, <1>4, <1>5 DEF ContactStep

LEMMA SettingsTell ==
  ASSUME ContactsInv, ToldTypes, SessionTypes', FriendsAreTold,
         NEW a \in Users, NEW b \in Users, NEW share \in BOOLEAN,
         UNCHANGED <<sessionVars, profileVars>>, SettingsStep(a, b, share)
  PROVE  ToldTypes' /\ FriendsAreTold'
<1>1. <<a, b>> \in DOMAIN sharing /\ <<b, a>> \in Ordered /\ a # b
  BY Ordering DEF SettingsStep, UpdateFriendSettings, ContactsInv, FriendshipsAreWhole, AreFriends
<1>2. \A v, u \in Users : VisibleTo(v, u)' \in Shown
  BY DEF SessionTypes, VisibleTo, Shown
<1>3. ToldTypes'
  BY <1>1, <1>2 DEF ToldTypes, SettingsStep
<1>4. FriendsAreTold'
  <2> SUFFICES ASSUME NEW v \in accounts', NEW u \in accounts', u \in Users, v \in Users, AreFriends(v, u)'
               PROVE  told'[v][u] = VisibleTo(v, u)' \/ <<v, u>> \in unaware'
    BY DEF FriendsAreTold, FriendsOf, ContactsInv, ContactsTypeOK, SettingsStep, UpdateFriendSettings, Acts
  <2>1. CASE v = a
    BY <2>1 DEF SettingsStep, ToldTypes, AreFriends
  <2>2. CASE v # a /\ <<v, u>> = <<b, a>>
    BY <2>2 DEF SettingsStep
  <2>3. CASE v # a /\ <<v, u>> # <<b, a>>
    <3>1. told[v][u] = VisibleTo(v, u) \/ <<v, u>> \in unaware
      BY DEF FriendsAreTold, FriendsOf, AreFriends, SettingsStep, UpdateFriendSettings, Acts
    <3>2. told'[v][u] = told[v][u] /\ (<<v, u>> \in unaware => <<v, u>> \in unaware')
      BY <2>3 DEF SettingsStep, ToldTypes
    <3>3. VisibleTo(v, u)' = VisibleTo(v, u)
      BY <2>3, <1>1 DEF SettingsStep, UpdateFriendSettings, With, VisibleTo, profileVars
    <3>4. QED
      BY <3>1, <3>2, <3>3
  <2>4. QED
    BY <2>1, <2>2, <2>3
<1>5. QED
  BY <1>3, <1>4

\* A change of presence or privacy reaches the user and the friends.
LEMMA ProfileStepsTell ==
  ASSUME ContactsInv, ToldTypes, SessionTypes, SessionTypes', FriendsAreTold,
         NEW u \in Users, Tell({u} \cup FriendsOf(u)), UNCHANGED <<accounts, links, sharing>>,
         \A w \in Users \ {u} : presence'[w] = presence[w] /\ (w \in private' <=> w \in private)
  PROVE  ToldTypes' /\ FriendsAreTold'
<1>1. \A v, w \in Users : w # u => VisibleTo(v, w)' = VisibleTo(v, w)
  BY DEF VisibleTo
<1>2. \A v \in Users \ ({u} \cup FriendsOf(u)) : ~AreFriends(v, u)'
  BY DEF FriendsOf, AreFriends
<1>3. \A v \in accounts' \ ({u} \cup FriendsOf(u)) : \A w \in accounts' :
        AreFriends(v, w)' => AreFriends(v, w) /\ VisibleTo(v, w)' = VisibleTo(v, w)
  BY <1>1, <1>2 DEF AreFriends, ContactsInv, ContactsTypeOK
<1>4. QED
  BY <1>3, TellKeepsTold

LEMMA DeletionTells ==
  ASSUME ContactsInv, ToldTypes, SessionTypes, SessionTypes', FriendsAreTold, NEW a \in Users, DeleteAccount(a)
  PROVE  ToldTypes' /\ FriendsAreTold'
<1> DEFINE viewers == FriendsOf(a) \cup {v \in Users \ {a} : directs[{a, v}] > 0}
<1>1. Tell(viewers) /\ accounts' = accounts \ {a}
  BY DEF DeleteAccount, DeleteContacts
<1>2. ASSUME NEW v \in accounts', NEW u \in accounts', AreFriends(v, u)'
      PROVE  AreFriends(v, u) /\ VisibleTo(v, u)' = VisibleTo(v, u)
  <2>1. v # a /\ u # a /\ v \in Users /\ u \in Users /\ v # u /\ {v, u} \in Pairs
    BY <1>1, <1>2, PairOfTwo DEF ContactsInv, ContactsTypeOK, AreFriends
  <2>2. AreFriends(v, u)
    BY <1>2, <2>1 DEF DeleteAccount, DeleteContacts, AreFriends
  <2>3. <<u, v>> \in DOMAIN sharing' <=> <<u, v>> \in DOMAIN sharing
    BY <2>1 DEF DeleteAccount, DeleteContacts, Without
  <2>4. <<u, v>> \in DOMAIN sharing => sharing'[<<u, v>>] = sharing[<<u, v>>]
    BY <2>1 DEF DeleteAccount, DeleteContacts, Without
  <2>5. presence'[u] = presence[u] /\ (u \in private' <=> u \in private)
    BY <2>1 DEF DeleteAccount, SessionTypes
  <2>6. QED
    BY <2>1, <2>2, <2>3, <2>4, <2>5 DEF VisibleTo
<1>3. QED
  BY <1>1, <1>2, TellKeepsTold

\* A login tells nobody; the friends it concerns are noted as unaware.
LEMMA LoginIsNoted ==
  ASSUME ContactsInv, ToldTypes, SessionTypes, FriendsAreTold, NEW u \in Users, Login(u)
  PROVE  ToldTypes' /\ FriendsAreTold'
<1>1. ToldTypes'
  BY Ordering DEF ToldTypes, Login, FriendsOf, AreFriends
<1>2. ASSUME NEW v \in accounts', NEW w \in FriendsOf(v)' \cap accounts'
      PROVE  told'[v][w] = VisibleTo(v, w)' \/ <<v, w>> \in unaware'
  <2>1. v \in Users /\ w \in Users /\ AreFriends(v, w) /\ v \in accounts /\ w \in accounts
    BY <1>2 DEF Login, contactVars, FriendsOf, AreFriends, ContactsInv, ContactsTypeOK
  <2>2. told[v][w] = VisibleTo(v, w) \/ <<v, w>> \in unaware
    BY <2>1 DEF FriendsAreTold, FriendsOf
  <2>3. told' = told /\ unaware \subseteq unaware'
    BY DEF Login
  <2>4. CASE w = u
    <3>1. v \in FriendsOf(u)
      BY <2>1, <2>4 DEF FriendsOf, AreFriends
    <3>2. VisibleTo(v, u)' # VisibleTo(v, u) => <<v, u>> \in unaware'
      BY <3>1 DEF Login
    <3>3. QED
      BY <2>2, <2>3, <2>4, <3>2
  <2>5. CASE w # u
    <3>1. VisibleTo(v, w)' = VisibleTo(v, w)
      BY <2>1, <2>5 DEF Login, SetPresence, VisibleTo, contactVars, SessionTypes
    <3>2. QED
      BY <2>2, <2>3, <3>1
  <2>6. QED
    BY <2>4, <2>5
<1>3. FriendsAreTold'
  BY <1>2 DEF FriendsAreTold
<1>4. QED
  BY <1>1, <1>3

LEMMA FriendsStayTold ==
  ASSUME ContactsInv, SessionTypes, SessionTypes', ToldTypes, FriendsAreTold, [Next]_vars
  PROVE  ToldTypes' /\ FriendsAreTold'
<1>1. ASSUME UNCHANGED <<presence, private, told, unaware, accounts, links, sharing>>
      PROVE  ToldTypes' /\ FriendsAreTold'
  BY <1>1 DEF ToldTypes, FriendsAreTold, FriendsOf, AreFriends, VisibleTo
<1>2. ASSUME NEW a \in Users, NEW b \in Users, UNCHANGED <<sessionVars, profileVars>>,
             ContactStep(a, b) \/ \E share \in BOOLEAN : SettingsStep(a, b, share)
      PROVE  ToldTypes' /\ FriendsAreTold'
  BY <1>2, ContactStepsTell, SettingsTell
<1>3. ASSUME NEW u \in Users, NEW choice \in Choices, UpdateProfile(u, choice)
      PROVE  ToldTypes' /\ FriendsAreTold'
  BY <1>3, ProfileStepsTell DEF UpdateProfile, SetPresence, Acts, TellOf, SessionTypes
<1>4. ASSUME NEW u \in Users, NEW nobody \in BOOLEAN, UpdatePrivacy(u, nobody)
      PROVE  ToldTypes' /\ FriendsAreTold'
  BY <1>4, ProfileStepsTell DEF UpdatePrivacy, PrivacyAudience, contactVars
<1>5. ASSUME NEW s \in Sessions, NEW connected \in BOOLEAN, WritePresence(s, connected)
      PROVE  ToldTypes' /\ FriendsAreTold'
  BY <1>5, ProfileStepsTell, PresenceAssumption DEF WritePresence, TellOf, contactVars, SessionTypes
<1>6. ASSUME NEW s \in Sessions, Connect(s) \/ Disconnect(s) \/ PresenceFails(s)
      PROVE  ToldTypes' /\ FriendsAreTold'
  BY <1>1, <1>6 DEF Connect, Disconnect, PresenceFails, contactVars, profileVars, toldVars
<1>7. CASE ServerRestarts
  BY <1>1, <1>7 DEF ServerRestarts, profileVars, toldVars
<1>8. CASE UNCHANGED vars
  BY <1>1, <1>8 DEF vars, contactVars, profileVars, toldVars
<1>9. ASSUME NEW u \in Users, Login(u)
      PROVE  ToldTypes' /\ FriendsAreTold'
  BY <1>9, LoginIsNoted
<1>10. QED
  BY <1>2, <1>3, <1>4, <1>5, <1>6, <1>7, <1>8, <1>9, DeletionTells DEF Next

(***************************************************************************)
(* The theorems.                                                           *)
(***************************************************************************)
LEMMA InitIInv == Init => IInv
<1> SUFFICES ASSUME Init
             PROVE  IInv
  OBVIOUS
<1>1. ContactsInv
  BY ContactsInitially DEF Init
<1>2. \A u \in Users : Live(u) = {}
  BY DEF Init, Live
<1>3. CountInv
  BY <1>2, FS_EmptySet DEF Init, CountInv
<1>4. SessionTypes /\ OfflineInv /\ WriteInv
  BY PresenceAssumption DEF Init, ContactsInit, SessionTypes, OfflineInv, WriteInv
<1>5. ToldTypes
  BY DEF Init, ToldTypes, Shown
<1>6. FriendsAreTold
  BY PairOfTwo DEF Init, ContactsInit, FriendsAreTold, FriendsOf, AreFriends
<1>7. QED
  BY <1>1, <1>3, <1>4, <1>5, <1>6 DEF IInv, SessionsInv

LEMMA StepKeepsIInv == IInv /\ [Next]_vars => IInv'
  BY ContactsStayWhole, SessionsStayRight, FriendsStayTold DEF IInv, SessionsInv

LEMMA Inductive == Spec => []IInv
  BY InitIInv, StepKeepsIInv, PTL DEF Spec

\* Every variable of Contacts and Presence keeps its type; in particular no
\* more than two friendships and their requests exist between two users, and
\* no connection count passes the number of sessions.
THEOREM TypeCorrect == Spec => []TypeOK
<1>1. IInv => TypeOK
  <2> SUFFICES ASSUME IInv
               PROVE  TypeOK
    OBVIOUS
  <2>1. count \in [Users -> 0 .. Cardinality(Sessions)]
    <3>1. Cardinality(Sessions) \in Nat
      BY SetsOfSessions
    <3>2. ASSUME NEW u \in Users
          PROVE  count[u] \in 0 .. Cardinality(Sessions)
      BY <3>1, LiveIsFinite DEF IInv, SessionsInv, SessionTypes, CountInv
    <3>3. QED
      BY <3>2 DEF IInv, SessionsInv, SessionTypes
  <2>2. QED
    BY <2>1 DEF TypeOK, IInv, ContactsInv, SessionsInv, SessionTypes, ToldTypes
<1>2. QED
  BY <1>1, Inductive, PTL

\* Settings exist for exactly the friends, in both directions, and friends
\* have a direct conversation, through every order of decide_friend_request,
\* delete_friend, block_user and the deletion of an account.
THEOREM FriendshipsHold == Spec => []FriendshipsAreWhole
<1>1. IInv => FriendshipsAreWhole
  BY DEF IInv, ContactsInv
<1>2. QED
  BY <1>1, Inductive, PTL

\* block_user leaves no friendship and no request between the two, and
\* nothing makes one while the block lasts.
THEOREM BlocksCutHolds == Spec => []BlocksCut
<1>1. IInv => BlocksCut
  BY DEF IInv, ContactsInv
<1>2. QED
  BY <1>1, Inductive, PTL

\* Once the writes of connection_opened and connection_closed are done, the
\* presence of a user says whether a session is open.
THEOREM PresenceFollowsHolds == Spec => []PresenceFollowsSessions
<1>1. IInv => PresenceFollowsSessions
  <2> SUFFICES ASSUME IInv, NEW u \in accounts \ (adrift \cup miscounted), Settled(u), preferred[u] # "Offline"
               PROVE  presence[u] = "Offline" <=> \A s \in Sessions : UserOf[s] = u => at[s] = "None"
    BY DEF PresenceFollowsSessions
  <2>1. u \in Users /\ count[u] = Cardinality(Live(u)) /\ count[u] \in Nat
    BY DEF IInv, ContactsInv, ContactsTypeOK, SessionsInv, SessionTypes, CountInv
  <2>2. count[u] = 0 <=> Live(u) = {}
    BY <2>1, LiveIsFinite
  <2>3. Live(u) = {} <=> \A s \in Sessions : UserOf[s] = u => at[s] = "None"
    BY DEF Settled, Live
  <2>4. count[u] = 0 <=> presence[u] = "Offline"
    BY <2>1 DEF Settled, IInv, SessionsInv, WriteInv
  <2>5. QED
    BY <2>2, <2>3, <2>4
<1>2. QED
  BY <1>1, Inductive, PTL

\* What a user was shown of a friend is what the friend lets them see: the
\* events of every operation on presence, privacy and friendship have the
\* recipients they need, but for update_friend_settings.
THEOREM FriendsToldHolds == Spec => []FriendsAreTold
<1>1. IInv => FriendsAreTold
  BY DEF IInv
<1>2. QED
  BY <1>1, Inductive, PTL
================================================================================
