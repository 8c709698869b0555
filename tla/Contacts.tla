------------------------------- MODULE Contacts --------------------------------
(***************************************************************************)
(* Friend requests, friendships with their settings, blocks and direct     *)
(* conversations.  Every operation is one mutate of the store.  A request  *)
(* is authenticated before its operation gets the store lock, so it may    *)
(* still run for an account deleted in between.                            *)
(***************************************************************************)
EXTENDS Naturals, FiniteSets

CONSTANTS
    Users,
    MaxDirects      \* bound on the direct conversations of two users

ASSUME ContactsAssumption == MaxDirects \in Nat

VARIABLES
    accounts,    \* users whose account is not deleted
    running,     \* deleted users with a request authenticated before
    pending,     \* pending friend requests, <<sender, recipient>>
    links,       \* links[p]: entries of friendships for the pair p
    sharing,     \* sharing[<<u, v>>]: share_presence, for each key of friend_settings
    blocks,      \* <<actor, target>>
    directs      \* directs[p]: direct conversations that have both of p

contactVars == <<accounts, running, pending, links, sharing, blocks, directs>>

Pairs == {p \in SUBSET Users : Cardinality(p) = 2}
Ordered == {e \in Users \X Users : e[1] # e[2]}

AreFriends(a, b) == a # b /\ links[{a, b}] > 0
Blocked(a, b) == <<a, b>> \in blocks \/ <<b, a>> \in blocks
FriendsOf(a) == {b \in Users : AreFriends(a, b)}

ContactsTypeOK ==
    /\ accounts \subseteq Users /\ running \subseteq Users \ accounts
    /\ pending \subseteq Ordered /\ blocks \subseteq Ordered
    /\ links \in [Pairs -> 0 .. 2]
    /\ DOMAIN sharing \subseteq Ordered
    /\ \A e \in DOMAIN sharing : sharing[e] \in BOOLEAN
    /\ directs \in [Pairs -> 0 .. MaxDirects]

ContactsInit ==
    /\ accounts = Users /\ running = {}
    /\ pending = {} /\ blocks = {}
    /\ links = [p \in Pairs |-> 0]
    /\ sharing = [e \in {} |-> TRUE]
    /\ directs = [p \in Pairs |-> 0]

\* An authenticated request of a runs.
Acts(a) ==
    /\ a \in accounts \cup running
    /\ running' = running \ {a}
    /\ UNCHANGED accounts

Both(a, b) == {<<a, b>>, <<b, a>>}
Without(f, keys) == [e \in DOMAIN f \ keys |-> f[e]]
With(f, keys, value) == [e \in DOMAIN f \cup keys |-> IF e \in keys THEN value ELSE f[e]]

\* send_friend_request finds the recipient by a username that deleted
\* accounts no longer have; a request in the other direction is no obstacle.
SendFriendRequest(a, b) ==
    /\ Acts(a)
    /\ a # b /\ b \in accounts
    /\ ~Blocked(a, b) /\ ~AreFriends(a, b) /\ <<a, b>> \notin pending
    /\ pending' = pending \cup {<<a, b>>}
    /\ UNCHANGED <<links, sharing, blocks, directs>>

\* decide_friend_request by the recipient.  Each acceptance is a friendship
\* of its own with new settings and a new direct conversation.
AcceptFriendRequest(a, b) ==
    /\ Acts(b)
    /\ <<a, b>> \in pending
    /\ directs[{a, b}] < MaxDirects
    /\ pending' = pending \ {<<a, b>>}
    /\ links' = [links EXCEPT ![{a, b}] = @ + 1]
    /\ sharing' = With(sharing, Both(a, b), TRUE)
    /\ directs' = [directs EXCEPT ![{a, b}] = @ + 1]
    /\ UNCHANGED blocks

RejectFriendRequest(a, b) ==
    /\ Acts(b)
    /\ <<a, b>> \in pending
    /\ pending' = pending \ {<<a, b>>}
    /\ UNCHANGED <<links, sharing, blocks, directs>>

\* update_friend_settings; remark, group and allow_files have no part here.
UpdateFriendSettings(a, b, share) ==
    /\ Acts(a)
    /\ AreFriends(a, b)
    /\ sharing' = With(sharing, {<<a, b>>}, share)
    /\ UNCHANGED <<pending, links, blocks, directs>>

\* Mutant of DeleteFriend: the settings of the other side stay.
DeleteFriendOneSided(a, b) ==
    /\ Acts(a)
    /\ AreFriends(a, b)
    /\ links' = [links EXCEPT ![{a, b}] = 0]
    /\ sharing' = Without(sharing, {<<a, b>>})
    /\ UNCHANGED <<pending, blocks, directs>>

\* delete_friend removes every entry of the two.
DeleteFriend(a, b) ==
    /\ Acts(a)
    /\ AreFriends(a, b)
    /\ links' = [links EXCEPT ![{a, b}] = 0]
    /\ sharing' = Without(sharing, Both(a, b))
    /\ UNCHANGED <<pending, blocks, directs>>

\* Mutant of BlockUser: only the request of the blocked user is cancelled.
BlockKeepingOwnRequest(a, b) ==
    /\ Acts(a)
    /\ a # b
    /\ blocks' = blocks \cup {<<a, b>>}
    /\ links' = [links EXCEPT ![{a, b}] = 0]
    /\ sharing' = Without(sharing, Both(a, b))
    /\ pending' = pending \ {<<b, a>>}
    /\ UNCHANGED directs

BlockUser(a, b) ==
    /\ Acts(a)
    /\ a # b
    /\ blocks' = blocks \cup {<<a, b>>}
    /\ links' = [links EXCEPT ![{a, b}] = 0]
    /\ sharing' = Without(sharing, Both(a, b))
    /\ pending' = pending \ Both(a, b)
    /\ UNCHANGED directs

UnblockUser(a, b) ==
    /\ Acts(a)
    /\ <<a, b>> \in blocks
    /\ blocks' = blocks \ {<<a, b>>}
    /\ UNCHANGED <<pending, links, sharing, directs>>

\* create_direct returns a conversation of the two if there is one.
CreateDirect(a, b) ==
    /\ Acts(a)
    /\ AreFriends(a, b)
    /\ directs' = IF directs[{a, b}] = 0 THEN [directs EXCEPT ![{a, b}] = 1] ELSE directs
    /\ UNCHANGED <<pending, links, sharing, blocks>>

\* detach_account_from_conversations, purge_account_relationships.
DeleteContacts(a) ==
    /\ a \in accounts
    /\ accounts' = accounts \ {a}
    /\ running' \in {running, running \cup {a}}
    /\ pending' = {e \in pending : a \notin {e[1], e[2]}}
    /\ blocks' = {e \in blocks : a \notin {e[1], e[2]}}
    /\ links' = [p \in Pairs |-> IF a \in p THEN 0 ELSE links[p]]
    /\ sharing' = Without(sharing, {e \in DOMAIN sharing : a \in {e[1], e[2]}})
    /\ directs' = [p \in Pairs |-> IF a \in p THEN 0 ELSE directs[p]]

(***************************************************************************)
(* Properties.                                                             *)
(***************************************************************************)
\* Friend settings are kept for exactly the friends, in both directions, and
\* friends have a direct conversation: requests that cross, are accepted
\* twice, or meet a block, a deletion or the end of an account on the way
\* leave no half of a friendship.
FriendshipsAreWhole ==
    /\ DOMAIN sharing = {e \in Ordered : AreFriends(e[1], e[2])}
    /\ \A p \in Pairs : links[p] > 0 => directs[p] > 0

\* A block leaves neither a friendship nor a request that could make one.
BlocksCut ==
    \A e \in blocks :
        ~AreFriends(e[1], e[2]) /\ pending \cap Both(e[1], e[2]) = {}
================================================================================
