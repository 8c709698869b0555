-------------------------------- MODULE Groups ---------------------------------
(***************************************************************************)
(* Group conversations: membership, roles, mutes and join requests.  Every *)
(* operation is one mutate of the store, so one step.  A request is        *)
(* authenticated before its operation gets the store lock: an operation    *)
(* may still run for an account deleted in between.                        *)
(*                                                                         *)
(* joined_at, which decides between equal successors of an owner, is left  *)
(* out: any of them may succeed.  Friendships change freely here.          *)
(***************************************************************************)
EXTENDS Naturals, FiniteSets

CONSTANTS
    Users,
    Groups,         \* conversation identifiers, each given to one group
    MaxMembers      \* limit of add_group_members, 500 in the code

ASSUME UsersAssumption == IsFiniteSet(Users)

VARIABLES
    accounts,    \* users whose account is not deleted
    late,        \* deleted users with a request authenticated before
    friends,     \* friendships, sets of two users
    status,      \* status[g]: "Unused", "Live" or "Disbanded"
    row,         \* row[g][u]: the ConversationMember of u, if any
    muteAll,     \* group_mute_all
    settings,    \* keys of conversation_settings, <<user, group>>
    pending      \* pending join requests, <<applicant, group>>

vars == <<accounts, late, friends, status, row, muteAll, settings, pending>>

\* MemberRole in its derived order; 0 for who is no member.
Member == 1
Administrator == 2
Owner == 3

Rows == [role : 0 .. Owner, muted : BOOLEAN]
NotMember == [role |-> 0, muted |-> FALSE]
NewMember == [role |-> Member, muted |-> FALSE]

Rank(g, u) == row[g][u].role
MembersOf(g) == {u \in Users : Rank(g, u) > 0}
Owners(g) == {u \in Users : Rank(g, u) = Owner}

\* Cannot send: muted, or a plain member while all are muted.
Silent(g, u) ==
    \/ row[g][u].muted
    \/ g \in muteAll /\ Rank(g, u) = Member

AreFriends(u, v) == {u, v} \in friends

TypeOK ==
    /\ accounts \subseteq Users
    /\ late \subseteq Users \ accounts
    /\ friends \subseteq SUBSET accounts
    /\ status \in [Groups -> {"Unused", "Live", "Disbanded"}]
    /\ row \in [Groups -> [Users -> Rows]]
    /\ \A g \in Groups : status[g] # "Live" => MembersOf(g) = {}
    /\ muteAll \subseteq {g \in Groups : status[g] = "Live"}
    /\ settings \subseteq Users \X Groups
    /\ pending \subseteq Users \X Groups

Init ==
    /\ accounts = Users
    /\ late = {}
    /\ friends = {}
    /\ status = [g \in Groups |-> "Unused"]
    /\ row = [g \in Groups |-> [u \in Users |-> NotMember]]
    /\ muteAll = {}
    /\ settings = {}
    /\ pending = {}

(***************************************************************************)
(* The operations.                                                         *)
(***************************************************************************)
\* An authenticated request of a runs.
Acts(a) ==
    /\ a \in accounts \cup late
    /\ late' = late \ {a}

ActsIn(a, g) ==
    /\ status[g] = "Live"
    /\ Rank(g, a) > 0
    /\ Acts(a)
    /\ UNCHANGED <<accounts, friends>>

SetRow(g, u, r) == row' = [row EXCEPT ![g][u] = r]

\* Conversation::group: an owner and at least one plain member.
Founded(a, members) ==
    [u \in Users |-> IF u = a THEN [role |-> Owner, muted |-> FALSE]
                     ELSE IF u \in members THEN NewMember ELSE NotMember]

\* create_group: the members are friends of the owner.
CreateGroup(a, g, members) ==
    /\ status[g] = "Unused"
    /\ members # {} /\ a \notin members
    /\ \A u \in members : AreFriends(a, u)
    /\ Acts(a)
    /\ status' = [status EXCEPT ![g] = "Live"]
    /\ row' = [row EXCEPT ![g] = Founded(a, members)]
    /\ settings' = settings \cup ((members \cup {a}) \X {g})
    /\ UNCHANGED <<accounts, friends, muteAll, pending>>

\* add_group_members: any member may add friends; members stay as they are.
AddMembers(a, g, members) ==
    /\ ActsIn(a, g)
    /\ members # {} /\ a \notin members
    /\ \A u \in members : AreFriends(a, u)
    /\ Cardinality(MembersOf(g) \cup members) <= MaxMembers
    /\ LET added == members \ MembersOf(g)
       IN  /\ row' = [row EXCEPT ![g] = [u \in Users |->
                        IF u \in added THEN NewMember ELSE @[u]]]
           /\ settings' = settings \cup (added \X {g})
    /\ UNCHANGED <<status, muteAll, pending>>

\* Mutant of Drop: the settings of a removed member stay.
DropRowOnly(g, u) ==
    /\ SetRow(g, u, NotMember)
    /\ UNCHANGED <<status, muteAll, settings, pending>>

Drop(g, u) ==
    /\ SetRow(g, u, NotMember)
    /\ settings' = settings \ {<<u, g>>}
    /\ UNCHANGED <<status, muteAll, pending>>

LeaveGroup(a, g) ==
    /\ ActsIn(a, g)
    /\ Rank(g, a) # Owner
    /\ Drop(g, a)

\* Mutant of MayRemove: an administrator may remove peers.
MayRemovePeer(g, a, u) ==
    /\ Rank(g, u) \in {Member, Administrator}
    /\ Rank(g, a) >= Rank(g, u)

\* Conversation::remove_member: whom the actor outranks, never the owner.
MayRemove(g, a, u) ==
    /\ Rank(g, u) \in {Member, Administrator}
    /\ Rank(g, a) > Rank(g, u)

RemoveMember(a, g, u) ==
    /\ ActsIn(a, g)
    /\ MayRemove(g, a, u)
    /\ Drop(g, u)

\* disband_group leaves the join requests behind.
DisbandGroup(a, g) ==
    /\ ActsIn(a, g)
    /\ Rank(g, a) >= Owner
    /\ status' = [status EXCEPT ![g] = "Disbanded"]
    /\ row' = [row EXCEPT ![g] = [u \in Users |-> NotMember]]
    /\ settings' = {s \in settings : s[2] # g}
    /\ muteAll' = muteAll \ {g}
    /\ UNCHANGED pending

\* update_group_member: a new role, a new mute, or both.
UpdateMember(a, g, u, new) ==
    /\ ActsIn(a, g)
    /\ Rank(g, u) > 0 /\ new # row[g][u]
    /\ new.role # Rank(g, u) =>
         Rank(g, a) = Owner /\ new.role # Owner /\ Rank(g, u) # Owner
    /\ new.muted # row[g][u].muted =>
         Rank(g, a) >= Administrator /\ Rank(g, a) > Rank(g, u)
    /\ SetRow(g, u, new)
    /\ UNCHANGED <<status, muteAll, settings, pending>>

\* Mutant of Transferred: the old owner keeps the role.
TransferredKeepingRole(g, a, u) == [row[g] EXCEPT ![u].role = Owner]

\* Conversation::transfer_ownership: the old owner becomes a plain member,
\* the new one owner, in this order.
Transferred(g, a, u) ==
    [[row[g] EXCEPT ![a].role = Member] EXCEPT ![u].role = Owner]

TransferOwnership(a, g, u) ==
    /\ ActsIn(a, g)
    /\ Rank(g, a) = Owner
    /\ Rank(g, u) > 0
    /\ row' = [row EXCEPT ![g] = Transferred(g, a, u)]
    /\ UNCHANGED <<status, muteAll, settings, pending>>

SetGroupMute(a, g, muted) ==
    /\ ActsIn(a, g)
    /\ Rank(g, a) >= Administrator
    /\ muteAll' = IF muted THEN muteAll \cup {g} ELSE muteAll \ {g}
    /\ UNCHANGED <<status, row, settings, pending>>

RequestToJoin(a, g) ==
    /\ status[g] = "Live"
    /\ Rank(g, a) = 0
    /\ <<a, g>> \notin pending
    /\ Acts(a)
    /\ pending' = pending \cup {<<a, g>>}
    /\ UNCHANGED <<accounts, friends, status, row, muteAll, settings>>

\* decide_group_join_request inserts the applicant, a member by now or not.
Accept(g, u) ==
    /\ SetRow(g, u, NewMember)
    /\ settings' = settings \cup {<<u, g>>}

DecideJoinRequest(a, g, u, accept) ==
    /\ ActsIn(a, g)
    /\ <<u, g>> \in pending
    /\ Rank(g, a) >= Administrator
    /\ pending' = pending \ {<<u, g>>}
    /\ IF accept THEN Accept(g, u) ELSE UNCHANGED <<row, settings>>
    /\ UNCHANGED <<status, muteAll>>

\* detach_account_from_conversations: a member of the highest role succeeds
\* an owner.
Successors(g, a) ==
    {u \in MembersOf(g) \ {a} :
        \A v \in MembersOf(g) \ {a} : Rank(g, v) <= Rank(g, u)}

\* Mutant of Detached: nobody succeeds an owner.
DetachedWithoutHeir(g, a, u) == [row[g] EXCEPT ![a] = NotMember]

Detached(g, a, u) ==
    [row[g] EXCEPT ![u].role = IF Rank(g, a) = Owner THEN Owner ELSE @,
                   ![a] = NotMember]

Detach(a) ==
    \E heir \in [Groups -> Users] :
        /\ \A g \in Groups : Successors(g, a) # {} => heir[g] \in Successors(g, a)
        /\ \A g \in Groups : Successors(g, a) = {} => heir[g] = a
        /\ row' = [g \in Groups |->
                     IF a \in MembersOf(g) THEN Detached(g, a, heir[g])
                                           ELSE row[g]]

\* delete_account_in_store; join requests are not purged.
DeleteAccount(a) ==
    /\ a \in accounts
    /\ accounts' = accounts \ {a}
    /\ \/ late' = late
       \/ late' = late \cup {a}
    /\ friends' = {f \in friends : a \notin f}
    /\ Detach(a)
    /\ settings' = {s \in settings : s[1] # a}
    /\ UNCHANGED <<status, muteAll, pending>>

(***************************************************************************)
(* Steps of nobody in a group.                                             *)
(***************************************************************************)
\* muted_until passes.
MuteEnds(g, u) ==
    /\ row[g][u].muted
    /\ SetRow(g, u, [row[g][u] EXCEPT !.muted = FALSE])
    /\ UNCHANGED <<accounts, late, friends, status, muteAll, settings, pending>>

\* A friend request is accepted, a friend deleted or blocked.
FriendshipChanges(u, v) ==
    /\ u \in accounts /\ v \in accounts /\ u # v
    /\ friends' = IF AreFriends(u, v) THEN friends \ {{u, v}}
                                      ELSE friends \cup {{u, v}}
    /\ UNCHANGED <<accounts, late, status, row, muteAll, settings, pending>>

By(a) ==
    \/ DeleteAccount(a)
    \/ \E g \in Groups :
         \/ LeaveGroup(a, g)
         \/ DisbandGroup(a, g)
         \/ RequestToJoin(a, g)
         \/ \E muted \in BOOLEAN : SetGroupMute(a, g, muted)
         \/ \E members \in SUBSET Users :
              \/ CreateGroup(a, g, members)
              \/ AddMembers(a, g, members)
         \/ \E u \in Users :
              \/ RemoveMember(a, g, u)
              \/ TransferOwnership(a, g, u)
              \/ \E new \in [role : Member .. Owner, muted : BOOLEAN] :
                   UpdateMember(a, g, u, new)
              \/ \E accept \in BOOLEAN : DecideJoinRequest(a, g, u, accept)

Next ==
    \/ \E a \in Users : By(a)
    \/ \E g \in Groups, u \in Users : MuteEnds(g, u)
    \/ \E u, v \in Users : FriendshipChanges(u, v)

Spec == Init /\ [][Next]_vars

(***************************************************************************)
(* Properties.                                                             *)
(***************************************************************************)
\* No sequence of transfers, role changes, joins and deleted accounts gives
\* a group two owners.
AtMostOneOwner == \A g \in Groups : \A u, v \in Owners(g) : u = v

\* An owner stays one until the group has another, is disbanded or has no
\* member left, or until a join request of the owner is decided.
OwnershipMoves ==
    [][\A g \in Groups : \A u \in Owners(g) :
         \/ Owners(g)' # {}
         \/ MembersOf(g)' = {}
         \/ <<u, g>> \in pending /\ <<u, g>> \notin pending']_vars

\* Conversation settings are kept for exactly the members of the live groups.
SettingsFollowMembership ==
    settings = {s \in Users \X Groups : Rank(s[2], s[1]) > 0}

\* Role, mute and voice of a member change by somebody of a higher role, by
\* the member's own departure or transfer, by time, or by the decision of a
\* join request that the member had left open.
Promoted(g, u) ==
    \/ Rank(g, u)' > Rank(g, u)
    \/ Silent(g, u) /\ ~Silent(g, u)' /\ u \in MembersOf(g)'

Changed(g, u) == row'[g][u] # row[g][u] \/ Silent(g, u)' # Silent(g, u)

OnlySuperiorsAct ==
    [][\A g \in Groups : \A u \in MembersOf(g) : Changed(g, u) =>
         \/ MuteEnds(g, u)
         \/ \E a \in MembersOf(g) :
              /\ By(a)
              /\ \/ Rank(g, a) > Rank(g, u)
                 \/ a = u /\ ~Promoted(g, u)
                 \/ <<u, g>> \in pending /\ <<u, g>> \notin pending']_vars

\* docs/GLOSSARY.md:7, a group has an owner.  It loses the owner when the
\* owner's own join request, sent before somebody else added them, is
\* accepted.
GroupHasOwner ==
    \A g \in Groups : MembersOf(g) # {} => Owners(g) # {}

\* docs/DATA_RETENTION.md:11, conversation settings end with the account.  A
\* join request survives its applicant and may still be accepted.
SettingsEndWithAccount == \A s \in settings : s[1] \in accounts
================================================================================
