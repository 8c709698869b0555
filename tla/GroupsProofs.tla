----------------------------- MODULE GroupsProofs ------------------------------
(***************************************************************************)
(* Groups: its types, its owners and its conversation settings, for any    *)
(* users, groups and member limit.                                         *)
(*                                                                         *)
(* The inductive invariant is the type invariant with at most one owner    *)
(* and the settings of exactly the members.  Both are stated per group and *)
(* user here, which is how an operation changes them.                      *)
(***************************************************************************)
EXTENDS Groups, TLAPS

RowType == row \in [Groups -> [Users -> Rows]]

Agree == \A g \in Groups, u \in Users : <<u, g>> \in settings <=> Rank(g, u) > 0

OnlyLive == \A g \in Groups, u \in Users : Rank(g, u) > 0 => status[g] = "Live"

OthersOK ==
    /\ accounts \subseteq Users
    /\ late \subseteq Users \ accounts
    /\ friends \subseteq SUBSET accounts
    /\ status \in [Groups -> {"Unused", "Live", "Disbanded"}]
    /\ muteAll \subseteq {g \in Groups : status[g] = "Live"}
    /\ settings \subseteq Users \X Groups
    /\ pending \subseteq Users \X Groups

OneOwner ==
    \A g \in Groups : \A u, v \in Users :
        Rank(g, u) = Owner /\ Rank(g, v) = Owner => u = v

IInv == RowType /\ OthersOK /\ OnlyLive /\ Agree /\ OneOwner

\* OwnershipMoves, of one step.
Moves ==
    \A g \in Groups, u \in Users : Rank(g, u) = Owner =>
        \/ \E v \in Users : Rank(g, v)' = Owner
        \/ \A v \in Users : Rank(g, v)' = 0
        \/ <<u, g>> \in pending /\ <<u, g>> \notin pending'

\* The conjuncts of the invariant say what the properties of Groups say.
LEMMA IInvImplies ==
    ASSUME IInv
    PROVE  TypeOK /\ AtMostOneOwner /\ SettingsFollowMembership
<1>1. \A g \in Groups, u \in Users : Rank(g, u) \in 0 .. Owner
  BY DEF IInv, RowType, Rank, Rows, Owner
<1>2. TypeOK
  BY <1>1 DEF IInv, RowType, OthersOK, OnlyLive, TypeOK, MembersOf
<1>3. AtMostOneOwner
  BY DEF IInv, OneOwner, AtMostOneOwner, Owners
<1>4. SettingsFollowMembership
  BY DEF IInv, OthersOK, Agree, SettingsFollowMembership
<1> QED
  BY <1>2, <1>3, <1>4

LEMMA InitIInv == Init => IInv
BY DEF Init, IInv, RowType, OthersOK, OnlyLive, Agree, OneOwner, Rank,
       Rows, NotMember, Member, Administrator, Owner

(***************************************************************************)
(* What the operations do to the rows.                                     *)
(***************************************************************************)
\* A step that changes the row of one user.
LEMMA OneRow ==
    ASSUME RowType, NEW g \in Groups, NEW u \in Users, NEW r \in Rows, SetRow(g, u, r)
    PROVE  /\ RowType'
           /\ Rank(g, u)' = r.role
           /\ \A h \in Groups, v \in Users :
                h # g \/ v # u => Rank(h, v)' = Rank(h, v)
BY DEF RowType, SetRow, Rank

\* A step that changes the rows of one group.
LEMMA OneGroup ==
    ASSUME RowType, NEW g \in Groups, NEW f \in [Users -> Rows],
           row' = [row EXCEPT ![g] = f]
    PROVE  /\ RowType'
           /\ \A v \in Users : Rank(g, v)' = f[v].role
           /\ \A h \in Groups, v \in Users : h # g => Rank(h, v)' = Rank(h, v)
BY DEF RowType, Rank

\* A step that makes nobody owner keeps one owner at most.
LEMMA NoNewOwner ==
    ASSUME OneOwner,
           \A g \in Groups, u \in Users : Rank(g, u)' = Owner => Rank(g, u) = Owner
    PROVE  OneOwner'
BY DEF OneOwner, Owner

\* A step that leaves the owners as they are moves nothing.
LEMMA OwnersStay ==
    ASSUME \A g \in Groups, u \in Users : Rank(g, u) = Owner => Rank(g, u)' = Owner
    PROVE  Moves
BY DEF Moves

LEMMA RowConstants ==
    /\ NotMember \in Rows /\ NotMember.role = 0
    /\ NewMember \in Rows /\ NewMember.role = 1
BY DEF NotMember, NewMember, Rows, Member, Owner

LEMMA RankType == RowType => \A g \in Groups, u \in Users : Rank(g, u) \in 0 .. 3
BY DEF RowType, Rank, Rows, Owner

LEMMA Found ==
    ASSUME NEW a \in Users, NEW g \in Groups, NEW members \in SUBSET Users,
           IInv, CreateGroup(a, g, members)
    PROVE  IInv' /\ Moves
<1>1. Founded(a, members) \in [Users -> Rows]
  <2>1. [role |-> Owner, muted |-> FALSE] \in Rows
    BY DEF Rows, Owner
  <2> QED
    BY <2>1, RowConstants DEF Founded
<1>2. /\ RowType'
      /\ \A v \in Users : Rank(g, v)' = Founded(a, members)[v].role
      /\ \A h \in Groups, v \in Users : h # g => Rank(h, v)' = Rank(h, v)
  BY <1>1, OneGroup DEF IInv, CreateGroup
<1>3. \A v \in Users : Rank(g, v)' = IF v = a THEN 3 ELSE IF v \in members THEN 1 ELSE 0
  BY <1>2, RowConstants DEF Founded, NewMember, NotMember, Owner
<1>4. OthersOK'
  BY DEF IInv, CreateGroup, Acts, OthersOK
<1>5. OnlyLive'
  BY <1>2, <1>3 DEF IInv, CreateGroup, OthersOK, OnlyLive
<1>6. Agree'
  <2>1. \A v \in Users : Rank(g, v) = 0
    BY RankType DEF IInv, OnlyLive, CreateGroup
  <2>2. \A v \in Users : <<v, g>> \notin settings
    BY <2>1 DEF IInv, Agree
  <2>3. \A h \in Groups, v \in Users :
          <<v, h>> \in settings' <=>
            <<v, h>> \in settings \/ (h = g /\ (v = a \/ v \in members))
    BY DEF CreateGroup
  <2>4. ASSUME NEW h \in Groups, NEW v \in Users, h # g
        PROVE  <<v, h>> \in settings' <=> Rank(h, v)' > 0
    BY <2>3, <2>4, <1>2 DEF IInv, Agree
  <2>5. ASSUME NEW v \in Users
        PROVE  <<v, g>> \in settings' <=> Rank(g, v)' > 0
    BY <2>2, <2>3, <1>3
  <2> QED
    BY <2>4, <2>5 DEF Agree
<1>7. OneOwner'
  BY <1>2, <1>3 DEF IInv, OneOwner, Owner
<1>8. Moves
  BY <1>2, OwnersStay, RankType DEF IInv, OnlyLive, CreateGroup, Owner
<1> QED
  BY <1>8, <1>2, <1>4, <1>5, <1>6, <1>7 DEF IInv

LEMMA Add ==
    ASSUME NEW a \in Users, NEW g \in Groups, NEW members \in SUBSET Users,
           IInv, AddMembers(a, g, members)
    PROVE  IInv' /\ Moves
<1> DEFINE added == members \ MembersOf(g)
           f == [u \in Users |-> IF u \in added THEN NewMember ELSE row[g][u]]
<1>1. f \in [Users -> Rows]
  BY RowConstants DEF IInv, RowType
<1>2. row' = [row EXCEPT ![g] = f]
  BY DEF AddMembers
<1>3. /\ RowType'
      /\ \A v \in Users : Rank(g, v)' = f[v].role
      /\ \A h \in Groups, v \in Users : h # g => Rank(h, v)' = Rank(h, v)
  <2> HIDE DEF f
  <2> QED BY <1>1, <1>2, OneGroup DEF IInv
<1>4. \A v \in Users : Rank(g, v)' = IF v \in added THEN 1 ELSE Rank(g, v)
  BY <1>3, RowConstants DEF Rank
<1>5. /\ settings' = settings \cup (added \X {g})
      /\ status[g] = "Live" /\ status' = status
  BY DEF AddMembers, ActsIn
<1>6. OthersOK'
  BY <1>5 DEF IInv, AddMembers, ActsIn, Acts, OthersOK
<1> HIDE DEF added, f
<1>7. OnlyLive' /\ Agree'
  <2>1. added \subseteq Users
    BY DEF added
  <2> QED
    BY <2>1, <1>3, <1>4, <1>5 DEF IInv, OnlyLive, Agree
<1>8. OneOwner'
  BY <1>3, <1>4, NoNewOwner DEF IInv, Owner
<1>9. Moves
  <2>1. \A v \in added : Rank(g, v) = 0 \/ ~(Rank(g, v) > 0)
    BY DEF added, MembersOf
  <2> QED
    BY <2>1, <1>3, <1>4, OwnersStay DEF Owner
<1> QED
  BY <1>9, <1>3, <1>6, <1>7, <1>8 DEF IInv

\* leave_group and remove_group_member.
LEMMA Dropping ==
    ASSUME NEW a \in Users, NEW g \in Groups, NEW u \in Users,
           IInv, ActsIn(a, g), Drop(g, u), Rank(g, u) # Owner
    PROVE  IInv' /\ Moves
<1>1. /\ RowType'
      /\ Rank(g, u)' = 0
      /\ \A h \in Groups, v \in Users :
           h # g \/ v # u => Rank(h, v)' = Rank(h, v)
  BY OneRow, RowConstants DEF IInv, Drop
<1>2. settings' = settings \ {<<u, g>>} /\ status' = status
  BY DEF Drop
<1>3. OthersOK'
  BY <1>2 DEF IInv, Drop, ActsIn, Acts, OthersOK
<1>4. OnlyLive' /\ Agree'
  BY <1>1, <1>2 DEF IInv, OnlyLive, Agree
<1>5. OneOwner'
  BY <1>1, NoNewOwner DEF IInv, Owner
<1>6. Moves
  BY <1>1, OwnersStay
<1> QED
  BY <1>6, <1>1, <1>3, <1>4, <1>5 DEF IInv

LEMMA Disband ==
    ASSUME NEW a \in Users, NEW g \in Groups, IInv, DisbandGroup(a, g)
    PROVE  IInv' /\ Moves
<1> DEFINE f == [u \in Users |-> NotMember]
<1>1. f \in [Users -> Rows] /\ row' = [row EXCEPT ![g] = f]
  BY RowConstants DEF DisbandGroup
<1>2. /\ RowType'
      /\ \A v \in Users : Rank(g, v)' = f[v].role
      /\ \A h \in Groups, v \in Users : h # g => Rank(h, v)' = Rank(h, v)
  <2> HIDE DEF f
  <2> QED BY <1>1, OneGroup DEF IInv
<1>3. \A v \in Users : Rank(g, v)' = 0
  BY <1>2, RowConstants
<1>4. /\ settings' = {s \in settings : s[2] # g}
      /\ status' = [status EXCEPT ![g] = "Disbanded"]
  BY DEF DisbandGroup
<1>5. OthersOK'
  BY <1>4 DEF IInv, DisbandGroup, ActsIn, Acts, OthersOK
<1>6. OnlyLive' /\ Agree'
  BY <1>2, <1>3, <1>4 DEF IInv, OthersOK, OnlyLive, Agree
<1>7. OneOwner'
  BY <1>2, <1>3, NoNewOwner DEF IInv, Owner
<1>8. Moves
  BY <1>2, <1>3 DEF Moves
<1> QED
  BY <1>8, <1>2, <1>5, <1>6, <1>7 DEF IInv

LEMMA Update ==
    ASSUME NEW a \in Users, NEW g \in Groups, NEW u \in Users,
           NEW new \in [role : Member .. Owner, muted : BOOLEAN],
           IInv, UpdateMember(a, g, u, new)
    PROVE  IInv' /\ Moves
<1>1. new \in Rows /\ new.role > 0
  BY DEF Rows, Member, Owner
<1>2. /\ RowType'
      /\ Rank(g, u)' = new.role
      /\ \A h \in Groups, v \in Users :
           h # g \/ v # u => Rank(h, v)' = Rank(h, v)
  BY <1>1, OneRow DEF IInv, UpdateMember
<1>3. /\ settings' = settings /\ status' = status
      /\ status[g] = "Live" /\ Rank(g, u) > 0
      /\ new.role # Rank(g, u) => new.role # Owner /\ Rank(g, u) # Owner
  BY DEF UpdateMember, ActsIn
<1>4. OthersOK'
  BY DEF IInv, UpdateMember, ActsIn, Acts, OthersOK
<1>5. OnlyLive' /\ Agree'
  BY <1>1, <1>2, <1>3 DEF IInv, OnlyLive, Agree
<1>6. OneOwner'
  BY <1>2, <1>3, NoNewOwner DEF IInv
<1>7. Moves
  BY <1>2, <1>3, OwnersStay
<1> QED
  BY <1>7, <1>2, <1>4, <1>5, <1>6 DEF IInv

LEMMA Transfer ==
    ASSUME NEW a \in Users, NEW g \in Groups, NEW u \in Users,
           IInv, TransferOwnership(a, g, u)
    PROVE  IInv' /\ Moves
<1> DEFINE f == Transferred(g, a, u)
<1>1. /\ f \in [Users -> Rows]
      /\ \A v \in Users : f[v].role = IF v = u THEN 3
                                      ELSE IF v = a THEN 1 ELSE Rank(g, v)
  <2> DEFINE d == [row[g] EXCEPT ![a].role = Member]
  <2>1. row[g] \in [Users -> Rows]
    BY DEF IInv, RowType
  <2>2. /\ d \in [Users -> Rows]
        /\ \A v \in Users : d[v].role = IF v = a THEN 1 ELSE Rank(g, v)
    BY <2>1 DEF Rows, Rank, Member, Owner
  <2>3. f = [d EXCEPT ![u].role = Owner]
    BY DEF Transferred
  <2> HIDE DEF d, f
  <2> QED
    BY <2>2, <2>3 DEF Rows, Owner
<1>2. row' = [row EXCEPT ![g] = f]
  BY DEF TransferOwnership
<1>3. /\ RowType'
      /\ \A v \in Users : Rank(g, v)' = f[v].role
      /\ \A h \in Groups, v \in Users : h # g => Rank(h, v)' = Rank(h, v)
  <2> HIDE DEF f
  <2> QED BY <1>1, <1>2, OneGroup DEF IInv
<1>4. /\ settings' = settings /\ status' = status /\ status[g] = "Live"
      /\ Rank(g, a) = Owner /\ Rank(g, u) > 0
  BY DEF TransferOwnership, ActsIn
<1>5. OthersOK'
  BY DEF IInv, TransferOwnership, ActsIn, Acts, OthersOK
<1> HIDE DEF f
<1>6. OnlyLive' /\ Agree'
  BY <1>1, <1>3, <1>4 DEF IInv, OnlyLive, Agree, Owner
<1>7. OneOwner'
  BY <1>1, <1>3, <1>4 DEF IInv, OneOwner, Owner
<1>8. Moves
  BY <1>1, <1>3, <1>4 DEF Moves, Owner
<1> QED
  BY <1>8, <1>3, <1>5, <1>6, <1>7 DEF IInv

LEMMA Decide ==
    ASSUME NEW a \in Users, NEW g \in Groups, NEW u \in Users, NEW accept \in BOOLEAN,
           IInv, DecideJoinRequest(a, g, u, accept)
    PROVE  IInv' /\ Moves
<1>1. CASE accept
  <2>1. /\ RowType'
        /\ Rank(g, u)' = 1
        /\ \A h \in Groups, v \in Users :
             h # g \/ v # u => Rank(h, v)' = Rank(h, v)
    BY <1>1, OneRow, RowConstants DEF IInv, DecideJoinRequest, Accept
  <2>2. /\ settings' = settings \cup {<<u, g>>} /\ status' = status
        /\ status[g] = "Live"
    BY <1>1 DEF DecideJoinRequest, Accept, ActsIn
  <2>3. OthersOK'
    BY <2>2 DEF IInv, DecideJoinRequest, ActsIn, Acts, OthersOK
  <2>4. OnlyLive' /\ Agree'
    BY <2>1, <2>2 DEF IInv, OnlyLive, Agree
  <2>5. OneOwner'
    BY <2>1, NoNewOwner DEF IInv, Owner
  <2>6. Moves
    BY <2>1 DEF IInv, OthersOK, DecideJoinRequest, Moves
  <2> QED
    BY <2>1, <2>3, <2>4, <2>5, <2>6 DEF IInv
<1>2. CASE ~accept
  BY <1>2 DEF DecideJoinRequest, ActsIn, Acts, IInv, RowType, OthersOK, OnlyLive,
              Agree, OneOwner, Rank, Moves
<1> QED
  BY <1>1, <1>2

(***************************************************************************)
(* Deleted accounts.                                                       *)
(***************************************************************************)
\* In every group the row of a is gone; another row keeps its role, or is made
\* owner in place of a.
Heirs(a, heir) ==
    \A g \in Groups :
        IF Successors(g, a) = {} THEN heir[g] = a ELSE heir[g] \in Successors(g, a)

LEMMA Detaching ==
    ASSUME NEW a \in Users, IInv, Detach(a)
    PROVE  /\ RowType'
           /\ \A g \in Groups : Rank(g, a)' = 0
           /\ \E heir \in [Groups -> Users] :
                /\ Heirs(a, heir)
                /\ \A g \in Groups : \A v \in Users \ {a} :
                     Rank(g, v)' = IF v = heir[g] /\ Rank(g, a) = Owner
                                   THEN Owner ELSE Rank(g, v)
<1>1. PICK heir \in [Groups -> Users] :
        /\ Heirs(a, heir)
        /\ row' = [g \in Groups |->
                     IF a \in MembersOf(g) THEN Detached(g, a, heir[g])
                                           ELSE row[g]]
  BY DEF Detach, Heirs
<1>2. ASSUME NEW g \in Groups
      PROVE  /\ Detached(g, a, heir[g]) \in [Users -> Rows]
             /\ Detached(g, a, heir[g])[a] = NotMember
             /\ \A v \in Users \ {a} :
                  Detached(g, a, heir[g])[v].role =
                    IF v = heir[g] /\ Rank(g, a) = Owner THEN Owner ELSE Rank(g, v)
  <2>1. row[g] \in [Users -> Rows] /\ heir[g] \in Users
    BY DEF IInv, RowType
  <2> QED
    BY <2>1, RowConstants DEF Detached, Rank, Rows, Owner
<1>3. ASSUME NEW g \in Groups, a \notin MembersOf(g)
      PROVE  Rank(g, a) = 0
  BY <1>3, RankType DEF IInv, MembersOf
<1>4. RowType'
  BY <1>1, <1>2 DEF IInv, RowType
<1>5. \A g \in Groups : Rank(g, a)' = 0
  BY <1>1, <1>2, <1>3, RowConstants DEF Rank
<1>6. \A g \in Groups : \A v \in Users \ {a} :
        Rank(g, v)' = IF v = heir[g] /\ Rank(g, a) = Owner THEN Owner ELSE Rank(g, v)
  BY <1>1, <1>2, <1>3 DEF Rank, Owner
<1> QED
  BY <1>1, <1>4, <1>5, <1>6

\* Roles are three, so a group with a member besides a has a successor.
LEMMA SuccessorExists ==
    ASSUME NEW g \in Groups, NEW a \in Users, RowType, Successors(g, a) = {}
    PROVE  \A v \in Users \ {a} : Rank(g, v) = 0
<1> DEFINE Of(n) == {v \in Users \ {a} : Rank(g, v) = n}
<1>1. \A v \in Users : Rank(g, v) \in 0 .. 3
  BY RankType
<1>2. Of(3) = {}
  BY <1>1 DEF Successors, MembersOf
<1>3. Of(2) = {}
  BY <1>1, <1>2 DEF Successors, MembersOf
<1>4. Of(1) = {}
  BY <1>1, <1>2, <1>3 DEF Successors, MembersOf
<1> QED
  BY <1>1, <1>2, <1>3, <1>4

LEMMA Delete ==
    ASSUME NEW a \in Users, IInv, DeleteAccount(a)
    PROVE  IInv' /\ Moves
<1>1. PICK heir \in [Groups -> Users] :
        /\ Heirs(a, heir)
        /\ \A g \in Groups : \A v \in Users \ {a} :
             Rank(g, v)' = IF v = heir[g] /\ Rank(g, a) = Owner
                           THEN Owner ELSE Rank(g, v)
  BY Detaching DEF DeleteAccount
<1>2. RowType' /\ \A g \in Groups : Rank(g, a)' = 0
  BY Detaching DEF DeleteAccount
<1>3. ASSUME NEW g \in Groups, heir[g] # a
      PROVE  Rank(g, heir[g]) > 0
  BY <1>1, <1>3 DEF Heirs, Successors, MembersOf
<1>4. OthersOK'
  BY DEF IInv, DeleteAccount, OthersOK
<1>5. settings' = {s \in settings : s[1] # a} /\ status' = status
  BY DEF DeleteAccount
<1>6. \A g \in Groups : \A v \in Users \ {a} : Rank(g, v)' > 0 <=> Rank(g, v) > 0
  BY <1>1, <1>3 DEF Owner
<1>7. OnlyLive' /\ Agree'
  BY <1>2, <1>5, <1>6 DEF IInv, OnlyLive, Agree
<1>8. OneOwner'
  <2> SUFFICES ASSUME NEW g \in Groups, NEW u \in Users, NEW v \in Users,
                      Rank(g, u)' = Owner, Rank(g, v)' = Owner
               PROVE  u = v
    BY DEF OneOwner
  <2>1. u # a /\ v # a
    BY <1>2 DEF Owner
  <2> QED
    BY <1>1, <2>1 DEF IInv, OneOwner
<1>9. Moves
  <2> SUFFICES ASSUME NEW g \in Groups, NEW u \in Users, Rank(g, u) = Owner
               PROVE  \/ \E v \in Users : Rank(g, v)' = Owner
                      \/ \A v \in Users : Rank(g, v)' = 0
    BY DEF Moves
  <2>1. CASE u # a
    BY <1>1, <2>1
  <2>2. CASE u = a /\ Successors(g, a) # {}
    <3>1. heir[g] \in Users /\ heir[g] # a
      BY <1>1, <2>2 DEF Heirs, Successors
    <3> QED
      BY <3>1, <2>2, <1>1
  <2>3. CASE u = a /\ Successors(g, a) = {}
    <3>1. heir[g] = a
      BY <1>1, <2>3 DEF Heirs
    <3>2. \A v \in Users \ {a} : Rank(g, v) = 0
      BY <2>3, SuccessorExists DEF IInv
    <3> QED
      BY <3>1, <3>2, <1>1, <1>2
  <2> QED
    BY <2>1, <2>2, <2>3
<1> QED
  BY <1>9, <1>2, <1>4, <1>7, <1>8 DEF IInv

(***************************************************************************)
(* The theorems.                                                           *)
(***************************************************************************)
LEMMA NextIInv == IInv /\ [Next]_vars => IInv' /\ Moves
<1> SUFFICES ASSUME IInv, [Next]_vars PROVE IInv' /\ Moves
  OBVIOUS
<1> USE DEF IInv, RowType, OthersOK, OnlyLive, Agree, OneOwner, Rank, Moves
<1>1. ASSUME NEW a \in Users, By(a) PROVE IInv' /\ Moves
  <2>1. CASE DeleteAccount(a)
    BY <2>1, Delete
  <2>2. ASSUME NEW g \in Groups, LeaveGroup(a, g) PROVE IInv' /\ Moves
    BY <2>2, Dropping DEF LeaveGroup, ActsIn
  <2>3. ASSUME NEW g \in Groups, DisbandGroup(a, g) PROVE IInv' /\ Moves
    BY <2>3, Disband
  <2>4. ASSUME NEW g \in Groups, RequestToJoin(a, g) PROVE IInv' /\ Moves
    BY <2>4 DEF RequestToJoin, Acts
  <2>5. ASSUME NEW g \in Groups, NEW muted \in BOOLEAN, SetGroupMute(a, g, muted)
        PROVE  IInv' /\ Moves
    BY <2>5 DEF SetGroupMute, ActsIn, Acts
  <2>6. ASSUME NEW g \in Groups, NEW members \in SUBSET Users,
               CreateGroup(a, g, members) \/ AddMembers(a, g, members)
        PROVE  IInv' /\ Moves
    BY <2>6, Found, Add
  <2>7. ASSUME NEW g \in Groups, NEW u \in Users, RemoveMember(a, g, u) PROVE IInv' /\ Moves
    <3>1. ActsIn(a, g) /\ Drop(g, u) /\ Rank(g, u) # Owner
      BY <2>7 DEF RemoveMember, MayRemove, Member, Administrator, Owner
    <3> HIDE DEF IInv, Moves, Rank
    <3> QED
      BY <3>1, Dropping
  <2>8. ASSUME NEW g \in Groups, NEW u \in Users, TransferOwnership(a, g, u)
        PROVE  IInv' /\ Moves
    BY <2>8, Transfer
  <2>9. ASSUME NEW g \in Groups, NEW u \in Users,
               NEW new \in [role : Member .. Owner, muted : BOOLEAN],
               UpdateMember(a, g, u, new)
        PROVE  IInv' /\ Moves
    BY <2>9, Update
  <2>10. ASSUME NEW g \in Groups, NEW u \in Users, NEW accept \in BOOLEAN,
                DecideJoinRequest(a, g, u, accept)
         PROVE  IInv' /\ Moves
    <3> HIDE DEF IInv, Moves
    <3> QED
      BY <2>10, Decide
  <2> HIDE DEF IInv, Moves
  <2> QED
    BY <1>1, <2>1, <2>2, <2>3, <2>4, <2>5, <2>6, <2>7, <2>8, <2>9, <2>10 DEF By
<1>2. ASSUME NEW g \in Groups, NEW u \in Users, MuteEnds(g, u) PROVE IInv' /\ Moves
  <2>0. row[g][u] \in Rows
    OBVIOUS
  <2>1. [row[g][u] EXCEPT !.muted = FALSE] \in Rows
    BY <2>0 DEF Rows
  <2>2. [row[g][u] EXCEPT !.muted = FALSE].role = Rank(g, u)
    BY <2>0 DEF Rows
  <2> DEFINE r == [row[g][u] EXCEPT !.muted = FALSE]
  <2>3. /\ RowType'
        /\ Rank(g, u)' = r.role
        /\ \A h \in Groups, v \in Users :
             h # g \/ v # u => Rank(h, v)' = Rank(h, v)
    <3>1. SetRow(g, u, r)
      BY <1>2 DEF MuteEnds
    <3> HIDE DEF r
    <3>2. r \in Rows
      BY <2>1 DEF r
    <3> HIDE DEF Rank, RowType
    <3> QED
      BY <3>1, <3>2, OneRow
  <2>4. \A h \in Groups, v \in Users : Rank(h, v)' = Rank(h, v)
    BY <2>2, <2>3
  <2> HIDE DEF Rank, RowType
  <2> QED
    BY <1>2, <2>3, <2>4 DEF MuteEnds
<1>3. ASSUME NEW u \in Users, NEW v \in Users, FriendshipChanges(u, v) PROVE IInv' /\ Moves
  BY <1>3 DEF FriendshipChanges
<1>4. CASE UNCHANGED vars
  BY <1>4 DEF vars
<1> HIDE DEF IInv, Moves
<1> QED
  BY <1>1, <1>2, <1>3, <1>4 DEF Next

LEMMA Invariance == Spec => []IInv
BY InitIInv, NextIInv, PTL DEF Spec

\* Every variable of Groups keeps its type; groups that are not live have no
\* members and no mute.
THEOREM TypeCorrect == Spec => []TypeOK
BY Invariance, IInvImplies, PTL

\* No operation of the service gives a group two owners, whatever the order.
THEOREM OneOwnerHolds == Spec => []AtMostOneOwner
BY Invariance, IInvImplies, PTL

\* conversation_settings has a row for exactly the members of the groups.
THEOREM SettingsHold == Spec => []SettingsFollowMembership
BY Invariance, IInvImplies, PTL
\* An owner goes only with a successor, with the last member, or by a decided
\* join request of their own.
THEOREM OwnershipMovesHolds == Spec => OwnershipMoves
<1>1. IInv /\ IInv' /\ [Next]_vars =>
        [\A g \in Groups : \A u \in Owners(g) :
           \/ Owners(g)' # {}
           \/ MembersOf(g)' = {}
           \/ <<u, g>> \in pending /\ <<u, g>> \notin pending']_vars
  <2> SUFFICES ASSUME IInv, IInv', [Next]_vars,
                      NEW g \in Groups, NEW u \in Owners(g)
               PROVE  \/ Owners(g)' # {}
                      \/ MembersOf(g)' = {}
                      \/ <<u, g>> \in pending /\ <<u, g>> \notin pending'
    OBVIOUS
  <2>1. Moves
    BY NextIInv
  <2>2. u \in Users /\ Rank(g, u) = Owner
    BY DEF Owners
  <2>3. CASE \E v \in Users : Rank(g, v)' = Owner
    BY <2>3 DEF Owners
  <2>4. CASE \A v \in Users : Rank(g, v)' = 0
    BY <2>4 DEF MembersOf
  <2> QED
    BY <2>1, <2>2, <2>3, <2>4 DEF Moves
<1> QED
  BY <1>1, Invariance, PTL DEF Spec, OwnershipMoves

(***************************************************************************)
(* Who changes a member: OnlySuperiorsAct, action by action.               *)
(***************************************************************************)
Allowed(a, h, u) ==
    /\ a \in MembersOf(h)
    /\ \/ Rank(h, a) > Rank(h, u)
       \/ a = u /\ ~Promoted(h, u)
       \/ <<u, h>> \in pending /\ <<u, h>> \notin pending'

\* A member whose row and whose group's mute stay is not changed.
LEMMA SameRow ==
    ASSUME NEW h, NEW u, row'[h][u] = row[h][u], h \in muteAll' <=> h \in muteAll
    PROVE  ~Changed(h, u)
BY Zenon DEF Changed, Silent, Rank

\* An operation on the row of u in g changes nobody else.
LEMMA OnlyThatRow ==
    ASSUME RowType, NEW g \in Groups, NEW u \in Users, NEW r \in Rows, SetRow(g, u, r), muteAll' = muteAll,
           NEW h \in Groups, NEW v \in Users, Changed(h, v)
    PROVE  h = g /\ v = u
<1>1. CASE h # g \/ v # u
  <2>1. row'[h][v] = row[h][v]
    BY <1>1 DEF RowType, SetRow
  <2> QED
    BY <2>1, SameRow
<1> QED
  BY <1>1

\* An operation that leaves the roles of a group's members alone.
LEMMA OnlyThatGroup ==
    ASSUME RowType, NEW g \in Groups, NEW f, row' = [row EXCEPT ![g] = f],
           \A h \in Groups : h # g => (h \in muteAll' <=> h \in muteAll),
           NEW h \in Groups, NEW v \in Users, Changed(h, v)
    PROVE  h = g
<1>1. CASE h # g
  <2>1. row'[h][v] = row[h][v] /\ (h \in muteAll' <=> h \in muteAll)
    BY <1>1 DEF RowType
  <2> QED
    BY <2>1, SameRow
<1> QED
  BY <1>1

\* Whoever may leave, remove, change a role or a mute.
LEMMA ByRow ==
    ASSUME IInv, NEW a \in Users, NEW g \in Groups, NEW v \in Users,
           NEW new \in [role : Member .. Owner, muted : BOOLEAN],
           \/ v = a /\ LeaveGroup(a, g)
           \/ RemoveMember(a, g, v) \/ UpdateMember(a, g, v, new),
           NEW h \in Groups, NEW u \in MembersOf(h), Changed(h, u)
    PROVE  Allowed(a, h, u)
<1> USE DEF ActsIn
<1>1. u \in Users /\ \A w \in Users : Rank(h, w) \in 0 .. 3
  BY RankType DEF MembersOf, IInv
<1>2. a \in MembersOf(g)
  BY DEF LeaveGroup, RemoveMember, UpdateMember, MembersOf
<1>3. CASE v = a /\ LeaveGroup(a, g)
  <2>1. SetRow(g, a, NotMember) /\ muteAll' = muteAll
    BY <1>3 DEF LeaveGroup, Drop
  <2>2. h = g /\ u = a
    BY <1>1, <2>1, OnlyThatRow, RowConstants DEF IInv
  <2>3. Rank(g, a)' = 0
    BY <2>1, OneRow, RowConstants DEF IInv
  <2>4. Rank(g, a) > 0
    BY <1>3 DEF LeaveGroup
  <2> QED
    BY <1>1, <1>2, <2>2, <2>3, <2>4 DEF Allowed, Promoted, MembersOf
<1>4. CASE RemoveMember(a, g, v)
  <2>1. SetRow(g, v, NotMember) /\ muteAll' = muteAll /\ Rank(g, a) > Rank(g, v)
    BY <1>4 DEF RemoveMember, Drop, MayRemove
  <2>2. h = g /\ u = v
    BY <1>1, <2>1, OnlyThatRow, RowConstants DEF IInv
  <2> QED
    BY <1>2, <2>1, <2>2 DEF Allowed
<1>5. CASE UpdateMember(a, g, v, new)
  <2>1. SetRow(g, v, new) /\ muteAll' = muteAll /\ new # row[g][v]
    BY <1>5 DEF UpdateMember
  <2>2. new \in Rows
    BY DEF Rows, Member, Owner
  <2>3. h = g /\ u = v
    BY <1>1, <2>1, <2>2, OnlyThatRow DEF IInv
  <2>4. new.role # Rank(g, v) \/ new.muted # row[g][v].muted
    <3>1. row[g][v] \in Rows
      BY DEF IInv, RowType
    <3> QED
      BY <2>1, <2>2, <3>1 DEF Rows, Rank
  <2>5. Rank(g, a) > Rank(g, v)
    BY <1>1, <1>5, <2>3, <2>4 DEF UpdateMember, Owner
  <2> QED
    BY <1>2, <2>3, <2>5 DEF Allowed
<1> QED
  BY <1>3, <1>4, <1>5

\* The owner hands the group over, disbands it, or somebody mutes all.
LEMMA ByGroup ==
    ASSUME IInv, NEW a \in Users, NEW g \in Groups, NEW v \in Users, NEW muted \in BOOLEAN,
           TransferOwnership(a, g, v) \/ DisbandGroup(a, g) \/ SetGroupMute(a, g, muted),
           NEW h \in Groups, NEW u \in MembersOf(h), Changed(h, u)
    PROVE  Allowed(a, h, u)
<1> USE DEF ActsIn
<1>1. u \in Users /\ Rank(h, u) > 0 /\ \A w \in Users : Rank(h, w) \in 0 .. 3
  BY RankType DEF MembersOf, IInv
<1>2. a \in MembersOf(g)
  BY DEF TransferOwnership, DisbandGroup, SetGroupMute, MembersOf
<1>3. CASE Rank(g, a) = Owner /\ h = g /\ u # a
  <2>1. Rank(g, u) # Owner
    BY <1>1, <1>3 DEF IInv, OneOwner
  <2> QED
    BY <1>1, <1>2, <1>3, <2>1 DEF Allowed, Owner
<1>4. CASE TransferOwnership(a, g, v)
  <2>1. h = g
    BY <1>1, <1>4, OnlyThatGroup DEF TransferOwnership, IInv
  <2>2. CASE u = a
    <3>1. row[g][a] \in Rows /\ row[g] \in [Users -> Rows]
      BY DEF IInv, RowType
    <3>2. row'[g] = Transferred(g, a, v)
      BY <1>4 DEF TransferOwnership, IInv, RowType
    <3>3. CASE v = a
      <4>1. row'[g][a].role = Owner /\ row'[g][a].muted = row[g][a].muted /\ row'[g][a] \in Rows
        BY <3>1, <3>2, <3>3 DEF Transferred, Rows, Owner
      <4>2. row'[g][a] = row[g][a]
        BY <1>4, <3>1, <4>1 DEF TransferOwnership, Rank, Rows
      <4>3. muteAll' = muteAll
        BY <1>4 DEF TransferOwnership
      <4> QED
        BY <2>1, <2>2, <4>2, <4>3, SameRow
    <3>4. CASE v # a
      <4>1. row'[g][a].role = 1 /\ row'[g][a].muted = row[g][a].muted
        BY <3>1, <3>2, <3>4 DEF Transferred, Rows, Member
      <4>2. Rank(g, a) = 3 /\ muteAll' = muteAll
        BY <1>4 DEF TransferOwnership, Owner
      <4>3. ~Promoted(g, a)
        BY <4>1, <4>2 DEF Promoted, Silent, Rank, Member
      <4> QED
        BY <1>2, <2>1, <2>2, <4>3 DEF Allowed
    <3> QED
      BY <3>3, <3>4
  <2> QED
    BY <1>3, <1>4, <2>1, <2>2 DEF TransferOwnership
<1>5. CASE DisbandGroup(a, g)
  <2>1. h = g
    BY <1>1, <1>5, OnlyThatGroup DEF DisbandGroup, IInv
  <2>2. Rank(g, a) = Owner
    BY <1>1, <1>5, <2>1 DEF DisbandGroup, Owner
  <2>3. CASE u = a
    <3>1. row'[g][a] = NotMember
      BY <1>5 DEF DisbandGroup, IInv, RowType
    <3>2. Rank(g, a)' = 0
      BY <3>1, RowConstants DEF Rank
    <3> QED
      BY <1>2, <2>1, <2>2, <2>3, <3>2 DEF Allowed, Promoted, MembersOf, Owner
  <2> QED
    BY <1>3, <2>1, <2>2, <2>3
<1>6. CASE SetGroupMute(a, g, muted)
  <2>1. row' = row /\ \A f \in Groups : f # g => (f \in muteAll' <=> f \in muteAll)
    BY <1>6 DEF SetGroupMute
  <2>2. h = g
    BY <2>1, SameRow
  <2>3. Rank(g, u) = Member
    BY <2>1, <2>2 DEF Changed, Silent, Rank
  <2> QED
    BY <1>1, <1>2, <1>6, <2>2, <2>3 DEF SetGroupMute, Allowed, Member, Administrator
<1> QED
  BY <1>4, <1>5, <1>6

\* Who is added or applies is no member; who is accepted had applied.
LEMMA ByJoining ==
    ASSUME IInv, NEW a \in Users, NEW g \in Groups, NEW v \in Users, NEW accept \in BOOLEAN,
           NEW members \in SUBSET Users,
           \/ CreateGroup(a, g, members) \/ AddMembers(a, g, members)
           \/ RequestToJoin(a, g) \/ DecideJoinRequest(a, g, v, accept),
           NEW h \in Groups, NEW u \in MembersOf(h), Changed(h, u)
    PROVE  Allowed(a, h, u)
<1>1. u \in Users /\ Rank(h, u) > 0
  BY DEF MembersOf
<1>2. CASE CreateGroup(a, g, members)
  <2>1. h = g
    BY <1>1, <1>2, OnlyThatGroup DEF CreateGroup, IInv
  <2> QED
    BY <1>1, <1>2, <2>1 DEF CreateGroup, IInv, OnlyLive
<1>3. CASE AddMembers(a, g, members)
  <2>1. h = g /\ muteAll' = muteAll
    BY <1>1, <1>3, OnlyThatGroup DEF AddMembers, IInv
  <2>2. row'[g][u] = row[g][u]
    BY <1>1, <1>3, <2>1 DEF AddMembers, IInv, RowType
  <2> QED
    BY <2>1, <2>2, SameRow
<1>4. CASE RequestToJoin(a, g)
  BY <1>4, SameRow DEF RequestToJoin
<1>5. CASE DecideJoinRequest(a, g, v, accept)
  <2>1. a \in MembersOf(g) /\ <<v, g>> \in pending /\ <<v, g>> \notin pending' /\ muteAll' = muteAll
    BY <1>5 DEF DecideJoinRequest, ActsIn, MembersOf
  <2>2. CASE accept
    <3>1. SetRow(g, v, NewMember)
      BY <1>5, <2>2 DEF DecideJoinRequest, Accept
    <3>2. h = g /\ u = v
      BY <1>1, <2>1, <3>1, OnlyThatRow, RowConstants DEF IInv
    <3> QED
      BY <2>1, <3>2 DEF Allowed
  <2>3. CASE ~accept
    BY <1>5, <2>1, <2>3, SameRow DEF DecideJoinRequest
  <2> QED
    BY <2>2, <2>3
<1> QED
  BY <1>2, <1>3, <1>4, <1>5

\* A deleted account leaves; who is made owner in its place was below it.
LEMMA ByDeletion ==
    ASSUME IInv, NEW a \in Users, DeleteAccount(a),
           NEW h \in Groups, NEW u \in MembersOf(h), Changed(h, u)
    PROVE  Allowed(a, h, u)
<1>1. u \in Users /\ Rank(h, u) > 0 /\ \A w \in Users : Rank(h, w) \in 0 .. 3
  BY RankType DEF MembersOf, IInv
<1>2. PICK heir \in [Groups -> Users] :
        row' = [g \in Groups |-> IF a \in MembersOf(g) THEN Detached(g, a, heir[g]) ELSE row[g]]
  BY DEF DeleteAccount, Detach
<1>3. muteAll' = muteAll
  BY DEF DeleteAccount
<1>4. a \in MembersOf(h)
  BY <1>2, <1>3, SameRow
<1>5. row'[h] = Detached(h, a, heir[h])
  BY <1>2, <1>4
<1>6. CASE u = a
  <2>1. row'[h][a] = NotMember
    BY <1>5 DEF Detached, IInv, RowType
  <2>2. Rank(h, a)' = 0
    BY <2>1, RowConstants DEF Rank
  <2> QED
    BY <1>1, <1>4, <1>6, <2>2 DEF Allowed, Promoted, MembersOf
<1>7. CASE u # a /\ Rank(h, a) = Owner
  <2>1. Rank(h, u) # Owner
    BY <1>1, <1>7 DEF IInv, OneOwner
  <2> QED
    BY <1>1, <1>4, <1>7, <2>1 DEF Allowed, Owner
<1>8. CASE u # a /\ Rank(h, a) # Owner
  <2>1. row[h] \in [Users -> Rows] /\ row[h][u] \in Rows
    BY <1>1 DEF IInv, RowType
  <2>2. row'[h][u].role = row[h][u].role /\ row'[h][u].muted = row[h][u].muted /\ row'[h][u] \in Rows
    BY <1>1, <1>5, <1>8, <2>1 DEF Detached, Rows
  <2>3. row'[h][u] = row[h][u]
    BY <2>1, <2>2 DEF Rows
  <2> QED
    BY <1>3, <2>3, SameRow
<1> QED
  BY <1>6, <1>7, <1>8

\* Members are changed by who outranks them, by themselves, by time, or by
\* the decision of a join request they had left open.
THEOREM OnlySuperiorsActHolds == Spec => OnlySuperiorsAct
<1>1. IInv /\ [Next]_vars =>
        [\A g \in Groups : \A u \in MembersOf(g) : Changed(g, u) =>
           \/ MuteEnds(g, u)
           \/ \E a \in MembersOf(g) :
                /\ By(a)
                /\ \/ Rank(g, a) > Rank(g, u)
                   \/ a = u /\ ~Promoted(g, u)
                   \/ <<u, g>> \in pending /\ <<u, g>> \notin pending']_vars
  <2> SUFFICES ASSUME IInv, Next, NEW h \in Groups, NEW u \in MembersOf(h), Changed(h, u)
               PROVE  \/ MuteEnds(h, u)
                      \/ \E a \in Users : By(a) /\ Allowed(a, h, u)
    BY DEF Allowed
  <2>1. u \in Users
    BY DEF MembersOf
  <2>2. ASSUME NEW a \in Users, By(a) PROVE Allowed(a, h, u)
    <3>1. [role |-> Member, muted |-> FALSE] \in [role : Member .. Owner, muted : BOOLEAN]
      BY DEF Member, Owner
    <3> QED
      BY <2>2, <3>1, ByDeletion, ByRow, ByGroup, ByJoining DEF By
  <2>3. ASSUME NEW g \in Groups, NEW v \in Users, MuteEnds(g, v) PROVE MuteEnds(h, u)
    <3>1. /\ SetRow(g, v, [row[g][v] EXCEPT !.muted = FALSE]) /\ muteAll' = muteAll
          /\ row[g][v] \in Rows
      BY <2>3 DEF MuteEnds, IInv, RowType
    <3>2. [row[g][v] EXCEPT !.muted = FALSE] \in Rows
      BY <3>1 DEF Rows
    <3>3. h = g /\ u = v
      BY <2>1, <3>1, <3>2, OnlyThatRow DEF IInv
    <3> QED
      BY <2>3, <3>3
  <2>4. ASSUME NEW v \in Users, NEW w \in Users, FriendshipChanges(v, w) PROVE FALSE
    BY <2>4, SameRow DEF FriendshipChanges
  <2> QED
    BY <2>2, <2>3, <2>4 DEF Next
<1> QED
  BY <1>1, Invariance, PTL DEF Spec, OnlySuperiorsAct
================================================================================
