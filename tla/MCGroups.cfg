SPECIFICATION Spec
CONSTANTS
    Users = {u1, u2, u3}
    Groups = {g1}
    MaxMembers = 2
SYMMETRY Symmetry
CHECK_DEADLOCK FALSE
INVARIANTS AtMostOneOwner SettingsFollowMembership
PROPERTIES OwnershipMoves OnlySuperiorsAct
