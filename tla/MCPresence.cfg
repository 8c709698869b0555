SPECIFICATION Spec
CONSTANTS
    u1 = u1
    Users = {u1, u2}
    Sessions = {s1, s2}
    UserOf <- MCUserOf
    MaxDirects = 3
    Choices = {"Online", "Invisible"}
    MaxFaults = 1
CHECK_DEADLOCK FALSE
INVARIANTS FriendshipsAreWhole BlocksCut PresenceFollowsSessions FriendsAreTold
