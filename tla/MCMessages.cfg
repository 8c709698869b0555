SPECIFICATION FairSpec
CONSTANTS
    u1 = u1
    u2 = u2
    m1 = m1
    m2 = m2
    None = None
    Users = {u1, u2}
    Moderators = {u2}
    Ids = {m1, m2}
    Author <- MCAuthor
    Mentions <- MCMentions
    MaxLog = 3
    MaxMarks = 1
    MaxFaults = 2
    MaxRequests = 3
CHECK_DEADLOCK FALSE
INVARIANTS ConfirmedIsDurable PostedOnce ReadsAgree
PROPERTY DueIsDelivered
