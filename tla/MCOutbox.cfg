SPECIFICATION MCSpec
CONSTANTS
    Users = {u1, u2}
    Messages = {m1}
    Flushers = {f1, f2}
    None = None
    MaxMishaps = 2
CHECK_DEADLOCK FALSE
INVARIANTS EntriesUnique QueuedOrOnServer SentIsOnServer
PROPERTIES DiscardIsFinal OutboxDrains
