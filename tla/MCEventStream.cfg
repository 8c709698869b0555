SPECIFICATION Spec
CONSTANTS
    Users = {u1}
    Tasks = {t1, t2}
    Capacity = 1
    PageSize = 1
    Bursts = {1, 2}
    MaxEvents = 3
    MaxFaults = 1
    MaxRestarts = 1
CHECK_DEADLOCK FALSE
INVARIANTS SkippedOnlyIf OnlyRecipients
PROPERTIES CursorNeverRetreats LiveEventsAreFresh
