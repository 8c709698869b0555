SPECIFICATION FairSpec
CONSTANTS
    Users = {u1}
    Tasks = {t1, t2}
    Capacity = 1
    PageSize = 1
    Bursts = {1, 2}
    MaxEvents = 2
    MaxFaults = 2
    MaxRestarts = 1
CHECK_DEADLOCK FALSE
PROPERTIES EventuallySettled ImplementsFeed
