SPECIFICATION Spec
CONSTANTS
    Conversations = {c1, c2}
    Tasks = {t1, t2}
    PageSize = 2
    MaxLog = 4
    MaxChanges = 2
    MaxLoads = 2
    MaxInputs = 1
    None = None
SYMMETRY Symmetry
CONSTRAINT Scope
CHECK_DEADLOCK FALSE
INVARIANTS ShownBelongs ShownIsCurrent TextStaysHome ListIsCurrent
