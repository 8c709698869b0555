SPECIFICATION FairSpec
CONSTANTS
    Users = {u1, u2}
    Files = {a1}
    Images = {a1}
    Handlers = {h1, h2}
    MaxStickers = 1
    None = None
CHECK_DEADLOCK FALSE
INVARIANTS ReferencedIsStored OrphansOnlyIf
PROPERTIES QuarantineIsFinal UploadsSettle
