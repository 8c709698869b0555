SPECIFICATION CacheSpec
CONSTANTS
    Rows = {text, draft}
    TextRows = {text}
    Writers = {t1, t2}
    MaxKeys = 3
SYMMETRY WriterSymmetry
INVARIANTS  IndexMatchesPlaintext 
