\* Two DBs opened at once and three concurrent calls.
CONSTANTS
    DBs = {d1, d2}
    Calls = {a, b, c}
    Threads = {t1, t2}
    NoCall = NoCall
    NoDB = NoDB
SPECIFICATION Spec
SYMMETRY Symmetry
INVARIANTS
    InitBeforeCalls
    HandleUse
    NobodyStranded
    ErrorFromOwnFailure
    ActsOnExisting
    BuffersFreed
\* The system stops when every call has returned.
CHECK_DEADLOCK FALSE
