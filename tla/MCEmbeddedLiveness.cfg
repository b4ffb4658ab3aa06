\* Two DBs opened at once and two calls, under fair scheduling.
CONSTANTS
    DBs = {d1, d2}
    Calls = {a, b}
    Threads = {t1, t2}
    NoCall = NoCall
    NoDB = NoDB
SPECIFICATION FairSpec
INVARIANTS
    EmbeddedInv
PROPERTIES
    ImplementsContract
    CallsReturn
    OpensReturn
\* The system stops when every call has returned.
CHECK_DEADLOCK FALSE
