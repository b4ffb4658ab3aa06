\* Two concurrent calls, two peers that redirect to each other.
CONSTANTS
    Calls = {a, b}
    Nodes = {0, 1}
    MaxRedirects = 2
    RetryReads = TRUE
SPECIFICATION Spec
INVARIANTS
    NoForeignReply
    WorkBounded
    PutAtMostOnce
PROPERTIES
    ImplementsContract
\* The system stops when every call has returned.
CHECK_DEADLOCK FALSE
