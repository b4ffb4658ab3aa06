\* Two calls that compete for the gate, one of which may hold it for ever.
CONSTANTS
    Calls = {a, b}
    Nodes = {0}
    MaxRedirects = 1
    RetryReads = TRUE
SPECIFICATION WatchedSpec
PROPERTIES
    CallsReturn
    CancelReturns
\* The system stops when every call has returned.
CHECK_DEADLOCK FALSE
