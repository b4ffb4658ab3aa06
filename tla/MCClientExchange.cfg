\* Three concurrent calls on one connection.
CONSTANTS
    Calls = {a, b, c}
    Nodes = {0}
    MaxRedirects = 1
    RetryReads = FALSE
SPECIFICATION ComposedSpec
SYMMETRY CallSymmetry
INVARIANTS
    GateExclusive
    PutOutcomeTruthful
    ClosedIsTerminal
PROPERTIES
    ImplementsClient
\* The system stops when every call has returned.
CHECK_DEADLOCK FALSE
