\* Three exchanges in a row, frames written in up to two pieces.
CONSTANTS
    MaxExchanges = 3
    Frame = 2
SPECIFICATION Spec
INVARIANTS
    NoForeignInterrupt
    CancellationKept
    AttemptedTruthful
PROPERTIES
    ImplementsContract
\* The system stops after the last exchange.
CHECK_DEADLOCK FALSE
