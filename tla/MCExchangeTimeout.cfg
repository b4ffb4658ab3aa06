\* One exchange whose context may have a deadline.
CONSTANTS
    MaxExchanges = 1
    Frame = 1
SPECIFICATION Spec
INVARIANTS
    TimeoutIsConfigured
CHECK_DEADLOCK FALSE
