\* Two connections of one client, with any server.
CONSTANTS
    MaxDials = 2
    Given <- MCGiven
    Servers <- MCServers
SPECIFICATION FairSpec
INVARIANTS
    KeysMatch
    ReadyMeansAgreed
    ErrorsTruthful
    InputErrorsFirst
PROPERTIES
    DialEndsInTime
\* Behaviours end with the last connection.
CHECK_DEADLOCK FALSE
