\* Two replies in a row on one connection, sealed or not.
CONSTANTS
    MaxHeader = 3
    MaxFrame = 2
    MaxReplies = 2
    Choices <- MCReplies
SPECIFICATION FairSpec
INVARIANTS
    NothingLeft
    RoomForReply
PROPERTIES
    ImplementsContract
    RepliesEnd
\* The connection is closed after an error.
CHECK_DEADLOCK FALSE
