SPECIFICATION FairSpec
CHECK_DEADLOCK FALSE
CONSTANTS
    MaxConn = 2
    MaxToken = 1
    MaxMsg = 2
    UserMax = 2
    AuthMax = 1
    None = None
INVARIANTS
    TypeOK
    SessionFound
    MessageHeld
PROPERTY
    LoginAnswered
