SPECIFICATION FairPageSpec
CONSTANTS
    MaxWorkspaces = 2
    MaxEvents = 2
    MaxRequests = 2
    MaxSockets = 2
INVARIANTS
    TerminalTracked
    PollGoesOn
PROPERTIES
    SignedOutQuiet
    PageConnects
CHECK_DEADLOCK FALSE
