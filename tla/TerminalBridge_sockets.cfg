SPECIFICATION FairSpec
CONSTANTS
    Bridges = {b1, b2}
    Workspaces = {w1}
    NoWorkspace = NoWorkspace
    PerWorkspace = 1
    Global = 1
    PendingLimit = 1
    BufferLimit = 1
    HeldLimit = 1
    MaxAttempts = 1
    MaxFrames = 2
CHECK_DEADLOCK FALSE
INVARIANTS TerminalSlots FramesInOrder
PROPERTIES TerminalsEnd
