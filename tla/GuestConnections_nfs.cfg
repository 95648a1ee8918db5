SPECIFICATION FairSpec
CONSTANTS
    Threads = {t1, t2}
    Workspaces = {w1, w2}
    t1 = t1
    t2 = t2
    w1 = w1
    w2 = w2
    NfsChoices = {"ssh", "ssh+nfs"}
    NoScope = NoScope
    NoThread = NoThread
PROPERTIES
    Answered
CHECK_DEADLOCK FALSE
