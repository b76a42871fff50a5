\* jobs, and other processes, at any time
CONSTANTS
    a1 = a1
    a2 = a2
    s1 = s1
    s2 = s2
    j1 = j1
    j2 = j2
    j3 = j3
    NoService = NoService
    Account = {a1, a2}
    Service = {s1, s2}
    Job = {j1, j2}
SPECIFICATION FairSpec
INVARIANTS
    TypeOK
    RemovalGoesOn
PROPERTIES
    ToggleSettles
    FinishedRemovalIsGone
    RemovalFinishes
    WritesFinish
    RemovalForgetsCredentials
CHECK_DEADLOCK FALSE
