\* one change of an account at a time, nothing fails
CONSTANTS
    a1 = a1
    a2 = a2
    l1 = l1
    l2 = l2
    storage = storage
    mail = mail
    Account = {a1, a2}
    Service = {storage, mail}
    DavService = {storage}
    Login = {l1, l2}
    LoginOf <- SharedLogin
    Overlap = FALSE
    Failures = FALSE
    MaxChanges = 5
    MaxRestarts = 1
SPECIFICATION FairSpec
INVARIANTS
    NothingStaleInFlight
    DisabledIsUnmounted
    EnabledIsMounted
PROPERTIES
    MountsFollowDatabase
    RemovalReachesPlugins
    MountsConverge
CHECK_DEADLOCK FALSE
