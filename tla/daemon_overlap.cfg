\* changes at any time, requests fail, kded restarts
CONSTANTS
    a1 = a1
    a2 = a2
    l1 = l1
    l2 = l2
    storage = storage
    mail = mail
    Account = {a1, a2}
    Service = {storage, mail}
    DavService = {storage}
    Login = {l1, l2}
    LoginOf <- SharedLogin
    Overlap = TRUE
    Failures = TRUE
    MaxChanges = 3
    MaxRestarts = 1
SPECIFICATION FairHistorySpec
INVARIANTS
    TypeOK
    MountHasPassword
    NoAccountUnmonitored
    NullHandleNeverUsed
    UndisturbedPlacesAgree
PROPERTIES
    RemovalLostByCrashOnly
    CredentialsSettle
CHECK_DEADLOCK FALSE
