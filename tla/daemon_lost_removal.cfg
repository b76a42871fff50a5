\* an account is removed before its creation is handled
CONSTANTS
    a1 = a1
    a2 = a2
    l1 = l1
    l2 = l2
    storage = storage
    mail = mail
    Account = {a1}
    Service = {storage, mail}
    DavService = {storage}
    Login = {l1, l2}
    LoginOf <- OwnLogin
    Overlap = TRUE
    Failures = FALSE
    MaxChanges = 2
    MaxRestarts = 0
SPECIFICATION FairSpec
PROPERTIES
    RemovalReachesPlugins
CHECK_DEADLOCK FALSE
