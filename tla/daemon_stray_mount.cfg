\* a service is disabled while its mount is in flight
CONSTANTS
    a1 = a1
    a2 = a2
    l1 = l1
    l2 = l2
    storage = storage
    mail = mail
    Account = {a1}
    Service = {storage, mail}
    DavService = {storage}
    Login = {l1, l2}
    LoginOf <- OwnLogin
    Overlap = TRUE
    Failures = FALSE
    MaxChanges = 3
    MaxRestarts = 0
SPECIFICATION Spec
INVARIANTS
    DisabledIsUnmounted
CHECK_DEADLOCK FALSE
