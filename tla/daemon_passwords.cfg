\* one account, one change at a time: what an unmount leaves in the wallet
CONSTANTS
    a1 = a1
    a2 = a2
    l1 = l1
    l2 = l2
    storage = storage
    mail = mail
    Account = {a1}
    Service = {storage, mail}
    DavService = {storage}
    Login = {l1, l2}
    LoginOf <- OwnLogin
    Overlap = FALSE
    Failures = FALSE
    MaxChanges = 3
    MaxRestarts = 0
SPECIFICATION Spec
INVARIANTS
    PasswordsGoWithMounts
CHECK_DEADLOCK FALSE
