\* two accounts, the model is set to either or none at any time
CONSTANTS
    a1 = a1
    a2 = a2
    mail = mail
    storage = storage
    NoService = NoService
    None = None
    Account = {a1, a2}
    Service = {mail, storage}
    ServicesOf <- Overlapping
    MaxChanges = 4
SPECIFICATION Spec
CHECK_DEADLOCK FALSE
INVARIANTS
    TypeOK
    RowsHaveAccount
    ViewShowsDatabase
