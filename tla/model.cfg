\* the model is constructed at any time, the heap reuses addresses
CONSTANTS
    a1 = a1
    a2 = a2
    a3 = a3
    h1 = h1
    h2 = h2
    h3 = h3
    None = None
    Cleared = Cleared
    Account = {a1, a2, a3}
    Address = {h1, h2, h3}
SYMMETRY Alike
SPECIFICATION Spec
CHECK_DEADLOCK FALSE
INVARIANTS
    TypeOK
    RowsAreAccounts
    ViewFollowsModel
    HandlesAreValid
    ServicesOfFreshHandles
