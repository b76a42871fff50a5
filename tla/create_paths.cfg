\* one job on each path, signond may fail
CONSTANTS
    j1 = j1
    j2 = j2
    j3 = j3
    google = google
    owncloud = owncloud
    NoPlugin = NoPlugin
    None = None
    Job = {j1, j2, j3}
    Plugin = {google, owncloud}
    PluginOf <- EachPath
    Missing = {owncloud}
    Failures = TRUE
SPECIFICATION FairSpec
INVARIANTS
    EnabledIsAuthenticated
    ResultMatchesDatabase
    OwnCredentials
PROPERTIES
    JobsAnswered
    CreatesAccounts
CHECK_DEADLOCK FALSE
