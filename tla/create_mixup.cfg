\* two jobs whose providers share a UI plugin
CONSTANTS
    j1 = j1
    j2 = j2
    j3 = j3
    google = google
    owncloud = owncloud
    NoPlugin = NoPlugin
    None = None
    Job = {j1, j2}
    Plugin = {google, owncloud}
    PluginOf <- SamePlugin
    Missing = {}
    Failures = FALSE
SPECIFICATION Spec
INVARIANTS
    OwnCredentials
CHECK_DEADLOCK FALSE
