\* the page, two jobs for one provider with a UI plugin, signond may fail
CONSTANTS
    j1 = j1
    j2 = j2
    nextcloud = nextcloud
    owncloud = owncloud
    NoPlugin = NoPlugin
    None = None
    Job = {j1, j2}
    Plugin = {owncloud}
    PluginOf <- SamePlugin
    Missing = {}
    Failures = TRUE
    Provider = {nextcloud}
    ProviderOf <- OneProvider
    SingleAccount = {nextcloud}
    MaxPages = 2
SPECIFICATION PageSpec
INVARIANTS
    TypeOK
    EnabledIsBacked
    PageTypeOK
    SingleAccountKept
    CalmJobsCorrect
    NeverStuck
CHECK_DEADLOCK FALSE
