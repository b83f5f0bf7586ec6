\* Migration next to another session, with failures, kills and a toggle.
SPECIFICATION FairSpec
PROPERTY SuccessIsComplete
PROPERTY MigrationFits
PROPERTY LockReleased
CONSTANTS
    a = a
    b = b
    c = c
    s1 = s1
    s2 = s2
    Packages = {a, b, c}
    Versions = {1, 2}
    NoVersion = NoVersion
    Components = {}
    ComponentVersions = {}
    DependsOn <- MCDependsOn
    Breaks <- MCBreaks
    ComponentsOf <- MCComponentsOf
    Sessions = {s1, s2}
    Requests <- MCMigrations
    NotListed = NotListed
    Torn = Torn
    NoFeature = NoFeature
    Nobody = Nobody
    Commands <- MCCommands
    NoCommand = NoCommand
    BuiltIn = {c}
    WithYang = {a, b}
    Mandatory = {b}
    Supported <- MCSupported
    PluginsOf <- MCPluginsOf
    Shipped <- MCShippedBuiltIn
    MaxRequests = 3
    MaxFailures = 1
    MaxCrashes = 1
    MaxToggles = 1
CHECK_DEADLOCK FALSE
