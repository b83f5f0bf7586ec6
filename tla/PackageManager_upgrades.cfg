\* An upgrade under a dependent package.
SPECIFICATION Spec
INVARIANT DependenciesMet
CONSTANTS
    a = a
    b = b
    c = c
    s1 = s1
    s2 = s2
    Packages = {a, b}
    Versions = {1, 2}
    NoVersion = NoVersion
    Components = {}
    ComponentVersions = {}
    DependsOn <- MCDependsOn
    Breaks <- MCBreaks
    ComponentsOf <- MCComponentsOf
    Sessions = {s1}
    Requests <- MCUpgrades
    NotListed = NotListed
    Torn = Torn
    NoFeature = NoFeature
    Nobody = Nobody
    Commands <- MCCommands
    NoCommand = NoCommand
    BuiltIn = {}
    WithYang = {a, b}
    Mandatory = {b}
    Supported <- MCSupported
    PluginsOf <- MCPluginsOf
    Shipped <- MCShipped
    MaxRequests = 3
    MaxFailures = 0
    MaxCrashes = 0
    MaxToggles = 0
CHECK_DEADLOCK FALSE
