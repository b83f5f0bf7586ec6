\* Devices by boot loader, a third image to install; reboots and docker upgrades; migrations from
\* earlier versions, each stopped once at any point; configurations saved and loaded, with failures.
SPECIFICATION Spec
CONSTANTS
    i1 = i1
    i2 = i2
    i3 = i3
    NoImage = NoImage
    Images <- MCImages
    Empty = NoImage
    StartsWith <- MCStartsWith
    Kinds = {"warm", "fastfast", "fast", "cold", "soft"}
    Containers = {"swss", "snmp"}
    AsicConfig <- MCAsicConfig
    WarmContainers = {"swss"}
    InitCfg <- MCInitCfg
    MaxKills = 1
    Namespaces <- MCNamespaces
    Overridden = {"acl", "tsa"}
    Scenarios <- MCScenarios
INVARIANTS NothingLingers MigrationResumes BuffersHold ReloadIsWhole
PROPERTIES ImplementsBootChoice BootsFit
CHECK_DEADLOCK FALSE
