\* A U-Boot device on which images come and go as they like.
SPECIFICATION Spec
CONSTANTS
    i1 = i1
    i2 = i2
    i3 = i3
    NoImage = NoImage
    Images <- MCImages
    Empty = NoImage
    StartsWith <- MCStartsWith
    Kinds = {"warm", "fastfast", "fast", "cold", "soft"}
    Containers = {"swss", "snmp"}
    AsicConfig <- MCAsicConfig
    WarmContainers = {"swss"}
    InitCfg <- MCInitCfg
    MaxKills = 1
    Namespaces <- MCNamespaces
    Overridden = {"acl", "tsa"}
    Scenarios <- MCCareless
PROPERTIES DefaultIsChosen
CHECK_DEADLOCK FALSE
