\* Three packages in three versions; and all manifests of three services.
SPECIFICATION ChecksSpec
INVARIANT AcceptedIsCompatible
INVARIANT OrderRespectsManifests
INVARIANT CircularIffCyclic
CONSTANTS
    Services = {"swss", "syncd", "bgp"}
    a = a
    b = b
    c = c
    lib = lib
    Packages = {a, b, c}
    Versions = {1, 2, 3}
    NoVersion = NoVersion
    Components = {lib}
    ComponentVersions <- MCComponentVersions
    DependsOn <- MCDependsOn
    Breaks <- MCBreaks
    ComponentsOf <- MCComponentsOf
CHECK_DEADLOCK FALSE
