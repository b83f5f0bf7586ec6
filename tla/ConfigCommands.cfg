SPECIFICATION Spec
CONSTANTS
    Ports = {"p1", "p2", "p10"}
    Lags = {"l1", "l2"}
    Vlans = {"v1", "v2"}
    Subs = {"s", "t"}
    Loopbacks = {"o1"}
    Vrfs = {"r1", "r2", "mgmt"}
    Addresses = {"a1"}
    Parent <- MCParent
    LongName = {"s"}
    NameTag <- MCNameTag
    Vid <- MCVid
    Vnis = {1, 2}
    Tunnels = {"t1"}
    Nvos = {"n1"}
    Sessions = {"m1", "m2"}
    Servers = {"y1"}
    Occurs <- MCOccurs
    Prefixes = {"x1"}
    Hops = {"h1", "h2"}
    Mtus = {"9100", "1500"}
    Speeds = {"40G", "100G"}
    Tpids = {"0x8100", "0x9100"}
    MaxHops = 2
    Modes <- MCModes
    BreakoutDefaults <- MCDefaults
    BufferPorts = {"p1", "p2"}
    MaxPg = 2
    Profiles = {"f1", "egress_profile", "ingress_lossy_profile"}
    Pools = {"ingress_lossless_pool", "egress_pool"}
    Template <- MCTemplate
    Neighbors = {"b1", "b2"}
    Upper <- MCUpper
    Agents <- MCAgents
    Lettered = {"fc00::1"}
    AgentVrfs = {"", "mgmt"}
    Communities = {"c1", "c2"}
    Contacts = {"n1", "n2"}
    Users = {"u1", "u2"}
    Clocks = {"c"}
    Collectors = {"c1", "c2", "c3"}
    Radius = {"s1", "s2", "s3"}
    MaxServers = 2
    Domains = {1, 2}
    Seconds = {1, 3, 5, 9, 15}
    Lines = {1, 2}
    Devices = {"d1", "d2"}
    Features = {"bgp", "swss"}
    AclTables = {"data", "control"}
    AclTypes = {"L3", "MIRROR", "CTRLPLANE"}
    Stages = {"ingress", "egress"}
    AclFiles <- MCAclFiles
    AclCapability <- MCAclCapability
    MaxPriority = 10000
    Ips = {1, 2}
    NatPools = {"q1"}
    Bindings = {"b1"}
    TwiceIds = {0, 7}
    MaxNat = 3
    PbhNames = {"h"}
    IpVersion <- MCIpVersion
    PbhCapability <- MCPbhCapability
    Matches = {"gre_key", "ether_type"}
    Tunnel = {"t1"}
    TunnelMaps = {"m1", "m2"}
    DropCapability <- MCDropCapability
    DropCounters = {"d1", "d2", "d3"}
    Thresholds = {1, 2, 3}
    Areas <- MCAreas
INVARIANTS
    RolesApart
    ReferencesResolve
    BuffersFit
    ServicesFit
    TrafficFit
    PoliciesFit
PROPERTIES
    WaitsAreEnough
CHECK_DEADLOCK FALSE
