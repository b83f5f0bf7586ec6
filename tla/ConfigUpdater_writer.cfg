CONSTANTS
    v1 = v1
    v2 = v2
    s1 = s1
    s2 = s2
    c1 = c1
    c2 = c2
    dhcp = dhcp
    acl = acl
    Obj = Obj
    Absent = Absent
    NoFile = NoFile
    Torn = Torn
    Scalars = {v1, v2}
    Sessions = {s1, s2}
    Names = {c1}
    Services = {dhcp, acl}
    Restricted = {}
    Rows <- MCRows
    Fields <- MCFields
    Refs <- MCRefs
    Backend <- MCBackend
    TableRank <- MCTableRank
    ServicesOf <- MCServicesOf
    Initial <- MCInitial
    Requests <- WriterAndKeeper
    Candidates <- MCCandidates
    MaxSteps = 2
    MaxRequests = 3
    MaxDaemonWrites = 1
    MaxCrashes = 1
SPECIFICATION Spec
INVARIANTS
    TypeOK
    ReferencesIntact
    ComparisonsAgree
    CheckpointsIntact
    ServicesFollow
PROPERTY ImplementsMoves
CHECK_DEADLOCK FALSE
