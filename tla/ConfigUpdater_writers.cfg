CONSTANTS
    v1 = v1
    v2 = v2
    s1 = s1
    s2 = s2
    c1 = c1
    c2 = c2
    dhcp = dhcp
    acl = acl
    Obj = Obj
    Absent = Absent
    NoFile = NoFile
    Torn = Torn
    Scalars = {v1, v2}
    Sessions = {s1, s2}
    Names = {c1}
    Services = {dhcp, acl}
    Restricted <- MCRestricted
    Rows <- MCRows
    Fields <- MCFields
    Refs <- MCRefs
    Backend <- MCBackend
    TableRank <- MCTableRank
    ServicesOf <- MCServicesOf
    Initial <- MCInitial
    Requests <- TwoWriters
    Candidates <- MCCandidates
    MaxSteps = 2
    MaxRequests = 2
    MaxDaemonWrites = 0
    MaxCrashes = 1
SPECIFICATION FairSpec
PROPERTIES
    ForeignRowsKept
    EveryRequestEnds
CHECK_DEADLOCK FALSE
