--------------------------- MODULE ConfigCommands ---------------------------
(***************************************************************************)
(* The commands of "config" over one CONFIG_DB.                             *)
(***************************************************************************)
EXTENDS ConfigInterfaces, PortBreakout, ConfigBuffers, ConfigServices,
        ConfigTraffic, ConfigPolicies

CONSTANTS
    Areas   \* bounds: what a behaviour may use and the rows it starts with

\* A behaviour starts with rows that the commands do not add themselves, with the
\* buffers that the templates render or none, with thresholds in their order, and with the
\* ports of the mode that is written of a port that can be broken out.
FoundTables ==
    {"BREAKOUT_CFG", "BGP_NEIGHBOR", "KDUMP", "FEATURE", "DEVICE_METADATA", "DEVICE_NEIGHBOR", "MUX_CABLE",
     "XCVRD_LOG", "WRED_PROFILE", "DSCP_TO_FC_MAP"}
ASSUME AreasAssumption ==
    \A a \in Areas : \A r \in DOMAIN a.start :
        /\ r[1] \in QosTables => {s \in DOMAIN Template : s[1] \in QosTables} \subseteq DOMAIN a.start
        /\ r[1] \in FoundTables \cup QosTables
        /\ r[1] \in QosTables => r \in DOMAIN Template /\ a.start[r] = Template[r]
        /\ r = Wred => Ordered(a.start[r])
        /\ \A p \in DOMAIN Modes :
             r = BreakoutRow(p) =>
                /\ "brkout_mode" \in DOMAIN a.start[r] /\ a.start[r].brkout_mode \in DOMAIN Modes[p]
                /\ Family(p) \cap Ports \cap a.on = DOMAIN Modes[p][a.start[r].brkout_mode]

\* What the switch makes of interfaces and of features are two tables of STATE_DB, kept in one function.
ASSUME StateAssumption == Features \cap Routed = {}

Init ==
    /\ area \in Areas
    /\ db = area.start @@
            [r \in {<<"PORT", p>> : p \in On(Ports)} |->
               [admin_status |-> "up", mtu |-> "9100", speed |-> "40G"]]
    /\ switch = <<>>
    /\ job = None

Next ==
    \/ InterfacesNext
    \/ BreakoutNext
    \/ BuffersNext
    \/ ServicesNext
    \/ TrafficNext
    \/ PoliciesNext

\* The interface manager and the feature daemon of the switch run, and the command that waits polls.
Fairness ==
    /\ \A i \in Routed : WF_vars(InterfaceManager(i))
    /\ WF_vars(Rebind)
    /\ WF_vars(BreakoutDelete)
    /\ WF_vars(BreakoutAdd \/ BreakoutTimesOut)
    /\ \A f \in Features : WF_vars(FeatureDaemon(f))
    /\ WF_vars(FeatureReached)
    /\ WF_vars(\E model \in {"dynamic", "traditional"}, found \in BOOLEAN : WriteQos(model, found))
    /\ WF_vars(\E rendered \in BOOLEAN : WritePorts(rendered))
Spec == Init /\ [][Next]_vars /\ Fairness
-----------------------------------------------------------------------------
(***************************************************************************)
(* What the checks that are spread over the commands keep true of the rows  *)
(* together.                                                               *)
(***************************************************************************)


Members(p) == {r \in KeysOf("VLAN_MEMBER") \cup KeysOf("PORTCHANNEL_MEMBER") : r[3] = p}

\* An address belongs to an interface that is there; it has no address and is
\* the member of something at once.
AddressedIsRouted ==
    \A i \in Routed : AddressRows(i) # {} => Has(Own(i)) /\ ~InVlan(i) /\ ~InLag(i)

\* A member of a port channel is a member of nothing else; a port is in at
\* most one VLAN without a tag; a port that mirrored packets leave by is not
\* a member of anything.
OneMaster ==
    \A p \in Ports \cup Lags :
        /\ InLag(p) => Cardinality(Members(p)) = 1
        /\ Cardinality({r \in Members(p) : Field(r, "tagging_mode") = "untagged"}) <= 1
        /\ IsMirrorDst(p) => Members(p) = {}

\* The members of a port channel have its MTU and the default TPID.
MembersFit ==
    \A r \in KeysOf("PORTCHANNEL_MEMBER") :
        /\ Has(<<"PORTCHANNEL", r[2]>>)
        /\ ~Differ(<<"PORTCHANNEL", r[2]>>, <<"PORT", r[3]>>, "mtu")
        /\ Field(<<"PORT", r[3]>>, "tpid") \in {"", "0x8100"}

\* No port is mirrored twice in one direction, or mirrored and a target.
SessionsApart ==
    \A r, s \in KeysOf("MIRROR_SESSION") :
        r # s => /\ db[r].dst # "" => db[r].dst # db[s].dst /\ db[r].dst \notin db[s].src
                 /\ SameWay(r, db[s].direction) => db[r].src \cap db[s].src = {}

\* What a port is used for is checked by each command that gives it a use, from
\* the rows of the other uses: after any sequence of commands, no port has two
\* uses that exclude each other (vlan, portchannel, mirror_session, interface).
RolesApart == AddressedIsRouted /\ OneMaster /\ MembersFit /\ SessionsApart

\* The lists of a static route have one length, and a route without next hop
\* and device is no row.
RoutesAligned ==
    \A r \in KeysOf("STATIC_ROUTE") :
        /\ \A f, g \in Lists : Len(db[r][f]) = Len(db[r][g])
        /\ \E k \in DOMAIN db[r].nexthop :
             db[r].nexthop[k] # "" \/ db[r].ifname[k] # "" \/ db[r].blackhole[k] = "true"

\* A breakout leaves the ports of one mode, the one that is written, or, if the switch did not
\* answer, none; and no member of a VLAN or a port channel that is not there.
PortsWhole ==
    /\ \A p \in DOMAIN Modes :
         LET there == {q \in Family(p) : Has(<<"PORT", q>>)}
         IN  job = None /\ Has(BreakoutRow(p)) => there \in {{}, DOMAIN Modes[p][CurrentMode(p)]}
    /\ \A r \in KeysOf("VLAN_MEMBER") \cup KeysOf("PORTCHANNEL_MEMBER") : IsPort(db, r[3])

\* Whatever a row names is there when nothing is waiting: the VRF of an
\* interface and of a syslog server, the map of a VNI, the VLAN and tunnel of
\* a map (vrf, syslog, vxlan, vlan del and their checks; the code does not
\* promise it for sub-interfaces and static routes, whose VRF may go.)  The lists of
\* a static route stay aligned when next hops come and go (add_route, del_route).
ReferencesResolve ==
    /\ RoutesAligned /\ PortsWhole
    /\ \A i \in Routed \ Subs : Vrf(i) \notin {"", "mgmt"} => Has(<<"VRF", Vrf(i)>>)
    /\ \A r \in KeysOf("SYSLOG_SERVER") : Field(r, "vrf") \in {"", "default"} \/ VrfExists(Field(r, "vrf"))
    /\ \A r \in KeysOf("VRF") :
         "vni" \in DOMAIN db[r] /\ db[r].vni # 0 => \E s \in KeysOf("VXLAN_TUNNEL_MAP") : s[3] = db[r].vni
    /\ \A r \in KeysOf("VXLAN_TUNNEL_MAP") : Has(<<"VXLAN_TUNNEL", r[2]>>) /\ Has(<<"VLAN", r[4]>>)
    /\ \A r \in KeysOf("VXLAN_EVPN_NVO") : Has(<<"VXLAN_TUNNEL", db[r].source_vtep>>)
    /\ \A r, s \in KeysOf("VXLAN_TUNNEL_MAP") : r # s => r[3] # s[3] /\ r[4] # s[4]

\* The interface manager never sees an interface change from one VRF to
\* another: it sees it go in between (interface vrf bind and unbind, whose
\* wait is for this).  Mpls and vrf del aside, which do not wait.
NeverMoves ==
    [][\A i \in Routed \cap DOMAIN switch : i \in DOMAIN switch' /\ switch'[i] # "" => switch[i] \in {"", switch'[i]}]_vars

\* A command that waits ends: a bind when the manager has removed the
\* interface, a reload of the QoS tables after its wait.
JobEnds == job # None ~> job = None

\* A wait is long enough for the manager to see an interface go, and it ends:
\* vrf bind and unbind, and qos reload (config/main.py).
WaitsAreEnough == NeverMoves /\ JobEnds
-----------------------------------------------------------------------------
(***************************************************************************)
(* What the buffer commands keep in step, of a database d: the templates    *)
(* have it too.                                                            *)
(***************************************************************************)
\* No two priority groups, and no two queue ranges, of a port overlap.
NoOverlap(d) ==
    \A p \in BufferPorts : \A m, o \in Maps :
        m # o /\ IdsOf(m) \cap IdsOf(o) # {} =>
            /\ ~(Pg(p, m) \in DOMAIN d /\ Pg(p, o) \in DOMAIN d)
            /\ ~(Queue(p, m) \in DOMAIN d /\ Queue(p, o) \in DOMAIN d)

\* PFC pauses the priorities of each lossless priority group.
LosslessIsPaused(d) ==
    \A p \in BufferPorts, m \in Maps :
        Pg(p, m) \in DOMAIN d /\ d[Pg(p, m)].profile # "ingress_lossy_profile" => IdsOf(m) \subseteq PfcEnable(d, p)

\* A profile of a priority group is there.
PgProfilesResolve(d) ==
    \A r \in DOMAIN d : r[1] = "BUFFER_PG" => d[r].profile = "NULL" \/ Profile(d[r].profile) \in DOMAIN d

\* The sizes of a profile are no less than zero, its headroom is more; with one threshold it
\* has both, and a size.
ProfilesWhole(d) ==
    \A r \in DOMAIN d : r[1] = "BUFFER_PROFILE" =>
        /\ \A f \in DOMAIN d[r] \cap {"xon", "xoff", "size"} : d[r][f] \in Nat
        /\ "xoff" \in DOMAIN d[r] => d[r].xoff > 0
        /\ "xon" \in DOMAIN d[r] => {"xoff", "size"} \subseteq DOMAIN d[r]

\* The templates of a platform fit together, and name a profile, or "NULL", for each priority group.
ASSUME TemplateAssumption ==
    /\ NoOverlap(Template) /\ LosslessIsPaused(Template) /\ PgProfilesResolve(Template) /\ ProfilesWhole(Template)
    /\ \A r \in DOMAIN Template : r[1] = "BUFFER_PG" => "profile" \in DOMAIN Template[r]

\* The rows that several buffer commands keep in step (interface buffer,
\* buffer profile, qos reload): maps that do not overlap, profiles that are
\* complete, PFC for what is lossless, unless it was switched off by "pfc config
\* priority", and profiles that are there, unless a reload of the QoS tables of
\* some ports came in between, which writes what the templates say.
BuffersFit ==
    /\ NoOverlap(db) /\ ProfilesWhole(db)
    /\ "pfc" \notin area.groups => LosslessIsPaused(db)
    /\ "qos" \notin area.groups => PgProfilesResolve(db)

-----------------------------------------------------------------------------
\* Each console line has a remote device of its own.
DevicesApart == \A r, s \in KeysOf("CONSOLE_PORT") : r # s /\ Field(r, "remote_device") # "" =>
                     Field(r, "remote_device") # Field(s, "remote_device")

\* There is one MCLAG domain, its members go with it, and its session outlives
\* a whole number of keepalives, whichever of the two was set last.
MclagFits ==
    /\ Cardinality(KeysOf("MCLAG_DOMAIN")) <= 1
    /\ \A r \in KeysOf("MCLAG_INTERFACE") : Has(Domain(r[2]))
    /\ \A d \in Domains : Has(Domain(d)) => TimersFit(Keepalive(d), SessionTimeout(d))

\* The SNMP daemon, which does not start with two agents on one address and
\* port, has one (but see Lettered); the contact has one name.
SnmpStarts ==
    /\ \A r, s \in KeysOf("SNMP_AGENT_ADDRESS_CONFIG") : r # s /\ r[2] = s[2] => r[2][1] \in Lettered
    /\ Has(Contact) => Cardinality(DOMAIN db[Contact]) = 1

\* What the commands of the services check of one row against the others stays
\* true whatever they are called in turn (console, mclag, snmp, sflow, radius,
\* kubernetes).
ServicesFit ==
    /\ DevicesApart /\ MclagFits /\ SnmpStarts
    /\ Cardinality(KeysOf("SFLOW_COLLECTOR")) <= 2
    /\ Cardinality(KeysOf("RADIUS_SERVER")) <= MaxServers
    /\ \A r \in KeysOf("KUBERNETES_MASTER") : DOMAIN db[r] = {"ip", "port", "insecure", "disable"}

-----------------------------------------------------------------------------
\* An incremental update compares the rules of control plane tables one by one.
UpdatesAgree ==
    \A file \in AclFiles, s \in Sessions \cup {""} :
        (\A r \in KeysOf("ACL_RULE") : Has(AclTable(r[2]))) => IncrementalUpdate(file, s) = FullUpdate(file, s, "")

\* An ACL is not bound to a member of a port channel, whichever of the two came
\* first.  An address that is translated one to one is translated in no other
\* way: not by ports, and not from a pool (config acl add table, portchannel
\* member add, nat add).  From any state an incremental update of the rules leaves
\* what a full one leaves (acl update incremental, acl update full).
TrafficFit ==
    /\ UpdatesAgree
    /\ \A r \in KeysOf("ACL_TABLE") : \A p \in db[r].ports : ~InLag(p)
    /\ \A r \in KeysOf("STATIC_NAT") :
         ~IsOverlapping(TakenBy(r), "STATIC_NAPT") /\ ~IsOverlappingDynamic(TakenBy(r))

\* A hash field has a mask of its own IP version, or none; a rule matches
\* something and has a hash; counters are saved only of rules that have counted
\* ever since, or did not count.
PbhFits ==
    /\ \A r \in KeysOf("PBH_HASH_FIELD") : IpVersion[db[r].hash_field] = Field(r, "ip_mask")
    /\ \A r \in KeysOf("PBH_RULE") : DOMAIN db[r] \cap Matches # {} /\ "hash" \in DOMAIN db[r]
    /\ \A s \in KeysOf("PBH_SAVED") : db[s].counts = "ENABLED" => Field(Rule(s[2], s[3]), "flow_counter") = "ENABLED"

\* What several commands write of one policy stays consistent: of a hash (config
\* pbh), of a tunnel and its maps (nvgre-tunnel), of a drop counter and its
\* reasons (dropconfig), of the thresholds of a profile (ecnconfig).
PoliciesFit ==
    /\ PbhFits
    /\ \A r \in KeysOf("NVGRE_TUNNEL_MAP") : Has(NvgreTunnel(r[2]))
    /\ \A r \in KeysOf("DEBUG_COUNTER_DROP_REASON") : Has(DropCounter(r[2]))
    /\ \A type \in DOMAIN DropCapability :
         Cardinality({r \in KeysOf("DEBUG_COUNTER") : db[r].type = type}) <= DropCapability[type].count
    /\ Has(Wred) => Ordered(db[Wred])

\* A dry run changes no row ("Dry run, writes config to the given file").
DryRunIsDry == [][Doing("ports")' /\ job'.dry => db' = db]_vars
=============================================================================
