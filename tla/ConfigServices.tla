--------------------------- MODULE ConfigServices ---------------------------
(***************************************************************************)
(* The commands of "config" for the services of the switch: BGP sessions,   *)
(* warm restart, SNMP, NTP, sFlow, AAA and its servers, MCLAG, console      *)
(* lines, features, Kubernetes, kdump and storm control.  Rows of STATE_DB  *)
(* that a command writes are rows here like those of CONFIG_DB.             *)
(***************************************************************************)
EXTENDS ConfigInterfaces

CONSTANTS
    Neighbors, Upper,       \* BGP: addresses, and the name in upper case
    Agents, Lettered,       \* SNMP: <<ip, port>>, "" for no port; ips with letters
    AgentVrfs,              \* VRFs of an agent address, "" for none
    Communities, Contacts, Users,
    Clocks,                 \* NTP servers
    Collectors,
    Radius, MaxServers,     \* RADIUS servers; how many there may be
    Domains, Seconds,       \* MCLAG
    Lines, Devices,         \* console
    Features

\* A maximum is a number.
ASSUME ServersAssumption == MaxServers \in Nat

Put(r, f, x) == Become(ModEntry(db, r, f :> x))
-----------------------------------------------------------------------------
(* config bgp *)

Neighbor(b) == <<"BGP_NEIGHBOR", b>>
BgpSessions == {b \in Neighbors : Has(Neighbor(b))}
Named(name) == {b \in BgpSessions : Field(Neighbor(b), "name") = name}

\* An address first; else a name: to the letter for a change of the status, in
\* upper case for a removal.
ToChange(x) == IF x \in BgpSessions THEN {x} ELSE Named(x)
ToRemove(x) == IF x \in BgpSessions THEN {x} ELSE Named(Upper[x])
ChangeStatus(found, status) ==
    Become([r \in {Neighbor(b) : b \in found} |-> [admin_status |-> status] @@ db[r]] @@ db)

BgpAll(status) == Use("bgp") /\ ChangeStatus(BgpSessions, status)
BgpNeighbor(x, status) == Use("bgp") /\ ToChange(x) # {} /\ ChangeStatus(ToChange(x), status)
BgpRemove(x) ==
    /\ Use("bgp") /\ ToRemove(x) # {}
    /\ Become(Without(db, {Neighbor(b) : b \in ToRemove(x)}))
-----------------------------------------------------------------------------
(* config warm_restart, hostname, synchronous_mode, kdump, kubernetes *)

WarmRestart(f, value) ==
    /\ Use("feature") /\ (f = "system" \/ Has(<<"FEATURE", f>>))
    /\ Put(<<"WARM_RESTART_ENABLE_TABLE", f>>, "enable", value)

WarmRestartTimer(module, f, x) == Use("device") /\ Put(<<"WARM_RESTART", module>>, f, x)
DeviceMetadata(f, x) == Use("device") /\ Put(<<"DEVICE_METADATA", "localhost">>, f, x)

Kdump(f, x) ==
    /\ Use("device") /\ Has(<<"KDUMP", "config">>)
    /\ Put(<<"KDUMP", "config">>, f, x)

\* Fields that are missing are set with their defaults, one by one.
KubeServer(f, x) ==
    /\ Use("kube")
    /\ LET defaults == [ip |-> "", port |-> "6443", insecure |-> "True", disable |-> "False"]
       IN  Become(ModEntry(db, <<"KUBERNETES_MASTER", "SERVER">>,
                           (f :> x) @@ Entry(<<"KUBERNETES_MASTER", "SERVER">>) @@ defaults))
KubeLabel(key, x) == Use("kube") /\ Put(<<"KUBE_LABELS", "SET">>, key, IF x = "" THEN "false" ELSE x)

\* The comparison of the capability with 0 is never true: any port is taken.
StormControl(p, kbps) ==
    /\ Use("storm") /\ Has(<<"PORT", p>>)
    /\ Put(<<"PORT_STORM_CONTROL", p, "broadcast">>, "kbps", kbps)
StormControlOff(p) ==
    /\ Use("storm") /\ Has(<<"PORT", p>>) /\ Has(<<"PORT_STORM_CONTROL", p, "broadcast">>)
    /\ Become(Without(db, {<<"PORT_STORM_CONTROL", p, "broadcast">>}))
-----------------------------------------------------------------------------
(* config snmpagentaddress, snmptrap, snmp *)

Agent(a, v) == <<"SNMP_AGENT_ADDRESS_CONFIG", a, v>>

\* The pattern of the look-up is in upper case: it finds no address with letters.
AddAgent(a, v) ==
    /\ Use("agent") /\ (v = "" => ~MgmtVrfEnabled)
    /\ ~\E r \in KeysOf("SNMP_AGENT_ADDRESS_CONFIG") :
          r[2][1] = a[1] /\ a[1] \notin Lettered /\ a[2] \in {"", r[2][2]}
    /\ Become(SetEntry(db, Agent(a, v), NoFields))

DelAgent(a, v) == Use("agent") /\ Become(Without(db, {Agent(a, v)}))

TrapServer(version, ip) == Use("agent") /\ Put(<<"SNMP_TRAP_CONFIG", version>>, "DestIp", ip)
DelTrapServer(version) == Use("agent") /\ Become(Without(db, {<<"SNMP_TRAP_CONFIG", version>>}))

AddCommunity(c, type) ==
    /\ Use("snmp") /\ ~Has(<<"SNMP_COMMUNITY", c>>)
    /\ Become(SetEntry(db, <<"SNMP_COMMUNITY", c>>, [TYPE |-> type]))
DelCommunity(c) ==
    /\ Use("snmp") /\ Has(<<"SNMP_COMMUNITY", c>>)
    /\ Become(Without(db, {<<"SNMP_COMMUNITY", c>>}))
ReplaceCommunity(c, new) ==
    /\ Use("snmp") /\ Has(<<"SNMP_COMMUNITY", c>>) /\ ~Has(<<"SNMP_COMMUNITY", new>>)
    /\ Become(Without(SetEntry(db, <<"SNMP_COMMUNITY", new>>, db[<<"SNMP_COMMUNITY", c>>]),
                      {<<"SNMP_COMMUNITY", c>>}))

\* The name of the contact is the field; a name is deleted by a part of it.
Contact == <<"SNMP", "CONTACT">>
AddContact(c, mail) ==
    /\ Use("snmp") /\ ~Has(Contact)
    /\ Become(SetEntry(db, Contact, c :> mail))
DelContact(c) ==
    /\ Use("snmp") /\ Has(Contact) /\ \E d \in DOMAIN db[Contact] : <<c, d>> \in Occurs \/ c = d
    /\ Become(Without(db, {Contact}))
ModifyContact(c, mail) ==
    /\ Use("snmp") /\ Has(Contact) /\ Field(Contact, c) # mail
    /\ Become(SetEntry(db, Contact, c :> mail))

Location == <<"SNMP", "LOCATION">>
AddLocation(x) == Use("snmp") /\ ~Has(Location) /\ Become(SetEntry(db, Location, [Location |-> x]))
DelLocation(x) ==
    /\ Use("snmp") /\ Has(Location) /\ db[Location].Location = x
    /\ Become(Without(db, {Location}))
ModifyLocation(x) ==
    /\ Use("snmp") /\ Has(Location) /\ db[Location].Location # x
    /\ Put(Location, "Location", x)

\* A user type asks for its algorithms and refuses others.
AddUser(u, type, auth, encrypt) ==
    /\ Use("user") /\ ~Has(<<"SNMP_USER", u>>)
    /\ (type = "noAuthNoPriv") = (auth = "")
    /\ type = "AuthNoPriv" => encrypt = ""
    /\ type = "Priv" => encrypt # ""
    /\ Become(SetEntry(db, <<"SNMP_USER", u>>, [type |-> type, auth |-> auth, encrypt |-> encrypt]))
DelUser(u) ==
    /\ Use("user") /\ Has(<<"SNMP_USER", u>>)
    /\ Become(Without(db, {<<"SNMP_USER", u>>}))
-----------------------------------------------------------------------------
(* config ntp, sflow *)

AddClock(c) == Use("sflow") /\ Become(SetEntry(db, <<"NTP_SERVER", c>>, NoFields))
DelClock(c) ==
    /\ Use("sflow") /\ Has(<<"NTP_SERVER", c>>)
    /\ Become(Without(db, {<<"NTP_SERVER", c>>}))

Sflow == <<"SFLOW", "global">>
SflowOr(state) == IF Has(Sflow) THEN db[Sflow] ELSE [admin_state |-> state]
SflowState(state) == Use("sflow") /\ Put(Sflow, "admin_state", state)
SflowPolling(x) == Use("sflow") /\ Become(ModEntry(db, Sflow, [polling_interval |-> x] @@ SflowOr("down")))
AddAgentId(i) ==
    /\ Use("sflow") /\ Field(Sflow, "agent_id") = ""
    /\ Become(ModEntry(db, Sflow, [agent_id |-> i] @@ SflowOr("down")))
DelAgentId ==
    /\ Use("sflow") /\ Field(Sflow, "agent_id") # ""
    /\ Become(SetEntry(db, Sflow, Drop(db[Sflow], "agent_id")))

SflowInterface(i, state) ==
    /\ Use("sample") /\ (NameIsValid(i) \/ i = "all")
    /\ Put(<<"SFLOW_SESSION", i>>, "admin_state", state)
SampleRate(i, rate) ==
    /\ Use("sample") /\ (NameIsValid(i) \/ i = "all")
    /\ IF rate # "default" THEN Put(<<"SFLOW_SESSION", i>>, "sample_rate", rate)
       ELSE /\ Field(<<"SFLOW_SESSION", i>>, "sample_rate") # ""
            /\ Become(SetEntry(db, <<"SFLOW_SESSION", i>>, Drop(db[<<"SFLOW_SESSION", i>>], "sample_rate")))

AddCollector(c, v) ==
    /\ Use("sflow")
    /\ Has(<<"SFLOW_COLLECTOR", c>>) \/ Cardinality(KeysOf("SFLOW_COLLECTOR")) # 2
    /\ Put(<<"SFLOW_COLLECTOR", c>>, "collector_vrf", v)
DelCollector(c) ==
    /\ Use("sflow") /\ Has(<<"SFLOW_COLLECTOR", c>>)
    /\ Become(Without(db, {<<"SFLOW_COLLECTOR", c>>}))
-----------------------------------------------------------------------------
(* config aaa, tacacs, radius *)

AddTableKv(r, f, x) == Put(r, f, x)
DelTableKey(r, f) == Become(IF Entry(r) = NoFields THEN db ELSE SetEntry(db, r, Drop(db[r], f)))
Setting(r, f, x) == IF x = "default" THEN DelTableKey(r, f) ELSE AddTableKv(r, f, x)

Failthrough(x) == Use("aaa") /\ Setting(<<"AAA", "authentication">>, "failthrough", x)
Fallback(x) == Use("aaa") /\ Setting(<<"AAA", "authentication">>, "fallback", x)
Login(methods) ==
    /\ Use("aaa")
    /\ \/ Len(methods) = 1
       \/ Len(methods) = 2 /\ Cardinality({k \in {1, 2} : methods[k] = "local"}) = 1
          /\ "default" \notin {methods[1], methods[2]}
    /\ Setting(<<"AAA", "authentication">>, "login", IF methods = <<"default">> THEN "default" ELSE methods)
Accounting(x) == Use("aaa") /\ Setting(<<"AAA", "accounting">>, "login", IF x = "disable" THEN "default" ELSE x)
Authorization(x) == Use("aaa") /\ AddTableKv(<<"AAA", "authorization">>, "login", x)

TacacsTimeout(x) == Use("tacacs") /\ Setting(<<"TACPLUS", "global">>, "timeout", x)
TacacsPasskey(x) == Use("tacacs") /\ Setting(<<"TACPLUS", "global">>, "passkey", x)
AddTacacs(s) ==
    /\ Use("tacacs") /\ ~Has(<<"TACPLUS_SERVER", s>>)
    /\ Become(SetEntry(db, <<"TACPLUS_SERVER", s>>, [tcp_port |-> "49"]))
DelTacacs(s) == Use("tacacs") /\ Become(Without(db, {<<"TACPLUS_SERVER", s>>}))

RadiusTimeout(x) == Use("radius") /\ Setting(<<"RADIUS", "global">>, "timeout", x)
RadiusPasskey(x) == Use("radius") /\ Setting(<<"RADIUS", "global">>, "passkey", x)

\* A source address is refused: its check calls "unicode", which Python 3 has not.
RadiusSourceIp == Use("radius") /\ DelTableKey(<<"RADIUS", "global">>, "src_ip")
AddRadius(s) ==
    /\ Use("radius") /\ ~Has(<<"RADIUS_SERVER", s>>)
    /\ Cardinality(KeysOf("RADIUS_SERVER")) # MaxServers
    /\ Become(SetEntry(db, <<"RADIUS_SERVER", s>>, [auth_port |-> "1812"]))
DelRadius(s) == Use("radius") /\ Become(Without(db, {<<"RADIUS_SERVER", s>>}))
-----------------------------------------------------------------------------
(* config mclag *)

Domain(d) == <<"MCLAG_DOMAIN", d>>

\* The number of a domain never equals a key, which is a string.
AddDomain(d) ==
    /\ Use("mclag") /\ KeysOf("MCLAG_DOMAIN") = {}
    /\ Become(SetEntry(db, Domain(d), [source_ip |-> "ip"]))

\* Mutant of DelDomain: its members stay.
DelDomainAlone(d) ==
    /\ Use("mclag")
    /\ Become(Without(db, {Domain(d)}))

DelDomain(d) ==
    /\ Use("mclag")
    /\ Become(Without(db, {Domain(d)} \cup {r \in KeysOf("MCLAG_INTERFACE") : r[2] = d}))

TimersFit(keepalive, session) == session >= 3 * keepalive /\ session % keepalive = 0
Keepalive(d) == IF "keepalive_interval" \in DOMAIN Entry(Domain(d)) THEN db[Domain(d)].keepalive_interval ELSE 1
SessionTimeout(d) == IF "session_timeout" \in DOMAIN Entry(Domain(d)) THEN db[Domain(d)].session_timeout ELSE 15

SetKeepalive(d, s) ==
    /\ Use("mclag") /\ Has(Domain(d)) /\ s \in 1 .. 60 /\ TimersFit(s, SessionTimeout(d))
    /\ Put(Domain(d), "keepalive_interval", s)
SetSessionTimeout(d, s) ==
    /\ Use("mclag") /\ Has(Domain(d)) /\ s \in 3 .. 3600 /\ TimersFit(Keepalive(d), s)
    /\ Put(Domain(d), "session_timeout", s)

AddMclagMember(d, l) ==
    /\ Use("mclag") /\ Has(Domain(d))
    /\ Become(SetEntry(db, <<"MCLAG_INTERFACE", d, l>>, NoFields))
DelMclagMember(d, l) == Use("mclag") /\ Become(Without(db, {<<"MCLAG_INTERFACE", d, l>>}))

AddUniqueIp(v) ==
    /\ Use("unique") /\ KeysOf("MCLAG_DOMAIN") # {}
    /\ Vrf(v) = "" /\ AddressRows(v) = {}
    /\ Become(SetEntry(db, <<"MCLAG_UNIQUE_IP", v>>, NoFields))
DelUniqueIp(v) ==
    /\ Use("unique") /\ Vrf(v) = "" /\ AddressRows(v) = {}
    /\ Become(Without(db, {<<"MCLAG_UNIQUE_IP", v>>}))
-----------------------------------------------------------------------------
(* config console *)

Line(n) == <<"CONSOLE_PORT", n>>
Device(n) == Field(Line(n), "remote_device")
IsExistingSameDevice(d) == \E r \in KeysOf("CONSOLE_PORT") : Field(r, "remote_device") = d

ConsoleSwitch(x) == Use("device") /\ Put(<<"CONSOLE_SWITCH", "console_mgmt">>, "enabled", x)

AddLine(n, d) ==
    /\ Use("console") /\ ~Has(Line(n))
    /\ d # "" => ~IsExistingSameDevice(d)
    /\ Become(SetEntry(db, Line(n), IF d = "" THEN [baud_rate |-> "9600", flow_control |-> "0"]
                  ELSE [baud_rate |-> "9600", flow_control |-> "0", remote_device |-> d]))
DelLine(n) == Use("console") /\ Has(Line(n)) /\ Become(Without(db, {Line(n)}))

\* Without a name, the field goes from the copy and mod_entry leaves it there.
RemoteDevice(n, d) ==
    /\ Use("console") /\ Has(Line(n)) /\ (d # "" => ~IsExistingSameDevice(d))
    /\ Become(IF d = "" THEN ModEntry(db, Line(n), Drop(db[Line(n)], "remote_device"))
              ELSE ModEntry(db, Line(n), [remote_device |-> d]))
Baud(n, x) == Use("console") /\ Has(Line(n)) /\ Put(Line(n), "baud_rate", x)
FlowControl(n, x) == Use("console") /\ Has(Line(n)) /\ Put(Line(n), "flow_control", x)
-----------------------------------------------------------------------------
(* config feature *)

Feature(f) == <<"FEATURE", f>>
FeatureField(f, g, x) == Use("feature") /\ Has(Feature(f)) /\ Put(Feature(f), g, x)
FeatureAutorestart(f, x) ==
    /\ Use("feature") /\ Has(Feature(f)) /\ db[Feature(f)].auto_restart # "always_enabled"
    /\ Put(Feature(f), "auto_restart", x)

\* With --block, the command waits for the state in STATE_DB, or for a failure.
SetFeatureState(f, state, block) ==
    /\ Use("feature") /\ Has(Feature(f)) /\ db[Feature(f)].state # "always_enabled"
    /\ db' = ModEntry(db, Feature(f), [state |-> state])
    /\ job' = IF block THEN [kind |-> "feature", of |-> f, state |-> state] ELSE None
    /\ UNCHANGED <<area, switch>>

FeatureReached ==
    /\ Doing("feature") /\ job.of \in DOMAIN switch /\ switch[job.of] \in {"failed", job.state}
    /\ job' = None /\ UNCHANGED <<db, area, switch>>

FeatureDaemon(f) ==
    /\ "feature" \in area.groups /\ Has(Feature(f)) /\ db[Feature(f)].state # "always_enabled"
    /\ db[Feature(f)].state # (IF f \in DOMAIN switch THEN switch[f] ELSE "")
    /\ \E s \in {db[Feature(f)].state, "failed"} : switch' = (f :> s) @@ switch
    /\ UNCHANGED <<db, area, job>>
-----------------------------------------------------------------------------
OnOff == {"on", "off"}
UpDown == {"up", "down"}
AaaMethods == {<<"default">>, <<"tacacs+">>, <<"local">>, <<"tacacs+", "local">>, <<"local", "radius">>,
               <<"radius", "tacacs+">>, <<"default", "local">>}

ServicesNext ==
    \/ \E status \in UpDown : BgpAll(status)
    \/ \E x \in Neighbors \cup DOMAIN Upper, status \in UpDown : BgpNeighbor(x, status)
    \/ \E x \in DOMAIN Upper : BgpRemove(x)
    \/ \E f \in Features \cup {"system"}, x \in {"true", "false"} : WarmRestart(f, x)
    \/ \E m \in {"swss", "bgp"}, x \in {1, 2} : WarmRestartTimer(m, "timer", x)
    \/ \E f \in {"hostname", "synchronous_mode"}, x \in OnOff : DeviceMetadata(f, x)
    \/ \E f \in {"enabled", "memory"}, x \in OnOff : Kdump(f, x)
    \/ \E f \in {"ip", "port", "insecure", "disable"}, x \in {"", "x"} : KubeServer(f, x)
    \/ \E x \in {"", "x"} : KubeLabel("label", x)
    \/ \E p \in On(Ports), kbps \in {1, 2} : StormControl(p, kbps)
    \/ \E p \in On(Ports) : StormControlOff(p)
    \/ \E a \in Agents, v \in AgentVrfs : AddAgent(a, v)
    \/ \E a \in Agents, v \in AgentVrfs : DelAgent(a, v)
    \/ TrapServer("v2TrapDest", "ip")
    \/ DelTrapServer("v2TrapDest")
    \/ \E c \in Communities, type \in {"RO", "RW"} : AddCommunity(c, type)
    \/ \E c \in Communities : DelCommunity(c)
    \/ \E c, new \in Communities : ReplaceCommunity(c, new)
    \/ \E c \in Contacts, mail \in {"m", "n"} : AddContact(c, mail)
    \/ \E c \in Contacts : DelContact(c)
    \/ \E c \in Contacts, mail \in {"m", "n"} : ModifyContact(c, mail)
    \/ \E x \in {"l", "k"} : AddLocation(x)
    \/ \E x \in {"l", "k"} : DelLocation(x)
    \/ \E x \in {"l", "k"} : ModifyLocation(x)
    \/ \E u \in Users, type \in {"noAuthNoPriv", "AuthNoPriv", "Priv"}, auth \in {"", "SHA"}, e \in {"", "AES"} :
          AddUser(u, type, auth, e)
    \/ \E u \in Users : DelUser(u)
    \/ AddClock("c")
    \/ DelClock("c")
    \/ \E s \in UpDown : SflowState(s)
    \/ \E x \in {0, 5} : SflowPolling(x)
    \/ \E i \in On(Ports) : AddAgentId(i)
    \/ DelAgentId
    \/ \E i \in On(Ports) \cup {"all"}, s \in UpDown : SflowInterface(i, s)
    \/ \E i \in On(Ports) \cup {"all"}, rate \in {"256", "default"} : SampleRate(i, rate)
    \/ \E c \in Collectors, v \in {"default", "mgmt"} : AddCollector(c, v)
    \/ \E c \in Collectors : DelCollector(c)
    \/ \E x \in {"True", "False", "default"} : Failthrough(x)
    \/ \E x \in {"True", "False", "default"} : Fallback(x)
    \/ \E methods \in AaaMethods : Login(methods)
    \/ \E x \in {"tacacs+", "disable"} : Accounting(x)
    \/ \E x \in {"tacacs+", "local"} : Authorization(x)
    \/ \E x \in {"default", "5"} : TacacsTimeout(x)
    \/ \E x \in {"default", "k"} : TacacsPasskey(x)
    \/ \E s \in Radius : AddTacacs(s)
    \/ \E s \in Radius : DelTacacs(s)
    \/ \E x \in {"default", "5"} : RadiusTimeout(x)
    \/ \E x \in {"default", "k"} : RadiusPasskey(x)
    \/ RadiusSourceIp
    \/ \E s \in Radius : AddRadius(s)
    \/ \E s \in Radius : DelRadius(s)
    \/ \E d \in Domains : AddDomain(d)
    \/ \E d \in Domains : DelDomain(d)
    \/ \E d \in Domains, s \in Seconds : SetKeepalive(d, s)
    \/ \E d \in Domains, s \in Seconds : SetSessionTimeout(d, s)
    \/ \E d \in Domains, l \in Lags : AddMclagMember(d, l)
    \/ \E d \in Domains, l \in Lags : DelMclagMember(d, l)
    \/ \E v \in On(Vlans) : AddUniqueIp(v)
    \/ \E v \in On(Vlans) : DelUniqueIp(v)
    \/ \E x \in OnOff : ConsoleSwitch(x)
    \/ \E n \in Lines, d \in Devices \cup {""} : AddLine(n, d)
    \/ \E n \in Lines : DelLine(n)
    \/ \E n \in Lines, d \in Devices \cup {""} : RemoteDevice(n, d)
    \/ \E n \in Lines, x \in {"9600", "115200"} : Baud(n, x)
    \/ \E n \in Lines, x \in {"0", "1"} : FlowControl(n, x)
    \/ \E f \in Features, x \in OnOff : FeatureField(f, "owner", x)
    \/ \E f \in Features, x \in {"enabled", "disabled"} : FeatureAutorestart(f, x)
    \/ \E f \in Features, x \in {"enabled", "disabled"}, block \in BOOLEAN : SetFeatureState(f, x, block)
    \/ FeatureReached
    \/ \E f \in Features : FeatureDaemon(f)
=============================================================================
