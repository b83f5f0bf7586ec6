-------------------------- MODULE ConfigInterfaces --------------------------
(***************************************************************************)
(* The commands of "config" that decide what a port is: member of a VLAN or *)
(* of a port channel, routed interface, parent of sub-interfaces, target of *)
(* a mirror; and the VRFs, VXLAN maps, routes and syslog servers that refer *)
(* to each other.  Commands run one at a time.  Binding an interface to a   *)
(* VRF removes the row, waits until the interface manager of the switch has *)
(* seen that, and adds the row again.                                      *)
(***************************************************************************)
EXTENDS ConfigDb

CONSTANTS
    Ports, Lags, Vlans, Subs, Loopbacks, Vrfs,
    Addresses,      \* IP addresses with prefix
    Parent,         \* parent port or port channel of a sub-interface
    LongName,       \* sub-interfaces with the long name of their parent
    NameTag,        \* the number in the name of a sub-interface
    Vid,            \* VLAN numbers
    Vnis,           \* VXLAN network identifiers
    Tunnels, Nvos, Sessions, Servers,
    Occurs,         \* <<p, q>>: the name of p occurs in the name of q
    Prefixes, Hops, \* of static routes
    Mtus, Speeds, Tpids,
    MaxHops         \* bound: next hops of a route

\* The names of each kind have a prefix of their own, none is empty, and each
\* occurs in itself.
ASSUME NamesAssumption ==
    /\ Ports \cap (Lags \cup Vlans \cup Subs \cup Loopbacks) = {}
    /\ Lags \cap (Vlans \cup Subs \cup Loopbacks) = {}
    /\ Vlans \cap (Subs \cup Loopbacks) = {}
    /\ Subs \cap Loopbacks = {}
    /\ "" \notin Ports \cup Lags
    /\ \A p \in Ports : <<p, p>> \in Occurs

\* Each VLAN has a number of its own, and a next hop has an address.
ASSUME NumbersAssumption ==
    /\ Vid \in [Vlans -> Int] /\ Vnis \subseteq Int
    /\ \A v, w \in Vlans : Vid[v] = Vid[w] => v = w
    /\ "" \notin Hops

Routed == Ports \cup Lags \cup Vlans \cup Subs \cup Loopbacks

Table(i) ==
    CASE i \in Ports -> "INTERFACE"
      [] i \in Lags -> "PORTCHANNEL_INTERFACE"
      [] i \in Vlans -> "VLAN_INTERFACE"
      [] i \in Subs -> "VLAN_SUB_INTERFACE"
      [] OTHER -> "LOOPBACK_INTERFACE"
Own(i) == <<Table(i), i>>
Address(i, a) == <<Table(i), i, a>>
AddressRows(i) == {r \in Rows : Len(r) = 3 /\ r[1] = Table(i) /\ r[2] = i}

NameIsValid(i) ==
    \E r \in Rows : r[1] \in {"PORT", "PORTCHANNEL", "VLAN_SUB_INTERFACE", "LOOPBACK_INTERFACE"}
                    /\ r[2] = i
InVlan(i) == \E r \in KeysOf("VLAN_MEMBER") : r[3] = i
InLag(p) == \E r \in KeysOf("PORTCHANNEL_MEMBER") : r[3] = p
IsMirrorDst(p) == \E r \in KeysOf("MIRROR_SESSION") : Field(r, "dst") = p
Vrf(i) == Field(Own(i), "vrf_name")
MgmtVrf == <<"MGMT_VRF_CONFIG", "vrf_global">>
MgmtVrfEnabled == Field(MgmtVrf, "mgmtVrfEnabled") = "true"
VrfExists(v) == Has(<<"VRF", v>>) \/ (v = "mgmt" /\ MgmtVrfEnabled)
-----------------------------------------------------------------------------
(* config vlan *)

AddVlan(v) ==
    /\ Use("vlan")
    /\ Entry(<<"VLAN", v>>) = NoFields /\ Entry(<<"DHCP_RELAY", v>>) = NoFields
    /\ Become(Without(SetEntry(db, <<"VLAN", v>>, [vlanid |-> v]), {<<"DHCP_RELAY", v>>}))

\* Mutant of DelVlan: tunnel maps of the VLAN are not looked at.
DelVlanWithMaps(v) ==
    /\ Use("vlan") /\ Has(<<"VLAN", v>>)
    /\ ~\E r \in KeysOf("VLAN_INTERFACE") \cup KeysOf("VLAN_MEMBER") : r[2] = v
    /\ Become(Without(db, {<<"VLAN", v>>, <<"DHCP_RELAY", v>>}))

DelVlan(v) ==
    /\ Use("vlan") /\ Has(<<"VLAN", v>>)
    /\ ~\E r \in KeysOf("VLAN_INTERFACE") \cup KeysOf("VLAN_MEMBER") : r[2] = v
    /\ ~\E r \in KeysOf("VXLAN_TUNNEL_MAP") : db[r].vlan = v
    /\ Become(Without(db, {<<"VLAN", v>>, <<"DHCP_RELAY", v>>}))

AddVlanMember(v, i, mode) ==
    /\ Use("vlan") /\ Has(<<"VLAN", v>>) /\ ~Has(<<"VLAN_MEMBER", v, i>>)
    /\ ~IsMirrorDst(i)
    /\ Has(<<"PORT", i>>) \/ Has(<<"PORTCHANNEL", i>>)
    /\ ~Has(Own(i))
    /\ ~InLag(i)
    /\ mode = "untagged" =>
         ~\E r \in KeysOf("VLAN_MEMBER") : r[3] = i /\ db[r].tagging_mode = "untagged"
    /\ Become(SetEntry(db, <<"VLAN_MEMBER", v, i>>, [tagging_mode |-> mode]))

DelVlanMember(v, i) ==
    /\ Use("vlan") /\ Has(<<"VLAN", v>>) /\ Has(<<"VLAN_MEMBER", v, i>>)
    /\ Become(Without(db, {<<"VLAN_MEMBER", v, i>>}))

ProxyArp(v, mode) ==
    /\ Use("proxy") /\ Has(Own(v))
    /\ Become(ModEntry(db, Own(v), [proxy_arp |-> mode]))
-----------------------------------------------------------------------------
(* config portchannel *)

AddPortchannel(l) ==
    /\ Use("portchannel") /\ ~Has(<<"PORTCHANNEL", l>>)
    /\ Become(SetEntry(db, <<"PORTCHANNEL", l>>,
                       [admin_status |-> "up", mtu |-> "9100", lacp_key |-> "auto"]))

RemovePortchannel(l) ==
    /\ Use("portchannel") /\ Has(<<"PORTCHANNEL", l>>)
    /\ ~InVlan(l)
    /\ ~\E r \in KeysOf("PORTCHANNEL_MEMBER") : r[2] = l
    /\ Become(Without(db, {<<"PORTCHANNEL", l>>}))

\* A field that only one of two rows has does not count as different.
Differ(r, s, f) == Field(r, f) # "" /\ Field(s, f) # "" /\ Field(r, f) # Field(s, f)

AddPortchannelMember(l, p) ==
    /\ Use("portchannel") /\ Has(<<"PORTCHANNEL", l>>) /\ NameIsValid(p)
    /\ ~IsMirrorDst(p)
    /\ ~Has(Own(p))
    /\ ~\E s \in Subs : Has(Own(s)) /\ Parent[s] = p
    /\ ~InVlan(p) /\ ~InLag(p)
    /\ ~\E r \in KeysOf("ACL_TABLE") : p \in db[r].ports
    /\ ~\E r \in KeysOf("PBH_TABLE") : p \in db[r].interface_list
    /\ \A r \in KeysOf("PORTCHANNEL_MEMBER") :
         r[2] = l => Field(<<"PORT", r[3]>>, "speed") = Field(<<"PORT", p>>, "speed")
    /\ ~Differ(<<"PORTCHANNEL", l>>, <<"PORT", p>>, "mtu")
    /\ Field(<<"PORT", p>>, "tpid") \in {"", "0x8100"}
    /\ Become(SetEntry(db, <<"PORTCHANNEL_MEMBER", l, p>>, NoFields))

DelPortchannelMember(l, p) ==
    /\ Use("portchannel") /\ Has(<<"PORTCHANNEL", l>>) /\ Has(<<"PORTCHANNEL_MEMBER", l, p>>)
    /\ Become(Without(db, {<<"PORTCHANNEL_MEMBER", l, p>>}))
-----------------------------------------------------------------------------
(* config interface: attributes of a port, by portconfig *)

AdminStatus(i, status) ==
    /\ Use("port") /\ NameIsValid(i)
    /\ LET rows == {<<"PORT", i>>, <<"PORTCHANNEL", i>>, <<"VLAN_SUB_INTERFACE", i>>} \cap Rows
       IN  Become([r \in rows |-> [admin_status |-> status] @@ db[r]] @@ db)

\* Values are those that the port supports, and it is no port channel.
SetSpeed(p, s) ==
    /\ Use("port") /\ Has(<<"PORT", p>>)
    /\ Become(ModEntry(db, <<"PORT", p>>, [speed |-> s]))

SetCapability(p, f, x) ==
    /\ Use("capability") /\ Has(<<"PORT", p>>)
    /\ Become(ModEntry(db, <<"PORT", p>>, f :> x))

SetFec(p, x) ==
    /\ Use("capability") /\ Has(<<"PORT", p>>)
    /\ Become(ModEntry(db, <<"PORT", p>>, [fec |-> x]))

\* The frequency and the power of a transceiver.
SetTransceiver(p, f, x) ==
    /\ Use("capability") /\ NameIsValid(p) /\ Has(<<"PORT", p>>)
    /\ Become(ModEntry(db, <<"PORT", p>>, f :> x))

SetMtu(p, m) ==
    /\ Use("port") /\ ~InLag(p) /\ Has(<<"PORT", p>>)
    /\ Become(ModEntry(db, <<"PORT", p>>, [mtu |-> m]))

SetTpid(i, t) ==
    /\ Use("port")
    /\ \/ i \in Lags /\ Has(<<"PORTCHANNEL", i>>)
          /\ Become(ModEntry(db, <<"PORTCHANNEL", i>>, [tpid |-> t]))
       \/ Has(<<"PORT", i>>) /\ ~InLag(i)
          /\ Become(ModEntry(db, <<"PORT", i>>, [tpid |-> t]))
-----------------------------------------------------------------------------
(* config mirror_session *)

Direction(row) == Field(row, "direction")
Mentions(r, p) == \E q \in Entry(r).src : <<p, q>> \in Occurs

\* interface_has_mirror_config, with "" for a direction that is not given.
SameWay(r, dir) == dir \in {"", "BOTH"} \/ Direction(r) \in {"BOTH", dir}
HasMirrorConfig(dst, src, dir) ==
    \E r \in KeysOf("MIRROR_SESSION") :
        \/ \E p \in src : Field(r, "dst") = p \/ (Mentions(r, p) /\ SameWay(r, dir))
        \/ dst # "" /\ (Field(r, "dst") = dst \/ Mentions(r, dst))

\* The direction is stored, "BOTH" by default, when there are source ports.
NewSession(dst, src, dir) ==
    [dst |-> dst, src |-> src,
     direction |-> IF src = {} THEN "" ELSE IF dir = "" THEN "BOTH" ELSE dir]

\* validate_mirror_session_config, with "" for no target.
ValidSession(s, dst, src, dir) ==
    /\ ~Has(<<"MIRROR_SESSION", s>>)
    /\ dst # "" => /\ NameIsValid(dst) /\ ~Has(<<"PORTCHANNEL", dst>>)
                   /\ ~InVlan(dst) /\ ~InLag(dst) /\ ~Has(<<"INTERFACE", dst>>)
    /\ \A p \in src : NameIsValid(p) /\ p # dst
    /\ ~HasMirrorConfig(dst, src, dir)

AddErspan(s, src, dir) ==
    /\ Use("mirror") /\ ValidSession(s, "", src, dir)
    /\ Become(SetEntry(db, <<"MIRROR_SESSION", s>>, NewSession("", src, dir)))

AddSpan(s, dst, src, dir) ==
    /\ Use("mirror") /\ ValidSession(s, dst, src, dir)
    /\ Become(SetEntry(db, <<"MIRROR_SESSION", s>>, NewSession(dst, src, dir)))

RemoveMirror(s) ==
    /\ Use("mirror")
    /\ Become(Without(db, {<<"MIRROR_SESSION", s>>}))
-----------------------------------------------------------------------------
(* config interface ip, mpls, ipv6 *)

\* Mutant of IpAdd: a member of a port channel may have an address.
IpAddToMember(i, a) ==
    /\ Use("ip")
    /\ ~InVlan(i)
    /\ LET own == IF Entry(Own(i)) # NoFields THEN db
                  ELSE SetEntry(db, Own(i), IF i \in Subs THEN [admin_status |-> "up"] ELSE NoFields)
       IN  Become(SetEntry(own, Address(i, a), NoFields))

\* "ip add" is refused on a member; an absent row of a valid name is made.
IpAdd(i, a) ==
    /\ Use("ip")
    /\ ~InVlan(i) /\ ~InLag(i)
    /\ LET own == IF Entry(Own(i)) # NoFields THEN db
                  ELSE SetEntry(db, Own(i), IF i \in Subs THEN [admin_status |-> "up"] ELSE NoFields)
       IN  Become(SetEntry(own, Address(i, a), NoFields))

\* The routing stack has a static route over the interface.
RouteOver(i) ==
    \E r \in KeysOf("STATIC_ROUTE") : \E k \in DOMAIN db[r].ifname : db[r].ifname[k] = i

IpRemove(i, a) ==
    /\ Use("ip")
    /\ AddressRows(i) = {Address(i, a)} => ~RouteOver(i)
    /\ LET left == AddressRows(i) \ {Address(i, a)}
           idle == left = {} /\ Vrf(i) = "" /\ Field(Own(i), "ipv6_use_link_local_only") # "enable"
       IN  Become(Without(db, {Address(i, a)} \cup
                              (IF idle /\ i \notin Subs THEN {Own(i)} ELSE {})))

IsIpInterface(i) == Has(Own(i)) /\ i \notin Loopbacks

LoopbackAction(i, action) ==
    /\ Use("attribute") /\ IsIpInterface(i)
    /\ Become(ModEntry(db, Own(i), [loopback_action |-> action]))

\* mpls add and remove replace the row: its other fields are gone.
Mpls(i, mode) ==
    /\ Use("attribute") /\ IsIpInterface(i)
    /\ Become(SetEntry(db, Own(i), [mpls |-> mode]))

\* set_ipv6_link_local_only_on_interface; the rows that it looks at are those
\* of the table that it is given.
LinkLocalOff(d, i) ==
    IF \/ \E r \in DOMAIN d : Len(r) = 3 /\ r[1] = Table(i) /\ r[2] = i
       \/ "vrf_name" \in DOMAIN d[Own(i)]
    THEN ModEntry(d, Own(i), [ipv6_use_link_local_only |-> "disable"])
    ELSE Without(d, {Own(i)})
LinkLocalOn(d, i) == ModEntry(d, Own(i), [ipv6_use_link_local_only |-> "enable"])

EnableLinkLocalOnly(i) ==
    /\ Use("linklocal")
    /\ IF i \in Vlans THEN Has(Own(i)) ELSE NameIsValid(i)
    /\ ~InLag(i) /\ ~InVlan(i)
    /\ Become(LinkLocalOn(db, i))

DisableLinkLocalOnly(i) ==
    /\ Use("linklocal")
    /\ IF i \in Vlans THEN Has(Own(i)) ELSE NameIsValid(i)
    /\ ~InLag(i) /\ ~InVlan(i)
    /\ Field(Own(i), "ipv6_use_link_local_only") = "enable"
    /\ Become(LinkLocalOff(db, i))

EnableLinkLocal ==
    /\ Use("linklocal")
    /\ LET all == {v \in Vlans : Has(<<"VLAN", v>>)}
                  \cup {l \in Lags : Has(<<"PORTCHANNEL", l>>) /\ ~InVlan(l)}
                  \cup {p \in Ports : Has(<<"PORT", p>>) /\ ~InLag(p) /\ ~InVlan(p)}
       IN  Become([r \in {Own(i) : i \in all} |->
                     [ipv6_use_link_local_only |-> "enable"] @@ Entry(r)] @@ db)

DisableLinkLocal ==
    /\ Use("linklocal")
    /\ LET all == {i \in Ports \cup Lags \cup Vlans :
                     Field(Own(i), "ipv6_use_link_local_only") = "enable"}
           off == [i \in all |-> LinkLocalOff(db, i)]
       IN  Become([r \in {x \in Rows : \A i \in all : x \in DOMAIN off[i]} |->
                     IF \E i \in all : r = Own(i) THEN [ipv6_use_link_local_only |-> "disable"] @@ db[r]
                     ELSE db[r]])
-----------------------------------------------------------------------------
(* config vrf, config interface vrf *)

AddVrf(v) ==
    /\ Use("vrf") /\ ~VrfExists(v)
    /\ Become(IF v = "mgmt" THEN ModEntry(db, MgmtVrf, [mgmtVrfEnabled |-> "true"])
              ELSE SetEntry(db, <<"VRF", v>>, NoFields))

\* del_interface_bind_to_vrf: sub-interfaces are not looked at.
BoundTo(v) == {i \in Routed \ Subs : Has(Own(i)) /\ Vrf(i) = v}

DelVrf(v) ==
    /\ Use("vrf") /\ VrfExists(v)
    /\ ~\E r \in KeysOf("SYSLOG_SERVER") : Field(r, "vrf") = v
    /\ Become(IF v = "mgmt" THEN ModEntry(db, MgmtVrf, [mgmtVrfEnabled |-> "false"])
              ELSE Without(db, {<<"VRF", v>>} \cup {Own(i) : i \in BoundTo(v)}
                               \cup UNION {AddressRows(i) : i \in BoundTo(v)}))

\* Mutant of Wait: the row itself stays.
WaitForNothing(i, fields) ==
    /\ db' = Without(db, AddressRows(i))
    /\ job' = [kind |-> "bind", of |-> i, fields |-> fields]
    /\ UNCHANGED <<area, switch>>

\* bind and, of a sub-interface, unbind: the row goes and comes back with the
\* new fields when the interface manager has removed the interface.
Wait(i, fields) ==
    /\ db' = Without(db, {Own(i)} \cup AddressRows(i))
    /\ job' = [kind |-> "bind", of |-> i, fields |-> fields]
    /\ UNCHANGED <<area, switch>>

BindVrf(i, v) ==
    /\ Use("vrf") /\ VrfExists(v) /\ Vrf(i) # v
    /\ Wait(i, IF i \in Subs THEN [vrf_name |-> v] @@ Entry(Own(i)) ELSE [vrf_name |-> v])

UnbindVrf(i) ==
    /\ Use("vrf") /\ Vrf(i) # ""
    /\ IF i \in Subs THEN Wait(i, Drop(Entry(Own(i)), "vrf_name"))
       ELSE Become(Without(db, {Own(i)} \cup AddressRows(i)))

\* Mutant of Rebind: the interface manager is not waited for.
RebindAtOnce ==
    /\ Doing("bind")
    /\ db' = SetEntry(db, Own(job.of), job.fields) /\ job' = None
    /\ UNCHANGED <<area, switch>>

Rebind ==
    /\ Doing("bind") /\ job.of \notin DOMAIN switch
    /\ db' = SetEntry(db, Own(job.of), job.fields) /\ job' = None
    /\ UNCHANGED <<area, switch>>

\* The interface manager follows the rows; it removes an interface when the
\* row is gone, and has not seen a row that came back at once go.
InterfaceManager(i) ==
    /\ "vrf" \in area.groups
    /\ (IF Has(Own(i)) THEN <<Vrf(i)>> ELSE None) # (IF i \in DOMAIN switch THEN <<switch[i]>> ELSE None)
    /\ switch' = IF Has(Own(i)) THEN (i :> Vrf(i)) @@ switch ELSE Without(switch, {i})
    /\ UNCHANGED <<db, area, job>>

AddVrfVniMap(v, n) ==
    /\ Use("vxlan") /\ Has(<<"VRF", v>>)
    /\ \E r \in KeysOf("VXLAN_TUNNEL_MAP") : db[r].vni = n
    /\ ~\E r \in KeysOf("VRF") : "vni" \in DOMAIN db[r] /\ db[r].vni = n
    /\ Become(ModEntry(db, <<"VRF", v>>, [vni |-> n]))

DelVrfVniMap(v) ==
    /\ Use("vxlan") /\ Has(<<"VRF", v>>)
    /\ Become(ModEntry(db, <<"VRF", v>>, [vni |-> 0]))
-----------------------------------------------------------------------------
(* config syslog, config vxlan, config loopback, config subinterface *)

AddSyslog(s, v) ==
    /\ Use("syslog") /\ ~Has(<<"SYSLOG_SERVER", s>>)
    /\ v \in {"", "default"} \/ VrfExists(v)
    /\ Become(SetEntry(db, <<"SYSLOG_SERVER", s>>, IF v = "" THEN NoFields ELSE [vrf |-> v]))

DelSyslog(s) ==
    /\ Use("syslog") /\ Has(<<"SYSLOG_SERVER", s>>)
    /\ Become(Without(db, {<<"SYSLOG_SERVER", s>>}))

AddVxlan(t) ==
    /\ Use("vxlan") /\ KeysOf("VXLAN_TUNNEL") = {}
    /\ Become(SetEntry(db, <<"VXLAN_TUNNEL", t>>, [src_ip |-> "ip"]))

DelVxlan(t) ==
    /\ Use("vxlan") /\ Has(<<"VXLAN_TUNNEL", t>>)
    /\ KeysOf("VXLAN_EVPN_NVO") = {} /\ KeysOf("VXLAN_TUNNEL_MAP") = {}
    /\ Become(Without(db, {<<"VXLAN_TUNNEL", t>>}))

\* The pattern "VXLAN_EVPN_NVO|*" asks for keys of two parts and finds none,
\* so that there may be several.
AddNvo(o, t) ==
    /\ Use("vxlan") /\ Has(<<"VXLAN_TUNNEL", t>>)
    /\ Become(SetEntry(db, <<"VXLAN_EVPN_NVO", o>>, [source_vtep |-> t]))

DelNvo(o) ==
    /\ Use("vxlan") /\ KeysOf("VXLAN_TUNNEL_MAP") = {}
    /\ Become(Without(db, {<<"VXLAN_EVPN_NVO", o>>}))

MapRow(t, n, v) == <<"VXLAN_TUNNEL_MAP", t, n, v>>
Mapped(n, v) == \E r \in KeysOf("VXLAN_TUNNEL_MAP") : db[r].vlan = v \/ db[r].vni = n
VniInVrf(n) == \E r \in KeysOf("VRF") : "vni" \in DOMAIN db[r] /\ db[r].vni = n

AddVxlanMap(t, v, n) ==
    /\ Use("vxlan") /\ Has(<<"VXLAN_TUNNEL", t>>) /\ Has(<<"VLAN", v>>) /\ ~Mapped(n, v)
    /\ Become(SetEntry(db, MapRow(t, n, v), [vni |-> n, vlan |-> v]))

DelVxlanMap(t, v, n) ==
    /\ Use("vxlan") /\ Has(<<"VXLAN_TUNNEL", t>>) /\ ~VniInVrf(n)
    /\ Become(Without(db, {MapRow(t, n, v)}))

\* The range of VLANs that starts at v, with VNIs from n on; what is mapped
\* already, or not there, is skipped.
MapRange(v, n, len) ==
    {<<Vid[w] - Vid[v] + n, w>> : w \in {x \in Vlans : Vid[x] - Vid[v] \in 0 .. len - 1}}

AddVxlanMapRange(t, v, n, len) ==
    /\ Use("vxlan") /\ Has(<<"VXLAN_TUNNEL", t>>)
    /\ LET new == {m \in MapRange(v, n, len) : Has(<<"VLAN", m[2]>>) /\ ~Mapped(m[1], m[2])}
       IN  Become([r \in {MapRow(t, m[1], m[2]) : m \in new} |-> [vni |-> r[3], vlan |-> r[4]]] @@ db)

DelVxlanMapRange(t, v, n, len) ==
    /\ Use("vxlan") /\ Has(<<"VXLAN_TUNNEL", t>>)
    /\ Become(Without(db, {MapRow(t, m[1], m[2]) : m \in {x \in MapRange(v, n, len) : ~VniInVrf(x[1])}}))

AddLoopback(i) ==
    /\ Use("loopback") /\ ~Has(Own(i))
    /\ Become(SetEntry(db, Own(i), NoFields))

DelLoopback(i) ==
    /\ Use("loopback") /\ Has(Own(i))
    /\ Become(Without(db, {Own(i)} \cup AddressRows(i)))

\* The tag of a sub-interface is its VLAN field or, without one, the number in
\* its name.  Only those with the long name of the parent are compared.
Tag(s) == IF Field(Own(s), "vlan") # "" THEN Field(Own(s), "vlan") ELSE NameTag[s]

AddSub(s, vid) ==
    /\ Use("sub")
    /\ Has(<<"PORT", Parent[s]>>) \/ Has(<<"PORTCHANNEL", Parent[s]>>)
    /\ ~InLag(Parent[s]) /\ ~InVlan(Parent[s])
    /\ ~Has(Own(s))
    /\ ~\E o \in LongName : Has(Own(o)) /\ Parent[o] = Parent[s] /\ vid # "" /\ Tag(o) = vid
    /\ vid = "" => s \in LongName
    /\ Become(SetEntry(db, Own(s), IF vid = "" THEN [admin_status |-> "up"]
                                   ELSE [vlan |-> vid, admin_status |-> "up"]))

DelSub(s) ==
    /\ Use("sub") /\ Has(Own(s))
    /\ Become(Without(db, {Own(s)} \cup AddressRows(s)))
-----------------------------------------------------------------------------
(* config route.  A row holds lists of the same meaning at the same place.  *)

Lists == {"nexthop", "nexthop-vrf", "ifname", "distance", "blackhole"}
Repeat(x, n) == [k \in 1 .. n |-> x]

\* add_route: one list element for each next hop, or one for a device.
NewRoute(hops, v, dev) ==
    LET n == IF hops = <<>> THEN 1 ELSE Len(hops)
    IN  [nexthop |-> IF hops = <<>> THEN <<"">> ELSE hops,
         ifname |-> IF hops = <<>> THEN <<dev>> ELSE Repeat("", n),
         distance |-> Repeat("0", n),
         blackhole |-> Repeat(IF dev = "null" THEN "true" ELSE "false", n)]
        @@ ("nexthop-vrf" :> Repeat(v, n))

RouteRow(v, p) == <<"STATIC_ROUTE", v, p>>
AddRouteOver(r, new) ==
    Become(SetEntry(db, r, IF Has(r) THEN [f \in Lists |-> db[r][f] \o new[f]] ELSE new))

AddRoute(v, p, hops, w, dev) ==
    /\ Use("route")
    /\ v = "default" \/ VrfExists(v)
    /\ w = "" \/ VrfExists(w)
    /\ \A k \in DOMAIN hops : hops[k] \in Lags => Has(<<"PORTCHANNEL", hops[k]>>)
    /\ dev \in {"", "null"} \/ (Has(Own(dev)) /\ dev \notin Loopbacks)
    /\ Len(Field(RouteRow(v, p), "nexthop")) + Len(hops) <= MaxHops
    /\ AddRouteOver(RouteRow(v, p), NewRoute(hops, w, dev))

DelRoute(v, p) ==
    /\ Use("route") /\ Has(RouteRow(v, p))
    /\ v = "default" \/ VrfExists(v)
    /\ Become(Without(db, {RouteRow(v, p)}))

CutAt(s, k) == [j \in 1 .. Len(s) - 1 |-> IF j < k THEN s[j] ELSE s[j + 1]]

\* One next hop or device is taken out of all lists, and the row goes with
\* the last one.
DelHop(v, p, hop, w, dev) ==
    LET row == Entry(RouteRow(v, p))
        at == {k \in DOMAIN row.nexthop :
                 <<row.nexthop[k], row["nexthop-vrf"][k], row.ifname[k]>> = <<hop, w, dev>>}
        k == CHOOSE j \in at : \A o \in at : j <= o
        left == [f \in Lists |-> CutAt(row[f], k)]
        bare(s) == s = <<>> \/ s = <<"">>
    IN  /\ Use("route") /\ Has(RouteRow(v, p)) /\ at # {}
        /\ Become(IF bare(left.nexthop) /\ bare(left.ifname) THEN Without(db, {RouteRow(v, p)})
                  ELSE SetEntry(db, RouteRow(v, p), left))
-----------------------------------------------------------------------------
Directions == {"", "BOTH", "RX", "TX"}
Capabilities == [link_training |-> {"on", "off"}, autoneg |-> {"on", "off"}, adv_speeds |-> {"all"},
                 interface_type |-> {"CR"}, adv_interface_types |-> {"all"}]
Fewer(S) == {x \in SUBSET S : Cardinality(x) <= 1}
HopLists == {<<h>> : h \in Hops} \cup {<<h, g>> : h, g \in Hops}

InterfacesNext ==
    \/ \E v \in On(Vlans) : AddVlan(v)
    \/ \E v \in On(Vlans) : DelVlan(v)
    \/ \E v \in On(Vlans), i \in On(Ports \cup Lags), mode \in {"tagged", "untagged"} : AddVlanMember(v, i, mode)
    \/ \E v \in On(Vlans), i \in On(Ports \cup Lags) : DelVlanMember(v, i)
    \/ \E v \in On(Vlans), mode \in {"enabled", "disabled"} : ProxyArp(v, mode)
    \/ \E l \in On(Lags) : AddPortchannel(l)
    \/ \E l \in On(Lags) : RemovePortchannel(l)
    \/ \E l \in On(Lags), p \in On(Ports) : AddPortchannelMember(l, p)
    \/ \E l \in On(Lags), p \in On(Ports) : DelPortchannelMember(l, p)
    \/ \E i \in On(Ports \cup Lags \cup Subs), status \in {"up", "down"} : AdminStatus(i, status)
    \/ \E p \in On(Ports), s \in Speeds : SetSpeed(p, s)
    \/ \E p \in On(Ports), f \in DOMAIN Capabilities : \E x \in Capabilities[f] : SetCapability(p, f, x)
    \/ \E p \in On(Ports), x \in {"rs", "none"} : SetFec(p, x)
    \/ \E p \in On(Ports), f \in {"laser_freq", "tx_power"} : SetTransceiver(p, f, "x")
    \/ \E p \in On(Ports), m \in Mtus : SetMtu(p, m)
    \/ \E i \in On(Ports \cup Lags), t \in Tpids : SetTpid(i, t)
    \/ \E s \in Sessions, src \in Fewer(On(Ports)), dir \in Directions : AddErspan(s, src, dir)
    \/ \E s \in Sessions, dst \in On(Ports \cup Lags), src \in SUBSET On(Ports), dir \in Directions :
          AddSpan(s, dst, src, dir)
    \/ \E s \in Sessions : RemoveMirror(s)
    \/ \E i \in On(Routed), a \in Addresses : IpAdd(i, a)
    \/ \E i \in On(Routed), a \in Addresses : IpRemove(i, a)
    \/ \E i \in On(Routed), action \in {"drop", "forward"} : LoopbackAction(i, action)
    \/ \E i \in On(Routed), mode \in {"enable", "disable"} : Mpls(i, mode)
    \/ \E i \in On(Ports \cup Lags \cup Vlans) : EnableLinkLocalOnly(i)
    \/ \E i \in On(Ports \cup Lags \cup Vlans) : DisableLinkLocalOnly(i)
    \/ EnableLinkLocal
    \/ DisableLinkLocal
    \/ \E v \in On(Vrfs) : AddVrf(v)
    \/ \E v \in On(Vrfs) : DelVrf(v)
    \/ \E i \in On(Routed), v \in On(Vrfs) : BindVrf(i, v)
    \/ \E i \in On(Routed) : UnbindVrf(i)
    \/ Rebind
    \/ \E i \in On(Routed) : InterfaceManager(i)
    \/ \E v \in On(Vrfs), n \in Vnis : AddVrfVniMap(v, n)
    \/ \E v \in On(Vrfs) : DelVrfVniMap(v)
    \/ \E s \in Servers, v \in On(Vrfs) \cup {"", "default"} : AddSyslog(s, v)
    \/ \E s \in Servers : DelSyslog(s)
    \/ \E t \in Tunnels : AddVxlan(t)
    \/ \E t \in Tunnels : DelVxlan(t)
    \/ \E o \in Nvos, t \in Tunnels : AddNvo(o, t)
    \/ \E o \in Nvos : DelNvo(o)
    \/ \E t \in Tunnels, v \in On(Vlans), n \in Vnis : AddVxlanMap(t, v, n)
    \/ \E t \in Tunnels, v \in On(Vlans), n \in Vnis : DelVxlanMap(t, v, n)
    \/ \E t \in Tunnels, v \in On(Vlans), n \in Vnis, len \in {2} : AddVxlanMapRange(t, v, n, len)
    \/ \E t \in Tunnels, v \in On(Vlans), n \in Vnis, len \in {2} : DelVxlanMapRange(t, v, n, len)
    \/ \E i \in On(Loopbacks) : AddLoopback(i)
    \/ \E i \in On(Loopbacks) : DelLoopback(i)
    \/ \E s \in On(Subs), vid \in {"", "10"} : AddSub(s, vid)
    \/ \E s \in On(Subs) : DelSub(s)
    \/ \E v \in On(Vrfs) \cup {"default"}, p \in Prefixes, hops \in HopLists, w \in On(Vrfs) \cup {""} :
          AddRoute(v, p, hops, w, "")
    \/ \E p \in Prefixes, dev \in On(Ports) \cup {"null"} : AddRoute("default", p, <<>>, "", dev)
    \/ \E v \in On(Vrfs) \cup {"default"}, p \in Prefixes : DelRoute(v, p)
    \/ \E v \in On(Vrfs) \cup {"default"}, p \in Prefixes, w \in On(Vrfs) \cup {""},
          hop \in Hops \cup {""}, dev \in On(Ports) \cup {"null", ""} : DelHop(v, p, hop, w, dev)
=============================================================================
