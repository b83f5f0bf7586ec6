------------------------- MODULE ConfigWrites_proofs -------------------------
(***************************************************************************)
(* What each command writes, whatever names it is called with.  A command   *)
(* writes few tables, so that a property is disturbed by those commands     *)
(* alone that write what it reads.                                         *)
(***************************************************************************)
EXTENDS ConfigCommands, FiniteSetTheorems, TLAPS

\* Two states of CONFIG_DB have the same row r, or none.
Same(r, d, e) == (r \in DOMAIN e <=> r \in DOMAIN d) /\ (r \in DOMAIN d => e[r] = d[r])
\* From d to e rows of tables T only are written, or those of tables T stay.
Within(T, d, e) == \A r : r[1] \notin T => Same(r, d, e)
Beside(T, d, e) == \A r : r[1] \in T => Same(r, d, e)
Writes(T) == Within(T, db, db')
Leaves(T) == Beside(T, db, db')

LEMMA WritesLeave ==
  ASSUME NEW W, NEW T, Writes(W), W \cap T = {}
  PROVE  Leaves(T)
  BY DEF Writes, Leaves, Within, Beside

LEMMA WritesMore ==
  ASSUME NEW W, NEW T, Writes(W), W \subseteq T
  PROVE  Writes(T)
  BY DEF Writes, Within

LEMMA LeavesLess ==
  ASSUME NEW W, NEW T, Leaves(W), T \subseteq W
  PROVE  Leaves(T)
  BY DEF Leaves, Beside

----------------------------------------------------------------------------
(* Rows that are set and removed.                                          *)

LEMMA SetFacts ==
  ASSUME NEW d, NEW r, NEW f
  PROVE  /\ DOMAIN SetEntry(d, r, f) = DOMAIN d \cup {r}
         /\ SetEntry(d, r, f)[r] = f
         /\ \A s \in DOMAIN d : s # r => SetEntry(d, r, f)[s] = d[s]
  BY DEF SetEntry, :>, @@

LEMMA ModFacts ==
  ASSUME NEW d, NEW r, NEW f
  PROVE  /\ DOMAIN ModEntry(d, r, f) = DOMAIN d \cup {r}
         /\ ModEntry(d, r, f)[r] = f @@ (IF r \in DOMAIN d THEN d[r] ELSE NoFields)
         /\ \A s \in DOMAIN d : s # r => ModEntry(d, r, f)[s] = d[s]
  BY DEF ModEntry, :>, @@

LEMMA WithoutFacts ==
  ASSUME NEW d, NEW S
  PROVE  /\ DOMAIN Without(d, S) = DOMAIN d \ S
         /\ \A s \in DOMAIN d \ S : Without(d, S)[s] = d[s]
  BY DEF Without

LEMMA MergeFacts ==
  ASSUME NEW f, NEW g
  PROVE  /\ DOMAIN (f @@ g) = DOMAIN f \cup DOMAIN g
         /\ \A s \in DOMAIN f : (f @@ g)[s] = f[s]
         /\ \A s \in DOMAIN g \ DOMAIN f : (f @@ g)[s] = g[s]
  BY DEF @@

LEMMA OneFacts ==
  ASSUME NEW f, NEW x
  PROVE  DOMAIN (f :> x) = {f} /\ (f :> x)[f] = x
  BY DEF :>

LEMMA SetWithin ==
  ASSUME NEW T, NEW d, NEW r, NEW f, r[1] \in T
  PROVE  Within(T, d, SetEntry(d, r, f))
<1>1. DOMAIN SetEntry(d, r, f) = DOMAIN d \cup {r} /\ \A s \in DOMAIN d : s # r => SetEntry(d, r, f)[s] = d[s]
  BY DEF SetEntry, :>, @@
<1> QED  BY <1>1 DEF Within, Same

LEMMA ModWithin ==
  ASSUME NEW T, NEW d, NEW r, NEW f, r[1] \in T
  PROVE  Within(T, d, ModEntry(d, r, f))
<1>1. DOMAIN ModEntry(d, r, f) = DOMAIN d \cup {r} /\ \A s \in DOMAIN d : s # r => ModEntry(d, r, f)[s] = d[s]
  BY DEF ModEntry, :>, @@
<1> QED  BY <1>1 DEF Within, Same

LEMMA WithoutWithin ==
  ASSUME NEW T, NEW d, NEW S, \A r \in S : r[1] \in T
  PROVE  Within(T, d, Without(d, S))
<1>1. DOMAIN Without(d, S) = DOMAIN d \ S /\ \A s \in DOMAIN d \ S : Without(d, S)[s] = d[s]
  BY ONLY WithoutFacts
<1> QED  BY <1>1 DEF Within, Same

LEMMA MergeWithin ==
  ASSUME NEW T, NEW d, NEW g, \A r \in DOMAIN g : r[1] \in T
  PROVE  Within(T, d, g @@ d)
<1>1. DOMAIN (g @@ d) = DOMAIN g \cup DOMAIN d /\ \A s \in DOMAIN d \ DOMAIN g : (g @@ d)[s] = d[s]
  BY ONLY MergeFacts
<1> QED  BY <1>1 DEF Within, Same

LEMMA NothingWithin ==
  ASSUME NEW T, NEW d
  PROVE  Within(T, d, d)
  BY DEF Within, Same

LEMMA WithinTwice ==
  ASSUME NEW T, NEW d, NEW e, NEW f, Within(T, d, e), Within(T, e, f)
  PROVE  Within(T, d, f)
  BY DEF Within, Same

----------------------------------------------------------------------------
(* The commands of interfaces, by what they write.                         *)

OwnTables == {"INTERFACE", "PORTCHANNEL_INTERFACE", "VLAN_INTERFACE", "VLAN_SUB_INTERFACE", "LOOPBACK_INTERFACE"}
PortTables == {"PORT", "PORTCHANNEL", "VLAN_SUB_INTERFACE"}
VxlanTables == {"VXLAN_TUNNEL", "VXLAN_EVPN_NVO", "VXLAN_TUNNEL_MAP"}
VrfTables == {"VRF", "MGMT_VRF_CONFIG"}
InterfaceTables ==
    OwnTables \cup PortTables \cup VxlanTables \cup VrfTables
        \cup {"VLAN", "DHCP_RELAY", "VLAN_MEMBER", "PORTCHANNEL_MEMBER", "MIRROR_SESSION", "SYSLOG_SERVER", "STATIC_ROUTE"}

VlanStep == \E v \in Vlans : AddVlan(v) \/ DelVlan(v)
MemberStep ==
    \E v \in Vlans, i \in Ports \cup Lags :
        DelVlanMember(v, i) \/ \E mode \in {"tagged", "untagged"} : AddVlanMember(v, i, mode)
LagStep == \E l \in Lags : AddPortchannel(l) \/ RemovePortchannel(l)
LagMemberStep == \E l \in Lags, p \in Ports : AddPortchannelMember(l, p) \/ DelPortchannelMember(l, p)
\* What is set of a port that no check reads.
PortStep ==
    \/ \E i \in Ports \cup Lags \cup Subs, status \in {"up", "down"} : AdminStatus(i, status)
    \/ \E p \in Ports, x \in {"rs", "none"} : SetFec(p, x)
    \/ \E p \in Ports, f \in DOMAIN Capabilities : \E x \in Capabilities[f] : SetCapability(p, f, x)
    \/ \E p \in Ports, f \in {"laser_freq", "tx_power"} : SetTransceiver(p, f, "x")
    \/ \E p \in Ports, s \in Speeds : SetSpeed(p, s)
FitStep ==
    \/ \E p \in Ports, m \in Mtus : SetMtu(p, m)
    \/ \E i \in Ports \cup Lags, t \in Tpids : SetTpid(i, t)
MirrorStep ==
    \/ \E s \in Sessions : RemoveMirror(s)
    \/ \E s \in Sessions, src \in SUBSET Ports, dir \in Directions :
          AddErspan(s, src, dir) \/ \E dst \in Ports \cup Lags : AddSpan(s, dst, src, dir)
AddressStep == \E i \in Routed, a \in Addresses : IpAdd(i, a) \/ IpRemove(i, a)
\* What is set of a routed interface that is there.
RoutedStep ==
    \/ \E v \in Vlans, mode \in {"enabled", "disabled"} : ProxyArp(v, mode)
    \/ \E i \in Routed, action \in {"drop", "forward"} : LoopbackAction(i, action)
    \/ \E i \in Routed, mode \in {"enable", "disable"} : Mpls(i, mode)
LinkLocalStep ==
    \/ \E i \in Ports \cup Lags \cup Vlans : EnableLinkLocalOnly(i) \/ DisableLinkLocalOnly(i)
    \/ EnableLinkLocal \/ DisableLinkLocal
VrfStep == \E v \in Vrfs : AddVrf(v) \/ DelVrf(v)
BindStep == (\E i \in Routed : UnbindVrf(i) \/ \E v \in Vrfs : BindVrf(i, v)) \/ Rebind
VniStep == \E v \in Vrfs : DelVrfVniMap(v) \/ \E n \in Vnis : AddVrfVniMap(v, n)
SyslogStep == \E s \in Servers : DelSyslog(s) \/ \E v \in Vrfs \cup {"", "default"} : AddSyslog(s, v)
TunnelStep ==
    \/ \E t \in Tunnels : AddVxlan(t) \/ DelVxlan(t)
    \/ \E o \in Nvos : DelNvo(o) \/ \E t \in Tunnels : AddNvo(o, t)
MapStep ==
    \E t \in Tunnels, v \in Vlans, n \in Vnis :
        \/ AddVxlanMap(t, v, n) \/ DelVxlanMap(t, v, n)
        \/ AddVxlanMapRange(t, v, n, 2) \/ DelVxlanMapRange(t, v, n, 2)
OwnStep ==
    \/ \E i \in Loopbacks : AddLoopback(i) \/ DelLoopback(i)
    \/ \E s \in Subs : DelSub(s) \/ \E vid \in {"", "10"} : AddSub(s, vid)
RouteStep ==
    \E v \in Vrfs \cup {"default"}, p \in Prefixes, w \in Vrfs \cup {""} :
        \/ \E hops \in HopLists : AddRoute(v, p, hops, w, "")
        \/ \E dev \in Ports \cup {"null"} : AddRoute("default", p, <<>>, "", dev)
        \/ DelRoute(v, p)
        \/ \E hop \in Hops \cup {""}, dev \in Ports \cup {"null", ""} : DelHop(v, p, hop, w, dev)

LEMMA InterfaceSteps ==
  ASSUME InterfacesNext
  PROVE  \/ VlanStep \/ MemberStep \/ LagStep \/ LagMemberStep \/ PortStep \/ FitStep \/ MirrorStep \/ AddressStep
         \/ RoutedStep \/ LinkLocalStep \/ VrfStep \/ BindStep \/ VniStep \/ SyslogStep \/ TunnelStep \/ MapStep
         \/ OwnStep \/ RouteStep \/ db' = db
<1>1. CASE \E v \in On(Vlans) : AddVlan(v)
  BY <1>1 DEF VlanStep, On
<1>2. CASE \E v \in On(Vlans) : DelVlan(v)
  BY <1>2 DEF VlanStep, On
<1>3. CASE \E v \in On(Vlans), i \in On(Ports \cup Lags), mode \in {"tagged", "untagged"} : AddVlanMember(v, i, mode)
  BY <1>3 DEF MemberStep, On
<1>4. CASE \E v \in On(Vlans), i \in On(Ports \cup Lags) : DelVlanMember(v, i)
  BY <1>4 DEF MemberStep, On
<1>5. CASE \E v \in On(Vlans), mode \in {"enabled", "disabled"} : ProxyArp(v, mode)
  BY <1>5 DEF RoutedStep, On
<1>6. CASE \E l \in On(Lags) : AddPortchannel(l)
  BY <1>6 DEF LagStep, On
<1>7. CASE \E l \in On(Lags) : RemovePortchannel(l)
  BY <1>7 DEF LagStep, On
<1>8. CASE \E l \in On(Lags), p \in On(Ports) : AddPortchannelMember(l, p)
  BY <1>8 DEF LagMemberStep, On
<1>9. CASE \E l \in On(Lags), p \in On(Ports) : DelPortchannelMember(l, p)
  BY <1>9 DEF LagMemberStep, On
<1>10. CASE \E i \in On(Ports \cup Lags \cup Subs), status \in {"up", "down"} : AdminStatus(i, status)
  BY <1>10 DEF PortStep, On
<1>11. CASE \E p \in On(Ports), s \in Speeds : SetSpeed(p, s)
  BY <1>11 DEF PortStep, On
<1>12. CASE \E p \in On(Ports), f \in DOMAIN Capabilities : \E x \in Capabilities[f] : SetCapability(p, f, x)
  BY <1>12 DEF PortStep, On
<1>13. CASE \E p \in On(Ports), x \in {"rs", "none"} : SetFec(p, x)
  BY <1>13 DEF PortStep, On
<1>14. CASE \E p \in On(Ports), f \in {"laser_freq", "tx_power"} : SetTransceiver(p, f, "x")
  BY <1>14 DEF PortStep, On
<1>15. CASE \E p \in On(Ports), m \in Mtus : SetMtu(p, m)
  BY <1>15 DEF FitStep, On
<1>16. CASE \E i \in On(Ports \cup Lags), t \in Tpids : SetTpid(i, t)
  BY <1>16 DEF FitStep, On
<1>17. CASE \E s \in Sessions, src \in Fewer(On(Ports)), dir \in Directions : AddErspan(s, src, dir)
  BY <1>17 DEF MirrorStep, On, Fewer
<1>18. CASE \E s \in Sessions, dst \in On(Ports \cup Lags), src \in SUBSET On(Ports), dir \in Directions : AddSpan(s, dst, src, dir)
  BY <1>18 DEF MirrorStep, On
<1>19. CASE \E s \in Sessions : RemoveMirror(s)
  BY <1>19 DEF MirrorStep, On
<1>20. CASE \E i \in On(Routed), a \in Addresses : IpAdd(i, a)
  BY <1>20 DEF AddressStep, On
<1>21. CASE \E i \in On(Routed), a \in Addresses : IpRemove(i, a)
  BY <1>21 DEF AddressStep, On
<1>22. CASE \E i \in On(Routed), action \in {"drop", "forward"} : LoopbackAction(i, action)
  BY <1>22 DEF RoutedStep, On
<1>23. CASE \E i \in On(Routed), mode \in {"enable", "disable"} : Mpls(i, mode)
  BY <1>23 DEF RoutedStep, On
<1>24. CASE \E i \in On(Ports \cup Lags \cup Vlans) : EnableLinkLocalOnly(i)
  BY <1>24 DEF LinkLocalStep, On
<1>25. CASE \E i \in On(Ports \cup Lags \cup Vlans) : DisableLinkLocalOnly(i)
  BY <1>25 DEF LinkLocalStep, On
<1>26. CASE EnableLinkLocal
  BY <1>26 DEF LinkLocalStep
<1>27. CASE DisableLinkLocal
  BY <1>27 DEF LinkLocalStep
<1>28. CASE \E v \in On(Vrfs) : AddVrf(v)
  BY <1>28 DEF VrfStep, On
<1>29. CASE \E v \in On(Vrfs) : DelVrf(v)
  BY <1>29 DEF VrfStep, On
<1>30. CASE \E i \in On(Routed), v \in On(Vrfs) : BindVrf(i, v)
  BY <1>30 DEF BindStep, On
<1>31. CASE \E i \in On(Routed) : UnbindVrf(i)
  BY <1>31 DEF BindStep, On
<1>32. CASE Rebind
  BY <1>32 DEF BindStep
<1>33. CASE \E i \in On(Routed) : InterfaceManager(i)
  BY <1>33 DEF InterfaceManager
<1>34. CASE \E v \in On(Vrfs), n \in Vnis : AddVrfVniMap(v, n)
  BY <1>34 DEF VniStep, On
<1>35. CASE \E v \in On(Vrfs) : DelVrfVniMap(v)
  BY <1>35 DEF VniStep, On
<1>36. CASE \E s \in Servers, v \in On(Vrfs) \cup {"", "default"} : AddSyslog(s, v)
  BY <1>36 DEF SyslogStep, On
<1>37. CASE \E s \in Servers : DelSyslog(s)
  BY <1>37 DEF SyslogStep, On
<1>38. CASE \E t \in Tunnels : AddVxlan(t)
  BY <1>38 DEF TunnelStep, On
<1>39. CASE \E t \in Tunnels : DelVxlan(t)
  BY <1>39 DEF TunnelStep, On
<1>40. CASE \E o \in Nvos, t \in Tunnels : AddNvo(o, t)
  BY <1>40 DEF TunnelStep, On
<1>41. CASE \E o \in Nvos : DelNvo(o)
  BY <1>41 DEF TunnelStep, On
<1>42. CASE \E t \in Tunnels, v \in On(Vlans), n \in Vnis : AddVxlanMap(t, v, n)
  BY <1>42 DEF MapStep, On
<1>43. CASE \E t \in Tunnels, v \in On(Vlans), n \in Vnis : DelVxlanMap(t, v, n)
  BY <1>43 DEF MapStep, On
<1>44. CASE \E t \in Tunnels, v \in On(Vlans), n \in Vnis, len \in {2} : AddVxlanMapRange(t, v, n, len)
  BY <1>44 DEF MapStep, On
<1>45. CASE \E t \in Tunnels, v \in On(Vlans), n \in Vnis, len \in {2} : DelVxlanMapRange(t, v, n, len)
  BY <1>45 DEF MapStep, On
<1>46. CASE \E i \in On(Loopbacks) : AddLoopback(i)
  BY <1>46 DEF OwnStep, On
<1>47. CASE \E i \in On(Loopbacks) : DelLoopback(i)
  BY <1>47 DEF OwnStep, On
<1>48. CASE \E s \in On(Subs), vid \in {"", "10"} : AddSub(s, vid)
  BY <1>48 DEF OwnStep, On
<1>49. CASE \E s \in On(Subs) : DelSub(s)
  BY <1>49 DEF OwnStep, On
<1>50. CASE \E v \in On(Vrfs) \cup {"default"}, p \in Prefixes, hops \in HopLists, w \in On(Vrfs) \cup {""} : AddRoute(v, p, hops, w, "")
  BY <1>50 DEF RouteStep, On
<1>51. CASE \E p \in Prefixes, dev \in On(Ports) \cup {"null"} : AddRoute("default", p, <<>>, "", dev)
  BY <1>51 DEF RouteStep, On
<1>52. CASE \E v \in On(Vrfs) \cup {"default"}, p \in Prefixes : DelRoute(v, p)
  BY <1>52 DEF RouteStep, On
<1>53. CASE \E v \in On(Vrfs) \cup {"default"}, p \in Prefixes, w \in On(Vrfs) \cup {""}, hop \in Hops \cup {""}, dev \in On(Ports) \cup {"null", ""} : DelHop(v, p, hop, w, dev)
  BY <1>53 DEF RouteStep, On
<1> QED BY <1>1, <1>2, <1>3, <1>4, <1>5, <1>6, <1>7, <1>8, <1>9, <1>10, <1>11, <1>12, <1>13, <1>14, <1>15, <1>16, <1>17, <1>18, <1>19, <1>20, <1>21, <1>22, <1>23, <1>24, <1>25, <1>26, <1>27, <1>28, <1>29, <1>30, <1>31, <1>32, <1>33, <1>34, <1>35, <1>36, <1>37, <1>38, <1>39, <1>40, <1>41, <1>42, <1>43, <1>44, <1>45, <1>46, <1>47, <1>48, <1>49, <1>50, <1>51, <1>52, <1>53 DEF InterfacesNext
----------------------------------------------------------------------------
LEMMA SetWrites ==
  ASSUME NEW T, NEW r, NEW f, r[1] \in T, db' = SetEntry(db, r, f)
  PROVE  Writes(T)
  BY SetWithin DEF Writes

LEMMA ModWrites ==
  ASSUME NEW T, NEW r, NEW f, r[1] \in T, db' = ModEntry(db, r, f)
  PROVE  Writes(T)
  BY ModWithin DEF Writes

LEMMA DropWrites ==
  ASSUME NEW T, NEW S, \A r \in S : r[1] \in T, db' = Without(db, S)
  PROVE  Writes(T)
  BY WithoutWithin DEF Writes

LEMMA OverWrites ==
  ASSUME NEW T, NEW g, \A r \in DOMAIN g : r[1] \in T, db' = g @@ db
  PROVE  Writes(T)
  BY MergeWithin DEF Writes

LEMMA NothingWrites ==
  ASSUME NEW T, db' = db
  PROVE  Writes(T)
  BY NothingWithin DEF Writes

\* An interface has rows in one table.
LEMMA OwnFacts ==
  ASSUME NEW i
  PROVE  /\ Table(i) \in OwnTables
         /\ Own(i) = <<Table(i), i>>
         /\ \A a : Address(i, a) = <<Table(i), i, a>>
         /\ \A r \in AddressRows(i) : r[1] = Table(i) /\ r[2] = i
<1>1. Table(i) \in OwnTables
  BY DEF Table, OwnTables
<1> QED  BY <1>1 DEF Own, Address, AddressRows

LEMMA VlanWrites == ASSUME VlanStep PROVE Writes({"VLAN", "DHCP_RELAY"})
<1>1. PICK v \in Vlans : AddVlan(v) \/ DelVlan(v)
  BY DEF VlanStep
<1>2. CASE AddVlan(v)
  <2>1. db' = Without(SetEntry(db, <<"VLAN", v>>, [vlanid |-> v]), {<<"DHCP_RELAY", v>>})
    BY <1>2 DEF AddVlan, Become
  <2> DEFINE d == SetEntry(db, <<"VLAN", v>>, [vlanid |-> v])
             T == {"VLAN", "DHCP_RELAY"}
  <2>2. Within(T, db, d)
    BY SetWithin
  <2>3. Within(T, d, Without(d, {<<"DHCP_RELAY", v>>}))
    BY WithoutWithin
  <2> HIDE DEF d
  <2> QED  BY <2>1, <2>2, <2>3, WithinTwice DEF Writes, d
<1>3. CASE DelVlan(v)
  BY <1>3, DropWrites DEF DelVlan, Become
<1> QED  BY <1>1, <1>2, <1>3

LEMMA MemberWrites == ASSUME MemberStep PROVE Writes({"VLAN_MEMBER"})
<1>1. PICK v \in Vlans, i \in Ports \cup Lags : DelVlanMember(v, i) \/ \E mode \in {"tagged", "untagged"} : AddVlanMember(v, i, mode)
  BY DEF MemberStep
<1>2. CASE DelVlanMember(v, i)
  BY <1>2, DropWrites DEF DelVlanMember, Become
<1>3. CASE \E mode \in {"tagged", "untagged"} : AddVlanMember(v, i, mode)
  BY <1>3, SetWrites DEF AddVlanMember, Become
<1> QED  BY <1>1, <1>2, <1>3

LEMMA LagWrites == ASSUME LagStep PROVE Writes({"PORTCHANNEL"})
<1>1. PICK l \in Lags : AddPortchannel(l) \/ RemovePortchannel(l)
  BY DEF LagStep
<1>2. CASE AddPortchannel(l)
  BY <1>2, SetWrites DEF AddPortchannel, Become
<1>3. CASE RemovePortchannel(l)
  BY <1>3, DropWrites DEF RemovePortchannel, Become
<1> QED  BY <1>1, <1>2, <1>3

LEMMA LagMemberWrites == ASSUME LagMemberStep PROVE Writes({"PORTCHANNEL_MEMBER"})
<1>1. PICK l \in Lags, p \in Ports : AddPortchannelMember(l, p) \/ DelPortchannelMember(l, p)
  BY DEF LagMemberStep
<1>2. CASE AddPortchannelMember(l, p)
  <2>1. db' = SetEntry(db, <<"PORTCHANNEL_MEMBER", l, p>>, NoFields)
    BY <1>2 DEF AddPortchannelMember, Become
  <2> QED  BY <2>1, SetWrites
<1>3. CASE DelPortchannelMember(l, p)
  BY <1>3, DropWrites DEF DelPortchannelMember, Become
<1> QED  BY <1>1, <1>2, <1>3

LEMMA PortWrites == ASSUME PortStep PROVE Writes(PortTables)
<1>1. ASSUME NEW i, NEW status, AdminStatus(i, status)
      PROVE  Writes(PortTables)
  <2> DEFINE rows == {<<"PORT", i>>, <<"PORTCHANNEL", i>>, <<"VLAN_SUB_INTERFACE", i>>} \cap Rows
  <2>1. db' = [r \in rows |-> [admin_status |-> status] @@ db[r]] @@ db
    BY <1>1 DEF AdminStatus, Become
  <2>2. \A r \in rows : r[1] \in PortTables
    BY DEF PortTables
  <2> QED  BY <2>1, <2>2, OverWrites
<1>2. ASSUME NEW p, NEW x, SetFec(p, x) \/ SetSpeed(p, x)
      PROVE  Writes(PortTables)
  BY <1>2, ModWrites DEF SetFec, SetSpeed, Become, PortTables
<1>3. ASSUME NEW p, NEW f, NEW x, SetCapability(p, f, x) \/ SetTransceiver(p, f, x)
      PROVE  Writes(PortTables)
  BY <1>3, ModWrites DEF SetCapability, SetTransceiver, Become, PortTables
<1> QED  BY <1>1, <1>2, <1>3 DEF PortStep

LEMMA FitWrites == ASSUME FitStep PROVE Writes(PortTables)
<1>1. ASSUME NEW p, NEW m, SetMtu(p, m)
      PROVE  Writes(PortTables)
  BY <1>1, ModWrites DEF SetMtu, Become, PortTables
<1>2. ASSUME NEW i, NEW t, SetTpid(i, t)
      PROVE  Writes(PortTables)
  BY <1>2, ModWrites DEF SetTpid, Become, PortTables
<1> QED  BY <1>1, <1>2 DEF FitStep

LEMMA MirrorWrites == ASSUME MirrorStep PROVE Writes({"MIRROR_SESSION"})
<1>1. ASSUME NEW s, RemoveMirror(s)
      PROVE  Writes({"MIRROR_SESSION"})
  BY <1>1, DropWrites DEF RemoveMirror, Become
<1>2. ASSUME NEW s, NEW src, NEW dir, AddErspan(s, src, dir) \/ \E dst \in Ports \cup Lags : AddSpan(s, dst, src, dir)
      PROVE  Writes({"MIRROR_SESSION"})
  <2>1. \E f : db' = SetEntry(db, <<"MIRROR_SESSION", s>>, f)
    BY <1>2 DEF AddErspan, AddSpan, Become
  <2> QED  BY <2>1, SetWrites
<1> QED  BY <1>1, <1>2 DEF MirrorStep

LEMMA AddressWrites == ASSUME AddressStep PROVE Writes(OwnTables)
<1>1. PICK i \in Routed, a \in Addresses : IpAdd(i, a) \/ IpRemove(i, a)
  BY DEF AddressStep
<1>2. CASE IpAdd(i, a)
  <2>1. \E f : db' \in {SetEntry(db, Address(i, a), NoFields), SetEntry(SetEntry(db, Own(i), f), Address(i, a), NoFields)}
    BY <1>2 DEF IpAdd, Become
  <2>2. Own(i)[1] \in OwnTables /\ Address(i, a)[1] \in OwnTables
    BY OwnFacts
  <2> DEFINE of(f) == SetEntry(db, Own(i), f)
  <2>3. CASE db' = SetEntry(db, Address(i, a), NoFields)
    BY ONLY <2>2, <2>3, SetWrites
  <2>4. ASSUME NEW f, db' = SetEntry(of(f), Address(i, a), NoFields)
        PROVE  Writes(OwnTables)
    <3>1. Within(OwnTables, db, of(f)) /\ Within(OwnTables, of(f), SetEntry(of(f), Address(i, a), NoFields))
      BY <2>2, SetWithin
    <3> HIDE DEF of
    <3> QED  BY <2>4, <3>1, WithinTwice DEF Writes
  <2> QED  BY <2>1, <2>3, <2>4
<1>3. CASE IpRemove(i, a)
  <2>1. Own(i)[1] \in OwnTables /\ Address(i, a)[1] \in OwnTables
    BY OwnFacts
  <2>2. PICK S \in SUBSET {Own(i), Address(i, a)} : db' = Without(db, S)
    BY <1>3 DEF IpRemove, Become
  <2> QED  BY ONLY <2>1, <2>2, DropWrites
<1> QED  BY <1>1, <1>2, <1>3

LEMMA RoutedWrites == ASSUME RoutedStep PROVE Writes(OwnTables)
<1>1. \A i : Own(i)[1] \in OwnTables
  BY OwnFacts
<1>2. ASSUME NEW i, NEW x, ProxyArp(i, x) \/ LoopbackAction(i, x)
      PROVE  Writes(OwnTables)
  BY <1>1, <1>2, ModWrites DEF ProxyArp, LoopbackAction, Become
<1>3. ASSUME NEW i, NEW x, Mpls(i, x)
      PROVE  Writes(OwnTables)
  BY <1>1, <1>3, SetWrites DEF Mpls, Become
<1> QED  BY <1>2, <1>3 DEF RoutedStep

LEMMA OffWithin ==
  ASSUME NEW i
  PROVE  Within(OwnTables, db, LinkLocalOff(db, i))
  BY OwnFacts, ModWithin, WithoutWithin DEF LinkLocalOff

LEMMA LinkLocalWrites == ASSUME LinkLocalStep PROVE Writes(OwnTables)
<1>1. \A i : Own(i)[1] \in OwnTables
  BY OwnFacts
<1>2. ASSUME NEW i, EnableLinkLocalOnly(i)
      PROVE  Writes(OwnTables)
  BY <1>1, <1>2, ModWrites DEF EnableLinkLocalOnly, LinkLocalOn, Become
<1>3. ASSUME NEW i, DisableLinkLocalOnly(i)
      PROVE  Writes(OwnTables)
  BY <1>3, OffWithin DEF DisableLinkLocalOnly, Become, Writes
<1>4. CASE EnableLinkLocal
  <2>1. PICK all : db' = [r \in {Own(i) : i \in all} |-> [ipv6_use_link_local_only |-> "enable"] @@ Entry(r)] @@ db
    BY <1>4 DEF EnableLinkLocal, Become
  <2> DEFINE g == [r \in {Own(i) : i \in all} |-> [ipv6_use_link_local_only |-> "enable"] @@ Entry(r)]
  <2>2. \A r \in DOMAIN g : r[1] \in OwnTables
    BY <1>1
  <2> QED  BY <2>1, <2>2, OverWrites
<1>5. CASE DisableLinkLocal
  <2>1. PICK all, off : /\ off = [i \in all |-> LinkLocalOff(db, i)]
                        /\ db' = [r \in {x \in Rows : \A i \in all : x \in DOMAIN off[i]} |->
                                     IF \E i \in all : r = Own(i) THEN [ipv6_use_link_local_only |-> "disable"] @@ db[r]
                                     ELSE db[r]]
    BY <1>5 DEF DisableLinkLocal, Become
  <2>2. ASSUME NEW r, r[1] \notin OwnTables
        PROVE  Same(r, db, db')
    <3>1. \A i \in all : r \in DOMAIN off[i] <=> r \in Rows
      BY <2>1, <2>2, OffWithin DEF Within, Same, Rows
    <3>2. \A i : r # Own(i)
      BY <1>1, <2>2
    <3> QED  BY <2>1, <3>1, <3>2 DEF Same, Rows
  <2> QED  BY <2>2 DEF Writes, Within
<1> QED  BY <1>2, <1>3, <1>4, <1>5 DEF LinkLocalStep

LEMMA VrfWrites == ASSUME VrfStep PROVE Writes(VrfTables \cup OwnTables)
<1> DEFINE T == VrfTables \cup OwnTables
<1>1. ASSUME NEW v, AddVrf(v)
      PROVE  Writes(T)
  <2>1. \/ db' = ModEntry(db, MgmtVrf, [mgmtVrfEnabled |-> "true"])
        \/ db' = SetEntry(db, <<"VRF", v>>, NoFields)
    BY <1>1 DEF AddVrf, Become
  <2> QED  BY <2>1, ModWrites, SetWrites DEF MgmtVrf, VrfTables
<1>2. ASSUME NEW v, DelVrf(v)
      PROVE  Writes(T)
  <2> DEFINE S == {<<"VRF", v>>} \cup {Own(i) : i \in BoundTo(v)} \cup UNION {AddressRows(i) : i \in BoundTo(v)}
  <2>1. \/ db' = ModEntry(db, MgmtVrf, [mgmtVrfEnabled |-> "false"])
        \/ db' = Without(db, S)
    BY <1>2 DEF DelVrf, Become
  <2>2. \A r \in S : r[1] \in T
    BY OwnFacts DEF VrfTables
  <2> HIDE DEF S
  <2> QED  BY <2>1, <2>2, ModWrites, DropWrites DEF MgmtVrf, VrfTables
<1> QED  BY <1>1, <1>2 DEF VrfStep

LEMMA BindWrites == ASSUME BindStep PROVE Writes(OwnTables)
<1>1. ASSUME NEW i, NEW S, S \subseteq {Own(i)} \cup AddressRows(i), db' = Without(db, S)
      PROVE  Writes(OwnTables)
  <2>1. \A r \in S : r[1] \in OwnTables
    BY <1>1, OwnFacts
  <2> QED  BY <1>1, <2>1, DropWrites
<1>2. ASSUME NEW i, UnbindVrf(i)
      PROVE  Writes(OwnTables)
  BY <1>1, <1>2 DEF UnbindVrf, Wait, Become
<1>3. ASSUME NEW i, NEW v, BindVrf(i, v)
      PROVE  Writes(OwnTables)
  BY <1>1, <1>3 DEF BindVrf, Wait
<1>4. CASE Rebind
  BY <1>4, SetWrites, OwnFacts DEF Rebind
<1> QED  BY <1>2, <1>3, <1>4 DEF BindStep

LEMMA VniWrites == ASSUME VniStep PROVE Writes({"VRF"})
<1>1. \E v : \E n : db' = ModEntry(db, <<"VRF", v>>, [vni |-> n])
  BY DEF VniStep, DelVrfVniMap, AddVrfVniMap, Become
<1> QED  BY <1>1, ModWrites

LEMMA SyslogWrites == ASSUME SyslogStep PROVE Writes({"SYSLOG_SERVER"})
<1>1. ASSUME NEW s, DelSyslog(s)
      PROVE  Writes({"SYSLOG_SERVER"})
  BY <1>1, DropWrites DEF DelSyslog, Become
<1>2. ASSUME NEW s, NEW v, AddSyslog(s, v)
      PROVE  Writes({"SYSLOG_SERVER"})
  <2>1. \E f : db' = SetEntry(db, <<"SYSLOG_SERVER", s>>, f)
    BY <1>2 DEF AddSyslog, Become
  <2> QED  BY <2>1, SetWrites
<1> QED  BY <1>1, <1>2 DEF SyslogStep

LEMMA TunnelWrites == ASSUME TunnelStep PROVE Writes({"VXLAN_TUNNEL", "VXLAN_EVPN_NVO"})
<1> DEFINE T == {"VXLAN_TUNNEL", "VXLAN_EVPN_NVO"}
<1>1. ASSUME NEW t, AddVxlan(t) PROVE Writes(T)
  BY <1>1, SetWrites DEF AddVxlan, Become
<1>2. ASSUME NEW t, DelVxlan(t) PROVE Writes(T)
  BY <1>2, DropWrites DEF DelVxlan, Become
<1>3. ASSUME NEW t, NEW o, AddNvo(o, t) PROVE Writes(T)
  BY <1>3, SetWrites DEF AddNvo, Become
<1>4. ASSUME NEW t, DelNvo(t) PROVE Writes(T)
  BY <1>4, DropWrites DEF DelNvo, Become
<1> QED  BY <1>1, <1>2, <1>3, <1>4 DEF TunnelStep

LEMMA MapWrites == ASSUME MapStep PROVE Writes({"VXLAN_TUNNEL_MAP"})
<1> DEFINE T == {"VXLAN_TUNNEL_MAP"}
<1>0. \A t, n, v : MapRow(t, n, v)[1] \in T
  BY DEF MapRow
<1>1. ASSUME NEW t, NEW v, NEW n, AddVxlanMap(t, v, n) PROVE Writes(T)
  BY <1>0, <1>1, SetWrites DEF AddVxlanMap, Become
<1>2. ASSUME NEW t, NEW v, NEW n, DelVxlanMap(t, v, n) PROVE Writes(T)
  BY <1>0, <1>2, DropWrites DEF DelVxlanMap, Become
<1>3. ASSUME NEW t, NEW v, NEW n, AddVxlanMapRange(t, v, n, 2) PROVE Writes(T)
  <2>1. PICK new : db' = [r \in {MapRow(t, m[1], m[2]) : m \in new} |-> [vni |-> r[3], vlan |-> r[4]]] @@ db
    BY <1>3 DEF AddVxlanMapRange, Become
  <2> DEFINE g == [r \in {MapRow(t, m[1], m[2]) : m \in new} |-> [vni |-> r[3], vlan |-> r[4]]]
  <2>2. \A r \in DOMAIN g : r[1] \in T
    BY <1>0
  <2> HIDE DEF g
  <2> QED  BY <2>1, <2>2, OverWrites DEF g
<1>4. ASSUME NEW t, NEW v, NEW n, DelVxlanMapRange(t, v, n, 2) PROVE Writes(T)
  <2> DEFINE S == {MapRow(t, m[1], m[2]) : m \in {x \in MapRange(v, n, 2) : ~VniInVrf(x[1])}}
  <2>1. db' = Without(db, S)
    BY <1>4 DEF DelVxlanMapRange, Become
  <2>2. \A r \in S : r[1] \in T
    BY <1>0
  <2> HIDE DEF S
  <2> QED  BY <2>1, <2>2, DropWrites
<1> QED  BY <1>1, <1>2, <1>3, <1>4 DEF MapStep

LEMMA OwnWrites == ASSUME OwnStep PROVE Writes(OwnTables)
<1>1. \A i : Own(i)[1] \in OwnTables /\ \A r \in {Own(i)} \cup AddressRows(i) : r[1] \in OwnTables
  BY OwnFacts
<1>2. ASSUME NEW i, AddLoopback(i) \/ \E vid : AddSub(i, vid) PROVE Writes(OwnTables)
  <2>1. \E f : db' = SetEntry(db, Own(i), f)
    BY <1>2 DEF AddLoopback, AddSub, Become
  <2> QED  BY <1>1, <2>1, SetWrites
<1>3. ASSUME NEW i, DelLoopback(i) \/ DelSub(i) PROVE Writes(OwnTables)
  <2>1. db' = Without(db, {Own(i)} \cup AddressRows(i))
    BY <1>3 DEF DelLoopback, DelSub, Become
  <2> QED  BY <1>1, <2>1, DropWrites
<1> QED  BY <1>2, <1>3 DEF OwnStep

LEMMA RouteWrites == ASSUME RouteStep PROVE Writes({"STATIC_ROUTE"})
<1> DEFINE T == {"STATIC_ROUTE"}
<1>0. \A v, p : RouteRow(v, p)[1] \in T
  BY DEF RouteRow
<1>1. ASSUME NEW v, NEW p, NEW hops, NEW w, NEW dev, AddRoute(v, p, hops, w, dev) PROVE Writes(T)
  <2>1. \E f : db' = SetEntry(db, RouteRow(v, p), f)
    BY <1>1 DEF AddRoute, AddRouteOver, Become
  <2> QED  BY <1>0, <2>1, SetWrites
<1>2. ASSUME NEW v, NEW p, DelRoute(v, p) PROVE Writes(T)
  BY <1>0, <1>2, DropWrites DEF DelRoute, Become
<1>3. ASSUME NEW v, NEW p, NEW hop, NEW w, NEW dev, DelHop(v, p, hop, w, dev) PROVE Writes(T)
  <2>1. \/ db' = Without(db, {RouteRow(v, p)})
        \/ \E f : db' = SetEntry(db, RouteRow(v, p), f)
    BY <1>3 DEF DelHop, Become
  <2> QED  BY <1>0, <2>1, SetWrites, DropWrites
<1> QED  BY <1>1, <1>2, <1>3 DEF RouteStep

\* The commands of interfaces write none but these tables.
LEMMA InterfacesWrite == ASSUME InterfacesNext PROVE Writes(InterfaceTables)
<1> DEFINE T == InterfaceTables
<1>1. CASE VlanStep \/ MemberStep \/ LagStep \/ LagMemberStep \/ PortStep \/ FitStep \/ MirrorStep
  BY <1>1, VlanWrites, MemberWrites, LagWrites, LagMemberWrites, PortWrites, FitWrites, MirrorWrites, WritesMore
     DEF InterfaceTables, PortTables
<1>2. CASE AddressStep \/ RoutedStep \/ LinkLocalStep \/ VrfStep \/ BindStep \/ OwnStep
  BY <1>2, AddressWrites, RoutedWrites, LinkLocalWrites, VrfWrites, BindWrites, OwnWrites, WritesMore
     DEF InterfaceTables
<1>3. CASE VniStep \/ SyslogStep \/ TunnelStep \/ MapStep \/ RouteStep
  BY <1>3, VniWrites, SyslogWrites, TunnelWrites, MapWrites, RouteWrites, WritesMore
     DEF InterfaceTables, VrfTables, VxlanTables
<1>4. CASE db' = db
  BY <1>4, NothingWrites
<1> QED  BY <1>1, <1>2, <1>3, <1>4, InterfaceSteps

----------------------------------------------------------------------------
(* The commands of services, by what they write.                           *)

\* Rows of services that no check relates to others.
PlainTables ==
    {"BGP_NEIGHBOR", "WARM_RESTART_ENABLE_TABLE", "WARM_RESTART", "DEVICE_METADATA", "KDUMP", "KUBE_LABELS",
     "PORT_STORM_CONTROL", "SNMP_TRAP_CONFIG", "SNMP_COMMUNITY", "SNMP_USER", "NTP_SERVER", "SFLOW",
     "SFLOW_SESSION", "AAA", "TACPLUS", "TACPLUS_SERVER", "RADIUS", "MCLAG_UNIQUE_IP", "CONSOLE_SWITCH", "FEATURE"}
MclagTables == {"MCLAG_DOMAIN", "MCLAG_INTERFACE"}
ServiceTables ==
    PlainTables \cup MclagTables
        \cup {"CONSOLE_PORT", "SNMP_AGENT_ADDRESS_CONFIG", "SNMP", "SFLOW_COLLECTOR", "RADIUS_SERVER", "KUBERNETES_MASTER"}

ConsoleStep ==
    \E n \in Lines :
        \/ DelLine(n)
        \/ \E d \in Devices \cup {""} : AddLine(n, d) \/ RemoteDevice(n, d)
        \/ \E x : Baud(n, x) \/ FlowControl(n, x)
MclagStep ==
    \E d \in Domains :
        \/ AddDomain(d) \/ DelDomain(d)
        \/ \E s \in Seconds : SetKeepalive(d, s) \/ SetSessionTimeout(d, s)
        \/ \E l \in Lags : AddMclagMember(d, l) \/ DelMclagMember(d, l)
AgentStep == \E a \in Agents, v \in AgentVrfs : AddAgent(a, v) \/ DelAgent(a, v)
SnmpStep ==
    \/ \E c : DelContact(c) \/ \E mail : AddContact(c, mail) \/ ModifyContact(c, mail)
    \/ \E x : AddLocation(x) \/ DelLocation(x) \/ ModifyLocation(x)
CollectorStep == \E c \in Collectors : DelCollector(c) \/ \E v : AddCollector(c, v)
RadiusStep == \E s \in Radius : AddRadius(s) \/ DelRadius(s)
KubeStep == \E f \in {"ip", "port", "insecure", "disable"} : \E x : KubeServer(f, x)

LEMMA PutWrites ==
  ASSUME NEW T, NEW r, NEW f, NEW x, r[1] \in T, Put(r, f, x)
  PROVE  Writes(T)
<1>1. \E g : db' = ModEntry(db, r, g)
  BY DEF Put, Become
<1> QED  BY <1>1, ModWrites

LEMMA SettingWrites ==
  ASSUME NEW T, NEW r, NEW f, NEW x, r[1] \in T, Setting(r, f, x) \/ AddTableKv(r, f, x) \/ DelTableKey(r, f)
  PROVE  Writes(T)
<1>1. Put(r, f, x) \/ db' = db \/ \E g : db' = SetEntry(db, r, g)
  BY DEF Setting, AddTableKv, DelTableKey, Become
<1> QED  BY <1>1, PutWrites, SetWrites, NothingWrites

LEMMA StatusWrites ==
  ASSUME NEW S, NEW status, ChangeStatus(S, status)
  PROVE  Writes(PlainTables)
<1> DEFINE g == [r \in {Neighbor(b) : b \in S} |-> [admin_status |-> status] @@ db[r]]
<1>1. db' = g @@ db
  BY DEF ChangeStatus, Become
<1>2. \A r \in DOMAIN g : r[1] \in PlainTables
  BY DEF Neighbor, PlainTables
<1> HIDE DEF g
<1> QED  BY <1>1, <1>2, OverWrites

LEMMA ServiceSteps ==
  ASSUME ServicesNext
  PROVE  \/ ConsoleStep \/ MclagStep \/ AgentStep \/ SnmpStep \/ CollectorStep \/ RadiusStep \/ KubeStep
         \/ Writes(PlainTables)
<1>1. CASE \E status \in UpDown : BgpAll(status)
  <2>1. PICK S, status : ChangeStatus(S, status)
    BY <1>1 DEF BgpAll
  <2> QED  BY <2>1, StatusWrites
<1>2. CASE \E x \in Neighbors \cup DOMAIN Upper, status \in UpDown : BgpNeighbor(x, status)
  <2>1. PICK S, status : ChangeStatus(S, status)
    BY <1>2 DEF BgpNeighbor
  <2> QED  BY <2>1, StatusWrites
<1>3. CASE \E x \in DOMAIN Upper : BgpRemove(x)
  <2>1. PICK S : db' = Without(db, {Neighbor(b) : b \in S})
    BY <1>3 DEF BgpRemove, Become
  <2>2. \A b \in S : Neighbor(b)[1] \in PlainTables
    BY DEF Neighbor, PlainTables
  <2> QED  BY <2>1, <2>2, DropWrites
<1>4. CASE \E f \in Features \cup {"system"}, x \in {"true", "false"} : WarmRestart(f, x)
  BY <1>4, PutWrites, SettingWrites, SetWrites, DropWrites, NothingWrites DEF PlainTables, WarmRestart, Become
<1>5. CASE \E m \in {"swss", "bgp"}, x \in {1, 2} : WarmRestartTimer(m, "timer", x)
  BY <1>5, PutWrites, SettingWrites, SetWrites, DropWrites, NothingWrites DEF PlainTables, WarmRestartTimer, Become
<1>6. CASE \E f \in {"hostname", "synchronous_mode"}, x \in OnOff : DeviceMetadata(f, x)
  BY <1>6, PutWrites, SettingWrites, SetWrites, DropWrites, NothingWrites DEF PlainTables, DeviceMetadata, Become
<1>7. CASE \E f \in {"enabled", "memory"}, x \in OnOff : Kdump(f, x)
  BY <1>7, PutWrites, SettingWrites, SetWrites, DropWrites, NothingWrites DEF PlainTables, Kdump, Become
<1>8. CASE \E f \in {"ip", "port", "insecure", "disable"}, x \in {"", "x"} : KubeServer(f, x)
  BY <1>8 DEF KubeStep, On
<1>9. CASE \E x \in {"", "x"} : KubeLabel("label", x)
  <2>1. \E y : Put(<<"KUBE_LABELS", "SET">>, "label", y)
    BY <1>9, Zenon DEF KubeLabel
  <2> QED  BY <2>1, PutWrites DEF PlainTables
<1>10. CASE \E p \in On(Ports), kbps \in {1, 2} : StormControl(p, kbps)
  BY <1>10, PutWrites, SettingWrites, SetWrites, DropWrites, NothingWrites DEF PlainTables, StormControl, Become
<1>11. CASE \E p \in On(Ports) : StormControlOff(p)
  BY <1>11, PutWrites, SettingWrites, SetWrites, DropWrites, NothingWrites DEF PlainTables, StormControlOff, Become
<1>12. CASE \E a \in Agents, v \in AgentVrfs : AddAgent(a, v)
  BY <1>12 DEF AgentStep, On
<1>13. CASE \E a \in Agents, v \in AgentVrfs : DelAgent(a, v)
  BY <1>13 DEF AgentStep, On
<1>14. CASE TrapServer("v2TrapDest", "ip")
  BY <1>14, PutWrites, SettingWrites, SetWrites, DropWrites, NothingWrites DEF PlainTables, TrapServer, Become
<1>15. CASE DelTrapServer("v2TrapDest")
  BY <1>15, PutWrites, SettingWrites, SetWrites, DropWrites, NothingWrites DEF PlainTables, DelTrapServer, Become
<1>16. CASE \E c \in Communities, type \in {"RO", "RW"} : AddCommunity(c, type)
  BY <1>16, PutWrites, SettingWrites, SetWrites, DropWrites, NothingWrites DEF PlainTables, AddCommunity, Become
<1>17. CASE \E c \in Communities : DelCommunity(c)
  BY <1>17, PutWrites, SettingWrites, SetWrites, DropWrites, NothingWrites DEF PlainTables, DelCommunity, Become
<1>18. CASE \E c, new \in Communities : ReplaceCommunity(c, new)
  BY <1>18, PutWrites, SettingWrites, SetWrites, DropWrites, NothingWrites DEF PlainTables, ReplaceCommunity, Become
<1>19. CASE \E c \in Contacts, mail \in {"m", "n"} : AddContact(c, mail)
  BY <1>19 DEF SnmpStep, On
<1>20. CASE \E c \in Contacts : DelContact(c)
  BY <1>20 DEF SnmpStep, On
<1>21. CASE \E c \in Contacts, mail \in {"m", "n"} : ModifyContact(c, mail)
  BY <1>21 DEF SnmpStep, On
<1>22. CASE \E x \in {"l", "k"} : AddLocation(x)
  BY <1>22 DEF SnmpStep, On
<1>23. CASE \E x \in {"l", "k"} : DelLocation(x)
  BY <1>23 DEF SnmpStep, On
<1>24. CASE \E x \in {"l", "k"} : ModifyLocation(x)
  BY <1>24 DEF SnmpStep, On
<1>25. CASE \E u \in Users, type \in {"noAuthNoPriv", "AuthNoPriv", "Priv"}, auth \in {"", "SHA"}, e \in {"", "AES"} : AddUser(u, type, auth, e)
  <2>1. PICK u, type, auth, e : AddUser(u, type, auth, e)
    BY <1>25
  <2>2. db' = SetEntry(db, <<"SNMP_USER", u>>, [type |-> type, auth |-> auth, encrypt |-> e])
    BY <2>1 DEF AddUser, Become
  <2> QED  BY <2>2, SetWrites DEF PlainTables
<1>26. CASE \E u \in Users : DelUser(u)
  BY <1>26, PutWrites, SettingWrites, SetWrites, DropWrites, NothingWrites DEF PlainTables, DelUser, Become
<1>27. CASE AddClock("c")
  BY <1>27, PutWrites, SettingWrites, SetWrites, DropWrites, NothingWrites DEF PlainTables, AddClock, Become
<1>28. CASE DelClock("c")
  BY <1>28, PutWrites, SettingWrites, SetWrites, DropWrites, NothingWrites DEF PlainTables, DelClock, Become
<1>29. CASE \E s \in UpDown : SflowState(s)
  BY <1>29, PutWrites, ModWrites, SetWrites DEF PlainTables, SflowState, Sflow, Become
<1>30. CASE \E x \in {0, 5} : SflowPolling(x)
  BY <1>30, PutWrites, ModWrites, SetWrites DEF PlainTables, SflowPolling, Sflow, Become
<1>31. CASE \E i \in On(Ports) : AddAgentId(i)
  <2>1. \E g : db' = ModEntry(db, Sflow, g)
    BY <1>31 DEF AddAgentId, Become
  <2> QED  BY <2>1, ModWrites DEF PlainTables, Sflow
<1>32. CASE DelAgentId
  <2>1. \E g : db' = SetEntry(db, Sflow, g)
    BY <1>32 DEF DelAgentId, Become
  <2> QED  BY <2>1, SetWrites DEF PlainTables, Sflow
<1>33. CASE \E i \in On(Ports) \cup {"all"}, s \in UpDown : SflowInterface(i, s)
  BY <1>33, PutWrites, SettingWrites, SetWrites, DropWrites, NothingWrites DEF PlainTables, SflowInterface, Become
<1>34. CASE \E i \in On(Ports) \cup {"all"}, rate \in {"256", "default"} : SampleRate(i, rate)
  <2>1. \E i : \/ \E rate : Put(<<"SFLOW_SESSION", i>>, "sample_rate", rate)
               \/ \E f : db' = SetEntry(db, <<"SFLOW_SESSION", i>>, f)
    BY <1>34 DEF SampleRate, Become
  <2> QED  BY <2>1, SetWrites, DropWrites, PutWrites DEF PlainTables
<1>35. CASE \E c \in Collectors, v \in {"default", "mgmt"} : AddCollector(c, v)
  BY <1>35 DEF CollectorStep, On
<1>36. CASE \E c \in Collectors : DelCollector(c)
  BY <1>36 DEF CollectorStep, On
<1>37. CASE \E x \in {"True", "False", "default"} : Failthrough(x)
  BY <1>37, PutWrites, SettingWrites, SetWrites, DropWrites, NothingWrites DEF PlainTables, Failthrough, Become
<1>38. CASE \E x \in {"True", "False", "default"} : Fallback(x)
  BY <1>38, PutWrites, SettingWrites, SetWrites, DropWrites, NothingWrites DEF PlainTables, Fallback, Become
<1>39. CASE \E methods \in AaaMethods : Login(methods)
  BY <1>39, PutWrites, SettingWrites, SetWrites, DropWrites, NothingWrites DEF PlainTables, Login, Become
<1>40. CASE \E x \in {"tacacs+", "disable"} : Accounting(x)
  BY <1>40, PutWrites, SettingWrites, SetWrites, DropWrites, NothingWrites DEF PlainTables, Accounting, Become
<1>41. CASE \E x \in {"tacacs+", "local"} : Authorization(x)
  BY <1>41, PutWrites, SettingWrites, SetWrites, DropWrites, NothingWrites DEF PlainTables, Authorization, Become
<1>42. CASE \E x \in {"default", "5"} : TacacsTimeout(x)
  BY <1>42, PutWrites, SettingWrites, SetWrites, DropWrites, NothingWrites DEF PlainTables, TacacsTimeout, Become
<1>43. CASE \E x \in {"default", "k"} : TacacsPasskey(x)
  BY <1>43, PutWrites, SettingWrites, SetWrites, DropWrites, NothingWrites DEF PlainTables, TacacsPasskey, Become
<1>44. CASE \E s \in Radius : AddTacacs(s)
  BY <1>44, PutWrites, SettingWrites, SetWrites, DropWrites, NothingWrites DEF PlainTables, AddTacacs, Become
<1>45. CASE \E s \in Radius : DelTacacs(s)
  BY <1>45, PutWrites, SettingWrites, SetWrites, DropWrites, NothingWrites DEF PlainTables, DelTacacs, Become
<1>46. CASE \E x \in {"default", "5"} : RadiusTimeout(x)
  BY <1>46, PutWrites, SettingWrites, SetWrites, DropWrites, NothingWrites DEF PlainTables, RadiusTimeout, Become
<1>47. CASE \E x \in {"default", "k"} : RadiusPasskey(x)
  BY <1>47, PutWrites, SettingWrites, SetWrites, DropWrites, NothingWrites DEF PlainTables, RadiusPasskey, Become
<1>48. CASE RadiusSourceIp
  BY <1>48, PutWrites, SettingWrites, SetWrites, DropWrites, NothingWrites DEF PlainTables, RadiusSourceIp, Become
<1>49. CASE \E s \in Radius : AddRadius(s)
  BY <1>49 DEF RadiusStep, On
<1>50. CASE \E s \in Radius : DelRadius(s)
  BY <1>50 DEF RadiusStep, On
<1>51. CASE \E d \in Domains : AddDomain(d)
  BY <1>51 DEF MclagStep, On
<1>52. CASE \E d \in Domains : DelDomain(d)
  BY <1>52 DEF MclagStep, On
<1>53. CASE \E d \in Domains, s \in Seconds : SetKeepalive(d, s)
  BY <1>53 DEF MclagStep, On
<1>54. CASE \E d \in Domains, s \in Seconds : SetSessionTimeout(d, s)
  BY <1>54 DEF MclagStep, On
<1>55. CASE \E d \in Domains, l \in Lags : AddMclagMember(d, l)
  BY <1>55 DEF MclagStep, On
<1>56. CASE \E d \in Domains, l \in Lags : DelMclagMember(d, l)
  BY <1>56 DEF MclagStep, On
<1>57. CASE \E v \in On(Vlans) : AddUniqueIp(v)
  <2>1. \E v : db' = SetEntry(db, <<"MCLAG_UNIQUE_IP", v>>, NoFields)
    BY <1>57 DEF AddUniqueIp, Become
  <2> QED  BY <2>1, SetWrites, DropWrites, PutWrites DEF PlainTables
<1>58. CASE \E v \in On(Vlans) : DelUniqueIp(v)
  <2>1. \E v : db' = Without(db, {<<"MCLAG_UNIQUE_IP", v>>})
    BY <1>58 DEF DelUniqueIp, Become
  <2> QED  BY <2>1, SetWrites, DropWrites, PutWrites DEF PlainTables
<1>59. CASE \E x \in OnOff : ConsoleSwitch(x)
  BY <1>59, PutWrites, SettingWrites, SetWrites, DropWrites, NothingWrites DEF PlainTables, ConsoleSwitch, Become
<1>60. CASE \E n \in Lines, d \in Devices \cup {""} : AddLine(n, d)
  BY <1>60 DEF ConsoleStep, On
<1>61. CASE \E n \in Lines : DelLine(n)
  BY <1>61 DEF ConsoleStep, On
<1>62. CASE \E n \in Lines, d \in Devices \cup {""} : RemoteDevice(n, d)
  BY <1>62 DEF ConsoleStep, On
<1>63. CASE \E n \in Lines, x \in {"9600", "115200"} : Baud(n, x)
  BY <1>63 DEF ConsoleStep, On
<1>64. CASE \E n \in Lines, x \in {"0", "1"} : FlowControl(n, x)
  BY <1>64 DEF ConsoleStep, On
<1>65. CASE \E f \in Features, x \in OnOff : FeatureField(f, "owner", x)
  BY <1>65, PutWrites, ModWrites DEF PlainTables, FeatureField, Feature
<1>66. CASE \E f \in Features, x \in {"enabled", "disabled"} : FeatureAutorestart(f, x)
  BY <1>66, PutWrites, ModWrites DEF PlainTables, FeatureAutorestart, Feature
<1>67. CASE \E f \in Features, x \in {"enabled", "disabled"}, block \in BOOLEAN : SetFeatureState(f, x, block)
  BY <1>67, PutWrites, ModWrites DEF PlainTables, SetFeatureState, Feature
<1>68. CASE FeatureReached
  BY <1>68, PutWrites, SettingWrites, SetWrites, DropWrites, NothingWrites DEF PlainTables, FeatureReached, Become
<1>69. CASE \E f \in Features : FeatureDaemon(f)
  BY <1>69, PutWrites, SettingWrites, SetWrites, DropWrites, NothingWrites DEF PlainTables, FeatureDaemon, Become
<1> QED
  BY <1>1, <1>2, <1>3, <1>4, <1>5, <1>6, <1>7, <1>8, <1>9, <1>10, <1>11, <1>12, <1>13, <1>14, <1>15, <1>16, <1>17, <1>18, <1>19, <1>20, <1>21, <1>22, <1>23, <1>24, <1>25, <1>26, <1>27, <1>28, <1>29, <1>30, <1>31, <1>32, <1>33, <1>34, <1>35, <1>36, <1>37, <1>38, <1>39, <1>40, <1>41, <1>42, <1>43, <1>44, <1>45, <1>46, <1>47, <1>48, <1>49, <1>50, <1>51, <1>52, <1>53, <1>54, <1>55, <1>56, <1>57, <1>58, <1>59, <1>60, <1>61, <1>62, <1>63, <1>64, <1>65, <1>66, <1>67, <1>68, <1>69 DEF ServicesNext

LEMMA ConsoleWrites == ASSUME ConsoleStep PROVE Writes({"CONSOLE_PORT"})
<1> DEFINE T == {"CONSOLE_PORT"}
<1>0. \A n : Line(n)[1] \in T
  BY DEF Line
<1>1. ASSUME NEW n, DelLine(n) PROVE Writes(T)
  BY <1>0, <1>1, DropWrites DEF DelLine, Become
<1>2. ASSUME NEW n, NEW d, AddLine(n, d) PROVE Writes(T)
  <2>1. \E f : db' = SetEntry(db, Line(n), f)
    BY <1>2 DEF AddLine, Become
  <2> QED  BY <1>0, <2>1, SetWrites
<1>3. ASSUME NEW n, NEW d, RemoteDevice(n, d) PROVE Writes(T)
  <2>1. \E f : db' = ModEntry(db, Line(n), f)
    BY <1>3 DEF RemoteDevice, Become
  <2> QED  BY <1>0, <2>1, ModWrites
<1>4. ASSUME NEW n, NEW x, Baud(n, x) \/ FlowControl(n, x) PROVE Writes(T)
  BY <1>0, <1>4, PutWrites DEF Baud, FlowControl
<1> QED  BY <1>1, <1>2, <1>3, <1>4 DEF ConsoleStep

LEMMA MclagWrites == ASSUME MclagStep PROVE Writes(MclagTables)
<1> DEFINE T == MclagTables
<1>0. \A d : Domain(d)[1] \in T
  BY DEF Domain, MclagTables
<1>1. ASSUME NEW d, AddDomain(d) PROVE Writes(T)
  BY <1>0, <1>1, SetWrites DEF AddDomain, Become
<1>2. ASSUME NEW d, DelDomain(d) PROVE Writes(T)
  <2>1. \A r \in {Domain(d)} \cup {x \in KeysOf("MCLAG_INTERFACE") : x[2] = d} : r[1] \in T
    BY <1>0 DEF KeysOf, MclagTables
  <2> QED  BY <1>2, <2>1, DropWrites DEF DelDomain, Become
<1>3. ASSUME NEW d, NEW s, SetKeepalive(d, s) \/ SetSessionTimeout(d, s) PROVE Writes(T)
  BY <1>0, <1>3, PutWrites DEF SetKeepalive, SetSessionTimeout
<1>4. ASSUME NEW d, NEW l, AddMclagMember(d, l) PROVE Writes(T)
  <2>1. db' = SetEntry(db, <<"MCLAG_INTERFACE", d, l>>, NoFields)
    BY <1>4 DEF AddMclagMember, Become
  <2> QED  BY <2>1, SetWrites DEF MclagTables
<1>5. ASSUME NEW d, NEW l, DelMclagMember(d, l) PROVE Writes(T)
  <2>1. db' = Without(db, {<<"MCLAG_INTERFACE", d, l>>})
    BY <1>5 DEF DelMclagMember, Become
  <2> QED  BY <2>1, DropWrites DEF MclagTables
<1> QED  BY <1>1, <1>2, <1>3, <1>4, <1>5 DEF MclagStep

LEMMA AgentWrites == ASSUME AgentStep PROVE Writes({"SNMP_AGENT_ADDRESS_CONFIG"})
<1>0. \A a, v : Agent(a, v)[1] \in {"SNMP_AGENT_ADDRESS_CONFIG"}
  BY DEF Agent
<1>1. \E a, v : db' = SetEntry(db, Agent(a, v), NoFields) \/ db' = Without(db, {Agent(a, v)})
  BY DEF AgentStep, AddAgent, DelAgent, Become
<1> QED  BY <1>0, <1>1, SetWrites, DropWrites

LEMMA SnmpWrites == ASSUME SnmpStep PROVE Writes({"SNMP"})
<1> DEFINE T == {"SNMP"}
<1>0. Contact[1] \in T /\ Location[1] \in T
  BY DEF Contact, Location
<1>1. ASSUME NEW c, NEW mail, AddContact(c, mail) \/ ModifyContact(c, mail) PROVE Writes(T)
  BY <1>0, <1>1, SetWrites DEF AddContact, ModifyContact, Become
<1>2. ASSUME NEW c, DelContact(c) \/ DelLocation(c) PROVE Writes(T)
  BY <1>0, <1>2, DropWrites DEF DelContact, DelLocation, Become
<1>3. ASSUME NEW x, AddLocation(x) \/ ModifyLocation(x) PROVE Writes(T)
  BY <1>0, <1>3, SetWrites, PutWrites DEF AddLocation, ModifyLocation, Become
<1> QED  BY <1>1, <1>2, <1>3 DEF SnmpStep

LEMMA CollectorWrites == ASSUME CollectorStep PROVE Writes({"SFLOW_COLLECTOR"})
  BY PutWrites, DropWrites DEF CollectorStep, AddCollector, DelCollector, Become

LEMMA RadiusWrites == ASSUME RadiusStep PROVE Writes({"RADIUS_SERVER"})
  BY SetWrites, DropWrites DEF RadiusStep, AddRadius, DelRadius, Become

LEMMA KubeWrites == ASSUME KubeStep PROVE Writes({"KUBERNETES_MASTER"})
<1>1. \E f : db' = ModEntry(db, <<"KUBERNETES_MASTER", "SERVER">>, f)
  BY DEF KubeStep, KubeServer, Become
<1> QED  BY <1>1, ModWrites

\* The commands of services write none but these tables.
LEMMA ServicesWrite == ASSUME ServicesNext PROVE Writes(ServiceTables)
  BY ServiceSteps, ConsoleWrites, MclagWrites, AgentWrites, SnmpWrites, CollectorWrites, RadiusWrites, KubeWrites,
     WritesMore DEF ServiceTables

----------------------------------------------------------------------------
(* The commands of buffers, by what they write.                            *)

BufferTables == QosTables \cup {"DEVICE_METADATA", "PORT", "PFC_WD", "DSCP_TO_FC_MAP"}

PgStep ==
    \E p \in BufferPorts :
        \/ RemovePgs(p)
        \/ \E m \in Maps : RemovePg(p, m) \/ \E f \in Profiles \cup {"NULL"}, new \in BOOLEAN : SetPg(p, m, f, new)
QueueStep ==
    \E p \in BufferPorts :
        \/ \E ms \in SUBSET Removable(Queue, p) : RemoveQueues(p, ms)
        \/ \E m \in Maps, f \in Profiles, new \in BOOLEAN : SetQueue(p, m, f, new)
CableStep == \E p \in BufferPorts, len \in {"5m", "40m"} : CableLength(p, len)
ProfileStep ==
    \E f \in Profiles :
        RemoveProfile(f) \/ \E new \in NewSizes, pool \in Pools : AddProfile(f, new, pool) \/ SetProfile(f, new, pool)
PoolStep == \E n \in 0 .. 1 : OverSubscribeRatio(n) \/ HeadroomPoolSize(n)
QosStep ==
    \/ ClearQos
    \/ \E dry \in BOOLEAN : ReloadQos(dry) \/ \E ps \in SUBSET BufferPorts : ReloadPorts(ps, dry)
    \/ \E model \in {"dynamic", "traditional"}, found \in BOOLEAN : WriteQos(model, found)
    \/ \E rendered \in BOOLEAN : WritePorts(rendered)
CbfStep == ClearCbf \/ \E dry \in BOOLEAN : ReloadCbf(dry)
PfcStep == \E p \in BufferPorts, id \in 0 .. MaxPg, status \in {"on", "off"} : PfcPriority(p, id, status)
AsymStep == \E p \in BufferPorts, status \in {"on", "off"} : PfcAsymmetric(p, status)
WatchStep ==
    \/ \E ps, t, u : StartWatchdog(ps, t, u)
    \/ \E ps : StopWatchdog(ps) \/ StartDefaultWatchdog(ps)
    \/ \E n : WatchdogInterval(n)

LEMMA BufferSteps ==
  ASSUME BuffersNext
  PROVE  \/ PgStep \/ QueueStep \/ CableStep \/ ProfileStep \/ PoolStep \/ QosStep \/ CbfStep \/ PfcStep
         \/ AsymStep \/ WatchStep
<1>1. CASE \E p \in On(BufferPorts), m \in Maps, f \in Profiles \cup {"NULL"}, new \in BOOLEAN : SetPg(p, m, f, new)
  BY <1>1 DEF PgStep, On
<1>2. CASE \E p \in On(BufferPorts), m \in Maps, f \in Profiles, new \in BOOLEAN : SetQueue(p, m, f, new)
  BY <1>2 DEF QueueStep, On
<1>3. CASE \E p \in On(BufferPorts), m \in Maps : RemovePg(p, m)
  BY <1>3 DEF PgStep, On
<1>4. CASE \E p \in On(BufferPorts) : RemovePgs(p)
  BY <1>4 DEF PgStep, On
<1>5. CASE \E p \in On(BufferPorts) : \E ms \in SUBSET Removable(Queue, p) : RemoveQueues(p, ms)
  BY <1>5 DEF QueueStep, On
<1>6. CASE \E p \in On(BufferPorts), len \in {"5m", "40m"} : CableLength(p, len)
  BY <1>6 DEF CableStep, On
<1>7. CASE \E f \in On(Profiles), new \in NewSizes, pool \in Pools : AddProfile(f, new, pool)
  BY <1>7 DEF ProfileStep, On
<1>8. CASE \E f \in On(Profiles), new \in NewSizes, pool \in Pools : SetProfile(f, new, pool)
  BY <1>8 DEF ProfileStep, On
<1>9. CASE \E f \in On(Profiles) : RemoveProfile(f)
  BY <1>9 DEF ProfileStep, On
<1>10. CASE \E n \in 0 .. 1 : OverSubscribeRatio(n)
  BY <1>10 DEF PoolStep, On
<1>11. CASE \E n \in 0 .. 1 : HeadroomPoolSize(n)
  BY <1>11 DEF PoolStep, On
<1>12. CASE ClearQos
  BY <1>12 DEF QosStep, On
<1>13. CASE \E dry \in BOOLEAN : ReloadQos(dry)
  BY <1>13 DEF QosStep, On
<1>14. CASE \E model \in {"dynamic", "traditional"}, found \in BOOLEAN : WriteQos(model, found)
  BY <1>14 DEF QosStep, On
<1>15. CASE \E ps \in SUBSET On(BufferPorts), dry \in BOOLEAN : ReloadPorts(ps, dry)
  BY <1>15 DEF QosStep, On
<1>16. CASE \E rendered \in BOOLEAN : WritePorts(rendered)
  BY <1>16 DEF QosStep, On
<1>17. CASE \E dry \in BOOLEAN : ReloadCbf(dry)
  BY <1>17 DEF CbfStep, On
<1>18. CASE ClearCbf
  BY <1>18 DEF CbfStep, On
<1>19. CASE \E p \in On(BufferPorts), id \in 0 .. MaxPg, status \in {"on", "off"} : PfcPriority(p, id, status)
  BY <1>19 DEF PfcStep, On
<1>20. CASE \E p \in On(BufferPorts), status \in {"on", "off"} : PfcAsymmetric(p, status)
  BY <1>20 DEF AsymStep, On
<1>21. CASE \E ps \in SUBSET On(BufferPorts), t \in {100, 400}, u \in {0, 400} : StartWatchdog(ps, t, u)
  BY <1>21 DEF WatchStep, On
<1>22. CASE \E ps \in SUBSET On(BufferPorts) : StopWatchdog(ps)
  BY <1>22 DEF WatchStep, On
<1>23. CASE \E n \in {100, 400} : WatchdogInterval(n)
  BY <1>23 DEF WatchStep, On
<1>24. CASE \E ps \in SUBSET On(BufferPorts) : StartDefaultWatchdog(ps)
  BY <1>24 DEF WatchStep, On
<1> QED
  BY <1>1, <1>2, <1>3, <1>4, <1>5, <1>6, <1>7, <1>8, <1>9, <1>10, <1>11, <1>12, <1>13, <1>14, <1>15, <1>16, <1>17, <1>18, <1>19, <1>20, <1>21, <1>22, <1>23, <1>24 DEF BuffersNext

LEMMA PfcWithin ==
  ASSUME NEW d, NEW p, NEW ids
  PROVE  Within({"PORT_QOS_MAP"}, d, WithPfc(d, p, ids))
<1>1. <<"PORT_QOS_MAP", p>>[1] \in {"PORT_QOS_MAP"}
  OBVIOUS
<1> QED  BY <1>1, SetWithin DEF WithPfc

LEMMA PgWrites == ASSUME PgStep PROVE Writes({"BUFFER_PG", "PORT_QOS_MAP"})
<1> DEFINE T == {"BUFFER_PG", "PORT_QOS_MAP"}
<1>0. \A p, m : Pg(p, m)[1] \in T
  BY DEF Pg
<1>1. ASSUME NEW d, Within(T, db, d), \E p, ids : db' = WithPfc(d, p, ids) PROVE Writes(T)
  <2>1. Within(T, d, db')
    BY <1>1, PfcWithin DEF Within
  <2> QED  BY <1>1, <2>1, WithinTwice DEF Writes
<1>2. ASSUME NEW p, RemovePgs(p) PROVE Writes(T)
  <2> DEFINE S == {Pg(p, m) : m \in Removable(Pg, p)}
  <2>1. \A r \in S : r[1] \in T
    BY <1>0
  <2>2. Within(T, db, Without(db, S))
    BY <2>1, WithoutWithin
  <2>3. db' = WithPfc(Without(db, S), p, {})
    BY <1>2 DEF RemovePgs, Become
  <2> HIDE DEF S
  <2> QED  BY <1>1, <2>2, <2>3
<1>3. ASSUME NEW p, NEW m, RemovePg(p, m) PROVE Writes(T)
  <2>1. Within(T, db, Without(db, {Pg(p, m)}))
    BY <1>0, WithoutWithin
  <2> QED  BY <1>1, <1>3, <2>1 DEF RemovePg, Become
<1>4. ASSUME NEW p, NEW m, NEW f, NEW new, SetPg(p, m, f, new) PROVE Writes(T)
  <2>1. Within(T, db, SetEntry(db, Pg(p, m), [profile |-> f]))
    BY <1>0, SetWithin
  <2> QED  BY <1>1, <1>4, <2>1 DEF SetPg, Become
<1> QED  BY <1>2, <1>3, <1>4 DEF PgStep

LEMMA QueueWrites == ASSUME QueueStep PROVE Writes({"BUFFER_QUEUE"})
<1> DEFINE T == {"BUFFER_QUEUE"}
<1>0. \A p, m : Queue(p, m)[1] \in T
  BY DEF Queue
<1>1. ASSUME NEW p, NEW ms, RemoveQueues(p, ms) PROVE Writes(T)
  BY <1>0, <1>1, DropWrites DEF RemoveQueues, Become
<1>2. ASSUME NEW p, NEW m, NEW f, NEW new, SetQueue(p, m, f, new) PROVE Writes(T)
  BY <1>0, <1>2, SetWrites DEF SetQueue, Become
<1> QED  BY <1>1, <1>2 DEF QueueStep

LEMMA CableWrites == ASSUME CableStep PROVE Writes({"CABLE_LENGTH"})
<1>1. \E r \in KeysOf("CABLE_LENGTH") : \E f : db' = ModEntry(db, r, f)
  BY DEF CableStep, CableLength, Become
<1> QED  BY <1>1, ModWrites DEF KeysOf

LEMMA ProfileWrites == ASSUME ProfileStep PROVE Writes({"BUFFER_PROFILE"})
<1>0. \A f : Profile(f)[1] \in {"BUFFER_PROFILE"}
  BY DEF Profile
<1>1. \E f : db' = Without(db, {Profile(f)}) \/ \E x : db' = SetEntry(db, Profile(f), x)
  BY DEF ProfileStep, RemoveProfile, AddProfile, SetProfile, Become
<1> QED  BY <1>0, <1>1, DropWrites, SetWrites

LEMMA PoolWrites == ASSUME PoolStep PROVE Writes({"BUFFER_POOL", "DEFAULT_LOSSLESS_BUFFER_PARAMETER"})
<1>0. \A f : <<"BUFFER_POOL", f>>[1] = "BUFFER_POOL" /\ Defaults[1] = "DEFAULT_LOSSLESS_BUFFER_PARAMETER"
  BY DEF Defaults
<1>1. \E x : db' = SetEntry(db, Defaults, x) \/ db' = SetEntry(db, <<"BUFFER_POOL", "ingress_lossless_pool">>, x)
  BY DEF PoolStep, OverSubscribeRatio, HeadroomPoolSize, Become
<1> QED  BY <1>0, <1>1, SetWrites

LEMMA ClearedWithin ==
  ASSUME NEW d, NEW T
  PROVE  Within(T, d, Cleared(d, T))
<1>1. \A r \in {x \in DOMAIN d : x[1] \in T} : r[1] \in T
  OBVIOUS
<1> QED  BY <1>1, WithoutWithin DEF Cleared

LEMMA QosWrites == ASSUME QosStep PROVE Writes(QosTables \cup {"DEVICE_METADATA"})
<1> DEFINE T == QosTables \cup {"DEVICE_METADATA"}
<1>0. \A d, e : Within(QosTables, d, e) => Within(T, d, e)
  BY DEF Within
<1>1. CASE ClearQos \/ \E dry \in BOOLEAN : ReloadQos(dry)
  BY <1>0, <1>1, ClearedWithin, NothingWithin DEF ClearQos, ReloadQos, Become, Writes
<1>2. ASSUME NEW ps, NEW dry, ReloadPorts(ps, dry) PROVE Writes(T)
  <2>1. \A r \in OfPorts(ps, {"BUFFER_PG", "BUFFER_QUEUE"}) : r[1] \in T
    BY DEF OfPorts, QosTables
  <2> QED  BY <1>2, <2>1, DropWrites DEF ReloadPorts
<1>3. ASSUME NEW model, NEW found, WriteQos(model, found) PROVE Writes(T)
  <2> DEFINE d == ModEntry(db, Metadata, [buffer_model |-> model])
             g == Rendered({r \in DOMAIN Template : r[1] \in QosTables})
  <2>1. Within(T, db, d)
    BY ModWithin DEF Metadata
  <2>2. \A r \in DOMAIN g : r[1] \in T
    BY DEF Rendered
  <2>3. Within(T, d, g @@ d)
    BY <2>2, MergeWithin
  <2>4. db' = d \/ db' = g @@ d
    BY <1>3 DEF WriteQos
  <2> HIDE DEF d, g
  <2> QED  BY <2>1, <2>3, <2>4, WithinTwice DEF Writes
<1>4. ASSUME NEW rendered, WritePorts(rendered) PROVE Writes(T)
  <2> DEFINE rows == OfPorts(job.of, {"PORT_QOS_MAP", "BUFFER_PG", "BUFFER_QUEUE"})
             cable == {r \in DOMAIN Template : r[1] = "CABLE_LENGTH"}
             lengths == [r \in cable |-> [p \in job.of \cap DOMAIN Template[r] |-> Template[r][p]] @@ Entry(r)]
  <2>1. db' = db \/ db' = Rendered(rows) @@ lengths @@ db
    BY <1>4 DEF WritePorts
  <2>2. \A r \in DOMAIN Rendered(rows) : r[1] \in T
    BY DEF Rendered, OfPorts, QosTables
  <2>3. \A r \in DOMAIN lengths : r[1] \in T
    BY DEF QosTables
  <2>4. \A r \in DOMAIN (Rendered(rows) @@ lengths) : r[1] \in T
    <3>1. DOMAIN (Rendered(rows) @@ lengths) = DOMAIN Rendered(rows) \cup DOMAIN lengths
      BY ONLY MergeFacts
    <3> QED  BY <2>2, <2>3, <3>1
  <2> HIDE DEF rows, lengths
  <2> QED  BY <2>1, <2>4, OverWrites, NothingWrites
<1> QED  BY <1>1, <1>2, <1>3, <1>4 DEF QosStep

LEMMA CbfWrites == ASSUME CbfStep PROVE Writes({"DSCP_TO_FC_MAP"})
<1> DEFINE T == {"DSCP_TO_FC_MAP"}
           g == Rendered({r \in DOMAIN Template : r[1] = "DSCP_TO_FC_MAP"})
           d == Cleared(db, {"DSCP_TO_FC_MAP"})
<1>1. Within(T, db, d)
  BY ClearedWithin
<1>2. \A r \in DOMAIN g : r[1] \in T
  BY DEF Rendered
<1>3. Within(T, d, g @@ d)
  BY <1>2, MergeWithin
<1>4. db' = d \/ db' = g @@ d
  BY DEF CbfStep, ClearCbf, ReloadCbf, Become
<1> HIDE DEF d, g
<1> QED  BY <1>1, <1>3, <1>4, WithinTwice DEF Writes

LEMMA PfcWrites == ASSUME PfcStep PROVE Writes({"PORT_QOS_MAP"})
  BY PfcWithin DEF PfcStep, PfcPriority, Become, Writes

LEMMA AsymWrites == ASSUME AsymStep PROVE Writes({"PORT"})
<1>1. \E p, x : db' = ModEntry(db, <<"PORT", p>>, [pfc_asym |-> x])
  BY DEF AsymStep, PfcAsymmetric, Become
<1> QED  BY <1>1, ModWrites

LEMMA WatchWrites == ASSUME WatchStep PROVE Writes({"PFC_WD"})
<1> DEFINE T == {"PFC_WD"}
<1>0. Global[1] \in T /\ \A p : Watched(p)[1] \in T
  BY DEF Global, Watched
<1>1. ASSUME NEW ps, NEW info PROVE Within(T, db, Watch(db, ps, info))
  <2> DEFINE g == [r \in {Watched(p) : p \in {q \in ps : "pfc_enable" \in DOMAIN QosMap(db, q)}} |-> info]
  <2>1. \A r \in DOMAIN g : r[1] \in T
    BY <1>0
  <2>2. Watch(db, ps, info) = g @@ db
    BY DEF Watch
  <2> HIDE DEF g
  <2> QED  BY <2>1, <2>2, MergeWithin
<1>2. ASSUME NEW ps, NEW t, NEW u, StartWatchdog(ps, t, u) PROVE Writes(T)
  BY <1>1, <1>2 DEF StartWatchdog, Become, Writes
<1>3. ASSUME NEW ps, StopWatchdog(ps) PROVE Writes(T)
  BY <1>0, <1>3, DropWrites DEF StopWatchdog, Become
<1>4. ASSUME NEW ps, StartDefaultWatchdog(ps) PROVE Writes(T)
  <2>1. \E info, x : db' = ModEntry(Watch(db, ps, info), Global, x)
    BY <1>4 DEF StartDefaultWatchdog, Become
  <2> QED  BY <1>0, <1>1, <2>1, ModWithin, WithinTwice DEF Writes
<1>5. ASSUME NEW n, WatchdogInterval(n) PROVE Writes(T)
  BY <1>0, <1>5, ModWrites DEF WatchdogInterval, Become
<1> QED  BY <1>2, <1>3, <1>4, <1>5 DEF WatchStep

\* The commands of buffers write none but these tables.
LEMMA BuffersWrite == ASSUME BuffersNext PROVE Writes(BufferTables)
  BY BufferSteps, PgWrites, QueueWrites, CableWrites, ProfileWrites, PoolWrites, QosWrites, CbfWrites, PfcWrites,
     AsymWrites, WatchWrites, WritesMore DEF BufferTables, QosTables

----------------------------------------------------------------------------
(* The commands of ACLs and NAT, by what they write.                       *)

NatTables == {"STATIC_NAT", "STATIC_NAPT", "NAT_POOL", "NAT_BINDINGS"}
TrafficTables == {"ACL_TABLE", "ACL_RULE", "NAT_GLOBAL"} \cup NatTables \cup OwnTables

AclTableStep ==
    \E t \in AclTables :
        RemoveAclTable(t) \/ \E type, stage : \E names \in SUBSET (Ports \cup Lags \cup Vlans) : AddAclTable(t, type, stage, names)
RuleStep ==
    \/ \E file \in AclFiles, s \in Sessions \cup {""} : UpdateIncremental(file, s) \/ \E t : UpdateFull(file, s, t)
    \/ \E t, seq : DeleteRules(t, seq)
NatStep ==
    \/ \E g, l \in Ips, type \in {"", "snat"}, id \in TwiceIds :
          AddBasic(g, l, type, id) \/ \E p \in {"TCP", "UDP"} : AddNapt(g, p, l, type, id)
    \/ \E g, l \in Ips : RemoveBasic(g, l) \/ \E p \in {"TCP", "UDP"} : RemoveNapt(g, p, l)
    \/ RemoveStaticAll
    \/ \E q \in NatPools : RemovePool(q) \/ \E first, last \in Ips : AddPool(q, <<first, last>>)
    \/ RemovePools
    \/ \E b \in Bindings : RemoveBinding(b) \/ \E q \in NatPools, id \in TwiceIds : AddBinding(b, q, id)
    \/ RemoveBindings
ZoneStep == RemoveNatInterfaces \/ \E i \in Routed, zone \in {"0", "1"} : NatZone(i, zone)
GlobalStep == \E f, x : NatFeature(f, x)

LEMMA TrafficSteps ==
  ASSUME TrafficNext
  PROVE  AclTableStep \/ RuleStep \/ NatStep \/ ZoneStep \/ GlobalStep
<1>1. CASE \E t \in On(AclTables), type \in AclTypes, stage \in Stages : \E names \in Fewer(On(Ports \cup Lags \cup Vlans)) : AddAclTable(t, type, stage, names)
  BY <1>1 DEF AclTableStep, On, Fewer
<1>2. CASE \E t \in On(AclTables) : RemoveAclTable(t)
  BY <1>2 DEF AclTableStep, On, Fewer
<1>3. CASE \E file \in AclFiles, s \in Sessions \cup {""}, t \in On(AclTables) \cup {""} : UpdateFull(file, s, t)
  BY <1>3 DEF RuleStep, On, Fewer
<1>4. CASE \E file \in AclFiles, s \in Sessions \cup {""} : UpdateIncremental(file, s)
  BY <1>4 DEF RuleStep, On, Fewer
<1>5. CASE \E t \in On(AclTables) \cup {""}, seq \in {-1, 0, 1} : DeleteRules(t, seq)
  BY <1>5 DEF RuleStep, On, Fewer
<1>6. CASE \E g, l \in Ips, type \in {"", "snat"}, id \in TwiceIds : AddBasic(g, l, type, id)
  BY <1>6 DEF NatStep, On, Fewer
<1>7. CASE \E g, l \in Ips, p \in {"TCP", "UDP"}, type \in {"", "snat"}, id \in TwiceIds : AddNapt(g, p, l, type, id)
  BY <1>7 DEF NatStep, On, Fewer
<1>8. CASE \E g, l \in Ips : RemoveBasic(g, l)
  BY <1>8 DEF NatStep, On, Fewer
<1>9. CASE \E g, l \in Ips, p \in {"TCP", "UDP"} : RemoveNapt(g, p, l)
  BY <1>9 DEF NatStep, On, Fewer
<1>10. CASE RemoveStaticAll
  BY <1>10 DEF NatStep, On, Fewer
<1>11. CASE \E q \in NatPools, first, last \in Ips : AddPool(q, <<first, last>>)
  BY <1>11 DEF NatStep, On, Fewer
<1>12. CASE \E b \in Bindings, q \in NatPools, id \in TwiceIds : AddBinding(b, q, id)
  BY <1>12 DEF NatStep, On, Fewer
<1>13. CASE \E q \in NatPools : RemovePool(q)
  BY <1>13 DEF NatStep, On, Fewer
<1>14. CASE RemovePools
  BY <1>14 DEF NatStep, On, Fewer
<1>15. CASE \E b \in Bindings : RemoveBinding(b)
  BY <1>15 DEF NatStep, On, Fewer
<1>16. CASE RemoveBindings
  BY <1>16 DEF NatStep, On, Fewer
<1>17. CASE \E i \in On(Routed), zone \in {"0", "1"} : NatZone(i, zone)
  BY <1>17 DEF ZoneStep, On, Fewer
<1>18. CASE RemoveNatInterfaces
  BY <1>18 DEF ZoneStep, On, Fewer
<1>19. CASE \E f \in {"admin_mode", "nat_timeout"}, x \in {"a", "b"} : NatFeature(f, x)
  BY <1>19 DEF GlobalStep, On, Fewer
<1> QED
  BY <1>1, <1>2, <1>3, <1>4, <1>5, <1>6, <1>7, <1>8, <1>9, <1>10, <1>11, <1>12, <1>13, <1>14, <1>15, <1>16, <1>17, <1>18, <1>19 DEF TrafficNext

LEMMA AclTableWrites == ASSUME AclTableStep PROVE Writes({"ACL_TABLE"})
<1>0. \A t : AclTable(t)[1] \in {"ACL_TABLE"}
  BY DEF AclTable
<1>1. \E t : db' = Without(db, {AclTable(t)}) \/ \E f : db' = SetEntry(db, AclTable(t), f)
  BY DEF AclTableStep, RemoveAclTable, AddAclTable, Become
<1> QED  BY <1>0, <1>1, SetWrites, DropWrites

LEMMA ConvertedRows ==
  ASSUME NEW file, NEW s, NEW t
  PROVE  \A r \in DOMAIN ConvertRules(file, s, t) : r[1] \in {"ACL_RULE"}
<1>1. \A u, seq : AclRule(u, seq)[1] \in {"ACL_RULE"}
  BY DEF AclRule
<1> QED  BY <1>1 DEF ConvertRules

LEMMA RuleWrites == ASSUME RuleStep PROVE Writes({"ACL_RULE"})
<1> DEFINE T == {"ACL_RULE"}
<1>1. ASSUME NEW S, S \subseteq KeysOf("ACL_RULE") PROVE Within(T, db, Without(db, S))
  <2>1. \A r \in S : r[1] \in T
    BY <1>1 DEF KeysOf
  <2> QED  BY <2>1, WithoutWithin
<1>2. ASSUME NEW t, NEW seq, DeleteRules(t, seq) PROVE Writes(T)
  <2>1. \E S \in SUBSET KeysOf("ACL_RULE") : db' = Without(db, S)
    BY <1>2 DEF DeleteRules, Become
  <2> QED  BY <1>1, <2>1 DEF Writes
<1>3. ASSUME NEW file, NEW s, NEW t, UpdateFull(file, s, t) PROVE Writes(T)
  <2>1. \E S \in SUBSET KeysOf("ACL_RULE") : db' = ConvertRules(file, s, t) @@ Without(db, S)
    BY <1>3 DEF UpdateFull, FullUpdate, Become
  <2>2. PICK S \in SUBSET KeysOf("ACL_RULE") : db' = ConvertRules(file, s, t) @@ Without(db, S)
    BY <2>1
  <2>3. Within(T, Without(db, S), ConvertRules(file, s, t) @@ Without(db, S))
    BY ConvertedRows, MergeWithin
  <2>4. Within(T, db, Without(db, S))
    BY <1>1
  <2> QED  BY <2>2, <2>3, <2>4, WithinTwice DEF Writes
<1>4. ASSUME NEW file, NEW s, UpdateIncremental(file, s) PROVE Writes(T)
  <2> DEFINE new == ConvertRules(file, s, "")
  <2>1. \E S \in SUBSET KeysOf("ACL_RULE"), A \in SUBSET DOMAIN new, B \in SUBSET DOMAIN new :
           db' = [r \in A |-> new[r]] @@ [r \in B |-> new[r]] @@ Without(db, S)
    <3> DEFINE current == KeysOf("ACL_RULE")
               control == {r \in current : IsControlPlane(r[2])}
               S == (current \ control) \cup (control \ DOMAIN new)
               B == DOMAIN new \ (DOMAIN new \cap control)
               A == {r \in DOMAIN new \cap control : new[r] # db[r]}
    <3>1. db' = [r \in A |-> new[r]] @@ [r \in B |-> new[r]] @@ Without(db, S)
      BY <1>4 DEF UpdateIncremental, IncrementalUpdate, Become
    <3>2. S \subseteq KeysOf("ACL_RULE") /\ A \subseteq DOMAIN new /\ B \subseteq DOMAIN new
      OBVIOUS
    <3> HIDE DEF A, B, S
    <3> QED  BY <3>1, <3>2
  <2>2. PICK S \in SUBSET KeysOf("ACL_RULE"), A \in SUBSET DOMAIN new, B \in SUBSET DOMAIN new :
           db' = [r \in A |-> new[r]] @@ [r \in B |-> new[r]] @@ Without(db, S)
    BY <2>1
  <2>3. \A r \in DOMAIN new : r[1] \in T
    BY ConvertedRows
  <2> DEFINE a == [r \in A |-> new[r]]
             b == [r \in B |-> new[r]]
  <2>4. DOMAIN (a @@ b) = DOMAIN a \cup DOMAIN b
    BY ONLY MergeFacts
  <2>5. \A r \in DOMAIN (a @@ b) : r[1] \in T
    BY <2>3, <2>4
  <2>7. db' = (a @@ b) @@ Without(db, S)
    BY <2>2
  <2>8. Within(T, db, Without(db, S))
    BY <1>1
  <2> HIDE DEF a, b
  <2>6. Within(T, Without(db, S), (a @@ b) @@ Without(db, S))
    BY <2>5, MergeWithin
  <2> QED  BY <2>6, <2>7, <2>8, WithinTwice DEF Writes
<1> QED  BY <1>2, <1>3, <1>4 DEF RuleStep

LEMMA NatWrites == ASSUME NatStep PROVE Writes(NatTables)
<1> DEFINE T == NatTables
<1>0. /\ \A g : StaticNat(g)[1] \in T /\ Pool(g)[1] \in T /\ Binding(g)[1] \in T
      /\ \A g, p : Napt(g, p)[1] \in T
      /\ \A x \in T : \A r \in KeysOf(x) : r[1] \in T
  BY DEF StaticNat, Napt, Pool, Binding, NatTables, KeysOf
<1>1. ASSUME NEW g, NEW p, NEW l, NEW type, NEW id, AddBasic(g, l, type, id) \/ AddNapt(g, p, l, type, id) PROVE Writes(T)
  BY <1>0, <1>1, SetWrites DEF AddBasic, AddNapt, Become
<1>2. ASSUME NEW g, NEW p, NEW l, RemoveBasic(g, l) \/ RemoveNapt(g, p, l) PROVE Writes(T)
  BY <1>0, <1>2, DropWrites DEF RemoveBasic, RemoveNapt, Become
<1>3. CASE RemoveStaticAll \/ RemovePools \/ RemoveBindings
  <2>1. \E S \in SUBSET {r : r \in UNION {KeysOf(x) : x \in T}} : db' = Without(db, S)
    BY <1>3 DEF RemoveStaticAll, RemovePools, RemoveBindings, Become, NatTables
  <2> QED  BY <1>0, <2>1, DropWrites
<1>4. ASSUME NEW q, NEW range, AddPool(q, range) PROVE Writes(T)
  BY <1>0, <1>4, SetWrites DEF AddPool, Become
<1>5. ASSUME NEW q, RemovePool(q) \/ RemoveBinding(q) PROVE Writes(T)
  BY <1>0, <1>5, DropWrites DEF RemovePool, RemoveBinding, Become
<1>6. ASSUME NEW b, NEW q, NEW id, AddBinding(b, q, id) PROVE Writes(T)
  BY <1>0, <1>6, SetWrites DEF AddBinding, Become
<1> QED  BY <1>1, <1>2, <1>3, <1>4, <1>5, <1>6 DEF NatStep

LEMMA ZoneWrites == ASSUME ZoneStep PROVE Writes(OwnTables)
<1>0. \A i : Own(i)[1] \in OwnTables
  BY OwnFacts
<1>1. CASE RemoveNatInterfaces
  <2> DEFINE g == [r \in {Own(i) : i \in Routed \ Subs} \cap Rows |-> [nat_zone |-> "0"]]
  <2>1. db' = g @@ db
    BY <1>1 DEF RemoveNatInterfaces, Become
  <2>2. \A r \in DOMAIN g : r[1] \in OwnTables
    BY <1>0
  <2> HIDE DEF g
  <2> QED  BY <2>1, <2>2, OverWrites
<1>2. ASSUME NEW i, NEW zone, NatZone(i, zone) PROVE Writes(OwnTables)
  BY <1>0, <1>2, ModWrites DEF NatZone, Become
<1> QED  BY <1>1, <1>2 DEF ZoneStep

LEMMA GlobalWrites == ASSUME GlobalStep PROVE Writes({"NAT_GLOBAL"})
<1>1. \E x : db' = ModEntry(db, <<"NAT_GLOBAL", "Values">>, x)
  BY DEF GlobalStep, NatFeature, Become
<1> QED  BY <1>1, ModWrites

\* The commands of ACLs and NAT write none but these tables.
LEMMA TrafficWrite == ASSUME TrafficNext PROVE Writes(TrafficTables)
  BY TrafficSteps, AclTableWrites, RuleWrites, NatWrites, ZoneWrites, GlobalWrites, WritesMore DEF TrafficTables

----------------------------------------------------------------------------
(* The commands of policies, by what they write.                           *)

PbhTables == {"PBH_TABLE", "PBH_HASH", "PBH_HASH_FIELD", "PBH_RULE", "PBH_SAVED"}
NvgreTables == {"NVGRE_TUNNEL", "NVGRE_TUNNEL_MAP"}
DropTables == {"DEBUG_COUNTER", "DEBUG_COUNTER_DROP_REASON"}
\* Rows that no check relates to others.
KnobTables == {"AUTO_TECHSUPPORT", "AUTO_TECHSUPPORT_FEATURE", "MUX_CABLE", "MUX_LINKMGR", "XCVRD_LOG", "FLEX_COUNTER_TABLE", "QUEUE"}
PolicyTables == PbhTables \cup NvgreTables \cup DropTables \cup KnobTables \cup {"WRED_PROFILE", "BUFFER_PROFILE"}

PbhStep ==
    \/ \E n \in PbhNames : \E field \in DOMAIN IpVersion : \E mask : AddHashField(n, field, mask)
    \/ \E n \in PbhNames : \E field \in DOMAIN IpVersion \cup {""} : \E mask : UpdateHashField(n, field, mask)
    \/ \E n \in PbhNames : DeleteHashField(n) \/ DeleteHash(n) \/ DeletePbhTable(n)
    \/ \E n \in PbhNames : \E fields : AddHash(n, fields) \/ UpdateHash(n, fields)
    \/ \E t, n \in PbhNames : DeleteRule(t, n) \/ (\E o \in RuleOptions : AddRule(t, n, o) \/ SetRule(t, n, o)) \/ \E gone : UnsetRule(t, n, gone)
    \/ \E t \in PbhNames : \E names : AddPbhTable(t, names) \/ UpdatePbhTable(t, names)
    \/ ClearPbh
\* The commands of pbh, by the rows they write.
FieldsStep ==
    \/ \E n \in PbhNames : DeleteHashField(n)
    \/ \E n \in PbhNames : \E field \in DOMAIN IpVersion : \E mask : AddHashField(n, field, mask)
    \/ \E n \in PbhNames : \E field \in DOMAIN IpVersion \cup {""} : \E mask : UpdateHashField(n, field, mask)
RulesStep ==
    \/ \E t, n \in PbhNames : DeleteRule(t, n) \/ (\E o \in RuleOptions : AddRule(t, n, o) \/ SetRule(t, n, o)) \/ \E gone : UnsetRule(t, n, gone)
    \/ ClearPbh
NvgreStep == \E t \in Tunnel : AddNvgre(t) \/ DelNvgre(t) \/ \E m \in TunnelMaps : AddNvgreMap(t, m) \/ DelNvgreMap(t, m)
SupportStep ==
    (\E f, x : TechsupportKnob(f, x)) \/ \E n : DelTechsupport(n) \/ \E o : AddTechsupport(n, o) \/ UpdateTechsupport(n, o)
MuxStep == \E i : KillRadv(i) \/ Telemetry(i) \/ PacketlossReset(i) \/ \E mode : MuxMode(i, mode)
DropStep ==
    \E n \in DropCounters :
        \/ DeleteCounter(n)
        \/ \E reasons : AddReasons(n, reasons) \/ RemoveReasons(n, reasons) \/ \E type : InstallCounter(n, type, reasons)
WredStep == \E new : SetWred(new)
QueuesStep == \E qs, x : EcnQueues(qs, x)
AlphaStep == \E f \in Profiles : \E n : MmuAlpha(f, n)
PollStep == \E g, f, x : PollOne(g, f, x) \/ PollWatermarks(f, x) \/ PollFlows(g, f, x)

LEMMA PolicySteps ==
  ASSUME PoliciesNext
  PROVE  PbhStep \/ NvgreStep \/ SupportStep \/ MuxStep \/ DropStep \/ WredStep \/ QueuesStep \/ AlphaStep \/ PollStep
<1>1. CASE \E n \in PbhNames, field \in DOMAIN IpVersion, mask \in {"", "4", "6"} : AddHashField(n, field, mask)
  BY <1>1 DEF PbhStep, On
<1>2. CASE \E n \in PbhNames, field \in DOMAIN IpVersion \cup {""}, mask \in {"", "4", "6"} : UpdateHashField(n, field, mask)
  BY <1>2 DEF PbhStep, On
<1>3. CASE \E n \in PbhNames : DeleteHashField(n) \/ DeleteHash(n) \/ DeletePbhTable(n)
  BY <1>3 DEF PbhStep, On
<1>4. CASE \E n \in PbhNames, fields \in SUBSET PbhNames \ {{}} : AddHash(n, fields) \/ UpdateHash(n, fields)
  BY <1>4 DEF PbhStep, On
<1>5. CASE \E t, n \in PbhNames, o \in RuleOptions : AddRule(t, n, o) \/ SetRule(t, n, o)
  BY <1>5 DEF PbhStep, On
<1>6. CASE \E t, n \in PbhNames, gone \in SUBSET (Matches \cup {"hash", "flow_counter"}) \ {{}} : UnsetRule(t, n, gone)
  BY <1>6 DEF PbhStep, On
<1>7. CASE \E t, n \in PbhNames : DeleteRule(t, n)
  BY <1>7 DEF PbhStep, On
<1>8. CASE \E t \in PbhNames, names \in Fewer(On(Ports \cup Lags)) \ {{}} : AddPbhTable(t, names) \/ UpdatePbhTable(t, names)
  BY <1>8 DEF PbhStep, On
<1>9. CASE ClearPbh
  BY <1>9 DEF PbhStep, On
<1>10. CASE \E t \in Tunnel : AddNvgre(t) \/ DelNvgre(t)
  BY <1>10 DEF NvgreStep, On
<1>11. CASE \E t \in Tunnel, m \in TunnelMaps : AddNvgreMap(t, m) \/ DelNvgreMap(t, m)
  BY <1>11 DEF NvgreStep, On
<1>12. CASE \E f \in {"state", "since"}, x \in {"enabled", "disabled"} : TechsupportKnob(f, x)
  BY <1>12 DEF SupportStep, On
<1>13. CASE \E n \in {"bgp"}, o \in {[state |-> "enabled"], [rate_limit_interval |-> "600"]} : AddTechsupport(n, o) \/ UpdateTechsupport(n, o)
  BY <1>13 DEF SupportStep, On
<1>14. CASE DelTechsupport("bgp")
  BY <1>14 DEF SupportStep, On
<1>15. CASE \E i \in On(Ports), mode \in {"active", "standby", "auto"} : MuxMode(i, mode)
  BY <1>15 DEF MuxStep, On
<1>16. CASE \E i \in On(Ports) : PacketlossReset(i)
  BY <1>16 DEF MuxStep, On
<1>17. CASE \E x \in {"True", "False"} : KillRadv(x) \/ Telemetry(x)
  BY <1>17 DEF MuxStep, On
<1>18. CASE \E n \in DropCounters, type \in DOMAIN DropCapability \cup {"none"}, reasons \in SUBSET {"x", "y"} \ {{}} : InstallCounter(n, type, reasons)
  BY <1>18 DEF DropStep, On
<1>19. CASE \E n \in DropCounters : DeleteCounter(n)
  BY <1>19 DEF DropStep, On
<1>20. CASE \E n \in DropCounters, reasons \in SUBSET {"x", "y"} \ {{}} : AddReasons(n, reasons) \/ RemoveReasons(n, reasons)
  BY <1>20 DEF DropStep, On
<1>21. CASE \E new \in Thresholded : SetWred(new)
  BY <1>21 DEF WredStep, On
<1>22. CASE \E qs \in SUBSET {"3", "4"} \ {{}}, x \in {"[WRED_PROFILE|AZURE_LOSSLESS]", "[]"} : EcnQueues(qs, x)
  BY <1>22 DEF QueuesStep, On
<1>23. CASE \E f \in On(Profiles), n \in {-8, 8} : MmuAlpha(f, n)
  BY <1>23 DEF AlphaStep, On
<1>24. CASE \E g \in {"QUEUE", "PORT"}, f \in {"POLL_INTERVAL", "FLEX_COUNTER_STATUS"}, x \in {"enable", "1000"} : PollOne(g, f, x)
  BY <1>24 DEF PollStep, On
<1>25. CASE \E f \in {"POLL_INTERVAL", "FLEX_COUNTER_STATUS"}, x \in {"enable", "1000"} : PollWatermarks(f, x)
  BY <1>25 DEF PollStep, On
<1>26. CASE \E f \in {"POLL_INTERVAL", "FLEX_COUNTER_STATUS"}, x \in {"enable", "1000"} : PollFlows("ACL", f, x)
  BY <1>26 DEF PollStep, On
<1> QED
  BY <1>1, <1>2, <1>3, <1>4, <1>5, <1>6, <1>7, <1>8, <1>9, <1>10, <1>11, <1>12, <1>13, <1>14, <1>15, <1>16, <1>17, <1>18, <1>19, <1>20, <1>21, <1>22, <1>23, <1>24, <1>25, <1>26 DEF PoliciesNext

LEMMA FieldsWrites == ASSUME FieldsStep PROVE Writes({"PBH_HASH_FIELD"})
<1> DEFINE T == {"PBH_HASH_FIELD"}
<1>0. \A n : HashField(n)[1] \in T
  BY DEF HashField
<1>1. ASSUME NEW n, NEW field, NEW mask, AddHashField(n, field, mask) PROVE Writes(T)
  BY <1>0, <1>1, SetWrites DEF AddHashField, Become
<1>2. ASSUME NEW n, NEW field, NEW mask, UpdateHashField(n, field, mask) PROVE Writes(T)
  <2>1. \E f : db' = SetEntry(db, HashField(n), f)
    BY <1>2 DEF UpdateHashField, UpdateEntry, Become
  <2> QED  BY <1>0, <2>1, SetWrites
<1>3. ASSUME NEW n, DeleteHashField(n) PROVE Writes(T)
  BY <1>0, <1>3, DropWrites DEF DeleteHashField, Become
<1> QED  BY <1>1, <1>2, <1>3 DEF FieldsStep

LEMMA RulesWrites == ASSUME RulesStep PROVE Writes({"PBH_RULE", "PBH_SAVED"})
<1> DEFINE T == {"PBH_RULE", "PBH_SAVED"}
<1>0. \A t, n : Rule(t, n)[1] \in T /\ Saved(t, n)[1] \in T
  BY DEF Rule, Saved
<1>5. ASSUME NEW t, NEW n, NEW o, AddRule(t, n, o) PROVE Writes(T)
  BY <1>0, <1>5, SetWrites DEF AddRule, Become
<1>6. ASSUME NEW t, NEW n, NEW f, NEW S \in SUBSET {Saved(t, n)}, db' = Without(SetEntry(db, Rule(t, n), f), S) PROVE Writes(T)
  <2>1. Within(T, db, SetEntry(db, Rule(t, n), f))
    BY <1>0, SetWithin
  <2>2. Within(T, SetEntry(db, Rule(t, n), f), db')
    BY <1>0, <1>6, WithoutWithin
  <2> QED  BY <2>1, <2>2, WithinTwice DEF Writes
<1>7. ASSUME NEW t, NEW n, NEW o, SetRule(t, n, o) PROVE Writes(T)
  BY <1>6, <1>7 DEF SetRule, UpdateEntry, Become
<1>8. ASSUME NEW t, NEW n, NEW gone, UnsetRule(t, n, gone) PROVE Writes(T)
  BY <1>6, <1>8 DEF UnsetRule, UpdateEntry, Become
<1>9. ASSUME NEW t, NEW n, DeleteRule(t, n) PROVE Writes(T)
  BY <1>0, <1>9, DropWrites DEF DeleteRule, Become
<1>11. CASE ClearPbh
  <2> DEFINE g == [s \in {Saved(r[2], r[3]) : r \in KeysOf("PBH_RULE")} |-> [counts |-> Field(Rule(s[2], s[3]), "flow_counter")]]
             d == Without(db, KeysOf("PBH_SAVED"))
  <2>1. db' = g @@ d
    BY <1>11 DEF ClearPbh, Become
  <2>2. \A r \in DOMAIN g : r[1] \in T
    BY <1>0
  <2>3. \A r \in KeysOf("PBH_SAVED") : r[1] \in T
    BY DEF KeysOf
  <2>4. Within(T, db, d)
    BY <2>3, WithoutWithin
  <2> HIDE DEF g, d
  <2>5. Within(T, d, g @@ d)
    BY <2>2, MergeWithin
  <2> QED  BY <2>1, <2>4, <2>5, WithinTwice DEF Writes
<1> QED  BY <1>5, <1>7, <1>8, <1>9, <1>11 DEF RulesStep

\* The commands of pbh write rows of fields, or of rules and what is saved of them, or others.
LEMMA PbhParts ==
  ASSUME PbhStep
  PROVE  FieldsStep \/ RulesStep \/ Writes({"PBH_HASH", "PBH_TABLE"})
<1> DEFINE T == {"PBH_HASH", "PBH_TABLE"}
<1>0. \A n : Hash(n)[1] \in T /\ PbhTable(n)[1] \in T
  BY DEF Hash, PbhTable
<1>3. ASSUME NEW n, DeleteHash(n) \/ DeletePbhTable(n) PROVE Writes(T)
  BY <1>0, <1>3, DropWrites DEF DeleteHash, DeletePbhTable, Become
<1>4. ASSUME NEW n, NEW fields, AddHash(n, fields) \/ UpdateHash(n, fields) PROVE Writes(T)
  <2>1. \E f : db' = SetEntry(db, Hash(n), f)
    BY <1>4 DEF AddHash, UpdateHash, UpdateEntry, Become
  <2> QED  BY <1>0, <2>1, SetWrites
<1>10. ASSUME NEW t, NEW names, AddPbhTable(t, names) \/ UpdatePbhTable(t, names) PROVE Writes(T)
  <2>1. \E f : db' = SetEntry(db, PbhTable(t), f)
    BY <1>10 DEF AddPbhTable, UpdatePbhTable, UpdateEntry, Become
  <2> QED  BY <1>0, <2>1, SetWrites
<1> HIDE DEF T
<1>11. FieldsStep \/ RulesStep \/ Writes(T)
  BY <1>3, <1>4, <1>10 DEF PbhStep, FieldsStep, RulesStep
<1> QED  BY <1>11 DEF T

LEMMA PbhWrites == ASSUME PbhStep PROVE Writes(PbhTables)
  BY PbhParts, FieldsWrites, RulesWrites, WritesMore DEF PbhTables

LEMMA NvgreWrites == ASSUME NvgreStep PROVE Writes(NvgreTables)
<1> DEFINE T == NvgreTables
<1>0. \A t : NvgreTunnel(t)[1] \in T /\ \A m : NvgreMap(t, m)[1] \in T
  BY DEF NvgreTunnel, NvgreMap, NvgreTables
<1>1. ASSUME NEW t, AddNvgre(t) \/ DelNvgre(t) PROVE Writes(T)
  BY <1>0, <1>1, SetWrites, DropWrites DEF AddNvgre, DelNvgre, Validated, Become
<1>2. ASSUME NEW t, NEW m, AddNvgreMap(t, m) \/ DelNvgreMap(t, m) PROVE Writes(T)
  BY <1>0, <1>2, SetWrites, DropWrites DEF AddNvgreMap, DelNvgreMap, Validated, Become
<1> QED  BY <1>1, <1>2 DEF NvgreStep

LEMMA SupportWrites == ASSUME SupportStep PROVE Writes(KnobTables)
<1> DEFINE T == KnobTables
<1>0. \A n : TechsupportFeature(n)[1] \in T /\ <<"AUTO_TECHSUPPORT", n>>[1] \in T
  BY DEF TechsupportFeature, KnobTables
<1>1. ASSUME NEW f, NEW x, TechsupportKnob(f, x) PROVE Writes(T)
  BY <1>0, <1>1, ModWrites DEF TechsupportKnob, Validated, Become
<1>2. ASSUME NEW n, DelTechsupport(n) PROVE Writes(T)
  BY <1>0, <1>2, DropWrites DEF DelTechsupport, Validated, Become
<1>3. ASSUME NEW n, NEW o, AddTechsupport(n, o) \/ UpdateTechsupport(n, o) PROVE Writes(T)
  BY <1>0, <1>3, SetWrites, ModWrites DEF AddTechsupport, UpdateTechsupport, Validated, Become
<1> QED  BY <1>1, <1>2, <1>3 DEF SupportStep

LEMMA MuxWrites == ASSUME MuxStep PROVE Writes(KnobTables)
<1> DEFINE T == KnobTables
<1>0. \A n : Mux(n)[1] \in T
  BY DEF Mux, KnobTables
<1>1. ASSUME NEW x, KillRadv(x) PROVE Writes(T)
  <2>1. \E f : db' = ModEntry(db, <<"MUX_LINKMGR", "SERVICE_MGMT">>, f)
    BY <1>1 DEF KillRadv, Become
  <2> QED  BY <2>1, ModWrites DEF KnobTables
<1>2. ASSUME NEW x, Telemetry(x) PROVE Writes(T)
  <2>1. \E f : db' = SetEntry(db, <<"XCVRD_LOG", "Y_CABLE">>, f)
    BY <1>2 DEF Telemetry, Become
  <2> QED  BY <2>1, SetWrites DEF KnobTables
<1>3. ASSUME NEW i, NEW mode, PacketlossReset(i) \/ MuxMode(i, mode) PROVE Writes(T)
  <2>1. \E f : db' = SetEntry(db, Mux(i), f)
    BY <1>3 DEF PacketlossReset, ResetLoss, MuxMode, Become
  <2> QED  BY <1>0, <2>1, SetWrites
<1> QED  BY <1>1, <1>2, <1>3 DEF MuxStep

LEMMA DropCounterWrites == ASSUME DropStep PROVE Writes(DropTables)
<1> DEFINE T == DropTables
<1>0. \A n : DropCounter(n)[1] \in T /\ \A x : Reason(n, x)[1] \in T
  BY DEF DropCounter, Reason, DropTables
<1>1. ASSUME NEW n, NEW reasons PROVE Within(T, db, WithReasons(db, n, reasons))
  <2>1. \A r \in DOMAIN [r \in {Reason(n, x) : x \in reasons} |-> NoFields] : r[1] \in T
    BY <1>0
  <2> QED  BY <2>1, MergeWithin DEF WithReasons
<1>2. ASSUME NEW n, DeleteCounter(n) PROVE Writes(T)
  <2>1. \A r \in {DropCounter(n)} \cup {x \in KeysOf("DEBUG_COUNTER_DROP_REASON") : x[2] = n} : r[1] \in T
    BY <1>0 DEF KeysOf, DropTables
  <2> QED  BY <1>2, <2>1, DropWrites DEF DeleteCounter, Become
<1>3. ASSUME NEW n, NEW reasons, AddReasons(n, reasons) PROVE Writes(T)
  BY <1>1, <1>3 DEF AddReasons, Become, Writes
<1>4. ASSUME NEW n, NEW reasons, RemoveReasons(n, reasons) PROVE Writes(T)
  BY <1>0, <1>4, DropWrites DEF RemoveReasons, Become
<1>5. ASSUME NEW n, NEW reasons, NEW type, InstallCounter(n, type, reasons) PROVE Writes(T)
  <2>1. db' = SetEntry(WithReasons(db, n, reasons), DropCounter(n), [type |-> type])
    BY <1>5 DEF InstallCounter, Become
  <2> DEFINE d == WithReasons(db, n, reasons)
  <2>2. Within(T, db, d) /\ Within(T, d, SetEntry(d, DropCounter(n), [type |-> type]))
    BY <1>0, <1>1, SetWithin
  <2> HIDE DEF d
  <2>3. db' = SetEntry(d, DropCounter(n), [type |-> type])
    BY <2>1 DEF d
  <2> QED  BY <2>2, <2>3, WithinTwice DEF Writes
<1> QED  BY <1>2, <1>3, <1>4, <1>5 DEF DropStep

LEMMA WredWrites == ASSUME WredStep PROVE Writes({"WRED_PROFILE"})
  BY ModWrites DEF WredStep, SetWred, Become, Wred

LEMMA QueuesWrites == ASSUME QueuesStep PROVE Writes(KnobTables)
<1>1. PICK qs, x : EcnQueues(qs, x)
  BY DEF QueuesStep
<1> DEFINE rows == {<<"QUEUE", r[2], q>> : r \in KeysOf("DEVICE_NEIGHBOR"), q \in qs}
           g == [r \in rows |-> [wred_profile |-> x] @@ Entry(r)]
<1>2. db' = g @@ db
  BY <1>1 DEF EcnQueues, Become
<1>3. \A r \in rows : r[1] \in KnobTables
  BY DEF KnobTables
<1>4. \A r \in DOMAIN g : r[1] \in KnobTables
  BY <1>3
<1> HIDE DEF g
<1> QED  BY <1>2, <1>4, OverWrites

LEMMA AlphaWrites == ASSUME AlphaStep PROVE Writes({"BUFFER_PROFILE"})
  BY ModWrites DEF AlphaStep, MmuAlpha, Become, Profile

LEMMA PollWrites == ASSUME PollStep PROVE Writes(KnobTables)
<1>1. PICK gs, f, x : PollGroups(gs, f, x)
  BY DEF PollStep, PollOne, PollWatermarks, PollFlows
<1> DEFINE g == [r \in {FlexCounter(h) : h \in gs} |-> (f :> x) @@ Entry(r)]
<1>2. db' = g @@ db
  BY <1>1 DEF PollGroups, Become
<1>3. \A r \in DOMAIN g : r[1] \in KnobTables
  BY DEF FlexCounter, KnobTables
<1> HIDE DEF g
<1> QED  BY <1>2, <1>3, OverWrites

\* The commands of policies write none but these tables.
LEMMA PoliciesWrite == ASSUME PoliciesNext PROVE Writes(PolicyTables)
  BY PolicySteps, PbhWrites, NvgreWrites, SupportWrites, MuxWrites, DropCounterWrites, WredWrites, QueuesWrites,
     AlphaWrites, PollWrites, WritesMore DEF PolicyTables

----------------------------------------------------------------------------
(* A breakout writes rows that it planned, and these are of few tables.    *)

BreakoutTables == {"PORT", "VLAN_MEMBER", "PORTCHANNEL_MEMBER", "INTERFACE", "ACL_TABLE", "BREAKOUT_CFG"}

LoadFits(load) == (\A r \in load.gone : r[1] \in BreakoutTables) /\ (\A r \in DOMAIN load.set : r[1] \in BreakoutTables)
BreakoutJob ==
    \E at, of, mode, delete, add :
        /\ job = [kind |-> "breakout", at |-> at, of |-> of, mode |-> mode, delete |-> delete, add |-> add]
        /\ LoadFits(delete) /\ LoadFits(add)
BreakoutJobFits == Doing("breakout") => BreakoutJob

LEMMA DeletePortsWithin ==
  ASSUME NEW d, NEW ports
  PROVE  Within(BreakoutTables, d, DeletePorts(d, ports))
  BY DEF Within, Same, DeletePorts, KeyNames, BreakoutTables

LEMMA AddPortsWithin ==
  ASSUME NEW d, NEW speeds, NEW load
  PROVE  Within(BreakoutTables, d, AddPorts(d, speeds, load))
<1> DEFINE T == BreakoutTables
           ports == [r \in {<<"PORT", q>> : q \in DOMAIN speeds} |-> [speed |-> speeds[r[2]]]]
           e == IF load THEN GetDefaultConfig(DOMAIN speeds) ELSE NoFields
           c == ports @@ d
           g == [r \in DOMAIN e |-> IF r \in DOMAIN c /\ r[1] = "ACL_TABLE"
                                    THEN [c[r] EXCEPT !.ports = @ \cup e[r].ports]
                                    ELSE IF r \in DOMAIN c THEN c[r] @@ e[r] ELSE e[r]]
<1>1. \A r \in DOMAIN ports : r[1] \in T
  BY DEF BreakoutTables
<1>2. Within(T, d, c)
  <2> HIDE DEF ports
  <2> QED  BY <1>1, MergeWithin
<1>3. \A r \in DOMAIN e : r[1] \in T
  <2>1. \A r \in DOMAIN GetDefaultConfig(DOMAIN speeds) : r[1] \in T
    BY DEF GetDefaultConfig, Dependencies, KeyNames, ListsPort, BreakoutTables
  <2>2. DOMAIN NoFields = {}
    BY DEF NoFields
  <2> QED  BY <2>1, <2>2
<1>4. AddPorts(d, speeds, load) = g @@ c
  BY DEF AddPorts, MergeConfigs
<1>5. \A r \in DOMAIN g : r[1] \in T
  BY <1>3
<1> HIDE DEF c, g
<1>6. Within(T, c, g @@ c)
  BY <1>5, MergeWithin
<1> QED  BY <1>2, <1>4, <1>6, WithinTwice

LEMMA LoadWithin ==
  ASSUME NEW d, NEW e, Within(BreakoutTables, d, e)
  PROVE  LoadFits(CreateConfigToLoad(d, e))
<1> DEFINE load == CreateConfigToLoad(d, e)
           old(r) == IF r \in DOMAIN d THEN d[r] ELSE NoFields
           new(r) == {f \in DOMAIN e[r] : f \notin DOMAIN old(r) \/ old(r)[f] # e[r][f]}
<1>1. load.gone = DOMAIN d \ DOMAIN e
  BY DEF CreateConfigToLoad
<1>2. DOMAIN load.set = {x \in DOMAIN e : x \notin DOMAIN d \/ new(x) # {}}
  BY DEF CreateConfigToLoad
<1>3. ASSUME NEW r \in DOMAIN load.set
      PROVE  r[1] \in BreakoutTables
  <2> SUFFICES ASSUME r[1] \notin BreakoutTables
               PROVE  FALSE
    OBVIOUS
  <2>1. r \in DOMAIN e /\ r \in DOMAIN d /\ e[r] = d[r]
    BY <1>2 DEF Within, Same
  <2>2. new(r) = {}
    BY <2>1
  <2> QED  BY <1>2, <2>1, <2>2
<1>4. \A r \in load.gone : r[1] \in BreakoutTables
  BY <1>1 DEF Within, Same
<1> QED  BY <1>3, <1>4 DEF LoadFits

LEMMA WrittenWithin ==
  ASSUME NEW d, NEW load, LoadFits(load)
  PROVE  Within(BreakoutTables, d, WriteConfigDB(d, load))
<1> DEFINE e == Without(d, load.gone)
           g == [r \in DOMAIN load.set |-> load.set[r] @@ (IF r \in DOMAIN d THEN d[r] ELSE NoFields)]
<1>1. Within(BreakoutTables, d, e)
  BY WithoutWithin DEF LoadFits
<1>2. \A r \in DOMAIN g : r[1] \in BreakoutTables
  BY DEF LoadFits
<1>3. WriteConfigDB(d, load) = g @@ e
  BY DEF WriteConfigDB
<1> HIDE DEF e, g
<1>4. Within(BreakoutTables, e, g @@ e)
  BY <1>2, MergeWithin
<1> QED  BY <1>1, <1>3, <1>4, WithinTwice

\* A breakout plans and writes rows of these tables.
LEMMA BreakoutWrite ==
  ASSUME BreakoutNext, BreakoutJobFits
  PROVE  Writes(BreakoutTables)
<1> DEFINE T == BreakoutTables
<1>1. ASSUME NEW p, NEW mode, NEW force, NEW load, Breakout(p, mode, force, load)
      PROVE  Writes(T)
  <2>1. PICK ports : db' = ShutdownIntf(db, ports)
    BY <1>1 DEF Breakout
  <2> DEFINE g == [r \in {<<"PORT", q>> : q \in ports} |-> [admin_status |-> "down"] @@ db[r]]
  <2>2. db' = g @@ db
    BY <2>1 DEF ShutdownIntf
  <2>3. \A r \in DOMAIN g : r[1] \in T
    BY DEF BreakoutTables
  <2> HIDE DEF g
  <2> QED  BY <2>2, <2>3, OverWrites
<1>2. CASE BreakoutDelete
  <2>1. LoadFits(job.delete) /\ db' = WriteConfigDB(db, job.delete)
    BY <1>2 DEF BreakoutDelete, BreakoutJobFits, BreakoutJob
  <2> QED  BY <2>1, WrittenWithin DEF Writes
<1>3. CASE BreakoutAdd
  <2>1. LoadFits(job.add) /\ db' = SetEntry(WriteConfigDB(db, job.add), BreakoutRow(job.of), [brkout_mode |-> job.mode])
    BY <1>3 DEF BreakoutAdd, BreakoutJobFits, BreakoutJob
  <2> DEFINE d == WriteConfigDB(db, job.add)
  <2>2. BreakoutRow(job.of)[1] \in T
    BY DEF BreakoutRow, BreakoutTables
  <2>3. Within(T, d, SetEntry(d, BreakoutRow(job.of), [brkout_mode |-> job.mode]))
    BY <2>2, SetWithin
  <2>4. Within(T, db, d)
    BY <2>1, WrittenWithin
  <2> HIDE DEF d
  <2>5. db' = SetEntry(d, BreakoutRow(job.of), [brkout_mode |-> job.mode])
    BY <2>1 DEF d
  <2> QED  BY <2>3, <2>4, <2>5, WithinTwice DEF Writes
<1>4. CASE BreakoutTimesOut
  BY <1>4, NothingWrites DEF BreakoutTimesOut
<1> QED  BY <1>1, <1>2, <1>3, <1>4 DEF BreakoutNext

----------------------------------------------------------------------------
(* One command at a time: most need that no command waits, and wait for nothing. *)

\* What the daemons know is changed by a daemon.
Daemons == switch' = switch \/ (\E i \in Routed : InterfaceManager(i)) \/ \E f \in Features : FeatureDaemon(f)
Calm == job = None /\ job' = None /\ area' = area /\ switch' = switch
Idle == db' = db /\ job' = job /\ area' = area /\ Daemons
FeatureStep == FeatureReached \/ \E f, x, block : SetFeatureState(f, x, block)

LEMMA InterfacesCalm == ASSUME InterfacesNext PROVE Calm \/ Idle \/ BindStep
<1>1. CASE \E v \in On(Vlans) : AddVlan(v)
  BY <1>1 DEF Calm, Use, AddVlan, Become
<1>2. CASE \E v \in On(Vlans) : DelVlan(v)
  BY <1>2 DEF Calm, Use, DelVlan, Become
<1>3. CASE \E v \in On(Vlans), i \in On(Ports \cup Lags), mode \in {"tagged", "untagged"} : AddVlanMember(v, i, mode)
  BY <1>3 DEF Calm, Use, AddVlanMember, Become
<1>4. CASE \E v \in On(Vlans), i \in On(Ports \cup Lags) : DelVlanMember(v, i)
  BY <1>4 DEF Calm, Use, DelVlanMember, Become
<1>5. CASE \E v \in On(Vlans), mode \in {"enabled", "disabled"} : ProxyArp(v, mode)
  BY <1>5 DEF Calm, Use, ProxyArp, Become
<1>6. CASE \E l \in On(Lags) : AddPortchannel(l)
  BY <1>6 DEF Calm, Use, AddPortchannel, Become
<1>7. CASE \E l \in On(Lags) : RemovePortchannel(l)
  BY <1>7 DEF Calm, Use, RemovePortchannel, Become
<1>8. CASE \E l \in On(Lags), p \in On(Ports) : AddPortchannelMember(l, p)
  BY <1>8 DEF Calm, Use, AddPortchannelMember, Become
<1>9. CASE \E l \in On(Lags), p \in On(Ports) : DelPortchannelMember(l, p)
  BY <1>9 DEF Calm, Use, DelPortchannelMember, Become
<1>10. CASE \E i \in On(Ports \cup Lags \cup Subs), status \in {"up", "down"} : AdminStatus(i, status)
  BY <1>10 DEF Calm, Use, AdminStatus, Become
<1>11. CASE \E p \in On(Ports), s \in Speeds : SetSpeed(p, s)
  BY <1>11 DEF Calm, Use, SetSpeed, Become
<1>12. CASE \E p \in On(Ports), f \in DOMAIN Capabilities : \E x \in Capabilities[f] : SetCapability(p, f, x)
  BY <1>12 DEF Calm, Use, SetCapability, Become
<1>13. CASE \E p \in On(Ports), x \in {"rs", "none"} : SetFec(p, x)
  BY <1>13 DEF Calm, Use, SetFec, Become
<1>14. CASE \E p \in On(Ports), f \in {"laser_freq", "tx_power"} : SetTransceiver(p, f, "x")
  BY <1>14 DEF Calm, Use, SetTransceiver, Become
<1>15. CASE \E p \in On(Ports), m \in Mtus : SetMtu(p, m)
  BY <1>15 DEF Calm, Use, SetMtu, Become
<1>16. CASE \E i \in On(Ports \cup Lags), t \in Tpids : SetTpid(i, t)
  BY <1>16 DEF Calm, Use, SetTpid, Become
<1>17. CASE \E s \in Sessions, src \in Fewer(On(Ports)), dir \in Directions : AddErspan(s, src, dir)
  BY <1>17 DEF Calm, Use, AddErspan, Become
<1>18. CASE \E s \in Sessions, dst \in On(Ports \cup Lags), src \in SUBSET On(Ports), dir \in Directions : AddSpan(s, dst, src, dir)
  BY <1>18 DEF Calm, Use, AddSpan, Become
<1>19. CASE \E s \in Sessions : RemoveMirror(s)
  BY <1>19 DEF Calm, Use, RemoveMirror, Become
<1>20. CASE \E i \in On(Routed), a \in Addresses : IpAdd(i, a)
  BY <1>20 DEF Calm, Use, IpAdd, Become
<1>21. CASE \E i \in On(Routed), a \in Addresses : IpRemove(i, a)
  BY <1>21 DEF Calm, Use, IpRemove, Become
<1>22. CASE \E i \in On(Routed), action \in {"drop", "forward"} : LoopbackAction(i, action)
  BY <1>22 DEF Calm, Use, LoopbackAction, Become
<1>23. CASE \E i \in On(Routed), mode \in {"enable", "disable"} : Mpls(i, mode)
  BY <1>23 DEF Calm, Use, Mpls, Become
<1>24. CASE \E i \in On(Ports \cup Lags \cup Vlans) : EnableLinkLocalOnly(i)
  BY <1>24 DEF Calm, Use, EnableLinkLocalOnly, Become
<1>25. CASE \E i \in On(Ports \cup Lags \cup Vlans) : DisableLinkLocalOnly(i)
  BY <1>25 DEF Calm, Use, DisableLinkLocalOnly, Become
<1>26. CASE EnableLinkLocal
  BY <1>26 DEF Calm, Use, EnableLinkLocal, Become
<1>27. CASE DisableLinkLocal
  BY <1>27 DEF Calm, Use, DisableLinkLocal, Become
<1>28. CASE \E v \in On(Vrfs) : AddVrf(v)
  BY <1>28 DEF Calm, Use, AddVrf, Become
<1>29. CASE \E v \in On(Vrfs) : DelVrf(v)
  BY <1>29 DEF Calm, Use, DelVrf, Become
<1>30. CASE \E i \in On(Routed), v \in On(Vrfs) : BindVrf(i, v)
  BY <1>30 DEF BindStep, On
<1>31. CASE \E i \in On(Routed) : UnbindVrf(i)
  BY <1>31 DEF BindStep, On
<1>32. CASE Rebind
  BY <1>32 DEF BindStep
<1>33. CASE \E i \in On(Routed) : InterfaceManager(i)
  BY <1>33 DEF Idle, Daemons, InterfaceManager, On
<1>34. CASE \E v \in On(Vrfs), n \in Vnis : AddVrfVniMap(v, n)
  BY <1>34 DEF Calm, Use, AddVrfVniMap, Become
<1>35. CASE \E v \in On(Vrfs) : DelVrfVniMap(v)
  BY <1>35 DEF Calm, Use, DelVrfVniMap, Become
<1>36. CASE \E s \in Servers, v \in On(Vrfs) \cup {"", "default"} : AddSyslog(s, v)
  BY <1>36 DEF Calm, Use, AddSyslog, Become
<1>37. CASE \E s \in Servers : DelSyslog(s)
  BY <1>37 DEF Calm, Use, DelSyslog, Become
<1>38. CASE \E t \in Tunnels : AddVxlan(t)
  BY <1>38 DEF Calm, Use, AddVxlan, Become
<1>39. CASE \E t \in Tunnels : DelVxlan(t)
  BY <1>39 DEF Calm, Use, DelVxlan, Become
<1>40. CASE \E o \in Nvos, t \in Tunnels : AddNvo(o, t)
  BY <1>40 DEF Calm, Use, AddNvo, Become
<1>41. CASE \E o \in Nvos : DelNvo(o)
  BY <1>41 DEF Calm, Use, DelNvo, Become
<1>42. CASE \E t \in Tunnels, v \in On(Vlans), n \in Vnis : AddVxlanMap(t, v, n)
  BY <1>42 DEF Calm, Use, AddVxlanMap, Become
<1>43. CASE \E t \in Tunnels, v \in On(Vlans), n \in Vnis : DelVxlanMap(t, v, n)
  BY <1>43 DEF Calm, Use, DelVxlanMap, Become
<1>44. CASE \E t \in Tunnels, v \in On(Vlans), n \in Vnis, len \in {2} : AddVxlanMapRange(t, v, n, len)
  BY <1>44 DEF Calm, Use, AddVxlanMapRange, Become
<1>45. CASE \E t \in Tunnels, v \in On(Vlans), n \in Vnis, len \in {2} : DelVxlanMapRange(t, v, n, len)
  BY <1>45 DEF Calm, Use, DelVxlanMapRange, Become
<1>46. CASE \E i \in On(Loopbacks) : AddLoopback(i)
  BY <1>46 DEF Calm, Use, AddLoopback, Become
<1>47. CASE \E i \in On(Loopbacks) : DelLoopback(i)
  BY <1>47 DEF Calm, Use, DelLoopback, Become
<1>48. CASE \E s \in On(Subs), vid \in {"", "10"} : AddSub(s, vid)
  BY <1>48 DEF Calm, Use, AddSub, Become
<1>49. CASE \E s \in On(Subs) : DelSub(s)
  BY <1>49 DEF Calm, Use, DelSub, Become
<1>50. CASE \E v \in On(Vrfs) \cup {"default"}, p \in Prefixes, hops \in HopLists, w \in On(Vrfs) \cup {""} : AddRoute(v, p, hops, w, "")
  BY <1>50 DEF Calm, Use, AddRoute, AddRouteOver, Become
<1>51. CASE \E p \in Prefixes, dev \in On(Ports) \cup {"null"} : AddRoute("default", p, <<>>, "", dev)
  BY <1>51 DEF Calm, Use, AddRoute, AddRouteOver, Become
<1>52. CASE \E v \in On(Vrfs) \cup {"default"}, p \in Prefixes : DelRoute(v, p)
  BY <1>52 DEF Calm, Use, DelRoute, Become
<1>53. CASE \E v \in On(Vrfs) \cup {"default"}, p \in Prefixes, w \in On(Vrfs) \cup {""}, hop \in Hops \cup {""}, dev \in On(Ports) \cup {"null", ""} : DelHop(v, p, hop, w, dev)
  <2>1. PICK v, p, w, hop, dev : DelHop(v, p, hop, w, dev)
    BY <1>53
  <2> QED  BY <2>1, Zenon DEF Calm, Use, DelHop, Become
<1> QED
  BY <1>1, <1>2, <1>3, <1>4, <1>5, <1>6, <1>7, <1>8, <1>9, <1>10, <1>11, <1>12, <1>13, <1>14, <1>15, <1>16, <1>17, <1>18, <1>19, <1>20, <1>21, <1>22, <1>23, <1>24, <1>25, <1>26, <1>27, <1>28, <1>29, <1>30, <1>31, <1>32, <1>33, <1>34, <1>35, <1>36, <1>37, <1>38, <1>39, <1>40, <1>41, <1>42, <1>43, <1>44, <1>45, <1>46, <1>47, <1>48, <1>49, <1>50, <1>51, <1>52, <1>53 DEF InterfacesNext

LEMMA ServicesCalm == ASSUME ServicesNext PROVE Calm \/ Idle \/ FeatureStep
<1>1. CASE \E status \in UpDown : BgpAll(status)
  BY <1>1 DEF Calm, Use, BgpAll, ChangeStatus, Become
<1>2. CASE \E x \in Neighbors \cup DOMAIN Upper, status \in UpDown : BgpNeighbor(x, status)
  BY <1>2 DEF Calm, Use, BgpNeighbor, ChangeStatus, Become
<1>3. CASE \E x \in DOMAIN Upper : BgpRemove(x)
  BY <1>3 DEF Calm, Use, BgpRemove, Become
<1>4. CASE \E f \in Features \cup {"system"}, x \in {"true", "false"} : WarmRestart(f, x)
  BY <1>4 DEF Calm, Use, WarmRestart, Put, Become
<1>5. CASE \E m \in {"swss", "bgp"}, x \in {1, 2} : WarmRestartTimer(m, "timer", x)
  BY <1>5 DEF Calm, Use, WarmRestartTimer, Put, Become
<1>6. CASE \E f \in {"hostname", "synchronous_mode"}, x \in OnOff : DeviceMetadata(f, x)
  BY <1>6 DEF Calm, Use, DeviceMetadata, Put, Become
<1>7. CASE \E f \in {"enabled", "memory"}, x \in OnOff : Kdump(f, x)
  BY <1>7 DEF Calm, Use, Kdump, Put, Become
<1>8. CASE \E f \in {"ip", "port", "insecure", "disable"}, x \in {"", "x"} : KubeServer(f, x)
  BY <1>8 DEF Calm, Use, KubeServer, Become
<1>9. CASE \E x \in {"", "x"} : KubeLabel("label", x)
  BY <1>9 DEF Calm, Use, KubeLabel, Put, Become
<1>10. CASE \E p \in On(Ports), kbps \in {1, 2} : StormControl(p, kbps)
  BY <1>10 DEF Calm, Use, StormControl, Put, Become
<1>11. CASE \E p \in On(Ports) : StormControlOff(p)
  BY <1>11 DEF Calm, Use, StormControlOff, Become
<1>12. CASE \E a \in Agents, v \in AgentVrfs : AddAgent(a, v)
  BY <1>12 DEF Calm, Use, AddAgent, Become
<1>13. CASE \E a \in Agents, v \in AgentVrfs : DelAgent(a, v)
  BY <1>13 DEF Calm, Use, DelAgent, Become
<1>14. CASE TrapServer("v2TrapDest", "ip")
  BY <1>14 DEF Calm, Use, TrapServer, Put, Become
<1>15. CASE DelTrapServer("v2TrapDest")
  BY <1>15 DEF Calm, Use, DelTrapServer, Become
<1>16. CASE \E c \in Communities, type \in {"RO", "RW"} : AddCommunity(c, type)
  BY <1>16 DEF Calm, Use, AddCommunity, Become
<1>17. CASE \E c \in Communities : DelCommunity(c)
  BY <1>17 DEF Calm, Use, DelCommunity, Become
<1>18. CASE \E c, new \in Communities : ReplaceCommunity(c, new)
  BY <1>18 DEF Calm, Use, ReplaceCommunity, Become
<1>19. CASE \E c \in Contacts, mail \in {"m", "n"} : AddContact(c, mail)
  BY <1>19 DEF Calm, Use, AddContact, Become
<1>20. CASE \E c \in Contacts : DelContact(c)
  BY <1>20 DEF Calm, Use, DelContact, Become
<1>21. CASE \E c \in Contacts, mail \in {"m", "n"} : ModifyContact(c, mail)
  BY <1>21 DEF Calm, Use, ModifyContact, Become
<1>22. CASE \E x \in {"l", "k"} : AddLocation(x)
  BY <1>22 DEF Calm, Use, AddLocation, Become
<1>23. CASE \E x \in {"l", "k"} : DelLocation(x)
  BY <1>23 DEF Calm, Use, DelLocation, Become
<1>24. CASE \E x \in {"l", "k"} : ModifyLocation(x)
  BY <1>24 DEF Calm, Use, ModifyLocation, Put, Become
<1>25. CASE \E u \in Users, type \in {"noAuthNoPriv", "AuthNoPriv", "Priv"}, auth \in {"", "SHA"}, e \in {"", "AES"} : AddUser(u, type, auth, e)
  BY <1>25 DEF Calm, Use, AddUser, Become
<1>26. CASE \E u \in Users : DelUser(u)
  BY <1>26 DEF Calm, Use, DelUser, Become
<1>27. CASE AddClock("c")
  BY <1>27 DEF Calm, Use, AddClock, Become
<1>28. CASE DelClock("c")
  BY <1>28 DEF Calm, Use, DelClock, Become
<1>29. CASE \E s \in UpDown : SflowState(s)
  BY <1>29 DEF Calm, Use, SflowState, Put, Become
<1>30. CASE \E x \in {0, 5} : SflowPolling(x)
  BY <1>30 DEF Calm, Use, SflowPolling, Become
<1>31. CASE \E i \in On(Ports) : AddAgentId(i)
  BY <1>31 DEF Calm, Use, AddAgentId, Become
<1>32. CASE DelAgentId
  BY <1>32 DEF Calm, Use, DelAgentId, Become
<1>33. CASE \E i \in On(Ports) \cup {"all"}, s \in UpDown : SflowInterface(i, s)
  BY <1>33 DEF Calm, Use, SflowInterface, Put, Become
<1>34. CASE \E i \in On(Ports) \cup {"all"}, rate \in {"256", "default"} : SampleRate(i, rate)
  BY <1>34 DEF Calm, Use, SampleRate, Become, Put
<1>35. CASE \E c \in Collectors, v \in {"default", "mgmt"} : AddCollector(c, v)
  BY <1>35 DEF Calm, Use, AddCollector, Put, Become
<1>36. CASE \E c \in Collectors : DelCollector(c)
  BY <1>36 DEF Calm, Use, DelCollector, Become
<1>37. CASE \E x \in {"True", "False", "default"} : Failthrough(x)
  BY <1>37 DEF Calm, Use, Failthrough, Setting, AddTableKv, DelTableKey, Become, Put
<1>38. CASE \E x \in {"True", "False", "default"} : Fallback(x)
  BY <1>38 DEF Calm, Use, Fallback, Setting, AddTableKv, DelTableKey, Become, Put
<1>39. CASE \E methods \in AaaMethods : Login(methods)
  BY <1>39 DEF Calm, Use, Login, Setting, AddTableKv, DelTableKey, Become, Put
<1>40. CASE \E x \in {"tacacs+", "disable"} : Accounting(x)
  BY <1>40 DEF Calm, Use, Accounting, Setting, AddTableKv, DelTableKey, Become, Put
<1>41. CASE \E x \in {"tacacs+", "local"} : Authorization(x)
  BY <1>41 DEF Calm, Use, Authorization, AddTableKv, Put, Become
<1>42. CASE \E x \in {"default", "5"} : TacacsTimeout(x)
  BY <1>42 DEF Calm, Use, TacacsTimeout, Setting, AddTableKv, DelTableKey, Become, Put
<1>43. CASE \E x \in {"default", "k"} : TacacsPasskey(x)
  BY <1>43 DEF Calm, Use, TacacsPasskey, Setting, AddTableKv, DelTableKey, Become, Put
<1>44. CASE \E s \in Radius : AddTacacs(s)
  BY <1>44 DEF Calm, Use, AddTacacs, Become
<1>45. CASE \E s \in Radius : DelTacacs(s)
  BY <1>45 DEF Calm, Use, DelTacacs, Become
<1>46. CASE \E x \in {"default", "5"} : RadiusTimeout(x)
  BY <1>46 DEF Calm, Use, RadiusTimeout, Setting, AddTableKv, DelTableKey, Become, Put
<1>47. CASE \E x \in {"default", "k"} : RadiusPasskey(x)
  BY <1>47 DEF Calm, Use, RadiusPasskey, Setting, AddTableKv, DelTableKey, Become, Put
<1>48. CASE RadiusSourceIp
  BY <1>48 DEF Calm, Use, RadiusSourceIp, DelTableKey, Become
<1>49. CASE \E s \in Radius : AddRadius(s)
  BY <1>49 DEF Calm, Use, AddRadius, Become
<1>50. CASE \E s \in Radius : DelRadius(s)
  BY <1>50 DEF Calm, Use, DelRadius, Become
<1>51. CASE \E d \in Domains : AddDomain(d)
  BY <1>51 DEF Calm, Use, AddDomain, Become
<1>52. CASE \E d \in Domains : DelDomain(d)
  BY <1>52 DEF Calm, Use, DelDomain, Become
<1>53. CASE \E d \in Domains, s \in Seconds : SetKeepalive(d, s)
  BY <1>53 DEF Calm, Use, SetKeepalive, Put, Become
<1>54. CASE \E d \in Domains, s \in Seconds : SetSessionTimeout(d, s)
  BY <1>54 DEF Calm, Use, SetSessionTimeout, Put, Become
<1>55. CASE \E d \in Domains, l \in Lags : AddMclagMember(d, l)
  BY <1>55 DEF Calm, Use, AddMclagMember, Become
<1>56. CASE \E d \in Domains, l \in Lags : DelMclagMember(d, l)
  BY <1>56 DEF Calm, Use, DelMclagMember, Become
<1>57. CASE \E v \in On(Vlans) : AddUniqueIp(v)
  BY <1>57 DEF Calm, Use, AddUniqueIp, Become
<1>58. CASE \E v \in On(Vlans) : DelUniqueIp(v)
  BY <1>58 DEF Calm, Use, DelUniqueIp, Become
<1>59. CASE \E x \in OnOff : ConsoleSwitch(x)
  BY <1>59 DEF Calm, Use, ConsoleSwitch, Put, Become
<1>60. CASE \E n \in Lines, d \in Devices \cup {""} : AddLine(n, d)
  BY <1>60 DEF Calm, Use, AddLine, Become
<1>61. CASE \E n \in Lines : DelLine(n)
  BY <1>61 DEF Calm, Use, DelLine, Become
<1>62. CASE \E n \in Lines, d \in Devices \cup {""} : RemoteDevice(n, d)
  BY <1>62 DEF Calm, Use, RemoteDevice, Become
<1>63. CASE \E n \in Lines, x \in {"9600", "115200"} : Baud(n, x)
  BY <1>63 DEF Calm, Use, Baud, Put, Become
<1>64. CASE \E n \in Lines, x \in {"0", "1"} : FlowControl(n, x)
  BY <1>64 DEF Calm, Use, FlowControl, Put, Become
<1>65. CASE \E f \in Features, x \in OnOff : FeatureField(f, "owner", x)
  BY <1>65 DEF Calm, Use, FeatureField, Put, Become
<1>66. CASE \E f \in Features, x \in {"enabled", "disabled"} : FeatureAutorestart(f, x)
  BY <1>66 DEF Calm, Use, FeatureAutorestart, Put, Become
<1>67. CASE \E f \in Features, x \in {"enabled", "disabled"}, block \in BOOLEAN : SetFeatureState(f, x, block)
  BY <1>67 DEF FeatureStep
<1>68. CASE FeatureReached
  BY <1>68 DEF FeatureStep
<1>69. CASE \E f \in Features : FeatureDaemon(f)
  BY <1>69 DEF Idle, Daemons, FeatureDaemon
<1> QED
  BY <1>1, <1>2, <1>3, <1>4, <1>5, <1>6, <1>7, <1>8, <1>9, <1>10, <1>11, <1>12, <1>13, <1>14, <1>15, <1>16, <1>17, <1>18, <1>19, <1>20, <1>21, <1>22, <1>23, <1>24, <1>25, <1>26, <1>27, <1>28, <1>29, <1>30, <1>31, <1>32, <1>33, <1>34, <1>35, <1>36, <1>37, <1>38, <1>39, <1>40, <1>41, <1>42, <1>43, <1>44, <1>45, <1>46, <1>47, <1>48, <1>49, <1>50, <1>51, <1>52, <1>53, <1>54, <1>55, <1>56, <1>57, <1>58, <1>59, <1>60, <1>61, <1>62, <1>63, <1>64, <1>65, <1>66, <1>67, <1>68, <1>69 DEF ServicesNext

LEMMA BuffersCalm == ASSUME BuffersNext PROVE Calm \/ QosStep
<1>1. CASE \E p \in On(BufferPorts), m \in Maps, f \in Profiles \cup {"NULL"}, new \in BOOLEAN : SetPg(p, m, f, new)
  BY <1>1 DEF Calm, Use, SetPg, Become
<1>2. CASE \E p \in On(BufferPorts), m \in Maps, f \in Profiles, new \in BOOLEAN : SetQueue(p, m, f, new)
  BY <1>2 DEF Calm, Use, SetQueue, Become
<1>3. CASE \E p \in On(BufferPorts), m \in Maps : RemovePg(p, m)
  BY <1>3 DEF Calm, Use, RemovePg, Become
<1>4. CASE \E p \in On(BufferPorts) : RemovePgs(p)
  BY <1>4 DEF Calm, Use, RemovePgs, Become
<1>5. CASE \E p \in On(BufferPorts) : \E ms \in SUBSET Removable(Queue, p) : RemoveQueues(p, ms)
  BY <1>5 DEF Calm, Use, Removable, RemoveQueues, Become
<1>6. CASE \E p \in On(BufferPorts), len \in {"5m", "40m"} : CableLength(p, len)
  BY <1>6 DEF Calm, Use, CableLength, Become
<1>7. CASE \E f \in On(Profiles), new \in NewSizes, pool \in Pools : AddProfile(f, new, pool)
  BY <1>7 DEF Calm, Use, AddProfile, Become
<1>8. CASE \E f \in On(Profiles), new \in NewSizes, pool \in Pools : SetProfile(f, new, pool)
  BY <1>8 DEF Calm, Use, SetProfile, Become
<1>9. CASE \E f \in On(Profiles) : RemoveProfile(f)
  BY <1>9 DEF Calm, Use, RemoveProfile, Become
<1>10. CASE \E n \in 0 .. 1 : OverSubscribeRatio(n)
  BY <1>10 DEF Calm, Use, OverSubscribeRatio, Become
<1>11. CASE \E n \in 0 .. 1 : HeadroomPoolSize(n)
  BY <1>11 DEF Calm, Use, HeadroomPoolSize, Become
<1>12. CASE ClearQos
  BY <1>12 DEF QosStep, On
<1>13. CASE \E dry \in BOOLEAN : ReloadQos(dry)
  BY <1>13 DEF QosStep, On
<1>14. CASE \E model \in {"dynamic", "traditional"}, found \in BOOLEAN : WriteQos(model, found)
  BY <1>14 DEF QosStep, On
<1>15. CASE \E ps \in SUBSET On(BufferPorts), dry \in BOOLEAN : ReloadPorts(ps, dry)
  BY <1>15 DEF QosStep, On
<1>16. CASE \E rendered \in BOOLEAN : WritePorts(rendered)
  BY <1>16 DEF QosStep, On
<1>17. CASE \E dry \in BOOLEAN : ReloadCbf(dry)
  BY <1>17 DEF Calm, Use, ReloadCbf, Become
<1>18. CASE ClearCbf
  BY <1>18 DEF Calm, Use, ClearCbf, Become
<1>19. CASE \E p \in On(BufferPorts), id \in 0 .. MaxPg, status \in {"on", "off"} : PfcPriority(p, id, status)
  BY <1>19 DEF Calm, Use, PfcPriority, Become
<1>20. CASE \E p \in On(BufferPorts), status \in {"on", "off"} : PfcAsymmetric(p, status)
  BY <1>20 DEF Calm, Use, PfcAsymmetric, Become
<1>21. CASE \E ps \in SUBSET On(BufferPorts), t \in {100, 400}, u \in {0, 400} : StartWatchdog(ps, t, u)
  BY <1>21 DEF Calm, Use, StartWatchdog, Become
<1>22. CASE \E ps \in SUBSET On(BufferPorts) : StopWatchdog(ps)
  BY <1>22 DEF Calm, Use, StopWatchdog, Become
<1>23. CASE \E n \in {100, 400} : WatchdogInterval(n)
  BY <1>23 DEF Calm, Use, WatchdogInterval, Become
<1>24. CASE \E ps \in SUBSET On(BufferPorts) : StartDefaultWatchdog(ps)
  BY <1>24 DEF Calm, Use, StartDefaultWatchdog, Become
<1> QED
  BY <1>1, <1>2, <1>3, <1>4, <1>5, <1>6, <1>7, <1>8, <1>9, <1>10, <1>11, <1>12, <1>13, <1>14, <1>15, <1>16, <1>17, <1>18, <1>19, <1>20, <1>21, <1>22, <1>23, <1>24 DEF BuffersNext

LEMMA TrafficCalm == ASSUME TrafficNext PROVE Calm
<1>1. CASE \E t \in On(AclTables), type \in AclTypes, stage \in Stages : \E names \in Fewer(On(Ports \cup Lags \cup Vlans)) : AddAclTable(t, type, stage, names)
  BY <1>1 DEF Calm, Use, AddAclTable, Become
<1>2. CASE \E t \in On(AclTables) : RemoveAclTable(t)
  BY <1>2 DEF Calm, Use, RemoveAclTable, Become
<1>3. CASE \E file \in AclFiles, s \in Sessions \cup {""}, t \in On(AclTables) \cup {""} : UpdateFull(file, s, t)
  BY <1>3 DEF Calm, Use, UpdateFull, Become
<1>4. CASE \E file \in AclFiles, s \in Sessions \cup {""} : UpdateIncremental(file, s)
  BY <1>4 DEF Calm, Use, UpdateIncremental, Become
<1>5. CASE \E t \in On(AclTables) \cup {""}, seq \in {-1, 0, 1} : DeleteRules(t, seq)
  BY <1>5 DEF Calm, Use, DeleteRules, Become
<1>6. CASE \E g, l \in Ips, type \in {"", "snat"}, id \in TwiceIds : AddBasic(g, l, type, id)
  BY <1>6 DEF Calm, Use, AddBasic, Become
<1>7. CASE \E g, l \in Ips, p \in {"TCP", "UDP"}, type \in {"", "snat"}, id \in TwiceIds : AddNapt(g, p, l, type, id)
  BY <1>7 DEF Calm, Use, AddNapt, Become
<1>8. CASE \E g, l \in Ips : RemoveBasic(g, l)
  BY <1>8 DEF Calm, Use, RemoveBasic, Become
<1>9. CASE \E g, l \in Ips, p \in {"TCP", "UDP"} : RemoveNapt(g, p, l)
  BY <1>9 DEF Calm, Use, RemoveNapt, Become
<1>10. CASE RemoveStaticAll
  BY <1>10 DEF Calm, Use, RemoveStaticAll, Become
<1>11. CASE \E q \in NatPools, first, last \in Ips : AddPool(q, <<first, last>>)
  BY <1>11 DEF Calm, Use, AddPool, Become
<1>12. CASE \E b \in Bindings, q \in NatPools, id \in TwiceIds : AddBinding(b, q, id)
  BY <1>12 DEF Calm, Use, AddBinding, Become
<1>13. CASE \E q \in NatPools : RemovePool(q)
  BY <1>13 DEF Calm, Use, RemovePool, Become
<1>14. CASE RemovePools
  BY <1>14 DEF Calm, Use, RemovePools, Become
<1>15. CASE \E b \in Bindings : RemoveBinding(b)
  BY <1>15 DEF Calm, Use, RemoveBinding, Become
<1>16. CASE RemoveBindings
  BY <1>16 DEF Calm, Use, RemoveBindings, Become
<1>17. CASE \E i \in On(Routed), zone \in {"0", "1"} : NatZone(i, zone)
  BY <1>17 DEF Calm, Use, NatZone, Become
<1>18. CASE RemoveNatInterfaces
  BY <1>18 DEF Calm, Use, RemoveNatInterfaces, Become
<1>19. CASE \E f \in {"admin_mode", "nat_timeout"}, x \in {"a", "b"} : NatFeature(f, x)
  BY <1>19 DEF Calm, Use, NatFeature, Become
<1> QED
  BY <1>1, <1>2, <1>3, <1>4, <1>5, <1>6, <1>7, <1>8, <1>9, <1>10, <1>11, <1>12, <1>13, <1>14, <1>15, <1>16, <1>17, <1>18, <1>19 DEF TrafficNext

LEMMA PoliciesCalm == ASSUME PoliciesNext PROVE Calm
<1>1. CASE \E n \in PbhNames, field \in DOMAIN IpVersion, mask \in {"", "4", "6"} : AddHashField(n, field, mask)
  BY <1>1 DEF Calm, Use, AddHashField, Become
<1>2. CASE \E n \in PbhNames, field \in DOMAIN IpVersion \cup {""}, mask \in {"", "4", "6"} : UpdateHashField(n, field, mask)
  BY <1>2 DEF Calm, Use, UpdateHashField, Become
<1>3. CASE \E n \in PbhNames : DeleteHashField(n) \/ DeleteHash(n) \/ DeletePbhTable(n)
  BY <1>3 DEF Calm, Use, DeleteHashField, Become, DeleteHash, DeletePbhTable
<1>4. CASE \E n \in PbhNames, fields \in SUBSET PbhNames \ {{}} : AddHash(n, fields) \/ UpdateHash(n, fields)
  BY <1>4 DEF Calm, Use, AddHash, Become, UpdateHash
<1>5. CASE \E t, n \in PbhNames, o \in RuleOptions : AddRule(t, n, o) \/ SetRule(t, n, o)
  BY <1>5 DEF Calm, Use, AddRule, Become, SetRule
<1>6. CASE \E t, n \in PbhNames, gone \in SUBSET (Matches \cup {"hash", "flow_counter"}) \ {{}} : UnsetRule(t, n, gone)
  BY <1>6 DEF Calm, Use, UnsetRule, Become
<1>7. CASE \E t, n \in PbhNames : DeleteRule(t, n)
  BY <1>7 DEF Calm, Use, DeleteRule, Become
<1>8. CASE \E t \in PbhNames, names \in Fewer(On(Ports \cup Lags)) \ {{}} : AddPbhTable(t, names) \/ UpdatePbhTable(t, names)
  BY <1>8 DEF Calm, Use, AddPbhTable, Become, UpdatePbhTable
<1>9. CASE ClearPbh
  BY <1>9 DEF Calm, Use, ClearPbh, Become
<1>10. CASE \E t \in Tunnel : AddNvgre(t) \/ DelNvgre(t)
  BY <1>10 DEF Calm, Use, AddNvgre, DelNvgre, Validated, Become
<1>11. CASE \E t \in Tunnel, m \in TunnelMaps : AddNvgreMap(t, m) \/ DelNvgreMap(t, m)
  BY <1>11 DEF Calm, Use, AddNvgreMap, DelNvgreMap, Validated, Become
<1>12. CASE \E f \in {"state", "since"}, x \in {"enabled", "disabled"} : TechsupportKnob(f, x)
  BY <1>12 DEF Calm, Use, TechsupportKnob, Validated, Become
<1>13. CASE \E n \in {"bgp"}, o \in {[state |-> "enabled"], [rate_limit_interval |-> "600"]} : AddTechsupport(n, o) \/ UpdateTechsupport(n, o)
  BY <1>13 DEF Calm, Use, AddTechsupport, UpdateTechsupport, Validated, Become
<1>14. CASE DelTechsupport("bgp")
  BY <1>14 DEF Calm, Use, DelTechsupport, Validated, Become
<1>15. CASE \E i \in On(Ports), mode \in {"active", "standby", "auto"} : MuxMode(i, mode)
  BY <1>15 DEF Calm, Use, MuxMode, Become
<1>16. CASE \E i \in On(Ports) : PacketlossReset(i)
  BY <1>16 DEF Calm, Use, PacketlossReset, Become
<1>17. CASE \E x \in {"True", "False"} : KillRadv(x) \/ Telemetry(x)
  BY <1>17 DEF Calm, Use, KillRadv, Become, Telemetry
<1>18. CASE \E n \in DropCounters, type \in DOMAIN DropCapability \cup {"none"}, reasons \in SUBSET {"x", "y"} \ {{}} : InstallCounter(n, type, reasons)
  BY <1>18 DEF Calm, Use, InstallCounter, Become
<1>19. CASE \E n \in DropCounters : DeleteCounter(n)
  BY <1>19 DEF Calm, Use, DeleteCounter, Become
<1>20. CASE \E n \in DropCounters, reasons \in SUBSET {"x", "y"} \ {{}} : AddReasons(n, reasons) \/ RemoveReasons(n, reasons)
  BY <1>20 DEF Calm, Use, AddReasons, Become, RemoveReasons
<1>21. CASE \E new \in Thresholded : SetWred(new)
  BY <1>21 DEF Calm, Use, SetWred, Become
<1>22. CASE \E qs \in SUBSET {"3", "4"} \ {{}}, x \in {"[WRED_PROFILE|AZURE_LOSSLESS]", "[]"} : EcnQueues(qs, x)
  BY <1>22 DEF Calm, Use, EcnQueues, Become
<1>23. CASE \E f \in On(Profiles), n \in {-8, 8} : MmuAlpha(f, n)
  BY <1>23 DEF Calm, Use, MmuAlpha, Become
<1>24. CASE \E g \in {"QUEUE", "PORT"}, f \in {"POLL_INTERVAL", "FLEX_COUNTER_STATUS"}, x \in {"enable", "1000"} : PollOne(g, f, x)
  BY <1>24 DEF Calm, Use, PollOne, PollGroups, Become
<1>25. CASE \E f \in {"POLL_INTERVAL", "FLEX_COUNTER_STATUS"}, x \in {"enable", "1000"} : PollWatermarks(f, x)
  BY <1>25 DEF Calm, Use, PollWatermarks, PollGroups, Become
<1>26. CASE \E f \in {"POLL_INTERVAL", "FLEX_COUNTER_STATUS"}, x \in {"enable", "1000"} : PollFlows("ACL", f, x)
  BY <1>26 DEF Calm, Use, PollFlows, PollGroups, Become
<1> QED
  BY <1>1, <1>2, <1>3, <1>4, <1>5, <1>6, <1>7, <1>8, <1>9, <1>10, <1>11, <1>12, <1>13, <1>14, <1>15, <1>16, <1>17, <1>18, <1>19, <1>20, <1>21, <1>22, <1>23, <1>24, <1>25, <1>26 DEF PoliciesNext

\* While a breakout waits, what it will write is planned of these tables.
LEMMA BreakoutJobStep ==
  ASSUME BreakoutJobFits, [Next]_vars
  PROVE  BreakoutJobFits'
<1>1. CASE job' = job
  BY <1>1 DEF BreakoutJobFits, BreakoutJob, Doing
<1>2. CASE job' = None
  BY <1>2 DEF BreakoutJobFits, Doing
<1>3. CASE job'.kind \in {"bind", "feature", "qos", "ports"}
  BY <1>3 DEF BreakoutJobFits, Doing
<1>4. CASE InterfacesNext
  <2>1. CASE BindStep
    <3>1. job' = job \/ job' = None \/ \E i, f : job' = [kind |-> "bind", of |-> i, fields |-> f]
      BY <2>1 DEF BindStep, Rebind, BindVrf, UnbindVrf, Wait, Become
    <3> QED  BY <1>1, <1>2, <1>3, <3>1
  <2> QED  BY <1>1, <1>2, <1>4, <2>1, InterfacesCalm DEF Calm, Idle
<1>5. CASE BuffersNext
  <2>1. CASE QosStep
    <3>1. \/ job' = job \/ job' = None
          \/ \E dry : job' = [kind |-> "qos", dry |-> dry] \/ \E ps : job' = [kind |-> "ports", of |-> ps, dry |-> dry]
      BY <2>1 DEF QosStep, ClearQos, ReloadQos, WriteQos, ReloadPorts, WritePorts, Become
    <3> QED  BY <1>1, <1>2, <1>3, <3>1
  <2> QED  BY <1>1, <1>2, <1>5, <2>1, BuffersCalm DEF Calm
<1>6. CASE ServicesNext
  <2>1. CASE FeatureStep
    <3>1. job' = None \/ \E f, x : job' = [kind |-> "feature", of |-> f, state |-> x]
      BY <2>1 DEF FeatureStep, SetFeatureState, FeatureReached
    <3> QED  BY <1>2, <1>3, <3>1
  <2> QED  BY <1>1, <1>2, <1>6, <2>1, ServicesCalm DEF Calm, Idle
<1>7. CASE TrafficNext \/ PoliciesNext
  BY <1>2, <1>7, TrafficCalm, PoliciesCalm DEF Calm
<1>8. CASE BreakoutNext
  <2>1. ASSUME NEW p, NEW mode, NEW force, NEW load, Breakout(p, mode, force, load)
        PROVE  BreakoutJobFits'
    <3> DEFINE ports == DOMAIN Modes[p][CurrentMode(p)]
               without == DeletePorts(db, ports)
               with == AddPorts(without, Modes[p][mode], load)
    <3>1. job' = [kind |-> "breakout", at |-> "delete", of |-> p, mode |-> mode,
                  delete |-> CreateConfigToLoad(db, without), add |-> CreateConfigToLoad(without, with)]
      BY <2>1 DEF Breakout
    <3>2. LoadFits(CreateConfigToLoad(db, without))
      BY DeletePortsWithin, LoadWithin
    <3>3. LoadFits(CreateConfigToLoad(without, with))
      BY AddPortsWithin, LoadWithin
    <3> HIDE DEF without, with
    <3> QED  BY <3>1, <3>2, <3>3 DEF BreakoutJobFits, BreakoutJob, LoadFits
  <2>2. CASE BreakoutDelete
    <3>1. job' = [job EXCEPT !.at = "asic"] /\ BreakoutJob
      BY <2>2 DEF BreakoutDelete, BreakoutJobFits
    <3>2. PICK at, of, mode, delete, add :
             /\ job = [kind |-> "breakout", at |-> at, of |-> of, mode |-> mode, delete |-> delete, add |-> add]
             /\ LoadFits(delete) /\ LoadFits(add)
      BY <3>1 DEF BreakoutJob
    <3>3. job' = [kind |-> "breakout", at |-> "asic", of |-> of, mode |-> mode, delete |-> delete, add |-> add]
      BY <3>1, <3>2
    <3> QED  BY <3>2, <3>3 DEF BreakoutJobFits, BreakoutJob, LoadFits
  <2>3. CASE BreakoutAdd \/ BreakoutTimesOut
    BY <1>2, <2>3 DEF BreakoutAdd, BreakoutTimesOut
  <2> QED  BY <1>8, <2>1, <2>2, <2>3 DEF BreakoutNext
<1> QED  BY <1>1, <1>4, <1>5, <1>6, <1>7, <1>8 DEF Next, vars

\* A step writes what the commands of one kind write.
LEMMA NextWrites ==
  ASSUME BreakoutJobFits, [Next]_vars
  PROVE  \/ InterfacesNext /\ Writes(InterfaceTables)
         \/ BreakoutNext /\ Writes(BreakoutTables)
         \/ BuffersNext /\ Writes(BufferTables)
         \/ ServicesNext /\ Writes(ServiceTables)
         \/ TrafficNext /\ Writes(TrafficTables)
         \/ PoliciesNext /\ Writes(PolicyTables)
         \/ Idle
  BY InterfacesWrite, BreakoutWrite, BuffersWrite, ServicesWrite, TrafficWrite, PoliciesWrite DEF Next, Idle, Daemons, vars

----------------------------------------------------------------------------
(* What the reads see of a row after a write.                              *)

\* The empty string: what a field is that a row has not.
Blank == ""

LEMMA FieldIs == ASSUME NEW r, NEW f PROVE Field(r, f) = IF f \in DOMAIN Entry(r) THEN db[r][f] ELSE Blank
  BY DEF Field, Blank

LEMMA NoFieldsFact == DOMAIN NoFields = {}
  BY DEF NoFields

LEMMA SetReads ==
  ASSUME NEW r, NEW f, db' = SetEntry(db, r, f)
  PROVE  /\ Has(r)' /\ Entry(r)' = f /\ db'[r] = f
         /\ \A g : Field(r, g)' = IF g \in DOMAIN f THEN f[g] ELSE Blank
         /\ \A s : s # r => (Has(s)' <=> Has(s)) /\ Entry(s)' = Entry(s) /\ (Has(s) => db'[s] = db[s])
         /\ \A s, g : s # r => Field(s, g)' = Field(s, g)
         /\ \A t : KeysOf(t)' = KeysOf(t) \cup {s \in {r} : r[1] = t}
<1>1. db'[r] = f /\ DOMAIN db' = DOMAIN db \cup {r}
  BY DEF SetEntry, :>, @@
<1>2. \A s \in DOMAIN db : s # r => db'[s] = db[s]
  BY DEF SetEntry, :>, @@
<1>3. Has(r)' /\ Entry(r)' = f
  BY <1>1 DEF Has, Entry
<1>4. \A s : s # r => (Has(s)' <=> Has(s)) /\ Entry(s)' = Entry(s) /\ (Has(s) => db'[s] = db[s])
  BY <1>1, <1>2 DEF Has, Entry
<1>5. \A g : Field(r, g)' = IF g \in DOMAIN f THEN f[g] ELSE Blank
  BY <1>1, <1>3 DEF Field, Blank
<1>6. \A s, g : s # r => Field(s, g)' = Field(s, g)
  <2> SUFFICES ASSUME NEW s, NEW g, s # r
               PROVE  Field(s, g)' = Field(s, g)
    OBVIOUS
  <2>1. CASE s \in DOMAIN db
    BY <1>2, <1>4, <2>1 DEF Field, Blank
  <2>2. CASE s \notin DOMAIN db
    BY <1>4, <2>2, NoFieldsFact DEF Field, Blank, Has, Entry
  <2> QED  BY <2>1, <2>2
<1>7. \A t : KeysOf(t)' = KeysOf(t) \cup {s \in {r} : r[1] = t}
  BY <1>1 DEF KeysOf, Rows
<1> QED  BY <1>1, <1>3, <1>4, <1>5, <1>6, <1>7

LEMMA ModReads ==
  ASSUME NEW r, NEW f, db' = ModEntry(db, r, f)
  PROVE  /\ Has(r)' /\ Entry(r)' = f @@ Entry(r) /\ db'[r] = f @@ Entry(r)
         /\ \A g : Field(r, g)' = IF g \in DOMAIN f THEN f[g] ELSE Field(r, g)
         /\ \A s : s # r => (Has(s)' <=> Has(s)) /\ Entry(s)' = Entry(s) /\ (Has(s) => db'[s] = db[s])
         /\ \A s, g : s # r => Field(s, g)' = Field(s, g)
         /\ \A t : KeysOf(t)' = KeysOf(t) \cup {s \in {r} : r[1] = t}
<1>1. db' = SetEntry(db, r, f @@ Entry(r))
  BY DEF ModEntry, SetEntry, Entry, Has
<1>2. \A g : Field(r, g)' = IF g \in DOMAIN f THEN f[g] ELSE Field(r, g)
  <2> SUFFICES ASSUME NEW g
               PROVE  Field(r, g)' = IF g \in DOMAIN f THEN f[g] ELSE Field(r, g)
    OBVIOUS
  <2>1. Field(r, g)' = IF g \in DOMAIN (f @@ Entry(r)) THEN (f @@ Entry(r))[g] ELSE Blank
    BY <1>1, SetReads
  <2>2. DOMAIN (f @@ Entry(r)) = DOMAIN f \cup DOMAIN Entry(r)
    BY ONLY MergeFacts
  <2>3. g \in DOMAIN f => (f @@ Entry(r))[g] = f[g]
    BY ONLY MergeFacts
  <2>4. g \in DOMAIN Entry(r) \ DOMAIN f => (f @@ Entry(r))[g] = Entry(r)[g]
    BY DEF @@
  <2>5. g \in DOMAIN Entry(r) => Entry(r)[g] = Field(r, g)
    BY DEF Entry, Field, Blank, Has, NoFields
  <2>6. g \notin DOMAIN Entry(r) => Field(r, g) = Blank
    BY DEF Field, Blank
  <2> QED  BY ONLY <2>1, <2>2, <2>3, <2>4, <2>5, <2>6
<1> QED  BY <1>1, <1>2, SetReads

LEMMA DropReads ==
  ASSUME NEW S, db' = Without(db, S)
  PROVE  /\ \A s \in S : ~Has(s)' /\ Entry(s)' = NoFields /\ \A g : Field(s, g)' = Blank
         /\ \A s : s \notin S => (Has(s)' <=> Has(s)) /\ Entry(s)' = Entry(s) /\ (Has(s) => db'[s] = db[s])
         /\ \A s, g : s \notin S => Field(s, g)' = Field(s, g)
         /\ \A t : KeysOf(t)' = KeysOf(t) \ S
<1>1. DOMAIN db' = DOMAIN db \ S /\ \A s \in DOMAIN db \ S : db'[s] = db[s]
  BY DEF Without
<1>2. \A s \in S : ~Has(s)' /\ Entry(s)' = NoFields
  BY <1>1 DEF Has, Entry
<1>3. \A s : s \notin S => (Has(s)' <=> Has(s)) /\ Entry(s)' = Entry(s) /\ (Has(s) => db'[s] = db[s])
  BY <1>1 DEF Has, Entry
<1>4. \A s \in S : \A g : Field(s, g)' = Blank
  BY <1>2, NoFieldsFact DEF Field, Blank
<1>5. \A s, g : s \notin S => Field(s, g)' = Field(s, g)
  <2> SUFFICES ASSUME NEW s, NEW g, s \notin S
               PROVE  Field(s, g)' = Field(s, g)
    OBVIOUS
  <2>1. CASE s \in DOMAIN db
    BY <1>1, <1>3, <2>1 DEF Field, Blank
  <2>2. CASE s \notin DOMAIN db
    BY <1>3, <2>2, NoFieldsFact DEF Field, Blank, Has, Entry
  <2> QED  BY <2>1, <2>2
<1>6. \A t : KeysOf(t)' = KeysOf(t) \ S
  BY <1>1 DEF KeysOf, Rows
<1> QED  BY <1>2, <1>3, <1>4, <1>5, <1>6

LEMMA LeavesReads ==
  ASSUME NEW T, Leaves(T)
  PROVE  /\ \A s : s[1] \in T => (Has(s)' <=> Has(s)) /\ Entry(s)' = Entry(s) /\ (Has(s) => db'[s] = db[s])
         /\ \A s, g : s[1] \in T => Field(s, g)' = Field(s, g)
         /\ \A t \in T : KeysOf(t)' = KeysOf(t)
<1>1. \A s : s[1] \in T => (Has(s)' <=> Has(s)) /\ Entry(s)' = Entry(s) /\ (Has(s) => db'[s] = db[s])
  BY DEF Leaves, Beside, Same, Has, Entry
<1>2. \A s, g : s[1] \in T => Field(s, g)' = Field(s, g)
  <2> SUFFICES ASSUME NEW s, NEW g, s[1] \in T
               PROVE  Field(s, g)' = Field(s, g)
    OBVIOUS
  <2>1. CASE s \in DOMAIN db
    BY <1>1, <2>1 DEF Field, Blank, Has
  <2>2. CASE s \notin DOMAIN db
    BY <1>1, <2>2, NoFieldsFact DEF Field, Blank, Has, Entry
  <2> QED  BY <2>1, <2>2
<1>3. \A t \in T : KeysOf(t)' = KeysOf(t)
  BY DEF Leaves, Beside, Same, KeysOf, Rows
<1> QED  BY <1>1, <1>2, <1>3

=============================================================================
