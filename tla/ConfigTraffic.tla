---------------------------- MODULE ConfigTraffic ---------------------------
(***************************************************************************)
(* The commands that decide what happens to packets: ACL tables, the rules  *)
(* that acl-loader makes from a file, and NAT.                             *)
(***************************************************************************)
EXTENDS ConfigInterfaces

CONSTANTS
    AclTables, AclTypes, Stages,
    AclFiles,       \* a file: a set of entries [table, seq, forwarding, match]
    AclCapability,  \* STATE_DB: the <<stage, action>> that the switch supports
    MaxPriority,    \* of a rule, less its sequence number
    Ips,            \* NAT: addresses, which are numbers
    NatPools, Bindings,
    TwiceIds,       \* numbers, 0 for none
    MaxNat          \* bound: NAT rows

-----------------------------------------------------------------------------
(* config acl add, remove *)

AclTable(t) == <<"ACL_TABLE", t>>

\* Ports that are not in a port channel, and port channels that have members.
GetAclBoundPorts ==
    {p \in Ports : Has(<<"PORT", p>>) /\ ~InLag(p)} \cup {r[2] : r \in KeysOf("PORTCHANNEL_MEMBER")}
ExpandVlanPorts(i) == IF Has(<<"VLAN", i>>) THEN {r[3] : r \in {x \in KeysOf("VLAN_MEMBER") : x[2] = i}} ELSE {i}

\* No list of ports stands for all of them; an empty VLAN cannot be bound.
AddAclTable(t, type, stage, names) ==
    /\ Use("acl")
    /\ \A i \in names : ExpandVlanPorts(i) # {} /\ ExpandVlanPorts(i) \subseteq GetAclBoundPorts
    /\ Become(SetEntry(db, AclTable(t),
                       [type |-> type, stage |-> stage,
                        ports |-> IF names = {} THEN GetAclBoundPorts ELSE UNION {ExpandVlanPorts(i) : i \in names}]))

\* The rules of the table stay.
RemoveAclTable(t) == Use("acl") /\ Become(Without(db, {AclTable(t)}))
-----------------------------------------------------------------------------
(* acl-loader update, delete *)

AclType(t) == Field(AclTable(t), "type")
AclRule(t, seq) == <<"ACL_RULE", t, seq>>
IsControlPlane(t) == AclType(t) = "CTRLPLANE"

\* What an entry makes the switch do; "" when there is no session to mirror to.
Action(e, session) ==
    CASE e.forwarding # "ACCEPT" -> "PACKET_ACTION:DROP"
      [] IsControlPlane(e.table) -> "PACKET_ACTION:ACCEPT"
      [] AclType(e.table) = "MIRROR" -> IF session = "" THEN "" ELSE "MIRROR_INGRESS_ACTION"
      [] OTHER -> "PACKET_ACTION:FORWARD"

\* An entry that cannot be converted is skipped, and the table still gets the
\* rule that drops the rest, unless it is a mirror table or an egress table.
Supported(e, session) ==
    /\ Action(e, session) # ""
    /\ IsControlPlane(e.table) \/ <<Field(AclTable(e.table), "stage"), Action(e, session)>> \in AclCapability
ConvertRule(e, session) ==
    [priority |-> MaxPriority - e.seq, action |-> Action(e, session)] @@ e.match

\* The rule DEFAULT_RULE is number 0.
DenyRule == [priority |-> 1, action |-> "PACKET_ACTION:DROP"]
Denies(t) == AclType(t) # "MIRROR" /\ Field(AclTable(t), "stage") # "egress"

ConvertRules(file, session, current) ==
    LET used == {e \in file : Has(AclTable(e.table)) /\ current \in {"", e.table}}
        good == {e \in used : Supported(e, session)}
        deny == {AclRule(e.table, 0) : e \in {x \in used : Denies(x.table)}}
    IN  [r \in {AclRule(e.table, e.seq) : e \in good} \cup deny |->
            IF r \in deny THEN DenyRule
            ELSE ConvertRule(CHOOSE e \in good : r = AclRule(e.table, e.seq), session)]

FullUpdate(file, session, current) ==
    LET old == {r \in KeysOf("ACL_RULE") : current \in {"", r[2]}}
    IN  ConvertRules(file, session, current) @@ Without(db, old)

\* Rules of the data plane are all removed and written again; those of the
\* control plane are compared.
IncrementalUpdate(file, session) ==
    LET new == ConvertRules(file, session, "")
        current == KeysOf("ACL_RULE")
        control == {r \in current : IsControlPlane(r[2])}
        kept == DOMAIN new \cap control
        changed == {r \in kept : new[r] # db[r]}
        left == Without(db, (current \ control) \cup (control \ DOMAIN new))
    IN  [r \in changed |-> new[r]] @@ [r \in DOMAIN new \ kept |-> new[r]] @@ left

\* The session that is asked for, or any whose name starts with "everflow".
SessionIs(s) == IF s = "" THEN KeysOf("MIRROR_SESSION") = {} ELSE Has(<<"MIRROR_SESSION", s>>)

UpdateFull(file, s, current) ==
    /\ Use("acl") /\ SessionIs(s)
    /\ Become(FullUpdate(file, s, current))

\* A rule of a table that is gone ends it before anything is written.
UpdateIncremental(file, s) ==
    /\ Use("acl") /\ SessionIs(s)
    /\ \A r \in KeysOf("ACL_RULE") : Has(AclTable(r[2]))
    /\ Become(IncrementalUpdate(file, s))

DeleteRules(t, seq) ==
    /\ Use("acl")
    /\ Become(Without(db, {r \in KeysOf("ACL_RULE") : t \in {"", r[2]} /\ seq \in {-1, r[3]}}))
-----------------------------------------------------------------------------
(* config nat *)

StaticNat(g) == <<"STATIC_NAT", g>>
Napt(g, proto) == <<"STATIC_NAPT", g, proto>>
Pool(q) == <<"NAT_POOL", q>>
Binding(b) == <<"NAT_BINDINGS", b>>
NatRows == UNION {KeysOf(x) : x \in {"STATIC_NAT", "STATIC_NAPT", "NAT_POOL", "NAT_BINDINGS"}}
Room(r) == Has(r) \/ Cardinality(NatRows) < MaxNat

\* The address that an entry takes: of "snat" the local one.
Taken(g, l, type) == IF type = "snat" THEN l ELSE g
TakenBy(r) == Taken(r[2], db[r].local_ip, db[r].nat_type)
IsOverlapping(ip, table) == \E r \in KeysOf(table) : TakenBy(r) = ip
InPool(ip, range) == ip \in range[1] .. range[2]
IsOverlappingDynamic(ip) == \E r \in KeysOf("NAT_POOL") : InPool(ip, db[r].nat_ip)

\* The count of bindings leaves out those without their pool.
TwiceCount(id, table) == Cardinality({r \in KeysOf(table) : db[r].twice_nat_id = id})
TwiceBound(id, but) ==
    Cardinality({r \in KeysOf("NAT_BINDINGS") \ {but} : Has(Pool(db[r].nat_pool)) /\ db[r].twice_nat_id = id})

\* One more entry with a twice NAT id is counted against its own table.
TwiceFits(id, table) == id = 0 \/ TwiceCount(id, table) + TwiceBound(id, <<>>) <= 1
Static(l, type, id) == [local_ip |-> l, nat_type |-> type, twice_nat_id |-> id]

\* Mutant of AddBasic: the pools are not looked at.
AddBasicOver(g, l, type, id) ==
    /\ Use("nat") /\ Room(StaticNat(g))
    /\ ~IsOverlapping(Taken(g, l, type), "STATIC_NAPT")
    /\ (Has(StaticNat(g)) => db[StaticNat(g)].local_ip # l) /\ TwiceFits(id, "STATIC_NAT")
    /\ Become(SetEntry(db, StaticNat(g), Static(l, type, id)))

AddBasic(g, l, type, id) ==
    /\ Use("nat") /\ Room(StaticNat(g))
    /\ ~IsOverlapping(Taken(g, l, type), "STATIC_NAPT") /\ ~IsOverlappingDynamic(Taken(g, l, type))
    /\ (Has(StaticNat(g)) => db[StaticNat(g)].local_ip # l) /\ TwiceFits(id, "STATIC_NAT")
    /\ Become(SetEntry(db, StaticNat(g), Static(l, type, id)))

AddNapt(g, proto, l, type, id) ==
    /\ Use("nat") /\ Room(Napt(g, proto))
    /\ ~IsOverlapping(Taken(g, l, type), "STATIC_NAT")
    /\ (Has(Napt(g, proto)) => db[Napt(g, proto)].local_ip # l) /\ TwiceFits(id, "STATIC_NAPT")
    /\ Become(SetEntry(db, Napt(g, proto), Static(l, type, id)))

RemoveBasic(g, l) ==
    /\ Use("nat") /\ Has(StaticNat(g)) /\ db[StaticNat(g)].local_ip = l
    /\ Become(Without(db, {StaticNat(g)}))
RemoveNapt(g, proto, l) ==
    /\ Use("nat") /\ Has(Napt(g, proto)) /\ db[Napt(g, proto)].local_ip = l
    /\ Become(Without(db, {Napt(g, proto)}))
RemoveStaticAll == Use("nat") /\ Become(Without(db, KeysOf("STATIC_NAT") \cup KeysOf("STATIC_NAPT")))

AddPool(q, range) ==
    /\ Use("nat") /\ Room(Pool(q)) /\ range[1] <= range[2]
    /\ ~\E r \in KeysOf("STATIC_NAT") : InPool(TakenBy(r), range)
    /\ Become(SetEntry(db, Pool(q), [nat_ip |-> range]))

\* A binding is taken for a pool that is not there too.
AddBinding(b, q, id) ==
    /\ Use("nat") /\ Room(Binding(b))
    /\ Has(Binding(b)) => db[Binding(b)].nat_pool # q
    /\ id = 0 \/ TwiceCount(id, "STATIC_NAT") + TwiceCount(id, "STATIC_NAPT") + TwiceBound(id, Binding(b)) <= 1
    /\ Become(SetEntry(db, Binding(b), [nat_pool |-> q, twice_nat_id |-> id]))

IsBound(q) == \E r \in KeysOf("NAT_BINDINGS") : db[r].nat_pool = q
RemovePool(q) == Use("nat") /\ Has(Pool(q)) /\ ~IsBound(q) /\ Become(Without(db, {Pool(q)}))
RemovePools == Use("nat") /\ Become(Without(db, {r \in KeysOf("NAT_POOL") : ~IsBound(r[2])}))
RemoveBinding(b) == Use("nat") /\ Has(Binding(b)) /\ Become(Without(db, {Binding(b)}))
RemoveBindings == Use("nat") /\ Become(Without(db, KeysOf("NAT_BINDINGS")))

NatInterface(i) == NameIsValid(i) \/ Has(<<"VLAN", i>>)
NatZone(i, zone) ==
    /\ Use("zone") /\ (NatInterface(i) \/ i \in Loopbacks) /\ Has(Own(i))
    /\ Become(ModEntry(db, Own(i), [nat_zone |-> zone]))

\* The rows of all interfaces are replaced: their VRFs are gone.
RemoveNatInterfaces ==
    /\ Use("zone")
    /\ Become([r \in {Own(i) : i \in Routed \ Subs} \cap Rows |-> [nat_zone |-> "0"]] @@ db)

NatFeature(f, x) == Use("device") /\ Become(ModEntry(db, <<"NAT_GLOBAL", "Values">>, f :> x))
-----------------------------------------------------------------------------
TrafficNext ==
    \/ \E t \in On(AclTables), type \in AclTypes, stage \in Stages :
         \E names \in Fewer(On(Ports \cup Lags \cup Vlans)) : AddAclTable(t, type, stage, names)
    \/ \E t \in On(AclTables) : RemoveAclTable(t)
    \/ \E file \in AclFiles, s \in Sessions \cup {""}, t \in On(AclTables) \cup {""} : UpdateFull(file, s, t)
    \/ \E file \in AclFiles, s \in Sessions \cup {""} : UpdateIncremental(file, s)
    \/ \E t \in On(AclTables) \cup {""}, seq \in {-1, 0, 1} : DeleteRules(t, seq)
    \/ \E g, l \in Ips, type \in {"", "snat"}, id \in TwiceIds : AddBasic(g, l, type, id)
    \/ \E g, l \in Ips, p \in {"TCP", "UDP"}, type \in {"", "snat"}, id \in TwiceIds : AddNapt(g, p, l, type, id)
    \/ \E g, l \in Ips : RemoveBasic(g, l)
    \/ \E g, l \in Ips, p \in {"TCP", "UDP"} : RemoveNapt(g, p, l)
    \/ RemoveStaticAll
    \/ \E q \in NatPools, first, last \in Ips : AddPool(q, <<first, last>>)
    \/ \E b \in Bindings, q \in NatPools, id \in TwiceIds : AddBinding(b, q, id)
    \/ \E q \in NatPools : RemovePool(q)
    \/ RemovePools
    \/ \E b \in Bindings : RemoveBinding(b)
    \/ RemoveBindings
    \/ \E i \in On(Routed), zone \in {"0", "1"} : NatZone(i, zone)
    \/ RemoveNatInterfaces
    \/ \E f \in {"admin_mode", "nat_timeout"}, x \in {"a", "b"} : NatFeature(f, x)
=============================================================================
