--------------------------- MODULE ConfigPolicies ---------------------------
(***************************************************************************)
(* The commands of "config" for policy based hashing, NVGRE, automatic tech  *)
(* supports and mux cables, and the scripts dropconfig, ecnconfig,           *)
(* mmuconfig and counterpoll, which write CONFIG_DB too.                     *)
(***************************************************************************)
EXTENDS ConfigInterfaces, ConfigBuffers

CONSTANTS
    PbhNames,       \* of tables, rules, hashes and hash fields
    IpVersion,      \* the IP version of a native hash field, "" of one that is no address
    PbhCapability,  \* STATE_DB: the operations on a field of a table that the switch supports
    Matches,        \* the fields of a rule that match packets
    Tunnel, TunnelMaps, \* NVGRE
    DropCapability, \* STATE_DB: [count, reasons] of a type of drop counter
    DropCounters,
    Thresholds      \* of WRED

\* The native hash fields have names; the hash of a rule is replaced, never removed,
\* as a switch reports it (tests/pbh_input/state_db.json); a number of counters is a number.
ASSUME PoliciesAssumption ==
    /\ "" \notin DOMAIN IpVersion
    /\ "hash" \in DOMAIN PbhCapability["PBH_RULE"] => "REMOVE" \notin PbhCapability["PBH_RULE"]["hash"]
    /\ \A type \in DOMAIN DropCapability : DropCapability[type].count \in Nat
-----------------------------------------------------------------------------
(* config pbh; a mask is known by its IP version *)

HashField(n) == <<"PBH_HASH_FIELD", n>>
Hash(n) == <<"PBH_HASH", n>>
PbhTable(t) == <<"PBH_TABLE", t>>
Rule(t, n) == <<"PBH_RULE", t, n>>
Saved(t, n) == <<"PBH_SAVED", t, n>>   \* the file of counters that a clear writes

\* The options that are given.
Chosen(o) == [f \in {g \in DOMAIN o : o[g] # ""} |-> o[f]]

\* What an update may do to a field depends on whether the row has it.
MayUpdate(r, new, gone) ==
    \A f \in DOMAIN new \cup gone :
        LET op == IF f \in gone THEN "REMOVE" ELSE IF f \in DOMAIN db[r] THEN "UPDATE" ELSE "ADD"
        IN  /\ f \in DOMAIN PbhCapability[r[1]] /\ op \in PbhCapability[r[1]][f]
            /\ f \in gone => f \in DOMAIN db[r]
UpdateEntry(r, new, gone) == SetEntry(db, r, [f \in DOMAIN (new @@ db[r]) \ gone |-> (new @@ db[r])[f]])

AddHashField(n, field, mask) ==
    /\ Use("pbh") /\ ~Has(HashField(n)) /\ IpVersion[field] = mask
    /\ Become(SetEntry(db, HashField(n), Chosen([hash_field |-> field, ip_mask |-> mask])))
UpdateHashField(n, field, mask) ==
    LET new == Chosen([hash_field |-> field, ip_mask |-> mask])
        both == new @@ Entry(HashField(n))
    IN  /\ Use("pbh") /\ Has(HashField(n)) /\ new # NoFields
        /\ IpVersion[both.hash_field] = (IF "ip_mask" \in DOMAIN both THEN both.ip_mask ELSE "")
        /\ MayUpdate(HashField(n), new, {})
        /\ Become(UpdateEntry(HashField(n), new, {}))

\* What names the row that goes is not looked at: of a field, a hash, a table.
DeleteHashField(n) == Use("pbh") /\ Has(HashField(n)) /\ Become(Without(db, {HashField(n)}))

AddHash(n, fields) ==
    /\ Use("pbh") /\ ~Has(Hash(n)) /\ \A f \in fields : Has(HashField(f))
    /\ Become(SetEntry(db, Hash(n), [hash_field_list |-> fields]))
UpdateHash(n, fields) ==
    /\ Use("pbh") /\ Has(Hash(n)) /\ \A f \in fields : Has(HashField(f))
    /\ MayUpdate(Hash(n), [hash_field_list |-> fields], {})
    /\ Become(UpdateEntry(Hash(n), [hash_field_list |-> fields], {}))
DeleteHash(n) == Use("pbh") /\ Has(Hash(n)) /\ Become(Without(db, {Hash(n)}))

HashFits(o) == "hash" \in DOMAIN o => Has(Hash(o.hash))
AddRule(t, n, o) ==
    /\ Use("pbh") /\ Has(PbhTable(t)) /\ ~Has(Rule(t, n))
    /\ "hash" \in DOMAIN o /\ HashFits(o) /\ Matches \cap DOMAIN o # {}
    /\ Become(SetEntry(db, Rule(t, n), o))

\* Mutant of SetRule: the saved counters stay.
SetRuleOnly(t, n, o) ==
    /\ Use("pbh") /\ Has(PbhTable(t)) /\ Has(Rule(t, n)) /\ o # NoFields /\ HashFits(o)
    /\ MayUpdate(Rule(t, n), o, {})
    /\ Become(UpdateEntry(Rule(t, n), o, {}))

\* The saved counters of a rule go when it stops counting.
SetRule(t, n, o) ==
    /\ Use("pbh") /\ Has(PbhTable(t)) /\ Has(Rule(t, n)) /\ o # NoFields /\ HashFits(o)
    /\ MayUpdate(Rule(t, n), o, {})
    /\ Become(Without(UpdateEntry(Rule(t, n), o, {}),
                      IF "flow_counter" \in DOMAIN o /\ o.flow_counter = "DISABLED" THEN {Saved(t, n)} ELSE {}))
UnsetRule(t, n, gone) ==
    /\ Use("pbh") /\ Has(PbhTable(t)) /\ Has(Rule(t, n))
    /\ (DOMAIN db[Rule(t, n)] \cap Matches) \ gone # {}
    /\ MayUpdate(Rule(t, n), NoFields, gone)
    /\ Become(Without(UpdateEntry(Rule(t, n), NoFields, gone),
                      IF "flow_counter" \in gone THEN {Saved(t, n)} ELSE {}))
DeleteRule(t, n) ==
    /\ Use("pbh") /\ Has(PbhTable(t)) /\ Has(Rule(t, n))
    /\ Become(Without(db, {Rule(t, n), Saved(t, n)}))

PbhInterfaces(names) == \A i \in names : Has(<<"PORT", i>>) \/ Has(<<"PORTCHANNEL", i>>)
AddPbhTable(t, names) ==
    /\ Use("pbh") /\ ~Has(PbhTable(t)) /\ PbhInterfaces(names)
    /\ Become(SetEntry(db, PbhTable(t), [interface_list |-> names]))
UpdatePbhTable(t, names) ==
    /\ Use("pbh") /\ Has(PbhTable(t)) /\ PbhInterfaces(names)
    /\ MayUpdate(PbhTable(t), [interface_list |-> names], {})
    /\ Become(UpdateEntry(PbhTable(t), [interface_list |-> names], {}))
DeletePbhTable(t) == Use("pbh") /\ Has(PbhTable(t)) /\ Become(Without(db, {PbhTable(t)}))

\* sonic-clear pbh statistics saves an empty row for a rule that has no counter.
ClearPbh ==
    /\ Use("pbh")
    /\ Become([s \in {Saved(r[2], r[3]) : r \in KeysOf("PBH_RULE")} |->
                   [counts |-> Field(Rule(s[2], s[3]), "flow_counter")]]
              @@ Without(db, KeysOf("PBH_SAVED")))
-----------------------------------------------------------------------------
(* config nvgre-tunnel, auto-techsupport: the YANG models decide *)

NvgreTunnel(t) == <<"NVGRE_TUNNEL", t>>
NvgreMap(t, m) == <<"NVGRE_TUNNEL_MAP", t, m>>
YangAccepts(d) == \A r \in DOMAIN d : r[1] = "NVGRE_TUNNEL_MAP" => NvgreTunnel(r[2]) \in DOMAIN d
Validated(d) == YangAccepts(d) /\ Become(d)

AddNvgre(t) == Use("nvgre") /\ ~Has(NvgreTunnel(t)) /\ Validated(SetEntry(db, NvgreTunnel(t), [src_ip |-> "a"]))
DelNvgre(t) == Use("nvgre") /\ Has(NvgreTunnel(t)) /\ Validated(Without(db, {NvgreTunnel(t)}))
AddNvgreMap(t, m) ==
    Use("nvgre") /\ ~Has(NvgreMap(t, m)) /\ Validated(SetEntry(db, NvgreMap(t, m), [vlan_id |-> "1", vsid |-> "1"]))
DelNvgreMap(t, m) == Use("nvgre") /\ Has(NvgreMap(t, m)) /\ Validated(Without(db, {NvgreMap(t, m)}))

TechsupportKnob(f, x) == Use("techsupport") /\ Validated(ModEntry(db, <<"AUTO_TECHSUPPORT", "GLOBAL">>, f :> x))
TechsupportFeature(n) == <<"AUTO_TECHSUPPORT_FEATURE", n>>
AddTechsupport(n, o) ==
    Use("techsupport") /\ ~Has(TechsupportFeature(n)) /\ Validated(SetEntry(db, TechsupportFeature(n), o))
UpdateTechsupport(n, o) ==
    Use("techsupport") /\ Has(TechsupportFeature(n)) /\ Validated(ModEntry(db, TechsupportFeature(n), o))
DelTechsupport(n) ==
    Use("techsupport") /\ Has(TechsupportFeature(n)) /\ Validated(Without(db, {TechsupportFeature(n)}))
-----------------------------------------------------------------------------
(* config muxcable mode, packetloss, kill-radv, telemetry *)

Mux(i) == <<"MUX_CABLE", i>>
Servers4And6 == {"state", "server_ipv4", "server_ipv6"}
Kept(r, fields) == [f \in fields |-> IF f \in DOMAIN db[r] THEN db[r][f] ELSE "None"]
HasMux(i) == Has(Mux(i)) /\ Servers4And6 \subseteq DOMAIN db[Mux(i)]

\* The row is written anew, without what the command does not know of.
MuxMode(i, mode) ==
    /\ Use("mux") /\ HasMux(i) /\ db[Mux(i)].state # mode
    /\ LET soc == {"soc_ipv4", "cable_type"}
           fields == IF soc \cap DOMAIN db[Mux(i)] = {} THEN Servers4And6 ELSE Servers4And6 \cup soc
       IN  Become(SetEntry(db, Mux(i), [state |-> mode] @@ Kept(Mux(i), fields)))
ResetLoss(i) == SetEntry(db, Mux(i), [pck_loss_data_reset |-> "reset"] @@ Kept(Mux(i), Servers4And6))
PacketlossReset(i) == Use("mux") /\ HasMux(i) /\ Become(ResetLoss(i))
KillRadv(x) == Use("mux") /\ Become(ModEntry(db, <<"MUX_LINKMGR", "SERVICE_MGMT">>, [kill_radv |-> x]))
Telemetry(x) ==
    LET r == <<"XCVRD_LOG", "Y_CABLE">>
    IN  /\ Use("mux") /\ "log_verbosity" \in DOMAIN Entry(r)
        /\ Become(SetEntry(db, r, [log_verbosity |-> db[r].log_verbosity, disable_telemetry |-> x]))
-----------------------------------------------------------------------------
(* dropconfig, ecnconfig, mmuconfig, counterpoll *)

DropCounter(n) == <<"DEBUG_COUNTER", n>>
Reason(n, x) == <<"DEBUG_COUNTER_DROP_REASON", n, x>>
SupportedReasons(type, reasons) == type \in DOMAIN DropCapability /\ reasons \subseteq DropCapability[type].reasons
WithReasons(d, n, reasons) == [r \in {Reason(n, x) : x \in reasons} |-> NoFields] @@ d

\* All counters are counted against the number of those of this type.
InstallCounter(n, type, reasons) ==
    /\ Use("drop") /\ ~Has(DropCounter(n)) /\ SupportedReasons(type, reasons)
    /\ Cardinality(KeysOf("DEBUG_COUNTER")) < DropCapability[type].count
    /\ Become(SetEntry(WithReasons(db, n, reasons), DropCounter(n), [type |-> type]))
DeleteCounter(n) ==
    /\ Use("drop") /\ Has(DropCounter(n))
    /\ Become(Without(db, {DropCounter(n)} \cup {r \in KeysOf("DEBUG_COUNTER_DROP_REASON") : r[2] = n}))
AddReasons(n, reasons) ==
    /\ Use("drop") /\ Has(DropCounter(n)) /\ SupportedReasons(db[DropCounter(n)].type, reasons)
    /\ Become(WithReasons(db, n, reasons))
RemoveReasons(n, reasons) ==
    Use("drop") /\ Has(DropCounter(n)) /\ Become(Without(db, {Reason(n, x) : x \in reasons}))

\* The thresholds of the profile and the new ones are checked together.
Wred == <<"WRED_PROFILE", "AZURE_LOSSLESS">>
Ordered(data) == {"gmin", "gmax"} \subseteq DOMAIN data => data.gmin <= data.gmax
SetWred(new) == Use("ecn") /\ Has(Wred) /\ Ordered(new @@ db[Wred]) /\ Become(ModEntry(db, Wred, new))
EcnQueues(qs, x) ==
    LET rows == {<<"QUEUE", r[2], q>> : r \in KeysOf("DEVICE_NEIGHBOR"), q \in qs}
    IN  Use("ecn") /\ Become([r \in rows |-> [wred_profile |-> x] @@ Entry(r)] @@ db)

\* A profile that is not there gets a row with nothing but its alpha.
MmuAlpha(f, n) ==
    /\ Use("mmu") /\ (Has(Profile(f)) => "dynamic_th" \in DOMAIN db[Profile(f)])
    /\ Become(ModEntry(db, Profile(f), [dynamic_th |-> n]))

FlexCounter(g) == <<"FLEX_COUNTER_TABLE", g>>
PollGroups(gs, f, x) ==
    Use("poll") /\ Become([r \in {FlexCounter(g) : g \in gs} |-> (f :> x) @@ Entry(r)] @@ db)
PollOne(g, f, x) == PollGroups({g}, f, x)
PollWatermarks(f, x) == PollGroups({"QUEUE_WATERMARK", "PG_WATERMARK", "BUFFER_POOL_WATERMARK"}, f, x)
PollFlows(g, f, x) == PollGroups({g}, f, x)
-----------------------------------------------------------------------------
RuleOptions ==
    LET o == [Matches \cup {"hash", "flow_counter"} -> {"", "x", "ENABLED", "DISABLED"} \cup PbhNames]
    IN  {Chosen(c) : c \in {x \in o : /\ \A m \in Matches : x[m] \in {"", "x"}
                                      /\ x.hash \in PbhNames \cup {""}
                                      /\ x.flow_counter \in {"", "ENABLED", "DISABLED"}}}
Thresholded == {[gmin |-> n] : n \in Thresholds} \cup {[gmax |-> n] : n \in Thresholds}
                   \cup [gmin : Thresholds, gmax : Thresholds]

PoliciesNext ==
    \/ \E n \in PbhNames, field \in DOMAIN IpVersion, mask \in {"", "4", "6"} : AddHashField(n, field, mask)
    \/ \E n \in PbhNames, field \in DOMAIN IpVersion \cup {""}, mask \in {"", "4", "6"} : UpdateHashField(n, field, mask)
    \/ \E n \in PbhNames : DeleteHashField(n) \/ DeleteHash(n) \/ DeletePbhTable(n)
    \/ \E n \in PbhNames, fields \in SUBSET PbhNames \ {{}} : AddHash(n, fields) \/ UpdateHash(n, fields)
    \/ \E t, n \in PbhNames, o \in RuleOptions : AddRule(t, n, o) \/ SetRule(t, n, o)
    \/ \E t, n \in PbhNames, gone \in SUBSET (Matches \cup {"hash", "flow_counter"}) \ {{}} : UnsetRule(t, n, gone)
    \/ \E t, n \in PbhNames : DeleteRule(t, n)
    \/ \E t \in PbhNames, names \in Fewer(On(Ports \cup Lags)) \ {{}} : AddPbhTable(t, names) \/ UpdatePbhTable(t, names)
    \/ ClearPbh
    \/ \E t \in Tunnel : AddNvgre(t) \/ DelNvgre(t)
    \/ \E t \in Tunnel, m \in TunnelMaps : AddNvgreMap(t, m) \/ DelNvgreMap(t, m)
    \/ \E f \in {"state", "since"}, x \in {"enabled", "disabled"} : TechsupportKnob(f, x)
    \/ \E n \in {"bgp"}, o \in {[state |-> "enabled"], [rate_limit_interval |-> "600"]} :
         AddTechsupport(n, o) \/ UpdateTechsupport(n, o)
    \/ DelTechsupport("bgp")
    \/ \E i \in On(Ports), mode \in {"active", "standby", "auto"} : MuxMode(i, mode)
    \/ \E i \in On(Ports) : PacketlossReset(i)
    \/ \E x \in {"True", "False"} : KillRadv(x) \/ Telemetry(x)
    \/ \E n \in DropCounters, type \in DOMAIN DropCapability \cup {"none"}, reasons \in SUBSET {"x", "y"} \ {{}} :
         InstallCounter(n, type, reasons)
    \/ \E n \in DropCounters : DeleteCounter(n)
    \/ \E n \in DropCounters, reasons \in SUBSET {"x", "y"} \ {{}} : AddReasons(n, reasons) \/ RemoveReasons(n, reasons)
    \/ \E new \in Thresholded : SetWred(new)
    \/ \E qs \in SUBSET {"3", "4"} \ {{}}, x \in {"[WRED_PROFILE|AZURE_LOSSLESS]", "[]"} : EcnQueues(qs, x)
    \/ \E f \in On(Profiles), n \in {-8, 8} : MmuAlpha(f, n)
    \/ \E g \in {"QUEUE", "PORT"}, f \in {"POLL_INTERVAL", "FLEX_COUNTER_STATUS"}, x \in {"enable", "1000"} : PollOne(g, f, x)
    \/ \E f \in {"POLL_INTERVAL", "FLEX_COUNTER_STATUS"}, x \in {"enable", "1000"} : PollWatermarks(f, x)
    \/ \E f \in {"POLL_INTERVAL", "FLEX_COUNTER_STATUS"}, x \in {"enable", "1000"} : PollFlows("ACL", f, x)
=============================================================================
