------------------------------- MODULE DbMigrator -------------------------------
(***************************************************************************)
(* db_migrator: from the version that the database records, step by step to   *)
(* the current one, each step a series of rows written one at a time, and     *)
(* after the last step what is done at every start. It may be stopped         *)
(* between two writes, and then starts again from the recorded version.       *)
(***************************************************************************)
EXTENDS MellanoxBuffers

CONSTANTS
    InitCfg,      \* the rows of init_cfg.json
    MaxKills

VARIABLES
    db,        \* CONFIG_DB, and rows of other databases under a name that begins with theirs
    mem,       \* what the migrator remembers of buffers
    steps,     \* what it still has to do; the writes of the first of them are in order
    writes,
    mig,       \* [asic, warm, state, killed]
    found      \* the database as it was at first
OtherDatabases ==
    {"APPL INTF_TABLE:lo:ip", "APPL INTF_TABLE:Loopback0:ip", "APPL INTF_TABLE:Vlan1:ip", "APPL INTF_TABLE:Vlan1",
     "APPL BUFFER_PG_TABLE:Ethernet0:3-4", "APPL BUFFER_PG_TABLE:Ethernet4:3-4",
     "APPL BUFFER_PROFILE_TABLE:pg_lossless_100000_5m_profile", "APPL BUFFER_QUEUE_TABLE:Ethernet0:3-4",
     "APPL VXLAN_TUNNEL_TABLE:vtep", "APPL PORT_TABLE:Ethernet64", "APPL COPP_TABLE:trap", "LOGLEVEL orchagent"}
migrationVars == <<db, mem, steps, writes, mig, found>>

Same(r) == <<r, r>>
\* Mutant of MigratePfcWdTable: the old row goes first.
PfcWdOldFirst(d) ==
    When(Row(d, "PFC_WD_TABLE") # {}, <<<<"PFC_WD_TABLE", {}>>, <<"PFC_WD", Row(d, "PFC_WD_TABLE")>>>>)
\* Rows that are renamed: the new row is there before the old one goes.
MigratePfcWdTable(d) ==
    When(Row(d, "PFC_WD_TABLE") # {}, <<<<"PFC_WD", Row(d, "PFC_WD_TABLE")>>, <<"PFC_WD_TABLE", {}>>>>)
MigrateInterfaceTable(d) ==
    When(Row(d, "VLAN_INTERFACE|Vlan1|ip") # {} /\ Row(d, "VLAN_INTERFACE|Vlan1") = {},
         <<<<"VLAN_INTERFACE|Vlan1", Row(d, "VLAN_INTERFACE|Vlan1|ip")>>>>)
\* Here the old row goes first.
MigrateIntfTable(d) ==
    When(Row(d, "APPL INTF_TABLE:lo:ip") # {},
         <<<<"APPL INTF_TABLE:lo:ip", {}>>, <<"APPL INTF_TABLE:Loopback0:ip", {"NULL"}>>>>)
        \o When(Row(d, "APPL INTF_TABLE:Vlan1:ip") # {} /\ Row(d, "APPL INTF_TABLE:Vlan1") = {},
                <<<<"APPL INTF_TABLE:Vlan1", {"NULL"}>>>>)
MigrateFeatureTable(d) ==
    LET state == IF "status" \in Row(d, "FEATURE|bgp") THEN (Row(d, "FEATURE|bgp") \ {"status"}) \cup {"state"}
                 ELSE Row(d, "FEATURE|bgp")
    IN  When("status" \in Row(d, "FEATURE|bgp"), <<<<"FEATURE|bgp", state>>>>)
            \o When(Row(d, "CONTAINER_FEATURE|bgp") # {},
                    <<<<"FEATURE|bgp", state \cup Row(d, "CONTAINER_FEATURE|bgp")>>, <<"CONTAINER_FEATURE|bgp", {}>>>>)
\* In a warm boot from an image without dynamic buffers, APPL_DB gets the buffers of CONFIG_DB,
\* on Mellanox those that it had before they were migrated.
PrepareDynamicBuffer(d) ==
    LET app(r, n) == When(Row(d, r) \notin {{}, {"NULL"}}, <<<<n, Row(d, r)>>>>)
    IN  When(mig.warm,
             app("BUFFER_PG|Ethernet0|3-4", "APPL BUFFER_PG_TABLE:Ethernet0:3-4")
                 \o app("BUFFER_PG|Ethernet4|3-4", "APPL BUFFER_PG_TABLE:Ethernet4:3-4")
                 \o app(Lossless, "APPL BUFFER_PROFILE_TABLE:pg_lossless_100000_5m_profile"))
\* Each field is a write of its own.
MigratePortForAutoNeg(d) ==
    LET port == Row(d, "PORT|Ethernet0")
        on == (port \ {"autoneg=1"}) \cup {"autoneg=on"}
    IN  When("autoneg=1" \in port,
             <<<<"PORT|Ethernet0", on>>>> \o When("adv_speeds" \notin port, <<<<"PORT|Ethernet0", on \cup {"adv_speeds"}>>>>))
        \o When("autoneg=0" \in port, <<<<"PORT|Ethernet0", (port \ {"autoneg=0"}) \cup {"autoneg=off"}>>>>)
QosReferenceRemove(d) ==
    LET plain(r) == When("[reference]" \in Row(d, r), <<<<r, (Row(d, r) \ {"[reference]"}) \cup {"reference"}>>>>)
    IN  plain("APPL BUFFER_QUEUE_TABLE:Ethernet0:3-4") \o plain("QUEUE|Ethernet0|3-4")
            \o plain("BUFFER_QUEUE|Ethernet0|3-4")
MigrateVxlanConfig(d) ==
    When(Row(d, "VXLAN_TUNNEL|vtep") \ Row(d, "APPL VXLAN_TUNNEL_TABLE:vtep") # {},
         <<ModEntry(d, "APPL VXLAN_TUNNEL_TABLE:vtep", Row(d, "VXLAN_TUNNEL|vtep"))>>)
\* Keys that an older branch does not have.
AddMissing(d, r) == When(Row(d, r) = {}, <<<<r, {"default"}>>>>)
MigrateRestapi(d) == AddMissing(d, "RESTAPI|config") \o AddMissing(d, "RESTAPI|certs")
MigrateTelemetry(d) == AddMissing(d, "TELEMETRY|gnmi") \o AddMissing(d, "TELEMETRY|certs")
MigrateConsoleSwitch(d) == AddMissing(d, "CONSOLE_SWITCH|console_mgmt")
MigrateDeviceMetadata(d) ==
    When("synchronous_mode" \notin Row(d, "DEVICE_METADATA|localhost"),
         <<ModEntry(d, "DEVICE_METADATA|localhost", {"synchronous_mode"})>>)
MigratePortQosMapGlobal(d) ==
    When(mig.asic = "broadcom" /\ Row(d, "DSCP_TO_TC_MAP|AZURE") # {} /\ Row(d, "PORT_QOS_MAP|global") = {},
         <<<<"PORT_QOS_MAP|global", {"dscp_to_tc_map"}>>>>)
AddLacpKey(d) ==
    When(~mig.warm /\ Row(d, "PORTCHANNEL|PortChannel1") # {}, <<ModEntry(d, "PORTCHANNEL|PortChannel1", {"lacp_key"})>>)
AddPfcWatchdog(d) ==
    When("pfc_enable" \in Row(d, "PORT_QOS_MAP|Ethernet0"), <<ModEntry(d, "PORT_QOS_MAP|Ethernet0", {"pfcwd_sw_enable"})>>)
MoveLogLevels(d) ==
    When(mig.warm /\ Row(d, "LOGLEVEL orchagent") # {},
         <<ModEntry(d, "LOGGER|orchagent", {"LOGLEVEL"}), ModEntry(d, "LOGGER|orchagent", {"LOGLEVEL", "LOGOUTPUT"}),
           <<"LOGLEVEL orchagent", {}>>>>)
SetTraditional(d) == <<Model(d, "traditional")>>
MigrateMgmtPorts(d) ==
    When(mig.warm /\ mig.asic = "broadcom" /\ Row(d, "PORT|Ethernet64") = {},
         <<<<"PORT|Ethernet64", {"speed"}>>, <<"APPL PORT_TABLE:Ethernet64", {"speed", "down"}>>>>)

-----------------------------------------------------------------------------
\* A step: the version it leads to and its parts in order. The last part records the version.
Version(d) == IF Row(d, "VERSIONS|DATABASE") = {} THEN "unknown" ELSE CHOOSE v \in Row(d, "VERSIONS|DATABASE") : TRUE
Buffers(old, new, more) ==
    IF mig.asic = "mellanox" THEN <<<<"pool", old, new>>>> \o more \o <<<<"flush", old, new>>>> ELSE <<>>
Step(v) ==
    CASE v = "unknown" -> [to |-> "1_0_2", parts |-> <<Same("pfc_wd"), Same("interface"), Same("intf")>>]
      [] v = "1_0_1" -> [to |-> "1_0_2", parts |-> <<Same("interface"), Same("intf")>>]
      [] v = "1_0_2" -> [to |-> "1_0_3", parts |-> Buffers("1_0_2", "1_0_3", <<>>)]
      [] v = "1_0_3" -> [to |-> "1_0_4", parts |-> <<Same("feature")>> \o
                            Buffers("1_0_3", "1_0_4", <<<<"profile", "1_0_3", "1_0_4">>>>)]
      [] v = "1_0_4" -> [to |-> "1_0_5", parts |-> Buffers("1_0_4", "1_0_5", <<<<"profile", "1_0_4", "1_0_5">>>>)]
      [] v = "1_0_5" -> [to |-> "1_0_6", parts |-> Buffers("1_0_5", "1_0_6", <<<<"profile", "1_0_5", "1_0_6">>>>)]
      [] v = "1_0_6" -> [to |-> "2_0_0", parts |->
                            IF mig.asic = "mellanox"
                            THEN <<Same("remember")>> \o Buffers("1_0_6", "2_0_0", <<<<"profile", "1_0_6", "2_0_0">>, Same("dynamic")>>)
                                     \o <<Same("prepare")>>
                            ELSE <<Same("prepare"), Same("traditional")>>]
      [] v = "2_0_0" -> [to |-> "2_0_1", parts |-> <<Same("qos_map_global")>>]
      [] v = "2_0_1" -> [to |-> "2_0_2", parts |-> <<Same("vxlan"), Same("restapi"), Same("telemetry"),
                                                     Same("console_switch"), Same("device_metadata")>>]
      [] v = "2_0_2" -> [to |-> "3_0_0", parts |-> <<>>]
      [] v = "3_0_0" -> [to |-> "3_0_1", parts |-> <<Same("auto_neg")>>]
      [] v = "3_0_1" -> [to |-> "3_0_2", parts |-> <<Same("lacp_key")>>]
      [] v = "3_0_2" -> [to |-> "3_0_3", parts |-> <<Same("qos_references")>>]
      [] v = "3_0_3" -> [to |-> "3_0_4", parts |-> IF mig.asic = "mellanox" THEN <<Same("reclaim"), Same("reclaim_appl")>>
                                                   ELSE <<>>]
      [] v = "3_0_4" -> [to |-> "3_0_5", parts |-> <<Same("pfcwd_sw_enable")>>]
      [] v = "3_0_5" -> [to |-> "3_0_6", parts |-> <<Same("loglevel")>>]
      [] v = "3_0_6" -> [to |-> "4_0_0", parts |-> <<>>]
\* common_migration_ops: init_cfg.json adds what is not there, and APPL_DB loses COPP_TABLE.
CommonOps == <<Same("init_cfg")>> \o When(mig.asic # "mellanox", <<Same("copp")>>) \o <<Same("mgmt_ports")>>

WritesOf(p, d, m) ==
    CASE p[1] = "pfc_wd" -> MigratePfcWdTable(d)
      [] p[1] = "interface" -> MigrateInterfaceTable(d)
      [] p[1] = "intf" -> MigrateIntfTable(d)
      [] p[1] = "feature" -> MigrateFeatureTable(d)
      [] p[1] = "flush" -> Flush(d, m)
      [] p[1] = "prepare" -> PrepareDynamicBuffer(IF mig.asic = "mellanox" THEN m.tables ELSE d)
      [] p[1] = "traditional" -> SetTraditional(d)
      [] p[1] = "qos_map_global" -> MigratePortQosMapGlobal(d)
      [] p[1] = "vxlan" -> MigrateVxlanConfig(d)
      [] p[1] = "restapi" -> MigrateRestapi(d)
      [] p[1] = "telemetry" -> MigrateTelemetry(d)
      [] p[1] = "console_switch" -> MigrateConsoleSwitch(d)
      [] p[1] = "device_metadata" -> MigrateDeviceMetadata(d)
      [] p[1] = "auto_neg" -> MigratePortForAutoNeg(d)
      [] p[1] = "lacp_key" -> AddLacpKey(d)
      [] p[1] = "qos_references" -> QosReferenceRemove(d)
      [] p[1] = "reclaim" -> Reclaim(d)
      [] p[1] = "reclaim_appl" -> ReclaimApplDb(d, m, mig.warm)
      [] p[1] = "pfcwd_sw_enable" -> AddPfcWatchdog(d)
      [] p[1] = "loglevel" -> MoveLogLevels(d)
      [] p[1] = "version" -> <<<<"VERSIONS|DATABASE", {p[2]}>>>>
      [] p[1] = "init_cfg" -> [i \in DOMAIN InitCfg |-> ModEntry(d, InitCfg[i], {"default"})]
      [] p[1] = "copp" -> When(Row(d, "APPL COPP_TABLE:trap") # {}, <<<<"APPL COPP_TABLE:trap", {}>>>>)
      [] p[1] = "mgmt_ports" -> MigrateMgmtPorts(d)
      [] OTHER -> <<>>
MemoryAfter(p, d, m) ==
    CASE p[1] = "pool" -> MigrateBufferPoolSize(d, m, p[2], p[3])
      [] p[1] = "profile" -> MigrateBufferProfile(d, m, p[2], p[3])
      [] p[1] = "dynamic" -> DynamicCalculation(d, m)
      [] p[1] = "remember" -> [m EXCEPT !.tables = d]
      [] p[1] = "reclaim" -> [m EXCEPT !.reclaimed = Reclaimed(d)]
      [] OTHER -> m
StepsFrom(v) == IF v = "4_0_0" THEN CommonOps ELSE Append(Step(v).parts, <<"version", Step(v).to>>)

-----------------------------------------------------------------------------
\* The SKU is read from the database when the migrator starts.
NewMemory(d) == [sku |-> Sku(d), pending |-> <<>>, isDefault |-> TRUE, tables |-> <<>>, reclaimed |-> FALSE]
\* d: [db, asic], a database to be migrated when the device starts, if it is not empty.
InitMigration(d) ==
    /\ db = d.db /\ found = d.db /\ mem = NewMemory(d.db) /\ steps = <<>> /\ writes = <<>>
    /\ mig = [asic |-> d.asic, warm |-> FALSE, state |-> IF d.db = <<>> THEN "off" ELSE "waiting", killed |-> 0]

\* A start of the device: a warm one has the database of before, another what was saved last,
\* which is the result of a migration that ended.
MigrateAtBoot(warm) ==
    /\ mig' = [mig EXCEPT !.state = IF @ = "off" THEN @ ELSE "new", !.warm = warm]
    /\ db' = IF warm \/ mig.state = "done" THEN db ELSE found
    /\ found' = IF mig.state = "done" THEN db ELSE found
    /\ steps' = <<>> /\ writes' = <<>> /\ UNCHANGED mem
StartMigration ==
    /\ mig.state \in {"new", "stopped"}
    /\ mig' = [mig EXCEPT !.state = "running"]
    /\ mem' = NewMemory(db) /\ steps' = StepsFrom(Version(db))
    /\ UNCHANGED <<db, writes, found>>
\* Reads what the next part needs, and works its writes out.
ReadPart ==
    /\ mig.state = "running" /\ writes = <<>> /\ steps # <<>>
    /\ writes' = WritesOf(Head(steps), db, mem) /\ mem' = MemoryAfter(Head(steps), db, mem)
    /\ steps' = IF Head(steps)[1] = "version" THEN StepsFrom(Head(steps)[2]) ELSE Tail(steps)
    /\ UNCHANGED <<db, mig, found>>
WriteRow ==
    /\ mig.state = "running" /\ writes # <<>>
    /\ db' = SetEntry(db, Head(writes)[1], Head(writes)[2]) /\ writes' = Tail(writes)
    /\ UNCHANGED <<mem, steps, mig, found>>
EndMigration ==
    /\ mig.state = "running" /\ writes = <<>> /\ steps = <<>>
    /\ mig' = [mig EXCEPT !.state = "done"]
    /\ UNCHANGED <<db, mem, steps, writes, found>>
StopMigration ==
    /\ mig.state = "running" /\ mig.killed < MaxKills
    /\ mig' = [mig EXCEPT !.state = "stopped", !.killed = @ + 1]
    /\ steps' = <<>> /\ writes' = <<>>
    /\ UNCHANGED <<db, mem, found>>
Migrate == StartMigration \/ ReadPart \/ WriteRow \/ EndMigration \/ StopMigration
=============================================================================
