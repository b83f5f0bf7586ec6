---------------------------- MODULE MCDeviceUpgrade ----------------------------
(***************************************************************************)
(* Devices as they are found: by boot loader, one with two images and a third *)
(* to install; one that reboots and upgrades containers; and ones whose       *)
(* database comes from an earlier version.                                   *)
(***************************************************************************)
EXTENDS DeviceUpgrade

CONSTANTS i1, i2, i3, NoImage
MCImages == {i1, i2, i3}
\* One image's name starts with another's.
MCStartsWith == {<<i, i>> : i \in MCImages} \cup {<<i1, i3>>}
MCAsicConfig == i1 :> "a" @@ i2 :> "a" @@ i3 :> "b"
MCInitCfg == <<"NTP|global">>

Grub == [entries |-> <<i2, i1>>, saved |-> 1, once |-> -1, torn |-> FALSE]
Uboot == [slots |-> <<i1, i2>>, next |-> 1, once |-> 0]
Aboot == [swi |-> i1, dflt |-> i1, torn |-> FALSE]
Device(l, e) == [loader |-> l, env |-> e, dirs |-> {i1, i2}, running |-> i1, careful |-> TRUE,
                 reboots |-> 1, upgrades |-> 0, db |-> <<>>, asic |-> "broadcom",
                 present |-> {{}}, budget |-> [commands |-> 0, faults |-> 0, saved |-> {}]]
Similar == [Device("uboot", [Uboot EXCEPT !.slots = <<i3, i1>>, !.next = 2]) EXCEPT !.dirs = {i1, i3}]
Loaders == {Device("grub", Grub), Device("uboot", Uboot), Similar, Device("aboot", Aboot)}
Settled == [Device("uboot", [Uboot EXCEPT !.slots = <<i1, NoImage>>]) EXCEPT !.dirs = {i1}]
Rebooting == {[Settled EXCEPT !.reboots = 3], [Settled EXCEPT !.reboots = 2, !.upgrades = 1], [Settled EXCEPT !.reboots = 1, !.upgrades = 3],
              [Device("aboot", Aboot) EXCEPT !.upgrades = 1]}

Recorded(v) == ("VERSIONS|DATABASE" :> {v})
MCPools(f) == [r \in PoolsOf(f) |-> {f}]
Ports == "PORT|Ethernet0" :> {"autoneg=1"} @@ "PORT|Ethernet4" :> {"admin_down"} @@ "CABLE_LENGTH|AZURE" :> {"5m"}
\* A switch that was never migrated, and one with what each of the later steps looks for.
Oldest ==
    "PFC_WD_TABLE" :> {"GLOBAL"} @@ "VLAN_INTERFACE|Vlan1|ip" :> {"NULL"} @@ "APPL INTF_TABLE:lo:ip" :> {"NULL"}
        @@ "APPL INTF_TABLE:Vlan1:ip" :> {"NULL"} @@ "FEATURE|bgp" :> {"status"} @@ "CONTAINER_FEATURE|bgp" :> {"owner"}
        @@ "DSCP_TO_TC_MAP|AZURE" :> {"0"} @@ Ports
Later ==
    Recorded("2_0_1") @@ "VXLAN_TUNNEL|vtep" :> {"src_ip"} @@ "PORTCHANNEL|PortChannel1" :> {"mtu"}
        @@ "QUEUE|Ethernet0|3-4" :> {"[reference]"} @@ "BUFFER_QUEUE|Ethernet0|3-4" :> {"[reference]"}
        @@ "APPL BUFFER_QUEUE_TABLE:Ethernet0:3-4" :> {"[reference]"} @@ "PORT_QOS_MAP|Ethernet0" :> {"pfc_enable"}
        @@ "LOGLEVEL orchagent" :> {"LOGLEVEL"} @@ "APPL COPP_TABLE:trap" :> {"NULL"}
        @@ "DEVICE_METADATA|localhost" :> {"hwsku"} @@ Ports
Traditional(v, sku, f, headroom, profile) ==
    Recorded(v) @@ MCPools(f) @@ Lossless :> {headroom, LosslessPool} @@ PgLossless :> {Lossless}
        @@ LossyProfile :> {profile, IF Lossy \in PoolsOf(f) THEN Lossy ELSE LosslessPool}
        @@ "DEVICE_METADATA|localhost" :> {sku} @@ Ports
\* A port that is down has a lossless group, too.
Both(d) == DownPg :> {Lossless} @@ d
\* The own pool comes besides the default ones.
OwnPool(d) == "BUFFER_POOL|own" :> {"own"} @@ d
Mellanox == {Both(Traditional("1_0_2", "generic", "pool_1_0_2", "headroom_1_0_3", "profile_1_0_3")),
             Traditional("1_0_3", "msft_single", "pool_1_0_3", "headroom_1_0_3", "profile_1_0_3"),
             Traditional("1_0_4", "msft", "single_1_0_4", "msft_1_0_4", "profile_1_0_4"),
             Both(Traditional("1_0_4", "msft", "pool_1_0_4", "headroom_1_0_4", "profile_1_0_4")),
             Traditional("1_0_4", "generic", "pool_1_0_4", "own", "own"),
             Both(OwnPool(Traditional("1_0_6", "generic", "pool_1_0_4", "own", "own")))}
Migrating ==
    {[Settled EXCEPT !.reboots = 1, !.db = d, !.asic = "broadcom"] : d \in {Oldest, Later}}
        \cup {[Settled EXCEPT !.reboots = 1, !.db = d, !.asic = "mellanox"] : d \in Mellanox}

\* Switches of a host and one ASIC, by what is saved and what other files there are.
MCNamespaces == <<"host", "asic0">>
Configuring ==
    {[Settled EXCEPT !.present = {{"init", "golden", "acl", "port_config"}, {"backend_acl"}},
                     !.budget = [commands |-> 3, faults |-> 1, saved |-> {"host", "asic0"}]],
     [Settled EXCEPT !.present = {{"init", "golden", "acl"}},
                     !.budget = [commands |-> 2, faults |-> 2, saved |-> {"host"}]]}

MCScenarios == Configuring \cup Loaders \cup Rebooting \cup Migrating
\* On a device where no one is careful.
MCCareless == {[Device("uboot", Uboot) EXCEPT !.careful = FALSE, !.reboots = 0]}
===============================================================================
