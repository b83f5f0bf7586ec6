-------------------------- MODULE MCConfigCommands --------------------------
(***************************************************************************)
(* TLC instance of ConfigCommands.  An area is a set of command groups      *)
(* whose rows depend on each other, the names they are used on, and the     *)
(* rows there are at first.                                                *)
(***************************************************************************)
EXTENDS ConfigCommands

MCParent == [s |-> "p1", t |-> "p1"]
MCNameTag == [s |-> "10", t |-> "20"]
MCVid == [v1 |-> 1, v2 |-> 2]
MCOccurs == {<<"p1", "p1">>, <<"p2", "p2">>, <<"p1", "p10">>, <<"p10", "p10">>,
             <<"l1", "l1">>}

MCTemplate ==
    <<"BUFFER_POOL", "ingress_lossless_pool">> :> [type |-> "ingress"] @@
    <<"BUFFER_POOL", "egress_pool">> :> [type |-> "egress"] @@
    <<"BUFFER_PROFILE", "ingress_lossy_profile">> :> [pool |-> "ingress_lossless_pool", size |-> 0] @@
    <<"BUFFER_PROFILE", "egress_profile">> :> [pool |-> "egress_pool", size |-> 0] @@
    <<"BUFFER_PG", "p1", <<0, 0>>>> :> [profile |-> "ingress_lossy_profile"] @@
    <<"BUFFER_PG", "p1", <<2, 2>>>> :> [profile |-> "NULL"] @@
    <<"BUFFER_QUEUE", "p1", <<0, 1>>>> :> [profile |-> "egress_profile"] @@
    <<"PORT_QOS_MAP", "p1">> :> [pfc_enable |-> {2}] @@
    <<"CABLE_LENGTH", "AZURE">> :> [p1 |-> "5m"] @@
    <<"DSCP_TO_FC_MAP", "AZURE">> :> NoFields @@
    <<"DEFAULT_LOSSLESS_BUFFER_PARAMETER", "AZURE">> :> NoFields

DynamicSwitch == MCTemplate @@ (Metadata :> [buffer_model |-> "dynamic", default_pfcwd_status |-> "enable"])

MCModes == [p1 |-> [one |-> [p1 |-> "100G"], two |-> [p1 |-> "40G", p2 |-> "40G"]]]
MCDefaults ==
    <<"VLAN_MEMBER", "v1", "p2">> :> [tagging_mode |-> "untagged"] @@
    <<"INTERFACE", "p1">> :> NoFields @@
    <<"ACL_TABLE", "data">> :> [ports |-> {"p1", "p10"}]
BreakoutAreas ==
    {[groups |-> a[1], on |-> a[2], start |-> BreakoutRow("p1") :> [brkout_mode |-> "two"]] : a \in
       {<<{"breakout", "vlan", "portchannel"}, {"p1", "p2", "v1", "l1"}>>,
        <<{"breakout", "vlan", "acl", "ip"}, {"p1", "p2", "v1", "data"}>>,
        <<{"breakout", "port"}, {"p1", "p2"}>>}}

InterfaceAreas ==
    {[groups |-> a[1], on |-> a[2], start |-> NoFields] : a \in
       {<<{"vlan", "portchannel"}, {"p1", "p2", "v1", "l1"}>>,
        <<{"vlan", "portchannel"}, {"p1", "v1", "v2", "l1", "l2"}>>,
        <<{"vlan", "ip", "proxy"}, {"p1", "v1", "v2"}>>,
        <<{"portchannel", "ip", "sub"}, {"p1", "l1", "s"}>>,
        <<{"portchannel", "port"}, {"p1", "p2", "l1", "s"}>>,
        <<{"capability"}, {"p1"}>>,
        <<{"mirror", "portchannel", "vlan"}, {"p1", "v1", "l1"}>>,
        <<{"mirror", "vlan"}, {"p1", "p10", "v1"}>>,
        <<{"mirror", "ip"}, {"p1", "p2"}>>,
        <<{"linklocal", "ip", "attribute", "portchannel"}, {"p1", "l1"}>>,
        <<{"linklocal", "vlan", "vrf"}, {"p1", "v1", "r1"}>>,
        <<{"vrf", "ip", "attribute"}, {"p1", "r1", "mgmt"}>>,
        <<{"vrf", "ip", "loopback"}, {"p1", "o1", "r1", "r2"}>>,
        <<{"vrf", "sub", "ip"}, {"p1", "s", "t", "r1"}>>,
        <<{"vlan", "vxlan", "vrf"}, {"v1", "v2", "r1"}>>,
        <<{"vrf", "syslog"}, {"p1", "r1", "mgmt"}>>,
        <<{"vrf", "route"}, {"p1", "r1"}>>,
        <<{"ip", "route", "loopback"}, {"p1", "o1"}>>}}
BufferAreas ==
    {[groups |-> a[1], on |-> a[2], start |-> DynamicSwitch] : a \in
       {<<{"buffer", "profile"}, {"p1", "f1"}>>,
        <<{"queue", "profile"}, {"p1", "f1"}>>,
        <<{"buffer", "queue", "qos"}, {"p1"}>>,
        <<{"profile", "qos"}, {"p1", "egress_profile"}>>,
        <<{"buffer", "profile", "qos"}, {"p1", "ingress_lossy_profile"}>>,
        <<{"buffer", "pfc"}, {"p1"}>>,
        <<{"pfc", "pfcwd"}, {"p1"}>>,
        <<{"qos", "cbf", "cable"}, {"p1", "p2"}>>}}

MCUpper == [ARISTA |-> "ARISTA", leaf |-> "LEAF", b1 |-> "b1", b2 |-> "b2"]
MCAgents == {<<"10.0.0.1", "">>, <<"10.0.0.1", "161">>, <<"fc00::1", "161">>}
ServiceRows ==
    Neighbor("b1") :> [name |-> "ARISTA"] @@ Neighbor("b2") :> [name |-> "leaf"] @@
    <<"KDUMP", "config">> :> NoFields @@
    Feature("bgp") :> [state |-> "enabled", auto_restart |-> "enabled"] @@
    Feature("swss") :> [state |-> "always_enabled", auto_restart |-> "always_enabled"]
ServiceAreas ==
    {[groups |-> a[1], on |-> a[2], start |-> ServiceRows] : a \in
       {<<{"bgp"}, {}>>, <<{"feature"}, {}>>, <<{"kube"}, {}>>, <<{"storm", "sample"}, {"p1"}>>,
        <<{"agent", "vrf"}, {"mgmt"}>>, <<{"snmp"}, {}>>, <<{"user"}, {}>>, <<{"sflow"}, {"p1"}>>,
        <<{"aaa"}, {}>>, <<{"tacacs"}, {}>>, <<{"radius"}, {}>>, <<{"mclag", "portchannel"}, {"l1"}>>,
        <<{"mclag", "unique", "vlan", "ip"}, {"v1"}>>, <<{"console"}, {}>>, <<{"device"}, {}>>}}

MCAclFiles ==
    {{},
     {[table |-> "data", seq |-> 1, forwarding |-> "ACCEPT", match |-> [IP |-> "x"]],
      [table |-> "control", seq |-> 1, forwarding |-> "ACCEPT", match |-> [IP |-> "x"]]},
     {[table |-> "data", seq |-> 2, forwarding |-> "REJECT", match |-> [PORT |-> "y"]],
      [table |-> "control", seq |-> 1, forwarding |-> "DROP", match |-> [PORT |-> "y"]]},
     {[table |-> "data", seq |-> 1, forwarding |-> "ACCEPT", match |-> NoFields],
      [table |-> "control", seq |-> 2, forwarding |-> "ACCEPT", match |-> NoFields]}}
MCAclCapability == {<<"ingress", "PACKET_ACTION:DROP">>, <<"ingress", "PACKET_ACTION:FORWARD">>,
                    <<"ingress", "MIRROR_INGRESS_ACTION">>, <<"egress", "PACKET_ACTION:DROP">>}
TrafficAreas ==
    {[groups |-> a[1], on |-> a[2], start |-> NoFields] : a \in
       {<<{"acl"}, {"p1", "data", "control"}>>, <<{"acl", "vlan", "portchannel"}, {"p1", "v1", "l1", "data"}>>,
        <<{"nat"}, {}>>, <<{"zone", "ip", "vrf"}, {"p1", "r1"}>>}}

MCIpVersion == [INNER_IP_PROTOCOL |-> "", INNER_SRC_IPV4 |-> "4", INNER_SRC_IPV6 |-> "6"]
MCPbhCapability ==
    [PBH_TABLE |-> [interface_list |-> {"UPDATE"}],
     PBH_HASH |-> [hash_field_list |-> {"UPDATE"}],
     PBH_HASH_FIELD |-> [hash_field |-> {"UPDATE"}, ip_mask |-> {"ADD", "UPDATE"}],
     PBH_RULE |-> [gre_key |-> {"ADD", "UPDATE", "REMOVE"}, ether_type |-> {"ADD", "REMOVE"}, hash |-> {"UPDATE"},
                   flow_counter |-> {"ADD", "UPDATE", "REMOVE"}]]
MCDropCapability == [PORT |-> [count |-> 2, reasons |-> {"x"}], SWITCH |-> [count |-> 1, reasons |-> {"x", "y"}]]
PolicyRows ==
    DynamicSwitch @@
    <<"MUX_CABLE", "p1">> :> [state |-> "auto", server_ipv4 |-> "a", server_ipv6 |-> "b", cable_type |-> "active-active"] @@
    <<"XCVRD_LOG", "Y_CABLE">> :> [log_verbosity |-> "notice"] @@
    <<"WRED_PROFILE", "AZURE_LOSSLESS">> :> [gmin |-> 1, gmax |-> 2] @@
    <<"DEVICE_NEIGHBOR", "p1">> :> [name |-> "ARISTA"]
PolicyAreas ==
    {[groups |-> a[1], on |-> a[2], start |-> PolicyRows] : a \in
       {<<{"pbh"}, {"p1"}>>, <<{"nvgre", "techsupport"}, {}>>, <<{"mux"}, {"p1"}>>, <<{"drop"}, {}>>,
        <<{"ecn"}, {}>>, <<{"poll"}, {}>>, <<{"profile", "mmu"}, {"f1"}>>}}

MCAreas == BreakoutAreas \cup PolicyAreas \cup TrafficAreas \cup InterfaceAreas \cup BufferAreas \cup ServiceAreas
=============================================================================
