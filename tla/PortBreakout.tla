----------------------------- MODULE PortBreakout -----------------------------
(***************************************************************************)
(* config interface breakout: the ports of one mode of a parent port are     *)
(* deleted with what refers to them, and the ports of another are made.  The *)
(* two changes are planned, and checked by the YANG models, on a copy of     *)
(* CONFIG_DB; between the two writes the command waits until the switch has  *)
(* removed the ports, and gives up after a minute.                           *)
(***************************************************************************)
EXTENDS ConfigInterfaces

CONSTANTS
    Modes,              \* platform.json: of a parent port, its modes, and of each its ports with their speed
    BreakoutDefaults    \* port_breakout_config_db.json: rows that a port is made with

Family(p) == UNION {DOMAIN Modes[p][mode] : mode \in DOMAIN Modes[p]}
\* A port is broken out in place, of lanes that are of no other port; what it is made with names no VRF.
ASSUME ModesAssumption ==
    /\ \A p \in DOMAIN Modes : \A mode \in DOMAIN Modes[p] : p \in DOMAIN Modes[p][mode]
    /\ \A p, q \in DOMAIN Modes : p # q => Family(p) \cap Family(q) = {}
    /\ \A r \in DOMAIN BreakoutDefaults : r[1] = "INTERFACE" => "vrf_name" \notin DOMAIN BreakoutDefaults[r]

BreakoutRow(p) == <<"BREAKOUT_CFG", p>>
CurrentMode(p) == Field(BreakoutRow(p), "brkout_mode")
ModeIsAvailable(p, mode) ==
    /\ p \in DOMAIN Modes /\ mode \in DOMAIN Modes[p]
    /\ Has(<<"PORT", p>>) /\ Has(BreakoutRow(p)) /\ mode # CurrentMode(p)
-----------------------------------------------------------------------------
(* the YANG models: what refers to a port, and whether all that is referred to is there *)

KeyNames(r, q) == r[1] \in {"VLAN_MEMBER", "PORTCHANNEL_MEMBER", "INTERFACE"} /\ \E n \in 2 .. Len(r) : r[n] = q
ListsPort(d, r, q) == r[1] = "ACL_TABLE" /\ q \in d[r].ports
Dependencies(d, ports) == {r \in DOMAIN d : \E q \in ports : KeyNames(r, q) \/ ListsPort(d, r, q)}

IsPort(d, i) == {<<"PORT", i>>, <<"PORTCHANNEL", i>>} \cap DOMAIN d # {}
ValidateConfigData(d) ==
    \A r \in DOMAIN d :
        /\ r[1] = "VLAN_MEMBER" => <<"VLAN", r[2]>> \in DOMAIN d /\ IsPort(d, r[3])
        /\ r[1] = "PORTCHANNEL_MEMBER" => <<"PORTCHANNEL", r[2]>> \in DOMAIN d /\ <<"PORT", r[3]>> \in DOMAIN d
        /\ r[1] = "INTERFACE" => <<"PORT", r[2]>> \in DOMAIN d /\ <<"INTERFACE", r[2]>> \in DOMAIN d
        /\ r[1] = "ACL_TABLE" => \A q \in d[r].ports : IsPort(d, q)
-----------------------------------------------------------------------------
(* the two changes *)

DeletePorts(d, ports) ==
    [r \in {x \in DOMAIN d : ~\E q \in ports : x = <<"PORT", q>> \/ KeyNames(x, q)} |->
        IF r[1] = "ACL_TABLE" THEN [d[r] EXCEPT !.ports = @ \ ports] ELSE d[r]]

\* Of the default configuration, what names one of the ports.
GetDefaultConfig(ports) ==
    [r \in Dependencies(BreakoutDefaults, ports) |->
        IF r[1] = "ACL_TABLE" THEN [ports |-> BreakoutDefaults[r].ports \cap ports] ELSE BreakoutDefaults[r]]

\* Lists are joined; of any other field the first value stays.
MergeConfigs(d, e) ==
    [r \in DOMAIN e |-> IF r \in DOMAIN d /\ r[1] = "ACL_TABLE"
                        THEN [d[r] EXCEPT !.ports = @ \cup e[r].ports]
                        ELSE IF r \in DOMAIN d THEN d[r] @@ e[r] ELSE e[r]] @@ d

AddPorts(d, speeds, load) ==
    MergeConfigs([r \in {<<"PORT", q>> : q \in DOMAIN speeds} |-> [speed |-> speeds[r[2]]]] @@ d,
                 IF load THEN GetDefaultConfig(DOMAIN speeds) ELSE NoFields)

\* Rows to delete, and fields to write: of a list the whole of it.
CreateConfigToLoad(before, after) ==
    LET old(r) == IF r \in DOMAIN before THEN before[r] ELSE NoFields
        new(r) == {f \in DOMAIN after[r] : f \notin DOMAIN old(r) \/ old(r)[f] # after[r][f]}
    IN  [gone |-> DOMAIN before \ DOMAIN after,
         set |-> [r \in {x \in DOMAIN after : x \notin DOMAIN before \/ new(x) # {}} |->
                     [f \in new(r) |-> after[r][f]]]]
WriteConfigDB(d, load) ==
    [r \in DOMAIN load.set |-> load.set[r] @@ (IF r \in DOMAIN d THEN d[r] ELSE NoFields)] @@ Without(d, load.gone)
-----------------------------------------------------------------------------
ShutdownIntf(d, ports) == [r \in {<<"PORT", q>> : q \in ports} |-> [admin_status |-> "down"] @@ d[r]] @@ d

\* Without "force" nothing is done to a port that something refers to.
Breakout(p, mode, force, load) ==
    /\ Use("breakout") /\ ModeIsAvailable(p, mode)
    /\ LET ports == DOMAIN Modes[p][CurrentMode(p)]
           without == DeletePorts(db, ports)
           with == AddPorts(without, Modes[p][mode], load)
       IN  /\ \A q \in ports : NameIsValid(q)
           /\ force \/ Dependencies(db, ports) = {}
           /\ ValidateConfigData(without) /\ ValidateConfigData(with)
           /\ db' = ShutdownIntf(db, ports)
           /\ job' = [kind |-> "breakout", at |-> "delete", of |-> p, mode |-> mode,
                      delete |-> CreateConfigToLoad(db, without), add |-> CreateConfigToLoad(without, with)]
    /\ UNCHANGED <<area, switch>>

BreakoutDelete ==
    /\ Doing("breakout") /\ job.at = "delete"
    /\ db' = WriteConfigDB(db, job.delete) /\ job' = [job EXCEPT !.at = "asic"]
    /\ UNCHANGED <<area, switch>>

\* The switch has removed the ports.  The mode is written last.
BreakoutAdd ==
    /\ Doing("breakout") /\ job.at = "asic"
    /\ db' = SetEntry(WriteConfigDB(db, job.add), BreakoutRow(job.of), [brkout_mode |-> job.mode]) /\ job' = None
    /\ UNCHANGED <<area, switch>>

\* It has not, or it had only at the last look: the new ports are not made, nor the old ones made again.
BreakoutTimesOut ==
    /\ Doing("breakout") /\ job.at = "asic" /\ job' = None
    /\ UNCHANGED <<db, area, switch>>

BreakoutNext ==
    \/ \E p \in On(DOMAIN Modes), force, load \in BOOLEAN : \E mode \in DOMAIN Modes[p] : Breakout(p, mode, force, load)
    \/ BreakoutDelete
    \/ BreakoutAdd
    \/ BreakoutTimesOut
=============================================================================
