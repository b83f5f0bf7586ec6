-------------------------- MODULE MCConfigUpdater --------------------------
(***************************************************************************)
(* Small instances of ConfigUpdater: a VLAN with a field, a member that     *)
(* refers to it, and a buffer profile that a daemon owns.                  *)
(***************************************************************************)
EXTENDS ConfigUpdaterProperties

CONSTANTS v1, v2, s1, s2, c1, c2, dhcp, acl

Vlan == <<"VLAN", "Vlan100">>
Dhcp == <<"VLAN", "Vlan100", "dhcp_servers">>
Member == <<"VLAN_MEMBER", "Vlan100|Ethernet0">>
Buffer == <<"BUFFER_PG", "Ethernet0|3-4">>

MCRows == {Vlan, Member, Buffer}
MCFields == {Dhcp}
MCRefs == {<<Member, Vlan>>}
MCBackend == {"BUFFER_PG"}

\* The updater may not remove the DHCP servers.
MCRestricted == {Dhcp}

MCTableRank == [t \in Tables |->
    CASE t = "BUFFER_PG" -> 1
      [] t = "VLAN" -> 3 [] t = "VLAN_MEMBER" -> 4]

MCServicesOf == [t \in Tables |->
    CASE t = "VLAN" -> {dhcp} [] t = "VLAN_MEMBER" -> {dhcp, acl} [] OTHER -> {}]

\* A document with the given nodes, fields holding the given scalar.
Tree(nodes, v) == [n \in Nodes |-> IF n \notin nodes THEN Absent
                                   ELSE IF n \in Rows THEN Obj ELSE v]

MCInitial == {Tree({Vlan, Dhcp, Buffer}, v1), Tree({Vlan, Dhcp, Member}, v1)}

Ask(kind, p, d, n) == [kind |-> kind, patch |-> p, goal |-> d, name |-> n]
ApplyReq(p) == Ask("apply", p, NoContent, c1)

\* Patches an operator would write; the whole tables make changes of several rows.
MCPatches ==
    { {RemoveOp(<<"VLAN">>), RemoveOp(<<"VLAN_MEMBER">>)},
      {AddOp(<<"VLAN_MEMBER">>, Tree({Member}, v1)), ReplaceOp(Dhcp, Tree({Dhcp}, v2))},
      {RemoveOp(Member)},
      {RemoveOp(<<"BUFFER_PG">>), ReplaceOp(Dhcp, Tree({Dhcp}, v2))} }

MCGoals == {Tree({Vlan, Member}, v1), Tree({Buffer}, v1)}

WriterRequests(names) ==
    {ApplyReq(p) : p \in MCPatches}
    \cup {Ask("replace", {}, d, c1) : d \in MCGoals}
    \cup {Ask("rollback", {}, NoContent, n) : n \in names}

KeeperRequests(names) ==
    {Ask(k, {}, NoContent, n) : k \in {"checkpoint", "delete"}, n \in names}

\* The writer may delete a checkpoint too, while the keeper saves it.
WriterAndKeeper ==
    [s \in Sessions |->
        IF s = s1 THEN WriterRequests({c1}) \cup {Ask("delete", {}, NoContent, c1)}
        ELSE KeeperRequests({c1})]

\* Two writers: one makes and fills the VLAN, the other takes things away.
TwoWriters ==
    [s \in Sessions |->
        IF s = s1 THEN {ApplyReq({AddOp(<<"VLAN_MEMBER">>, Tree({Member}, v1)), ReplaceOp(Dhcp, Tree({Dhcp}, v2))}),
                        Ask("replace", {}, Tree({Vlan, Member}, v1), c1)}
        ELSE {ApplyReq({RemoveOp(<<"VLAN">>), RemoveOp(<<"VLAN_MEMBER">>)}), ApplyReq({RemoveOp(Member)})}]

\* Sequences of at most MaxSteps steps; each sets a path to what the target
\* has there or removes it.
CONSTANT MaxSteps

StepOps(current, new) ==
    LET here == {p \in Paths : Has(current, p)}
    IN  {RemoveOp(p) : p \in here \ {<<>>}}
        \cup {ReplaceOp(p, new) : p \in {q \in here : Has(new, q)}}
        \cup {AddOp(p, new) : p \in {q \in Paths \ here : Has(new, q)}}

RECURSIVE PlansWithin(_, _, _)
PlansWithin(n, current, new) ==
    IF current = new THEN {<<>>}
    ELSE IF n = 0 THEN {}
    ELSE UNION { {<<[op |-> o, from |-> current, to |-> ApplyOp(o, current)]>> \o p :
                      p \in PlansWithin(n - 1, ApplyOp(o, current), new)} :
                 o \in {x \in StepOps(current, new) :
                          ApplyOp(x, current) # current /\ ValidMove(x, current)} }

KnownDocs == {d \in Doc : WellFormed(d)}

PlanTable == [e \in KnownDocs \X KnownDocs |-> PlansWithin(MaxSteps, e[1], e[2])]

MCCandidates(current, new) == PlanTable[<<current, new>>]
=============================================================================
