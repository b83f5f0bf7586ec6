---------------------------- MODULE MCPatchSorter ----------------------------
(***************************************************************************)
(* Small instances of PatchSorter: a port with a port-critical buffer row   *)
(* and lanes, which are create-only, an ACL table that lists ports, another *)
(* port whose name the first one's begins, and a table without YANG model.  *)
(***************************************************************************)
EXTENDS PatchSorterProperties, PatchGenerators

Port1 == <<"PORT", "E1">>
Port10 == <<"PORT", "E10">>
Pg == <<"BUFFER_PG", "E1|3">>
Acl == <<"ACL_TABLE", "A">>
AclPorts == <<"ACL_TABLE", "A", "ports">>
Scratch == <<"SCRATCH", "S">>

MCKeyRefs == {<<Pg, Port1>>}
MCFieldRefs == [f \in {AclPorts} |-> "PORT"]
MCListFields == {AclPorts}
MCConflicts == {<<<<"PORT", "E1", "lanes", "l2">>, <<"PORT", "E10", "lanes", "l2">>>>}
MCCreateOnly == << <<"PORT", "lanes">> >>
MCCritical == {<<Pg, Port1>>}
MCNoYang == {"SCRATCH"}
MCTokenPrefixes == {<<"E1", "E10">>}

\* A row with fields, given as a set of <<field, value>>.
Row(r, fields) ==
    {SubSeq(r, 1, 1), r} \cup {Append(r, f[1]) : f \in fields}
    \cup {Append(Append(r, f[1]), f[2]) : f \in fields}

Port(r, lanes, status) ==
    Row(r, {<<"lanes", lanes>>} \cup (IF status = None THEN {} ELSE {<<"admin_status", status>>}))
Profile(p) == Row(Pg, {<<"profile", p>>})
Bound(l) == Row(Acl, {<<"ports", l>>})

Ports1 == {{}} \cup {Port(Port1, l, a) : l \in {"l1", "l2"}, a \in {"up", None}}
Ports10 == {{}, Port(Port10, "l2", None)}
Pgs == {{}, Profile("p1"), Profile("p2")}
Acls == {{}} \cup {Bound(l) : l \in {<<"E1">>, <<"E10">>, <<"E1", "E10">>}}

Documents ==
    {d \in {a \cup b \cup c \cup e : a \in Ports1, b \in Ports10, c \in Pgs, e \in Acls} : Valid(d)}

Goals == {Port(Port1, "l2", "up") \cup Profile("p2") \cup Bound(<<"E1">>),
          Port(Port1, "l1", None) \cup Port(Port10, "l2", None) \cup Profile("p1") \cup Bound(<<"E10", "E1">>)}

Keys == <<"ACL_TABLE", "BUFFER_PG", "PORT", "SCRATCH", "A", "E1", "E10", "E1|3", "S",
          "admin_status", "lanes", "note", "ports", "profile">>
Ranked(keys) == [k \in ToSet(keys) |-> CHOOSE i \in DOMAIN keys : keys[i] = k]
Forward == Ranked(Keys)
Backward == Ranked(Reverse(Keys))

Ask(current, goal, crop, ignored, algorithm, order) ==
    [current |-> current, goal |-> goal, crop |-> crop, ignored |-> ignored,
     algorithm |-> algorithm, order |-> order]

Noted(n) == Row(Scratch, {<<"note", n>>})

\* Configurations from which all three algorithms look for the first goal.
Few == {Port(Port1, "l1", "up") \cup Profile("p1") \cup Bound(<<"E1">>),
        Port(Port1, "l2", "up") \cup Profile("p1"),
        Port(Port1, "l1", None) \cup Port(Port10, "l2", None) \cup Bound(<<"E1", "E10">>)}

\* The table of the ACL row without the row, which no plan may end in.
Emptied(d) == (d \ Cut(d, Acl)) \cup {<<"ACL_TABLE">>}

MCRequests ==
    {Ask(c, g, FALSE, <<>>, "DFS", o) : c \in Documents, g \in Goals, o \in {Forward, Backward}}
    \cup {Ask(c, g, FALSE, <<>>, a, Forward) : c \in Few, g \in Goals, a \in {"BFS", "MEMOIZATION"}}
    \cup {Ask(c \cup Noted("p1"), g \cup Noted("p2"), TRUE, i, "DFS", Forward) :
             c \in Few, g \in Goals,
             i \in {<<>>, << <<"ACL_TABLE">> >>, << AdminField(Port1), <<"BUFFER_PG">> >>}}
    \cup {Ask(Noted("p1"), g, TRUE, <<>>, "DFS", Forward) : g \in Goals}
    \cup {Ask(c, c \cup Noted("p1"), FALSE, <<>>, "DFS", Forward) : c \in Few}
    \cup {Ask(c, Profile("p1"), FALSE, <<>>, "DFS", Forward) : c \in Few}
    \cup {Ask(c, Emptied(c), FALSE, <<>>, a, Forward) : c \in Few, a \in Algorithms}

\* The generators do what the proofs about plans assume of them.
ASSUME GeneratorsAreSensible == \A d \in Few \cup Goals \cup {{}} : GeneratesSensibly(d)

----------------------------------------------------------------------------
(* The plans as ConfigUpdater takes them: steps of ConfigJson, where the     *)
(* value of a field is one node and an item of a list changes the field.    *)

CONSTANTS Obj, Absent

Known == UNION Documents \cup UNION Goals
J == INSTANCE ConfigJson WITH
        Rows <- {q \in Known : Len(q) = 2}, Fields <- {q \in Known : Len(q) = 3},
        Scalars <- UNION {[1 .. n -> {"up", "down", "l1", "l2", "p1", "p2", "E1", "E10"}] : n \in 0 .. 3},
        Refs <- KeyRefs, Backend <- {}, Restricted <- {}

Value(d, f) == IF IsList(f) THEN ValueOf(d, f) ELSE <<ValueOf(d, f)>>

AsDoc(d) ==
    [n \in J!Nodes |-> CASE n \notin d -> Absent
                         [] n \in d /\ Len(n) = 2 -> Obj
                         [] n \in d /\ Len(n) = 3 -> Value(d, n)]

AsStep(m, from, to) ==
    LET p == IF IsItem(m.path) THEN Front(m.path) ELSE m.path
        op == CASE IsItem(m.path) \/ m.op = "replace" -> J!ReplaceOp(p, AsDoc(to))
                [] ~IsItem(m.path) /\ m.op = "add"    -> J!AddOp(p, AsDoc(to))
                [] ~IsItem(m.path) /\ m.op = "remove" -> J!RemoveOp(p)
    IN  [op |-> op, from |-> AsDoc(from), to |-> AsDoc(to)]

\* What ConfigUpdater assumes of the sorter: the answer is a plan in its sense,
\* leaves no table empty on the way, and leads to the same target when
\* ChangeWrapper replays it from the part of the configuration it was asked for.
UpdaterPlan ==
    Sorted => LET docs == Along(Start(req), result)
              IN  /\ J!IsPlan([i \in DOMAIN result |-> AsStep(result[i], docs[i - 1], docs[i])],
                              AsDoc(Start(req)), AsDoc(Target(req)))
                  /\ \A i \in DOMAIN result : docs[i] = Filled(docs[i])
                  /\ Along(Asked(req.current, req), result)[Len(result)] = Asked(req.goal, req)
=============================================================================
