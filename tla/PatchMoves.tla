----------------------------- MODULE PatchMoves -----------------------------
(***************************************************************************)
(* The documents, the moves and the move validators of the JSON patch       *)
(* sorter of generic_config_updater.                                       *)
(*                                                                         *)
(* A document is the set of its nodes, each named by its path: tables <<t>>, *)
(* rows <<t, k>>, fields <<t, k, f>> and, under a field, the one node        *)
(* <<t, k, f, v>> of its value.  The value of a list field is the sequence   *)
(* of its items; a JSON path <<t, k, f, i>> points at its i-th item.  Table  *)
(* nodes are explicit, so a table without rows can be told from no table.   *)
(***************************************************************************)
EXTENDS Integers, Sequences, SequencesExt, FiniteSets

CONSTANTS
    KeyRefs,       \* leafrefs in keys: <<referring row, referred row>>
    FieldRefs,     \* leafrefs in values: [field path -> table it names a row of]
    ListFields,    \* fields that hold lists
    Conflicts,     \* pairs of nodes that no valid document has both of
    CreateOnly,    \* CreateOnlyFilter's patterns, in order: <<table, field>>
    AnyField,      \* the field "*" of such a pattern
    Critical,      \* port-critical rows, each with its port: <<row, port>>
    NoYang,        \* tables without a YANG model
    TokenPrefixes, \* pairs of different keys, the first a prefix of the second
    None           \* no value

----------------------------------------------------------------------------
(* Documents.                                                              *)

Under(p, q) == IsPrefix(p, q)
Cut(d, p) == {q \in d : Under(p, q)}

ValueOf(d, f) == (CHOOSE q \in d : Len(q) = 4 /\ Under(f, q))[4]
IsList(f) == f \in ListFields

\* A path into a list has its index, from 1, as the last token.
IsItem(p) == Len(p) = 4

HasPath(d, p) ==
    IF IsItem(p) THEN Front(p) \in d /\ p[4] <= Len(ValueOf(d, Front(p)))
                 ELSE p = <<>> \/ p \in d

FieldsIn(d) == {q \in d : Len(q) = 3}

FirstIndex(l, v) == CHOOSE i \in DOMAIN l : l[i] = v /\ \A j \in 1 .. i - 1 : l[j] # v

\* Paths name at most a value, of a field, of a row, of a table.
IsPath(p) == \E n \in 0 .. 4 : p = [i \in 1 .. n |-> p[i]]

\* A field has one value, that of a list field a sequence.
HasValues(d) ==
    /\ \A f \in FieldsIn(d) : \E q \in d : Len(q) = 4 /\ Front(q) = f
    /\ \A q, r \in d : Len(q) = 4 /\ Len(r) = 4 /\ Front(q) = Front(r) => q = r
    /\ \A q \in d : Len(q) = 4 /\ IsList(Front(q)) => q[4] \in Seq(ToSet(q[4]))

\* What a set of nodes has to be to be a document: what is above a node is
\* there too, and fields have values.
WellFormed(d) ==
    /\ \A q \in d : IsPath(q) /\ q # <<>> /\ (Len(q) > 1 => Front(q) \in d)
    /\ HasValues(d)

\* Every leafref of a document: the path that refers and the row it names.
Referrers(d) ==
    {r \in KeyRefs : r[1] \in d}
    \cup {<<f, <<FieldRefs[f], ValueOf(d, f)>>>> :
            f \in {g \in FieldsIn(d) : g \in DOMAIN FieldRefs /\ ~IsList(g)}}
    \cup UNION {{<<Append(f, FirstIndex(ValueOf(d, f), v)), <<FieldRefs[f], v>>>> :
                    v \in ToSet(ValueOf(d, f))} :
                  f \in {g \in FieldsIn(d) : g \in DOMAIN FieldRefs /\ IsList(g)}}

RefPaths(p, d) == {r[1] : r \in {x \in Referrers(d) : Under(p, x[2])}}

Unique(l) == \A i, j \in DOMAIN l : l[i] = l[j] => i = j

\* Lanes and BGP peer groups: what two rows may not both say.
NoConflict(d) == \A c \in Conflicts : ~(c[1] \in d /\ c[2] \in d)

Valid(d) ==
    /\ \A r \in Referrers(d) : r[2] \in d
    /\ NoConflict(d)
    /\ \A f \in FieldsIn(d) : IsList(f) => Unique(ValueOf(d, f))

----------------------------------------------------------------------------
(* Moves: a JSON patch of one operation.  "nodes" is its value, as nodes    *)
(* under the path; "tokens" is where it was asked to act, which an addition *)
(* below a missing parent turns into a shorter path.                       *)

RemoveMove(p) == [op |-> "remove", path |-> p, nodes |-> {}, tokens |-> p]

ItemNode(f, v) == Append(f, <<v>>)
ItemOf(m) == (CHOOSE q \in m.nodes : TRUE)[4][1]

ReplaceMove(target, p, q) ==
    [op |-> "replace", path |-> p, tokens |-> p,
     nodes |-> IF IsItem(p) THEN {ItemNode(Front(p), ValueOf(target, Front(q))[q[4]])}
                            ELSE Cut(target, q)]

\* _to_jsonpatch_add_operation: tokens that do not exist move into the value.
AddMove(current, target, p, q) ==
    LET gone == {n \in 1 .. Len(p) : ~HasPath(current, SubSeq(p, 1, n))}
        path == IF gone = {} THEN p
                ELSE SubSeq(p, 1, CHOOSE n \in gone : \A k \in gone : n <= k)
        leaf == IF IsItem(p)
                THEN {ItemNode(Front(p), ValueOf(target, Front(q))[q[4]])}
                ELSE Cut(target, p)
        above == {n \in Prefixes(p) : Len(n) < Len(p) /\ Under(path, n)}
    IN  [op |-> "add", path |-> path, tokens |-> p, nodes |-> leaf \cup above]

Patch(m) == <<m.op, m.path, m.nodes>>

ApplyMove(m, d) ==
    IF IsItem(m.path)
    THEN LET f == Front(m.path)
             l == ValueOf(d, f)
             i == m.path[4]
             new == CASE m.op = "remove"  -> RemoveAt(l, i)
                      [] m.op = "add"     -> InsertAt(l, i, ItemOf(m))
                      [] m.op = "replace" -> ReplaceAt(l, i, ItemOf(m))
         IN  (d \ {Append(f, l)}) \cup {Append(f, new)}
    ELSE (d \ Cut(d, m.path)) \cup m.nodes

----------------------------------------------------------------------------
(* The validators, in the order of SortAlgorithmFactory.create.            *)

DeleteWholeConfig(m) == ~(m.op = "remove" /\ m.path = <<>>)

FullConfig(simulated) == Valid(simulated)

\* ref.startswith(path), on the text of the paths (lists are shorter than ten).
StartsWith(ref, path) ==
    \/ Under(path, ref)
    \/ /\ path # <<>> /\ ~IsItem(path)
       /\ Len(path) <= Len(ref)
       /\ Front(path) = SubSeq(ref, 1, Len(path) - 1)
       /\ <<Last(path), ref[Len(path)]>> \in TokenPrefixes

\* Topmost paths of a that b does not have as they are.
Missing(a, b) ==
    {q \in a \ b : Len(q) < 4 /\ (Len(q) = 1 \/ Front(q) \in b)}
    \cup {Front(q) : q \in {x \in a \ b : Len(x) = 4 /\ Front(x) \in b /\ ~IsList(Front(x))}}
    \cup UNION {{Append(Front(q), i) : i \in {j \in DOMAIN q[4] :
                    q[4][j] \notin ToSet(ValueOf(b, Front(q)))}} :
                q \in {x \in a \ b : Len(x) = 4 /\ Front(x) \in b /\ IsList(Front(x))}}

NoRefsWithin(paths, d) ==
    \A ref \in UNION {RefPaths(p, d) : p \in paths} :
        \A p \in paths : ~StartsWith(ref, p)

\* Mutant of NoDependency: a replaced subtree is not looked into.
NoDependencyUnlessReplaced(m, current, simulated) ==
    CASE m.op = "add"     -> NoRefsWithin({m.path}, simulated)
      [] m.op = "remove"  -> NoRefsWithin({m.path}, current)
      [] m.op = "replace" -> TRUE

NoDependency(m, current, simulated) ==
    CASE m.op = "add"     -> NoRefsWithin({m.path}, simulated)
      [] m.op = "remove"  -> NoRefsWithin({m.path}, current)
      [] m.op = "replace" -> /\ NoRefsWithin(Missing(current, simulated), current)
                             /\ NoRefsWithin(Missing(simulated, current), simulated)

IsCreateOnly(f) ==
    \E i \in DOMAIN CreateOnly : CreateOnly[i][1] = f[1] /\ CreateOnly[i][2] \in {f[3], AnyField}

CreateOnlyFields(d) == {f \in FieldsIn(d) : IsCreateOnly(f)}

\* Mutant of CreateOnlyKept: a value that differs is let through.
CreateOnlyKeptIfPresent(current, simulated, target) ==
    \A f \in CreateOnlyFields(current) \cup CreateOnlyFields(simulated)
               \cup CreateOnlyFields(target) :
        /\ f \in simulated \ current => Front(f) \notin current
        /\ f \in current \ simulated => Front(f) \notin simulated
        /\ Front(f) \in simulated \ current => (f \in target <=> f \in simulated)

CreateOnlyKept(current, simulated, target) ==
    \A f \in CreateOnlyFields(current) \cup CreateOnlyFields(simulated)
               \cup CreateOnlyFields(target) :
        /\ f \in current /\ f \in simulated => Cut(current, f) = Cut(simulated, f)
        /\ f \in simulated \ current => Front(f) \notin current
        /\ f \in current \ simulated => Front(f) \notin simulated
        /\ Front(f) \in simulated \ current => (f \in target <=> f \in simulated)

AdminField(port) == Append(port, "admin_status")

\* Leafrefs in keys lead from row to row, and the YANG model has one from each
\* port-critical row, which is not a port, to its port.
ASSUME RefsAssumption ==
    /\ \A r \in KeyRefs : IsPath(r[1]) /\ Len(r[1]) = 2 /\ IsPath(r[2]) /\ Len(r[2]) = 2
    /\ Critical \subseteq KeyRefs
    /\ \A c, e \in Critical : c[1] # e[2]
    /\ \A c \in Critical : AdminField(c[2]) \notin ListFields

\* get_value_or_default of a port's admin_status.
AdminStatus(d, port) ==
    IF port \notin d THEN None
    ELSE IF AdminField(port) \in d THEN ValueOf(d, AdminField(port)) ELSE "down"

\* get_required_value_data of the three configurations.
Required(docs) == {c \in Critical : \E d \in docs : c[1] \in d /\ c[2] \in d}

Wrong(c, d) == AdminStatus(d, c[2]) \notin {None, "down"}

\* Rows that would change while their port is up.
Premature(current, simulated, target) ==
    {c \in Required({current, simulated, target}) :
        Cut(current, c[1]) # Cut(simulated, c[1]) /\ Wrong(c, current)}

\* Ports that would come up although rows of theirs have still to change.
Unfinished(current, simulated, target) ==
    {c \in Required({current, simulated, target}) :
        /\ Cut(current, c[1]) # Cut(target, c[1])
        /\ AdminStatus(current, c[2]) # AdminStatus(simulated, c[2])
        /\ Wrong(c, simulated)}

RequiredValue(current, simulated, target) ==
    Premature(current, simulated, target) = {} /\ Unfinished(current, simulated, target) = {}

\* The field the dependency check of a table looks at: that of the first
\* create-only path it finds, fields of "*" patterns in the given order.
CheckedField(d, t, order) ==
    LET known == {i \in DOMAIN CreateOnly :
                    \E f \in FieldsIn(d) : /\ f[1] = t /\ CreateOnly[i][1] = t
                                         /\ CreateOnly[i][2] \in {f[3], AnyField}}
        first == CreateOnly[CHOOSE i \in known : \A j \in known : i <= j]
        found == {f \in FieldsIn(d) : f[1] = t}
    IN  IF known = {} THEN None
        ELSE IF first[2] # AnyField THEN first[2]
        ELSE (CHOOSE f \in found : \A g \in found :
                \/ order[f[2]] < order[g[2]]
                \/ f[2] = g[2] /\ order[f[3]] <= order[g[3]])[3]

\* Rows that stay and whose checked create-only field is to change.
PendingCreateOnly(current, target, order) ==
    {r \in current \cap target :
        /\ Len(r) = 2
        /\ LET f == CheckedField(current, r[1], order)
           IN  f # None /\ Cut(current, Append(r, f)) # Cut(target, Append(r, f))}

RawAdminStatus(d, port) ==
    IF AdminField(port) \in d THEN ValueOf(d, AdminField(port)) ELSE None

RemoveCreateOnlyDependency(current, simulated, target, order) ==
    \A r \in PendingCreateOnly(current, target, order) \cap simulated :
        /\ r[1] = "PORT" =>
             \/ RawAdminStatus(current, r) = RawAdminStatus(simulated, r)
             \/ RawAdminStatus(current, r) = "up"
        /\ \A ref \in RefPaths(r, simulated) : HasPath(current, ref)

\* Mutant of NoEmptyTable: only a move of a whole table is looked at.
NoEmptyTableOfTables(m, simulated) ==
    Len(m.path) = 1 /\ m.path \in simulated
        => \E r \in simulated : Len(r) = 2 /\ Under(m.path, r)

NoEmptyTable(m, simulated) ==
    \A q \in simulated : Len(q) = 1 /\ (m.path = <<>> \/ q[1] = m.path[1])
        => \E r \in simulated : Len(r) = 2 /\ Under(q, r)

ValidMove(m, current, target, order) ==
    LET simulated == ApplyMove(m, current)
    IN  /\ DeleteWholeConfig(m)
        /\ FullConfig(simulated)
        /\ NoDependency(m, current, simulated)
        /\ CreateOnlyKept(current, simulated, target)
        /\ RequiredValue(current, simulated, target)
        /\ RemoveCreateOnlyDependency(current, simulated, target, order)
        /\ NoEmptyTable(m, simulated)
=============================================================================
