----------------------------- MODULE ConfigJson -----------------------------
(***************************************************************************)
(* CONFIG_DB documents, the JSON patches of generic_config_updater and the  *)
(* conditions the updater puts on a document or on a patch.                 *)
(*                                                                         *)
(* A document gives every node of the configuration tree its content.      *)
(* Nodes are rows <<table, key>> and fields <<table, key, field>>; a row    *)
(* that exists holds Obj, a field that exists holds a scalar, and anything  *)
(* else is Absent.  A table has no node of its own: in Redis it exists      *)
(* exactly while one of its rows does, which is why the updater refuses     *)
(* JSON documents with empty tables (see BareTables).                      *)
(***************************************************************************)
EXTENDS Naturals, Sequences, FiniteSets

CONSTANTS
    Rows,        \* the rows the model knows, as paths <<table, key>>
    Fields,      \* their fields, as paths <<table, key, field>>
    Scalars,     \* contents of fields
    Obj,         \* content of a row
    Absent,      \* content of a node that does not exist
    Refs,        \* leafrefs of the YANG models: <<referrer, referred node>>
    Backend,     \* tables that back-end daemons write on their own
    Restricted   \* nodes that no patch may remove

Nodes == Rows \cup Fields

RowOf(n) == <<n[1], n[2]>>
TableOf(n) == n[1]
Tables == {TableOf(r) : r \in Rows}

ASSUME NodesAssumption ==
    /\ \A r \in Rows : r = <<r[1], r[2]>>
    /\ \A f \in Fields : f = <<f[1], f[2], f[3]>> /\ RowOf(f) \in Rows

ASSUME ContentAssumption == Obj # Absent /\ Absent \notin Scalars

ASSUME RefsAssumption == Refs \subseteq Nodes \X Nodes

Content == Scalars \cup {Obj, Absent}
Doc == [Nodes -> Content]
NoContent == [n \in Nodes |-> Absent]

(***************************************************************************)
(* Paths: the root <<>>, the tables <<t>> and the nodes.                   *)
(***************************************************************************)
Paths == {<<>>} \cup {<<t>> : t \in Tables} \cup Nodes

Under(p, n) == Len(p) <= Len(n) /\ \A i \in 1 .. Len(p) : p[i] = n[i]

Has(d, p) == \E n \in Nodes : Under(p, n) /\ d[n] # Absent

Cut(d, p) == [n \in Nodes |-> IF Under(p, n) THEN d[n] ELSE Absent]

HasRow(d, t) == \E r \in Rows : TableOf(r) = t /\ d[r] # Absent

(***************************************************************************)
(* JSON patch operations.  "sub" is the value of an add or a replace, as    *)
(* the subtree it puts under "path".                                       *)
(***************************************************************************)
Op == [op : {"add", "remove", "replace"}, path : Paths, sub : Doc]

RemoveOp(p) == [op |-> "remove", path |-> p, sub |-> NoContent]
AddOp(p, d) == [op |-> "add", path |-> p, sub |-> Cut(d, p)]
ReplaceOp(p, d) == [op |-> "replace", path |-> p, sub |-> Cut(d, p)]

ParentExists(d, p) ==
    CASE Len(p) <= 1 -> TRUE
      [] Len(p) = 2  -> HasRow(d, p[1])
      [] Len(p) = 3  -> d[RowOf(p)] # Absent

Enabled(o, d) ==
    IF o.op = "add" THEN ParentExists(d, o.path) ELSE o.path = <<>> \/ Has(d, o.path)

ApplyOp(o, d) == [n \in Nodes |-> IF Under(o.path, n) THEN o.sub[n] ELSE d[n]]

(***************************************************************************)
(* A patch is a set of operations on paths none of which lies under         *)
(* another, so that the order of the list is immaterial.                   *)
(***************************************************************************)
Patch == {P \in SUBSET Op : \A o1, o2 \in P : Under(o1.path, o2.path) => o1 = o2}

Applies(P, d) == \A o \in P : Enabled(o, d)

ApplyPatch(P, d) ==
    [n \in Nodes |-> IF \E o \in P : Under(o.path, n)
                     THEN (CHOOSE o \in P : Under(o.path, n)).sub[n]
                     ELSE d[n]]

\* jsonpatch.make_patch: one operation at the topmost path of every difference.
DiffersAt(a, b, p) == Has(a, p) # Has(b, p) \/ (p \in Nodes /\ a[p] # b[p])

MakePatch(a, b) ==
    LET top == {p \in Paths \ {<<>>} :
                  /\ DiffersAt(a, b, p)
                  /\ \A q \in Paths \ {<<>>, p} : Under(q, p) => ~DiffersAt(a, b, q)}
    IN  {RemoveOp(p)     : p \in {q \in top : ~Has(b, q)}}
        \cup {AddOp(p, b)     : p \in {q \in top : ~Has(a, q)}}
        \cup {ReplaceOp(p, b) : p \in {q \in top : Has(a, q) /\ Has(b, q)}}

\* get_empty_tables of the patched document: tables an operation inside them
\* has left without rows (removing the table itself leaves no such table).
BareTables(P, d) ==
    {t \in Tables : /\ ~HasRow(ApplyPatch(P, d), t)
                    /\ \E o \in P : /\ o.path # <<>>
                                    /\ o.path[1] = t
                                    /\ ~(o.op = "remove" /\ o.path = <<t>>)}

\* validate_field_operation: the diff from old to new removes, by its own
\* path, a node that may not be removed.
IllegalRemoval(old, new) ==
    \E o \in MakePatch(old, new) : o.op = "remove" /\ o.path \in Restricted

(***************************************************************************)
(* Conditions on documents.                                                *)
(***************************************************************************)
\* The YANG models, as far as leafrefs go.
Valid(d) == \A r \in Refs : d[r[1]] # Absent => d[r[2]] # Absent

WellFormed(d) ==
    /\ \A r \in Rows : d[r] \in {Obj, Absent}
    /\ \A f \in Fields : /\ d[f] \in Scalars \cup {Absent}
                         /\ d[f] # Absent => d[RowOf(f)] = Obj

\* remove_backend_tables_from_config, on both sides of a comparison.
SameConfig(a, b) == \A n \in Nodes : TableOf(n) \notin Backend => a[n] = b[n]

(***************************************************************************)
(* What the patch sorter promises of the moves it returns.                 *)
(***************************************************************************)
Added(a, b) == {n \in Nodes : b[n] # Absent /\ a[n] # b[n]}
Deleted(a, b) == {n \in Nodes : a[n] # Absent /\ a[n] # b[n]}

\* Mutant of NoDependency: deletions are not looked at.
NoDependencyOfAddedOnly(a, b) ==
    \A r \in Refs : ~(r[1] \in Added(a, b) /\ r[2] \in Added(a, b))

\* NoDependencyMoveValidator: a move neither adds nor deletes a node together
\* with one that refers to it.
NoDependency(a, b) ==
    \A r \in Refs : /\ ~(r[1] \in Added(a, b) /\ r[2] \in Added(a, b))
                    /\ ~(r[1] \in Deleted(a, b) /\ r[2] \in Deleted(a, b))

\* Mutant of ValidMove: the simulated document is not validated.
ValidMoveUnvalidated(o, d) ==
    LET simulated == ApplyOp(o, d)
    IN  /\ Enabled(o, d)
        /\ ~(o.op = "remove" /\ o.path = <<>>)
        /\ NoDependency(d, simulated)
        /\ BareTables({o}, d) = {}

\* Mutant of ValidMove: nodes may change together with their referrers.
ValidMoveWithDependency(o, d) ==
    LET simulated == ApplyOp(o, d)
    IN  /\ Enabled(o, d)
        /\ ~(o.op = "remove" /\ o.path = <<>>)
        /\ Valid(simulated)
        /\ BareTables({o}, d) = {}

ValidMove(o, d) ==
    LET simulated == ApplyOp(o, d)
    IN  /\ Enabled(o, d)
        /\ ~(o.op = "remove" /\ o.path = <<>>)
        /\ Valid(simulated)
        /\ NoDependency(d, simulated)
        /\ BareTables({o}, d) = {}

Step == [op : Op, from : Doc, to : Doc]

\* Valid moves, each from where the previous one ends.  Only the operations
\* reach the applier; the documents are what the sorter simulated them on.
Chain(p) ==
    /\ p \in Seq(Step)
    /\ \A i \in 1 .. Len(p) : /\ ValidMove(p[i].op, p[i].from)
                              /\ p[i].to = ApplyOp(p[i].op, p[i].from)
    /\ \A i \in 1 .. Len(p) - 1 : p[i + 1].from = p[i].to

\* A plan leads from the current to the target document.
IsPlan(p, current, target) ==
    /\ Chain(p)
    /\ IF p = <<>> THEN current = target
                   ELSE p[1].from = current /\ p[Len(p)].to = target
=============================================================================
