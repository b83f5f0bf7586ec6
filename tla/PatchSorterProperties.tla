----------------------- MODULE PatchSorterProperties -----------------------
(***************************************************************************)
(* What an answer of the patch sorter means.                               *)
(***************************************************************************)
EXTENDS PatchSorter

\* What a move may be, on a document d on the way to t: it acts on what is
\* there, adds what is not, its value is a subtree, and it brings the content
\* of t, the admin status of ports and the lists that get their first item apart.
IsStatus(q) == \E c \in Critical : Under(AdminField(c[2]), q)

OfAnItem(m, d) ==
    /\ IsPath(m.path) /\ Front(m.path) \in d /\ IsList(Front(m.path))
    /\ m.path[4] \in 1 .. Len(ValueOf(d, Front(m.path))) + (IF m.op = "add" THEN 1 ELSE 0)

Subtree(p, nodes) ==
    /\ \A q \in nodes : IsPath(q) /\ q # <<>> /\ Under(p, q)
    /\ \A q \in nodes : Len(q) > 1 /\ q # p => Front(q) \in nodes
    /\ HasValues(nodes)

OfASubtree(m, d, t) ==
    /\ IsPath(m.path) /\ Subtree(m.path, m.nodes)
    /\ m.op = "remove" => m.nodes = {}
    /\ m.op = "add" => /\ m.path # <<>> /\ m.path \notin d /\ m.path \in m.nodes
                       /\ Len(m.path) > 1 => Front(m.path) \in d
    /\ m.op = "replace" => m.path = <<>> \/ m.path \in d \cap m.nodes
    /\ \A q \in m.nodes : \/ q \in t
                          \/ IsStatus(q)
                          \/ m.op = "add" /\ Len(q) = 4 /\ Front(q) \in t /\ IsList(Front(q))
    /\ m.op = "replace" => \A q \in t : Under(m.path, q) => q \in m.nodes \/ IsStatus(q)

Sensible(m, d, t) ==
    /\ m.op \in {"add", "remove", "replace"}
    /\ IF IsItem(m.path) THEN OfAnItem(m, d) ELSE OfASubtree(m, d, t)

GeneratesSensibly(d) ==
    WellFormed(d) /\ Valid(d) =>
        \A r \in Requests : LET moves == Generate(d, Target(r), r.order)
                           IN  \A i \in 1 .. Len(moves) : Sensible(moves[i], d, Target(r))

\* The configurations a plan goes through.
Along(d, plan) ==
    LET after[i \in 0 .. Len(plan)] ==
            IF i = 0 THEN d ELSE ApplyMove(plan[i], after[i - 1])
    IN  after

Sorted == phase = "sorted"
Steps == LET docs == Along(Start(req), result)
         IN  {<<docs[i - 1], docs[i]>> : i \in 1 .. Len(result)}

\* The plan ends at the target, and every configuration on the way is valid.
PlanIsSound ==
    Sorted => /\ Along(Start(req), result)[Len(result)] = Target(req)
              /\ \A s \in Steps : Valid(s[2])

PortsAreDown ==
    Sorted => \A s \in Steps : \A c \in Critical :
                Cut(s[1], c[1]) # Cut(s[2], c[1]) => ~Wrong(c, s[1]) /\ ~Wrong(c, s[2])

DependentsApart ==
    Sorted => \A s \in Steps :
                /\ \A r \in Referrers(s[1]) : r[2] \in s[2]
                /\ \A r \in Referrers(s[2]) : r[2] \in s[1]

\* Whatever else a move takes along, and in whatever order the rows come: a
\* port-critical row changes only while its port is down, before the change and
\* after it; and a row does not come, or go, in the same change as something that
\* refers to it, which the applier may write in either order.
MovesAreSafe == PortsAreDown /\ DependentsApart

\* A row that stays keeps its create-only fields: to change one, the plan
\* removes the row, with all that refers to it, and adds it again.
CreateOnlyStays ==
    Sorted => \A s \in Steps : \A f \in CreateOnlyFields(s[1] \cup s[2]) :
                Front(f) \in s[1] \cap s[2] => Cut(s[1], f) = Cut(s[2], f)

\* "There is no possible sorting" is said only when no sequence of valid moves
\* leads to the target: what was visited is closed under them.
ImpossibleIsUnreachable ==
    phase = "impossible" =>
        /\ Start(req) \in visited /\ Target(req) \notin visited
        /\ \A d \in visited : \A m \in ToSet(Valids(d)) : ApplyMove(m, d) \in visited

\* What at most n valid moves lead to, for n up to k.
Near(k) ==
    LET near[n \in 0 .. k] ==
            IF n = 0 THEN {Start(req)}
            ELSE near[n - 1] \cup UNION {{ApplyMove(m, d) : m \in ToSet(Valids(d))} : d \in near[n - 1]}
    IN  near

\* BfsSorter's plan is as short as any: no fewer valid moves lead to the target.
BfsIsShortest ==
    Sorted /\ req.algorithm = "BFS" =>
        \A n \in 0 .. Len(result) - 1 : Target(req) \notin Near(Len(result))[n]

\* Setting tables and paths aside loses nothing: the whole configuration goes
\* from the current one to the goal, the ignored paths have their new content
\* from the first change on, and no change brings a field of the other part.
PartsMakeTheWhole ==
    Sorted =>
        LET along == Along(Asked(req.current, req), result)
            docs  == [i \in 1 .. Len(result) + 1 |-> along[i - 1]]
            whole == Adjusted(req, docs)
        IN  /\ whole[1] = req.current /\ Last(whole) = req.goal
            /\ \A i \in 2 .. Len(whole) : \A p \in ToSet(req.ignored) : Cut(whole[i], p) = Cut(req.goal, p)
            /\ \A i \in DOMAIN docs : FieldsIn(docs[i]) \cap FieldsIn(OtherPart(req.goal, req)) = {}

\* Every request is answered, although moves lead back and forth.
EveryRequestAnswered == <>Answered
=============================================================================
