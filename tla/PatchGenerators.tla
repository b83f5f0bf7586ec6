-------------------------- MODULE PatchGenerators --------------------------
(***************************************************************************)
(* Which moves the patch sorter tries on a configuration, and in which      *)
(* order: the generators and the extenders of SortAlgorithmFactory, and     *)
(* MoveWrapper.generate, which yields every move once.                     *)
(*                                                                         *)
(* "order" ranks the keys as the JSON objects have them.                       *)
(***************************************************************************)
EXTENDS PatchMoves

\* At the first token where two paths part: keys of d first, as the traversal
\* visits what the current configuration has before what only the target has.
PathBefore(p, q, d, order) ==
    \/ Len(p) < Len(q) /\ IsPrefix(p, q)
    \/ \E n \in 1 .. (IF Len(p) < Len(q) THEN Len(p) ELSE Len(q)) :
         /\ p[n] # q[n] /\ SubSeq(p, 1, n - 1) = SubSeq(q, 1, n - 1)
         /\ LET here == SubSeq(p, 1, n) \in d
                there == SubSeq(q, 1, n) \in d
            IN  IF n = 4 THEN p[4] < q[4]
                ELSE IF here # there THEN here
                ELSE order[p[n]] < order[q[n]]

RECURSIVE InOrder(_, _, _)
InOrder(S, d, order) ==
    IF S = {} THEN <<>>
    ELSE LET p == CHOOSE x \in S : \A y \in S \ {x} : PathBefore(x, y, d, order)
         IN  <<p>> \o InOrder(S \ {p}, d, order)

ForEach(paths, Moves(_)) == FlattenSeq([i \in DOMAIN paths |-> Moves(paths[i])])

RowsOf(d) == {q \in d : Len(q) = 2}

\* KeyLevelMoveGenerator: rows only one side has; the last row goes with its table.
KeyLevel(current, target, order) ==
    LET RemoveRow(r) == <<IF \E x \in RowsOf(current) : x # r /\ x[1] = r[1]
                          THEN RemoveMove(r) ELSE RemoveMove(SubSeq(r, 1, 1))>>
        AddRow(r) == <<AddMove(current, target, r, r)>>
    IN  ForEach(InOrder(RowsOf(current \ target), current, order), RemoveRow)
        \o ForEach(InOrder(RowsOf(target \ current), target, order), AddRow)

\* RemoveCreateOnlyDependencyMoveGenerator.
CreateOnlyDependencies(current, target, order) ==
    LET RemoveRefs(r) == LET refs == InOrder(RefPaths(r, current), current, order)
                         IN  [i \in DOMAIN refs |-> RemoveMove(refs[i])]
    IN  ForEach(InOrder(PendingCreateOnly(current, target, order), current, order), RemoveRefs)

Count(l, v) == Cardinality({i \in DOMAIN l : l[i] = v})
More(a, b) == SelectSeq([i \in DOMAIN a |-> i], LAMBDA i : Count(a, a[i]) > Count(b, a[i]))

\* _traverse_list on two lists of the field f.
ListMoves(f, current, target) ==
    LET c == ValueOf(current, f)
        t == ValueOf(target, f)
        gone == More(c, t)
        new == More(t, c)
        index(j) == IF Len(c) + 1 < j THEN Len(c) + 1 ELSE j
    IN  IF gone = <<>> /\ new = <<>>
        THEN IF c = t THEN <<>> ELSE <<ReplaceMove(target, f, f)>>
        ELSE [n \in DOMAIN gone |-> RemoveMove(Append(f, gone[n]))]
             \o [n \in DOMAIN new |-> AddMove(current, target, Append(f, index(new[n])), Append(f, new[n]))]
             \o FlattenSeq([n \in DOMAIN gone |->
                  [k \in DOMAIN new |->
                     ReplaceMove(target, Append(f, gone[n]), Append(f, new[k]))]])

\* _traverse_value, _traverse_current and _traverse_target of a field or of a
\* row without fields.
LeafMoves(p, current, target) ==
    LET items(d) == IF Len(p) = 3 /\ IsList(p) THEN ValueOf(d, p) ELSE <<>>
    IN  CASE p \in current \cap target ->
               IF Len(p) = 3 /\ IsList(p) THEN ListMoves(p, current, target)
               ELSE IF Cut(current, p) = Cut(target, p) THEN <<>>
               ELSE <<ReplaceMove(target, p, p)>>
          [] p \in current \ target ->
               IF items(current) = <<>> THEN <<RemoveMove(p)>>
               ELSE [i \in DOMAIN items(current) |-> RemoveMove(Append(p, i))]
          [] p \in target \ current ->
               IF items(target) = <<>> THEN <<AddMove(current, target, p, p)>>
               ELSE [i \in DOMAIN items(target) |->
                       AddMove(current, target, Append(p, 1), Append(p, i))]

\* SingleRunLowLevelMoveGenerator: the leaves of both trees.
LowLevel(current, target, order) ==
    LET bare(d) == {r \in RowsOf(d) : ~\E f \in FieldsIn(d) : Under(r, f)}
        leaves == FieldsIn(current) \cup FieldsIn(target)
                  \cup (bare(current) \ target) \cup (bare(target) \ current)
        MovesAt(p) == LeafMoves(p, current, target)
    IN  ForEach(InOrder(leaves, current, order), MovesAt)

----------------------------------------------------------------------------
(* The extenders.                                                          *)

PortDown(port) ==
    LET f == AdminField(port)
    IN  [op |-> "replace", path |-> f, tokens |-> f, nodes |-> {f, Append(f, "down")}]

\* _flip: the move with the admin status of these ports down in its value.
Flip(m, ports) ==
    LET fields == {AdminField(port) : port \in ports}
        kept == {q \in m.nodes : Len(q) < 4 \/ Front(q) \notin fields}
    IN  [m EXCEPT !.nodes = kept \cup {Append(f, "down") : f \in fields} \cup fields,
                  !.tokens = m.path]

RequiredValueExtend(m, current, target, order) ==
    LET simulated == ApplyMove(m, current)
        down == InOrder({c[2] : c \in Premature(current, simulated, target)}, current, order)
        early == {c[2] : c \in Unfinished(current, simulated, target)}
    IN  [i \in DOMAIN down |-> PortDown(down[i])]
        \o (IF early = {} THEN <<>> ELSE <<Flip(m, early)>>)

UpperLevelExtend(m, current, target) ==
    LET p == Front(m.tokens)
        only == {n \in 1 .. Len(p) : \/ SubSeq(p, 1, n) \notin current
                                     \/ SubSeq(p, 1, n) \notin target}
        first == SubSeq(p, 1, CHOOSE n \in only : \A k \in only : n <= k)
    IN  CASE m.tokens = <<>> -> <<>>
          [] m.tokens # <<>> /\ only = {} -> <<ReplaceMove(target, p, p)>>
          [] m.tokens # <<>> /\ only # {} ->
               IF first \notin current THEN <<AddMove(current, target, p, p)>> ELSE <<RemoveMove(p)>>

DeleteInsteadOfReplace(m) ==
    IF m.op = "replace" /\ m.tokens # <<>> THEN <<RemoveMove(m.tokens)>> ELSE <<>>

DeleteRefs(m, current, order) ==
    LET refs == InOrder(RefPaths(m.path, current), current, order)
    IN  IF m.op # "remove" THEN <<>> ELSE [i \in DOMAIN refs |-> RemoveMove(refs[i])]

Extend(m, current, target, order) ==
    RequiredValueExtend(m, current, target, order)
    \o UpperLevelExtend(m, current, target)
    \o DeleteInsteadOfReplace(m)
    \o DeleteRefs(m, current, order)

----------------------------------------------------------------------------
(* MoveWrapper.generate: "out" is what has been yielded, "extended" the      *)
(* moves extended so far; both tell moves apart by their patch.             *)

Yield(out, m) == IF \E i \in DOMAIN out : Patch(out[i]) = Patch(m) THEN out ELSE Append(out, m)

RECURSIVE Drain(_, _, _, _, _, _)
Drain(moves, out, extended, current, target, order) ==
    IF moves = <<>> THEN out
    ELSE LET m == Head(moves)
             new == IF Patch(m) \in extended THEN <<>> ELSE Extend(m, current, target, order)
         IN  Drain(Tail(moves) \o new, Yield(out, m), extended \cup {Patch(m)},
                   current, target, order)

RECURSIVE YieldAll(_, _)
YieldAll(out, moves) ==
    IF moves = <<>> THEN out ELSE YieldAll(Yield(out, Head(moves)), Tail(moves))

\* The extendable moves come out before any extension of theirs, which is
\* what queueing the extensions behind them does.
MoveWrapperGenerate(current, target, order) ==
    Drain(CreateOnlyDependencies(current, target, order) \o LowLevel(current, target, order),
          YieldAll(<<>>, KeyLevel(current, target, order)), {}, current, target, order)
=============================================================================
