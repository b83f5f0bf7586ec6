----------------------------- MODULE PatchSorter -----------------------------
(***************************************************************************)
(* The search of the JSON patch sorter: which moves lead from the current   *)
(* configuration to the target.  DfsSorter and MemoizationSorter call       *)
(* themselves on the configuration after each valid move, so a behaviour is *)
(* a stack of calls; BfsSorter keeps a queue.  Around the search,           *)
(* StrictPatchSorter checks the target, and NonStrictPatchSorter sets       *)
(* tables without a YANG model and ignored paths aside, changes those first *)
(* and in one go, and sorts the rest.                                      *)
(*                                                                         *)
(* What is tried, and in which order, is a parameter, as the generators are *)
(* parameters of MoveWrapper.                                              *)
(***************************************************************************)
EXTENDS PatchMoves

CONSTANTS
    Requests,          \* what may be asked: see Request
    Generate(_, _, _)  \* the moves to try, a sequence, for a current
                       \* configuration, a target and an order of keys

VARIABLES
    req,      \* the request
    phase,    \* where the sorter is
    doc,      \* the configuration it is called with
    stack,    \* calls that have not returned
    visited,  \* configurations seen
    mem,      \* MemoizationSorter.mem, as <<configuration, plan>> pairs
    queue,    \* BfsSorter's queues: a configuration and the moves to it
    result    \* what the last call returned, at the end the answer

vars == <<req, phase, doc, stack, visited, mem, queue, result>>

Algorithms == {"DFS", "BFS", "MEMOIZATION"}

\* "crop" is --ignore-non-yang-tables, "ignored" the list of --ignore-path.
Strict(r) == ~r.crop /\ r.ignored = <<>>

Filled(d) == {q \in d : \E x \in d : Len(x) = 2 /\ x[1] = q[1]}

Cropped(d, r) == IF r.crop THEN {q \in d : q[1] \notin NoYang} ELSE d

\* Mutant of SetAside: what was set aside for an earlier path is forgotten.
SetAsideAlone(parts, p) ==
    IF ~HasPath(parts.yang, p) THEN parts
    ELSE [yang |-> parts.yang \ Cut(parts.yang, p), other |-> AddMove({}, parts.yang, p, p).nodes]

\* IgnorePathsFromYangConfigSplitter: one ignored path after the other.
SetAside(parts, p) ==
    IF ~HasPath(parts.yang, p) THEN parts
    ELSE [yang  |-> parts.yang \ Cut(parts.yang, p),
          other |-> ApplyMove(AddMove(parts.other, parts.yang, p, p), parts.other)]

Split(d, r) ==
    IF <<>> \in ToSet(r.ignored) THEN [yang |-> {}, other |-> Cropped(d, r)]
    ELSE FoldLeft(SetAside, [yang |-> Cropped(d, r), other |-> {}], r.ignored)

YangPart(d, r) == Filled(Split(d, r).yang)
OtherPart(d, r) == IF Strict(r) THEN {} ELSE (d \ Cropped(d, r)) \cup Filled(Split(d, r).other)

\* What the search is asked about.
Asked(d, r) == IF Strict(r) THEN d ELSE YangPart(d, r)

\* An empty part does not count as a preloaded configuration: the whole one is
\* read again, and the patch adds the tables of the target's part to it.
ReadAgain(r) == ~Strict(r) /\ YangPart(r.current, r) = {}

Start(r) == IF ReadAgain(r) THEN r.current ELSE Asked(r.current, r)

Target(r) ==
    LET goal == Asked(r.goal, r)
        untouched == {q \in r.current : ~\E x \in goal : x[1] = q[1]}
    IN  IF ReadAgain(r) THEN goal \cup untouched ELSE goal

\* ChangeWrapper.adjust_changes: what the whole configuration goes through when
\* the other part changes first, in one go, and then the part asked about.
Adjusted(r, docs) ==
    <<Asked(r.current, r) \cup OtherPart(r.current, r)>>
    \o [i \in DOMAIN docs |-> docs[i] \cup OtherPart(r.goal, r)]

Tables(a, b) == {q \in a \cup b : Len(q) = 1 /\ Cut(a, q) # Cut(b, q)}

\* The checks before the search: ConfigSplitter refuses empty tables.
Accepted(r) ==
    /\ ~Strict(r) => Filled(r.current) = r.current /\ Filled(r.goal) = r.goal
    /\ Valid(Asked(r.goal, r))
    /\ \A q \in Tables(Asked(r.current, r), Asked(r.goal, r)) : q[1] \notin NoYang

\* The configuration in place is one: its references hold, as those of the
\* target do.
ASSUME RequestsAssumption ==
    \A r \in Requests : Accepted(r) =>
        WellFormed(Start(r)) /\ Valid(Start(r)) /\ WellFormed(Target(r))

Init ==
    /\ req \in Requests
    /\ phase = "asked"
    /\ doc = {} /\ stack = <<>> /\ visited = {} /\ mem = {} /\ queue = <<>>
    /\ result = None

----------------------------------------------------------------------------
(* What comes of a request before any search.                              *)

Refuse ==
    /\ phase = "asked" /\ ~Accepted(req)
    /\ phase' = "refused"
    /\ UNCHANGED <<req, doc, stack, visited, mem, queue, result>>

Begin ==
    /\ phase = "asked" /\ Accepted(req)
    /\ IF req.algorithm = "BFS"
       THEN /\ phase' = "queue"
            /\ queue' = <<[doc |-> Start(req), plan |-> <<>>]>>
            /\ UNCHANGED doc
       ELSE /\ phase' = "call"
            /\ doc' = Start(req)
            /\ UNCHANGED queue
    /\ UNCHANGED <<req, stack, visited, mem, result>>

----------------------------------------------------------------------------
(* DfsSorter and MemoizationSorter.                                        *)

Remembered(d) == \E e \in mem : e[1] = d

Top == stack[Len(stack)]
Return(r) == phase' = "return" /\ result' = r

Arrive ==
    /\ phase = "call" /\ doc = Target(req)
    /\ Return(<<>>)
    /\ UNCHANGED <<req, doc, stack, visited, mem, queue>>

Recall ==
    /\ phase = "call" /\ doc # Target(req) /\ req.algorithm = "MEMOIZATION"
    /\ \E e \in mem : e[1] = doc /\ Return(e[2])
    /\ UNCHANGED <<req, doc, stack, visited, mem, queue>>

TurnBack ==
    /\ phase = "call" /\ doc # Target(req) /\ ~Remembered(doc) /\ doc \in visited
    /\ Return(None)
    /\ UNCHANGED <<req, doc, stack, visited, mem, queue>>

\* MoveWrapper's moves that the validators accept, in order.
Valids(d) ==
    LET moves == Generate(d, Target(req), req.order)
        among[n \in 0 .. Len(moves)] ==
            IF n = 0 THEN <<>>
            ELSE IF ValidMove(moves[n], d, Target(req), req.order)
                 THEN Append(among[n - 1], moves[n]) ELSE among[n - 1]
    IN  among[Len(moves)]

\* Mutant of Visit: what a move leads to counts as visited before it is tried.
VisitAhead ==
    /\ phase = "call" /\ doc # Target(req) /\ ~Remembered(doc) /\ doc \notin visited
    /\ visited' = visited \cup {doc} \cup {ApplyMove(m, doc) : m \in ToSet(Valids(doc))}
    /\ stack' = Append(stack, [doc |-> doc, left |-> Valids(doc), via |-> None, best |-> None])
    /\ phase' = "loop"
    /\ UNCHANGED <<req, doc, mem, queue, result>>

Visit ==
    /\ phase = "call" /\ doc # Target(req) /\ ~Remembered(doc) /\ doc \notin visited
    /\ visited' = visited \cup {doc}
    /\ stack' = Append(stack, [doc |-> doc, left |-> Valids(doc), via |-> None, best |-> None])
    /\ phase' = "loop"
    /\ UNCHANGED <<req, doc, mem, queue, result>>

\* The loop goes to the next valid move and calls sort on what it makes.
Descend ==
    /\ phase = "loop" /\ Top.left # <<>>
    /\ stack' = [stack EXCEPT ![Len(stack)].via = Head(Top.left),
                              ![Len(stack)].left = Tail(@)]
    /\ doc' = ApplyMove(Head(Top.left), Top.doc)
    /\ phase' = "call"
    /\ UNCHANGED <<req, visited, mem, queue, result>>

Exhaust ==
    /\ phase = "loop" /\ Top.left = <<>>
    /\ stack' = Front(stack)
    /\ IF req.algorithm = "MEMOIZATION"
       THEN /\ mem' = mem \cup {<<Top.doc, Top.best>>}
            /\ Return(Top.best)
       ELSE Return(None) /\ UNCHANGED mem
    /\ UNCHANGED <<req, doc, visited, queue>>

\* Mutant of Found: the move goes behind the moves that follow it.
FoundLast(r) == Append(r, Top.via)

Found(r) == <<Top.via>> \o r
Shorter(r) == IF Top.best = None THEN TRUE ELSE Len(Top.best) > Len(r) + 1

\* DfsSorter passes the first plan on; MemoizationSorter keeps the shortest.
PassOn ==
    /\ phase = "return" /\ stack # <<>> /\ result # None /\ req.algorithm = "DFS"
    /\ stack' = Front(stack)
    /\ result' = Found(result)
    /\ UNCHANGED <<req, phase, doc, visited, mem, queue>>

Improve ==
    /\ phase = "return" /\ stack # <<>> /\ result # None /\ req.algorithm = "MEMOIZATION"
    /\ Shorter(result)
    /\ stack' = [stack EXCEPT ![Len(stack)].best = Found(result)]
    /\ phase' = "loop"
    /\ UNCHANGED <<req, doc, visited, mem, queue, result>>

Ignore ==
    /\ phase = "return" /\ stack # <<>>
    /\ IF result = None THEN TRUE ELSE req.algorithm = "MEMOIZATION" /\ ~Shorter(result)
    /\ phase' = "loop"
    /\ UNCHANGED <<req, doc, stack, visited, mem, queue, result>>

Answer ==
    /\ phase = "return" /\ stack = <<>>
    /\ phase' = IF result = None THEN "impossible" ELSE "sorted"
    /\ UNCHANGED <<req, doc, stack, visited, mem, queue, result>>

----------------------------------------------------------------------------
(* BfsSorter.                                                              *)

Entry == queue[1]

\* Mutant of Skip: an entry that was seen before goes to the end of the queue.
SkipToTheEnd ==
    /\ phase = "queue" /\ queue # <<>> /\ Entry.doc \in visited
    /\ queue' = Append(Tail(queue), Entry)
    /\ UNCHANGED <<req, phase, doc, stack, visited, mem, result>>

Skip ==
    /\ phase = "queue" /\ queue # <<>> /\ Entry.doc \in visited
    /\ queue' = Tail(queue)
    /\ UNCHANGED <<req, phase, doc, stack, visited, mem, result>>

Finish ==
    /\ phase = "queue" /\ queue # <<>> /\ Entry.doc \notin visited
    /\ Entry.doc = Target(req)
    /\ phase' = "sorted" /\ result' = Entry.plan
    /\ visited' = visited \cup {Entry.doc} /\ queue' = Tail(queue)
    /\ UNCHANGED <<req, doc, stack, mem>>

\* Mutant of Expand: what a configuration leads to goes to the head of the queue.
ExpandInFront ==
    /\ phase = "queue" /\ queue # <<>> /\ Entry.doc \notin visited
    /\ Entry.doc # Target(req)
    /\ visited' = visited \cup {Entry.doc}
    /\ LET valid == Valids(Entry.doc)
       IN  queue' = [i \in DOMAIN valid |-> [doc |-> ApplyMove(valid[i], Entry.doc),
                                             plan |-> Append(Entry.plan, valid[i])]]
                    \o Tail(queue)
    /\ UNCHANGED <<req, phase, doc, stack, mem, result>>

Expand ==
    /\ phase = "queue" /\ queue # <<>> /\ Entry.doc \notin visited
    /\ Entry.doc # Target(req)
    /\ visited' = visited \cup {Entry.doc}
    /\ LET valid == Valids(Entry.doc)
       IN  queue' = Tail(queue) \o
                    [i \in DOMAIN valid |-> [doc |-> ApplyMove(valid[i], Entry.doc),
                                             plan |-> Append(Entry.plan, valid[i])]]
    /\ UNCHANGED <<req, phase, doc, stack, mem, result>>

Drained ==
    /\ phase = "queue" /\ queue = <<>>
    /\ phase' = "impossible"
    /\ UNCHANGED <<req, doc, stack, visited, mem, queue, result>>

----------------------------------------------------------------------------

Next ==
    \/ Refuse \/ Begin
    \/ Arrive \/ Recall \/ TurnBack \/ Visit \/ Descend \/ Exhaust
    \/ PassOn \/ Improve \/ Ignore \/ Answer
    \/ Skip \/ Finish \/ Expand \/ Drained

Spec == Init /\ [][Next]_vars

\* The sorter is a loop of one thread that waits for nothing: it goes on
\* until it has answered.  (Next is enabled until then, so this is WF_vars(Next)
\* without an ENABLED for the checker to evaluate.)
Answered == phase \in {"sorted", "impossible", "refused"}
FairSpec == Spec /\ (<>[]Answered \/ []<><<Next>>_vars)
=============================================================================
