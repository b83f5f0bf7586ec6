--------------------------- MODULE ShutdownOrder ---------------------------
(***************************************************************************)
(* The service shutdown order for fast and warm reboot: the graph that      *)
(* ServiceCreator.get_shutdown_sequence builds from the manifests, and its  *)
(* topological sort, one layer of services at a time (toposort).           *)
(*                                                                         *)
(* Services of a layer are sorted by name; the model leaves them unordered. *)
(***************************************************************************)
EXTENDS Naturals

CONSTANT Services

VARIABLES
    installed,  \* services of the installed packages
    after,      \* "after" of their manifests: services that shut down earlier
    before,     \* "before": services that shut down later
    left,       \* services not sorted yet
    layer,      \* number of each sorted service's layer, 0 before
    round,      \* number of layers
    status      \* "sorting", "done" or "circular"

manifests == <<installed, after, before>>
vars == <<manifests, left, layer, round, status>>

\* Mutant of Earlier: "before" is not looked at.
EarlierByAfter(s) == IF s \in installed THEN after[s] \cap installed ELSE {}

\* shutdown_graph[s]: what is to shut down before s.
Earlier(s) ==
    IF s \notin installed THEN {}
    ELSE (after[s] \cap installed) \cup {t \in installed : s \in before[t]}

\* The services that the graph mentions.
Items == {s \in installed : Earlier(s) # {} \/ \E t \in installed : s \in Earlier(t)}

Init ==
    /\ installed \in SUBSET Services
    /\ after \in [Services -> SUBSET Services]
    /\ before \in [Services -> SUBSET Services]
    /\ left = Items
    /\ layer = [s \in Services |-> 0]
    /\ round = 0
    /\ status = "sorting"

\* Mutant of Ready: a service may wait for itself.
ReadyUnlessSelf == {s \in left : Earlier(s) \cap left = {}}

\* toposort ignores what a service says of itself.
Ready == {s \in left : (Earlier(s) \ {s}) \cap left = {}}

\* The next layer.
SortLayer ==
    /\ status = "sorting" /\ Ready # {}
    /\ layer' = [s \in Services |-> IF s \in Ready THEN round + 1 ELSE layer[s]]
    /\ left' = left \ Ready
    /\ round' = round + 1
    /\ UNCHANGED <<manifests, status>>

\* Everything is sorted, or nothing of what is left can be: CircularDependencyError.
EndSort ==
    /\ status = "sorting" /\ Ready = {}
    /\ status' = IF left = {} THEN "done" ELSE "circular"
    /\ UNCHANGED <<manifests, left, layer, round>>

Next == SortLayer \/ EndSort

Spec == Init /\ [][Next]_vars

----------------------------------------------------------------------------
\* What the manifests of two installed services say: s shuts down before t.
Precedes(s, t) ==
    /\ s \in installed /\ t \in installed /\ s # t
    /\ s \in after[t] \/ t \in before[s]

\* The order that is written has every service that an installed manifest relates
\* to another, after all those that it has to wait for.
OrderRespectsManifests ==
    status = "done" =>
        \A s, t \in Services :
            Precedes(s, t) => 0 < layer[s] /\ layer[s] < layer[t]

\* Some services all wait for another of them.
Cyclic ==
    \E cycle \in (SUBSET installed) \ {{}} :
        \A t \in cycle : \E s \in cycle : Precedes(s, t)

\* Sorting fails if and only if the manifests ask for a cycle, so that every
\* order that can be satisfied is found ("Circular dependency found").
CircularIffCyclic ==
    /\ status = "done" => ~Cyclic
    /\ status = "circular" => Cyclic
=============================================================================
