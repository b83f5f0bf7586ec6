---------------------------- MODULE ConfigMoves ----------------------------
(***************************************************************************)
(* What the updater promises a reader of CONFIG_DB who looks between two    *)
(* changes, and after a change that was cut short: outside the back-end     *)
(* tables it goes from one document whose references are intact to the      *)
(* next, and two nodes that refer to each other never come or go together.  *)
(***************************************************************************)
EXTENDS ConfigJson

CONSTANT Initial     \* possible configurations at the start

VARIABLE config      \* the configuration, back-end tables left out

Front(d) == [n \in Nodes |-> IF TableOf(n) \in Backend THEN Absent ELSE d[n]]

FrontRefs == {r \in Refs : TableOf(r[1]) \notin Backend /\ TableOf(r[2]) \notin Backend}

Intact(d) == \A r \in FrontRefs : d[r[1]] # Absent => d[r[2]] # Absent

Init == config \in {Front(d) : d \in Initial}

\* One change, or the part of it that a killed process has written.
Move ==
    /\ config' \in Doc
    /\ config' = Front(config')
    /\ Intact(config')
    /\ \A r \in FrontRefs : /\ ~({r[1], r[2]} \subseteq Added(config, config'))
                            /\ ~({r[1], r[2]} \subseteq Deleted(config, config'))

Spec == Init /\ [][Move]_config
=============================================================================
