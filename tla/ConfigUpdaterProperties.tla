---------------------- MODULE ConfigUpdaterProperties ----------------------
(***************************************************************************)
(* What the generic configuration updater is expected to guarantee.        *)
(***************************************************************************)
EXTENDS ConfigUpdater

\* References whose two ends are configured by users only.
ConfigRefs == {r \in Refs : TableOf(r[1]) \notin Backend /\ TableOf(r[2]) \notin Backend}

Intact(d) == \A r \in ConfigRefs : d[r[1]] # Absent => d[r[2]] # Absent

\* With one writer, CONFIG_DB never holds a leafref to a node that is gone:
\* not between two changes, not between two set_entry calls of one change, and
\* not after the process is killed at either place.
ReferencesIntact == Intact(db)

\* With one writer, neither comparison of the code can fail: not the final one of
\* PatchApplier.apply, although target_config was computed from a read that
\* precedes the two reads of the sorter and the reads of every change, and daemons
\* write meanwhile; and not the one that ends ChangeApplier.apply.
ComparisonsAgree ==
    \A s \in Sessions :
        /\ pc[s] = "verify" => SameConfig(target[s], db)
        /\ pc[s] = "write" /\ toWrite[s] = {} => SameConfig(upd[s], db)

\* A checkpoint file that can be parsed holds a configuration whose references
\* are intact, although checkpoint reads CONFIG_DB while a writer is at work.
CheckpointsIntact ==
    \A n \in Names : files[n] \notin {NoFile, Torn} => Intact(files[n])

\* With one writer: when the changes of a request are through and no validate command
\* has failed so far, every service was validated after the last write to a table of
\* its own. A process that was killed has told nobody of its last rows, and no later
\* request does: the statement ends with the first kill.
ServicesFollow ==
    budget.crashes = MaxCrashes =>
        \A s \in Sessions : pc[s] = "verify" /\ ~svcErr[s] => stale = {}

\* The rows in which the change of a session differs from the configuration that it has
\* read for it (ChangeApplier.apply).
OwnRows(s) ==
    {RowOf(n) : n \in {m \in Nodes : ApplyOp(Head(plan[s]).op, run[s])[m] # run[s][m]}}

\* Any number of writers: a row of CONFIG_DB that another session or a daemon has written
\* after a session read its running config survives the writes of that session, unless
\* the change itself differs there from what was read; no other step of a session
\* changes CONFIG_DB, and daemons only their own tables. (Fields of one row are not kept:
\* set_entry replaces the row as a whole.)
ForeignRowsKept ==
    [][\A n \in Nodes : db'[n] # db[n] =>
          \/ TableOf(n) \in Backend /\ UNCHANGED <<pc, local>>
          \/ \E s \in Sessions : /\ pc[s] = "write" /\ toWrite'[s] # toWrite[s]
                                 /\ RowOf(n) \in OwnRows(s)]_vars

\* Every request ends, whatever other sessions and daemons do meanwhile.
EveryRequestEnds == \A s \in Sessions : pc[s] # "idle" ~> pc[s] = "idle"

\* With one writer CONFIG_DB implements ConfigMoves: a change counts as made when all of
\* its rows are written, or when the process is killed before they are.
Committed ==
    IF \E s \in Sessions : pc[s] = "write" /\ toWrite[s] # {}
    THEN run[CHOOSE s \in Sessions : pc[s] = "write" /\ toWrite[s] # {}]
    ELSE db

Moves == INSTANCE ConfigMoves
            WITH config <- [n \in Nodes |-> IF TableOf(n) \in Backend THEN Absent
                                            ELSE Committed[n]]

ImplementsMoves == Moves!Spec
-----------------------------------------------------------------------------
(***************************************************************************)
(* The inductive invariants behind the theorems of ConfigUpdater_proofs.   *)
(***************************************************************************)


(***************************************************************************)
(* Whatever the other sessions do, a session in the middle of a change     *)
(* writes rows that its operation has made differ.                         *)
(***************************************************************************)
UpdateComputed ==
    \A s \in Sessions : pc[s] = "write" =>
        /\ upd[s] = ApplyOp(Head(plan[s]).op, run[s])
        /\ toWrite[s] \subseteq ChangedRows(run[s], upd[s])

(***************************************************************************)
(* One writer.                                                             *)
(***************************************************************************)
IsWriter(w) ==
    \A s \in Sessions \ {w} : \A r \in Requests[s] : r.kind \notin Writing

SingleWriter == \E w \in Sessions : IsWriter(w)

Writer == CHOOSE w \in Sessions : IsWriter(w)

WritingLabels ==
    {"simulate", "validate", "sort", "change", "write", "verify", "diff",
     "verifyReplaced", "lookup", "load"}

\* Nodes that refer to each other do not change together.
Apart(a, b) ==
    \A r \in ConfigRefs : /\ ~({r[1], r[2]} \subseteq Added(a, b))
                          /\ ~({r[1], r[2]} \subseteq Deleted(a, b))

\* Outside the back-end tables d is a mixture: the given rows are those of a, all
\* others those of b.
Mixed(d, a, b, rows) ==
    \A n \in Nodes : TableOf(n) \notin Backend =>
        d[n] = IF RowOf(n) \in rows THEN a[n] ELSE b[n]

OnlyWriterWrites(s) == pc[s] \in WritingLabels => s = Writer

\* The patch still leads to the target that the first read gave.
TargetStands(s) ==
    pc[s] \in {"validate", "sort"} => SameConfig(target[s], ApplyPatch(patch[s], db))

\* The rest of the plan ends at the target and, between two changes, starts at
\* CONFIG_DB.
PlanStands(s) ==
    /\ pc[s] \in {"change", "write"} =>
          /\ Chain(plan[s])
          /\ plan[s] # <<>> => SameConfig(plan[s][Len(plan[s])].to, target[s])
    /\ pc[s] = "change" => IF plan[s] = <<>> THEN SameConfig(db, target[s])
                           ELSE SameConfig(db, Head(plan[s]).from)

ChangeStands(s) ==
    pc[s] = "write" =>
        /\ Intact(run[s]) /\ Intact(upd[s]) /\ Apart(run[s], upd[s])
        /\ Mixed(db, run[s], upd[s], toWrite[s])
        /\ SameConfig(upd[s], Head(plan[s]).to)

\* What a session has read for a checkpoint has its references intact.
ReadIntact(s) == pc[s] \in {"open", "save"} => Intact(goal[s])

VerifyStands(s) == pc[s] = "verify" => SameConfig(target[s], db)

SessionInv(s) == /\ OnlyWriterWrites(s)
                 /\ TargetStands(s)
                 /\ PlanStands(s)
                 /\ ChangeStands(s)
                 /\ ReadIntact(s)
                 /\ VerifyStands(s)

IInv == /\ ReferencesIntact
        /\ CheckpointsIntact
        /\ \A s \in Sessions : SessionInv(s)
=============================================================================
