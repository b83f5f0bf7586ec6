--------------------------- MODULE ConfigUpdater ---------------------------
(***************************************************************************)
(* The generic configuration updater: `config apply-patch`, `replace`,      *)
(* `rollback`, `checkpoint` and `delete-checkpoint`.                        *)
(*                                                                         *)
(* A session is one process of the CLI.  Sessions share CONFIG_DB and the   *)
(* checkpoint files; everything else they keep is local and is lost when    *)
(* the process ends.  ConfigLock is not implemented in the code, so nothing *)
(* orders the steps of two sessions.  Every read of CONFIG_DB, every        *)
(* set_entry and every file operation is a step of its own; between two of  *)
(* them another session, or a daemon that owns a back-end table, may run,   *)
(* and the process may be killed.                                          *)
(***************************************************************************)
EXTENDS ConfigJson

CONSTANTS
    Sessions,        \* processes of the config CLI
    Names,           \* checkpoint names
    Requests,        \* what each session may be asked: a set of requests
    Services,        \* services with a validate command
    ServicesOf,      \* services_to_validate of each table
    TableRank,       \* position of each table in the sorted order of names
    Initial,         \* possible contents of CONFIG_DB at the start
    Candidates(_, _),\* sequences of steps to look for plans in, for current and
                     \* target
    NoFile,          \* content of a checkpoint file that does not exist
    Torn,            \* content of one that is not a JSON document
    MaxRequests,     \* bound: requests served in a behaviour
    MaxDaemonWrites, \* bound: rows written by back-end daemons
    MaxCrashes       \* bound: processes killed

Request ==
    [kind : {"apply", "replace", "rollback", "checkpoint", "delete"},
     patch : Patch, goal : Doc, name : Names]

Writing == {"apply", "replace", "rollback"}

ASSUME RequestsAssumption == \A s \in Sessions : Requests[s] \subseteq Request

ASSUME ServicesAssumption == ServicesOf \in [Tables -> SUBSET Services]

ASSUME InitialAssumption ==
    \A d \in Initial : d \in Doc /\ WellFormed(d) /\ Valid(d)

ASSUME FilesAssumption ==
    NoFile # Torn /\ NoFile \notin Doc /\ Torn \notin Doc /\ Names # {}

ASSUME BoundsAssumption ==
    MaxRequests \in Nat /\ MaxDaemonWrites \in Nat /\ MaxCrashes \in Nat

VARIABLES
    db,       \* CONFIG_DB
    files,    \* the checkpoint files
    stale,    \* services not validated since a table of theirs was written
    pc,       \* where each session is
    req,      \* its request
    patch,    \* the patch it applies
    goal,     \* the document a replace, rollback or checkpoint works with
    target,   \* target_config of PatchApplier.apply
    plan,     \* changes still to apply
    run,      \* run_data of the current change
    upd,      \* upd_data of the current change
    toWrite,  \* rows the current change still has to write
    toCheck,  \* services the current change still has to validate
    svcErr,   \* a validate command of this session has failed
    failed,   \* some request of this session has failed or was killed
    budget    \* what is left of the bounds

local == <<req, patch, goal, target, plan, run, upd, toWrite, toCheck, svcErr>>
vars == <<db, files, stale, pc, local, failed, budget>>

Labels ==
    {"idle", "simulate", "validate", "sort", "change", "write", "verify",
     "diff", "verifyReplaced", "lookup", "load",
     "read", "open", "save", "saveOrphan", "findForDelete", "remove"}

FirstLabel ==
    [apply |-> "simulate", replace |-> "diff", rollback |-> "lookup",
     checkpoint |-> "read", delete |-> "findForDelete"]

Budget == [requests : 0 .. MaxRequests, daemon : 0 .. MaxDaemonWrites,
           crashes : 0 .. MaxCrashes]

AnyRequest == [kind |-> "delete", patch |-> {}, goal |-> NoContent,
               name |-> CHOOSE n \in Names : TRUE]

TypeOK ==
    /\ db \in Doc
    /\ files \in [Names -> Doc \cup {NoFile, Torn}]
    /\ stale \subseteq Services
    /\ pc \in [Sessions -> Labels]
    /\ req \in [Sessions -> Request]
    /\ patch \in [Sessions -> SUBSET Op]
    /\ goal \in [Sessions -> Doc]
    /\ target \in [Sessions -> Doc]
    /\ plan \in [Sessions -> Seq(Step)]
    /\ \A s \in Sessions : pc[s] = "write" => plan[s] # <<>>
    /\ run \in [Sessions -> Doc]
    /\ upd \in [Sessions -> Doc]
    /\ toWrite \in [Sessions -> SUBSET Rows]
    /\ toCheck \in [Sessions -> SUBSET Services]
    /\ svcErr \in [Sessions -> BOOLEAN]
    /\ failed \in [Sessions -> BOOLEAN]
    /\ budget \in Budget

Init ==
    /\ db \in Initial
    /\ files = [n \in Names |-> NoFile]
    /\ stale = {}
    /\ pc = [s \in Sessions |-> "idle"]
    /\ req = [s \in Sessions |-> AnyRequest]
    /\ patch = [s \in Sessions |-> {}]
    /\ goal = [s \in Sessions |-> NoContent]
    /\ target = [s \in Sessions |-> NoContent]
    /\ plan = [s \in Sessions |-> <<>>]
    /\ run = [s \in Sessions |-> NoContent]
    /\ upd = [s \in Sessions |-> NoContent]
    /\ toWrite = [s \in Sessions |-> {}]
    /\ toCheck = [s \in Sessions |-> {}]
    /\ svcErr = [s \in Sessions |-> FALSE]
    /\ failed = [s \in Sessions |-> FALSE]
    /\ budget = [requests |-> MaxRequests, daemon |-> MaxDaemonWrites,
                 crashes |-> MaxCrashes]

----------------------------------------------------------------------------
(***************************************************************************)
(* Moving a session.  Leave drops the locals of a process that ends.       *)
(***************************************************************************)
Goto(s, l) == pc' = [pc EXCEPT ![s] = l]

Leave(s) ==
    /\ req' = [req EXCEPT ![s] = AnyRequest]
    /\ patch' = [patch EXCEPT ![s] = {}]
    /\ goal' = [goal EXCEPT ![s] = NoContent]
    /\ target' = [target EXCEPT ![s] = NoContent]
    /\ plan' = [plan EXCEPT ![s] = <<>>]
    /\ run' = [run EXCEPT ![s] = NoContent]
    /\ upd' = [upd EXCEPT ![s] = NoContent]
    /\ toWrite' = [toWrite EXCEPT ![s] = {}]
    /\ toCheck' = [toCheck EXCEPT ![s] = {}]
    /\ UNCHANGED svcErr

Succeed(s) == Leave(s) /\ Goto(s, "idle") /\ UNCHANGED failed

Fail(s) == Leave(s) /\ Goto(s, "idle") /\ failed' = [failed EXCEPT ![s] = TRUE]

Shared == <<db, files, stale>>

\* A request is handed to a fresh process.
Start(s) ==
    /\ pc[s] = "idle"
    /\ budget.requests > 0
    /\ budget' = [budget EXCEPT !.requests = @ - 1]
    /\ \E r \in Requests[s] :
          /\ req' = [req EXCEPT ![s] = r]
          /\ patch' = [patch EXCEPT ![s] = r.patch]
          /\ goal' = [goal EXCEPT ![s] = r.goal]
          /\ Goto(s, FirstLabel[r.kind])
    /\ UNCHANGED <<Shared, target, plan, run, upd, toWrite, toCheck, svcErr, failed>>

----------------------------------------------------------------------------
(***************************************************************************)
(* PatchApplier.apply                                                      *)
(***************************************************************************)
\* Reads the old config, simulates the patch on it and refuses the request.
Simulate(s) ==
    /\ pc[s] = "simulate"
    /\ LET new == ApplyPatch(patch[s], db)
       IN  IF \/ ~Applies(patch[s], db)
              \/ IllegalRemoval(db, new)
              \/ BareTables(patch[s], db) # {}
           THEN Fail(s)
           ELSE /\ target' = [target EXCEPT ![s] = new]
                /\ Goto(s, "validate")
                /\ UNCHANGED <<req, patch, goal, plan, run, upd, toWrite, toCheck,
                               svcErr, failed>>
    /\ UNCHANGED <<Shared, budget>>

\* StrictPatchSorter.sort: reads again and validates the target it would reach.
ValidateTarget(s) ==
    /\ pc[s] = "validate"
    /\ IF Applies(patch[s], db) /\ Valid(ApplyPatch(patch[s], db))
       THEN Goto(s, "sort") /\ UNCHANGED <<local, failed>>
       ELSE Fail(s)
    /\ UNCHANGED <<Shared, budget>>

\* Any plan that keeps the sorter's promises may be returned.
Sort(current, new) == {p \in Candidates(current, new) : IsPlan(p, current, new)}

\* PatchSorter.sort: reads once more; the changes are sorted for this config.
SortPatch(s) ==
    /\ pc[s] = "sort"
    /\ LET sorted == IF Applies(patch[s], db) /\ BareTables(patch[s], db) = {}
                     THEN Sort(db, ApplyPatch(patch[s], db))
                     ELSE {}
       IN  \/ /\ sorted = {}
              /\ Fail(s)
           \/ \E p \in sorted :
                /\ plan' = [plan EXCEPT ![s] = p]
                /\ Goto(s, "change")
                /\ UNCHANGED <<req, patch, goal, target, run, upd, toWrite, toCheck,
                               svcErr, failed>>
    /\ UNCHANGED <<Shared, budget>>

----------------------------------------------------------------------------
(***************************************************************************)
(* ChangeApplier.apply, once for every change                              *)
(***************************************************************************)
\* Mutant of ChangedRows: rows whose fields alone differ are missed.
ChangedRowsWithoutFields(a, b) == {r \in Rows : a[r] # b[r]}

ChangedRows(a, b) == {r \in Rows : \E n \in Nodes : RowOf(n) = r /\ a[n] # b[n]}

\* Reads the running config and applies the change to a copy of it; the JSON
\* patch library raises when the path is gone.
ComputeUpdate(s) ==
    /\ pc[s] = "change"
    /\ plan[s] # <<>>
    /\ LET o == Head(plan[s]).op
           new == ApplyOp(o, db)
           changed == ChangedRows(db, new)
       IN  IF ~Enabled(o, db)
           THEN Fail(s)
           ELSE /\ run' = [run EXCEPT ![s] = db]
                /\ upd' = [upd EXCEPT ![s] = new]
                /\ toWrite' = [toWrite EXCEPT ![s] = changed]
                /\ toCheck' = [toCheck EXCEPT ![s] =
                                  UNION {ServicesOf[TableOf(r)] : r \in changed}]
                /\ Goto(s, "write")
                /\ UNCHANGED <<req, patch, goal, target, plan, svcErr, failed>>
    /\ UNCHANGED <<Shared, budget>>

WriteRow(d, r, new) == [n \in Nodes |-> IF RowOf(n) = r THEN new[n] ELSE d[n]]

\* Mutant of SetEntry: the whole configuration that was computed is written back.
SetConfig(s) ==
    /\ pc[s] = "write"
    /\ \E r \in toWrite[s] :
          /\ db' = upd[s]
          /\ stale' = stale \cup ServicesOf[TableOf(r)]
          /\ toWrite' = [toWrite EXCEPT ![s] = @ \ {r}]
    /\ UNCHANGED <<files, pc, req, patch, goal, target, plan, run, upd, toCheck,
                   svcErr, failed, budget>>

\* set_entry of one differing row; tables in sorted order, keys in any order.
SetEntry(s) ==
    /\ pc[s] = "write"
    /\ \E r \in toWrite[s] :
          /\ \A q \in toWrite[s] : TableRank[TableOf(r)] <= TableRank[TableOf(q)]
          /\ db' = WriteRow(db, r, upd[s])
          /\ stale' = stale \cup ServicesOf[TableOf(r)]
          /\ toWrite' = [toWrite EXCEPT ![s] = @ \ {r}]
    /\ UNCHANGED <<files, pc, req, patch, goal, target, plan, run, upd, toCheck,
                   svcErr, failed, budget>>

\* Mutant of ValidateService: the loop returns after its first command.
ValidateServiceFirstOnly(s) ==
    /\ pc[s] = "write"
    /\ toWrite[s] = {}
    /\ \E v \in toCheck[s] :
          \/ /\ stale' = stale \ {v}
             /\ toCheck' = [toCheck EXCEPT ![s] = {}]
             /\ UNCHANGED svcErr
          \/ /\ toCheck' = [toCheck EXCEPT ![s] = {}]
             /\ svcErr' = [svcErr EXCEPT ![s] = TRUE]
             /\ UNCHANGED stale
    /\ UNCHANGED <<db, files, pc, req, patch, goal, target, plan, run, upd, toWrite,
                   failed, budget>>

\* _services_validate: one command of the set, in any order; a command that
\* fails ends the loop, and the caller goes on as if there had been none.
ValidateService(s) ==
    /\ pc[s] = "write"
    /\ toWrite[s] = {}
    /\ \E v \in toCheck[s] :
          \/ /\ stale' = stale \ {v}
             /\ toCheck' = [toCheck EXCEPT ![s] = @ \ {v}]
             /\ UNCHANGED svcErr
          \/ /\ toCheck' = [toCheck EXCEPT ![s] = {}]
             /\ svcErr' = [svcErr EXCEPT ![s] = TRUE]
             /\ UNCHANGED stale
    /\ UNCHANGED <<db, files, pc, req, patch, goal, target, plan, run, upd, toWrite,
                   failed, budget>>

\* Mutant of FinishChange: the next change is taken without being computed.
FinishChangeUncomputed(s) ==
    /\ pc[s] = "write"
    /\ toWrite[s] = {}
    /\ toCheck[s] = {}
    /\ plan' = [plan EXCEPT ![s] = Tail(@)]
    /\ UNCHANGED <<Shared, pc, req, patch, goal, target, run, upd, toWrite, toCheck,
                   svcErr, failed, budget>>

\* Mutant of FinishChange: the change stays in the list.
FinishChangeAgain(s) ==
    /\ pc[s] = "write"
    /\ toWrite[s] = {}
    /\ toCheck[s] = {}
    /\ run' = [run EXCEPT ![s] = NoContent]
    /\ upd' = [upd EXCEPT ![s] = NoContent]
    /\ Goto(s, "change")
    /\ UNCHANGED <<Shared, req, patch, goal, target, plan, toWrite, toCheck, svcErr,
                   failed, budget>>

\* The running config is read back and a mismatch is logged and returned; the
\* loop over the changes ignores what apply returns.
FinishChange(s) ==
    /\ pc[s] = "write"
    /\ toWrite[s] = {}
    /\ toCheck[s] = {}
    /\ plan' = [plan EXCEPT ![s] = Tail(@)]
    /\ run' = [run EXCEPT ![s] = NoContent]
    /\ upd' = [upd EXCEPT ![s] = NoContent]
    /\ Goto(s, "change")
    /\ UNCHANGED <<Shared, req, patch, goal, target, toWrite, toCheck, svcErr, failed,
                   budget>>

\* No change is left.
EndChanges(s) ==
    /\ pc[s] = "change"
    /\ plan[s] = <<>>
    /\ Goto(s, "verify")
    /\ UNCHANGED <<Shared, local, failed, budget>>

\* The final read of PatchApplier.apply.
VerifyPatched(s) ==
    /\ pc[s] = "verify"
    /\ IF ~SameConfig(target[s], db) THEN Fail(s)
       ELSE IF req[s].kind = "apply" THEN Succeed(s)
       ELSE Goto(s, "verifyReplaced") /\ UNCHANGED <<local, failed>>
    /\ UNCHANGED <<Shared, budget>>

----------------------------------------------------------------------------
(***************************************************************************)
(* ConfigReplacer.replace and FileSystemConfigRollbacker.rollback          *)
(***************************************************************************)
\* Reads the old config and generates the patch that leads to the goal.
GeneratePatch(s) ==
    /\ pc[s] = "diff"
    /\ patch' = [patch EXCEPT ![s] = MakePatch(db, goal[s])]
    /\ Goto(s, "simulate")
    /\ UNCHANGED <<Shared, req, goal, target, plan, run, upd, toWrite, toCheck, svcErr,
                   failed, budget>>

\* Unlike the patch applier, the replacer compares back-end tables too.
VerifyReplaced(s) ==
    /\ pc[s] = "verifyReplaced"
    /\ IF goal[s] = db THEN Succeed(s) ELSE Fail(s)
    /\ UNCHANGED <<Shared, budget>>

FindCheckpoint(s) ==
    /\ pc[s] = "lookup"
    /\ IF files[req[s].name] = NoFile THEN Fail(s)
       ELSE Goto(s, "load") /\ UNCHANGED <<local, failed>>
    /\ UNCHANGED <<Shared, budget>>

\* Opening a file that is gone and parsing a torn one both raise.
LoadCheckpoint(s) ==
    /\ pc[s] = "load"
    /\ LET content == files[req[s].name]
       IN  IF content \in {NoFile, Torn}
           THEN Fail(s)
           ELSE /\ goal' = [goal EXCEPT ![s] = content]
                /\ Goto(s, "diff")
                /\ UNCHANGED <<req, patch, target, plan, run, upd, toWrite, toCheck,
                               svcErr, failed>>
    /\ UNCHANGED <<Shared, budget>>

----------------------------------------------------------------------------
(***************************************************************************)
(* FileSystemConfigRollbacker.checkpoint and delete_checkpoint             *)
(***************************************************************************)
ReadForCheckpoint(s) ==
    /\ pc[s] = "read"
    /\ goal' = [goal EXCEPT ![s] = db]
    /\ Goto(s, "open")
    /\ UNCHANGED <<Shared, req, patch, target, plan, run, upd, toWrite, toCheck, svcErr,
                   failed, budget>>

\* open(path, "w") creates or truncates.
OpenCheckpoint(s) ==
    /\ pc[s] = "open"
    /\ files' = [files EXCEPT ![req[s].name] = Torn]
    /\ Goto(s, "save")
    /\ UNCHANGED <<db, stale, local, failed, budget>>

\* The content goes to offset 0.  When another session has written the same
\* file since, the two texts overlap: the file is this document or garbage.
SaveCheckpoint(s) ==
    /\ pc[s] = "save"
    /\ \E content \in {goal[s]} \cup (IF files[req[s].name] = Torn THEN {} ELSE {Torn}) :
          files' = [files EXCEPT ![req[s].name] = content]
    /\ Succeed(s)
    /\ UNCHANGED <<db, stale, budget>>

\* The file was removed after it was opened: the write reaches no name.
SaveOrphan(s) ==
    /\ pc[s] = "saveOrphan"
    /\ Succeed(s)
    /\ UNCHANGED <<Shared, budget>>

FindForDelete(s) ==
    /\ pc[s] = "findForDelete"
    /\ IF files[req[s].name] = NoFile THEN Fail(s)
       ELSE Goto(s, "remove") /\ UNCHANGED <<local, failed>>
    /\ UNCHANGED <<Shared, budget>>

RemoveCheckpoint(s) ==
    /\ pc[s] = "remove"
    /\ LET name == req[s].name
           orphan(q) == pc[q] = "save" /\ req[q].name = name
       IN  IF files[name] = NoFile
           THEN Fail(s) /\ UNCHANGED files
           ELSE /\ files' = [files EXCEPT ![name] = NoFile]
                /\ pc' = [q \in Sessions |-> IF q = s THEN "idle"
                                             ELSE IF orphan(q) THEN "saveOrphan"
                                             ELSE pc[q]]
                /\ Leave(s)
                /\ UNCHANGED failed
    /\ UNCHANGED <<db, stale, budget>>

----------------------------------------------------------------------------
(***************************************************************************)
(* What the environment does.                                              *)
(***************************************************************************)
\* A process is killed between two of its steps.
Crash(s) ==
    /\ pc[s] # "idle"
    /\ budget.crashes > 0
    /\ budget' = [budget EXCEPT !.crashes = @ - 1]
    /\ Fail(s)
    /\ UNCHANGED Shared

\* A daemon writes a row of a back-end table.
DaemonWrite ==
    /\ budget.daemon > 0
    /\ budget' = [budget EXCEPT !.daemon = @ - 1]
    /\ \E r \in Rows :
          /\ TableOf(r) \in Backend
          /\ \E new \in [{n \in Nodes : RowOf(n) = r} -> Content] :
                /\ db' = WriteRow(db, r, new)
                /\ WellFormed(db')
    /\ UNCHANGED <<files, stale, pc, local, failed>>

Apply(s) == \/ Simulate(s) \/ ValidateTarget(s) \/ SortPatch(s)
            \/ ComputeUpdate(s) \/ SetEntry(s) \/ ValidateService(s)
            \/ FinishChange(s) \/ EndChanges(s) \/ VerifyPatched(s)

Replace(s) == \/ GeneratePatch(s) \/ VerifyReplaced(s)
              \/ FindCheckpoint(s) \/ LoadCheckpoint(s)

Checkpoint(s) == \/ ReadForCheckpoint(s) \/ OpenCheckpoint(s) \/ SaveCheckpoint(s)
                 \/ SaveOrphan(s) \/ FindForDelete(s) \/ RemoveCheckpoint(s)

Proceed(s) == Apply(s) \/ Replace(s) \/ Checkpoint(s)

Next == \/ \E s \in Sessions : Start(s) \/ Proceed(s) \/ Crash(s)
        \/ DaemonWrite

Spec == Init /\ [][Next]_vars

\* A process that has begun a request is scheduled until it ends.
FairSpec == Spec /\ \A s \in Sessions : WF_vars(Proceed(s))
=============================================================================
