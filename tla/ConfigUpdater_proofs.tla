------------------------ MODULE ConfigUpdater_proofs ------------------------
(***************************************************************************)
(* Theorems about the generic configuration updater.                       *)
(***************************************************************************)
EXTENDS ConfigUpdaterProperties, TLAPS

(***************************************************************************)
(* Documents and patches.                                                  *)
(***************************************************************************)
LEMMA NoContentType == NoContent \in Doc
  BY DEF NoContent, Doc, Content

\* A subtree of a document is a document.
LEMMA CutType == ASSUME NEW d \in Doc, NEW p PROVE Cut(d, p) \in Doc
  BY DEF Cut, Doc, Content

\* An operation yields a document.
LEMMA ApplyOpType ==
    ASSUME NEW o \in Op, NEW d \in Doc PROVE ApplyOp(o, d) \in Doc
  BY DEF ApplyOp, Op, Doc

\* A patch yields a document.
LEMMA ApplyPatchType ==
    ASSUME NEW P \in SUBSET Op, NEW d \in Doc PROVE ApplyPatch(P, d) \in Doc
  <1>1. ASSUME NEW n \in Nodes, \E o \in P : Under(o.path, n)
        PROVE  (CHOOSE o \in P : Under(o.path, n)).sub[n] \in Content
    <2>1. (CHOOSE o \in P : Under(o.path, n)) \in Op
      BY <1>1
    <2>2. QED  BY <2>1 DEF Op, Doc
  <1>2. QED  BY <1>1 DEF ApplyPatch, Doc

\* A generated patch consists of operations.
LEMMA MakePatchType ==
    ASSUME NEW a \in Doc, NEW b \in Doc PROVE MakePatch(a, b) \in SUBSET Op
  <1>1. ASSUME NEW p \in Paths
        PROVE  RemoveOp(p) \in Op /\ AddOp(p, b) \in Op /\ ReplaceOp(p, b) \in Op
    BY <1>1, NoContentType, CutType DEF RemoveOp, AddOp, ReplaceOp, Op
  <1>2. QED  BY <1>1, Zenon DEF MakePatch

\* Writing a row of a document yields a document.
LEMMA WriteRowType ==
    ASSUME NEW d \in Doc, NEW r, NEW new,
           \A n \in Nodes : RowOf(n) = r => new[n] \in Content
    PROVE  WriteRow(d, r, new) \in Doc
  BY DEF WriteRow, Doc

\* Spending from the budget.
LEMMA SpendType ==
    ASSUME NEW b \in Budget
    PROVE  /\ b.requests > 0 => [b EXCEPT !.requests = @ - 1] \in Budget
           /\ b.daemon > 0 => [b EXCEPT !.daemon = @ - 1] \in Budget
           /\ b.crashes > 0 => [b EXCEPT !.crashes = @ - 1] \in Budget
  <1>1. /\ b.requests \in Nat /\ b.requests <= MaxRequests
        /\ b.daemon \in Nat /\ b.daemon <= MaxDaemonWrites
        /\ b.crashes \in Nat /\ b.crashes <= MaxCrashes
    BY BoundsAssumption DEF Budget
  <1>2. /\ b.requests > 0 => b.requests - 1 \in 0 .. MaxRequests
        /\ b.daemon > 0 => b.daemon - 1 \in 0 .. MaxDaemonWrites
        /\ b.crashes > 0 => b.crashes - 1 \in 0 .. MaxCrashes
    BY <1>1, BoundsAssumption
  <1>3. QED  BY <1>2 DEF Budget

\* The request of an idle session is well typed.
LEMMA AnyRequestType == AnyRequest \in Request
  <1>1. (CHOOSE n \in Names : TRUE) \in Names
    BY FilesAssumption
  <1>2. {} \in Patch
    BY DEF Patch
  <1>3. QED  BY <1>1, <1>2, NoContentType DEF AnyRequest, Request

(***************************************************************************)
(* Leaving a request keeps the locals well typed.                          *)
(***************************************************************************)
LocalsOK ==
    /\ req \in [Sessions -> Request]
    /\ patch \in [Sessions -> SUBSET Op]
    /\ goal \in [Sessions -> Doc]
    /\ target \in [Sessions -> Doc]
    /\ plan \in [Sessions -> Seq(Step)]
    /\ run \in [Sessions -> Doc]
    /\ upd \in [Sessions -> Doc]
    /\ toWrite \in [Sessions -> SUBSET Rows]
    /\ toCheck \in [Sessions -> SUBSET Services]
    /\ svcErr \in [Sessions -> BOOLEAN]

HasPlan == \A s \in Sessions : pc[s] = "write" => plan[s] # <<>>

\* The locals of a session that leaves are well typed.
LEMMA LeaveType ==
    ASSUME LocalsOK, NEW s \in Sessions, Leave(s) PROVE LocalsOK'
  BY AnyRequestType, NoContentType DEF LocalsOK, Leave

\* Locals that do not change stay well typed.
LEMMA LocalKept == ASSUME LocalsOK, UNCHANGED local PROVE LocalsOK'
  BY DEF LocalsOK, local

\* A request that ends leaves a well typed state.
LEMMA EndType ==
    ASSUME TypeOK, NEW s \in Sessions, Succeed(s) \/ Fail(s)
    PROVE  LocalsOK' /\ (pc \in [Sessions -> Labels])' /\ HasPlan'
           /\ (failed \in [Sessions -> BOOLEAN])'
  <1>1. LocalsOK'
    BY LeaveType DEF TypeOK, LocalsOK, Succeed, Fail
  <1>2. "idle" \in Labels
    BY DEF Labels
  <1>3. pc' = [pc EXCEPT ![s] = "idle"] /\ plan' = [plan EXCEPT ![s] = <<>>]
    BY DEF Succeed, Fail, Goto, Leave
  <1>4. HasPlan'
    BY <1>3 DEF TypeOK, HasPlan
  <1>5. QED  BY <1>1, <1>2, <1>3, <1>4 DEF TypeOK, Succeed, Fail, Goto

(***************************************************************************)
(* Type correctness.                                                       *)
(***************************************************************************)
THEOREM TypeCorrect == Spec => []TypeOK
  <1>1. Init => TypeOK
    BY InitialAssumption, BoundsAssumption, AnyRequestType, NoContentType
       DEF Init, TypeOK, Labels, Budget
  <1>2. TypeOK /\ [Next]_vars => TypeOK'
    <2> SUFFICES ASSUME TypeOK, [Next]_vars PROVE TypeOK'
      OBVIOUS
    <2> USE DEF TypeOK, LocalsOK, HasPlan, Shared, Goto
    <2>1. ASSUME NEW s \in Sessions, Start(s) PROVE TypeOK'
      <3>1. PICK r \in Requests[s] :
                /\ req' = [req EXCEPT ![s] = r]
                /\ patch' = [patch EXCEPT ![s] = r.patch]
                /\ goal' = [goal EXCEPT ![s] = r.goal]
                /\ pc' = [pc EXCEPT ![s] = FirstLabel[r.kind]]
        BY <2>1 DEF Start
      <3>2. r \in Request
        BY RequestsAssumption
      <3>3. FirstLabel[r.kind] \in Labels \ {"write"}
        <4>1. r.kind \in {"apply", "replace", "rollback", "checkpoint", "delete"}
          BY <3>2 DEF Request
        <4>2. QED  BY <4>1 DEF FirstLabel, Labels
      <3>4. r.patch \in SUBSET Op /\ r.goal \in Doc
        BY <3>2 DEF Request, Patch
      <3>5. budget' \in Budget
        BY <2>1, SpendType DEF Start
      <3>6. QED  BY <2>1, <3>1, <3>2, <3>3, <3>4, <3>5 DEF Start
    <2>2. ASSUME NEW s \in Sessions, Simulate(s) PROVE TypeOK'
      <3>1. ApplyPatch(patch[s], db) \in Doc
        BY ApplyPatchType
      <3>2. CASE Fail(s)
        BY <2>2, <3>2, EndType DEF Simulate
      <3>3. CASE ~Fail(s)
        BY <2>2, <3>1, <3>3 DEF Simulate, Labels
      <3>4. QED  BY <3>2, <3>3
    <2>3. ASSUME NEW s \in Sessions, ValidateTarget(s) PROVE TypeOK'
      BY <2>3, EndType, LocalKept DEF ValidateTarget, local, Labels
    <2>4. ASSUME NEW s \in Sessions, SortPatch(s) PROVE TypeOK'
      <3>1. CASE Fail(s)
        BY <2>4, <3>1, EndType DEF SortPatch
      <3>2. CASE ~Fail(s)
        <4>1. PICK p \in Seq(Step) : plan' = [plan EXCEPT ![s] = p]
          BY <2>4, <3>2 DEF SortPatch, Sort, IsPlan, Chain
        <4>2. QED  BY <2>4, <3>2, <4>1 DEF SortPatch, Labels
      <3>3. QED  BY <3>1, <3>2
    <2>5. ASSUME NEW s \in Sessions, ComputeUpdate(s) PROVE TypeOK'
      <3>1. CASE Fail(s)
        BY <2>5, <3>1, EndType DEF ComputeUpdate
      <3>2. CASE ~Fail(s)
        <4> DEFINE new == ApplyOp(Head(plan[s]).op, db)
                   changed == ChangedRows(db, new)
        <4>1. Head(plan[s]) \in Step
          BY <2>5 DEF ComputeUpdate
        <4>2. new \in Doc
          BY <4>1, ApplyOpType DEF Step
        <4>3. changed \subseteq Rows
          BY DEF ChangedRows
        <4>4. UNION {ServicesOf[TableOf(r)] : r \in changed} \subseteq Services
          <5>1. \A r \in changed : ServicesOf[TableOf(r)] \in SUBSET Services
            BY <4>3, ServicesAssumption DEF Tables
          <5>2. QED  BY <5>1
        <4> HIDE DEF new, changed
        <4>5. /\ run' = [run EXCEPT ![s] = db]
              /\ upd' = [upd EXCEPT ![s] = new]
              /\ toWrite' = [toWrite EXCEPT ![s] = changed]
              /\ toCheck' = [toCheck EXCEPT ![s] =
                                UNION {ServicesOf[TableOf(r)] : r \in changed}]
              /\ pc' = [pc EXCEPT ![s] = "write"]
          BY <2>5, <3>2 DEF ComputeUpdate, new, changed
        <4>6. QED  BY <2>5, <3>2, <4>2, <4>3, <4>4, <4>5 DEF ComputeUpdate, Labels
      <3>3. QED  BY <3>1, <3>2
    <2>6. ASSUME NEW s \in Sessions, SetEntry(s) PROVE TypeOK'
      <3>1. PICK r \in toWrite[s] :
                /\ db' = WriteRow(db, r, upd[s])
                /\ stale' = stale \cup ServicesOf[TableOf(r)]
                /\ toWrite' = [toWrite EXCEPT ![s] = @ \ {r}]
        BY <2>6 DEF SetEntry
      <3>2. upd[s] \in Doc /\ r \in Rows
        OBVIOUS
      <3>3. db' \in Doc
        BY <3>1, <3>2, WriteRowType DEF Doc
      <3>4. ServicesOf[TableOf(r)] \subseteq Services
        BY <3>2, ServicesAssumption DEF Tables
      <3>5. QED  BY <2>6, <3>1, <3>3, <3>4 DEF SetEntry
    <2>7. ASSUME NEW s \in Sessions, ValidateService(s) PROVE TypeOK'
      BY <2>7, EndType, LocalKept DEF ValidateService, local, Labels
    <2>8. ASSUME NEW s \in Sessions, FinishChange(s) PROVE TypeOK'
      <3>1. Tail(plan[s]) \in Seq(Step)
        BY <2>8 DEF FinishChange
      <3>2. QED  BY <2>8, <3>1, NoContentType DEF FinishChange, Labels
    <2>9. ASSUME NEW s \in Sessions, EndChanges(s) PROVE TypeOK'
      BY <2>9, EndType, LocalKept DEF EndChanges, local, Labels
    <2>10. ASSUME NEW s \in Sessions, VerifyPatched(s) PROVE TypeOK'
      BY <2>10, EndType, LocalKept DEF VerifyPatched, local, Labels
    <2>11. ASSUME NEW s \in Sessions, GeneratePatch(s) PROVE TypeOK'
      <3>1. MakePatch(db, goal[s]) \in SUBSET Op
        BY MakePatchType
      <3>2. QED  BY <2>11, <3>1 DEF GeneratePatch, Labels
    <2>12. ASSUME NEW s \in Sessions, VerifyReplaced(s) PROVE TypeOK'
      BY <2>12, EndType, LocalKept DEF VerifyReplaced, local, Labels
    <2>13. ASSUME NEW s \in Sessions, FindCheckpoint(s) PROVE TypeOK'
      BY <2>13, EndType, LocalKept DEF FindCheckpoint, local, Labels
    <2>14. ASSUME NEW s \in Sessions, LoadCheckpoint(s) PROVE TypeOK'
      <3>1. CASE Fail(s)
        BY <2>14, <3>1, EndType DEF LoadCheckpoint
      <3>2. CASE ~Fail(s)
        <4>1. files[req[s].name] \in Doc
          BY <2>14, <3>2 DEF LoadCheckpoint, Request
        <4>2. QED  BY <2>14, <3>2, <4>1 DEF LoadCheckpoint, Labels
      <3>3. QED  BY <3>1, <3>2
    <2>15. ASSUME NEW s \in Sessions, ReadForCheckpoint(s) PROVE TypeOK'
      BY <2>15, EndType, LocalKept DEF ReadForCheckpoint, local, Labels
    <2>16. ASSUME NEW s \in Sessions, OpenCheckpoint(s) PROVE TypeOK'
      BY <2>16, EndType, LocalKept DEF OpenCheckpoint, local, Labels
    <2>17. ASSUME NEW s \in Sessions, SaveCheckpoint(s) PROVE TypeOK'
      <3>1. files' \in [Names -> Doc \cup {NoFile, Torn}]
        BY <2>17 DEF SaveCheckpoint
      <3>2. QED  BY <2>17, <3>1, EndType DEF SaveCheckpoint
    <2>18. ASSUME NEW s \in Sessions, SaveOrphan(s) PROVE TypeOK'
      BY <2>18, EndType, LocalKept DEF SaveOrphan, local, Labels
    <2>19. ASSUME NEW s \in Sessions, FindForDelete(s) PROVE TypeOK'
      BY <2>19, EndType, LocalKept DEF FindForDelete, local, Labels
    <2>20. ASSUME NEW s \in Sessions, RemoveCheckpoint(s) PROVE TypeOK'
      <3>1. files' \in [Names -> Doc \cup {NoFile, Torn}]
        BY <2>20 DEF RemoveCheckpoint
      <3>2. CASE Fail(s)
        BY <2>20, <3>1, <3>2, EndType DEF RemoveCheckpoint
      <3>3. CASE ~Fail(s)
        <4>1. pc' \in [Sessions -> Labels]
          BY <2>20, <3>3 DEF RemoveCheckpoint, Labels
        <4>2. LocalsOK'
          BY <2>20, <3>3, LeaveType DEF RemoveCheckpoint
        <4>3. HasPlan'
          BY <2>20, <3>3 DEF RemoveCheckpoint, Leave
        <4>4. QED  BY <2>20, <3>1, <3>3, <4>1, <4>2, <4>3 DEF RemoveCheckpoint
      <3>4. QED  BY <3>2, <3>3
    <2>21. ASSUME NEW s \in Sessions, Crash(s) PROVE TypeOK'
      <3>1. budget' \in Budget
        BY <2>21, SpendType DEF Crash
      <3>2. QED  BY <2>21, <3>1, EndType DEF Crash
    <2>22. CASE DaemonWrite
      <3>1. budget' \in Budget
        BY <2>22, SpendType DEF DaemonWrite
      <3>2. PICK r \in Rows :
                \E new \in [{n \in Nodes : RowOf(n) = r} -> Content] :
                    db' = WriteRow(db, r, new)
        BY <2>22 DEF DaemonWrite
      <3>3. db' \in Doc
        <4>1. PICK new \in [{n \in Nodes : RowOf(n) = r} -> Content] :
                  db' = WriteRow(db, r, new)
          BY <3>2
        <4>2. \A n \in Nodes : RowOf(n) = r => new[n] \in Content
          BY <4>1
        <4>3. QED  BY <4>1, <4>2, WriteRowType
      <3>4. LocalsOK'
        BY <2>22, LocalKept DEF DaemonWrite
      <3>5. HasPlan'
        BY <2>22 DEF DaemonWrite, local
      <3>6. QED  BY <2>22, <3>1, <3>3, <3>4, <3>5 DEF DaemonWrite
    <2>23. CASE UNCHANGED vars
      BY <2>23 DEF vars, local
    <2>24. QED  BY <2>1, <2>2, <2>3, <2>4, <2>5, <2>6, <2>7, <2>8, <2>9, <2>10, <2>11, <2>12, <2>13, <2>14, <2>15, <2>16, <2>17, <2>18, <2>19, <2>20, <2>21, <2>22, <2>23 DEF Next, Proceed, Apply, Replace, Checkpoint
  <1>3. QED  BY <1>1, <1>2, PTL DEF Spec
-----------------------------------------------------------------------------

(***************************************************************************)
(* Documents that agree outside the back-end tables.                       *)
(***************************************************************************)
LEMMA RefNodes ==
    ASSUME NEW r \in ConfigRefs
    PROVE  /\ r[1] \in Nodes /\ r[2] \in Nodes
           /\ TableOf(r[1]) \notin Backend /\ TableOf(r[2]) \notin Backend
  BY RefsAssumption DEF ConfigRefs

\* Documents that agree outside the back-end tables are intact together.
LEMMA SameIntact ==
    ASSUME NEW a, NEW b, SameConfig(a, b), Intact(a) PROVE Intact(b)
  BY RefNodes DEF Intact, SameConfig

\* A document that the YANG models accept is intact.
LEMMA ValidIntact == ASSUME NEW d, Valid(d) PROVE Intact(d)
  BY DEF Valid, Intact, ConfigRefs

\* What NoDependency promises of the simulated documents holds for documents that
\* agree with them.
LEMMA ApartIfIndependent ==
    ASSUME NEW a, NEW b, NEW c, NEW d,
           SameConfig(c, a), SameConfig(d, b), NoDependency(a, b)
    PROVE  Apart(c, d)
  <1> SUFFICES ASSUME NEW r \in ConfigRefs
               PROVE  /\ ~({r[1], r[2]} \subseteq Added(c, d))
                      /\ ~({r[1], r[2]} \subseteq Deleted(c, d))
    BY DEF Apart
  <1>1. r \in Refs
    BY DEF ConfigRefs
  <1>2. \A n \in {r[1], r[2]} : n \in Nodes /\ c[n] = a[n] /\ d[n] = b[n]
    BY RefNodes DEF SameConfig
  <1>3. QED  BY <1>1, <1>2 DEF NoDependency, Added, Deleted

\* An operation keeps the agreement of two documents.
LEMMA ApplyOpFront ==
    ASSUME NEW o, NEW a, NEW b, SameConfig(a, b)
    PROVE  SameConfig(ApplyOp(o, a), ApplyOp(o, b))
  BY DEF SameConfig, ApplyOp

\* So does a patch.
LEMMA ApplyPatchFront ==
    ASSUME NEW P, NEW a, NEW b, SameConfig(a, b)
    PROVE  SameConfig(ApplyPatch(P, a), ApplyPatch(P, b))
  BY DEF SameConfig, ApplyPatch

\* Agreement outside the back-end tables is an equivalence.
LEMMA SameTransitive ==
    ASSUME NEW a, NEW b, NEW c, SameConfig(a, b), SameConfig(b, c)
    PROVE  SameConfig(a, c)
  BY DEF SameConfig

\* Agreement is symmetric.
LEMMA SameSymmetric == ASSUME NEW a, NEW b, SameConfig(a, b) PROVE SameConfig(b, a)
  BY DEF SameConfig

(***************************************************************************)
(* A mixture of two intact documents that keep related nodes apart is      *)
(* intact: this is why the order in which a change writes its rows is free. *)
(***************************************************************************)
LEMMA MixtureIntact ==
    ASSUME NEW d, NEW a, NEW b, NEW rows,
           Intact(a), Intact(b), Apart(a, b), Mixed(d, a, b, rows)
    PROVE  Intact(d)
  <1> SUFFICES ASSUME NEW r \in ConfigRefs, d[r[1]] # Absent, d[r[2]] = Absent
               PROVE  FALSE
    BY DEF Intact
  <1>1. /\ r[1] \in Nodes /\ r[2] \in Nodes
        /\ d[r[1]] = IF RowOf(r[1]) \in rows THEN a[r[1]] ELSE b[r[1]]
        /\ d[r[2]] = IF RowOf(r[2]) \in rows THEN a[r[2]] ELSE b[r[2]]
    BY RefNodes DEF Mixed
  <1>2. /\ a[r[1]] # Absent => a[r[2]] # Absent
        /\ b[r[1]] # Absent => b[r[2]] # Absent
    BY DEF Intact
  <1>3. CASE RowOf(r[1]) \in rows
    <2>1. a[r[1]] # Absent /\ a[r[2]] # Absent /\ b[r[2]] = Absent /\ b[r[1]] = Absent
      BY <1>1, <1>2, <1>3
    <2>2. r[1] \in Deleted(a, b) /\ r[2] \in Deleted(a, b)
      BY <1>1, <2>1 DEF Deleted
    <2>3. QED  BY <2>2 DEF Apart
  <1>4. CASE RowOf(r[1]) \notin rows
    <2>1. b[r[1]] # Absent /\ b[r[2]] # Absent /\ a[r[2]] = Absent /\ a[r[1]] = Absent
      BY <1>1, <1>2, <1>4
    <2>2. r[1] \in Added(a, b) /\ r[2] \in Added(a, b)
      BY <1>1, <2>1 DEF Added
    <2>3. QED  BY <2>2 DEF Apart
  <1>5. QED  BY <1>3, <1>4

(***************************************************************************)
(* A step of one session and the invariant of the others.                  *)
(***************************************************************************)
Untouched(t) ==
    /\ pc'[t] = pc[t] /\ patch'[t] = patch[t] /\ goal'[t] = goal[t]
    /\ target'[t] = target[t] /\ plan'[t] = plan[t] /\ run'[t] = run[t]
    /\ upd'[t] = upd[t] /\ toWrite'[t] = toWrite[t]

\* A session that does not move keeps its invariant while CONFIG_DB changes in the
\* back-end tables only.
LEMMA UntouchedInv ==
    ASSUME NEW t, SessionInv(t), Untouched(t), SameConfig(db, db')
    PROVE  SessionInv(t)'
  <1> USE DEF Untouched
  <1>1. OnlyWriterWrites(t)'
    BY DEF SessionInv, OnlyWriterWrites
  <1>2. TargetStands(t)'
    <2> SUFFICES ASSUME pc[t] \in {"validate", "sort"}
                 PROVE  SameConfig(target[t], ApplyPatch(patch[t], db'))
      BY DEF TargetStands
    <2>1. SameConfig(target[t], ApplyPatch(patch[t], db))
      BY DEF SessionInv, TargetStands
    <2>2. QED  BY <2>1, ApplyPatchFront, SameTransitive
  <1>3. PlanStands(t)'
    <2>1. CASE pc[t] # "change"
      BY <2>1 DEF SessionInv, PlanStands
    <2>2. CASE pc[t] = "change"
      <3>1. /\ Chain(plan[t])
            /\ plan[t] # <<>> => SameConfig(plan[t][Len(plan[t])].to, target[t])
            /\ IF plan[t] = <<>> THEN SameConfig(db, target[t])
               ELSE SameConfig(db, Head(plan[t]).from)
        BY <2>2 DEF SessionInv, PlanStands
      <3>2. IF plan[t] = <<>> THEN SameConfig(db', target[t])
            ELSE SameConfig(db', Head(plan[t]).from)
        BY <3>1, SameTransitive, SameSymmetric
      <3>3. QED  BY <2>2, <3>1, <3>2 DEF PlanStands
    <2>3. QED  BY <2>1, <2>2
  <1>4. ChangeStands(t)'
    <2> SUFFICES ASSUME pc[t] = "write"
                 PROVE  ChangeStands(t)'
      BY DEF ChangeStands
    <2>1. /\ Intact(run[t]) /\ Intact(upd[t]) /\ Apart(run[t], upd[t])
          /\ Mixed(db, run[t], upd[t], toWrite[t])
          /\ SameConfig(upd[t], Head(plan[t]).to)
      BY DEF SessionInv, ChangeStands
    <2>2. Mixed(db, run[t], upd[t], toWrite[t])'
      BY <2>1 DEF Mixed, SameConfig
    <2>3. QED  BY <2>1, <2>2 DEF ChangeStands
  <1>5. ReadIntact(t)'
    BY DEF SessionInv, ReadIntact
  <1>6. VerifyStands(t)'
    BY SameTransitive DEF SessionInv, VerifyStands
  <1>7. QED  BY <1>1, <1>2, <1>3, <1>4, <1>5, <1>6 DEF SessionInv

\* A session that only keeps checkpoints or rests has nothing to show.
LEMMA RestingInv ==
    ASSUME NEW s, pc'[s] \notin WritingLabels, ReadIntact(s)'
    PROVE  SessionInv(s)'
  BY DEF SessionInv, OnlyWriterWrites, TargetStands, PlanStands, ChangeStands,
         VerifyStands, WritingLabels

\* Leave touches the locals of its own session only.
LEMMA UntouchedByLeave ==
    ASSUME TypeOK, NEW s \in Sessions, NEW t \in Sessions \ {s}, Leave(s),
           pc'[t] = pc[t]
    PROVE  Untouched(t)
  BY DEF TypeOK, Leave, Untouched

\* A request that ends, well or not, leaves all sessions with their invariants.
LEMMA EndInv ==
    ASSUME TypeOK, IInv, NEW s \in Sessions, Succeed(s) \/ Fail(s), SameConfig(db, db')
    PROVE  \A t \in Sessions : SessionInv(t)'
  <1>1. pc' = [pc EXCEPT ![s] = "idle"] /\ Leave(s)
    BY DEF Succeed, Fail, Goto
  <1>2. ASSUME NEW t \in Sessions \ {s} PROVE SessionInv(t)'
    <2>1. pc'[t] = pc[t]
      BY <1>1 DEF TypeOK
    <2>2. QED  BY <1>1, <2>1, UntouchedByLeave, UntouchedInv DEF IInv
  <1>3. SessionInv(s)'
    <2>1. pc'[s] = "idle"
      BY <1>1 DEF TypeOK
    <2>2. QED  BY <2>1, RestingInv DEF WritingLabels, ReadIntact
  <1>4. QED  BY <1>2, <1>3

\* The shared state and the other sessions, when a session moves on.
LEMMA OthersInv ==
    ASSUME IInv, NEW s \in Sessions, \A t \in Sessions \ {s} : Untouched(t),
           SameConfig(db, db'), SessionInv(s)'
    PROVE  \A t \in Sessions : SessionInv(t)'
  BY UntouchedInv DEF IInv

\* Agreement is reflexive.
LEMMA SameReflexive == ASSUME NEW a PROVE SameConfig(a, a)
  BY DEF SameConfig

\* The shared part of the invariant survives a step that keeps the front tables and
\* the files.
LEMMA SharedInv ==
    ASSUME IInv, UNCHANGED files, SameConfig(db, db')
    PROVE  ReferencesIntact' /\ CheckpointsIntact'
  <1>1. ReferencesIntact'
    BY SameIntact DEF IInv, ReferencesIntact
  <1>2. CheckpointsIntact'
    BY DEF IInv, CheckpointsIntact
  <1>3. QED  BY <1>1, <1>2

(***************************************************************************)
(* The invariant holds at the start.                                       *)
(***************************************************************************)
LEMMA InitInv == Init => IInv
  <1> SUFFICES ASSUME Init PROVE IInv
    OBVIOUS
  <1>1. ReferencesIntact
    BY InitialAssumption, ValidIntact DEF Init, ReferencesIntact
  <1>2. CheckpointsIntact
    BY DEF Init, CheckpointsIntact
  <1>3. ASSUME NEW s \in Sessions PROVE SessionInv(s)
    <2>1. pc[s] = "idle"
      BY DEF Init
    <2>2. QED  BY <2>1 DEF SessionInv, OnlyWriterWrites, TargetStands, PlanStands,
                           ChangeStands, ReadIntact, VerifyStands, WritingLabels
  <1>4. QED  BY <1>1, <1>2, <1>3 DEF IInv

(***************************************************************************)
(* Steps that only choose where to go on.                                  *)
(***************************************************************************)
LEMMA StartInv ==
    ASSUME SingleWriter, TypeOK, IInv, NEW s \in Sessions, Start(s)
    PROVE  \A t \in Sessions : SessionInv(t)'
  <1>1. PICK r \in Requests[s] : pc' = [pc EXCEPT ![s] = FirstLabel[r.kind]]
    BY DEF Start, Goto
  <1>2. r.kind \in {"apply", "replace", "rollback", "checkpoint", "delete"}
    BY RequestsAssumption DEF Request
  <1>3. /\ pc'[s] = FirstLabel[r.kind]
        /\ pc'[s] \notin {"open", "save", "validate", "sort", "change", "write", "verify"}
        /\ pc'[s] \in WritingLabels => r.kind \in Writing
    BY <1>1, <1>2 DEF TypeOK, FirstLabel, WritingLabels, Writing
  <1>4. IsWriter(Writer) /\ Writer \in Sessions
    BY DEF SingleWriter, Writer
  <1>5. OnlyWriterWrites(s)'
    BY <1>3, <1>4 DEF OnlyWriterWrites, IsWriter
  <1>6. SessionInv(s)'
    BY <1>3, <1>5 DEF SessionInv, TargetStands, PlanStands, ChangeStands, ReadIntact,
                      VerifyStands
  <1>7. \A t \in Sessions \ {s} : Untouched(t)
    BY DEF TypeOK, Start, Goto, Untouched
  <1>8. SameConfig(db, db')
    BY SameReflexive DEF Start, Shared
  <1>9. QED  BY <1>6, <1>7, <1>8, OthersInv

\* A writer that goes to a label at which nothing is promised.
LEMMA PassInv ==
    ASSUME TypeOK, IInv, NEW s \in Sessions, pc[s] \in WritingLabels,
           pc'[s] \in WritingLabels \ {"validate", "sort", "change", "write", "verify"}
    PROVE  SessionInv(s)'
  <1>1. s = Writer
    BY DEF IInv, SessionInv, OnlyWriterWrites
  <1>2. QED  BY <1>1 DEF SessionInv, OnlyWriterWrites, TargetStands, PlanStands,
                        ChangeStands, ReadIntact, VerifyStands, WritingLabels

\* Only the writer is at a writing label.
LEMMA WriterIs ==
    ASSUME IInv, NEW s \in Sessions, pc[s] \in WritingLabels
    PROVE  s = Writer
  BY DEF IInv, SessionInv, OnlyWriterWrites

(***************************************************************************)
(* PatchApplier.apply up to the first change.                              *)
(***************************************************************************)
LEMMA SimulateInv ==
    ASSUME TypeOK, IInv, NEW s \in Sessions, Simulate(s)
    PROVE  \A t \in Sessions : SessionInv(t)'
  <1>1. SameConfig(db, db')
    BY SameReflexive DEF Simulate, Shared
  <1>2. CASE Fail(s)
    BY <1>1, <1>2, EndInv
  <1>3. CASE ~Fail(s)
    <2>1. /\ target' = [target EXCEPT ![s] = ApplyPatch(patch[s], db)]
          /\ pc' = [pc EXCEPT ![s] = "validate"]
          /\ UNCHANGED <<db, patch, goal, plan, run, upd, toWrite>>
      BY <1>3 DEF Simulate, Shared, Goto
    <2>2. s = Writer
      BY WriterIs DEF Simulate, WritingLabels
    <2>3. SameConfig(target'[s], ApplyPatch(patch'[s], db')) /\ pc'[s] = "validate"
      BY <2>1, SameReflexive DEF TypeOK
    <2>4. SessionInv(s)'
      BY <2>2, <2>3 DEF SessionInv, OnlyWriterWrites, TargetStands, PlanStands,
                        ChangeStands, ReadIntact, VerifyStands
    <2>5. \A t \in Sessions \ {s} : Untouched(t)
      BY <2>1 DEF TypeOK, Untouched
    <2>6. QED  BY <1>1, <2>4, <2>5, OthersInv
  <1>4. QED  BY <1>2, <1>3

\* ValidateTarget reads the front tables that Simulate has read.
LEMMA ValidateTargetInv ==
    ASSUME TypeOK, IInv, NEW s \in Sessions, ValidateTarget(s)
    PROVE  \A t \in Sessions : SessionInv(t)'
  <1>1. SameConfig(db, db')
    BY SameReflexive DEF ValidateTarget, Shared
  <1>2. CASE Fail(s)
    BY <1>1, <1>2, EndInv
  <1>3. CASE ~Fail(s)
    <2>1. /\ pc' = [pc EXCEPT ![s] = "sort"]
          /\ UNCHANGED <<db, local>>
      BY <1>3 DEF ValidateTarget, Shared, Goto
    <2>2. s = Writer /\ pc'[s] = "sort"
      BY <2>1, WriterIs DEF ValidateTarget, WritingLabels, TypeOK
    <2>3. SameConfig(target[s], ApplyPatch(patch[s], db))
      BY DEF ValidateTarget, IInv, SessionInv, TargetStands
    <2>4. SessionInv(s)'
      BY <2>1, <2>2, <2>3 DEF SessionInv, OnlyWriterWrites, TargetStands, PlanStands,
                              ChangeStands, ReadIntact, VerifyStands, local
    <2>5. \A t \in Sessions \ {s} : Untouched(t)
      BY <2>1 DEF TypeOK, Untouched, local
    <2>6. QED  BY <1>1, <2>4, <2>5, OthersInv
  <1>4. QED  BY <1>2, <1>3

\* The plan that SortPatch takes starts at CONFIG_DB and ends at the target.
LEMMA SortPatchInv ==
    ASSUME TypeOK, IInv, NEW s \in Sessions, SortPatch(s)
    PROVE  \A t \in Sessions : SessionInv(t)'
  <1>1. SameConfig(db, db')
    BY SameReflexive DEF SortPatch, Shared
  <1>2. CASE Fail(s)
    BY <1>1, <1>2, EndInv
  <1>3. CASE ~Fail(s)
    <2> DEFINE new == ApplyPatch(patch[s], db)
    <2>1. PICK p : /\ IsPlan(p, db, new)
                   /\ plan' = [plan EXCEPT ![s] = p]
                   /\ pc' = [pc EXCEPT ![s] = "change"]
                   /\ UNCHANGED <<db, patch, goal, target, run, upd, toWrite>>
      BY <1>3 DEF SortPatch, Sort, Shared, Goto
    <2>2. s = Writer /\ pc'[s] = "change" /\ plan'[s] = p
      BY <2>1, WriterIs DEF SortPatch, WritingLabels, TypeOK
    <2>3. SameConfig(target[s], new)
      BY DEF SortPatch, IInv, SessionInv, TargetStands
    <2>4. Chain(p)
      BY <2>1 DEF IsPlan
    <2>5. IF p = <<>> THEN SameConfig(db, target[s]) ELSE SameConfig(db, Head(p).from)
      <3>1. CASE p = <<>>
        BY <2>1, <2>3, <3>1, SameSymmetric DEF IsPlan
      <3>2. CASE p # <<>>
        <4>1. Head(p) = p[1] /\ p[1].from = db
          BY <2>1, <2>4, <3>2 DEF IsPlan, Chain
        <4>2. QED  BY <3>2, <4>1, SameReflexive
      <3>3. QED  BY <3>1, <3>2
    <2>6. p # <<>> => SameConfig(p[Len(p)].to, target[s])
      BY <2>1, <2>3, SameSymmetric DEF IsPlan
    <2> HIDE DEF new
    <2>7. PlanStands(s)'
      BY <2>1, <2>2, <2>4, <2>5, <2>6 DEF PlanStands
    <2>8. SessionInv(s)'
      BY <2>2, <2>7 DEF SessionInv, OnlyWriterWrites, TargetStands, ChangeStands,
                        ReadIntact, VerifyStands
    <2>9. \A t \in Sessions \ {s} : Untouched(t)
      BY <2>1 DEF TypeOK, Untouched
    <2>10. QED  BY <1>1, <2>8, <2>9, OthersInv
  <1>4. QED  BY <1>2, <1>3

(***************************************************************************)
(* ChangeApplier.apply                                                     *)
(***************************************************************************)
LEMMA RowOfNode == ASSUME NEW n \in Nodes PROVE RowOf(n) \in Rows
  BY NodesAssumption DEF Nodes, RowOf

\* What the sorter has validated on the documents it simulated holds for the
\* running config as well.
LEMMA MoveStands ==
    ASSUME NEW o, NEW a, NEW d, SameConfig(d, a), ValidMove(o, a)
    PROVE  /\ SameConfig(ApplyOp(o, d), ApplyOp(o, a))
           /\ Intact(ApplyOp(o, d))
           /\ Apart(d, ApplyOp(o, d))
  <1>1. SameConfig(ApplyOp(o, d), ApplyOp(o, a))
    BY ApplyOpFront
  <1>2. Valid(ApplyOp(o, a)) /\ NoDependency(a, ApplyOp(o, a))
    BY DEF ValidMove
  <1>3. Intact(ApplyOp(o, d))
    BY <1>1, <1>2, ValidIntact, SameIntact, SameSymmetric
  <1>4. Apart(d, ApplyOp(o, d))
    BY <1>1, <1>2, ApartIfIndependent
  <1>5. QED  BY <1>1, <1>3, <1>4

\* Before its first row is written a change is all old.
LEMMA MixedAtStart ==
    ASSUME NEW b \in Doc PROVE Mixed(db, db, b, ChangedRows(db, b))
  <1> SUFFICES ASSUME NEW n \in Nodes
               PROVE  db[n] = IF RowOf(n) \in ChangedRows(db, b) THEN db[n] ELSE b[n]
    BY DEF Mixed
  <1>1. QED  BY RowOfNode DEF ChangedRows

\* ComputeUpdate starts a change between two intact documents whose related nodes do
\* not change together.
LEMMA ComputeUpdateInv ==
    ASSUME TypeOK, IInv, NEW s \in Sessions, ComputeUpdate(s)
    PROVE  \A t \in Sessions : SessionInv(t)'
  <1>1. SameConfig(db, db')
    BY SameReflexive DEF ComputeUpdate, Shared
  <1>2. CASE Fail(s)
    BY <1>1, <1>2, EndInv
  <1>3. CASE ~Fail(s)
    <2> DEFINE o == Head(plan[s]).op
               new == ApplyOp(o, db)
    <2>1. /\ run' = [run EXCEPT ![s] = db]
          /\ upd' = [upd EXCEPT ![s] = new]
          /\ toWrite' = [toWrite EXCEPT ![s] = ChangedRows(db, new)]
          /\ pc' = [pc EXCEPT ![s] = "write"]
          /\ UNCHANGED <<db, patch, goal, target, plan>>
      BY <1>3 DEF ComputeUpdate, Shared, Goto
    <2>2. s = Writer
      BY WriterIs DEF ComputeUpdate, WritingLabels
    <2>3. /\ Chain(plan[s]) /\ SameConfig(db, Head(plan[s]).from)
          /\ SameConfig(plan[s][Len(plan[s])].to, target[s])
          /\ plan[s] # <<>> /\ plan[s] \in Seq(Step)
      BY DEF ComputeUpdate, IInv, SessionInv, PlanStands, Chain
    <2>4. /\ Head(plan[s]) = plan[s][1]
          /\ ValidMove(o, Head(plan[s]).from)
          /\ Head(plan[s]).to = ApplyOp(o, Head(plan[s]).from)
          /\ o \in Op
      <3>1. 1 \in 1 .. Len(plan[s]) /\ Head(plan[s]) = plan[s][1] /\ plan[s][1] \in Step
        BY <2>3
      <3>2. QED  BY <2>3, <3>1 DEF Chain, Step
    <2>5. SameConfig(new, Head(plan[s]).to) /\ Intact(new) /\ Apart(db, new)
      BY <2>3, <2>4, MoveStands
    <2>6. new \in Doc
      BY <2>4, ApplyOpType DEF TypeOK
    <2> HIDE DEF new
    <2>7. Mixed(db, db, new, ChangedRows(db, new))
      BY <2>6, MixedAtStart
    <2>8. /\ pc'[s] = "write" /\ run'[s] = db /\ upd'[s] = new
          /\ toWrite'[s] = ChangedRows(db, new)
      BY <2>1 DEF TypeOK
    <2>9. Mixed(db, run[s], upd[s], toWrite[s])'
      BY <2>1, <2>7, <2>8 DEF Mixed
    <2>10. Intact(db)
      BY DEF IInv, ReferencesIntact
    <2>11. ChangeStands(s)'
      BY <2>1, <2>5, <2>8, <2>9, <2>10 DEF ChangeStands
    <2>12. PlanStands(s)'
      BY <2>1, <2>3, <2>8 DEF PlanStands
    <2>13. SessionInv(s)'
      BY <2>2, <2>8, <2>11, <2>12 DEF SessionInv, OnlyWriterWrites, TargetStands,
                                     ReadIntact, VerifyStands
    <2>14. \A t \in Sessions \ {s} : Untouched(t)
      BY <2>1 DEF TypeOK, Untouched
    <2>15. QED  BY <1>1, <2>13, <2>14, OthersInv
  <1>4. QED  BY <1>2, <1>3

\* The only step of a session that changes CONFIG_DB.
LEMMA SetEntryInv ==
    ASSUME TypeOK, IInv, NEW s \in Sessions, SetEntry(s)
    PROVE  ReferencesIntact' /\ \A t \in Sessions : SessionInv(t)'
  <1>1. PICK r \in toWrite[s] :
            /\ db' = WriteRow(db, r, upd[s])
            /\ toWrite' = [toWrite EXCEPT ![s] = @ \ {r}]
            /\ UNCHANGED <<pc, patch, goal, target, plan, run, upd>>
    BY DEF SetEntry
  <1>2. s = Writer /\ pc[s] = "write" /\ toWrite'[s] = toWrite[s] \ {r}
    BY <1>1, WriterIs DEF SetEntry, WritingLabels, TypeOK
  <1>3. /\ Intact(run[s]) /\ Intact(upd[s]) /\ Apart(run[s], upd[s])
        /\ Mixed(db, run[s], upd[s], toWrite[s])
        /\ SameConfig(upd[s], Head(plan[s]).to)
    BY <1>2 DEF IInv, SessionInv, ChangeStands
  <1>4. Mixed(db, run[s], upd[s], toWrite[s])'
    <2> SUFFICES ASSUME NEW n \in Nodes, TableOf(n) \notin Backend
                 PROVE  db'[n] = IF RowOf(n) \in toWrite[s] \ {r} THEN run[s][n]
                                 ELSE upd[s][n]
      BY <1>1, <1>2 DEF Mixed
    <2>1. db[n] = IF RowOf(n) \in toWrite[s] THEN run[s][n] ELSE upd[s][n]
      BY <1>3 DEF Mixed
    <2>2. db'[n] = IF RowOf(n) = r THEN upd[s][n] ELSE db[n]
      BY <1>1 DEF WriteRow
    <2>3. QED  BY <2>1, <2>2
  <1>5. Intact(db)'
    <2>1. Mixed(db', run[s], upd[s], toWrite'[s])
      BY <1>1, <1>4
    <2>2. QED  BY <1>3, <2>1, MixtureIntact
  <1>6. SessionInv(s)'
    BY <1>1, <1>2, <1>3, <1>4 DEF IInv, SessionInv, OnlyWriterWrites, TargetStands,
                                  PlanStands, ChangeStands, ReadIntact, VerifyStands
  <1>7. ASSUME NEW t \in Sessions \ {s} PROVE SessionInv(t)'
    <2>1. pc[t] \notin WritingLabels
      BY <1>2, WriterIs
    <2>2. ReadIntact(t)'
      BY <1>1 DEF IInv, SessionInv, ReadIntact
    <2>3. QED  BY <1>1, <2>1, <2>2, RestingInv
  <1>8. QED  BY <1>5, <1>6, <1>7 DEF ReferencesIntact

\* Validating services touches nothing that the invariant speaks of.
LEMMA ValidateServiceInv ==
    ASSUME TypeOK, IInv, NEW s \in Sessions, ValidateService(s)
    PROVE  \A t \in Sessions : SessionInv(t)'
  <1>1. SameConfig(db, db')
    BY SameReflexive DEF ValidateService
  <1>2. \A t \in Sessions : Untouched(t)
    BY DEF ValidateService, Untouched
  <1>3. QED  BY <1>1, <1>2, UntouchedInv DEF IInv

\* After a change CONFIG_DB is where the next change of the plan starts.
LEMMA FinishChangeInv ==
    ASSUME TypeOK, IInv, NEW s \in Sessions, FinishChange(s)
    PROVE  \A t \in Sessions : SessionInv(t)'
  <1>1. SameConfig(db, db')
    BY SameReflexive DEF FinishChange, Shared
  <1> DEFINE p == plan[s]
             q == Tail(p)
  <1>2. /\ plan' = [plan EXCEPT ![s] = q]
        /\ pc' = [pc EXCEPT ![s] = "change"]
        /\ run' = [run EXCEPT ![s] = NoContent]
        /\ upd' = [upd EXCEPT ![s] = NoContent]
        /\ UNCHANGED <<db, patch, goal, target, toWrite>>
    BY DEF FinishChange, Shared, Goto
  <1>3. s = Writer /\ pc[s] = "write" /\ toWrite[s] = {} /\ p # <<>> /\ p \in Seq(Step)
    BY WriterIs DEF FinishChange, WritingLabels, TypeOK
  <1>4. /\ Chain(p) /\ SameConfig(p[Len(p)].to, target[s])
        /\ Mixed(db, run[s], upd[s], {}) /\ SameConfig(upd[s], Head(p).to)
    BY <1>3 DEF IInv, SessionInv, PlanStands, ChangeStands
  <1>5. SameConfig(db, p[1].to)
    BY <1>3, <1>4 DEF Mixed, SameConfig
  <1>6. /\ q \in Seq(Step) /\ Len(q) = Len(p) - 1
        /\ \A i \in 1 .. Len(q) : q[i] = p[i + 1]
        /\ Len(p) \in Nat \ {0}
    BY <1>3
  <1>7. Chain(q)
    <2>1. \A i \in 1 .. Len(q) : i + 1 \in 1 .. Len(p)
      BY <1>6
    <2>2. \A i \in 1 .. Len(q) : /\ ValidMove(q[i].op, q[i].from)
                                 /\ q[i].to = ApplyOp(q[i].op, q[i].from)
      BY <1>4, <1>6, <2>1 DEF Chain
    <2>3. \A i \in 1 .. Len(q) - 1 : q[i + 1].from = q[i].to
      <3> SUFFICES ASSUME NEW i \in 1 .. Len(q) - 1 PROVE q[i + 1].from = q[i].to
        OBVIOUS
      <3>1. /\ i \in 1 .. Len(q) /\ i + 1 \in 1 .. Len(q)
            /\ i + 1 \in 1 .. Len(p) - 1
        BY <1>6
      <3>2. p[(i + 1) + 1].from = p[i + 1].to
        BY <1>4, <3>1 DEF Chain
      <3>3. QED  BY <1>6, <3>1, <3>2
    <2>4. QED  BY <1>6, <2>2, <2>3 DEF Chain
  <1>8. q # <<>> => /\ SameConfig(q[Len(q)].to, target[s])
                    /\ SameConfig(db, Head(q).from)
    <2> SUFFICES ASSUME q # <<>> PROVE /\ SameConfig(q[Len(q)].to, target[s])
                                       /\ SameConfig(db, Head(q).from)
      OBVIOUS
    <2>1. Len(q) \in 1 .. Len(q) /\ 1 \in 1 .. Len(q) /\ Head(q) = q[1]
      BY <1>6
    <2>2. q[Len(q)] = p[Len(p)] /\ q[1] = p[2]
      BY <1>6, <2>1
    <2>3. p[2].from = p[1].to
      <3>1. 1 \in 1 .. Len(p) - 1
        BY <1>6, <2>1
      <3>2. p[1 + 1].from = p[1].to
        BY <1>4, <3>1 DEF Chain
      <3>3. QED  BY <3>2
    <2>4. QED  BY <1>4, <1>5, <2>1, <2>2, <2>3
  <1>9. q = <<>> => SameConfig(db, target[s])
    <2> SUFFICES ASSUME q = <<>> PROVE SameConfig(db, target[s])
      OBVIOUS
    <2>1. Len(p) = 1
      <3>2. Len(q) = Len(p) - 1 /\ Len(p) \in Nat
        BY <1>6
      <3> HIDE DEF p, q
      <3>1. Len(q) = 0
        OBVIOUS
      <3>3. QED  BY <3>1, <3>2
    <2>2. QED  BY <1>4, <1>5, <2>1, SameTransitive
  <1> HIDE DEF p, q
  <1>10. pc'[s] = "change" /\ plan'[s] = q
    BY <1>2 DEF TypeOK
  <1>11. PlanStands(s)'
    BY <1>2, <1>7, <1>8, <1>9, <1>10 DEF PlanStands
  <1>12. SessionInv(s)'
    BY <1>3, <1>10, <1>11 DEF SessionInv, OnlyWriterWrites, TargetStands, ChangeStands,
                              ReadIntact, VerifyStands
  <1>13. \A t \in Sessions \ {s} : Untouched(t)
    BY <1>2 DEF TypeOK, Untouched
  <1>14. QED  BY <1>1, <1>12, <1>13, OthersInv

\* When the plan is through CONFIG_DB is at the target.
LEMMA EndChangesInv ==
    ASSUME TypeOK, IInv, NEW s \in Sessions, EndChanges(s)
    PROVE  \A t \in Sessions : SessionInv(t)'
  <1>1. SameConfig(db, db')
    BY SameReflexive DEF EndChanges, Shared
  <1>2. pc' = [pc EXCEPT ![s] = "verify"] /\ UNCHANGED <<db, local>>
    BY DEF EndChanges, Shared, Goto
  <1>3. s = Writer /\ pc'[s] = "verify"
    BY <1>2, WriterIs DEF EndChanges, WritingLabels, TypeOK
  <1>4. SameConfig(target[s], db)
    BY SameSymmetric DEF EndChanges, IInv, SessionInv, PlanStands
  <1>5. SessionInv(s)'
    BY <1>2, <1>3, <1>4 DEF SessionInv, OnlyWriterWrites, TargetStands, PlanStands,
                            ChangeStands, ReadIntact, VerifyStands, local
  <1>6. \A t \in Sessions \ {s} : Untouched(t)
    BY <1>2 DEF TypeOK, Untouched, local
  <1>7. QED  BY <1>1, <1>5, <1>6, OthersInv

(***************************************************************************)
(* Steps of a writer to places where nothing is promised.                  *)
(***************************************************************************)
LEMMA WriterMovesInv ==
    ASSUME TypeOK, IInv, NEW s \in Sessions,
           \/ VerifyPatched(s) \/ GeneratePatch(s) \/ VerifyReplaced(s)
           \/ FindCheckpoint(s) \/ LoadCheckpoint(s)
    PROVE  \A t \in Sessions : SessionInv(t)'
  <1>1. SameConfig(db, db')
    BY SameReflexive DEF VerifyPatched, GeneratePatch, VerifyReplaced, FindCheckpoint,
                         LoadCheckpoint, Shared
  <1>2. CASE Succeed(s) \/ Fail(s)
    BY <1>1, <1>2, EndInv
  <1>3. CASE ~Succeed(s) /\ ~Fail(s)
    <2>1. /\ pc[s] \in WritingLabels
          /\ pc'[s] \in {"simulate", "verifyReplaced", "load", "diff"}
      BY <1>3 DEF VerifyPatched, GeneratePatch, VerifyReplaced, FindCheckpoint,
                  LoadCheckpoint, Goto, WritingLabels, TypeOK
    <2>2. SessionInv(s)'
      BY <2>1, PassInv DEF WritingLabels
    <2>3. \A t \in Sessions \ {s} : Untouched(t)
      BY <1>3 DEF VerifyPatched, GeneratePatch, VerifyReplaced, FindCheckpoint,
                  LoadCheckpoint, Goto, TypeOK, Untouched, local
    <2>4. QED  BY <1>1, <2>2, <2>3, OthersInv
  <1>4. QED  BY <1>2, <1>3

(***************************************************************************)
(* Checkpoints.                                                            *)
(***************************************************************************)
LEMMA KeeperStepsInv ==
    ASSUME TypeOK, IInv, NEW s \in Sessions,
           \/ ReadForCheckpoint(s) \/ OpenCheckpoint(s) \/ FindForDelete(s)
           \/ SaveOrphan(s)
    PROVE  \A t \in Sessions : SessionInv(t)'
  <1>1. SameConfig(db, db')
    BY SameReflexive DEF ReadForCheckpoint, OpenCheckpoint, FindForDelete, SaveOrphan,
                         Shared
  <1>2. CASE Succeed(s) \/ Fail(s)
    BY <1>1, <1>2, EndInv
  <1>3. CASE ~Succeed(s) /\ ~Fail(s)
    <2>1. pc'[s] \in {"open", "save", "remove"}
      BY <1>3 DEF ReadForCheckpoint, OpenCheckpoint, FindForDelete, SaveOrphan, Goto,
                  TypeOK
    <2>2. ReadIntact(s)'
      <3>1. CASE ReadForCheckpoint(s)
        <4>1. goal'[s] = db
          BY <3>1 DEF ReadForCheckpoint, TypeOK
        <4>2. QED  BY <4>1 DEF IInv, ReferencesIntact, ReadIntact
      <3>2. CASE OpenCheckpoint(s)
        BY <3>2 DEF OpenCheckpoint, IInv, SessionInv, ReadIntact, local
      <3>3. CASE FindForDelete(s) \/ SaveOrphan(s)
        BY <1>3, <3>3 DEF FindForDelete, SaveOrphan, Goto, TypeOK, ReadIntact
      <3>4. QED  BY <3>1, <3>2, <3>3
    <2>3. SessionInv(s)'
      BY <2>1, <2>2, RestingInv DEF WritingLabels
    <2>4. \A t \in Sessions \ {s} : Untouched(t)
      BY <1>3 DEF ReadForCheckpoint, OpenCheckpoint, FindForDelete, SaveOrphan, Goto,
                  TypeOK, Untouched, local
    <2>5. QED  BY <1>1, <2>3, <2>4, OthersInv
  <1>4. QED  BY <1>2, <1>3

\* SaveCheckpoint writes what was read, or garbage.
LEMMA SaveCheckpointInv ==
    ASSUME TypeOK, IInv, NEW s \in Sessions, SaveCheckpoint(s)
    PROVE  CheckpointsIntact' /\ \A t \in Sessions : SessionInv(t)'
  <1>1. SameConfig(db, db')
    BY SameReflexive DEF SaveCheckpoint
  <1>2. \A t \in Sessions : SessionInv(t)'
    BY <1>1, EndInv DEF SaveCheckpoint
  <1>3. Intact(goal[s])
    BY DEF SaveCheckpoint, IInv, SessionInv, ReadIntact
  <1>4. PICK content \in {goal[s], Torn} :
            files' = [files EXCEPT ![req[s].name] = content]
    BY DEF SaveCheckpoint
  <1>5. CheckpointsIntact'
    BY <1>3, <1>4 DEF IInv, CheckpointsIntact, TypeOK
  <1>6. QED  BY <1>2, <1>5

\* RemoveCheckpoint moves sessions to places where nothing is promised.
LEMMA RemoveCheckpointInv ==
    ASSUME TypeOK, IInv, NEW s \in Sessions, RemoveCheckpoint(s)
    PROVE  CheckpointsIntact' /\ \A t \in Sessions : SessionInv(t)'
  <1>1. SameConfig(db, db')
    BY SameReflexive DEF RemoveCheckpoint
  <1>2. CASE Fail(s) /\ UNCHANGED files
    BY <1>1, <1>2, EndInv DEF IInv, CheckpointsIntact
  <1>3. CASE ~(Fail(s) /\ UNCHANGED files)
    <2>1. /\ files' = [files EXCEPT ![req[s].name] = NoFile]
          /\ Leave(s) /\ UNCHANGED db
          /\ pc'[s] = "idle"
          /\ \A t \in Sessions \ {s} : \/ pc'[t] = pc[t]
                                       \/ pc'[t] = "saveOrphan"
      BY <1>3 DEF RemoveCheckpoint
    <2>2. CheckpointsIntact'
      BY <2>1 DEF IInv, CheckpointsIntact, TypeOK
    <2>3. SessionInv(s)'
      BY <2>1, RestingInv DEF WritingLabels, ReadIntact
    <2>4. ASSUME NEW t \in Sessions \ {s} PROVE SessionInv(t)'
      <3>1. CASE pc'[t] = pc[t]
        BY <1>1, <2>1, <3>1, UntouchedByLeave, UntouchedInv DEF IInv
      <3>2. CASE pc'[t] = "saveOrphan"
        BY <3>2, RestingInv DEF WritingLabels, ReadIntact
      <3>3. QED  BY <2>1, <3>1, <3>2
    <2>5. QED  BY <2>2, <2>3, <2>4
  <1>4. QED  BY <1>2, <1>3

\* OpenCheckpoint leaves no content that could be dangling.
LEMMA OpenCheckpointFiles ==
    ASSUME TypeOK, IInv, NEW s \in Sessions, OpenCheckpoint(s)
    PROVE  CheckpointsIntact'
  BY DEF OpenCheckpoint, IInv, CheckpointsIntact, TypeOK

(***************************************************************************)
(* The environment.                                                        *)
(***************************************************************************)
LEMMA DaemonSame == ASSUME DaemonWrite PROVE SameConfig(db, db')
  <1>1. PICK r \in Rows : /\ TableOf(r) \in Backend
                          /\ \E new \in [{n \in Nodes : RowOf(n) = r} -> Content] :
                                db' = WriteRow(db, r, new)
    BY DEF DaemonWrite
  <1>2. PICK new \in [{n \in Nodes : RowOf(n) = r} -> Content] :
            db' = WriteRow(db, r, new)
    BY <1>1
  <1>3. ASSUME NEW n \in Nodes, TableOf(n) \notin Backend PROVE db'[n] = db[n]
    <2>1. RowOf(n) # r
      BY <1>1, <1>3 DEF RowOf, TableOf
    <2>2. QED  BY <1>2, <2>1 DEF WriteRow
  <1>4. QED  BY <1>3 DEF SameConfig

\* A daemon changes back-end tables only.
LEMMA DaemonWriteInv ==
    ASSUME TypeOK, IInv, DaemonWrite PROVE \A t \in Sessions : SessionInv(t)'
  <1>1. \A t \in Sessions : Untouched(t)
    BY DEF DaemonWrite, Untouched, local
  <1>2. QED  BY <1>1, DaemonSame, UntouchedInv DEF IInv

(***************************************************************************)
(* The theorems.                                                           *)
(***************************************************************************)
LEMMA IInvStep ==
    ASSUME SingleWriter, TypeOK, IInv, [Next]_vars PROVE IInv'
  <1>1. ASSUME NEW s \in Sessions, SetEntry(s) PROVE IInv'
    <2>1. UNCHANGED files
      BY <1>1 DEF SetEntry
    <2>2. QED  BY <1>1, <2>1, SetEntryInv DEF IInv, CheckpointsIntact
  <1>2. ASSUME NEW s \in Sessions, SaveCheckpoint(s) \/ RemoveCheckpoint(s) PROVE IInv'
    <2>1. ReferencesIntact'
      BY <1>2 DEF SaveCheckpoint, RemoveCheckpoint, IInv, ReferencesIntact
    <2>2. QED  BY <1>2, <2>1, SaveCheckpointInv, RemoveCheckpointInv DEF IInv
  <1>3. ASSUME NEW s \in Sessions, OpenCheckpoint(s) PROVE IInv'
    <2>1. ReferencesIntact'
      BY <1>3 DEF OpenCheckpoint, IInv, ReferencesIntact
    <2>2. QED  BY <1>3, <2>1, OpenCheckpointFiles, KeeperStepsInv DEF IInv
  <1>4. ASSUME NEW s \in Sessions,
               \/ Start(s) \/ Crash(s)
               \/ Simulate(s) \/ ValidateTarget(s) \/ SortPatch(s) \/ ComputeUpdate(s)
               \/ ValidateService(s) \/ FinishChange(s) \/ EndChanges(s)
               \/ VerifyPatched(s) \/ GeneratePatch(s) \/ VerifyReplaced(s)
               \/ FindCheckpoint(s) \/ LoadCheckpoint(s)
               \/ ReadForCheckpoint(s) \/ SaveOrphan(s) \/ FindForDelete(s)
        PROVE  IInv'
    <2>1. UNCHANGED <<db, files>>
      BY <1>4 DEF Start, Crash, Simulate, ValidateTarget, SortPatch, ComputeUpdate,
                  ValidateService, FinishChange, EndChanges, VerifyPatched,
                  GeneratePatch, VerifyReplaced, FindCheckpoint, LoadCheckpoint,
                  ReadForCheckpoint, SaveOrphan, FindForDelete, Shared
    <2>2. ReferencesIntact' /\ CheckpointsIntact'
      BY <2>1, SharedInv, SameReflexive
    <2>3. \A t \in Sessions : SessionInv(t)'
      <3>1. CASE Crash(s)
        BY <2>1, <3>1, EndInv, SameReflexive DEF Crash
      <3>2. CASE ~Crash(s)
        BY <1>4, <3>2, StartInv, SimulateInv, ValidateTargetInv, SortPatchInv,
           ComputeUpdateInv, ValidateServiceInv, FinishChangeInv, EndChangesInv,
           WriterMovesInv, KeeperStepsInv
      <3>3. QED  BY <3>1, <3>2
    <2>4. QED  BY <2>2, <2>3 DEF IInv
  <1>5. CASE DaemonWrite
    <2>1. UNCHANGED files
      BY <1>5 DEF DaemonWrite
    <2>2. QED  BY <1>5, <2>1, DaemonSame, DaemonWriteInv, SharedInv DEF IInv
  <1>6. CASE UNCHANGED vars
    <2>1. \A t \in Sessions : Untouched(t)
      BY <1>6 DEF vars, local, Untouched
    <2>2. SameConfig(db, db') /\ UNCHANGED files
      BY <1>6, SameReflexive DEF vars
    <2>3. QED  BY <2>1, <2>2, UntouchedInv, SharedInv DEF IInv
  <1>7. QED  BY <1>1, <1>2, <1>3, <1>4, <1>5, <1>6
             DEF Next, Proceed, Apply, Replace, Checkpoint

\* IInv, from which the theorems below follow, holds in every reachable state of the
\* updater when at most one session is asked to change CONFIG_DB.
THEOREM InvariantHolds == ASSUME SingleWriter PROVE Spec => []IInv
  <1>1. Init => IInv
    BY InitInv
  <1>2. TypeOK /\ IInv /\ [Next]_vars => IInv'
    BY IInvStep
  <1>3. QED  BY <1>1, <1>2, TypeCorrect, PTL DEF Spec

\* With one writer no instant of any behaviour shows a dangling reference,
\* whatever the documents, the references, the plans and the number of sessions,
\* with kills at any step and daemons that write meanwhile.
THEOREM ReferencesStayIntact == ASSUME SingleWriter PROVE Spec => []ReferencesIntact
  <1>1. IInv => ReferencesIntact
    BY DEF IInv
  <1>2. QED  BY <1>1, InvariantHolds, PTL

\* A checkpoint that can be parsed is a configuration one can roll back to.
THEOREM CheckpointsStayIntact == ASSUME SingleWriter PROVE Spec => []CheckpointsIntact
  <1>1. IInv => CheckpointsIntact
    BY DEF IInv
  <1>2. QED  BY <1>1, InvariantHolds, PTL

\* The comparisons that end apply-patch and each of its changes never fail.
THEOREM ComparisonsHold == ASSUME SingleWriter PROVE Spec => []ComparisonsAgree
  <1>1. ASSUME NEW s \in Sessions, IInv, pc[s] = "write", toWrite[s] = {}
        PROVE  SameConfig(upd[s], db)
    <2>1. Mixed(db, run[s], upd[s], {})
      BY <1>1 DEF IInv, SessionInv, ChangeStands
    <2>2. QED  BY <2>1 DEF Mixed, SameConfig
  <1>2. IInv => ComparisonsAgree
    BY <1>1 DEF IInv, SessionInv, VerifyStands, ComparisonsAgree
  <1>3. QED  BY <1>2, InvariantHolds, PTL
-----------------------------------------------------------------------------

(***************************************************************************)
(* Two sessions that both write, without any lock.                         *)
(***************************************************************************)
\* A session is in the middle of a change only because it computed the update
\* in this step or was there before with the same update.
LEMMA WritingBefore ==
    ASSUME TypeOK, [Next]_vars, NEW t \in Sessions, pc'[t] = "write"
    PROVE  \/ ComputeUpdate(t)
           \/ /\ pc[t] = "write" /\ plan'[t] = plan[t] /\ run'[t] = run[t]
              /\ upd'[t] = upd[t] /\ toWrite'[t] \subseteq toWrite[t]
  <1> DEFINE Stays == /\ pc[t] = "write" /\ plan'[t] = plan[t] /\ run'[t] = run[t]
                      /\ upd'[t] = upd[t] /\ toWrite'[t] \subseteq toWrite[t]
  <1>1. ASSUME NEW s \in Sessions, Start(s) PROVE Stays
    <2>1. PICK r \in Requests[s] : pc' = [pc EXCEPT ![s] = FirstLabel[r.kind]]
      BY <1>1 DEF Start, Goto
    <2>2. r.kind \in {"apply", "replace", "rollback", "checkpoint", "delete"}
      BY RequestsAssumption DEF Request
    <2>3. FirstLabel[r.kind] # "write"
      BY <2>2 DEF FirstLabel
    <2>4. QED  BY <1>1, <2>1, <2>3 DEF TypeOK, Start
  <1>2. ASSUME NEW s \in Sessions, Succeed(s) \/ Fail(s) PROVE Stays
    BY <1>2 DEF Succeed, Fail, Goto, Leave, TypeOK
  <1>3. ASSUME NEW s \in Sessions, ComputeUpdate(s) PROVE ComputeUpdate(t) \/ Stays
    <2>1. CASE Fail(s)
      BY <2>1, <1>2
    <2>2. CASE s # t /\ ~Fail(s)
      BY <1>3, <2>2 DEF ComputeUpdate, Goto, TypeOK
    <2>3. QED  BY <1>3, <2>1, <2>2
  <1>4. ASSUME NEW s \in Sessions, SetEntry(s) PROVE Stays
    BY <1>4 DEF SetEntry, TypeOK
  <1>5. ASSUME NEW s \in Sessions, ValidateService(s) PROVE Stays
    BY <1>5 DEF ValidateService
  <1>6. ASSUME NEW s \in Sessions, RemoveCheckpoint(s) PROVE Stays
    <2>1. CASE Fail(s)
      BY <2>1, <1>2
    <2>2. CASE ~Fail(s)
      <3>1. Leave(s) /\ pc'[s] = "idle"
            /\ \A q \in Sessions \ {s} : pc'[q] \in {pc[q], "saveOrphan"}
        BY <1>6, <2>2 DEF RemoveCheckpoint
      <3>2. t # s /\ pc[t] = "write"
        BY <3>1
      <3>3. QED  BY <3>1, <3>2 DEF Leave, TypeOK
    <2>3. QED  BY <2>1, <2>2
  <1>7. ASSUME NEW s \in Sessions,
               \/ Simulate(s) \/ ValidateTarget(s) \/ SortPatch(s)
               \/ FinishChange(s) \/ EndChanges(s)
               \/ VerifyPatched(s) \/ GeneratePatch(s) \/ VerifyReplaced(s)
               \/ FindCheckpoint(s) \/ LoadCheckpoint(s)
               \/ ReadForCheckpoint(s) \/ OpenCheckpoint(s) \/ SaveCheckpoint(s)
               \/ SaveOrphan(s) \/ FindForDelete(s) \/ Crash(s)
        PROVE  Stays
    <2>1. CASE Succeed(s) \/ Fail(s)
      BY <2>1, <1>2
    <2>2. CASE ~Succeed(s) /\ ~Fail(s)
      <3>1. s # t
        BY <1>7, <2>2 DEF Simulate, ValidateTarget, SortPatch, FinishChange, EndChanges,
              VerifyPatched, GeneratePatch, VerifyReplaced, FindCheckpoint,
              LoadCheckpoint, ReadForCheckpoint, OpenCheckpoint, SaveCheckpoint,
              SaveOrphan, FindForDelete, Crash, Goto, TypeOK
      <3>2. CASE Simulate(s) \/ ValidateTarget(s) \/ SortPatch(s) \/ FinishChange(s)
                 \/ EndChanges(s)
        BY <2>2, <3>1, <3>2 DEF Simulate, ValidateTarget, SortPatch, FinishChange,
              EndChanges, Goto, TypeOK, local
      <3>3. CASE \/ VerifyPatched(s) \/ GeneratePatch(s) \/ VerifyReplaced(s)
                 \/ FindCheckpoint(s) \/ LoadCheckpoint(s)
        BY <2>2, <3>1, <3>3 DEF VerifyPatched, GeneratePatch, VerifyReplaced,
              FindCheckpoint, LoadCheckpoint, Goto, TypeOK, local
      <3>4. CASE \/ ReadForCheckpoint(s) \/ OpenCheckpoint(s) \/ SaveCheckpoint(s)
                 \/ SaveOrphan(s) \/ FindForDelete(s) \/ Crash(s)
        BY <2>2, <3>1, <3>4 DEF ReadForCheckpoint, OpenCheckpoint, SaveCheckpoint,
              SaveOrphan, FindForDelete, Crash, Goto, TypeOK, local
      <3>5. QED  BY <1>7, <3>2, <3>3, <3>4
    <2>3. QED  BY <2>1, <2>2
  <1>8. CASE DaemonWrite
    BY <1>8 DEF DaemonWrite, local
  <1>9. CASE UNCHANGED vars
    BY <1>9 DEF vars, local
  <1>10. QED  BY <1>1, <1>3, <1>4, <1>5, <1>6, <1>7, <1>8, <1>9
              DEF Next, Proceed, Apply, Replace, Checkpoint

\* Any number of writers: what a session is about to write is what its operation makes
\* of the configuration it has read.
LEMMA UpdateComputedHolds == Spec => []UpdateComputed
  <1>1. Init => UpdateComputed
    BY DEF Init, UpdateComputed
  <1>2. TypeOK /\ UpdateComputed /\ [Next]_vars => UpdateComputed'
    <2> SUFFICES ASSUME TypeOK, UpdateComputed, [Next]_vars,
                        NEW t \in Sessions, pc'[t] = "write"
                 PROVE  /\ upd'[t] = ApplyOp(Head(plan'[t]).op, run'[t])
                        /\ toWrite'[t] \subseteq ChangedRows(run'[t], upd'[t])
      BY DEF UpdateComputed
    <2>1. CASE ComputeUpdate(t)
      <3> DEFINE new == ApplyOp(Head(plan[t]).op, db)
      <3>1. /\ run' = [run EXCEPT ![t] = db]
            /\ upd' = [upd EXCEPT ![t] = new]
            /\ toWrite' = [toWrite EXCEPT ![t] = ChangedRows(db, new)]
            /\ plan' = plan
        <4>1. ~Fail(t)
          BY DEF Fail, Goto, TypeOK
        <4>2. QED  BY <2>1, <4>1 DEF ComputeUpdate
      <3> HIDE DEF new
      <3>2. run'[t] = db /\ upd'[t] = new /\ toWrite'[t] = ChangedRows(db, new)
        BY <3>1 DEF TypeOK
      <3>3. QED  BY <3>1, <3>2 DEF new
    <2>2. CASE ~ComputeUpdate(t)
      BY <2>2, WritingBefore DEF UpdateComputed
    <2>3. QED  BY <2>1, <2>2
  <1>3. QED  BY <1>1, <1>2, TypeCorrect, PTL DEF Spec

\* What a set_entry changes is in a row in which the change differs from what was read.
LEMMA SetEntryIsOwn ==
    ASSUME TypeOK, UpdateComputed, NEW s \in Sessions, SetEntry(s),
           NEW n \in Nodes, db'[n] # db[n]
    PROVE  pc[s] = "write" /\ toWrite'[s] # toWrite[s] /\ RowOf(n) \in OwnRows(s)
  <1>1. PICK r \in toWrite[s] : /\ db' = WriteRow(db, r, upd[s])
                                /\ toWrite' = [toWrite EXCEPT ![s] = @ \ {r}]
    BY DEF SetEntry
  <1>2. pc[s] = "write"
    BY DEF SetEntry
  <1>3. toWrite'[s] = toWrite[s] \ {r}
    BY <1>1 DEF TypeOK
  <1>4. RowOf(n) = r
    BY <1>1 DEF WriteRow
  <1>5. PICK m \in Nodes : RowOf(m) = r /\ run[s][m] # upd[s][m]
    BY <1>1, <1>2 DEF UpdateComputed, ChangedRows
  <1>6. ApplyOp(Head(plan[s]).op, run[s])[m] # run[s][m]
    BY <1>2, <1>5 DEF UpdateComputed
  <1>7. RowOf(m) \in OwnRows(s)
    BY <1>6 DEF OwnRows
  <1>8. QED  BY <1>1, <1>2, <1>3, <1>4, <1>5, <1>7

\* For any number of writers and daemons: between the read of a change and its last
\* set_entry, CONFIG_DB loses no row that another session or a daemon wrote and that the
\* change leaves as it was read.
THEOREM ForeignRowsStay == Spec => ForeignRowsKept
  <1> DEFINE Kept ==
        \A n \in Nodes : db'[n] # db[n] =>
          \/ TableOf(n) \in Backend /\ UNCHANGED <<pc, local>>
          \/ \E s \in Sessions : /\ pc[s] = "write" /\ toWrite'[s] # toWrite[s]
                                 /\ RowOf(n) \in OwnRows(s)
  <1>1. TypeOK /\ UpdateComputed /\ Next => Kept
    <2> SUFFICES ASSUME TypeOK, UpdateComputed, Next, NEW n \in Nodes, db'[n] # db[n]
                 PROVE  \/ TableOf(n) \in Backend /\ UNCHANGED <<pc, local>>
                        \/ \E s \in Sessions : /\ pc[s] = "write" /\ toWrite'[s] # toWrite[s]
                                               /\ RowOf(n) \in OwnRows(s)
      OBVIOUS
    <2>1. CASE \E s \in Sessions : SetEntry(s)
      BY <2>1, SetEntryIsOwn
    <2>2. CASE DaemonWrite
      <3>1. PICK r \in Rows : /\ TableOf(r) \in Backend
                              /\ \E new : db' = WriteRow(db, r, new)
        BY <2>2 DEF DaemonWrite
      <3>2. RowOf(n) = r
        BY <3>1 DEF WriteRow, TypeOK, Doc
      <3>3. TableOf(n) = TableOf(r)
        BY <3>2 DEF RowOf, TableOf
      <3>4. QED  BY <2>2, <3>1, <3>3 DEF DaemonWrite
    <2>3. CASE (\A s \in Sessions : ~SetEntry(s)) /\ ~DaemonWrite
      <3>1. db' = db
        BY <2>3 DEF Next, Proceed, Apply, Replace, Checkpoint, Shared, Start, Crash,
           Simulate, ValidateTarget, SortPatch, ComputeUpdate, ValidateService,
           FinishChange, EndChanges, VerifyPatched, GeneratePatch, VerifyReplaced,
           FindCheckpoint, LoadCheckpoint, ReadForCheckpoint, OpenCheckpoint,
           SaveCheckpoint, SaveOrphan, FindForDelete, RemoveCheckpoint
      <3>2. QED  BY <3>1
    <2>4. QED  BY <2>1, <2>2, <2>3 DEF Next
  <1>2. TypeOK /\ UpdateComputed /\ [Next]_vars => [Kept]_vars
    BY <1>1
  <1> HIDE DEF Kept
  <1>3. Spec => [][Kept]_vars
    BY <1>2, TypeCorrect, UpdateComputedHolds, PTL DEF Spec
  <1>4. QED  BY <1>3 DEF Kept, ForeignRowsKept

(***************************************************************************)
(* One writer: refinement.                                                 *)
(***************************************************************************)
MidChange(s) == pc[s] = "write" /\ toWrite[s] # {}

CommittedIs ==
    /\ \A s \in Sessions : MidChange(s) => s = Writer /\ Committed = run[s]
    /\ (\A s \in Sessions : ~MidChange(s)) => Committed = db

\* The refinement mapping: before its last row a change has not been made.
LEMMA CommittedOf == IInv => CommittedIs
  <1> SUFFICES ASSUME IInv PROVE CommittedIs
    OBVIOUS
  <1>1. ASSUME NEW s \in Sessions, MidChange(s) PROVE s = Writer
    BY <1>1, WriterIs DEF MidChange, WritingLabels
  <1>2. ASSUME NEW s \in Sessions, MidChange(s) PROVE Committed = run[s]
    <2> DEFINE c == CHOOSE q \in Sessions : pc[q] = "write" /\ toWrite[q] # {}
    <2>1. c \in Sessions /\ MidChange(c)
      BY <1>2 DEF MidChange
    <2>2. c = s
      BY <1>1, <1>2, <2>1
    <2>3. QED  BY <1>2, <2>2 DEF Committed, MidChange
  <1>3. QED  BY <1>1, <1>2 DEF Committed, MidChange, CommittedIs

\* A session in the middle of a change goes on with it or is left alone, unless it is
\* killed.
LEMMA MidChangeStays ==
    ASSUME TypeOK, [Next]_vars, NEW t \in Sessions, MidChange(t),
           ~SetEntry(t), ~Crash(t)
    PROVE  MidChange(t)' /\ run'[t] = run[t]
  <1> USE DEF MidChange
  <1>1. ASSUME NEW s \in Sessions, Start(s) PROVE MidChange(t)' /\ run'[t] = run[t]
    BY <1>1 DEF Start, Goto, TypeOK
  <1>2. ASSUME NEW s \in Sessions \ {t}, Succeed(s) \/ Fail(s)
        PROVE  MidChange(t)' /\ run'[t] = run[t]
    BY <1>2 DEF Succeed, Fail, Goto, Leave, TypeOK
  <1>3. ASSUME NEW s \in Sessions, SetEntry(s) \/ ValidateService(s)
        PROVE  MidChange(t)' /\ run'[t] = run[t]
    BY <1>3 DEF SetEntry, ValidateService, TypeOK
  <1>4. ASSUME NEW s \in Sessions, RemoveCheckpoint(s)
        PROVE  MidChange(t)' /\ run'[t] = run[t]
    <2>1. s # t /\ pc[t] # "save"
      BY <1>4 DEF RemoveCheckpoint
    <2>2. CASE Fail(s)
      BY <2>1, <2>2, <1>2
    <2>3. CASE ~Fail(s)
      <3>1. Leave(s) /\ pc'[t] = pc[t]
        BY <1>4, <2>1, <2>3 DEF RemoveCheckpoint
      <3>2. QED  BY <2>1, <3>1 DEF Leave, TypeOK
    <2>4. QED  BY <2>2, <2>3
  <1>5. ASSUME NEW s \in Sessions,
               \/ Simulate(s) \/ ValidateTarget(s) \/ SortPatch(s) \/ ComputeUpdate(s)
               \/ FinishChange(s) \/ EndChanges(s)
               \/ VerifyPatched(s) \/ GeneratePatch(s) \/ VerifyReplaced(s)
               \/ FindCheckpoint(s) \/ LoadCheckpoint(s)
               \/ ReadForCheckpoint(s) \/ OpenCheckpoint(s) \/ SaveCheckpoint(s)
               \/ SaveOrphan(s) \/ FindForDelete(s)
        PROVE  MidChange(t)' /\ run'[t] = run[t]
    <2>1. s # t
      BY <1>5 DEF Simulate, ValidateTarget, SortPatch, ComputeUpdate, FinishChange,
            EndChanges, VerifyPatched, GeneratePatch, VerifyReplaced, FindCheckpoint,
            LoadCheckpoint, ReadForCheckpoint, OpenCheckpoint, SaveCheckpoint,
            SaveOrphan, FindForDelete
    <2>2. CASE Succeed(s) \/ Fail(s)
      BY <2>1, <2>2, <1>2
    <2>3. CASE ~Succeed(s) /\ ~Fail(s)
      <3>1. CASE Simulate(s) \/ ValidateTarget(s) \/ SortPatch(s) \/ ComputeUpdate(s)
        BY <2>1, <2>3, <3>1 DEF Simulate, ValidateTarget, SortPatch, ComputeUpdate,
              Goto, TypeOK, local
      <3>2. CASE FinishChange(s) \/ EndChanges(s) \/ VerifyPatched(s) \/ GeneratePatch(s)
        BY <2>1, <2>3, <3>2 DEF FinishChange, EndChanges, VerifyPatched, GeneratePatch,
              Goto, TypeOK, local
      <3>3. CASE \/ VerifyReplaced(s) \/ FindCheckpoint(s) \/ LoadCheckpoint(s)
                 \/ ReadForCheckpoint(s) \/ OpenCheckpoint(s) \/ SaveCheckpoint(s)
                 \/ SaveOrphan(s) \/ FindForDelete(s)
        BY <2>1, <2>3, <3>3 DEF VerifyReplaced, FindCheckpoint, LoadCheckpoint,
              ReadForCheckpoint, OpenCheckpoint, SaveCheckpoint, SaveOrphan,
              FindForDelete, Goto, TypeOK, local
      <3>4. QED  BY <1>5, <3>1, <3>2, <3>3
    <2>4. QED  BY <2>2, <2>3
  <1>6. ASSUME NEW s \in Sessions, Crash(s) PROVE MidChange(t)' /\ run'[t] = run[t]
    BY <1>2, <1>6 DEF Crash
  <1>7. CASE DaemonWrite
    BY <1>7 DEF DaemonWrite, local
  <1>8. CASE UNCHANGED vars
    BY <1>8 DEF vars, local
  <1>9. QED  BY <1>1, <1>3, <1>4, <1>5, <1>6, <1>7, <1>8
             DEF Next, Proceed, Apply, Replace, Checkpoint

\* Nothing but a set_entry or a daemon changes CONFIG_DB.
LEMMA DatabaseStays ==
    ASSUME [Next]_vars, \A s \in Sessions : ~SetEntry(s) PROVE SameConfig(db, db')
  <1>1. CASE DaemonWrite
    BY <1>1, DaemonSame
  <1>2. CASE ~DaemonWrite
    <2>1. db' = db
      BY <1>2 DEF Next, Proceed, Apply, Replace, Checkpoint, Start, Crash, Simulate,
            ValidateTarget, SortPatch, ComputeUpdate, ValidateService, FinishChange,
            EndChanges, VerifyPatched, GeneratePatch, VerifyReplaced, FindCheckpoint,
            LoadCheckpoint, ReadForCheckpoint, OpenCheckpoint, SaveCheckpoint,
            SaveOrphan, FindForDelete, RemoveCheckpoint, Shared, vars
    <2>2. QED  BY <2>1, SameReflexive
  <1>3. QED  BY <1>1, <1>2

\* The configuration that counts stays the same except when the last row of a
\* change is written, or its process killed before.
LEMMA CommittedStays ==
    ASSUME TypeOK, IInv, IInv', [Next]_vars,
           \A s \in Sessions : SetEntry(s) => MidChange(s)',
           \A s \in Sessions : MidChange(s) => ~Crash(s)
    PROVE  SameConfig(Committed, Committed')
  <1>0. CommittedIs /\ CommittedIs'
    BY CommittedOf, PTL
  <1>1. ASSUME NEW s \in Sessions, MidChange(s), MidChange(s)', run'[s] = run[s]
        PROVE  SameConfig(Committed, Committed')
    <2>1. Committed = run[s] /\ Committed' = run'[s]
      BY <1>0, <1>1 DEF CommittedIs
    <2>2. QED  BY <1>1, <2>1, SameReflexive
  <1>2. ASSUME NEW s \in Sessions, SetEntry(s) PROVE SameConfig(Committed, Committed')
    <2>1. MidChange(s) /\ run'[s] = run[s]
      BY <1>2 DEF SetEntry, MidChange
    <2>2. QED  BY <1>1, <1>2, <2>1
  <1>3. ASSUME \A s \in Sessions : ~SetEntry(s) PROVE SameConfig(Committed, Committed')
    <2>1. CASE \E s \in Sessions : MidChange(s)
      <3>1. PICK s \in Sessions : MidChange(s)
        BY <2>1
      <3>2. MidChange(s)' /\ run'[s] = run[s]
        BY <1>3, <3>1, MidChangeStays
      <3>3. QED  BY <1>1, <3>1, <3>2
    <2>2. CASE \A s \in Sessions : ~MidChange(s)
      <3>1. Committed = db
        BY <1>0, <2>2 DEF CommittedIs
      <3>2. CASE \A s \in Sessions : ~MidChange(s)'
        <4>1. Committed' = db'
          BY <1>0, <3>2 DEF CommittedIs
        <4>2. QED  BY <1>3, <3>1, <4>1, DatabaseStays
      <3>3. ASSUME NEW s \in Sessions, MidChange(s)'
            PROVE  SameConfig(Committed, Committed')
        <4>1. Committed' = run'[s]
          BY <1>0, <3>3 DEF CommittedIs
        <4>2. ComputeUpdate(s)
          BY <2>2, <3>3, WritingBefore DEF MidChange
        <4>3. run'[s] = db
          BY <3>3, <4>2 DEF ComputeUpdate, MidChange, Fail, Goto, TypeOK
        <4>4. QED  BY <3>1, <4>1, <4>3, SameReflexive
      <3>4. QED  BY <3>2, <3>3
    <2>3. QED  BY <2>1, <2>2
  <1>4. QED  BY <1>2, <1>3

\* What a reader sees of a document.
Seen(d) == [n \in Nodes |-> IF TableOf(n) \in Backend THEN Absent ELSE d[n]]

\* Documents that agree are seen alike.
LEMMA SeenSame == ASSUME NEW a, NEW b, SameConfig(a, b) PROVE Seen(a) = Seen(b)
  BY DEF Seen, SameConfig

\* What is seen of a document is a document.
LEMMA SeenType == ASSUME NEW d \in Doc PROVE Seen(d) \in Doc
  BY DEF Seen, Doc, Content

\* What a change has written so far, taken as a whole, is an abstract move.
LEMMA PartIsMove ==
    ASSUME TypeOK, NEW s \in Sessions, NEW d \in Doc, Intact(d), Apart(run[s], upd[s]),
           \A n \in Nodes : TableOf(n) \notin Backend => d[n] \in {run[s][n], upd[s][n]},
           Seen(Committed) = Seen(run[s]), Seen(Committed') = Seen(d)
    PROVE  Moves!Move
  <1> DEFINE a == Seen(run[s])
             b == Seen(d)
  <1>1. b \in Doc
    BY SeenType
  <1>2. \A r \in ConfigRefs : b[r[1]] # Absent => b[r[2]] # Absent
    BY RefNodes DEF Seen, Intact
  <1>3. \A r \in ConfigRefs : /\ ~({r[1], r[2]} \subseteq Added(a, b))
                              /\ ~({r[1], r[2]} \subseteq Deleted(a, b))
    <2>1. \A n \in Nodes : TableOf(n) \notin Backend =>
             /\ n \in Added(a, b) => n \in Added(run[s], upd[s])
             /\ n \in Deleted(a, b) => n \in Deleted(run[s], upd[s])
      BY DEF Added, Deleted, Seen
    <2>2. QED  BY <2>1, RefNodes DEF Apart, ConfigRefs
  <1>4. b = [n \in Nodes |-> IF TableOf(n) \in Backend THEN Absent ELSE b[n]]
    BY DEF Seen
  <1>5. Seen(Committed) = a /\ Seen(Committed') = b
    OBVIOUS
  <1> HIDE DEF a, b
  <1>6. QED
    BY <1>1, <1>2, <1>3, <1>4, <1>5
       DEF Moves!Move, Moves!Doc, Moves!Nodes, Moves!Content, Moves!Front,
           Moves!TableOf, Moves!Intact, Moves!FrontRefs, Moves!Added, Moves!Deleted,
           Seen, Doc, Nodes, Content, TableOf, ConfigRefs, Added, Deleted

\* The last row of a change makes the abstract move.
LEMMA LastRowMoves ==
    ASSUME TypeOK, TypeOK', IInv, IInv', NEW s \in Sessions, SetEntry(s), ~MidChange(s)'
    PROVE  Moves!Move
  <1>1. pc[s] = "write" /\ MidChange(s) /\ pc'[s] = "write" /\ toWrite'[s] = {}
    BY DEF SetEntry, MidChange, TypeOK
  <1>2. CommittedIs /\ CommittedIs'
    BY CommittedOf, PTL
  <1>3. Committed = run[s]
    BY <1>1, <1>2 DEF CommittedIs
  <1>4. Committed' = db'
    <2>1. s = Writer
      BY <1>1, WriterIs DEF WritingLabels
    <2>2. \A t \in Sessions : ~MidChange(t)'
      BY <1>2, <2>1 DEF CommittedIs
    <2>3. QED  BY <1>2, <2>2 DEF CommittedIs
  <1>5. Intact(db') /\ db' \in Doc
    BY DEF IInv, ReferencesIntact, TypeOK
  <1>6. Apart(run[s], upd[s]) /\ Mixed(db, run[s], upd[s], toWrite[s])
    BY <1>1 DEF IInv, SessionInv, ChangeStands
  <1>7. PICK r \in toWrite[s] : db' = WriteRow(db, r, upd[s])
    BY DEF SetEntry
  <1>8. \A n \in Nodes : TableOf(n) \notin Backend => db'[n] \in {run[s][n], upd[s][n]}
    BY <1>6, <1>7 DEF Mixed, WriteRow
  <1>9. QED  BY <1>3, <1>4, <1>5, <1>6, <1>8, PartIsMove

\* A process that is killed in the middle of a change makes the part of it that it has
\* written an abstract move.
LEMMA KilledChangeMoves ==
    ASSUME TypeOK, IInv, IInv', NEW s \in Sessions, Crash(s), MidChange(s)
    PROVE  Moves!Move
  <1>1. /\ pc[s] = "write" /\ db' = db
        /\ pc' = [pc EXCEPT ![s] = "idle"] /\ UNCHANGED Shared
        /\ toWrite' = [toWrite EXCEPT ![s] = {}]
    BY DEF MidChange, Crash, Fail, Goto, Leave, Shared
  <1>2. CommittedIs /\ CommittedIs'
    BY CommittedOf, PTL
  <1>3. Committed = run[s]
    BY <1>2 DEF CommittedIs
  <1>4. Committed' = db
    <2>1. \A t \in Sessions : MidChange(t)' => MidChange(t)
      BY <1>1 DEF MidChange, TypeOK
    <2>2. \A t \in Sessions : ~MidChange(t)'
      BY <1>1, <1>2, <2>1 DEF CommittedIs, MidChange, TypeOK
    <2>3. QED  BY <1>1, <1>2, <2>2 DEF CommittedIs
  <1>5. Intact(db) /\ db \in Doc
    BY DEF IInv, ReferencesIntact, TypeOK
  <1>6. Apart(run[s], upd[s]) /\ Mixed(db, run[s], upd[s], toWrite[s])
    BY <1>1 DEF IInv, SessionInv, ChangeStands
  <1>7. \A n \in Nodes : TableOf(n) \notin Backend => db[n] \in {run[s][n], upd[s][n]}
    BY <1>6 DEF Mixed
  <1>8. QED  BY <1>3, <1>4, <1>5, <1>6, <1>7, PartIsMove

\* A reader of CONFIG_DB sees the configuration go from one intact document to the next,
\* and no two nodes that refer to each other come or go together: the updater, with one
\* writer, implements ConfigMoves, wherever it is killed.
THEOREM UpdaterImplementsMoves ==
    ASSUME SingleWriter PROVE Spec => ImplementsMoves
  <1>1. Init => Moves!Init
    <2> SUFFICES ASSUME Init PROVE Moves!Init
      OBVIOUS
    <2>1. Committed = db /\ db \in Initial
      BY DEF Init, Committed
    <2>2. QED  BY <2>1 DEF Moves!Init, Moves!Front, Moves!Nodes, Moves!TableOf,
                           Nodes, TableOf
  <1>2. TypeOK /\ TypeOK' /\ IInv /\ IInv' /\ [Next]_vars
        => [Moves!Move]_([n \in Nodes |-> IF TableOf(n) \in Backend THEN Absent
                                          ELSE Committed[n]])
    <2> SUFFICES ASSUME TypeOK, TypeOK', IInv, IInv', [Next]_vars
                 PROVE  Moves!Move \/ Seen(Committed') = Seen(Committed)
      BY DEF Seen
    <2>1. CASE \E s \in Sessions : SetEntry(s) /\ ~MidChange(s)'
      BY <2>1, LastRowMoves
    <2>2. CASE \E s \in Sessions : Crash(s) /\ MidChange(s)
      BY <2>2, KilledChangeMoves
    <2>3. CASE \A s \in Sessions : (SetEntry(s) => MidChange(s)') /\ (MidChange(s) => ~Crash(s))
      BY <2>3, CommittedStays, SeenSame
    <2>4. QED  BY <2>1, <2>2, <2>3
  <1>3. QED
    BY <1>1, <1>2, TypeCorrect, InvariantHolds, PTL
       DEF Spec, ImplementsMoves, Moves!Spec

(***************************************************************************)
(* One writer: services, until a process is killed.                        *)
(***************************************************************************)
\* Unless a validate command has failed, what was written and not yet announced
\* is in the list of the change that is being made, and so are the services of
\* what this change has still to write.
ServicesInv ==
    ~svcErr[Writer] =>
        IF pc[Writer] = "write"
        THEN /\ stale \subseteq toCheck[Writer]
             /\ \A r \in toWrite[Writer] : ServicesOf[TableOf(r)] \subseteq toCheck[Writer]
        ELSE stale = {}

\* What a step does that neither tells services nor makes them stale.
ServicesApart ==
    /\ stale' = stale /\ svcErr' = svcErr
    /\ IF pc[Writer] = "write"
       THEN pc'[Writer] = "write" /\ toWrite'[Writer] = toWrite[Writer]
                                  /\ toCheck'[Writer] = toCheck[Writer]
       ELSE pc'[Writer] # "write"

LEMMA WriterIsSession == ASSUME SingleWriter PROVE Writer \in Sessions
  BY DEF SingleWriter, Writer

LEMMA ApartKeepsServices == ASSUME ServicesInv, ServicesApart PROVE ServicesInv'
  BY DEF ServicesInv, ServicesApart

\* A request that ends, of the writer between two changes or of another session.
LEMMA EndKeepsApart ==
    ASSUME SingleWriter, TypeOK, NEW s \in Sessions, Succeed(s) \/ Fail(s),
           pc[s] # "write", stale' = stale
    PROVE  ServicesApart
  <1>1. Writer \in Sessions
    BY WriterIsSession
  <1>2. QED  BY <1>1 DEF Succeed, Fail, Goto, Leave, TypeOK, ServicesApart

\* Steps that neither write rows nor call validate commands.
LEMMA QuietSteps ==
    ASSUME SingleWriter, TypeOK, NEW s \in Sessions,
           \/ Start(s)
           \/ Simulate(s) \/ ValidateTarget(s) \/ SortPatch(s) \/ EndChanges(s)
           \/ VerifyPatched(s) \/ GeneratePatch(s) \/ VerifyReplaced(s)
           \/ FindCheckpoint(s) \/ LoadCheckpoint(s)
           \/ ReadForCheckpoint(s) \/ OpenCheckpoint(s) \/ SaveCheckpoint(s)
           \/ SaveOrphan(s) \/ FindForDelete(s) \/ RemoveCheckpoint(s)
    PROVE  ServicesApart
  <1>1. Writer \in Sessions
    BY WriterIsSession
  <1>2. stale' = stale /\ pc[s] # "write"
    BY DEF Start, Simulate, ValidateTarget, SortPatch, EndChanges, VerifyPatched,
           GeneratePatch, VerifyReplaced, FindCheckpoint, LoadCheckpoint,
           ReadForCheckpoint, OpenCheckpoint, SaveCheckpoint, SaveOrphan,
           FindForDelete, RemoveCheckpoint, Shared
  <1>3. CASE Succeed(s) \/ Fail(s)
    BY <1>2, <1>3, EndKeepsApart
  <1>4. CASE ~Succeed(s) /\ ~Fail(s)
    <2>1. CASE Start(s)
      <3>1. PICK r \in Requests[s] : pc' = [pc EXCEPT ![s] = FirstLabel[r.kind]]
        BY <2>1 DEF Start, Goto
      <3>2. r.kind \in {"apply", "replace", "rollback", "checkpoint", "delete"}
        BY RequestsAssumption DEF Request
      <3>3. FirstLabel[r.kind] # "write"
        BY <3>2 DEF FirstLabel
      <3>4. QED  BY <1>1, <1>2, <2>1, <3>1, <3>3 DEF TypeOK, Start, ServicesApart
    <2>2. CASE RemoveCheckpoint(s)
      <3>1. /\ pc' = [q \in Sessions |-> IF q = s THEN "idle"
                           ELSE IF pc[q] = "save" /\ req[q].name = req[s].name
                                THEN "saveOrphan" ELSE pc[q]]
            /\ Leave(s)
        BY <1>4, <2>2 DEF RemoveCheckpoint
      <3>2. QED  BY <1>1, <1>2, <3>1 DEF Leave, TypeOK, ServicesApart
    <2>3. CASE Simulate(s) \/ ValidateTarget(s) \/ SortPatch(s) \/ EndChanges(s)
      BY <1>1, <1>2, <1>4, <2>3 DEF Simulate, ValidateTarget, SortPatch, EndChanges,
            Goto, TypeOK, local, ServicesApart
    <2>4. CASE \/ VerifyPatched(s) \/ GeneratePatch(s) \/ VerifyReplaced(s)
               \/ FindCheckpoint(s) \/ LoadCheckpoint(s)
      BY <1>1, <1>2, <1>4, <2>4 DEF VerifyPatched, GeneratePatch, VerifyReplaced,
            FindCheckpoint, LoadCheckpoint, Goto, TypeOK, local, ServicesApart
    <2>5. CASE \/ ReadForCheckpoint(s) \/ OpenCheckpoint(s) \/ SaveCheckpoint(s)
               \/ SaveOrphan(s) \/ FindForDelete(s)
      BY <1>1, <1>2, <1>4, <2>5 DEF ReadForCheckpoint, OpenCheckpoint, SaveCheckpoint,
            SaveOrphan, FindForDelete, Goto, TypeOK, local, ServicesApart
    <2>6. QED  BY <2>1, <2>2, <2>3, <2>4, <2>5
  <1>5. QED  BY <1>3, <1>4

\* The budget tells whether a process was ever killed.
LEMMA KillsAreCounted ==
    ASSUME TypeOK, [Next]_vars, budget'.crashes = MaxCrashes
    PROVE  budget.crashes = MaxCrashes /\ \A s \in Sessions : ~Crash(s)
  <1>1. budget.crashes \in Nat /\ budget.crashes <= MaxCrashes /\ MaxCrashes \in Nat
    BY BoundsAssumption DEF TypeOK, Budget
  <1>2. ASSUME NEW s \in Sessions, Crash(s) PROVE FALSE
    <2>1. budget'.crashes = budget.crashes - 1
      BY <1>2 DEF Crash, TypeOK, Budget
    <2>2. QED  BY <1>1, <2>1
  <1>3. budget'.crashes = budget.crashes
    BY <1>2 DEF TypeOK, Budget, Next, Proceed, Apply, Replace, Checkpoint, Start,
         Simulate, ValidateTarget, SortPatch, ComputeUpdate, SetEntry,
         ValidateService, FinishChange, EndChanges, VerifyPatched, GeneratePatch,
         VerifyReplaced, FindCheckpoint, LoadCheckpoint, ReadForCheckpoint,
         OpenCheckpoint, SaveCheckpoint, SaveOrphan, FindForDelete,
         RemoveCheckpoint, DaemonWrite, vars
  <1>4. QED  BY <1>2, <1>3

\* A change lists the services of all rows that it is going to write, a row that is
\* written has its services in the list, and one leaves the list when it was told.
LEMMA ServicesStep ==
    ASSUME SingleWriter, TypeOK, IInv, ServicesInv, [Next]_vars,
           \A s \in Sessions : ~Crash(s)
    PROVE  ServicesInv'
  <1>1. Writer \in Sessions
    BY WriterIsSession
  <1>2. ASSUME NEW s \in Sessions, pc[s] \in WritingLabels PROVE s = Writer
    BY <1>2, WriterIs
  <1>3. ASSUME NEW s \in Sessions, ComputeUpdate(s) PROVE ServicesInv'
    <2>1. s = Writer /\ pc[s] = "change"
      BY <1>2, <1>3 DEF ComputeUpdate, WritingLabels
    <2>2. CASE Fail(s)
      BY <1>3, <2>1, <2>2, EndKeepsApart, ApartKeepsServices DEF ComputeUpdate, Shared
    <2>3. CASE ~Fail(s)
      <3> DEFINE changed == ChangedRows(db, ApplyOp(Head(plan[s]).op, db))
                 told == UNION {ServicesOf[TableOf(r)] : r \in changed}
      <3>1. /\ toWrite' = [toWrite EXCEPT ![s] = changed]
            /\ toCheck' = [toCheck EXCEPT ![s] = told]
            /\ pc' = [pc EXCEPT ![s] = "write"] /\ UNCHANGED <<stale, svcErr>>
        BY <1>3, <2>3 DEF ComputeUpdate, Shared, Goto
      <3>2. \A r \in changed : ServicesOf[TableOf(r)] \subseteq told
        OBVIOUS
      <3> HIDE DEF changed, told
      <3>3. QED  BY <2>1, <3>1, <3>2 DEF TypeOK, ServicesInv
    <2>4. QED  BY <2>2, <2>3
  <1>4. ASSUME NEW s \in Sessions, SetEntry(s) PROVE ServicesInv'
    <2>1. s = Writer /\ pc[s] = "write"
      BY <1>2, <1>4 DEF SetEntry, WritingLabels
    <2>2. PICK r \in toWrite[s] : /\ stale' = stale \cup ServicesOf[TableOf(r)]
                                  /\ toWrite' = [toWrite EXCEPT ![s] = @ \ {r}]
      BY <1>4 DEF SetEntry
    <2>3. UNCHANGED <<pc, toCheck, svcErr>>
      BY <1>4 DEF SetEntry
    <2>4. QED  BY <2>1, <2>2, <2>3 DEF TypeOK, ServicesInv
  <1>5. ASSUME NEW s \in Sessions, ValidateService(s) PROVE ServicesInv'
    <2>1. s = Writer /\ pc[s] = "write" /\ toWrite[s] = {} /\ UNCHANGED <<pc, toWrite>>
      BY <1>2, <1>5 DEF ValidateService, WritingLabels
    <2>2. \/ svcErr' = [svcErr EXCEPT ![s] = TRUE]
          \/ \E v \in toCheck[s] : /\ stale' = stale \ {v} /\ svcErr' = svcErr
                                   /\ toCheck' = [toCheck EXCEPT ![s] = @ \ {v}]
      BY <1>5 DEF ValidateService
    <2>3. QED  BY <1>1, <2>1, <2>2 DEF TypeOK, ServicesInv
  <1>6. ASSUME NEW s \in Sessions, FinishChange(s) PROVE ServicesInv'
    <2>1. s = Writer /\ pc[s] = "write" /\ toCheck[s] = {}
      BY <1>2, <1>6 DEF FinishChange, WritingLabels
    <2>2. pc' = [pc EXCEPT ![s] = "change"] /\ UNCHANGED <<stale, svcErr>>
      BY <1>6 DEF FinishChange, Goto, Shared
    <2>3. QED  BY <2>1, <2>2 DEF TypeOK, ServicesInv
  <1>8. CASE DaemonWrite \/ UNCHANGED vars
    BY <1>8 DEF DaemonWrite, vars, local, ServicesInv
  <1>9. QED  BY <1>3, <1>4, <1>5, <1>6, <1>8, QuietSteps, ApartKeepsServices
             DEF Next, Proceed, Apply, Replace, Checkpoint

\* When the changes of a request are through, every service has been told of the last
\* write to its tables, however many changes, rows and services there are and in
\* whatever order they were written and told: the list is of one change, and the next
\* one is not begun before it is empty.
THEOREM ServicesAreTold ==
    ASSUME SingleWriter PROVE Spec => []ServicesFollow
  <1> DEFINE Untold == budget.crashes = MaxCrashes => ServicesInv
  <1>1. Init => Untold
    BY WriterIsSession DEF Init, ServicesInv
  <1>2. TypeOK /\ IInv /\ Untold /\ [Next]_vars => Untold'
    <2> SUFFICES ASSUME TypeOK, IInv, Untold, [Next]_vars, budget'.crashes = MaxCrashes
                 PROVE  ServicesInv'
      OBVIOUS
    <2>1. budget.crashes = MaxCrashes /\ \A s \in Sessions : ~Crash(s)
      BY KillsAreCounted
    <2>2. QED  BY <2>1, ServicesStep
  <1>3. IInv /\ Untold => ServicesFollow
    <2> SUFFICES ASSUME IInv, ServicesInv, NEW s \in Sessions, pc[s] = "verify", ~svcErr[s]
                 PROVE  stale = {}
      BY DEF ServicesFollow
    <2>1. s = Writer
      BY WriterIs DEF WritingLabels
    <2>2. QED  BY <2>1 DEF ServicesInv
  <1> HIDE DEF Untold
  <1>4. QED  BY <1>1, <1>2, <1>3, TypeCorrect, InvariantHolds, PTL DEF Spec
=============================================================================
