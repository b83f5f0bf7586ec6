SPECIFICATION FairSpec
CONSTANTS
    KeyRefs <- MCKeyRefs
    FieldRefs <- MCFieldRefs
    ListFields <- MCListFields
    Conflicts <- MCConflicts
    CreateOnly <- MCCreateOnly
    AnyField = AnyField
    Critical <- MCCritical
    NoYang <- MCNoYang
    TokenPrefixes <- MCTokenPrefixes
    None = None
    Obj = Obj
    Absent = Absent
    Requests <- MCRequests
    Generate <- MoveWrapperGenerate
INVARIANT PlanIsSound
INVARIANT MovesAreSafe
INVARIANT CreateOnlyStays
INVARIANT ImpossibleIsUnreachable
INVARIANT BfsIsShortest
INVARIANT PartsMakeTheWhole
INVARIANT UpdaterPlan
CHECK_DEADLOCK FALSE
PROPERTY EveryRequestAnswered
