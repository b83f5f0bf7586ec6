------------------------- MODULE PackageTree_proofs -------------------------
(***************************************************************************)
(* What validate_package_tree establishes for all manifests, and the        *)
(* shutdown order for every set of services and all manifests.             *)
(***************************************************************************)
EXTENDS PackageTreeChecks, ShutdownOrder, TLAPS

\* A dependency names versions of packages only, so an entry that satisfies it
\* has a version, which is then the manifest's; and the components compared are
\* those of the manifests.
LEMMA DependencyHolds ==
    ASSUME NEW t \in Trees, \A q \in DOMAIN t : EntryFits(t, q),
           NEW p \in DOMAIN t, NEW d \in DependsOn[ManifestOf(t, p)],
           ~DependencyFails(t, p, d)
    PROVE  DependencyMet(Manifests(t), p, d)
<1>1. p \in Packages /\ t[p] \in Package
  BY DEF Trees, Partial
<1>2. d \in Constraint
  BY <1>1, ManifestsAssumption DEF ManifestOf, Package
<1>3. d.versions \subseteq Versions
  BY <1>2 DEF Constraint
<1>4. d.on \in DOMAIN t /\ t[d.on].version \in d.versions
  BY DEF DependencyFails
<1>5. t[d.on].version = t[d.on].manifest
  BY <1>3, <1>4, VersionsAssumption DEF EntryFits
<1>6. ManifestOf(t, p) = <<p, Manifests(t)[p]>>
      /\ ManifestOf(t, d.on) = <<d.on, Manifests(t)[d.on]>>
  BY <1>4 DEF ManifestOf, Manifests
<1>7. ~ComponentsFail(AskedComponents(ManifestOf(t, p), d),
                      ComponentsOf[ManifestOf(t, d.on)])
  BY DEF DependencyFails
<1>8. DOMAIN Manifests(t) = DOMAIN t /\ Manifests(t)[d.on] = t[d.on].manifest
  BY <1>4 DEF Manifests
<1> QED
  BY <1>4, <1>5, <1>6, <1>7, <1>8 DEF DependencyMet, ComponentsFail

\* An entry without version is refused, and so is every component of the other
\* package, so a conflict that passes is none.
LEMMA NoConflict ==
    ASSUME NEW t \in Trees, \A q \in DOMAIN t : EntryFits(t, q),
           NEW p \in DOMAIN t, NEW b \in Breaks[ManifestOf(t, p)],
           ~ConflictFails(t, b)
    PROVE  ~Conflict(Manifests(t), b)
<1>1. SUFFICES ASSUME b.on \in DOMAIN t PROVE ~Conflict(Manifests(t), b)
  BY DEF Conflict, Manifests
<1>2. t[b.on].version \notin b.versions /\ t[b.on].version # NoVersion
  BY <1>1 DEF ConflictFails
<1>3. Manifests(t)[b.on] = t[b.on].version
  BY <1>1, <1>2 DEF EntryFits, Manifests
<1>4. DOMAIN ComponentsOf[<<b.on, Manifests(t)[b.on]>>] = {}
  BY <1>1 DEF ConflictFails, ManifestOf, Manifests
<1> QED
  BY <1>2, <1>3, <1>4 DEF Conflict

\* validate_package_tree returns only for packages that have what they depend on
\* and break nothing, if no entry has the version before an upgrade.
THEOREM AcceptedTreeIsCompatible ==
    ASSUME NEW t \in Trees, \A q \in DOMAIN t : EntryFits(t, q), TreeAccepted(t)
    PROVE  Compatible(Manifests(t))
<1> SUFFICES ASSUME NEW p \in DOMAIN Manifests(t)
             PROVE  /\ \A d \in DependsOn[<<p, Manifests(t)[p]>>] :
                          DependencyMet(Manifests(t), p, d)
                    /\ \A b \in Breaks[<<p, Manifests(t)[p]>>] :
                          ~Conflict(Manifests(t), b)
  BY DEF Compatible
<1>1. p \in DOMAIN t /\ ManifestOf(t, p) = <<p, Manifests(t)[p]>>
  BY DEF Manifests, ManifestOf
<1>2. ASSUME NEW d \in DependsOn[<<p, Manifests(t)[p]>>]
      PROVE  DependencyMet(Manifests(t), p, d)
  BY <1>1, DependencyHolds DEF TreeAccepted
<1>3. ASSUME NEW b \in Breaks[<<p, Manifests(t)[p]>>]
      PROVE  ~Conflict(Manifests(t), b)
  BY <1>1, NoConflict DEF TreeAccepted
<1> QED
  BY <1>2, <1>3

Inv == /\ tree \in Trees
       /\ verdict = "accepted" => TreeAccepted(tree)

\* The same of the check as it runs: whatever it accepts is compatible.
THEOREM AcceptanceIsSound == TreeSpec => []AcceptedIsCompatible
<1>1. TreeInit => Inv
  BY DEF TreeInit, Inv
<1>2. Inv /\ [Validate]_<<tree, verdict>> => Inv'
  <2> SUFFICES ASSUME Inv, [Validate]_<<tree, verdict>> PROVE Inv'
    OBVIOUS
  <2>1. CASE Validate
    <3>1. tree' = tree
      BY <2>1 DEF Validate
    <3>2. verdict' = "accepted" => TreeAccepted(tree)
      BY <2>1 DEF Validate
    <3> QED
      BY <3>1, <3>2 DEF Inv, TreeAccepted, DependencyFails, ConflictFails, ManifestOf
  <2>2. CASE UNCHANGED <<tree, verdict>>
    BY <2>2 DEF Inv, TreeAccepted, DependencyFails, ConflictFails, ManifestOf
  <2> QED
    BY <2>1, <2>2
<1>3. Inv => AcceptedIsCompatible
  BY AcceptedTreeIsCompatible DEF Inv, AcceptedIsCompatible
<1> QED
  BY <1>1, <1>2, <1>3, PTL DEF TreeSpec

----------------------------------------------------------------------------
(* The shutdown order. *)

Waiting(cycle) ==
    /\ cycle \subseteq installed
    /\ \A t \in cycle : \E s \in cycle : Precedes(s, t)

TypeInv ==
    /\ installed \subseteq Services
    /\ after \in [Services -> SUBSET Services]
    /\ before \in [Services -> SUBSET Services]
    /\ left \subseteq Items
    /\ layer \in [Services -> Nat]
    /\ round \in Nat

\* What is sorted has a layer after those of all it waits for.
Sorted ==
    /\ \A s \in Services : layer[s] <= round
    /\ \A t \in Items \ left : /\ layer[t] > 0
                               /\ \A s \in Earlier(t) \ {t} :
                                     s \notin left /\ layer[s] < layer[t]

\* The sort never gets into a cycle.
CyclesLeft == \A cycle \in SUBSET installed : Waiting(cycle) => cycle \subseteq left

Ended ==
    /\ status = "done" => left = {}
    /\ status = "circular" => left # {} /\ Ready = {}

IInv == TypeInv /\ Sorted /\ CyclesLeft /\ Ended

\* The graph has the manifests' relations as edges, and mentions their ends.
LEMMA EdgesAreRelations ==
    ASSUME TypeInv
    PROVE  /\ \A s, t \in Services : Precedes(s, t) <=> t \in installed
                                                     /\ s \in Earlier(t) \ {t}
           /\ \A s, t \in Services : Precedes(s, t) => s \in Items /\ t \in Items
<1>1. \A s, t \in Services : Precedes(s, t) <=> t \in installed
                                             /\ s \in Earlier(t) \ {t}
  BY DEF TypeInv, Precedes, Earlier
<1>2. ASSUME NEW s \in Services, NEW t \in Services, Precedes(s, t)
      PROVE  s \in Items /\ t \in Items
  <2>1. s \in installed /\ t \in installed /\ s \in Earlier(t)
    BY <1>1, <1>2 DEF Precedes
  <2> QED
    BY <2>1 DEF Items
<1> QED
  BY <1>1, <1>2

LEMMA InitHolds == Init => IInv
<1> SUFFICES ASSUME Init PROVE IInv
  OBVIOUS
<1>1. TypeInv
  BY DEF Init, TypeInv
<1>2. Sorted /\ Ended
  BY DEF Init, Sorted, Ended
<1>3. CyclesLeft
  <2> SUFFICES ASSUME NEW cycle \in SUBSET installed, Waiting(cycle), NEW t \in cycle
               PROVE  t \in left
    BY DEF CyclesLeft
  <2>1. PICK s \in cycle : Precedes(s, t)
    BY DEF Waiting
  <2>2. t \in Items
    BY <1>1, <2>1, EdgesAreRelations DEF TypeInv
  <2> QED
    BY <2>2 DEF Init
<1> QED
  BY <1>1, <1>2, <1>3 DEF IInv

\* Neither action changes the manifests or what is defined by them.
LEMMA GraphStays ==
    ASSUME UNCHANGED manifests
    PROVE  /\ Items' = Items
           /\ \A s : Earlier(s)' = Earlier(s)
           /\ \A s, t : Precedes(s, t)' <=> Precedes(s, t)
           /\ \A cycle : Waiting(cycle)' <=> Waiting(cycle)
BY DEF manifests, Items, Earlier, Precedes, Waiting

LEMMA SortLayerKeeps == IInv /\ SortLayer => IInv'
<1> SUFFICES ASSUME IInv, SortLayer PROVE IInv'
  OBVIOUS
<1> USE DEF IInv
<1>1. UNCHANGED manifests /\ left' = left \ Ready /\ round' = round + 1
      /\ layer' = [s \in Services |-> IF s \in Ready THEN round + 1 ELSE layer[s]]
      /\ status' = status /\ status = "sorting"
  BY DEF SortLayer
<1>2. TypeInv'
  BY <1>1, GraphStays DEF TypeInv, manifests
<1>3. Ready \subseteq left /\ Items \subseteq Services
  BY DEF Ready, Items, TypeInv
<1>4. Sorted'
  <2>1. \A s \in Services : layer'[s] <= round'
    BY <1>1 DEF Sorted, TypeInv
  <2>2. ASSUME NEW t \in Items, t \notin left'
        PROVE  /\ layer'[t] > 0
               /\ \A s \in Earlier(t) \ {t} : s \notin left' /\ layer'[s] < layer'[t]
    <3>1. t \in Services /\ Earlier(t) \subseteq Services
      BY <1>3 DEF Earlier, TypeInv
    <3>2. CASE t \in Ready
      <4>1. layer'[t] = round + 1
        BY <1>1, <3>1, <3>2
      <4>2. ASSUME NEW s \in Earlier(t) \ {t}
            PROVE  s \notin left' /\ layer'[s] < layer'[t]
        <5>1. s \notin left
          BY <3>2 DEF Ready
        <5>2. layer'[s] = layer[s] /\ layer[s] <= round
          BY <1>1, <1>3, <3>1, <5>1 DEF Sorted
        <5> QED
          BY <1>1, <3>1, <4>1, <5>1, <5>2 DEF TypeInv
      <4> QED
        BY <4>1, <4>2 DEF TypeInv
    <3>3. CASE t \notin Ready
      <4>1. t \in Items \ left /\ layer'[t] = layer[t]
        BY <1>1, <2>2, <3>1, <3>3
      <4>2. ASSUME NEW s \in Earlier(t) \ {t}
            PROVE  s \notin left' /\ layer'[s] < layer'[t]
        <5>1. s \notin left /\ layer[s] < layer[t]
          BY <4>1 DEF Sorted
        <5>2. layer'[s] = layer[s]
          BY <1>1, <1>3, <3>1, <5>1
        <5> QED
          BY <1>1, <4>1, <5>1, <5>2
      <4> QED
        BY <4>1, <4>2 DEF Sorted
    <3> QED
      BY <3>2, <3>3
  <2> QED
    BY <1>1, <2>1, <2>2, GraphStays DEF Sorted
<1>5. CyclesLeft'
  <2> SUFFICES ASSUME NEW cycle \in SUBSET installed, Waiting(cycle), NEW t \in cycle
               PROVE  t \in left'
    BY <1>1, GraphStays DEF CyclesLeft, manifests
  <2>1. PICK s \in cycle : Precedes(s, t)
    BY DEF Waiting
  <2>2. s \in left /\ t \in left
    BY DEF CyclesLeft
  <2>3. s \in Earlier(t) \ {t}
    BY <2>1, EdgesAreRelations DEF TypeInv
  <2>4. t \notin Ready
    BY <2>2, <2>3 DEF Ready
  <2> QED
    BY <1>1, <2>2, <2>4
<1>6. Ended'
  BY <1>1 DEF Ended
<1> QED
  BY <1>2, <1>4, <1>5, <1>6

LEMMA EndSortKeeps == IInv /\ EndSort => IInv'
<1> SUFFICES ASSUME IInv, EndSort PROVE IInv'
  OBVIOUS
<1> USE DEF IInv
<1>1. UNCHANGED <<manifests, left, layer, round>> /\ Ready = {}
      /\ status' = IF left = {} THEN "done" ELSE "circular"
  BY DEF EndSort
<1>2. UNCHANGED manifests /\ Ready' = Ready
  BY <1>1, GraphStays DEF Ready
<1>3. TypeInv' /\ Sorted' /\ CyclesLeft'
  BY <1>1, <1>2, GraphStays DEF TypeInv, Sorted, CyclesLeft, manifests
<1>4. Ended'
  BY <1>1, <1>2 DEF Ended
<1> QED
  BY <1>3, <1>4

LEMMA StutterKeeps == IInv /\ UNCHANGED vars => IInv'
<1> SUFFICES ASSUME IInv, UNCHANGED vars PROVE IInv'
  OBVIOUS
<1>1. UNCHANGED manifests /\ Ready' = Ready /\ UNCHANGED <<left, layer, round, status>>
  BY GraphStays DEF vars, Ready
<1> QED
  BY <1>1, GraphStays DEF IInv, TypeInv, Sorted, CyclesLeft, Ended, manifests

\* The invariant, for every set of services.
THEOREM InvariantHolds == Spec => []IInv
<1>1. IInv /\ [Next]_vars => IInv'
  BY SortLayerKeeps, EndSortKeeps, StutterKeeps DEF Next
<1> QED
  BY InitHolds, <1>1, PTL DEF Spec

\* The order that get_shutdown_sequence returns has every service that a manifest
\* relates to another, after all that it waits for.
THEOREM OrderIsRespected == Spec => []OrderRespectsManifests
<1>1. IInv => OrderRespectsManifests
  <2> SUFFICES ASSUME IInv, status = "done", NEW s \in Services, NEW t \in Services,
                      Precedes(s, t)
               PROVE  0 < layer[s] /\ layer[s] < layer[t]
    BY DEF OrderRespectsManifests
  <2>1. s \in Items /\ t \in Items /\ s \in Earlier(t) \ {t}
    BY EdgesAreRelations DEF IInv
  <2>2. left = {}
    BY DEF IInv, Ended
  <2> QED
    BY <2>1, <2>2 DEF IInv, Sorted
<1> QED
  BY InvariantHolds, <1>1, PTL

\* CircularDependencyError is raised if and only if the manifests of the installed
\* services cannot be satisfied.
THEOREM CircularErrorIsExact == Spec => []CircularIffCyclic
<1>1. IInv => CircularIffCyclic
  <2> SUFFICES ASSUME IInv PROVE CircularIffCyclic
    OBVIOUS
  <2>1. ASSUME status = "done" PROVE ~Cyclic
    <3> SUFFICES ASSUME NEW cycle \in (SUBSET installed) \ {{}}, Waiting(cycle) PROVE FALSE
      BY DEF Cyclic, Waiting
    <3> QED
      BY <2>1 DEF IInv, CyclesLeft, Ended
  <2>2. ASSUME status = "circular" PROVE Cyclic
    <3>1. left # {} /\ Ready = {}
      BY <2>2 DEF IInv, Ended
    <3>2. left \in (SUBSET installed) \ {{}}
      BY <3>1 DEF IInv, TypeInv, Items
    <3>3. ASSUME NEW t \in left PROVE \E s \in left : Precedes(s, t)
      <4>1. PICK s \in Earlier(t) \ {t} : s \in left
        BY <3>1 DEF Ready
      <4>2. s \in Services /\ t \in Services /\ t \in installed
        BY <3>2, <4>1 DEF IInv, TypeInv
      <4> QED
        BY <4>1, <4>2, EdgesAreRelations DEF IInv
    <3> QED
      BY <3>2, <3>3 DEF Cyclic
  <2> QED
    BY <2>1, <2>2 DEF CircularIffCyclic
<1> QED
  BY InvariantHolds, <1>1, PTL
=============================================================================
