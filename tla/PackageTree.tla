----------------------------- MODULE PackageTree -----------------------------
(***************************************************************************)
(* The dependency check of sonic-package-manager, validate_package_tree,    *)
(* over the manifests of the packages, and what it is meant to establish.   *)
(*                                                                         *)
(* A tree gives each of its packages the version of the manifest at hand    *)
(* and the version in the package's database entry.  The two differ while a *)
(* package is being installed (its entry has none) or upgraded (its entry   *)
(* still has the old one), and the check reads the entry.                   *)
(***************************************************************************)
EXTENDS Naturals, FiniteSets

CONSTANTS
    Packages,          \* names of packages
    Versions,          \* versions of packages, numbers in their order
    NoVersion,         \* "installed-version" of a package that is not installed
    Components,        \* names of components (libraries) inside packages
    ComponentVersions, \* their versions <<major, minor, patch>>
    DependsOn,         \* "depends" of each package and version
    Breaks,            \* "breaks" of each package and version
    ComponentsOf       \* the components in the image of each package and version

Partial(S, T) == UNION {[D -> T] : D \in SUBSET S}

Constraint == [on : Packages, versions : SUBSET Versions,
               components : Partial(Components, SUBSET ComponentVersions)]

ASSUME VersionsAssumption ==
    /\ Versions \subseteq Nat /\ NoVersion \notin Versions
    /\ ComponentVersions \subseteq Nat \X Nat \X Nat

ASSUME ManifestsAssumption ==
    /\ DependsOn \in [Packages \X Versions -> SUBSET Constraint]
    /\ Breaks \in [Packages \X Versions -> SUBSET Constraint]
    /\ ComponentsOf \in [Packages \X Versions -> Partial(Components, ComponentVersions)]

Package == [manifest : Versions, version : Versions \cup {NoVersion}]
Trees == Partial(Packages, Package)

ManifestOf(tree, p) == <<p, tree[p].manifest>>

\* What a SemVer caret range ^major.minor.0 admits.
Caret(v) ==
    {w \in ComponentVersions :
        /\ w[1] = v[1]
        /\ IF v[1] > 0 THEN w[2] >= v[2]
           ELSE w[2] = v[2] /\ (v[2] = 0 => w[3] = 0)}

\* The components a dependency asks for: the manifest's, or implicitly versions
\* compatible with those the dependent package was built with.
AskedComponents(m, d) ==
    IF DOMAIN d.components # {} THEN d.components
    ELSE [c \in DOMAIN ComponentsOf[m] |-> Caret(ComponentsOf[m][c])]

\* Mutant of ComponentsFail: only components that both packages have are compared.
ComponentsFailIfPresent(asked, have) ==
    \E c \in DOMAIN asked \cap DOMAIN have : have[c] \notin asked[c]

ComponentsFail(asked, have) ==
    \E c \in DOMAIN asked : c \notin DOMAIN have \/ have[c] \notin asked[c]

\* An entry without version makes VersionConstraint.allows raise.
DependencyFails(tree, p, d) ==
    \/ d.on \notin DOMAIN tree
    \/ tree[d.on].version \notin d.versions
    \/ ComponentsFail(AskedComponents(ManifestOf(tree, p), d),
                      ComponentsOf[ManifestOf(tree, d.on)])

\* The loop over components takes them from the other package instead of the
\* constraint, and calls allows on a version, which has no such method: it
\* raises for every component.
ConflictFails(tree, b) ==
    /\ b.on \in DOMAIN tree
    /\ \/ tree[b.on].version \in b.versions \cup {NoVersion}
       \/ DOMAIN ComponentsOf[ManifestOf(tree, b.on)] # {}

\* validate_package_tree returns instead of raising.
TreeAccepted(tree) ==
    \A p \in DOMAIN tree :
        /\ \A d \in DependsOn[ManifestOf(tree, p)] : ~DependencyFails(tree, p, d)
        /\ \A b \in Breaks[ManifestOf(tree, p)] : ~ConflictFails(tree, b)

(***************************************************************************)
(* What the manifests ask of the packages as they are: versions says which  *)
(* version of each package is there.                                       *)
(***************************************************************************)
DependencyMet(versions, p, d) ==
    /\ d.on \in DOMAIN versions
    /\ versions[d.on] \in d.versions
    /\ LET asked == AskedComponents(<<p, versions[p]>>, d)
           have == ComponentsOf[<<d.on, versions[d.on]>>]
       IN  \A c \in DOMAIN asked : c \in DOMAIN have /\ have[c] \in asked[c]

Conflict(versions, b) ==
    /\ b.on \in DOMAIN versions
    /\ \/ versions[b.on] \in b.versions
       \/ LET have == ComponentsOf[<<b.on, versions[b.on]>>]
          IN  \E c \in DOMAIN b.components \cap DOMAIN have : have[c] \in b.components[c]

Compatible(versions) ==
    \A p \in DOMAIN versions :
        /\ \A d \in DependsOn[<<p, versions[p]>>] : DependencyMet(versions, p, d)
        /\ \A b \in Breaks[<<p, versions[p]>>] : ~Conflict(versions, b)

Manifests(tree) == [p \in DOMAIN tree |-> tree[p].manifest]
=============================================================================
