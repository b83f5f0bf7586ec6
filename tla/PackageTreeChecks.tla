------------------------- MODULE PackageTreeChecks -------------------------
(***************************************************************************)
(* validate_package_tree against what the manifests ask for.               *)
(***************************************************************************)
EXTENDS PackageTree

VARIABLES tree, verdict

TreeInit == tree \in Trees /\ verdict = "none"

\* The installation goes on only if validate_package_tree returns.
Validate ==
    /\ verdict = "none"
    /\ verdict' = IF TreeAccepted(tree) THEN "accepted" ELSE "refused"
    /\ UNCHANGED tree

TreeSpec == TreeInit /\ [][Validate]_<<tree, verdict>>

\* The database entry of the package is that of its manifest, or new.
EntryFits(t, p) == t[p].version \in {t[p].manifest, NoVersion}

\* A set of packages that is accepted, none of them in the middle of an upgrade,
\* has all dependencies and no conflict by its manifests: "Verify that all
\* dependencies are met in all packages passed to this function".
AcceptedIsCompatible ==
    verdict = "accepted" /\ (\A p \in DOMAIN tree : EntryFits(tree, p))
        => Compatible(Manifests(tree))
=============================================================================
