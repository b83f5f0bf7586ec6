---------------------- MODULE PackageManagerProperties ----------------------
(***************************************************************************)
(* What sonic-package-manager promises about the host and its database.    *)
(***************************************************************************)
EXTENDS PackageManager

VersionsOf(m) == [p \in Installed(m) |-> m[p].version]

\* When no operation runs, what an operation leaves behind agrees with
\* packages.json, also after a failed operation has been rolled back: scripts,
\* YANG module and FEATURE row have the recorded version, and its image is there
\* (the ExitStack of install_from_source and upgrade_from_source).
Consistent ==
    lock = Nobody /\ file # Torn =>
        \A p \in Packages \ spoiled :
            LET v == VersionIn(file, p)
            IN  /\ script[p] = v
                /\ p \in WithYang => yang[p] = v
                /\ IF v = NoVersion THEN feature[p] = NoFeature
                   ELSE <<p, v>> \in images /\ feature[p] # NoFeature
                                            /\ feature[p].version = v

\* When no operation runs, an installed feature is enabled if and only if the
\* user wanted it, whether or not its package has been upgraded, or the upgrade
\* has failed ("If old feature was enabled, the user should have the new feature
\* enabled as well"), and also if the user asked for it in the middle of an
\* operation; except that an upgrade that has found the feature enabled, and stops
\* and starts it, may override what is asked for meanwhile.
FeatureAsAsked ==
    lock = Nobody /\ file # Torn =>
        \A p \in Installed(file) \ spoiled :
            feature[p] # NoFeature /\ asked[p] \in {feature[p].state, "either"}

\* The packages that packages.json calls installed have what their manifests
\* depend on and nothing they break (validate_package_tree before each install
\* and uninstall).
DependenciesMet == file # Torn => Compatible(VersionsOf(file))

Committed(s) ==
    /\ pc[s] = "work" /\ todo[s] # <<>> /\ Now(s).act = "dump"
    /\ todo'[s] = Tail(todo[s]) /\ pc'[s] = "work"

\* When an install or upgrade is recorded, all of it is there: the image, the
\* scripts, the YANG module, the FEATURE row and the plugins of that version, and
\* both shutdown orders are those of the recorded packages, whatever other
\* sessions, failures and kills have left behind.  (Only a forced reinstall of
\* the same version ends by removing its own image.)
SuccessIsComplete ==
    [][\A s \in Sessions :
          LET p == Pkg(s)
              v == job[s].new
          IN  Committed(s) /\ v \notin {NoVersion, job[s].old} =>
                 /\ file'[p].version = v
                 /\ <<p, v>> \in images /\ script[p] = v
                 /\ p \in WithYang => yang[p] = v
                 /\ feature[p] # NoFeature /\ feature[p].version = v
                 /\ ~job[s].skip => \A c \in PluginsOf[<<p, v>>] : plugins[p][c] = v
                 /\ \A o \in {"fast", "warm"} :
                       order[o] = [q \in Packages |-> VersionIn(file', q)]]_vars

\* A finished migration leaves packages that fit together, none of them older than
\* it was in the old image (migrate_packages: upgrade if older, install what is
\* missing, else skip), whatever another session has installed meanwhile.
MigrationFits ==
    [][\A s \in Sessions : \A r \in Requests[s] :
          /\ Requests[s] = {r} /\ r.kind = "migrate"
          /\ pc[s] = "work" /\ todo[s] = <<>> /\ queue[s] = <<>> /\ pc'[s] = "idle"
          => /\ file # Torn /\ Compatible(VersionsOf(file))
             /\ \A e \in OldEntries(r) :
                   e[2].version # NoVersion /\ e[1] \notin BuiltIn =>
                      /\ VersionIn(file, e[1]) # NoVersion
                      /\ VersionIn(file, e[1]) >= e[2].version]_vars

\* The lock is given back: every operation ends, in success, rollback or death,
\* provided featured reports the states that it waits for.
LockReleased == \A s \in Sessions : lock = s ~> lock # s
=============================================================================
