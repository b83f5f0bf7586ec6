--------------------------- MODULE PackageManager ---------------------------
(***************************************************************************)
(* sonic-package-manager: install, upgrade, uninstall, reset, migrate and   *)
(* the repository commands.                                                *)
(*                                                                         *)
(* A session is one process of the command line.  It reads packages.json    *)
(* when it starts, may then wait for its user to confirm, and takes the     *)
(* file lock only when the operation begins; it works on what it has read   *)
(* and writes the whole of it back.  An operation is a program of steps     *)
(* with side effects on the host; a step may fail, and the process may be   *)
(* killed between two steps.  Steps that succeed leave rollback callbacks   *)
(* on a stack (contextlib.ExitStack), which a later failure runs.          *)
(***************************************************************************)
EXTENDS PackageTree, Sequences

CONSTANTS
    Sessions,     \* processes of sonic-package-manager
    Requests,     \* what each session may be asked: a set of requests
    NotListed,    \* entry of a package that packages.json does not list
    Torn,         \* packages.json when it is not a JSON document
    NoFeature,    \* a row of table FEATURE that does not exist
    Nobody,       \* holder of the lock that nobody holds
    Commands,     \* sequence of the commands with plugins: show, config, clear
    NoCommand,
    BuiltIn,      \* packages that come with the image
    WithYang,     \* packages with a YANG module
    Mandatory,    \* packages whose command line may not be skipped
    Supported,    \* packages and versions whose base OS constraints are met
    PluginsOf,    \* commands for which a package and version has a plugin
    Shipped,      \* packages.json at the start
    MaxRequests, MaxFailures, MaxCrashes, MaxToggles     \* bounds

VersionOrNone == Versions \cup {NoVersion}

Entry == [version : VersionOrNone, default : VersionOrNone] \cup {NotListed}
Entries == [Packages -> Entry]

VersionIn(m, p) == IF m[p] = NotListed THEN NoVersion ELSE m[p].version
Installed(m) == {p \in Packages : VersionIn(m, p) # NoVersion}

Request ==
    [kind : {"install", "uninstall", "reset", "add", "remove", "migrate", "migrateOne"},
     pkg : Packages, version : VersionOrNone,
     from : {"database", "registry", "tarball"},
     force : BOOLEAN, enable : BOOLEAN, downgrade : BOOLEAN, skip : BOOLEAN,
     old : Seq(Packages \X (Entry \ {NotListed}))]

Feature == [state : {"enabled", "disabled"}, version : VersionOrNone] \cup {NoFeature}

\* A tarball or a reference in a registry has a version; migrateOne is a part of migrate.
ASSUME RequestsAssumption ==
    \A s \in Sessions : \A r \in Requests[s] :
        /\ r \in Request /\ r.kind # "migrateOne"
        /\ r.from # "database" => r.version # NoVersion

ASSUME PackagesAssumption ==
    /\ Packages # {} /\ BuiltIn \cup WithYang \cup Mandatory \subseteq Packages
    /\ Supported \subseteq Packages \X Versions
    /\ Shipped \in Entries /\ NotListed \notin [version : VersionOrNone,
                                                default : VersionOrNone]
    /\ Torn \notin Entries /\ Nobody \notin Sessions

Acts == {"pull", "rmi", "script", "yang", "register", "noscript", "noyang",
         "deregister", "fast", "warm", "plug", "unplug", "update", "probe", "stop",
         "start", "await", "popAll", "record", "truncate", "dump"}

Callbacks == {"uninstallImage", "removeService", "ordersBefore", "unplugNew",
              "plugOld", "startOld", "createOld", "removeNew", "updateBack",
              "stopNew"}

CommandNames == {Commands[i] : i \in DOMAIN Commands}

\* A manifest has plugins for some of the commands.
ASSUME CommandsAssumption ==
    /\ Commands \in Seq(CommandNames)
    /\ \A p \in Packages, v \in Versions : PluginsOf[<<p, v>>] \subseteq CommandNames
ASSUME FeaturesAssumption == NoFeature \notin [state : {"enabled", "disabled"}, version : VersionOrNone]

Step == [act : Acts, version : VersionOrNone, cmd : CommandNames \cup {NoCommand},
         undo : Callbacks \cup {"none"}]

VARIABLES
    file,      \* packages.json
    images,    \* images in the docker library
    script,    \* version whose image the service's scripts and units start
    yang,      \* version whose YANG module and configuration are installed
    feature,   \* row of table FEATURE
    plugins,   \* version of each host plugin
    order,     \* packages and versions behind the shutdown order files
    lock,      \* holder of the package manager's lock
    pc,
    mem,       \* the database each session has read and works on
    queue,     \* requests a session still has to serve
    job,       \* the package it works on, the versions before and after
    todo,      \* steps still to do
    undo,      \* callbacks, the last registered first
    asked,     \* feature state last asked for by the user, or "either"
    spoiled,   \* packages the code does not promise to repair
    budget     \* what is left of the bounds

host == <<images, script, yang, feature, plugins, order>>
session == <<pc, mem, queue, job, todo, undo>>
ghost == <<asked, spoiled>>
vars == <<file, host, lock, session, ghost, budget>>

NoJob == [pkg |-> CHOOSE p \in Packages : TRUE, old |-> NoVersion, new |-> NoVersion,
          from |-> "database", enable |-> FALSE, local |-> FALSE, skip |-> FALSE,
          running |-> FALSE, migrated |-> FALSE]

NoPlugins == [c \in CommandNames |-> NoVersion]

Init ==
    /\ file = Shipped
    /\ images = {<<p, Shipped[p].version>> : p \in Installed(Shipped)}
    /\ script = [p \in Packages |-> VersionIn(Shipped, p)]
    /\ yang = [p \in Packages |-> IF p \in WithYang THEN script[p] ELSE NoVersion]
    /\ feature = [p \in Packages |->
                     IF p \in Installed(Shipped)
                     THEN [state |-> "disabled", version |-> Shipped[p].version]
                     ELSE NoFeature]
    /\ plugins = [p \in Packages |-> NoPlugins]
    /\ order = [fast |-> script, warm |-> script]
    /\ lock = Nobody
    /\ pc = [s \in Sessions |-> "idle"]
    /\ mem = [s \in Sessions |-> Shipped]
    /\ queue = [s \in Sessions |-> <<>>]
    /\ job = [s \in Sessions |-> NoJob]
    /\ todo = [s \in Sessions |-> <<>>]
    /\ undo = [s \in Sessions |-> <<>>]
    /\ asked = [p \in Packages |-> "disabled"]
    /\ spoiled = {}
    /\ budget = [requests |-> MaxRequests, failures |-> MaxFailures,
                 crashes |-> MaxCrashes, toggles |-> MaxToggles]

----------------------------------------------------------------------------
(***************************************************************************)
(* The programs.                                                           *)
(***************************************************************************)
Do(act, v) == [act |-> act, version |-> v, cmd |-> NoCommand, undo |-> "none"]

\* A block that registers its callback when its last step has succeeded.
Block(steps, callback) ==
    [i \in DOMAIN steps |-> IF i = Len(steps) THEN [steps[i] EXCEPT !.undo = callback]
                            ELSE steps[i]]

\* _install_cli_plugins and _uninstall_cli_plugins.
Plugins(act, v) ==
    [i \in DOMAIN Commands |->
        [act |-> act, version |-> v, cmd |-> Commands[i], undo |-> "none"]]

\* ServiceCreator.create and remove; the FEATURE row only with register_feature
\* and deregister_feature.
Create(v, register) ==
    <<Do("script", v), Do("yang", v)>>
    \o (IF register THEN <<Do("register", v)>> ELSE <<>>)

Remove(v, deregister) ==
    <<Do("noscript", v), Do("noyang", v)>>
    \o (IF deregister THEN <<Do("deregister", v)>> ELSE <<>>)

\* generate_shutdown_sequence_files, with the package at version v.
Orders(v) == <<Do("fast", v), Do("warm", v)>>

\* Mutant of StartUp: it waits for the new state without having set it.
StartUpWaiting(v) == <<Do("await", v)>>

\* _stop_feature and _start_feature: set the state, then wait until it is reached.
Stop(v) == <<Do("stop", v), Do("await", v)>>
StartUp(v) == <<Do("start", v), Do("await", v)>>

Commit == <<Do("truncate", NoVersion), Do("dump", NoVersion)>>

\* migrate_packages commits once more after what install or upgrade has committed.
CommitAll(j) == Commit \o (IF j.migrated THEN Commit ELSE <<>>)

InstallProgram(j) ==
    Block(<<Do("pull", j.new)>>, "uninstallImage")
    \o Block(Create(j.new, TRUE), "removeService")
    \o Block(Orders(j.new), "ordersBefore")
    \o (IF j.skip THEN <<>> ELSE Block(Plugins("plug", j.new), "unplugNew"))
    \o <<Do("popAll", j.new), Do("record", j.new)>> \o CommitAll(j)

UninstallProgram(j) ==
    Stop(j.old)
    \o Plugins("unplug", j.old)
    \o Remove(j.old, TRUE)
    \o Orders(NoVersion)
    \o <<Do("rmi", j.old), Do("record", NoVersion)>> \o Commit

\* Up to the question whether the feature is enabled, and from there.
UpgradeProgram(j) ==
    Block(Plugins("unplug", j.old), "plugOld")
    \o Block(<<Do("pull", j.new)>>, "uninstallImage")
    \o <<Do("probe", j.old)>>

UpgradeRest(j) ==
    (IF j.running THEN Block(Stop(j.old), "startOld") ELSE <<>>)
    \o Block(Remove(j.old, FALSE), "createOld")
    \o Block(Create(j.new, FALSE), "removeNew")
    \o Block(Orders(j.new), "ordersBefore")
    \o Block(<<Do("update", j.new)>>, "updateBack")
    \o (IF j.running THEN Block(StartUp(j.new), "stopNew") ELSE <<>>)
    \o (IF j.skip THEN <<>> ELSE Block(Plugins("plug", j.new), "unplugNew"))
    \o <<Do("rmi", j.old), Do("popAll", j.new), Do("record", j.new)>> \o CommitAll(j)

\* The callbacks.  The one that upgrade registers for the new plugins calls
\* _uninstall_cli_plugin without its argument, raises and does nothing.
Callback(name, j) ==
    CASE name = "uninstallImage" -> <<Do("rmi", j.new)>>
      [] name = "removeService"  -> Remove(j.new, TRUE)
      [] name = "ordersBefore"   -> Orders(j.old)
      [] name = "unplugNew"      -> IF j.old = NoVersion
                                    THEN Plugins("unplug", j.new) ELSE <<>>
      [] name = "plugOld"        -> Plugins("plug", j.old)
      [] name = "startOld"       -> StartUp(j.old)
      [] name = "createOld"      -> Create(j.old, FALSE)
      [] name = "removeNew"      -> Remove(j.new, FALSE)
      [] name = "updateBack"     -> <<Do("update", j.old)>>
      [] name = "stopNew"        -> Stop(j.new)

\* When a step of create raises, create calls remove before it raises again.
Cleanup(step, j) ==
    IF step.act \in {"script", "yang", "register"}
    THEN Remove(step.version, j.old = NoVersion)
    ELSE <<>>

----------------------------------------------------------------------------
(***************************************************************************)
(* Sessions.                                                               *)
(***************************************************************************)
Locked == {"check", "work", "unwind"}

\* The process ends, with or without success, and drops the lock it holds.
End(s) ==
    /\ pc' = [pc EXCEPT ![s] = "idle"]
    /\ mem' = [mem EXCEPT ![s] = Shipped]
    /\ queue' = [queue EXCEPT ![s] = <<>>]
    /\ job' = [job EXCEPT ![s] = NoJob]
    /\ todo' = [todo EXCEPT ![s] = <<>>]
    /\ undo' = [undo EXCEPT ![s] = <<>>]
    /\ lock' = IF lock = s THEN Nobody ELSE lock

\* get_manager reads packages.json, and raises if it cannot be parsed.
Start(s) ==
    /\ pc[s] = "idle"
    /\ budget.requests > 0
    /\ file # Torn
    /\ \E r \in Requests[s] : queue' = [queue EXCEPT ![s] = <<r>>]
    /\ mem' = [mem EXCEPT ![s] = file]
    /\ pc' = [pc EXCEPT ![s] = "prompt"]
    /\ budget' = [budget EXCEPT !.requests = @ - 1]
    /\ UNCHANGED <<file, host, lock, job, todo, undo, ghost>>

\* Mutant of Enter: the lock is not looked at.
EnterUnlocked(s) ==
    /\ pc[s] = "prompt"
    /\ lock' = s
    /\ pc' = [pc EXCEPT ![s] = "check"]
    /\ UNCHANGED <<mem, queue, job, todo, undo>>
    /\ UNCHANGED <<file, host, ghost, budget>>

\* The user confirms; the lock's timeout is 0.
Enter(s) ==
    /\ pc[s] = "prompt"
    /\ IF lock # Nobody THEN End(s)
       ELSE /\ lock' = s
            /\ pc' = [pc EXCEPT ![s] = "check"]
            /\ UNCHANGED <<mem, queue, job, todo, undo>>
    /\ UNCHANGED <<file, host, ghost, budget>>

Refuse(s) == End(s) /\ UNCHANGED <<file, host, ghost, budget>>

\* All checks are passed and the operation begins.  A forced reinstall removes the
\* old image, which is also the new one.
Begin(s, m, j, program) ==
    /\ pc' = [pc EXCEPT ![s] = "work"]
    /\ mem' = [mem EXCEPT ![s] = m]
    /\ queue' = [queue EXCEPT ![s] = Tail(@)]
    /\ job' = [job EXCEPT ![s] = j]
    /\ todo' = [todo EXCEPT ![s] = program]
    /\ undo' = [undo EXCEPT ![s] = <<>>]
    /\ spoiled' = IF j.new # NoVersion /\ j.new = j.old THEN spoiled \cup {j.pkg} ELSE spoiled
    /\ UNCHANGED <<file, host, lock, asked, budget>>

Checking(s, kind) ==
    pc[s] = "check" /\ queue[s] # <<>> /\ Head(queue[s]).kind = kind

\* Manifests of installed packages are read from the labels of their images.
Readable(m) == \A p \in Installed(m) : <<p, m[p].version>> \in images

TreeOf(m) ==
    [p \in Installed(m) |-> [manifest |-> m[p].version, version |-> m[p].version]]

\* _get_installed_packages_and; the entry of the package is the database's.
TreeAnd(m, p, v) ==
    [q \in Installed(m) \cup {p} |->
        IF q = p THEN [manifest |-> v, version |-> VersionIn(m, p)] ELSE TreeOf(m)[q]]

TreeExcept(m, p) == [q \in Installed(m) \ {p} |-> TreeOf(m)[q]]

----------------------------------------------------------------------------
(***************************************************************************)
(* The checks that precede each operation.                                 *)
(***************************************************************************)
\* get_package_source: a request by name alone means the installed package,
\* whose source cannot install an image, or else the default reference.
Unresolved(m, r) ==
    /\ r.from = "database"
    /\ \/ m[r.pkg] = NotListed
       \/ r.version = NoVersion /\ m[r.pkg].version = NoVersion
                                /\ m[r.pkg].default = NoVersion

Local(m, r) ==
    r.from = "database" /\ r.version = NoVersion /\ VersionIn(m, r.pkg) # NoVersion

Wanted(m, r) ==
    IF r.version # NoVersion THEN r.version
    ELSE IF VersionIn(m, r.pkg) # NoVersion THEN VersionIn(m, r.pkg)
         ELSE m[r.pkg].default

JobOf(m, r) ==
    [pkg |-> r.pkg, old |-> VersionIn(m, r.pkg), new |-> Wanted(m, r),
     from |-> r.from, enable |-> r.enable, local |-> Local(m, r), skip |-> r.skip,
     running |-> FALSE, migrated |-> r.kind = "migrateOne"]

\* The checks that --force turns into warnings.
ManifestAccepted(m, r, v) ==
    /\ <<r.pkg, v>> \in Supported
    /\ TreeAccepted(TreeAnd(m, r.pkg, v))
    /\ ~(r.pkg \in Mandatory /\ r.skip)

InstallAccepted(m, r) ==
    /\ ~Unresolved(m, r)
    /\ ~r.downgrade
    /\ Readable(m)
    /\ r.force \/ ManifestAccepted(m, r, Wanted(m, r))

UpgradeAccepted(m, r) ==
    LET old == VersionIn(m, r.pkg)
        new == Wanted(m, r)
    IN  /\ ~Unresolved(m, r)
        /\ ~r.enable
        /\ Readable(m)
        /\ r.pkg \notin BuiltIn
        /\ r.force \/ /\ old # new
                      /\ new < old => r.downgrade
                      /\ ManifestAccepted(m, r, new)

\* install: install_from_source or upgrade_from_source.
CheckInstall(s) ==
    LET m == mem[s]
        r == Head(queue[s])
        j == JobOf(m, r)
    IN  /\ Checking(s, "install")
        /\ IF VersionIn(m, r.pkg) = NoVersion
           THEN IF InstallAccepted(m, r) THEN Begin(s, m, j, InstallProgram(j))
                ELSE Refuse(s)
           ELSE IF UpgradeAccepted(m, r) THEN Begin(s, m, j, UpgradeProgram(j))
                ELSE Refuse(s)

\* A package that is not installed has no image to read a manifest from, so
\* --force does not help there.
UninstallAccepted(m, r) ==
    /\ VersionIn(m, r.pkg) # NoVersion
    /\ Readable(m)
    /\ r.pkg \notin BuiltIn
    /\ r.force \/ /\ feature[r.pkg] = NoFeature \/ feature[r.pkg].state # "enabled"
                  /\ TreeAccepted(TreeExcept(m, r.pkg))

CheckUninstall(s) ==
    LET m == mem[s]
        r == Head(queue[s])
        j == [JobOf(m, r) EXCEPT !.new = NoVersion, !.local = FALSE]
    IN  /\ Checking(s, "uninstall")
        /\ IF UninstallAccepted(m, r) THEN Begin(s, m, j, UninstallProgram(j))
           ELSE Refuse(s)

\* reset: upgrade_from_source to the default reference, downgrade allowed.
CheckReset(s) ==
    LET m == mem[s]
        p == Head(queue[s]).pkg
        r == [Head(queue[s]) EXCEPT !.downgrade = TRUE, !.enable = FALSE,
                                    !.version = m[p].default]
    IN  /\ Checking(s, "reset")
        /\ IF /\ VersionIn(m, p) # NoVersion
              /\ m[p].default # NoVersion
              /\ UpgradeAccepted(m, r)
           THEN Begin(s, m, JobOf(m, r), UpgradeProgram(JobOf(m, r)))
           ELSE Refuse(s)

CheckAddRepository(s) ==
    LET r == Head(queue[s])
    IN  /\ Checking(s, "add")
        /\ IF mem[s][r.pkg] # NotListed THEN Refuse(s)
           ELSE Begin(s, [mem[s] EXCEPT ![r.pkg] =
                             [version |-> NoVersion, default |-> r.version]],
                      [NoJob EXCEPT !.pkg = r.pkg], Commit)

CheckRemoveRepository(s) ==
    LET p == Head(queue[s]).pkg
    IN  /\ Checking(s, "remove")
        /\ IF p \in BuiltIn \/ mem[s][p] = NotListed \/ VersionIn(mem[s], p) # NoVersion
           THEN Refuse(s)
           ELSE Begin(s, [mem[s] EXCEPT ![p] = NotListed], [NoJob EXCEPT !.pkg = p],
                      Commit)

----------------------------------------------------------------------------
(***************************************************************************)
(* Migration from the database of another image, r.old.                    *)
(***************************************************************************)
OldEntries(r) == {r.old[i] : i \in DOMAIN r.old}

\* _migrate_package_database.
Merged(m, r) ==
    [p \in Packages |->
        IF m[p] = NotListed /\ \E e \in OldEntries(r) : e[1] = p
        THEN [version |-> NoVersion,
              default |-> (CHOOSE e \in OldEntries(r) : e[1] = p)[2].default]
        ELSE m[p]]

\* The packages of the old database, in its order.
MigrationOf(r) ==
    [i \in DOMAIN r.old |->
        [r EXCEPT !.kind = "migrateOne", !.pkg = r.old[i][1],
                  !.version = r.old[i][2].version, !.old = <<>>]]

CheckMigrate(s) ==
    LET r == Head(queue[s])
    IN  /\ Checking(s, "migrate")
        /\ IF MigrationOf(r) = <<>> THEN Refuse(s)
           ELSE /\ mem' = [mem EXCEPT ![s] = Merged(@, r)]
                /\ queue' = [queue EXCEPT ![s] = MigrationOf(r)]
                /\ UNCHANGED <<file, host, lock, pc, job, todo, undo, ghost, budget>>

\* Mutant of Skipped: the versions are compared the other way round.
SkippedIfNewer(m, r) ==
    VersionIn(m, r.pkg) # NoVersion /\ m[r.pkg].version < r.version

\* Only what was installed and does not come with the image is migrated.
PassedOver(r) == r.version = NoVersion \/ r.pkg \in BuiltIn

\* What is installed is not older than what is migrated.
Skipped(m, r) ==
    VersionIn(m, r.pkg) # NoVersion /\ m[r.pkg].version >= r.version

\* What migrate_package or install is asked for: the old version, or the
\* default version if that is not older.
MigrateRequest(m, r) ==
    LET default == m[r.pkg].default
    IN  IF VersionIn(m, r.pkg) = NoVersion /\ default # NoVersion /\ default >= r.version
        THEN [r EXCEPT !.version = default, !.from = "database"]
        ELSE r

CheckMigrateOne(s) ==
    LET m == mem[s]
        r == MigrateRequest(m, Head(queue[s]))
        j == JobOf(m, r)
    IN  /\ Checking(s, "migrateOne")
        /\ IF PassedOver(Head(queue[s]))
           THEN Begin(s, m, [NoJob EXCEPT !.pkg = r.pkg], <<>>)
           ELSE IF Skipped(m, Head(queue[s]))
           THEN Begin(s, m, [NoJob EXCEPT !.pkg = r.pkg], Commit)
           ELSE IF VersionIn(m, r.pkg) = NoVersion
           THEN IF InstallAccepted(m, r) THEN Begin(s, m, j, InstallProgram(j)) ELSE Refuse(s)
           ELSE IF UpgradeAccepted(m, r) THEN Begin(s, m, j, UpgradeProgram(j)) ELSE Refuse(s)

----------------------------------------------------------------------------
(***************************************************************************)
(* Steps.                                                                  *)
(***************************************************************************)
AtStep(s, acts) ==
    pc[s] \in {"work", "unwind"} /\ todo[s] # <<>> /\ Head(todo[s]).act \in acts

Pkg(s) == job[s].pkg
Now(s) == Head(todo[s])

\* The step has succeeded; its callback is registered.
Advance(s) ==
    /\ todo' = [todo EXCEPT ![s] = Tail(@)]
    /\ undo' = IF Now(s).undo = "none" THEN undo
               ELSE [undo EXCEPT ![s] = <<Now(s).undo>> \o @]
    /\ UNCHANGED <<pc, mem, queue, job, lock, budget>>

\* docker pull or load, and rmi.
Pull(s) ==
    /\ AtStep(s, {"pull"})
    /\ ~job[s].local
    /\ images' = images \cup {<<Pkg(s), Now(s).version>>}
    /\ Advance(s)
    /\ UNCHANGED <<file, script, yang, feature, plugins, order, ghost>>

RemoveImage(s) ==
    /\ AtStep(s, {"rmi"})
    /\ images' = images \ {<<Pkg(s), Now(s).version>>}
    /\ Advance(s)
    /\ UNCHANGED <<file, script, yang, feature, plugins, order, ghost>>

\* generate_container_mgmt .. generate_service_reconciliation_file and the
\* removal of what they generate.
ChangeScripts(s) ==
    /\ AtStep(s, {"script", "noscript"})
    /\ script' = [script EXCEPT ![Pkg(s)] =
                     IF Now(s).act = "script" THEN Now(s).version ELSE NoVersion]
    /\ Advance(s)
    /\ UNCHANGED <<file, images, yang, feature, plugins, order, ghost>>

\* install_yang_module, which raises if the module is there, and
\* uninstall_yang_module.
InstallYang(s) ==
    /\ AtStep(s, {"yang"})
    /\ yang[Pkg(s)] = NoVersion
    /\ yang' = IF Pkg(s) \in WithYang
               THEN [yang EXCEPT ![Pkg(s)] = Now(s).version] ELSE yang
    /\ Advance(s)
    /\ UNCHANGED <<file, images, script, feature, plugins, order, ghost>>

UninstallYang(s) ==
    /\ AtStep(s, {"noyang"})
    /\ yang' = [yang EXCEPT ![Pkg(s)] = NoVersion]
    /\ Advance(s)
    /\ UNCHANGED <<file, images, script, feature, plugins, order, ghost>>

\* FeatureRegistry.register: what CONFIG_DB has overrides the requested state.
Register(s) ==
    LET p == Pkg(s)
        wanted == IF job[s].enable THEN "enabled" ELSE "disabled"
    IN  /\ AtStep(s, {"register"})
        /\ IF feature[p] = NoFeature
           THEN /\ feature' = [feature EXCEPT ![p] = [state |-> wanted,
                                                      version |-> Now(s).version]]
                /\ asked' = [asked EXCEPT ![p] = wanted]
           ELSE /\ feature' = [feature EXCEPT ![p].version = Now(s).version]
                /\ UNCHANGED asked
        /\ Advance(s)
        /\ UNCHANGED <<file, images, script, yang, plugins, order, spoiled>>

Deregister(s) ==
    /\ AtStep(s, {"deregister"})
    /\ feature' = [feature EXCEPT ![Pkg(s)] = NoFeature]
    /\ Advance(s)
    /\ UNCHANGED <<file, images, script, yang, plugins, order, ghost>>

\* FeatureRegistry.update: without a row there is no state to carry over.
UpdateFeature(s) ==
    LET p == Pkg(s)
    IN  /\ AtStep(s, {"update"})
        /\ feature' = [feature EXCEPT ![p] =
                          [state |-> IF @ = NoFeature THEN "disabled" ELSE @.state,
                           version |-> Now(s).version]]
        /\ Advance(s)
        /\ UNCHANGED <<file, images, script, yang, plugins, order, ghost>>

\* set_feature_state writes the state ...
SetFeatureState(s) ==
    LET p == Pkg(s)
    IN  /\ AtStep(s, {"stop", "start"})
        /\ feature[p] # NoFeature
        /\ feature' = [feature EXCEPT ![p].state =
                          IF Now(s).act = "start" THEN "enabled" ELSE "disabled"]
        /\ Advance(s)
        /\ UNCHANGED <<file, images, script, yang, plugins, order, ghost>>

\* ... and waits until featured reports it.
AwaitFeature(s) ==
    AtStep(s, {"await"}) /\ Advance(s) /\ UNCHANGED <<file, host, ghost>>

\* feature_enabled of upgrade_from_source: only then it is stopped and started.
ProbeFeature(s) ==
    LET enabled == feature[Pkg(s)] # NoFeature /\ feature[Pkg(s)].state = "enabled"
        j == [job[s] EXCEPT !.running = enabled]
    IN  /\ AtStep(s, {"probe"})
        /\ job' = [job EXCEPT ![s] = j]
        /\ todo' = [todo EXCEPT ![s] = UpgradeRest(j)]
        /\ UNCHANGED <<pc, mem, queue, undo, lock, budget, file, host, ghost>>

\* The manifest of this version has a plugin for the command.
HasPlugin(s) == Now(s).cmd \in PluginsOf[<<Pkg(s), Now(s).version>>]

\* _install_cli_plugin extracts the plugin from the image.
InstallPlugin(s) ==
    /\ AtStep(s, {"plug"})
    /\ HasPlugin(s) => <<Pkg(s), Now(s).version>> \in images
    /\ plugins' = IF HasPlugin(s)
                  THEN [plugins EXCEPT ![Pkg(s)][Now(s).cmd] = Now(s).version] ELSE plugins
    /\ Advance(s)
    /\ UNCHANGED <<file, images, script, yang, feature, order, ghost>>

UninstallPlugin(s) ==
    /\ AtStep(s, {"unplug"})
    /\ plugins' = IF HasPlugin(s)
                  THEN [plugins EXCEPT ![Pkg(s)][Now(s).cmd] = NoVersion] ELSE plugins
    /\ Advance(s)
    /\ UNCHANGED <<file, images, script, yang, feature, order, ghost>>

\* generate_shutdown_sequence_file over the installed packages and this one.
WriteOrder(s) ==
    /\ AtStep(s, {"fast", "warm"})
    /\ order' = [order EXCEPT ![Now(s).act] =
                    [p \in Packages |-> IF p = Pkg(s) THEN Now(s).version
                                        ELSE VersionIn(mem[s], p)]]
    /\ Advance(s)
    /\ UNCHANGED <<file, images, script, yang, feature, plugins, ghost>>

\* exits.pop_all().
ForgetCallbacks(s) ==
    /\ AtStep(s, {"popAll"})
    /\ undo' = [undo EXCEPT ![s] = <<>>]
    /\ todo' = [todo EXCEPT ![s] = Tail(@)]
    /\ UNCHANGED <<pc, mem, queue, job, lock, budget, file, host, ghost>>

\* update_package.  A source in a registry leaves its reference as the default.
Record(s) ==
    LET p == Pkg(s)
        default == IF mem[s][p] = NotListed THEN NoVersion ELSE mem[s][p].default
        pulled == job[s].new # NoVersion /\ job[s].from # "tarball"
    IN  /\ AtStep(s, {"record"})
        /\ mem' = [mem EXCEPT ![s][p] =
                      [version |-> Now(s).version,
                       default |-> IF default = NoVersion /\ pulled THEN job[s].new
                                   ELSE default]]
        /\ todo' = [todo EXCEPT ![s] = Tail(@)]
        /\ UNCHANGED <<pc, queue, job, undo, lock, budget, file, host, ghost>>

\* PackageDatabase.commit: open for writing, then json.dump.
OpenFile(s) ==
    AtStep(s, {"truncate"}) /\ file' = Torn /\ Advance(s) /\ UNCHANGED <<host, ghost>>

DumpFile(s) ==
    AtStep(s, {"dump"}) /\ file' = mem[s] /\ Advance(s) /\ UNCHANGED <<host, ghost>>

\* The request is served; a migration goes on with its next package.
Finish(s) ==
    /\ pc[s] = "work" /\ todo[s] = <<>>
    /\ IF queue[s] = <<>> THEN End(s)
       ELSE /\ pc' = [pc EXCEPT ![s] = "check"]
            /\ UNCHANGED <<mem, queue, job, todo, undo, lock>>
    /\ UNCHANGED <<file, host, ghost, budget>>

----------------------------------------------------------------------------
(***************************************************************************)
(* Failures.                                                               *)
(***************************************************************************)
\* The packages whose repair the code does not promise after this step fails:
\* rollback itself fails; uninstall and commit have none; and a block that
\* fails in its middle has not registered its callback yet.
SpoiledBy(s) ==
    IF \/ pc[s] = "unwind"
       \/ job[s].new = NoVersion
       \/ Now(s).act \in {"noscript", "noyang", "await", "truncate", "dump"}
    THEN {Pkg(s)} ELSE {}

\* A step raises.  Inside create it is cleaned up first; then the callbacks
\* run; what a callback raises is logged and ignored.
Raise(s) ==
    /\ todo' = [todo EXCEPT ![s] = Cleanup(Now(s), job[s])]
    /\ pc' = [pc EXCEPT ![s] = "unwind"]
    /\ UNCHANGED <<mem, queue, job, undo, lock, file, host, asked>>

StepFails(s) ==
    /\ AtStep(s, Acts \ {"popAll", "record"})
    /\ Now(s).act \in {"plug", "unplug"} => HasPlugin(s)
    /\ budget.failures > 0
    /\ budget' = [budget EXCEPT !.failures = @ - 1]
    /\ spoiled' = spoiled \cup SpoiledBy(s)
    /\ Raise(s)

\* A step that cannot succeed: LocalSource installs no image, the YANG module is
\* there already, the feature has no row, the image of a plugin is gone.
StepImpossible(s) ==
    /\ \/ AtStep(s, {"pull"}) /\ job[s].local
       \/ AtStep(s, {"yang"}) /\ yang[Pkg(s)] # NoVersion
       \/ AtStep(s, {"stop", "start"}) /\ feature[Pkg(s)] = NoFeature
       \/ AtStep(s, {"plug"}) /\ HasPlugin(s) /\ <<Pkg(s), Now(s).version>> \notin images
    /\ Raise(s)
    /\ UNCHANGED <<spoiled, budget>>

\* Mutant of NextCallback: the callbacks run in the order of registration.
NextCallbackInOrder(s) ==
    /\ pc[s] = "unwind" /\ todo[s] = <<>>
    /\ IF undo[s] = <<>> THEN End(s)
       ELSE /\ todo' = [todo EXCEPT ![s] = Callback(undo[s][Len(undo[s])], job[s])]
            /\ undo' = [undo EXCEPT ![s] = SubSeq(@, 1, Len(@) - 1)]
            /\ UNCHANGED <<pc, mem, queue, job, lock>>
    /\ UNCHANGED <<file, host, ghost, budget>>

\* Mutant of NextCallback: a callback stays on the stack.
NextCallbackAgain(s) ==
    /\ pc[s] = "unwind" /\ todo[s] = <<>>
    /\ IF undo[s] = <<>> THEN End(s)
       ELSE /\ todo' = [todo EXCEPT ![s] = Callback(Head(undo[s]), job[s])]
            /\ UNCHANGED <<pc, mem, queue, job, undo, lock>>
    /\ UNCHANGED <<file, host, ghost, budget>>

\* ExitStack calls the callbacks, the last registered first.
NextCallback(s) ==
    /\ pc[s] = "unwind" /\ todo[s] = <<>>
    /\ IF undo[s] = <<>> THEN End(s)
       ELSE /\ todo' = [todo EXCEPT ![s] = Callback(Head(undo[s]), job[s])]
            /\ undo' = [undo EXCEPT ![s] = Tail(@)]
            /\ UNCHANGED <<pc, mem, queue, job, lock>>
    /\ UNCHANGED <<file, host, ghost, budget>>

\* The process is killed; the operating system releases the lock.
Kill(s) ==
    /\ pc[s] \in Locked
    /\ budget.crashes > 0
    /\ budget' = [budget EXCEPT !.crashes = @ - 1]
    /\ spoiled' = IF pc[s] = "check" \/ (pc[s] = "work" /\ todo[s] = <<>>)
                  THEN spoiled ELSE spoiled \cup {Pkg(s)}
    /\ End(s)
    /\ UNCHANGED <<file, host, asked>>

\* An upgrade that has found the feature of the package enabled stops and starts it.
Upgrading(p) ==
    \E s \in Sessions : pc[s] \in {"work", "unwind"} /\ job[s].running /\ Pkg(s) = p

\* The user enables or disables a feature: "config feature state" takes no lock.
\* What is asked for while an upgrade stops and starts the feature, the upgrade may
\* override; nothing tells which of the two states the user is left with.
Toggle(p) ==
    /\ feature[p] # NoFeature
    /\ budget.toggles > 0
    /\ budget' = [budget EXCEPT !.toggles = @ - 1]
    /\ \E state \in {"enabled", "disabled"} \ {feature[p].state} :
          /\ feature' = [feature EXCEPT ![p].state = state]
          /\ asked' = [asked EXCEPT ![p] = IF Upgrading(p) THEN "either" ELSE state]
    /\ UNCHANGED <<file, images, script, yang, plugins, order, lock, session, spoiled>>

----------------------------------------------------------------------------
Check(s) ==
    \/ CheckInstall(s) \/ CheckUninstall(s) \/ CheckReset(s)
    \/ CheckAddRepository(s) \/ CheckRemoveRepository(s)
    \/ CheckMigrate(s) \/ CheckMigrateOne(s)

Perform(s) ==
    \/ Pull(s) \/ RemoveImage(s) \/ ChangeScripts(s)
    \/ InstallYang(s) \/ UninstallYang(s)
    \/ Register(s) \/ Deregister(s) \/ UpdateFeature(s)
    \/ SetFeatureState(s) \/ AwaitFeature(s) \/ ProbeFeature(s)
    \/ InstallPlugin(s) \/ UninstallPlugin(s) \/ WriteOrder(s)
    \/ ForgetCallbacks(s) \/ Record(s) \/ OpenFile(s) \/ DumpFile(s)
    \/ StepImpossible(s) \/ NextCallback(s) \/ Finish(s)

Next ==
    \/ \E s \in Sessions :
          Start(s) \/ Enter(s) \/ Check(s) \/ Perform(s) \/ StepFails(s) \/ Kill(s)
    \/ \E p \in Packages : Toggle(p)

Spec == Init /\ [][Next]_vars

\* A session that has the lock goes on, and featured answers; nobody has to
\* start an operation or to confirm it.
FairSpec == Spec /\ \A s \in Sessions : WF_vars(Check(s)) /\ WF_vars(Perform(s))
=============================================================================
