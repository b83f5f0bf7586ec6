# A verification project for sonic-utilities

sonic-utilities is the set of command-line programs of the SONiC switch operating
system.  Most of its commands read or write a few rows of a database.  Some of its
parts carry logic of their own: they run for minutes, touch shared state step by
step, can fail or be killed in between, and are meant to leave the switch in one of a
few good states.  This project models those parts in TLA+, checks them with TLC and
proves what it can with TLAPS.

Contents: 1 inventory, 2 plan, 3 configuration updater and its sorter, 4 package
manager, 5 config commands, 6 mux cables, 7 the device from image to image,
8 mutants, 9 what is proved and what is only model-checked, 10 what is not modelled.

## 1. Inventory

| component | state it keeps | operations | interacts with | what is hard | model |
|---|---|---|---|---|---|
| generic_config_updater | CONFIG_DB, checkpoint files | apply-patch, replace, rollback, checkpoint, delete-checkpoint | Redis, services restarted by validate commands, daemons that own back-end tables | every read and every `set_entry` is a separate step; `ConfigLock` is not implemented; kills; the same configuration is read again in every phase | section 3 |
| its patch sorter | none (a search) | split a patch in moves that keep YANG valid | used by the updater | depth-first, breadth-first and memoized search over generated moves, parts set aside and put back | section 3 |
| sonic_package_manager | packages.json, Docker images, service files, FEATURE rows, CLI plugins, shutdown order files | install, upgrade, uninstall, reset, migrate, repository add/remove | Docker, registry, systemd, CONFIG_DB | file lock taken after the database is read; a dozen steps that can fail, with a rollback stack; kills | section 4 |
| config, command by command | CONFIG_DB | 200 commands over interfaces, VLANs, port channels, VRFs, tunnels, buffers, QoS, ACLs, NAT, services, policies | interface manager, feature daemon | each command checks rows that other commands write; the checks together must keep the rows fitting | section 5 |
| config and show muxcable | four kinds of tables of requests and answers in STATE_DB and APPL_DB | ask a daemon and wait for its answer | transceiver daemon, other sessions | answers carry no request id; timeouts; late answers; kills; a daemon that restarts | section 6 |
| sonic_installer | boot loader environment, image directories, Docker images of the running system | install, remove, set-default, set-next-boot, cleanup, upgrade-docker, rollback-docker | GRUB, U-Boot, Aboot; applications that prepare for a warm restart | power cuts between writes; three formats of the same state; commands that exit in the middle | section 7 |
| reboots | flags in STATE_DB, loaded kernel, database dump, services | fast, warm, soft and cold reboot | every container, the finalizer after boot | twenty steps in an order, and what an error at each of them must take back | section 7 |
| db_migrator | CONFIG_DB, APPL_DB, STATE_DB | one function for every version | runs when the database starts, and in reload | a stop in the middle of the chain, and a second run over what was written | section 7 |
| config save, load, reload, load_minigraph | CONFIG_DB of every namespace, its mark, the saved files | export, import, flush and regenerate the whole configuration | sonic-cfggen, db_migrator, systemd | flush before import; truncate before write; a failure or kill at any step | section 7 |
| dynamic port breakout | CONFIG_DB and ASIC_DB | delete and add ports | sonic-yang-mgmt, orchagent | both changes are planned on a copy; deletion confirmed by polling with a timeout | section 5, in part |
| auto-techsupport | core dumps, techsupport dumps, STATE_DB records | coredump handler, memory handler, cleanup | systemd, generate_dump | concurrent handlers, rate limits read before and written after the dump | no |
| route_check, vnet_route_check | none | compare APPL_DB and ASIC_DB | notifications that arrive meanwhile | false alarms, missed routes | no |
| consutil | CONSOLE_PORT rows, picocom processes | connect, clear | users on the same line | a process listing as the lock | no |
| fwutil, neighbor_advertiser | task files, mirror sessions | update lists over a reboot, failover | vendor plugins, ferret servers | order of steps | no |
| show, clear, dump, counters, platform utilities | little or none | display | Redis, platform API | wording | no |

`PROJECT.json` lists every component, the ones without a model too, with the reason.

### What makes each component correct

* **Updater**: at every instant, and so after a kill, CONFIG_DB has no dangling
  references; a request that reports success has produced its target; a checkpoint
  that can be read is a configuration that can be rolled back to; services are told
  of what was written; rows the request does not concern stay as they are; every
  request ends.
* **Sorter**: a plan leads from the current configuration to the target by valid
  configurations, changes port-critical rows only while the port is down, and keeps
  create-only fields; "no possible sorting" is said only when there is none.
* **Package manager**: the database says what is on the switch; dependencies between
  installed packages hold; a failed operation leaves what was there before it; an
  upgrade keeps the feature state the user asked for; services shut down in the order
  that all manifests agree to; two processes never lose each other's work.
* **Config commands**: whatever sequence of commands is given, no port has two uses that
  exclude each other, rows refer to rows that are there, and the rows of one feature
  agree with each other.
* **Mux cables**: a command reports the answer to its own request, never one that was
  there before, and it ends.
* **Device**: there is always an image to boot, and the one that was asked for boots; a
  failed reboot or upgrade takes back what it did; a database is migrated to the same
  result however often the migration is interrupted; no single failure loses both the
  configuration and its file.

## 2. Plan

| | modules | status |
|---|---|---|
| 1 | `ConfigJson`, `ConfigUpdater`, `ConfigMoves` and their proofs | done |
| 2 | `PackageTree`, `ShutdownOrder`, `PackageManager` and proofs of the first two | done |
| 3 | `PatchMoves`, `PatchGenerators`, `PatchSorter` and proofs | done |
| 4 | `ConfigDb`, `ConfigInterfaces`, `ConfigBuffers`, `ConfigServices`, `ConfigTraffic`, `ConfigPolicies`, `PortBreakout`, composed by `ConfigCommands` | done |
| 5 | `MuxCommands`, `MuxSessions` and proofs | done |
| 6 | `ImageManager`, `BootChoice`, `Reboots`, `DockerUpgrades`, `MellanoxBuffers`, `DbMigrator`, `ConfigReload`, composed by `DeviceUpgrade`, and proofs about reboots, docker upgrades and reloads | done |
| 7 | techsupport handlers (rate limits read before and written after a dump), console lines, route_check, fwutil, neighbor_advertiser | left |
| 8 | proofs about `PackageManager` (`SuccessIsComplete`, `Consistent`, `FeatureAsAsked`), `ConfigReload` (`ReloadIsWhole`), `ConfigCommands` (`RolesApart`, `ReferencesResolve`, `BuffersFit`, `ServicesFit`, `PoliciesFit`, `TrafficFit`, `NeverMoves`) | done; `MigrationFits` left |

Parameters are CONSTANTS with named assumptions; invariants are conjunctions of named
parts; the modules that theorems are about have no recursive operators.

## 3. The generic configuration updater

| module | what it is |
|---|---|
| `ConfigJson` | documents, JSON patch operations, patches, the validity conditions, what the sorter promises |
| `ConfigUpdater` | the state machine: a session is one process of the CLI |
| `ConfigUpdaterProperties` | the properties, and the inductive invariants behind the theorems |
| `ConfigMoves` | abstract specification: the configuration changes by one valid move at a time |
| `MCConfigUpdater` | instances for TLC |
| `ConfigUpdater_proofs` | theorems: type correctness, one writer, and steps (foreign rows, refinement, services) |
| `PatchMoves`, `PatchGenerators` | moves, extenders, validators and generators of `patch_sorter.py` |
| `PatchSorter` | the three searches and the strict and non-strict sorters around them |
| `PatchSorterProperties`, `MCPatchSorter` | what an answer means; requests for TLC |
| `PatchSorter_proofs` | theorems about the searches, and about the moves of an answer |

**Documents.**  A document maps every *node* to its content.  Nodes are rows
`<<table, key>>` and fields `<<table, key, field>>`.  A table exists while one of its
rows does, as in Redis.  YANG is reduced to leafrefs (`Refs`): enough for the order of
moves to matter.  Back-end tables (`Backend`) are written by daemons at any time.

**Sessions.**  `pc[s]` says which statement a session is at; the locals of the Python
functions are the variables `patch`, `goal`, `target`, `plan`, `run`, `upd`.  Each
action is the code from one access to shared state to the next:
`Simulate` (PatchApplier.apply up to the first read), `ValidateTarget`
(StrictPatchSorter.sort), `SortPatch` (PatchSorter.sort, which reads again), for each
change `ComputeUpdate`, one `SetEntry` for every row, one `ValidateService` for every
command and `FinishChange` (the read back, whose result the caller ignores),
`VerifyPatched`; `GeneratePatch` and `VerifyReplaced` for replace;
`FindCheckpoint`, `LoadCheckpoint` for rollback; `ReadForCheckpoint`,
`OpenCheckpoint` (truncates), `SaveCheckpoint` for checkpoint; `FindForDelete` and
`RemoveCheckpoint`.  `ConfigLock.acquire_lock` is `pass`, so there is no lock to model.
`Crash` kills a process between two steps; `DaemonWrite` writes a back-end row.

**The sorter in the updater.**  `SortPatch` may return any plan in `Candidates` that
satisfies `IsPlan`: valid moves from the current configuration to the target.  For TLC,
`MCCandidates` computes all plans of at most `MaxSteps` steps whose operations set a path
to what the target has there or remove it.

**The sorter itself.**  In `PatchSorter` a configuration is a set of nodes, paths whose
last component is the value, so that lists and items of lists have their own moves.
`DfsSorter` and `MemoizationSorter` call themselves: a behaviour is a stack of calls
(`Visit`, `Descend`, `Exhaust`, `PassOn`, `Improve`, `GoOn`, `Return`); `BfsSorter` keeps
a queue (`Dequeue`, `Expand`).  `Generate` is a parameter, instantiated for TLC by
`MoveWrapperGenerate`: the low-level generators in their order and the extenders
(upper-level, delete instead of replace, delete references, bring a port down, ...).  The
validators decide what is tried (`ValidMove`).  The non-strict sorter sets tables without a YANG model and
`--ignore-path` aside (`Split`), changes those first in one go, and sorts the rest.
`UpdaterPlan` connects the two models: an answer of the search, read as steps of
`ConfigJson`, satisfies the `IsPlan` that the updater assumes.

### Runs

| run | question | answer |
|---|---|---|
| `updater_writer` | one session applies patches, replaces and rolls back; another keeps a checkpoint; a daemon writes; one process is killed. Are references intact at every write, do the comparisons agree, can every checkpoint be rolled back to, does CONFIG_DB go from one intact document to the next (`ImplementsMoves`), and, until a process is killed, are services told of every write? (1.6 million states) | yes |
| `updater_writers` | two sessions that both apply patches and replace, without a lock, with a restricted field and a kill: is what one writes kept by the other in rows that its change leaves alone (`ForeignRowsKept`), does every request end? (66,302 states) | yes |
| `patch_sorter` | for a port with a critical buffer row, create-only lanes, an ACL table that lists ports, another port and a table without model, for every pair of a valid configuration and two targets: `PlanIsSound`, `MovesAreSafe`, `CreateOnlyStays`, `ImpossibleIsUnreachable`, `BfsIsShortest`, `PartsMakeTheWhole`, `UpdaterPlan`, and is every request answered? (10,626 states) | yes |

Bounds: one VLAN with a field, one member that refers to it, one row of a back-end
table, plans of at most two changes; three requests, one kill and one daemon write in
`updater_writer`, two requests, one of each writer or both of one, and one kill in `updater_writers`
(a daemon beside two writers makes that run too long; the theorem has daemons).  Two changes and two rows per
change are what the orders between them need: a third row brings no new kind of
interleaving.  In `patch_sorter` every validator, extender and generator has a row it is
about; two orders of keys stand for the order in which dictionaries are walked; breadth
first and memoized search start from three configurations.

Fairness: `WF_vars(Proceed(s))` says that a process that has started is scheduled; it
never waits for another one, so no stronger fairness is used, and none is assumed of
new requests, daemons or kills.  `FairSpec` of the sorter is one weak fairness condition:
a search that can go on does.

### Theorems

For all documents, references, services, requests, plans and numbers of sessions:

| theorem | assumption | what it says |
|---|---|---|
| `TypeCorrect` | none | `TypeOK` |
| `ReferencesStayIntact`, `CheckpointsStayIntact`, `ComparisonsHold` | `SingleWriter` | `ReferencesIntact`, `CheckpointsIntact`, `ComparisonsAgree`, with kills and daemons |
| `ForeignRowsStay` | none | `ForeignRowsKept`, for any number of writers and daemons |
| `UpdaterImplementsMoves` | `SingleWriter` | `ImplementsMoves`, with kills and daemons |
| `ServicesAreTold` | `SingleWriter` | `ServicesFollow`, which ends with the first kill |
| `PlansLead`, `AnswersAreSound` | *Generators* | an answered plan leads from the start to the target by valid configurations, whatever moves are generated, in whatever order, for the three searches (`PlanIsSound`) |
| `AnswersKeepCreateOnly` | *Generators* | `CreateOnlyStays` |
| `SearchIsClosed`, `ImpossibleIsTrue` | *Generators*, *None* | a search that fails has visited all that valid moves reach (`ImpossibleIsUnreachable`) |
| `BfsPlansAreShortest` | *Generators*, *None* | `BfsIsShortest` |
| `AnswersMoveSafely` | *Generators*, *Sensible*, `RefsAssumption`, `RequestsAssumption` | `MovesAreSafe` |

`SingleWriter` says that requests that write CONFIG_DB come from one session at most,
which is what `ConfigLock` would establish if it did anything.  *Generators*: `Generate` returns
sequences, as the generators of moves do.  *None*: the value for no answer is not a sequence.
*Sensible* (`GeneratesSensibly`): a move that is generated on a well-formed and valid configuration acts on a path that is
there, or adds one that is not, its value is a subtree, and it brings what the target has there, the admin status of
ports and lists that get their first item apart.  The generators of `PatchGenerators` are recursive, so this is not proved
of them; TLC checks it (`GeneratorsAreSensible`) on every configuration from which the run of the sorter starts or
which it aims at.  `RefsAssumption`: leafrefs of keys lead from rows to rows, port-critical rows are none of the ports, admin_status is
no list.  `RequestsAssumption`: what is sorted is well formed (a field is there with its row, has one value, and a list its items
one after the other), and where it starts is valid.

*References.*  `ReferencesIntact` is not inductive: in the middle of a change CONFIG_DB is
neither the old nor the new configuration.  `ChangeStands` says what it is then: a
*mixture* of the two, by rows (`Mixed`), of two configurations that are intact and never
add or delete both ends of a reference (`Apart`, from the sorter's
`NoDependencyMoveValidator`).  Lemma `MixtureIntact` shows that every such mixture is
intact, whatever rows have been written.  This is the argument for which the validator
exists; without it the order of `set_entry` calls in a change would matter.

*Comparisons.*  A writer reads CONFIG_DB five times and more and relies on the reads being
equal.  `TargetStands`, `PlanStands` and `VerifyStands` carry what was read before over to
what is read later, up to back-end tables, in which nothing a patch reads or writes
outside of them shows (`ApplyOpFront`, `ApplyPatchFront`).

*Refinement.*  A change counts as made when its last row is written (`Committed`): the
set_entry calls before that are stutters and the last one is the move.  A kill in the middle
of a change is a move too: what it leaves is a mixture of the two configurations, which is
intact for the same reason, and in which no two ends of a reference came or went together
(`PartIsMove`).  A move is not said to be one JSON operation: an operation on the root may
change anything, so that would say nothing.

*Other writers.*  `UpdateComputed` says, for each session in the middle of a change, that what it
is about to write is what its operation makes of what it has read.  `ForeignRowsKept` compares
CONFIG_DB before and after each step: it changes by a daemon, in a back-end row, or by a session,
in a row in which that operation differs from what was read.

*Services.*  `ServicesInv` says where a service that has not heard of a write can be: in the
list of the change that is being made, which also holds the services of what this change
has still to write.  A change is not over before its list is empty, or a validate command
has failed; so between changes nothing is stale.  A kill leaves a list that nobody
finishes, so the statement is made until then.

*Searches.*  `PlanInv` says that every plan the sorter holds - in a call on the stack, in
the memory, in the queue, on its way back - leads from where it is held to the target.
`SearchInv` says that what a visited configuration leads to has been visited, is pending
in a call or the queue, or the search has succeeded: at the end nothing is pending.

*Breadth first.*  `BfsIsShortest` needs more: plans in the queue grow, by one move at most
(`QueueOrdered`), and whatever a visited configuration leads to has been visited too, or is
queued with a plan at most one move longer than the shortest way to that configuration
(`Layered`).  So when the head of the queue has a plan of `n` moves, all that fewer moves
lead to has been visited (`LayerIsVisited`); the target has not.

*Safe moves.*  `MovesAreSafe` is about what a move does, `ValidMove` about what the validators see of it: the
paths of references that change, and ports by the *status that the target will have*.  Between them stand three
facts.  An answered plan has been tried (`Tried`): each of its moves was generated where it is made and accepted by
the validators.  Every configuration on the way is well formed and valid (`PlansStayWellFormed`), since a sensible move keeps the form
(`ItemKeepsForm`, `SubtreeKeepsForm`).  And a reference that is there on one side of such a move only has its row and its
referrer on that side: `RemovedApart` and `ReplacedApart` show that the validator of dependencies, which compares
paths, has then seen both.

The lemmas about `Along` on plans that grow at either end rest on an induction over a *set*
of naturals (`SetInduction`), derived from well-foundedness.

### Known behaviour without a property

* With two writers and no lock, only `ForeignRowsKept` and `EveryRequestEnds` hold: plans validated
  on one document run on another, and a row that both change holds what the last one computed.
* Restricted rows go with the table above them, whose path is not the restricted one
  (`gu_common.py`, line 162).
* What `ChangeApplier.apply` returns is ignored: a failed service command ends in a
  successful patch (`generic_updater.py`, line 79).
* A rollback compares back-end tables too, which daemons write, and may report a failure
  after it has done all it should.
* With `--ignore-path` and nothing left to sort, the empty part is taken for a missing
  argument and the whole configuration is read again (`patch_sorter.py`, line 1926).

### Not modelled here

The SonicYang format, dry runs, the wording of logs; services_validator's commands (a
command succeeds or fails).  In the updater the patch sorter is a relation; which moves it
generates and in which order is the sorter's own model.

## 4. The package manager

| module | what it is |
|---|---|
| `PackageTree` | manifests, `validate_package_tree` as written, and what it is meant to establish (`Compatible`) |
| `PackageTreeChecks`, `MCPackageTree` | the check over all trees of a few packages, and the sort over all manifests of a few services |
| `PackageTree_proofs` | soundness of the check, and correctness of the sort of `ShutdownOrder` |
| `ShutdownOrder` | the graph of `get_shutdown_sequence` and its topological sort |
| `PackageManager` | the state machine: a session is one process of `sonic-package-manager` |
| `PackageManagerProperties` | its properties |
| `PackageManager_proofs` | what the program of a session says about the host: that successes are complete and that failures are taken back |
| `MCPackageManager` | instances for TLC |

**State.**  `file` is packages.json, `Torn` between `open("w")` and `json.dump`.  What
operations change on the host is one variable each: `images`, `script` (everything
`ServiceCreator` generates for a service), `yang`, `feature` (row of FEATURE), `plugins`,
`order` (what the two shutdown order files were computed from).  Each says which
*version* of the package it belongs to, which is all the properties need.

**Sessions.**  `Start` is `PackageManager.get_manager`: it reads packages.json into
`mem[s]`.  The user may be asked to confirm, and only `Enter` takes the file lock, with
timeout 0.  `Check...` are the checks of the operation, all before the first side effect.
Then `todo[s]` holds the operation as a sequence of steps (`InstallProgram`,
`UninstallProgram`, `UpgradeProgram`, `Commit`), which `Perform` executes one at a time.  An
upgrade has two programs: what follows the question whether the feature is enabled
(`UpgradeRest`) depends on the answer, which `job[s].running` keeps.  The plugins are one step for
each command of `SONIC_CLI_COMMANDS`, which does nothing if the manifest has no plugin for it.
A step may carry a callback, pushed on `undo[s]` when it succeeds, as
`exits.callback(...)` does; `popAll` is `exits.pop_all()`.  A migration is a queue of
operations under one lock, one for each package of the old database; those that were not
installed, or come with the image, are passed over (`PassedOver`).

**Failures.**  `StepFails` makes a step raise, within the budget `MaxFailures`;
`StepImpossible` is a step that raises by the state it finds.  Either enters `unwind`:
first what `ServiceCreator.create` cleans up itself, then the callbacks, the last
registered first, whose own failures are logged and ignored.  `Kill` ends a process
without rollback; the operating system drops its lock.  `Toggle` is the user's
`config feature state`, which takes no lock and may come between any two steps of an operation.

**What the properties exclude.**  Two history variables: `asked` is the feature state the
user last asked for, or `"either"`, if it was asked for while an upgrade that has found the feature enabled was at work:
the upgrade stops and starts it whatever the user has asked for meanwhile (`manager.py`, lines 577-608), so that a feature disabled
between the two is enabled again, and nothing tells the user so; `spoiled` are packages the code gives no promise about, because a step of
the rollback itself failed, of an uninstallation or a commit (there is no rollback for
either), because a removal or an awaited state failed inside a block whose callback was
not registered yet, or because the process was killed at work.  A step that cannot succeed in the state it
finds excuses nothing: a rollback has to be possible.  `Consistent` and `FeatureAsAsked`
speak of the packages that are not spoiled.

### Runs

| run | question | answer |
|---|---|---|
| `spm_failures` | one session, up to four operations, from the database, a tarball or a registry, forced or downgrading too, with two failing steps and two toggles: is the host as packages.json says whenever no operation runs (`Consistent`), and are features enabled as asked (`FeatureAsAsked`)? (1.4 million states) | yes |
| `spm_sessions` | a migration from the old image next to a session that installs, uninstalls, adds and removes, with a failure, a kill and a toggle: is what is recorded as installed there in full (`SuccessIsComplete`); do the packages of a finished migration fit together, none of them older than before (`MigrationFits`); does every operation give the lock back (`LockReleased`)? (0.5 million states) | yes |
| `spm_upgrades` | are dependencies met after an upgrade (`DependenciesMet`)? | no: the tree is checked with the version the upgrade replaces |
| `tree_sound` | does the check accept only what is compatible (`AcceptedIsCompatible`); is the shutdown order the one the manifests ask for, and is a cycle reported exactly when there is one (`OrderRespectsManifests`, `CircularIffCyclic`)? (5.5 million states) | yes, without an upgrade |

Bounds: two packages in two versions, one depending on versions of the other that are not newer than its own;
three in `spm_sessions`, where a version of the first breaks the third, which is built in.  Four requests
are an install, an upgrade, a reset and an uninstall of one package; three are what a migration
and the requests around it need.  Two failures let a rollback fail as well.
`tree_sound` takes all trees over three packages in three versions, with versions of the
entries that may differ from the manifests, and all manifests of three
services: three is the shortest cycle that is not a pair.

Fairness: `WF` of `Check(s)` and `Perform(s)`: a process that holds the lock is scheduled.
`AwaitFeature` is among the steps, so this also says that `featured` reports the state that is waited for; the wait in
`feature.py` has no time limit and would hold the lock for ever if it did not, or if a toggle came in
before it and the state waited for were never reported.  `LockReleased` assumes this away; it is about the other steps.

### Theorems

* `AcceptedTreeIsCompatible`, `AcceptanceIsSound`: for all packages, versions, manifests
  and components, a tree that `validate_package_tree` accepts is `Compatible` by its
  manifests, provided every entry has the version of its manifest or none.  The
  proviso fails during upgrades, and `spm_upgrades` shows what comes of it.
* `OrderIsRespected`, `CircularErrorIsExact`: for every set of services, the sort
  returns an order that all manifests agree to, or reports a cycle that is there.  The
  invariant says that what is sorted precedes what is left (`Sorted`) and that *the sort
  never enters a cycle* (`CyclesLeft`): a set of services that all wait for another one of
  the set is never ready, so it is left over as a whole at the end.

* `RecordsAreComplete`: `SuccessIsComplete` for any number of sessions, packages, versions, commands and
  requests, and without a bound on failures and kills.  The invariant, `SessionsInductive`, has three
  parts besides the types.  `Locking`: the holder of the lock is the one session that checks, works or
  takes back, which is why no other session's step changes what a program relies on.  `Course`: the rest of the
  program is in one of the orders that the three operations allow (`InstallOrder`, `UpgradeOrder`,
  `RemoveOrder`), each step with the callback of its block, and the callback on top of the stack is the
  one that belongs to the next step.  `Made` and `Ready`: what has been done by the time the next step is
  reached, and that the plugins that are missing are still to be installed.  Only then does the step that dumps
  packages.json find everything in place.

* `ConsistentAlone`, `FeatureAsAskedAlone`: `Consistent` and `FeatureAsAsked` for any number of packages,
  versions, commands, requests, failures, kills and toggles, in a system with one session.  The invariant,
  `OneSessionInductive`, adds to the one above what the host has at each step of a program.  `Resting`: no
  operation runs, and what `packages.json` records is there.  `InWork`: of the package at work, `Before` says
  what still is as the operation found it, and `FileInWork` that packages.json has the old version until
  it is written; the other packages fit what the session has in memory.  `InUnwind`: the steps
  of a callback are left in order and the stack under them holds the callbacks of the blocks the program
  went through (`Unwinding`, `Stacked`); `Back` says of script, YANG module and FEATURE row from which callback on
  each of them is the old one again.  That a step of a callback can be done in the state it finds is part of it.
  The theorems cannot be stated for more sessions: a session reads packages.json before it takes
  the lock, so that two of them can both begin to install one package, and the second, which fails
  because the YANG module is there already, takes back what the first one has installed.

`MigrationFits` and `LockReleased` are model-checked only.

What the properties do not reach: `repository remove` deletes the entry of a package that another session has
installed since packages.json was read (the model has it; `SuccessIsComplete` looks at the moment of the
record); a migration whose old database lists a package before its dependency is refused in the middle (`MigrationFits` is about
those that finish, and the run has one order of the old database); the caret range of component versions
is the same definition (`Caret`) in the check and in what it is compared with; a read and a write of one FEATURE row by
one step are not separated.

### Known behaviour without a property

* `repository remove` looks whether the package is installed in what it read before it
  took the lock, so it can remove the repository of a package that another session has
  just installed (`manager.py`, line 1016).
* A migration stops at a package that is listed before its dependency
  (`manager.py`, line 715).
* A package is refused for any component of a package that it names in `breaks`
  (`manager.py`, line 249).
* Two sessions that both read packages.json before the other took the lock can install one package one after the other;
  the second fails at the YANG module and takes back the first one's installation.
* A forced install of the version that is installed ends by removing its own image.
* The callback for a new version's plugins calls `_uninstall_cli_plugin` without its
  argument and does nothing; a loop over plugins that fails half way has no callback.
* A stop or a removal that fails half way in an upgrade is not undone.
* A kill between the removal of an image and the commit leaves a package whose manifest
  cannot be read, and every later operation fails; one after the FEATURE row is gone
  leaves a package that cannot be uninstalled.
* A kill between `open` and `json.dump` leaves a packages.json that no process can read.

### Not modelled here

Chroot mode, the contents of the generated files, `keep_config` and the initial
configuration of a package, the rows of the AUTO_TECHSUPPORT and SYSLOG tables, features
that are always enabled, the order of services within one layer of the shutdown order.
Services that name themselves are ignored by the sort, as by `toposort`.

## 5. The config commands

| module | what it is |
|---|---|
| `ConfigDb` | CONFIG_DB as rows, what commands do to rows, the commands in progress |
| `ConfigInterfaces` | ports, VLANs, port channels, sub-interfaces, loopbacks, addresses, VRFs, static routes, tunnels, mirror sessions, syslog servers |
| `ConfigBuffers` | buffers, profiles, PFC, PFC watchdog, QoS |
| `ConfigServices` | AAA, TACACS+, RADIUS, SNMP, sFlow, NTP, Kubernetes, MCLAG, console, kdump, BGP, features |
| `ConfigTraffic` | ACL tables and rules, NAT |
| `ConfigPolicies` | PBH, NVGRE, mux rows, techsupport limits, drop counters, counter polling, WRED |
| `PortBreakout` | `config interface breakout` |
| `ConfigCommands` | their composition over one CONFIG_DB, and what its rows satisfy together |
| `MCConfigCommands` | areas for TLC |
| `ConfigWrites_proofs` | lemmas: what each command writes |
| `ConfigCommands_proofs` | theorems: the invariants that no sequence of commands breaks |

**State.**  `db` maps rows, tuples `<<table, key...>>`, to records of fields.  Each command is one
action: its guard is the conjunction of the checks that end in `ctx.fail` or a `return`,
its effect the rows it writes, in the form the code writes them (`set_entry` replaces a
row, `mod_entry` merges, a `None` deletes).  A refused command changes nothing and is no step.  What several
commands use (`is_port_vlan_member`, `interface_is_mirror_dst_port`, `is_vrf_exists`, ...)
is one operator.  Commands run one at a time, as an operator types them.

**Waiting commands.**  `interface vrf bind` deletes the rows of the interface and waits
until the interface manager has removed it from STATE_DB; `feature state --block` waits
for the daemon; `interface breakout` plans the deletion of the old ports and the addition of the new ones on a copy of CONFIG_DB,
where the YANG models accept or refuse both, writes the first, waits until ASIC_DB has none of the old ports, and writes the second, or
gives up in between; `qos reload` deletes its tables, waits and writes the rendered
ones.  They are `job`, during which `switch`, what the daemons have made of the rows, moves.

**Areas.**  200 commands over all names at once are beyond TLC.  A behaviour is confined to an
*area*: some groups of commands, the names they may use, the rows there are at first.  The
areas are chosen such that every two groups that read or write each other's rows occur in
one area, with two names wherever a command compares two (two VLANs, two ports whose names
contain each other, two tunnels), and three where a limit of two is to be reached.
`start` rows are those of a default configuration, a QoS template or a minigraph.

### Runs

| run | question | answer |
|---|---|---|
| `config_commands` | after any sequence of commands: has no port two uses that exclude each other (`RolesApart`); are the rows that a row names there, and route lists aligned (`ReferencesResolve`); do buffers, PFC and profiles agree (`BuffersFit`); servers, domains, agents and lines (`ServicesFit`); translations, ACL bindings, and does an incremental update of ACL rules leave what a full one does (`TrafficFit`); hashes, tunnels, drop counters, thresholds (`PoliciesFit`); does an interface change its VRF only by way of its removal, and does every wait end (`WaitsAreEnough`)? (243,418 states) | yes |
| `config_dry_run` | does a dry run leave CONFIG_DB alone (`DryRunIsDry`)? | no: `qos reload --ports --dry_run` deletes the rows of the ports (`config/main.py`, line 2795) |

Fairness: weak fairness of `InterfaceManager(i)`, `FeatureDaemon(f)` (daemons that follow the
rows they are subscribed to), and of the steps by which a command that waits goes on
(`Rebind`, `FeatureReached`, `WriteQos`, `WritePorts`): it polls, and nothing disables it for
good.  None is assumed of the operator.

The properties leave out what the code does not promise: sub-interfaces and static routes
keep the name of a VRF that was deleted; `mpls` and `vrf del` do not wait;
`pfc config priority` can switch off PFC for a lossless group; `qos reload` of some ports
writes what the templates say; two agents on one IPv6 address in different spelling.

### Theorems

For any ports, port channels, VLANs, sub-interfaces, VRFs, sessions, servers, tables and files, and for behaviours of any
length and any area:

| theorem | what it says |
|---|---|
| `RolesKept` | `Spec => [](Unbroken => RolesApart)` |
| `ReferencesKept` | `Spec => [](Sound => ReferencesResolve)` |
| `BuffersKept` | `Spec => []BuffersFit` |
| `ServicesKept` | `Spec => []ServicesFit` |
| `PoliciesKept` | `Spec => []PoliciesFit` |
| `TrafficKept` | `Spec => [](UpdatesAgree /\ NatApart /\ (Unbroken => TrafficFit))` |
| `MovesAreSeen` | `Spec => NeverMoves` |

*Frame.*  There are 200 commands, and a property is disturbed by few.  `ConfigWrites_proofs` says for each
group of commands which tables it writes (`...Writes`: every row of another table stays, `Same`), and which
leave the waiting command alone (`...Calm`).  A property is then shown to be kept by the commands that write
a table it reads; the lemmas `LeavesReads`, `SetReads`, `ModReads`, `DropReads` say what the readers `Has`, `Field`, `KeysOf` return
afterwards.

*The waiting breakout* writes what it has planned when it began, so its write is not bounded by the tables of the command that
makes it but by those of the plan: `BreakoutJobFits` (rows of ports, members, interfaces and ACL tables, none of them a NAT,
service or policy row) is the invariant that carries this over the wait.

*Roles.*  `RolesApart` is not inductive.  `RolesStay` is: it states for each pair of uses, from the rows of both, what the
guards establish (`AloneInLag`: a member of a port channel is a member of nothing else; `OnceUntagged`; `TargetsFree`), counts replaced by
quantifiers over pairs of rows; of the members of a port channel that it is there, with their MTU and the default TPID
(`MembersSettled`), which commands of the port, of the channel and of the member all can disturb; of a session that its fields are
there and what is stored as direction (`SessionsShape`), without which the checks of the next one would miss it.
Two proofs needed more care than the property lets expect: the rows of addresses are written by the table of the interface, so
that two kinds of interface must never share a name (`NamesAssumption`), and `add_span` looks at names that *contain* another one, so
that a name must occur in itself.

*Policies and services* follow the same way, with the number of rows of a kind as a cardinality of the set of their names
(`CountedAdd`, `CountedLess`).

*References.*  `ReferencesResolve` speaks of states in which nothing waits, and must be strengthened for the waits between.
`LinksStay` has a part for each kind of reference:
* families (`FamiliesStay`): a breakout works its two writes out when it begins, deletes, waits for the switch, and only then
  adds, or gives up.  Between its writes the database is at neither end.  `PlanStay` says what a waiting breakout has planned,
  in terms of the rows that are there alone: its deletion leaves no port of the family, its addition exactly the ports of the
  new mode, neither leaves a member without its port, and neither touches another family.  With it `WholeFamilies` holds of each family that is not being broken out, through all
  commands that write a port, a member or a mode.  Families do not overlap (`ModesAssumption`).
* VRFs (`BoundStay`, `BindFits`): a bind removes the interface, waits for the daemons, and writes it back with a VRF that was looked up before
  the wait; that this VRF is still there has to be said of the waiting command.
* tunnels, maps and VNIs (`MapsStay`): what the checks compare are names and fields, so that the shape of the rows of maps belongs
  to it (`MapsShaped`); servers of syslog (`SyslogStay`); lists of static routes (`RoutesStay`).

*Buffers.*  `BuffersStay` keeps the four parts of `BuffersFit` and three more facts.  Each row of a priority group has a profile
(`PgsShaped`), without which `buffer profile remove` could not see that its profile is in use.  A headroom is positive also in
a profile without a threshold: the sizes that `set` is not given are taken from there, and `UpdatedWhole` follows the
arithmetic.  And a reload that waits has left no row in the tables, or of the ports, that it will write (`QosWait`): the templates fit
together (`TemplateAssumption`) but need not fit with the rows of an operator, so that it is the removal
before the wait, and that no other command runs meanwhile, that makes the write safe.  `remove` of one group takes
away its own priorities from those that are paused; that none of them is paused for another group follows from
`NoOverlap`, so the parts hold together only.

*Moves.*  A VRF that the manager has seen of an interface is the one in its row, if the row has one (`SeenStay`).  Every command but
the end of a bind leaves the VRF of a row as it is, removes it or removes the row (`OwnsRowsTame`, `OnlyRebindBinds`), the writes
that a breakout has planned included (`PlanTame`); and a bind ends only when the manager has seen the interface go.

*`Sound`*: no area both has ports that can be broken out and uses `config pfc asymmetric`.  That command
writes a field of the row of a port without asking whether the port is there, and so brings back a port that the breakout has
deleted.  The hypothesis is about nothing else: the areas with breakouts of the run, and the one with `pfc`, all satisfy it.

*`Unbroken`*: the behaviour uses no `interface breakout`.  What a new port is given by the default configuration is not checked
by the command, which asks the YANG models only; a default that made a port a VLAN member and routed
would be written.  The areas of the run that break ports out have defaults that do not, and TLC checks the properties there too.

Assumptions: `NamesAssumption` (each kind of interface has its own prefix), `NumbersAssumption` (VLANs of different names have
different numbers; no next hop is empty), `ModesAssumption` (a port is in its own modes, families do not overlap, and the default rows of a new port name no VRF), `ServersAssumption` (the limit of servers is a number),
`PoliciesAssumption` (tables of capabilities have the fields that are read), `TemplateAssumption` (the rows that a platform's templates render fit together: ranges, PFC,
profiles), `StateAssumption` (interfaces and features, which are two tables of STATE_DB, are told apart in `switch`), `AreasAssumption` (what rows there are at the start: none that the commands add
themselves, templates as they are rendered, all of them or none).  TLC evaluates them in every run.

### Not modelled here

The validation of single rows against YANG models (where the installation has it switched
on, it refuses more); values that no other row depends on; parsing of addresses and of file
formats; the application of a command to each ASIC; removal of FDB entries, restarts of
services and other commands run at the end; what the `show` side prints.

## 6. Mux cables

`MuxCommands` is a table of the commands of `config muxcable` and `show muxcable` that talk
to the transceiver daemon: for each, the tables it clears before and after, the arguments
it sets, whether it reads a result, over which ports it goes and how it decides on success.
`MuxSessions` is the protocol, one function of each module
(`update_and_get_response_for_xcvr_cmd` in `config/muxcable.py`, line 70, and in
`show/muxcable.py`, line 281): `Begin` deletes the rows left over (`delete_all_keys_in_db_table`), `Open` creates the
subscriber, `Ask` sets arguments and request, `Pop` reads notifications one at a time,
`GiveUp` is the time limit, looked at before what has come, `Report` reads results and
clears the tables.  The subscriber is modelled by what the code relies on: rows
that are there when it starts are delivered first, later changes in order, with the
contents of the row *at the time it is read*.  The daemon (external) takes changed
requests in order, executes them, answers, declines, or starts again and finds the
requests that are still there.  `Kill` is Ctrl-C, or a user who declines to confirm.

| run | question | answer |
|---|---|---|
| `mux_commands` | two sessions, two ports, every kind of command beside one that uses the same tables: was what a command reports answered for its port, in its table, and since it began (`ReplyIsRecent`); if commands do not overlap and the daemon answers in time, is it the answer to *its own* request, with its own arguments and its own result, after commands that were stopped half way and restarts of the daemon too (`OwnReply`); does every command end (`CommandEnds`)? (214,846 states) | yes |

In the `orderly` scenarios of `OwnReply` a session begins when the daemon has nothing left
to do.  Without that, sessions do take each other's answers, since the tables carry no name of
the request, and `ReplyIsRecent` is all that holds.  Two sessions and two ports are what it takes
to confuse one with the other; a third would be another of the same kind.

Fairness: weak fairness of `Step(s)`, the process, and of `TimeUp(s)`, the clock.  None is
assumed of the daemon: a command ends because it gives up.

Theorem `RepliesAreRecent`: `Spec => []ReplyIsRecent` for any sessions, ports and
commands, from `CommandsAssumption`: each command clears the answers of its table before it
asks (TLC checks it of every command in `MuxCommands` that the run uses).  An answer carries, as a history, the
sessions that ran when it was given.  The argument: no answer in the table of a session that runs is older than
the session (`RowsRecent`), because `Begin` has deleted what there was and everything later
is given while it runs; so what it reads, holds and reports is as recent (`HeldRecent`,
`ToldRecent`).  `RowsFit` and `DaemonFits` carry the port and the table from the request through
the daemon to the answer.

Theorem `RepliesAreOwn`: `Spec => []OwnReply`, from `PortsAssumption` (a command is for some ports, each once) and the rest of
`CommandsAssumption`: a command clears, before it asks, every table it uses, and never the arguments without the request.
`OwnReply` is about what is told in the end; to keep it, the invariant follows a request from place to place.  `OwnInv`:
in the tables of the session that runs, in the daemon's hands, in the buffer and in what is told, all is that session's own
(`OwnRows`, `HeldOwn`, `ToldOwn`), because a command clears its tables before it asks and what comes later was asked for by it; a request
is there with its own arguments only (`ArgsMatch`, for which arguments must never be cleared without the request).  `TurnsInv`,
while the daemon has not restarted: whose turn it is.  For the port asked about, exactly one holds: the request waits, the
daemon is at it, the answer is there and its event is to be read, or the daemon has declined (`Requested`, `Busy`,
`Answered`, `Ready`); so no answer is missed and nothing is left when the last command ends (`Cleared`).  A
daemon that starts again finds requests a second time, hence the two parts.

Not modelled here: `show muxcable status` and `config`, which read rows; the rows that `config
muxcable mode`, `packetloss` and `kill-radv` write (mode is in `ConfigPolicies`); the text
of the answers.

## 7. The device, from image to image

| module | what it is |
|---|---|
| `ImageManager` | `sonic-installer` install, set-default, set-next-boot, remove, cleanup, over GRUB, U-Boot and Aboot |
| `BootChoice` | abstract specification: which image boots next |
| `Reboots` | `fast-reboot` (fast, warm, fastfast), `reboot`, `soft-reboot`, and what the boot does with what they leave |
| `DockerUpgrades` | `upgrade-docker`, `rollback-docker` |
| `DbMigrator`, `MellanoxBuffers` | the migrations from every version to the current one |
| `ConfigReload` | `config save`, `load`, `reload`, `load_minigraph`, `override-config-table` |
| `DeviceUpgrade`, `MCDeviceUpgrade` | their composition, its properties, devices for TLC |
| `DeviceUpgrade_proofs` | theorems about reboots, docker upgrades and configuration reloads |

**Images.**  `env` is what the boot loader reads: menu entries, the saved entry and the one-time
entry of GRUB; slots and two variables of U-Boot; boot-config of Aboot.  A command works its writes
out when it starts (`todo`) and makes them one at a time; a power cut loses the rest.
`BootChoice` knows only the images that are installed, the default and the one-time choice, and
`ImplementsBootChoice` is the refinement, with what is installed, default and chosen computed from the
environment of each loader.

**Reboots.**  `ses` is a session of a script, at the command it is about to run; `sys` what it
changes: warm restart flags, the loaded kernel, the dump and the flags in it, the assistant's sessions, frozen
orchagent.  Each command may fail; `set -e`, the checks and the traps say
what follows: the exit handler (`clear_boot`, five actions from `UnloadKernel` to `EndOfHandler`) before the commit, nothing
after it.  The handler's own commands may fail as well: `kexec -u`, `warm_restart disable`, `mv` and `DEL` are
only logged, while an assistant that fails ends the handler, which runs under `-e` too, with the flags in place
(`fast-reboot`, line 138).  `ses.failed` remembers which have failed since the start of the system.
After `set +e` a backup that failed is not noticed: the reboot goes on with the dump that was there, or none.  An outcome
`stranded` is a session that failed after it was committed, and is remembered until the next boot.
The boot itself, the finalizer and what the containers do are external.

**Migration.**  A migration is the path of versions, each a sequence of parts; a part reads what it
needs and works out its writes, which are made one at a time, the recorded version last.  A kill
between two writes leaves the rows, and the next start begins from the recorded version.
Rows are of one kind each (a port, a profile, a queue, a VLAN interface, ...), sizes of
buffers are flavours (the default of a version, or the operator's own), and a reference to a pool or a profile
is a field that is the name of its row.  The SKU is one of three kinds: generic, MSFT with two ingress pools, MSFT
that 1.0.5 takes to one (the 2700 ones; those of the 3800 are not modelled).
What the migrator remembers (`mem`: the SKU, the rows to flush, whether all is default, the ports it has
reclaimed) is lost when it is stopped.

**Composition.**  Images, reboots, docker upgrades and migrations run on one device: an
installed image is what a reboot loads and checks, the flag that a docker upgrade sets is the one
that a boot finds, a boot starts the migrator.  In `ConfigReload` a command is a program of steps
over all namespaces (the host and one ASIC); a file is absent, torn or whole; a namespace is described by the *sources*
that its rows came from, whether it is migrated, and the mark CONFIG_DB_INITIALIZED, for which
whoever connects waits.  Each step may fail, or the process be killed there.

**Careful operators.**  Some combinations are known not to work, and `careful` devices avoid them:
no image command during a reboot; on U-Boot and Aboot no removal while a one-time choice is pending;
on U-Boot no choice of an image while slot 1 is empty, nor a kexec reboot with a
choice pending; on GRUB and U-Boot no removal, on U-Boot no choice, of an image with whose name that of another
installed one starts (`StartsWith`: `uboot.py` looks for the name within the others, lines 51-74, `grub.py` at the start of
a menu entry, line 72, and both take the first they find); no docker upgrade during a reboot.  `device_uboot` is the device on which
nobody is careful.

### Runs

| run | question | answer |
|---|---|---|
| `device_upgrade` | does a careful device boot an image that is there, the chosen one, between whichever two writes the power fails (`ImplementsBootChoice`); does a warm or fast boot find all the flags of its own reboot or none (`BootsFit`); does a failed reboot or upgrade leave nothing behind but what a failed command of its clean-up was for (`NothingLingers`); does a migration that was interrupted end where one that was not does (`MigrationResumes`); is each pool that a profile names, and each profile that a buffer names, there after a migration (`BuffersHold`); do reload and load_minigraph leave exactly what they loaded, is what is marked based on a whole source, and does no single failure lose both that base and the saved file (`ReloadIsWhole`)? (4.6 million states) | yes |
| `device_uboot` | does set-default choose its image (`DefaultIsChosen`)? | no: with slot 1 empty, the place in the list is taken for the slot (`uboot.py`, line 51) |

Bounds: three images, one of them of another ASIC configuration and with a name that starts with that of another; two images and a third to install
are what install, remove and cleanup tell apart.  Three reboots, or two and a docker upgrade, or one and
three, so that each meets what the others left.  A migration is stopped at most once, at any of its writes (`MaxKills`);
databases start from the oldest version, from 2_0_1 with what the later steps look for, and from
six on Mellanox, of the three kinds of SKU.  Configurations: three commands with one fault, or two with two;
a device has its images or its configuration changed, not both, since the two share nothing but the
migrator.  A save of what is incomplete, and a reload from a torn file, count as faults: they are
requests on top of one.

There is no fairness here: all six properties are about safety, and several waits of the scripts
have no bound in the code.

### Theorems

* `NothingIsLeft`: `Spec /\ careful => []NothingLingers`, and `EachBootFits`: `Spec /\ careful => BootsFit`, for any images,
  containers and boot loaders, from `KindsAssumption` (the scripts there are) and `ContainersAssumption` (the row of the whole
  system is no container's), and with the operator's care as below.
  The inductive invariant `DeviceInv` says for each step of a script what has been made sure of when it is reached
  (`AdvancedSoFar`: the flag, the target that is installed, the kernel, the dump), and of a session that is not
  committed that whatever it has set is still to be taken back by the exit handler, or has been, or the command that
  should is among those that failed (`CanBeUndone`); of a docker upgrade, that the only
  flag of a container is the one it will put back (`FlagIsMine`) and that every container but the one in its hands runs the image
  tagged latest (`ImagesKept`).  The first attempt at this invariant failed, and showed three states that a bounded search had
  not reached: `check_warm_restart_in_progress` looks at every flag, so that a flag left by a finished boot stops the next
  reboot; a docker upgrade refused by orchagent after the containers have been replaced has not rolled back; containers that
  are not upgraded with a warm restart are left on an image other than the latest if the upgrade ends in the middle.
* `ReloadsAreWhole`: `Spec => []ReloadIsWhole`, for any namespaces, tables and files, any number of commands and faults, from
  `NamespacesAssumption`, `OverriddenAssumption` and `BudgetAssumption`.  A command is a program, a sequence of steps built for its
  options.  The inductive invariant `ReloadInv` says of each step that the command cannot do without that it is still in the program
  or that what it leaves is there (`SoFar`); that the rest of the program is a right course (`Course`: what a step undoes is done
  again after it, and no step comes too late for one that has been done); and that of the running and the saved
  configuration no fault has spoiled more than one (`OneSpoiled`).  The programs are shown to be right courses by `SaveCourse`,
  `LoadCourse`, `ReloadCourse` and `MinigraphCourse`, whatever the namespaces and the options; one lemma per step
  then shows that it keeps the invariant, wherever in the program it stands.

### What the properties leave out

* A power cut while grub.cfg or boot-config is torn: it is opened for writing and written as a
  whole, so the device would not boot.
* What a careful operator does not do.  With `Distinct` left out of the guards, TLC finds a device whose slots hold
  i3 and i1, i3 starting with i1: set-next-boot of i1 chooses i3.
* After a session that failed past its commit point, or a docker upgrade that died of a command,
  `NothingLingers` says nothing until the next boot.
* `MigrationResumes` does not speak of the tables of the other databases, of a port whose two fields
  are written one after the other, nor of Mellanox: what the migrator remembers of defaults is lost
  in a stop, and the buffers stay as they are.  `BuffersHold` is about migrations that were not stopped, and
  leaves out the lossy profile of Mellanox-SN2700-D40C8S8 (below).

### Known behaviour without a property

* A reload killed between the flush and the mark makes every later command that connects wait
  until the database is started again.
* `config save` truncates the file before `sonic-cfggen` has waited for the mark.
* A reload from a torn file flushes the database before it finds out.
* The mark does not tell that a configuration is complete: `config load` that fails in the import (`config/main.py`,
  line 1361) leaves it half-written and marked, and so does `load_minigraph` that fails after line 1760, in its ACLs, its QoS or
  its migration.  `MarkedHasBase` says what the mark is good for.
* A warm or fast reboot whose backup fails while the dump of an earlier one is still on the disk comes up with
  the flags of that one.
* A soft reboot at which `kexec -u` and `kexec -l` both fail boots the kernel that a failed reboot before it
  left loaded.
* On Mellanox-SN2700-D40C8S8 the step from 1.0.4 to 1.0.5 replaces the two default ingress pools by one
  (`mellanox_buffer_migrator.py`, lines 335 and 339), and has no profiles of its own (line 780):
  `ingress_lossy_profile` goes on naming `ingress_lossy_pool`, which is removed.  Without its exception
  `BuffersHold` fails there.  The tests have this SKU from 1.0.5 on only.
* Reload passes over a namespace without a file and load stops at it; both report success.
* `load_minigraph --override_config` without a golden configuration ends with the services stopped.

### Not modelled here

Migration of configuration, packages and swap memory at installation, secure boot and FIPS; the
options `-i`, `-d`, `-r` of `fast-reboot`, control plane assistants beyond their sessions, a second reboot at the same
time, signals, the expiry of FAST_REBOOT after 210 s; of the reload commands: file names on the command
line, the SonicYang format, alias naming mode, YANG validation of the golden configuration,
`load_mgmt_config`, the dry run of override-config-table; the tables of buffer sizes by platform.

## 8. Mutants

Each property of each passing run comes with a mutant: an operator next to the
definition it changes, with the kind of mistake that could have been made there (callbacks
in the order of registration, a lock that is not looked at, a row merged instead of
replaced, references compared for additions only, a flag that stays, a time limit looked at only
when something has come, a mark set before the import).  With the mutant in place the property
fails on the same instance; `PROJECT.json` lists them.

## 9. What is proved and what is only model-checked

Proved for all values of the constants, from the assumptions that the modules name: the theorems
of sections 3 to 7.  Each rests on an inductive invariant that is stated in the proof module, or
in `ConfigUpdaterProperties`.

Model-checked only:

* liveness (`EveryRequestEnds`, `EveryRequestAnswered`, `LockReleased`, `CommandEnds`, the second half of
  `WaitsAreEnough`), which is out of the prover's reach;
* `PartsMakeTheWhole`, `UpdaterPlan`: they are about the recursive generators and the splitting of a document into
  tables, an induction over data;
* `MigrationFits` of `PackageManager`;
* what `RolesApart` and `TrafficFit` say of behaviours that break ports out, and `ReferencesResolve` of those that are not `Sound`;
* of section 7, `ImplementsBootChoice`, `MigrationResumes` and `BuffersHold`: the first could be proved of each loader,
  the migrations are folds over long programs.

The instances of these are given with the runs.

## 10. Not modelled

* *Not reached*: techsupport handlers and their rate limits, route_check and vnet_route_check,
  console lines, fwutil's auto-update list, neighbor_advertiser.  Each has a little logic of its own and
  is the next to model (plan, row 7).
* *Depends on what is not in the repository*: of dynamic port breakout, the order of deletions, which comes
  from sonic-yang-mgmt; the platform utilities (sfputil, psuutil and the like), thin over vendor
  code; the vendor plugins of `config`.
* *Display*: `show`, `clear`, `dump`, `debug`, the counter and status displays in `scripts`; their only state is
  the snapshot that a clear leaves.
* *Single rows*: crm, syslog_util, flow_counter_util, fdbutil, counterpoll beyond what
  `ConfigPolicies` has.
* *Input and output*: manifests, registry and Docker clients of the package manager; `sonic_cli_gen`;
  file collection scripts; packaging and tests.
