----------------------------- MODULE DeviceUpgrade -----------------------------
(***************************************************************************)
(* A device from one image to the next: images are installed and chosen, it   *)
(* reboots, at its start the database is migrated, and its configuration is   *)
(* saved and loaded.                                                         *)
(***************************************************************************)
EXTENDS DockerUpgrades, DbMigrator, ConfigReload

CONSTANT Scenarios   \* what InitImages, InitReboots, InitMigration and InitReload take

\* Each scenario bounds the commands and the faults, and says which namespaces have a file.
ASSUME BudgetAssumption == \A d \in Scenarios : d.budget \in [commands : Nat, faults : Nat, saved : SUBSET AllNs]

vars == <<imageVars, rebootVars, migrationVars, reloadVars>>
Init == \E d \in Scenarios : InitImages(d) /\ InitReboots(d) /\ InitMigration(d) /\ InitReload(d)

\* The migrator runs when the database starts, before the rest of the system is up.
SystemUp == mig.state \notin {"new", "running", "stopped"}
DeviceNext ==
    \/ SystemUp /\ (careful => ses.at = "idle") /\ (Command \/ Write) /\ UNCHANGED <<rebootVars, migrationVars>>
    \/ SystemUp /\ (careful => upgrade.at = "idle") /\ Script /\ UNCHANGED migrationVars
    \/ Boot /\ MigrateAtBoot("system" \in sys'.flags)
    \/ SystemUp /\ (FinalizeWarmBoot \/ Upgrade) /\ UNCHANGED migrationVars
    \/ Migrate /\ UNCHANGED <<imageVars, rebootVars>>
\* A bound: a device has its images or its configuration changed, not both.
Configured == budget.saved # {}
Next ==
    \/ ~Configured /\ DeviceNext /\ UNCHANGED reloadVars
    \/ Configured /\ ReloadNext /\ UNCHANGED <<imageVars, rebootVars, migrationVars>>
Spec == Init /\ [][Next]_vars

-----------------------------------------------------------------------------
InstalledOnDisk == GetInstalledImages \cap dirs
Promised == INSTANCE BootChoice WITH installed <- InstalledOnDisk, default <- DefaultImage, once <- OnceImage
\* Whatever the boot loader, and between whichever two writes the power fails, a careful device boots an
\* image that is on its disk, the one that set-next-boot asked for once or else the default; install,
\* set-default, remove and cleanup change the choice only as they say (sonic_installer/main.py and
\* bootloader/*.py). Left out are the moments in which grub.cfg or boot-config is empty, when no image
\* boots, and what MayRemove, MayChoose and MayKexec say that a careful operator does not do.
ImplementsBootChoice == Promised!Spec

\* set-default leaves an environment in which the boot loader boots that image by default
\* (sonic_installer/main.py set_default, bootloader/*.py set_default_image).
DefaultIsChosen == [][\A i \in Images : SetDefault(i) => DefaultOf(Last(todo')[1]) = i]_vars

\* A warm or fast reboot boots the image that was checked, a warm one with the same ASIC configuration.
\* It comes up with the flags of its own reboot, if its dump was taken, and with none of them if it was not
\* and there was no other dump: never with half of them. Any other boot comes up without flags, and without
\* a dump unless moving that one failed (scripts/fast-reboot, reboot and soft-reboot). A reboot that found a
\* flag, or the finalizer of an earlier boot at work, is left out: the flag may be cleared under it.
BootsFit ==
    [][ses.at = "exec" /\ ses'.at = "idle" /\ ses'.outcome = "booted" =>
        IF Advanced
        THEN /\ running' = ses.target /\ ses.target \in dirs
             /\ ses.kind # "fast" /\ AsicConfig[running] # "none" => AsicConfig[running'] = AsicConfig[running]
             /\ ses.found # "flags" /\ ses.dumped => "system" \in sys'.flags /\ (sys'.fast = (ses.kind = "fast"))
             /\ ses.found = "nothing" /\ ~ses.dumped => sys'.flags = {} /\ ~sys'.fast
        ELSE sys'.flags = {} /\ ~sys'.fast /\ (sys'.dump # NoDump => "move" \in ses.failed)]_vars

\* Between sessions nothing is left of one that failed, at whatever step, but what a command of the exit
\* handler failed to take back: the assistant, which ends the handler, leaves the flags too; the others
\* leave what is theirs. No kernel is loaded, no flag set but those of a warm boot that is not settled
\* (clear_boot in scripts/fast-reboot). Each container runs its latest image, unless a warm container
\* was rolled back: that waits for a cold boot, and a refused upgrade leaves it so
\* (upgrade_docker and rollback_docker in sonic_installer/main.py).
\* A session that ended after it was committed, or died of a docker command, is left out until a boot
\* ends what it left.
NothingLingers ==
    /\ ses.at = "idle" /\ ses.outcome # "stranded" =>
        /\ sys.kexec = Empty \/ "unload" \in ses.failed
        /\ ~sys.cpa \/ "teardown" \in ses.failed
        /\ "system" \notin sys.flags \/ sys.finalizing \/ ses.failed \cap {"teardown", "disable"} # {}
        /\ ~sys.fast \/ sys.finalizing \/ ses.failed \cap {"teardown", "delete"} # {}
    /\ upgrade.at = "idle" /\ upgrade.outcome # "died" =>
        /\ sys.flags \cap Containers = {}
        /\ \A c \in Containers : images[c].latest \in images[c].tags
        /\ \A c \in Containers \ WarmContainers : images[c].runs = images[c].latest
        /\ upgrade.outcome \in {"done", "failed", "refused"} => images[C].runs = images[C].latest

-----------------------------------------------------------------------------
Versions == <<"unknown", "1_0_1", "1_0_2", "1_0_3", "1_0_4", "1_0_5", "1_0_6", "2_0_0", "2_0_1", "2_0_2",
              "3_0_0", "3_0_1", "3_0_2", "3_0_3", "3_0_4", "3_0_5", "3_0_6", "4_0_0">>
Path(v) == LET n == CHOOSE m \in DOMAIN Versions : Versions[m] = v
           IN  IF v = "unknown" THEN <<v>> \o SubSeq(Versions, 3, Len(Versions)) ELSE SubSeq(Versions, n, Len(Versions))
Parts(v) == FlattenSeq([n \in DOMAIN Path(v) |-> StepsFrom(Path(v)[n])])
Perform(s, p) ==
    [db |-> FoldLeft(LAMBDA d, w : SetEntry(d, w[1], w[2]), s.db, WritesOf(p, s.db, s.mem)),
     mem |-> MemoryAfter(p, s.db, s.mem)]
Uninterrupted == FoldLeft(Perform, [db |-> found, mem |-> NewMemory(found)], Parts(Version(found))).db
\* If the migrator is stopped between two writes, as often as MaxKills allows, and run again, in the end the
\* configuration is the one that a migration without a stop gives (scripts/db_migrator.py). Left out are the tables of other databases,
\* the port whose two fields are written one after the other, and Mellanox, whose buffers are not resumed.
MigrationResumes ==
    mig.state = "done" /\ mig.asic # "mellanox" =>
        LET goal == Uninterrupted
        IN  \A r \in (DOMAIN db \cup DOMAIN goal) \ (OtherDatabases \cup {"PORT|Ethernet0"}) : Row(db, r) = Row(goal, r)

\* After a migration of a Mellanox switch that was not stopped, every buffer names a profile that is there
\* and every profile a pool that is there, in CONFIG_DB and, after a warm boot, in APPL_DB, and the dynamic
\* model has its parameters (mellanox_buffer_migrator.py). Left out is the lossy profile of the SKU that
\* version 1.0.5 takes from two ingress pools to one: it goes on naming the pool that was removed.
BuffersHold ==
    mig.state = "done" /\ mig.asic = "mellanox" /\ mig.killed = 0 =>
        /\ \A r \in DOMAIN db \ OtherDatabases : \A name \in db[r] \cap BufferNames :
               name \in DOMAIN db \/ (mem.sku = "msft_single" /\ r = LossyProfile /\ name = Lossy)
        /\ \A g \in {ApplPg, ApplDownPg} : Lossless \in Row(db, g) => Row(db, ApplProfile) # {}
        /\ IsDynamic(db) => Row(db, "DEFAULT_LOSSLESS_BUFFER_PARAMETER|AZURE") # {}
=============================================================================
