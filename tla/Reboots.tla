-------------------------------- MODULE Reboots --------------------------------
(***************************************************************************)
(* The scripts fast-reboot (warm-reboot and fast-reboot), reboot and          *)
(* soft-reboot, one session at a time, and "sonic-installer upgrade-docker"    *)
(* and "rollback-docker", which share their warm restart flags. What the      *)
(* boot of a system does with a database dump, and the finalizer of a warm    *)
(* boot, are external.                                                       *)
(***************************************************************************)
EXTENDS ImageManager

CONSTANTS
    Kinds,       \* of reboots: "warm", "fastfast" (warm on Mellanox), "fast", "cold", "soft"
    Containers,  \* those whose image may be upgraded
    AsicConfig   \* of each image: the checksum of its ASIC configuration, or "none"

ASSUME KindsAssumption == Kinds \subseteq {"warm", "fastfast", "fast", "cold", "soft"}
\* The row of the whole system in WARM_RESTART_ENABLE_TABLE is no container's.
ASSUME ContainersAssumption == "system" \notin Containers

VARIABLES
    sys,         \* the system, as the scripts change it
    ses,         \* the reboot session
    upgrade,     \* the session of upgrade-docker
    images,      \* of each container: its tags, the image that is latest, the one that runs
    sessions     \* how many reboots and docker upgrades may still start
rebootVars == <<sys, ses, upgrade, images, sessions>>

\* assist: an assistant is given and the switch can use it; found: what was set, or on the disk, before
\* the session; dumped: its own dump was taken; failed: which of the commands that undo a reboot failed
\* since the system started.
Idle == [at |-> "idle", kind |-> "none", force |-> FALSE, assist |-> FALSE, target |-> Empty, found |-> "nothing",
         dumped |-> FALSE, failed |-> {}, outcome |-> "none"]
NoUpgrade == [at |-> "idle", of |-> "none", warm |-> FALSE, skip |-> FALSE, flagged |-> FALSE,
              previous |-> "none", outcome |-> "none"]
\* A database dump on the disk: the reboot that took it, and what it holds of the flags.
NoDump == [of |-> "none", flags |-> {}, fast |-> FALSE]
\* flags: WARM_RESTART_ENABLE_TABLE; fast: FAST_REBOOT; kexec: the kernel that is loaded; cpa: the assistant's sessions; frozen: orchagent;
\* finalizing: the system came up by a warm boot and is not settled.
Booted(dump, flags, fast) ==
    [flags |-> flags, fast |-> fast, kexec |-> Empty, dump |-> dump, cpa |-> FALSE,
     frozen |-> FALSE, routes |-> TRUE, services |-> "up", finalizing |-> flags # {}]
FreshImages == [tags |-> {"old"}, latest |-> "old", runs |-> "old"]
InitReboots(d) ==
    /\ sys = Booted(NoDump, {}, FALSE) /\ ses = Idle /\ upgrade = NoUpgrade
    /\ images = [c \in Containers |-> FreshImages]
    /\ sessions = [reboots |-> d.reboots, upgrades |-> d.upgrades]

Advanced == ses.kind \in {"warm", "fastfast", "fast"}
At(step) == ses.at = step /\ UNCHANGED <<loader, env, dirs, running, todo, careful, upgrade, images, sessions>>
GoTo(step) == ses' = [ses EXCEPT !.at = step]
\* outcome: how the last session that got past its first check ended; one that was committed and did
\* not boot is remembered until the next boot.
EndWith(outcome, failed) ==
    ses' = [Idle EXCEPT !.outcome = IF ses.outcome = "stranded" THEN "stranded" ELSE outcome, !.failed = failed]
End(outcome) == EndWith(outcome, ses.failed)
Rebooted == ses' = [Idle EXCEPT !.outcome = "booted"]
\* The command of the exit handler failed.
Fails(command, step) == ses' = [ses EXCEPT !.failed = @ \cup {command}, !.at = step]
Moved(dump) == IF dump = NoDump THEN ses.failed ELSE ses.failed \cup {"move"}

(* The exit handler of fast-reboot, whatever ends the script before it is    *)
(* committed. Only the assistant can end the handler itself.                 *)
Abort == UNCHANGED sys /\ GoTo("unload")
UnloadKernel ==
    /\ At("unload")
    /\ \/ sys' = [sys EXCEPT !.kexec = Empty] /\ GoTo("teardown")
       \/ UNCHANGED sys /\ Fails("unload", "teardown")
TeardownControlPlaneAssistant ==
    /\ At("teardown")
    /\ \/ sys' = [sys EXCEPT !.cpa = @ /\ ~ses.assist] /\ GoTo("disable")
       \/ ses.assist /\ UNCHANGED sys /\ EndWith("aborted", ses.failed \cup {"teardown"})
\* Mutant of DisableWarmRestart: the flag of a fast reboot stays.
DisableUnlessFast ==
    /\ At("disable") /\ sys' = [sys EXCEPT !.flags = IF ses.kind = "fast" THEN @ ELSE @ \ {"system"}] /\ GoTo("clear")
DisableWarmRestart ==
    /\ At("disable")
    /\ \/ sys' = [sys EXCEPT !.flags = @ \ {"system"}] /\ GoTo("clear")
       \/ UNCHANGED sys /\ Fails("disable", "clear")
\* The dump moves away, and a fast reboot deletes its own flag.
ClearDump ==
    /\ At("clear")
    /\ \E d \in {NoDump, sys.dump} :
        \/ sys' = [sys EXCEPT !.dump = d, !.fast = @ /\ ses.kind # "fast"] /\ GoTo("end")
        \/ ses.kind = "fast" /\ sys' = [sys EXCEPT !.dump = d] /\ Fails("delete", "end")
EndOfHandler == At("end") /\ UNCHANGED sys /\ End("aborted")

\* On a careful device no image comes or goes, nor a choice is made, during a reboot.
MayKexec(k) == careful /\ loader = "uboot" /\ k # "cold" => ~OncePending
StartReboot ==
    /\ ses.at = "idle" /\ NoCommand /\ sessions.reboots > 0
    /\ \E k \in Kinds, f, a \in BOOLEAN :
        /\ f \/ a => k \in {"warm", "fastfast", "fast"}
        /\ MayKexec(k)
        /\ ses' = [ses EXCEPT !.at = IF k \in {"cold", "soft"} THEN "prepare" ELSE "in_progress",
                               !.kind = k, !.force = f, !.assist = a]
    /\ sessions' = [sessions EXCEPT !.reboots = @ - 1]
    /\ UNCHANGED <<imageVars, sys, upgrade, images>>

\* Before the exit handler is set: a refusal leaves the flags that it found.
CheckWarmRestartInProgress ==
    /\ At("in_progress") /\ UNCHANGED sys
    /\ IF sys.flags # {} /\ ~ses.force THEN End(ses.outcome)
       ELSE ses' = [ses EXCEPT !.at = "mark",
                               !.found = IF sys.flags # {} \/ sys.fast \/ sys.finalizing THEN "flags"
                                         ELSE IF sys.dump # NoDump THEN "dump" ELSE "nothing"]
SetFastFlag ==
    /\ At("mark") /\ ses.kind = "fast" /\ ~sys.fast
    /\ \/ sys' = [sys EXCEPT !.fast = TRUE] /\ UNCHANGED ses
       \/ Abort
EnableWarmRestart ==
    /\ At("mark") /\ (ses.kind = "fast" => sys.fast)
    /\ \/ sys' = [sys EXCEPT !.flags = @ \cup {"system"}] /\ GoTo("prepare")
       \/ Abort
\* unload_kernel and setup_reboot_variables; the other two scripts do the second only.
Prepare ==
    /\ At("prepare")
    /\ \/ /\ sys' = IF Advanced THEN [sys EXCEPT !.kexec = Empty] ELSE sys
          /\ ses' = [ses EXCEPT !.at = "check", !.target = GetNextImage]
       \/ Advanced /\ Abort
\* asic_config_check: an image without a checksum cannot tell, if it is the one that runs.
AsicConfigUnchanged ==
    \/ running = GetNextImage \/ AsicConfig[running] = "none"
    \/ AsicConfig[GetNextImage] = AsicConfig[running]
\* Docker, the file system and the databases may fail a check too.
RebootPreCheck ==
    /\ At("check") /\ Advanced
    /\ \/ /\ NextImageVerified /\ (ses.kind = "fast" \/ AsicConfigUnchanged)
          /\ GoTo("load") /\ UNCHANGED sys
       \/ Abort
LoadKernel ==
    /\ At("load")
    /\ \/ sys' = [sys EXCEPT !.kexec = ses.target] /\ GoTo("assist")
       \/ Abort
SetupControlPlaneAssistant ==
    /\ At("assist")
    /\ \/ sys' = [sys EXCEPT !.cpa = @ \/ ses.assist] /\ GoTo("freeze")
       \/ \E a \in {FALSE, ses.assist} : sys' = [sys EXCEPT !.cpa = @ \/ a] /\ GoTo("unload")
FreezeOrchagent ==
    /\ At("freeze")
    /\ \/ sys' = [sys EXCEPT !.frozen = TRUE] /\ GoTo(IF ses.kind = "fast" THEN "delay" ELSE "commit")
       \/ ses.force /\ UNCHANGED sys /\ GoTo(IF ses.kind = "fast" THEN "delay" ELSE "commit")
       \/ ~ses.force /\ Abort
DelayCounters ==
    /\ At("delay")
    /\ \/ UNCHANGED sys /\ GoTo("commit")
       \/ \E k \in {Empty, sys.kexec} : sys' = [sys EXCEPT !.kexec = k] /\ GoTo("unload")
\* From here on no failure is cleaned up.
Commit ==
    /\ At("commit")
    /\ sys' = IF ses.kind = "fast" THEN [sys EXCEPT !.routes = FALSE] ELSE sys
    /\ GoTo("stop")
\* Mutant of StopServices: FAST_REBOOT is not among the keys that the dump keeps.
StopServicesForgetsFast ==
    /\ At("stop")
    /\ sys' = [sys EXCEPT !.services = "down", !.dump = [of |-> ses.kind, flags |-> sys.flags, fast |-> FALSE]]
    /\ ses' = [ses EXCEPT !.at = "firmware", !.dumped = TRUE]
\* The dump is taken when swss has stopped: no one looks whether it was, and what was there may be lost.
\* Without a shutdown order the script just ends.
StopServices ==
    /\ At("stop")
    /\ \/ /\ sys' = [sys EXCEPT !.services = "down",
                                !.dump = [of |-> ses.kind, flags |-> sys.flags, fast |-> sys.fast]]
          /\ ses' = [ses EXCEPT !.at = "firmware", !.dumped = TRUE]
       \/ \E d \in {sys.dump, NoDump} :
            sys' = [sys EXCEPT !.services = "down", !.dump = d] /\ GoTo("firmware")
       \/ UNCHANGED sys /\ End("stranded")
HandleFirmwareUpdate ==
    /\ At("firmware") /\ UNCHANGED sys
    /\ \/ GoTo("exec")
       \/ End("stranded")

\* "local" hides how the verification of the image ended: any image will do.
PlainPreCheck ==
    /\ At("check") /\ ~Advanced /\ UNCHANGED sys
    /\ \/ GoTo("stop_plain")
       \/ ses.kind = "cold" /\ End(ses.outcome)
StopSonicServices ==
    /\ At("stop_plain") /\ sys' = [sys EXCEPT !.services = "down"]
    /\ GoTo(IF ses.kind = "cold" THEN "clear_warm_boot" ELSE "clear_lingering")
\* Neither script stops when a command of these fails.
ClearWarmBoot ==
    /\ At("clear_warm_boot")
    /\ \E d \in {NoDump, sys.dump}, k \in {Empty, sys.kexec} :
        /\ sys' = [sys EXCEPT !.dump = d, !.kexec = k]
        /\ ses' = [ses EXCEPT !.at = "firmware", !.failed = Moved(d)]
ClearLingeringRebootConfig ==
    /\ At("clear_lingering")
    /\ \E d \in {NoDump, sys.dump}, k \in {Empty, sys.kexec}, f \in {{}, {"system"}} :
        /\ sys' = [sys EXCEPT !.flags = @ \ f, !.dump = d, !.kexec = k]
        /\ ses' = [ses EXCEPT !.at = "load_soft", !.failed = Moved(d)]
\* Whether the kernel loads is not looked at.
LoadKernelSoft ==
    /\ At("load_soft")
    /\ \E k \in {ses.target, sys.kexec} : sys' = [sys EXCEPT !.kexec = k]
    /\ GoTo("exec")

-----------------------------------------------------------------------------
\* Containers of the image that was running start what is latest; another image has its own.
Restarted == images' = [c \in Containers |-> IF running' = running THEN [images[c] EXCEPT !.runs = images[c].latest]
                                             ELSE FreshImages]
\* The flag of an upgrade that died outlives a warm boot: it is in the dump.
EndUpgrade == upgrade' = [NoUpgrade EXCEPT !.outcome = IF sys'.flags \cap Containers # {} THEN "died" ELSE "none"]
\* The last command of a script. An advanced reboot starts with the dump that is there, and its flags;
\* the dump it has loaded may go.
ExecReboot ==
    /\ ses.at = "exec" /\ ses.kind = "cold"
    /\ LoaderBoot /\ sys' = Booted(sys.dump, {}, FALSE) /\ Rebooted
    /\ Restarted /\ EndUpgrade /\ UNCHANGED sessions
WarmStart == Advanced /\ sys.dump # NoDump
ExecKexec ==
    /\ ses.at = "exec" /\ ses.kind # "cold" /\ sys.kexec # Empty
    /\ KexecBoot(sys.kexec) /\ Rebooted
    /\ \/ WarmStart /\ \E d \in {sys.dump, NoDump} : sys' = Booted(d, sys.dump.flags, sys.dump.fast)
       \/ ~WarmStart /\ sys' = Booted(sys.dump, {}, FALSE)
    /\ Restarted /\ EndUpgrade /\ UNCHANGED sessions
ExecNothing == At("exec") /\ ses.kind # "cold" /\ UNCHANGED sys /\ End("stranded")
\* The finalizer of a warm boot, which runs by itself once the system is settled.
FinalizeWarmBoot ==
    /\ sys.finalizing
    /\ sys' = [sys EXCEPT !.flags = @ \ {"system"}, !.fast = FALSE, !.finalizing = FALSE]
    /\ UNCHANGED <<imageVars, ses, upgrade, images, sessions>>
PowerCut ==
    /\ LoaderBoot
    /\ sys' = Booted(sys.dump, {}, FALSE) /\ ses' = Idle
    /\ Restarted /\ EndUpgrade /\ UNCHANGED sessions

Script ==
    \/ StartReboot \/ CheckWarmRestartInProgress \/ SetFastFlag \/ EnableWarmRestart \/ Prepare
    \/ RebootPreCheck \/ LoadKernel \/ SetupControlPlaneAssistant \/ FreezeOrchagent \/ DelayCounters
    \/ Commit \/ StopServices \/ HandleFirmwareUpdate \/ PlainPreCheck \/ StopSonicServices
    \/ ClearWarmBoot \/ ClearLingeringRebootConfig \/ LoadKernelSoft \/ ExecNothing
    \/ UnloadKernel \/ TeardownControlPlaneAssistant \/ DisableWarmRestart \/ ClearDump \/ EndOfHandler
Boot == ExecReboot \/ ExecKexec \/ PowerCut
=============================================================================
