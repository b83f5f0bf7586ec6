-------------------------- MODULE DeviceUpgrade_proofs --------------------------
(***************************************************************************)
(* Theorems about reboots and docker upgrades of a careful device: what a     *)
(* session has done so far says what it leaves, at each of its steps; and     *)
(* about config save, load, reload and load_minigraph: what a command still   *)
(* has to do says what it has done.                                          *)
(***************************************************************************)
EXTENDS DeviceUpgrade, FiniteSetTheorems, WellFoundedInduction, SequenceTheorems, TLAPS

Steps1 == {"idle", "prepare", "check", "firmware", "exec"}   \* of any reboot
Handler == {"unload", "teardown", "disable", "clear", "end"}
Advancing == {"in_progress", "mark", "load", "assist", "freeze", "delay", "commit", "stop"} \cup Handler
Plain == {"stop_plain", "clear_warm_boot", "clear_lingering", "load_soft"}

\* The variables are records with these fields; an image may be any that the loader names.
SysShape ==
    /\ DOMAIN sys = {"flags", "fast", "kexec", "dump", "cpa", "frozen", "routes", "services", "finalizing"}
    /\ sys.fast \in BOOLEAN /\ sys.cpa \in BOOLEAN /\ sys.finalizing \in BOOLEAN
    /\ sys.dump.fast \in BOOLEAN
SesShape ==
    /\ DOMAIN ses = {"at", "kind", "force", "assist", "target", "found", "dumped", "failed", "outcome"}
    /\ ses.assist \in BOOLEAN /\ ses.dumped \in BOOLEAN
    /\ ses.at \in Steps1 \cup Advancing \cup Plain
UpgradeShape ==
    /\ DOMAIN upgrade = {"at", "of", "warm", "skip", "flagged", "previous", "outcome"}
    /\ upgrade.warm \in BOOLEAN /\ upgrade.flagged \in BOOLEAN
    /\ upgrade.at \in {"idle", "load", "check", "replace", "reconcile"}
    /\ images \in [Containers -> [tags : SUBSET {"old", "new"}, latest : {"old", "new"}, runs : {"old", "new"}]]
DeviceShape == SysShape /\ SesShape /\ UpgradeShape

OneAtATime == ses.at = "idle" \/ upgrade.at = "idle"

(* The reboot session. *)

\* Nothing is left of a session but what a command of the exit handler failed to take back.
KernelGone == sys.kexec = Empty \/ "unload" \in ses.failed
AssistantGone == ~sys.cpa \/ "teardown" \in ses.failed
FlagGone == "system" \notin sys.flags \/ sys.finalizing \/ ses.failed \cap {"teardown", "disable"} # {}
FastGone == ~sys.fast \/ sys.finalizing \/ ses.failed \cap {"teardown", "delete"} # {}
Clean == KernelGone /\ AssistantGone /\ FlagGone /\ FastGone
\* The steps of an advanced reboot that is not committed, after its first check.
Undone == {"mark", "prepare", "check", "load", "assist", "freeze", "delay", "commit"} \cup Handler
\* What a session may still leave as it found it, or undo, and what the exit handler has undone.
CanBeUndone ==
    ses.outcome # "stranded" =>
        /\ ses.at \in {"idle", "in_progress"} \/ (ses.at \in {"prepare", "check"} /\ ~Advanced) => Clean
        /\ ses.at \in Undone /\ Advanced =>
              /\ ses.kind # "fast" => FastGone
              /\ ~ses.assist => AssistantGone
        /\ ses.at \in Handler \ {"unload"} => KernelGone
        /\ ses.at \in {"disable", "clear", "end"} => AssistantGone
        /\ ses.at \in {"clear", "end"} => FlagGone
        /\ ses.at = "end" => FastGone

StepsFit ==
    /\ ses.at \in Advancing => Advanced
    /\ ses.at \in Plain => ~Advanced

\* What an advanced reboot has made sure of when it is at each step.
Marked == {"prepare", "check", "load", "assist", "freeze", "delay", "commit", "stop", "firmware", "exec"}
Checked == {"load", "assist", "freeze", "delay", "commit", "stop", "firmware", "exec"}
AdvancedSoFar ==
    Advanced =>
        /\ ses.at \in Marked => (sys.fast => "system" \in sys.flags)
        /\ ses.found # "flags" =>
              /\ ses.at \in Marked \cup {"mark"} => ~sys.finalizing
              /\ ses.at = "mark" => (sys.fast => ses.kind = "fast")
              /\ ses.at \in Marked => "system" \in sys.flags /\ (sys.fast = (ses.kind = "fast"))
              /\ ses.dumped => "system" \in sys.dump.flags /\ (sys.dump.fast = (ses.kind = "fast"))
        /\ ses.found = "nothing" /\ ~ses.dumped /\ ses.at \in Marked \cup {"mark"} => sys.dump = NoDump
        /\ ses.at \in Checked => ses.target \in dirs
        /\ ses.at \in Checked /\ ses.kind # "fast" /\ AsicConfig[running] # "none" =>
              AsicConfig[ses.target] = AsicConfig[running]
        /\ ses.at \in Checked \ {"load"} => sys.kexec = ses.target
DumpSoFar ==
    /\ sys.dump.fast => "system" \in sys.dump.flags
    /\ ses.dumped => ses.at \in {"firmware", "exec"}
PlainSoFar ==
    ~Advanced /\ ses.at \in {"load_soft", "firmware", "exec"} => sys.dump = NoDump \/ "move" \in ses.failed
TargetIsNext == ses.at = "check" => ses.target = GetNextImage

SessionInv == CanBeUndone /\ StepsFit /\ AdvancedSoFar /\ DumpSoFar /\ PlainSoFar /\ TargetIsNext

(* The docker upgrade. *)

Died == upgrade.outcome = "died"
Upgrading == upgrade.at \in {"load", "check", "replace", "reconcile"}
\* The only flag of a container is the one that the upgrade has set and will put back.
FlagIsMine ==
    ~Died => /\ sys.flags \cap Containers \subseteq IF Upgrading /\ upgrade.warm /\ C \in WarmContainers THEN {C} ELSE {}
             /\ ~upgrade.flagged
ImagesKept ==
    /\ \A c \in Containers : images[c].latest \in images[c].tags
    /\ ~Died => \A c \in Containers \ WarmContainers :
                  images[c].runs = images[c].latest \/ (upgrade.at \in {"check", "replace"} /\ c = C)
UpgradeSoFar ==
    /\ Upgrading => C \in Containers
    /\ upgrade.at = "load" => upgrade.previous = images[C].latest
    /\ upgrade.at = "check" => /\ upgrade.previous \in images[C].tags
                               /\ ~Died /\ C \notin WarmContainers => images[C].runs = upgrade.previous
    /\ upgrade.at \in {"check", "replace"} => images[C].latest = "new"
    /\ upgrade.at = "reconcile" => images[C].runs = images[C].latest
    /\ upgrade.at = "idle" /\ upgrade.outcome \in {"done", "failed", "refused"} =>
          C \in Containers /\ images[C].runs = images[C].latest

UpgradeInv == FlagIsMine /\ ImagesKept /\ UpgradeSoFar

DeviceInv == careful /\ DeviceShape /\ OneAtATime /\ SessionInv /\ UpgradeInv

-----------------------------------------------------------------------------
(* The steps of the reboot scripts. *)

LEMMA NextImageKept == UNCHANGED <<loader, env>> => GetNextImage' = GetNextImage
  BY DEF GetNextImage, GrubNextImage, UbootNextImage

\* What changes nothing of the upgrade, of the containers' images and of their flags keeps what is known of them.
LEMMA UpgradeKept ==
  ASSUME DeviceInv, UNCHANGED <<upgrade, images>>, sys'.flags \cap Containers = sys.flags \cap Containers
  PROVE  UpgradeInv'
  BY DEF DeviceInv, UpgradeInv, FlagIsMine, ImagesKept, UpgradeSoFar, Died, Upgrading, C

\* A step of a script leaves the images, the loader and the containers alone.
LEMMA ScriptFrame == Script => UNCHANGED <<imageVars, upgrade, images>>
<1> SUFFICES ASSUME Script PROVE UNCHANGED <<imageVars, upgrade, images>>
  OBVIOUS
<1> USE DEF At, imageVars
<1>1. CASE StartReboot
  BY <1>1 DEF StartReboot
<1>2. CASE CheckWarmRestartInProgress
  BY <1>2 DEF CheckWarmRestartInProgress
<1>3. CASE SetFastFlag
  BY <1>3 DEF SetFastFlag
<1>4. CASE EnableWarmRestart
  BY <1>4 DEF EnableWarmRestart
<1>5. CASE Prepare
  BY <1>5 DEF Prepare
<1>6. CASE RebootPreCheck
  BY <1>6 DEF RebootPreCheck
<1>7. CASE LoadKernel
  BY <1>7 DEF LoadKernel
<1>8. CASE SetupControlPlaneAssistant
  BY <1>8 DEF SetupControlPlaneAssistant
<1>9. CASE FreezeOrchagent
  BY <1>9 DEF FreezeOrchagent
<1>10. CASE DelayCounters
  BY <1>10 DEF DelayCounters
<1>11. CASE Commit
  BY <1>11 DEF Commit
<1>12. CASE StopServices
  BY <1>12 DEF StopServices
<1>13. CASE HandleFirmwareUpdate
  BY <1>13 DEF HandleFirmwareUpdate
<1>14. CASE PlainPreCheck
  BY <1>14 DEF PlainPreCheck
<1>15. CASE StopSonicServices
  BY <1>15 DEF StopSonicServices
<1>16. CASE ClearWarmBoot
  BY <1>16 DEF ClearWarmBoot
<1>17. CASE ClearLingeringRebootConfig
  BY <1>17 DEF ClearLingeringRebootConfig
<1>18. CASE LoadKernelSoft
  BY <1>18 DEF LoadKernelSoft
<1>19. CASE ExecNothing
  BY <1>19 DEF ExecNothing
<1>20. CASE UnloadKernel
  BY <1>20 DEF UnloadKernel
<1>21. CASE TeardownControlPlaneAssistant
  BY <1>21 DEF TeardownControlPlaneAssistant
<1>22. CASE DisableWarmRestart
  BY <1>22 DEF DisableWarmRestart
<1>23. CASE ClearDump
  BY <1>23 DEF ClearDump
<1>24. CASE EndOfHandler
  BY <1>24 DEF EndOfHandler
<1> QED BY <1>1, <1>2, <1>3, <1>4, <1>5, <1>6, <1>7, <1>8, <1>9, <1>10, <1>11, <1>12, <1>13, <1>14, <1>15, <1>16, <1>17, <1>18, <1>19, <1>20, <1>21, <1>22, <1>23, <1>24 DEF Script

LEMMA NoDumpFields == NoDump.flags = {} /\ NoDump.fast = FALSE
  BY DEF NoDump

LEMMA ScriptSysShape == SysShape /\ Script => SysShape'
<1> SUFFICES ASSUME SysShape, Script PROVE SysShape'
  OBVIOUS
<1>1. CASE StartReboot
  BY <1>1 DEF SysShape, StartReboot, At, Abort, NoDump
<1>2. CASE CheckWarmRestartInProgress
  BY <1>2 DEF SysShape, CheckWarmRestartInProgress, At, Abort, NoDump
<1>3. CASE SetFastFlag
  BY <1>3 DEF SysShape, SetFastFlag, At, Abort, NoDump
<1>4. CASE EnableWarmRestart
  BY <1>4 DEF SysShape, EnableWarmRestart, At, Abort, NoDump
<1>5. CASE Prepare
  BY <1>5 DEF SysShape, Prepare, At, Abort, NoDump
<1>6. CASE RebootPreCheck
  BY <1>6 DEF SysShape, RebootPreCheck, At, Abort, NoDump
<1>7. CASE LoadKernel
  BY <1>7 DEF SysShape, LoadKernel, At, Abort, NoDump
<1>8. CASE SetupControlPlaneAssistant
  BY <1>8 DEF SysShape, SetupControlPlaneAssistant, At, Abort, NoDump
<1>9. CASE FreezeOrchagent
  BY <1>9 DEF SysShape, FreezeOrchagent, At, Abort, NoDump
<1>10. CASE DelayCounters
  BY <1>10 DEF SysShape, DelayCounters, At, Abort, NoDump
<1>11. CASE Commit
  BY <1>11 DEF SysShape, Commit, At, Abort, NoDump
<1>12. CASE StopServices
  <2>1. CASE sys' = [sys EXCEPT !.services = "down", !.dump = [of |-> ses.kind, flags |-> sys.flags, fast |-> sys.fast]]
    BY <2>1 DEF SysShape
  <2>2. CASE \E d \in {sys.dump, NoDump} : sys' = [sys EXCEPT !.services = "down", !.dump = d]
    <3>1. PICK d \in {sys.dump, NoDump} : sys' = [sys EXCEPT !.services = "down", !.dump = d]
      BY <2>2
    <3>2. d.fast \in BOOLEAN
      BY <3>1, NoDumpFields DEF SysShape
    <3> QED BY <3>1, <3>2 DEF SysShape
  <2> QED BY <1>12, <2>1, <2>2 DEF StopServices, SysShape
<1>13. CASE HandleFirmwareUpdate
  BY <1>13 DEF SysShape, HandleFirmwareUpdate, At, Abort, NoDump
<1>14. CASE PlainPreCheck
  BY <1>14 DEF SysShape, PlainPreCheck, At, Abort, NoDump
<1>15. CASE StopSonicServices
  BY <1>15 DEF SysShape, StopSonicServices, At, Abort, NoDump
<1>16. CASE ClearWarmBoot
  <2>1. PICK d \in {NoDump, sys.dump}, k \in {Empty, sys.kexec} : sys' = [sys EXCEPT !.dump = d, !.kexec = k]
    BY <1>16, Zenon DEF ClearWarmBoot
  <2>2. d.fast \in BOOLEAN
    BY <2>1, NoDumpFields DEF SysShape
  <2> QED BY <2>1, <2>2 DEF SysShape
<1>17. CASE ClearLingeringRebootConfig
  <2>1. PICK d \in {NoDump, sys.dump}, k \in {Empty, sys.kexec}, f \in {{}, {"system"}} :
           sys' = [sys EXCEPT !.flags = @ \ f, !.dump = d, !.kexec = k]
    BY <1>17, Zenon DEF ClearLingeringRebootConfig
  <2>2. d.fast \in BOOLEAN
    BY <2>1, NoDumpFields DEF SysShape
  <2> QED BY <2>1, <2>2 DEF SysShape
<1>18. CASE LoadKernelSoft
  BY <1>18 DEF SysShape, LoadKernelSoft, At, Abort, NoDump
<1>19. CASE ExecNothing
  BY <1>19 DEF SysShape, ExecNothing, At, Abort, NoDump
<1>20. CASE UnloadKernel
  BY <1>20 DEF SysShape, UnloadKernel, At, Abort, NoDump
<1>21. CASE TeardownControlPlaneAssistant
  BY <1>21 DEF SysShape, TeardownControlPlaneAssistant, At, Abort, NoDump
<1>22. CASE DisableWarmRestart
  BY <1>22 DEF SysShape, DisableWarmRestart, At, Abort, NoDump
<1>23. CASE ClearDump
  <2>1. PICK d \in {NoDump, sys.dump} :
           \/ sys' = [sys EXCEPT !.dump = d, !.fast = @ /\ ses.kind # "fast"]
           \/ sys' = [sys EXCEPT !.dump = d]
    BY <1>23, Zenon DEF ClearDump
  <2>2. d.fast \in BOOLEAN
    BY <2>1, NoDumpFields DEF SysShape
  <2> QED BY <2>1, <2>2 DEF SysShape
<1>24. CASE EndOfHandler
  BY <1>24 DEF SysShape, EndOfHandler, At, Abort, NoDump
<1> QED BY <1>1, <1>2, <1>3, <1>4, <1>5, <1>6, <1>7, <1>8, <1>9, <1>10, <1>11, <1>12, <1>13, <1>14, <1>15, <1>16, <1>17, <1>18, <1>19, <1>20, <1>21, <1>22, <1>23, <1>24 DEF Script

LEMMA ScriptSesShape == SesShape /\ Script => SesShape'
<1> SUFFICES ASSUME SesShape, Script PROVE SesShape'
  OBVIOUS
<1> USE DEF SesShape, Steps1, Handler, Advancing, Plain, Fails
<1>1. CASE StartReboot
  BY <1>1 DEF StartReboot, At, Abort, GoTo, EndWith, End, Idle
<1>2. CASE CheckWarmRestartInProgress
  <2>1. CASE End(ses.outcome)
    BY <2>1 DEF EndWith, End, Idle
  <2>2. CASE ~End(ses.outcome)
    BY <1>2, <2>2 DEF CheckWarmRestartInProgress
  <2> QED BY <2>1, <2>2
<1>3. CASE SetFastFlag
  BY <1>3 DEF SetFastFlag, At, Abort, GoTo, EndWith, End, Idle
<1>4. CASE EnableWarmRestart
  BY <1>4 DEF EnableWarmRestart, At, Abort, GoTo, EndWith, End, Idle
<1>5. CASE Prepare
  BY <1>5 DEF Prepare, At, Abort, GoTo, EndWith, End, Idle
<1>6. CASE RebootPreCheck
  BY <1>6 DEF RebootPreCheck, At, Abort, GoTo, EndWith, End, Idle
<1>7. CASE LoadKernel
  BY <1>7 DEF LoadKernel, At, Abort, GoTo, EndWith, End, Idle
<1>8. CASE SetupControlPlaneAssistant
  BY <1>8 DEF SetupControlPlaneAssistant, At, Abort, GoTo, EndWith, End, Idle
<1>9. CASE FreezeOrchagent
  BY <1>9 DEF FreezeOrchagent, At, Abort, GoTo, EndWith, End, Idle
<1>10. CASE DelayCounters
  BY <1>10 DEF DelayCounters, At, Abort, GoTo, EndWith, End, Idle
<1>11. CASE Commit
  BY <1>11 DEF Commit, At, Abort, GoTo, EndWith, End, Idle
<1>12. CASE StopServices
  BY <1>12 DEF StopServices, At, Abort, GoTo, EndWith, End, Idle
<1>13. CASE HandleFirmwareUpdate
  BY <1>13 DEF HandleFirmwareUpdate, At, Abort, GoTo, EndWith, End, Idle
<1>14. CASE PlainPreCheck
  BY <1>14 DEF PlainPreCheck, At, Abort, GoTo, EndWith, End, Idle
<1>15. CASE StopSonicServices
  BY <1>15 DEF StopSonicServices, At, Abort, GoTo, EndWith, End, Idle
<1>16. CASE ClearWarmBoot
  BY <1>16 DEF ClearWarmBoot, At, Abort, GoTo, EndWith, End, Idle
<1>17. CASE ClearLingeringRebootConfig
  BY <1>17 DEF ClearLingeringRebootConfig, At, Abort, GoTo, EndWith, End, Idle
<1>18. CASE LoadKernelSoft
  BY <1>18 DEF LoadKernelSoft, At, Abort, GoTo, EndWith, End, Idle
<1>19. CASE ExecNothing
  BY <1>19 DEF ExecNothing, At, Abort, GoTo, EndWith, End, Idle
<1>20. CASE UnloadKernel
  BY <1>20 DEF UnloadKernel, At, Abort, GoTo, EndWith, End, Idle
<1>21. CASE TeardownControlPlaneAssistant
  BY <1>21 DEF TeardownControlPlaneAssistant, At, Abort, GoTo, EndWith, End, Idle
<1>22. CASE DisableWarmRestart
  BY <1>22 DEF DisableWarmRestart, At, Abort, GoTo, EndWith, End, Idle
<1>23. CASE ClearDump
  BY <1>23 DEF ClearDump, At, Abort, GoTo, EndWith, End, Idle
<1>24. CASE EndOfHandler
  BY <1>24 DEF EndOfHandler, At, Abort, GoTo, EndWith, End, Idle
<1> QED BY <1>1, <1>2, <1>3, <1>4, <1>5, <1>6, <1>7, <1>8, <1>9, <1>10, <1>11, <1>12, <1>13, <1>14, <1>15, <1>16, <1>17, <1>18, <1>19, <1>20, <1>21, <1>22, <1>23, <1>24 DEF Script

LEMMA ScriptShape == DeviceShape /\ Script => DeviceShape'
  BY ScriptFrame, ScriptSysShape, ScriptSesShape DEF DeviceShape, UpgradeShape

\* The flags of containers are not the scripts' business.
LEMMA ScriptFlags == SysShape /\ Script => sys'.flags \cap Containers = sys.flags \cap Containers
<1> SUFFICES ASSUME SysShape, Script PROVE sys'.flags \cap Containers = sys.flags \cap Containers
  OBVIOUS
<1>0. \/ sys'.flags = sys.flags
      \/ sys'.flags = sys.flags \cup {"system"}
      \/ sys'.flags = sys.flags \ {"system"}
  <2> USE DEF SysShape, At, Abort, NoDump
  <2>1. CASE StartReboot
    BY <2>1 DEF StartReboot
  <2>2. CASE CheckWarmRestartInProgress
    BY <2>2 DEF CheckWarmRestartInProgress
  <2>3. CASE SetFastFlag
    BY <2>3 DEF SetFastFlag
  <2>4. CASE EnableWarmRestart
    BY <2>4 DEF EnableWarmRestart
  <2>5. CASE Prepare
    BY <2>5 DEF Prepare
  <2>6. CASE RebootPreCheck
    BY <2>6 DEF RebootPreCheck
  <2>7. CASE LoadKernel
    BY <2>7 DEF LoadKernel
  <2>8. CASE SetupControlPlaneAssistant
    BY <2>8 DEF SetupControlPlaneAssistant
  <2>9. CASE FreezeOrchagent
    BY <2>9 DEF FreezeOrchagent
  <2>10. CASE DelayCounters
    BY <2>10 DEF DelayCounters
  <2>11. CASE Commit
    BY <2>11 DEF Commit
  <2>12. CASE StopServices
    BY <2>12 DEF StopServices
  <2>13. CASE HandleFirmwareUpdate
    BY <2>13 DEF HandleFirmwareUpdate
  <2>14. CASE PlainPreCheck
    BY <2>14 DEF PlainPreCheck
  <2>15. CASE StopSonicServices
    BY <2>15 DEF StopSonicServices
  <2>16. CASE ClearWarmBoot
    BY <2>16 DEF ClearWarmBoot
  <2>17. CASE ClearLingeringRebootConfig
    BY <2>17 DEF ClearLingeringRebootConfig
  <2>18. CASE LoadKernelSoft
    BY <2>18 DEF LoadKernelSoft
  <2>19. CASE ExecNothing
    BY <2>19 DEF ExecNothing
  <2>20. CASE UnloadKernel
    BY <2>20 DEF UnloadKernel
  <2>21. CASE TeardownControlPlaneAssistant
    BY <2>21 DEF TeardownControlPlaneAssistant
  <2>22. CASE DisableWarmRestart
    BY <2>22 DEF DisableWarmRestart
  <2>23. CASE ClearDump
    <3>1. PICK d \in {NoDump, sys.dump} :
             \/ sys' = [sys EXCEPT !.dump = d, !.fast = @ /\ ses.kind # "fast"]
             \/ sys' = [sys EXCEPT !.dump = d]
      BY <2>23, Zenon DEF ClearDump
    <3> QED BY <3>1
  <2>24. CASE EndOfHandler
    BY <2>24 DEF EndOfHandler
  <2> QED BY <2>1, <2>2, <2>3, <2>4, <2>5, <2>6, <2>7, <2>8, <2>9, <2>10, <2>11, <2>12, <2>13, <2>14, <2>15, <2>16, <2>17, <2>18, <2>19, <2>20, <2>21, <2>22, <2>23, <2>24 DEF Script
<1> QED BY <1>0, ContainersAssumption

\* A session that ends, or whose exit handler goes on, is not past its commitment.
LEMMA EndFields ==
  ASSUME NEW o, NEW f, EndWith(o, f)
  PROVE  /\ ses'.at = "idle" /\ ses'.kind = "none" /\ ses'.found = "nothing" /\ ~ses'.dumped
         /\ ses'.outcome = (IF ses.outcome = "stranded" THEN "stranded" ELSE o)
         /\ ses'.failed = f
  BY DEF EndWith, Idle

LEMMA SessionEnds ==
  ASSUME ses'.at = "idle", ses'.kind = "none", ~ses'.dumped, ses'.outcome = "stranded" \/ Clean',
         sys'.dump.fast => "system" \in sys'.dump.flags
  PROVE  SessionInv'
<1>1. CanBeUndone'
  BY DEF CanBeUndone, Undone, Handler, Advanced
<1>2. StepsFit'
  BY DEF StepsFit, Advancing, Handler, Plain, Advanced
<1>3. AdvancedSoFar' /\ DumpSoFar' /\ PlainSoFar' /\ TargetIsNext'
  BY DEF AdvancedSoFar, DumpSoFar, PlainSoFar, TargetIsNext, Advanced
<1> QED BY <1>1, <1>2, <1>3 DEF SessionInv

LEMMA HandlerGoesOn ==
  ASSUME ses.at \in Handler, ses'.at \in Handler, SessionInv, sys'.dump \in {sys.dump, NoDump},
         ses'.kind = ses.kind, ses'.dumped = ses.dumped, CanBeUndone'
  PROVE  SessionInv'
<1>1. ~ses'.dumped
  BY DEF SessionInv, DumpSoFar, Handler
<1>2. StepsFit'
  BY DEF SessionInv, StepsFit, Advancing, Handler, Plain, Advanced
<1>3. AdvancedSoFar'
  BY <1>1 DEF AdvancedSoFar, Marked, Checked, Handler
<1>4. DumpSoFar'
  BY <1>1, NoDumpFields DEF SessionInv, DumpSoFar
<1>5. PlainSoFar' /\ TargetIsNext'
  BY DEF PlainSoFar, TargetIsNext, Handler
<1> QED BY <1>1, <1>2, <1>3, <1>4, <1>5 DEF SessionInv

\* The steps of the exit handler: each takes back what it is for, or is remembered to have failed.
LEMMA HandlerSession ==
  ASSUME SysShape, SesShape, SessionInv,
         UnloadKernel \/ TeardownControlPlaneAssistant \/ DisableWarmRestart \/ ClearDump \/ EndOfHandler
  PROVE  SessionInv'
<1>0. CanBeUndone /\ StepsFit /\ DumpSoFar
  BY DEF SessionInv
<1>a. ses.at \in Handler => Advanced /\ ~ses.dumped
  BY <1>0 DEF StepsFit, DumpSoFar, Advancing, Handler, Advanced
<1> USE DEF At
<1>1. CASE UnloadKernel
  <2>1. /\ ses.at = "unload" /\ ses'.at = "teardown" /\ ses'.kind = ses.kind /\ ses'.assist = ses.assist
        /\ ses'.outcome = ses.outcome /\ ses'.dumped = ses.dumped
        /\ \/ sys'.kexec = Empty /\ ses'.failed = ses.failed
           \/ ses'.failed = ses.failed \cup {"unload"}
        /\ UNCHANGED <<sys.cpa, sys.flags, sys.fast, sys.finalizing, sys.dump>>
    BY <1>1 DEF UnloadKernel, GoTo, Fails, SesShape, SysShape
  <2>2. CanBeUndone'
    BY <1>0, <1>a, <2>1 DEF CanBeUndone, Undone, Handler, KernelGone, AssistantGone, FlagGone, FastGone, Advanced
  <2> QED BY <2>1, <2>2, HandlerGoesOn DEF Handler
<1>2. CASE TeardownControlPlaneAssistant
  <2>0. ses.at = "teardown"
    BY <1>2 DEF TeardownControlPlaneAssistant
  <2>1. CASE sys' = [sys EXCEPT !.cpa = @ /\ ~ses.assist] /\ GoTo("disable")
    <3>1. /\ ses'.at = "disable" /\ UNCHANGED <<ses.kind, ses.assist, ses.outcome, ses.dumped, ses.failed>>
          /\ sys'.cpa = (sys.cpa /\ ~ses.assist)
          /\ UNCHANGED <<sys.kexec, sys.flags, sys.fast, sys.finalizing, sys.dump>>
      BY <2>1 DEF GoTo, SesShape, SysShape
    <3>2. CanBeUndone'
      BY <1>0, <1>a, <2>0, <3>1 DEF CanBeUndone, Undone, Handler, KernelGone, AssistantGone, FlagGone, FastGone, Advanced
    <3> QED BY <2>0, <3>1, <3>2, HandlerGoesOn DEF Handler
  <2>2. CASE UNCHANGED sys /\ EndWith("aborted", ses.failed \cup {"teardown"})
    <3>1. /\ ses'.at = "idle" /\ ses'.kind = "none" /\ ~ses'.dumped /\ ses'.failed = ses.failed \cup {"teardown"}
          /\ (ses.outcome = "stranded" => ses'.outcome = "stranded")
      BY <2>2, EndFields
    <3>2. ses.outcome # "stranded" => KernelGone
      BY <1>0, <2>0 DEF CanBeUndone, Handler
    <3>3. ses'.outcome = "stranded" \/ Clean'
      BY <2>2, <3>1, <3>2 DEF Clean, KernelGone, AssistantGone, FlagGone, FastGone
    <3> QED BY <1>0, <2>2, <3>1, <3>3, SessionEnds DEF DumpSoFar
  <2> QED BY <1>2, <2>1, <2>2 DEF TeardownControlPlaneAssistant
<1>3. CASE DisableWarmRestart
  <2>1. /\ ses.at = "disable" /\ ses'.at = "clear" /\ ses'.kind = ses.kind /\ ses'.assist = ses.assist
        /\ ses'.outcome = ses.outcome /\ ses'.dumped = ses.dumped
        /\ \/ sys'.flags = sys.flags \ {"system"} /\ ses'.failed = ses.failed
           \/ ses'.failed = ses.failed \cup {"disable"}
        /\ UNCHANGED <<sys.kexec, sys.cpa, sys.fast, sys.finalizing, sys.dump>>
    BY <1>3 DEF DisableWarmRestart, GoTo, Fails, SesShape, SysShape
  <2>2. CanBeUndone'
    BY <1>0, <1>a, <2>1 DEF CanBeUndone, Undone, Handler, KernelGone, AssistantGone, FlagGone, FastGone, Advanced
  <2> QED BY <2>1, <2>2, HandlerGoesOn DEF Handler
<1>4. CASE ClearDump
  <2>0. PICK d \in {NoDump, sys.dump} :
           \/ sys' = [sys EXCEPT !.dump = d, !.fast = @ /\ ses.kind # "fast"] /\ GoTo("end")
           \/ ses.kind = "fast" /\ sys' = [sys EXCEPT !.dump = d] /\ Fails("delete", "end")
    BY <1>4, Zenon DEF ClearDump
  <2>1. /\ ses.at = "clear" /\ ses'.at = "end" /\ ses'.kind = ses.kind /\ ses'.assist = ses.assist
        /\ ses'.outcome = ses.outcome /\ ses'.dumped = ses.dumped
        /\ \/ sys'.fast = (sys.fast /\ ses.kind # "fast") /\ ses'.failed = ses.failed
           \/ ses.kind = "fast" /\ ses'.failed = ses.failed \cup {"delete"}
        /\ UNCHANGED <<sys.kexec, sys.cpa, sys.flags, sys.finalizing>>
        /\ sys'.dump = d
    BY <1>4, <2>0 DEF ClearDump, GoTo, Fails, SesShape, SysShape
  <2>2. CanBeUndone'
    BY <1>0, <1>a, <2>1 DEF CanBeUndone, Undone, Handler, KernelGone, AssistantGone, FlagGone, FastGone, Advanced
  <2> QED BY <2>0, <2>1, <2>2, HandlerGoesOn DEF Handler
<1>5. CASE EndOfHandler
  <2>1. ses.at = "end" /\ sys' = sys /\ End("aborted")
    BY <1>5 DEF EndOfHandler
  <2>2. ses.outcome # "stranded" => Clean
    BY <1>0, <2>1 DEF CanBeUndone, Handler, Clean
  <2>3. ses'.outcome = "stranded" \/ Clean'
    BY <2>1, <2>2, EndFields DEF End, Clean, KernelGone, AssistantGone, FlagGone, FastGone
  <2> QED BY <1>0, <2>1, <2>3, EndFields, SessionEnds DEF End, DumpSoFar
<1> QED BY <1>1, <1>2, <1>3, <1>4, <1>5

LEMMA ScriptSession == DeviceInv /\ Script => SessionInv'
<1> SUFFICES ASSUME DeviceInv, Script PROVE SessionInv'
  OBVIOUS
<1>0. SysShape /\ SesShape /\ SessionInv /\ UNCHANGED <<loader, env, dirs, running>> /\ GetNextImage' = GetNextImage
  BY ScriptFrame, NextImageKept DEF DeviceInv, DeviceShape, imageVars
<1>d. CanBeUndone /\ (sys.dump.fast => "system" \in sys.dump.flags)
  BY <1>0 DEF SessionInv, DumpSoFar
<1>b. CASE HandleFirmwareUpdate /\ End("stranded")
  <2>1. ses'.outcome = "stranded" /\ sys' = sys
    BY <1>b, EndFields DEF HandleFirmwareUpdate, End
  <2> QED BY <1>b, <1>d, <2>1, EndFields, SessionEnds DEF End
<1>c. CASE (PlainPreCheck \/ CheckWarmRestartInProgress) /\ End(ses.outcome)
  <2>1. sys' = sys /\ (ses.outcome = "stranded" \/ Clean)
    BY <1>c, <1>d DEF PlainPreCheck, CheckWarmRestartInProgress, At, CanBeUndone
  <2>2. ses'.outcome = "stranded" \/ Clean'
    BY <1>c, <2>1, EndFields DEF End, Clean, KernelGone, AssistantGone, FlagGone, FastGone
  <2> QED BY <1>c, <1>d, <2>1, <2>2, EndFields, SessionEnds DEF End
<1> USE DEF SysShape, SesShape, SessionInv, CanBeUndone, Clean, KernelGone, AssistantGone, FlagGone, FastGone, StepsFit, AdvancedSoFar, DumpSoFar, PlainSoFar, TargetIsNext, Undone,
            Steps1, Handler, Advancing, Plain, Marked, Checked, At, GoTo, EndWith, End, Abort, Fails, Idle, Advanced
\* The exit handler begins: of a session that is not committed all that may be left can still be undone.
<1>a. ASSUME ses.at \in Undone \ Handler, Advanced, ses' = [ses EXCEPT !.at = "unload"], SysShape',
             sys'.flags = sys.flags, sys'.fast = sys.fast, sys'.finalizing = sys.finalizing, sys'.dump = sys.dump,
             sys'.cpa \in {sys.cpa, sys.cpa \/ ses.assist}
      PROVE  SessionInv'
  <2>1. /\ ses'.at = "unload" /\ ses'.kind = ses.kind /\ ses'.assist = ses.assist /\ ses'.found = ses.found
        /\ ses'.dumped = ses.dumped /\ ses'.failed = ses.failed /\ ses'.outcome = ses.outcome
    BY <1>0, <1>a
  <2>2. ~ses.dumped
    BY <1>0, <1>a
  <2> QED BY <1>0, <1>a, <2>1, <2>2
<1>1. CASE StartReboot
  <2>1. PICK k \in Kinds, f \in BOOLEAN, a \in BOOLEAN :
           /\ f \/ a => k \in {"warm", "fastfast", "fast"}
           /\ ses' = [ses EXCEPT !.at = IF k \in {"cold", "soft"} THEN "prepare" ELSE "in_progress",
                                 !.kind = k, !.force = f, !.assist = a]
    BY <1>1, Zenon DEF StartReboot
  <2>2. ses.at = "idle" /\ sys' = sys
    BY <1>1 DEF StartReboot
  <2>3. /\ ses'.kind = k /\ ses'.outcome = ses.outcome /\ ses'.failed = ses.failed /\ ses'.dumped = ses.dumped
        /\ ses'.found = ses.found
        /\ ses'.at = IF k \in {"cold", "soft"} THEN "prepare" ELSE "in_progress"
    <3>1. SesShape
      BY <1>0
    <3> QED BY <2>1, <3>1
  <2>4. CASE k \in {"cold", "soft"}
    BY <1>0, <2>2, <2>3, <2>4
  <2>5. CASE k \notin {"cold", "soft"}
    BY <1>0, <2>2, <2>3, <2>5, KindsAssumption
  <2> QED BY <2>4, <2>5
<1>2. CASE CheckWarmRestartInProgress
  <2> USE DEF CheckWarmRestartInProgress
  <2>1. CASE sys.flags # {} /\ ~ses.force
    <3> HIDE DEF SessionInv, End
    <3> QED BY <1>c, <1>2, <2>1
  <2>2. CASE ~(sys.flags # {} /\ ~ses.force)
    <3>1. /\ ses.at = "in_progress" /\ sys' = sys /\ ses'.at = "mark" /\ ses'.kind = ses.kind /\ ses'.outcome = ses.outcome
          /\ ses'.failed = ses.failed /\ ses'.assist = ses.assist /\ ses'.dumped = ses.dumped
          /\ ses'.found = IF sys.flags # {} \/ sys.fast \/ sys.finalizing THEN "flags"
                          ELSE IF sys.dump # NoDump THEN "dump" ELSE "nothing"
      BY <1>0, <1>2, <2>2
    <3> HIDE DEF CheckWarmRestartInProgress
    <3> QED BY <1>0, <3>1
  <2> QED BY <2>1, <2>2
<1>3. CASE SetFastFlag
  <2>1. CASE Abort
    BY <1>0, <1>a, <1>3, <2>1 DEF SetFastFlag
  <2>2. CASE ~Abort
    <3> HIDE DEF Abort
    <3> QED BY <1>0, <1>3, <2>2 DEF SetFastFlag
  <2> QED BY <2>1, <2>2
<1>4. CASE EnableWarmRestart
  <2>1. CASE Abort
    BY <1>0, <1>a, <1>4, <2>1 DEF EnableWarmRestart
  <2>2. CASE ~Abort
    <3> HIDE DEF Abort
    <3> QED BY <1>0, <1>4, <2>2 DEF EnableWarmRestart
  <2> QED BY <2>1, <2>2
<1>5. CASE Prepare
  <2>1. CASE Advanced /\ Abort
    <3>1. ses.at \in Undone \ Handler /\ Advanced /\ ses' = [ses EXCEPT !.at = "unload"] /\ sys' = sys
      BY <1>5, <2>1 DEF Prepare
    <3> QED BY <1>0, <1>a, <3>1
  <2>2. CASE Advanced /\ ~Abort
    <3>1. /\ ses.at = "prepare" /\ ses'.at = "check" /\ ses'.target = GetNextImage
          /\ UNCHANGED <<ses.kind, ses.assist, ses.found, ses.dumped, ses.failed, ses.outcome>>
          /\ UNCHANGED <<sys.cpa, sys.flags, sys.fast, sys.finalizing, sys.dump>> /\ sys'.kexec = Empty
      <4>1. /\ ses.at = "prepare" /\ sys' = [sys EXCEPT !.kexec = Empty]
            /\ ses' = [ses EXCEPT !.at = "check", !.target = GetNextImage]
        BY <1>5, <2>2 DEF Prepare
      <4>2. SysShape /\ SesShape
        BY <1>0
      <4> QED BY <4>1, <4>2
    <3> QED BY <1>0, <2>2, <3>1
  <2>3. CASE ~Advanced
    <3>1. /\ ses.at = "prepare" /\ ses'.at = "check" /\ ses'.target = GetNextImage /\ sys' = sys
          /\ UNCHANGED <<ses.kind, ses.assist, ses.found, ses.dumped, ses.failed, ses.outcome>>
      BY <1>0, <1>5, <2>3 DEF Prepare
    <3> QED BY <1>0, <2>3, <3>1
  <2> QED BY <2>1, <2>2, <2>3
<1>6. CASE RebootPreCheck
  <2>1. CASE Abort
    BY <1>0, <1>a, <1>6, <2>1 DEF RebootPreCheck
  <2>2. CASE ~Abort
    <3> HIDE DEF Abort
    <3> QED BY <1>0, <1>6, <2>2 DEF RebootPreCheck, NextImageVerified, AsicConfigUnchanged
  <2> QED BY <2>1, <2>2
<1>7. CASE LoadKernel
  <2>1. CASE Abort
    BY <1>0, <1>a, <1>7, <2>1 DEF LoadKernel
  <2>2. CASE ~Abort
    <3> HIDE DEF Abort
    <3> QED BY <1>0, <1>7, <2>2 DEF LoadKernel
  <2> QED BY <2>1, <2>2
<1>8. CASE SetupControlPlaneAssistant
  <2>1. CASE GoTo("freeze")
    BY <1>0, <1>8, <2>1 DEF SetupControlPlaneAssistant
  <2>2. CASE ~GoTo("freeze")
    <3>1. PICK a \in {FALSE, ses.assist} : sys' = [sys EXCEPT !.cpa = @ \/ a] /\ GoTo("unload")
      BY <1>0, <1>8, <2>2 DEF SetupControlPlaneAssistant
    <3> QED BY <1>0, <1>a, <1>8, <3>1 DEF SetupControlPlaneAssistant
  <2> QED BY <2>1, <2>2
<1>9. CASE FreezeOrchagent
  <2>1. CASE Abort
    BY <1>0, <1>a, <1>9, <2>1 DEF FreezeOrchagent
  <2>2. CASE ~Abort
    <3> HIDE DEF Abort
    <3> QED BY <1>0, <1>9, <2>2 DEF FreezeOrchagent
  <2> QED BY <2>1, <2>2
<1>10. CASE DelayCounters
  <2>1. CASE GoTo("commit")
    BY <1>0, <1>10, <2>1 DEF DelayCounters
  <2>2. CASE ~GoTo("commit")
    <3>1. PICK k \in {Empty, sys.kexec} : sys' = [sys EXCEPT !.kexec = k] /\ GoTo("unload")
      BY <1>0, <1>10, <2>2 DEF DelayCounters
    <3> QED BY <1>0, <1>a, <1>10, <3>1 DEF DelayCounters
  <2> QED BY <2>1, <2>2
<1>11. CASE Commit
  BY <1>0, <1>11 DEF Commit
<1>12. CASE StopServices
  <2>1. CASE /\ sys' = [sys EXCEPT !.services = "down",
                                    !.dump = [of |-> ses.kind, flags |-> sys.flags, fast |-> sys.fast]]
             /\ ses' = [ses EXCEPT !.at = "firmware", !.dumped = TRUE]
    BY <1>0, <1>12, <2>1 DEF StopServices
  <2>3. CASE \E d \in {sys.dump, NoDump} : sys' = [sys EXCEPT !.services = "down", !.dump = d] /\ GoTo("firmware")
    BY <1>0, <1>12, <2>3 DEF StopServices, NoDump
  <2>2. CASE UNCHANGED sys /\ End("stranded")
    BY <1>0, <1>12, <2>2 DEF StopServices
  <2> QED BY <1>12, <2>1, <2>2, <2>3 DEF StopServices
<1>13. CASE HandleFirmwareUpdate
  <2>1. CASE GoTo("exec")
    BY <1>0, <1>13, <2>1 DEF HandleFirmwareUpdate
  <2>2. CASE ~GoTo("exec")
    <3> HIDE DEF SessionInv, End, GoTo
    <3> QED BY <1>b, <1>13, <2>2 DEF HandleFirmwareUpdate
  <2> QED BY <2>1, <2>2
<1>14. CASE PlainPreCheck
  <2>1. CASE GoTo("stop_plain")
    BY <1>0, <1>14, <2>1 DEF PlainPreCheck
  <2>2. CASE ~GoTo("stop_plain")
    <3> HIDE DEF SessionInv, End, GoTo
    <3> QED BY <1>c, <1>14, <2>2 DEF PlainPreCheck
  <2> QED BY <2>1, <2>2
<1>15. CASE StopSonicServices
  BY <1>0, <1>15 DEF StopSonicServices
<1>16. CASE ClearWarmBoot
  BY <1>0, <1>16 DEF ClearWarmBoot, NoDump, Moved
<1>17. CASE ClearLingeringRebootConfig
  BY <1>0, <1>17 DEF ClearLingeringRebootConfig, NoDump, Moved
<1>18. CASE LoadKernelSoft
  BY <1>0, <1>18 DEF LoadKernelSoft
<1>19. CASE ExecNothing
  BY <1>0, <1>19 DEF ExecNothing
<1>20. CASE UnloadKernel
  BY <1>0, <1>20, HandlerSession
<1>21. CASE TeardownControlPlaneAssistant
  BY <1>0, <1>21, HandlerSession
<1>22. CASE DisableWarmRestart
  BY <1>0, <1>22, HandlerSession
<1>23. CASE ClearDump
  BY <1>0, <1>23, HandlerSession
<1>24. CASE EndOfHandler
  BY <1>0, <1>24, HandlerSession
<1> QED BY <1>1, <1>2, <1>3, <1>4, <1>5, <1>6, <1>7, <1>8, <1>9, <1>10, <1>11, <1>12, <1>13, <1>14, <1>15, <1>16, <1>17, <1>18, <1>19, <1>20, <1>21, <1>22, <1>23, <1>24 DEF Script

\* A step of a script keeps all that is known.
LEMMA ScriptStep == DeviceInv /\ upgrade.at = "idle" /\ Script => DeviceInv'
  BY ScriptFrame, ScriptShape, ScriptFlags, ScriptSession, UpgradeKept DEF DeviceInv, DeviceShape, OneAtATime, imageVars

-----------------------------------------------------------------------------
(* The steps of a docker upgrade. *)

\* A docker upgrade runs when no reboot does, and leaves alone what a reboot has to do with.
LEMMA UpgradeFrame ==
  ASSUME DeviceInv, Upgrade
  PROVE  /\ UNCHANGED <<imageVars, ses>> /\ ses.at = "idle" /\ SysShape'
         /\ sys'.fast = sys.fast /\ sys'.kexec = sys.kexec /\ sys'.cpa = sys.cpa /\ sys'.finalizing = sys.finalizing
         /\ sys'.dump = sys.dump /\ ("system" \in sys'.flags) = ("system" \in sys.flags)
<1>0. SysShape /\ careful /\ OneAtATime /\ (Upgrading => C \in Containers)
  BY DEF DeviceInv, DeviceShape, UpgradeInv, UpgradeSoFar
<1> USE ContainersAssumption DEF SysShape, OneAtATime, U, RestoreFlag, Upgrading
<1>1. CASE UpgradeDocker
  BY <1>0, <1>1 DEF UpgradeDocker
<1>2. CASE LoadImage
  BY <1>0, <1>2 DEF LoadImage
<1>3. CASE CheckOrchagent
  BY <1>0, <1>3 DEF CheckOrchagent
<1>4. CASE ReplaceContainer
  BY <1>0, <1>4 DEF ReplaceContainer
<1>5. CASE Reconcile
  BY <1>0, <1>5 DEF Reconcile
<1>6. CASE \E c \in Containers : RollbackDocker(c)
  BY <1>0, <1>6 DEF RollbackDocker
<1> QED BY <1>1, <1>2, <1>3, <1>4, <1>5, <1>6 DEF Upgrade

LEMMA UpgradeSession == DeviceInv /\ Upgrade => SessionInv' /\ SysShape' /\ SesShape' /\ OneAtATime' /\ careful'
<1> SUFFICES ASSUME DeviceInv, Upgrade PROVE SessionInv' /\ SysShape' /\ SesShape' /\ OneAtATime' /\ careful'
  OBVIOUS
<1>1. SesShape' /\ OneAtATime' /\ careful' /\ SysShape'
  BY UpgradeFrame DEF DeviceInv, DeviceShape, SesShape, OneAtATime, imageVars
<1>2. SessionInv'
  BY UpgradeFrame DEF DeviceInv, SessionInv, CanBeUndone, Clean, KernelGone, AssistantGone, FlagGone, FastGone, StepsFit, AdvancedSoFar, DumpSoFar, PlainSoFar, TargetIsNext,
                      Undone, Steps1, Handler, Advancing, Plain, Marked, Checked, Advanced
<1> QED BY <1>1, <1>2

\* Of two tags one is not the latest.
LEMMA OtherTag ==
  ASSUME NEW T, NEW t \in T, Cardinality(T) = 2
  PROVE  \E u \in T : u # t
<1> SUFFICES ASSUME \A u \in T : u = t PROVE FALSE
  OBVIOUS
<1>1. T = {t}
  OBVIOUS
<1>2. Cardinality({t}) = 1
  BY FS_Singleton
<1> QED BY <1>1, <1>2

LEMMA RollbackImages ==
  ASSUME UpgradeShape, NEW c \in Containers, NEW l \in {"old", "new"},
         images' = [images EXCEPT ![c].latest = l, ![c].runs = IF c \in WarmContainers THEN @ ELSE l]
  PROVE  /\ images' \in [Containers -> [tags : SUBSET {"old", "new"}, latest : {"old", "new"}, runs : {"old", "new"}]]
         /\ images'[c].tags = images[c].tags /\ images'[c].latest = l /\ (c \notin WarmContainers => images'[c].runs = l)
         /\ \A d \in Containers \ {c} : images'[d] = images[d]
<1>0. images \in [Containers -> [tags : SUBSET {"old", "new"}, latest : {"old", "new"}, runs : {"old", "new"}]]
  BY DEF UpgradeShape
<1>1. CASE c \in WarmContainers
  BY <1>0, <1>1
<1>2. CASE c \notin WarmContainers
  BY <1>0, <1>2
<1> QED BY <1>1, <1>2

LEMMA UpgradeStep == DeviceInv /\ Upgrade => UpgradeInv' /\ UpgradeShape'
<1> SUFFICES ASSUME DeviceInv, Upgrade PROVE UpgradeInv' /\ UpgradeShape'
  OBVIOUS
<1>0. UpgradeInv /\ UpgradeShape /\ SysShape
  BY DEF DeviceInv, DeviceShape
<1> USE DEF UpgradeInv, FlagIsMine, ImagesKept, UpgradeSoFar, Died, Upgrading, U, C, Warm, GoOn, Finish, RestoreFlag,
            NoUpgrade, UpgradeShape, SysShape
<1>1. CASE UpgradeDocker
  <2>1. PICK c \in Containers, w \in BOOLEAN, k \in BOOLEAN :
           /\ upgrade' = [at |-> "load", of |-> c, warm |-> w, skip |-> k, flagged |-> c \in sys.flags,
                          previous |-> images[c].latest, outcome |-> upgrade.outcome]
           /\ sys' = IF w /\ c \in WarmContainers THEN [sys EXCEPT !.flags = @ \cup {c}] ELSE sys
    BY <1>1, Zenon DEF UpgradeDocker
  <2>2. UNCHANGED images /\ upgrade.at = "idle"
    BY <1>1 DEF UpgradeDocker
  <2>3. sys'.flags = IF w /\ c \in WarmContainers THEN sys.flags \cup {c} ELSE sys.flags
    BY <1>0, <2>1
  <2> QED BY <1>0, <2>1, <2>2, <2>3
<1>2. CASE LoadImage
  <2>1. CASE UNCHANGED images /\ Finish("died")
    BY <1>0, <1>2, <2>1 DEF LoadImage
  <2>2. CASE images' = [images EXCEPT ![C].tags = @ \cup {"new"}, ![C].latest = "new"]
             /\ GoOn(IF Warm /\ C = "swss" THEN "check" ELSE "replace")
    <3>1. C \in Containers /\ upgrade.at = "load" /\ sys' = sys
      BY <1>0, <1>2 DEF LoadImage
    <3>2. /\ images' \in [Containers -> [tags : SUBSET {"old", "new"}, latest : {"old", "new"}, runs : {"old", "new"}]]
          /\ images'[C].tags = images[C].tags \cup {"new"} /\ images'[C].latest = "new" /\ images'[C].runs = images[C].runs
          /\ \A c \in Containers \ {C} : images'[c] = images[c]
      BY <1>0, <2>2, <3>1
    <3>3. /\ DOMAIN upgrade' = DOMAIN upgrade /\ upgrade'.at \in {"check", "replace"}
          /\ \A f \in DOMAIN upgrade \ {"at"} : upgrade'[f] = upgrade[f]
      BY <1>0, <2>2
    <3> QED BY <1>0, <3>1, <3>2, <3>3
  <2> QED BY <1>2, <2>1, <2>2 DEF LoadImage
<1>3. CASE CheckOrchagent
  <2>1. C \in Containers /\ upgrade.at = "check"
    BY <1>0, <1>3 DEF CheckOrchagent
  <2>2. CASE GoOn("replace")
    <3>1. upgrade'.at = "replace"
      BY <1>0, <2>2
    <3>2. ~Finish(IF images[C].runs = upgrade.previous THEN "refused" ELSE "rolled_back")
      BY <3>1
    <3>3. images' = images /\ sys'.flags = sys.flags
      <4> HIDE DEF Finish
      <4> QED BY <1>0, <1>3, <3>2 DEF CheckOrchagent
    <3> QED BY <1>0, <2>1, <2>2, <3>3
  <2>3. CASE ~GoOn("replace")
    <3>1. /\ RestoreFlag /\ Finish(IF images[C].runs = upgrade.previous THEN "refused" ELSE "rolled_back")
          /\ images' = [images EXCEPT ![C].tags = IF upgrade.previous = "new" THEN @ ELSE @ \ {"new"},
                                      ![C].latest = upgrade.previous]
      BY <1>0, <1>3, <2>3 DEF CheckOrchagent
    <3>2. upgrade.previous \in images[C].tags /\ upgrade.previous \in {"old", "new"}
      BY <1>0, <2>1
    <3>3. /\ images' \in [Containers -> [tags : SUBSET {"old", "new"}, latest : {"old", "new"}, runs : {"old", "new"}]]
          /\ images'[C].latest = upgrade.previous /\ images'[C].runs = images[C].runs
          /\ images'[C].latest \in images'[C].tags
          /\ \A c \in Containers \ {C} : images'[c] = images[c]
      BY <1>0, <2>1, <3>1, <3>2
    <3>4. sys'.flags \cap Containers \subseteq sys.flags \cap Containers
          /\ (upgrade.warm /\ C \in WarmContainers /\ ~upgrade.flagged => C \notin sys'.flags)
      BY <1>0, <3>1
    <3>5. /\ DOMAIN upgrade' = DOMAIN NoUpgrade /\ upgrade'.at = "idle" /\ upgrade'.of = C
          /\ ~upgrade'.flagged /\ ~upgrade'.warm /\ upgrade'.flagged \in BOOLEAN /\ upgrade'.warm \in BOOLEAN
          /\ upgrade'.outcome \in {"died", "refused", "rolled_back"}
          /\ Died => upgrade'.outcome = "died"
          /\ upgrade'.outcome = "refused" => images[C].runs = upgrade.previous
      BY <3>1
    <3>6. FlagIsMine'
      BY <1>0, <2>1, <3>4, <3>5
    <3>7. ImagesKept'
      BY <1>0, <2>1, <3>3, <3>5
    <3>8. UpgradeSoFar' /\ UpgradeShape'
      BY <1>0, <2>1, <3>3, <3>5
    <3> QED BY <3>6, <3>7, <3>8
  <2> QED BY <2>2, <2>3
<1>4. CASE ReplaceContainer
  <2>1. C \in Containers /\ upgrade.at = "replace"
    BY <1>0, <1>4 DEF ReplaceContainer
  <2>2. CASE Finish("died")
    BY <1>0, <1>4, <2>1, <2>2 DEF ReplaceContainer
  <2>3. CASE GoOn("reconcile")
    <3>1. PICK gone \in {{}, {upgrade.previous} \ {"new"}} :
             images' = [images EXCEPT ![C].runs = images[C].latest, ![C].tags = @ \ gone]
      BY <1>0, <1>4, <2>3 DEF ReplaceContainer
    <3>2. /\ images' \in [Containers -> [tags : SUBSET {"old", "new"}, latest : {"old", "new"}, runs : {"old", "new"}]]
          /\ images'[C].latest = images[C].latest /\ images'[C].runs = images[C].latest
          /\ images'[C].tags = images[C].tags \ gone
          /\ \A c \in Containers \ {C} : images'[c] = images[c]
      BY <1>0, <2>1, <3>1
    <3>3. images[C].latest = "new" /\ "new" \in images'[C].tags
      BY <1>0, <2>1, <3>2
    <3>4. sys'.flags = sys.flags
      BY <1>0, <1>4, <2>3 DEF ReplaceContainer
    <3>5. /\ DOMAIN upgrade' = DOMAIN upgrade /\ upgrade'.at = "reconcile"
          /\ \A f \in DOMAIN upgrade \ {"at"} : upgrade'[f] = upgrade[f]
      BY <1>0, <2>3
    <3> QED BY <1>0, <2>1, <3>2, <3>3, <3>4, <3>5
  <2> QED BY <1>4, <2>2, <2>3 DEF ReplaceContainer
<1>5. CASE Reconcile
  BY <1>0, <1>5 DEF Reconcile
<1>6. CASE \E c \in Containers : RollbackDocker(c)
  <2>1. PICK c \in Containers : RollbackDocker(c)
    BY <1>6
  <2> DEFINE other == CHOOSE t \in images[c].tags : t # images[c].latest
  <2>2. other \in images[c].tags
    BY <1>0, <2>1, OtherTag DEF RollbackDocker
  <2>3. /\ upgrade.at = "idle" /\ sys' = sys
        /\ images' = [images EXCEPT ![c].latest = other, ![c].runs = IF c \in WarmContainers THEN @ ELSE other]
        /\ upgrade' = [upgrade EXCEPT !.of = c, !.outcome = IF @ = "died" THEN @ ELSE "rolled_back"]
    BY <2>1 DEF RollbackDocker
  <2> HIDE DEF other
  <2>4. /\ images' \in [Containers -> [tags : SUBSET {"old", "new"}, latest : {"old", "new"}, runs : {"old", "new"}]]
        /\ images'[c].tags = images[c].tags /\ images'[c].latest = other /\ (c \notin WarmContainers => images'[c].runs = other)
        /\ \A d \in Containers \ {c} : images'[d] = images[d]
    <3>1. other \in {"old", "new"} /\ UpgradeShape
      BY <1>0, <2>2
    <3> HIDE DEF UpgradeShape
    <3> QED BY <2>3, <3>1, RollbackImages
  <2> QED BY <1>0, <2>2, <2>3, <2>4
<1> QED BY <1>1, <1>2, <1>3, <1>4, <1>5, <1>6 DEF Upgrade

-----------------------------------------------------------------------------
(* A boot, the finalizer of a warm boot, and what does not concern them. *)

LEMMA BootUpgrade == DeviceInv /\ Boot => UpgradeInv' /\ UpgradeShape'
<1> SUFFICES ASSUME DeviceInv, Boot PROVE UpgradeInv' /\ UpgradeShape'
  OBVIOUS
<1>1. Restarted /\ EndUpgrade
  BY DEF Boot, ExecReboot, ExecKexec, PowerCut
<1>2. UpgradeInv /\ UpgradeShape
  BY DEF DeviceInv, DeviceShape
<1>3. /\ images' \in [Containers -> [tags : SUBSET {"old", "new"}, latest : {"old", "new"}, runs : {"old", "new"}]]
      /\ \A c \in Containers : images'[c].latest \in images'[c].tags /\ images'[c].runs = images'[c].latest
  <2>1. CASE running' = running
    BY <1>1, <1>2, <2>1 DEF Restarted, UpgradeInv, ImagesKept, UpgradeShape
  <2>2. CASE running' # running
    BY <1>1, <2>2 DEF Restarted, FreshImages
  <2> QED BY <2>1, <2>2
<1>4. /\ DOMAIN upgrade' = {"at", "of", "warm", "skip", "flagged", "previous", "outcome"} /\ upgrade'.at = "idle"
      /\ upgrade'.warm \in BOOLEAN /\ upgrade'.flagged \in BOOLEAN /\ ~upgrade'.flagged
      /\ upgrade'.outcome = IF sys'.flags \cap Containers # {} THEN "died" ELSE "none"
  BY <1>1 DEF EndUpgrade, NoUpgrade
<1> QED
  BY <1>3, <1>4 DEF UpgradeInv, FlagIsMine, ImagesKept, UpgradeSoFar, UpgradeShape, Died, Upgrading

LEMMA BootSession == DeviceInv /\ Boot => SessionInv' /\ SysShape' /\ SesShape' /\ careful'
<1> SUFFICES ASSUME DeviceInv, Boot PROVE SessionInv' /\ SysShape' /\ SesShape' /\ careful'
  OBVIOUS
<1>0. SysShape /\ SesShape /\ SessionInv /\ careful
  BY DEF DeviceInv, DeviceShape
<1>1. careful'
  BY <1>0 DEF Boot, ExecReboot, ExecKexec, PowerCut, LoaderBoot, KexecBoot
<1>2. SesShape' /\ ses'.at = "idle" /\ ~ses'.dumped
  <2>1. Rebooted \/ ses' = Idle
    BY DEF Boot, ExecReboot, ExecKexec, PowerCut
  <2>2. CASE Rebooted
    BY <2>2 DEF Rebooted, Idle, SesShape, Steps1
  <2>3. CASE ses' = Idle
    BY <2>3 DEF Idle, SesShape, Steps1
  <2> QED BY <2>1, <2>2, <2>3
<1>3. SysShape' /\ Clean' /\ (sys'.dump.fast => "system" \in sys'.dump.flags)
  <2> USE DEF SysShape, Booted, Clean, KernelGone, AssistantGone, FlagGone, FastGone, NoDump
  <2>0. sys.dump.fast => "system" \in sys.dump.flags
    BY <1>0 DEF SessionInv, DumpSoFar
  <2>1. CASE ExecReboot
    BY <1>0, <2>0, <2>1 DEF ExecReboot
  <2>2. CASE PowerCut
    BY <1>0, <2>0, <2>2 DEF PowerCut
  <2>3. CASE ExecKexec
    <3>1. \/ \E d \in {sys.dump, NoDump} : sys' = Booted(d, sys.dump.flags, sys.dump.fast)
          \/ sys' = Booted(sys.dump, {}, FALSE)
      BY <2>3 DEF ExecKexec
    <3>2. sys.dump.fast => "system" \in sys.dump.flags
      BY <1>0 DEF SessionInv, DumpSoFar
    <3>3. CASE sys' = Booted(sys.dump, {}, FALSE)
      BY <1>0, <3>2, <3>3
    <3>4. CASE \E d \in {sys.dump, NoDump} : sys' = Booted(d, sys.dump.flags, sys.dump.fast)
      <4>1. PICK d \in {sys.dump, NoDump} : sys' = Booted(d, sys.dump.flags, sys.dump.fast)
        BY <3>4
      <4>2. d.fast \in BOOLEAN /\ (d.fast => "system" \in d.flags)
        <5> HIDE DEF NoDump, Booted
        <5> QED BY <1>0, <3>2, <4>1, NoDumpFields
      <4> QED BY <1>0, <3>2, <4>1, <4>2
    <3> QED BY <3>1, <3>3, <3>4
  <2> QED BY <2>1, <2>2, <2>3 DEF Boot
<1> QED
  BY <1>1, <1>2, <1>3 DEF SessionInv, CanBeUndone, StepsFit, AdvancedSoFar, DumpSoFar, PlainSoFar, TargetIsNext,
                          Undone, Handler, Advancing, Plain, Marked, Checked

LEMMA BootStep == DeviceInv /\ Boot => DeviceInv'
<1>1. DeviceInv /\ Boot => upgrade'.at = "idle"
  BY DEF Boot, ExecReboot, ExecKexec, PowerCut, EndUpgrade, NoUpgrade
<1> QED BY <1>1, BootUpgrade, BootSession DEF DeviceInv, DeviceShape, OneAtATime

LEMMA FinalizeStep == DeviceInv /\ FinalizeWarmBoot => DeviceInv'
<1> SUFFICES ASSUME DeviceInv, FinalizeWarmBoot PROVE DeviceInv'
  OBVIOUS
<1>0. SysShape /\ SesShape /\ UpgradeShape /\ SessionInv /\ UpgradeInv /\ OneAtATime /\ careful
  BY DEF DeviceInv, DeviceShape
<1>1. /\ sys' = [sys EXCEPT !.flags = @ \ {"system"}, !.fast = FALSE, !.finalizing = FALSE] /\ sys.finalizing
      /\ UNCHANGED <<imageVars, ses, upgrade, images>>
  BY DEF FinalizeWarmBoot
<1>2. /\ SysShape' /\ sys'.flags = sys.flags \ {"system"} /\ ~sys'.fast /\ ~sys'.finalizing
      /\ sys'.kexec = sys.kexec /\ sys'.cpa = sys.cpa /\ sys'.dump = sys.dump
  BY <1>0, <1>1 DEF SysShape
<1>3. UpgradeInv'
  BY <1>0, <1>1, <1>2, ContainersAssumption, UpgradeKept
<1>4. GetNextImage' = GetNextImage /\ UNCHANGED <<ses, loader, env, dirs, running, careful>>
  BY <1>1, NextImageKept DEF imageVars
<1>5. SessionInv'
  BY <1>0, <1>1, <1>2, <1>4 DEF SessionInv, CanBeUndone, Clean, KernelGone, AssistantGone, FlagGone, FastGone, StepsFit, AdvancedSoFar, DumpSoFar, PlainSoFar, TargetIsNext,
                                Undone, Steps1, Handler, Advancing, Plain, Marked, Checked, Advanced
<1> QED BY <1>0, <1>1, <1>2, <1>3, <1>4, <1>5 DEF DeviceInv, DeviceShape, SesShape, UpgradeShape, OneAtATime

\* A command of the installer comes when no reboot runs.
LEMMA CommandStep ==
  ASSUME DeviceInv, ses.at = "idle", UNCHANGED <<rebootVars, careful>>
  PROVE  DeviceInv'
<1>1. UNCHANGED <<sys, ses, upgrade, images, careful>>
  BY DEF rebootVars
<1>2. DeviceShape' /\ OneAtATime' /\ UpgradeInv'
  BY <1>1, UpgradeKept DEF DeviceInv, DeviceShape, SysShape, SesShape, UpgradeShape, OneAtATime
<1>3. SessionInv'
  BY <1>1 DEF DeviceInv, SessionInv, CanBeUndone, Clean, KernelGone, AssistantGone, FlagGone, FastGone, StepsFit, AdvancedSoFar, DumpSoFar, PlainSoFar, TargetIsNext,
              Undone, Steps1, Handler, Advancing, Plain, Marked, Checked, Advanced
<1> QED BY <1>1, <1>2, <1>3 DEF DeviceInv

LEMMA OtherStep ==
  ASSUME DeviceInv, UNCHANGED <<imageVars, rebootVars>>
  PROVE  DeviceInv'
<1>1. UNCHANGED <<sys, ses, upgrade, images, careful, loader, env, dirs, running>>
  BY DEF rebootVars, imageVars
<1>2. DeviceShape' /\ OneAtATime' /\ UpgradeInv'
  BY <1>1, UpgradeKept DEF DeviceInv, DeviceShape, SysShape, SesShape, UpgradeShape, OneAtATime
<1>3. SessionInv'
  BY <1>1, NextImageKept DEF DeviceInv, SessionInv, CanBeUndone, Clean, KernelGone, AssistantGone, FlagGone, FastGone, StepsFit, AdvancedSoFar, DumpSoFar, PlainSoFar, TargetIsNext,
              Undone, Steps1, Handler, Advancing, Plain, Marked, Checked, Advanced
<1> QED BY <1>1, <1>2, <1>3 DEF DeviceInv

-----------------------------------------------------------------------------
LEMMA DeviceInit == Init /\ careful => DeviceInv
<1> SUFFICES ASSUME NEW d \in Scenarios, InitReboots(d), careful PROVE DeviceInv
  BY DEF Init
<1> USE DEF InitReboots, Booted, Idle, NoUpgrade, NoDump
<1>1. DeviceShape
  BY DEF DeviceShape, SysShape, SesShape, UpgradeShape, Steps1, FreshImages
<1>2. SessionInv
  BY DEF SessionInv, CanBeUndone, Clean, KernelGone, AssistantGone, FlagGone, FastGone, StepsFit, AdvancedSoFar, DumpSoFar, PlainSoFar, TargetIsNext,
         Undone, Handler, Advancing, Plain, Marked, Checked
<1>3. UpgradeInv
  BY DEF UpgradeInv, FlagIsMine, ImagesKept, UpgradeSoFar, Died, Upgrading, FreshImages
<1> QED BY <1>1, <1>2, <1>3 DEF DeviceInv, OneAtATime

LEMMA DeviceStep == DeviceInv /\ [Next]_vars => DeviceInv'
<1> SUFFICES ASSUME DeviceInv, [Next]_vars PROVE DeviceInv'
  OBVIOUS
<1>0. careful
  BY DEF DeviceInv
<1>1. CASE (careful => ses.at = "idle") /\ (Command \/ Write) /\ UNCHANGED rebootVars
  <2>1. UNCHANGED careful
    BY <1>1 DEF Command, Write, SetDefault, SetNextBoot, Install, RemoveCommand, Cleanup, Begin
  <2> QED BY <1>0, <1>1, <2>1, CommandStep
<1>2. CASE (careful => upgrade.at = "idle") /\ Script
  BY <1>0, <1>2, ScriptStep
<1>3. CASE Boot
  BY <1>3, BootStep
<1>4. CASE FinalizeWarmBoot
  BY <1>4, FinalizeStep
<1>5. CASE Upgrade
  BY <1>5, UpgradeSession, UpgradeStep DEF DeviceInv, DeviceShape
<1>6. CASE UNCHANGED <<imageVars, rebootVars>>
  BY <1>6, OtherStep
<1> QED BY <1>1, <1>2, <1>3, <1>4, <1>5, <1>6 DEF Next, DeviceNext, vars

\* On a careful device, the inductive invariant.
THEOREM DeviceInductive == Spec /\ careful => []DeviceInv
  BY DeviceInit, DeviceStep, PTL DEF Spec

\* On a careful device nothing is left of a reboot session that failed, but what a failed command of the exit handler
\* was to take back, nor of a docker upgrade: the kernel, the flags and the images are as they were (clear_boot in scripts/fast-reboot, upgrade_docker in sonic_installer/main.py).
THEOREM NothingIsLeft == Spec /\ careful => []NothingLingers
<1>1. DeviceInv => NothingLingers
  BY DEF DeviceInv, SessionInv, CanBeUndone, Clean, KernelGone, AssistantGone, FlagGone, FastGone, UpgradeInv, FlagIsMine, ImagesKept, UpgradeSoFar, Died, Upgrading,
         NothingLingers
<1> QED BY <1>1, DeviceInductive, PTL

\* What BootsFit says of a step.
BootFits ==
    ses.at = "exec" /\ ses'.at = "idle" /\ ses'.outcome = "booted" =>
        IF Advanced
        THEN /\ running' = ses.target /\ ses.target \in dirs
             /\ ses.kind # "fast" /\ AsicConfig[running] # "none" => AsicConfig[running'] = AsicConfig[running]
             /\ ses.found # "flags" /\ ses.dumped => "system" \in sys'.flags /\ (sys'.fast = (ses.kind = "fast"))
             /\ ses.found = "nothing" /\ ~ses.dumped => sys'.flags = {} /\ ~sys'.fast
        ELSE sys'.flags = {} /\ ~sys'.fast /\ (sys'.dump # NoDump => "move" \in ses.failed)

\* A script that is at its last command ends there, by a boot or by none.
LEMMA LastCommand ==
  ASSUME DeviceInv, Next, ses.at = "exec", ses'.at = "idle", ses'.outcome = "booted"
  PROVE  ExecReboot \/ ExecKexec
<1>0. upgrade.at = "idle" /\ SesShape
  BY DEF DeviceInv, DeviceShape, OneAtATime
<1>1. ASSUME Script PROVE FALSE
  <2>1. ExecNothing
    BY <1>1 DEF Script, At, StartReboot, CheckWarmRestartInProgress, SetFastFlag, EnableWarmRestart, Prepare, RebootPreCheck,
       LoadKernel, SetupControlPlaneAssistant, FreezeOrchagent, DelayCounters, Commit, StopServices, HandleFirmwareUpdate,
       PlainPreCheck, StopSonicServices, ClearWarmBoot, ClearLingeringRebootConfig, LoadKernelSoft,
       UnloadKernel, TeardownControlPlaneAssistant, DisableWarmRestart, ClearDump, EndOfHandler
  <2> QED BY <2>1 DEF ExecNothing, EndWith, End, Idle
<1>2. ses' # ses
  OBVIOUS
<1>3. ~PowerCut
  <2>1. ses' # Idle
    BY DEF Idle
  <2> QED BY <2>1 DEF PowerCut
<1>4. Upgrade => FALSE
  BY <1>2, UpgradeFrame
<1> QED
  BY <1>1, <1>2, <1>3, <1>4 DEF Next, DeviceNext, FinalizeWarmBoot, Boot, rebootVars

LEMMA BootFitsStep == DeviceInv /\ [Next]_vars => BootFits \/ UNCHANGED vars
<1> SUFFICES ASSUME DeviceInv, Next, ses.at = "exec", ses'.at = "idle", ses'.outcome = "booted" PROVE BootFits
  BY DEF BootFits
<1>0. SysShape /\ SesShape /\ SessionInv
  BY DEF DeviceInv, DeviceShape
<1>1. CASE ExecReboot
  <2>1. ses.kind = "cold" /\ sys' = Booted(sys.dump, {}, FALSE)
    BY <1>1 DEF ExecReboot
  <2> QED BY <1>0, <2>1 DEF SessionInv, PlainSoFar, BootFits, Booted, Advanced
<1>2. CASE ExecKexec
  <2>1. /\ running' = sys.kexec /\ sys.kexec # Empty
        /\ \/ WarmStart /\ sys'.flags = sys.dump.flags /\ sys'.fast = sys.dump.fast
           \/ ~WarmStart /\ sys' = Booted(sys.dump, {}, FALSE)
    BY <1>2 DEF ExecKexec, KexecBoot, Booted
  <2>2. CASE Advanced
    <3>1. sys.kexec = ses.target /\ ses.target \in dirs
      BY <1>0, <2>2 DEF SessionInv, AdvancedSoFar, Checked
    <3>2. ASSUME ses.found # "flags", ses.dumped
          PROVE  "system" \in sys'.flags /\ (sys'.fast = (ses.kind = "fast"))
      <4>1. "system" \in sys.dump.flags /\ (sys.dump.fast = (ses.kind = "fast"))
        BY <1>0, <2>2, <3>2 DEF SessionInv, AdvancedSoFar
      <4> QED BY <2>1, <2>2, <4>1, NoDumpFields DEF WarmStart
    <3>3. ASSUME ses.found = "nothing", ~ses.dumped PROVE sys'.flags = {} /\ ~sys'.fast
      <4>1. sys.dump = NoDump
        BY <1>0, <2>2, <3>3 DEF SessionInv, AdvancedSoFar, Marked
      <4> QED BY <2>1, <4>1 DEF WarmStart, Booted
    <3> QED BY <1>0, <2>1, <2>2, <3>1, <3>2, <3>3 DEF SessionInv, AdvancedSoFar, BootFits, Checked
  <2>3. CASE ~Advanced
    BY <1>0, <2>1, <2>3 DEF SessionInv, PlainSoFar, BootFits, Booted, WarmStart
  <2> QED BY <2>2, <2>3
<1> QED BY <1>1, <1>2, LastCommand

\* On a careful device a warm or fast boot starts the image that was checked, with all the flags of its own reboot or,
\* if its dump was not taken, with none; any other boot finds none, and no dump but one that could not be moved (scripts/fast-reboot, reboot and soft-reboot).
THEOREM EachBootFits == Spec /\ careful => BootsFit
<1>1. DeviceInv /\ [Next]_vars => [BootFits]_vars
  BY BootFitsStep
<1>2. Spec /\ careful => [][BootFits]_vars
  BY <1>1, DeviceInductive, PTL DEF Spec
<1> QED BY <1>2 DEF BootsFit, BootFits
-----------------------------------------------------------------------------
(* Programs: sequences of blocks, one for each namespace. *)

\* The order on Nat, as a set, is well founded.
LEMMA LessIsWellFounded == IsWellFoundedOn({ss \in Nat \X Nat : ss[1] < ss[2]}, Nat)
  BY NatLessThanWellFounded, Zenon DEF OpToRel

\* A set that has 1 and is closed under successor has every natural number from 1 on.
LEMMA FromOne ==
  ASSUME NEW Z, 1 \in Z, \A n \in Nat \ {0} : n \in Z => n + 1 \in Z
  PROVE  Nat \ {0} \subseteq Z
<1> DEFINE T == (Nat \ {0}) \ Z
           R == {ss \in Nat \X Nat : ss[1] < ss[2]}
<1> SUFFICES ASSUME T # {} PROVE FALSE
  OBVIOUS
<1>1. IsWellFoundedOn(R, Nat) /\ T \subseteq Nat
  BY LessIsWellFounded
<1>2. PICK x \in T : \A y \in T : ~(<<y, x>> \in R)
  <2> HIDE DEF R, T
  <2> QED BY <1>1, WFMin, Zenon
<1>3. x # 1 /\ x - 1 \in Nat \ {0} /\ (x - 1) + 1 = x /\ x - 1 < x
  OBVIOUS
<1>4. x - 1 \in Z
  <2> SUFFICES ASSUME x - 1 \notin Z PROVE FALSE
    OBVIOUS
  <2>1. x - 1 \in T /\ <<x - 1, x>> \in R
    BY <1>3
  <2> QED
    BY <1>2, <2>1
<1> QED
  BY <1>3, <1>4

\* The first n blocks stand in s, each whole and after the one before it, and there is nothing else.
Lies(s, blocks, n, off) ==
    /\ off \in [1 .. n -> Nat]
    /\ \A m \in 1 .. n : off[m] + Len(blocks[m]) <= Len(s)
    /\ \A m \in 1 .. n : \A l \in 1 .. Len(blocks[m]) : s[off[m] + l] = blocks[m][l]
    /\ \A i \in 1 .. Len(s) : \E m \in 1 .. n : off[m] < i /\ i <= off[m] + Len(blocks[m])
Joined(blocks, n, f) == f = [i \in 1 .. n |-> IF i = 1 THEN blocks[i] ELSE f[i - 1] \o blocks[i]]

LEMMA OneMoreBlock ==
  ASSUME NEW X, NEW blocks, NEW n \in Nat \ {0}, \A m \in 1 .. n + 1 : blocks[m] \in Seq(X),
         NEW s \in Seq(X), NEW off, Lies(s, blocks, n, off)
  PROVE  \E more : Lies(s \o blocks[n + 1], blocks, n + 1, more)
<1> DEFINE t == blocks[n + 1]
           u == s \o t
           more == [m \in 1 .. n + 1 |-> IF m = n + 1 THEN Len(s) ELSE off[m]]
<1>1. /\ t \in Seq(X) /\ Len(s) \in Nat /\ Len(t) \in Nat
      /\ \A m \in 1 .. n : Len(blocks[m]) \in Nat
  OBVIOUS
<1>2. /\ u \in Seq(X) /\ Len(u) = Len(s) + Len(t)
      /\ \A i \in 1 .. Len(s) : u[i] = s[i]
      /\ \A i \in 1 .. Len(t) : u[Len(s) + i] = t[i]
  BY <1>1
<1>3. /\ off \in [1 .. n -> Nat]
      /\ \A m \in 1 .. n : off[m] + Len(blocks[m]) <= Len(s)
      /\ \A m \in 1 .. n : \A l \in 1 .. Len(blocks[m]) : s[off[m] + l] = blocks[m][l]
      /\ \A i \in 1 .. Len(s) : \E m \in 1 .. n : off[m] < i /\ i <= off[m] + Len(blocks[m])
  BY DEF Lies
<1>4. /\ more \in [1 .. n + 1 -> Nat] /\ more[n + 1] = Len(s)
      /\ \A m \in 1 .. n : more[m] = off[m] /\ more[m] \in Nat
  BY <1>1, <1>3
<1> HIDE DEF u, more
<1>5. \A m \in 1 .. n + 1 : m \in 1 .. n \/ m = n + 1
  OBVIOUS
<1>6. ASSUME NEW m \in 1 .. n + 1 PROVE more[m] + Len(blocks[m]) <= Len(u)
  <2>1. CASE m \in 1 .. n
    <3>1. off[m] + Len(blocks[m]) <= Len(s) /\ more[m] = off[m] /\ off[m] \in Nat /\ Len(blocks[m]) \in Nat
      BY <1>1, <1>3, <1>4, <2>1
    <3> QED BY <1>1, <1>2, <3>1
  <2>2. CASE m = n + 1
    BY <1>1, <1>2, <1>4, <2>2
  <2> QED BY <1>5, <2>1, <2>2
<1>7. ASSUME NEW m \in 1 .. n + 1, NEW l \in 1 .. Len(blocks[m]) PROVE u[more[m] + l] = blocks[m][l]
  <2>1. CASE m \in 1 .. n
    <3>1. off[m] + l \in 1 .. Len(s) /\ s[off[m] + l] = blocks[m][l]
      BY <1>1, <1>3, <1>4, <2>1
    <3> QED BY <1>2, <1>4, <2>1, <3>1
  <2>2. CASE m = n + 1
    BY <1>2, <1>4, <2>2
  <2> QED BY <1>5, <2>1, <2>2
<1>8. ASSUME NEW i \in 1 .. Len(u) PROVE \E m \in 1 .. n + 1 : more[m] < i /\ i <= more[m] + Len(blocks[m])
  <2>1. CASE i \in 1 .. Len(s)
    <3>1. PICK m \in 1 .. n : off[m] < i /\ i <= off[m] + Len(blocks[m])
      BY <1>3, <2>1
    <3>2. m \in 1 .. n + 1 /\ more[m] = off[m]
      BY <1>4
    <3> QED BY <3>1, <3>2
  <2>2. CASE i \notin 1 .. Len(s)
    <3>1. n + 1 \in 1 .. n + 1 /\ Len(s) < i /\ i <= Len(s) + Len(t)
      BY <1>1, <1>2, <2>2
    <3>2. more[n + 1] < i /\ i <= more[n + 1] + Len(blocks[n + 1])
      BY <1>4, <3>1
    <3> QED BY <3>1, <3>2
  <2> QED BY <2>1, <2>2
<1>9. Lies(u, blocks, n + 1, more)
  BY <1>4, <1>6, <1>7, <1>8 DEF Lies
<1> QED BY <1>9 DEF u

LEMMA OneBlock ==
  ASSUME NEW X, NEW blocks, blocks[1] \in Seq(X)
  PROVE  \E off : Lies(blocks[1], blocks, 1, off)
<1> DEFINE off == [m \in 1 .. 1 |-> 0]
<1>1. off \in [1 .. 1 -> Nat] /\ off[1] = 0 /\ Len(blocks[1]) \in Nat
  OBVIOUS
<1> HIDE DEF off
<1>2. \A m \in 1 .. 1 : m = 1
  OBVIOUS
<1>3. 1 \in 1 .. 1
  OBVIOUS
<1>4. \A l \in 1 .. Len(blocks[1]) : blocks[1][off[1] + l] = blocks[1][l]
  BY <1>1
<1>5. \A i \in 1 .. Len(blocks[1]) : off[1] < i /\ i <= off[1] + Len(blocks[1])
  BY <1>1
<1>6. Lies(blocks[1], blocks, 1, off)
  BY <1>1, <1>2, <1>3, <1>4, <1>5 DEF Lies
<1> QED BY <1>6

\* The recursion of FlattenSeq has a solution.
LEMMA JoinExists == ASSUME NEW blocks, NEW N \in Nat \ {0} PROVE \E f : Joined(blocks, N, f)
<1> DEFINE E == {n \in Nat \ {0} : \E f : Joined(blocks, n, f)}
<1>1. 1 \in E
  <2> DEFINE f == [i \in 1 .. 1 |-> blocks[i]]
  <2>1. f = [i \in 1 .. 1 |-> IF i = 1 THEN blocks[i] ELSE f[i - 1] \o blocks[i]]
    OBVIOUS
  <2>2. Joined(blocks, 1, f)
    <3> HIDE DEF f
    <3> QED BY <2>1 DEF Joined
  <2> QED BY <2>2
<1>2. ASSUME NEW n \in Nat \ {0}, n \in E PROVE n + 1 \in E
  <2>1. PICK f : Joined(blocks, n, f)
    BY <1>2
  <2>2. f = [i \in 1 .. n |-> IF i = 1 THEN blocks[i] ELSE f[i - 1] \o blocks[i]]
    BY <2>1 DEF Joined
  <2> DEFINE g == [i \in 1 .. n + 1 |-> IF i = n + 1 THEN f[n] \o blocks[i] ELSE f[i]]
  <2>3. ASSUME NEW i \in 1 .. n + 1 PROVE g[i] = IF i = 1 THEN blocks[i] ELSE g[i - 1] \o blocks[i]
    <3>1. CASE i = n + 1
      <4>1. i # 1 /\ i - 1 = n /\ n \in 1 .. n + 1 /\ n # n + 1
        BY <3>1
      <4>2. g[n] = f[n] /\ g[i] = f[n] \o blocks[i]
        BY <3>1, <4>1
      <4> HIDE DEF g
      <4> QED BY <4>1, <4>2
    <3>2. CASE i # n + 1
      <4>1. i \in 1 .. n /\ g[i] = f[i]
        BY <3>2
      <4>2. i # 1 => i - 1 \in 1 .. n /\ g[i - 1] = f[i - 1]
        BY <4>1
      <4>3. f[i] = IF i = 1 THEN blocks[i] ELSE f[i - 1] \o blocks[i]
        BY <2>2, <4>1
      <4> HIDE DEF g
      <4> QED BY <4>1, <4>2, <4>3
    <3> QED BY <3>1, <3>2
  <2>4. g = [i \in 1 .. n + 1 |-> g[i]]
    OBVIOUS
  <2>5. Joined(blocks, n + 1, g)
    <3> HIDE DEF g
    <3> QED BY <2>3, <2>4 DEF Joined
  <2> QED BY <2>5
<1>3. Nat \ {0} \subseteq E
  <2> HIDE DEF E
  <2> QED BY <1>1, <1>2, FromOne
<1> QED BY <1>3

LEMMA FlattenLies ==
  ASSUME NEW X, NEW blocks \in Seq(Seq(X)), blocks # <<>>
  PROVE  /\ FlattenSeq(blocks) \in Seq(X)
         /\ \E off : Lies(FlattenSeq(blocks), blocks, Len(blocks), off)
<1> DEFINE N == Len(blocks)
<1>1. N \in Nat \ {0} /\ \A n \in 1 .. N : blocks[n] \in Seq(X)
  OBVIOUS
<1>2. PICK f : Joined(blocks, N, f) /\ FlattenSeq(blocks) = f[N]
  <2>1. FlattenSeq(blocks) = (CHOOSE f : f = [i \in 1 .. N |-> IF i = 1 THEN blocks[i] ELSE f[i - 1] \o blocks[i]])[N]
    BY <1>1 DEF FlattenSeq
  <2>2. FlattenSeq(blocks) = (CHOOSE f : Joined(blocks, N, f))[N]
    BY <2>1 DEF Joined
  <2>3. \E f : Joined(blocks, N, f)
    BY <1>1, JoinExists
  <2> QED BY <2>2, <2>3
<1> HIDE DEF N
<1> DEFINE Good == {n \in Nat \ {0} : n <= N => f[n] \in Seq(X) /\ \E off : Lies(f[n], blocks, n, off)}
<1>3. \A n \in 1 .. N : f[n] = IF n = 1 THEN blocks[n] ELSE f[n - 1] \o blocks[n]
  BY <1>2 DEF Joined
<1>4. 1 \in Good
  <2>1. 1 \in 1 .. N /\ f[1] = blocks[1] /\ blocks[1] \in Seq(X)
    BY <1>1, <1>3
  <2>2. \E off : Lies(blocks[1], blocks, 1, off)
    BY <2>1, OneBlock
  <2> QED BY <2>1, <2>2
<1>5. ASSUME NEW n \in Nat \ {0}, n \in Good PROVE n + 1 \in Good
  <2> SUFFICES ASSUME n + 1 <= N PROVE f[n + 1] \in Seq(X) /\ \E off : Lies(f[n + 1], blocks, n + 1, off)
    OBVIOUS
  <2>1. n <= N /\ n + 1 \in 1 .. N /\ n + 1 # 1 /\ (n + 1) - 1 = n
    BY <1>1
  <2>2. f[n + 1] = f[n] \o blocks[n + 1]
    BY <1>3, <2>1
  <2>3. PICK off : f[n] \in Seq(X) /\ Lies(f[n], blocks, n, off)
    BY <1>5, <2>1
  <2>4. \A m \in 1 .. n + 1 : blocks[m] \in Seq(X)
    BY <1>1, <2>1
  <2>5. f[n] \o blocks[n + 1] \in Seq(X)
    BY <2>1, <2>3, <2>4
  <2>6. \E more : Lies(f[n] \o blocks[n + 1], blocks, n + 1, more)
    <3> HIDE DEF Good
    <3> QED BY <2>3, <2>4, OneMoreBlock
  <2> QED BY <2>2, <2>5, <2>6
<1>6. N \in Good
  <2> HIDE DEF Good
  <2> QED BY <1>1, <1>4, <1>5, FromOne
<1> QED BY <1>1, <1>2, <1>6 DEF N
-----------------------------------------------------------------------------
(* The configuration that is saved and loaded: what a command still has to do says what it has done. *)

ConfRows == [rows : SUBSET Sources, current : BOOLEAN, marked : BOOLEAN]
Does == {"stop", "restart", "run", "read", "find", "flush", "put", "import", "drop", "mark", "migrate", "truncate", "export", "dump"}
ReloadStep == [does : Does, ns : AllNs, rows : SUBSET Sources]
ReloadShape ==
    /\ conf \in [AllNs -> ConfRows]
    /\ files \in [AllNs -> [is : {"none", "torn", "whole"}, rows : SUBSET Sources, current : BOOLEAN]]
    /\ services \in {"up", "starting", "down"} /\ faults \in Nat
    /\ task \in [kind : {"none", "save", "load", "reload", "minigraph"}, opts : SUBSET {"l", "n", "f", "t", "o"},
                 todo : Seq(ReloadStep), outcome : {"running", "done", "failed", "refused"},
                 was : [AllNs -> ConfRows], services : {"up", "starting", "down"}]
    /\ budget \in [commands : Nat, faults : Nat, saved : SUBSET AllNs]
    /\ \A ns \in budget.saved : files[ns].is # "none"

There == {ns \in AllNs : files[ns].is # "none"}
WithSysinfo(o) == IF "l" \in o THEN {"sysinfo"} ELSE {}
\* The steps that a command of this kind cannot do without.
NeededToSave == {S("export", ns, {}) : ns \in AllNs} \cup {S("dump", ns, {}) : ns \in AllNs}
NeededInAll(nss) == {S("flush", ns, {}) : ns \in nss} \cup {S("mark", ns, {}) : ns \in nss} \cup {S("migrate", ns, {}) : ns \in nss}
NeededToReload(o) ==
    NeededInAll(There) \cup {S("import", ns, files[ns].rows \cup FromInit) : ns \in There}
        \cup (IF "l" \in o THEN {S("put", ns, {"sysinfo"}) : ns \in There} ELSE {})
NeededToRegenerate(o) ==
    NeededInAll(AllNs) \cup {S("put", ns, {"minigraph"} \cup FromInit) : ns \in AllNs}
        \cup (IF "o" \in o THEN {S("drop", Host, Overridden), S("put", Host, {"golden"})} ELSE {})
NeededToRestart(o) == IF "n" \notin o THEN {S("restart", Host, {})} ELSE {}
Needed(k, o) ==
    IF k = "save" THEN NeededToSave
    ELSE IF k = "reload" THEN NeededToReload(o) \cup NeededToRestart(o)
    ELSE IF k = "minigraph" THEN NeededToRegenerate(o) \cup NeededToRestart(o) ELSE {}

\* What must not be left of what was there before.
Foreign(k, o, ns) ==
    IF k = "reload" THEN Sources \ (files[ns].rows \cup FromInit \cup WithSysinfo(o)) ELSE {"running", "saved", "sysinfo", "part"}
\* What a golden configuration replaces does not last.
Lasting(k, b) == IF k = "minigraph" THEN b.rows \ Overridden ELSE b.rows
\* What a step has to leave, which the command keeps until it ends.
Leaves(k, o, b) ==
    /\ b.does = "flush" => conf[b.ns].rows \cap Foreign(k, o, b.ns) = {}
    /\ b.does \in {"put", "import"} => Lasting(k, b) \subseteq conf[b.ns].rows
    /\ b.does = "import" => files[b.ns].is = "whole"
    /\ b.does = "mark" => conf[b.ns].marked
    /\ b.does = "migrate" => conf[b.ns].current
    /\ b.does = "drop" => conf[b.ns].rows \cap b.rows = {}
    /\ b.does = "restart" => services # "down"
    /\ b.does = "dump" => files[b.ns].is # "torn"
    /\ b.does = "export" => files[b.ns].rows \cap Base # {}
\* The step x may undo what the step b leaves.
Undoes(k, o, x, b) ==
    \/ x.does = "stop" /\ b.does = "restart"
    \/ /\ x.ns = b.ns
       /\ \/ x.does = "flush" /\ b.does \in {"put", "import", "mark", "migrate"}
          \/ x.does = "import" /\ b.does = "migrate"
          \/ x.does \in {"put", "import"} /\ b.does = "drop" /\ x.rows \cap b.rows # {}
          \/ x.does \in {"put", "import"} /\ b.does = "flush" /\ x.rows \cap Foreign(k, o, b.ns) # {}
          \/ x.does = "truncate" /\ b.does \in {"import", "dump"}
\* The step x relies on y, which comes first.
Late(x, y) ==
    \/ x.does = "mark" /\ y.ns = x.ns /\ y.does \in {"put", "import"} /\ (y.does = "put" => y.rows \cap Base # {})
    \/ x.does = "dump" /\ y.ns = x.ns /\ y.does = "export"
    \/ x.does = "find" /\ y.does = "mark"
Allowed(k, o, x) ==
    /\ k = "load" => x.does = "import"
    /\ k = "save" => x.does \in {"truncate", "export", "dump"}
    /\ k = "reload" => /\ x.does \notin {"truncate", "export", "dump", "drop", "find"}
                       /\ x.does \in {"read", "flush", "put", "import", "mark", "migrate"} => x.ns \in There
    /\ k = "minigraph" => x.does \notin {"truncate", "export", "dump", "import", "read"}
    /\ x.does = "drop" => k = "minigraph" /\ x.rows = Overridden
    /\ x.does \in {"stop", "restart"} => "n" \notin o

Elems(q) == {q[i] : i \in 1 .. Len(q)}
\* The steps q, and then those of M: what a step undoes is done again, and nothing comes too late.
Course(k, o, q, M) ==
    /\ q \in Seq(ReloadStep)
    /\ \A i \in 1 .. Len(q) :
          /\ Allowed(k, o, q[i])
          /\ \A b \in Needed(k, o) : Undoes(k, o, q[i], b) => b \in M \/ \E j \in i + 1 .. Len(q) : q[j] = b
          /\ \A j \in i + 1 .. Len(q) : ~Late(q[i], q[j])
          /\ \A y \in M : ~Late(q[i], y)

Begun == task.outcome \in {"running", "done"}
TaskShape == (task.todo = <<>> <=> task.outcome # "running") /\ (task.kind = "none" => task.todo = <<>>)
WholeIsComplete == \A ns \in AllNs : files[ns].is = "whole" => files[ns].rows \cap Base # {}
SoFar == Begun => \A b \in Needed(task.kind, task.opts) : b \in Elems(task.todo) \/ Leaves(task.kind, task.opts, b)
Elsewhere ==
    task.kind = "reload" =>
        /\ \A ns \in AllNs : task.was[ns].marked
        /\ Begun => \A ns \in AllNs \ There : conf[ns] = task.was[ns]
ServicesLeft ==
    Begun /\ task.kind \in {"reload", "minigraph"} /\ "n" \in task.opts => services = task.services \/ services = "up"

\* Of the configuration that runs and the one that is saved, a fault spoils one.
NoneTorn == \A ns \in AllNs : files[ns].is # "torn"
Loading == task.outcome = "running" /\ task.kind \in {"reload", "minigraph"}
Saving == task.outcome = "running" /\ task.kind = "save"
OneSpoiled ==
    /\ faults = 0 => (Saving \/ NoneTorn) /\ (Loading \/ Initialized)
    /\ faults <= 1 => (NoneTorn \/ Initialized) /\ (Loading => NoneTorn) /\ (Saving => Initialized)

ReloadInv ==
    /\ ReloadShape /\ TaskShape /\ WholeIsComplete /\ MarkedHasBase /\ SoFar /\ Elsewhere /\ ServicesLeft /\ OneSpoiled
    /\ Course(task.kind, task.opts, task.todo, {})

LEMMA Fields == \A does, ns, rows : S(does, ns, rows).does = does /\ S(does, ns, rows).ns = ns /\ S(does, ns, rows).rows = rows
  BY DEF S

LEMMA HostFacts ==
    /\ Namespaces \in Seq(AllNs) /\ Namespaces # <<>> /\ Host \in AllNs /\ AsicNs \in Seq(AllNs)
    /\ \A n \in 1 .. Len(Namespaces) : Namespaces[n] \in AllNs
    /\ \A ns \in AllNs : \E n \in 1 .. Len(Namespaces) : Namespaces[n] = ns
<1>1. Namespaces \in Seq(AllNs) /\ Namespaces # <<>>
  BY NamespacesAssumption
<1>2. \A ns \in AllNs : \E n \in 1 .. Len(Namespaces) : Namespaces[n] = ns
  BY <1>1 DEF AllNs, ToSet
<1> QED BY <1>1, <1>2 DEF Host, AsicNs

LEMMA NeededSteps ==
  ASSUME ReloadShape, NEW k, NEW o
  PROVE  Needed(k, o) \subseteq ReloadStep
<1>1. /\ FromInit \subseteq Sources /\ Overridden \subseteq Sources /\ {"sysinfo"} \subseteq Sources
      /\ {"minigraph"} \subseteq Sources /\ {"golden"} \subseteq Sources
  BY OverriddenAssumption DEF FromInit, Sources, Base
<1>2. \A ns \in AllNs : files[ns].rows \subseteq Sources
  BY DEF ReloadShape
<1>3. There \subseteq AllNs /\ Host \in AllNs
  BY HostFacts DEF There
<1>4. ASSUME NEW does \in Does, NEW ns \in AllNs, NEW rows \in SUBSET Sources PROVE S(does, ns, rows) \in ReloadStep
  BY DEF S, ReloadStep
<1>5. \A does \in Does, ns \in AllNs : S(does, ns, {}) \in ReloadStep
  BY <1>4
<1>6. \A ns \in AllNs : /\ S("import", ns, files[ns].rows \cup FromInit) \in ReloadStep
                        /\ S("put", ns, {"sysinfo"}) \in ReloadStep
                        /\ S("put", ns, {"minigraph"} \cup FromInit) \in ReloadStep
  BY <1>1, <1>2, <1>4 DEF Does
<1>7. S("drop", Host, Overridden) \in ReloadStep /\ S("put", Host, {"golden"}) \in ReloadStep
  BY <1>1, <1>3, <1>4 DEF Does
<1>8. {"export", "dump", "flush", "mark", "migrate", "restart"} \subseteq Does
  BY DEF Does
<1>9. \A nss \in SUBSET AllNs : NeededInAll(nss) \subseteq ReloadStep
  BY <1>5, <1>8 DEF NeededInAll
<1>10. NeededToSave \subseteq ReloadStep /\ NeededToRestart(o) \subseteq ReloadStep
  BY <1>3, <1>5, <1>8 DEF NeededToSave, NeededToRestart
<1>11. NeededToReload(o) \subseteq ReloadStep
  BY <1>3, <1>6, <1>9 DEF NeededToReload
<1>12. NeededToRegenerate(o) \subseteq ReloadStep
  BY <1>6, <1>7, <1>9 DEF NeededToRegenerate
<1> QED BY <1>10, <1>11, <1>12 DEF Needed

\* The files are read by these definitions only where a reload is at work.
LEMMA NeededKept ==
  ASSUME UNCHANGED present, NEW k, NEW o, k = "reload" => UNCHANGED files
  PROVE  /\ Needed(k, o)' = Needed(k, o)
         /\ \A ns : Foreign(k, o, ns)' = Foreign(k, o, ns)
         /\ \A x, b : Undoes(k, o, x, b)' = Undoes(k, o, x, b)
         /\ \A x : Allowed(k, o, x)' = Allowed(k, o, x)
         /\ \A q, M : Course(k, o, q, M)' = Course(k, o, q, M)
<1>1. FromInit' = FromInit
  BY DEF FromInit
<1>2. k = "reload" => There' = There
  BY DEF There
<1>3. Needed(k, o)' = Needed(k, o)
  <2>1. NeededToSave' = NeededToSave /\ NeededToRestart(o)' = NeededToRestart(o)
    BY DEF NeededToSave, NeededToRestart
  <2>2. NeededToRegenerate(o)' = NeededToRegenerate(o)
    BY <1>1 DEF NeededToRegenerate, NeededInAll
  <2>3. k = "reload" => NeededToReload(o)' = NeededToReload(o)
    BY <1>1, <1>2 DEF NeededToReload, NeededInAll
  <2> QED BY <2>1, <2>2, <2>3 DEF Needed
<1>4. \A ns : Foreign(k, o, ns)' = Foreign(k, o, ns)
  BY <1>1 DEF Foreign
<1>5. \A x, b : Undoes(k, o, x, b)' = Undoes(k, o, x, b)
  BY <1>4 DEF Undoes
<1>6. \A x : Allowed(k, o, x)' = Allowed(k, o, x)
  BY <1>2 DEF Allowed
<1>7. \A q, M : Course(k, o, q, M)' = Course(k, o, q, M)
  BY <1>3, <1>5, <1>6 DEF Course
<1> QED BY <1>3, <1>4, <1>5, <1>6, <1>7

LEMMA CourseTail ==
  ASSUME NEW k, NEW o, NEW q, Course(k, o, q, {}), q # <<>>
  PROVE  /\ Head(q) \in ReloadStep /\ Allowed(k, o, Head(q))
         /\ Course(k, o, Tail(q), {}) /\ Elems(q) = {Head(q)} \cup Elems(Tail(q))
         /\ \A b \in Needed(k, o) : Undoes(k, o, Head(q), b) => b \in Elems(Tail(q))
         /\ \A y \in Elems(Tail(q)) : ~Late(Head(q), y)
<1> DEFINE t == Tail(q)
<1>1. q \in Seq(ReloadStep) /\ Len(q) \in Nat \ {0}
  BY DEF Course
<1>2. /\ t \in Seq(ReloadStep) /\ Len(t) = Len(q) - 1 /\ Head(q) = q[1] /\ q[1] \in ReloadStep
      /\ \A i \in 1 .. Len(t) : t[i] = q[i + 1]
  BY <1>1
<1> HIDE DEF t
<1>3. \A i \in 1 .. Len(t) : i + 1 \in 1 .. Len(q)
  BY <1>1, <1>2
<1>4. \A j \in 2 .. Len(q) : j - 1 \in 1 .. Len(t) /\ q[j] = t[j - 1]
  BY <1>1, <1>2
<1>5. ASSUME NEW i \in 1 .. Len(t)
      PROVE  /\ Allowed(k, o, t[i])
             /\ \A b \in Needed(k, o) : Undoes(k, o, t[i], b) => \E j \in i + 1 .. Len(t) : t[j] = b
             /\ \A j \in i + 1 .. Len(t) : ~Late(t[i], t[j])
  <2>1. i + 1 \in 1 .. Len(q) /\ t[i] = q[i + 1]
    BY <1>2, <1>3
  <2>2. ASSUME NEW b \in Needed(k, o), Undoes(k, o, t[i], b) PROVE \E j \in i + 1 .. Len(t) : t[j] = b
    <3>1. PICK j \in i + 2 .. Len(q) : q[j] = b
      BY <2>1, <2>2 DEF Course
    <3>2. j - 1 \in i + 1 .. Len(t) /\ t[j - 1] = b
      BY <1>1, <1>2, <1>4, <3>1
    <3> QED BY <3>2
  <2>3. ASSUME NEW j \in i + 1 .. Len(t) PROVE ~Late(t[i], t[j])
    <3>1. j + 1 \in (i + 1) + 1 .. Len(q) /\ t[j] = q[j + 1]
      BY <1>1, <1>2
    <3> QED BY <2>1, <3>1 DEF Course
  <2> QED BY <2>1, <2>2, <2>3 DEF Course
<1>6. Course(k, o, t, {})
  BY <1>2, <1>5 DEF Course
<1>7. Elems(q) = {q[1]} \cup Elems(t)
  <2>1. ASSUME NEW x \in Elems(q) PROVE x \in {q[1]} \cup Elems(t)
    <3>1. PICK i \in 1 .. Len(q) : x = q[i]
      BY <2>1 DEF Elems
    <3>2. CASE i = 1
      BY <3>1, <3>2
    <3>3. CASE i # 1
      <4>1. i \in 2 .. Len(q)
        BY <1>1, <3>1, <3>3
      <4>2. i - 1 \in 1 .. Len(t) /\ x = t[i - 1]
        BY <1>4, <3>1, <4>1
      <4>3. x \in Elems(t)
        BY <4>2 DEF Elems
      <4> QED BY <4>3
    <3> QED BY <3>2, <3>3
  <2>2. ASSUME NEW x \in Elems(t) PROVE x \in Elems(q)
    <3>1. PICK i \in 1 .. Len(t) : x = t[i]
      BY <2>2 DEF Elems
    <3>2. i + 1 \in 1 .. Len(q) /\ x = q[i + 1]
      BY <1>2, <1>3, <3>1
    <3> QED BY <3>2 DEF Elems
  <2>3. q[1] \in Elems(q)
    BY <1>1 DEF Elems
  <2> QED BY <2>1, <2>2, <2>3
<1>8. 1 \in 1 .. Len(q)
  BY <1>1
<1>9. ASSUME NEW b \in Needed(k, o), Undoes(k, o, q[1], b) PROVE b \in Elems(t)
  <2>1. PICK j \in 2 .. Len(q) : q[j] = b
    BY <1>8, <1>9 DEF Course
  <2> QED BY <1>4, <2>1 DEF Elems
<1>10. ASSUME NEW y \in Elems(t) PROVE ~Late(q[1], y)
  <2>1. PICK i \in 1 .. Len(t) : y = t[i]
    BY <1>10 DEF Elems
  <2>2. i + 1 \in 2 .. Len(q) /\ y = q[i + 1]
    BY <1>1, <1>2, <2>1
  <2> QED BY <1>8, <2>2 DEF Course
<1>11. Allowed(k, o, q[1])
  BY <1>8 DEF Course
<1> QED BY <1>2, <1>6, <1>7, <1>9, <1>10, <1>11 DEF t

Acts ==
    \/ StopTarget \/ RestartTarget \/ RunOther \/ FindFile \/ FlushDb \/ WriteToDb \/ ImportFile \/ DropTables
    \/ SetIndicator \/ MigrateDb \/ Truncate \/ ExportDb \/ DumpFile

\* What each kind of step does to the database, to the files and to the services.
LEMMA WhatActs ==
  ASSUME Acts, NEW h, h = Head(task.todo)
  PROVE  /\ Advance /\ task.todo # <<>>
         /\ h.does \in {"stop", "restart", "run", "read", "find", "truncate", "export", "dump"} => UNCHANGED conf
         /\ h.does = "flush" => conf' = [conf EXCEPT ![h.ns] = [rows |-> {}, current |-> FALSE, marked |-> FALSE]]
         /\ h.does = "put" => conf' = [conf EXCEPT ![h.ns] = [conf[h.ns] EXCEPT !.rows = @ \cup h.rows]]
         /\ h.does = "import" =>
               /\ files[h.ns].is = "whole"
               /\ conf' = [conf EXCEPT ![h.ns] = [conf[h.ns] EXCEPT !.rows = @ \cup h.rows, !.current = files[h.ns].current]]
         /\ h.does = "drop" => conf' = [conf EXCEPT ![h.ns] = [conf[h.ns] EXCEPT !.rows = @ \ h.rows]]
         /\ h.does = "mark" => conf' = [conf EXCEPT ![h.ns] = [conf[h.ns] EXCEPT !.marked = TRUE]]
         /\ h.does = "migrate" => conf' = [conf EXCEPT ![h.ns] = [conf[h.ns] EXCEPT !.current = TRUE]]
         /\ h.does \notin {"truncate", "export", "dump"} => UNCHANGED files
         /\ h.does = "truncate" => files' = [files EXCEPT ![h.ns] = [files[h.ns] EXCEPT !.is = "torn"]]
         /\ h.does = "export" =>
               /\ conf[h.ns].marked
               /\ files' = [files EXCEPT ![h.ns] = [is |-> "whole", rows |-> conf[h.ns].rows, current |-> conf[h.ns].current]]
         /\ h.does = "dump" => files' = [files EXCEPT ![h.ns] = [files[h.ns] EXCEPT !.is = "whole"]]
         /\ h.does \notin {"stop", "restart"} => UNCHANGED services
         /\ h.does = "stop" => services' = "down"
         /\ h.does = "restart" => services' = "starting"
         /\ h.does = "find" => "golden" \in present
         /\ h.does \in Does
<1> USE DEF Now, Ns, Rows, Sets, Does
<1>1. CASE StopTarget
  BY <1>1 DEF StopTarget
<1>2. CASE RestartTarget
  BY <1>2 DEF RestartTarget
<1>3. CASE RunOther
  BY <1>3 DEF RunOther
<1>4. CASE FindFile
  BY <1>4 DEF FindFile
<1>5. CASE FlushDb
  BY <1>5 DEF FlushDb
<1>6. CASE WriteToDb
  BY <1>6 DEF WriteToDb
<1>7. CASE ImportFile
  BY <1>7 DEF ImportFile
<1>8. CASE DropTables
  BY <1>8 DEF DropTables
<1>9. CASE SetIndicator
  BY <1>9 DEF SetIndicator
<1>10. CASE MigrateDb
  BY <1>10 DEF MigrateDb
<1>11. CASE Truncate
  BY <1>11 DEF Truncate
<1>12. CASE ExportDb
  BY <1>12 DEF ExportDb
<1>13. CASE DumpFile
  BY <1>13 DEF DumpFile
<1> QED
  BY <1>1, <1>2, <1>3, <1>4, <1>5, <1>6, <1>7, <1>8, <1>9, <1>10, <1>11, <1>12, <1>13 DEF Acts

LEMMA StepLeaves ==
  ASSUME ReloadShape, MarkedHasBase, Acts, NEW k, NEW o, NEW h \in ReloadStep, h = Head(task.todo), Allowed(k, o, h),
         NEW b \in ReloadStep, ~Undoes(k, o, h, b), b = h \/ Leaves(k, o, b)
  PROVE  Leaves(k, o, b)'
<1>1. /\ Advance
      /\ h.does \notin {"truncate", "export", "dump"} => UNCHANGED files
  BY WhatActs
<1>2. \A ns : Foreign(k, o, ns)' = Foreign(k, o, ns)
  BY <1>1, NeededKept DEF Allowed, Advance
<1>3. /\ h.ns \in AllNs /\ b.ns \in AllNs /\ h.does \in Does
      /\ \A ns \in AllNs : conf[ns] \in ConfRows
      /\ conf \in [AllNs -> ConfRows]
      /\ files \in [AllNs -> [is : {"none", "torn", "whole"}, rows : SUBSET Sources, current : BOOLEAN]]
      /\ services \in {"up", "starting", "down"}
  BY DEF ReloadShape, ReloadStep
<1> DEFINE LeavesRows == b.does = "flush" => conf'[b.ns].rows \cap Foreign(k, o, b.ns) = {}
           LeavesPut == b.does \in {"put", "import"} => Lasting(k, b) \subseteq conf'[b.ns].rows
           LeavesDrop == b.does = "drop" => conf'[b.ns].rows \cap b.rows = {}
           LeavesMark == b.does = "mark" => conf'[b.ns].marked
           LeavesCurrent == b.does = "migrate" => conf'[b.ns].current
           LeavesConf == LeavesRows /\ LeavesPut /\ LeavesDrop /\ LeavesMark /\ LeavesCurrent
<1>4. LeavesConf
  <2>1. CASE h.does \in {"stop", "restart", "run", "read", "find", "truncate", "export", "dump"}
    <3>1. conf' = conf
      BY <2>1, WhatActs
    <3> QED BY <2>1, <3>1 DEF Leaves
  <2>2. CASE h.does = "flush"
    <3>1. conf' = [conf EXCEPT ![h.ns] = [rows |-> {}, current |-> FALSE, marked |-> FALSE]]
      BY <2>2, WhatActs
    <3>2. conf'[h.ns].rows = {} /\ \A ns \in AllNs \ {h.ns} : conf'[ns] = conf[ns]
      BY <1>3, <3>1
    <3> QED BY <1>3, <2>2, <3>2 DEF Leaves, Undoes
  <2>3. CASE h.does = "put"
    <3>1. conf' = [conf EXCEPT ![h.ns] = [conf[h.ns] EXCEPT !.rows = @ \cup h.rows]]
      BY <2>3, WhatActs
    <3>2. /\ conf'[h.ns].rows = conf[h.ns].rows \cup h.rows
          /\ conf'[h.ns].marked = conf[h.ns].marked /\ conf'[h.ns].current = conf[h.ns].current
          /\ \A ns \in AllNs \ {h.ns} : conf'[ns] = conf[ns]
      BY <1>3, <3>1 DEF ConfRows
    <3> QED BY <1>3, <2>3, <3>2 DEF Leaves, Undoes, Lasting
  <2>4. CASE h.does = "import"
    <3>1. conf' = [conf EXCEPT ![h.ns] = [conf[h.ns] EXCEPT !.rows = @ \cup h.rows, !.current = files[h.ns].current]]
      BY <2>4, WhatActs
    <3>2. /\ conf'[h.ns].rows = conf[h.ns].rows \cup h.rows
          /\ conf'[h.ns].marked = conf[h.ns].marked
          /\ \A ns \in AllNs \ {h.ns} : conf'[ns] = conf[ns]
      BY <1>3, <3>1 DEF ConfRows
    <3> QED BY <1>3, <2>4, <3>2 DEF Leaves, Undoes, Lasting
  <2>5. CASE h.does = "drop"
    <3>1. conf' = [conf EXCEPT ![h.ns] = [conf[h.ns] EXCEPT !.rows = @ \ h.rows]]
      BY <2>5, WhatActs
    <3>2. /\ conf'[h.ns].rows = conf[h.ns].rows \ h.rows
          /\ conf'[h.ns].marked = conf[h.ns].marked /\ conf'[h.ns].current = conf[h.ns].current
          /\ \A ns \in AllNs \ {h.ns} : conf'[ns] = conf[ns]
      BY <1>3, <3>1 DEF ConfRows
    <3>3. b.does \in {"put", "import"} => Lasting(k, b) \cap h.rows = {}
      BY <2>5 DEF Allowed, Lasting
    <3> QED BY <1>3, <2>5, <3>2, <3>3 DEF Leaves, Undoes
  <2>6. CASE h.does = "mark"
    <3>1. conf' = [conf EXCEPT ![h.ns] = [conf[h.ns] EXCEPT !.marked = TRUE]]
      BY <2>6, WhatActs
    <3>2. /\ conf'[h.ns].rows = conf[h.ns].rows /\ conf'[h.ns].marked /\ conf'[h.ns].current = conf[h.ns].current
          /\ \A ns \in AllNs \ {h.ns} : conf'[ns] = conf[ns]
      BY <1>3, <3>1 DEF ConfRows
    <3> QED BY <1>3, <2>6, <3>2 DEF Leaves, Undoes
  <2>7. CASE h.does = "migrate"
    <3>1. conf' = [conf EXCEPT ![h.ns] = [conf[h.ns] EXCEPT !.current = TRUE]]
      BY <2>7, WhatActs
    <3>2. /\ conf'[h.ns].rows = conf[h.ns].rows /\ conf'[h.ns].marked = conf[h.ns].marked /\ conf'[h.ns].current
          /\ \A ns \in AllNs \ {h.ns} : conf'[ns] = conf[ns]
      BY <1>3, <3>1 DEF ConfRows
    <3> QED BY <1>3, <2>7, <3>2 DEF Leaves, Undoes
  <2> QED BY <1>3, <2>1, <2>2, <2>3, <2>4, <2>5, <2>6, <2>7 DEF Does
<1> DEFINE LeavesFiles == /\ b.does = "import" => files'[b.ns].is = "whole"
                          /\ b.does = "dump" => files'[b.ns].is # "torn"
                          /\ b.does = "export" => files'[b.ns].rows \cap Base # {}
<1>5. LeavesFiles
  <2>1. CASE h.does \notin {"truncate", "export", "dump"}
    <3>1. files' = files /\ (h.does = "import" => files[h.ns].is = "whole")
      BY <2>1, WhatActs
    <3> QED BY <2>1, <3>1 DEF Leaves
  <2>2. CASE h.does = "truncate"
    <3>1. files' = [files EXCEPT ![h.ns] = [files[h.ns] EXCEPT !.is = "torn"]]
      BY <2>2, WhatActs
    <3>2. files'[h.ns].rows = files[h.ns].rows /\ \A ns \in AllNs \ {h.ns} : files'[ns] = files[ns]
      BY <1>3, <3>1
    <3> QED BY <1>3, <2>2, <3>2 DEF Leaves, Undoes
  <2>3. CASE h.does = "export"
    <3>1. /\ conf[h.ns].marked
          /\ files' = [files EXCEPT ![h.ns] = [is |-> "whole", rows |-> conf[h.ns].rows, current |-> conf[h.ns].current]]
      BY <2>3, WhatActs
    <3>2. /\ files'[h.ns].rows = conf[h.ns].rows /\ files'[h.ns].is = "whole"
          /\ \A ns \in AllNs \ {h.ns} : files'[ns] = files[ns]
      BY <1>3, <3>1
    <3>3. conf[h.ns].rows \cap Base # {}
      BY <1>3, <3>1 DEF MarkedHasBase
    <3> QED BY <1>3, <2>3, <3>2, <3>3 DEF Leaves
  <2>4. CASE h.does = "dump"
    <3>1. files' = [files EXCEPT ![h.ns] = [files[h.ns] EXCEPT !.is = "whole"]]
      BY <2>4, WhatActs
    <3>2. /\ files'[h.ns].rows = files[h.ns].rows /\ files'[h.ns].is = "whole"
          /\ \A ns \in AllNs \ {h.ns} : files'[ns] = files[ns]
      BY <1>3, <3>1
    <3> QED BY <1>3, <2>4, <3>2 DEF Leaves
  <2> QED BY <2>1, <2>2, <2>3, <2>4
<1>6. b.does = "restart" => services' # "down"
  BY <1>3, WhatActs DEF Leaves, Undoes
<1> HIDE DEF LeavesFiles
<1>7. LeavesFiles => /\ b.does = "import" => files'[b.ns].is = "whole"
                     /\ b.does = "dump" => files'[b.ns].is # "torn"
                     /\ b.does = "export" => files'[b.ns].rows \cap Base # {}
  BY DEF LeavesFiles
<1>8. Lasting(k, b)' = Lasting(k, b)
  BY DEF Lasting
<1> QED BY <1>2, <1>4, <1>5, <1>6, <1>7, <1>8 DEF Leaves

\* A step that is done moves the command on.
LEMMA Advances ==
  ASSUME ReloadInv, Acts, NEW k, k = task.kind, NEW o, o = task.opts, NEW q, q = task.todo
  PROVE  /\ q # <<>> /\ Head(q) \in ReloadStep /\ Allowed(k, o, Head(q)) /\ k # "none" /\ Begun
         /\ task' = [task EXCEPT !.todo = Tail(q), !.outcome = IF Tail(q) = <<>> THEN "done" ELSE "running"]
         /\ Course(k, o, Tail(q), {}) /\ Elems(q) = {Head(q)} \cup Elems(Tail(q))
         /\ \A b \in Needed(k, o) : Undoes(k, o, Head(q), b) => b \in Elems(Tail(q))
         /\ \A y \in Elems(Tail(q)) : ~Late(Head(q), y)
         /\ k = "reload" => UNCHANGED files
         /\ UNCHANGED <<present, faults, budget>>
<1>1. Advance /\ q # <<>>
  BY WhatActs
<1>2. Course(k, o, q, {}) /\ k # "none" /\ task.outcome = "running" /\ q \in Seq(ReloadStep)
  BY <1>1 DEF ReloadInv, TaskShape, Course
<1>3. /\ Head(q) \in ReloadStep /\ Allowed(k, o, Head(q))
      /\ Course(k, o, Tail(q), {}) /\ Elems(q) = {Head(q)} \cup Elems(Tail(q))
      /\ \A b \in Needed(k, o) : Undoes(k, o, Head(q), b) => b \in Elems(Tail(q))
      /\ \A y \in Elems(Tail(q)) : ~Late(Head(q), y)
  BY <1>1, <1>2, CourseTail
<1>4. Len(q) = 1 <=> Tail(q) = <<>>
  <2>1. Tail(q) \in Seq(ReloadStep) /\ Len(Tail(q)) = Len(q) - 1 /\ Len(q) \in Nat
    BY <1>1, <1>2
  <2>2. \A s \in Seq(ReloadStep) : s = <<>> <=> Len(s) = 0
    OBVIOUS
  <2>3. Tail(q) = <<>> <=> Len(Tail(q)) = 0
    BY <2>1, <2>2
  <2> QED BY <2>1, <2>3
<1>5. task' = [task EXCEPT !.todo = Tail(q), !.outcome = IF Tail(q) = <<>> THEN "done" ELSE "running"]
  BY <1>1, <1>4 DEF Advance
<1>6. k = "reload" => Head(q).does \notin {"truncate", "export", "dump"}
  BY <1>3 DEF Allowed
<1>7. k = "reload" => UNCHANGED files
  BY <1>6, WhatActs
<1> QED BY <1>1, <1>2, <1>3, <1>5, <1>7 DEF Advance, Begun

LEMMA ActsShape == ASSUME ReloadInv, Acts PROVE ReloadShape' /\ TaskShape'
<1> DEFINE q == task.todo
           h == Head(q)
<1>1. /\ h \in ReloadStep /\ UNCHANGED <<present, faults, budget>> /\ task.kind # "none"
      /\ task' = [task EXCEPT !.todo = Tail(q), !.outcome = IF Tail(q) = <<>> THEN "done" ELSE "running"]
      /\ Tail(q) \in Seq(ReloadStep)
  BY Advances DEF Course
<1>2. ReloadShape
  BY DEF ReloadInv
<1>3. h.ns \in AllNs /\ h.rows \in SUBSET Sources /\ h.does \in Does
  BY <1>1 DEF ReloadStep
<1>4. conf' \in [AllNs -> ConfRows]
  <2>1. conf \in [AllNs -> ConfRows] /\ files[h.ns].current \in BOOLEAN
    BY <1>2, <1>3 DEF ReloadShape
  <2>2. UNCHANGED conf \/ \E r \in ConfRows : conf' = [conf EXCEPT ![h.ns] = r]
    <3>1. conf[h.ns] \in ConfRows
      BY <1>3, <2>1
    <3>2. /\ [rows |-> {}, current |-> FALSE, marked |-> FALSE] \in ConfRows
          /\ [conf[h.ns] EXCEPT !.rows = @ \cup h.rows] \in ConfRows
          /\ [conf[h.ns] EXCEPT !.rows = @ \cup h.rows, !.current = files[h.ns].current] \in ConfRows
          /\ [conf[h.ns] EXCEPT !.rows = @ \ h.rows] \in ConfRows
          /\ [conf[h.ns] EXCEPT !.marked = TRUE] \in ConfRows
          /\ [conf[h.ns] EXCEPT !.current = TRUE] \in ConfRows
      BY <1>3, <2>1, <3>1 DEF ConfRows
    <3> HIDE DEF h
    <3> QED BY <1>3, <3>2, WhatActs DEF Does, h
  <2> QED BY <1>3, <2>1, <2>2
<1> DEFINE F == [is : {"none", "torn", "whole"}, rows : SUBSET Sources, current : BOOLEAN]
<1>5. files' \in [AllNs -> F] /\ \A ns \in AllNs : files[ns].is # "none" => files'[ns].is # "none"
  <2>1. files \in [AllNs -> F] /\ conf[h.ns] \in ConfRows
    BY <1>2, <1>3 DEF ReloadShape
  <2>2. UNCHANGED files \/ \E r \in F : r.is # "none" /\ files' = [files EXCEPT ![h.ns] = r]
    <3>1. files[h.ns] \in F
      BY <1>3, <2>1
    <3>2. /\ [files[h.ns] EXCEPT !.is = "torn"] \in F /\ [files[h.ns] EXCEPT !.is = "torn"].is = "torn"
          /\ [files[h.ns] EXCEPT !.is = "whole"] \in F /\ [files[h.ns] EXCEPT !.is = "whole"].is = "whole"
          /\ [is |-> "whole", rows |-> conf[h.ns].rows, current |-> conf[h.ns].current] \in F
      BY <2>1, <3>1 DEF ConfRows
    <3>3. "torn" # "none" /\ "whole" # "none"
      OBVIOUS
    <3> HIDE DEF h, F
    <3>4. CASE h.does \notin {"truncate", "export", "dump"}
      BY <3>4, WhatActs DEF h
    <3>5. CASE h.does = "truncate"
      BY <3>2, <3>3, <3>5, WhatActs DEF h
    <3>6. CASE h.does = "export"
      BY <3>2, <3>3, <3>6, WhatActs DEF h
    <3>7. CASE h.does = "dump"
      BY <3>2, <3>3, <3>7, WhatActs DEF h
    <3> QED BY <3>4, <3>5, <3>6, <3>7
  <2> HIDE DEF F, h
  <2> QED BY <1>3, <2>1, <2>2
<1>6. services' \in {"up", "starting", "down"}
  <2>1. services \in {"up", "starting", "down"}
    BY <1>2 DEF ReloadShape
  <2>2. UNCHANGED services \/ services' = "down" \/ services' = "starting"
    BY WhatActs
  <2> QED BY <2>1, <2>2
<1>7. /\ task' \in [kind : {"none", "save", "load", "reload", "minigraph"}, opts : SUBSET {"l", "n", "f", "t", "o"},
                    todo : Seq(ReloadStep), outcome : {"running", "done", "failed", "refused"},
                    was : [AllNs -> ConfRows], services : {"up", "starting", "down"}]
      /\ task'.todo = Tail(q) /\ task'.outcome = (IF Tail(q) = <<>> THEN "done" ELSE "running") /\ task'.kind = task.kind
  BY <1>1, <1>2 DEF ReloadShape
<1>8. TaskShape'
  BY <1>1, <1>7 DEF TaskShape
<1> QED BY <1>1, <1>2, <1>4, <1>5, <1>6, <1>7, <1>8 DEF ReloadShape

\* What a step leaves, the command keeps; what it has undone, it does again.
LEMMA ActsSoFar == ASSUME ReloadInv, Acts PROVE SoFar' /\ Course(task.kind, task.opts, task.todo, {})'
<1>0. PICK k, o, q, h, t : k = task.kind /\ o = task.opts /\ q = task.todo /\ h = Head(q) /\ t = Tail(q)
  OBVIOUS
<1>1. /\ h \in ReloadStep /\ Allowed(k, o, h) /\ Begun
      /\ task' = [task EXCEPT !.todo = Tail(q), !.outcome = IF Tail(q) = <<>> THEN "done" ELSE "running"]
      /\ Course(k, o, t, {}) /\ Elems(q) = {h} \cup Elems(t)
      /\ \A b \in Needed(k, o) : Undoes(k, o, h, b) => b \in Elems(t)
      /\ k = "reload" => UNCHANGED files
      /\ UNCHANGED present
  BY <1>0, Advances
<1>2. /\ Needed(k, o)' = Needed(k, o)
      /\ Course(k, o, t, {})' = Course(k, o, t, {})
  BY <1>1, NeededKept
<1>3. task'.kind = k /\ task'.opts = o /\ task'.todo = t
  BY <1>0, <1>1 DEF ReloadInv, ReloadShape
<1>4. ASSUME NEW b \in Needed(k, o), b \notin Elems(t) PROVE Leaves(k, o, b)'
  <2>1. ReloadShape /\ MarkedHasBase /\ b \in ReloadStep
    BY NeededSteps DEF ReloadInv
  <2>2. b = h \/ Leaves(k, o, b)
    BY <1>0, <1>1, <1>4 DEF ReloadInv, SoFar
  <2>3. ~Undoes(k, o, h, b)
    BY <1>1, <1>4
  <2> QED BY <1>0, <1>1, <2>1, <2>2, <2>3, StepLeaves
<1>5. Elems(task.todo)' = Elems(t)
  BY <1>3 DEF Elems
<1> QED BY <1>1, <1>2, <1>3, <1>4, <1>5 DEF SoFar

\* A step that is needed and that the next one relies on has been done.
LEMMA DoneBefore ==
  ASSUME ReloadInv, task.todo # <<>>, NEW b \in Needed(task.kind, task.opts), Late(Head(task.todo), b), b # Head(task.todo)
  PROVE  Leaves(task.kind, task.opts, b)
<1>1. PICK k, o, q : k = task.kind /\ o = task.opts /\ q = task.todo
  OBVIOUS
<1>2. Course(k, o, q, {}) /\ q # <<>> /\ Begun
  BY <1>1 DEF ReloadInv, TaskShape, Begun
<1>3. Elems(q) = {Head(q)} \cup Elems(Tail(q)) /\ \A y \in Elems(Tail(q)) : ~Late(Head(q), y)
  BY <1>2, CourseTail
<1> QED BY <1>1, <1>2, <1>3 DEF ReloadInv, SoFar

LEMMA NeededFacts ==
  ASSUME NEW k, NEW o, NEW ns \in AllNs
  PROVE  /\ k = "save" => S("export", ns, {}) \in Needed(k, o) /\ S("dump", ns, {}) \in Needed(k, o)
         /\ k = "minigraph" \/ (k = "reload" /\ ns \in There) =>
               /\ S("flush", ns, {}) \in Needed(k, o) /\ S("mark", ns, {}) \in Needed(k, o)
               /\ S("migrate", ns, {}) \in Needed(k, o)
         /\ k = "reload" /\ ns \in There => /\ S("import", ns, files[ns].rows \cup FromInit) \in Needed(k, o)
                                            /\ "l" \in o => S("put", ns, {"sysinfo"}) \in Needed(k, o)
         /\ k = "minigraph" => /\ S("put", ns, {"minigraph"} \cup FromInit) \in Needed(k, o)
                               /\ "o" \in o => /\ S("drop", Host, Overridden) \in Needed(k, o)
                                               /\ S("put", Host, {"golden"}) \in Needed(k, o)
         /\ k \in {"reload", "minigraph"} /\ "n" \notin o => S("restart", Host, {}) \in Needed(k, o)
<1>1. \A nss : ns \in nss => /\ S("flush", ns, {}) \in NeededInAll(nss) /\ S("mark", ns, {}) \in NeededInAll(nss)
                             /\ S("migrate", ns, {}) \in NeededInAll(nss)
  BY DEF NeededInAll
<1>2. S("export", ns, {}) \in NeededToSave /\ S("dump", ns, {}) \in NeededToSave
  BY DEF NeededToSave
<1>3. NeededInAll(There) \subseteq NeededToReload(o) /\ NeededInAll(AllNs) \subseteq NeededToRegenerate(o)
  BY DEF NeededToReload, NeededToRegenerate
<1>4. ns \in There => /\ S("import", ns, files[ns].rows \cup FromInit) \in NeededToReload(o)
                      /\ "l" \in o => S("put", ns, {"sysinfo"}) \in NeededToReload(o)
  BY DEF NeededToReload
<1>5. /\ S("put", ns, {"minigraph"} \cup FromInit) \in NeededToRegenerate(o)
      /\ "o" \in o => S("drop", Host, Overridden) \in NeededToRegenerate(o) /\ S("put", Host, {"golden"}) \in NeededToRegenerate(o)
  BY DEF NeededToRegenerate
<1>6. "n" \notin o => S("restart", Host, {}) \in NeededToRestart(o)
  BY DEF NeededToRestart
<1>7. /\ k = "save" => Needed(k, o) = NeededToSave
      /\ k = "reload" => Needed(k, o) = NeededToReload(o) \cup NeededToRestart(o)
      /\ k = "minigraph" => Needed(k, o) = NeededToRegenerate(o) \cup NeededToRestart(o)
  BY DEF Needed
<1> QED BY <1>1, <1>2, <1>3, <1>4, <1>5, <1>6, <1>7

\* What is marked, and what is whole, has a configuration in it.
LEMMA ActsComplete == ASSUME ReloadInv, Acts PROVE MarkedHasBase' /\ WholeIsComplete'
<1>0. PICK k, o, h : k = task.kind /\ o = task.opts /\ h = Head(task.todo)
  OBVIOUS
<1>1. h \in ReloadStep /\ Allowed(k, o, h) /\ k # "none" /\ ReloadShape /\ k \in {"none", "save", "load", "reload", "minigraph"}
  BY <1>0, Advances DEF ReloadInv, ReloadShape
<1>2. /\ h.ns \in AllNs /\ h.does \in Does
      /\ conf \in [AllNs -> ConfRows]
      /\ files \in [AllNs -> [is : {"none", "torn", "whole"}, rows : SUBSET Sources, current : BOOLEAN]]
  BY <1>1 DEF ReloadShape, ReloadStep
<1>3. MarkedHasBase /\ WholeIsComplete
  BY DEF ReloadInv
<1>4. h.does = "mark" => conf[h.ns].rows \cap Base # {}
  <2> SUFFICES ASSUME h.does = "mark" PROVE conf[h.ns].rows \cap Base # {}
    OBVIOUS
  <2>1. CASE k = "reload"
    <3> DEFINE b == S("import", h.ns, files[h.ns].rows \cup FromInit)
    <3>1. b \in Needed(k, o) /\ b.does = "import" /\ b.ns = h.ns /\ b.rows = files[h.ns].rows \cup FromInit
      BY <1>1, <1>2, <2>1, NeededFacts, Fields DEF Allowed
    <3> HIDE DEF b
    <3>2. Leaves(k, o, b)
      BY <1>0, <3>1, DoneBefore, Advances DEF Late
    <3>3. files[h.ns].is = "whole" /\ files[h.ns].rows \subseteq conf[h.ns].rows
      BY <2>1, <3>1, <3>2 DEF Leaves, Lasting
    <3> QED BY <1>2, <1>3, <3>3 DEF WholeIsComplete
  <2>2. CASE k = "minigraph"
    <3> DEFINE b == S("put", h.ns, {"minigraph"} \cup FromInit)
    <3>0. S("put", h.ns, {"minigraph"} \cup FromInit) \in Needed(k, o)
      BY <1>2, <2>2, NeededFacts
    <3>1. b \in Needed(k, o) /\ b.does = "put" /\ b.ns = h.ns /\ b.rows = {"minigraph"} \cup FromInit
      BY <3>0, Fields
    <3> HIDE DEF b
    <3>2. Leaves(k, o, b)
      BY <1>0, <3>1, DoneBefore, Advances DEF Late, Base
    <3>3. "minigraph" \in Lasting(k, b)
      BY <3>1, OverriddenAssumption DEF Lasting, Base
    <3> QED BY <3>1, <3>2, <3>3 DEF Leaves, Base
  <2> QED BY <1>1, <2>1, <2>2 DEF Allowed
<1>5. h.does = "dump" => files[h.ns].rows \cap Base # {}
  <2> SUFFICES ASSUME h.does = "dump" PROVE files[h.ns].rows \cap Base # {}
    OBVIOUS
  <2> DEFINE b == S("export", h.ns, {})
  <2>1. k = "save"
    BY <1>1 DEF Allowed
  <2>0. S("export", h.ns, {}) \in Needed(k, o)
    BY <1>2, <2>1, NeededFacts
  <2>2. b \in Needed(k, o) /\ b.does = "export" /\ b.ns = h.ns
    BY <2>0, Fields
  <2> HIDE DEF b
  <2>3. Leaves(k, o, b)
    BY <1>0, <2>2, DoneBefore, Advances DEF Late
  <2> QED BY <2>2, <2>3 DEF Leaves
<1>6. MarkedHasBase'
  <2> SUFFICES ASSUME NEW ns \in AllNs, conf'[ns].marked PROVE conf'[ns].rows \cap Base # {}
    BY DEF MarkedHasBase
  <2>1. CASE h.does \in {"stop", "restart", "run", "read", "find", "truncate", "export", "dump"}
    <3>1. conf' = conf
      BY <1>0, <2>1, WhatActs
    <3> QED BY <1>3, <3>1 DEF MarkedHasBase
  <2>2. CASE h.does = "flush"
    <3>1. conf' = [conf EXCEPT ![h.ns] = [rows |-> {}, current |-> FALSE, marked |-> FALSE]]
      BY <1>0, <2>2, WhatActs
    <3> QED BY <1>2, <1>3, <3>1 DEF MarkedHasBase
  <2>3. CASE h.does \in {"put", "import"}
    <3>1. \/ conf' = [conf EXCEPT ![h.ns] = [conf[h.ns] EXCEPT !.rows = @ \cup h.rows]]
          \/ conf' = [conf EXCEPT ![h.ns] = [conf[h.ns] EXCEPT !.rows = @ \cup h.rows, !.current = files[h.ns].current]]
      BY <1>0, <2>3, WhatActs
    <3>2. conf[h.ns] \in ConfRows /\ (ns # h.ns => conf'[ns] = conf[ns])
      BY <1>2, <3>1
    <3>3. ns = h.ns => conf'[ns].marked = conf[ns].marked /\ conf'[ns].rows = conf[ns].rows \cup h.rows
      <4>1. CASE conf' = [conf EXCEPT ![h.ns] = [conf[h.ns] EXCEPT !.rows = @ \cup h.rows]]
        BY <1>2, <3>2, <4>1 DEF ConfRows
      <4>2. CASE conf' = [conf EXCEPT ![h.ns] = [conf[h.ns] EXCEPT !.rows = @ \cup h.rows, !.current = files[h.ns].current]]
        BY <1>2, <3>2, <4>2 DEF ConfRows
      <4> QED BY <3>1, <4>1, <4>2
    <3>4. conf'[ns].marked = conf[ns].marked /\ conf[ns].rows \subseteq conf'[ns].rows
      BY <3>2, <3>3
    <3> QED BY <1>3, <3>4 DEF MarkedHasBase
  <2>4. CASE h.does = "drop"
    <3>1. conf' = [conf EXCEPT ![h.ns] = [conf[h.ns] EXCEPT !.rows = @ \ h.rows]] /\ h.rows \cap Base = {}
      BY <1>0, <1>1, <2>4, WhatActs, OverriddenAssumption DEF Allowed
    <3>2. conf'[ns].marked = conf[ns].marked /\ conf[ns].rows \cap Base \subseteq conf'[ns].rows
      BY <1>2, <3>1 DEF ConfRows
    <3> QED BY <1>3, <3>2 DEF MarkedHasBase
  <2>5. CASE h.does = "mark"
    <3>1. conf' = [conf EXCEPT ![h.ns] = [conf[h.ns] EXCEPT !.marked = TRUE]]
      BY <1>0, <2>5, WhatActs
    <3>2. conf'[ns].rows = conf[ns].rows /\ (ns # h.ns => conf'[ns].marked = conf[ns].marked)
      BY <1>2, <3>1 DEF ConfRows
    <3> QED BY <1>3, <1>4, <2>5, <3>2 DEF MarkedHasBase
  <2>6. CASE h.does = "migrate"
    <3>1. conf' = [conf EXCEPT ![h.ns] = [conf[h.ns] EXCEPT !.current = TRUE]]
      BY <1>0, <2>6, WhatActs
    <3>2. conf'[ns].rows = conf[ns].rows /\ conf'[ns].marked = conf[ns].marked
      BY <1>2, <3>1 DEF ConfRows
    <3> QED BY <1>3, <3>2 DEF MarkedHasBase
  <2> QED BY <1>2, <2>1, <2>2, <2>3, <2>4, <2>5, <2>6 DEF Does
<1>7. WholeIsComplete'
  <2> SUFFICES ASSUME NEW ns \in AllNs, files'[ns].is = "whole" PROVE files'[ns].rows \cap Base # {}
    BY DEF WholeIsComplete
  <2>1. CASE h.does \notin {"truncate", "export", "dump"}
    <3>1. files' = files
      BY <1>0, <2>1, WhatActs
    <3> QED BY <1>3, <3>1 DEF WholeIsComplete
  <2>2. CASE h.does = "truncate"
    <3>1. files' = [files EXCEPT ![h.ns] = [files[h.ns] EXCEPT !.is = "torn"]]
      BY <1>0, <2>2, WhatActs
    <3> QED BY <1>2, <1>3, <3>1 DEF WholeIsComplete
  <2>3. CASE h.does = "export"
    <3>1. /\ conf[h.ns].marked
          /\ files' = [files EXCEPT ![h.ns] = [is |-> "whole", rows |-> conf[h.ns].rows, current |-> conf[h.ns].current]]
      BY <1>0, <2>3, WhatActs
    <3> QED BY <1>2, <1>3, <3>1 DEF WholeIsComplete, MarkedHasBase
  <2>4. CASE h.does = "dump"
    <3>1. files' = [files EXCEPT ![h.ns] = [files[h.ns] EXCEPT !.is = "whole"]]
      BY <1>0, <2>4, WhatActs
    <3> QED BY <1>2, <1>3, <1>5, <2>4, <3>1 DEF WholeIsComplete
  <2> QED BY <2>1, <2>2, <2>3, <2>4
<1> QED BY <1>6, <1>7

LEMMA ActsElsewhere == ASSUME ReloadInv, Acts PROVE Elsewhere' /\ ServicesLeft'
<1>0. PICK k, o, h : k = task.kind /\ o = task.opts /\ h = Head(task.todo)
  OBVIOUS
<1>1. /\ h \in ReloadStep /\ Allowed(k, o, h) /\ Begun /\ ReloadShape /\ (k = "reload" => UNCHANGED files)
      /\ task' = [task EXCEPT !.todo = Tail(task.todo), !.outcome = IF Tail(task.todo) = <<>> THEN "done" ELSE "running"]
  BY <1>0, Advances DEF ReloadInv
<1>2. task'.kind = k /\ task'.opts = o /\ task'.was = task.was /\ task'.services = task.services
  BY <1>0, <1>1 DEF ReloadShape
<1>3. h.ns \in AllNs /\ h.does \in Does
  BY <1>1 DEF ReloadStep
<1>4. ASSUME k = "reload", NEW ns \in AllNs \ There PROVE conf'[ns] = conf[ns]
  <2>1. h.does \in {"flush", "put", "import", "mark", "migrate"} => ns # h.ns
    BY <1>1, <1>4 DEF Allowed
  <2>2. h.does \notin {"truncate", "export", "dump", "drop", "find"}
    BY <1>1, <1>4 DEF Allowed
  <2>3. conf \in [AllNs -> ConfRows] /\ ns \in AllNs
    BY <1>1, <1>4 DEF ReloadShape
  <2>4. CASE h.does \in {"stop", "restart", "run", "read"}
    BY <1>0, <2>4, WhatActs
  <2>5. CASE h.does = "flush"
    <3>1. conf' = [conf EXCEPT ![h.ns] = [rows |-> {}, current |-> FALSE, marked |-> FALSE]]
      BY <1>0, <2>5, WhatActs
    <3> QED BY <2>1, <2>3, <2>5, <3>1
  <2>6. CASE h.does = "put"
    <3>1. conf' = [conf EXCEPT ![h.ns] = [conf[h.ns] EXCEPT !.rows = @ \cup h.rows]]
      BY <1>0, <2>6, WhatActs
    <3> QED BY <2>1, <2>3, <2>6, <3>1
  <2>7. CASE h.does = "import"
    <3>1. conf' = [conf EXCEPT ![h.ns] = [conf[h.ns] EXCEPT !.rows = @ \cup h.rows, !.current = files[h.ns].current]]
      BY <1>0, <2>7, WhatActs
    <3> QED BY <2>1, <2>3, <2>7, <3>1
  <2>8. CASE h.does = "mark"
    <3>1. conf' = [conf EXCEPT ![h.ns] = [conf[h.ns] EXCEPT !.marked = TRUE]]
      BY <1>0, <2>8, WhatActs
    <3> QED BY <2>1, <2>3, <2>8, <3>1
  <2>9. CASE h.does = "migrate"
    <3>1. conf' = [conf EXCEPT ![h.ns] = [conf[h.ns] EXCEPT !.current = TRUE]]
      BY <1>0, <2>9, WhatActs
    <3> QED BY <2>1, <2>3, <2>9, <3>1
  <2> QED BY <1>3, <2>2, <2>4, <2>5, <2>6, <2>7, <2>8, <2>9 DEF Does
<1>5. k = "reload" => There' = There
  BY <1>1 DEF There
<1>6. Elsewhere'
  BY <1>0, <1>1, <1>2, <1>4, <1>5 DEF Elsewhere, ReloadInv
<1>7. "n" \in o => UNCHANGED services
  <2>1. "n" \in o => h.does \notin {"stop", "restart"}
    BY <1>1 DEF Allowed
  <2> QED BY <1>0, <2>1, WhatActs
<1>8. ServicesLeft'
  BY <1>0, <1>1, <1>2, <1>7 DEF ServicesLeft, ReloadInv
<1> QED BY <1>6, <1>8

\* A command that ends well has marked what it has loaded, and a save has written every file.
LEMMA EndsWell ==
  ASSUME ReloadShape', TaskShape', SoFar', Elsewhere', task'.todo = <<>>, Begun'
  PROVE  /\ task'.kind \in {"reload", "minigraph"} => Initialized'
         /\ task'.kind = "save" => NoneTorn'
<1>0. PICK k, o : k = task'.kind /\ o = task'.opts
  OBVIOUS
<1>1. Elems(task.todo)' = {}
  BY DEF Elems
<1>2. \A b \in Needed(k, o)' : Leaves(k, o, b)'
  BY <1>0, <1>1 DEF SoFar
<1>3. ASSUME NEW ns \in AllNs, k = "minigraph" \/ (k = "reload" /\ ns \in There') PROVE conf'[ns].marked
  <2> DEFINE b == S("mark", ns, {})
  <2>0. S("mark", ns, {}) \in Needed(k, o)'
    BY <1>3 DEF Needed, NeededToReload, NeededToRegenerate, NeededInAll
  <2>1. b \in Needed(k, o)' /\ b.does = "mark" /\ b.ns = ns
    BY <2>0, Fields
  <2> HIDE DEF b
  <2> QED BY <1>2, <2>1 DEF Leaves
<1>4. ASSUME NEW ns \in AllNs, k = "reload", ns \notin There' PROVE conf'[ns].marked
  BY <1>0, <1>4 DEF Elsewhere
<1>5. ASSUME NEW ns \in AllNs, k = "save" PROVE files'[ns].is # "torn"
  <2> DEFINE b == S("dump", ns, {})
  <2>0. S("dump", ns, {}) \in Needed(k, o)'
    BY <1>5 DEF Needed, NeededToSave
  <2>1. b \in Needed(k, o)' /\ b.does = "dump" /\ b.ns = ns
    BY <2>0, Fields
  <2> HIDE DEF b
  <2> QED BY <1>2, <2>1 DEF Leaves
<1> QED BY <1>0, <1>3, <1>4, <1>5 DEF Initialized, NoneTorn

LEMMA ActsSpoiled ==
  ASSUME ReloadInv, Acts, ReloadShape', TaskShape', SoFar', Elsewhere'
  PROVE  OneSpoiled'
<1>0. PICK k, o, h : k = task.kind /\ o = task.opts /\ h = Head(task.todo)
  OBVIOUS
<1>1. /\ h \in ReloadStep /\ Allowed(k, o, h) /\ Begun /\ ReloadShape /\ UNCHANGED faults /\ k # "none"
      /\ task' = [task EXCEPT !.todo = Tail(task.todo), !.outcome = IF Tail(task.todo) = <<>> THEN "done" ELSE "running"]
      /\ task.todo # <<>>
  BY <1>0, Advances DEF ReloadInv
<1>2. /\ task'.kind = k /\ task'.outcome = (IF task'.todo = <<>> THEN "done" ELSE "running") /\ task.outcome = "running"
      /\ k \in {"save", "load", "reload", "minigraph"}
  BY <1>0, <1>1 DEF ReloadShape, ReloadInv, TaskShape
<1>3. Begun'
  BY <1>2 DEF Begun
<1>4. k # "save" => UNCHANGED files
  <2>1. k # "save" => h.does \notin {"truncate", "export", "dump"}
    BY <1>1, <1>2 DEF Allowed
  <2> QED BY <1>0, <2>1, WhatActs
<1>5. k \in {"save", "load"} /\ Initialized => Initialized'
  <2> SUFFICES ASSUME k \in {"save", "load"}, Initialized PROVE Initialized'
    OBVIOUS
  <2>1. conf \in [AllNs -> ConfRows] /\ h.ns \in AllNs
    BY <1>1 DEF ReloadShape, ReloadStep
  <2>2. CASE h.does \in {"truncate", "export", "dump"}
    <3>1. conf' = conf
      BY <1>0, <2>2, WhatActs
    <3> QED BY <3>1 DEF Initialized
  <2>3. CASE h.does = "import"
    <3>1. conf' = [conf EXCEPT ![h.ns] = [conf[h.ns] EXCEPT !.rows = @ \cup h.rows, !.current = files[h.ns].current]]
      BY <1>0, <2>3, WhatActs
    <3>2. \A ns \in AllNs : conf'[ns].marked = conf[ns].marked
      BY <2>1, <3>1 DEF ConfRows
    <3> QED BY <3>2 DEF Initialized
  <2> QED BY <1>1, <2>2, <2>3 DEF Allowed
<1>6. OneSpoiled
  BY DEF ReloadInv
<1>7. k # "save" /\ NoneTorn => NoneTorn'
  BY <1>4 DEF NoneTorn
<1>8. task'.todo = <<>> => (k \in {"reload", "minigraph"} => Initialized') /\ (k = "save" => NoneTorn')
  BY <1>2, <1>3, EndsWell
<1>9. (Loading <=> k \in {"reload", "minigraph"}) /\ (Saving <=> k = "save")
  BY <1>0, <1>2 DEF Loading, Saving
<1>10. /\ Loading' <=> task'.todo # <<>> /\ k \in {"reload", "minigraph"}
       /\ Saving' <=> task'.todo # <<>> /\ k = "save"
  BY <1>2 DEF Loading, Saving
<1>11. CASE k \in {"reload", "minigraph"}
  BY <1>1, <1>6, <1>7, <1>8, <1>9, <1>10, <1>11 DEF OneSpoiled
<1>12. CASE k = "save"
  BY <1>1, <1>5, <1>6, <1>8, <1>9, <1>10, <1>12 DEF OneSpoiled
<1>13. CASE k = "load"
  BY <1>1, <1>5, <1>6, <1>7, <1>9, <1>10, <1>13 DEF OneSpoiled
<1> QED BY <1>2, <1>11, <1>12, <1>13

LEMMA ActsKept == ReloadInv /\ Acts => ReloadInv'
<1> SUFFICES ASSUME ReloadInv, Acts PROVE ReloadInv'
  OBVIOUS
<1>1. ReloadShape' /\ TaskShape' /\ SoFar' /\ Course(task.kind, task.opts, task.todo, {})' /\ MarkedHasBase'
      /\ WholeIsComplete' /\ Elsewhere' /\ ServicesLeft'
  BY ActsShape, ActsSoFar, ActsComplete, ActsElsewhere
<1>2. OneSpoiled'
  BY <1>1, ActsSpoiled
<1> QED BY <1>1, <1>2 DEF ReloadInv

\* The services may come up, whatever the command does.
LEMMA SettleKept ==
  ASSUME ReloadInv, UNCHANGED <<conf, files, present, task, faults, budget>>, services' = services \/ services' = "up"
  PROVE  ReloadInv'
<1>1. PICK k, o, q : k = task.kind /\ o = task.opts /\ q = task.todo
  OBVIOUS
<1>2. ReloadShape' /\ TaskShape' /\ MarkedHasBase' /\ WholeIsComplete' /\ OneSpoiled'
  BY DEF ReloadInv, ReloadShape, TaskShape, MarkedHasBase, WholeIsComplete, OneSpoiled, NoneTorn, Loading, Saving, Initialized
<1>3. Elsewhere' /\ ServicesLeft'
  BY DEF ReloadInv, Elsewhere, ServicesLeft, There, Begun
<1>4. Course(k, o, q, {})' = Course(k, o, q, {}) /\ Needed(k, o)' = Needed(k, o) /\ \A ns : Foreign(k, o, ns)' = Foreign(k, o, ns)
  BY NeededKept
<1>5. Course(task.kind, task.opts, task.todo, {})'
  BY <1>1, <1>4 DEF ReloadInv
<1>6. \A b : Leaves(k, o, b) => Leaves(k, o, b)'
  BY <1>4 DEF Leaves, Lasting
<1>7. Elems(q)' = Elems(q)
  BY DEF Elems
<1>8. SoFar'
  BY <1>1, <1>4, <1>6, <1>7 DEF ReloadInv, SoFar, Begun
<1> QED BY <1>2, <1>3, <1>5, <1>8 DEF ReloadInv

\* The course of a command that has ended.
LEMMA NothingToDo == \A k, o : Course(k, o, <<>>, {})
  BY DEF Course

\* A step that cannot succeed fails only after an earlier fault.
LEMMA ImpossibleFirst == ReloadInv /\ Impossible /\ faults = 0 => NoneTorn /\ Initialized
<1> SUFFICES ASSUME ReloadInv, Impossible, faults = 0 PROVE NoneTorn /\ Initialized
  OBVIOUS
<1>0. PICK k, o, h : k = task.kind /\ o = task.opts /\ h = Head(task.todo)
  OBVIOUS
<1>1. task.todo # <<>>
  BY DEF Impossible, Now
<1>2. /\ Course(k, o, task.todo, {}) /\ task.outcome = "running" /\ k # "none" /\ OneSpoiled /\ ReloadShape
      /\ k \in {"none", "save", "load", "reload", "minigraph"}
  BY <1>0, <1>1 DEF ReloadInv, TaskShape, ReloadShape
<1>3. h \in ReloadStep /\ Allowed(k, o, h)
  BY <1>0, <1>1, <1>2, CourseTail
<1>4. /\ (Loading <=> k \in {"reload", "minigraph"}) /\ (Saving <=> k = "save")
  BY <1>0, <1>2 DEF Loading, Saving
<1>5. CASE h.does \in {"read", "import"} /\ files[h.ns].is # "whole"
  <2>1. k \in {"reload", "load"}
    BY <1>2, <1>3, <1>5 DEF Allowed
  <2>2. CASE k = "reload"
    <3>1. NoneTorn
      BY <1>2, <1>4, <2>2 DEF OneSpoiled
    <3>2. h.ns \in There
      BY <1>3, <1>5, <2>2 DEF Allowed
    <3>3. files[h.ns].is \in {"none", "torn", "whole"}
      BY <1>2, <3>2 DEF ReloadShape, There
    <3> QED BY <1>5, <3>1, <3>2, <3>3 DEF There, NoneTorn
  <2>3. CASE k = "load"
    BY <1>2, <1>4, <2>3 DEF OneSpoiled
  <2> QED BY <2>1, <2>2, <2>3
<1>6. CASE h.does = "find"
  <2>1. k = "minigraph"
    BY <1>2, <1>3, <1>6 DEF Allowed
  <2>2. ASSUME NEW ns \in AllNs PROVE conf[ns].marked
    <3> DEFINE b == S("mark", ns, {})
    <3>1. S("mark", ns, {}) \in Needed(k, o)
      BY <2>1, NeededFacts
    <3>2. b \in Needed(k, o) /\ b.does = "mark" /\ b.ns = ns
      BY <3>1, Fields
    <3> HIDE DEF b
    <3>3. Leaves(k, o, b)
      BY <1>0, <1>1, <1>6, <3>2, DoneBefore DEF Late
    <3> QED BY <3>2, <3>3 DEF Leaves
  <2> QED BY <1>2, <1>4, <2>1, <2>2 DEF OneSpoiled, Initialized
<1> QED BY <1>0, <1>5, <1>6 DEF Impossible, Now, Ns

LEMMA FailsKept == ReloadInv /\ StepFails => ReloadInv'
<1> SUFFICES ASSUME ReloadInv, StepFails PROVE ReloadInv'
  OBVIOUS
<1>0. PICK h : h = Head(task.todo)
  OBVIOUS
<1>1. /\ task.todo # <<>> /\ UNCHANGED <<files, present, budget>>
      /\ faults' = IF Impossible THEN faults ELSE faults + 1
      /\ task' = [task EXCEPT !.todo = <<>>, !.outcome = "failed"]
  BY DEF StepFails
<1>2. ReloadShape /\ Course(task.kind, task.opts, task.todo, {}) /\ task.kind # "none"
  BY <1>1 DEF ReloadInv, TaskShape
<1>3. h \in ReloadStep
  BY <1>0, <1>1, <1>2, CourseTail
<1>4. /\ services' \in {"up", "starting", "down"}
      /\ UNCHANGED conf \/ conf' = [conf EXCEPT ![h.ns] = [conf[h.ns] EXCEPT !.rows = @ \cup {"part"}]]
  <2>1. services \in {"up", "starting", "down"}
    BY <1>2 DEF ReloadShape
  <2> QED BY <1>0, <2>1 DEF StepFails, Sets, Ns
<1>5. /\ conf \in [AllNs -> ConfRows] /\ h.ns \in AllNs /\ conf[h.ns] \in ConfRows /\ {"part"} \subseteq Sources
  BY <1>2, <1>3 DEF ReloadShape, ReloadStep, Sources
<1>6. /\ conf' \in [AllNs -> ConfRows]
      /\ \A ns \in AllNs : conf'[ns].marked = conf[ns].marked /\ conf[ns].rows \subseteq conf'[ns].rows
  <2>1. CASE UNCHANGED conf
    BY <1>5, <2>1
  <2>2. CASE conf' = [conf EXCEPT ![h.ns] = [conf[h.ns] EXCEPT !.rows = @ \cup {"part"}]]
    <3>1. /\ [conf[h.ns] EXCEPT !.rows = @ \cup {"part"}] \in ConfRows
          /\ [conf[h.ns] EXCEPT !.rows = @ \cup {"part"}].rows = conf[h.ns].rows \cup {"part"}
          /\ [conf[h.ns] EXCEPT !.rows = @ \cup {"part"}].marked = conf[h.ns].marked
      BY <1>5 DEF ConfRows
    <3> QED BY <1>5, <2>2, <3>1
  <2> QED BY <1>4, <2>1, <2>2
<1>7. /\ task' \in [kind : {"none", "save", "load", "reload", "minigraph"}, opts : SUBSET {"l", "n", "f", "t", "o"},
                    todo : Seq(ReloadStep), outcome : {"running", "done", "failed", "refused"},
                    was : [AllNs -> ConfRows], services : {"up", "starting", "down"}]
      /\ task'.todo = <<>> /\ task'.outcome = "failed" /\ task'.kind = task.kind /\ task'.was = task.was
  <2>1. <<>> \in Seq(ReloadStep)
    OBVIOUS
  <2> QED BY <1>1, <1>2, <2>1 DEF ReloadShape
<1>8. faults' \in Nat /\ faults \in Nat
  BY <1>1, <1>2 DEF ReloadShape
<1>9. ReloadShape' /\ TaskShape'
  BY <1>1, <1>2, <1>4, <1>6, <1>7, <1>8 DEF ReloadShape, TaskShape
<1>10. MarkedHasBase' /\ WholeIsComplete'
  BY <1>1, <1>6 DEF ReloadInv, MarkedHasBase, WholeIsComplete
<1>11. SoFar' /\ Elsewhere' /\ ServicesLeft' /\ ~Saving' /\ ~Loading'
  <2>1. ~Begun' /\ ~Saving' /\ ~Loading'
    BY <1>7 DEF Begun, Saving, Loading
  <2> QED BY <1>7, <2>1 DEF ReloadInv, SoFar, Elsewhere, ServicesLeft
<1>12. Course(task.kind, task.opts, task.todo, {})'
  BY <1>7, NothingToDo DEF Course
<1>13. (NoneTorn => NoneTorn') /\ (Initialized => Initialized')
  BY <1>1, <1>6 DEF NoneTorn, Initialized
<1>14. OneSpoiled'
  <2>1. OneSpoiled
    BY DEF ReloadInv
  <2>2. CASE Impossible
    <3>1. faults = 0 => NoneTorn /\ Initialized
      BY <2>2, ImpossibleFirst
    <3> QED BY <1>1, <1>11, <1>13, <2>1, <2>2, <3>1 DEF OneSpoiled
  <2>3. CASE ~Impossible
    <3>1. faults' = faults + 1
      BY <1>1, <2>3
    <3>2. ~(Loading /\ Saving)
      BY DEF Loading, Saving
    <3>3. faults' # 0 /\ (faults' <= 1 => faults = 0 /\ faults <= 1)
      BY <1>8, <3>1
    <3> QED BY <1>11, <1>13, <2>1, <3>2, <3>3 DEF OneSpoiled
  <2> QED BY <2>2, <2>3
<1> QED BY <1>9, <1>10, <1>11, <1>12, <1>14 DEF ReloadInv

(* The programs. *)

LEMMA CourseNone == ASSUME NEW k, NEW o, NEW M PROVE Course(k, o, <<>>, M) /\ Elems(<<>>) = {}
  BY DEF Course, Elems

\* One sequence of steps, and then another.
Then(p, q) == p \o q

LEMMA ElemsThen ==
  ASSUME NEW p \in Seq(ReloadStep), NEW q \in Seq(ReloadStep)
  PROVE  Then(p, q) \in Seq(ReloadStep) /\ Elems(Then(p, q)) = Elems(p) \cup Elems(q)
<1> DEFINE r == Then(p, q)
<1>1. p \in Seq(ReloadStep) /\ q \in Seq(ReloadStep) /\ Len(p) \in Nat /\ Len(q) \in Nat
  OBVIOUS
<1>2. /\ r \in Seq(ReloadStep) /\ Len(r) = Len(p) + Len(q)
      /\ \A i \in 1 .. Len(p) : r[i] = p[i]
      /\ \A i \in 1 .. Len(q) : r[Len(p) + i] = q[i]
  BY <1>1 DEF Then
<1> HIDE DEF r
<1>3. ASSUME NEW i \in 1 .. Len(r) PROVE i \in 1 .. Len(p) \/ (i - Len(p) \in 1 .. Len(q) /\ r[i] = q[i - Len(p)])
  <2>1. CASE i \in 1 .. Len(p)
    BY <2>1
  <2>2. CASE i \notin 1 .. Len(p)
    <3>1. i - Len(p) \in 1 .. Len(q) /\ Len(p) + (i - Len(p)) = i
      BY <1>1, <1>2, <2>2
    <3> QED BY <1>2, <3>1
  <2> QED BY <2>1, <2>2
<1>4. Elems(r) = Elems(p) \cup Elems(q)
  <2>1. ASSUME NEW x \in Elems(r) PROVE x \in Elems(p) \cup Elems(q)
    <3>1. PICK i \in 1 .. Len(r) : x = r[i]
      BY <2>1 DEF Elems
    <3> QED BY <1>2, <1>3, <3>1 DEF Elems
  <2>2. ASSUME NEW x \in Elems(p) PROVE x \in Elems(r)
    <3>1. PICK i \in 1 .. Len(p) : x = p[i]
      BY <2>2 DEF Elems
    <3>2. i \in 1 .. Len(r) /\ r[i] = x
      BY <1>1, <1>2, <3>1
    <3> QED BY <3>2 DEF Elems
  <2>3. ASSUME NEW x \in Elems(q) PROVE x \in Elems(r)
    <3>1. PICK i \in 1 .. Len(q) : x = q[i]
      BY <2>3 DEF Elems
    <3>2. Len(p) + i \in 1 .. Len(r) /\ r[Len(p) + i] = x
      BY <1>1, <1>2, <3>1
    <3> QED BY <3>2 DEF Elems
  <2> QED BY <2>1, <2>2, <2>3
<1> QED BY <1>2, <1>4 DEF r

LEMMA CourseThen ==
  ASSUME NEW k, NEW o, NEW M, NEW p, NEW q, NEW E, Course(k, o, p, E), Course(k, o, q, M), E = Elems(q) \cup M
  PROVE  Course(k, o, Then(p, q), M)
<1> DEFINE r == Then(p, q)
<1>1. p \in Seq(ReloadStep) /\ q \in Seq(ReloadStep) /\ Len(p) \in Nat /\ Len(q) \in Nat
  BY DEF Course
<1>2. /\ r \in Seq(ReloadStep) /\ Len(r) = Len(p) + Len(q)
      /\ \A i \in 1 .. Len(p) : r[i] = p[i]
      /\ \A i \in 1 .. Len(q) : r[Len(p) + i] = q[i]
  BY <1>1 DEF Then
<1> HIDE DEF r
<1>3. ASSUME NEW i \in 1 .. Len(r) PROVE i \in 1 .. Len(p) \/ (i - Len(p) \in 1 .. Len(q) /\ r[i] = q[i - Len(p)])
  <2>1. CASE i \in 1 .. Len(p)
    BY <2>1
  <2>2. CASE i \notin 1 .. Len(p)
    <3>1. i - Len(p) \in 1 .. Len(q) /\ Len(p) + (i - Len(p)) = i
      BY <1>1, <1>2, <2>2
    <3> QED BY <1>2, <3>1
  <2> QED BY <2>1, <2>2
<1>5. ASSUME NEW i \in 1 .. Len(r)
      PROVE  /\ Allowed(k, o, r[i])
             /\ \A b \in Needed(k, o) : Undoes(k, o, r[i], b) => b \in M \/ \E j \in i + 1 .. Len(r) : r[j] = b
             /\ \A j \in i + 1 .. Len(r) : ~Late(r[i], r[j])
             /\ \A y \in M : ~Late(r[i], y)
  <2>1. CASE i \in 1 .. Len(p)
    <3>1. r[i] = p[i]
      BY <1>2, <2>1
    <3>2. ASSUME NEW b \in Needed(k, o), Undoes(k, o, r[i], b), b \notin M PROVE \E j \in i + 1 .. Len(r) : r[j] = b
      <4>1. CASE b \in Elems(q)
        <5>1. PICK j \in 1 .. Len(q) : q[j] = b
          BY <4>1 DEF Elems
        <5>2. Len(p) + j \in i + 1 .. Len(r) /\ r[Len(p) + j] = b
          BY <1>1, <1>2, <2>1, <5>1
        <5> QED BY <5>2
      <4>2. CASE b \notin Elems(q)
        <5>1. PICK j \in i + 1 .. Len(p) : p[j] = b
          BY <2>1, <3>1, <3>2, <4>2 DEF Course
        <5>2. j \in i + 1 .. Len(r) /\ r[j] = b
          BY <1>1, <1>2, <2>1, <5>1
        <5> QED BY <5>2
      <4> QED BY <4>1, <4>2
    <3>3. ASSUME NEW j \in i + 1 .. Len(r) PROVE ~Late(r[i], r[j])
      <4>1. j \in 1 .. Len(r)
        BY <1>1, <1>2, <2>1
      <4>2. CASE j \in 1 .. Len(p)
        <5>1. j \in i + 1 .. Len(p) /\ r[j] = p[j]
          BY <1>1, <1>2, <2>1, <4>2
        <5> QED BY <2>1, <3>1, <5>1 DEF Course
      <4>3. CASE j \notin 1 .. Len(p)
        <5>1. r[j] \in Elems(q)
          BY <1>3, <4>1, <4>3 DEF Elems
        <5> QED BY <2>1, <3>1, <5>1 DEF Course
      <4> QED BY <4>2, <4>3
    <3> QED BY <2>1, <3>1, <3>2, <3>3 DEF Course
  <2>2. CASE i \notin 1 .. Len(p)
    <3> DEFINE n == i - Len(p)
    <3>1. n \in 1 .. Len(q) /\ r[i] = q[n] /\ i = Len(p) + n
      BY <1>1, <1>3, <2>2
    <3> HIDE DEF n
    <3>2. ASSUME NEW b \in Needed(k, o), Undoes(k, o, r[i], b), b \notin M PROVE \E j \in i + 1 .. Len(r) : r[j] = b
      <4>1. PICK j \in n + 1 .. Len(q) : q[j] = b
        BY <3>1, <3>2 DEF Course
      <4>2. Len(p) + j \in i + 1 .. Len(r) /\ r[Len(p) + j] = b
        BY <1>1, <1>2, <3>1, <4>1
      <4> QED BY <4>2
    <3>3. ASSUME NEW j \in i + 1 .. Len(r) PROVE ~Late(r[i], r[j])
      <4>1. j - Len(p) \in n + 1 .. Len(q) /\ Len(p) + (j - Len(p)) = j
        BY <1>1, <1>2, <3>1
      <4>2. r[j] = q[j - Len(p)]
        BY <1>1, <1>2, <3>1, <4>1
      <4> QED BY <3>1, <4>1, <4>2 DEF Course
    <3> QED BY <3>1, <3>2, <3>3 DEF Course
  <2> QED BY <2>1, <2>2
<1>6. Course(k, o, r, M)
  BY <1>2, <1>5 DEF Course
<1> QED BY <1>6 DEF r

\* Blocks that do not rely on each other.
LEMMA CourseFlatten ==
  ASSUME NEW k, NEW o, NEW M, NEW blocks \in Seq(Seq(ReloadStep)), blocks # <<>>,
         \A n \in 1 .. Len(blocks) : Course(k, o, blocks[n], M),
         \A m, n \in 1 .. Len(blocks) : \A x \in Elems(blocks[m]), y \in Elems(blocks[n]) : m # n => ~Late(x, y)
  PROVE  /\ Course(k, o, FlattenSeq(blocks), M)
         /\ \A n \in 1 .. Len(blocks) : Elems(blocks[n]) \subseteq Elems(FlattenSeq(blocks))
         /\ \A x \in Elems(FlattenSeq(blocks)) : \E n \in 1 .. Len(blocks) : x \in Elems(blocks[n])
<1> DEFINE r == FlattenSeq(blocks)
           N == Len(blocks)
<1>1. r \in Seq(ReloadStep) /\ \E off : Lies(r, blocks, N, off)
  BY FlattenLies
<1>2. N \in Nat /\ \A n \in 1 .. N : blocks[n] \in Seq(ReloadStep) /\ Len(blocks[n]) \in Nat
  OBVIOUS
<1> HIDE DEF r, N
<1>3. PICK off : Lies(r, blocks, N, off)
  BY <1>1
<1>4. /\ Len(r) \in Nat
      /\ \A n \in 1 .. N : off[n] \in Nat /\ off[n] + Len(blocks[n]) <= Len(r)
      /\ \A n \in 1 .. N : \A l \in 1 .. Len(blocks[n]) : r[off[n] + l] = blocks[n][l]
      /\ \A i \in 1 .. Len(r) : \E n \in 1 .. N : off[n] < i /\ i <= off[n] + Len(blocks[n])
  <2>1. Len(r) \in Nat
    BY <1>1
  <2>2. off \in [1 .. N -> Nat]
    BY <1>3 DEF Lies
  <2>3. \A n \in 1 .. N : off[n] \in Nat
    BY <2>2
  <2> QED BY <1>3, <2>1, <2>3 DEF Lies
<1>5. ASSUME NEW i \in 1 .. Len(r)
      PROVE  \E n \in 1 .. N : \E l \in 1 .. Len(blocks[n]) : i = off[n] + l /\ r[i] = blocks[n][l]
  <2>1. PICK n \in 1 .. N : off[n] < i /\ i <= off[n] + Len(blocks[n])
    BY <1>4
  <2>2. i - off[n] \in 1 .. Len(blocks[n]) /\ off[n] + (i - off[n]) = i
    BY <1>2, <1>4, <2>1
  <2>3. r[off[n] + (i - off[n])] = blocks[n][i - off[n]]
    BY <1>4, <2>2
  <2> QED BY <2>2, <2>3
<1>6. ASSUME NEW n \in 1 .. N, NEW l \in 1 .. Len(blocks[n]) PROVE off[n] + l \in 1 .. Len(r) /\ r[off[n] + l] = blocks[n][l]
  BY <1>2, <1>4
<1>7. \A n \in 1 .. N : Elems(blocks[n]) \subseteq Elems(r)
  <2> SUFFICES ASSUME NEW n \in 1 .. N, NEW x \in Elems(blocks[n]) PROVE x \in Elems(r)
    OBVIOUS
  <2>1. PICK l \in 1 .. Len(blocks[n]) : x = blocks[n][l]
    BY DEF Elems
  <2> QED BY <1>6, <2>1 DEF Elems
<1>8. \A x \in Elems(r) : \E n \in 1 .. N : x \in Elems(blocks[n])
  <2> SUFFICES ASSUME NEW x \in Elems(r) PROVE \E n \in 1 .. N : x \in Elems(blocks[n])
    OBVIOUS
  <2>1. PICK i \in 1 .. Len(r) : x = r[i]
    BY DEF Elems
  <2>2. PICK n \in 1 .. N : \E l \in 1 .. Len(blocks[n]) : r[i] = blocks[n][l]
    BY <1>5
  <2> QED BY <2>1, <2>2 DEF Elems
<1>9. ASSUME NEW i \in 1 .. Len(r)
      PROVE  /\ Allowed(k, o, r[i])
             /\ \A b \in Needed(k, o) : Undoes(k, o, r[i], b) => b \in M \/ \E j \in i + 1 .. Len(r) : r[j] = b
             /\ \A j \in i + 1 .. Len(r) : ~Late(r[i], r[j])
             /\ \A y \in M : ~Late(r[i], y)
  <2>1. PICK n \in 1 .. N : \E l \in 1 .. Len(blocks[n]) : i = off[n] + l /\ r[i] = blocks[n][l]
    BY <1>5
  <2>2. PICK l \in 1 .. Len(blocks[n]) : i = off[n] + l /\ r[i] = blocks[n][l]
    BY <2>1
  <2>3. Course(k, o, blocks[n], M)
    BY DEF N
  <2>4. ASSUME NEW b \in Needed(k, o), Undoes(k, o, r[i], b), b \notin M PROVE \E j \in i + 1 .. Len(r) : r[j] = b
    <3>1. PICK j \in l + 1 .. Len(blocks[n]) : blocks[n][j] = b
      BY <2>2, <2>3, <2>4 DEF Course
    <3>2. j \in 1 .. Len(blocks[n]) /\ l < j
      BY <1>2, <3>1
    <3>3. off[n] + j \in i + 1 .. Len(r) /\ r[off[n] + j] = b
      <4>1. off[n] + j \in 1 .. Len(r) /\ r[off[n] + j] = blocks[n][j]
        BY <1>6, <3>2
      <4>2. off[n] \in Nat /\ i = off[n] + l /\ l \in Nat /\ j \in Nat /\ l < j
        BY <1>2, <1>4, <2>2, <3>2
      <4>3. off[n] + j \in i + 1 .. Len(r)
        BY <4>1, <4>2
      <4> QED BY <3>1, <4>1, <4>3
    <3> QED BY <3>3
  <2>5. ASSUME NEW j \in i + 1 .. Len(r) PROVE ~Late(r[i], r[j])
    <3>1. j \in 1 .. Len(r)
      BY <1>4
    <3>2. PICK m \in 1 .. N : \E z \in 1 .. Len(blocks[m]) : j = off[m] + z /\ r[j] = blocks[m][z]
      BY <1>5, <3>1
    <3>3. PICK z \in 1 .. Len(blocks[m]) : j = off[m] + z /\ r[j] = blocks[m][z]
      BY <3>2
    <3>4. CASE m = n
      <4>1. z \in l + 1 .. Len(blocks[n])
        BY <1>2, <1>4, <2>2, <3>3, <3>4
      <4> QED BY <2>2, <2>3, <3>3, <3>4, <4>1 DEF Course
    <3>5. CASE m # n
      <4>1. r[i] \in Elems(blocks[n]) /\ r[j] \in Elems(blocks[m])
        BY <2>2, <3>3 DEF Elems
      <4> QED BY <3>5, <4>1 DEF N
    <3> QED BY <3>4, <3>5
  <2> QED BY <2>2, <2>3, <2>4, <2>5 DEF Course
<1>10. Course(k, o, r, M)
  BY <1>1, <1>9 DEF Course
<1> QED BY <1>7, <1>8, <1>10 DEF r, N

\* The step x may come before those of E.
Fits(k, o, x, E) ==
    /\ Allowed(k, o, x)
    /\ \A b \in Needed(k, o) : Undoes(k, o, x, b) => b \in E
    /\ \A y \in E : ~Late(x, y)

LEMMA CourseFirst ==
  ASSUME NEW k, NEW o, NEW M, NEW r \in Seq(ReloadStep), r # <<>>, Course(k, o, Tail(r), M),
         NEW E, E = Elems(Tail(r)) \cup M, Fits(k, o, r[1], E)
  PROVE  Course(k, o, r, M) /\ Elems(r) = {r[1]} \cup Elems(Tail(r))
<1>0. PICK x, q : x = r[1] /\ q = Tail(r)
  OBVIOUS
<1>1. /\ q \in Seq(ReloadStep) /\ Len(r) \in Nat \ {0} /\ Len(q) = Len(r) - 1 /\ x = r[1]
      /\ \A i \in 1 .. Len(q) : q[i] = r[i + 1]
      /\ Course(k, o, q, M) /\ Allowed(k, o, x)
      /\ \A b \in Needed(k, o) : Undoes(k, o, x, b) => b \in Elems(q) \cup M
      /\ \A y \in Elems(q) \cup M : ~Late(x, y)
  <2>1. q \in Seq(ReloadStep) /\ Len(r) \in Nat \ {0} /\ Len(q) = Len(r) - 1 /\ \A i \in 1 .. Len(q) : q[i] = r[i + 1]
    BY <1>0
  <2> QED BY <1>0, <2>1 DEF Fits
<1>2. \A i \in 1 .. Len(r) : i = 1 \/ (i - 1 \in 1 .. Len(q) /\ r[i] = q[i - 1])
  <2> SUFFICES ASSUME NEW i \in 1 .. Len(r), i # 1 PROVE i - 1 \in 1 .. Len(q) /\ r[i] = q[i - 1]
    OBVIOUS
  <2>1. i - 1 \in 1 .. Len(q) /\ (i - 1) + 1 = i
    BY <1>1
  <2> QED BY <1>1, <2>1
<1>3. \A j \in 1 .. Len(q) : j + 1 \in 2 .. Len(r) /\ r[j + 1] = q[j]
  BY <1>1
<1>4. Elems(r) = {x} \cup Elems(q)
  <2>1. ASSUME NEW y \in Elems(r) PROVE y \in {x} \cup Elems(q)
    <3>1. PICK i \in 1 .. Len(r) : y = r[i]
      BY <2>1 DEF Elems
    <3> QED BY <1>1, <1>2, <3>1 DEF Elems
  <2>2. x \in Elems(r)
    BY <1>1 DEF Elems
  <2>3. ASSUME NEW y \in Elems(q) PROVE y \in Elems(r)
    <3>1. PICK j \in 1 .. Len(q) : y = q[j]
      BY <2>3 DEF Elems
    <3>2. j + 1 \in 1 .. Len(r) /\ r[j + 1] = y
      BY <1>1, <1>3, <3>1
    <3> QED BY <3>2 DEF Elems
  <2> QED BY <2>1, <2>2, <2>3
<1>5. \A y \in Elems(q) : \E j \in 2 .. Len(r) : r[j] = y
  BY <1>3 DEF Elems
<1>6. ASSUME NEW i \in 1 .. Len(r)
      PROVE  /\ Allowed(k, o, r[i])
             /\ \A b \in Needed(k, o) : Undoes(k, o, r[i], b) => b \in M \/ \E j \in i + 1 .. Len(r) : r[j] = b
             /\ \A j \in i + 1 .. Len(r) : ~Late(r[i], r[j])
             /\ \A y \in M : ~Late(r[i], y)
  <2>1. CASE i = 1
    <3>1. r[i] = x /\ i + 1 = 2
      BY <1>1, <2>1
    <3>2. \A j \in 2 .. Len(r) : r[j] \in Elems(q)
      <4> SUFFICES ASSUME NEW j \in 2 .. Len(r) PROVE r[j] \in Elems(q)
        OBVIOUS
      <4>1. j \in 1 .. Len(r) /\ j # 1
        BY <1>1
      <4> QED BY <1>2, <4>1 DEF Elems
    <3> QED BY <1>1, <1>5, <3>1, <3>2
  <2>2. CASE i # 1
    <3>1. i - 1 \in 1 .. Len(q) /\ r[i] = q[i - 1]
      BY <1>2, <2>2
    <3>2. PICK n : n = i - 1
      OBVIOUS
    <3>3. n \in 1 .. Len(q) /\ r[i] = q[n] /\ i = n + 1
      BY <3>1, <3>2
    <3>4. ASSUME NEW b \in Needed(k, o), Undoes(k, o, r[i], b), b \notin M PROVE \E j \in i + 1 .. Len(r) : r[j] = b
      <4>1. PICK j \in n + 1 .. Len(q) : q[j] = b
        BY <1>1, <3>3, <3>4 DEF Course
      <4>2. j \in 1 .. Len(q) /\ j + 1 \in i + 1 .. Len(r)
        BY <1>1, <3>3, <4>1
      <4> QED BY <1>3, <4>1, <4>2
    <3>5. ASSUME NEW j \in i + 1 .. Len(r) PROVE ~Late(r[i], r[j])
      <4>1. j \in 1 .. Len(r) /\ j # 1 /\ j - 1 \in n + 1 .. Len(q)
        BY <1>1, <3>3
      <4>2. r[j] = q[j - 1]
        BY <1>2, <4>1
      <4> QED BY <1>1, <3>3, <4>1, <4>2 DEF Course
    <3> QED BY <1>1, <3>3, <3>4, <3>5 DEF Course
  <2> QED BY <2>1, <2>2
<1>7. Course(k, o, r, M)
  BY <1>6 DEF Course
<1> QED BY <1>0, <1>4, <1>7

LEMMA CourseOne ==
  ASSUME NEW k, NEW o, NEW M, NEW x \in ReloadStep, Fits(k, o, x, M)
  PROVE  Course(k, o, <<x>>, M) /\ Elems(<<x>>) = {x} /\ <<x>> # <<>>
<1>1. PICK r : r = <<x>>
  OBVIOUS
<1>2. r \in Seq(ReloadStep) /\ r # <<>> /\ x = r[1] /\ Tail(r) = <<>>
  BY <1>1
<1>3. Course(k, o, Tail(r), M) /\ Elems(Tail(r)) = {} /\ M = Elems(Tail(r)) \cup M
  BY <1>2, CourseNone
<1>4. Fits(k, o, r[1], M)
  BY <1>2
<1>5. Course(k, o, r, M) /\ Elems(r) = {r[1]} \cup Elems(Tail(r))
  BY <1>2, <1>3, <1>4, CourseFirst
<1> QED BY <1>1, <1>2, <1>3, <1>5

LEMMA CoursePair ==
  ASSUME NEW k, NEW o, NEW M, NEW x \in ReloadStep, NEW y \in ReloadStep,
         Fits(k, o, x, {y} \cup M), Fits(k, o, y, M)
  PROVE  Course(k, o, <<x, y>>, M) /\ Elems(<<x, y>>) = {x, y} /\ <<x, y>> # <<>>
<1>1. PICK r : r = <<x, y>>
  OBVIOUS
<1>2. r \in Seq(ReloadStep) /\ r # <<>> /\ r[1] = x /\ Tail(r) = <<y>>
  BY <1>1
<1>3. Course(k, o, Tail(r), M) /\ Elems(Tail(r)) = {y}
  <2>1. Course(k, o, <<y>>, M) /\ Elems(<<y>>) = {y}
    BY CourseOne
  <2> QED BY <1>2, <2>1
<1>4. PICK E : E = {y} \cup M
  OBVIOUS
<1>5. E = Elems(Tail(r)) \cup M /\ Fits(k, o, r[1], E)
  BY <1>2, <1>3, <1>4
<1>6. Course(k, o, r, M) /\ Elems(r) = {r[1]} \cup Elems(Tail(r))
  BY <1>2, <1>3, <1>5, CourseFirst
<1> QED BY <1>1, <1>2, <1>3, <1>6

LEMMA CourseTriple ==
  ASSUME NEW k, NEW o, NEW M, NEW x \in ReloadStep, NEW y \in ReloadStep, NEW z \in ReloadStep,
         Fits(k, o, x, {y, z} \cup M), Fits(k, o, y, {z} \cup M), Fits(k, o, z, M)
  PROVE  Course(k, o, <<x, y, z>>, M) /\ Elems(<<x, y, z>>) = {x, y, z} /\ <<x, y, z>> # <<>>
<1>1. PICK r : r = <<x, y, z>>
  OBVIOUS
<1>2. r \in Seq(ReloadStep) /\ r # <<>> /\ r[1] = x /\ Tail(r) = <<y, z>>
  BY <1>1
<1>3. Course(k, o, Tail(r), M) /\ Elems(Tail(r)) = {y, z}
  <2>1. Course(k, o, <<y, z>>, M) /\ Elems(<<y, z>>) = {y, z}
    BY CoursePair
  <2> QED BY <1>2, <2>1
<1>4. PICK E : E = {y, z} \cup M
  OBVIOUS
<1>5. E = Elems(Tail(r)) \cup M /\ Fits(k, o, r[1], E)
  BY <1>2, <1>3, <1>4
<1>6. Course(k, o, r, M) /\ Elems(r) = {r[1]} \cup Elems(Tail(r))
  BY <1>2, <1>3, <1>5, CourseFirst
<1> QED BY <1>1, <1>2, <1>3, <1>6

LEMMA CourseQuad ==
  ASSUME NEW k, NEW o, NEW M, NEW x \in ReloadStep, NEW y \in ReloadStep, NEW z \in ReloadStep, NEW w \in ReloadStep,
         Fits(k, o, x, {y, z, w} \cup M), Fits(k, o, y, {z, w} \cup M), Fits(k, o, z, {w} \cup M), Fits(k, o, w, M)
  PROVE  Course(k, o, <<x, y, z, w>>, M) /\ Elems(<<x, y, z, w>>) = {x, y, z, w} /\ <<x, y, z, w>> # <<>>
<1>1. PICK r : r = <<x, y, z, w>>
  OBVIOUS
<1>2. r \in Seq(ReloadStep) /\ r # <<>> /\ r[1] = x /\ Tail(r) = <<y, z, w>>
  BY <1>1
<1>3. Course(k, o, Tail(r), M) /\ Elems(Tail(r)) = {y, z, w}
  <2>1. Course(k, o, <<y, z, w>>, M) /\ Elems(<<y, z, w>>) = {y, z, w}
    BY CourseTriple
  <2> QED BY <1>2, <2>1
<1>4. PICK E : E = {y, z, w} \cup M
  OBVIOUS
<1>5. E = Elems(Tail(r)) \cup M /\ Fits(k, o, r[1], E)
  BY <1>2, <1>3, <1>4
<1>6. Course(k, o, r, M) /\ Elems(r) = {r[1]} \cup Elems(Tail(r))
  BY <1>2, <1>3, <1>5, CourseFirst
<1> QED BY <1>1, <1>2, <1>3, <1>6

LEMMA StepOf == \A does \in Does, ns \in AllNs : \A rows \in SUBSET Sources : S(does, ns, rows) \in ReloadStep
  BY DEF S, ReloadStep

LEMMA NeededOfMinigraph ==
  ASSUME NEW o, NEW b \in Needed("minigraph", o)
  PROVE  \/ \E ns \in AllNs : b \in {S("flush", ns, {}), S("mark", ns, {}), S("migrate", ns, {}),
                                     S("put", ns, {"minigraph"} \cup FromInit)}
         \/ "o" \in o /\ b \in {S("drop", Host, Overridden), S("put", Host, {"golden"})}
         \/ "n" \notin o /\ b = S("restart", Host, {})
<1>1. \A nss : b \in NeededInAll(nss) => \E ns \in nss : b \in {S("flush", ns, {}), S("mark", ns, {}), S("migrate", ns, {})}
  BY DEF NeededInAll
<1>2. b \in NeededToRestart(o) => "n" \notin o /\ b = S("restart", Host, {})
  BY DEF NeededToRestart
<1>3. b \in NeededToRegenerate(o) \/ b \in NeededToRestart(o)
  BY DEF Needed
<1>4. b \in NeededToRegenerate(o) =>
         \/ b \in NeededInAll(AllNs) \/ \E ns \in AllNs : b = S("put", ns, {"minigraph"} \cup FromInit)
         \/ "o" \in o /\ b \in {S("drop", Host, Overridden), S("put", Host, {"golden"})}
  BY DEF NeededToRegenerate
<1> QED BY <1>1, <1>2, <1>3, <1>4

LEMMA NeededOnly ==
  ASSUME NEW k, NEW o, NEW b \in Needed(k, o)
  PROVE  /\ k \in {"save", "reload", "minigraph"}
         /\ k = "save" => \E ns \in AllNs : b \in {S("export", ns, {}), S("dump", ns, {})}
         /\ k = "reload" =>
               \/ \E ns \in There : b \in {S("flush", ns, {}), S("mark", ns, {}), S("migrate", ns, {}),
                                           S("import", ns, files[ns].rows \cup FromInit)}
               \/ "l" \in o /\ \E ns \in There : b = S("put", ns, {"sysinfo"})
               \/ "n" \notin o /\ b = S("restart", Host, {})
         /\ k = "minigraph" =>
               \/ \E ns \in AllNs : b \in {S("flush", ns, {}), S("mark", ns, {}), S("migrate", ns, {}),
                                           S("put", ns, {"minigraph"} \cup FromInit)}
               \/ "o" \in o /\ b \in {S("drop", Host, Overridden), S("put", Host, {"golden"})}
               \/ "n" \notin o /\ b = S("restart", Host, {})
<1>1. \A nss : b \in NeededInAll(nss) => \E ns \in nss : b \in {S("flush", ns, {}), S("mark", ns, {}), S("migrate", ns, {})}
  BY DEF NeededInAll
<1>2. b \in NeededToRestart(o) => "n" \notin o /\ b = S("restart", Host, {})
  BY DEF NeededToRestart
<1>3. CASE k = "save"
  <2>1. b \in NeededToSave
    BY <1>3 DEF Needed
  <2> QED BY <1>3, <2>1 DEF NeededToSave
<1>4. CASE k = "reload"
  <2>1. b \in NeededToReload(o) \/ b \in NeededToRestart(o)
    BY <1>4 DEF Needed
  <2>2. b \in NeededToReload(o) => \/ b \in NeededInAll(There) \/ \E ns \in There : b = S("import", ns, files[ns].rows \cup FromInit)
                                   \/ "l" \in o /\ \E ns \in There : b = S("put", ns, {"sysinfo"})
    BY DEF NeededToReload
  <2> QED BY <1>1, <1>2, <1>4, <2>1, <2>2
<1>5. CASE k = "minigraph"
  <2>1. b \in Needed("minigraph", o)
    BY <1>5
  <2> QED BY <1>5, <2>1, NeededOfMinigraph
<1>6. k \in {"save", "reload", "minigraph"}
  BY DEF Needed
<1> QED BY <1>3, <1>4, <1>5, <1>6


LEMMA BlocksOf ==
  ASSUME NEW N \in Nat \ {0}, NEW f, f = [n \in 1 .. N |-> f[n]], \A n \in 1 .. N : f[n] \in Seq(ReloadStep)
  PROVE  f \in Seq(Seq(ReloadStep)) /\ Len(f) = N /\ f # <<>>
  OBVIOUS

\* Each export is written over by the sorted one, and then the file is whole.
LEMMA SaveCourse ==
  ASSUME NEW o
  PROVE  Course("save", o, SaveProgram, {}) /\ Needed("save", o) \subseteq Elems(SaveProgram) /\ SaveProgram # <<>>
<1> DEFINE blocks == [n \in DOMAIN Namespaces |->
               LET ns == Namespaces[n]
               IN  <<S("truncate", ns, {}), S("export", ns, {}), S("truncate", ns, {}), S("dump", ns, {})>>]
<1>1. /\ Namespaces \in Seq(AllNs) /\ Len(Namespaces) \in Nat \ {0} /\ DOMAIN Namespaces = 1 .. Len(Namespaces)
      /\ \A n \in 1 .. Len(Namespaces) : Namespaces[n] \in AllNs
      /\ \A m, n \in 1 .. Len(Namespaces) : Namespaces[m] = Namespaces[n] => m = n
  BY NamespacesAssumption
<1>2. ASSUME NEW ns \in AllNs
      PROVE  LET q == <<S("truncate", ns, {}), S("export", ns, {}), S("truncate", ns, {}), S("dump", ns, {})>>
             IN  Course("save", o, q, {}) /\ Elems(q) = {S("truncate", ns, {}), S("export", ns, {}), S("dump", ns, {})}
  <2>0. PICK a, b, c : a = S("truncate", ns, {}) /\ b = S("export", ns, {}) /\ c = S("dump", ns, {})
    OBVIOUS
  <2>1. /\ a \in ReloadStep /\ b \in ReloadStep /\ c \in ReloadStep
        /\ a.does = "truncate" /\ b.does = "export" /\ c.does = "dump" /\ a.ns = ns /\ b.ns = ns /\ c.ns = ns
    BY <2>0, StepOf, Fields DEF Does
  <2>2. Allowed("save", o, a) /\ Allowed("save", o, b) /\ Allowed("save", o, c)
    BY <2>1 DEF Allowed
  <2>3. ASSUME NEW d \in Needed("save", o), NEW x \in {a, b, c}, Undoes("save", o, x, d) PROVE d = c /\ x = a
    <3>1. PICK n \in AllNs : d \in {S("export", n, {}), S("dump", n, {})}
      BY <2>3, NeededOnly
    <3>2. d.ns = n /\ d.does \in {"export", "dump"} /\ (d.does = "dump" => d = S("dump", n, {}))
      BY <3>1, Fields
    <3> QED BY <2>0, <2>1, <2>3, <3>2 DEF Undoes
  <2>4. /\ Fits("save", o, c, {}) /\ Fits("save", o, a, {c} \cup {})
        /\ Fits("save", o, b, {a, c} \cup {}) /\ Fits("save", o, a, {b, a, c} \cup {})
    BY <2>1, <2>2, <2>3 DEF Fits, Late
  <2>5. Course("save", o, <<a, b, a, c>>, {}) /\ Elems(<<a, b, a, c>>) = {a, b, a, c}
    BY <2>1, <2>4, CourseQuad
  <2> QED BY <2>0, <2>5
<1>3. \A n \in 1 .. Len(Namespaces) :
          /\ Course("save", o, blocks[n], {}) /\ blocks[n] \in Seq(ReloadStep)
          /\ Elems(blocks[n]) = {S("truncate", Namespaces[n], {}), S("export", Namespaces[n], {}), S("dump", Namespaces[n], {})}
  BY <1>1, <1>2 DEF Course
<1>4. blocks \in Seq(Seq(ReloadStep)) /\ Len(blocks) = Len(Namespaces) /\ blocks # <<>>
  BY <1>1, <1>3, BlocksOf
<1>5. SaveProgram = FlattenSeq(blocks)
  BY DEF SaveProgram
<1> HIDE DEF blocks
<1>6. ASSUME NEW m \in 1 .. Len(blocks), NEW n \in 1 .. Len(blocks), NEW x \in Elems(blocks[m]), NEW y \in Elems(blocks[n]), m # n
      PROVE  ~Late(x, y)
  <2>1. /\ x \in {S("truncate", Namespaces[m], {}), S("export", Namespaces[m], {}), S("dump", Namespaces[m], {})}
        /\ y \in {S("truncate", Namespaces[n], {}), S("export", Namespaces[n], {}), S("dump", Namespaces[n], {})}
    BY <1>3, <1>4, <1>6
  <2>2. x.ns = Namespaces[m] /\ y.ns = Namespaces[n] /\ x.does # "find"
    BY <2>1, Fields
  <2> QED BY <1>1, <1>4, <1>6, <2>2 DEF Late
<1>7. /\ Course("save", o, SaveProgram, {})
      /\ \A n \in 1 .. Len(blocks) : Elems(blocks[n]) \subseteq Elems(SaveProgram)
  BY <1>3, <1>4, <1>5, <1>6, CourseFlatten
<1>8. ASSUME NEW ns \in AllNs PROVE S("export", ns, {}) \in Elems(SaveProgram) /\ S("dump", ns, {}) \in Elems(SaveProgram)
  <2>1. PICK n \in 1 .. Len(Namespaces) : Namespaces[n] = ns
    BY HostFacts
  <2> QED BY <1>3, <1>4, <1>7, <2>1
<1>9. Needed("save", o) \subseteq Elems(SaveProgram)
  <2> SUFFICES ASSUME NEW b \in Needed("save", o) PROVE b \in Elems(SaveProgram)
    OBVIOUS
  <2>1. \E ns \in AllNs : b \in {S("export", ns, {}), S("dump", ns, {})}
    BY NeededOnly
  <2> QED BY <1>8, <2>1
<1>10. SaveProgram # <<>>
  BY <1>8, HostFacts, CourseNone
<1> QED BY <1>7, <1>9, <1>10

\* What is loaded is a sequence: the files up to the first one that is not there.
LEMMA LoadCourse ==
  ASSUME ReloadShape, NEW o
  PROVE  Course("load", o, LoadProgram, {}) /\ Needed("load", o) = {}
<1> DEFINE missing == {n \in DOMAIN Namespaces : files[Namespaces[n]].is = "none"}
           upto == {n \in DOMAIN Namespaces : \A m \in missing : n < m}
<1>1. /\ Len(Namespaces) \in Nat /\ DOMAIN Namespaces = 1 .. Len(Namespaces)
      /\ \A n \in 1 .. Len(Namespaces) : Namespaces[n] \in AllNs
  BY HostFacts
<1>2. PICK t \in Nat : t <= Len(Namespaces) /\ upto = 1 .. t
  <2>1. CASE missing = {}
    <3>1. upto = 1 .. Len(Namespaces)
      BY <1>1, <2>1
    <3> QED BY <1>1, <3>1
  <2>2. CASE missing # {}
    <3>1. missing \subseteq Nat /\ missing \subseteq 1 .. Len(Namespaces)
      BY <1>1
    <3> HIDE DEF missing
    <3>2. PICK m \in missing : \A n \in missing : ~(<<n, m>> \in {ss \in Nat \X Nat : ss[1] < ss[2]})
      <4> DEFINE R == {ss \in Nat \X Nat : ss[1] < ss[2]}
      <4>1. IsWellFoundedOn(R, Nat)
        BY LessIsWellFounded
      <4> HIDE DEF R
      <4>2. \E m \in missing : \A n \in missing : ~(<<n, m>> \in R)
        BY <2>2, <3>1, <4>1, WFMin, Zenon
      <4> QED BY <4>2 DEF R
    <3>3. m \in 1 .. Len(Namespaces) /\ \A n \in missing : m <= n
      <4>1. \A n \in missing : n \in Nat /\ m \in Nat /\ ~(n < m)
        BY <3>1, <3>2
      <4> QED BY <3>1, <4>1
    <3>4. m - 1 \in Nat /\ m - 1 <= Len(Namespaces)
      BY <1>1, <3>3
    <3>5. upto = 1 .. m - 1
      <4>1. ASSUME NEW n \in upto PROVE n \in 1 .. m - 1
        BY <1>1, <3>2, <3>3
      <4>2. ASSUME NEW n \in 1 .. m - 1 PROVE n \in upto
        <5>1. n \in DOMAIN Namespaces /\ n < m
          BY <1>1, <3>3
        <5>2. \A l \in missing : n < l
          BY <3>1, <3>3, <5>1
        <5> QED BY <5>1, <5>2
      <4> QED BY <4>1, <4>2
    <3> QED BY <3>4, <3>5
  <2> QED BY <2>1, <2>2
<1>3. LoadProgram = [n \in upto |-> S("import", Namespaces[n], files[Namespaces[n]].rows)]
  BY DEF LoadProgram
<1> HIDE DEF upto
<1>4. PICK p : p = [n \in 1 .. t |-> S("import", Namespaces[n], files[Namespaces[n]].rows)]
  OBVIOUS
<1>5. \A n \in 1 .. t : S("import", Namespaces[n], files[Namespaces[n]].rows) \in ReloadStep
  <2> SUFFICES ASSUME NEW n \in 1 .. t PROVE S("import", Namespaces[n], files[Namespaces[n]].rows) \in ReloadStep
    OBVIOUS
  <2>1. Namespaces[n] \in AllNs
    BY <1>1, <1>2
  <2>2. files[Namespaces[n]].rows \in SUBSET Sources
    BY <2>1 DEF ReloadShape
  <2> QED BY <2>1, <2>2, StepOf DEF Does
<1>6. p \in Seq(ReloadStep) /\ Len(p) = t
  BY <1>2, <1>4, <1>5
<1>7. \A n \in 1 .. t : p[n].does = "import"
  BY <1>4, Fields
<1>8. Needed("load", o) = {}
  BY DEF Needed
<1>9. Course("load", o, p, {})
  BY <1>6, <1>7, <1>8 DEF Course, Allowed, Late
<1> QED BY <1>2, <1>3, <1>4, <1>8, <1>9

LEMMA CourseMore ==
  ASSUME NEW k, NEW o, NEW q, NEW M, NEW N, Course(k, o, q, M), \A x \in Elems(q), y \in N : ~Late(x, y)
  PROVE  Course(k, o, q, M \cup N)
  BY DEF Course, Elems

\* Other commands that are run, and the services' restart, undo nothing.
LEMMA RunFits ==
  ASSUME NEW k \in {"reload", "minigraph"}, NEW o, NEW x, x.does = "run" \/ (x.does = "restart" /\ "n" \notin o)
  PROVE  \A E : Fits(k, o, x, E)
  BY DEF Fits, Allowed, Undoes, Late

LEMMA RestartCourse ==
  ASSUME NEW k \in {"reload", "minigraph"}, NEW o
  PROVE  /\ Course(k, o, RestartSteps(o), {})
         /\ \A x \in Elems(RestartSteps(o)) : x.does \in {"run", "restart"}
         /\ "n" \notin o => S("restart", Host, {}) \in Elems(RestartSteps(o))
<1>1. PICK a, b : a = S("run", Host, {}) /\ b = S("restart", Host, {})
  OBVIOUS
<1>2. a \in ReloadStep /\ b \in ReloadStep /\ a.does = "run" /\ b.does = "restart"
  BY <1>1, HostFacts, StepOf, Fields DEF Does
<1>3. CASE "n" \notin o
  <2>1. RestartSteps(o) = <<a, b, a>>
    BY <1>1, <1>3 DEF RestartSteps, Given
  <2>2. Fits(k, o, a, {}) /\ Fits(k, o, b, {a} \cup {}) /\ Fits(k, o, a, {b, a} \cup {})
    BY <1>2, <1>3, RunFits
  <2>3. Course(k, o, <<a, b, a>>, {}) /\ Elems(<<a, b, a>>) = {a, b, a}
    BY <1>2, <2>2, CourseTriple
  <2> QED BY <1>1, <1>2, <2>1, <2>3
<1>4. CASE "n" \in o
  <2>1. RestartSteps(o) = <<>>
    BY <1>4 DEF RestartSteps, Given
  <2> QED BY <1>4, <2>1, CourseNone
<1> QED BY <1>3, <1>4

LEMMA OneRestart ==
  ASSUME NEW k, NEW o, NEW b \in Needed(k, o), b.does = "restart"
  PROVE  b = S("restart", Host, {})
<1>1. PICK does, ns, rows : b = S(does, ns, rows) /\ (does = "restart" => b = S("restart", Host, {}))
  <2>1. CASE k = "save"
    <3>1. PICK ns \in AllNs : b \in {S("export", ns, {}), S("dump", ns, {})}
      BY <2>1, NeededOnly
    <3> QED BY <3>1
  <2>2. CASE k = "reload"
    <3>1. \/ \E ns \in There : b \in {S("flush", ns, {}), S("mark", ns, {}), S("migrate", ns, {}),
                                      S("import", ns, files[ns].rows \cup FromInit)}
          \/ "l" \in o /\ \E ns \in There : b = S("put", ns, {"sysinfo"})
          \/ "n" \notin o /\ b = S("restart", Host, {})
      BY <2>2, NeededOnly
    <3>2. CASE \E ns \in There : b \in {S("flush", ns, {}), S("mark", ns, {}), S("migrate", ns, {}),
                                        S("import", ns, files[ns].rows \cup FromInit)}
      <4>1. PICK ns \in There : b \in {S("flush", ns, {}), S("mark", ns, {}), S("migrate", ns, {}),
                                       S("import", ns, files[ns].rows \cup FromInit)}
        BY <3>2
      <4> QED BY <4>1
    <3> QED BY <3>1, <3>2
  <2>3. CASE k = "minigraph"
    <3>1. \/ \E ns \in AllNs : b \in {S("flush", ns, {}), S("mark", ns, {}), S("migrate", ns, {}),
                                     S("put", ns, {"minigraph"} \cup FromInit)}
          \/ "o" \in o /\ b \in {S("drop", Host, Overridden), S("put", Host, {"golden"})}
          \/ "n" \notin o /\ b = S("restart", Host, {})
      BY <2>3, NeededOnly
    <3> QED BY <3>1
  <2> QED BY <2>1, <2>2, <2>3, NeededOnly
<1> QED BY <1>1, Fields

LEMMA StopCourse ==
  ASSUME NEW k \in {"reload", "minigraph"}, NEW o, NEW M, "n" \notin o => S("restart", Host, {}) \in M
  PROVE  Course(k, o, StopSteps(o), M)
<1>1. PICK a : a = S("stop", Host, {})
  OBVIOUS
<1>2. a \in ReloadStep /\ a.does = "stop" /\ a.ns = Host
  BY <1>1, HostFacts, StepOf, Fields DEF Does
<1>3. CASE "n" \notin o
  <2>1. StopSteps(o) = <<a>>
    BY <1>1, <1>3 DEF StopSteps, Given
  <2>2. ASSUME NEW b \in Needed(k, o), Undoes(k, o, a, b) PROVE b \in M
    <3>1. b.does = "restart"
      BY <1>2, <2>2 DEF Undoes
    <3>2. b = S("restart", Host, {})
      BY <3>1, OneRestart
    <3> QED BY <1>3, <3>2
  <2>3. Fits(k, o, a, M)
    BY <1>2, <1>3, <2>2 DEF Fits, Allowed, Late
  <2> QED BY <1>2, <2>1, <2>3, CourseOne
<1>4. CASE "n" \in o
  <2>1. StopSteps(o) = <<>>
    BY <1>4 DEF StopSteps, Given
  <2> QED BY <1>4, <2>1, CourseNone
<1> QED BY <1>3, <1>4

\* What is removed from a namespace is written again, and only then the mark is set.
LEMMA ReloadOfCourse ==
  ASSUME ReloadShape, NEW o, NEW ns \in There
  PROVE  /\ Course("reload", o, ReloadOf(ns, o), {})
         /\ \A x \in Elems(ReloadOf(ns, o)) : x.ns = ns /\ x.does \notin {"find", "dump"}
         /\ {S("flush", ns, {}), S("import", ns, files[ns].rows \cup FromInit), S("mark", ns, {}), S("migrate", ns, {})}
               \subseteq Elems(ReloadOf(ns, o))
         /\ "l" \in o => S("put", ns, {"sysinfo"}) \in Elems(ReloadOf(ns, o))
<1>1. PICK rd, fl, pt, im, mk, mg :
          /\ rd = S("read", ns, {}) /\ fl = S("flush", ns, {}) /\ pt = S("put", ns, {"sysinfo"})
          /\ im = S("import", ns, files[ns].rows \cup FromInit) /\ mk = S("mark", ns, {}) /\ mg = S("migrate", ns, {})
  OBVIOUS
<1>2. /\ ns \in AllNs /\ files[ns].rows \cup FromInit \in SUBSET Sources /\ {"sysinfo"} \in SUBSET Sources
  BY DEF There, ReloadShape, FromInit, Sources, Base
<1>3. /\ rd \in ReloadStep /\ fl \in ReloadStep /\ pt \in ReloadStep /\ im \in ReloadStep /\ mk \in ReloadStep /\ mg \in ReloadStep
  BY <1>1, <1>2, StepOf DEF Does
<1>4. /\ rd.does = "read" /\ fl.does = "flush" /\ pt.does = "put" /\ im.does = "import" /\ mk.does = "mark" /\ mg.does = "migrate"
      /\ rd.ns = ns /\ fl.ns = ns /\ pt.ns = ns /\ im.ns = ns /\ mk.ns = ns /\ mg.ns = ns
      /\ pt.rows = {"sysinfo"} /\ im.rows = files[ns].rows \cup FromInit
  BY <1>1, Fields
<1>5. ASSUME NEW b \in Needed("reload", o), b.ns = ns
      PROVE  b \in {fl, mk, mg, im} \/ ("l" \in o /\ b = pt) \/ b.does = "restart"
  <2>0. \/ \E n \in There : b \in {S("flush", n, {}), S("mark", n, {}), S("migrate", n, {}), S("import", n, files[n].rows \cup FromInit)}
        \/ "l" \in o /\ \E n \in There : b = S("put", n, {"sysinfo"})
        \/ "n" \notin o /\ b = S("restart", Host, {})
    BY NeededOnly
  <2>1. CASE \E n \in There : b \in {S("flush", n, {}), S("mark", n, {}), S("migrate", n, {}), S("import", n, files[n].rows \cup FromInit)}
    <3>1. PICK n \in There : b \in {S("flush", n, {}), S("mark", n, {}), S("migrate", n, {}), S("import", n, files[n].rows \cup FromInit)}
      BY <2>1
    <3>2. n = ns
      BY <1>5, <3>1, Fields
    <3> QED BY <1>1, <3>1, <3>2
  <2>2. CASE "l" \in o /\ \E n \in There : b = S("put", n, {"sysinfo"})
    <3>1. PICK n \in There : b = S("put", n, {"sysinfo"})
      BY <2>2
    <3>2. n = ns
      BY <1>5, <3>1, Fields
    <3> QED BY <1>1, <2>2, <3>1, <3>2
  <2>3. CASE "n" \notin o /\ b = S("restart", Host, {})
    BY <2>3, Fields
  <2> QED BY <2>0, <2>1, <2>2, <2>3
<1>6. /\ Allowed("reload", o, rd) /\ Allowed("reload", o, fl) /\ Allowed("reload", o, pt)
      /\ Allowed("reload", o, im) /\ Allowed("reload", o, mk) /\ Allowed("reload", o, mg)
  BY <1>4 DEF Allowed
<1>7. /\ im.rows \cap Foreign("reload", o, ns) = {}
      /\ "l" \in o => pt.rows \cap Foreign("reload", o, ns) = {}
  BY <1>4 DEF Foreign, WithSysinfo
<1>8. Course("reload", o, <<im, mk, mg>>, {}) /\ Elems(<<im, mk, mg>>) = {im, mk, mg}
  <2>1. Fits("reload", o, mg, {})
    BY <1>4, <1>6 DEF Fits, Undoes, Late
  <2>2. Fits("reload", o, mk, {mg} \cup {})
    BY <1>4, <1>6 DEF Fits, Undoes, Late
  <2>3. ASSUME NEW b \in Needed("reload", o), Undoes("reload", o, im, b) PROVE b = mg
    BY <1>4, <1>5, <1>7, <2>3 DEF Undoes
  <2>4. Fits("reload", o, im, {mk, mg} \cup {})
    BY <1>4, <1>6, <2>3 DEF Fits, Late
  <2> QED BY <1>3, <2>1, <2>2, <2>4, CourseTriple
<1>9. PICK T : T = <<im, mk, mg>>
  OBVIOUS
<1>10. PICK P : P = Given("l" \in o, <<pt>>)
  OBVIOUS
<1>11. PICK A : A = Given("l" \in o, <<rd>>)
  OBVIOUS
<1>12. Course("reload", o, P, Elems(T) \cup {}) /\ Elems(P) = IF "l" \in o THEN {pt} ELSE {}
  <2>1. CASE "l" \in o
    <3>1. ASSUME NEW b \in Needed("reload", o) PROVE ~Undoes("reload", o, pt, b)
      BY <1>4, <1>5, <1>7, <2>1 DEF Undoes
    <3>2. Fits("reload", o, pt, Elems(T) \cup {})
      BY <1>4, <1>6, <3>1 DEF Fits, Late
    <3> QED BY <1>3, <1>10, <2>1, <3>2, CourseOne DEF Given
  <2>2. CASE "l" \notin o
    BY <1>10, <2>2, CourseNone DEF Given
  <2> QED BY <2>1, <2>2
<1>13. PICK F : F = <<fl>>
  OBVIOUS
<1>14. Course("reload", o, F, Elems(P) \cup (Elems(T) \cup {})) /\ Elems(F) = {fl}
  <2>1. ASSUME NEW b \in Needed("reload", o), Undoes("reload", o, fl, b) PROVE b \in Elems(P) \cup (Elems(T) \cup {})
    BY <1>4, <1>5, <1>8, <1>9, <1>12, <2>1 DEF Undoes
  <2>2. Fits("reload", o, fl, Elems(P) \cup (Elems(T) \cup {}))
    BY <1>4, <1>6, <2>1 DEF Fits, Late
  <2> QED BY <1>3, <1>13, <2>2, CourseOne
<1>15. Elems(A) \subseteq {rd} /\ \A M : Course("reload", o, A, M)
  <2>1. CASE "l" \in o
    <3>1. \A M : Fits("reload", o, rd, M)
      BY <1>4, <1>6 DEF Fits, Undoes, Late
    <3> QED BY <1>3, <1>11, <2>1, <3>1, CourseOne DEF Given
  <2>2. CASE "l" \notin o
    BY <1>11, <2>2, CourseNone DEF Given
  <2> QED BY <2>1, <2>2
<1>16. ReloadOf(ns, o) = Then(Then(Then(A, F), P), T)
  BY <1>1, <1>9, <1>10, <1>11, <1>13 DEF ReloadOf, Then
<1>17. Course("reload", o, Then(A, F), Elems(P) \cup Elems(T)) /\ Elems(Then(A, F)) = Elems(A) \cup {fl}
  <2>1. PICK M, E : M = Elems(P) \cup Elems(T) /\ E = Elems(F) \cup M
    OBVIOUS
  <2>2. Course("reload", o, A, E) /\ Course("reload", o, F, M)
    <3>1. Elems(P) \cup (Elems(T) \cup {}) = M
      BY <2>1
    <3> QED BY <1>14, <1>15, <3>1
  <2>3. Course("reload", o, Then(A, F), M) /\ Elems(Then(A, F)) = Elems(A) \cup Elems(F)
    <3>3. Course("reload", o, Then(A, F), M)
      BY ONLY <2>1, <2>2, CourseThen
    <3>4. A \in Seq(ReloadStep) /\ F \in Seq(ReloadStep)
      BY <2>1, <2>2 DEF Course
    <3> QED BY <3>3, <3>4, ElemsThen
  <2> QED BY <1>14, <2>1, <2>3
<1>18. Course("reload", o, Then(Then(A, F), P), Elems(T)) /\ Elems(Then(Then(A, F), P)) = Elems(A) \cup {fl} \cup Elems(P)
  <2>1. Course("reload", o, P, Elems(T))
    <3>1. Elems(T) \cup {} = Elems(T)
      OBVIOUS
    <3> QED BY <1>12, <3>1
  <2>2. PICK X : X = Then(A, F)
    OBVIOUS
  <2>3. PICK E : E = Elems(P) \cup Elems(T)
    OBVIOUS
  <2>4. PICK M : M = Elems(T)
    OBVIOUS
  <2>5. Course("reload", o, X, E) /\ Course("reload", o, P, M) /\ E = Elems(P) \cup M
    BY <1>17, <2>1, <2>2, <2>3, <2>4
  <2>6. Course("reload", o, Then(X, P), M) /\ Elems(Then(X, P)) = Elems(X) \cup Elems(P)
    <3>3. Course("reload", o, Then(X, P), M)
      BY ONLY <2>5, CourseThen
    <3>4. X \in Seq(ReloadStep) /\ P \in Seq(ReloadStep)
      BY <2>5 DEF Course
    <3> QED BY <3>3, <3>4, ElemsThen
  <2> QED BY <1>17, <2>2, <2>4, <2>6
<1>19. /\ Course("reload", o, Then(Then(Then(A, F), P), T), {})
       /\ Elems(Then(Then(Then(A, F), P), T)) = Elems(A) \cup {fl} \cup Elems(P) \cup {im, mk, mg}
  <2>1. PICK X, M, W : X = Then(Then(A, F), P) /\ M = Elems(T) /\ W = {}
    OBVIOUS
  <2>2. Course("reload", o, X, M) /\ Course("reload", o, T, W) /\ M = Elems(T) \cup W
    BY <1>8, <1>9, <1>18, <2>1
  <2>3. Course("reload", o, Then(X, T), W)
    BY ONLY <2>2, CourseThen
  <2>4. X \in Seq(ReloadStep) /\ T \in Seq(ReloadStep)
    BY <2>2 DEF Course
  <2>5. Elems(Then(X, T)) = Elems(X) \cup Elems(T) /\ Elems(T) = {im, mk, mg}
    BY <1>8, <1>9, <2>4, ElemsThen
  <2> QED BY <1>18, <2>1, <2>3, <2>5
<1> QED BY <1>1, <1>4, <1>12, <1>15, <1>16, <1>19

LEMMA ReloadCourse ==
  ASSUME ReloadShape, NEW o
  PROVE  /\ Course("reload", o, ReloadProgram(o), {})
         /\ Needed("reload", o) \subseteq Elems(ReloadProgram(o))
         /\ ReloadProgram(o) # <<>>
<1>1. PICK blocks : blocks = [n \in DOMAIN Namespaces |-> Given(files[Namespaces[n]].is # "none", ReloadOf(Namespaces[n], o))]
  OBVIOUS
<1>2. /\ Len(Namespaces) \in Nat \ {0} /\ DOMAIN Namespaces = 1 .. Len(Namespaces)
      /\ \A n \in 1 .. Len(Namespaces) : Namespaces[n] \in AllNs
      /\ \A m, n \in 1 .. Len(Namespaces) : Namespaces[m] = Namespaces[n] => m = n
  BY NamespacesAssumption
<1>3. PICK R, run : R = RestartSteps(o) /\ run = S("run", Host, {})
  OBVIOUS
<1>4. /\ Course("reload", o, R, {}) /\ \A x \in Elems(R) : x.does \in {"run", "restart"}
      /\ "n" \notin o => S("restart", Host, {}) \in Elems(R)
  BY <1>3, RestartCourse
<1>5. run \in ReloadStep /\ run.does = "run"
  BY <1>3, HostFacts, StepOf, Fields DEF Does
<1>6. PICK one : one = <<run>>
  OBVIOUS
<1>7. Course("reload", o, one, Elems(R)) /\ Elems(one) = {run} /\ one # <<>>
  <2>1. Fits("reload", o, run, Elems(R))
    BY <1>5, RunFits
  <2> QED BY <1>5, <1>6, <2>1, CourseOne
<1>8. PICK M : M = {run} \cup Elems(R)
  OBVIOUS
<1>9. ASSUME NEW n \in 1 .. Len(Namespaces)
      PROVE  /\ Course("reload", o, blocks[n], M) /\ blocks[n] \in Seq(ReloadStep)
             /\ \A x \in Elems(blocks[n]) : x.ns = Namespaces[n] /\ x.does \notin {"find", "dump"}
             /\ Namespaces[n] \in There => blocks[n] = ReloadOf(Namespaces[n], o)
  <2>1. CASE Namespaces[n] \in There
    <3>1. PICK ns, q : ns = Namespaces[n] /\ q = blocks[n]
      OBVIOUS
    <3>2. q = ReloadOf(ns, o) /\ ns \in There
      BY <1>1, <1>2, <2>1, <3>1 DEF There, Given
    <3>3. Course("reload", o, q, {}) /\ \A x \in Elems(q) : x.ns = ns /\ x.does \notin {"find", "dump"}
      BY <3>2, ReloadOfCourse
    <3>4. \A x \in Elems(q), y \in M : ~Late(x, y)
      BY <1>4, <1>5, <1>8, <3>3 DEF Late
    <3>5. Course("reload", o, q, {} \cup M)
      BY ONLY <3>3, <3>4, CourseMore
    <3>6. {} \cup M = M
      OBVIOUS
    <3>7. Course("reload", o, q, M) /\ q \in Seq(ReloadStep)
      BY <3>5, <3>6 DEF Course
    <3> QED BY <3>1, <3>2, <3>3, <3>7
  <2>2. CASE Namespaces[n] \notin There
    <3>1. blocks[n] = <<>>
      BY <1>1, <1>2, <2>2 DEF There, Given
    <3> QED BY <2>2, <3>1, CourseNone
  <2> QED BY <2>1, <2>2
<1>10. blocks \in Seq(Seq(ReloadStep)) /\ Len(blocks) = Len(Namespaces) /\ blocks # <<>>
  <2>1. \A n \in 1 .. Len(Namespaces) : blocks[n] \in Seq(ReloadStep)
    BY <1>9
  <2>2. blocks = [n \in 1 .. Len(Namespaces) |-> blocks[n]]
    BY <1>1, <1>2
  <2>3. PICK N : N = Len(Namespaces)
    OBVIOUS
  <2>4. N \in Nat \ {0} /\ blocks = [n \in 1 .. N |-> blocks[n]] /\ \A n \in 1 .. N : blocks[n] \in Seq(ReloadStep)
    BY <1>2, <2>1, <2>2, <2>3
  <2>5. blocks \in Seq(Seq(ReloadStep)) /\ Len(blocks) = N /\ blocks # <<>>
    BY ONLY <2>4, BlocksOf
  <2> QED BY <2>3, <2>5
<1>11. PICK F : F = FlattenSeq(blocks)
  OBVIOUS
<1>12. /\ Course("reload", o, F, M)
       /\ \A n \in 1 .. Len(blocks) : Elems(blocks[n]) \subseteq Elems(F)
  <2>1. \A n \in 1 .. Len(blocks) : Course("reload", o, blocks[n], M)
    BY <1>9, <1>10
  <2>2. ASSUME NEW m \in 1 .. Len(blocks), NEW n \in 1 .. Len(blocks), NEW x \in Elems(blocks[m]), NEW y \in Elems(blocks[n]), m # n
        PROVE  ~Late(x, y)
    <3>1. x.ns = Namespaces[m] /\ y.ns = Namespaces[n] /\ x.does \notin {"find", "dump"} /\ Namespaces[m] # Namespaces[n]
      BY <1>2, <1>9, <1>10, <2>2
    <3> QED BY <3>1 DEF Late
  <2>3. \A m, n \in 1 .. Len(blocks) : \A x \in Elems(blocks[m]), y \in Elems(blocks[n]) : m # n => ~Late(x, y)
    BY <2>2
  <2>4. /\ Course("reload", o, FlattenSeq(blocks), M)
        /\ \A n \in 1 .. Len(blocks) : Elems(blocks[n]) \subseteq Elems(FlattenSeq(blocks))
    BY ONLY <1>10, <2>1, <2>3, CourseFlatten
  <2> QED BY <1>11, <2>4
<1>13. PICK P : P = StopSteps(o)
  OBVIOUS
<1>14. PICK E : E = Elems(F) \cup M
  OBVIOUS
<1>15. Course("reload", o, P, E)
  <2>1. "n" \notin o => S("restart", Host, {}) \in E
    BY <1>4, <1>8, <1>14
  <2> QED BY <1>13, <2>1, StopCourse
<1>16. Course("reload", o, Then(P, F), M) /\ Elems(Then(P, F)) = Elems(P) \cup Elems(F)
  <2>1. Course("reload", o, P, E) /\ Course("reload", o, F, M) /\ E = Elems(F) \cup M
    BY <1>12, <1>14, <1>15
  <2>3. Course("reload", o, Then(P, F), M)
    BY ONLY <2>1, CourseThen
  <2>4. P \in Seq(ReloadStep) /\ F \in Seq(ReloadStep)
    BY <2>1 DEF Course
  <2> QED BY <2>3, <2>4, ElemsThen
<1>17. PICK X, L : X = Then(P, F) /\ L = Elems(R)
  OBVIOUS
<1>18. Course("reload", o, X, M) /\ Course("reload", o, one, L) /\ M = Elems(one) \cup L
  BY <1>7, <1>8, <1>16, <1>17
<1>19. Course("reload", o, Then(X, one), L) /\ Elems(Then(X, one)) = Elems(X) \cup Elems(one)
  <2>3. Course("reload", o, Then(X, one), L)
    BY ONLY <1>18, CourseThen
  <2>4. X \in Seq(ReloadStep) /\ one \in Seq(ReloadStep)
    BY <1>18 DEF Course
  <2> QED BY <2>3, <2>4, ElemsThen
<1>20. PICK Y : Y = Then(X, one)
  OBVIOUS
<1>21. PICK W : W = {}
  OBVIOUS
<1>22. Course("reload", o, Then(Y, R), W) /\ Elems(Then(Y, R)) = Elems(Y) \cup Elems(R)
  <2>1. Course("reload", o, Y, L) /\ Course("reload", o, R, W) /\ L = Elems(R) \cup W
    BY <1>4, <1>17, <1>19, <1>20, <1>21
  <2>3. Course("reload", o, Then(Y, R), W)
    BY ONLY <2>1, CourseThen
  <2>4. Y \in Seq(ReloadStep) /\ R \in Seq(ReloadStep)
    BY <2>1 DEF Course
  <2> QED BY <2>3, <2>4, ElemsThen
<1>23. ReloadProgram(o) = Then(Y, R)
  BY <1>1, <1>3, <1>6, <1>11, <1>13, <1>17, <1>20 DEF ReloadProgram, Then
<1>24. Elems(Y) = Elems(P) \cup Elems(F) \cup {run}
  BY <1>7, <1>16, <1>17, <1>19, <1>20
<1>25. ASSUME NEW b \in Needed("reload", o) PROVE b \in Elems(F) \cup Elems(R)
  <2>0. ASSUME NEW ns \in There PROVE Elems(ReloadOf(ns, o)) \subseteq Elems(F)
    <3>1. PICK n \in 1 .. Len(Namespaces) : Namespaces[n] = ns
      BY HostFacts DEF There
    <3> QED BY <1>9, <1>10, <1>12, <3>1
  <2>1. \/ \E ns \in There : b \in {S("flush", ns, {}), S("mark", ns, {}), S("migrate", ns, {}), S("import", ns, files[ns].rows \cup FromInit)}
        \/ "l" \in o /\ \E ns \in There : b = S("put", ns, {"sysinfo"})
        \/ "n" \notin o /\ b = S("restart", Host, {})
    BY NeededOnly
  <2>2. CASE \E ns \in There : b \in {S("flush", ns, {}), S("mark", ns, {}), S("migrate", ns, {}), S("import", ns, files[ns].rows \cup FromInit)}
    <3>1. PICK ns \in There : b \in {S("flush", ns, {}), S("mark", ns, {}), S("migrate", ns, {}), S("import", ns, files[ns].rows \cup FromInit)}
      BY <2>2
    <3>2. {S("flush", ns, {}), S("import", ns, files[ns].rows \cup FromInit), S("mark", ns, {}), S("migrate", ns, {})}
             \subseteq Elems(ReloadOf(ns, o))
      BY ReloadOfCourse
    <3> QED BY <2>0, <3>1, <3>2
  <2>3. CASE "l" \in o /\ \E ns \in There : b = S("put", ns, {"sysinfo"})
    <3>1. PICK ns \in There : b = S("put", ns, {"sysinfo"})
      BY <2>3
    <3>2. b \in Elems(ReloadOf(ns, o))
      BY <2>3, <3>1, ReloadOfCourse
    <3> QED BY <2>0, <3>2
  <2>4. CASE "n" \notin o /\ b = S("restart", Host, {})
    BY <1>4, <2>4
  <2> QED BY <2>1, <2>2, <2>3, <2>4
<1>26. PICK Z : Z = Then(Y, R)
  OBVIOUS
<1>27. Needed("reload", o) \subseteq Elems(Z) /\ run \in Elems(Z) /\ Course("reload", o, Z, {})
  BY <1>21, <1>22, <1>24, <1>25, <1>26
<1>28. Z # <<>>
  BY <1>27, CourseNone
<1> QED BY <1>23, <1>26, <1>27, <1>28

\* What comes after the minigraph: it adds nothing that a configuration needs to be of use.
Light(y) == y.does \notin {"import", "mark"} /\ (y.does = "put" => y.rows \cap Base = {})
AllLight(E) == \A y \in E : Light(y)
Extras == {"acl", "backend_acl", "port_config", "qos", "pfcwd", "tsa"}
AddsExtras(q) == q \in Seq(ReloadStep) /\ \A x \in Elems(q) : x.does \in {"run", "migrate"} \/ (x.does = "put" /\ x.rows \subseteq Extras)
\* The steps X are right before whatever has the steps N.
Reaches(o, X, N) == X \in Seq(ReloadStep) /\ \A E : AllLight(E) /\ N \subseteq E => Course("minigraph", o, X, E)
Dropped(o) == IF "o" \in o THEN {S("drop", Host, Overridden), S("put", Host, {"golden"})} ELSE {}
Migrated == {S("migrate", ns, {}) : ns \in AllNs}

LEMMA OneDrop ==
  ASSUME NEW o, NEW b \in Needed("minigraph", o), b.does = "drop"
  PROVE  "o" \in o /\ b = S("drop", Host, Overridden) /\ b \in Dropped(o)
<1>1. \/ \E ns \in AllNs : b \in {S("flush", ns, {}), S("mark", ns, {}), S("migrate", ns, {}), S("put", ns, {"minigraph"} \cup FromInit)}
      \/ "o" \in o /\ b \in {S("drop", Host, Overridden), S("put", Host, {"golden"})}
      \/ "n" \notin o /\ b = S("restart", Host, {})
  BY NeededOfMinigraph
<1>2. ~\E ns \in AllNs : b \in {S("flush", ns, {}), S("mark", ns, {}), S("migrate", ns, {}), S("put", ns, {"minigraph"} \cup FromInit)}
  BY Fields
<1>3. b # S("restart", Host, {}) /\ b # S("put", Host, {"golden"})
  BY Fields
<1> QED BY <1>1, <1>2, <1>3 DEF Dropped

LEMMA ReachThen ==
  ASSUME NEW o, NEW X, NEW q, NEW N, NEW N2, Reaches(o, X, N), Reaches(o, q, N2), AllLight(Elems(q)), N \subseteq Elems(q) \cup N2
  PROVE  Reaches(o, Then(X, q), N2)
<1>1. Then(X, q) \in Seq(ReloadStep)
  BY ElemsThen DEF Reaches
<1>2. ASSUME NEW E, AllLight(E), N2 \subseteq E PROVE Course("minigraph", o, Then(X, q), E)
  <2>1. PICK F : F = Elems(q) \cup E
    OBVIOUS
  <2>2. AllLight(F) /\ N \subseteq F
    BY <1>2, <2>1 DEF AllLight
  <2>3. Course("minigraph", o, X, F) /\ Course("minigraph", o, q, E)
    BY <1>2, <2>2 DEF Reaches
  <2> QED BY ONLY <2>1, <2>3, CourseThen
<1> QED BY <1>1, <1>2 DEF Reaches

LEMMA ExtrasReach ==
  ASSUME NEW o, NEW q, NEW N, AddsExtras(q), Dropped(o) \subseteq N
  PROVE  Reaches(o, q, N) /\ AllLight(Elems(q))
<1>1. Extras \cap (Base \cup {"running", "saved", "sysinfo", "part"}) = {}
  BY DEF Extras, Base
<1>2. AllLight(Elems(q))
  BY <1>1 DEF AllLight, AddsExtras, Light
<1>3. ASSUME NEW E, N \subseteq E PROVE Course("minigraph", o, q, E)
  <2>1. ASSUME NEW i \in 1 .. Len(q)
        PROVE  /\ Allowed("minigraph", o, q[i])
               /\ \A b \in Needed("minigraph", o) : Undoes("minigraph", o, q[i], b) => b \in E
               /\ \A y : ~Late(q[i], y)
    <3>1. PICK x : x = q[i]
      OBVIOUS
    <3>2. x.does \in {"run", "migrate"} \/ (x.does = "put" /\ x.rows \subseteq Extras)
      BY <3>1 DEF AddsExtras, Elems
    <3>3. ASSUME NEW b \in Needed("minigraph", o), Undoes("minigraph", o, x, b) PROVE b \in E
      <4>1. x.does = "put" /\ (b.does = "drop" \/ (b.does = "flush" /\ x.rows \cap Foreign("minigraph", o, b.ns) # {}))
        BY <3>2, <3>3 DEF Undoes
      <4>2. x.rows \cap Foreign("minigraph", o, b.ns) = {}
        BY <1>1, <3>2, <4>1 DEF Foreign
      <4>3. b.does = "drop"
        BY <4>1, <4>2
      <4>4. b \in Dropped(o)
        BY <4>3, OneDrop
      <4> QED BY <1>3, <4>4
    <3>4. Allowed("minigraph", o, x) /\ \A y : ~Late(x, y)
      BY <3>2 DEF Allowed, Late
    <3> QED BY <3>1, <3>3, <3>4
  <2> QED BY <2>1 DEF Course, AddsExtras
<1> QED BY <1>2, <1>3 DEF Reaches, AddsExtras

LEMMA GoldenReaches ==
  ASSUME NEW o, NEW N
  PROVE  LET q == Given("o" \in o, <<S("find", Host, {})>> \o OverrideConfigTable)
         IN  Reaches(o, q, N) /\ AllLight(Elems(q)) /\ Dropped(o) \subseteq Elems(q)
<1>1. PICK q : q = Given("o" \in o, <<S("find", Host, {})>> \o OverrideConfigTable)
  OBVIOUS
<1>2. PICK f, d, g : f = S("find", Host, {}) /\ d = S("drop", Host, Overridden) /\ g = S("put", Host, {"golden"})
  OBVIOUS
<1>3. /\ f.does = "find" /\ d.does = "drop" /\ g.does = "put" /\ d.rows = Overridden /\ g.rows = {"golden"}
  BY <1>2, Fields
<1>4. Overridden \in SUBSET Sources /\ {"golden"} \in SUBSET Sources /\ "golden" \notin Overridden /\ "golden" \notin Base
  BY OverriddenAssumption DEF Sources, Base
<1>5. f \in ReloadStep /\ d \in ReloadStep /\ g \in ReloadStep
  BY <1>2, <1>4, HostFacts, StepOf DEF Does
<1>6. CASE "o" \in o
  <2>1. PICK F, T : F = <<f>> /\ T = <<d, g>>
    OBVIOUS
  <2>2. q = Then(F, T)
    BY <1>1, <1>2, <1>6, <2>1 DEF Given, OverrideConfigTable, Then
  <2>3. ASSUME NEW b \in Needed("minigraph", o) PROVE ~Undoes("minigraph", o, g, b)
    <3>1. b.does = "drop" => b.rows = Overridden
      BY OneDrop, Fields DEF Dropped
    <3>2. g.rows \cap Foreign("minigraph", o, b.ns) = {}
      BY <1>3 DEF Foreign
    <3> QED BY <1>3, <1>4, <3>1, <3>2 DEF Undoes
  <2>4. Light(f) /\ Light(d) /\ Light(g)
    BY <1>3, <1>4 DEF Light
  <2>5. ASSUME NEW E, AllLight(E)
        PROVE  Course("minigraph", o, q, E) /\ Elems(q) = {f, d, g} /\ q \in Seq(ReloadStep)
    <3>1. Fits("minigraph", o, g, E)
      BY <1>3, <2>3 DEF Fits, Allowed, Late
    <3>2. Fits("minigraph", o, d, {g} \cup E)
      BY <1>3 DEF Fits, Allowed, Late, Undoes
    <3>3. PICK M : M = {d, g} \cup E
      OBVIOUS
    <3>4. Fits("minigraph", o, f, M)
      <4>1. \A y \in M : y.does # "mark"
        BY <1>3, <2>5, <3>3 DEF AllLight, Light
      <4> QED BY <1>3, <4>1 DEF Fits, Allowed, Late, Undoes
    <3>5. Course("minigraph", o, T, E) /\ Elems(T) = {d, g}
      BY <1>5, <2>1, <3>1, <3>2, CoursePair
    <3>6. Course("minigraph", o, F, M) /\ Elems(F) = {f}
      BY <1>5, <2>1, <3>4, CourseOne
    <3>7. PICK k : k = "minigraph"
      OBVIOUS
    <3>8. Course("minigraph", o, Then(F, T), E) /\ Elems(Then(F, T)) = Elems(F) \cup Elems(T)
      <4>1. Course(k, o, F, M) /\ Course(k, o, T, E) /\ M = Elems(T) \cup E
        BY <3>3, <3>5, <3>6, <3>7
      <4>2. Course(k, o, Then(F, T), E)
        BY ONLY <4>1, CourseThen
      <4>3. F \in Seq(ReloadStep) /\ T \in Seq(ReloadStep)
        BY <4>1 DEF Course
      <4>4. Elems(Then(F, T)) = Elems(F) \cup Elems(T)
        BY ONLY <4>3, ElemsThen
      <4> QED BY <3>7, <4>2, <4>4
    <3>9. Course("minigraph", o, q, E) /\ Elems(q) = {f, d, g}
      BY <2>2, <3>5, <3>6, <3>8
    <3> QED BY <3>9 DEF Course
  <2>6. AllLight({})
    BY DEF AllLight
  <2>7. Elems(q) = {f, d, g} /\ q \in Seq(ReloadStep)
    BY <2>5, <2>6
  <2>8. Reaches(o, q, N)
    BY <2>5, <2>7 DEF Reaches
  <2>9. AllLight(Elems(q)) /\ Dropped(o) \subseteq Elems(q)
    BY <1>2, <2>4, <2>7 DEF AllLight, Dropped
  <2> QED BY <1>1, <2>8, <2>9
<1>7. CASE "o" \notin o
  <2>1. q = <<>> /\ q \in Seq(ReloadStep) /\ Dropped(o) = {}
    BY <1>1, <1>7 DEF Given, Dropped
  <2>2. Elems(q) = {} /\ \A E : Course("minigraph", o, q, E)
    BY <2>1, CourseNone
  <2> QED BY <1>1, <2>1, <2>2 DEF Reaches, AllLight
<1> QED BY <1>6, <1>7

\* Each namespace is emptied, filled and then marked, before what comes later is done.
LEMMA GenerateReaches ==
  ASSUME ReloadShape, NEW o
  PROVE  /\ Reaches(o, GenerateConfig, Migrated \cup Dropped(o))
         /\ \A ns \in AllNs : {S("flush", ns, {}), S("put", ns, {"minigraph"} \cup FromInit), S("mark", ns, {})} \subseteq Elems(GenerateConfig)
<1>1. PICK blocks : blocks = [n \in DOMAIN Namespaces |->
                                 LET ns == Namespaces[n]
                                 IN  <<S("flush", ns, {}), S("put", ns, {"minigraph"} \cup FromInit), S("mark", ns, {})>>]
  OBVIOUS
<1>2. /\ Len(Namespaces) \in Nat \ {0} /\ DOMAIN Namespaces = 1 .. Len(Namespaces)
      /\ \A n \in 1 .. Len(Namespaces) : Namespaces[n] \in AllNs
      /\ \A m, n \in 1 .. Len(Namespaces) : Namespaces[m] = Namespaces[n] => m = n
  BY NamespacesAssumption
<1>3. ASSUME NEW ns \in AllNs, NEW E, AllLight(E), Migrated \cup Dropped(o) \subseteq E
      PROVE  LET q == <<S("flush", ns, {}), S("put", ns, {"minigraph"} \cup FromInit), S("mark", ns, {})>>
             IN  /\ Course("minigraph", o, q, E)
                 /\ Elems(q) = {S("flush", ns, {}), S("put", ns, {"minigraph"} \cup FromInit), S("mark", ns, {})}
  <2>1. PICK fl, pt, mk : fl = S("flush", ns, {}) /\ pt = S("put", ns, {"minigraph"} \cup FromInit) /\ mk = S("mark", ns, {})
    OBVIOUS
  <2>2. /\ fl.does = "flush" /\ pt.does = "put" /\ mk.does = "mark" /\ fl.ns = ns /\ pt.ns = ns /\ mk.ns = ns
        /\ pt.rows = {"minigraph"} \cup FromInit
    BY <2>1, Fields
  <2>3. {"minigraph"} \cup FromInit \in SUBSET Sources
    BY DEF FromInit, Sources, Base
  <2>4. fl \in ReloadStep /\ pt \in ReloadStep /\ mk \in ReloadStep
    BY <2>1, <2>3, StepOf DEF Does
  <2>5. Fits("minigraph", o, mk, E)
    BY <1>3, <2>2 DEF Fits, Allowed, Undoes, Late, AllLight, Light
  <2>6. ASSUME NEW b \in Needed("minigraph", o), Undoes("minigraph", o, pt, b) PROVE b \in E
    <3>1. pt.rows \cap Foreign("minigraph", o, b.ns) = {}
      BY <2>2 DEF Foreign, FromInit
    <3>2. b.does = "drop"
      BY <2>2, <2>6, <3>1 DEF Undoes
    <3> QED BY <1>3, <3>2, OneDrop
  <2>7. Fits("minigraph", o, pt, {mk} \cup E)
    BY <2>2, <2>6 DEF Fits, Allowed, Late
  <2>8. ASSUME NEW b \in Needed("minigraph", o), Undoes("minigraph", o, fl, b) PROVE b \in {pt, mk} \cup E
    <3>1. b.ns = ns /\ b.does \in {"put", "import", "mark", "migrate"}
      BY <2>2, <2>8 DEF Undoes
    <3>2. CASE \E n \in AllNs : b \in {S("flush", n, {}), S("mark", n, {}), S("migrate", n, {}), S("put", n, {"minigraph"} \cup FromInit)}
      <4>1. PICK n \in AllNs : b \in {S("flush", n, {}), S("mark", n, {}), S("migrate", n, {}), S("put", n, {"minigraph"} \cup FromInit)}
        BY <3>2
      <4>2. n = ns
        BY <3>1, <4>1, Fields
      <4>3. b # S("flush", n, {})
        BY <3>1, Fields
      <4>4. S("migrate", ns, {}) \in E
        BY <1>3 DEF Migrated
      <4> QED BY <2>1, <4>1, <4>2, <4>3, <4>4
    <3>3. CASE "o" \in o /\ b \in {S("drop", Host, Overridden), S("put", Host, {"golden"})}
      BY <1>3, <3>3 DEF Dropped
    <3>4. CASE "n" \notin o /\ b = S("restart", Host, {})
      BY <3>1, <3>4, Fields
    <3> QED BY <3>2, <3>3, <3>4, NeededOfMinigraph
  <2>9. Fits("minigraph", o, fl, {pt, mk} \cup E)
    BY <2>2, <2>8 DEF Fits, Allowed, Late
  <2>10. Course("minigraph", o, <<fl, pt, mk>>, E) /\ Elems(<<fl, pt, mk>>) = {fl, pt, mk}
    BY <2>4, <2>5, <2>7, <2>9, CourseTriple
  <2> QED BY <2>1, <2>10
<1>4. ASSUME NEW E, AllLight(E), Migrated \cup Dropped(o) \subseteq E, NEW n \in 1 .. Len(Namespaces)
      PROVE  /\ Course("minigraph", o, blocks[n], E) /\ blocks[n] \in Seq(ReloadStep)
             /\ Elems(blocks[n]) = {S("flush", Namespaces[n], {}), S("put", Namespaces[n], {"minigraph"} \cup FromInit), S("mark", Namespaces[n], {})}
  <2>1. PICK ns : ns = Namespaces[n] /\ ns \in AllNs
    BY <1>2
  <2>2. blocks[n] = <<S("flush", ns, {}), S("put", ns, {"minigraph"} \cup FromInit), S("mark", ns, {})>>
    BY <1>1, <1>2, <2>1
  <2>3. PICK q : q = blocks[n]
    OBVIOUS
  <2>4. /\ Course("minigraph", o, q, E)
        /\ Elems(q) = {S("flush", ns, {}), S("put", ns, {"minigraph"} \cup FromInit), S("mark", ns, {})}
    BY <1>3, <1>4, <2>1, <2>2, <2>3
  <2> QED BY <2>1, <2>3, <2>4 DEF Course
<1>5. PICK F : F = FlattenSeq(blocks)
  OBVIOUS
<1>6. ASSUME NEW E, AllLight(E), Migrated \cup Dropped(o) \subseteq E
      PROVE  Course("minigraph", o, F, E) /\ \A n \in 1 .. Len(Namespaces) : Elems(blocks[n]) \subseteq Elems(F)
  <2>1. blocks \in Seq(Seq(ReloadStep)) /\ Len(blocks) = Len(Namespaces) /\ blocks # <<>>
    <3>1. PICK N : N = Len(Namespaces)
      OBVIOUS
    <3>2. N \in Nat \ {0} /\ blocks = [n \in 1 .. N |-> blocks[n]] /\ \A n \in 1 .. N : blocks[n] \in Seq(ReloadStep)
      <4>1. \A n \in 1 .. Len(Namespaces) : blocks[n] \in Seq(ReloadStep)
        BY <1>4, <1>6
      <4>2. blocks = [n \in 1 .. Len(Namespaces) |-> blocks[n]]
        BY <1>1, <1>2
      <4> QED BY <1>2, <3>1, <4>1, <4>2
    <3>3. blocks \in Seq(Seq(ReloadStep)) /\ Len(blocks) = N /\ blocks # <<>>
      BY ONLY <3>2, BlocksOf
    <3> QED BY <3>1, <3>3
  <2>2. \A n \in 1 .. Len(blocks) : Course("minigraph", o, blocks[n], E)
    BY <1>4, <1>6, <2>1
  <2>3. ASSUME NEW m \in 1 .. Len(blocks), NEW n \in 1 .. Len(blocks), NEW x \in Elems(blocks[m]), NEW y \in Elems(blocks[n]), m # n
        PROVE  ~Late(x, y)
    <3>1. /\ x \in {S("flush", Namespaces[m], {}), S("put", Namespaces[m], {"minigraph"} \cup FromInit), S("mark", Namespaces[m], {})}
          /\ y \in {S("flush", Namespaces[n], {}), S("put", Namespaces[n], {"minigraph"} \cup FromInit), S("mark", Namespaces[n], {})}
      BY <1>4, <1>6, <2>1, <2>3
    <3>2. x.ns = Namespaces[m] /\ y.ns = Namespaces[n] /\ x.does \notin {"find", "dump"}
      BY <3>1, Fields
    <3>3. Namespaces[m] # Namespaces[n]
      BY <1>2, <2>1, <2>3
    <3> QED BY <3>2, <3>3 DEF Late
  <2>4. \A m, n \in 1 .. Len(blocks) : \A x \in Elems(blocks[m]), y \in Elems(blocks[n]) : m # n => ~Late(x, y)
    BY <2>3
  <2>5. /\ Course("minigraph", o, FlattenSeq(blocks), E)
        /\ \A n \in 1 .. Len(blocks) : Elems(blocks[n]) \subseteq Elems(FlattenSeq(blocks))
    BY ONLY <2>1, <2>2, <2>4, CourseFlatten
  <2> QED BY <1>5, <2>1, <2>5
<1>7. GenerateConfig = F
  BY <1>1, <1>5 DEF GenerateConfig
<1>8. AllLight(Migrated \cup Dropped(o))
  <2>1. \A b \in Migrated : Light(b)
    BY Fields DEF Migrated, Light
  <2>2. \A b \in Dropped(o) : Light(b)
    <3>1. {"golden"} \cap Base = {}
      BY DEF Base
    <3> QED BY <3>1, Fields DEF Dropped, Light
  <2> QED BY <2>1, <2>2 DEF AllLight
<1>9. PICK E : E = Migrated \cup Dropped(o)
  OBVIOUS
<1>10. F \in Seq(ReloadStep) /\ \A n \in 1 .. Len(Namespaces) : Elems(blocks[n]) \subseteq Elems(F)
  BY <1>6, <1>8, <1>9 DEF Course
<1>11. Reaches(o, F, E)
  BY <1>6, <1>9, <1>10 DEF Reaches
<1>12. ASSUME NEW ns \in AllNs
       PROVE  {S("flush", ns, {}), S("put", ns, {"minigraph"} \cup FromInit), S("mark", ns, {})} \subseteq Elems(F)
  <2>1. PICK n \in 1 .. Len(Namespaces) : Namespaces[n] = ns
    BY HostFacts
  <2> QED BY <1>4, <1>8, <1>9, <1>10, <2>1
<1> QED BY <1>7, <1>9, <1>11, <1>12

LEMMA ExtraSteps ==
    /\ AddsExtras(<<>>)
    /\ \A ns \in AllNs : \A rows \in SUBSET Extras : AddsExtras(<<S("put", ns, rows)>>) /\ AddsExtras(<<S("run", ns, {}), S("put", ns, rows)>>)
    /\ AddsExtras(<<S("run", Host, {})>>)
    /\ \A rows \in SUBSET Extras : AddsExtras(ForEach(AsicNs, "put", rows))
    /\ AddsExtras(ForEach(Namespaces, "migrate", {})) /\ Migrated \subseteq Elems(ForEach(Namespaces, "migrate", {}))
<1>1. AddsExtras(<<>>)
  BY CourseNone DEF AddsExtras
<1>2. ASSUME NEW ns \in AllNs, NEW rows \in SUBSET Extras
      PROVE  /\ S("put", ns, rows) \in ReloadStep /\ S("put", ns, rows).does = "put" /\ S("put", ns, rows).rows \subseteq Extras
             /\ S("run", ns, {}) \in ReloadStep /\ S("run", ns, {}).does = "run"
  <2>1. rows \in SUBSET Sources
    BY DEF Extras, Sources
  <2> QED BY <2>1, StepOf, Fields DEF Does
<1>3. ASSUME NEW x \in ReloadStep, NEW y \in ReloadStep,
             x.does \in {"run", "migrate"} \/ (x.does = "put" /\ x.rows \subseteq Extras),
             y.does \in {"run", "migrate"} \/ (y.does = "put" /\ y.rows \subseteq Extras)
      PROVE  AddsExtras(<<x>>) /\ AddsExtras(<<x, y>>)
  <2>1. Elems(<<x>>) = {x} /\ Elems(<<x, y>>) = {x, y}
    BY DEF Elems
  <2> QED BY <1>3, <2>1 DEF AddsExtras
<1>4. \A ns \in AllNs : \A rows \in SUBSET Extras : AddsExtras(<<S("put", ns, rows)>>) /\ AddsExtras(<<S("run", ns, {}), S("put", ns, rows)>>)
  BY <1>2, <1>3
<1>5. AddsExtras(<<S("run", Host, {})>>)
  BY <1>2, <1>3, HostFacts
<1>6. ASSUME NEW nss \in Seq(AllNs), NEW does, NEW rows, \A ns \in AllNs : S(does, ns, rows) \in ReloadStep,
             does = "migrate" \/ (does = "put" /\ rows \subseteq Extras)
      PROVE  AddsExtras(ForEach(nss, does, rows)) /\ \A n \in 1 .. Len(nss) : S(does, nss[n], rows) \in Elems(ForEach(nss, does, rows))
  <2>1. PICK q : q = [n \in 1 .. Len(nss) |-> S(does, nss[n], rows)]
    OBVIOUS
  <2>2. ForEach(nss, does, rows) = q
    BY <2>1 DEF ForEach
  <2>3. \A n \in 1 .. Len(nss) : S(does, nss[n], rows) \in ReloadStep
    BY <1>6
  <2>4. q \in Seq(ReloadStep) /\ Len(q) = Len(nss)
    BY <2>1, <2>3
  <2>5. \A n \in 1 .. Len(q) : q[n] = S(does, nss[n], rows)
    BY <2>1, <2>4
  <2>6. \A x \in Elems(q) : x.does = does /\ x.rows = rows
    BY <2>5, Fields DEF Elems
  <2>7. \A n \in 1 .. Len(nss) : S(does, nss[n], rows) \in Elems(q)
    BY <2>4, <2>5 DEF Elems
  <2> QED BY <1>6, <2>2, <2>4, <2>6, <2>7 DEF AddsExtras
<1>7. \A rows \in SUBSET Extras : AddsExtras(ForEach(AsicNs, "put", rows))
  BY <1>2, <1>6, HostFacts
<1>8. AddsExtras(ForEach(Namespaces, "migrate", {})) /\ Migrated \subseteq Elems(ForEach(Namespaces, "migrate", {}))
  <2>1. \A ns \in AllNs : S("migrate", ns, {}) \in ReloadStep
    BY StepOf DEF Does
  <2>2. Namespaces \in Seq(AllNs) /\ \A ns \in AllNs : \E n \in 1 .. Len(Namespaces) : Namespaces[n] = ns
    BY HostFacts
  <2> QED BY <1>6, <2>1, <2>2 DEF Migrated
<1> QED BY <1>1, <1>4, <1>5, <1>7, <1>8

LEMMA MinigraphCourse ==
  ASSUME ReloadShape, NEW o
  PROVE  /\ Course("minigraph", o, MinigraphProgram(o), {})
         /\ Needed("minigraph", o) \subseteq Elems(MinigraphProgram(o))
         /\ MinigraphProgram(o) # <<>>
<1>1. PICK N, Nd, Nr : /\ N = Migrated \cup Dropped(o) \cup NeededToRestart(o)
                       /\ Nd = Dropped(o) \cup NeededToRestart(o)
                       /\ Nr = NeededToRestart(o)
  OBVIOUS
<1>2. PICK q1, q2, q3, q4, q5, q6, q7, q8, q9, q10, q11, q12 :
         /\ q1 = StopSteps(o) /\ q2 = GenerateConfig /\ q3 = <<S("run", Host, {})>>
         /\ q4 = Given("acl" \in present, <<S("put", Host, {"acl"})>>) /\ q5 = LoadBackendAcl /\ q6 = LoadPortConfig
         /\ q7 = ForEach(AsicNs, "put", {"qos"}) /\ q8 = ForEach(AsicNs, "put", {"pfcwd"})
         /\ q9 = ForEach(Namespaces, "migrate", {})
         /\ q10 = Given("t" \in o, <<S("put", Host, {"tsa"})>>)
         /\ q11 = Given("o" \in o, <<S("find", Host, {})>> \o OverrideConfigTable)
         /\ q12 = RestartSteps(o)
  OBVIOUS
<1>3. MinigraphProgram(o) =
         Then(Then(Then(Then(Then(Then(Then(Then(Then(Then(Then(q1, q2), q3), q4), q5), q6), q7), q8), q9), q10), q11), q12)
  BY <1>2 DEF MinigraphProgram, Then
<1>4. /\ AddsExtras(q3) /\ AddsExtras(q4) /\ AddsExtras(q5) /\ AddsExtras(q6) /\ AddsExtras(q7) /\ AddsExtras(q8)
      /\ AddsExtras(q9) /\ AddsExtras(q10) /\ Migrated \subseteq Elems(q9)
  <2>1. {"acl"} \in SUBSET Extras /\ {"backend_acl"} \in SUBSET Extras /\ {"port_config"} \in SUBSET Extras
        /\ {"qos"} \in SUBSET Extras /\ {"pfcwd"} \in SUBSET Extras /\ {"tsa"} \in SUBSET Extras
    BY DEF Extras
  <2>2. AddsExtras(q3) /\ AddsExtras(q7) /\ AddsExtras(q8) /\ AddsExtras(q9) /\ Migrated \subseteq Elems(q9)
    BY <1>2, <2>1, ExtraSteps
  <2>3. AddsExtras(q4) /\ AddsExtras(q10)
    BY <1>2, <2>1, ExtraSteps, HostFacts DEF Given
  <2>4. AddsExtras(q5)
    BY <1>2, <2>1, ExtraSteps, HostFacts DEF Given, LoadBackendAcl
  <2>5. AddsExtras(q6)
    BY <1>2, <2>1, ExtraSteps, HostFacts DEF Given, LoadPortConfig
  <2> QED BY <2>2, <2>3, <2>4, <2>5
<1>5. ASSUME NEW q, AddsExtras(q) PROVE Reaches(o, q, N) /\ Reaches(o, q, Nd) /\ AllLight(Elems(q))
  BY <1>1, <1>5, ExtrasReach
<1>6. Reaches(o, Then(q1, q2), N) /\ Elems(Then(q1, q2)) = Elems(q1) \cup Elems(q2)
  <2>1. Reaches(o, q2, Migrated \cup Dropped(o))
    BY <1>2, GenerateReaches
  <2>2. ASSUME NEW E, AllLight(E), N \subseteq E PROVE Course("minigraph", o, Then(q1, q2), E)
    <3>1. PICK M : M = Elems(q2) \cup E
      OBVIOUS
    <3>2. Course("minigraph", o, q2, E)
      BY <1>1, <2>1, <2>2 DEF Reaches
    <3>3. "n" \notin o => S("restart", Host, {}) \in M
      BY <1>1, <2>2, <3>1 DEF NeededToRestart
    <3>4. Course("minigraph", o, q1, M)
      BY <1>2, <3>3, StopCourse
    <3> QED BY ONLY <3>1, <3>2, <3>4, CourseThen
  <2>3. q2 \in Seq(ReloadStep)
    BY <2>1 DEF Reaches
  <2>4. q1 \in Seq(ReloadStep)
    <3>1. S("stop", Host, {}) \in ReloadStep
      BY HostFacts, StepOf DEF Does
    <3> QED BY <1>2, <3>1 DEF StopSteps, Given
  <2>5. Then(q1, q2) \in Seq(ReloadStep) /\ Elems(Then(q1, q2)) = Elems(q1) \cup Elems(q2)
    BY ONLY <2>3, <2>4, ElemsThen
  <2> QED BY <2>2, <2>5 DEF Reaches
<1>7. \A q : N \subseteq Elems(q) \cup N /\ Nd \subseteq Elems(q) \cup Nd /\ Nr \subseteq Elems(q) \cup Nr
  OBVIOUS
<1>8. ASSUME NEW X, Reaches(o, X, N), NEW q, AddsExtras(q)
      PROVE  Reaches(o, Then(X, q), N) /\ Elems(Then(X, q)) = Elems(X) \cup Elems(q)
  <2>1. Reaches(o, q, N) /\ AllLight(Elems(q)) /\ N \subseteq Elems(q) \cup N
    BY <1>5, <1>7, <1>8
  <2>2. Reaches(o, Then(X, q), N)
    BY <1>8, <2>1, ReachThen
  <2>3. X \in Seq(ReloadStep) /\ q \in Seq(ReloadStep)
    BY <1>8, <2>1 DEF Reaches
  <2> QED BY <2>2, <2>3, ElemsThen
<1>9. PICK X2 : X2 = Then(q1, q2)
  OBVIOUS
<1>10. PICK X3 : X3 = Then(X2, q3)
  OBVIOUS
<1>11. PICK X4 : X4 = Then(X3, q4)
  OBVIOUS
<1>12. PICK X5 : X5 = Then(X4, q5)
  OBVIOUS
<1>13. PICK X6 : X6 = Then(X5, q6)
  OBVIOUS
<1>14. PICK X7 : X7 = Then(X6, q7)
  OBVIOUS
<1>15. PICK X8 : X8 = Then(X7, q8)
  OBVIOUS
<1>16. Reaches(o, X3, N) /\ Elems(q2) \subseteq Elems(X3)
  BY <1>4, <1>6, <1>8, <1>9, <1>10
<1>17. Reaches(o, X4, N) /\ Elems(q2) \subseteq Elems(X4)
  BY <1>4, <1>8, <1>11, <1>16
<1>18. Reaches(o, X5, N) /\ Elems(q2) \subseteq Elems(X5)
  BY <1>4, <1>8, <1>12, <1>17
<1>19. Reaches(o, X6, N) /\ Elems(q2) \subseteq Elems(X6)
  BY <1>4, <1>8, <1>13, <1>18
<1>20. Reaches(o, X7, N) /\ Elems(q2) \subseteq Elems(X7)
  BY <1>4, <1>8, <1>14, <1>19
<1>21. Reaches(o, X8, N) /\ Elems(q2) \subseteq Elems(X8)
  BY <1>4, <1>8, <1>15, <1>20
<1>22. PICK X9 : X9 = Then(X8, q9)
  OBVIOUS
<1>23. Reaches(o, X9, Nd) /\ Elems(q2) \cup Migrated \subseteq Elems(X9)
  <2>1. N \subseteq Elems(q9) \cup Nd
    BY <1>1, <1>4
  <2>2. Reaches(o, q9, Nd) /\ AllLight(Elems(q9))
    BY <1>4, <1>5
  <2>3. Reaches(o, Then(X8, q9), Nd) /\ Elems(Then(X8, q9)) = Elems(X8) \cup Elems(q9)
    <3>1. Reaches(o, Then(X8, q9), Nd)
      BY <1>21, <2>1, <2>2, ReachThen
    <3>2. X8 \in Seq(ReloadStep) /\ q9 \in Seq(ReloadStep)
      BY <1>21, <2>1, <2>2 DEF Reaches
    <3> QED BY <3>1, <3>2, ElemsThen
  <2> QED BY <1>4, <1>21, <1>22, <2>3
<1>24. PICK X10 : X10 = Then(X9, q10)
  OBVIOUS
<1>25. Reaches(o, X10, Nd) /\ Elems(q2) \cup Migrated \subseteq Elems(X10)
  <2>1. Reaches(o, q10, Nd) /\ AllLight(Elems(q10))
    BY <1>4, <1>5
  <2>2. Reaches(o, Then(X9, q10), Nd) /\ Elems(Then(X9, q10)) = Elems(X9) \cup Elems(q10)
    <3>1. Reaches(o, Then(X9, q10), Nd)
      BY <1>7, <1>23, <2>1, ReachThen
    <3>2. X9 \in Seq(ReloadStep) /\ q10 \in Seq(ReloadStep)
      BY <1>7, <1>23, <2>1 DEF Reaches
    <3> QED BY <3>1, <3>2, ElemsThen
  <2> QED BY <1>23, <1>24, <2>2
<1>26. PICK X11 : X11 = Then(X10, q11)
  OBVIOUS
<1>27. Reaches(o, X11, Nr) /\ Elems(q2) \cup Migrated \cup Dropped(o) \subseteq Elems(X11)
  <2>1. Reaches(o, q11, Nr) /\ AllLight(Elems(q11)) /\ Dropped(o) \subseteq Elems(q11)
    BY <1>2, GoldenReaches
  <2>2. Nd \subseteq Elems(q11) \cup Nr
    BY <1>1, <2>1
  <2>3. Reaches(o, Then(X10, q11), Nr) /\ Elems(Then(X10, q11)) = Elems(X10) \cup Elems(q11)
    <3>1. Reaches(o, Then(X10, q11), Nr)
      BY <1>25, <2>1, <2>2, ReachThen
    <3>2. X10 \in Seq(ReloadStep) /\ q11 \in Seq(ReloadStep)
      BY <1>25, <2>1, <2>2 DEF Reaches
    <3> QED BY <3>1, <3>2, ElemsThen
  <2> QED BY <1>25, <1>26, <2>1, <2>3
<1>28. Reaches(o, q12, {}) /\ AllLight(Elems(q12)) /\ Nr \subseteq Elems(q12)
  <2>1. /\ Course("minigraph", o, q12, {})
        /\ \A x \in Elems(q12) : x.does \in {"run", "restart"}
        /\ "n" \notin o => S("restart", Host, {}) \in Elems(q12)
    BY <1>2, RestartCourse
  <2>2. ASSUME NEW E PROVE Course("minigraph", o, q12, E)
    <3>1. \A x \in Elems(q12), y \in E : ~Late(x, y)
      BY <2>1 DEF Late
    <3>2. Course("minigraph", o, q12, {} \cup E)
      BY <2>1, <3>1, CourseMore
    <3>3. {} \cup E = E
      OBVIOUS
    <3> QED BY <3>2, <3>3
  <2>3. q12 \in Seq(ReloadStep)
    BY <2>1 DEF Course
  <2> QED BY <1>1, <2>1, <2>2, <2>3 DEF Reaches, AllLight, Light, NeededToRestart
<1>29. PICK P : P = Then(X11, q12)
  OBVIOUS
<1>30. Reaches(o, P, {}) /\ Elems(P) = Elems(X11) \cup Elems(q12)
  <2>1. Nr \subseteq Elems(q12) \cup {}
    BY <1>28
  <2>2. Reaches(o, P, {})
    BY <1>27, <1>28, <1>29, <2>1, ReachThen
  <2>3. X11 \in Seq(ReloadStep) /\ q12 \in Seq(ReloadStep)
    BY <1>27, <1>28 DEF Reaches
  <2> QED BY <1>29, <2>2, <2>3, ElemsThen
<1>31. MinigraphProgram(o) = P
  BY <1>3, <1>9, <1>10, <1>11, <1>12, <1>13, <1>14, <1>15, <1>22, <1>24, <1>26, <1>29
<1>32. Course("minigraph", o, P, {})
  BY <1>30 DEF Reaches, AllLight
<1>33. Elems(GenerateConfig) \cup Migrated \cup Dropped(o) \cup NeededToRestart(o) \subseteq Elems(P)
  BY <1>1, <1>2, <1>27, <1>28, <1>30
<1>34. ASSUME NEW b \in Needed("minigraph", o) PROVE b \in Elems(P)
  <2>1. CASE \E n \in AllNs : b \in {S("flush", n, {}), S("mark", n, {}), S("migrate", n, {}), S("put", n, {"minigraph"} \cup FromInit)}
    <3>1. PICK n \in AllNs : b \in {S("flush", n, {}), S("mark", n, {}), S("migrate", n, {}), S("put", n, {"minigraph"} \cup FromInit)}
      BY <2>1
    <3>2. {S("flush", n, {}), S("put", n, {"minigraph"} \cup FromInit), S("mark", n, {})} \subseteq Elems(GenerateConfig)
      BY GenerateReaches
    <3>3. S("migrate", n, {}) \in Migrated
      BY DEF Migrated
    <3> QED BY <1>33, <3>1, <3>2, <3>3
  <2>2. CASE "o" \in o /\ b \in {S("drop", Host, Overridden), S("put", Host, {"golden"})}
    BY <1>33, <2>2 DEF Dropped
  <2>3. CASE "n" \notin o /\ b = S("restart", Host, {})
    BY <1>33, <2>3 DEF NeededToRestart
  <2> QED BY <2>1, <2>2, <2>3, NeededOfMinigraph
<1>35. P # <<>>
  <2>1. S("migrate", Host, {}) \in Elems(P)
    BY <1>33, HostFacts DEF Migrated
  <2> QED BY <2>1, CourseNone
<1> QED BY <1>31, <1>32, <1>34, <1>35

(* The beginning of a command, and the invariant. *)

\* Every command's program is right for it.
LEMMA ProgramCourse ==
  ASSUME ReloadShape, NEW k \in {"save", "load", "reload", "minigraph"}, NEW o
  PROVE  /\ Course(k, o, Program(k, o), {}) /\ Needed(k, o) \subseteq Elems(Program(k, o))
         /\ Program(k, o) = <<>> => k = "load"
<1>1. CASE k = "save"
  BY <1>1, SaveCourse DEF Program
<1>2. CASE k = "load"
  BY <1>2, LoadCourse DEF Program
<1>3. CASE k = "reload"
  BY <1>3, ReloadCourse DEF Program
<1>4. CASE k = "minigraph"
  BY <1>4, MinigraphCourse DEF Program
<1> QED BY <1>1, <1>2, <1>3, <1>4

LEMMA BeginKept ==
  ASSUME ReloadInv, NEW k \in {"save", "load", "reload", "minigraph"}, NEW o \in Options(k), BeginTask(k, o)
  PROVE  ReloadInv'
<1>1. PICK q, outcome :
         /\ task' = [kind |-> k, opts |-> o, todo |-> q, outcome |-> outcome, was |-> conf, services |-> services]
         /\ (outcome = "refused" /\ q = <<>>) \/ q = Program(k, o)
         /\ outcome \in {"refused", "done", "running"}
         /\ q = <<>> <=> outcome # "running"
         /\ outcome # "refused" => q = Program(k, o)
  <2> DEFINE refused == k = "reload" /\ {"n", "f"} \cap o = {} /\ ~SystemReady
             program == IF refused THEN <<>> ELSE Program(k, o)
             outcome == IF refused THEN "refused" ELSE IF program = <<>> THEN "done" ELSE "running"
  <2>1. task' = [kind |-> k, opts |-> o, todo |-> program, outcome |-> outcome, was |-> conf, services |-> services]
    BY DEF BeginTask
  <2> QED BY <2>1
<1>2. /\ task.todo = <<>> /\ budget.commands > 0 /\ (k \in {"reload", "minigraph"} => Initialized)
      /\ faults' = (IF Blind(k) THEN faults + 1 ELSE faults)
      /\ budget' = [budget EXCEPT !.commands = @ - 1]
      /\ UNCHANGED <<conf, files, present, services>>
  BY DEF BeginTask
<1>3. ReloadShape /\ task.outcome # "running"
  BY <1>2 DEF ReloadInv, TaskShape
<1>4. Course(k, o, q, {}) /\ (outcome # "refused" => Needed(k, o) \subseteq Elems(q))
  BY <1>1, <1>3, ProgramCourse, NothingToDo
<1>5. o \in SUBSET {"l", "n", "f", "t", "o"}
  BY DEF Options
<1>6. ReloadShape'
  <2>1. conf' \in [AllNs -> ConfRows] /\ services' \in {"up", "starting", "down"}
        /\ files' \in [AllNs -> [is : {"none", "torn", "whole"}, rows : SUBSET Sources, current : BOOLEAN]]
    BY <1>2, <1>3 DEF ReloadShape
  <2>2. faults' \in Nat
    BY <1>2, <1>3 DEF ReloadShape
  <2>3. budget' \in [commands : Nat, faults : Nat, saved : SUBSET AllNs] /\ budget'.saved = budget.saved
    BY <1>2, <1>3 DEF ReloadShape
  <2>4. q \in Seq(ReloadStep)
    BY <1>4 DEF Course
  <2>5. task' \in [kind : {"none", "save", "load", "reload", "minigraph"}, opts : SUBSET {"l", "n", "f", "t", "o"},
                   todo : Seq(ReloadStep), outcome : {"running", "done", "failed", "refused"},
                   was : [AllNs -> ConfRows], services : {"up", "starting", "down"}]
    BY <1>1, <1>3, <1>5, <2>4 DEF ReloadShape
  <2> QED BY <1>2, <1>3, <2>1, <2>2, <2>3, <2>5 DEF ReloadShape
<1>7. /\ task'.kind = k /\ task'.opts = o /\ task'.todo = q /\ task'.outcome = outcome
      /\ task'.was = conf /\ task'.services = services
  BY <1>1
<1>8. TaskShape' /\ MarkedHasBase' /\ WholeIsComplete'
  BY <1>1, <1>2, <1>7 DEF TaskShape, MarkedHasBase, WholeIsComplete, ReloadInv
<1>9. Needed(k, o)' = Needed(k, o) /\ Course(k, o, q, {})' = Course(k, o, q, {}) /\ Elems(q)' = Elems(q)
  <2>1. Elems(q)' = Elems(q)
    BY DEF Elems
  <2>2. UNCHANGED present /\ (k = "reload" => UNCHANGED files)
    BY <1>2
  <2>3. Needed(k, o)' = Needed(k, o) /\ Course(k, o, q, {})' = Course(k, o, q, {})
    BY <2>2, NeededKept
  <2> QED BY <2>1, <2>3
<1>10. SoFar' /\ Course(task.kind, task.opts, task.todo, {})'
  BY <1>1, <1>4, <1>7, <1>9 DEF SoFar, Begun
<1>11. Elsewhere' /\ ServicesLeft'
  BY <1>2, <1>7 DEF Elsewhere, ServicesLeft, Initialized
<1>12. OneSpoiled'
  <2>1. ~Loading /\ ~Saving
    BY <1>3 DEF Loading, Saving
  <2>2. /\ faults = 0 => NoneTorn /\ Initialized
        /\ faults <= 1 => NoneTorn \/ Initialized
    BY <2>1 DEF ReloadInv, OneSpoiled
  <2>3. (NoneTorn' <=> NoneTorn) /\ (Initialized' <=> Initialized)
    BY <1>2 DEF NoneTorn, Initialized
  <2>4. faults \in Nat /\ (faults' = 0 => faults = 0) /\ (faults' <= 1 => faults <= 1) /\ (faults' <= 1 /\ Blind(k) => faults = 0)
    BY <1>2, <1>3 DEF ReloadShape
  <2>5. Loading' /\ ~NoneTorn => Blind(k)
    BY <1>7 DEF Loading, NoneTorn, Blind
  <2>6. Saving' /\ ~Initialized => Blind(k)
    BY <1>7 DEF Saving, Blind
  <2> QED BY <2>2, <2>3, <2>4, <2>5, <2>6 DEF OneSpoiled
<1> QED BY <1>6, <1>8, <1>10, <1>11, <1>12 DEF ReloadInv

LEMMA ReloadStart == Init => ReloadInv
<1> SUFFICES ASSUME Init PROVE ReloadInv
  OBVIOUS
<1>1. PICK d \in Scenarios : InitReload(d)
  BY DEF Init
<1>2. d.budget \in [commands : Nat, faults : Nat, saved : SUBSET AllNs]
  BY BudgetAssumption
<1>3. /\ conf = [ns \in AllNs |-> [rows |-> {"running"}, current |-> TRUE, marked |-> TRUE]]
      /\ files = [ns \in AllNs |-> IF ns \in d.budget.saved THEN [is |-> "whole", rows |-> {"saved"}, current |-> FALSE]
                                   ELSE [is |-> "none", rows |-> {}, current |-> FALSE]]
      /\ budget = d.budget /\ services = "up" /\ faults = 0
      /\ task = [kind |-> "none", opts |-> {}, todo |-> <<>>, outcome |-> "done", was |-> conf, services |-> "up"]
  BY <1>1 DEF InitReload
<1>4. {"running"} \in SUBSET Sources /\ {"saved"} \in SUBSET Sources /\ "running" \in Base /\ "saved" \in Base
  BY DEF Sources, Base
<1>5. /\ conf \in [AllNs -> ConfRows] /\ \A ns \in AllNs : conf[ns].marked /\ conf[ns].rows = {"running"}
  BY <1>3, <1>4 DEF ConfRows
<1>6. /\ files \in [AllNs -> [is : {"none", "torn", "whole"}, rows : SUBSET Sources, current : BOOLEAN]]
      /\ \A ns \in AllNs : files[ns].is # "torn" /\ (files[ns].is = "whole" => files[ns].rows = {"saved"})
      /\ \A ns \in budget.saved : files[ns].is # "none"
  BY <1>2, <1>3, <1>4
<1>7. task \in [kind : {"none", "save", "load", "reload", "minigraph"}, opts : SUBSET {"l", "n", "f", "t", "o"},
                todo : Seq(ReloadStep), outcome : {"running", "done", "failed", "refused"},
                was : [AllNs -> ConfRows], services : {"up", "starting", "down"}]
  BY <1>3, <1>5
<1>8. ReloadShape /\ TaskShape
  BY <1>2, <1>3, <1>5, <1>6, <1>7 DEF ReloadShape, TaskShape
<1>9. WholeIsComplete /\ MarkedHasBase /\ Elsewhere /\ ServicesLeft
  BY <1>3, <1>4, <1>5, <1>6 DEF WholeIsComplete, MarkedHasBase, Elsewhere, ServicesLeft
<1>10. OneSpoiled
  BY <1>5, <1>6 DEF OneSpoiled, NoneTorn, Initialized, Loading, Saving
<1>11. SoFar
  BY <1>3 DEF SoFar, Needed
<1>12. Course(task.kind, task.opts, task.todo, {})
  BY <1>3, NothingToDo
<1> QED BY <1>8, <1>9, <1>10, <1>11, <1>12 DEF ReloadInv

LEMMA ReloadKept == ReloadInv /\ [Next]_vars => ReloadInv'
<1> SUFFICES ASSUME ReloadInv, [Next]_vars PROVE ReloadInv'
  OBVIOUS
<1>1. CASE UNCHANGED reloadVars
  BY <1>1, SettleKept DEF reloadVars
<1>2. CASE ReloadNext
  <2>1. CASE \E k \in {"save", "load", "reload", "minigraph"} : \E o \in Options(k) : BeginTask(k, o)
    BY <2>1, BeginKept
  <2>2. CASE Acts
    BY <2>2, ActsKept
  <2>3. CASE StepFails
    BY <2>3, FailsKept
  <2>4. CASE Settle
    BY <2>4, SettleKept DEF Settle
  <2> QED BY <1>2, <2>1, <2>2, <2>3, <2>4 DEF ReloadNext, Acts
<1> QED BY <1>1, <1>2 DEF Next, vars

LEMMA ReloadInvIsWhole == ReloadInv => ReloadIsWhole
<1> SUFFICES ASSUME ReloadInv PROVE ReloadIsWhole
  OBVIOUS
<1>0. PICK k, o : k = task.kind /\ o = task.opts
  OBVIOUS
<1>1. /\ ReloadShape /\ TaskShape /\ MarkedHasBase /\ SoFar /\ Elsewhere /\ ServicesLeft /\ OneSpoiled
      /\ conf \in [AllNs -> ConfRows] /\ Overridden \cap (Base \cup {"golden"}) = {}
  BY OverriddenAssumption DEF ReloadInv, ReloadShape
<1>2. OneCopyLeft
  <2> SUFFICES ASSUME faults <= 1, NEW ns \in budget.saved
               PROVE  files[ns].is = "whole" \/ (conf[ns].marked /\ conf[ns].rows \cap Base # {})
    BY DEF OneCopyLeft
  <2>1. ns \in AllNs /\ files[ns].is \in {"none", "torn", "whole"} /\ files[ns].is # "none"
    BY <1>1 DEF ReloadShape
  <2> QED BY <1>1, <2>1 DEF OneSpoiled, NoneTorn, Initialized, MarkedHasBase
<1>3. ASSUME task.outcome = "done", k \in {"reload", "minigraph"}
      PROVE  (\A b \in Needed(k, o) : Leaves(k, o, b)) /\ Restored
  <2>1. task.todo = <<>> /\ Begun
    BY <1>1, <1>3 DEF TaskShape, Begun
  <2>2. \A b \in Needed(k, o) : Leaves(k, o, b)
    BY <1>0, <1>1, <2>1, CourseNone DEF SoFar
  <2>3. CASE "n" \in o
    <3>1. ServicesLeft /\ "n" \in task.opts /\ task.kind \in {"reload", "minigraph"}
      BY <1>0, <1>1, <1>3, <2>3
    <3> QED BY <2>1, <2>2, <3>1 DEF ServicesLeft, Restored
  <2>4. CASE "n" \notin o
    <3>1. S("restart", Host, {}) \in Needed(k, o)
      BY <1>3, <2>4 DEF Needed, NeededToRestart
    <3>2. services # "down"
      BY <2>2, <3>1, Fields DEF Leaves
    <3>3. "n" \notin task.opts
      BY <1>0, <2>4
    <3> QED BY <2>2, <3>2, <3>3 DEF Restored
  <2> QED BY <2>2, <2>3, <2>4
<1>4. ASSUME task.outcome = "done", k = "reload", NEW ns \in AllNs PROVE Reloaded(ns)
  <2>1. CASE ns \notin There
    <3>1. files[ns].is = "none" /\ conf[ns] = task.was[ns]
      BY <1>0, <1>1, <1>4, <2>1 DEF There, Elsewhere, Begun
    <3> QED BY <3>1 DEF Reloaded
  <2>2. CASE ns \in There
    <3>1. /\ S("flush", ns, {}) \in Needed(k, o) /\ S("mark", ns, {}) \in Needed(k, o) /\ S("migrate", ns, {}) \in Needed(k, o)
          /\ S("import", ns, files[ns].rows \cup FromInit) \in Needed(k, o)
          /\ "l" \in o => S("put", ns, {"sysinfo"}) \in Needed(k, o)
      BY <1>4, <2>2, NeededFacts
    <3>2. \A b \in Needed(k, o) : Leaves(k, o, b)
      BY <1>3, <1>4
    <3>3. conf[ns].rows \cap Foreign(k, o, ns) = {}
      BY <3>1, <3>2, Fields DEF Leaves
    <3>4. conf[ns].marked /\ conf[ns].current
      BY <3>1, <3>2, Fields DEF Leaves
    <3>5. files[ns].rows \cup FromInit \subseteq conf[ns].rows
      <4>1. PICK b : b = S("import", ns, files[ns].rows \cup FromInit)
        OBVIOUS
      <4>2. b.does = "import" /\ b.ns = ns /\ b.rows = files[ns].rows \cup FromInit /\ Leaves(k, o, b)
        BY <3>1, <3>2, <4>1, Fields
      <4> QED BY <1>4, <4>2 DEF Leaves, Lasting
    <3>6. "l" \in o => "sysinfo" \in conf[ns].rows
      <4> SUFFICES ASSUME "l" \in o PROVE "sysinfo" \in conf[ns].rows
        OBVIOUS
      <4>1. PICK b : b = S("put", ns, {"sysinfo"})
        OBVIOUS
      <4>2. b.does = "put" /\ b.ns = ns /\ b.rows = {"sysinfo"} /\ Leaves(k, o, b)
        BY <3>1, <3>2, <4>1, Fields
      <4> QED BY <1>4, <4>2 DEF Leaves, Lasting
    <3>7. PICK c : c = conf[ns]
      OBVIOUS
    <3>8. c \in ConfRows /\ c.rows \subseteq Sources
      BY <1>1, <3>7 DEF ConfRows
    <3>9. PICK r : r = files[ns].rows \cup FromInit \cup WithSysinfo(o)
      OBVIOUS
    <3>10. c.rows = r
      <4>1. \A x \in c.rows : x \in r
        BY <1>4, <3>3, <3>7, <3>8, <3>9 DEF Foreign
      <4>2. \A x \in r : x \in c.rows
        BY <3>5, <3>6, <3>7, <3>9 DEF WithSysinfo
      <4> QED BY <4>1, <4>2
    <3>11. c = [rows |-> r, current |-> TRUE, marked |-> TRUE]
      BY <3>4, <3>7, <3>8, <3>10 DEF ConfRows
    <3> QED BY <1>0, <2>2, <3>7, <3>9, <3>11 DEF Reloaded, There, WithSysinfo
  <2> QED BY <2>1, <2>2
<1>5. ASSUME task.outcome = "done", k = "minigraph", NEW ns \in AllNs PROVE Regenerated(ns)
  <2>1. /\ S("flush", ns, {}) \in Needed(k, o) /\ S("mark", ns, {}) \in Needed(k, o) /\ S("migrate", ns, {}) \in Needed(k, o)
        /\ S("put", ns, {"minigraph"} \cup FromInit) \in Needed(k, o)
    BY <1>5, NeededFacts
  <2>2. \A b \in Needed(k, o) : Leaves(k, o, b)
    BY <1>3, <1>5
  <2>3. conf[ns].rows \cap Foreign(k, o, ns) = {}
    BY <2>1, <2>2, Fields DEF Leaves
  <2>4. conf[ns].marked /\ conf[ns].current
    BY <2>1, <2>2, Fields DEF Leaves
  <2>5. "minigraph" \in conf[ns].rows
    <3>1. PICK b : b = S("put", ns, {"minigraph"} \cup FromInit)
      OBVIOUS
    <3>2. b.does = "put" /\ b.ns = ns /\ "minigraph" \in b.rows /\ Leaves(k, o, b)
      BY <2>1, <2>2, <3>1, Fields
    <3> QED BY <1>1, <1>5, <3>2 DEF Leaves, Lasting, Base
  <2>6. ASSUME "o" \in o PROVE "golden" \in conf[Host].rows /\ conf[Host].rows \cap Overridden = {}
    <3>1. PICK d, g : d = S("drop", Host, Overridden) /\ g = S("put", Host, {"golden"})
      OBVIOUS
    <3>2. d \in Needed(k, o) /\ g \in Needed(k, o)
      BY <1>5, <2>6, <3>1 DEF Needed, NeededToRegenerate
    <3>3. /\ d.does = "drop" /\ d.ns = Host /\ d.rows = Overridden /\ Leaves(k, o, d)
          /\ g.does = "put" /\ g.ns = Host /\ g.rows = {"golden"} /\ Leaves(k, o, g)
      BY <2>2, <3>1, <3>2, Fields
    <3> QED BY <1>1, <3>3 DEF Leaves, Lasting
  <2> QED BY <1>0, <1>5, <2>3, <2>4, <2>5, <2>6 DEF Regenerated, Foreign
<1> QED BY <1>0, <1>1, <1>2, <1>3, <1>4, <1>5 DEF ReloadIsWhole, Done

\* A reload or load_minigraph that reports success leaves exactly what it loaded, migrated and marked, with the services
\* back; what is marked is of use; and one failure or kill leaves the configuration or its file (config/main.py).
THEOREM ReloadsAreWhole == Spec => []ReloadIsWhole
<1>1. ReloadInv => ReloadIsWhole
  BY ReloadInvIsWhole
<1>2. Spec => []ReloadInv
  BY ReloadStart, ReloadKept, PTL DEF Spec
<1> QED BY <1>1, <1>2, PTL
=============================================================================
