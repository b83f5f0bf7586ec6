---------------------------- MODULE DockerUpgrades ----------------------------
(***************************************************************************)
(* "sonic-installer upgrade-docker" and "rollback-docker". An image of a      *)
(* container is "old" or "new"; loading the new one makes it the latest.      *)
(***************************************************************************)
EXTENDS Reboots

CONSTANT WarmContainers   \* those with a warm restart of their own: swss, bgp, teamd

U(step) == upgrade.at = step /\ UNCHANGED <<imageVars, ses, sessions>>
GoOn(step) == upgrade' = [upgrade EXCEPT !.at = step]
C == upgrade.of
Warm == upgrade.warm \/ upgrade.flagged
\* The flag is put back if it was not set before the command.
RestoreFlag == sys' = IF upgrade.warm /\ ~upgrade.flagged /\ C \in WarmContainers
                      THEN [sys EXCEPT !.flags = @ \ {C}] ELSE sys
\* A command that fails ends the session at once; that is remembered until a boot.
Finish(outcome) == upgrade' = [NoUpgrade EXCEPT !.of = C, !.outcome = IF upgrade.outcome = "died" THEN "died" ELSE outcome]

\* On a careful device no container is upgraded during a reboot, nor the other way round.
UpgradeDocker ==
    /\ upgrade.at = "idle" /\ (careful => ses.at = "idle") /\ sys.services = "up"
    /\ sessions.upgrades > 0
    /\ \E c \in Containers, w, s \in BOOLEAN :
        /\ upgrade' = [at |-> "load", of |-> c, warm |-> w, skip |-> s, flagged |-> c \in sys.flags,
                       previous |-> images[c].latest, outcome |-> upgrade.outcome]
        /\ sys' = IF w /\ c \in WarmContainers THEN [sys EXCEPT !.flags = @ \cup {c}] ELSE sys
    /\ sessions' = [sessions EXCEPT !.upgrades = @ - 1]
    /\ UNCHANGED <<imageVars, ses, images>>
LoadImage ==
    /\ U("load") /\ UNCHANGED sys
    /\ \/ /\ images' = [images EXCEPT ![C].tags = @ \cup {"new"}, ![C].latest = "new"]
          /\ GoOn(IF Warm /\ C = "swss" THEN "check" ELSE "replace")
       \/ UNCHANGED images /\ Finish("died")
\* Orchagent that is not in a clean state: the flag, the image and its tag go back.
CheckOrchagent ==
    /\ U("check")
    /\ \/ sys' = [sys EXCEPT !.frozen = TRUE] /\ GoOn("replace") /\ UNCHANGED images
       \/ upgrade.skip /\ UNCHANGED <<sys, images>> /\ GoOn("replace")
       \/ /\ ~upgrade.skip /\ RestoreFlag
          /\ Finish(IF images[C].runs = upgrade.previous THEN "refused" ELSE "rolled_back")
          /\ images' = [images EXCEPT ![C].tags = IF upgrade.previous = "new" THEN @ ELSE @ \ {"new"},
                                      ![C].latest = upgrade.previous]
\* Kill, remove, tag and restart; the previous image may be cleaned up.
ReplaceContainer ==
    /\ U("replace")
    /\ \/ /\ sys' = IF C = "swss" THEN [sys EXCEPT !.frozen = FALSE] ELSE sys
          /\ \E gone \in {{}, {upgrade.previous} \ {"new"}} :
                images' = [images EXCEPT ![C].runs = images[C].latest, ![C].tags = @ \ gone]
          /\ GoOn("reconcile")
       \/ UNCHANGED <<sys, images>> /\ Finish("died")
\* The wait for the applications is bounded; whether they reconciled decides what is reported.
Reconcile ==
    /\ U("reconcile") /\ RestoreFlag /\ UNCHANGED images
    /\ \E done \in IF Warm /\ C \in WarmContainers THEN BOOLEAN ELSE {TRUE} :
        Finish(IF done THEN "done" ELSE "failed")

RollbackDocker(c) ==
    /\ upgrade.at = "idle" /\ (careful => ses.at = "idle") /\ sys.services = "up"
    /\ sessions.upgrades > 0
    /\ Cardinality(images[c].tags) = 2
    /\ LET other == CHOOSE t \in images[c].tags : t # images[c].latest
       IN  images' = [images EXCEPT ![c].latest = other,
                                    ![c].runs = IF c \in WarmContainers THEN @ ELSE other]
    /\ upgrade' = [upgrade EXCEPT !.of = c, !.outcome = IF @ = "died" THEN @ ELSE "rolled_back"]
    /\ sessions' = [sessions EXCEPT !.upgrades = @ - 1]
    /\ UNCHANGED <<imageVars, sys, ses>>

Upgrade ==
    \/ UpgradeDocker \/ LoadImage \/ CheckOrchagent \/ ReplaceContainer \/ Reconcile
    \/ \E c \in Containers : RollbackDocker(c)
=============================================================================
