------------------------------ MODULE BootChoice ------------------------------
(***************************************************************************)
(* What sonic-installer promises about boots, whatever the boot loader: each  *)
(* boot is of an installed image, of the one that was asked for once, or else *)
(* of the default, and neither install nor remove takes the running one away. *)
(***************************************************************************)
EXTENDS Naturals, FiniteSets

CONSTANTS Images, Empty
VARIABLES installed, default, once, running
vars == <<installed, default, once, running>>

Init ==
    /\ installed \in SUBSET Images /\ running \in installed /\ default \in installed
    /\ once \in installed \cup {Empty}

\* A one-time choice is kept, or lost to what is left, when images come and go.
OnceAfter(left) == once' \in IF once = Empty THEN {Empty} ELSE left \cup {Empty}
Install(i) ==
    /\ installed' \in SUBSET (installed \cup {i}) /\ {i, running} \subseteq installed'
    /\ default' \in {i, running}
    /\ OnceAfter(installed')
    /\ UNCHANGED running
SetDefault(i) ==
    /\ i \in installed /\ default' = i
    /\ once' \in {once, Empty}
    /\ UNCHANGED <<installed, running>>
SetNext(i) ==
    /\ i \in installed /\ once' \in {i, Empty} /\ (once' = Empty => i = default)
    /\ UNCHANGED <<installed, default, running>>
Remove(i) ==
    /\ i \in installed \ {running} /\ installed' = installed \ {i}
    /\ default' \in {default, running} \ {i}
    /\ OnceAfter(installed')
    /\ UNCHANGED running
Boot ==
    /\ running' = IF once # Empty THEN once ELSE default
    /\ once' = Empty
    /\ UNCHANGED <<installed, default>>
\* A warm, fast or soft reboot starts what comes next and leaves the choice.
KexecBoot ==
    /\ running' = IF once # Empty THEN once ELSE default
    /\ UNCHANGED <<installed, default, once>>

Next ==
    \/ \E i \in Images : Install(i) \/ SetDefault(i) \/ SetNext(i) \/ Remove(i)
    \/ Boot \/ KexecBoot
Spec == Init /\ [][Next]_vars
=============================================================================
