----------------------------- MODULE ImageManager -----------------------------
(***************************************************************************)
(* sonic-installer and the three boot loaders that it drives. A command       *)
(* works out its writes when it starts and makes them one at a time; a power  *)
(* cut loses the rest. What the boot loader itself does at a boot, and what   *)
(* the installer inside an image does, is external.                          *)
(***************************************************************************)
EXTENDS Integers, Sequences, FiniteSets

CONSTANTS
    Images,
    Empty,      \* a U-Boot slot without an image ("NONE"), and no image at all
    StartsWith  \* pairs <<i, j>>: the name of j starts with that of i, as "...-11" does with "...-1"

ASSUME StartsWithAssumption == \A i \in Images : <<i, i>> \in StartsWith

VARIABLES
    loader,     \* "grub", "uboot" or "aboot"
    env,        \* what the boot loader keeps, a record that depends on the loader
    dirs,       \* the images that have a directory on the disk
    running,
    todo,       \* writes that the command in progress still has to make
    careful     \* its operator avoids what Careful names
imageVars == <<loader, env, dirs, running, todo, careful>>

\* d: [loader, env, dirs, running, careful], a device as it is found.
InitImages(d) ==
    /\ loader = d.loader /\ env = d.env /\ dirs = d.dirs /\ running = d.running /\ careful = d.careful
    /\ todo = <<>>

IndexOf(seq, i) == CHOOSE n \in DOMAIN seq : seq[n] = i /\ \A m \in 1 .. n - 1 : seq[m] # i
Without(seq, i) == SelectSeq(seq, LAMBDA j : j # i)
Elements(seq) == {seq[n] : n \in DOMAIN seq}
\* U-Boot's class looks for a name anywhere in another, GRUB's at the start of a menu entry; all
\* names have the same prefix, so that both find the first image whose name starts with this one.
Found(i, seq) == CHOOSE n \in DOMAIN seq : <<i, seq[n]>> \in StartsWith /\ \A m \in 1 .. n - 1 : <<i, seq[m]>> \notin StartsWith

(* GRUB: [entries, saved, once, torn], entries in the order of grub.cfg; an  *)
(* index counts from 0, and once is -1 when grubenv has no next_entry.       *)
GrubNextImage == LET n == IF env.once >= 0 THEN env.once ELSE env.saved
                 IN  IF n < Len(env.entries) THEN env.entries[n + 1] ELSE Empty
GrubSetDefault(e, i) == [e EXCEPT !.saved = IndexOf(e.entries, i) - 1]
GrubSetNext(e, i) == [e EXCEPT !.once = IndexOf(e.entries, i) - 1]
\* grub.cfg is truncated when it is opened and has its text when it is closed. The entry that is found
\* goes from the menu, and the directory of the image that was asked for from the disk.
GrubRemove(i) ==
    LET shorter == [env EXCEPT !.entries = Without(@, @[Found(i, @)])]
    IN  <<<<[env EXCEPT !.torn = TRUE], dirs>>, <<shorter, dirs>>, <<shorter, dirs \ {i}>>,
          <<[shorter EXCEPT !.saved = 0], dirs \ {i}>>>>
\* The image's own installer keeps the running image and puts the new one first.
InstalledByImage(i) == <<[env EXCEPT !.entries = <<i, running>>], {i, running}>>
GrubInstall(i) ==
    LET ran == InstalledByImage(i)
    IN  <<ran, <<[ran[1] EXCEPT !.saved = 0], ran[2]>>>>

(* U-Boot: [slots, next, once], a slot number in each, once 0 when not set.  *)
UbootImages(e) == Without(e.slots, Empty)
UbootNextImage == IF env.next = 2 /\ Len(UbootImages(env)) = 2 THEN UbootImages(env)[2] ELSE UbootImages(env)[1]
\* The place in the list of images is taken for the number of the slot.
UbootSetDefault(e, i) == [e EXCEPT !.next = Found(i, UbootImages(e))]
UbootSetNext(e, i) == [e EXCEPT !.once = Found(i, UbootImages(e))]
\* Mutant of UbootRemove: boot_next stays on the slot that is emptied.
UbootRemoveKeepsNext(i) ==
    LET gone == [env EXCEPT !.slots[Found(i, UbootImages(env))] = Empty]
    IN  <<<<gone, dirs>>, <<gone, dirs \ {i}>>>>
UbootRemove(i) ==
    LET n == Found(i, UbootImages(env))
        other == [env EXCEPT !.next = 3 - n]
        gone == [other EXCEPT !.slots[n] = Empty]
    IN  <<<<other, dirs>>, <<gone, dirs>>, <<gone, dirs \ {i}>>>>

(* Aboot: [swi, dflt, torn]; boot-config is rewritten as a whole.            *)
AbootConfigSet(e) == <<<<[env EXCEPT !.torn = TRUE], dirs>>, <<e, dirs>>>>
AbootSetDefault(e, i) == [e EXCEPT !.swi = i, !.dflt = i]
AbootSetNext(e, i) == [e EXCEPT !.swi = i]
AbootRemove(i) ==
    LET moved == IF i = env.swi THEN AbootSetDefault(env, running) ELSE env
    IN  (IF i = env.swi THEN AbootConfigSet(moved) ELSE <<>>) \o <<<<moved, dirs \ {i}>>>>

-----------------------------------------------------------------------------
GetInstalledImages ==
    CASE loader = "grub" -> Elements(env.entries)
      [] loader = "uboot" -> Elements(UbootImages(env))
      [] loader = "aboot" -> dirs
GetNextImage ==
    CASE loader = "grub" -> GrubNextImage
      [] loader = "uboot" -> UbootNextImage
      [] loader = "aboot" -> env.swi
SetDefaultImage(i) ==
    CASE loader = "grub" -> <<<<GrubSetDefault(env, i), dirs>>>>
      [] loader = "uboot" -> <<<<UbootSetDefault(env, i), dirs>>>>
      [] loader = "aboot" -> AbootConfigSet(AbootSetDefault(env, i))
SetNextImage(i) ==
    CASE loader = "grub" -> <<<<GrubSetNext(env, i), dirs>>>>
      [] loader = "uboot" -> <<<<UbootSetNext(env, i), dirs>>>>
      [] loader = "aboot" -> AbootConfigSet(AbootSetNext(env, i))
RemoveImage(i) ==
    CASE loader = "grub" -> GrubRemove(i)
      [] loader = "uboot" -> UbootRemove(i)
      [] loader = "aboot" -> AbootRemove(i)
\* Only GRUB's class has verify_image_sign: a new image gets no further with the others.
SignatureChecked == loader = "grub"
\* What verify_next_image looks at: the directory of the image that comes next.
NextImageVerified == GetNextImage \in dirs

\* The image that a one-time choice names, as the boot loader will see it.
OnceImage ==
    CASE loader = "grub" ->
            (IF env.once < 0 THEN Empty
             ELSE env.entries[IF env.once < Len(env.entries) THEN env.once + 1 ELSE 1])
      [] loader = "uboot" -> IF env.once = 0 THEN Empty ELSE env.slots[env.once]
      [] loader = "aboot" -> IF env.swi = env.dflt THEN Empty ELSE env.swi
OncePending ==
    CASE loader = "grub" -> env.once >= 0
      [] loader = "uboot" -> env.once # 0
      [] loader = "aboot" -> env.swi # env.dflt
DefaultOf(e) ==
    CASE loader = "grub" -> e.entries[IF e.saved < Len(e.entries) THEN e.saved + 1 ELSE 1]
      [] loader = "uboot" -> e.slots[e.next]
      [] loader = "aboot" -> e.dflt
DefaultImage == DefaultOf(env)
Torn == loader # "uboot" /\ env.torn

(* What an operator of a careful device avoids: on U-Boot and Aboot, taking  *)
(* an image away while a one-time choice is pending; on U-Boot, choosing an  *)
(* image when slot 1 has none; and on GRUB and U-Boot, taking away, on       *)
(* U-Boot choosing, an image whose name another installed one starts with.   *)
Distinct(i) == \A j \in GetInstalledImages \ {i} : <<i, j>> \notin StartsWith
MayRemove(i) ==
    /\ careful /\ loader # "grub" => ~OncePending
    /\ careful /\ loader # "aboot" => Distinct(i)
MayChoose(i) == careful /\ loader = "uboot" => env.slots[1] # Empty /\ Distinct(i)

-----------------------------------------------------------------------------
NoCommand == todo = <<>> /\ ~Torn
Begin(writes) == todo' = writes /\ UNCHANGED <<loader, env, dirs, running, careful>>
SetDefault(i) == NoCommand /\ MayChoose(i) /\ i \in GetInstalledImages /\ Begin(SetDefaultImage(i))
SetNextBoot(i) == NoCommand /\ MayChoose(i) /\ i \in GetInstalledImages /\ Begin(SetNextImage(i))
\* An image that fails a check of its type, platform or signature changes nothing.
Install(i) ==
    /\ NoCommand
    /\ \/ i \in GetInstalledImages /\ MayChoose(i) /\ Begin(SetDefaultImage(i))
       \/ i \notin GetInstalledImages /\ SignatureChecked /\ Begin(GrubInstall(i))
RemoveCommand(i) ==
    /\ NoCommand /\ MayRemove(i)
    /\ i \in GetInstalledImages /\ i # running
    /\ Begin(RemoveImage(i))
\* With two images on the device, as its installer leaves it, at most one of them goes.
Cleanup ==
    /\ NoCommand /\ GetNextImage # Empty
    /\ \E i \in GetInstalledImages \ {running, GetNextImage} : MayRemove(i) /\ Begin(RemoveImage(i))
Write ==
    /\ todo # <<>>
    /\ env' = Head(todo)[1] /\ dirs' = Head(todo)[2] /\ todo' = Tail(todo)
    /\ UNCHANGED <<loader, running, careful>>

\* A command of the installer that finds nothing to do, or fails, is no step.
Command ==
    \/ \E i \in Images : SetDefault(i) \/ SetNextBoot(i) \/ Install(i) \/ RemoveCommand(i)
    \/ Cleanup

\* The boot loader takes the one-time choice, once, or else the default.
LoaderBoot ==
    /\ ~Torn
    /\ running' = IF OncePending THEN OnceImage ELSE DefaultImage
    /\ env' = CASE loader = "aboot" -> [env EXCEPT !.swi = env.dflt]
                [] loader = "grub" -> [env EXCEPT !.once = -1]
                [] loader = "uboot" -> [env EXCEPT !.once = 0]
    /\ todo' = <<>>
    /\ UNCHANGED <<loader, dirs, careful>>
\* kexec jumps past the boot loader: a one-time choice stays.
KexecBoot(i) == running' = i /\ todo' = <<>> /\ UNCHANGED <<loader, env, dirs, careful>>
=============================================================================
