------------------------- MODULE PackageManager_proofs -------------------------
(***************************************************************************)
(* Theorems about installations, upgrades and uninstallations: at each step *)
(* the program that is left, with the callbacks that are registered, says    *)
(* what has been done and what a failure would take back; and, of one        *)
(* session, what the host has meanwhile.                                     *)
(***************************************************************************)
EXTENDS PackageManagerProperties, TLAPS

-----------------------------------------------------------------------------
(* Programs: which step follows which, what each registers, and which version it is about. *)

Installs(j) == j.old = NoVersion /\ j.new # NoVersion
Upgrades(j) == j.old # NoVersion /\ j.new # NoVersion
Removes(j) == j.old # NoVersion /\ j.new = NoVersion
Commits(j) == j.old = NoVersion /\ j.new = NoVersion

\* The step that ends a block is told apart where an act occurs more than once.
Label(t) == IF t.undo = "stopNew" THEN "awaitNew"
            ELSE IF t.undo = "unplugNew" THEN "plugLast"
            ELSE IF t.undo = "plugOld" THEN "unplugLast" ELSE t.act

CommitOrder == {<<"popAll", "record">>, <<"record", "truncate">>, <<"truncate", "dump">>, <<"dump", "truncate">>}
InstallOrder ==
    {<<"pull", "script">>, <<"script", "yang">>, <<"yang", "register">>, <<"register", "fast">>,
     <<"fast", "warm">>, <<"warm", "plug">>, <<"warm", "plugLast">>, <<"warm", "popAll">>, <<"plug", "plug">>,
     <<"plug", "plugLast">>, <<"plugLast", "popAll">>} \cup CommitOrder
UpgradeOrder(running) ==
    {<<"unplug", "unplug">>, <<"unplug", "unplugLast">>, <<"unplugLast", "pull">>, <<"pull", "probe">>,
     <<"noscript", "noyang">>, <<"noyang", "script">>, <<"script", "yang">>, <<"yang", "fast">>, <<"fast", "warm">>,
     <<"warm", "update">>, <<"plug", "plug">>, <<"plug", "plugLast">>, <<"plugLast", "rmi">>, <<"rmi", "popAll">>}
    \cup (IF running
          THEN {<<"stop", "await">>, <<"await", "noscript">>, <<"update", "start">>, <<"start", "awaitNew">>,
                <<"awaitNew", "plug">>, <<"awaitNew", "plugLast">>, <<"awaitNew", "rmi">>}
          ELSE {<<"update", "plug">>, <<"update", "plugLast">>, <<"update", "rmi">>})
    \cup CommitOrder
RemoveOrder ==
    {<<"stop", "await">>, <<"await", "unplug">>, <<"await", "noscript">>, <<"unplug", "unplug">>,
     <<"unplug", "noscript">>, <<"noscript", "noyang">>, <<"noyang", "deregister">>, <<"deregister", "fast">>,
     <<"fast", "warm">>, <<"warm", "rmi">>, <<"rmi", "record">>} \cup CommitOrder
Order(j) == IF Installs(j) THEN InstallOrder ELSE IF Upgrades(j) THEN UpgradeOrder(j.running)
            ELSE IF Removes(j) THEN RemoveOrder ELSE CommitOrder

CommitUndo == {<<"popAll", "none">>, <<"record", "none">>, <<"truncate", "none">>, <<"dump", "none">>}
InstallUndo ==
    {<<"pull", "uninstallImage">>, <<"script", "none">>, <<"yang", "none">>, <<"register", "removeService">>,
     <<"fast", "none">>, <<"warm", "ordersBefore">>, <<"plug", "none">>, <<"plug", "unplugNew">>} \cup CommitUndo
UpgradeUndo ==
    {<<"unplug", "none">>, <<"unplug", "plugOld">>, <<"pull", "uninstallImage">>, <<"probe", "none">>,
     <<"stop", "none">>, <<"await", "startOld">>, <<"noscript", "none">>, <<"noyang", "createOld">>,
     <<"script", "none">>, <<"yang", "removeNew">>, <<"fast", "none">>, <<"warm", "ordersBefore">>,
     <<"update", "updateBack">>, <<"start", "none">>, <<"await", "stopNew">>,
     <<"plug", "none">>, <<"plug", "unplugNew">>, <<"rmi", "none">>} \cup CommitUndo
RemoveUndo ==
    {<<a, "none">> : a \in {"stop", "await", "unplug", "noscript", "noyang", "deregister", "fast", "warm", "rmi"}} \cup CommitUndo
Undo(j) == IF Installs(j) THEN InstallUndo ELSE IF Upgrades(j) THEN UpgradeUndo
           ELSE IF Removes(j) THEN RemoveUndo ELSE CommitUndo

Fitting(j) ==
    {t \in Step : /\ <<t.act, t.undo>> \in Undo(j)
                  /\ t.act \in {"pull", "script", "yang", "register", "fast", "warm", "update", "plug", "record"}
                       => t.version = j.new
                  /\ t.act = "rmi" => t.version = j.old}

InOrder(q, R) == \A i \in 1 .. Len(q) - 1 : <<Label(q[i]), Label(q[i + 1])>> \in R
Ending == {"plugLast", "rmi", "popAll", "record", "truncate", "dump"}
PlugsFirst(q) == \A i, k \in DOMAIN q : i < k /\ Label(q[i]) \in Ending => q[k].act # "plug"
Program(j, q) ==
    /\ q \in Seq(Fitting(j)) /\ InOrder(q, Order(j)) /\ PlugsFirst(q)
    /\ q # <<>> => Label(q[Len(q)]) \in {"probe", "dump"}
PlugsIn(q) == {q[i].cmd : i \in {k \in DOMAIN q : q[k].act = "plug"}}

(* Callbacks: which is below which. *)
InstallStack == {<<"unplugNew", "ordersBefore">>, <<"ordersBefore", "removeService">>, <<"removeService", "uninstallImage">>}
UpgradeStack(running) ==
    {<<"updateBack", "ordersBefore">>, <<"ordersBefore", "removeNew">>, <<"removeNew", "createOld">>, <<"uninstallImage", "plugOld">>}
    \cup (IF running
          THEN {<<"unplugNew", "stopNew">>, <<"stopNew", "updateBack">>, <<"createOld", "startOld">>, <<"startOld", "uninstallImage">>}
          ELSE {<<"unplugNew", "updateBack">>, <<"createOld", "uninstallImage">>})
Stack(j) == IF Installs(j) THEN InstallStack ELSE IF Upgrades(j) THEN UpgradeStack(j.running) ELSE {}
Bottom(j) == IF Installs(j) THEN {"uninstallImage"} ELSE IF Upgrades(j) THEN {"uninstallImage", "plugOld"} ELSE {}
Stacked(j, u) ==
    /\ u \in Seq(Callbacks)
    /\ \A i \in 1 .. Len(u) - 1 : <<u[i], u[i + 1]>> \in Stack(j)
    /\ u # <<>> => u[Len(u)] \in Bottom(j)
Top(u) == IF u = <<>> THEN "end" ELSE Head(u)

\* What is registered when the step with this label is next.
InstallTop(h) ==
    CASE h = "pull" -> {"end"}
      [] h \in {"script", "yang", "register"} -> {"uninstallImage"}
      [] h \in {"fast", "warm"} -> {"removeService"}
      [] h \in {"plug", "plugLast"} -> {"ordersBefore"}
      [] h = "popAll" -> {"ordersBefore", "unplugNew"}
      [] OTHER -> {"end"}
UpgradeTop(h, running) ==
    CASE h \in {"unplug", "unplugLast"} -> {"end"}
      [] h = "pull" -> {"end", "plugOld"}
      [] h \in {"probe", "stop", "await"} -> {"uninstallImage"}
      [] h \in {"noscript", "noyang"} -> {IF running THEN "startOld" ELSE "uninstallImage"}
      [] h \in {"script", "yang"} -> {"createOld"}
      [] h \in {"fast", "warm"} -> {"removeNew"}
      [] h = "update" -> {"ordersBefore"}
      [] h \in {"start", "awaitNew"} -> {"updateBack"}
      [] h \in {"plug", "plugLast"} -> {IF running THEN "stopNew" ELSE "updateBack"}
      [] h \in {"rmi", "popAll"} -> {IF running THEN "stopNew" ELSE "updateBack", "unplugNew"}
      [] OTHER -> {"end"}
TopAt(j, h) == IF Installs(j) THEN InstallTop(h) ELSE IF Upgrades(j) THEN UpgradeTop(h, j.running) ELSE {"end"}

-----------------------------------------------------------------------------
(* The invariant. *)

Job == [pkg : Packages, old : VersionOrNone, new : VersionOrNone, from : {"database", "registry", "tarball"},
        enable : BOOLEAN, local : BOOLEAN, skip : BOOLEAN, running : BOOLEAN, migrated : BOOLEAN]

Next1(s) == IF todo[s] = <<>> THEN "none" ELSE Label(Head(todo[s]))    \* the step to come

\* Whoever asks for a package by tarball or reference names its version.
Askable == {r \in Request : r.from # "database" /\ r.kind # "migrateOne" => r.version # NoVersion}

AskedState == {"enabled", "disabled", "either"}
TypedHost ==
    /\ file \in Entries \cup {Torn}
    /\ images \subseteq Packages \X VersionOrNone
    /\ script \in [Packages -> VersionOrNone] /\ yang \in [Packages -> VersionOrNone]
    /\ feature \in [Packages -> Feature]
    /\ plugins \in [Packages -> [CommandNames -> VersionOrNone]]
    /\ order \in [{"fast", "warm"} -> [Packages -> VersionOrNone]]
    /\ asked \in [Packages -> AskedState]
    /\ spoiled \subseteq Packages
TypedSessions ==
    /\ lock \in Sessions \cup {Nobody}
    /\ pc \in [Sessions -> {"idle", "prompt", "check", "work", "unwind"}]
    /\ mem \in [Sessions -> Entries]
    /\ queue \in [Sessions -> Seq(Askable)]
    /\ job \in [Sessions -> Job]
    /\ todo \in [Sessions -> Seq(Step)] /\ undo \in [Sessions -> Seq(Callbacks)]
Typed == TypedHost /\ TypedSessions
Locking == \A s \in Sessions : lock = s <=> pc[s] \in Locked

\* What has been done of an installation, an upgrade or an uninstallation when the step is next.
ScriptMade == {"yang", "register", "fast", "warm", "update", "start", "awaitNew", "plug", "plugLast", "rmi", "popAll",
               "record", "truncate", "dump"}
YangMade == ScriptMade \ {"yang"}
RowMade == {"start", "awaitNew", "plug", "plugLast", "rmi", "popAll", "record", "truncate", "dump"}
ImageMade == ScriptMade \cup {"probe", "stop", "await", "noscript", "noyang", "script"}
FastMade == (RowMade \cup {"warm", "update"})
WarmMade == FastMade \ {"warm"}
Recorded == {"truncate", "dump"}

YangOf(p, v) == IF p \in WithYang THEN v ELSE NoVersion
SameVersions(ps, m, n) == \A p \in ps : VersionIn(m, p) = VersionIn(n, p)
RowHas(row, v) == IF v = NoVersion THEN row = NoFeature ELSE row # NoFeature /\ row.version = v
RowIs(p, v) == RowHas(feature[p], v)
OrderIs(o, s) == order[o] = [q \in Packages |-> IF q = Pkg(s) THEN job[s].new ELSE VersionIn(mem[s], q)]

ScriptDone(j) == ScriptMade \cup (IF Removes(j) THEN {"noyang", "deregister"} ELSE {})
YangDone(j) == YangMade \cup (IF Removes(j) THEN {"deregister"} ELSE {})
RowDone(j) == RowMade \cup (IF Upgrades(j) THEN {} ELSE {"fast", "warm"})
Opening == {"unplug", "unplugLast", "pull", "probe"}

\* Where the program is, and what is registered.
Course(s) ==
    LET j == job[s]
        h == Next1(s)
    IN  /\ Stacked(j, undo[s]) /\ Program(j, todo[s])
        /\ h = "none" => undo[s] = <<>>
        /\ h # "none" => Top(undo[s]) \in TopAt(j, h)
        /\ h \in Opening /\ Upgrades(j) => ~j.running
\* What is on the host and in the database.
Made(s) ==
    LET j == job[s]
        p == j.pkg
        h == Next1(s)
    IN  /\ h \in ScriptDone(j) => script[p] = j.new
        /\ h \in YangDone(j) => yang[p] = YangOf(p, j.new)
        /\ h \in RowDone(j) => RowIs(p, j.new)
        /\ h \in FastMade => OrderIs("fast", s)
        /\ h \in WarmMade => OrderIs("warm", s)
        /\ h \in Recorded => VersionIn(mem[s], p) = j.new
\* The image, and the plugins: those that are missing are still to be installed.
Ready(s) ==
    LET j == job[s]
        p == j.pkg
        h == Next1(s)
        missing == {c \in PluginsOf[<<p, j.new>>] : plugins[p][c] # j.new}
    IN  /\ h \in ImageMade => <<p, j.new>> \in images
        /\ ~j.skip /\ h \notin Opening \cup {"none"} => missing \subseteq PlugsIn(todo[s])
        /\ ~j.skip /\ h = "pull" /\ Installs(j) => PluginsOf[<<p, j.new>>] \subseteq PlugsIn(todo[s])
Done(s) ==
    /\ Course(s)
    /\ ~Commits(job[s]) => Made(s)
    /\ (Installs(job[s]) \/ Upgrades(job[s])) /\ job[s].old # job[s].new => Ready(s)
Working == \A s \in Sessions : pc[s] = "work" => Done(s)

(* One session: what is still to be taken back. *)
Agrees(x, a) == a \in {x, "either"}                            \* state x is what the user has asked for
Halts(x, a) == Agrees("enabled", a) /\ (x = "disabled" \/ a = "either")
RowAsAsked(p) == feature[p] # NoFeature => Agrees(feature[p].state, asked[p])
Fits(p, v) ==
    /\ script[p] = v /\ yang[p] = YangOf(p, v) /\ RowIs(p, v) /\ RowAsAsked(p)
    /\ v # NoVersion => <<p, v>> \in images
Fit(ps, m) == \A p \in ps \ spoiled : Fits(p, VersionIn(m, p))

\* Between stop and start the feature is disabled, although the user has asked for it.
Halted(p) == feature[p] # NoFeature /\ Halts(feature[p].state, asked[p])
StateIs(halted, running, p) == IF halted THEN Halted(p) ELSE RowAsAsked(p) /\ (running => Agrees("enabled", asked[p]))

OldScript == Opening \cup {"stop", "await", "noscript"}
OldYang == OldScript \cup {"noyang"}
HaltedAt == {"await", "noscript", "noyang", "script", "yang", "fast", "warm", "update", "start"}
Written == {"none", "truncate", "dump"}
NoImage == {"none", "popAll", "record", "truncate", "dump"}

\* What an upgrade finds: the old version, until it is replaced.
BeforeUpgrade(s) ==
    LET j == job[s]
        p == j.pkg
        h == Next1(s)
    IN  /\ j.old # j.new
        /\ h \in OldScript => script[p] = j.old
        /\ h \in OldYang => yang[p] = YangOf(p, j.old)
        /\ h \in {"script", "yang"} => yang[p] = NoVersion
        /\ h \notin RowMade \cup {"none"} => RowIs(p, j.old)
        /\ h \notin NoImage => <<p, j.old>> \in images
        /\ h \in {"stop", "await", "start", "awaitNew"} => j.running
        /\ StateIs(j.running /\ h \in HaltedAt, j.running, p)
\* What an installation finds: nothing.
BeforeInstall(s) ==
    LET j == job[s]
        p == j.pkg
        h == Next1(s)
    IN  /\ h \in {"pull", "script"} => script[p] = NoVersion
        /\ h \in {"pull", "script", "yang"} => yang[p] = NoVersion
        /\ h \in {"pull", "script", "yang", "register"} => feature[p] = NoFeature
        /\ RowAsAsked(p)
Before(s) ==
    LET j == job[s]
        p == j.pkg
        h == Next1(s)
    IN  /\ Upgrades(j) => BeforeUpgrade(s)
        /\ Installs(j) => BeforeInstall(s)
        /\ Removes(j) /\ h = "stop" => feature[p] # NoFeature
        /\ Commits(j) => h \in Written /\ Fits(p, VersionIn(mem[s], p))

UnwindOrder(j) ==
    IF Installs(j) THEN {<<"noscript", "noyang">>, <<"noyang", "deregister">>, <<"fast", "warm">>, <<"unplug", "unplug">>}
    ELSE {<<"noscript", "noyang">>, <<"fast", "warm">>, <<"stop", "await">>, <<"script", "yang">>, <<"start", "await">>,
          <<"plug", "plug">>}
UnwindLast(j) ==
    IF Installs(j) THEN {"deregister", "warm", "unplug", "rmi"}
    ELSE {"noyang", "warm", "await", "update", "yang", "rmi", "plug"}
\* The steps of a callback, with what is left of the stack when it runs.
UnwindOver(j) ==
    IF Installs(j) THEN ({"noscript", "noyang", "deregister"} \X {"uninstallImage"})
                        \cup ({"fast", "warm"} \X {"removeService"})
                        \cup {<<"unplug", "ordersBefore">>, <<"rmi", "end">>}
    ELSE ({"noscript", "noyang"} \X {"createOld"}) \cup ({"fast", "warm"} \X {"removeNew"}) \cup {<<"update", "ordersBefore">>}
         \cup ({"script", "yang"} \X {IF j.running THEN "startOld" ELSE "uninstallImage"})
         \cup (IF j.running THEN ({"stop", "await"} \X {"updateBack"}) \cup ({"start", "await"} \X {"uninstallImage"}) ELSE {})
         \cup {<<"rmi", "end">>, <<"rmi", "plugOld">>, <<"plug", "end">>}
UnwindSteps(j, c) ==
    {t \in Step : /\ <<t.act, c>> \in UnwindOver(j) /\ t.undo = "none"
                  /\ t.act \in {"script", "yang", "update", "plug"} => t.version = j.old
                  /\ t.act = "rmi" => t.version = j.new}
Unwinding(j, q, c) ==
    /\ q \in Seq(UnwindSteps(j, c))
    /\ InOrder(q, UnwindOrder(j))
    /\ q # <<>> => q[Len(q)].act \in UnwindLast(j)

OldRow == {"createOld", "removeNew", "startOld", "uninstallImage", "plugOld", "end"}
OldService == {"startOld", "uninstallImage", "plugOld", "end"}

BackInstall(s) ==
    LET p == Pkg(s)
        a == Next1(s)
        c == Top(undo[s])
    IN  /\ RowAsAsked(p)
        /\ c = "end" \/ (c = "uninstallImage" /\ a \in {"noyang", "deregister", "none"}) => script[p] = NoVersion
        /\ c = "end" \/ (c = "uninstallImage" /\ a \in {"deregister", "none"}) => yang[p] = NoVersion
        /\ c = "end" \/ (c = "uninstallImage" /\ a = "none") => feature[p] = NoFeature
BackUpgrade(s) ==
    LET j == job[s]
        p == j.pkg
        a == Next1(s)
        c == Top(undo[s])
    IN  /\ <<p, j.old>> \in images
        /\ feature[p] # NoFeature
        /\ c \in OldRow \/ (c = "ordersBefore" /\ a = "none") => RowIs(p, j.old)
        /\ (c = "createOld" /\ a = "none") \/ a \in {"script", "yang"} => yang[p] = NoVersion
        /\ c \in OldService /\ a # "script" => script[p] = j.old
        /\ c \in OldService /\ a \notin {"script", "yang"} => yang[p] = YangOf(p, j.old)
        /\ StateIs(/\ j.running
                   /\ \/ c \in {"ordersBefore", "removeNew", "createOld", "startOld"}
                      \/ c = "updateBack" /\ a # "stop"
                      \/ c = "uninstallImage" /\ a = "start",
                   j.running, p)
Back(s) ==
    LET j == job[s]
    IN  /\ Installs(j) \/ (Upgrades(j) /\ j.old # j.new)
        /\ Stacked(j, undo[s]) /\ Unwinding(j, todo[s], Top(undo[s]))
        /\ Installs(j) => BackInstall(s)
        /\ Upgrades(j) => BackUpgrade(s)

\* packages.json, while the session works and while it takes back.
FileInWork(s) ==
    LET p == Pkg(s)
        h == Next1(s)
    IN  /\ IF h = "dump" THEN file = Torn ELSE file # Torn /\ SameVersions(Packages \ {p}, file, mem[s])
        /\ h = "none" => SameVersions({p}, file, mem[s]) /\ Fit({p}, mem[s])
        /\ h \notin Written => VersionIn(file, p) = job[s].old
FileInUnwind(s) ==
    LET p == Pkg(s)
    IN  /\ file # Torn => SameVersions(Packages \ {p}, file, mem[s])
        /\ file # Torn /\ p \notin spoiled => VersionIn(file, p) = job[s].old

Resting(s) ==
    /\ pc[s] = "idle" /\ file # Torn => Fit(Packages, file)
    /\ pc[s] = "prompt" => mem[s] = file /\ Fit(Packages, file)
    /\ pc[s] = "check" => file # Torn /\ SameVersions(Packages, file, mem[s]) /\ Fit(Packages, mem[s])
InWork(s) == Fit(Packages \ {Pkg(s)}, mem[s]) /\ (Pkg(s) \notin spoiled => Before(s)) /\ FileInWork(s)
InUnwind(s) == Fit(Packages \ {Pkg(s)}, mem[s]) /\ (Pkg(s) \notin spoiled => Back(s)) /\ FileInUnwind(s)
AloneAt(s) == Resting(s) /\ (pc[s] = "work" => InWork(s)) /\ (pc[s] = "unwind" => InUnwind(s))

-----------------------------------------------------------------------------
(* Sequences of steps. *)

\* A part of a program: its steps are in F, each followed by what R allows, from a label in A to one in Z.
Piece(q, F, R, A, Z) ==
    /\ q \in Seq(F) /\ q # <<>>
    /\ InOrder(q, R) /\ Label(q[1]) \in A /\ Label(q[Len(q)]) \in Z
Early(q) == \A i \in DOMAIN q : Label(q[i]) \notin Ending
NoPlugs(q) == \A i \in DOMAIN q : q[i].act # "plug"

LEMMA EmptySeq ==
    ASSUME NEW S, NEW q \in Seq(S)
    PROVE  q = <<>> <=> Len(q) = 0
  OBVIOUS

LEMMA ConcatFacts ==
    ASSUME NEW F, NEW p \in Seq(F), NEW q \in Seq(F)
    PROVE  /\ p \o q \in Seq(F) /\ Len(p \o q) = Len(p) + Len(q)
           /\ \A i \in 1 .. Len(p) : (p \o q)[i] = p[i]
           /\ \A i \in 1 .. Len(q) : (p \o q)[Len(p) + i] = q[i]
           /\ \A k \in DOMAIN (p \o q) : k \in DOMAIN p \/ (k - Len(p) \in DOMAIN q /\ (p \o q)[k] = q[k - Len(p)])
  OBVIOUS

LEMMA ConcatPieces ==
    ASSUME NEW F, NEW R, NEW A, NEW B, NEW C, NEW Z, NEW p, NEW q,
           Piece(p, F, R, A, B), Piece(q, F, R, C, Z), B \X C \subseteq R
    PROVE  Piece(p \o q, F, R, A, Z)
<1> DEFINE s == p \o q
           m == Len(p)
           n == Len(q)
<1>1. /\ p \in Seq(F) /\ q \in Seq(F) /\ m \in Nat \ {0} /\ n \in Nat \ {0}
      /\ DOMAIN p = 1 .. m /\ DOMAIN q = 1 .. n
  BY DEF Piece
<1>2. /\ s \in Seq(F) /\ Len(s) = m + n
      /\ \A i \in 1 .. m : s[i] = p[i]
      /\ \A i \in 1 .. n : s[m + i] = q[i]
  BY <1>1, ConcatFacts
<1> HIDE DEF s, m, n
<1>3. s # <<>> /\ s[1] = p[1] /\ s[m + n] = q[n]
  BY <1>1, <1>2
<1>4. ASSUME NEW i \in 1 .. Len(s) - 1
      PROVE  <<Label(s[i]), Label(s[i + 1])>> \in R
  <2>1. CASE i < m
    <3>1. i \in 1 .. m /\ i + 1 \in 1 .. m /\ i \in 1 .. m - 1
      BY <1>1, <2>1
    <3> QED BY <3>1, <1>2 DEF Piece, InOrder, m
  <2>2. CASE i = m
    <3>1. s[i] = p[m] /\ s[i + 1] = q[1]
      BY <1>1, <1>2, <2>2
    <3>2. Label(p[m]) \in B /\ Label(q[1]) \in C
      BY DEF Piece, m
    <3> QED BY <3>1, <3>2
  <2>3. CASE i > m
    <3> DEFINE k == i - m
    <3>1. k \in 1 .. n - 1 /\ k \in 1 .. n /\ k + 1 \in 1 .. n /\ i = m + k /\ i + 1 = m + (k + 1)
      BY <1>1, <1>2, <2>3
    <3> HIDE DEF k
    <3>2. s[i] = q[k] /\ s[i + 1] = q[k + 1]
      BY <1>2, <3>1
    <3> QED BY <3>1, <3>2 DEF Piece, InOrder, n
  <2> QED BY <1>1, <2>1, <2>2, <2>3
<1>5. Len(s) = m + n
  BY <1>2
<1> QED
  BY <1>2, <1>3, <1>4, <1>5 DEF Piece, InOrder, s, m, n

LEMMA ConcatPlugs ==
    ASSUME NEW F, NEW p \in Seq(F), NEW q \in Seq(F)
    PROVE  /\ PlugsIn(p \o q) = PlugsIn(p) \cup PlugsIn(q)
           /\ Early(p) /\ Early(q) => Early(p \o q)
           /\ NoPlugs(p) /\ NoPlugs(q) => NoPlugs(p \o q)
           /\ NoPlugs(p) /\ Early(p) /\ PlugsFirst(q) => PlugsFirst(p \o q)
           /\ PlugsFirst(p) /\ NoPlugs(q) => PlugsFirst(p \o q)
<1> DEFINE s == p \o q
           m == Len(p)
           n == Len(q)
<1>1. /\ m \in Nat /\ n \in Nat /\ DOMAIN p = 1 .. m /\ DOMAIN q = 1 .. n /\ DOMAIN s = 1 .. m + n
      /\ \A i \in 1 .. m : s[i] = p[i]
      /\ \A i \in 1 .. n : s[m + i] = q[i]
  BY ConcatFacts
<1> HIDE DEF s, m, n
<1>2. \A k \in 1 .. m + n : k \in 1 .. m \/ (k - m \in 1 .. n /\ s[k] = q[k - m])
  <2> TAKE k \in 1 .. m + n
  <2>1. k \in 1 .. m \/ (k - m \in 1 .. n /\ m + (k - m) = k)
    BY <1>1
  <2> QED BY <1>1, <2>1
<1>3. \A i \in 1 .. m : i \in 1 .. m + n
  BY <1>1
<1>4. \A i \in 1 .. n : m + i \in 1 .. m + n
  BY <1>1
<1>5. PlugsIn(s) \subseteq PlugsIn(p) \cup PlugsIn(q)
  BY <1>1, <1>2 DEF PlugsIn
<1>6. PlugsIn(p) \subseteq PlugsIn(s) /\ PlugsIn(q) \subseteq PlugsIn(s)
  BY <1>1, <1>3, <1>4 DEF PlugsIn
<1>7. Early(p) /\ Early(q) => Early(s)
  BY <1>1, <1>2 DEF Early
<1>8. NoPlugs(p) /\ NoPlugs(q) => NoPlugs(s)
  BY <1>1, <1>2 DEF NoPlugs
<1>9. ASSUME NoPlugs(p), Early(p), PlugsFirst(q) PROVE PlugsFirst(s)
  <2> SUFFICES ASSUME NEW i \in DOMAIN s, NEW k \in DOMAIN s, i < k, Label(s[i]) \in Ending, s[k].act = "plug"
               PROVE  FALSE
    BY DEF PlugsFirst
  <2>1. k - m \in 1 .. n /\ s[k] = q[k - m]
    BY <1>1, <1>2, <1>9 DEF NoPlugs
  <2>2. CASE i \in 1 .. m
    BY <1>1, <1>9, <2>2 DEF Early
  <2>3. CASE i - m \in 1 .. n /\ s[i] = q[i - m]
    <3>1. i - m < k - m
      BY <1>1
    <3> QED BY <3>1, <2>1, <2>3, <1>1, <1>9 DEF PlugsFirst
  <2> QED BY <1>1, <1>2, <2>2, <2>3
<1>10. ASSUME PlugsFirst(p), NoPlugs(q) PROVE PlugsFirst(s)
  <2> SUFFICES ASSUME NEW i \in DOMAIN s, NEW k \in DOMAIN s, i < k, Label(s[i]) \in Ending, s[k].act = "plug"
               PROVE  FALSE
    BY DEF PlugsFirst
  <2>1. k \in 1 .. m
    BY <1>1, <1>2, <1>10 DEF NoPlugs
  <2>2. i \in 1 .. m
    BY <1>1, <2>1
  <2> QED BY <1>1, <2>1, <2>2, <1>10 DEF PlugsFirst
<1> QED
  BY <1>5, <1>6, <1>7, <1>8, <1>9, <1>10 DEF s

\* What is left of a program when its first step is done.
LEMMA ProgramTail ==
    ASSUME NEW j, NEW q, Program(j, q), q # <<>>
    PROVE  /\ Head(q) \in Fitting(j) /\ Tail(q) \in Seq(Fitting(j)) /\ Program(j, Tail(q))
           /\ Tail(q) = <<>> => Label(Head(q)) \in {"probe", "dump"}
           /\ Tail(q) # <<>> => <<Label(Head(q)), Label(Head(Tail(q)))>> \in Order(j)
           /\ Head(q).act = "plug" => PlugsIn(q) \subseteq PlugsIn(Tail(q)) \cup {Head(q).cmd}
           /\ Head(q).act # "plug" => PlugsIn(q) \subseteq PlugsIn(Tail(q))
           /\ Label(Head(q)) \in Ending => PlugsIn(Tail(q)) = {}
<1> DEFINE n == Len(q)
           t == Tail(q)
<1>1. q \in Seq(Fitting(j)) /\ n \in Nat \ {0} /\ DOMAIN q = 1 .. n /\ Head(q) = q[1]
  BY DEF Program
<1>2. t \in Seq(Fitting(j)) /\ Len(t) = n - 1 /\ DOMAIN t = 1 .. n - 1 /\ \A i \in 1 .. n - 1 : t[i] = q[i + 1]
  BY <1>1
<1>3. t # <<>> => Head(t) = t[1] /\ n > 1
  BY <1>2
<1>4. t = <<>> => n = 1
  BY <1>1, <1>2
<1>5. \A i \in 1 .. n - 1 : i \in 1 .. n /\ i + 1 \in 1 .. n
  BY <1>1
<1>6. \A i \in 1 .. n : i = 1 \/ (i - 1 \in 1 .. n - 1 /\ q[i] = t[i - 1])
  BY <1>1, <1>2
<1> HIDE DEF n, t
<1>7. InOrder(q, Order(j)) /\ PlugsFirst(q) /\ Label(q[n]) \in {"probe", "dump"}
  BY <1>1 DEF Program, n
<1>8. InOrder(t, Order(j))
  <2> SUFFICES ASSUME NEW i \in 1 .. Len(t) - 1 PROVE <<Label(t[i]), Label(t[i + 1])>> \in Order(j)
    BY DEF InOrder
  <2>1. i \in 1 .. n - 1 /\ i + 1 \in 1 .. n - 1 /\ i + 1 \in 1 .. Len(q) - 1
    BY <1>1, <1>2 DEF n
  <2>2. t[i] = q[i + 1] /\ t[i + 1] = q[(i + 1) + 1]
    BY <1>2, <2>1
  <2> QED BY <2>1, <2>2, <1>7 DEF InOrder
<1>9. PlugsFirst(t)
  <2> SUFFICES ASSUME NEW i \in 1 .. n - 1, NEW k \in 1 .. n - 1, i < k, Label(t[i]) \in Ending PROVE t[k].act # "plug"
    BY <1>2 DEF PlugsFirst
  <2>1. t[i] = q[i + 1] /\ t[k] = q[k + 1] /\ i + 1 \in DOMAIN q /\ k + 1 \in DOMAIN q /\ i + 1 < k + 1
    BY <1>1, <1>2, <1>5
  <2> QED BY <2>1, <1>7 DEF PlugsFirst
<1>10. t # <<>> => Label(t[Len(t)]) \in {"probe", "dump"}
  <2> SUFFICES ASSUME t # <<>> PROVE Label(t[Len(t)]) \in {"probe", "dump"}
    OBVIOUS
  <2>1. n - 1 \in 1 .. n - 1 /\ (n - 1) + 1 = n
    BY <1>1, <1>3
  <2>2. t[n - 1] = q[n]
    BY <1>2, <2>1
  <2> QED BY <2>2, <1>2, <1>7
<1>11. t # <<>> => <<Label(q[1]), Label(t[1])>> \in Order(j)
  <2> SUFFICES ASSUME t # <<>> PROVE <<Label(q[1]), Label(t[1])>> \in Order(j)
    OBVIOUS
  <2>1. 1 \in 1 .. n - 1 /\ t[1] = q[1 + 1] /\ 1 \in 1 .. Len(q) - 1
    BY <1>1, <1>2, <1>3 DEF n
  <2> QED BY <2>1, <1>7 DEF InOrder
<1>12. PlugsIn(q) \subseteq PlugsIn(t) \cup (IF q[1].act = "plug" THEN {q[1].cmd} ELSE {})
  <2> SUFFICES ASSUME NEW i \in 1 .. n, q[i].act = "plug"
               PROVE  q[i].cmd \in PlugsIn(t) \cup (IF q[1].act = "plug" THEN {q[1].cmd} ELSE {})
    BY <1>1 DEF PlugsIn
  <2> QED BY <1>2, <1>6 DEF PlugsIn
<1>13. Label(q[1]) \in Ending => PlugsIn(t) = {}
  <2> SUFFICES ASSUME Label(q[1]) \in Ending, NEW i \in 1 .. n - 1, t[i].act = "plug" PROVE FALSE
    BY <1>2 DEF PlugsIn
  <2>1. t[i] = q[i + 1] /\ 1 \in DOMAIN q /\ i + 1 \in DOMAIN q /\ 1 < i + 1
    BY <1>1, <1>2, <1>5
  <2> QED BY <2>1, <1>7 DEF PlugsFirst
<1>14. Head(q) \in Fitting(j)
  BY <1>1
<1>15. Program(j, t)
  BY <1>2, <1>8, <1>9, <1>10 DEF Program
<1>16. Tail(q) = t /\ Head(q) = q[1]
  BY <1>1 DEF t
<1>17. t = <<>> => Label(q[1]) \in {"probe", "dump"}
  BY <1>4, <1>7
<1> QED
  BY <1>2, <1>3, <1>11, <1>12, <1>13, <1>14, <1>15, <1>16, <1>17

LEMMA StackPush ==
    ASSUME NEW j, NEW u, Stacked(j, u), NEW c \in Callbacks,
           IF u = <<>> THEN c \in Bottom(j) ELSE <<c, Top(u)>> \in Stack(j)
    PROVE  Stacked(j, <<c>> \o u) /\ Top(<<c>> \o u) = c /\ <<c>> \o u # <<>>
<1> DEFINE v == <<c>> \o u
           n == Len(u)
<1>1. u \in Seq(Callbacks) /\ n \in Nat /\ DOMAIN u = 1 .. n
  BY DEF Stacked
<1>2. v \in Seq(Callbacks) /\ Len(v) = n + 1 /\ v[1] = c /\ v # <<>> /\ Head(v) = c
      /\ \A i \in 1 .. n : v[i + 1] = u[i]
  BY <1>1
<1>3. (u = <<>> => n = 0) /\ (u # <<>> => n > 0 /\ Head(u) = u[1])
  BY <1>1
<1> HIDE DEF v, n
<1>4. ASSUME NEW i \in 1 .. Len(v) - 1 PROVE <<v[i], v[i + 1]>> \in Stack(j)
  <2>1. CASE i = 1
    <3>1. n > 0 /\ u # <<>> /\ 1 \in 1 .. n /\ v[1 + 1] = u[1]
      BY <1>1, <1>2, <1>3, <2>1
    <3> QED BY <3>1, <1>2, <1>3, <2>1 DEF Top
  <2>2. CASE i # 1
    <3> DEFINE k == i - 1
    <3>1. k \in 1 .. n - 1 /\ k \in 1 .. n /\ k + 1 \in 1 .. n /\ i = k + 1 /\ k \in 1 .. Len(u) - 1
      BY <1>1, <1>2, <2>2 DEF n
    <3> HIDE DEF k
    <3>2. v[i] = u[k] /\ v[i + 1] = u[k + 1]
      BY <1>2, <3>1
    <3> QED BY <3>1, <3>2 DEF Stacked
  <2> QED BY <2>1, <2>2
<1>5. v[Len(v)] \in Bottom(j)
  <2>1. CASE u = <<>>
    BY <2>1, <1>2, <1>3
  <2>2. CASE u # <<>>
    <3>1. n \in 1 .. n
      BY <2>2, <1>1, <1>3
    <3>2. v[n + 1] = u[n] /\ u[n] \in Bottom(j)
      BY <2>2, <3>1, <1>2 DEF Stacked, n
    <3> QED BY <3>2, <1>2
  <2> QED BY <2>1, <2>2
<1> QED
  BY <1>2, <1>4, <1>5 DEF Stacked, Top, v

LEMMA StackPop ==
    ASSUME NEW j, NEW u, Stacked(j, u), u # <<>>
    PROVE  /\ Head(u) \in Callbacks /\ Tail(u) \in Seq(Callbacks) /\ Stacked(j, Tail(u))
           /\ IF Tail(u) = <<>> THEN Head(u) \in Bottom(j) ELSE <<Head(u), Head(Tail(u))>> \in Stack(j)
<1> DEFINE v == Tail(u)
           n == Len(u)
<1>1. u \in Seq(Callbacks) /\ n \in Nat \ {0} /\ DOMAIN u = 1 .. n /\ Head(u) = u[1]
  BY DEF Stacked
<1>2. v \in Seq(Callbacks) /\ Len(v) = n - 1 /\ \A i \in 1 .. n - 1 : v[i] = u[i + 1]
  BY <1>1
<1> HIDE DEF v, n
<1>20. v = <<>> <=> Len(v) = 0
  BY <1>2, EmptySeq
<1>3. (v # <<>> => n > 1 /\ Head(v) = v[1]) /\ (v = <<>> => n = 1)
  BY <1>20, <1>1, <1>2
<1>4. /\ \A i \in 1 .. n - 1 : <<u[i], u[i + 1]>> \in Stack(j)
      /\ u[n] \in Bottom(j)
  BY <1>1 DEF Stacked, n
<1>5. ASSUME NEW i \in 1 .. Len(v) - 1 PROVE <<v[i], v[i + 1]>> \in Stack(j)
  <2>1. i \in 1 .. n - 1 /\ i + 1 \in 1 .. n - 1
    BY <1>1, <1>2
  <2>2. v[i] = u[i + 1] /\ v[i + 1] = u[(i + 1) + 1]
    BY <1>2, <2>1
  <2> QED BY <2>1, <2>2, <1>4
<1>6. v # <<>> => v[Len(v)] \in Bottom(j)
  <2> SUFFICES ASSUME v # <<>> PROVE v[Len(v)] \in Bottom(j)
    OBVIOUS
  <2>1. n - 1 \in 1 .. n - 1 /\ (n - 1) + 1 = n
    BY <1>1, <1>3
  <2> QED BY <2>1, <1>2, <1>4
<1>7. v # <<>> => <<Head(u), Head(v)>> \in Stack(j)
  <2> SUFFICES ASSUME v # <<>> PROVE <<Head(u), Head(v)>> \in Stack(j)
    OBVIOUS
  <2>1. 1 \in 1 .. n - 1 /\ v[1] = u[1 + 1]
    BY <1>1, <1>2, <1>3
  <2> QED BY <2>1, <1>1, <1>3, <1>4
<1>8. Head(u) \in Callbacks
  BY <1>1
<1>9. v = <<>> => Head(u) \in Bottom(j)
  BY <1>1, <1>3, <1>4
<1> QED
  BY <1>2, <1>5, <1>6, <1>7, <1>8, <1>9 DEF Stacked, v

-----------------------------------------------------------------------------
(* The programs are programs. *)

Last(act, v, c) == [act |-> act, version |-> v, cmd |-> NoCommand, undo |-> c]
Part(j, q, A, Z) == Piece(q, Fitting(j), Order(j), A, Z)

LEMMA BlockOfOne ==
    ASSUME NEW a, NEW v, NEW c
    PROVE  Block(<<Do(a, v)>>, c) = <<Last(a, v, c)>>
<1>1. [Do(a, v) EXCEPT !.undo = c] = Last(a, v, c)
  BY DEF Do, Last
<1> QED BY <1>1 DEF Block

LEMMA BlockOfTwo ==
    ASSUME NEW a, NEW b, NEW v, NEW c
    PROVE  Block(<<Do(a, v), Do(b, v)>>, c) = <<Do(a, v), Last(b, v, c)>>
<1>1. [Do(b, v) EXCEPT !.undo = c] = Last(b, v, c)
  BY DEF Do, Last
<1> QED BY <1>1 DEF Block

LEMMA BlockOfThree ==
    ASSUME NEW a, NEW b, NEW d, NEW v, NEW c
    PROVE  Block(<<Do(a, v), Do(b, v), Do(d, v)>>, c) = <<Do(a, v), Do(b, v), Last(d, v, c)>>
<1>1. [Do(d, v) EXCEPT !.undo = c] = Last(d, v, c)
  BY DEF Do, Last
<1> QED BY <1>1 DEF Block

LEMMA PieceOne ==
    ASSUME NEW F, NEW R, NEW A, NEW Z, NEW t \in F, Label(t) \in A, Label(t) \in Z
    PROVE  Piece(<<t>>, F, R, A, Z)
  BY DEF Piece, InOrder

LEMMA PieceTwo ==
    ASSUME NEW F, NEW R, NEW A, NEW Z, NEW t \in F, NEW u \in F, <<Label(t), Label(u)>> \in R,
           Label(t) \in A, Label(u) \in Z
    PROVE  Piece(<<t, u>>, F, R, A, Z)
  BY DEF Piece, InOrder

LEMMA PieceThree ==
    ASSUME NEW F, NEW R, NEW A, NEW Z, NEW t \in F, NEW u \in F, NEW w \in F,
           <<Label(t), Label(u)>> \in R, <<Label(u), Label(w)>> \in R, Label(t) \in A, Label(w) \in Z
    PROVE  Piece(<<t, u, w>>, F, R, A, Z)
<1> DEFINE q == <<t, u, w>>
<1>1. q \in Seq(F) /\ Len(q) = 3 /\ q[1] = t /\ q[2] = u /\ q[3] = w /\ q # <<>>
  OBVIOUS
<1> HIDE DEF q
<1>2. ASSUME NEW i \in 1 .. Len(q) - 1 PROVE <<Label(q[i]), Label(q[i + 1])>> \in R
  <2>1. i = 1 \/ i = 2
    BY <1>1
  <2> QED BY <2>1, <1>1
<1>3. Piece(q, F, R, A, Z)
  BY <1>1, <1>2 DEF Piece, InOrder
<1> QED BY <1>3 DEF q

\* A part that may be empty is added.
LEMMA ConcatMaybe ==
    ASSUME NEW F, NEW R, NEW A, NEW B, NEW C, NEW Z, NEW p, NEW q,
           Piece(p, F, R, A, B), q = <<>> \/ Piece(q, F, R, C, Z), B \X C \subseteq R
    PROVE  Piece(p \o q, F, R, A, B \cup Z)
<1>1. CASE q = <<>>
  <2>1. p \o q = p
    BY <1>1 DEF Piece
  <2> QED BY <2>1 DEF Piece
<1>2. CASE Piece(q, F, R, C, Z)
  <2>1. Piece(p \o q, F, R, A, Z)
    BY <1>2, ConcatPieces
  <2> QED BY <2>1 DEF Piece
<1> QED BY <1>1, <1>2

Plug(act, v, cmd, c) == [act |-> act, version |-> v, cmd |-> cmd, undo |-> c]

\* The commands one after the other; the last step registers the callback.
PlugsOf(q, act, v, c) ==
    /\ Len(q) = Len(Commands) /\ DOMAIN q = 1 .. Len(Commands)
    /\ \A i \in 1 .. Len(Commands) : q[i] = Plug(act, v, Commands[i], IF i = Len(Commands) THEN c ELSE "none")

LEMMA CommandFacts == /\ Commands \in Seq(CommandNames) /\ DOMAIN Commands = 1 .. Len(Commands) /\ Len(Commands) \in Nat
                      /\ \A x \in CommandNames : \E i \in 1 .. Len(Commands) : Commands[i] = x
                      /\ \A i \in 1 .. Len(Commands) : Commands[i] \in CommandNames
  BY CommandsAssumption DEF CommandNames

LEMMA PluginSteps ==
    ASSUME NEW act, NEW v, NEW c
    PROVE  PlugsOf(Plugins(act, v), act, v, "none") /\ PlugsOf(Block(Plugins(act, v), c), act, v, c)
<1> DEFINE q == Plugins(act, v)
           n == Len(Commands)
<1>1. DOMAIN q = 1 .. n /\ Len(q) = n /\ \A i \in 1 .. n : q[i] = Plug(act, v, Commands[i], "none")
  BY CommandFacts DEF Plugins, Plug
<1> HIDE DEF q, n
<1>2. DOMAIN Block(q, c) = 1 .. n /\ \A i \in 1 .. n : Block(q, c)[i] = IF i = n THEN [q[i] EXCEPT !.undo = c] ELSE q[i]
  BY <1>1 DEF Block
<1>3. Len(Block(q, c)) = n
  BY <1>2, CommandFacts DEF Block, n
<1>4. \A i \in 1 .. n : [Plug(act, v, Commands[i], "none") EXCEPT !.undo = c] = Plug(act, v, Commands[i], c)
  BY DEF Plug
<1> QED BY <1>1, <1>2, <1>3, <1>4 DEF PlugsOf, q, n

LEMMA PlugPiece ==
    ASSUME NEW F, NEW R, NEW q \in Seq(F), NEW act, NEW v, NEW c, PlugsOf(q, act, v, c), NEW L,
           \A x \in CommandNames : Label(Plug(act, v, x, "none")) = act /\ Label(Plug(act, v, x, c)) = L,
           <<act, act>> \in R, <<act, L>> \in R
    PROVE  q = <<>> \/ Piece(q, F, R, {act, L}, {L})
<1> DEFINE n == Len(q)
<1>1. n \in Nat /\ n = Len(Commands) /\ DOMAIN q = 1 .. n /\ \A i \in 1 .. n : Commands[i] \in CommandNames
  BY CommandFacts DEF PlugsOf
<1>2. \A i \in 1 .. n : Label(q[i]) = IF i = n THEN L ELSE act
  BY <1>1 DEF PlugsOf
<1>3. q = <<>> <=> n = 0
  BY EmptySeq
<1> HIDE DEF n
<1>4. ASSUME NEW i \in 1 .. n - 1 PROVE <<Label(q[i]), Label(q[i + 1])>> \in R
  <2>1. i \in 1 .. n /\ i + 1 \in 1 .. n /\ i # n
    BY <1>1
  <2> QED BY <2>1, <1>2
<1>5. InOrder(q, R)
  BY <1>4 DEF InOrder, n
<1>6. CASE n # 0
  <2>1. 1 \in 1 .. n /\ n \in 1 .. n
    BY <1>6, <1>1
  <2>2. Label(q[1]) \in {act, L} /\ Label(q[n]) = L
    BY <2>1, <1>2
  <2> QED BY <2>2, <1>3, <1>5, <1>6 DEF Piece, n
<1> QED BY <1>3, <1>6

LEMMA PlugSeq ==
    ASSUME NEW F, NEW q, NEW act, NEW v, NEW c, PlugsOf(q, act, v, c), q = Block(Plugins(act, v), c) \/ q = Plugins(act, v),
           \A x \in CommandNames : Plug(act, v, x, "none") \in F /\ Plug(act, v, x, c) \in F
    PROVE  q \in Seq(F)
<1> DEFINE n == Len(Commands)
<1>1. n \in Nat /\ DOMAIN q = 1 .. n /\ \A i \in 1 .. n : q[i] \in F
  BY CommandFacts DEF PlugsOf
<1>2. CASE q = Plugins(act, v)
  <2>1. q = [i \in 1 .. n |-> q[i]]
    BY <1>1, <1>2 DEF Plugins
  <2> QED BY <2>1, <1>1
<1>3. CASE q = Block(Plugins(act, v), c)
  <2>1. q = [i \in 1 .. n |-> q[i]]
    BY <1>1, <1>3 DEF Block
  <2> QED BY <2>1, <1>1
<1> QED BY <1>2, <1>3

LEMMA PlugNames ==
    ASSUME NEW q, NEW act, NEW v, NEW c, PlugsOf(q, act, v, c)
    PROVE  /\ act = "plug" => PlugsIn(q) = CommandNames
           /\ act # "plug" => NoPlugs(q)
           /\ act = "unplug" /\ c \in {"none", "plugOld"} => Early(q)
           /\ act = "plug" /\ c = "unplugNew" => PlugsFirst(q)
<1> DEFINE n == Len(q)
<1>6. n \in Nat /\ n = Len(Commands) /\ DOMAIN q = 1 .. n
      /\ \A i \in 1 .. n : q[i] = Plug(act, v, Commands[i], IF i = n THEN c ELSE "none")
  BY CommandFacts DEF PlugsOf
<1> HIDE DEF n
<1>1. n \in Nat /\ n = Len(Commands) /\ DOMAIN q = 1 .. n
      /\ \A i \in 1 .. n : q[i].act = act /\ q[i].cmd = Commands[i] /\ q[i].undo = IF i = n THEN c ELSE "none"
  BY <1>6 DEF Plug
<1>2. act = "plug" => PlugsIn(q) = CommandNames
  BY <1>1, CommandFacts DEF PlugsIn
<1>3. act # "plug" => NoPlugs(q)
  BY <1>1 DEF NoPlugs
<1>4. act = "unplug" /\ c \in {"none", "plugOld"} => Early(q)
  BY <1>1 DEF Early, Label, Ending
<1>5. act = "plug" /\ c = "unplugNew" => PlugsFirst(q)
  <2> SUFFICES ASSUME act = "plug", c = "unplugNew", NEW i \in 1 .. n, NEW k \in 1 .. n, i < k PROVE Label(q[i]) \notin Ending
    BY <1>1 DEF PlugsFirst
  <2>1. i # n
    BY <1>1
  <2> QED BY <2>1, <1>1 DEF Label, Ending
<1> QED BY <1>2, <1>3, <1>4, <1>5

LEMMA FittingStep ==
    ASSUME NEW j, NEW a \in Acts, NEW v \in VersionOrNone, NEW c \in Callbacks \cup {"none"}, <<a, c>> \in Undo(j),
           a \in {"pull", "script", "yang", "register", "fast", "warm", "update", "plug", "record"} => v = j.new,
           a = "rmi" => v = j.old
    PROVE  /\ Last(a, v, c) \in Fitting(j)
           /\ c = "none" => Do(a, v) \in Fitting(j)
           /\ \A x \in CommandNames : Plug(a, v, x, c) \in Fitting(j)
  BY DEF Fitting, Step, Last, Do, Plug

LEMMA Labels ==
    ASSUME NEW a, NEW v
    PROVE  Label(Do(a, v)) = a /\ Label(Last(a, v, "stopNew")) = "awaitNew"
  BY DEF Label, Do, Last

LEMMA PlugLabel ==
    ASSUME NEW a, NEW v, NEW x
    PROVE  /\ Label(Plug(a, v, x, "none")) = a
           /\ Label(Plug(a, v, x, "unplugNew")) = "plugLast"
           /\ Label(Plug(a, v, x, "plugOld")) = "unplugLast"
  BY DEF Label, Plug

LEMMA UndoActs ==
    ASSUME NEW j
    PROVE  Undo(j) \subseteq Acts \X (Callbacks \cup {"none"})
<1>1. CommitUndo \subseteq Acts \X (Callbacks \cup {"none"})
  BY DEF CommitUndo, Acts
<1>2. InstallUndo \subseteq Acts \X (Callbacks \cup {"none"})
  BY <1>1 DEF InstallUndo, Acts, Callbacks
<1>3. UpgradeUndo \subseteq Acts \X (Callbacks \cup {"none"})
  BY <1>1 DEF UpgradeUndo, Acts, Callbacks
<1>4. RemoveUndo \subseteq Acts \X (Callbacks \cup {"none"})
  BY <1>1 DEF RemoveUndo, Acts
<1> QED BY <1>1, <1>2, <1>3, <1>4 DEF Undo

LEMMA LastLabel ==
    ASSUME NEW a, NEW v, NEW c, c \notin {"stopNew", "unplugNew", "plugOld"}
    PROVE  Label(Last(a, v, c)) = a
  BY DEF Label, Last

LEMMA TwoAndOne ==
    ASSUME NEW F, NEW p \in Seq(F), NEW r \in Seq(F), Len(p) = 2, Len(r) = 1
    PROVE  p \o r = <<p[1], p[2], r[1]>>
<1> DEFINE q == p \o r
<1>1. /\ q \in Seq(F) /\ Len(q) = Len(p) + Len(r)
      /\ \A i \in 1 .. Len(p) : q[i] = p[i]
      /\ \A i \in 1 .. Len(r) : q[Len(p) + i] = r[i]
  BY ConcatFacts
<1> HIDE DEF q
<1>2. Len(q) = 3 /\ q[1] = p[1] /\ q[2] = p[2] /\ q[3] = r[1]
  <2>1. 1 \in 1 .. Len(p) /\ 2 \in 1 .. Len(p) /\ 1 \in 1 .. Len(r) /\ Len(p) + 1 = 3
    OBVIOUS
  <2> QED BY <1>1, <2>1
<1>3. q = [i \in 1 .. 3 |-> q[i]]
  BY <1>1, <1>2
<1>4. q = <<p[1], p[2], r[1]>>
  BY <1>2, <1>3
<1> QED BY <1>4 DEF q

LEMMA CreateSteps ==
    ASSUME NEW v
    PROVE  /\ Create(v, TRUE) = <<Do("script", v), Do("yang", v), Do("register", v)>>
           /\ Create(v, FALSE) = <<Do("script", v), Do("yang", v)>>
           /\ Remove(v, TRUE) = <<Do("noscript", v), Do("noyang", v), Do("deregister", v)>>
           /\ Remove(v, FALSE) = <<Do("noscript", v), Do("noyang", v)>>
<1>1. ASSUME NEW x, NEW y, NEW z PROVE <<x, y>> \o <<z>> = <<x, y, z>>
  <2>1. <<x, y>> \in Seq({x, y, z}) /\ <<z>> \in Seq({x, y, z}) /\ Len(<<x, y>>) = 2 /\ Len(<<z>>) = 1
        /\ <<x, y>>[1] = x /\ <<x, y>>[2] = y /\ <<z>>[1] = z
    OBVIOUS
  <2> QED BY <2>1, TwoAndOne
<1>2. ASSUME NEW x, NEW y PROVE <<x, y>> \o <<>> = <<x, y>>
  OBVIOUS
<1> QED BY <1>1, <1>2 DEF Create, Remove

\* The parts that are in programs of more than one kind.
LEMMA CommitParts ==
    ASSUME NEW j \in Job
    PROVE  /\ Part(j, Commit, {"truncate"}, {"dump"}) /\ NoPlugs(Commit)
           /\ Part(j, CommitAll(j), {"truncate"}, {"dump"}) /\ NoPlugs(CommitAll(j))
<1>1. CommitOrder \subseteq Order(j) /\ CommitUndo \subseteq Undo(j)
  BY DEF Order, InstallOrder, UpgradeOrder, RemoveOrder, Undo, InstallUndo, UpgradeUndo, RemoveUndo
<1>2. Do("truncate", NoVersion) \in Fitting(j) /\ Do("dump", NoVersion) \in Fitting(j)
  <2>1. \A a \in {"truncate", "dump"} : <<a, "none">> \in Undo(j) /\ a \in Acts
    BY <1>1 DEF CommitUndo, Acts
  <2>2. NoVersion \in VersionOrNone
    BY DEF VersionOrNone
  <2> QED BY <2>1, <2>2, FittingStep
<1>3. Part(j, Commit, {"truncate"}, {"dump"})
  <2> DEFINE t == Do("truncate", NoVersion)
             u == Do("dump", NoVersion)
             A == {"truncate"}
             Z == {"dump"}
  <2>1. Label(t) = "truncate" /\ Label(u) = "dump"
    BY Labels
  <2>2. <<Label(t), Label(u)>> \in Order(j) /\ Label(t) \in A /\ Label(u) \in Z
    BY <2>1, <1>1 DEF CommitOrder
  <2>3. t \in Fitting(j) /\ u \in Fitting(j)
    BY <1>2
  <2> HIDE DEF t, u, A, Z
  <2>4. Part(j, <<t, u>>, A, Z)
    BY <2>2, <2>3, PieceTwo DEF Part
  <2> QED BY <2>4 DEF Commit, t, u, A, Z
<1>4. NoPlugs(Commit) /\ Commit \in Seq(Fitting(j))
  BY <1>2 DEF NoPlugs, Commit, Do
<1>5. Part(j, Commit \o Commit, {"truncate"}, {"dump"})
  <2>1. {"dump"} \X {"truncate"} \subseteq Order(j)
    BY <1>1 DEF CommitOrder
  <2> QED BY <2>1, <1>3, ConcatPieces DEF Part
<1>6. NoPlugs(Commit \o Commit)
  BY <1>4, ConcatPlugs
<1>7. CommitAll(j) = Commit \/ CommitAll(j) = Commit \o Commit
  BY <1>3 DEF CommitAll, Part, Piece
<1> QED BY <1>3, <1>4, <1>5, <1>6, <1>7

\* A block of steps other than plugins.
LEMMA BlockOne ==
    ASSUME NEW j, NEW a, NEW v, NEW c, NEW L, Last(a, v, c) \in Fitting(j), Label(Last(a, v, c)) = L, L \notin Ending, a # "plug"
    PROVE  /\ Part(j, Block(<<Do(a, v)>>, c), {L}, {L}) /\ NoPlugs(Block(<<Do(a, v)>>, c)) /\ Early(Block(<<Do(a, v)>>, c))
<1> DEFINE t == Last(a, v, c)
           q == <<t>>
<1>1. Block(<<Do(a, v)>>, c) = q
  BY BlockOfOne
<1>2. t.act = a /\ t \in Fitting(j) /\ Label(t) = L
  BY DEF Last
<1>3. DOMAIN q = {1} /\ q[1] = t
  OBVIOUS
<1> HIDE DEF t
<1>4. Part(j, q, {L}, {L})
  BY <1>2, PieceOne DEF Part
<1> HIDE DEF q
<1>5. NoPlugs(q) /\ Early(q)
  BY <1>2, <1>3 DEF NoPlugs, Early
<1> QED BY <1>1, <1>4, <1>5

LEMMA BlockTwo ==
    ASSUME NEW j, NEW a, NEW b, NEW v, NEW c, NEW L, Do(a, v) \in Fitting(j), Last(b, v, c) \in Fitting(j),
           Label(Last(b, v, c)) = L, <<a, L>> \in Order(j), {a, L} \cap Ending = {}, a # "plug", b # "plug"
    PROVE  LET q == Block(<<Do(a, v), Do(b, v)>>, c) IN Part(j, q, {a}, {L}) /\ NoPlugs(q) /\ Early(q)
<1> DEFINE t == Do(a, v)
           u == Last(b, v, c)
           q == <<t, u>>
<1>1. Block(<<Do(a, v), Do(b, v)>>, c) = q
  BY BlockOfTwo
<1>2. t.act = a /\ u.act = b /\ t \in Fitting(j) /\ u \in Fitting(j) /\ Label(t) = a /\ Label(u) = L
  BY Labels DEF Last, Do
<1>3. DOMAIN q = {1, 2} /\ q[1] = t /\ q[2] = u
  OBVIOUS
<1> HIDE DEF t, u
<1>4. Part(j, q, {a}, {L})
  BY <1>2, PieceTwo DEF Part
<1> HIDE DEF q
<1>5. NoPlugs(q) /\ Early(q)
  BY <1>2, <1>3 DEF NoPlugs, Early
<1> QED BY <1>1, <1>4, <1>5

LEMMA BlockThree ==
    ASSUME NEW j, NEW a, NEW b, NEW d, NEW v, NEW c, NEW L,
           Do(a, v) \in Fitting(j), Do(b, v) \in Fitting(j), Last(d, v, c) \in Fitting(j),
           Label(Last(d, v, c)) = L, <<a, b>> \in Order(j), <<b, L>> \in Order(j), {a, b, L} \cap Ending = {},
           a # "plug", b # "plug", d # "plug"
    PROVE  LET q == Block(<<Do(a, v), Do(b, v), Do(d, v)>>, c) IN Part(j, q, {a}, {L}) /\ NoPlugs(q) /\ Early(q)
<1> DEFINE t == Do(a, v)
           u == Do(b, v)
           w == Last(d, v, c)
           q == <<t, u, w>>
<1>1. Block(<<Do(a, v), Do(b, v), Do(d, v)>>, c) = q
  BY BlockOfThree
<1>2. t.act = a /\ u.act = b /\ w.act = d /\ t \in Fitting(j) /\ u \in Fitting(j) /\ w \in Fitting(j)
      /\ Label(t) = a /\ Label(u) = b /\ Label(w) = L
  BY Labels DEF Last, Do
<1>3. DOMAIN q = {1, 2, 3} /\ q[1] = t /\ q[2] = u /\ q[3] = w
  OBVIOUS
<1> HIDE DEF t, u, w
<1>4. Part(j, q, {a}, {L})
  BY <1>2, PieceThree DEF Part
<1> HIDE DEF q
<1>5. NoPlugs(q) /\ Early(q)
  BY <1>2, <1>3 DEF NoPlugs, Early
<1> QED BY <1>1, <1>4, <1>5

\* The blocks of plugins.
PlugsPart(j) == IF j.skip THEN <<>> ELSE Block(Plugins("plug", j.new), "unplugNew")

LEMMA PlugBlock ==
    ASSUME NEW j, j.new \in VersionOrNone, {<<"plug", "none">>, <<"plug", "unplugNew">>} \subseteq Undo(j),
           {<<"plug", "plug">>, <<"plug", "plugLast">>} \subseteq Order(j)
    PROVE  /\ PlugsPart(j) \in Seq(Fitting(j))
           /\ PlugsPart(j) = <<>> \/ Part(j, PlugsPart(j), {"plug", "plugLast"}, {"plugLast"})
           /\ PlugsFirst(PlugsPart(j)) /\ (~j.skip => PlugsIn(PlugsPart(j)) = CommandNames)
<1> DEFINE v == j.new
           q == Block(Plugins("plug", v), "unplugNew")
<1>1. PlugsOf(q, "plug", v, "unplugNew")
  BY PluginSteps
<1>2. \A x \in CommandNames : Plug("plug", v, x, "none") \in Fitting(j) /\ Plug("plug", v, x, "unplugNew") \in Fitting(j)
  BY FittingStep DEF Acts, Callbacks
<1>3. q \in Seq(Fitting(j))
  BY <1>1, <1>2, PlugSeq
<1> HIDE DEF q
<1>7. \A x \in CommandNames : Label(Plug("plug", v, x, "none")) = "plug" /\ Label(Plug("plug", v, x, "unplugNew")) = "plugLast"
  BY PlugLabel
<1>4. q = <<>> \/ Part(j, q, {"plug", "plugLast"}, {"plugLast"})
  <2> DEFINE act == "plug"
             L == "plugLast"
             c == "unplugNew"
             F == Fitting(j)
             R == Order(j)
  <2>1. <<act, act>> \in R /\ <<act, L>> \in R /\ q \in Seq(F) /\ PlugsOf(q, act, v, c)
    BY <1>1, <1>3
  <2>2. \A x \in CommandNames : Label(Plug(act, v, x, "none")) = act /\ Label(Plug(act, v, x, c)) = L
    BY <1>7
  <2> HIDE DEF act, L, c, F, R
  <2>3. q = <<>> \/ Piece(q, F, R, {act, L}, {L})
    BY <2>1, <2>2, PlugPiece
  <2> QED BY <2>3 DEF Part, act, L, F, R
<1>5. PlugsFirst(q) /\ PlugsIn(q) = CommandNames
  BY <1>1, PlugNames
<1>6. PlugsFirst(<<>>) /\ <<>> \in Seq(Fitting(j))
  BY DEF PlugsFirst
<1> QED BY <1>3, <1>4, <1>5, <1>6 DEF q, PlugsPart

\* Before the plugins, with them, and after them.
Prefix(j, q, A, Z) == Part(j, q, A, Z) /\ NoPlugs(q) /\ Early(q)
Plugged(j, q, A, Z, ps) == Part(j, q, A, Z) /\ PlugsFirst(q) /\ PlugsIn(q) = ps

LEMMA PrefixConcat ==
    ASSUME NEW j, NEW A, NEW B, NEW C, NEW Z, NEW p, NEW q, Prefix(j, p, A, B), Prefix(j, q, C, Z), B \X C \subseteq Order(j)
    PROVE  Prefix(j, p \o q, A, Z)
<1>1. Part(j, p \o q, A, Z)
  BY ConcatPieces DEF Prefix, Part
<1>2. p \in Seq(Fitting(j)) /\ q \in Seq(Fitting(j))
  BY DEF Prefix, Part, Piece
<1>3. NoPlugs(p \o q) /\ Early(p \o q)
  BY <1>2, ConcatPlugs DEF Prefix
<1> QED BY <1>1, <1>3 DEF Prefix

LEMMA PrefixPlugs ==
    ASSUME NEW j, NEW A, NEW B, NEW C, NEW Z, NEW p, NEW q, Prefix(j, p, A, B),
           q \in Seq(Fitting(j)), q = <<>> \/ Part(j, q, C, Z), PlugsFirst(q), B \X C \subseteq Order(j)
    PROVE  Plugged(j, p \o q, A, B \cup Z, PlugsIn(q))
<1>1. Part(j, p \o q, A, B \cup Z)
  BY ConcatMaybe DEF Prefix, Part
<1>2. p \in Seq(Fitting(j))
  BY DEF Prefix, Part, Piece
<1>3. PlugsFirst(p \o q) /\ PlugsIn(p \o q) = PlugsIn(p) \cup PlugsIn(q)
  BY <1>2, ConcatPlugs DEF Prefix
<1>4. PlugsIn(p) = {}
  BY DEF Prefix, NoPlugs, PlugsIn
<1> QED BY <1>1, <1>3, <1>4 DEF Plugged

LEMMA PluggedConcat ==
    ASSUME NEW j, NEW A, NEW B, NEW C, NEW Z, NEW p, NEW q, NEW ps, Plugged(j, p, A, B, ps), Part(j, q, C, Z), NoPlugs(q),
           B \X C \subseteq Order(j)
    PROVE  Plugged(j, p \o q, A, Z, ps)
<1>1. Part(j, p \o q, A, Z)
  BY ConcatPieces DEF Plugged, Part
<1>2. p \in Seq(Fitting(j)) /\ q \in Seq(Fitting(j))
  BY DEF Plugged, Part, Piece
<1>3. PlugsFirst(p \o q) /\ PlugsIn(p \o q) = PlugsIn(p) \cup PlugsIn(q)
  BY <1>2, ConcatPlugs DEF Plugged
<1>4. PlugsIn(q) = {}
  BY DEF NoPlugs, PlugsIn
<1> QED BY <1>1, <1>3, <1>4 DEF Plugged

LEMMA PluggedProgram ==
    ASSUME NEW j, NEW A, NEW q, NEW ps, Plugged(j, q, A, {"dump"}, ps)
    PROVE  Program(j, q) /\ q # <<>> /\ Label(Head(q)) \in A /\ PlugsIn(q) = ps
  BY DEF Plugged, Part, Piece, Program

LEMMA TailParts ==
    ASSUME NEW j \in Job, Installs(j) \/ Upgrades(j)
    PROVE  LET q == <<Do("popAll", j.new), Do("record", j.new)>> IN Part(j, q, {"popAll"}, {"record"}) /\ NoPlugs(q)
<1> DEFINE t == Do("popAll", j.new)
           u == Do("record", j.new)
           q == <<t, u>>
<1>1. t.act = "popAll" /\ u.act = "record" /\ Label(t) = "popAll" /\ Label(u) = "record"
  BY Labels DEF Do
<1>2. t \in Fitting(j) /\ u \in Fitting(j)
  <2>1. {<<"popAll", "none">>, <<"record", "none">>} \subseteq Undo(j)
    BY DEF Undo, Installs, Upgrades, InstallUndo, UpgradeUndo, CommitUndo
  <2>2. j.new \in VersionOrNone
    BY DEF Job
  <2> QED BY <2>1, <2>2, FittingStep DEF Acts
<1>3. <<"popAll", "record">> \in Order(j)
  BY DEF Order, Installs, Upgrades, InstallOrder, UpgradeOrder, CommitOrder
<1>4. DOMAIN q = {1, 2} /\ q[1] = t /\ q[2] = u
  OBVIOUS
<1> HIDE DEF t, u
<1>5. Part(j, q, {"popAll"}, {"record"})
  BY <1>1, <1>2, <1>3, PieceTwo DEF Part
<1> HIDE DEF q
<1>6. NoPlugs(q)
  BY <1>1, <1>4 DEF NoPlugs
<1> QED BY <1>5, <1>6 DEF q, t, u

LEMMA InstallIsProgram ==
    ASSUME NEW j \in Job, Installs(j)
    PROVE  LET q == InstallProgram(j)
           IN  Program(j, q) /\ q # <<>> /\ Label(Head(q)) = "pull" /\ (~j.skip => PlugsIn(q) = CommandNames)
<1> DEFINE v == j.new
           P1 == Block(<<Do("pull", v)>>, "uninstallImage")
           P2 == Block(Create(v, TRUE), "removeService")
           P3 == Block(Orders(v), "ordersBefore")
           P4 == PlugsPart(j)
           P5 == <<Do("popAll", v), Do("record", v)>>
           P6 == CommitAll(j)
<1>1. InstallProgram(j) = P1 \o P2 \o P3 \o P4 \o P5 \o P6
  BY DEF InstallProgram, PlugsPart
<1>2. v = j.new /\ v \in VersionOrNone /\ Order(j) = InstallOrder /\ Undo(j) = InstallUndo
  BY DEF Job, Order, Undo
<1> HIDE DEF v
<1>3. ASSUME NEW a \in {"pull", "script", "yang", "register", "fast", "warm"}, NEW c, <<a, c>> \in InstallUndo
      PROVE  Last(a, v, c) \in Fitting(j) /\ (c = "none" => Do(a, v) \in Fitting(j))
  <2>1. <<a, c>> \in Acts \X (Callbacks \cup {"none"})
    BY <1>2, <1>3, UndoActs
  <2>2. a \in Acts /\ c \in Callbacks \cup {"none"}
    BY <2>1
  <2> QED BY <2>2, <1>2, <1>3, FittingStep
<1>20. {<<"pull", "uninstallImage">>, <<"script", "none">>, <<"yang", "none">>, <<"register", "removeService">>,
        <<"fast", "none">>, <<"warm", "ordersBefore">>} \subseteq InstallUndo
  BY DEF InstallUndo
<1>4. Prefix(j, P1, {"pull"}, {"pull"})
  <2>1. Last("pull", v, "uninstallImage") \in Fitting(j)
    BY <1>3, <1>20
  <2>2. Label(Last("pull", v, "uninstallImage")) = "pull"
    BY LastLabel
  <2> QED BY <2>1, <2>2, BlockOne DEF Prefix, Ending
<1>5. Prefix(j, P2, {"script"}, {"register"})
  <2>1. Do("script", v) \in Fitting(j) /\ Do("yang", v) \in Fitting(j) /\ Last("register", v, "removeService") \in Fitting(j)
    BY <1>3, <1>20
  <2>2. Label(Last("register", v, "removeService")) = "register"
    BY LastLabel
  <2>3. Create(v, TRUE) = <<Do("script", v), Do("yang", v), Do("register", v)>>
    BY CreateSteps
  <2>4. <<"script", "yang">> \in Order(j) /\ <<"yang", "register">> \in Order(j)
    BY <1>2 DEF InstallOrder
  <2> QED BY <2>1, <2>2, <2>3, <2>4, BlockThree DEF Prefix, Ending
<1>6. Prefix(j, P3, {"fast"}, {"warm"})
  <2>1. Do("fast", v) \in Fitting(j) /\ Last("warm", v, "ordersBefore") \in Fitting(j)
    BY <1>3, <1>20
  <2>2. Label(Last("warm", v, "ordersBefore")) = "warm"
    BY LastLabel
  <2>3. <<"fast", "warm">> \in Order(j)
    BY <1>2 DEF InstallOrder
  <2> QED BY <2>1, <2>2, <2>3, BlockTwo DEF Prefix, Ending, Orders
<1>7. P4 \in Seq(Fitting(j)) /\ (P4 = <<>> \/ Part(j, P4, {"plug", "plugLast"}, {"plugLast"}))
      /\ PlugsFirst(P4) /\ (~j.skip => PlugsIn(P4) = CommandNames)
  <2>1. {<<"plug", "none">>, <<"plug", "unplugNew">>} \subseteq Undo(j)
        /\ {<<"plug", "plug">>, <<"plug", "plugLast">>} \subseteq Order(j)
    BY <1>2 DEF InstallUndo, InstallOrder
  <2>2. j.new \in VersionOrNone
    BY <1>2
  <2> QED BY <2>1, <2>2, PlugBlock
<1>8. Part(j, P5, {"popAll"}, {"record"}) /\ NoPlugs(P5) /\ Part(j, P6, {"truncate"}, {"dump"}) /\ NoPlugs(P6)
  BY TailParts, CommitParts DEF v
<1> HIDE DEF P1, P2, P3, P4, P5, P6, v
<1>9. Prefix(j, P1 \o P2, {"pull"}, {"register"})
  <2>1. {"pull"} \X {"script"} \subseteq Order(j)
    BY <1>2 DEF InstallOrder
  <2> QED BY <2>1, <1>4, <1>5, PrefixConcat
<1>10. Prefix(j, P1 \o P2 \o P3, {"pull"}, {"warm"})
  <2>1. {"register"} \X {"fast"} \subseteq Order(j)
    BY <1>2 DEF InstallOrder
  <2> QED BY <2>1, <1>6, <1>9, PrefixConcat
<1>11. Plugged(j, P1 \o P2 \o P3 \o P4, {"pull"}, {"warm", "plugLast"}, PlugsIn(P4))
  <2>1. {"warm"} \X {"plug", "plugLast"} \subseteq Order(j)
    BY <1>2 DEF InstallOrder
  <2>2. {"warm"} \cup {"plugLast"} = {"warm", "plugLast"}
    OBVIOUS
  <2>3. Plugged(j, (P1 \o P2 \o P3) \o P4, {"pull"}, {"warm"} \cup {"plugLast"}, PlugsIn(P4))
    BY <2>1, <1>7, <1>10, PrefixPlugs
  <2> QED BY <2>2, <2>3
<1>12. Plugged(j, P1 \o P2 \o P3 \o P4 \o P5, {"pull"}, {"record"}, PlugsIn(P4))
  <2>1. {"warm", "plugLast"} \X {"popAll"} \subseteq Order(j)
    BY <1>2 DEF InstallOrder
  <2> QED BY <2>1, <1>8, <1>11, PluggedConcat
<1>13. Plugged(j, P1 \o P2 \o P3 \o P4 \o P5 \o P6, {"pull"}, {"dump"}, PlugsIn(P4))
  <2>1. {"record"} \X {"truncate"} \subseteq Order(j)
    BY <1>2 DEF InstallOrder, CommitOrder
  <2> QED BY <2>1, <1>8, <1>12, PluggedConcat
<1>14. Program(j, InstallProgram(j)) /\ InstallProgram(j) # <<>> /\ Label(Head(InstallProgram(j))) \in {"pull"}
       /\ PlugsIn(InstallProgram(j)) = PlugsIn(P4)
  BY <1>1, <1>13, PluggedProgram
<1> QED BY <1>7, <1>14

\* Steps without a callback.
LEMMA StepsTwo ==
    ASSUME NEW j, NEW a, NEW b, NEW v, NEW w, Do(a, v) \in Fitting(j), Do(b, w) \in Fitting(j), <<a, b>> \in Order(j),
           a # "plug", b # "plug"
    PROVE  Part(j, <<Do(a, v), Do(b, w)>>, {a}, {b}) /\ NoPlugs(<<Do(a, v), Do(b, w)>>)
<1> DEFINE t == Do(a, v)
           u == Do(b, w)
           q == <<t, u>>
<1>1. t.act = a /\ u.act = b /\ t \in Fitting(j) /\ u \in Fitting(j) /\ Label(t) = a /\ Label(u) = b
  BY Labels DEF Do
<1>2. DOMAIN q = {1, 2} /\ q[1] = t /\ q[2] = u
  OBVIOUS
<1> HIDE DEF t, u
<1>3. Part(j, q, {a}, {b})
  BY <1>1, PieceTwo DEF Part
<1> HIDE DEF q
<1>4. NoPlugs(q)
  BY <1>1, <1>2 DEF NoPlugs
<1> QED BY <1>3, <1>4 DEF q, t, u

LEMMA StepsThree ==
    ASSUME NEW j, NEW a, NEW b, NEW d, NEW v, Do(a, v) \in Fitting(j), Do(b, v) \in Fitting(j), Do(d, v) \in Fitting(j),
           <<a, b>> \in Order(j), <<b, d>> \in Order(j), a # "plug", b # "plug", d # "plug"
    PROVE  Part(j, <<Do(a, v), Do(b, v), Do(d, v)>>, {a}, {d}) /\ NoPlugs(<<Do(a, v), Do(b, v), Do(d, v)>>)
<1> DEFINE t == Do(a, v)
           u == Do(b, v)
           w == Do(d, v)
           q == <<t, u, w>>
<1>1. t.act = a /\ u.act = b /\ w.act = d /\ t \in Fitting(j) /\ u \in Fitting(j) /\ w \in Fitting(j)
      /\ Label(t) = a /\ Label(u) = b /\ Label(w) = d
  BY Labels DEF Do
<1>2. DOMAIN q = {1, 2, 3} /\ q[1] = t /\ q[2] = u /\ q[3] = w
  OBVIOUS
<1> HIDE DEF t, u, w
<1>3. Part(j, q, {a}, {d})
  BY <1>1, PieceThree DEF Part
<1> HIDE DEF q
<1>4. NoPlugs(q)
  BY <1>1, <1>2 DEF NoPlugs
<1> QED BY <1>3, <1>4 DEF q, t, u, w

LEMMA NoPlugsFirst ==
    ASSUME NEW j, NEW A, NEW Z, NEW q, Part(j, q, A, Z), NoPlugs(q)
    PROVE  Plugged(j, q, A, Z, {})
  BY DEF Plugged, NoPlugs, PlugsIn, PlugsFirst

LEMMA CommitIsProgram ==
    ASSUME NEW j \in Job
    PROVE  /\ Program(j, Commit) /\ Commit # <<>> /\ Label(Head(Commit)) = "truncate"
           /\ Program(j, <<>>)
<1>1. Plugged(j, Commit, {"truncate"}, {"dump"}, {})
  BY CommitParts, NoPlugsFirst
<1>2. Program(j, Commit) /\ Commit # <<>> /\ Label(Head(Commit)) \in {"truncate"}
  BY <1>1, PluggedProgram
<1>3. Program(j, <<>>)
  BY DEF Program, InOrder, PlugsFirst
<1> QED BY <1>2, <1>3

LEMMA UninstallIsProgram ==
    ASSUME NEW j \in Job, Removes(j)
    PROVE  LET q == UninstallProgram(j) IN Program(j, q) /\ q # <<>> /\ Label(Head(q)) = "stop"
<1> DEFINE v == j.old
           P1 == Stop(v)
           P2 == Plugins("unplug", v)
           P3 == Remove(v, TRUE)
           P4 == Orders(NoVersion)
           P5 == <<Do("rmi", v), Do("record", NoVersion)>>
<1>1. UninstallProgram(j) = P1 \o P2 \o P3 \o P4 \o P5 \o Commit
  BY DEF UninstallProgram
<1>2. v = j.old /\ v \in VersionOrNone /\ NoVersion \in VersionOrNone /\ j.new = NoVersion
  BY DEF Job, Removes, VersionOrNone
<1>3. Order(j) = RemoveOrder /\ Undo(j) = RemoveUndo
  BY DEF Removes, Installs, Upgrades, Order, Undo
<1> HIDE DEF v
<1>4. \A a \in {"stop", "await", "unplug", "noscript", "noyang", "deregister", "fast", "warm", "rmi", "record"} :
        a \in Acts /\ <<a, "none">> \in Undo(j)
  BY <1>3 DEF RemoveUndo, CommitUndo, Acts
<1>5. /\ \A a \in {"stop", "await", "noscript", "noyang", "deregister", "rmi"} : Do(a, v) \in Fitting(j)
      /\ \A x \in CommandNames : Plug("unplug", v, x, "none") \in Fitting(j)
      /\ \A a \in {"fast", "warm", "record"} : Do(a, NoVersion) \in Fitting(j)
  BY <1>2, <1>4, FittingStep
<1>6. Part(j, P1, {"stop"}, {"await"}) /\ NoPlugs(P1)
  <2>1. <<"stop", "await">> \in Order(j)
    BY <1>3 DEF RemoveOrder
  <2> QED BY <2>1, <1>5, StepsTwo DEF Stop
<1>7. P2 \in Seq(Fitting(j)) /\ (P2 = <<>> \/ Part(j, P2, {"unplug"}, {"unplug"})) /\ NoPlugs(P2)
  <2>1. PlugsOf(P2, "unplug", v, "none")
    BY PluginSteps
  <2>2. P2 \in Seq(Fitting(j))
    BY <2>1, <1>5, PlugSeq
  <2>3. NoPlugs(P2)
    BY <2>1, PlugNames
  <2>4. P2 = <<>> \/ Part(j, P2, {"unplug"}, {"unplug"})
    <3> DEFINE act == "unplug"
               c == "none"
               F == Fitting(j)
               R == Order(j)
    <3>1. <<act, act>> \in R
      BY <1>3 DEF RemoveOrder
    <3>2. \A x \in CommandNames : Label(Plug(act, v, x, "none")) = act /\ Label(Plug(act, v, x, c)) = act
      BY PlugLabel
    <3>3. PlugsOf(P2, act, v, c) /\ P2 \in Seq(F)
      BY <2>1, <2>2
    <3> HIDE DEF act, c, F, R, P2
    <3>4. P2 = <<>> \/ Piece(P2, F, R, {act, act}, {act})
      BY <3>1, <3>2, <3>3, PlugPiece
    <3> QED BY <3>4 DEF Part, act, F, R
  <2> QED BY <2>2, <2>3, <2>4
<1>8. Part(j, P3, {"noscript"}, {"deregister"}) /\ NoPlugs(P3)
  <2>1. <<"noscript", "noyang">> \in Order(j) /\ <<"noyang", "deregister">> \in Order(j)
    BY <1>3 DEF RemoveOrder
  <2>2. P3 = <<Do("noscript", v), Do("noyang", v), Do("deregister", v)>>
    BY CreateSteps
  <2>3. Do("noscript", v) \in Fitting(j) /\ Do("noyang", v) \in Fitting(j) /\ Do("deregister", v) \in Fitting(j)
    BY <1>5
  <2> DEFINE q == <<Do("noscript", v), Do("noyang", v), Do("deregister", v)>>
  <2>4. Part(j, q, {"noscript"}, {"deregister"}) /\ NoPlugs(q)
    BY <2>1, <2>3, StepsThree
  <2> HIDE DEF q
  <2>5. P3 = q
    BY <2>2 DEF q
  <2> QED BY <2>4, <2>5
<1>9. Part(j, P4, {"fast"}, {"warm"}) /\ NoPlugs(P4)
  <2>1. <<"fast", "warm">> \in Order(j)
    BY <1>3 DEF RemoveOrder
  <2> QED BY <2>1, <1>5, StepsTwo DEF Orders
<1>10. Part(j, P5, {"rmi"}, {"record"}) /\ NoPlugs(P5)
  <2>1. <<"rmi", "record">> \in Order(j)
    BY <1>3 DEF RemoveOrder
  <2> QED BY <2>1, <1>5, StepsTwo
<1>11. Part(j, Commit, {"truncate"}, {"dump"}) /\ NoPlugs(Commit)
  BY CommitParts
<1> HIDE DEF P1, P2, P3, P4, P5
<1>12. Part(j, P1 \o P2, {"stop"}, {"await", "unplug"}) /\ NoPlugs(P1 \o P2)
  <2>1. {"await"} \X {"unplug"} \subseteq Order(j)
    BY <1>3 DEF RemoveOrder
  <2>2. Part(j, P1 \o P2, {"stop"}, {"await"} \cup {"unplug"})
    BY <2>1, <1>6, <1>7, ConcatMaybe DEF Part
  <2>3. {"await"} \cup {"unplug"} = {"await", "unplug"}
    OBVIOUS
  <2>4. P1 \in Seq(Fitting(j))
    BY <1>6 DEF Part, Piece
  <2>5. NoPlugs(P1 \o P2)
    BY <2>4, <1>6, <1>7, ConcatPlugs
  <2> QED BY <2>2, <2>3, <2>5
<1>13. Plugged(j, P1 \o P2, {"stop"}, {"await", "unplug"}, {})
  BY <1>12, NoPlugsFirst
<1>14. Plugged(j, P1 \o P2 \o P3, {"stop"}, {"deregister"}, {})
  <2>1. {"await", "unplug"} \X {"noscript"} \subseteq Order(j)
    BY <1>3 DEF RemoveOrder
  <2> QED BY <2>1, <1>8, <1>13, PluggedConcat
<1>15. Plugged(j, P1 \o P2 \o P3 \o P4, {"stop"}, {"warm"}, {})
  <2>1. {"deregister"} \X {"fast"} \subseteq Order(j)
    BY <1>3 DEF RemoveOrder
  <2> QED BY <2>1, <1>9, <1>14, PluggedConcat
<1>16. Plugged(j, P1 \o P2 \o P3 \o P4 \o P5, {"stop"}, {"record"}, {})
  <2>1. {"warm"} \X {"rmi"} \subseteq Order(j)
    BY <1>3 DEF RemoveOrder
  <2> QED BY <2>1, <1>10, <1>15, PluggedConcat
<1>17. Plugged(j, P1 \o P2 \o P3 \o P4 \o P5 \o Commit, {"stop"}, {"dump"}, {})
  <2>1. {"record"} \X {"truncate"} \subseteq Order(j)
    BY <1>3 DEF RemoveOrder, CommitOrder
  <2> QED BY <2>1, <1>11, <1>16, PluggedConcat
<1>18. Program(j, UninstallProgram(j)) /\ UninstallProgram(j) # <<>> /\ Label(Head(UninstallProgram(j))) \in {"stop"}
  BY <1>1, <1>17, PluggedProgram
<1> QED BY <1>18

\* A part that may be empty comes first.
LEMMA MaybeConcat ==
    ASSUME NEW j, NEW A, NEW B, NEW C, NEW Z, NEW p, NEW q, p = <<>> \/ Prefix(j, p, A, B), Prefix(j, q, C, Z), B \X C \subseteq Order(j)
    PROVE  Prefix(j, p \o q, IF p = <<>> THEN C ELSE A, Z)
<1>1. CASE p = <<>>
  <2>1. p \o q = q
    BY <1>1 DEF Prefix, Part, Piece
  <2> QED BY <2>1, <1>1
<1>2. CASE p # <<>>
  BY <1>2, PrefixConcat
<1> QED BY <1>1, <1>2

LEMMA UpgradeFits ==
    ASSUME NEW j \in Job, Upgrades(j)
    PROVE  /\ Order(j) = UpgradeOrder(j.running) /\ Undo(j) = UpgradeUndo /\ j.old \in VersionOrNone /\ j.new \in VersionOrNone
           /\ \A x \in {<<"probe", "none">>, <<"stop", "none">>, <<"await", "startOld">>, <<"noscript", "none">>, <<"noyang", "createOld">>,
                        <<"rmi", "none">>, <<"unplug", "none">>, <<"unplug", "plugOld">>} :
                 /\ Last(x[1], j.old, x[2]) \in Fitting(j) /\ (x[2] = "none" => Do(x[1], j.old) \in Fitting(j))
                 /\ \A y \in CommandNames : Plug(x[1], j.old, y, x[2]) \in Fitting(j)
           /\ \A x \in {<<"pull", "uninstallImage">>, <<"script", "none">>, <<"yang", "removeNew">>, <<"fast", "none">>,
                        <<"warm", "ordersBefore">>, <<"update", "updateBack">>, <<"start", "none">>, <<"await", "stopNew">>,
                        <<"popAll", "none">>, <<"record", "none">>} :
                 Last(x[1], j.new, x[2]) \in Fitting(j) /\ (x[2] = "none" => Do(x[1], j.new) \in Fitting(j))
<1>1. Order(j) = UpgradeOrder(j.running) /\ Undo(j) = UpgradeUndo /\ j.old \in VersionOrNone /\ j.new \in VersionOrNone
  BY DEF Job, Upgrades, Installs, Order, Undo
<1>2. ASSUME NEW a \in {"probe", "stop", "await", "noscript", "noyang", "rmi", "unplug"}, NEW c, <<a, c>> \in UpgradeUndo
      PROVE  /\ Last(a, j.old, c) \in Fitting(j) /\ (c = "none" => Do(a, j.old) \in Fitting(j))
             /\ \A y \in CommandNames : Plug(a, j.old, y, c) \in Fitting(j)
  <2>1. <<a, c>> \in Acts \X (Callbacks \cup {"none"})
    BY <1>1, <1>2, UndoActs
  <2>2. a \in Acts /\ c \in Callbacks \cup {"none"}
    BY <2>1
  <2> QED BY <2>2, <1>1, <1>2, FittingStep
<1>3. ASSUME NEW a \in {"pull", "script", "yang", "fast", "warm", "update", "start", "await", "popAll", "record"}, NEW c, <<a, c>> \in UpgradeUndo
      PROVE  Last(a, j.new, c) \in Fitting(j) /\ (c = "none" => Do(a, j.new) \in Fitting(j))
  <2>1. <<a, c>> \in Acts \X (Callbacks \cup {"none"})
    BY <1>1, <1>3, UndoActs
  <2>2. a \in Acts /\ c \in Callbacks \cup {"none"}
    BY <2>1
  <2> QED BY <2>2, <1>1, <1>3, FittingStep
<1>4. {<<"probe", "none">>, <<"stop", "none">>, <<"await", "startOld">>, <<"noscript", "none">>, <<"noyang", "createOld">>,
       <<"rmi", "none">>, <<"unplug", "none">>, <<"unplug", "plugOld">>} \subseteq UpgradeUndo
  BY DEF UpgradeUndo
<1>5. {<<"pull", "uninstallImage">>, <<"script", "none">>, <<"yang", "removeNew">>, <<"fast", "none">>,
       <<"warm", "ordersBefore">>, <<"update", "updateBack">>, <<"start", "none">>, <<"await", "stopNew">>,
       <<"popAll", "none">>, <<"record", "none">>} \subseteq UpgradeUndo
  BY DEF UpgradeUndo, CommitUndo
<1> QED BY <1>1, <1>2, <1>3, <1>4, <1>5

LEMMA UpgradeIsProgram ==
    ASSUME NEW j \in Job, Upgrades(j)
    PROVE  LET q == UpgradeProgram(j) IN Program(j, q) /\ q # <<>> /\ Label(Head(q)) \in {"unplug", "unplugLast", "pull"}
<1> DEFINE v == j.old
           P1 == Block(Plugins("unplug", v), "plugOld")
           P2 == Block(<<Do("pull", j.new)>>, "uninstallImage")
           P3 == <<Do("probe", v)>>
<1>1. UpgradeProgram(j) = P1 \o P2 \o P3
  BY DEF UpgradeProgram
<1>2. Order(j) = UpgradeOrder(j.running)
  BY UpgradeFits
<1>3. P1 = <<>> \/ Prefix(j, P1, {"unplug", "unplugLast"}, {"unplugLast"})
  <2>1. PlugsOf(P1, "unplug", v, "plugOld")
    BY PluginSteps
  <2>2. \A x \in CommandNames : Plug("unplug", v, x, "none") \in Fitting(j) /\ Plug("unplug", v, x, "plugOld") \in Fitting(j)
    BY UpgradeFits
  <2>3. P1 \in Seq(Fitting(j))
    BY <2>1, <2>2, PlugSeq
  <2>4. NoPlugs(P1) /\ Early(P1)
    BY <2>1, PlugNames
  <2>5. P1 = <<>> \/ Part(j, P1, {"unplug", "unplugLast"}, {"unplugLast"})
    <3> DEFINE act == "unplug"
               L == "unplugLast"
               c == "plugOld"
               F == Fitting(j)
               R == Order(j)
    <3>1. <<act, act>> \in R /\ <<act, L>> \in R
      BY <1>2 DEF UpgradeOrder
    <3>2. \A x \in CommandNames : Label(Plug(act, v, x, "none")) = act /\ Label(Plug(act, v, x, c)) = L
      BY PlugLabel
    <3>3. PlugsOf(P1, act, v, c) /\ P1 \in Seq(F)
      BY <2>1, <2>3
    <3> HIDE DEF act, c, F, R, L, P1
    <3>4. P1 = <<>> \/ Piece(P1, F, R, {act, L}, {L})
      BY <3>1, <3>2, <3>3, PlugPiece
    <3> QED BY <3>4 DEF Part, act, F, R, L
  <2> QED BY <2>4, <2>5 DEF Prefix
<1>4. Prefix(j, P2, {"pull"}, {"pull"})
  <2>1. Last("pull", j.new, "uninstallImage") \in Fitting(j)
    BY UpgradeFits
  <2>2. Label(Last("pull", j.new, "uninstallImage")) = "pull"
    BY LastLabel
  <2> QED BY <2>1, <2>2, BlockOne DEF Prefix, Ending
<1>5. Part(j, P3, {"probe"}, {"probe"}) /\ NoPlugs(P3)
  <2>1. Do("probe", v) \in Fitting(j) /\ Label(Do("probe", v)) = "probe" /\ Do("probe", v).act = "probe"
    BY UpgradeFits, Labels DEF Do
  <2> HIDE DEF v
  <2>2. Part(j, P3, {"probe"}, {"probe"})
    BY <2>1, PieceOne DEF Part
  <2>3. NoPlugs(P3)
    BY <2>1 DEF NoPlugs
  <2> QED BY <2>2, <2>3
<1> HIDE DEF P1, P2, P3
<1> DEFINE A == IF P1 = <<>> THEN {"pull"} ELSE {"unplug", "unplugLast"}
<1>6. Prefix(j, P1 \o P2, A, {"pull"})
  <2>1. {"unplugLast"} \X {"pull"} \subseteq Order(j)
    BY <1>2 DEF UpgradeOrder
  <2> QED BY <2>1, <1>3, <1>4, MaybeConcat
<1> HIDE DEF A
<1>7. Plugged(j, P1 \o P2, A, {"pull"}, {})
  BY <1>6, NoPlugsFirst DEF Prefix
<1>8. Plugged(j, P1 \o P2 \o P3, A, {"probe"}, {})
  <2>1. {"pull"} \X {"probe"} \subseteq Order(j)
    BY <1>2 DEF UpgradeOrder
  <2> QED BY <2>1, <1>5, <1>7, PluggedConcat
<1>9. LET q == UpgradeProgram(j) IN Program(j, q) /\ q # <<>> /\ Label(Head(q)) \in A
  BY <1>1, <1>8 DEF Plugged, Part, Piece, Program
<1> QED BY <1>9 DEF A

LEMMA UpgradeRestIsProgram ==
    ASSUME NEW j \in Job, Upgrades(j)
    PROVE  LET q == UpgradeRest(j)
           IN  Program(j, q) /\ q # <<>> /\ Label(Head(q)) = (IF j.running THEN "stop" ELSE "noscript")
               /\ (~j.skip => PlugsIn(q) = CommandNames)
<1> DEFINE r == j.running
           P1 == IF r THEN Block(Stop(j.old), "startOld") ELSE <<>>
           P2 == Block(Remove(j.old, FALSE), "createOld")
           P3 == Block(Create(j.new, FALSE), "removeNew")
           P4 == Block(Orders(j.new), "ordersBefore")
           P5 == Block(<<Do("update", j.new)>>, "updateBack")
           P6 == IF r THEN Block(StartUp(j.new), "stopNew") ELSE <<>>
           P7 == PlugsPart(j)
           P8 == <<Do("rmi", j.old), Do("popAll", j.new), Do("record", j.new)>>
           P9 == CommitAll(j)
<1>1. UpgradeRest(j) = P1 \o P2 \o P3 \o P4 \o P5 \o P6 \o P7 \o P8 \o P9
  BY DEF UpgradeRest, PlugsPart
<1>2. Order(j) = UpgradeOrder(r)
  BY UpgradeFits
<1> HIDE DEF r
<1>3. P1 = <<>> \/ Prefix(j, P1, {"stop"}, {"await"})
  <2> SUFFICES ASSUME r PROVE Prefix(j, P1, {"stop"}, {"await"})
    OBVIOUS
  <2>1. Do("stop", j.old) \in Fitting(j) /\ Last("await", j.old, "startOld") \in Fitting(j)
    BY UpgradeFits
  <2>2. Label(Last("await", j.old, "startOld")) = "await" /\ <<"stop", "await">> \in Order(j)
    BY <1>2, LastLabel DEF UpgradeOrder
  <2> QED BY <2>1, <2>2, BlockTwo DEF Prefix, Ending, Stop
<1>4. Prefix(j, P2, {"noscript"}, {"noyang"})
  <2>1. Do("noscript", j.old) \in Fitting(j) /\ Last("noyang", j.old, "createOld") \in Fitting(j)
    BY UpgradeFits
  <2>2. Label(Last("noyang", j.old, "createOld")) = "noyang" /\ <<"noscript", "noyang">> \in Order(j)
    BY <1>2, LastLabel DEF UpgradeOrder
  <2>3. P2 = Block(<<Do("noscript", j.old), Do("noyang", j.old)>>, "createOld")
    BY CreateSteps
  <2> QED BY <2>1, <2>2, <2>3, BlockTwo DEF Prefix, Ending
<1>5. Prefix(j, P3, {"script"}, {"yang"})
  <2>1. Do("script", j.new) \in Fitting(j) /\ Last("yang", j.new, "removeNew") \in Fitting(j)
    BY UpgradeFits
  <2>2. Label(Last("yang", j.new, "removeNew")) = "yang" /\ <<"script", "yang">> \in Order(j)
    BY <1>2, LastLabel DEF UpgradeOrder
  <2>3. P3 = Block(<<Do("script", j.new), Do("yang", j.new)>>, "removeNew")
    BY CreateSteps
  <2> QED BY <2>1, <2>2, <2>3, BlockTwo DEF Prefix, Ending
<1>6. Prefix(j, P4, {"fast"}, {"warm"})
  <2>1. Do("fast", j.new) \in Fitting(j) /\ Last("warm", j.new, "ordersBefore") \in Fitting(j)
    BY UpgradeFits
  <2>2. Label(Last("warm", j.new, "ordersBefore")) = "warm" /\ <<"fast", "warm">> \in Order(j)
    BY <1>2, LastLabel DEF UpgradeOrder
  <2> QED BY <2>1, <2>2, BlockTwo DEF Prefix, Ending, Orders
<1>7. Prefix(j, P5, {"update"}, {"update"})
  <2>1. Last("update", j.new, "updateBack") \in Fitting(j)
    BY UpgradeFits
  <2>2. Label(Last("update", j.new, "updateBack")) = "update"
    BY LastLabel
  <2> QED BY <2>1, <2>2, BlockOne DEF Prefix, Ending
<1>8. r => Prefix(j, P6, {"start"}, {"awaitNew"})
  <2> SUFFICES ASSUME r PROVE Prefix(j, P6, {"start"}, {"awaitNew"})
    OBVIOUS
  <2>1. Do("start", j.new) \in Fitting(j) /\ Last("await", j.new, "stopNew") \in Fitting(j)
    BY UpgradeFits
  <2>2. Label(Last("await", j.new, "stopNew")) = "awaitNew" /\ <<"start", "awaitNew">> \in Order(j)
    BY <1>2, Labels DEF UpgradeOrder
  <2> QED BY <2>1, <2>2, BlockTwo DEF Prefix, Ending, StartUp
<1>9. P7 \in Seq(Fitting(j)) /\ (P7 = <<>> \/ Part(j, P7, {"plug", "plugLast"}, {"plugLast"}))
      /\ PlugsFirst(P7) /\ (~j.skip => PlugsIn(P7) = CommandNames)
  <2>1. {<<"plug", "none">>, <<"plug", "unplugNew">>} \subseteq Undo(j) /\ j.new \in VersionOrNone
    BY UpgradeFits DEF UpgradeUndo
  <2>2. {<<"plug", "plug">>, <<"plug", "plugLast">>} \subseteq Order(j)
    BY <1>2 DEF UpgradeOrder
  <2> QED BY <2>1, <2>2, PlugBlock
<1>10. Part(j, P8, {"rmi"}, {"record"}) /\ NoPlugs(P8)
  <2> DEFINE t == Do("rmi", j.old)
             u == Do("popAll", j.new)
             w == Do("record", j.new)
  <2>1. t \in Fitting(j) /\ u \in Fitting(j) /\ w \in Fitting(j)
    BY UpgradeFits
  <2>2. Label(t) = "rmi" /\ Label(u) = "popAll" /\ Label(w) = "record" /\ t.act = "rmi" /\ u.act = "popAll" /\ w.act = "record"
    BY Labels DEF Do
  <2>3. <<"rmi", "popAll">> \in Order(j) /\ <<"popAll", "record">> \in Order(j)
    BY <1>2 DEF UpgradeOrder, CommitOrder
  <2>4. DOMAIN P8 = {1, 2, 3} /\ P8[1] = t /\ P8[2] = u /\ P8[3] = w
    OBVIOUS
  <2> HIDE DEF t, u, w
  <2>5. Part(j, <<t, u, w>>, {"rmi"}, {"record"})
    BY <2>1, <2>2, <2>3, PieceThree DEF Part
  <2> HIDE DEF P8
  <2>6. NoPlugs(P8)
    BY <2>2, <2>4 DEF NoPlugs
  <2> QED BY <2>5, <2>6 DEF P8, t, u, w
<1>11. Part(j, P9, {"truncate"}, {"dump"}) /\ NoPlugs(P9)
  BY CommitParts
<1>12. (P1 = <<>> <=> ~r) /\ (~r => P6 = <<>>)
  BY BlockOfTwo DEF Stop
<1> HIDE DEF P1, P2, P3, P4, P5, P6, P7, P8, P9
<1> DEFINE A == IF P1 = <<>> THEN {"noscript"} ELSE {"stop"}
           Z == IF r THEN {"awaitNew"} ELSE {"update"}
<1>13. Prefix(j, P1 \o P2, A, {"noyang"})
  <2>1. CASE r
    <3>1. {"await"} \X {"noscript"} \subseteq Order(j)
      BY <1>2, <2>1 DEF UpgradeOrder
    <3> QED BY <3>1, <1>3, <1>4, MaybeConcat
  <2>2. CASE ~r
    <3>1. P1 = <<>> /\ A = {"noscript"}
      BY <2>2, <1>12
    <3>2. P1 \o P2 = P2
      BY <3>1, <1>4 DEF Prefix, Part, Piece
    <3> QED BY <3>1, <3>2, <1>4
  <2> QED BY <2>1, <2>2
<1> HIDE DEF A
<1>14. Prefix(j, P1 \o P2 \o P3, A, {"yang"})
  <2>1. {"noyang"} \X {"script"} \subseteq Order(j)
    BY <1>2 DEF UpgradeOrder
  <2> QED BY <2>1, <1>13, <1>5, PrefixConcat
<1>15. Prefix(j, P1 \o P2 \o P3 \o P4, A, {"warm"})
  <2>1. {"yang"} \X {"fast"} \subseteq Order(j)
    BY <1>2 DEF UpgradeOrder
  <2> QED BY <2>1, <1>14, <1>6, PrefixConcat
<1>16. Prefix(j, P1 \o P2 \o P3 \o P4 \o P5, A, {"update"})
  <2>1. {"warm"} \X {"update"} \subseteq Order(j)
    BY <1>2 DEF UpgradeOrder
  <2> QED BY <2>1, <1>15, <1>7, PrefixConcat
<1>17. Prefix(j, P1 \o P2 \o P3 \o P4 \o P5 \o P6, A, Z)
  <2>1. CASE r
    <3>1. {"update"} \X {"start"} \subseteq Order(j)
      BY <1>2, <2>1 DEF UpgradeOrder
    <3>2. Prefix(j, (P1 \o P2 \o P3 \o P4 \o P5) \o P6, A, {"awaitNew"})
      BY <3>1, <2>1, <1>16, <1>8, PrefixConcat
    <3> QED BY <3>2, <2>1
  <2>2. CASE ~r
    <3> DEFINE p == P1 \o P2 \o P3 \o P4 \o P5
    <3>1. p \in Seq(Fitting(j)) /\ P6 = <<>>
      BY <2>2, <1>12, <1>16 DEF Prefix, Part, Piece
    <3>2. Prefix(j, p, A, Z)
      BY <2>2, <1>16
    <3> HIDE DEF p
    <3>3. p \o P6 = p
      BY <3>1
    <3> QED BY <3>2, <3>3 DEF p
  <2> QED BY <2>1, <2>2
<1>18. Plugged(j, P1 \o P2 \o P3 \o P4 \o P5 \o P6 \o P7, A, Z \cup {"plugLast"}, PlugsIn(P7))
  <2>1. Z \X {"plug", "plugLast"} \subseteq Order(j)
    <3>1. CASE r
      BY <3>1, <1>2 DEF UpgradeOrder
    <3>2. CASE ~r
      BY <3>2, <1>2 DEF UpgradeOrder
    <3> QED BY <3>1, <3>2
  <2> HIDE DEF Z
  <2> QED BY <2>1, <1>9, <1>17, PrefixPlugs
<1>19. Plugged(j, P1 \o P2 \o P3 \o P4 \o P5 \o P6 \o P7 \o P8, A, {"record"}, PlugsIn(P7))
  <2>1. (Z \cup {"plugLast"}) \X {"rmi"} \subseteq Order(j)
    <3>1. CASE r
      BY <3>1, <1>2 DEF UpgradeOrder
    <3>2. CASE ~r
      BY <3>2, <1>2 DEF UpgradeOrder
    <3> QED BY <3>1, <3>2
  <2> HIDE DEF Z
  <2> QED BY <2>1, <1>10, <1>18, PluggedConcat
<1>20. Plugged(j, P1 \o P2 \o P3 \o P4 \o P5 \o P6 \o P7 \o P8 \o P9, A, {"dump"}, PlugsIn(P7))
  <2>1. {"record"} \X {"truncate"} \subseteq Order(j)
    BY <1>2 DEF UpgradeOrder, CommitOrder
  <2> QED BY <2>1, <1>11, <1>19, PluggedConcat
<1>21. Program(j, UpgradeRest(j)) /\ UpgradeRest(j) # <<>> /\ Label(Head(UpgradeRest(j))) \in A /\ PlugsIn(UpgradeRest(j)) = PlugsIn(P7)
  BY <1>1, <1>20, PluggedProgram
<1>22. A = IF r THEN {"stop"} ELSE {"noscript"}
  BY <1>12 DEF A
<1> QED BY <1>9, <1>21, <1>22 DEF r

-----------------------------------------------------------------------------
(* What is registered follows the program. *)

LabelOf(a, c) == IF c = "stopNew" THEN "awaitNew" ELSE IF c = "unplugNew" THEN "plugLast" ELSE IF c = "plugOld" THEN "unplugLast" ELSE a

\* The callback c comes on top of what the top says.
Pushed(top, c, stack, bottom) == IF top = "end" THEN c \in bottom ELSE <<c, top>> \in stack

LEMMA InstallMoves ==
    ASSUME NEW a, NEW c, <<a, c>> \in InstallUndo, a # "popAll", NEW top, top \in InstallTop(LabelOf(a, c)),
           NEW h, <<LabelOf(a, c), h>> \in InstallOrder
    PROVE  IF c = "none" THEN top \in InstallTop(h)
           ELSE c \in InstallTop(h) /\ Pushed(top, c, InstallStack, {"uninstallImage"})
<1>1. CASE c = "none"
  <2>1. LabelOf(a, c) = a /\ a \in {"script", "yang", "fast", "plug", "record", "truncate", "dump"}
    BY <1>1 DEF LabelOf, InstallUndo, CommitUndo
  <2>2. CASE a \in {"script", "yang"}
    BY <1>1, <2>1, <2>2 DEF InstallTop, InstallOrder, CommitOrder
  <2>3. CASE a = "fast"
    BY <1>1, <2>1, <2>3 DEF InstallTop, InstallOrder, CommitOrder
  <2>4. CASE a = "plug"
    BY <1>1, <2>1, <2>4 DEF InstallTop, InstallOrder, CommitOrder
  <2>5. CASE a \in {"record", "truncate", "dump"}
    BY <1>1, <2>1, <2>5 DEF InstallTop, InstallOrder, CommitOrder
  <2> QED BY <2>1, <2>2, <2>3, <2>4, <2>5
<1>2. CASE c # "none"
  <2>1. <<a, c>> \in {<<"pull", "uninstallImage">>, <<"register", "removeService">>, <<"warm", "ordersBefore">>, <<"plug", "unplugNew">>}
    BY <1>2 DEF InstallUndo, CommitUndo
  <2>2. CASE a = "pull" /\ c = "uninstallImage"
    BY <2>2 DEF LabelOf, InstallTop, InstallOrder, CommitOrder, Pushed
  <2>3. CASE a = "register" /\ c = "removeService"
    BY <2>3 DEF LabelOf, InstallTop, InstallOrder, CommitOrder, Pushed, InstallStack
  <2>4. CASE a = "warm" /\ c = "ordersBefore"
    BY <2>4 DEF LabelOf, InstallTop, InstallOrder, CommitOrder, Pushed, InstallStack
  <2>5. CASE a = "plug" /\ c = "unplugNew"
    BY <2>5 DEF LabelOf, InstallTop, InstallOrder, CommitOrder, Pushed, InstallStack
  <2> QED BY <1>2, <2>1, <2>2, <2>3, <2>4, <2>5
<1> QED BY <1>1, <1>2

LEMMA UpgradeMoves ==
    ASSUME NEW r, NEW a, NEW c, <<a, c>> \in UpgradeUndo, a \notin {"popAll", "probe"}, NEW top, top \in UpgradeTop(LabelOf(a, c), r),
           NEW h, <<LabelOf(a, c), h>> \in UpgradeOrder(r)
    PROVE  IF c = "none" THEN top \in UpgradeTop(h, r)
           ELSE c \in UpgradeTop(h, r) /\ Pushed(top, c, UpgradeStack(r), {"uninstallImage", "plugOld"})
<1>1. CASE c = "none"
  <2>1. LabelOf(a, c) = a /\ a \in {"unplug", "stop", "noscript", "script", "fast", "start", "plug", "rmi", "record", "truncate", "dump"}
    BY <1>1 DEF LabelOf, UpgradeUndo, CommitUndo
  <2>2. CASE a = "unplug"
    BY <1>1, <2>1, <2>2 DEF UpgradeTop, UpgradeOrder, CommitOrder
  <2>3. CASE a = "stop"
    BY <1>1, <2>1, <2>3 DEF UpgradeTop, UpgradeOrder, CommitOrder
  <2>4. CASE a = "noscript"
    BY <1>1, <2>1, <2>4 DEF UpgradeTop, UpgradeOrder, CommitOrder
  <2>5. CASE a \in {"script", "fast", "start"}
    BY <1>1, <2>1, <2>5 DEF UpgradeTop, UpgradeOrder, CommitOrder
  <2>6. CASE a = "plug"
    BY <1>1, <2>1, <2>6 DEF UpgradeTop, UpgradeOrder, CommitOrder
  <2>7. CASE a = "rmi"
    BY <1>1, <2>1, <2>7 DEF UpgradeTop, UpgradeOrder, CommitOrder
  <2>8. CASE a \in {"record", "truncate", "dump"}
    BY <1>1, <2>1, <2>8 DEF UpgradeTop, UpgradeOrder, CommitOrder
  <2> QED BY <2>1, <2>2, <2>3, <2>4, <2>5, <2>6, <2>7, <2>8
<1>2. CASE c # "none"
  <2>1. <<a, c>> \in {<<"unplug", "plugOld">>, <<"pull", "uninstallImage">>, <<"await", "startOld">>, <<"noyang", "createOld">>,
                      <<"yang", "removeNew">>, <<"warm", "ordersBefore">>, <<"update", "updateBack">>, <<"await", "stopNew">>,
                      <<"plug", "unplugNew">>}
    BY <1>2 DEF UpgradeUndo, CommitUndo
  <2>2. CASE a = "unplug" /\ c = "plugOld"
    BY <2>2 DEF LabelOf, UpgradeTop, UpgradeOrder, CommitOrder, Pushed
  <2>3. CASE a = "pull" /\ c = "uninstallImage"
    BY <2>3 DEF LabelOf, UpgradeTop, UpgradeOrder, CommitOrder, Pushed, UpgradeStack
  <2>4. CASE a = "await" /\ c = "startOld"
    <3>1. r
      BY <2>4 DEF LabelOf, UpgradeOrder, CommitOrder
    <3> QED BY <2>4, <3>1 DEF LabelOf, UpgradeTop, UpgradeOrder, CommitOrder, Pushed, UpgradeStack
  <2>5. CASE a = "noyang" /\ c = "createOld"
    BY <2>5 DEF LabelOf, UpgradeTop, UpgradeOrder, CommitOrder, Pushed, UpgradeStack
  <2>6. CASE a = "yang" /\ c = "removeNew"
    BY <2>6 DEF LabelOf, UpgradeTop, UpgradeOrder, CommitOrder, Pushed, UpgradeStack
  <2>7. CASE a = "warm" /\ c = "ordersBefore"
    BY <2>7 DEF LabelOf, UpgradeTop, UpgradeOrder, CommitOrder, Pushed, UpgradeStack
  <2>8. CASE a = "update" /\ c = "updateBack"
    BY <2>8 DEF LabelOf, UpgradeTop, UpgradeOrder, CommitOrder, Pushed, UpgradeStack
  <2>9. CASE a = "await" /\ c = "stopNew"
    <3>1. r
      BY <2>9 DEF LabelOf, UpgradeOrder, CommitOrder
    <3> QED BY <2>9, <3>1 DEF LabelOf, UpgradeTop, UpgradeOrder, CommitOrder, Pushed, UpgradeStack
  <2>10. CASE a = "plug" /\ c = "unplugNew"
    BY <2>10 DEF LabelOf, UpgradeTop, UpgradeOrder, CommitOrder, Pushed, UpgradeStack
  <2> QED BY <1>2, <2>1, <2>2, <2>3, <2>4, <2>5, <2>6, <2>7, <2>8, <2>9, <2>10
<1> QED BY <1>1, <1>2

LEMMA TopEnd ==
    ASSUME NEW u \in Seq(Callbacks)
    PROVE  Top(u) = "end" <=> u = <<>>
<1>1. ASSUME u # <<>> PROVE Top(u) # "end"
  <2>1. Head(u) \in Callbacks
    BY <1>1
  <2> QED BY <1>1, <2>1 DEF Top, Callbacks
<1>2. u = <<>> => Top(u) = "end"
  BY DEF Top
<1> QED BY <1>1, <1>2

\* A step of a program, and the step that follows it.
LEMMA FittingFacts ==
    ASSUME NEW j, NEW t \in Fitting(j)
    PROVE  /\ t \in Step /\ t.act \in Acts /\ t.version \in VersionOrNone /\ t.undo \in Callbacks \cup {"none"}
           /\ t.cmd \in CommandNames \cup {NoCommand}
           /\ <<t.act, t.undo>> \in Undo(j) /\ Label(t) = LabelOf(t.act, t.undo)
           /\ t.act \in {"pull", "script", "yang", "register", "fast", "warm", "update", "plug", "record"} => t.version = j.new
           /\ t.act = "rmi" => t.version = j.old
  BY DEF Fitting, Step, Label, LabelOf

LEMMA Moves ==
    ASSUME NEW j \in Job, NEW q, NEW u, Program(j, q), q # <<>>, Stacked(j, u), Top(u) \in TopAt(j, Label(Head(q))),
           Head(q).act \notin {"popAll", "probe"},
           NEW u2, u2 = IF Head(q).undo = "none" THEN u ELSE <<Head(q).undo>> \o u
    PROVE  /\ Stacked(j, u2)
           /\ Tail(q) # <<>> => Top(u2) \in TopAt(j, Label(Head(Tail(q))))
           /\ Tail(q) = <<>> => u2 = <<>>
<1> DEFINE t == Head(q)
           a == t.act
           c == t.undo
           h == Label(Head(Tail(q)))
<1>1. /\ t \in Fitting(j)
      /\ Tail(q) = <<>> => Label(t) \in {"probe", "dump"}
      /\ Tail(q) # <<>> => <<Label(t), h>> \in Order(j)
  BY ProgramTail
<1>2. /\ <<a, c>> \in Undo(j) /\ c \in Callbacks \cup {"none"} /\ Label(t) = LabelOf(a, c)
      /\ a \notin {"popAll", "probe"} /\ Top(u) \in TopAt(j, LabelOf(a, c))
  BY <1>1, FittingFacts
<1>3. u \in Seq(Callbacks) /\ (Top(u) = "end" <=> u = <<>>)
  BY TopEnd DEF Stacked
<1>4. "none" \notin Callbacks /\ "end" \notin Callbacks
  BY DEF Callbacks
<1>5. u2 = IF c = "none" THEN u ELSE <<c>> \o u
  OBVIOUS
<1> HIDE DEF t, a, c, h
<1>6. CASE Tail(q) = <<>>
  <2>1. LabelOf(a, c) \in {"probe", "dump"}
    BY <1>1, <1>2, <1>6
  <2>2. a = "dump" /\ c \notin {"stopNew", "unplugNew", "plugOld"}
    BY <2>1, <1>2 DEF LabelOf
  <2>3. c = "none"
    BY <2>2, <1>2 DEF Undo, CommitUndo, InstallUndo, UpgradeUndo, RemoveUndo
  <2>4. TopAt(j, "dump") = {"end"}
    BY DEF TopAt, InstallTop, UpgradeTop
  <2>5. LabelOf(a, c) = "dump"
    BY <2>2 DEF LabelOf
  <2>6. u2 = u /\ u = <<>>
    BY <2>3, <2>4, <2>5, <1>2, <1>3, <1>5
  <2> QED BY <2>6, <1>6
<1>7. ASSUME Tail(q) # <<>>, c = "none" => Top(u) \in TopAt(j, h),
             c # "none" => c \in TopAt(j, h) /\ Pushed(Top(u), c, Stack(j), Bottom(j))
      PROVE  Stacked(j, u2) /\ Top(u2) \in TopAt(j, h)
  <2>1. CASE c = "none"
    BY <2>1, <1>5, <1>7
  <2>2. CASE c # "none"
    <3>1. IF u = <<>> THEN c \in Bottom(j) ELSE <<c, Top(u)>> \in Stack(j)
      BY <2>2, <1>3, <1>7 DEF Pushed
    <3>2. c \in Callbacks
      BY <2>2, <1>2
    <3>3. Stacked(j, <<c>> \o u) /\ Top(<<c>> \o u) = c
      BY <3>1, <3>2, StackPush
    <3> QED BY <3>3, <2>2, <1>5, <1>7
  <2> QED BY <2>1, <2>2
<1>8. CASE Tail(q) # <<>> /\ Installs(j)
  <2>1. Undo(j) = InstallUndo /\ Order(j) = InstallOrder /\ Stack(j) = InstallStack /\ Bottom(j) = {"uninstallImage"}
        /\ \A x : TopAt(j, x) = InstallTop(x)
    BY <1>8 DEF Undo, Order, Stack, Bottom, TopAt
  <2>2. <<a, c>> \in InstallUndo /\ Top(u) \in InstallTop(LabelOf(a, c)) /\ <<LabelOf(a, c), h>> \in InstallOrder
    BY <2>1, <1>1, <1>2, <1>8
  <2>3. IF c = "none" THEN Top(u) \in InstallTop(h) ELSE c \in InstallTop(h) /\ Pushed(Top(u), c, InstallStack, {"uninstallImage"})
    BY <2>2, <1>2, InstallMoves
  <2> QED BY <2>1, <2>3, <1>7, <1>8 DEF h
<1>9. CASE Tail(q) # <<>> /\ Upgrades(j)
  <2> DEFINE r == j.running
  <2>1. Undo(j) = UpgradeUndo /\ Order(j) = UpgradeOrder(r) /\ Stack(j) = UpgradeStack(r) /\ Bottom(j) = {"uninstallImage", "plugOld"}
        /\ \A x : TopAt(j, x) = UpgradeTop(x, r)
    BY <1>9 DEF Undo, Order, Stack, Bottom, TopAt, Upgrades, Installs
  <2> HIDE DEF r
  <2>2. <<a, c>> \in UpgradeUndo /\ Top(u) \in UpgradeTop(LabelOf(a, c), r) /\ <<LabelOf(a, c), h>> \in UpgradeOrder(r)
    BY <2>1, <1>1, <1>2, <1>9
  <2>3. IF c = "none" THEN Top(u) \in UpgradeTop(h, r)
        ELSE c \in UpgradeTop(h, r) /\ Pushed(Top(u), c, UpgradeStack(r), {"uninstallImage", "plugOld"})
    BY <2>2, <1>2, UpgradeMoves
  <2> QED BY <2>1, <2>3, <1>7, <1>9 DEF h
<1>10. CASE Tail(q) # <<>> /\ ~Installs(j) /\ ~Upgrades(j)
  <2>1. \A x : TopAt(j, x) = {"end"}
    BY <1>10 DEF TopAt
  <2>2. c = "none"
    BY <1>2, <1>10 DEF Undo, RemoveUndo, CommitUndo
  <2> QED BY <2>1, <2>2, <1>2, <1>7, <1>10 DEF h
<1> QED BY <1>6, <1>8, <1>9, <1>10

-----------------------------------------------------------------------------
(* How an operation begins. *)

LEMMA VersionFacts ==
    ASSUME NEW m \in Entries, NEW p \in Packages
    PROVE  /\ VersionIn(m, p) \in VersionOrNone
           /\ VersionIn(m, p) # NoVersion => m[p] # NotListed /\ m[p].version = VersionIn(m, p)
           /\ m[p] # NotListed => m[p] \in [version : VersionOrNone, default : VersionOrNone]
  BY DEF Entries, Entry, VersionIn, VersionOrNone

LEMMA JobTyped ==
    ASSUME NEW m \in Entries, NEW r \in Request, ~Unresolved(m, r), r.from # "database" => r.version # NoVersion
    PROVE  /\ JobOf(m, r) \in Job /\ JobOf(m, r).new # NoVersion /\ JobOf(m, r).old = VersionIn(m, r.pkg)
           /\ JobOf(m, r).pkg = r.pkg /\ ~JobOf(m, r).running /\ JobOf(m, r).new = Wanted(m, r)
<1>1. r.pkg \in Packages /\ r.version \in VersionOrNone /\ r.from \in {"database", "registry", "tarball"}
      /\ r.enable \in BOOLEAN /\ r.skip \in BOOLEAN
  BY DEF Request
<1>2. Wanted(m, r) \in VersionOrNone /\ Wanted(m, r) # NoVersion
  <2>1. CASE r.version # NoVersion
    BY <2>1, <1>1 DEF Wanted
  <2>2. CASE r.version = NoVersion /\ VersionIn(m, r.pkg) # NoVersion
    BY <2>2, <1>1, VersionFacts DEF Wanted
  <2>3. CASE r.version = NoVersion /\ VersionIn(m, r.pkg) = NoVersion
    <3>1. m[r.pkg] # NotListed /\ ~(m[r.pkg].version = NoVersion /\ m[r.pkg].default = NoVersion)
      BY <2>3 DEF Unresolved
    <3>2. m[r.pkg].version = NoVersion
      BY <3>1, <2>3 DEF VersionIn
    <3>3. m[r.pkg].default \in VersionOrNone
      BY <3>1, <1>1, VersionFacts
    <3> QED BY <2>3, <3>1, <3>2, <3>3 DEF Wanted
  <2> QED BY <2>1, <2>2, <2>3
<1>3. VersionIn(m, r.pkg) \in VersionOrNone
  BY <1>1, VersionFacts
<1>4. Local(m, r) \in BOOLEAN
  BY DEF Local
<1> QED BY <1>1, <1>2, <1>3, <1>4 DEF JobOf, Job

LEMMA RemovalJob ==
    ASSUME NEW p \in Packages, NEW v \in VersionOrNone, NEW w,
           NEW x \in [pkg : {p}, old : {v}, new : {w}, from : {"database", "registry", "tarball"},
                      enable : BOOLEAN, local : BOOLEAN, skip : BOOLEAN, running : BOOLEAN, migrated : BOOLEAN]
    PROVE  LET j == [x EXCEPT !.new = NoVersion, !.local = FALSE] IN j \in Job /\ j.pkg = p /\ j.old = v /\ j.new = NoVersion
<1>1. NoVersion \in VersionOrNone
  BY DEF VersionOrNone
<1> QED BY <1>1 DEF Job

\* What begins, after all checks, and what it begins with.
Started(s, m, j, q) ==
    /\ m \in Entries /\ j \in Job /\ SameVersions(Packages, m, mem[s])
    /\ \/ Installs(j) /\ q = InstallProgram(j)
       \/ Upgrades(j) /\ q = UpgradeProgram(j) /\ ~j.running
       \/ Removes(j) /\ q = UninstallProgram(j)
       \/ Commits(j) /\ q = Commit
       \/ Commits(j) /\ q = <<>> /\ m = mem[s]
    /\ ~Commits(j) => m = mem[s] /\ j.old = VersionIn(m, j.pkg)
Merges(s) ==
    /\ pc[s] = "check" /\ queue[s] # <<>>
    /\ \E m \in Entries : SameVersions(Packages, m, mem[s]) /\ mem' = [mem EXCEPT ![s] = m]
    /\ \E q \in Seq(Askable) : queue' = [queue EXCEPT ![s] = q]
    /\ UNCHANGED <<file, host, lock, pc, job, todo, undo, ghost, budget>>
Begins(s) ==
    /\ pc[s] = "check" /\ queue[s] # <<>>
    /\ \E m, j, q : Begin(s, m, j, q) /\ Started(s, m, j, q)
Refuses(s) == pc[s] = "check" /\ Refuse(s)

LEMMA BeginUpgrade ==
    ASSUME NEW s \in Sessions, NEW m \in Entries, m = mem[s], NEW r \in Request, r.from # "database" => r.version # NoVersion,
           UpgradeAccepted(m, r), VersionIn(m, r.pkg) # NoVersion
    PROVE  Started(s, m, JobOf(m, r), UpgradeProgram(JobOf(m, r)))
<1>1. ~Unresolved(m, r)
  BY DEF UpgradeAccepted
<1>2. Upgrades(JobOf(m, r)) /\ JobOf(m, r) \in Job /\ ~JobOf(m, r).running /\ JobOf(m, r).old = VersionIn(m, JobOf(m, r).pkg)
  BY <1>1, JobTyped DEF Upgrades
<1> QED BY <1>2 DEF Started, SameVersions

LEMMA BeginInstall ==
    ASSUME NEW s \in Sessions, NEW m \in Entries, m = mem[s], NEW r \in Request, r.from # "database" => r.version # NoVersion,
           InstallAccepted(m, r), VersionIn(m, r.pkg) = NoVersion
    PROVE  Started(s, m, JobOf(m, r), InstallProgram(JobOf(m, r)))
<1>1. ~Unresolved(m, r)
  BY DEF InstallAccepted
<1>2. Installs(JobOf(m, r)) /\ JobOf(m, r) \in Job /\ JobOf(m, r).old = VersionIn(m, JobOf(m, r).pkg)
  BY <1>1, JobTyped DEF Installs
<1> QED BY <1>2 DEF Started, SameVersions

LEMMA BeginCommit ==
    ASSUME NEW s \in Sessions, NEW m \in Entries, NEW p \in Packages, SameVersions(Packages, m, mem[s])
    PROVE  /\ Started(s, m, [NoJob EXCEPT !.pkg = p], Commit)
           /\ m = mem[s] => Started(s, m, [NoJob EXCEPT !.pkg = p], <<>>)
<1> DEFINE j == [NoJob EXCEPT !.pkg = p]
<1>1. j \in Job /\ Commits(j)
  BY DEF NoJob, Job, Commits, VersionOrNone
<1> QED BY <1>1 DEF Started

LEMMA QueueHead ==
    ASSUME Typed, NEW s \in Sessions, queue[s] # <<>>
    PROVE  /\ Head(queue[s]) \in Askable /\ Head(queue[s]) \in Request /\ Head(queue[s]).pkg \in Packages
           /\ Tail(queue[s]) \in Seq(Askable) /\ mem[s] \in Entries
<1>1. queue[s] \in Seq(Askable) /\ mem[s] \in Entries
  BY DEF Typed, TypedSessions
<1>2. Head(queue[s]) \in Askable /\ Tail(queue[s]) \in Seq(Askable)
  BY <1>1
<1> QED BY <1>1, <1>2 DEF Askable, Request

LEMMA CheckOutcome ==
    ASSUME Typed, NEW s \in Sessions, Check(s)
    PROVE  Begins(s) \/ Refuses(s) \/ Merges(s)
<1> DEFINE m == mem[s]
           r == Head(queue[s])
<1>1. pc[s] = "check" /\ queue[s] # <<>>
  BY DEF Check, CheckInstall, CheckUninstall, CheckReset, CheckAddRepository, CheckRemoveRepository, CheckMigrate,
         CheckMigrateOne, Checking
<1>2. r \in Askable /\ r \in Request /\ r.pkg \in Packages /\ m \in Entries
  BY <1>1, QueueHead
<1>3. r.kind # "migrateOne" /\ r.from # "database" => r.version # NoVersion
  BY <1>2 DEF Askable
<1>4. SameVersions(Packages, m, mem[s])
  BY DEF SameVersions
<1>5. ASSUME NEW n, NEW j, NEW q, Begin(s, n, j, q), Started(s, n, j, q) PROVE Begins(s)
  BY <1>1, <1>5 DEF Begins
<1>6. CASE CheckInstall(s)
  <2>1. Checking(s, "install") /\ r.kind = "install"
    BY <1>6 DEF CheckInstall, Checking
  <2>2. r.from # "database" => r.version # NoVersion
    BY <2>1, <1>3
  <2> DEFINE j == JobOf(m, r)
  <2>3. \/ VersionIn(m, r.pkg) = NoVersion /\ InstallAccepted(m, r) /\ Begin(s, m, j, InstallProgram(j))
        \/ VersionIn(m, r.pkg) # NoVersion /\ UpgradeAccepted(m, r) /\ Begin(s, m, j, UpgradeProgram(j))
        \/ Refuse(s)
    BY <1>6 DEF CheckInstall
  <2> HIDE DEF r, m
  <2>4. CASE VersionIn(m, r.pkg) = NoVersion /\ InstallAccepted(m, r) /\ Begin(s, m, j, InstallProgram(j))
    <3>1. Started(s, m, j, InstallProgram(j))
      BY <2>2, <2>4, <1>2, BeginInstall DEF m
    <3> QED BY <3>1, <2>4, <1>5
  <2>5. CASE VersionIn(m, r.pkg) # NoVersion /\ UpgradeAccepted(m, r) /\ Begin(s, m, j, UpgradeProgram(j))
    <3>1. Started(s, m, j, UpgradeProgram(j))
      BY <2>2, <2>5, <1>2, BeginUpgrade DEF m
    <3> QED BY <3>1, <2>5, <1>5
  <2> QED BY <2>3, <2>4, <2>5, <1>1 DEF Refuses
<1>7. CASE CheckUninstall(s)
  <2> DEFINE j == [JobOf(m, r) EXCEPT !.new = NoVersion, !.local = FALSE]
  <2>1. (UninstallAccepted(m, r) /\ Begin(s, m, j, UninstallProgram(j))) \/ Refuse(s)
    BY <1>7 DEF CheckUninstall
  <2>2. ASSUME UninstallAccepted(m, r) PROVE j \in Job /\ Removes(j) /\ j.old = VersionIn(m, j.pkg)
    <3>1. VersionIn(m, r.pkg) # NoVersion /\ VersionIn(m, r.pkg) \in VersionOrNone
      BY <2>2, <1>2, VersionFacts DEF UninstallAccepted
    <3> HIDE DEF r, m
    <3> DEFINE w == Wanted(m, r)
               l == Local(m, r)
               g == r.kind = "migrateOne"
    <3>4. JobOf(m, r) = [pkg |-> r.pkg, old |-> VersionIn(m, r.pkg), new |-> w, from |-> r.from, enable |-> r.enable, local |-> l,
                         skip |-> r.skip, running |-> FALSE, migrated |-> g]
      BY DEF JobOf
    <3>5. g \in BOOLEAN /\ l \in BOOLEAN
      BY DEF Local
    <3>3. r.from \in {"database", "registry", "tarball"} /\ r.enable \in BOOLEAN /\ r.skip \in BOOLEAN
      BY <1>2 DEF Request
    <3> DEFINE v == VersionIn(m, r.pkg)
    <3> HIDE DEF w, l, g, v
    <3>6. JobOf(m, r) \in [pkg : {r.pkg}, old : {v}, new : {w}, from : {"database", "registry", "tarball"},
                           enable : BOOLEAN, local : BOOLEAN, skip : BOOLEAN, running : BOOLEAN, migrated : BOOLEAN]
      BY <3>3, <3>4, <3>5 DEF v
    <3>7. j \in Job /\ j.pkg = r.pkg /\ j.old = v /\ j.new = NoVersion
      BY <3>1, <3>6, <1>2, RemovalJob DEF v
    <3> QED BY <3>1, <3>7 DEF Removes, v
  <2> HIDE DEF j
  <2>3. CASE UninstallAccepted(m, r) /\ Begin(s, m, j, UninstallProgram(j))
    <3>1. Started(s, m, j, UninstallProgram(j))
      BY <2>2, <2>3, <1>2, <1>4 DEF Started
    <3> QED BY <3>1, <2>3, <1>5
  <2> QED BY <2>1, <2>3, <1>1 DEF Refuses
<1>8. CASE CheckReset(s)
  <2> DEFINE x == [r EXCEPT !.downgrade = TRUE, !.enable = FALSE, !.version = m[r.pkg].default]
  <2>1. \/ /\ VersionIn(m, r.pkg) # NoVersion /\ m[r.pkg].default # NoVersion /\ UpgradeAccepted(m, x)
           /\ Begin(s, m, JobOf(m, x), UpgradeProgram(JobOf(m, x)))
        \/ Refuse(s)
    BY <1>8 DEF CheckReset
  <2>2. CASE VersionIn(m, r.pkg) # NoVersion /\ m[r.pkg].default # NoVersion /\ UpgradeAccepted(m, x)
             /\ Begin(s, m, JobOf(m, x), UpgradeProgram(JobOf(m, x)))
    <3>1. m[r.pkg].default \in VersionOrNone
      BY <2>2, <1>2, VersionFacts
    <3>2. x \in Request /\ x.version # NoVersion /\ x.pkg = r.pkg
      BY <3>1, <2>2, <1>2 DEF Request
    <3> HIDE DEF x, r, m
    <3>3. Started(s, m, JobOf(m, x), UpgradeProgram(JobOf(m, x)))
      BY <3>2, <2>2, <1>2, BeginUpgrade DEF m
    <3> QED BY <3>3, <2>2, <1>5
  <2> QED BY <2>1, <2>2, <1>1 DEF Refuses
<1>9. CASE CheckAddRepository(s)
  <2> DEFINE e == [version |-> NoVersion, default |-> r.version]
             n == [mem[s] EXCEPT ![r.pkg] = e]
  <2>1. (m[r.pkg] = NotListed /\ Begin(s, n, [NoJob EXCEPT !.pkg = r.pkg], Commit)) \/ Refuse(s)
    BY <1>9 DEF CheckAddRepository
  <2>2. CASE m[r.pkg] = NotListed /\ Begin(s, n, [NoJob EXCEPT !.pkg = r.pkg], Commit)
    <3>1. e \in Entry /\ e # NotListed
      BY <1>2, PackagesAssumption DEF Request, Entry, VersionOrNone
    <3>2. n \in Entries
      BY <3>1, <1>2 DEF Entries
    <3>3. SameVersions(Packages, n, mem[s])
      BY <2>2, <3>1, <1>2 DEF SameVersions, VersionIn, Entries
    <3> HIDE DEF n
    <3> QED BY <3>2, <3>3, <2>2, <1>2, <1>5, BeginCommit
  <2> QED BY <2>1, <2>2, <1>1 DEF Refuses
<1>10. CASE CheckRemoveRepository(s)
  <2> DEFINE n == [mem[s] EXCEPT ![r.pkg] = NotListed]
  <2>1. (VersionIn(m, r.pkg) = NoVersion /\ Begin(s, n, [NoJob EXCEPT !.pkg = r.pkg], Commit)) \/ Refuse(s)
    BY <1>10 DEF CheckRemoveRepository
  <2>2. CASE VersionIn(m, r.pkg) = NoVersion /\ Begin(s, n, [NoJob EXCEPT !.pkg = r.pkg], Commit)
    <3>2. n \in Entries
      BY <1>2 DEF Entries, Entry
    <3>3. SameVersions(Packages, n, mem[s])
      BY <2>2, <1>2 DEF SameVersions, VersionIn, Entries
    <3> HIDE DEF n
    <3> QED BY <3>2, <3>3, <2>2, <1>2, <1>5, BeginCommit
  <2> QED BY <2>1, <2>2, <1>1 DEF Refuses
<1>11. CASE CheckMigrate(s)
  <2>1. \/ Refuse(s)
        \/ /\ mem' = [mem EXCEPT ![s] = Merged(@, r)]
           /\ queue' = [queue EXCEPT ![s] = MigrationOf(r)]
           /\ UNCHANGED <<file, host, lock, pc, job, todo, undo, ghost, budget>>
    BY <1>11 DEF CheckMigrate
  <2>2. Merged(m, r) \in Entries /\ SameVersions(Packages, Merged(m, r), mem[s])
    <3>1. \A e \in OldEntries(r) : e[2].default \in VersionOrNone
      <4>1. r.old \in Seq(Packages \X (Entry \ {NotListed}))
        BY <1>2 DEF Request
      <4>2. \A i \in DOMAIN r.old : r.old[i] \in Packages \X (Entry \ {NotListed})
        BY <4>1
      <4> QED BY <4>2 DEF OldEntries, Entry
    <3>2. ASSUME NEW p \in Packages, \E e \in OldEntries(r) : e[1] = p
          PROVE  (CHOOSE e \in OldEntries(r) : e[1] = p)[2].default \in VersionOrNone
      BY <3>1, <3>2
    <3>3. ASSUME NEW p \in Packages PROVE Merged(m, r)[p] \in Entry /\ VersionIn(Merged(m, r), p) = VersionIn(m, p)
      <4> DEFINE d == (CHOOSE e \in OldEntries(r) : e[1] = p)[2].default
                 e == [version |-> NoVersion, default |-> d]
      <4>1. CASE m[p] = NotListed /\ \E f \in OldEntries(r) : f[1] = p
        <5>1. Merged(m, r)[p] = e
          BY <4>1 DEF Merged
        <5>2. d \in VersionOrNone
          BY <4>1, <3>2
        <5> HIDE DEF d
        <5>3. e \in [version : VersionOrNone, default : VersionOrNone] /\ e.version = NoVersion
          BY <5>2 DEF VersionOrNone
        <5> HIDE DEF e
        <5> QED BY <5>1, <5>3, <4>1, PackagesAssumption DEF Entry, VersionIn
      <4>2. CASE ~(m[p] = NotListed /\ \E f \in OldEntries(r) : f[1] = p)
        <5>1. Merged(m, r)[p] = m[p]
          BY <4>2 DEF Merged
        <5> QED BY <5>1, <1>2 DEF Entries, VersionIn
      <4> QED BY <4>1, <4>2
    <3> QED BY <3>3 DEF Merged, Entries, SameVersions
  <2>3. MigrationOf(r) \in Seq(Askable)
    <3> DEFINE one(i) == [r EXCEPT !.kind = "migrateOne", !.pkg = r.old[i][1], !.version = r.old[i][2].version, !.old = <<>>]
    <3>1. r.old \in Seq(Packages \X (Entry \ {NotListed}))
      BY <1>2 DEF Request
    <3>2. ASSUME NEW i \in DOMAIN r.old PROVE one(i) \in Askable
      <4>1. r.old[i] \in Packages \X (Entry \ {NotListed})
        BY <3>1
      <4>2. r.old[i][1] \in Packages /\ r.old[i][2].version \in VersionOrNone
        BY <4>1 DEF Entry
      <4>3. <<>> \in Seq(Packages \X (Entry \ {NotListed}))
        OBVIOUS
      <4> QED BY <4>2, <4>3, <1>2 DEF Request, Askable
    <3>3. MigrationOf(r) = [i \in DOMAIN r.old |-> one(i)]
      BY DEF MigrationOf
    <3>4. DOMAIN r.old = 1 .. Len(r.old) /\ Len(r.old) \in Nat
      BY <3>1
    <3> HIDE DEF one
    <3> QED BY <3>2, <3>3, <3>4
  <2>4. CASE /\ mem' = [mem EXCEPT ![s] = Merged(@, r)]
             /\ queue' = [queue EXCEPT ![s] = MigrationOf(r)]
             /\ UNCHANGED <<file, host, lock, pc, job, todo, undo, ghost, budget>>
    BY <2>2, <2>3, <2>4, <1>1 DEF Merges
  <2> QED BY <2>1, <2>4, <1>1 DEF Refuses
<1>12. CASE CheckMigrateOne(s)
  <2> DEFINE x == MigrateRequest(m, r)
             j == JobOf(m, x)
  <2>1. \/ Begin(s, m, [NoJob EXCEPT !.pkg = x.pkg], <<>>)
        \/ Begin(s, m, [NoJob EXCEPT !.pkg = x.pkg], Commit)
        \/ ~PassedOver(r) /\ VersionIn(m, x.pkg) = NoVersion /\ InstallAccepted(m, x) /\ Begin(s, m, j, InstallProgram(j))
        \/ ~PassedOver(r) /\ VersionIn(m, x.pkg) # NoVersion /\ UpgradeAccepted(m, x) /\ Begin(s, m, j, UpgradeProgram(j))
        \/ Refuse(s)
    BY <1>12 DEF CheckMigrateOne
  <2>2. x.pkg = r.pkg
    BY <1>2 DEF MigrateRequest, Request
  <2>3. ASSUME ~PassedOver(r), ~Unresolved(m, x) PROVE x \in Request /\ (x.from # "database" => x.version # NoVersion)
    <3>1. r.version # NoVersion
      BY <2>3 DEF PassedOver
    <3>2. CASE x = r
      BY <3>1, <3>2, <1>2
    <3>3. CASE x # r
      <4>1. x = [r EXCEPT !.version = m[r.pkg].default, !.from = "database"] /\ m[r.pkg].default # NoVersion
        BY <3>3 DEF MigrateRequest
      <4>2. x.from = "database" /\ x.pkg = r.pkg
        BY <4>1, <1>2 DEF Request
      <4>3. m[r.pkg] # NotListed
        BY <4>2, <2>3 DEF Unresolved
      <4>4. m[r.pkg].default \in VersionOrNone
        BY <4>3, <1>2, VersionFacts
      <4> HIDE DEF x, m
      <4> QED BY <4>1, <4>2, <4>4, <1>2 DEF Request
    <3> QED BY <3>2, <3>3
  <2> HIDE DEF x, r, m
  <2>4. CASE Begin(s, m, [NoJob EXCEPT !.pkg = x.pkg], <<>>)
    BY <2>2, <2>4, <1>2, <1>4, <1>5, BeginCommit DEF m
  <2>5. CASE Begin(s, m, [NoJob EXCEPT !.pkg = x.pkg], Commit)
    BY <2>2, <2>5, <1>2, <1>4, <1>5, BeginCommit DEF m
  <2>6. CASE ~PassedOver(r) /\ VersionIn(m, x.pkg) = NoVersion /\ InstallAccepted(m, x) /\ Begin(s, m, j, InstallProgram(j))
    <3>1. Started(s, m, j, InstallProgram(j))
      BY <2>3, <2>6, <1>2, BeginInstall DEF m, InstallAccepted
    <3> QED BY <3>1, <2>6, <1>5
  <2>7. CASE ~PassedOver(r) /\ VersionIn(m, x.pkg) # NoVersion /\ UpgradeAccepted(m, x) /\ Begin(s, m, j, UpgradeProgram(j))
    <3>1. Started(s, m, j, UpgradeProgram(j))
      BY <2>3, <2>7, <1>2, BeginUpgrade DEF m, UpgradeAccepted
    <3> QED BY <3>1, <2>7, <1>5
  <2> QED BY <2>1, <2>4, <2>5, <2>6, <2>7, <1>1 DEF Refuses
<1> QED BY <1>6, <1>7, <1>8, <1>9, <1>10, <1>11, <1>12 DEF Check

-----------------------------------------------------------------------------
(* Types. *)

LEMMA StepTyped ==
    ASSUME NEW a \in Acts, NEW v \in VersionOrNone
    PROVE  Do(a, v) \in Step /\ \A x \in CommandNames : Plug(a, v, x, "none") \in Step
  BY DEF Do, Plug, Step

LEMMA BlockTyped ==
    ASSUME NEW q \in Seq(Step), NEW c \in Callbacks
    PROVE  Block(q, c) \in Seq(Step)
<1>1. DOMAIN q = 1 .. Len(q) /\ Len(q) \in Nat /\ \A i \in 1 .. Len(q) : q[i] \in Step
  OBVIOUS
<1>2. \A t \in Step : [t EXCEPT !.undo = c] \in Step
  BY DEF Step
<1>3. \A i \in 1 .. Len(q) : (IF i = Len(q) THEN [q[i] EXCEPT !.undo = c] ELSE q[i]) \in Step
  BY <1>1, <1>2
<1> QED BY <1>1, <1>3 DEF Block

LEMMA PiecesTyped ==
    ASSUME NEW v \in VersionOrNone
    PROVE  /\ Plugins("plug", v) \in Seq(Step) /\ Plugins("unplug", v) \in Seq(Step)
           /\ Create(v, TRUE) \in Seq(Step) /\ Create(v, FALSE) \in Seq(Step)
           /\ Remove(v, TRUE) \in Seq(Step) /\ Remove(v, FALSE) \in Seq(Step)
           /\ Orders(v) \in Seq(Step) /\ Stop(v) \in Seq(Step) /\ StartUp(v) \in Seq(Step) /\ Commit \in Seq(Step)
           /\ \A a \in {"pull", "update", "probe", "rmi"} : <<Do(a, v)>> \in Seq(Step)
<1>1. \A a \in Acts : Do(a, v) \in Step /\ Do(a, NoVersion) \in Step /\ \A x \in CommandNames : Plug(a, v, x, "none") \in Step
  BY StepTyped DEF VersionOrNone
<1>2. \A a \in Acts : PlugsOf(Plugins(a, v), a, v, "none")
  BY PluginSteps
<1>3. \A a \in Acts : Plugins(a, v) \in Seq(Step)
  BY <1>1, <1>2, PlugSeq
<1>4. {"pull", "rmi", "script", "yang", "register", "noscript", "noyang", "deregister", "fast", "warm", "plug", "unplug", "update",
       "probe", "stop", "start", "await", "truncate", "dump"} \subseteq Acts
  BY DEF Acts
<1>5. /\ Create(v, TRUE) \in Seq(Step) /\ Create(v, FALSE) \in Seq(Step)
      /\ Remove(v, TRUE) \in Seq(Step) /\ Remove(v, FALSE) \in Seq(Step)
  <2>1. /\ <<Do("script", v), Do("yang", v), Do("register", v)>> \in Seq(Step)
        /\ <<Do("script", v), Do("yang", v)>> \in Seq(Step)
        /\ <<Do("noscript", v), Do("noyang", v), Do("deregister", v)>> \in Seq(Step)
        /\ <<Do("noscript", v), Do("noyang", v)>> \in Seq(Step)
    BY <1>1, <1>4
  <2> QED BY <2>1, CreateSteps
<1>6. Orders(v) \in Seq(Step) /\ Stop(v) \in Seq(Step) /\ StartUp(v) \in Seq(Step) /\ Commit \in Seq(Step)
  BY <1>1, <1>4 DEF Orders, Stop, StartUp, Commit
<1>7. \A a \in {"pull", "update", "probe", "rmi"} : <<Do(a, v)>> \in Seq(Step)
  BY <1>1, <1>4
<1> QED BY <1>3, <1>4, <1>5, <1>6, <1>7

LEMMA RestTyped ==
    ASSUME NEW j \in Job
    PROVE  UpgradeRest(j) \in Seq(Step)
<1> DEFINE P1 == IF j.running THEN Block(Stop(j.old), "startOld") ELSE <<>>
           P2 == Block(Remove(j.old, FALSE), "createOld")
           P3 == Block(Create(j.new, FALSE), "removeNew")
           P4 == Block(Orders(j.new), "ordersBefore")
           P5 == Block(<<Do("update", j.new)>>, "updateBack")
           P6 == IF j.running THEN Block(StartUp(j.new), "stopNew") ELSE <<>>
           P7 == IF j.skip THEN <<>> ELSE Block(Plugins("plug", j.new), "unplugNew")
           P8 == <<Do("rmi", j.old), Do("popAll", j.new), Do("record", j.new)>>
           P9 == CommitAll(j)
<1>1. UpgradeRest(j) = P1 \o P2 \o P3 \o P4 \o P5 \o P6 \o P7 \o P8 \o P9
  BY DEF UpgradeRest
<1>2. j.old \in VersionOrNone /\ j.new \in VersionOrNone
  BY DEF Job
<1>3. {"startOld", "createOld", "removeNew", "ordersBefore", "updateBack", "stopNew", "unplugNew"} \subseteq Callbacks
  BY DEF Callbacks
<1>10. /\ Stop(j.old) \in Seq(Step) /\ Remove(j.old, FALSE) \in Seq(Step) /\ Create(j.new, FALSE) \in Seq(Step)
       /\ Orders(j.new) \in Seq(Step) /\ StartUp(j.new) \in Seq(Step) /\ Plugins("plug", j.new) \in Seq(Step)
       /\ <<Do("update", j.new)>> \in Seq(Step)
  BY <1>2, PiecesTyped
<1>4. \A c \in Callbacks :
        /\ Block(Stop(j.old), c) \in Seq(Step) /\ Block(Remove(j.old, FALSE), c) \in Seq(Step)
        /\ Block(Create(j.new, FALSE), c) \in Seq(Step) /\ Block(Orders(j.new), c) \in Seq(Step)
        /\ Block(StartUp(j.new), c) \in Seq(Step) /\ Block(Plugins("plug", j.new), c) \in Seq(Step)
        /\ Block(<<Do("update", j.new)>>, c) \in Seq(Step)
  BY <1>10, BlockTyped
<1>5. /\ P1 \in Seq(Step) /\ P2 \in Seq(Step) /\ P3 \in Seq(Step) /\ P4 \in Seq(Step)
      /\ P5 \in Seq(Step) /\ P6 \in Seq(Step) /\ P7 \in Seq(Step)
  <2>1. <<>> \in Seq(Step)
    OBVIOUS
  <2>2. P1 \in Seq(Step) /\ P2 \in Seq(Step)
    BY <2>1, <1>3, <1>4
  <2>3. P3 \in Seq(Step) /\ P4 \in Seq(Step) /\ P5 \in Seq(Step)
    BY <1>3, <1>4
  <2>4. P6 \in Seq(Step) /\ P7 \in Seq(Step)
    BY <2>1, <1>3, <1>4
  <2> QED BY <2>2, <2>3, <2>4
<1>6. P8 \in Seq(Step)
  <2>1. Do("rmi", j.old) \in Step /\ Do("popAll", j.new) \in Step /\ Do("record", j.new) \in Step
    BY <1>2, StepTyped DEF Acts
  <2> QED BY <2>1
<1>7. P9 \in Seq(Step)
  <2>1. NoVersion \in VersionOrNone
    BY DEF VersionOrNone
  <2>2. Commit \in Seq(Step)
    BY <2>1, PiecesTyped
  <2> QED BY <2>2 DEF CommitAll
<1> HIDE DEF P1, P2, P3, P4, P5, P6, P7, P8, P9
<1>8. \A p, q \in Seq(Step) : p \o q \in Seq(Step)
  OBVIOUS
<1> QED BY <1>1, <1>5, <1>6, <1>7, <1>8

LEMMA CallbackTyped ==
    ASSUME NEW j \in Job, NEW c \in Callbacks
    PROVE  Callback(c, j) \in Seq(Step)
<1>1. j.old \in VersionOrNone /\ j.new \in VersionOrNone
  BY DEF Job
<1>2. <<>> \in Seq(Step)
  OBVIOUS
<1>3. \A v \in VersionOrNone :
        /\ Plugins("plug", v) \in Seq(Step) /\ Plugins("unplug", v) \in Seq(Step)
        /\ Create(v, FALSE) \in Seq(Step) /\ Remove(v, TRUE) \in Seq(Step) /\ Remove(v, FALSE) \in Seq(Step)
        /\ Orders(v) \in Seq(Step) /\ Stop(v) \in Seq(Step) /\ StartUp(v) \in Seq(Step)
        /\ \A a \in {"pull", "update", "probe", "rmi"} : <<Do(a, v)>> \in Seq(Step)
  BY PiecesTyped
<1>4. CASE c \in {"uninstallImage", "removeService", "ordersBefore", "unplugNew", "plugOld"}
  BY <1>1, <1>2, <1>3, <1>4 DEF Callback
<1>5. CASE c \in {"startOld", "createOld", "removeNew", "updateBack", "stopNew"}
  BY <1>1, <1>2, <1>3, <1>5 DEF Callback
<1> QED BY <1>4, <1>5 DEF Callbacks

LEMMA CleanupTyped ==
    ASSUME NEW j \in Job, NEW t \in Step
    PROVE  Cleanup(t, j) \in Seq(Step)
<1>1. t.version \in VersionOrNone
  BY DEF Step
<1>2. Remove(t.version, TRUE) \in Seq(Step) /\ Remove(t.version, FALSE) \in Seq(Step)
  BY <1>1, PiecesTyped
<1>5. <<>> \in Seq(Step)
  OBVIOUS
<1>3. Remove(t.version, j.old = NoVersion) = IF j.old = NoVersion THEN Remove(t.version, TRUE) ELSE Remove(t.version, FALSE)
  BY DEF Remove
<1>4. Cleanup(t, j) = Remove(t.version, j.old = NoVersion) \/ Cleanup(t, j) = <<>>
  BY DEF Cleanup
<1> QED BY <1>2, <1>3, <1>4, <1>5

(* A session changes its own variables only. *)

LEMMA JobExists == NoJob \in Job /\ Commits(NoJob)
<1>1. (CHOOSE p \in Packages : TRUE) \in Packages
  BY PackagesAssumption
<1> QED BY <1>1 DEF NoJob, Job, Commits, VersionOrNone

LEMMA EndKeeps ==
    ASSUME TypedSessions, NEW s \in Sessions, End(s)
    PROVE  TypedSessions'
<1>1. Shipped \in Entries /\ <<>> \in Seq(Askable) /\ <<>> \in Seq(Step) /\ <<>> \in Seq(Callbacks)
  BY PackagesAssumption
<1>2. NoJob \in Job
  BY JobExists
<1>3. lock' \in Sessions \cup {Nobody}
  BY DEF End, TypedSessions
<1>4. pc' \in [Sessions -> {"idle", "prompt", "check", "work", "unwind"}] /\ mem' \in [Sessions -> Entries]
  BY <1>1 DEF End, TypedSessions
<1>5. queue' \in [Sessions -> Seq(Askable)] /\ job' \in [Sessions -> Job]
  BY <1>1, <1>2 DEF End, TypedSessions
<1>6. todo' \in [Sessions -> Seq(Step)] /\ undo' \in [Sessions -> Seq(Callbacks)]
  BY <1>1 DEF End, TypedSessions
<1> QED BY <1>3, <1>4, <1>5, <1>6 DEF TypedSessions

LEMMA BeginKeeps ==
    ASSUME Typed, NEW s \in Sessions, Begins(s)
    PROVE  Typed'
<1> PICK m, j, q : Begin(s, m, j, q) /\ Started(s, m, j, q)
  BY DEF Begins
<1>1. m \in Entries /\ j \in Job
  BY DEF Started
<1>2. q \in Seq(Step)
  <2>1. \A x : Program(j, x) => x \in Seq(Step)
    <3>1. Fitting(j) \subseteq Step
      BY DEF Fitting
    <3> QED BY <3>1 DEF Program
  <2>2. Program(j, q)
    BY <1>1, InstallIsProgram, UpgradeIsProgram, UninstallIsProgram, CommitIsProgram DEF Started
  <2> QED BY <2>1, <2>2
<1>3. Tail(queue[s]) \in Seq(Askable)
  BY QueueHead DEF Begins
<1>4. <<>> \in Seq(Callbacks)
  OBVIOUS
<1>5. lock' \in Sessions \cup {Nobody} /\ pc' \in [Sessions -> {"idle", "prompt", "check", "work", "unwind"}]
  BY DEF Begin, Typed, TypedSessions
<1>6. mem' \in [Sessions -> Entries] /\ queue' \in [Sessions -> Seq(Askable)]
  BY <1>1, <1>3 DEF Begin, Typed, TypedSessions
<1>7. job' \in [Sessions -> Job] /\ todo' \in [Sessions -> Seq(Step)] /\ undo' \in [Sessions -> Seq(Callbacks)]
  BY <1>1, <1>2, <1>4 DEF Begin, Typed, TypedSessions
<1>8. TypedHost'
  <2>1. j.pkg \in Packages
    BY <1>1 DEF Job
  <2>2. spoiled' \subseteq Packages
    BY <2>1 DEF Begin, Typed, TypedHost
  <2>3. UNCHANGED <<file, host, asked>>
    BY DEF Begin
  <2> QED BY <2>2, <2>3 DEF Typed, TypedHost, host
<1> QED BY <1>5, <1>6, <1>7, <1>8 DEF Typed, TypedSessions

LEMMA CheckKeeps ==
    ASSUME Typed, NEW s \in Sessions, Check(s)
    PROVE  Typed'
<1>1. CASE Begins(s)
  BY <1>1, BeginKeeps
<1>2. CASE Refuses(s)
  <2>1. End(s) /\ UNCHANGED <<file, host, ghost>>
    BY <1>2 DEF Refuses, Refuse
  <2>2. TypedSessions'
    BY <2>1, EndKeeps DEF Typed
  <2> QED BY <2>1, <2>2 DEF Typed, TypedHost, host, ghost
<1>3. CASE Merges(s)
  <2>1. mem' \in [Sessions -> Entries] /\ queue' \in [Sessions -> Seq(Askable)]
    BY <1>3 DEF Merges, Typed, TypedSessions
  <2>2. UNCHANGED <<file, host, lock, pc, job, todo, undo, ghost>>
    BY <1>3 DEF Merges
  <2> QED BY <2>1, <2>2 DEF Typed, TypedHost, TypedSessions, host, ghost
<1> QED BY <1>1, <1>2, <1>3, CheckOutcome

LEMMA StepFacts ==
    ASSUME Typed, NEW s \in Sessions, NEW A, AtStep(s, A)
    PROVE  /\ todo[s] \in Seq(Step) /\ todo[s] # <<>> /\ Now(s) \in Step /\ Now(s).act \in A /\ Now(s).act \in Acts
           /\ Tail(todo[s]) \in Seq(Step) /\ Now(s).version \in VersionOrNone /\ Now(s).undo \in Callbacks \cup {"none"}
           /\ Now(s).cmd \in CommandNames \cup {NoCommand}
           /\ job[s] \in Job /\ Pkg(s) \in Packages /\ pc[s] \in {"work", "unwind"} /\ undo[s] \in Seq(Callbacks)
           /\ mem[s] \in Entries
<1>1. todo[s] \in Seq(Step) /\ todo[s] # <<>> /\ pc[s] \in {"work", "unwind"} /\ Now(s).act \in A /\ job[s] \in Job
      /\ undo[s] \in Seq(Callbacks) /\ mem[s] \in Entries
  BY DEF AtStep, Now, Typed, TypedSessions
<1>2. Now(s) \in Step /\ Tail(todo[s]) \in Seq(Step)
  BY <1>1 DEF Now
<1> QED BY <1>1, <1>2 DEF Step, Pkg, Job

LEMMA AdvanceKeeps ==
    ASSUME Typed, NEW s \in Sessions, NEW A, AtStep(s, A), Advance(s)
    PROVE  TypedSessions'
<1>1. todo' \in [Sessions -> Seq(Step)]
  BY StepFacts DEF Advance, Typed, TypedSessions
<1>2. undo' \in [Sessions -> Seq(Callbacks)]
  <2>1. CASE Now(s).undo = "none"
    BY <2>1 DEF Advance, Typed, TypedSessions
  <2>2. CASE Now(s).undo # "none"
    <3>1. Now(s).undo \in Callbacks /\ undo[s] \in Seq(Callbacks)
      BY <2>2, StepFacts
    <3>2. <<Now(s).undo>> \o undo[s] \in Seq(Callbacks)
      BY <3>1
    <3> QED BY <2>2, <3>2 DEF Advance, Typed, TypedSessions
  <2> QED BY <2>1, <2>2
<1> QED BY <1>1, <1>2 DEF Advance, Typed, TypedSessions

-----------------------------------------------------------------------------
(* What a step does when it succeeds. *)

Enabled(p) == feature[p] # NoFeature /\ feature[p].state = "enabled"
RowAfter(s) ==
    LET t == Now(s)
        row == feature[Pkg(s)]
    IN  CASE t.act = "register" ->
               [state |-> IF row # NoFeature THEN row.state ELSE IF job[s].enable THEN "enabled" ELSE "disabled",
                version |-> t.version]
          [] t.act = "deregister" -> NoFeature
          [] t.act = "update" -> [state |-> IF row = NoFeature THEN "disabled" ELSE row.state, version |-> t.version]
          [] t.act \in {"stop", "start"} -> [state |-> IF t.act = "start" THEN "enabled" ELSE "disabled", version |-> row.version]
          [] OTHER -> row

Control(s) ==
    LET t == Now(s)
    IN  /\ UNCHANGED <<pc, queue, lock, budget, spoiled>>
        /\ IF t.act = "probe"
           THEN job' = [job EXCEPT ![s] = [@ EXCEPT !.running = Enabled(Pkg(s))]] /\ todo' = [todo EXCEPT ![s] = UpgradeRest(job'[s])]
           ELSE job' = job /\ todo' = [todo EXCEPT ![s] = Tail(@)]
        /\ IF t.act = "popAll" THEN undo' = [undo EXCEPT ![s] = <<>>]
           ELSE undo' = IF t.act \in {"probe", "record"} \/ t.undo = "none" THEN undo ELSE [undo EXCEPT ![s] = <<t.undo>> \o @]
Storage(s) ==
    LET t == Now(s)
        p == Pkg(s)
    IN  /\ file' = IF t.act = "truncate" THEN Torn ELSE IF t.act = "dump" THEN mem[s] ELSE file
        /\ IF t.act = "record"
           THEN \E d \in VersionOrNone : mem' = [mem EXCEPT ![s][p] = [version |-> t.version, default |-> d]]
           ELSE mem' = mem
        /\ images' = IF t.act = "pull" THEN images \cup {<<p, t.version>>}
                     ELSE IF t.act = "rmi" THEN images \ {<<p, t.version>>} ELSE images
        /\ order' = IF t.act \in {"fast", "warm"}
                    THEN [order EXCEPT ![t.act] = [q \in Packages |-> IF q = p THEN t.version ELSE VersionIn(mem[s], q)]]
                    ELSE order
Service(s) ==
    LET t == Now(s)
        p == Pkg(s)
    IN  /\ script' = IF t.act \in {"script", "noscript"}
                     THEN [script EXCEPT ![p] = IF t.act = "script" THEN t.version ELSE NoVersion] ELSE script
        /\ t.act = "yang" => yang[p] = NoVersion
        /\ yang' = IF t.act \in {"yang", "noyang"}
                   THEN [yang EXCEPT ![p] = IF t.act = "yang" THEN YangOf(p, t.version) ELSE NoVersion] ELSE yang
        /\ IF t.act \in {"plug", "unplug"} /\ HasPlugin(s)
           THEN plugins' = [plugins EXCEPT ![p][t.cmd] = IF t.act = "plug" THEN t.version ELSE NoVersion]
           ELSE plugins' = plugins
Row(s) ==
    LET t == Now(s)
        p == Pkg(s)
    IN  /\ t.act \in {"stop", "start"} => feature[p] # NoFeature
        /\ feature' = [feature EXCEPT ![p] = RowAfter(s)]
        /\ IF t.act = "register" /\ feature[p] = NoFeature
           THEN asked' = [asked EXCEPT ![p] = IF job[s].enable THEN "enabled" ELSE "disabled"] ELSE asked' = asked

Effect(s) == AtStep(s, Acts) /\ Control(s) /\ Storage(s) /\ Service(s) /\ Row(s)

LEMMA RowShape ==
    ASSUME Typed, NEW p \in Packages, feature[p] # NoFeature
    PROVE  /\ \A v : [feature[p] EXCEPT !.version = v] = [state |-> feature[p].state, version |-> v]
           /\ \A x : [feature[p] EXCEPT !.state = x] = [state |-> x, version |-> feature[p].version]
           /\ feature[p].state \in {"enabled", "disabled"} /\ feature[p].version \in VersionOrNone
  BY DEF Typed, TypedHost, Feature

LEMMA SameRow ==
    ASSUME Typed, NEW s \in Sessions, NEW A, AtStep(s, A), A \cap {"register", "deregister", "update", "stop", "start"} = {},
           UNCHANGED <<feature, asked>>
    PROVE  Row(s)
<1>1. Now(s).act \notin {"register", "deregister", "update", "stop", "start"} /\ Pkg(s) \in Packages
  BY StepFacts
<1>2. RowAfter(s) = feature[Pkg(s)]
  BY <1>1 DEF RowAfter
<1>3. feature = [feature EXCEPT ![Pkg(s)] = feature[Pkg(s)]]
  BY <1>1 DEF Typed, TypedHost
<1> QED BY <1>1, <1>2, <1>3 DEF Row

LEMMA SameStorage ==
    ASSUME Typed, NEW s \in Sessions, NEW A, AtStep(s, A),
           A \cap {"truncate", "dump", "record", "pull", "rmi", "fast", "warm"} = {},
           UNCHANGED <<file, mem, images, order>>
    PROVE  Storage(s)
<1>1. Now(s).act \notin {"truncate", "dump", "record", "pull", "rmi", "fast", "warm"}
  BY StepFacts
<1> QED BY <1>1 DEF Storage

LEMMA SameService ==
    ASSUME Typed, NEW s \in Sessions, NEW A, AtStep(s, A),
           A \cap {"script", "noscript", "yang", "noyang", "plug", "unplug"} = {},
           UNCHANGED <<script, yang, plugins>>
    PROVE  Service(s)
<1>1. Now(s).act \notin {"script", "noscript", "yang", "noyang", "plug", "unplug"}
  BY StepFacts
<1> QED BY <1>1 DEF Service

LEMMA SameControl ==
    ASSUME Typed, NEW s \in Sessions, NEW A, AtStep(s, A), A \cap {"probe", "popAll", "record"} = {},
           Advance(s), UNCHANGED spoiled
    PROVE  Control(s) /\ mem' = mem
<1>1. Now(s).act \notin {"probe", "popAll", "record"}
  BY StepFacts
<1> QED BY <1>1 DEF Control, Advance

LEMMA StepEffect ==
    ASSUME Typed, NEW s \in Sessions, Perform(s)
    PROVE  Effect(s) \/ StepImpossible(s) \/ NextCallback(s) \/ Finish(s)
<1>0. ASSUME NEW A, AtStep(s, A) PROVE AtStep(s, Acts) /\ Now(s).act \in A
  BY <1>0, StepFacts DEF AtStep, Now
<1> DEFINE t == Now(s)
           p == Pkg(s)
<1>1. CASE Pull(s)
  <2>1. AtStep(s, {"pull"}) /\ Advance(s) /\ UNCHANGED <<file, script, yang, feature, plugins, order, asked, spoiled>>
        /\ images' = images \cup {<<p, t.version>>}
    BY <1>1 DEF Pull, ghost
  <2>0. t.act \in {"pull"} /\ p \in Packages
    BY <2>1, <1>0, StepFacts
  <2>2. Control(s) /\ mem' = mem /\ Service(s) /\ Row(s)
    BY <2>1, SameControl, SameService, SameRow
  <2>3. Storage(s)
    BY <2>1, <2>2, <2>0 DEF Storage
  <2> QED BY <2>1, <2>2, <2>3, <1>0 DEF Effect
<1>2. CASE RemoveImage(s)
  <2>1. AtStep(s, {"rmi"}) /\ Advance(s) /\ UNCHANGED <<file, script, yang, feature, plugins, order, asked, spoiled>>
        /\ images' = images \ {<<p, t.version>>}
    BY <1>2 DEF RemoveImage, ghost
  <2>0. t.act \in {"rmi"} /\ p \in Packages
    BY <2>1, <1>0, StepFacts
  <2>2. Control(s) /\ mem' = mem /\ Service(s) /\ Row(s)
    BY <2>1, SameControl, SameService, SameRow
  <2>3. Storage(s)
    BY <2>1, <2>2, <2>0 DEF Storage
  <2> QED BY <2>1, <2>2, <2>3, <1>0 DEF Effect
<1>3. CASE ChangeScripts(s)
  <2>1. AtStep(s, {"script", "noscript"}) /\ Advance(s) /\ UNCHANGED <<file, images, yang, feature, plugins, order, asked, spoiled>>
        /\ script' = [script EXCEPT ![p] = IF t.act = "script" THEN t.version ELSE NoVersion]
    BY <1>3 DEF ChangeScripts, ghost
  <2>0. t.act \in {"script", "noscript"} /\ p \in Packages
    BY <2>1, <1>0, StepFacts
  <2>2. Control(s) /\ mem' = mem
    BY <2>1, SameControl
  <2>3. Storage(s) /\ Row(s)
    BY <2>1, <2>2, SameStorage, SameRow
  <2>4. Service(s)
    BY <2>1, <2>0 DEF Service
  <2> QED BY <2>1, <2>2, <2>3, <2>4, <1>0 DEF Effect
<1>4. CASE InstallYang(s)
  <2>1. AtStep(s, {"yang"}) /\ Advance(s) /\ UNCHANGED <<file, images, script, feature, plugins, order, asked, spoiled>>
        /\ yang[p] = NoVersion /\ yang' = IF p \in WithYang THEN [yang EXCEPT ![p] = t.version] ELSE yang
    BY <1>4 DEF InstallYang, ghost
  <2>2. Control(s) /\ mem' = mem
    BY <2>1, SameControl
  <2>3. Storage(s) /\ Row(s)
    BY <2>1, <2>2, SameStorage, SameRow
  <2>4. t.act = "yang" /\ p \in Packages
    BY <2>1, <1>0, StepFacts
  <2>5. yang' = [yang EXCEPT ![p] = YangOf(p, t.version)]
    BY <2>1, <2>4 DEF YangOf, Typed, TypedHost
  <2>6. Service(s)
    BY <2>1, <2>4, <2>5 DEF Service
  <2> QED BY <2>1, <2>2, <2>3, <2>6, <1>0 DEF Effect
<1>5. CASE UninstallYang(s)
  <2>1. AtStep(s, {"noyang"}) /\ Advance(s) /\ UNCHANGED <<file, images, script, feature, plugins, order, asked, spoiled>>
        /\ yang' = [yang EXCEPT ![p] = NoVersion]
    BY <1>5 DEF UninstallYang, ghost
  <2>0. t.act \in {"noyang"} /\ p \in Packages
    BY <2>1, <1>0, StepFacts
  <2>2. Control(s) /\ mem' = mem
    BY <2>1, SameControl
  <2>3. Storage(s) /\ Row(s)
    BY <2>1, <2>2, SameStorage, SameRow
  <2>4. Service(s)
    BY <2>1, <2>0 DEF Service
  <2> QED BY <2>1, <2>2, <2>3, <2>4, <1>0 DEF Effect
<1>6. CASE Register(s)
  <2> DEFINE w == IF job[s].enable THEN "enabled" ELSE "disabled"
  <2>1. /\ AtStep(s, {"register"}) /\ Advance(s) /\ UNCHANGED <<file, images, script, yang, plugins, order, spoiled>>
        /\ IF feature[p] = NoFeature
           THEN feature' = [feature EXCEPT ![p] = [state |-> w, version |-> t.version]] /\ asked' = [asked EXCEPT ![p] = w]
           ELSE feature' = [feature EXCEPT ![p].version = t.version] /\ asked' = asked
    BY <1>6 DEF Register
  <2>2. Control(s) /\ mem' = mem
    BY <2>1, SameControl
  <2>3. Storage(s) /\ Service(s)
    BY <2>1, <2>2, SameStorage, SameService
  <2>4. t.act = "register" /\ p \in Packages
    BY <2>1, <1>0, StepFacts
  <2>5. Row(s)
    <3>1. CASE feature[p] = NoFeature
      BY <3>1, <2>1, <2>4 DEF Row, RowAfter
    <3>2. CASE feature[p] # NoFeature
      <4>1. [feature[p] EXCEPT !.version = t.version] = [state |-> feature[p].state, version |-> t.version]
        BY <3>2, <2>4, RowShape
      <4> QED BY <3>2, <4>1, <2>1, <2>4 DEF Row, RowAfter
    <3> QED BY <3>1, <3>2
  <2> QED BY <2>1, <2>2, <2>3, <2>5, <1>0 DEF Effect
<1>7. CASE Deregister(s)
  <2>1. AtStep(s, {"deregister"}) /\ Advance(s) /\ UNCHANGED <<file, images, script, yang, plugins, order, asked, spoiled>>
        /\ feature' = [feature EXCEPT ![p] = NoFeature]
    BY <1>7 DEF Deregister, ghost
  <2>0. t.act \in {"deregister"} /\ p \in Packages
    BY <2>1, <1>0, StepFacts
  <2>2. Control(s) /\ mem' = mem
    BY <2>1, SameControl
  <2>3. Storage(s) /\ Service(s)
    BY <2>1, <2>2, SameStorage, SameService
  <2>4. Row(s)
    BY <2>1, <2>0 DEF Row, RowAfter
  <2> QED BY <2>1, <2>2, <2>3, <2>4, <1>0 DEF Effect
<1>8. CASE UpdateFeature(s)
  <2>1. AtStep(s, {"update"}) /\ Advance(s) /\ UNCHANGED <<file, images, script, yang, plugins, order, asked, spoiled>>
        /\ feature' = [feature EXCEPT ![p] = [state |-> IF feature[p] = NoFeature THEN "disabled" ELSE feature[p].state, version |-> t.version]]
    BY <1>8 DEF UpdateFeature, ghost
  <2>0. t.act \in {"update"} /\ p \in Packages
    BY <2>1, <1>0, StepFacts
  <2>2. Control(s) /\ mem' = mem
    BY <2>1, SameControl
  <2>3. Storage(s) /\ Service(s)
    BY <2>1, <2>2, SameStorage, SameService
  <2>4. Row(s)
    BY <2>1, <2>0 DEF Row, RowAfter
  <2> QED BY <2>1, <2>2, <2>3, <2>4, <1>0 DEF Effect
<1>9. CASE SetFeatureState(s)
  <2>1. AtStep(s, {"stop", "start"}) /\ Advance(s) /\ UNCHANGED <<file, images, script, yang, plugins, order, asked, spoiled>>
        /\ feature[p] # NoFeature
        /\ feature' = [feature EXCEPT ![p].state = IF t.act = "start" THEN "enabled" ELSE "disabled"]
    BY <1>9 DEF SetFeatureState, ghost
  <2>2. Control(s) /\ mem' = mem
    BY <2>1, SameControl
  <2>3. Storage(s) /\ Service(s)
    BY <2>1, <2>2, SameStorage, SameService
  <2>4. t.act \in {"stop", "start"} /\ p \in Packages
    BY <2>1, <1>0, StepFacts
  <2>5. \A x : [feature[p] EXCEPT !.state = x] = [state |-> x, version |-> feature[p].version]
    BY <2>1, <2>4, RowShape
  <2>6. Row(s)
    BY <2>1, <2>4, <2>5 DEF Row, RowAfter
  <2> QED BY <2>1, <2>2, <2>3, <2>6, <1>0 DEF Effect
<1>10. CASE AwaitFeature(s)
  <2>1. AtStep(s, {"await"}) /\ Advance(s) /\ UNCHANGED <<file, images, script, yang, feature, plugins, order, asked, spoiled>>
    BY <1>10 DEF AwaitFeature, ghost, host
  <2>2. Control(s) /\ mem' = mem
    BY <2>1, SameControl
  <2>3. Storage(s) /\ Service(s) /\ Row(s)
    BY <2>1, <2>2, SameStorage, SameService, SameRow
  <2> QED BY <2>1, <2>2, <2>3, <1>0 DEF Effect
<1>11. CASE ProbeFeature(s)
  <2> DEFINE j == [job[s] EXCEPT !.running = Enabled(p)]
  <2>1. AtStep(s, {"probe"}) /\ UNCHANGED <<file, images, script, yang, feature, plugins, order, asked, spoiled, mem, undo, pc, queue, lock, budget>>
        /\ job' = [job EXCEPT ![s] = j] /\ todo' = [todo EXCEPT ![s] = UpgradeRest(j)]
    BY <1>11 DEF ProbeFeature, ghost, host, Enabled
  <2>2. Storage(s) /\ Service(s) /\ Row(s)
    BY <2>1, SameStorage, SameService, SameRow
  <2>3. job'[s] = j
    BY <2>1 DEF Typed, TypedSessions
  <2>4. t.act = "probe"
    BY <2>1, <1>0
  <2>5. Control(s)
    BY <2>1, <2>3, <2>4 DEF Control
  <2> QED BY <2>1, <2>2, <2>5, <1>0 DEF Effect
<1>12. CASE InstallPlugin(s)
  <2>1. AtStep(s, {"plug"}) /\ Advance(s) /\ UNCHANGED <<file, images, script, yang, feature, order, asked, spoiled>>
        /\ plugins' = IF HasPlugin(s) THEN [plugins EXCEPT ![p][t.cmd] = t.version] ELSE plugins
    BY <1>12 DEF InstallPlugin, ghost
  <2>0. t.act \in {"plug"} /\ p \in Packages
    BY <2>1, <1>0, StepFacts
  <2>2. Control(s) /\ mem' = mem
    BY <2>1, SameControl
  <2>3. Storage(s) /\ Row(s)
    BY <2>1, <2>2, SameStorage, SameRow
  <2>4. Service(s)
    BY <2>1, <2>0 DEF Service
  <2> QED BY <2>1, <2>2, <2>3, <2>4, <1>0 DEF Effect
<1>13. CASE UninstallPlugin(s)
  <2>1. AtStep(s, {"unplug"}) /\ Advance(s) /\ UNCHANGED <<file, images, script, yang, feature, order, asked, spoiled>>
        /\ plugins' = IF HasPlugin(s) THEN [plugins EXCEPT ![p][t.cmd] = NoVersion] ELSE plugins
    BY <1>13 DEF UninstallPlugin, ghost
  <2>0. t.act \in {"unplug"} /\ p \in Packages
    BY <2>1, <1>0, StepFacts
  <2>2. Control(s) /\ mem' = mem
    BY <2>1, SameControl
  <2>3. Storage(s) /\ Row(s)
    BY <2>1, <2>2, SameStorage, SameRow
  <2>4. Service(s)
    BY <2>1, <2>0 DEF Service
  <2> QED BY <2>1, <2>2, <2>3, <2>4, <1>0 DEF Effect
<1>14. CASE WriteOrder(s)
  <2>1. AtStep(s, {"fast", "warm"}) /\ Advance(s) /\ UNCHANGED <<file, images, script, yang, feature, plugins, asked, spoiled>>
        /\ order' = [order EXCEPT ![t.act] = [q \in Packages |-> IF q = p THEN t.version ELSE VersionIn(mem[s], q)]]
    BY <1>14 DEF WriteOrder, ghost
  <2>0. t.act \in {"fast", "warm"} /\ p \in Packages
    BY <2>1, <1>0, StepFacts
  <2>2. Control(s) /\ mem' = mem
    BY <2>1, SameControl
  <2>3. Service(s) /\ Row(s)
    BY <2>1, SameService, SameRow
  <2>4. Storage(s)
    BY <2>1, <2>2, <2>0 DEF Storage
  <2> QED BY <2>1, <2>2, <2>3, <2>4, <1>0 DEF Effect
<1>15. CASE ForgetCallbacks(s)
  <2>1. AtStep(s, {"popAll"}) /\ UNCHANGED <<file, images, script, yang, feature, plugins, order, asked, spoiled, mem, job, pc, queue, lock, budget>>
        /\ undo' = [undo EXCEPT ![s] = <<>>] /\ todo' = [todo EXCEPT ![s] = Tail(@)]
    BY <1>15 DEF ForgetCallbacks, ghost, host
  <2>0. t.act \in {"popAll"} /\ p \in Packages
    BY <2>1, <1>0, StepFacts
  <2>2. Storage(s) /\ Service(s) /\ Row(s)
    BY <2>1, SameStorage, SameService, SameRow
  <2>3. Control(s)
    BY <2>1, <2>0 DEF Control
  <2> QED BY <2>1, <2>2, <2>3, <1>0 DEF Effect
<1>16. CASE Record(s)
  <2> DEFINE e == IF mem[s][p] = NotListed THEN NoVersion ELSE mem[s][p].default
             d == IF e = NoVersion /\ job[s].new # NoVersion /\ job[s].from # "tarball" THEN job[s].new ELSE e
  <2>1. AtStep(s, {"record"}) /\ UNCHANGED <<file, images, script, yang, feature, plugins, order, asked, spoiled, undo, job, pc, queue, lock, budget>>
        /\ mem' = [mem EXCEPT ![s][p] = [version |-> t.version, default |-> d]] /\ todo' = [todo EXCEPT ![s] = Tail(@)]
    BY <1>16 DEF Record, ghost, host
  <2>0. t.act \in {"record"} /\ p \in Packages
    BY <2>1, <1>0, StepFacts
  <2>2. mem[s] \in Entries /\ p \in Packages /\ job[s] \in Job
    BY <2>1, StepFacts
  <2>3. d \in VersionOrNone
    BY <2>2, VersionFacts DEF Job, VersionOrNone
  <2>4. Service(s) /\ Row(s)
    BY <2>1, SameService, SameRow
  <2> HIDE DEF d
  <2>5. Storage(s)
    BY <2>1, <2>3, <2>0 DEF Storage
  <2>6. Control(s)
    BY <2>1, <2>0 DEF Control
  <2> QED BY <2>1, <2>4, <2>5, <2>6, <1>0 DEF Effect
<1>17. CASE OpenFile(s)
  <2>1. AtStep(s, {"truncate"}) /\ Advance(s) /\ UNCHANGED <<images, script, yang, feature, plugins, order, asked, spoiled>> /\ file' = Torn
    BY <1>17 DEF OpenFile, ghost, host
  <2>2. Control(s) /\ mem' = mem /\ Service(s) /\ Row(s)
    BY <2>1, SameControl, SameService, SameRow
  <2>3. Storage(s)
    BY <2>1, <2>2, <1>0 DEF Storage
  <2> QED BY <2>1, <2>2, <2>3, <1>0 DEF Effect
<1>18. CASE DumpFile(s)
  <2>1. AtStep(s, {"dump"}) /\ Advance(s) /\ UNCHANGED <<images, script, yang, feature, plugins, order, asked, spoiled>> /\ file' = mem[s]
    BY <1>18 DEF DumpFile, ghost, host
  <2>2. Control(s) /\ mem' = mem /\ Service(s) /\ Row(s)
    BY <2>1, SameControl, SameService, SameRow
  <2>3. Storage(s)
    BY <2>1, <2>2, <1>0 DEF Storage
  <2> QED BY <2>1, <2>2, <2>3, <1>0 DEF Effect
<1> QED BY <1>1, <1>2, <1>3, <1>4, <1>5, <1>6, <1>7, <1>8, <1>9, <1>10, <1>11, <1>12, <1>13, <1>14, <1>15, <1>16, <1>17, <1>18 DEF Perform

-----------------------------------------------------------------------------
(* Every step keeps the types. *)

LEMMA RunningJob ==
    ASSUME NEW j \in Job, NEW b \in BOOLEAN
    PROVE  /\ [j EXCEPT !.running = b] \in Job /\ [j EXCEPT !.running = b].running = b
           /\ [j EXCEPT !.running = b].pkg = j.pkg /\ [j EXCEPT !.running = b].old = j.old
           /\ [j EXCEPT !.running = b].new = j.new /\ [j EXCEPT !.running = b].skip = j.skip
  BY DEF Job

LEMMA EffectTyped ==
    ASSUME Typed, NEW s \in Sessions, Effect(s)
    PROVE  Typed'
<1> DEFINE t == Now(s)
           p == Pkg(s)
<1>1. /\ todo[s] \in Seq(Step) /\ todo[s] # <<>> /\ t.act \in Acts /\ Tail(todo[s]) \in Seq(Step)
      /\ t.version \in VersionOrNone /\ t.undo \in Callbacks \cup {"none"} /\ p \in Packages /\ job[s] \in Job
      /\ undo[s] \in Seq(Callbacks) /\ mem[s] \in Entries
  BY StepFacts DEF Effect
<1>2. Control(s) /\ Storage(s) /\ Service(s) /\ Row(s)
  BY DEF Effect
<1>0. NoVersion \in VersionOrNone
  BY DEF VersionOrNone
<1>3. file' \in Entries \cup {Torn}
  BY <1>1, <1>2 DEF Storage, Typed, TypedHost
<1>4. mem' \in [Sessions -> Entries]
  <2>1. ASSUME NEW d \in VersionOrNone PROVE [mem EXCEPT ![s][p] = [version |-> t.version, default |-> d]] \in [Sessions -> Entries]
    <3> DEFINE e == [version |-> t.version, default |-> d]
    <3>1. e \in Entry
      BY <1>1 DEF Entry
    <3> HIDE DEF e
    <3>2. [mem[s] EXCEPT ![p] = e] \in Entries
      BY <3>1, <1>1 DEF Entries
    <3> QED BY <3>2 DEF e, Typed, TypedSessions
  <2>2. mem' = mem \/ \E d \in VersionOrNone : mem' = [mem EXCEPT ![s][p] = [version |-> t.version, default |-> d]]
    BY <1>2 DEF Storage
  <2> QED BY <2>1, <2>2 DEF Typed, TypedSessions
<1>5. images' \subseteq Packages \X VersionOrNone
  BY <1>1, <1>2 DEF Storage, Typed, TypedHost
<1>6. order' \in [{"fast", "warm"} -> [Packages -> VersionOrNone]]
  <2>1. [q \in Packages |-> IF q = p THEN t.version ELSE VersionIn(mem[s], q)] \in [Packages -> VersionOrNone]
    BY <1>1, VersionFacts
  <2> DEFINE f == [q \in Packages |-> IF q = p THEN t.version ELSE VersionIn(mem[s], q)]
  <2>2. order' = IF t.act \in {"fast", "warm"} THEN [order EXCEPT ![t.act] = f] ELSE order
    BY <1>2 DEF Storage
  <2> HIDE DEF f
  <2> QED BY <2>1, <2>2 DEF Typed, TypedHost, f
<1>7. script' \in [Packages -> VersionOrNone]
  BY <1>0, <1>1, <1>2 DEF Service, Typed, TypedHost
<1>8. yang' \in [Packages -> VersionOrNone]
  <2>1. YangOf(p, t.version) \in VersionOrNone
    BY <1>0, <1>1 DEF YangOf
  <2> QED BY <2>1, <1>0, <1>1, <1>2 DEF Service, Typed, TypedHost
<1>9. plugins' \in [Packages -> [CommandNames -> VersionOrNone]]
  <2> DEFINE v == IF t.act = "plug" THEN t.version ELSE NoVersion
  <2>1. v \in VersionOrNone
    BY <1>0, <1>1
  <2>2. plugins' = plugins \/ plugins' = [plugins EXCEPT ![p][t.cmd] = v]
    BY <1>2 DEF Service
  <2> HIDE DEF v
  <2>3. [plugins[p] EXCEPT ![t.cmd] = v] \in [CommandNames -> VersionOrNone]
    BY <2>1, <1>1 DEF Typed, TypedHost
  <2> QED BY <2>2, <2>3, <1>1 DEF Typed, TypedHost
<1>10. feature' \in [Packages -> Feature]
  <2>1. feature[p] \in Feature
    BY <1>1 DEF Typed, TypedHost
  <2>2. feature[p] # NoFeature => feature[p].state \in {"enabled", "disabled"} /\ feature[p].version \in VersionOrNone
    BY <2>1 DEF Feature
  <2>3. \A x \in {"enabled", "disabled"}, v \in VersionOrNone : [state |-> x, version |-> v] \in Feature
    BY DEF Feature
  <2>4. NoFeature \in Feature
    BY DEF Feature
  <2>5. t.act \in {"stop", "start"} => feature[p] # NoFeature
    BY <1>2 DEF Row
  <2>6. RowAfter(s) \in Feature
    <3>1. CASE t.act = "register"
      <4>1. RowAfter(s) = [state |-> IF feature[p] # NoFeature THEN feature[p].state ELSE IF job[s].enable THEN "enabled" ELSE "disabled",
                           version |-> t.version]
        BY <3>1 DEF RowAfter
      <4> QED BY <4>1, <2>2, <2>3, <1>1
    <3>2. CASE t.act = "deregister"
      BY <3>2, <2>4 DEF RowAfter
    <3>3. CASE t.act = "update"
      <4>1. RowAfter(s) = [state |-> IF feature[p] = NoFeature THEN "disabled" ELSE feature[p].state, version |-> t.version]
        BY <3>3 DEF RowAfter
      <4> QED BY <4>1, <2>2, <2>3, <1>1
    <3>4. CASE t.act \in {"stop", "start"}
      <4>1. RowAfter(s) = [state |-> IF t.act = "start" THEN "enabled" ELSE "disabled", version |-> feature[p].version]
        BY <3>4 DEF RowAfter
      <4> QED BY <4>1, <2>2, <2>3, <2>5, <3>4
    <3>5. CASE t.act \notin {"register", "deregister", "update", "stop", "start"}
      BY <3>5, <2>1 DEF RowAfter
    <3> QED BY <3>1, <3>2, <3>3, <3>4, <3>5
  <2>7. feature' = [feature EXCEPT ![p] = RowAfter(s)]
    BY <1>2 DEF Row
  <2> QED BY <2>6, <2>7 DEF Typed, TypedHost
<1>11. asked' \in [Packages -> AskedState]
  BY <1>1, <1>2 DEF Row, Typed, TypedHost, AskedState
<1>12. TypedHost'
  <2>1. spoiled' = spoiled
    BY <1>2 DEF Control
  <2> QED BY <2>1, <1>3, <1>5, <1>6, <1>7, <1>8, <1>9, <1>10, <1>11 DEF Typed, TypedHost
<1>13. job' \in [Sessions -> Job]
  <2>1. Enabled(p) \in BOOLEAN
    BY DEF Enabled
  <2> DEFINE b == Enabled(p)
  <2>2. job' = job \/ job' = [job EXCEPT ![s] = [@ EXCEPT !.running = b]]
    BY <1>2 DEF Control
  <2> HIDE DEF b
  <2>3. [job[s] EXCEPT !.running = b] \in Job
    BY <2>1, <1>1, RunningJob DEF b
  <2> QED BY <2>2, <2>3 DEF Typed, TypedSessions
<1>14. todo' \in [Sessions -> Seq(Step)]
  <2>1. job'[s] \in Job
    BY <1>13
  <2>2. UpgradeRest(job'[s]) \in Seq(Step)
    BY <2>1, RestTyped
  <2>3. todo' = [todo EXCEPT ![s] = UpgradeRest(job'[s])] \/ todo' = [todo EXCEPT ![s] = Tail(@)]
    BY <1>2 DEF Control
  <2> QED BY <2>2, <2>3, <1>1 DEF Typed, TypedSessions
<1>15. undo' \in [Sessions -> Seq(Callbacks)]
  <2>1. undo' = undo \/ undo' = [undo EXCEPT ![s] = <<>>] \/ (t.undo # "none" /\ undo' = [undo EXCEPT ![s] = <<t.undo>> \o @])
    BY <1>2 DEF Control
  <2>2. <<>> \in Seq(Callbacks) /\ (t.undo # "none" => <<t.undo>> \o undo[s] \in Seq(Callbacks))
    BY <1>1
  <2> QED BY <2>1, <2>2 DEF Typed, TypedSessions
<1>16. TypedSessions'
  <2>1. UNCHANGED <<pc, queue, lock>>
    BY <1>2 DEF Control
  <2> QED BY <2>1, <1>4, <1>13, <1>14, <1>15 DEF Typed, TypedSessions
<1> QED BY <1>12, <1>16 DEF Typed

\* A step that fails, and one that cannot succeed.
Impossible(s) ==
    \/ Now(s).act = "pull" /\ job[s].local
    \/ Now(s).act = "yang" /\ yang[Pkg(s)] # NoVersion
    \/ Now(s).act \in {"stop", "start"} /\ feature[Pkg(s)] = NoFeature
    \/ Now(s).act = "plug" /\ HasPlugin(s) /\ <<Pkg(s), Now(s).version>> \notin images
Fails(s) ==
    /\ AtStep(s, Acts \ {"popAll", "record"}) /\ Raise(s)
    /\ spoiled' = spoiled \cup SpoiledBy(s) \/ (spoiled' = spoiled /\ Impossible(s))

LEMMA FailsStep ==
    ASSUME NEW s \in Sessions, StepFails(s) \/ StepImpossible(s)
    PROVE  Fails(s)
<1>1. CASE StepFails(s)
  BY <1>1 DEF StepFails, Fails
<1>2. CASE StepImpossible(s)
  <2>1. Raise(s) /\ spoiled' = spoiled
    BY <1>2 DEF StepImpossible
  <2>2. AtStep(s, Acts \ {"popAll", "record"})
    BY <1>2 DEF StepImpossible, AtStep, Acts
  <2>3. Impossible(s)
    BY <1>2 DEF StepImpossible, AtStep, Impossible, Now
  <2> QED BY <2>1, <2>2, <2>3 DEF Fails
<1> QED BY <1>1, <1>2

LEMMA FailsTyped ==
    ASSUME Typed, NEW s \in Sessions, Fails(s)
    PROVE  Typed'
<1>1. Now(s) \in Step /\ job[s] \in Job /\ Pkg(s) \in Packages
  BY StepFacts DEF Fails
<1>2. Cleanup(Now(s), job[s]) \in Seq(Step)
  BY <1>1, CleanupTyped
<1>3. todo' \in [Sessions -> Seq(Step)] /\ pc' \in [Sessions -> {"idle", "prompt", "check", "work", "unwind"}]
  BY <1>2 DEF Fails, Raise, Typed, TypedSessions
<1>4. TypedSessions'
  BY <1>3 DEF Fails, Raise, Typed, TypedSessions
<1>5. TypedHost'
  <2>1. spoiled' \subseteq spoiled \cup {Pkg(s)}
    BY DEF Fails, SpoiledBy
  <2> QED BY <2>1, <1>1 DEF Fails, Raise, host, Typed, TypedHost
<1> QED BY <1>4, <1>5 DEF Typed

LEMMA CallbackStep ==
    ASSUME Typed, NEW s \in Sessions, NextCallback(s)
    PROVE  Typed'
<1>1. UNCHANGED <<file, host, ghost>>
  BY DEF NextCallback
<1>2. TypedHost'
  BY <1>1 DEF Typed, TypedHost, host, ghost
<1>3. CASE undo[s] = <<>>
  <2>1. End(s)
    BY <1>3 DEF NextCallback
  <2> QED BY <2>1, <1>2, EndKeeps DEF Typed
<1>4. CASE undo[s] # <<>>
  <2>1. undo[s] \in Seq(Callbacks) /\ job[s] \in Job
    BY DEF Typed, TypedSessions
  <2>2. Head(undo[s]) \in Callbacks /\ Tail(undo[s]) \in Seq(Callbacks)
    BY <2>1, <1>4
  <2>3. Callback(Head(undo[s]), job[s]) \in Seq(Step)
    BY <2>1, <2>2, CallbackTyped
  <2>4. todo' \in [Sessions -> Seq(Step)] /\ undo' \in [Sessions -> Seq(Callbacks)]
    BY <2>2, <2>3, <1>4 DEF NextCallback, Typed, TypedSessions
  <2>5. UNCHANGED <<pc, mem, queue, job, lock>>
    BY <1>4 DEF NextCallback
  <2> QED BY <2>4, <2>5, <1>2 DEF Typed, TypedSessions
<1> QED BY <1>3, <1>4

LEMMA FinishTyped ==
    ASSUME Typed, NEW s \in Sessions, Finish(s)
    PROVE  Typed'
<1>1. UNCHANGED <<file, host, ghost>>
  BY DEF Finish
<1>2. TypedHost'
  BY <1>1 DEF Typed, TypedHost, host, ghost
<1>3. CASE End(s)
  BY <1>2, <1>3, EndKeeps DEF Typed
<1>4. CASE pc' = [pc EXCEPT ![s] = "check"] /\ UNCHANGED <<mem, queue, job, todo, undo, lock>>
  BY <1>2, <1>4 DEF Typed, TypedSessions
<1> QED BY <1>3, <1>4 DEF Finish

LEMMA StartTyped ==
    ASSUME Typed, NEW s \in Sessions, Start(s)
    PROVE  Typed'
<1>1. PICK r \in Requests[s] : queue' = [queue EXCEPT ![s] = <<r>>]
  BY DEF Start
<1>2. r \in Askable
  BY RequestsAssumption DEF Askable
<1>3. file \in Entries
  BY DEF Start, Typed, TypedHost
<1>4. queue' \in [Sessions -> Seq(Askable)] /\ mem' \in [Sessions -> Entries]
      /\ pc' \in [Sessions -> {"idle", "prompt", "check", "work", "unwind"}]
  BY <1>1, <1>2, <1>3 DEF Start, Typed, TypedSessions
<1>5. UNCHANGED <<file, host, lock, job, todo, undo, ghost>>
  BY DEF Start
<1> QED BY <1>4, <1>5 DEF Typed, TypedSessions, TypedHost, host, ghost

LEMMA EnterTyped ==
    ASSUME Typed, NEW s \in Sessions, Enter(s)
    PROVE  Typed'
<1>1. UNCHANGED <<file, host, ghost>>
  BY DEF Enter
<1>2. TypedHost'
  BY <1>1 DEF Typed, TypedHost, host, ghost
<1>3. CASE End(s)
  BY <1>2, <1>3, EndKeeps DEF Typed
<1>4. CASE lock' = s /\ pc' = [pc EXCEPT ![s] = "check"] /\ UNCHANGED <<mem, queue, job, todo, undo>>
  BY <1>2, <1>4 DEF Typed, TypedSessions
<1> QED BY <1>3, <1>4 DEF Enter

LEMMA KillTyped ==
    ASSUME Typed, NEW s \in Sessions, Kill(s)
    PROVE  Typed'
<1>1. End(s) /\ UNCHANGED <<file, host, asked>>
  BY DEF Kill
<1>2. job[s].pkg \in Packages
  BY DEF Typed, TypedSessions, Job
<1>3. spoiled' \subseteq Packages
  BY <1>2 DEF Kill, Pkg, Typed, TypedHost
<1> QED BY <1>1, <1>3, EndKeeps DEF Typed, TypedHost, host

\* A toggle changes the state in one row, and what the user has asked for.
LEMMA ToggleRow ==
    ASSUME Typed, NEW p \in Packages, Toggle(p)
    PROVE  /\ UNCHANGED <<file, images, script, yang, plugins, order, lock, session, spoiled>>
           /\ feature' \in [Packages -> Feature] /\ asked' \in [Packages -> AskedState]
           /\ feature[p] # NoFeature /\ feature'[p] # NoFeature /\ feature'[p].version = feature[p].version
           /\ Agrees(feature'[p].state, asked'[p])
           /\ Upgrading(p) => asked'[p] = "either"
           /\ \A q \in Packages \ {p} : feature'[q] = feature[q] /\ asked'[q] = asked[q]
<1>1. PICK x \in {"enabled", "disabled"} :
         /\ feature' = [feature EXCEPT ![p] = [@ EXCEPT !.state = x]]
         /\ asked' = [asked EXCEPT ![p] = IF Upgrading(p) THEN "either" ELSE x]
  BY DEF Toggle
<1>2. feature[p] # NoFeature /\ UNCHANGED <<file, images, script, yang, plugins, order, lock, session, spoiled>>
  BY DEF Toggle
<1>3. [feature[p] EXCEPT !.state = x] = [state |-> x, version |-> feature[p].version] /\ feature[p].version \in VersionOrNone
  BY <1>2, RowShape
<1>4. feature' \in [Packages -> Feature]
  BY <1>1, <1>3 DEF Typed, TypedHost, Feature
<1>5. feature'[p] = [state |-> x, version |-> feature[p].version] /\ asked'[p] = IF Upgrading(p) THEN "either" ELSE x
  BY <1>1, <1>3 DEF Typed, TypedHost
<1>6. feature'[p] # NoFeature /\ feature'[p].state = x /\ feature'[p].version = feature[p].version
  <2>1. [state |-> x, version |-> feature[p].version] \in [state : {"enabled", "disabled"}, version : VersionOrNone]
    BY <1>3
  <2> QED BY <1>5, <2>1, FeaturesAssumption
<1>7. \A q \in Packages \ {p} : feature'[q] = feature[q] /\ asked'[q] = asked[q]
  BY <1>1 DEF Typed, TypedHost
<1>8. asked' \in [Packages -> AskedState]
  BY <1>1 DEF Typed, TypedHost, AskedState
<1> QED BY <1>2, <1>4, <1>5, <1>6, <1>7, <1>8 DEF Agrees

LEMMA ToggleTyped ==
    ASSUME Typed, NEW p \in Packages, Toggle(p)
    PROVE  Typed'
  BY ToggleRow DEF Typed, TypedHost, TypedSessions, session

-----------------------------------------------------------------------------
(* The steps of the system, the lock, and the sessions that do not take the step. *)

\* All that Next may be.
Moved(s) ==
    \/ Start(s) \/ Enter(s) \/ Begins(s) \/ Refuses(s) \/ Merges(s) \/ Effect(s) \/ Fails(s)
    \/ NextCallback(s) \/ Finish(s) \/ Kill(s)

LEMMA NextMoved ==
    ASSUME Typed, [Next]_vars
    PROVE  (\E s \in Sessions : Moved(s)) \/ (\E p \in Packages : Toggle(p)) \/ UNCHANGED vars
<1>1. ASSUME NEW s \in Sessions, Start(s) \/ Enter(s) \/ Check(s) \/ Perform(s) \/ StepFails(s) \/ Kill(s)
      PROVE  Moved(s)
  <2>1. CASE Check(s)
    BY <2>1, CheckOutcome DEF Moved
  <2>2. CASE Perform(s)
    BY <2>2, StepEffect, FailsStep DEF Moved
  <2>3. CASE StepFails(s)
    BY <2>3, FailsStep DEF Moved
  <2> QED BY <1>1, <2>1, <2>2, <2>3 DEF Moved
<1> QED BY <1>1 DEF Next

LEMMA NextTyped ==
    ASSUME Typed, [Next]_vars
    PROVE  Typed'
<1>1. ASSUME NEW s \in Sessions, Moved(s) PROVE Typed'
  <2>1. CASE Refuses(s)
    <3>1. End(s) /\ UNCHANGED <<file, host, ghost>>
      BY <2>1 DEF Refuses, Refuse
    <3> QED BY <3>1, EndKeeps DEF Typed, TypedHost, host, ghost
  <2>2. CASE Merges(s)
    <3>1. mem' \in [Sessions -> Entries] /\ queue' \in [Sessions -> Seq(Askable)]
      BY <2>2 DEF Merges, Typed, TypedSessions
    <3>2. UNCHANGED <<file, host, lock, pc, job, todo, undo, ghost>>
      BY <2>2 DEF Merges
    <3> QED BY <3>1, <3>2 DEF Typed, TypedHost, TypedSessions, host, ghost
  <2> QED BY <1>1, <2>1, <2>2, StartTyped, EnterTyped, BeginKeeps, EffectTyped, FailsTyped, CallbackStep, FinishTyped, KillTyped DEF Moved
<1>2. CASE UNCHANGED vars
  BY <1>2 DEF vars, session, Typed, TypedHost, TypedSessions, host, ghost
<1> QED BY <1>1, <1>2, ToggleTyped, NextMoved

LEMMA InitTyped ==
    ASSUME Init
    PROVE  Typed /\ Locking
<1>1. Shipped \in Entries /\ NoJob \in Job /\ NoVersion \in VersionOrNone /\ Nobody \notin Sessions
  BY PackagesAssumption, JobExists DEF VersionOrNone
<1>2. \A p \in Packages : VersionIn(Shipped, p) \in VersionOrNone
  BY <1>1, VersionFacts
<1>3. \A p \in Installed(Shipped) : p \in Packages /\ Shipped[p].version \in VersionOrNone
  BY <1>1, VersionFacts DEF Installed
<1>4. script \in [Packages -> VersionOrNone]
  BY <1>2 DEF Init
<1>5. yang \in [Packages -> VersionOrNone] /\ order \in [{"fast", "warm"} -> [Packages -> VersionOrNone]]
  <2>1. order = [fast |-> script, warm |-> script]
    BY DEF Init
  <2>2. yang \in [Packages -> VersionOrNone]
    BY <1>1, <1>4 DEF Init
  <2> QED BY <1>4, <2>1, <2>2
<1>6. feature \in [Packages -> Feature]
  BY <1>3 DEF Init, Feature
<1>7. plugins \in [Packages -> [CommandNames -> VersionOrNone]]
  BY <1>1 DEF Init, NoPlugins
<1>8. TypedHost
  <2>1. images \subseteq Packages \X VersionOrNone
    BY <1>3 DEF Init
  <2>2. file \in Entries \cup {Torn} /\ asked \in [Packages -> AskedState] /\ spoiled \subseteq Packages
    BY <1>1 DEF Init, AskedState
  <2> QED BY <1>4, <1>5, <1>6, <1>7, <2>1, <2>2 DEF TypedHost
<1>9. TypedSessions
  <2>1. <<>> \in Seq(Askable) /\ <<>> \in Seq(Step) /\ <<>> \in Seq(Callbacks)
    OBVIOUS
  <2> QED BY <2>1, <1>1 DEF Init, TypedSessions
<1>10. Locking
  BY <1>1 DEF Init, Locking, Locked
<1> QED BY <1>8, <1>9, <1>10 DEF Typed

\* The variables of a session.
Same(u) ==
    /\ pc'[u] = pc[u] /\ mem'[u] = mem[u] /\ queue'[u] = queue[u] /\ job'[u] = job[u]
    /\ todo'[u] = todo[u] /\ undo'[u] = undo[u]

LEMMA EndOwn ==
    ASSUME TypedSessions, NEW s \in Sessions, End(s)
    PROVE  /\ \A u \in Sessions \ {s} : Same(u)
           /\ pc'[s] = "idle" /\ (lock = s => lock' = Nobody) /\ (lock # s => lock' = lock)
  BY DEF End, Same, TypedSessions

LEMMA OthersSame ==
    ASSUME Typed, NEW s \in Sessions, Moved(s), NEW u \in Sessions \ {s}
    PROVE  Same(u)
<1>0. TypedSessions
  BY DEF Typed
<1>1. CASE End(s)
  BY <1>0, <1>1, EndOwn
<1>2. CASE Start(s)
  <2>1. PICK r \in Requests[s] : queue' = [queue EXCEPT ![s] = <<r>>]
    BY <1>2 DEF Start
  <2> QED BY <1>0, <1>2, <2>1 DEF Start, Same, TypedSessions
<1>3. CASE Enter(s)
  BY <1>0, <1>1, <1>3 DEF Enter, Same, TypedSessions
<1>4. CASE Begins(s)
  <2> PICK m, j, q : Begin(s, m, j, q)
    BY <1>4 DEF Begins
  <2> QED BY <1>0 DEF Begin, Same, TypedSessions
<1>5. CASE Refuses(s)
  BY <1>1, <1>5 DEF Refuses, Refuse
<1>6. CASE Merges(s)
  BY <1>0, <1>6 DEF Merges, Same, TypedSessions
<1>7. CASE Effect(s)
  <2>1. Control(s) /\ Storage(s)
    BY <1>7 DEF Effect
  <2>2. mem' = mem \/ \E d \in VersionOrNone : mem' = [mem EXCEPT ![s][Pkg(s)] = [version |-> Now(s).version, default |-> d]]
    BY <2>1 DEF Storage
  <2>3. mem'[u] = mem[u]
    BY <1>0, <2>2 DEF TypedSessions
  <2>4. /\ pc' = pc /\ queue' = queue
        /\ job' = job \/ job' = [job EXCEPT ![s] = [@ EXCEPT !.running = Enabled(Pkg(s))]]
        /\ todo' = [todo EXCEPT ![s] = UpgradeRest(job'[s])] \/ todo' = [todo EXCEPT ![s] = Tail(@)]
        /\ undo' = undo \/ undo' = [undo EXCEPT ![s] = <<>>] \/ undo' = [undo EXCEPT ![s] = <<Now(s).undo>> \o @]
    BY <2>1 DEF Control
  <2>5. job'[u] = job[u] /\ todo'[u] = todo[u] /\ undo'[u] = undo[u]
    BY <1>0, <2>4 DEF TypedSessions
  <2> QED BY <2>3, <2>4, <2>5 DEF Same
<1>8. CASE Fails(s)
  BY <1>0, <1>8 DEF Fails, Raise, Same, TypedSessions
<1>9. CASE NextCallback(s)
  BY <1>0, <1>1, <1>9 DEF NextCallback, Same, TypedSessions
<1>10. CASE Finish(s)
  BY <1>0, <1>1, <1>10 DEF Finish, Same, TypedSessions
<1>11. CASE Kill(s)
  BY <1>1, <1>11 DEF Kill
<1> QED BY <1>2, <1>3, <1>4, <1>5, <1>6, <1>7, <1>8, <1>9, <1>10, <1>11 DEF Moved

\* What a step does to its session's counter and to the lock.
LEMMA Turns ==
    ASSUME Typed, Locking, NEW s \in Sessions, Moved(s)
    PROVE  \/ pc[s] \notin Locked /\ pc'[s] \notin Locked /\ lock' = lock
           \/ pc[s] \in Locked /\ pc'[s] \in Locked /\ lock' = lock
           \/ lock = Nobody /\ pc'[s] \in Locked /\ lock' = s
           \/ pc[s] \in Locked /\ pc'[s] \notin Locked /\ lock' = Nobody
<1>0. TypedSessions /\ Nobody \notin Sessions /\ (lock = s <=> pc[s] \in Locked)
  BY PackagesAssumption DEF Typed, Locking
<1>1. CASE End(s)
  BY <1>0, <1>1, EndOwn DEF Locked
<1>2. CASE Start(s)
  BY <1>0, <1>2 DEF Start, TypedSessions, Locked
<1>3. CASE Enter(s)
  <2>1. CASE lock = Nobody
    BY <1>0, <1>3, <2>1 DEF Enter, TypedSessions, Locked
  <2> QED BY <2>1, <1>1, <1>3 DEF Enter
<1>4. CASE Begins(s)
  <2> PICK m, j, q : Begin(s, m, j, q) /\ pc[s] = "check"
    BY <1>4 DEF Begins
  <2> QED BY <1>0 DEF Begin, TypedSessions, Locked
<1>5. CASE Refuses(s)
  BY <1>1, <1>5 DEF Refuses, Refuse
<1>6. CASE Merges(s)
  BY <1>0, <1>6 DEF Merges, TypedSessions, Locked
<1>7. CASE Effect(s)
  <2>1. UNCHANGED <<pc, lock>> /\ pc[s] \in {"work", "unwind"}
    BY <1>7 DEF Effect, Control, AtStep
  <2> QED BY <1>0, <2>1 DEF Locked
<1>8. CASE Fails(s)
  <2>1. pc' = [pc EXCEPT ![s] = "unwind"] /\ lock' = lock /\ pc[s] \in {"work", "unwind"}
    BY <1>8 DEF Fails, Raise, AtStep
  <2> QED BY <1>0, <2>1 DEF Locked, TypedSessions
<1>9. CASE NextCallback(s)
  <2>1. pc[s] = "unwind" /\ (End(s) \/ UNCHANGED <<pc, lock>>)
    BY <1>9 DEF NextCallback
  <2> QED BY <1>0, <1>1, <2>1 DEF Locked
<1>10. CASE Finish(s)
  <2>1. pc[s] = "work" /\ (End(s) \/ (pc' = [pc EXCEPT ![s] = "check"] /\ lock' = lock))
    BY <1>10 DEF Finish
  <2> QED BY <1>0, <1>1, <2>1 DEF Locked, TypedSessions
<1>11. CASE Kill(s)
  BY <1>1, <1>11 DEF Kill
<1> QED BY <1>2, <1>3, <1>4, <1>5, <1>6, <1>7, <1>8, <1>9, <1>10, <1>11 DEF Moved

LEMMA NextLocking ==
    ASSUME Typed, Locking, [Next]_vars
    PROVE  Locking'
<1>1. ASSUME NEW s \in Sessions, Moved(s) PROVE Locking'
  <2>1. \A u \in Sessions \ {s} : pc'[u] = pc[u]
    BY <1>1, OthersSame DEF Same
  <2>2. Nobody \notin Sessions
    BY PackagesAssumption
  <2> QED BY <1>1, <2>1, <2>2, Turns DEF Locking
<1>2. CASE \E p \in Packages : Toggle(p)
  <2>1. UNCHANGED <<pc, lock>>
    BY <1>2 DEF Toggle, session
  <2> QED BY <2>1 DEF Locking
<1>3. CASE UNCHANGED vars
  BY <1>3 DEF vars, session, Locking
<1> QED BY <1>1, <1>2, <1>3, NextMoved

-----------------------------------------------------------------------------
(* What a step finds done, and leaves done. *)

LEMMA OrderMade ==
    ASSUME NEW j, ~Commits(j), j.old = NoVersion \/ j.new = NoVersion \/ Upgrades(j), NEW a, NEW c, <<a, c>> \in Undo(j),
           NEW h, h = LabelOf(a, c), NEW h2, <<h, h2>> \in Order(j)
    PROVE  /\ h2 \in ScriptDone(j) => (h \in ScriptDone(j) /\ a \notin {"script", "noscript"}) \/ a = "script" \/ (a = "noscript" /\ Removes(j))
           /\ h2 \in YangDone(j) => (h \in YangDone(j) /\ a \notin {"yang", "noyang"}) \/ a = "yang" \/ (a = "noyang" /\ Removes(j))
           /\ h2 \in RowDone(j) => (h \in RowDone(j) /\ a \notin {"register", "deregister", "update"}) \/ a \in {"register", "update"}
                                   \/ (a = "deregister" /\ Removes(j))
           /\ h2 \in FastMade => (h \in FastMade /\ a # "fast") \/ a = "fast"
           /\ h2 \in WarmMade => (h \in WarmMade /\ a # "warm") \/ a = "warm"
           /\ h2 \in Recorded => (h \in Recorded /\ a # "record") \/ a = "record"
<1>1. CASE Installs(j)
  <2>1. <<a, c>> \in InstallUndo /\ <<h, h2>> \in InstallOrder /\ ~Removes(j) /\ ~Upgrades(j)
    BY <1>1 DEF Undo, Order, Installs, Removes, Upgrades
  <2>2. ScriptDone(j) = ScriptMade /\ YangDone(j) = YangMade /\ RowDone(j) = RowMade \cup {"fast", "warm"}
    BY <2>1 DEF ScriptDone, YangDone, RowDone
  <2>3. CASE a \in {"plug", "popAll", "record", "truncate", "dump"}
    BY <2>1, <2>2, <2>3 DEF InstallUndo, CommitUndo, LabelOf, InstallOrder, CommitOrder, ScriptMade, YangMade, RowMade, FastMade, WarmMade, Recorded
  <2>4. CASE a \in {"pull", "script", "yang", "register", "fast", "warm"}
    BY <2>1, <2>2, <2>4 DEF InstallUndo, CommitUndo, LabelOf, InstallOrder, CommitOrder, ScriptMade, YangMade, RowMade, FastMade, WarmMade, Recorded
  <2>5. a \in {"pull", "script", "yang", "register", "fast", "warm", "plug", "popAll", "record", "truncate", "dump"}
    BY <2>1 DEF InstallUndo, CommitUndo
  <2> QED BY <2>3, <2>4, <2>5
<1>2. CASE Upgrades(j)
  <2> DEFINE r == j.running
  <2>1. <<a, c>> \in UpgradeUndo /\ <<h, h2>> \in UpgradeOrder(r) /\ ~Removes(j)
    BY <1>2 DEF Undo, Order, Installs, Removes, Upgrades
  <2>2. ScriptDone(j) = ScriptMade /\ YangDone(j) = YangMade /\ RowDone(j) = RowMade
    BY <2>1, <1>2 DEF ScriptDone, YangDone, RowDone
  <2> HIDE DEF r
  <2>3. CASE a \in {"plug", "popAll", "record", "truncate", "dump", "rmi"}
    BY <2>1, <2>2, <2>3 DEF UpgradeUndo, CommitUndo, LabelOf, UpgradeOrder, CommitOrder, ScriptMade, YangMade, RowMade, FastMade, WarmMade, Recorded
  <2>4. CASE a \in {"pull", "script", "yang", "update", "fast", "warm"}
    BY <2>1, <2>2, <2>4 DEF UpgradeUndo, CommitUndo, LabelOf, UpgradeOrder, CommitOrder, ScriptMade, YangMade, RowMade, FastMade, WarmMade, Recorded
  <2>5. CASE a \in {"unplug", "probe", "stop", "await", "noscript", "noyang", "start"}
    BY <2>1, <2>2, <2>5 DEF UpgradeUndo, CommitUndo, LabelOf, UpgradeOrder, CommitOrder, ScriptMade, YangMade, RowMade, FastMade, WarmMade, Recorded
  <2>6. a \in {"plug", "popAll", "record", "truncate", "dump", "rmi", "pull", "script", "yang", "update", "fast", "warm",
               "unplug", "probe", "stop", "await", "noscript", "noyang", "start"}
    BY <2>1 DEF UpgradeUndo, CommitUndo
  <2> QED BY <2>3, <2>4, <2>5, <2>6
<1>3. CASE Removes(j)
  <2>1. <<a, c>> \in RemoveUndo /\ <<h, h2>> \in RemoveOrder /\ ~Upgrades(j)
    BY <1>3 DEF Undo, Order, Installs, Removes, Upgrades
  <2>2. ScriptDone(j) = ScriptMade \cup {"noyang", "deregister"} /\ YangDone(j) = YangMade \cup {"deregister"}
        /\ RowDone(j) = RowMade \cup {"fast", "warm"}
    BY <2>1, <1>3 DEF ScriptDone, YangDone, RowDone
  <2>3. CASE a \in {"popAll", "record", "truncate", "dump", "rmi", "fast", "warm"}
    BY <2>1, <2>2, <2>3, <1>3 DEF RemoveUndo, CommitUndo, LabelOf, RemoveOrder, CommitOrder, ScriptMade, YangMade, RowMade, FastMade, WarmMade, Recorded
  <2>4. CASE a \in {"stop", "await", "unplug", "noscript", "noyang", "deregister"}
    BY <2>1, <2>2, <2>4, <1>3 DEF RemoveUndo, CommitUndo, LabelOf, RemoveOrder, CommitOrder, ScriptMade, YangMade, RowMade, FastMade, WarmMade, Recorded
  <2>5. a \in {"stop", "await", "unplug", "noscript", "noyang", "deregister", "popAll", "record", "truncate", "dump", "rmi", "fast", "warm"}
    BY <2>1 DEF RemoveUndo, CommitUndo
  <2> QED BY <2>3, <2>4, <2>5
<1> QED BY <1>1, <1>2, <1>3 DEF Commits, Installs, Removes, Upgrades

LEMMA OrderReady ==
    ASSUME NEW j, Installs(j) \/ Upgrades(j), NEW a, NEW c, <<a, c>> \in Undo(j),
           NEW h, h = LabelOf(a, c), NEW h2, <<h, h2>> \in Order(j)
    PROVE  /\ h2 \in ImageMade => h \in ImageMade \/ a = "pull"
           /\ h2 \notin Opening => (h \notin Opening /\ a # "unplug") \/ (h = "pull" /\ a = "pull" /\ Installs(j))
           /\ ~(h2 = "pull" /\ Installs(j))
           /\ h2 \in Opening /\ Upgrades(j) => h \in Opening
<1>1. CASE Installs(j)
  <2>1. <<a, c>> \in InstallUndo /\ <<h, h2>> \in InstallOrder /\ ~Upgrades(j)
    BY <1>1 DEF Undo, Order, Installs, Upgrades
  <2> QED BY <2>1 DEF InstallUndo, CommitUndo, LabelOf, InstallOrder, CommitOrder, ScriptMade, ImageMade, Opening
<1>2. CASE Upgrades(j)
  <2> DEFINE r == j.running
  <2>1. <<a, c>> \in UpgradeUndo /\ <<h, h2>> \in UpgradeOrder(r) /\ ~Installs(j)
    BY <1>2 DEF Undo, Order, Installs, Upgrades
  <2> HIDE DEF r
  <2>2. CASE a \in {"plug", "popAll", "record", "truncate", "dump", "rmi", "pull", "script", "yang", "update"}
    BY <2>1, <2>2 DEF UpgradeUndo, CommitUndo, LabelOf, UpgradeOrder, CommitOrder, ScriptMade, ImageMade, Opening
  <2>3. CASE a \in {"fast", "warm", "unplug", "probe", "stop", "await", "noscript", "noyang", "start"}
    BY <2>1, <2>3 DEF UpgradeUndo, CommitUndo, LabelOf, UpgradeOrder, CommitOrder, ScriptMade, ImageMade, Opening
  <2>6. a \in {"plug", "popAll", "record", "truncate", "dump", "rmi", "pull", "script", "yang", "update", "fast", "warm",
               "unplug", "probe", "stop", "await", "noscript", "noyang", "start"}
    BY <2>1 DEF UpgradeUndo, CommitUndo
  <2> QED BY <2>2, <2>3, <2>6
<1> QED BY <1>1, <1>2

\* The jobs that are possible.
LEMMA JobKinds ==
    ASSUME NEW j
    PROVE  \/ Installs(j) /\ ~Upgrades(j) /\ ~Removes(j) /\ ~Commits(j)
           \/ Upgrades(j) /\ ~Installs(j) /\ ~Removes(j) /\ ~Commits(j)
           \/ Removes(j) /\ ~Installs(j) /\ ~Upgrades(j) /\ ~Commits(j)
           \/ Commits(j) /\ ~Installs(j) /\ ~Upgrades(j) /\ ~Removes(j)
  BY DEF Installs, Upgrades, Removes, Commits

LEMMA StackedEmpty == \A j : Stacked(j, <<>>) /\ Top(<<>>) = "end"
<1>1. <<>> \in Seq(Callbacks) /\ Len(<<>>) = 0
  OBVIOUS
<1> QED BY <1>1 DEF Stacked, Top

LEMMA StartedWith ==
    ASSUME NEW s, NEW m, NEW j, NEW q, Started(s, m, j, q), NEW h, h = IF q = <<>> THEN "none" ELSE Label(Head(q))
    PROVE  /\ Program(j, q)
           /\ Commits(j) => h \in {"none", "truncate"}
           /\ Installs(j) => h = "pull" /\ (~j.skip => PlugsIn(q) = CommandNames)
           /\ Upgrades(j) => h \in {"unplug", "unplugLast", "pull"} /\ ~j.running
           /\ Removes(j) => h = "stop"
<1>1. j \in Job
  BY DEF Started
<1>2. CASE Installs(j) /\ q = InstallProgram(j)
  BY <1>1, <1>2, InstallIsProgram, JobKinds
<1>3. CASE Upgrades(j) /\ q = UpgradeProgram(j) /\ ~j.running
  BY <1>1, <1>3, UpgradeIsProgram, JobKinds
<1>4. CASE Removes(j) /\ q = UninstallProgram(j)
  BY <1>1, <1>4, UninstallIsProgram, JobKinds
<1>5. CASE Commits(j) /\ q = Commit
  BY <1>1, <1>5, CommitIsProgram, JobKinds
<1>6. CASE Commits(j) /\ q = <<>>
  BY <1>1, <1>6, CommitIsProgram, JobKinds
<1> QED BY <1>2, <1>3, <1>4, <1>5, <1>6 DEF Started

LEMMA BeginsDone ==
    ASSUME Typed, NEW s \in Sessions, Begins(s)
    PROVE  Done(s)' /\ pc'[s] = "work"
<1> PICK m, j, q : Begin(s, m, j, q) /\ Started(s, m, j, q)
  BY DEF Begins
<1>1. pc'[s] = "work" /\ mem'[s] = m /\ job'[s] = j /\ todo'[s] = q /\ undo'[s] = <<>>
  BY DEF Begin, Typed, TypedSessions
<1>2. m \in Entries /\ j \in Job
  BY DEF Started
<1> DEFINE h == IF q = <<>> THEN "none" ELSE Label(Head(q))
<1>3. Next1(s)' = h
  BY <1>1 DEF Next1
<1>4. /\ Program(j, q)
      /\ Commits(j) => h \in {"none", "truncate"}
      /\ Installs(j) => h = "pull" /\ (~j.skip => PlugsIn(q) = CommandNames)
      /\ Upgrades(j) => h \in {"unplug", "unplugLast", "pull"} /\ ~j.running
      /\ Removes(j) => h = "stop"
  BY StartedWith
<1> HIDE DEF h
<1>5. h # "none" => "end" \in TopAt(j, h)
  BY <1>4, JobKinds DEF TopAt, InstallTop, UpgradeTop
<1>6. Course(s)'
  <2>1. h \in Opening /\ Upgrades(j) => ~j.running
    BY <1>4
  <2> QED BY <1>1, <1>3, <1>4, <1>5, <2>1, StackedEmpty DEF Course
<1>7. ~Commits(j) => h \notin ScriptDone(j) \cup YangDone(j) \cup RowDone(j) \cup FastMade \cup WarmMade \cup Recorded
  BY <1>4, JobKinds DEF ScriptDone, YangDone, RowDone, ScriptMade, YangMade, RowMade, FastMade, WarmMade, Recorded
<1>8. ~Commits(j) => Made(s)'
  BY <1>1, <1>3, <1>7 DEF Made
<1>9. Installs(j) \/ Upgrades(j) => Ready(s)'
  <2> SUFFICES ASSUME Installs(j) \/ Upgrades(j) PROVE Ready(s)'
    OBVIOUS
  <2>1. h \in Opening /\ h \notin ImageMade
    BY <1>4, JobKinds DEF Opening, ImageMade, ScriptMade
  <2>2. ~j.skip /\ Installs(j) => PluginsOf[<<j.pkg, j.new>>] \subseteq PlugsIn(q)
    <3>1. j.pkg \in Packages /\ j.new \in VersionOrNone
      BY <1>2 DEF Job
    <3>2. Installs(j) => j.new \in Versions
      BY <3>1 DEF Installs, VersionOrNone
    <3> QED BY <1>4, <3>1, <3>2, CommandsAssumption
  <2> QED BY <1>1, <1>3, <2>1, <2>2 DEF Ready
<1> QED BY <1>1, <1>6, <1>8, <1>9 DEF Done

\* The step that is taken, and the one that follows.
Follows(s) ==
    LET t == Now(s)
        j == job[s]
    IN  /\ t \in Fitting(j) /\ <<t.act, t.undo>> \in Undo(j) /\ Next1(s) = LabelOf(t.act, t.undo) /\ Next1(s) = Label(t)
        /\ j \in Job /\ Pkg(s) \in Packages /\ t.act \in Acts /\ Next1(s) # "none"
        /\ t.act # "probe" =>
             /\ job'[s] = j /\ todo'[s] = Tail(todo[s])
             /\ Next1(s)' = IF Tail(todo[s]) = <<>> THEN "none" ELSE Label(Head(Tail(todo[s])))
             /\ Next1(s)' = "none" <=> Tail(todo[s]) = <<>>
             /\ Next1(s)' # "none" => <<Next1(s), Next1(s)'>> \in Order(j)

LEMMA LabelIsNotNone ==
    ASSUME NEW t \in Step
    PROVE  Label(t) # "none"
<1>1. t.act \in Acts /\ "none" \notin Acts
  BY DEF Step, Acts
<1> QED BY <1>1 DEF Label

LEMMA StepFollows ==
    ASSUME Typed, NEW s \in Sessions, Effect(s), Program(job[s], todo[s])
    PROVE  Follows(s)
<1> DEFINE j == job[s]
           q == todo[s]
           t == Now(s)
<1>1. q # <<>> /\ t = Head(q) /\ j \in Job /\ Pkg(s) \in Packages /\ t.act \in Acts /\ t \in Step /\ Tail(q) \in Seq(Step)
  BY StepFacts DEF Effect, Now
<1>2. t \in Fitting(j) /\ (Tail(q) # <<>> => <<Label(t), Label(Head(Tail(q)))>> \in Order(j))
  BY <1>1, ProgramTail
<1>3. <<t.act, t.undo>> \in Undo(j) /\ Label(t) = LabelOf(t.act, t.undo)
  BY <1>2, FittingFacts
<1>4. Next1(s) = Label(t) /\ Label(t) # "none"
  BY <1>1, LabelIsNotNone DEF Next1, Now
<1>5. ASSUME t.act # "probe"
      PROVE  /\ job'[s] = j /\ todo'[s] = Tail(q)
             /\ Next1(s)' = IF Tail(q) = <<>> THEN "none" ELSE Label(Head(Tail(q)))
             /\ Next1(s)' = "none" <=> Tail(q) = <<>>
  <2>1. job' = job /\ todo' = [todo EXCEPT ![s] = Tail(@)]
    BY <1>5 DEF Effect, Control
  <2>2. job'[s] = j /\ todo'[s] = Tail(q)
    BY <2>1 DEF Typed, TypedSessions
  <2>3. Next1(s)' = IF Tail(q) = <<>> THEN "none" ELSE Label(Head(Tail(q)))
    BY <2>2 DEF Next1
  <2>4. Tail(q) # <<>> => Head(Tail(q)) \in Step
    BY <1>1
  <2> QED BY <2>2, <2>3, <2>4, LabelIsNotNone
<1> HIDE DEF q
<1> QED BY <1>1, <1>2, <1>3, <1>4, <1>5 DEF Follows, q

LEMMA UndoAfter ==
    ASSUME Typed, NEW s \in Sessions, Effect(s)
    PROVE  undo'[s] = IF Now(s).act = "popAll" THEN <<>>
                      ELSE IF Now(s).act \in {"probe", "record"} \/ Now(s).undo = "none" THEN undo[s] ELSE <<Now(s).undo>> \o undo[s]
  BY DEF Effect, Control, Typed, TypedSessions

LEMMA CourseStep ==
    ASSUME Typed, NEW s \in Sessions, Effect(s), Course(s), Now(s).act # "probe"
    PROVE  Course(s)'
<1> DEFINE j == job[s]
           q == todo[s]
           t == Now(s)
           h2 == IF Tail(q) = <<>> THEN "none" ELSE Label(Head(Tail(q)))
<1>1. Stacked(j, undo[s]) /\ Program(j, q) /\ (Next1(s) # "none" => Top(undo[s]) \in TopAt(j, Next1(s)))
      /\ (Next1(s) \in Opening /\ Upgrades(j) => ~j.running)
  BY DEF Course
<1>2. Follows(s)
  BY <1>1, StepFollows
<1>3. /\ t \in Fitting(j) /\ <<t.act, t.undo>> \in Undo(j) /\ Next1(s) = LabelOf(t.act, t.undo) /\ Next1(s) = Label(t)
      /\ j \in Job /\ job'[s] = j /\ todo'[s] = Tail(q) /\ Next1(s)' = h2 /\ (h2 = "none" <=> Tail(q) = <<>>)
      /\ (h2 # "none" => <<Next1(s), h2>> \in Order(j)) /\ Top(undo[s]) \in TopAt(j, Next1(s))
  BY <1>1, <1>2 DEF Follows
<1>4. q # <<>> /\ t = Head(q)
  BY StepFacts DEF Effect, Now
<1>5. Program(j, Tail(q)) /\ (Tail(q) = <<>> => Label(t) \in {"probe", "dump"})
  BY <1>1, <1>4, ProgramTail
<1>6. h2 \in Opening /\ Upgrades(j) => ~j.running
  <2> SUFFICES ASSUME h2 \in Opening, Upgrades(j) PROVE ~j.running
    OBVIOUS
  <2> HIDE DEF h2, t, j
  <2>1. h2 # "none" /\ h2 \in Opening
    BY DEF Opening
  <2>2. <<Next1(s), h2>> \in Order(j) /\ <<t.act, t.undo>> \in Undo(j) /\ Next1(s) = LabelOf(t.act, t.undo)
    BY <1>3, <2>1
  <2>3. Next1(s) \in Opening
    <3> DEFINE a == t.act
               c == t.undo
               h == Next1(s)
    <3>1. <<a, c>> \in Undo(j) /\ h = LabelOf(a, c) /\ <<h, h2>> \in Order(j) /\ (Installs(j) \/ Upgrades(j))
      BY <2>2
    <3> HIDE DEF a, c, h
    <3>2. h2 \in Opening /\ Upgrades(j) => h \in Opening
      BY <3>1, OrderReady
    <3> QED BY <3>2, <2>1 DEF h
  <2> QED BY <2>3, <1>1
<1>7. Stacked(j, undo'[s]) /\ (h2 # "none" => Top(undo'[s]) \in TopAt(j, h2)) /\ (h2 = "none" => undo'[s] = <<>>)
  <2>1. CASE t.act = "popAll"
    <3>1. undo'[s] = <<>>
      BY <2>1, UndoAfter
    <3>2. Next1(s) = "popAll"
      <4>1. t.undo = "none"
        BY <2>1, <1>3 DEF Undo, InstallUndo, UpgradeUndo, RemoveUndo, CommitUndo
      <4> QED BY <4>1, <2>1, <1>3 DEF LabelOf
    <3>3. h2 # "none" => h2 = "record"
      BY <3>2, <1>3 DEF Order, InstallOrder, UpgradeOrder, RemoveOrder, CommitOrder
    <3>4. "end" \in TopAt(j, "record")
      BY DEF TopAt, InstallTop, UpgradeTop
    <3> QED BY <3>1, <3>3, <3>4, StackedEmpty
  <2>2. CASE t.act # "popAll"
    <3>1. t.act = "record" => t.undo = "none"
      BY <1>3 DEF Undo, InstallUndo, UpgradeUndo, RemoveUndo, CommitUndo
    <3>2. undo'[s] = IF Head(q).undo = "none" THEN undo[s] ELSE <<Head(q).undo>> \o undo[s]
      BY <3>1, <2>2, <1>4, UndoAfter
    <3>3. /\ Stacked(j, undo'[s])
          /\ Tail(q) # <<>> => Top(undo'[s]) \in TopAt(j, Label(Head(Tail(q))))
          /\ Tail(q) = <<>> => undo'[s] = <<>>
      <4> DEFINE u2 == undo'[s]
      <4> HIDE DEF u2, q, j
      <4>1. Program(j, q) /\ q # <<>> /\ Stacked(j, undo[s]) /\ Top(undo[s]) \in TopAt(j, Label(Head(q)))
            /\ Head(q).act \notin {"popAll", "probe"}
        BY <1>1, <1>3, <1>4, <2>2
      <4>2. u2 = IF Head(q).undo = "none" THEN undo[s] ELSE <<Head(q).undo>> \o undo[s]
        BY <3>2 DEF u2
      <4>3. j \in Job
        BY <1>3
      <4> QED BY <4>1, <4>2, <4>3, Moves DEF u2
    <3> QED BY <3>3, <1>3
  <2> QED BY <2>1, <2>2
<1> HIDE DEF h2
<1> QED BY <1>3, <1>5, <1>6, <1>7 DEF Course

\* The probe: the rest of the upgrade is now known.
LEMMA CourseProbe ==
    ASSUME Typed, NEW s \in Sessions, Effect(s), Course(s), Now(s).act = "probe"
    PROVE  /\ Course(s)' /\ Upgrades(job[s]) /\ Upgrades(job'[s]) /\ Next1(s) = "probe" /\ Next1(s)' \in {"stop", "noscript"}
           /\ job'[s] \in Job /\ job'[s].pkg = Pkg(s) /\ job'[s].old = job[s].old /\ job'[s].new = job[s].new
           /\ job'[s].skip = job[s].skip /\ (~job[s].skip => PlugsIn(todo'[s]) = CommandNames)
           /\ job'[s].running = Enabled(Pkg(s)) /\ Next1(s)' = (IF job'[s].running THEN "stop" ELSE "noscript")
<1> DEFINE j == job[s]
           u == undo[s]
           b == Enabled(Pkg(s))
           k == [j EXCEPT !.running = b]
<1>1. Stacked(j, u) /\ Program(j, todo[s]) /\ (Next1(s) # "none" => Top(u) \in TopAt(j, Next1(s)))
      /\ (Next1(s) \in Opening /\ Upgrades(j) => ~j.running)
  BY DEF Course
<1>2. Follows(s)
  BY <1>1, StepFollows
<1>3. j \in Job /\ <<"probe", Now(s).undo>> \in Undo(j) /\ Next1(s) = LabelOf("probe", Now(s).undo) /\ Next1(s) # "none"
  BY <1>2 DEF Follows
<1>4. Upgrades(j) /\ Now(s).undo = "none"
  BY <1>3 DEF Undo, InstallUndo, UpgradeUndo, RemoveUndo, CommitUndo
<1>5. Next1(s) = "probe" /\ ~j.running /\ Top(u) = "uninstallImage"
  <2>1. Next1(s) = "probe"
    BY <1>3, <1>4 DEF LabelOf
  <2>2. TopAt(j, "probe") = {"uninstallImage"}
    BY <1>4 DEF TopAt, UpgradeTop, Installs, Upgrades
  <2> QED BY <2>1, <2>2, <1>1, <1>4 DEF Opening
<1>6. job'[s] = k /\ todo'[s] = UpgradeRest(k) /\ undo'[s] = u
  <2>1. job' = [job EXCEPT ![s] = [@ EXCEPT !.running = b]] /\ todo' = [todo EXCEPT ![s] = UpgradeRest(job'[s])]
    BY DEF Effect, Control
  <2>2. job'[s] = k
    BY <2>1 DEF Typed, TypedSessions
  <2>3. todo'[s] = UpgradeRest(job'[s])
    BY <2>1 DEF Typed, TypedSessions
  <2> QED BY <2>2, <2>3, UndoAfter
<1>7. /\ k \in Job /\ k.running = b /\ k.pkg = j.pkg /\ k.old = j.old /\ k.new = j.new /\ k.skip = j.skip
  <2>1. b \in BOOLEAN
    BY DEF Enabled
  <2> HIDE DEF b
  <2> QED BY <2>1, <1>3, RunningJob
<1> HIDE DEF k
<1>8. Upgrades(k)
  BY <1>4, <1>7 DEF Upgrades
<1>9. /\ Program(k, UpgradeRest(k)) /\ UpgradeRest(k) # <<>>
      /\ Label(Head(UpgradeRest(k))) = (IF k.running THEN "stop" ELSE "noscript")
      /\ (~k.skip => PlugsIn(UpgradeRest(k)) = CommandNames)
  BY <1>7, <1>8, UpgradeRestIsProgram
<1>10. Next1(s)' = IF k.running THEN "stop" ELSE "noscript"
  BY <1>6, <1>9 DEF Next1
<1>11. Top(u) \in TopAt(k, Next1(s)')
  BY <1>5, <1>8, <1>10 DEF TopAt, UpgradeTop, Installs, Upgrades
<1>12. Stacked(k, u)
  <2>1. u \in Seq(Callbacks) /\ u # <<>> /\ u[1] = "uninstallImage"
    <3>1. u \in Seq(Callbacks) /\ u # <<>>
      BY <1>1, <1>5, StackedEmpty DEF Stacked
    <3> QED BY <3>1, <1>5 DEF Top
  <2>2. Stack(j) = UpgradeStack(FALSE) /\ Stack(k) = UpgradeStack(k.running) /\ Bottom(k) = Bottom(j)
    <3>1. Stack(j) = UpgradeStack(j.running) /\ Stack(k) = UpgradeStack(k.running) /\ Bottom(k) = Bottom(j)
      BY <1>4, <1>8 DEF Stack, Bottom, Installs, Upgrades
    <3>2. UpgradeStack(j.running) = UpgradeStack(FALSE)
      BY <1>5 DEF UpgradeStack
    <3> QED BY <3>1, <3>2
  <2>3. \A i \in 1 .. Len(u) - 1 : <<u[i], u[i + 1]>> \in UpgradeStack(FALSE)
    BY <1>1, <2>2 DEF Stacked
  <2>4. \A x, y : <<x, y>> \in UpgradeStack(FALSE) /\ x = "uninstallImage" => y = "plugOld"
    BY DEF UpgradeStack
  <2>5. \A x, y : <<x, y>> \in UpgradeStack(FALSE) => x # "plugOld"
    BY DEF UpgradeStack
  <2>6. Len(u) \in Nat
    BY <2>1
  <2>7. \A i \in 1 .. Len(u) - 1 : i = 1
    <3> SUFFICES ASSUME NEW i \in 1 .. Len(u) - 1, i # 1 PROVE FALSE
      OBVIOUS
    <3>1. 1 \in 1 .. Len(u) - 1 /\ 2 \in 1 .. Len(u) - 1 /\ 1 + 1 = 2
      BY <2>6
    <3>2. u[2] = "plugOld"
      BY <3>1, <2>1, <2>3, <2>4
    <3> QED BY <3>1, <3>2, <2>3, <2>5
  <2>8. <<"uninstallImage", "plugOld">> \in Stack(k)
    BY <2>2 DEF UpgradeStack
  <2>9. \A i \in 1 .. Len(u) - 1 : <<u[i], u[i + 1]>> \in Stack(k)
    BY <2>1, <2>3, <2>4, <2>7, <2>8
  <2> QED BY <2>1, <2>2, <2>9, <1>1 DEF Stacked
<1>13. Next1(s)' \in {"stop", "noscript"} /\ Next1(s)' \notin Opening
  BY <1>10 DEF Opening
<1>14. Course(s)'
  BY <1>6, <1>9, <1>11, <1>12, <1>13 DEF Course
<1> QED BY <1>4, <1>5, <1>6, <1>7, <1>8, <1>9, <1>10, <1>13, <1>14 DEF Pkg

LEMMA JobVersions ==
    ASSUME NEW j \in Job
    PROVE  j.old = NoVersion \/ j.new = NoVersion \/ Upgrades(j)
  BY DEF Upgrades

\* The databases that sessions work on.
LEMMA MemAfter ==
    ASSUME Typed, NEW s \in Sessions, Effect(s)
    PROVE  /\ Now(s).act # "record" => mem'[s] = mem[s]
           /\ \A q \in Packages : q # Pkg(s) => VersionIn(mem'[s], q) = VersionIn(mem[s], q)
           /\ Now(s).act = "record" => VersionIn(mem'[s], Pkg(s)) = Now(s).version
<1>1. Pkg(s) \in Packages /\ mem[s] \in Entries /\ Now(s).version \in VersionOrNone
  BY StepFacts DEF Effect
<1>2. CASE Now(s).act # "record"
  <2>1. mem' = mem
    BY <1>2 DEF Effect, Storage
  <2> QED BY <2>1, <1>2
<1>3. CASE Now(s).act = "record"
  <2>1. PICK d \in VersionOrNone : mem' = [mem EXCEPT ![s][Pkg(s)] = [version |-> Now(s).version, default |-> d]]
    BY <1>3 DEF Effect, Storage
  <2> DEFINE e == [version |-> Now(s).version, default |-> d]
  <2>2. e \in [version : VersionOrNone, default : VersionOrNone] /\ e.version = Now(s).version
    BY <1>1
  <2>3. e # NotListed
    BY <2>2, PackagesAssumption
  <2> HIDE DEF e
  <2>4. mem' = [mem EXCEPT ![s][Pkg(s)] = e]
    BY <2>1 DEF e
  <2>5. mem'[s] = [mem[s] EXCEPT ![Pkg(s)] = e]
    BY <2>4 DEF Typed, TypedSessions
  <2>6. mem'[s][Pkg(s)] = e /\ \A q \in Packages : q # Pkg(s) => mem'[s][q] = mem[s][q]
    BY <2>5, <1>1 DEF Entries
  <2> QED BY <2>2, <2>3, <2>6, <1>3 DEF VersionIn
<1> QED BY <1>2, <1>3

\* The host, after a step.
LEMMA HostAfter ==
    ASSUME Typed, NEW s \in Sessions, Effect(s)
    PROVE  LET t == Now(s)
               p == Pkg(s)
           IN  /\ script'[p] = IF t.act = "script" THEN t.version ELSE IF t.act = "noscript" THEN NoVersion ELSE script[p]
               /\ yang'[p] = IF t.act = "yang" THEN YangOf(p, t.version) ELSE IF t.act = "noyang" THEN NoVersion ELSE yang[p]
               /\ feature'[p] = RowAfter(s)
               /\ asked'[p] = IF t.act = "register" /\ feature[p] = NoFeature
                              THEN IF job[s].enable THEN "enabled" ELSE "disabled" ELSE asked[p]
               /\ t.act # "fast" => order'["fast"] = order["fast"]
               /\ t.act # "warm" => order'["warm"] = order["warm"]
               /\ t.act \in {"fast", "warm"} =>
                     order'[t.act] = [q \in Packages |-> IF q = p THEN t.version ELSE VersionIn(mem[s], q)]
               /\ t.act \notin {"plug", "unplug"} => plugins' = plugins
               /\ \A q \in Packages \ {p} : script'[q] = script[q] /\ yang'[q] = yang[q] /\ feature'[q] = feature[q] /\ asked'[q] = asked[q]
<1>1. Pkg(s) \in Packages /\ Now(s).act \in Acts /\ Storage(s) /\ Service(s) /\ Row(s)
  BY StepFacts DEF Effect
<1> DEFINE t == Now(s)
           p == Pkg(s)
<1>2. /\ script'[p] = IF t.act = "script" THEN t.version ELSE IF t.act = "noscript" THEN NoVersion ELSE script[p]
      /\ \A q \in Packages \ {p} : script'[q] = script[q]
  BY <1>1 DEF Service, Typed, TypedHost
<1>3. /\ yang'[p] = IF t.act = "yang" THEN YangOf(p, t.version) ELSE IF t.act = "noyang" THEN NoVersion ELSE yang[p]
      /\ \A q \in Packages \ {p} : yang'[q] = yang[q]
  BY <1>1 DEF Service, Typed, TypedHost
<1>4. feature'[p] = RowAfter(s) /\ \A q \in Packages \ {p} : feature'[q] = feature[q]
  BY <1>1 DEF Row, Typed, TypedHost
<1>5. /\ asked'[p] = IF t.act = "register" /\ feature[p] = NoFeature
                     THEN IF job[s].enable THEN "enabled" ELSE "disabled" ELSE asked[p]
      /\ \A q \in Packages \ {p} : asked'[q] = asked[q]
  BY <1>1 DEF Row, Typed, TypedHost
<1>6. /\ t.act # "fast" => order'["fast"] = order["fast"]
      /\ t.act # "warm" => order'["warm"] = order["warm"]
      /\ t.act \in {"fast", "warm"} =>
            order'[t.act] = [q \in Packages |-> IF q = p THEN t.version ELSE VersionIn(mem[s], q)]
  <2> DEFINE f == [q \in Packages |-> IF q = p THEN t.version ELSE VersionIn(mem[s], q)]
  <2>1. order' = IF t.act \in {"fast", "warm"} THEN [order EXCEPT ![t.act] = f] ELSE order
    BY <1>1 DEF Storage
  <2> HIDE DEF f
  <2>2. order \in [{"fast", "warm"} -> [Packages -> VersionOrNone]]
    BY DEF Typed, TypedHost
  <2>3. /\ t.act # "fast" => order'["fast"] = order["fast"]
        /\ t.act # "warm" => order'["warm"] = order["warm"]
        /\ t.act \in {"fast", "warm"} => order'[t.act] = f
    BY <2>1, <2>2
  <2> QED BY <2>3 DEF f
<1>7. t.act \notin {"plug", "unplug"} => plugins' = plugins
  BY <1>1 DEF Service
<1> QED BY <1>2, <1>3, <1>4, <1>5, <1>6, <1>7

\* The version of the row.
LEMMA RowVersion ==
    ASSUME Typed, NEW s \in Sessions, Effect(s), NEW v
    PROVE  LET t == Now(s)
               p == Pkg(s)
           IN  /\ t.act \notin {"register", "deregister", "update"} => (RowHas(feature[p], v) <=> RowHas(feature'[p], v))
               /\ t.act \in {"register", "update"} /\ v # NoVersion => (t.version = v <=> RowHas(feature'[p], v))
               /\ t.act = "deregister" => RowHas(feature'[p], NoVersion) /\ feature'[p] = NoFeature
<1> DEFINE t == Now(s)
           p == Pkg(s)
           row(x, w) == [state |-> x, version |-> w]
<1>1. p \in Packages /\ feature[p] \in Feature /\ t.version \in VersionOrNone /\ job[s] \in Job
  BY StepFacts DEF Effect, Typed, TypedHost
<1>2. feature'[p] = RowAfter(s) /\ (t.act \in {"stop", "start"} => feature[p] # NoFeature)
  <2>1. Row(s)
    BY DEF Effect
  <2> QED BY <2>1, HostAfter DEF Row
<1>3. \A x \in {"enabled", "disabled"}, w \in VersionOrNone : row(x, w) # NoFeature /\ row(x, w).version = w /\ row(x, w).state = x
  BY FeaturesAssumption
<1>4. feature[p] # NoFeature => feature[p].state \in {"enabled", "disabled"} /\ feature[p].version \in VersionOrNone
  BY <1>1 DEF Feature
<1>5. CASE t.act \notin {"register", "deregister", "update", "stop", "start"}
  BY <1>2, <1>5 DEF RowAfter, RowHas
<1>6. CASE t.act \in {"stop", "start"}
  <2>1. RowAfter(s) = row(IF t.act = "start" THEN "enabled" ELSE "disabled", feature[p].version)
    BY <1>6 DEF RowAfter
  <2> HIDE DEF row
  <2>2. feature'[p] # NoFeature /\ feature'[p].version = feature[p].version /\ feature[p] # NoFeature
    BY <2>1, <1>2, <1>3, <1>4, <1>6
  <2> QED BY <2>2, <1>6 DEF RowHas
<1>7. CASE t.act \in {"register", "update"}
  <2>1. \E x \in {"enabled", "disabled"} : RowAfter(s) = row(x, t.version)
    <3>1. CASE t.act = "register"
      <4>1. RowAfter(s) = row(IF feature[p] # NoFeature THEN feature[p].state ELSE IF job[s].enable THEN "enabled" ELSE "disabled", t.version)
        BY <3>1 DEF RowAfter
      <4> HIDE DEF row
      <4> QED BY <4>1, <1>4
    <3>2. CASE t.act = "update"
      <4>1. RowAfter(s) = row(IF feature[p] = NoFeature THEN "disabled" ELSE feature[p].state, t.version)
        BY <3>2 DEF RowAfter
      <4> HIDE DEF row
      <4> QED BY <4>1, <1>4
    <3> QED BY <3>1, <3>2, <1>7
  <2> HIDE DEF row
  <2>2. feature'[p] # NoFeature /\ feature'[p].version = t.version
    BY <2>1, <1>1, <1>2, <1>3
  <2> QED BY <2>2, <1>7 DEF RowHas
<1>8. CASE t.act = "deregister"
  <2>1. feature'[p] = NoFeature
    BY <1>2, <1>8 DEF RowAfter
  <2> QED BY <2>1, <1>8 DEF RowHas
<1> QED BY <1>5, <1>6, <1>7, <1>8

LEMMA MadeStep ==
    ASSUME Typed, NEW s \in Sessions, Effect(s), Program(job[s], todo[s]), Made(s), ~Commits(job[s]), Now(s).act # "probe"
    PROVE  Made(s)'
<1> DEFINE j == job[s]
           p == Pkg(s)
           t == Now(s)
           a == t.act
           h == Next1(s)
           h2 == Next1(s)'
<1>1. Follows(s)
  BY StepFollows
<1>2. /\ t \in Fitting(j) /\ <<a, t.undo>> \in Undo(j) /\ h = LabelOf(a, t.undo) /\ j \in Job /\ job'[s] = j
      /\ (h2 # "none" => <<h, h2>> \in Order(j)) /\ p \in Packages
  BY <1>1 DEF Follows
<1>3. /\ a \in {"script", "yang", "register", "fast", "warm", "update", "record"} => t.version = j.new
      /\ (a \in {"register", "update"} => j.new # NoVersion)
      /\ (Removes(j) => j.new = NoVersion)
  <2>1. a \in {"register", "update"} => Installs(j) \/ Upgrades(j)
    BY <1>2 DEF Undo, RemoveUndo, CommitUndo
  <2>2. a \in {"script", "yang", "register", "fast", "warm", "update", "record"} => t.version = j.new
    BY <1>2, FittingFacts
  <2> QED BY <2>1, <2>2 DEF Installs, Upgrades, Removes
<1>4. "none" \notin ScriptDone(j) \cup YangDone(j) \cup RowDone(j) \cup FastMade \cup WarmMade \cup Recorded
  BY DEF ScriptDone, YangDone, RowDone, ScriptMade, YangMade, RowMade, FastMade, WarmMade, Recorded
<1>5. j.old = NoVersion \/ j.new = NoVersion \/ Upgrades(j)
  BY <1>2, JobVersions
<1>6. ASSUME h2 # "none"
      PROVE  /\ h2 \in ScriptDone(j) => (h \in ScriptDone(j) /\ a \notin {"script", "noscript"}) \/ a = "script" \/ (a = "noscript" /\ Removes(j))
             /\ h2 \in YangDone(j) => (h \in YangDone(j) /\ a \notin {"yang", "noyang"}) \/ a = "yang" \/ (a = "noyang" /\ Removes(j))
             /\ h2 \in RowDone(j) => (h \in RowDone(j) /\ a \notin {"register", "deregister", "update"}) \/ a \in {"register", "update"}
                                     \/ (a = "deregister" /\ Removes(j))
             /\ h2 \in FastMade => (h \in FastMade /\ a # "fast") \/ a = "fast"
             /\ h2 \in WarmMade => (h \in WarmMade /\ a # "warm") \/ a = "warm"
             /\ h2 \in Recorded => (h \in Recorded /\ a # "record") \/ a = "record"
  <2> DEFINE c == t.undo
  <2>1. <<a, c>> \in Undo(j) /\ h = LabelOf(a, c) /\ <<h, h2>> \in Order(j) /\ ~Commits(j)
    BY <1>2, <1>6
  <2> HIDE DEF a, c, h, h2, j
  <2> QED BY <2>1, <1>5, OrderMade
<1>7. /\ h \in ScriptDone(j) => script[p] = j.new
      /\ h \in YangDone(j) => yang[p] = YangOf(p, j.new)
      /\ h \in RowDone(j) => RowHas(feature[p], j.new)
      /\ h \in FastMade => OrderIs("fast", s)
      /\ h \in WarmMade => OrderIs("warm", s)
      /\ h \in Recorded => VersionIn(mem[s], p) = j.new
  BY DEF Made, Pkg, RowIs
<1>8. Pkg(s)' = p
  BY <1>2 DEF Pkg
<1>9. h2 \in ScriptDone(j) => script'[p] = j.new
  BY <1>3, <1>4, <1>6, <1>7, HostAfter
<1>10. h2 \in YangDone(j) => yang'[p] = YangOf(p, j.new)
  <2>1. YangOf(p, NoVersion) = NoVersion
    BY DEF YangOf
  <2>2. yang'[p] = IF a = "yang" THEN YangOf(p, t.version) ELSE IF a = "noyang" THEN NoVersion ELSE yang[p]
    BY HostAfter
  <2> HIDE DEF a, h, h2, j, p, t
  <2> QED BY <2>1, <2>2, <1>3, <1>4, <1>6, <1>7
<1>11. h2 \in RowDone(j) => RowHas(feature'[p], j.new)
  <2>1. /\ a \notin {"register", "deregister", "update"} => (RowHas(feature[p], j.new) <=> RowHas(feature'[p], j.new))
        /\ a \in {"register", "update"} /\ j.new # NoVersion => (t.version = j.new <=> RowHas(feature'[p], j.new))
        /\ a = "deregister" => RowHas(feature'[p], NoVersion)
    BY RowVersion
  <2> HIDE DEF a, h, h2, j, p, t
  <2> QED BY <2>1, <1>3, <1>4, <1>6, <1>7
<1>12. ASSUME NEW o \in {"fast", "warm"}, (OrderIs(o, s) /\ a # o) \/ a = o
       PROVE  OrderIs(o, s)'
  <2> DEFINE f == [q \in Packages |-> IF q = p THEN j.new ELSE VersionIn(mem[s], q)]
             g == [q \in Packages |-> IF q = p THEN j.new ELSE VersionIn(mem'[s], q)]
  <2>1. order'[o] = f
    BY <1>3, <1>12, HostAfter DEF OrderIs
  <2>2. f = g
    BY MemAfter
  <2>3. OrderIs(o, s)' <=> order'[o] = g
    BY <1>2, <1>8 DEF OrderIs
  <2> QED BY <2>1, <2>2, <2>3
<1>13. (h2 \in FastMade => OrderIs("fast", s)') /\ (h2 \in WarmMade => OrderIs("warm", s)')
  BY <1>4, <1>6, <1>7, <1>12
<1>14. h2 \in Recorded => VersionIn(mem'[s], p) = j.new
  BY <1>3, <1>4, <1>6, <1>7, MemAfter
<1> HIDE DEF h2
<1>15. /\ h2 \in ScriptDone(j) => script'[j.pkg] = j.new
       /\ h2 \in YangDone(j) => yang'[j.pkg] = YangOf(j.pkg, j.new)
       /\ h2 \in RowDone(j) => RowHas(feature'[j.pkg], j.new)
       /\ h2 \in Recorded => VersionIn(mem'[s], j.pkg) = j.new
  BY <1>9, <1>10, <1>11, <1>14 DEF Pkg
<1> QED BY <1>2, <1>13, <1>15 DEF Made, RowIs, h2

LEMMA ReadyStep ==
    ASSUME Typed, NEW s \in Sessions, Effect(s), Program(job[s], todo[s]), Ready(s), Installs(job[s]) \/ Upgrades(job[s]),
           job[s].old # job[s].new, Now(s).act # "probe"
    PROVE  Ready(s)'
<1> DEFINE j == job[s]
           p == Pkg(s)
           t == Now(s)
           a == t.act
           q == todo[s]
           h == Next1(s)
           h2 == Next1(s)'
           wanted == PluginsOf[<<p, j.new>>]
           missing(f) == {c \in wanted : f[p][c] # j.new}
<1>1. Follows(s)
  BY StepFollows
<1>2. /\ t \in Fitting(j) /\ <<a, t.undo>> \in Undo(j) /\ h = LabelOf(a, t.undo) /\ h = Label(t) /\ j \in Job /\ job'[s] = j
      /\ (h2 # "none" => <<h, h2>> \in Order(j)) /\ p \in Packages /\ todo'[s] = Tail(q) /\ a \in Acts /\ h # "none"
  BY <1>1 DEF Follows
<1>3. /\ a \in {"pull", "plug"} => t.version = j.new
      /\ a = "rmi" => t.version = j.old
  BY <1>2, FittingFacts
<1>4. ASSUME h2 # "none"
      PROVE  /\ h2 \in ImageMade => h \in ImageMade \/ a = "pull"
             /\ h2 \notin Opening => (h \notin Opening /\ a # "unplug") \/ (h = "pull" /\ a = "pull" /\ Installs(j))
             /\ ~(h2 = "pull" /\ Installs(j))
  <2> DEFINE c == t.undo
  <2>1. <<a, c>> \in Undo(j) /\ h = LabelOf(a, c) /\ <<h, h2>> \in Order(j) /\ (Installs(j) \/ Upgrades(j))
    BY <1>2, <1>4
  <2> HIDE DEF a, c, h, h2, j
  <2>2. h2 \in ImageMade => h \in ImageMade \/ a = "pull"
    BY <2>1, OrderReady
  <2>3. h2 \notin Opening => (h \notin Opening /\ a # "unplug") \/ (h = "pull" /\ a = "pull" /\ Installs(j))
    BY <2>1, OrderReady
  <2>4. ~(h2 = "pull" /\ Installs(j))
    BY <2>1, OrderReady
  <2> QED BY <2>2, <2>3, <2>4
<1>5. /\ h \in ImageMade => <<p, j.new>> \in images
      /\ ~j.skip /\ h \notin Opening \cup {"none"} => missing(plugins) \subseteq PlugsIn(q)
      /\ ~j.skip /\ h = "pull" /\ Installs(j) => wanted \subseteq PlugsIn(q)
  BY DEF Ready, Pkg
<1>6. "none" \notin ImageMade
  BY DEF ImageMade, ScriptMade
<1>7. h2 \in ImageMade => <<p, j.new>> \in images'
  <2>1. images' = IF a = "pull" THEN images \cup {<<p, t.version>>}
                  ELSE IF a = "rmi" THEN images \ {<<p, t.version>>} ELSE images
    BY DEF Effect, Storage
  <2>2. j.old # j.new
    OBVIOUS
  <2> HIDE DEF a, h, h2, j, p, t
  <2> QED BY <2>1, <2>2, <1>3, <1>4, <1>5, <1>6
<1>8. q # <<>> /\ t = Head(q)
  BY StepFacts DEF Effect, Now
<1>9. /\ a = "plug" => PlugsIn(q) \subseteq PlugsIn(Tail(q)) \cup {t.cmd}
      /\ a # "plug" => PlugsIn(q) \subseteq PlugsIn(Tail(q))
  BY <1>8, ProgramTail
<1>10. wanted \subseteq CommandNames
  <2>1. j.new \in Versions
    BY <1>2 DEF Job, Installs, Upgrades, VersionOrNone
  <2> QED BY <2>1, <1>2, CommandsAssumption
<1>11. a # "unplug" => \A c \in missing(plugins') : c \in missing(plugins) /\ (a = "plug" => c # t.cmd)
  <2> SUFFICES ASSUME a # "unplug", NEW c \in missing(plugins') PROVE c \in missing(plugins) /\ (a = "plug" => c # t.cmd)
    OBVIOUS
  <2>1. c \in wanted /\ plugins'[p][c] # j.new /\ c \in CommandNames
    BY <1>10
  <2>2. IF a = "plug" /\ t.cmd \in PluginsOf[<<p, t.version>>] THEN plugins' = [plugins EXCEPT ![p][t.cmd] = t.version]
        ELSE plugins' = plugins
    <3>1. Service(s)
      BY DEF Effect
    <3> QED BY <3>1 DEF Service, HasPlugin
  <2>3. plugins \in [Packages -> [CommandNames -> VersionOrNone]]
    BY DEF Typed, TypedHost
  <2>4. a = "plug" => t.cmd \in wanted \/ t.cmd # c
    BY <2>1
  <2> HIDE DEF a, j, p, t, wanted
  <2>5. CASE a = "plug" /\ t.cmd \in PluginsOf[<<p, t.version>>]
    <3>1. plugins' = [plugins EXCEPT ![p][t.cmd] = j.new]
      BY <2>2, <2>5, <1>3
    <3> QED BY <3>1, <2>1, <2>3, <1>2
  <2>6. CASE a = "plug" /\ t.cmd \notin PluginsOf[<<p, t.version>>]
    BY <2>1, <2>2, <2>6, <1>3 DEF wanted
  <2>7. CASE a # "plug"
    BY <2>1, <2>2, <2>7
  <2> QED BY <2>5, <2>6, <2>7
<1>12. ~j.skip /\ h2 \notin Opening \cup {"none"} => missing(plugins') \subseteq PlugsIn(Tail(q))
  <2> SUFFICES ASSUME ~j.skip, h2 \notin Opening \cup {"none"}, NEW c \in missing(plugins') PROVE c \in PlugsIn(Tail(q))
    OBVIOUS
  <2>1. c \in wanted
    OBVIOUS
  <2> DEFINE mis == missing(plugins)
             mis2 == missing(plugins')
             ps == PlugsIn(q)
             ps2 == PlugsIn(Tail(q))
  <2>2. c \in mis2 /\ (a # "unplug" => c \in mis /\ (a = "plug" => c # t.cmd))
    BY <1>11
  <2>3. /\ ~j.skip /\ h \notin Opening \cup {"none"} => mis \subseteq ps
        /\ ~j.skip /\ h = "pull" /\ Installs(j) => wanted \subseteq ps
        /\ a = "plug" => ps \subseteq ps2 \cup {t.cmd}
        /\ a # "plug" => ps \subseteq ps2
    BY <1>5, <1>9
  <2> HIDE DEF mis, mis2, ps, ps2, wanted, missing, a, h, h2, j, t
  <2>4. CASE h \notin Opening /\ a # "unplug"
    BY <1>2, <2>2, <2>3, <2>4 DEF ps2
  <2>5. CASE h = "pull" /\ a = "pull" /\ Installs(j)
    BY <2>1, <2>3, <2>5 DEF ps2
  <2> QED BY <2>4, <2>5, <1>4
<1>13. h2 = "pull" => ~Installs(j)
  BY <1>4
<1> HIDE DEF h2
<1> QED BY <1>2, <1>7, <1>12, <1>13 DEF Ready, Pkg, h2

LEMMA EffectDone ==
    ASSUME Typed, NEW s \in Sessions, Effect(s), Done(s)
    PROVE  Done(s)'
<1> DEFINE j == job[s]
<1>1. Course(s) /\ Program(j, todo[s]) /\ (~Commits(j) => Made(s))
      /\ ((Installs(j) \/ Upgrades(j)) /\ j.old # j.new => Ready(s))
  BY DEF Done, Course
<1>2. CASE Now(s).act # "probe"
  <2>1. job'[s] = j
    BY <1>1, <1>2, StepFollows DEF Follows
  <2>2. Course(s)'
    BY <1>1, <1>2, CourseStep
  <2>3. ~Commits(j) => Made(s)'
    BY <1>1, <1>2, MadeStep
  <2>4. (Installs(j) \/ Upgrades(j)) /\ j.old # j.new => Ready(s)'
    BY <1>1, <1>2, ReadyStep
  <2> QED BY <2>1, <2>2, <2>3, <2>4 DEF Done
<1>3. CASE Now(s).act = "probe"
  <2> DEFINE k == job'[s]
  <2>1. /\ Course(s)' /\ Upgrades(j) /\ Upgrades(k) /\ Next1(s) = "probe" /\ Next1(s)' \in {"stop", "noscript"}
        /\ k \in Job /\ k.pkg = Pkg(s) /\ k.old = j.old /\ k.new = j.new
        /\ k.skip = j.skip /\ (~j.skip => PlugsIn(todo'[s]) = CommandNames)
    BY <1>1, <1>3, CourseProbe
  <2>2. Made(s)'
    <3>1. ScriptDone(k) = ScriptMade /\ YangDone(k) = YangMade /\ RowDone(k) = RowMade
      BY <2>1, JobKinds DEF ScriptDone, YangDone, RowDone
    <3>2. Next1(s)' \notin ScriptDone(k) \cup YangDone(k) \cup RowDone(k) \cup FastMade \cup WarmMade \cup Recorded
      BY <2>1, <3>1 DEF ScriptMade, YangMade, RowMade, FastMade, WarmMade, Recorded
    <3> QED BY <3>2 DEF Made
  <2>3. ASSUME j.old # j.new PROVE Ready(s)'
    <3>1. <<Pkg(s), j.new>> \in images
      BY <1>1, <2>1, <2>3 DEF Ready, ImageMade, Pkg
    <3>2. images' = images
      BY <1>3 DEF Effect, Storage
    <3>3. k.new \in Versions /\ k.pkg \in Packages
      BY <2>1 DEF Job, Upgrades, VersionOrNone
    <3>4. PluginsOf[<<k.pkg, k.new>>] \subseteq CommandNames
      BY <3>3, CommandsAssumption
    <3>5. ~Installs(k)
      BY <2>1, JobKinds
    <3> QED BY <2>1, <3>1, <3>2, <3>4, <3>5 DEF Ready
  <2>4. ~Commits(k) /\ ~Commits(j)
    BY <2>1, JobKinds
  <2> QED BY <1>1, <2>1, <2>2, <2>3, <2>4 DEF Done
<1> QED BY <1>2, <1>3

LEMMA HostSame ==
    ASSUME NEW s \in Sessions, Moved(s), ~Effect(s)
    PROVE  UNCHANGED <<file, host, asked>>
<1>1. CASE Begins(s)
  <2> PICK m, j, q : Begin(s, m, j, q)
    BY <1>1 DEF Begins
  <2> QED BY DEF Begin
<1>2. CASE Start(s) \/ Enter(s) \/ Refuses(s) \/ Merges(s)
  BY <1>2 DEF Start, Enter, Refuses, Refuse, Merges, ghost
<1>3. CASE Fails(s) \/ NextCallback(s) \/ Finish(s) \/ Kill(s)
  BY <1>3 DEF Fails, Raise, NextCallback, Finish, Kill, ghost
<1> QED BY <1>1, <1>2, <1>3 DEF Moved

LEMMA DoneSame ==
    ASSUME NEW u \in Sessions, Same(u), UNCHANGED host, Done(u)
    PROVE  Done(u)'
<1>1. /\ mem'[u] = mem[u] /\ job'[u] = job[u] /\ todo'[u] = todo[u] /\ undo'[u] = undo[u]
      /\ UNCHANGED <<images, script, yang, feature, plugins, order>>
  BY DEF Same, host
<1>2. Next1(u)' = Next1(u) /\ Pkg(u)' = Pkg(u)
  BY <1>1 DEF Next1, Pkg
<1>3. Course(u) => Course(u)'
  BY <1>1, <1>2 DEF Course
<1>4. OrderIs("fast", u)' = OrderIs("fast", u) /\ OrderIs("warm", u)' = OrderIs("warm", u)
  BY <1>1, <1>2 DEF OrderIs
<1>5. Made(u) => Made(u)'
  BY <1>1, <1>2, <1>4 DEF Made, RowIs
<1>6. Ready(u) => Ready(u)'
  BY <1>1, <1>2 DEF Ready
<1> QED BY <1>1, <1>3, <1>5, <1>6 DEF Done

\* A toggle during an operation leaves what the operation has done.
LEMMA DoneToggled ==
    ASSUME Typed, NEW u \in Sessions, NEW p \in Packages, Toggle(p), Done(u)
    PROVE  Done(u)'
<1>1. UNCHANGED <<images, script, yang, plugins, order, mem, job, todo, undo>>
  BY ToggleRow DEF session
<1>2. Next1(u)' = Next1(u) /\ Pkg(u)' = Pkg(u) /\ job[u].pkg \in Packages
  BY <1>1 DEF Next1, Pkg, Typed, TypedSessions, Job
<1>3. Course(u) => Course(u)'
  BY <1>1, <1>2 DEF Course
<1>4. OrderIs("fast", u)' = OrderIs("fast", u) /\ OrderIs("warm", u)' = OrderIs("warm", u)
  BY <1>1, <1>2 DEF OrderIs
<1>5. \A q \in Packages : \A v : RowIs(q, v) => RowIs(q, v)'
  BY ToggleRow DEF RowIs, RowHas
<1>6. Made(u) => Made(u)'
  BY <1>1, <1>2, <1>4, <1>5 DEF Made
<1>7. Ready(u) => Ready(u)'
  BY <1>1, <1>2 DEF Ready
<1> QED BY <1>1, <1>3, <1>6, <1>7 DEF Done

LEMMA NextWorking ==
    ASSUME Typed, Locking, Working, [Next]_vars
    PROVE  Working'
<1>1. ASSUME NEW s \in Sessions, Moved(s), NEW u \in Sessions, pc'[u] = "work"
      PROVE  Done(u)'
  <2>1. CASE u = s /\ Effect(s)
    <3>1. pc[s] = "work"
      BY <1>1, <2>1 DEF Effect, Control
    <3> QED BY <2>1, <3>1, EffectDone DEF Working
  <2>2. CASE u = s /\ Begins(s)
    BY <2>2, BeginsDone
  <2>3. CASE u = s /\ ~Effect(s) /\ ~Begins(s)
    <3>1. CASE End(s)
      BY <1>1, <2>3, <3>1, EndOwn DEF Typed
    <3>2. CASE Start(s)
      BY <1>1, <2>3, <3>2 DEF Start, Typed, TypedSessions
    <3>3. CASE Enter(s)
      BY <1>1, <2>3, <3>1, <3>3 DEF Enter, Typed, TypedSessions
    <3>4. CASE Refuses(s) \/ Kill(s)
      BY <3>1, <3>4 DEF Refuses, Refuse, Kill
    <3>5. CASE Merges(s)
      BY <1>1, <2>3, <3>5 DEF Merges
    <3>6. CASE Fails(s)
      BY <1>1, <2>3, <3>6 DEF Fails, Raise, Typed, TypedSessions
    <3>7. CASE NextCallback(s)
      BY <1>1, <2>3, <3>1, <3>7 DEF NextCallback
    <3>8. CASE Finish(s)
      BY <1>1, <2>3, <3>1, <3>8 DEF Finish, Typed, TypedSessions
    <3> QED BY <1>1, <2>3, <3>2, <3>3, <3>4, <3>5, <3>6, <3>7, <3>8 DEF Moved
  <2>4. CASE u # s
    <3>1. Same(u) /\ pc[u] = "work"
      BY <1>1, <2>4, OthersSame DEF Same
    <3>2. ~Effect(s)
      <4>1. Effect(s) => pc[s] \in Locked
        BY DEF Effect, AtStep, Locked
      <4>2. pc[u] \in Locked
        BY <3>1 DEF Locked
      <4> QED BY <1>1, <2>4, <4>1, <4>2 DEF Locking
    <3>3. UNCHANGED host
      BY <1>1, <3>2, HostSame
    <3> QED BY <1>1, <3>1, <3>3, DoneSame DEF Working
  <2> QED BY <2>1, <2>2, <2>3, <2>4
<1>2. ASSUME NEW p \in Packages, Toggle(p), NEW u \in Sessions, pc'[u] = "work" PROVE Done(u)'
  <2>1. pc' = pc
    BY <1>2 DEF Toggle, session
  <2> QED BY <1>2, <2>1, DoneToggled DEF Working
<1>3. ASSUME UNCHANGED vars, NEW u \in Sessions, pc'[u] = "work" PROVE Done(u)'
  <2>1. Same(u) /\ UNCHANGED host /\ pc[u] = "work"
    BY <1>3 DEF vars, session, Same
  <2> QED BY <2>1, DoneSame DEF Working
<1> QED BY <1>1, <1>2, <1>3, NextMoved DEF Working

LEMMA InitWorking ==
    ASSUME Init
    PROVE  Working
  BY DEF Init, Working

-----------------------------------------------------------------------------
(* What is recorded is there. *)

\* The step with which a session writes its database.
LEMMA WhoCommits ==
    ASSUME Typed, [Next]_vars, NEW s \in Sessions, Committed(s)
    PROVE  Effect(s) /\ file' = mem[s]
<1>1. todo[s] \in Seq(Step) /\ todo[s] # <<>> /\ todo'[s] = Tail(todo[s]) /\ pc[s] = "work" /\ pc'[s] = "work" /\ Now(s).act = "dump"
  BY DEF Committed, Typed, TypedSessions
<1>2. todo'[s] # todo[s]
  <2> DEFINE q == todo[s]
  <2>1. q \in Seq(Step) /\ q # <<>>
    BY <1>1
  <2> HIDE DEF q
  <2>2. Tail(q) # q
    <3>1. Len(Tail(q)) = Len(q) - 1 /\ Len(q) \in Nat
      BY <2>1
    <3> QED BY <3>1
  <2> QED BY <1>1, <2>2 DEF q
<1>3. ~UNCHANGED vars /\ \A p \in Packages : ~Toggle(p)
  BY <1>2 DEF vars, session, Toggle
<1>4. PICK u \in Sessions : Moved(u)
  BY <1>3, NextMoved
<1>5. u = s
  BY <1>2, <1>4, OthersSame DEF Same
<1>6. Effect(s)
  <2>1. ~End(s)
    BY <1>1, EndOwn DEF Typed
  <2>2. ~Start(s) /\ ~Enter(s) /\ ~Begins(s) /\ ~Refuses(s) /\ ~Merges(s) /\ ~NextCallback(s)
    BY <1>1 DEF Start, Enter, Begins, Refuses, Merges, NextCallback
  <2>3. ~Fails(s) /\ ~Finish(s) /\ ~Kill(s)
    BY <1>1, <2>1 DEF Fails, Raise, Finish, Kill, Typed, TypedSessions
  <2> QED BY <1>4, <1>5, <2>2, <2>3 DEF Moved
<1> QED BY <1>1, <1>6 DEF Effect, Storage

LEMMA Complete ==
    ASSUME Typed, Working, [Next]_vars, NEW s \in Sessions, Committed(s), job[s].new \notin {NoVersion, job[s].old}
    PROVE  LET p == Pkg(s)
               v == job[s].new
           IN  /\ file'[p].version = v
               /\ <<p, v>> \in images /\ script[p] = v
               /\ p \in WithYang => yang[p] = v
               /\ feature[p] # NoFeature /\ feature[p].version = v
               /\ ~job[s].skip => \A c \in PluginsOf[<<p, v>>] : plugins[p][c] = v
               /\ \A o \in {"fast", "warm"} : order[o] = [q \in Packages |-> VersionIn(file', q)]
<1> DEFINE j == job[s]
           p == Pkg(s)
           v == j.new
           q == todo[s]
<1>1. Effect(s) /\ file' = mem[s] /\ pc[s] = "work" /\ Now(s).act = "dump"
  BY WhoCommits DEF Committed
<1>2. Done(s) /\ (Installs(j) \/ Upgrades(j)) /\ j.old # v
  BY <1>1 DEF Working, Installs, Upgrades
<1>3. Course(s) /\ Made(s) /\ Ready(s) /\ Program(j, q)
  BY <1>2, JobKinds DEF Done, Course
<1>4. Follows(s)
  BY <1>1, <1>3, StepFollows
<1>5. /\ p \in Packages /\ j \in Job /\ <<"dump", Now(s).undo>> \in Undo(j) /\ Next1(s) = LabelOf("dump", Now(s).undo)
      /\ Next1(s) = Label(Now(s))
  BY <1>1, <1>4 DEF Follows
<1>6. Next1(s) = "dump"
  <2>1. Now(s).undo = "none"
    BY <1>5 DEF Undo, InstallUndo, UpgradeUndo, RemoveUndo, CommitUndo
  <2> QED BY <2>1, <1>5 DEF LabelOf
<1>7. "dump" \in ScriptDone(j) /\ "dump" \in YangDone(j) /\ "dump" \in RowDone(j) /\ "dump" \in FastMade /\ "dump" \in WarmMade
      /\ "dump" \in Recorded /\ "dump" \in ImageMade /\ "dump" \notin Opening \cup {"none"}
  BY DEF ScriptDone, YangDone, RowDone, FastMade, WarmMade, Recorded, ImageMade, Opening, ScriptMade, YangMade, RowMade
<1>8. /\ script[p] = v /\ yang[p] = YangOf(p, v) /\ RowHas(feature[p], v) /\ OrderIs("fast", s) /\ OrderIs("warm", s)
      /\ VersionIn(mem[s], p) = v
  BY <1>3, <1>6, <1>7 DEF Made, RowIs, Pkg
<1>9. mem[s] \in Entries
  BY DEF Typed, TypedSessions
<1>10. file'[p].version = v
  BY <1>1, <1>5, <1>8, <1>9, VersionFacts
<1>11. <<p, v>> \in images /\ (~j.skip => {c \in PluginsOf[<<p, v>>] : plugins[p][c] # v} \subseteq PlugsIn(q))
  BY <1>3, <1>6, <1>7 DEF Ready, Pkg
<1>12. PlugsIn(q) = {}
  <2>1. q # <<>> /\ Now(s) = Head(q)
    BY StepFacts, <1>1 DEF Effect, Now
  <2>2. Label(Head(q)) \in Ending /\ Head(q).act # "plug"
    BY <2>1, <1>1, <1>5, <1>6 DEF Ending
  <2>3. PlugsIn(q) \subseteq PlugsIn(Tail(q)) /\ PlugsIn(Tail(q)) = {}
    BY <2>1, <2>2, <1>3, ProgramTail
  <2> HIDE DEF q
  <2> QED BY <2>3
<1>13. ~j.skip => \A c \in PluginsOf[<<p, v>>] : plugins[p][c] = v
  <2> HIDE DEF q
  <2> QED BY <1>11, <1>12
<1>14. ASSUME NEW o \in {"fast", "warm"} PROVE order[o] = [x \in Packages |-> VersionIn(file', x)]
  BY <1>1, <1>8 DEF OrderIs
<1>15. (p \in WithYang => yang[p] = v) /\ feature[p] # NoFeature /\ feature[p].version = v
  BY <1>2, <1>8 DEF YangOf, RowHas
<1> QED BY <1>8, <1>10, <1>11, <1>13, <1>14, <1>15

\* For any number of sessions, whatever fails or is killed: the programs that are
\* left say what has been done, and only the session that has the lock does it.
WorkInv == Typed /\ Locking /\ Working

\* This invariant is inductive: Perform never leaves the course of a program.
THEOREM SessionsInductive == Spec => []WorkInv
<1>1. Init => WorkInv
  BY InitTyped, InitWorking DEF WorkInv
<1>2. WorkInv /\ [Next]_vars => WorkInv'
  BY NextTyped, NextLocking, NextWorking DEF WorkInv
<1> QED BY <1>1, <1>2, PTL DEF Spec

\* What an install or upgrade records is there when it is recorded: SuccessIsComplete.
THEOREM RecordsAreComplete == Spec => SuccessIsComplete
<1>1. WorkInv /\ [Next]_vars =>
         [\A s \in Sessions :
             LET p == Pkg(s)
                 v == job[s].new
             IN  Committed(s) /\ v \notin {NoVersion, job[s].old} =>
                    /\ file'[p].version = v
                    /\ <<p, v>> \in images /\ script[p] = v
                    /\ p \in WithYang => yang[p] = v
                    /\ feature[p] # NoFeature /\ feature[p].version = v
                    /\ ~job[s].skip => \A c \in PluginsOf[<<p, v>>] : plugins[p][c] = v
                    /\ \A o \in {"fast", "warm"} :
                          order[o] = [q \in Packages |-> VersionIn(file', q)]]_vars
  BY Complete DEF WorkInv
<1> QED BY <1>1, SessionsInductive, PTL DEF Spec, SuccessIsComplete

-----------------------------------------------------------------------------
(* One session: what it finds, what it leaves, what it takes back. *)

LEMMA JobAfter ==
    ASSUME Typed, NEW s \in Sessions, Effect(s)
    PROVE  /\ job'[s].pkg = job[s].pkg /\ job'[s].old = job[s].old /\ job'[s].new = job[s].new /\ job'[s].skip = job[s].skip
           /\ Pkg(s)' = Pkg(s) /\ (Now(s).act # "probe" => job'[s] = job[s]) /\ Pkg(s) \in Packages
<1>1. job[s] \in Job /\ Pkg(s) \in Packages
  BY StepFacts DEF Effect
<1>2. CASE Now(s).act # "probe"
  <2>1. job'[s] = job[s]
    BY <1>2 DEF Effect, Control
  <2> QED BY <2>1, <1>1 DEF Pkg
<1>3. CASE Now(s).act = "probe"
  <2> DEFINE b == Enabled(Pkg(s))
  <2>1. b \in BOOLEAN
    BY DEF Enabled
  <2>2. job' = [job EXCEPT ![s] = [@ EXCEPT !.running = b]]
    BY <1>3 DEF Effect, Control
  <2> HIDE DEF b
  <2>3. job'[s] = [job[s] EXCEPT !.running = b]
    BY <2>2 DEF Typed, TypedSessions
  <2> QED BY <2>1, <2>3, <1>1, <1>3, RunningJob DEF Pkg
<1> QED BY <1>2, <1>3

LEMMA FitTransfer ==
    ASSUME NEW ps, NEW m, NEW n, Fit(ps, m), SameVersions(ps, m, n)
    PROVE  Fit(ps, n)
  BY DEF Fit, SameVersions

LEMMA FitUnion ==
    ASSUME NEW m, NEW p \in Packages
    PROVE  Fit(Packages, m) <=> Fit(Packages \ {p}, m) /\ Fit({p}, m)
  BY DEF Fit

LEMMA VersionsUnion ==
    ASSUME NEW m, NEW n, NEW p \in Packages
    PROVE  SameVersions(Packages, m, n) <=> SameVersions(Packages \ {p}, m, n) /\ SameVersions({p}, m, n)
  BY DEF SameVersions

LEMMA OthersFit ==
    ASSUME Typed, NEW s \in Sessions, Effect(s), Fit(Packages \ {Pkg(s)}, mem[s])
    PROVE  /\ Fit(Packages \ {Pkg(s)}, mem[s])'
           /\ spoiled' = spoiled
           /\ \A m : SameVersions(Packages \ {Pkg(s)}, m, mem[s]) => SameVersions(Packages \ {Pkg(s)}, m, mem'[s])
<1>1. Pkg(s)' = Pkg(s) /\ spoiled' = spoiled /\ Pkg(s) \in Packages
  BY JobAfter DEF Effect, Control
<1>2. ASSUME NEW q \in Packages \ {Pkg(s)} PROVE VersionIn(mem'[s], q) = VersionIn(mem[s], q)
  BY <1>2, MemAfter
<1>3. ASSUME NEW q \in (Packages \ {Pkg(s)}) \ spoiled, NEW v, v = VersionIn(mem[s], q), Fits(q, v)
      PROVE  Fits(q, v)'
  <2>1. script'[q] = script[q] /\ yang'[q] = yang[q] /\ feature'[q] = feature[q] /\ asked'[q] = asked[q]
    BY <1>3, HostAfter
  <2>2. <<q, v>> \in images => <<q, v>> \in images'
    <3>1. images' = images \cup {<<Pkg(s), Now(s).version>>} \/ images' = images \ {<<Pkg(s), Now(s).version>>} \/ images' = images
      BY DEF Effect, Storage
    <3> QED BY <3>1, <1>3
  <2> QED BY <1>3, <2>1, <2>2 DEF Fits, RowIs, RowAsAsked
<1>4. ASSUME NEW q \in (Packages \ {Pkg(s)}) \ spoiled PROVE Fits(q, VersionIn(mem[s], q))'
  <2>1. PICK v : v = VersionIn(mem[s], q)
    OBVIOUS
  <2>2. Fits(q, v)'
    BY <2>1, <1>3 DEF Fit
  <2> QED BY <2>1, <2>2, <1>2
<1>5. Fit(Packages \ {Pkg(s)}, mem[s])'
  BY <1>1, <1>4 DEF Fit
<1> QED BY <1>1, <1>2, <1>5 DEF SameVersions

\* What becomes of the state of the feature.
LEMMA RowStateAfter ==
    ASSUME Typed, NEW s \in Sessions, Effect(s)
    PROVE  LET p == Pkg(s)
               a == Now(s).act
           IN  /\ a \notin {"register", "deregister", "update", "stop", "start"} => feature'[p] = feature[p] /\ asked'[p] = asked[p]
               /\ a = "update" /\ feature[p] # NoFeature =>
                     feature'[p] # NoFeature /\ feature'[p].state = feature[p].state /\ asked'[p] = asked[p]
               /\ a \in {"stop", "start"} =>
                     /\ feature[p] # NoFeature /\ feature'[p] # NoFeature /\ asked'[p] = asked[p]
                     /\ feature'[p].state = IF a = "start" THEN "enabled" ELSE "disabled"
               /\ a = "register" =>
                     /\ feature'[p] # NoFeature
                     /\ IF feature[p] = NoFeature THEN Agrees(feature'[p].state, asked'[p])
                        ELSE feature'[p].state = feature[p].state /\ asked'[p] = asked[p]
               /\ a = "deregister" => feature'[p] = NoFeature
               /\ feature'[p] # NoFeature => feature'[p].state \in {"enabled", "disabled"}
<1> DEFINE t == Now(s)
           p == Pkg(s)
           a == t.act
           row(x, w) == [state |-> x, version |-> w]
<1>1. p \in Packages /\ feature[p] \in Feature /\ t.version \in VersionOrNone /\ job[s] \in Job
  BY StepFacts DEF Effect, Typed, TypedHost
<1>2. feature'[p] = RowAfter(s) /\ (a \in {"stop", "start"} => feature[p] # NoFeature)
      /\ asked'[p] = IF a = "register" /\ feature[p] = NoFeature THEN IF job[s].enable THEN "enabled" ELSE "disabled" ELSE asked[p]
  <2>1. Row(s)
    BY DEF Effect
  <2> QED BY <2>1, HostAfter DEF Row
<1>3. \A x \in {"enabled", "disabled"}, w \in VersionOrNone : row(x, w) # NoFeature /\ row(x, w).version = w /\ row(x, w).state = x
  BY FeaturesAssumption
<1>4. feature[p] # NoFeature => feature[p].state \in {"enabled", "disabled"} /\ feature[p].version \in VersionOrNone
  BY <1>1 DEF Feature
<1>5. CASE a \notin {"register", "deregister", "update", "stop", "start"}
  <2>1. feature'[p] = feature[p]
    BY <1>2, <1>5 DEF RowAfter
  <2> QED BY <2>1, <1>2, <1>4, <1>5
<1>6. CASE a \in {"stop", "start"}
  <2> DEFINE x == IF a = "start" THEN "enabled" ELSE "disabled"
  <2>1. RowAfter(s) = row(x, feature[p].version)
    BY <1>6 DEF RowAfter
  <2>2. x \in {"enabled", "disabled"}
    OBVIOUS
  <2> HIDE DEF row, x
  <2>3. feature'[p] # NoFeature /\ feature'[p].state = x /\ feature[p] # NoFeature
    BY <2>1, <2>2, <1>2, <1>3, <1>4, <1>6
  <2> QED BY <2>2, <2>3, <1>2, <1>6 DEF x
<1>7. CASE a = "register"
  <2> DEFINE w == IF job[s].enable THEN "enabled" ELSE "disabled"
             x == IF feature[p] # NoFeature THEN feature[p].state ELSE w
  <2>1. RowAfter(s) = row(x, t.version)
    BY <1>7 DEF RowAfter
  <2>2. x \in {"enabled", "disabled"}
    BY <1>4
  <2>4. asked'[p] = IF feature[p] = NoFeature THEN w ELSE asked[p]
    BY <1>2, <1>7
  <2> HIDE DEF row, x, w
  <2>3. feature'[p] # NoFeature /\ feature'[p].state = x
    BY <2>1, <2>2, <1>1, <1>2, <1>3
  <2> QED BY <2>2, <2>3, <2>4, <1>7 DEF x, Agrees
<1>8. CASE a = "update"
  <2> DEFINE x == IF feature[p] = NoFeature THEN "disabled" ELSE feature[p].state
  <2>1. RowAfter(s) = row(x, t.version)
    BY <1>8 DEF RowAfter
  <2>2. x \in {"enabled", "disabled"}
    BY <1>4
  <2> HIDE DEF row, x
  <2>3. feature'[p] # NoFeature /\ feature'[p].state = x
    BY <2>1, <2>2, <1>1, <1>2, <1>3
  <2> QED BY <2>2, <2>3, <1>2, <1>8 DEF x
<1>9. CASE a = "deregister"
  <2>1. feature'[p] = NoFeature
    BY <1>2, <1>9 DEF RowAfter
  <2> QED BY <2>1, <1>9
<1> QED BY <1>5, <1>6, <1>7, <1>8, <1>9

\* From which steps of an upgrade one can come to the next.
UpgradeFrom(j, a, h, h2) ==
    /\ h2 \in OldScript => h \in OldScript /\ a \notin {"script", "noscript"}
    /\ h2 \in OldYang => h \in OldYang /\ a \notin {"yang", "noyang"}
    /\ h2 \in {"script", "yang"} => (h \in {"script", "yang"} /\ a \notin {"yang", "noyang"}) \/ a = "noyang"
    /\ h2 \notin RowMade => h \notin RowMade /\ a \notin {"register", "deregister", "update"}
    /\ h2 \notin NoImage => h \notin NoImage /\ a # "rmi"
    /\ h2 \in {"stop", "await", "start", "awaitNew"} => j.running
    /\ j.running /\ h2 \in HaltedAt => (h \in HaltedAt /\ a \notin {"stop", "start"}) \/ (a = "stop" /\ h = "stop")
    /\ j.running /\ h2 \notin HaltedAt => (h \notin HaltedAt /\ a \notin {"stop", "start"}) \/ (a = "start" /\ h = "start")
    /\ a \in {"stop", "start"} => h = a
    /\ a \notin {"register", "deregister"} /\ (a = "update" => h = "update")

LEMMA OrderUpgrade ==
    ASSUME NEW j, Upgrades(j), NEW a, NEW c, <<a, c>> \in Undo(j), NEW h, h = LabelOf(a, c), NEW h2, <<h, h2>> \in Order(j)
    PROVE  UpgradeFrom(j, a, h, h2)
<1> DEFINE r == j.running
<1>1. <<a, c>> \in UpgradeUndo /\ <<h, h2>> \in UpgradeOrder(r)
  BY DEF Undo, Order, Installs, Upgrades
<1> HIDE DEF r
<1>2. a \in {"plug", "popAll", "record", "truncate", "dump", "rmi", "pull", "script", "yang", "update", "fast", "warm",
             "unplug", "probe", "stop", "await", "noscript", "noyang", "start"}
  BY <1>1 DEF UpgradeUndo, CommitUndo
<1>3. /\ h2 \in OldScript => h \in OldScript /\ a \notin {"script", "noscript"}
      /\ h2 \in OldYang => h \in OldYang /\ a \notin {"yang", "noyang"}
      /\ h2 \in {"script", "yang"} => (h \in {"script", "yang"} /\ a \notin {"yang", "noyang"}) \/ a = "noyang"
  <2>1. CASE a \in {"plug", "popAll", "record", "truncate", "dump", "rmi", "pull", "script", "yang", "update"}
    BY <1>1, <2>1 DEF UpgradeUndo, CommitUndo, LabelOf, UpgradeOrder, CommitOrder, OldScript, OldYang, Opening
  <2>2. CASE a \in {"fast", "warm", "unplug", "probe", "stop", "await", "noscript", "noyang", "start"}
    BY <1>1, <2>2 DEF UpgradeUndo, CommitUndo, LabelOf, UpgradeOrder, CommitOrder, OldScript, OldYang, Opening
  <2> QED BY <1>2, <2>1, <2>2
<1>4. /\ h2 \notin RowMade => h \notin RowMade /\ a \notin {"register", "deregister", "update"}
      /\ h2 \notin NoImage => h \notin NoImage /\ a # "rmi"
      /\ h2 \in {"stop", "await", "start", "awaitNew"} => r
  <2>1. CASE a \in {"plug", "popAll", "record", "truncate", "dump", "rmi", "pull", "script", "yang", "update"}
    BY <1>1, <2>1 DEF UpgradeUndo, CommitUndo, LabelOf, UpgradeOrder, CommitOrder, RowMade, NoImage
  <2>2. CASE a \in {"fast", "warm", "unplug", "probe", "stop", "await", "noscript", "noyang", "start"}
    BY <1>1, <2>2 DEF UpgradeUndo, CommitUndo, LabelOf, UpgradeOrder, CommitOrder, RowMade, NoImage
  <2> QED BY <1>2, <2>1, <2>2
<1>5. /\ r /\ h2 \in HaltedAt => (h \in HaltedAt /\ a \notin {"stop", "start"}) \/ (a = "stop" /\ h = "stop")
      /\ r /\ h2 \notin HaltedAt => (h \notin HaltedAt /\ a \notin {"stop", "start"}) \/ (a = "start" /\ h = "start")
      /\ a \in {"stop", "start"} => h = a
      /\ a \notin {"register", "deregister"} /\ (a = "update" => h = "update")
  <2>1. CASE a \in {"plug", "popAll", "record", "truncate", "dump", "rmi", "pull", "script", "yang", "update"}
    BY <1>1, <2>1 DEF UpgradeUndo, CommitUndo, LabelOf, UpgradeOrder, CommitOrder, HaltedAt
  <2>2. CASE a \in {"fast", "warm", "unplug", "probe", "stop", "await", "noscript", "noyang", "start"}
    BY <1>1, <2>2 DEF UpgradeUndo, CommitUndo, LabelOf, UpgradeOrder, CommitOrder, HaltedAt
  <2> QED BY <1>2, <2>1, <2>2
<1> QED BY <1>3, <1>4, <1>5 DEF r, UpgradeFrom

InstallFrom(a, h, h2) ==
    /\ h2 \in {"pull", "script"} => h \in {"pull", "script"} /\ a \notin {"script", "noscript"}
    /\ h2 \in {"pull", "script", "yang"} => h \in {"pull", "script", "yang"} /\ a \notin {"yang", "noyang"}
    /\ h2 \in {"pull", "script", "yang", "register"} =>
          h \in {"pull", "script", "yang", "register"} /\ a \notin {"register", "deregister", "update", "stop", "start"}
    /\ a \notin {"deregister", "update", "stop", "start"}

LEMMA OrderInstall ==
    ASSUME NEW j, Installs(j), NEW a, NEW c, <<a, c>> \in Undo(j), NEW h, h = LabelOf(a, c), NEW h2, <<h, h2>> \in Order(j)
    PROVE  InstallFrom(a, h, h2)
<1>1. <<a, c>> \in InstallUndo /\ <<h, h2>> \in InstallOrder
  BY DEF Undo, Order
<1> QED BY <1>1 DEF InstallUndo, CommitUndo, LabelOf, InstallOrder, CommitOrder, InstallFrom

LEMMA StorageAfter ==
    ASSUME Typed, NEW s \in Sessions, Effect(s)
    PROVE  /\ \A i \in images : i # <<Pkg(s), Now(s).version>> \/ Now(s).act # "rmi" => i \in images'
           /\ Now(s).act = "pull" => <<Pkg(s), Now(s).version>> \in images'
           /\ Now(s).act = "truncate" => file' = Torn
           /\ Now(s).act = "dump" => file' = mem[s]
           /\ Now(s).act \notin {"truncate", "dump"} => file' = file
           /\ pc'[s] = pc[s] /\ spoiled' = spoiled
<1>1. Storage(s) /\ Control(s)
  BY DEF Effect
<1>2. \A i \in images : i # <<Pkg(s), Now(s).version>> \/ Now(s).act # "rmi" => i \in images'
  BY <1>1 DEF Storage
<1>3. Now(s).act = "pull" => <<Pkg(s), Now(s).version>> \in images'
  BY <1>1 DEF Storage
<1>4. /\ Now(s).act = "truncate" => file' = Torn
      /\ Now(s).act = "dump" => file' = mem[s]
      /\ Now(s).act \notin {"truncate", "dump"} => file' = file
  BY <1>1 DEF Storage
<1>5. pc'[s] = pc[s] /\ spoiled' = spoiled
  BY <1>1 DEF Control
<1> QED BY <1>2, <1>3, <1>4, <1>5

LEMMA BeforeUpgradeStep ==
    ASSUME Typed, NEW s \in Sessions, Effect(s), Program(job[s], todo[s]), Upgrades(job[s]), BeforeUpgrade(s), Now(s).act # "probe"
    PROVE  BeforeUpgrade(s)'
<1> DEFINE j == job[s]
           p == Pkg(s)
           t == Now(s)
           a == t.act
           h == Next1(s)
           h2 == Next1(s)'
<1>1. /\ <<a, t.undo>> \in Undo(j) /\ h = LabelOf(a, t.undo) /\ h # "none" /\ p \in Packages /\ job'[s] = j
      /\ h2 # "none" => <<h, h2>> \in Order(j)
  BY StepFollows DEF Follows
<1>2. h2 = "none" => h = "dump" /\ a = "dump"
  <2>1. todo[s] # <<>> /\ Now(s) = Head(todo[s]) /\ Now(s) \in Step
    BY StepFacts DEF Effect, Now
  <2>2. h2 = "none" <=> Tail(todo[s]) = <<>>
    BY StepFollows DEF Follows
  <2>3. h = Label(Now(s))
    BY <2>1 DEF Next1
  <2>4. h2 = "none" => h \in {"probe", "dump"}
    BY <2>1, <2>2, <2>3, ProgramTail
  <2>5. h \in {"probe", "dump"} => h = a
    BY <2>3 DEF Label
  <2> QED BY <2>4, <2>5
<1>3. job'[s].pkg = p /\ p = j.pkg
  BY <1>1 DEF Pkg
<1>4. h2 # "none" =>
        /\ h2 \in OldScript => h \in OldScript /\ a \notin {"script", "noscript"}
        /\ h2 \in OldYang => h \in OldYang /\ a \notin {"yang", "noyang"}
        /\ h2 \in {"script", "yang"} => (h \in {"script", "yang"} /\ a \notin {"yang", "noyang"}) \/ a = "noyang"
        /\ h2 \notin RowMade => h \notin RowMade /\ a \notin {"register", "deregister", "update"}
        /\ h2 \notin NoImage => h \notin NoImage /\ a # "rmi"
        /\ h2 \in {"stop", "await", "start", "awaitNew"} => j.running
  <2>1. Upgrades(j)
    OBVIOUS
  <2> DEFINE c == t.undo
  <2>2. <<a, c>> \in Undo(j) /\ h = LabelOf(a, c) /\ (h2 # "none" => <<h, h2>> \in Order(j))
    BY <1>1
  <2> HIDE DEF j, a, h, h2, c
  <2>3. h2 # "none" => UpgradeFrom(j, a, h, h2)
    BY <2>1, <2>2, OrderUpgrade
  <2> QED BY <2>3 DEF UpgradeFrom
<1>5. h2 # "none" =>
        /\ j.running /\ h2 \in HaltedAt => (h \in HaltedAt /\ a \notin {"stop", "start"}) \/ (a = "stop" /\ h = "stop")
        /\ j.running /\ h2 \notin HaltedAt => (h \notin HaltedAt /\ a \notin {"stop", "start"}) \/ (a = "start" /\ h = "start")
        /\ a \in {"stop", "start"} => h = a
        /\ a \notin {"register", "deregister"} /\ (a = "update" => h = "update")
  <2>1. Upgrades(j)
    OBVIOUS
  <2> DEFINE c == t.undo
  <2>2. <<a, c>> \in Undo(j) /\ h = LabelOf(a, c) /\ (h2 # "none" => <<h, h2>> \in Order(j))
    BY <1>1
  <2> HIDE DEF j, a, h, h2, c
  <2>3. h2 # "none" => UpgradeFrom(j, a, h, h2)
    BY <2>1, <2>2, OrderUpgrade
  <2> QED BY <2>3 DEF UpgradeFrom
<1>6. /\ script'[p] = IF a = "script" THEN t.version ELSE IF a = "noscript" THEN NoVersion ELSE script[p]
      /\ yang'[p] = IF a = "yang" THEN YangOf(p, t.version) ELSE IF a = "noyang" THEN NoVersion ELSE yang[p]
  BY HostAfter
<1>7. \A v : a \notin {"register", "deregister", "update"} => (RowHas(feature[p], v) <=> RowHas(feature'[p], v))
  BY RowVersion
<1>8. a # "rmi" => \A i \in images : i \in images'
  BY StorageAfter
<1>9. /\ a \notin {"register", "deregister", "update", "stop", "start"} => feature'[p] = feature[p] /\ asked'[p] = asked[p]
      /\ a = "update" /\ feature[p] # NoFeature =>
            feature'[p] # NoFeature /\ feature'[p].state = feature[p].state /\ asked'[p] = asked[p]
      /\ a \in {"stop", "start"} =>
            /\ feature[p] # NoFeature /\ feature'[p] # NoFeature /\ asked'[p] = asked[p]
            /\ feature'[p].state = IF a = "start" THEN "enabled" ELSE "disabled"
  BY RowStateAfter
<1>10. /\ j.old # j.new
       /\ h \in OldScript => script[p] = j.old
       /\ h \in OldYang => yang[p] = YangOf(p, j.old)
       /\ h \in {"script", "yang"} => yang[p] = NoVersion
       /\ h \notin RowMade => RowHas(feature[p], j.old)
       /\ h \notin NoImage => <<p, j.old>> \in images
       /\ h \in {"stop", "await", "start", "awaitNew"} => j.running
       /\ StateIs(j.running /\ h \in HaltedAt, j.running, p)
  BY <1>1 DEF BeforeUpgrade, RowIs, Pkg
<1>11. j.old # NoVersion /\ (RowHas(feature[p], j.old) => feature[p] # NoFeature)
  BY DEF Upgrades, RowHas
<1> HIDE DEF j, p, t, a, h, h2
<1>12. /\ h2 \in OldScript => script'[p] = j.old
       /\ h2 \in OldYang => yang'[p] = YangOf(p, j.old)
       /\ h2 \in {"script", "yang"} => yang'[p] = NoVersion
  <2>1. h2 # "none" \/ (h2 \notin OldScript /\ h2 \notin OldYang /\ h2 \notin {"script", "yang"})
    BY DEF OldScript, OldYang, Opening
  <2>2. h2 \in OldScript => script'[p] = j.old
    BY <2>1, <1>4, <1>6, <1>10
  <2>3. h2 \in OldYang => yang'[p] = YangOf(p, j.old)
    BY <2>1, <1>4, <1>6, <1>10
  <2>4. h2 \in {"script", "yang"} => yang'[p] = NoVersion
    BY <2>1, <1>4, <1>6, <1>10
  <2> QED BY <2>2, <2>3, <2>4
<1>13. h2 \notin RowMade \cup {"none"} => RowHas(feature'[p], j.old)
  BY <1>4, <1>7, <1>10
<1>14. h2 \notin NoImage => <<p, j.old>> \in images'
  BY <1>4, <1>8, <1>10 DEF NoImage
<1>15. h2 \in {"stop", "await", "start", "awaitNew"} => j.running
  BY <1>4
<1>16. ~j.running => a \notin {"stop", "start"}
  <2>1. h2 # "none" => (a \in {"stop", "start"} => h = a)
    BY <1>5
  <2> QED BY <2>1, <1>2, <1>10
<1>17. a \notin {"register", "deregister"} /\ (a = "update" => feature[p] # NoFeature)
  <2>1. h2 # "none" => a \notin {"register", "deregister"} /\ (a = "update" => h = "update")
    BY <1>5
  <2>2. "update" \notin RowMade
    BY DEF RowMade
  <2> QED BY <2>1, <2>2, <1>2, <1>10, <1>11
<1>18. IF j.running /\ h2 \in HaltedAt
       THEN feature'[p] # NoFeature /\ Halts(feature'[p].state, asked'[p])
       ELSE (feature'[p] # NoFeature => Agrees(feature'[p].state, asked'[p])) /\ (j.running => Agrees("enabled", asked'[p]))
  <2>1. IF j.running /\ h \in HaltedAt
        THEN feature[p] # NoFeature /\ Halts(feature[p].state, asked[p])
        ELSE (feature[p] # NoFeature => Agrees(feature[p].state, asked[p])) /\ (j.running => Agrees("enabled", asked[p]))
    BY <1>10 DEF StateIs, Halted, RowAsAsked
  <2>2. CASE a \notin {"stop", "start"}
    <3>1. asked'[p] = asked[p] /\ (feature'[p] # NoFeature => feature[p] # NoFeature /\ feature'[p].state = feature[p].state)
          /\ (feature[p] # NoFeature => feature'[p] # NoFeature)
      BY <1>9, <1>17, <2>2
    <3>2. j.running => (h2 \in HaltedAt <=> h \in HaltedAt)
      <4>1. "none" \notin HaltedAt /\ "dump" \notin HaltedAt
        BY DEF HaltedAt
      <4> QED BY <4>1, <1>2, <1>5, <2>2
    <3> QED BY <2>1, <3>1, <3>2
  <2>3. CASE a \in {"stop", "start"}
    <3>1. j.running /\ h2 # "none"
      BY <1>16, <1>2, <2>3
    <3>2. "stop" \notin HaltedAt /\ "start" \in HaltedAt
      BY DEF HaltedAt
    <3>3. (h2 \in HaltedAt => a = "stop" /\ h = "stop") /\ (h2 \notin HaltedAt => a = "start" /\ h = "start")
      BY <1>5, <2>3, <3>1
    <3>4. feature[p] # NoFeature /\ feature'[p] # NoFeature /\ asked'[p] = asked[p]
          /\ feature'[p].state = IF a = "start" THEN "enabled" ELSE "disabled"
      BY <1>9, <2>3
    <3> QED BY <2>1, <3>1, <3>2, <3>3, <3>4 DEF Agrees, Halts
  <2> QED BY <2>2, <2>3
<1> QED
  BY <1>1, <1>3, <1>10, <1>12, <1>13, <1>14, <1>15, <1>18 DEF BeforeUpgrade, RowIs, StateIs, Halted, RowAsAsked, j, p, h2, Pkg

LEMMA BeforeInstallStep ==
    ASSUME Typed, NEW s \in Sessions, Effect(s), Program(job[s], todo[s]), Installs(job[s]), BeforeInstall(s), Now(s).act # "probe"
    PROVE  BeforeInstall(s)'
<1> DEFINE j == job[s]
           p == Pkg(s)
           t == Now(s)
           a == t.act
           c == t.undo
           h == Next1(s)
           h2 == Next1(s)'
<1>1. /\ <<a, c>> \in Undo(j) /\ h = LabelOf(a, c) /\ h # "none" /\ p \in Packages /\ job'[s] = j
      /\ h2 # "none" => <<h, h2>> \in Order(j)
  BY StepFollows DEF Follows
<1>2. h2 # "none" => InstallFrom(a, h, h2)
  <2>1. Installs(j)
    OBVIOUS
  <2> HIDE DEF j, a, h, h2, c
  <2> QED BY <2>1, <1>1, OrderInstall
<1>3. job'[s].pkg = p /\ p = j.pkg
  BY <1>1 DEF Pkg
<1>4. /\ script'[p] = IF a = "script" THEN t.version ELSE IF a = "noscript" THEN NoVersion ELSE script[p]
      /\ yang'[p] = IF a = "yang" THEN YangOf(p, t.version) ELSE IF a = "noyang" THEN NoVersion ELSE yang[p]
  BY HostAfter
<1>5. a \notin {"register", "deregister", "update", "stop", "start"} => feature'[p] = feature[p] /\ asked'[p] = asked[p]
  BY RowStateAfter
<1>6. a = "register" =>
         IF feature[p] = NoFeature THEN Agrees(feature'[p].state, asked'[p])
         ELSE feature'[p].state = feature[p].state /\ asked'[p] = asked[p]
  BY RowStateAfter
<1>7. a \notin {"deregister", "update", "stop", "start"}
  <2>1. <<a, c>> \in InstallUndo
    BY <1>1 DEF Undo
  <2> HIDE DEF a, c
  <2> QED BY <2>1 DEF InstallUndo, CommitUndo
<1>8. /\ h \in {"pull", "script"} => script[p] = NoVersion
      /\ h \in {"pull", "script", "yang"} => yang[p] = NoVersion
      /\ h \in {"pull", "script", "yang", "register"} => feature[p] = NoFeature
      /\ feature[p] # NoFeature => Agrees(feature[p].state, asked[p])
  BY DEF BeforeInstall, RowAsAsked, Pkg
<1> HIDE DEF j, p, t, a, c, h, h2
<1>9. /\ h2 \in {"pull", "script"} => script'[p] = NoVersion
      /\ h2 \in {"pull", "script", "yang"} => yang'[p] = NoVersion
      /\ h2 \in {"pull", "script", "yang", "register"} => feature'[p] = NoFeature
  BY <1>2, <1>4, <1>5, <1>8 DEF InstallFrom
<1>10. feature'[p] # NoFeature => Agrees(feature'[p].state, asked'[p])
  BY <1>5, <1>6, <1>7, <1>8
<1> QED BY <1>1, <1>3, <1>9, <1>10 DEF BeforeInstall, RowAsAsked, j, p, h2, Pkg

\* The answer to the question whether the feature is enabled.
LEMMA BeforeProbe ==
    ASSUME Typed, NEW s \in Sessions, Effect(s), Course(s), BeforeUpgrade(s), Now(s).act = "probe"
    PROVE  BeforeUpgrade(s)'
<1> DEFINE j == job[s]
           p == Pkg(s)
           h2 == Next1(s)'
           r == job'[s].running
<1>1. /\ Upgrades(j) /\ Next1(s) = "probe" /\ h2 = (IF r THEN "stop" ELSE "noscript") /\ p \in Packages
      /\ job'[s].pkg = p /\ job'[s].old = j.old /\ job'[s].new = j.new /\ r = Enabled(p) /\ ~j.running
  <2>1. Next1(s) = "probe" /\ Upgrades(j)
    BY CourseProbe
  <2>2. ~j.running
    BY <2>1 DEF Course, Opening
  <2> QED BY <2>1, <2>2, CourseProbe, JobAfter
<1>2. script'[p] = script[p] /\ yang'[p] = yang[p] /\ feature'[p] = feature[p] /\ asked'[p] = asked[p]
      /\ \A i \in images : i \in images'
  <2>1. script'[p] = script[p] /\ yang'[p] = yang[p]
    BY HostAfter
  <2>2. feature'[p] = feature[p] /\ asked'[p] = asked[p]
    BY RowStateAfter
  <2> QED BY <2>1, <2>2, StorageAfter
<1>3. /\ j.old # j.new /\ script[p] = j.old /\ yang[p] = YangOf(p, j.old) /\ RowHas(feature[p], j.old)
      /\ <<p, j.old>> \in images /\ (feature[p] # NoFeature => Agrees(feature[p].state, asked[p]))
  BY <1>1 DEF BeforeUpgrade, RowIs, Pkg, OldScript, OldYang, Opening, RowMade, NoImage, HaltedAt, StateIs, RowAsAsked
<1>4. /\ h2 \notin HaltedAt \/ ~r
      /\ h2 \notin {"script", "yang"}
      /\ h2 \in {"stop", "await", "start", "awaitNew"} => r
  BY <1>1 DEF HaltedAt
<1>5. (feature'[p] # NoFeature => Agrees(feature'[p].state, asked'[p])) /\ (r => Agrees("enabled", asked'[p]))
  BY <1>1, <1>2, <1>3 DEF Enabled
<1> HIDE DEF j, p, h2, r
<1> QED BY <1>1, <1>2, <1>3, <1>4, <1>5 DEF BeforeUpgrade, RowIs, StateIs, Halted, RowAsAsked, j, p, h2, r, Pkg

\* A step keeps what the operation has found, as far as it has not yet replaced it.
LEMMA BeforeStep ==
    ASSUME Typed, NEW s \in Sessions, Effect(s), Course(s), Before(s)
    PROVE  Before(s)'
<1> DEFINE j == job[s]
           p == Pkg(s)
           a == Now(s).act
<1>1. /\ job'[s].pkg = p /\ job'[s].old = j.old /\ job'[s].new = j.new /\ Pkg(s)' = p /\ p = j.pkg /\ p \in Packages
  BY JobAfter DEF Pkg
<1>2. Program(job[s], todo[s])
  BY DEF Course
<1>3. (Upgrades(j) <=> Upgrades(job'[s])) /\ (Installs(j) <=> Installs(job'[s])) /\ (Removes(j) <=> Removes(job'[s]))
      /\ (Commits(j) <=> Commits(job'[s]))
  BY <1>1 DEF Upgrades, Installs, Removes, Commits
<1>4. a = "probe" => Upgrades(j)
  BY CourseProbe
<1>5. Upgrades(j) => BeforeUpgrade(s)'
  BY <1>2, BeforeUpgradeStep, BeforeProbe DEF Before
<1>6. Installs(j) => BeforeInstall(s)'
  BY <1>2, <1>4, JobKinds, BeforeInstallStep DEF Before
<1>7. ASSUME Removes(j) PROVE Next1(s)' # "stop"
  <2>1. a # "probe"
    BY <1>4, <1>7, JobKinds
  <2>2. Next1(s)' # "none" => <<Next1(s), Next1(s)'>> \in Order(j)
    BY <1>2, <2>1, StepFollows DEF Follows
  <2>3. Order(j) = RemoveOrder
    BY <1>7, JobKinds DEF Order
  <2> DEFINE h == Next1(s)
             h2 == Next1(s)'
  <2>4. h2 # "none" => <<h, h2>> \in RemoveOrder
    BY <2>2, <2>3
  <2> HIDE DEF h, h2
  <2>5. h2 # "stop"
    BY <2>4 DEF RemoveOrder, CommitOrder
  <2> QED BY <2>5 DEF h2
<1>8. ASSUME Commits(j) PROVE Next1(s)' \in Written /\ Fits(p, VersionIn(mem[s], p))'
  <2> DEFINE h == Next1(s)
             h2 == Next1(s)'
             c == Now(s).undo
             v == VersionIn(mem[s], p)
  <2>1. a # "probe"
    BY <1>4, <1>8, JobKinds
  <2>2. (h2 # "none" => <<h, h2>> \in Order(j)) /\ h = LabelOf(a, c) /\ <<a, c>> \in Undo(j) /\ h # "none"
    BY <1>2, <2>1, StepFollows DEF Follows
  <2>3. Order(j) = CommitOrder /\ Undo(j) = CommitUndo
    BY <1>8, JobKinds DEF Order, Undo
  <2>4. h \in Written /\ Fits(p, v)
    BY <1>8 DEF Before, Pkg
  <2>5. /\ script'[p] = IF a = "script" THEN Now(s).version ELSE IF a = "noscript" THEN NoVersion ELSE script[p]
        /\ yang'[p] = IF a = "yang" THEN YangOf(p, Now(s).version) ELSE IF a = "noyang" THEN NoVersion ELSE yang[p]
    BY HostAfter
  <2>6. a \notin {"register", "deregister", "update", "stop", "start"} => feature'[p] = feature[p] /\ asked'[p] = asked[p]
    BY RowStateAfter
  <2>7. a # "rmi" => \A i \in images : i \in images'
    BY StorageAfter
  <2>8. a # "record" => VersionIn(mem'[s], p) = v
    <3>1. a # "record" => mem'[s] = mem[s]
      BY MemAfter
    <3> QED BY <3>1
  <2>9. h2 \in Written /\ a \in {"truncate", "dump"}
    <3> HIDE DEF a, h, h2, c, j
    <3> QED BY <2>2, <2>3, <2>4 DEF CommitOrder, CommitUndo, LabelOf, Written
  <2>10. script'[p] = script[p] /\ yang'[p] = yang[p] /\ feature'[p] = feature[p] /\ asked'[p] = asked[p]
         /\ (\A i \in images : i \in images') /\ VersionIn(mem'[s], p) = v
    <3> HIDE DEF a, v
    <3> QED BY <2>5, <2>6, <2>7, <2>8, <2>9
  <2>11. Pkg(s)' = p
    BY <1>1
  <2> HIDE DEF h2, v, p
  <2> QED BY <2>4, <2>9, <2>10, <2>11 DEF Fits, RowIs, RowAsAsked, h2, p
<1> QED
  <2>1. Commits(job'[s]) => Next1(s)' \in Written /\ Fits(p, VersionIn(mem[s], p))'
    BY <1>3, <1>8
  <2>2. Removes(job'[s]) => Next1(s)' # "stop"
    BY <1>3, <1>7
  <2> QED BY <1>1, <1>3, <1>5, <1>6, <2>1, <2>2 DEF Before, Pkg

CommitFrom(a, h, h2) ==
    /\ a = "truncate" => h2 = "dump"
    /\ a = "dump" => h2 = "truncate"
    /\ h2 = "dump" => a = "truncate"
    /\ h2 \notin Written => h \notin Written
    /\ (h = "dump" <=> a = "dump") /\ h2 # "none"

LEMMA OrderCommit ==
    ASSUME NEW j, NEW a, NEW c, <<a, c>> \in Undo(j), NEW h, h = LabelOf(a, c), NEW h2, <<h, h2>> \in Order(j)
    PROVE  CommitFrom(a, h, h2)
<1>1. CASE Installs(j)
  <2>1. <<a, c>> \in InstallUndo /\ <<h, h2>> \in InstallOrder
    BY <1>1 DEF Undo, Order
  <2> QED BY <2>1 DEF InstallUndo, CommitUndo, LabelOf, InstallOrder, CommitOrder, CommitFrom, Written
<1>2. CASE Upgrades(j)
  <2> DEFINE r == j.running
  <2>1. <<a, c>> \in UpgradeUndo /\ <<h, h2>> \in UpgradeOrder(r)
    BY <1>2 DEF Undo, Order, Installs, Upgrades
  <2> HIDE DEF r
  <2>2. a \in {"plug", "popAll", "record", "truncate", "dump", "rmi", "pull", "script", "yang", "update", "fast", "warm",
               "unplug", "probe", "stop", "await", "noscript", "noyang", "start"}
    BY <2>1 DEF UpgradeUndo, CommitUndo
  <2>3. CASE a \in {"plug", "popAll", "record", "truncate", "dump", "rmi", "pull", "script", "yang", "update"}
    BY <2>1, <2>3 DEF UpgradeUndo, CommitUndo, LabelOf, UpgradeOrder, CommitOrder, Written, CommitFrom
  <2>4. CASE a \in {"fast", "warm", "unplug", "probe", "stop", "await", "noscript", "noyang", "start"}
    BY <2>1, <2>4 DEF UpgradeUndo, CommitUndo, LabelOf, UpgradeOrder, CommitOrder, Written, CommitFrom
  <2> QED BY <2>2, <2>3, <2>4
<1>3. CASE Removes(j)
  <2>1. <<a, c>> \in RemoveUndo /\ <<h, h2>> \in RemoveOrder
    BY <1>3, JobKinds DEF Undo, Order
  <2> QED BY <2>1 DEF RemoveUndo, CommitUndo, LabelOf, RemoveOrder, CommitOrder, CommitFrom, Written
<1>4. CASE Commits(j)
  <2>1. <<a, c>> \in CommitUndo /\ <<h, h2>> \in CommitOrder
    BY <1>4, JobKinds DEF Undo, Order
  <2> QED BY <2>1 DEF CommitUndo, LabelOf, CommitOrder, CommitFrom, Written
<1> QED BY <1>1, <1>2, <1>3, <1>4, JobKinds

\* When packages.json is about to be dumped, the host has what it will say of the package.
LEMMA DumpFits ==
    ASSUME Typed, NEW s \in Sessions, Done(s), Before(s), Next1(s) = "dump"
    PROVE  Fits(Pkg(s), VersionIn(mem[s], Pkg(s)))
<1> DEFINE j == job[s]
           p == Pkg(s)
<1>1. CASE Commits(j)
  BY <1>1 DEF Before, Pkg
<1>2. CASE ~Commits(j)
  <2>1. "dump" \in ScriptDone(j) /\ "dump" \in YangDone(j) /\ "dump" \in RowDone(j) /\ "dump" \in Recorded /\ "dump" \in ImageMade
    BY DEF ScriptDone, YangDone, RowDone, Recorded, ImageMade, ScriptMade, YangMade, RowMade
  <2>2. script[p] = j.new /\ yang[p] = YangOf(p, j.new) /\ RowIs(p, j.new) /\ VersionIn(mem[s], p) = j.new
    BY <1>2, <2>1 DEF Done, Made, Pkg
  <2>3. RowAsAsked(p)
    <3>1. CASE Upgrades(j)
      BY <3>1 DEF Before, BeforeUpgrade, StateIs, HaltedAt, Pkg
    <3>2. CASE Installs(j)
      BY <3>2 DEF Before, BeforeInstall, Pkg
    <3>3. CASE Removes(j)
      BY <3>3, <2>2 DEF Removes, RowIs, RowHas, RowAsAsked
    <3> QED BY <1>2, <3>1, <3>2, <3>3, JobKinds
  <2>4. j.new # NoVersion => <<p, j.new>> \in images
    <3>1. Installs(j) => j.old # j.new
      BY DEF Installs
    <3>2. Upgrades(j) => j.old # j.new
      BY DEF Before, BeforeUpgrade
    <3>3. j.new # NoVersion => Installs(j) \/ Upgrades(j)
      BY DEF Installs, Upgrades
    <3> QED BY <2>1, <3>1, <3>2, <3>3 DEF Done, Ready, Pkg
  <2> HIDE DEF p, j
  <2> QED BY <2>2, <2>3, <2>4 DEF Fits, p
<1> QED BY <1>1, <1>2

LEMMA FileStep ==
    ASSUME Typed, NEW s \in Sessions, Effect(s), Done(s), InWork(s)
    PROVE  FileInWork(s)'
<1> DEFINE j == job[s]
           p == Pkg(s)
           a == Now(s).act
           h == Next1(s)
           h2 == Next1(s)'
           m == mem[s]
           m2 == mem'[s]
           others == Packages \ {p}
<1>1. /\ job'[s].old = j.old /\ Pkg(s)' = p /\ p \in Packages /\ m \in Entries /\ spoiled' = spoiled /\ a \in Acts
  BY JobAfter, StorageAfter, StepFacts DEF Effect
<1>2. /\ Program(job[s], todo[s])
      /\ IF h = "dump" THEN file = Torn ELSE file # Torn /\ SameVersions(others, file, m)
      /\ h \notin Written => VersionIn(file, p) = j.old
  BY DEF Done, Course, InWork, FileInWork
<1>3. a # "probe" => h # "none" /\ (h = "dump" <=> a = "dump") /\ (h2 # "none" => CommitFrom(a, h, h2))
                     /\ (h2 = "none" => a = "dump")
  <2> SUFFICES ASSUME a # "probe" PROVE h # "none" /\ (h = "dump" <=> a = "dump") /\ (h2 # "none" => CommitFrom(a, h, h2))
                                        /\ (h2 = "none" => a = "dump")
    OBVIOUS
  <2> DEFINE c == Now(s).undo
  <2>1. /\ <<a, c>> \in Undo(j) /\ h = LabelOf(a, c) /\ h # "none" /\ (h2 # "none" => <<h, h2>> \in Order(j))
        /\ h2 = "none" <=> Tail(todo[s]) = <<>>
    BY <1>2, StepFollows DEF Follows
  <2>2. h = Label(Now(s)) /\ todo[s] # <<>> /\ Now(s) = Head(todo[s])
    BY StepFacts DEF Effect, Next1, Now
  <2>3. h2 = "none" => h \in {"probe", "dump"}
    BY <1>2, <2>1, <2>2, ProgramTail
  <2>4. h \in {"probe", "dump"} => h = a
    BY <2>2 DEF Label
  <2>5. a = "dump" => h = "dump"
    <3>1. ASSUME a = "dump" PROVE c \notin {"stopNew", "unplugNew", "plugOld"}
      <4> HIDE DEF a, c, j
      <4> QED BY <2>1, <3>1 DEF Undo, InstallUndo, UpgradeUndo, RemoveUndo, CommitUndo
    <3> QED BY <2>1, <3>1 DEF LabelOf
  <2>6. h2 # "none" => CommitFrom(a, h, h2)
    <3> HIDE DEF j, a, h, h2, c
    <3> QED BY <2>1, OrderCommit
  <2> QED BY <2>1, <2>3, <2>4, <2>5, <2>6
<1>4. a = "probe" => h = "probe" /\ h2 \in {"stop", "noscript"}
  BY CourseProbe DEF Done
<1>5. /\ a = "truncate" => file' = Torn
      /\ a = "dump" => file' = m
      /\ a \notin {"truncate", "dump"} => file' = file
  BY StorageAfter
<1>6. (a # "record" => m2 = m) /\ (SameVersions(others, file, m) => SameVersions(others, file, m2))
  BY MemAfter, OthersFit DEF InWork
<1>7. ASSUME h2 = "none", p \notin spoiled PROVE Fits(p, VersionIn(m, p))'
  <2>1. a = "dump" /\ h = "dump"
    BY <1>3, <1>4, <1>7
  <2>2. Fits(p, VersionIn(m, p))
    BY <2>1, <1>7, DumpFits DEF InWork
  <2>3. script'[p] = script[p] /\ yang'[p] = yang[p] /\ feature'[p] = feature[p] /\ asked'[p] = asked[p]
    <3>1. /\ script'[p] = IF a = "script" THEN Now(s).version ELSE IF a = "noscript" THEN NoVersion ELSE script[p]
          /\ yang'[p] = IF a = "yang" THEN YangOf(p, Now(s).version) ELSE IF a = "noyang" THEN NoVersion ELSE yang[p]
      BY HostAfter
    <3>2. a \notin {"register", "deregister", "update", "stop", "start"} => feature'[p] = feature[p] /\ asked'[p] = asked[p]
      BY RowStateAfter
    <3> HIDE DEF a, p
    <3> QED BY <2>1, <3>1, <3>2
  <2>4. \A i \in images : i \in images'
    BY <2>1, StorageAfter
  <2>5. m2 = m /\ Pkg(s)' = p
    BY <1>1, <1>6, <2>1
  <2> DEFINE v == VersionIn(m, p)
  <2>6. Fits(p, v) /\ VersionIn(m2, p) = v
    BY <2>2, <2>5
  <2> HIDE DEF v, p, m2
  <2> QED BY <2>3, <2>4, <2>5, <2>6 DEF Fits, RowIs, RowAsAsked, p, m2
<1>8. m # Torn
  BY <1>1, PackagesAssumption
<1>9. h2 = "none" => SameVersions({p}, file', m2) /\ (p \notin spoiled' => Fits(p, VersionIn(m, p))')
  BY <1>1, <1>3, <1>4, <1>5, <1>6, <1>7 DEF SameVersions
<1>10. IF h2 = "dump" THEN file' = Torn ELSE file' # Torn /\ SameVersions(others, file', m2)
  <2>1. CASE a = "dump"
    <3>1. h2 # "dump" /\ file' = m /\ m2 = m
      BY <2>1, <1>3, <1>5, <1>6 DEF CommitFrom
    <3> QED BY <3>1, <1>8 DEF SameVersions
  <2>2. CASE a = "truncate"
    BY <2>2, <1>3, <1>5 DEF CommitFrom
  <2>3. CASE a \notin {"truncate", "dump"}
    <3>1. h2 # "dump" /\ file' = file /\ h # "dump"
      BY <2>3, <1>3, <1>4, <1>5 DEF CommitFrom
    <3> QED BY <3>1, <1>2, <1>6
  <2> QED BY <2>1, <2>2, <2>3
<1>11. h2 \notin Written => VersionIn(file', p) = j.old
  <2>1. h2 \notin Written => h2 # "none"
    BY DEF Written
  <2>2. h2 \notin Written => h \notin Written /\ a \notin {"truncate", "dump"}
    BY <2>1, <1>3, <1>4 DEF CommitFrom, Written
  <2> QED BY <2>2, <1>2, <1>5
<1> HIDE DEF h2, p, m2, j
<1> QED BY <1>1, <1>9, <1>10, <1>11 DEF FileInWork, Fit, h2, p, m2, j

LEMMA InWorkStep ==
    ASSUME Typed, NEW s \in Sessions, Effect(s), Done(s), InWork(s)
    PROVE  InWork(s)'
<1>1. FileInWork(s)'
  BY FileStep
<1>2. Fit(Packages \ {Pkg(s)}, mem[s])' /\ spoiled' = spoiled
  BY OthersFit DEF InWork
<1>3. Pkg(s)' = Pkg(s)
  BY JobAfter
<1>4. Pkg(s) \notin spoiled => Before(s)'
  BY BeforeStep DEF InWork, Done
<1> QED BY <1>1, <1>2, <1>3, <1>4 DEF InWork

\* What an accepted operation finds when it begins.
LEMMA BeginsInWork ==
    ASSUME Typed, NEW s \in Sessions, Begins(s), Resting(s)
    PROVE  InWork(s)'
<1> PICK m, j, q : Begin(s, m, j, q) /\ Started(s, m, j, q)
  BY DEF Begins
<1>1. /\ mem'[s] = m /\ job'[s] = j /\ todo'[s] = q
      /\ spoiled' = (IF j.new # NoVersion /\ j.new = j.old THEN spoiled \cup {j.pkg} ELSE spoiled)
      /\ UNCHANGED <<file, images, script, yang, feature, plugins, order, asked>>
  BY DEF Begin, Typed, TypedSessions, host
<1>2. m \in Entries /\ j \in Job /\ SameVersions(Packages, m, mem[s]) /\ (~Commits(j) => j.old = VersionIn(m, j.pkg))
  BY DEF Started
<1> DEFINE h == IF q = <<>> THEN "none" ELSE Label(Head(q))
           p == j.pkg
           v == VersionIn(m, p)
<1>3. Next1(s)' = h /\ Pkg(s)' = p /\ p \in Packages
  BY <1>1, <1>2 DEF Next1, Pkg, Job
<1>4. /\ Commits(j) => h \in {"none", "truncate"}
      /\ Installs(j) => h = "pull"
      /\ Upgrades(j) => h \in {"unplug", "unplugLast", "pull"} /\ ~j.running
      /\ Removes(j) => h = "stop"
  BY StartedWith
<1>5. file # Torn /\ SameVersions(Packages, file, mem[s]) /\ Fit(Packages, mem[s])
  BY DEF Resting, Begins
<1>6. Fit(Packages, m) /\ SameVersions(Packages, file, m)
  BY <1>2, <1>5 DEF Fit, SameVersions
<1>7. ASSUME NEW x \in Packages \ spoiled PROVE Fits(x, VersionIn(m, x))'
  <2> DEFINE w == VersionIn(m, x)
  <2>1. Fits(x, w)
    BY <1>6 DEF Fit
  <2> HIDE DEF w
  <2>2. Fits(x, w)'
    BY <1>1, <2>1 DEF Fits, RowIs, RowAsAsked
  <2> QED BY <2>2 DEF w
<1>8. \A x \in Packages \ spoiled' : Fits(x, VersionIn(m, x))'
  BY <1>1, <1>7
<1>9. Fit(Packages \ {Pkg(s)}, mem[s])'
  BY <1>1, <1>8 DEF Fit
<1>10. p \notin spoiled' => p \notin spoiled /\ ~(j.new # NoVersion /\ j.new = j.old) /\ Fits(p, v)
  <2>1. p \notin spoiled' => p \notin spoiled /\ ~(j.new # NoVersion /\ j.new = j.old)
    BY <1>1
  <2>2. p \notin spoiled => Fits(p, v)
    BY <1>3, <1>6 DEF Fit
  <2> QED BY <2>1, <2>2
<1>11. FileInWork(s)'
  <2>1. h # "dump" /\ (h \notin Written => ~Commits(j))
    <3> HIDE DEF h
    <3> QED BY <1>4, JobKinds DEF Written
  <2>2. file' # Torn /\ SameVersions(Packages \ {p}, file', m) /\ SameVersions({p}, file', m)
    BY <1>1, <1>3, <1>5, <1>6 DEF SameVersions
  <2>3. h \notin Written => VersionIn(file', p) = j.old
    BY <2>1, <1>1, <1>2, <1>3, <1>6 DEF SameVersions
  <2>4. p \notin spoiled' => Fits(p, VersionIn(m, p))'
    BY <1>3, <1>8
  <2> HIDE DEF h, p
  <2> QED BY <1>1, <1>3, <2>1, <2>2, <2>3, <2>4 DEF FileInWork, Fit
<1>12. ASSUME p \notin spoiled' PROVE Before(s)'
  <2>1. /\ script[p] = v /\ yang[p] = YangOf(p, v) /\ RowHas(feature[p], v) /\ (feature[p] # NoFeature => Agrees(feature[p].state, asked[p]))
        /\ v # NoVersion => <<p, v>> \in images
    BY <1>10, <1>12 DEF Fits, RowIs, RowAsAsked
  <2>2. ~Commits(j) => v = j.old
    BY <1>2
  <2>3. ~(j.new # NoVersion /\ j.new = j.old)
    BY <1>10, <1>12
  <2>4. script' = script /\ yang' = yang /\ feature' = feature /\ asked' = asked /\ images' = images
    BY <1>1
  <2>5. job'[s].pkg = p /\ Next1(s)' = h /\ job'[s] = j /\ Pkg(s)' = p /\ mem'[s] = m
    BY <1>1, <1>3
  <2> HIDE DEF h
  <2>6. Upgrades(j) => BeforeUpgrade(s)'
    <3> SUFFICES ASSUME Upgrades(j) PROVE BeforeUpgrade(s)'
      OBVIOUS
    <3>1. j.old # NoVersion /\ j.old # j.new /\ v = j.old
      BY <2>2, <2>3, JobKinds DEF Upgrades
    <3>2. h \notin {"script", "yang"} \cup {"stop", "await", "start", "awaitNew"} /\ ~j.running
      BY <1>4
    <3> HIDE DEF v, p
    <3> QED BY <2>1, <2>4, <2>5, <3>1, <3>2 DEF BeforeUpgrade, RowIs, RowAsAsked, StateIs
  <2>7. Installs(j) => BeforeInstall(s)'
    <3> SUFFICES ASSUME Installs(j) PROVE BeforeInstall(s)'
      OBVIOUS
    <3>1. v = NoVersion
      BY <2>2, JobKinds DEF Installs
    <3>2. script[p] = NoVersion /\ yang[p] = NoVersion /\ feature[p] = NoFeature
      BY <2>1, <3>1 DEF YangOf, RowHas
    <3> HIDE DEF v, p
    <3> QED BY <2>4, <2>5, <3>2 DEF BeforeInstall, RowAsAsked
  <2>8. Removes(j) => feature[p] # NoFeature
    BY <2>1, <2>2, JobKinds DEF Removes, RowHas
  <2>9. Commits(j) => h \in Written /\ Fits(p, VersionIn(m, p))'
    <3>1. Fits(p, VersionIn(m, p))'
      BY <1>3, <1>8, <1>12
    <3> QED BY <1>4, <3>1 DEF Written
  <2> HIDE DEF v, p
  <2> QED BY <2>4, <2>5, <2>6, <2>7, <2>8, <2>9 DEF Before
<1> QED BY <1>3, <1>9, <1>11, <1>12 DEF InWork

LEMMA FitKept ==
    ASSUME UNCHANGED <<images, script, yang, feature, asked>>, spoiled \subseteq spoiled', NEW ps, NEW m, Fit(ps, m)
    PROVE  Fit(ps, m)'
<1>1. ASSUME NEW x \in ps \ spoiled' PROVE Fits(x, VersionIn(m, x))'
  <2> DEFINE w == VersionIn(m, x)
  <2>1. Fits(x, w)
    BY <1>1 DEF Fit
  <2> HIDE DEF w
  <2>2. Fits(x, w)'
    BY <2>1 DEF Fits, RowIs, RowAsAsked
  <2> QED BY <2>2 DEF w
<1> QED BY <1>1 DEF Fit

\* An operation that has ended well, or has not begun, leaves what packages.json says.
LEMMA Settled ==
    ASSUME Typed, NEW s \in Sessions, AloneAt(s), pc[s] \in {"idle", "prompt", "check"} \/ (pc[s] = "work" /\ todo[s] = <<>>), file # Torn
    PROVE  Fit(Packages, file) /\ (pc[s] \in {"check", "work"} => SameVersions(Packages, file, mem[s]) /\ Fit(Packages, mem[s]))
<1>1. CASE pc[s] = "idle"
  BY <1>1 DEF AloneAt, Resting
<1>2. CASE pc[s] = "prompt"
  BY <1>2 DEF AloneAt, Resting
<1>3. CASE pc[s] = "check"
  BY <1>3 DEF AloneAt, Resting, Fit, SameVersions
<1>4. CASE pc[s] = "work" /\ todo[s] = <<>>
  <2> DEFINE p == Pkg(s)
  <2>1. Next1(s) = "none" /\ p \in Packages
    BY <1>4 DEF Next1, Typed, TypedSessions, Pkg, Job
  <2>2. SameVersions(Packages \ {p}, file, mem[s]) /\ SameVersions({p}, file, mem[s]) /\ Fit({p}, mem[s])
    BY <1>4, <2>1 DEF AloneAt, InWork, FileInWork
  <2>3. Fit(Packages \ {p}, mem[s])
    BY <1>4 DEF AloneAt, InWork
  <2>4. SameVersions(Packages, file, mem[s]) /\ Fit(Packages, mem[s])
    BY <2>1, <2>2, <2>3, FitUnion, VersionsUnion
  <2> QED BY <1>4, <2>4 DEF Fit, SameVersions
<1> QED BY <1>1, <1>2, <1>3, <1>4

LEMMA EndsSettled ==
    ASSUME Typed, NEW s \in Sessions, AloneAt(s), pc[s] \in {"idle", "prompt", "check"} \/ (pc[s] = "work" /\ todo[s] = <<>>),
           UNCHANGED <<file, host, ghost>>, pc'[s] = "idle"
    PROVE  AloneAt(s)'
<1> PICK m : m = file
  OBVIOUS
<1>1. m # Torn => Fit(Packages, m)
  BY Settled
<1>2. m # Torn => Fit(Packages, m)'
  BY <1>1, FitKept DEF host, ghost
<1> QED BY <1>2 DEF AloneAt, Resting

LEMMA RestingKept ==
    ASSUME Typed, NEW s \in Sessions, AloneAt(s), Start(s) \/ Enter(s) \/ Refuses(s) \/ Merges(s) \/ Finish(s)
    PROVE  AloneAt(s)'
<1>1. UNCHANGED <<file, host, ghost>>
  BY HostSame DEF Moved, Start, Enter, Refuses, Refuse, Merges, Finish
<1>2. ASSUME NEW m, Fit(Packages, m) PROVE Fit(Packages, m)'
  BY <1>1, <1>2, FitKept DEF host, ghost
<1>3. CASE Start(s)
  <2>1. pc[s] = "idle" /\ file # Torn /\ mem'[s] = file /\ pc'[s] = "prompt"
    BY <1>3 DEF Start, Typed, TypedSessions
  <2> PICK m : m = file
    OBVIOUS
  <2>2. Fit(Packages, m)'
    BY <1>2, <2>1, Settled
  <2> QED BY <1>1, <2>1, <2>2 DEF AloneAt, Resting
<1>4. CASE pc'[s] = "idle" /\ pc[s] \in {"prompt", "check"}
  BY <1>1, <1>4, EndsSettled
<1>5. CASE Enter(s)
  <2>1. CASE lock # Nobody
    BY <1>4, <1>5, <2>1, EndOwn DEF Enter, Typed
  <2>2. CASE lock = Nobody
    <3>1. pc[s] = "prompt" /\ pc'[s] = "check" /\ mem' = mem
      BY <1>5, <2>2 DEF Enter, Typed, TypedSessions
    <3>2. mem[s] = file /\ Fit(Packages, file) /\ mem[s] \in Entries
      BY <3>1 DEF AloneAt, Resting, Typed, TypedSessions
    <3> PICK m : m = file
      OBVIOUS
    <3>3. Fit(Packages, m)' /\ file' = m /\ mem'[s] = m /\ m # Torn
      BY <1>1, <1>2, <3>1, <3>2, PackagesAssumption
    <3> QED BY <3>1, <3>3 DEF AloneAt, Resting, SameVersions
  <2> QED BY <2>1, <2>2
<1>6. CASE Refuses(s)
  BY <1>4, <1>6, EndOwn DEF Refuses, Refuse, Typed
<1>7. CASE Merges(s)
  <2> PICK m \in Entries : SameVersions(Packages, m, mem[s]) /\ mem' = [mem EXCEPT ![s] = m]
    BY <1>7 DEF Merges
  <2>1. pc[s] = "check" /\ pc'[s] = "check" /\ mem'[s] = m
    BY <1>7 DEF Merges, Typed, TypedSessions
  <2>2. file # Torn /\ SameVersions(Packages, file, mem[s]) /\ Fit(Packages, mem[s])
    BY <2>1 DEF AloneAt, Resting
  <2>3. SameVersions(Packages, file, m) /\ Fit(Packages, m)
    BY <2>2 DEF SameVersions, Fit
  <2>4. Fit(Packages, m)'
    BY <1>2, <2>3
  <2> QED BY <1>1, <2>1, <2>2, <2>3, <2>4 DEF AloneAt, Resting, SameVersions
<1>8. CASE Finish(s)
  <2>1. pc[s] = "work" /\ todo[s] = <<>>
    BY <1>8 DEF Finish
  <2>2. CASE queue[s] = <<>>
    BY <1>1, <1>8, <2>1, <2>2, EndOwn, EndsSettled DEF Finish, Typed
  <2>3. CASE queue[s] # <<>>
    <3>1. pc'[s] = "check" /\ mem' = mem
      BY <1>8, <2>3 DEF Finish, Typed, TypedSessions
    <3> PICK m : m = mem[s]
      OBVIOUS
    <3>2. file # Torn
      <4>1. Next1(s) = "none"
        BY <2>1 DEF Next1
      <4> QED BY <2>1, <4>1 DEF AloneAt, InWork, FileInWork
    <3>3. SameVersions(Packages, file, m) /\ Fit(Packages, m)
      BY <2>1, <3>2, Settled
    <3>4. Fit(Packages, m)' /\ mem'[s] = m /\ file' = file
      BY <1>1, <1>2, <3>1, <3>3
    <3> QED BY <3>1, <3>2, <3>3, <3>4 DEF AloneAt, Resting, SameVersions
  <2> QED BY <2>2, <2>3
<1> QED BY <1>3, <1>5, <1>6, <1>7, <1>8

\* A kill gives up the package of the session, unless nothing of the operation was under way.
LEMMA KillKept ==
    ASSUME Typed, NEW s \in Sessions, AloneAt(s), Kill(s)
    PROVE  AloneAt(s)'
<1> DEFINE p == Pkg(s)
<1>1. /\ pc[s] \in Locked /\ pc'[s] = "idle" /\ UNCHANGED <<file, host, asked>> /\ p \in Packages
      /\ spoiled' = (IF pc[s] = "check" \/ (pc[s] = "work" /\ todo[s] = <<>>) THEN spoiled ELSE spoiled \cup {p})
  BY EndOwn DEF Kill, Typed, TypedSessions, Pkg, Job
<1>2. CASE pc[s] = "check" \/ (pc[s] = "work" /\ todo[s] = <<>>)
  BY <1>1, <1>2, EndsSettled DEF ghost
<1>3. CASE ~(pc[s] = "check" \/ (pc[s] = "work" /\ todo[s] = <<>>))
  <2>1. pc[s] \in {"work", "unwind"} /\ p \in spoiled'
    BY <1>1, <1>3 DEF Locked
  <2>2. Fit(Packages \ {p}, mem[s]) /\ (file # Torn => SameVersions(Packages \ {p}, file, mem[s]))
    <3>1. pc[s] = "work" => Fit(Packages \ {p}, mem[s]) /\ (file # Torn => SameVersions(Packages \ {p}, file, mem[s]))
      BY DEF AloneAt, InWork, FileInWork
    <3>2. pc[s] = "unwind" => Fit(Packages \ {p}, mem[s]) /\ (file # Torn => SameVersions(Packages \ {p}, file, mem[s]))
      BY DEF AloneAt, InUnwind, FileInUnwind
    <3> QED BY <2>1, <3>1, <3>2
  <2> PICK m : m = file
    OBVIOUS
  <2>3. m # Torn => Fit(Packages \ {p}, m)
    BY <2>2 DEF Fit, SameVersions
  <2> PICK qs : qs = Packages \ {p}
    OBVIOUS
  <2>4. m # Torn => Fit(qs, m)'
    BY <1>1, <2>3, FitKept DEF host
  <2>5. m # Torn => Fit(Packages, m)'
    <3>1. m # Torn => \A x \in qs \ spoiled' : Fits(x, VersionIn(m, x))'
      BY <2>4 DEF Fit
    <3>2. \A x \in Packages \ spoiled' : x \in qs
      BY <2>1
    <3> QED BY <3>1, <3>2 DEF Fit
  <2> QED BY <1>1, <2>5 DEF AloneAt, Resting
<1> QED BY <1>2, <1>3

\* What a toggle leaves of what is said of one package.
LEMMA ToggleFits ==
    ASSUME Typed, NEW p \in Packages, Toggle(p)
    PROVE  /\ \A q \in Packages : RowAsAsked(q) => RowAsAsked(q)'
           /\ \A q \in Packages : \A v : RowIs(q, v) => RowIs(q, v)'
           /\ \A ps \in SUBSET Packages : \A m : Fit(ps, m) => Fit(ps, m)'
<1>1. \A q \in Packages : RowAsAsked(q) => RowAsAsked(q)'
  BY ToggleRow DEF RowAsAsked
<1>2. \A q \in Packages : \A v : RowIs(q, v) => RowIs(q, v)'
  BY ToggleRow DEF RowIs, RowHas
<1>3. script' = script /\ yang' = yang /\ images' = images /\ spoiled' = spoiled
  BY ToggleRow
<1>4. \A q \in Packages : \A v : Fits(q, v) => Fits(q, v)'
  BY <1>1, <1>2, <1>3 DEF Fits
<1>5. ASSUME NEW ps \in SUBSET Packages, NEW m, Fit(ps, m) PROVE Fit(ps, m)'
  <2>1. ASSUME NEW q \in ps \ spoiled PROVE Fits(q, VersionIn(m, q))'
    <3> DEFINE w == VersionIn(m, q)
    <3>1. Fits(q, w) /\ q \in Packages
      BY <1>5 DEF Fit
    <3> HIDE DEF w
    <3>2. Fits(q, w)'
      BY <1>4, <3>1
    <3> QED BY <3>2 DEF w
  <2> QED BY <1>3, <2>1 DEF Fit
<1> QED BY <1>1, <1>2, <1>5

\* Of the package of an upgrade that stops its feature, the user may then have asked for either state.
LEMMA ToggleState ==
    ASSUME Typed, NEW s \in Sessions, pc[s] \in {"work", "unwind"}, NEW p \in Packages, Toggle(p),
           NEW h \in BOOLEAN, h => job[s].running, StateIs(h, job[s].running, Pkg(s))
    PROVE  StateIs(h, job[s].running, Pkg(s))'
<1>1. Pkg(s) \in Packages /\ job[s].running \in BOOLEAN
  BY DEF Typed, TypedSessions, Pkg, Job
<1>2. job' = job /\ Pkg(s)' = Pkg(s)
  BY ToggleRow DEF session, Pkg
<1>3. CASE Pkg(s) # p
  <2>1. feature'[Pkg(s)] = feature[Pkg(s)] /\ asked'[Pkg(s)] = asked[Pkg(s)]
    BY <1>1, <1>3, ToggleRow
  <2> QED BY <1>2, <2>1 DEF StateIs, Halted, RowAsAsked
<1>4. CASE Pkg(s) = p /\ job[s].running
  <2>1. asked'[p] = "either" /\ feature'[p] # NoFeature
    BY <1>4, ToggleRow DEF Upgrading
  <2> QED BY <1>2, <1>4, <2>1 DEF StateIs, Halted, RowAsAsked, Agrees, Halts
<1>5. CASE ~job[s].running
  <2>1. ~h /\ RowAsAsked(Pkg(s))
    BY <1>5 DEF StateIs
  <2>2. RowAsAsked(Pkg(s))'
    BY <1>1, <1>2, <2>1, ToggleFits
  <2> QED BY <1>2, <1>5, <2>1, <2>2 DEF StateIs
<1> QED BY <1>1, <1>3, <1>4, <1>5

LEMMA ToggleBefore ==
    ASSUME Typed, NEW s \in Sessions, pc[s] = "work", NEW p \in Packages, Toggle(p), Before(s)
    PROVE  Before(s)'
<1> DEFINE j == job[s]
           h == Next1(s)
           q == Pkg(s)
<1>1. q \in Packages /\ UNCHANGED <<images, script, yang, mem, job, todo, undo>> /\ j.running \in BOOLEAN
  BY ToggleRow DEF session, Typed, TypedSessions, Pkg, Job
<1>2. Next1(s)' = h /\ Pkg(s)' = q /\ q = j.pkg
  BY <1>1 DEF Next1, Pkg
<1>3. /\ feature[q] = NoFeature <=> feature'[q] = NoFeature
      /\ \A v : RowHas(feature[q], v) => RowHas(feature'[q], v)
      /\ (feature[q] # NoFeature => Agrees(feature[q].state, asked[q])) => (feature'[q] # NoFeature => Agrees(feature'[q].state, asked'[q]))
  <2>1. CASE q = p
    BY <2>1, ToggleRow DEF RowHas
  <2>2. CASE q # p
    <3>1. feature'[q] = feature[q] /\ asked'[q] = asked[q]
      BY <1>1, <2>2, ToggleRow
    <3> QED BY <3>1
  <2> QED BY <2>1, <2>2
<1>4. ASSUME BeforeUpgrade(s) PROVE BeforeUpgrade(s)'
  <2>1. StateIs(j.running /\ h \in HaltedAt, j.running, q)
    BY <1>2, <1>4 DEF BeforeUpgrade
  <2> DEFINE c == j.running /\ h \in HaltedAt
  <2>2. StateIs(c, j.running, q) /\ c \in BOOLEAN /\ (c => j.running) /\ c' = c
    BY <1>1, <1>2, <2>1
  <2> HIDE DEF c
  <2>3. StateIs(c, j.running, q)'
    BY <2>2, ToggleState
  <2>4. StateIs(j.running /\ h \in HaltedAt, j.running, q)'
    BY <2>3 DEF c
  <2> QED BY <1>1, <1>2, <1>3, <1>4, <2>4 DEF BeforeUpgrade, RowIs
<1>5. BeforeInstall(s) => BeforeInstall(s)'
  BY <1>1, <1>2, <1>3 DEF BeforeInstall, RowAsAsked
<1>6. Fits(q, VersionIn(mem[s], q)) => Fits(q, VersionIn(mem[s], q))'
  <2> DEFINE w == VersionIn(mem[s], q)
  <2>1. w' = w
    BY <1>1, <1>2 DEF VersionIn
  <2> HIDE DEF w
  <2>2. Fits(q, w) => Fits(q, w)'
    BY <1>1, <1>2, <1>3, <2>1 DEF Fits, RowIs, RowAsAsked
  <2> QED BY <2>2 DEF w
<1> QED BY <1>1, <1>2, <1>3, <1>4, <1>5, <1>6 DEF Before

LEMMA ToggleBack ==
    ASSUME Typed, NEW s \in Sessions, pc[s] = "unwind", NEW p \in Packages, Toggle(p), Back(s)
    PROVE  Back(s)'
<1> DEFINE j == job[s]
           a == Next1(s)
           c == Top(undo[s])
           q == Pkg(s)
<1>1. q \in Packages /\ UNCHANGED <<images, script, yang, mem, job, todo, undo>> /\ j.running \in BOOLEAN
  BY ToggleRow DEF session, Typed, TypedSessions, Pkg, Job
<1>2. Next1(s)' = a /\ Top(undo[s])' = c /\ Pkg(s)' = q /\ q = j.pkg
  BY <1>1 DEF Next1, Pkg, Top
<1>3. /\ feature[q] = NoFeature <=> feature'[q] = NoFeature
      /\ \A v : RowHas(feature[q], v) => RowHas(feature'[q], v)
      /\ (feature[q] # NoFeature => Agrees(feature[q].state, asked[q])) => (feature'[q] # NoFeature => Agrees(feature'[q].state, asked'[q]))
  <2>1. CASE q = p
    BY <2>1, ToggleRow DEF RowHas
  <2>2. CASE q # p
    <3>1. feature'[q] = feature[q] /\ asked'[q] = asked[q]
      BY <1>1, <2>2, ToggleRow
    <3> QED BY <3>1
  <2> QED BY <2>1, <2>2
<1>4. ASSUME BackUpgrade(s) PROVE BackUpgrade(s)'
  <2> DEFINE d == /\ j.running
                  /\ \/ c \in {"ordersBefore", "removeNew", "createOld", "startOld"}
                     \/ c = "updateBack" /\ a # "stop"
                     \/ c = "uninstallImage" /\ a = "start"
  <2>1. StateIs(d, j.running, q)
    BY <1>2, <1>4 DEF BackUpgrade
  <2>2. d \in BOOLEAN /\ (d => j.running) /\ d' = d
    BY <1>1, <1>2
  <2> HIDE DEF d
  <2>3. StateIs(d, j.running, q)'
    BY <2>1, <2>2, ToggleState
  <2>4. RowIs(q, j.old) => RowIs(q, j.old)'
    BY <1>1, <1>2, <1>3 DEF RowIs
  <2> QED BY <1>1, <1>2, <1>3, <1>4, <2>3, <2>4 DEF BackUpgrade, d
<1>5. BackInstall(s) => BackInstall(s)'
  BY <1>1, <1>2, <1>3 DEF BackInstall, RowAsAsked
<1> QED BY <1>1, <1>2, <1>4, <1>5 DEF Back

LEMMA ToggleKept ==
    ASSUME Typed, NEW s \in Sessions, AloneAt(s), NEW p \in Packages, Toggle(p)
    PROVE  AloneAt(s)'
<1> DEFINE q == Pkg(s)
<1>1. UNCHANGED <<file, pc, mem, job, todo, undo, spoiled>> /\ q \in Packages
  BY ToggleRow DEF session, Typed, TypedSessions, Pkg, Job
<1>2. Next1(s)' = Next1(s) /\ Pkg(s)' = q
  BY <1>1 DEF Next1, Pkg
<1> DEFINE m == mem[s]
<1>3. /\ Fit(Packages, file) => Fit(Packages, file)'
      /\ Fit(Packages, m) => Fit(Packages, m)'
      /\ Fit(Packages \ {q}, m) => Fit(Packages \ {q}, m)'
      /\ Fit({q}, m) => Fit({q}, m)'
  <2> PICK f, n, rest, one : f = file /\ n = m /\ rest = Packages \ {q} /\ one = {q}
    OBVIOUS
  <2>1. /\ Fit(Packages, f) => Fit(Packages, f)'
        /\ Fit(Packages, n) => Fit(Packages, n)'
        /\ Fit(rest, n) => Fit(rest, n)'
        /\ Fit(one, n) => Fit(one, n)'
    BY <1>1, ToggleFits
  <2> QED BY <1>1, <1>2, <2>1 DEF Fit
<1>4. Resting(s)'
  BY <1>1, <1>3 DEF AloneAt, Resting, SameVersions
<1>5. ASSUME pc[s] = "work" PROVE InWork(s)'
  <2>1. InWork(s) /\ (q \notin spoiled => Before(s)')
    BY <1>5, ToggleBefore DEF AloneAt, InWork
  <2>2. FileInWork(s)'
    BY <1>1, <1>2, <1>3, <2>1 DEF InWork, FileInWork, SameVersions
  <2> QED BY <1>1, <1>2, <1>3, <2>1, <2>2 DEF InWork
<1>6. ASSUME pc[s] = "unwind" PROVE InUnwind(s)'
  <2>1. InUnwind(s) /\ (q \notin spoiled => Back(s)')
    BY <1>6, ToggleBack DEF AloneAt, InUnwind
  <2>2. FileInUnwind(s)'
    BY <1>1, <1>2, <2>1 DEF InUnwind, FileInUnwind, SameVersions
  <2> QED BY <1>1, <1>2, <1>3, <2>1, <2>2 DEF InUnwind
<1> QED BY <1>1, <1>4, <1>5, <1>6 DEF AloneAt

-----------------------------------------------------------------------------
(* One session: a step fails. *)

\* Where an upgrade may fail without spoiling its package.
FailUpgrade(h, r, c, b) ==
    /\ h \notin NoImage
    /\ c \in OldRow \/ c = "ordersBefore" => h \notin RowMade
    /\ c = "createOld" => b
    /\ c \in OldService => h \in OldScript /\ h \in OldYang
    /\ r => (h \in HaltedAt <=> c \in {"ordersBefore", "removeNew", "createOld", "startOld", "updateBack"})

LEMMA FailsUpgrade ==
    ASSUME NEW a, NEW u, <<a, u>> \in UpgradeUndo, NEW h, h = LabelOf(a, u), NEW r, NEW c, c \in UpgradeTop(h, r),
           a \notin {"noscript", "noyang", "await", "truncate", "dump", "popAll", "record"}
    PROVE  FailUpgrade(h, r, c, a \in {"script", "yang"})
<1>1. a \in {"plug", "rmi", "pull", "script", "yang", "update", "fast", "warm", "unplug", "probe", "stop", "start"}
  BY DEF UpgradeUndo, CommitUndo
<1> DEFINE b == a \in {"script", "yang"}
<1>2. CASE a \in {"plug", "rmi", "pull", "unplug"}
  <2>1. h \in {"plug", "plugLast", "rmi", "pull", "unplug", "unplugLast"}
    BY <1>2 DEF UpgradeUndo, CommitUndo, LabelOf
  <2>2. CASE h \in {"plug", "plugLast", "rmi"}
    <3>1. c \in {"stopNew", "updateBack", "unplugNew"} /\ (r => c # "updateBack")
      BY <2>2 DEF UpgradeTop
    <3> QED BY <2>2, <3>1 DEF FailUpgrade, NoImage, OldRow, OldService, HaltedAt
  <2>3. CASE h \in {"pull", "unplug", "unplugLast"}
    <3>1. c \in {"end", "plugOld"}
      BY <2>3 DEF UpgradeTop
    <3> QED BY <2>3, <3>1 DEF FailUpgrade, NoImage, OldRow, OldService, HaltedAt, RowMade, OldScript, OldYang, Opening
  <2> QED BY <2>1, <2>2, <2>3
<1>3. CASE a \in {"script", "yang", "update", "fast", "warm"}
  <2>1. h = a
    BY <1>3 DEF UpgradeUndo, CommitUndo, LabelOf
  <2>2. c = (IF a \in {"script", "yang"} THEN "createOld" ELSE IF a = "update" THEN "ordersBefore" ELSE "removeNew")
    BY <1>3, <2>1 DEF UpgradeTop
  <2> QED BY <1>3, <2>1, <2>2 DEF FailUpgrade, NoImage, OldRow, OldService, HaltedAt, RowMade
<1>4. CASE a \in {"probe", "stop", "start"}
  <2>1. h = a
    BY <1>4 DEF UpgradeUndo, CommitUndo, LabelOf
  <2>2. c = (IF a = "start" THEN "updateBack" ELSE "uninstallImage")
    BY <1>4, <2>1 DEF UpgradeTop
  <2> QED BY <1>4, <2>1, <2>2 DEF FailUpgrade, NoImage, OldRow, OldService, HaltedAt, RowMade, OldScript, OldYang, Opening
<1> QED BY <1>1, <1>2, <1>3, <1>4

LEMMA FailsInstall ==
    ASSUME NEW a, NEW u, <<a, u>> \in InstallUndo, NEW h, h = LabelOf(a, u), NEW c, c \in InstallTop(h),
           a \notin {"noscript", "noyang", "await", "truncate", "dump", "popAll", "record"}
    PROVE  /\ c = "end" => h = "pull"
           /\ c = "uninstallImage" <=> a \in {"script", "yang", "register"}
<1>1. a \in {"plug", "pull", "script", "yang", "register", "fast", "warm"}
  BY DEF InstallUndo, CommitUndo
<1>2. CASE a = "plug"
  BY <1>2 DEF InstallUndo, CommitUndo, LabelOf, InstallTop
<1>3. CASE a \in {"pull", "script", "yang", "register", "fast", "warm"}
  <2>1. h = a
    BY <1>3 DEF InstallUndo, CommitUndo, LabelOf
  <2> QED BY <1>3, <2>1 DEF InstallTop
<1> QED BY <1>1, <1>2, <1>3

\* What create takes back itself.
LEMMA CleanupUnwinds ==
    ASSUME NEW j \in Job, NEW t \in Fitting(j), Installs(j) \/ Upgrades(j), NEW c,
           t.act \in {"script", "yang", "register"} => c = IF Installs(j) THEN "uninstallImage" ELSE "createOld"
    PROVE  LET q == Cleanup(t, j)
           IN  /\ Unwinding(j, q, c)
               /\ IF t.act \in {"script", "yang", "register"} THEN q # <<>> /\ Label(Head(q)) = "noscript" ELSE q = <<>>
<1>1. CASE t.act \notin {"script", "yang", "register"}
  BY <1>1 DEF Cleanup, Unwinding, InOrder
<1>2. CASE t.act \in {"script", "yang", "register"} /\ Installs(j)
  <2> DEFINE v == t.version
             t1 == Do("noscript", v)
             t2 == Do("noyang", v)
             t3 == Do("deregister", v)
             q == <<t1, t2, t3>>
  <2>1. Cleanup(t, j) = q
    BY <1>2, CreateSteps DEF Cleanup, Installs
  <2>2. v \in VersionOrNone /\ c = "uninstallImage"
    BY <1>2, FittingFacts
  <2>3. t1 \in Step /\ t2 \in Step /\ t3 \in Step
    BY <2>2, StepTyped DEF Acts
  <2>4. t1 \in UnwindSteps(j, c) /\ t2 \in UnwindSteps(j, c) /\ t3 \in UnwindSteps(j, c)
    BY <1>2, <2>2, <2>3 DEF UnwindSteps, UnwindOver, Do
  <2>5. Label(t1) = "noscript" /\ Label(t2) = "noyang" /\ Label(t3) = "deregister" /\ t3.act = "deregister"
    BY Labels DEF Do
  <2>6. q \in Seq(UnwindSteps(j, c)) /\ Len(q) = 3 /\ q[1] = t1 /\ q[2] = t2 /\ q[3] = t3 /\ Head(q) = t1 /\ q # <<>>
    BY <2>4
  <2> HIDE DEF t1, t2, t3, q
  <2>7. InOrder(q, UnwindOrder(j))
    <3>1. UnwindOrder(j) = {<<"noscript", "noyang">>, <<"noyang", "deregister">>, <<"fast", "warm">>, <<"unplug", "unplug">>}
      BY <1>2 DEF UnwindOrder
    <3> QED BY <2>5, <2>6, <3>1 DEF InOrder
  <2>8. q[Len(q)].act \in UnwindLast(j)
    BY <1>2, <2>5, <2>6 DEF UnwindLast
  <2> QED BY <1>2, <2>1, <2>5, <2>6, <2>7, <2>8 DEF Unwinding
<1>3. CASE t.act \in {"script", "yang", "register"} /\ Upgrades(j)
  <2> DEFINE v == t.version
             t1 == Do("noscript", v)
             t2 == Do("noyang", v)
             q == <<t1, t2>>
  <2>1. Cleanup(t, j) = q
    BY <1>3, CreateSteps DEF Cleanup, Upgrades
  <2>2. v \in VersionOrNone /\ c = "createOld" /\ ~Installs(j)
    BY <1>3, FittingFacts, JobKinds
  <2>3. t1 \in Step /\ t2 \in Step
    BY <2>2, StepTyped DEF Acts
  <2>4. t1 \in UnwindSteps(j, c) /\ t2 \in UnwindSteps(j, c)
    BY <1>3, <2>2, <2>3 DEF UnwindSteps, UnwindOver, Do
  <2>5. Label(t1) = "noscript" /\ Label(t2) = "noyang" /\ t2.act = "noyang"
    BY Labels DEF Do
  <2>6. q \in Seq(UnwindSteps(j, c)) /\ Len(q) = 2 /\ q[1] = t1 /\ q[2] = t2 /\ Head(q) = t1 /\ q # <<>>
    BY <2>4
  <2> HIDE DEF t1, t2, q
  <2>7. InOrder(q, UnwindOrder(j))
    <3>1. <<"noscript", "noyang">> \in UnwindOrder(j)
      BY <2>2 DEF UnwindOrder
    <3> QED BY <2>5, <2>6, <3>1 DEF InOrder
  <2>8. q[Len(q)].act \in UnwindLast(j)
    BY <2>2, <2>5, <2>6 DEF UnwindLast
  <2> QED BY <1>3, <2>1, <2>5, <2>6, <2>7, <2>8 DEF Unwinding
<1> QED BY <1>1, <1>2, <1>3

LEMMA FailsKind ==
    ASSUME Typed, NEW s \in Sessions, Fails(s), pc[s] = "work", Done(s), Before(s), Pkg(s) \notin spoiled'
    PROVE  /\ Installs(job[s]) \/ (Upgrades(job[s]) /\ job[s].old # job[s].new)
           /\ Now(s).act \notin {"noscript", "noyang", "await", "truncate", "dump", "popAll", "record"}
           /\ Now(s) \in Fitting(job[s]) /\ Next1(s) = LabelOf(Now(s).act, Now(s).undo)
           /\ <<Now(s).act, Now(s).undo>> \in Undo(job[s]) /\ Top(undo[s]) \in TopAt(job[s], Next1(s))
<1> DEFINE j == job[s]
           t == Now(s)
           a == t.act
           u == t.undo
           h == Next1(s)
<1>1. todo[s] # <<>> /\ t = Head(todo[s]) /\ a \in Acts \ {"popAll", "record"}
  BY StepFacts DEF Fails, Now
<1>2. t \in Fitting(j) /\ h = LabelOf(a, u) /\ <<a, u>> \in Undo(j)
  <2>1. t \in Fitting(j)
    BY <1>1, ProgramTail DEF Done, Course
  <2>2. h = Label(t)
    BY <1>1 DEF Next1
  <2> HIDE DEF t, j
  <2> QED BY <2>1, <2>2, FittingFacts
<1>3. Top(undo[s]) \in TopAt(j, h)
  <2>1. h # "none"
    BY <1>1, <1>2, LabelIsNotNone DEF Next1, Fitting
  <2> QED BY <2>1 DEF Done, Course
<1>4. (j.new # NoVersion /\ a \notin {"noscript", "noyang", "await", "truncate", "dump"}) \/ (Impossible(s) /\ spoiled' = spoiled)
  BY DEF Fails, SpoiledBy, Pkg
<1>5. CASE j.new # NoVersion /\ a \notin {"noscript", "noyang", "await", "truncate", "dump"}
  <2>1. Installs(j) \/ Upgrades(j)
    BY <1>5 DEF Installs, Upgrades
  <2>2. Upgrades(j) => j.old # j.new
    BY DEF Before, BeforeUpgrade
  <2> QED BY <1>1, <1>2, <1>3, <1>5, <2>1, <2>2
<1>6. CASE Impossible(s) /\ spoiled' = spoiled
  <2>1. a \in {"pull", "yang", "stop", "start", "plug"}
    BY <1>6 DEF Impossible
  <2>2. ~Commits(j)
    <3>1. Commits(j) => <<a, u>> \in CommitUndo
      BY <1>2, JobKinds DEF Undo
    <3> HIDE DEF j, a, u
    <3> QED BY <2>1, <3>1 DEF CommitUndo
  <2>3. ~Removes(j)
    <3>1. ASSUME Removes(j) PROVE a = "stop" /\ h = "stop"
      <4>1. <<a, u>> \in RemoveUndo
        BY <1>2, <3>1, JobKinds DEF Undo
      <4> HIDE DEF a, u, h
      <4> QED BY <2>1, <4>1, <1>2 DEF RemoveUndo, CommitUndo, LabelOf
    <3>2. Removes(j) /\ h = "stop" => feature[Pkg(s)] # NoFeature
      BY DEF Before, Pkg
    <3> QED BY <1>6, <3>1, <3>2 DEF Impossible
  <2>4. Upgrades(j) => j.old # j.new
    BY DEF Before, BeforeUpgrade
  <2> QED BY <1>1, <1>2, <1>3, <2>1, <2>2, <2>3, <2>4, JobKinds
<1> QED BY <1>4, <1>5, <1>6

LEMMA FailsBackInstall ==
    ASSUME Typed, NEW s \in Sessions, Fails(s), pc[s] = "work", Done(s), Before(s), Pkg(s) \notin spoiled', Installs(job[s])
    PROVE  Back(s)'
<1> DEFINE j == job[s]
           p == Pkg(s)
           t == Now(s)
           a == t.act
           h == Next1(s)
           c == Top(undo[s])
           q == Cleanup(t, j)
           h2 == Next1(s)'
<1>1. /\ a \notin {"noscript", "noyang", "await", "truncate", "dump", "popAll", "record"}
      /\ t \in Fitting(j) /\ h = LabelOf(a, t.undo) /\ <<a, t.undo>> \in InstallUndo /\ c \in InstallTop(h) /\ j \in Job
  BY FailsKind, StepFacts DEF Fails, Undo, TopAt
<1>2. /\ todo'[s] = q /\ undo'[s] = undo[s] /\ job'[s] = j /\ Pkg(s)' = p /\ Top(undo[s])' = c /\ p = j.pkg
      /\ UNCHANGED <<script, yang, feature, asked>>
  BY DEF Fails, Raise, Typed, TypedSessions, host, Pkg, Top
<1>3. (c = "end" => h = "pull") /\ (c = "uninstallImage" <=> a \in {"script", "yang", "register"})
  <2> DEFINE u == t.undo
  <2>1. <<a, u>> \in InstallUndo /\ h = LabelOf(a, u) /\ c \in InstallTop(h)
    BY <1>1
  <2> HIDE DEF a, h, c, u
  <2> QED BY <1>1, <2>1, FailsInstall
<1>4. Unwinding(j, q, c) /\ (IF a \in {"script", "yang", "register"} THEN q # <<>> /\ Label(Head(q)) = "noscript" ELSE q = <<>>)
  <2>1. a \in {"script", "yang", "register"} => c = IF Installs(j) THEN "uninstallImage" ELSE "createOld"
    BY <1>3
  <2>2. Installs(j)
    OBVIOUS
  <2> HIDE DEF c, t, j
  <2> QED BY <1>1, <2>1, <2>2, CleanupUnwinds
<1>5. c = "uninstallImage" => h2 = "noscript"
  <2>1. q # <<>> => h2 = Label(Head(q))
    BY <1>2 DEF Next1
  <2> HIDE DEF q, h2
  <2> QED BY <1>3, <1>4, <2>1
<1>6. /\ h = "pull" => script[p] = NoVersion /\ yang[p] = NoVersion /\ feature[p] = NoFeature
      /\ RowAsAsked(p)
  BY DEF Before, BeforeInstall, Pkg
<1>7. Stacked(j, undo[s])
  BY DEF Done, Course
<1>8. BackInstall(s)'
  <2>1. Top(undo[s])' = c /\ Pkg(s)' = p
    BY <1>2
  <2> HIDE DEF c, p, h2, h
  <2> QED BY <1>2, <1>3, <1>5, <1>6, <2>1 DEF BackInstall, RowAsAsked, h2
<1> QED
  <2>1. Installs(j) /\ ~Upgrades(j)
    BY JobKinds
  <2> HIDE DEF j, q, c
  <2> QED BY <2>1, <1>2, <1>4, <1>7, <1>8 DEF Back

LEMMA FailsBackUpgrade ==
    ASSUME Typed, NEW s \in Sessions, Fails(s), pc[s] = "work", Done(s), Before(s), Pkg(s) \notin spoiled', Upgrades(job[s])
    PROVE  Back(s)'
<1> DEFINE j == job[s]
           p == Pkg(s)
           t == Now(s)
           a == t.act
           h == Next1(s)
           r == j.running
           c == Top(undo[s])
           q == Cleanup(t, j)
           h2 == Next1(s)'
           b == a \in {"script", "yang"}
<1>1. /\ a \notin {"noscript", "noyang", "await", "truncate", "dump", "popAll", "record"}
      /\ t \in Fitting(j) /\ h = LabelOf(a, t.undo) /\ <<a, t.undo>> \in UpgradeUndo /\ c \in UpgradeTop(h, r) /\ j \in Job
  BY FailsKind, StepFacts, JobKinds DEF Fails, Undo, TopAt
<1>2. /\ todo'[s] = q /\ undo'[s] = undo[s] /\ job'[s] = j /\ Pkg(s)' = p /\ Top(undo[s])' = c /\ p = j.pkg
      /\ UNCHANGED <<script, yang, feature, asked, images>>
  BY DEF Fails, Raise, Typed, TypedSessions, host, Pkg, Top
<1>3. FailUpgrade(h, r, c, b)
  <2> DEFINE u == t.undo
  <2>1. <<a, u>> \in UpgradeUndo /\ h = LabelOf(a, u) /\ c \in UpgradeTop(h, r)
    BY <1>1
  <2> HIDE DEF a, h, c, u, r
  <2> QED BY <1>1, <2>1, FailsUpgrade
<1>4. /\ Unwinding(j, q, c)
      /\ IF b THEN q # <<>> /\ Label(Head(q)) = "noscript" ELSE q = <<>>
  <2>1. a # "register"
    <3> DEFINE u == t.undo
    <3>1. <<a, u>> \in UpgradeUndo
      BY <1>1
    <3> HIDE DEF a, u
    <3> QED BY <3>1 DEF UpgradeUndo, CommitUndo
  <2>2. Upgrades(j) /\ ~Installs(j)
    BY JobKinds
  <2>3. b => c = "createOld"
    <3>1. b => h = a
      <4> DEFINE u == t.undo
      <4>1. <<a, u>> \in UpgradeUndo /\ h = LabelOf(a, u)
        BY <1>1
      <4> HIDE DEF a, u, h
      <4> QED BY <4>1 DEF UpgradeUndo, CommitUndo, LabelOf
    <3> HIDE DEF h, a, c, r
    <3> QED BY <1>1, <3>1 DEF UpgradeTop
  <2> HIDE DEF c, t, j
  <2> QED BY <1>1, <2>1, <2>2, <2>3, CleanupUnwinds
<1>5. IF b THEN h2 = "noscript" ELSE h2 = "none"
  <2>1. h2 = IF q = <<>> THEN "none" ELSE Label(Head(q))
    BY <1>2 DEF Next1
  <2> HIDE DEF q, h2, b
  <2> QED BY <1>4, <2>1
<1>6. /\ h \in OldScript => script[p] = j.old
      /\ h \in OldYang => yang[p] = YangOf(p, j.old)
      /\ h \notin RowMade \cup {"none"} => RowHas(feature[p], j.old)
      /\ h \notin NoImage => <<p, j.old>> \in images
      /\ StateIs(r /\ h \in HaltedAt, r, p) /\ j.old # j.new /\ j.old # NoVersion
  BY DEF Before, BeforeUpgrade, Pkg, RowIs, Upgrades
<1>7. h # "none" /\ (h \in RowMade => RowHas(feature[p], j.new) /\ j.new # NoVersion)
  <2>1. h # "none"
    BY <1>3 DEF FailUpgrade, NoImage
  <2>2. h \in RowMade => h \in RowDone(j)
    BY DEF RowDone
  <2>3. ~Commits(j) /\ j.new # NoVersion
    BY JobKinds DEF Upgrades
  <2> QED BY <2>1, <2>2, <2>3 DEF Done, Made, RowIs, Pkg
<1>8. Stacked(j, undo[s])
  BY DEF Done, Course
<1>9. BackUpgrade(s)'
  <2>1. Top(undo[s])' = c /\ Pkg(s)' = p /\ job'[s].pkg = p
    BY <1>2
  <2> HIDE DEF c, p, h2, h, j, b, r
  <2>2. <<p, j.old>> \in images /\ feature[p] # NoFeature
    BY <1>3, <1>6, <1>7 DEF FailUpgrade, RowHas
  <2>3. c \in OldRow \/ (c = "ordersBefore" /\ h2 = "none") => RowHas(feature[p], j.old)
    BY <1>3, <1>6, <1>7 DEF FailUpgrade
  <2>4. ~(c = "createOld" /\ h2 = "none") /\ h2 \notin {"script", "yang", "stop", "start"}
    BY <1>3, <1>5 DEF FailUpgrade
  <2>5. /\ c \in OldService => script[p] = j.old
        /\ c \in OldService => yang[p] = YangOf(p, j.old)
    BY <1>3, <1>6 DEF FailUpgrade
  <2> DEFINE halted == /\ r
                       /\ \/ c \in {"ordersBefore", "removeNew", "createOld", "startOld"}
                          \/ c = "updateBack" /\ h2 # "stop"
                          \/ c = "uninstallImage" /\ h2 = "start"
  <2>6. halted <=> r /\ h \in HaltedAt
    BY <1>3, <2>4 DEF FailUpgrade
  <2>7. IF halted THEN feature[p] # NoFeature /\ Halts(feature[p].state, asked[p])
        ELSE (feature[p] # NoFeature => Agrees(feature[p].state, asked[p])) /\ (r => Agrees("enabled", asked[p]))
    <3> HIDE DEF halted
    <3> QED BY <1>6, <2>6 DEF StateIs, Halted, RowAsAsked
  <2> QED BY <1>2, <2>1, <2>2, <2>3, <2>4, <2>5, <2>7 DEF BackUpgrade, RowIs, StateIs, Halted, RowAsAsked, h2, r, j
<1> QED
  <2>1. Upgrades(j) /\ ~Installs(j) /\ j.old # j.new
    BY <1>6, JobKinds
  <2> HIDE DEF j, q, c
  <2> QED BY <2>1, <1>2, <1>4, <1>8, <1>9 DEF Back

\* What is left of a callback when its first step is done.
LEMMA UnwindTail ==
    ASSUME NEW j, NEW q, NEW c, Unwinding(j, q, c), q # <<>>
    PROVE  /\ Head(q) \in UnwindSteps(j, c) /\ <<Head(q).act, c>> \in UnwindOver(j) /\ Head(q).undo = "none"
           /\ Label(Head(q)) = Head(q).act /\ Head(q) \in Step
           /\ Head(q).act \in {"script", "yang", "update", "plug"} => Head(q).version = j.old
           /\ Head(q).act = "rmi" => Head(q).version = j.new
           /\ Unwinding(j, Tail(q), c)
           /\ Tail(q) = <<>> => Head(q).act \in UnwindLast(j)
           /\ Tail(q) # <<>> => <<Head(q).act, Label(Head(Tail(q)))>> \in UnwindOrder(j) /\ Label(Head(Tail(q))) # "none"
<1> DEFINE n == Len(q)
           F == UnwindSteps(j, c)
           t == Tail(q)
<1>1. q \in Seq(F) /\ n \in Nat \ {0} /\ DOMAIN q = 1 .. n /\ Head(q) = q[1] /\ \A i \in 1 .. n : q[i] \in F
  BY DEF Unwinding
<1>2. t \in Seq(F) /\ Len(t) = n - 1 /\ DOMAIN t = 1 .. n - 1 /\ \A i \in 1 .. n - 1 : t[i] = q[i + 1]
  BY <1>1
<1>20. t \in Seq(F) => (t = <<>> <=> Len(t) = 0)
  BY EmptySeq
<1>3. (t # <<>> => Head(t) = t[1] /\ n > 1) /\ (t = <<>> => n = 1)
  <2> HIDE DEF n, t, F
  <2> QED BY <1>1, <1>2, <1>20
<1>4. \A x \in F : /\ <<x.act, c>> \in UnwindOver(j) /\ x.undo = "none" /\ Label(x) = x.act /\ x \in Step
                   /\ x.act \in {"script", "yang", "update", "plug"} => x.version = j.old
                   /\ x.act = "rmi" => x.version = j.new
  BY DEF UnwindSteps, Label
<1>5. InOrder(q, UnwindOrder(j)) /\ q[n].act \in UnwindLast(j)
  BY DEF Unwinding
<1> HIDE DEF n, t, F
<1>6. InOrder(t, UnwindOrder(j))
  <2> SUFFICES ASSUME NEW i \in 1 .. Len(t) - 1 PROVE <<Label(t[i]), Label(t[i + 1])>> \in UnwindOrder(j)
    BY DEF InOrder
  <2>1. i \in 1 .. n - 1 /\ i + 1 \in 1 .. n - 1 /\ i + 1 \in 1 .. Len(q) - 1
    BY <1>1, <1>2 DEF n
  <2>2. t[i] = q[i + 1] /\ t[i + 1] = q[(i + 1) + 1]
    BY <1>2, <2>1
  <2> QED BY <2>1, <2>2, <1>5 DEF InOrder
<1>7. t # <<>> => t[Len(t)].act \in UnwindLast(j)
  <2> SUFFICES ASSUME t # <<>> PROVE t[Len(t)].act \in UnwindLast(j)
    OBVIOUS
  <2>1. n - 1 \in 1 .. n - 1 /\ (n - 1) + 1 = n
    BY <1>1, <1>3
  <2> QED BY <2>1, <1>2, <1>5
<1>8. t # <<>> => <<q[1].act, Label(t[1])>> \in UnwindOrder(j) /\ Label(t[1]) # "none"
  <2> SUFFICES ASSUME t # <<>> PROVE <<q[1].act, Label(t[1])>> \in UnwindOrder(j) /\ Label(t[1]) # "none"
    OBVIOUS
  <2>1. 1 \in 1 .. n - 1 /\ t[1] = q[1 + 1] /\ 1 \in 1 .. Len(q) - 1 /\ 1 \in 1 .. n /\ 1 + 1 \in 1 .. n
    BY <1>1, <1>2, <1>3 DEF n
  <2>2. Label(q[1]) = q[1].act /\ t[1] \in Step
    BY <2>1, <1>1, <1>4
  <2> QED BY <2>1, <2>2, <1>5, LabelIsNotNone DEF InOrder
<1>9. Unwinding(j, t, c)
  BY <1>2, <1>6, <1>7 DEF Unwinding, F
<1>10. q[1] \in F
  BY <1>1
<1> QED BY <1>1, <1>3, <1>4, <1>5, <1>8, <1>9, <1>10 DEF t, F

LEMMA FailsWork ==
    ASSUME Typed, NEW s \in Sessions, Fails(s), pc[s] = "work", Done(s), InWork(s)
    PROVE  InUnwind(s)'
<1> DEFINE j == job[s]
           p == Pkg(s)
           h == Next1(s)
<1>1. /\ UNCHANGED <<file, mem, job, images, script, yang, feature, asked>> /\ Pkg(s)' = p
      /\ spoiled \subseteq spoiled'
  BY DEF Fails, Raise, host, Pkg
<1> PICK m : m = mem[s]
  OBVIOUS
<1> PICK qs : qs = Packages \ {p}
  OBVIOUS
<1>2. Fit(qs, m)'
  <2>1. Fit(qs, m)
    BY DEF InWork
  <2> QED BY <1>1, <2>1, FitKept
<1>3. file # Torn => SameVersions(qs, file, m)
  BY DEF InWork, FileInWork
<1>4. ASSUME p \notin spoiled' PROVE Back(s)' /\ VersionIn(file, p) = j.old
  <2>1. Before(s)
    BY <1>1, <1>4 DEF InWork
  <2>2. /\ Installs(j) \/ Upgrades(j)
        /\ Now(s).act \notin {"truncate", "dump"} /\ h = LabelOf(Now(s).act, Now(s).undo) /\ Now(s) \in Fitting(j)
    BY <1>4, <2>1, FailsKind
  <2>3. Back(s)'
    BY <1>4, <2>1, <2>2, FailsBackInstall, FailsBackUpgrade
  <2>4. h \notin Written
    <3>1. h # "none"
      <4>1. todo[s] # <<>> /\ Now(s) \in Step
        BY StepFacts DEF Fails
      <4> QED BY <4>1, LabelIsNotNone DEF Next1, Now
    <3>2. h \notin {"truncate", "dump"}
      <4> DEFINE a == Now(s).act
                 u == Now(s).undo
      <4>1. a \notin {"truncate", "dump"} /\ h = LabelOf(a, u)
        BY <2>2
      <4> HIDE DEF a, u, h
      <4> QED BY <4>1 DEF LabelOf
    <3> QED BY <3>1, <3>2 DEF Written
  <2> QED BY <2>3, <2>4 DEF InWork, FileInWork
<1>5. FileInUnwind(s)'
  BY <1>1, <1>3, <1>4 DEF FileInUnwind
<1> QED BY <1>1, <1>2, <1>4, <1>5 DEF InUnwind

\* What is taken back cannot be impossible; whatever else fails gives up the package.
LEMMA BackPossible ==
    ASSUME Typed, NEW s \in Sessions, todo[s] # <<>>, Back(s)
    PROVE  ~Impossible(s)
<1> DEFINE j == job[s]
           p == Pkg(s)
           t == Now(s)
           a == t.act
           c == Top(undo[s])
<1>1. t = Head(todo[s]) /\ Unwinding(j, todo[s], c) /\ (Installs(j) \/ Upgrades(j))
  BY DEF Now, Back
<1>2. <<a, c>> \in UnwindOver(j) /\ Label(t) = a /\ (a = "plug" => t.version = j.old)
  <2> HIDE DEF j, c
  <2> QED BY <1>1, UnwindTail
<1>3. Next1(s) = a
  BY <1>1, <1>2 DEF Next1
<1>4. CASE Installs(j)
  <2>1. a \in {"noscript", "noyang", "deregister", "fast", "warm", "unplug", "rmi"}
    <3> HIDE DEF a, c, j
    <3> QED BY <1>2, <1>4 DEF UnwindOver
  <2> QED BY <2>1 DEF Impossible
<1>5. CASE Upgrades(j)
  <2>1. a # "pull"
    <3>1. ~Installs(j)
      BY <1>5, JobKinds
    <3> HIDE DEF a, c, j
    <3> QED BY <1>2, <3>1 DEF UnwindOver
  <2>2. <<p, j.old>> \in images /\ feature[p] # NoFeature /\ (a \in {"script", "yang"} => yang[p] = NoVersion)
    BY <1>3, <1>5 DEF Back, BackUpgrade, Pkg
  <2> QED BY <1>2, <2>1, <2>2 DEF Impossible
<1> QED BY <1>1, <1>4, <1>5

LEMMA FailsUnwind ==
    ASSUME Typed, NEW s \in Sessions, Fails(s), pc[s] = "unwind", InUnwind(s)
    PROVE  InUnwind(s)'
<1> DEFINE p == Pkg(s)
<1>1. /\ UNCHANGED <<file, mem, job, images, script, yang, feature, asked>> /\ Pkg(s)' = p
      /\ spoiled \subseteq spoiled'
  BY DEF Fails, Raise, host, Pkg
<1>2. p \in spoiled'
  <2>1. CASE spoiled' = spoiled \cup SpoiledBy(s)
    BY <2>1 DEF SpoiledBy
  <2>2. CASE spoiled' = spoiled /\ Impossible(s)
    BY <2>2, BackPossible DEF InUnwind, Fails, AtStep
  <2> QED BY <2>1, <2>2 DEF Fails
<1> PICK m : m = mem[s]
  OBVIOUS
<1> PICK qs : qs = Packages \ {p}
  OBVIOUS
<1>3. Fit(qs, m)'
  <2>1. Fit(qs, m)
    BY DEF InUnwind
  <2> QED BY <1>1, <2>1, FitKept
<1>4. FileInUnwind(s)'
  BY <1>1, <1>2 DEF InUnwind, FileInUnwind
<1> QED BY <1>1, <1>2, <1>3, <1>4 DEF InUnwind

-----------------------------------------------------------------------------
(* One session: a step is taken back. *)

\* The step of a callback that is taken, and the one that follows.
UnwindFollows(s) ==
    LET t == Now(s)
        a == t.act
        j == job[s]
        c == Top(undo[s])
        h2 == Next1(s)'
    IN  /\ <<a, c>> \in UnwindOver(j) /\ Next1(s) = a
        /\ a \in {"script", "yang", "update", "plug"} => t.version = j.old
        /\ a = "rmi" => t.version = j.new
        /\ job'[s] = j /\ undo'[s] = undo[s] /\ Pkg(s)' = Pkg(s) /\ mem'[s] = mem[s] /\ file' = file
        /\ Stacked(j, undo[s]) => Stacked(j, undo[s])'
        /\ Unwinding(j, todo'[s], c)
        /\ IF h2 = "none" THEN a \in UnwindLast(j) ELSE <<a, h2>> \in UnwindOrder(j)

LEMMA UnwindActs ==
    ASSUME NEW j, NEW a, NEW c, <<a, c>> \in UnwindOver(j)
    PROVE  a \in {"noscript", "noyang", "deregister", "fast", "warm", "unplug", "rmi", "update", "script", "yang", "stop", "await",
                  "start", "plug"}
  BY DEF UnwindOver

LEMMA UnwindStep ==
    ASSUME Typed, NEW s \in Sessions, Effect(s), Unwinding(job[s], todo[s], Top(undo[s]))
    PROVE  UnwindFollows(s)
<1> DEFINE t == Now(s)
           a == t.act
           j == job[s]
           c == Top(undo[s])
           q == todo[s]
           h2 == Next1(s)'
<1>1. q # <<>> /\ t = Head(q)
  BY StepFacts DEF Effect, Now
<1>2. /\ <<a, c>> \in UnwindOver(j) /\ t.undo = "none" /\ Label(t) = a
      /\ a \in {"script", "yang", "update", "plug"} => t.version = j.old
      /\ a = "rmi" => t.version = j.new
      /\ Unwinding(j, Tail(q), c)
      /\ Tail(q) = <<>> => a \in UnwindLast(j)
      /\ Tail(q) # <<>> => <<a, Label(Head(Tail(q)))>> \in UnwindOrder(j) /\ Label(Head(Tail(q))) # "none"
  <2>1. Unwinding(j, q, c)
    OBVIOUS
  <2> HIDE DEF j, c, q
  <2> QED BY <1>1, <2>1, UnwindTail
<1>3. a \notin {"probe", "popAll", "record", "truncate", "dump"}
  <2> HIDE DEF a, c, j
  <2> QED BY <1>2, UnwindActs
<1>4. Next1(s) = a
  BY <1>1, <1>2 DEF Next1
<1>5. job'[s] = j /\ Pkg(s)' = Pkg(s) /\ mem'[s] = mem[s] /\ file' = file
  BY <1>3, JobAfter, MemAfter, StorageAfter
<1>6. undo'[s] = undo[s]
  BY <1>2, <1>3, UndoAfter
<1>7. todo'[s] = Tail(q)
  <2>1. todo' = [todo EXCEPT ![s] = Tail(@)]
    BY <1>3 DEF Effect, Control
  <2> QED BY <2>1 DEF Typed, TypedSessions
<1>8. h2 = IF Tail(q) = <<>> THEN "none" ELSE Label(Head(Tail(q)))
  BY <1>7 DEF Next1
<1>9. IF h2 = "none" THEN a \in UnwindLast(j) ELSE <<a, h2>> \in UnwindOrder(j)
  <2> HIDE DEF h2
  <2> QED BY <1>2, <1>8
<1>10. Stacked(j, undo[s]) => Stacked(j, undo[s])'
  BY <1>5, <1>6 DEF Stacked, Stack, Bottom
<1> HIDE DEF h2, j, c, q
<1>11. Unwinding(j, todo'[s], c)
  BY <1>2, <1>7
<1> QED BY <1>2, <1>4, <1>5, <1>6, <1>9, <1>10, <1>11 DEF UnwindFollows, h2, j, c

InstallBack(a, c, h2) ==
    /\ a \in {"noscript", "noyang", "deregister", "fast", "warm", "unplug", "rmi"}
    /\ c = "end" => a = "rmi"
    /\ c = "uninstallImage" => (h2 = "noyang" => a = "noscript") /\ (h2 = "deregister" => a = "noyang") /\ (h2 = "none" => a = "deregister")

LEMMA InstallTakesBack ==
    ASSUME NEW j, Installs(j), NEW a, NEW c, NEW h2, <<a, c>> \in UnwindOver(j),
           IF h2 = "none" THEN a \in UnwindLast(j) ELSE <<a, h2>> \in UnwindOrder(j)
    PROVE  InstallBack(a, c, h2)
  BY DEF UnwindOver, UnwindLast, UnwindOrder, InstallBack

UpgradeBack(r, a, c, h2) ==
    /\ a \notin {"register", "deregister", "pull"}
    /\ h2 \notin {"script", "stop", "start"}
    /\ c \in OldRow => a # "update"
    /\ c = "ordersBefore" => a = "update"
    /\ c = "createOld" /\ h2 = "none" => a = "noyang"
    /\ c \in OldService => a \notin {"noscript", "noyang"}
    /\ a = "script" <=> h2 = "yang"
    /\ a = "stop" => r /\ c = "updateBack"
    /\ a = "start" => r /\ c = "uninstallImage"

LEMMA UpgradeTakesBack ==
    ASSUME NEW j, Upgrades(j), NEW a, NEW c, NEW h2, <<a, c>> \in UnwindOver(j),
           IF h2 = "none" THEN a \in UnwindLast(j) ELSE <<a, h2>> \in UnwindOrder(j)
    PROVE  UpgradeBack(j.running, a, c, h2)
<1> DEFINE r == j.running
<1>1. ~Installs(j)
  BY JobKinds
<1>2. /\ <<a, c>> \in ({"noscript", "noyang"} \X {"createOld"}) \cup ({"fast", "warm"} \X {"removeNew"}) \cup {<<"update", "ordersBefore">>}
         \cup ({"script", "yang"} \X {IF r THEN "startOld" ELSE "uninstallImage"})
         \cup (IF r THEN ({"stop", "await"} \X {"updateBack"}) \cup ({"start", "await"} \X {"uninstallImage"}) ELSE {})
         \cup {<<"rmi", "end">>, <<"rmi", "plugOld">>, <<"plug", "end">>}
      /\ IF h2 = "none" THEN a \in {"noyang", "warm", "await", "update", "yang", "rmi", "plug"}
         ELSE <<a, h2>> \in {<<"noscript", "noyang">>, <<"fast", "warm">>, <<"stop", "await">>, <<"script", "yang">>, <<"start", "await">>,
                             <<"plug", "plug">>}
  BY <1>1 DEF UnwindOver, UnwindLast, UnwindOrder
<1> HIDE DEF r
<1>3. UpgradeBack(r, a, c, h2)
  BY <1>2 DEF UpgradeBack, OldRow, OldService
<1> QED BY <1>3 DEF r

LEMMA BackInstallStep ==
    ASSUME Typed, NEW s \in Sessions, Effect(s), UnwindFollows(s), Installs(job[s]), BackInstall(s)
    PROVE  BackInstall(s)'
<1> DEFINE p == Pkg(s)
           j == job[s]
           a == Now(s).act
           c == Top(undo[s])
           h2 == Next1(s)'
<1>1. InstallBack(a, c, h2)
  <2>1. Installs(j) /\ <<a, c>> \in UnwindOver(j) /\ (IF h2 = "none" THEN a \in UnwindLast(j) ELSE <<a, h2>> \in UnwindOrder(j))
    BY DEF UnwindFollows
  <2> HIDE DEF j, a, c, h2
  <2> QED BY <2>1, InstallTakesBack
<1>2. /\ script'[p] = IF a = "script" THEN Now(s).version ELSE IF a = "noscript" THEN NoVersion ELSE script[p]
      /\ yang'[p] = IF a = "yang" THEN YangOf(p, Now(s).version) ELSE IF a = "noyang" THEN NoVersion ELSE yang[p]
  BY HostAfter
<1>3. /\ a \notin {"register", "deregister", "update", "stop", "start"} => feature'[p] = feature[p] /\ asked'[p] = asked[p]
      /\ a = "deregister" => feature'[p] = NoFeature
  BY RowStateAfter
<1>4. /\ feature[p] # NoFeature => Agrees(feature[p].state, asked[p])
      /\ c = "end" \/ (c = "uninstallImage" /\ a \in {"noyang", "deregister", "none"}) => script[p] = NoVersion
      /\ c = "end" \/ (c = "uninstallImage" /\ a \in {"deregister", "none"}) => yang[p] = NoVersion
      /\ c = "end" \/ (c = "uninstallImage" /\ a = "none") => feature[p] = NoFeature
  BY DEF UnwindFollows, BackInstall, RowAsAsked
<1>5. Pkg(s)' = p /\ Top(undo[s])' = c
  BY DEF UnwindFollows
<1> HIDE DEF p, a, c, h2
<1>6. /\ c = "end" \/ (c = "uninstallImage" /\ h2 \in {"noyang", "deregister", "none"}) => script'[p] = NoVersion
      /\ c = "end" \/ (c = "uninstallImage" /\ h2 \in {"deregister", "none"}) => yang'[p] = NoVersion
      /\ c = "end" \/ (c = "uninstallImage" /\ h2 = "none") => feature'[p] = NoFeature
  BY <1>1, <1>2, <1>3, <1>4 DEF InstallBack
<1>7. feature'[p] # NoFeature => Agrees(feature'[p].state, asked'[p])
  BY <1>1, <1>3, <1>4 DEF InstallBack
<1> QED BY <1>5, <1>6, <1>7 DEF BackInstall, RowAsAsked, h2

LEMMA BackUpgradeStep ==
    ASSUME Typed, NEW s \in Sessions, Effect(s), UnwindFollows(s), Upgrades(job[s]), job[s].old # job[s].new, BackUpgrade(s)
    PROVE  BackUpgrade(s)'
<1> DEFINE p == Pkg(s)
           j == job[s]
           r == j.running
           t == Now(s)
           a == t.act
           c == Top(undo[s])
           h2 == Next1(s)'
<1>1. UpgradeBack(r, a, c, h2)
  <2>1. Upgrades(j) /\ <<a, c>> \in UnwindOver(j) /\ (IF h2 = "none" THEN a \in UnwindLast(j) ELSE <<a, h2>> \in UnwindOrder(j))
    BY DEF UnwindFollows
  <2> HIDE DEF j, a, c, h2
  <2>2. UpgradeBack(j.running, a, c, h2)
    BY <2>1, UpgradeTakesBack
  <2> QED BY <2>2
<1>2. /\ script'[p] = IF a = "script" THEN t.version ELSE IF a = "noscript" THEN NoVersion ELSE script[p]
      /\ yang'[p] = IF a = "yang" THEN YangOf(p, t.version) ELSE IF a = "noyang" THEN NoVersion ELSE yang[p]
  BY HostAfter
<1>3. /\ a \notin {"register", "deregister", "update", "stop", "start"} => feature'[p] = feature[p] /\ asked'[p] = asked[p]
      /\ a = "update" /\ feature[p] # NoFeature =>
            feature'[p] # NoFeature /\ feature'[p].state = feature[p].state /\ asked'[p] = asked[p]
      /\ a \in {"stop", "start"} =>
            /\ feature[p] # NoFeature /\ feature'[p] # NoFeature /\ asked'[p] = asked[p]
            /\ feature'[p].state = IF a = "start" THEN "enabled" ELSE "disabled"
  BY RowStateAfter
<1>4. /\ \A v : a \notin {"register", "deregister", "update"} => (RowHas(feature[p], v) <=> RowHas(feature'[p], v))
      /\ \A v : a \in {"register", "update"} /\ v # NoVersion => (t.version = v <=> RowHas(feature'[p], v))
  BY RowVersion
<1>5. /\ \A i \in images : i # <<p, t.version>> \/ a # "rmi" => i \in images'
      /\ a = "rmi" => t.version = j.new
      /\ a \in {"script", "yang", "update"} => t.version = j.old
      /\ j.old # j.new /\ j.old # NoVersion
  BY StorageAfter DEF UnwindFollows, Upgrades
<1>6. /\ <<p, j.old>> \in images
      /\ feature[p] # NoFeature
      /\ c \in OldRow \/ (c = "ordersBefore" /\ a = "none") => RowHas(feature[p], j.old)
      /\ (c = "createOld" /\ a = "none") \/ a \in {"script", "yang"} => yang[p] = NoVersion
      /\ c \in OldService /\ a # "script" => script[p] = j.old
      /\ c \in OldService /\ a \notin {"script", "yang"} => yang[p] = YangOf(p, j.old)
  BY DEF UnwindFollows, BackUpgrade, RowIs, Pkg
<1> DEFINE halted(x) == /\ r
                        /\ \/ c \in {"ordersBefore", "removeNew", "createOld", "startOld"}
                           \/ c = "updateBack" /\ x # "stop"
                           \/ c = "uninstallImage" /\ x = "start"
<1>7. IF halted(a) THEN feature[p] # NoFeature /\ Halts(feature[p].state, asked[p])
      ELSE (feature[p] # NoFeature => Agrees(feature[p].state, asked[p])) /\ (r => Agrees("enabled", asked[p]))
  BY DEF UnwindFollows, BackUpgrade, StateIs, Halted, RowAsAsked, Pkg
<1>8. Pkg(s)' = p /\ Top(undo[s])' = c /\ job'[s] = j
  BY DEF UnwindFollows
<1>9. job'[s].pkg = p
  BY <1>8 DEF Pkg
<1> HIDE DEF p, a, c, h2, j, r, t
<1>10. <<p, j.old>> \in images' /\ feature'[p] # NoFeature
  BY <1>1, <1>3, <1>5, <1>6 DEF UpgradeBack
<1>11. c \in OldRow \/ (c = "ordersBefore" /\ h2 = "none") => RowHas(feature'[p], j.old)
  BY <1>1, <1>4, <1>5, <1>6 DEF UpgradeBack
<1>12. (c = "createOld" /\ h2 = "none") \/ h2 \in {"script", "yang"} => yang'[p] = NoVersion
  BY <1>1, <1>2, <1>6 DEF UpgradeBack
<1>13. c \in OldService /\ h2 # "script" => script'[p] = j.old
  BY <1>1, <1>2, <1>5, <1>6 DEF UpgradeBack
<1>14. c \in OldService /\ h2 \notin {"script", "yang"} => yang'[p] = YangOf(p, j.old)
  BY <1>1, <1>2, <1>5, <1>6 DEF UpgradeBack
<1>15. IF halted(h2) THEN feature'[p] # NoFeature /\ Halts(feature'[p].state, asked'[p])
       ELSE (feature'[p] # NoFeature => Agrees(feature'[p].state, asked'[p])) /\ (r => Agrees("enabled", asked'[p]))
  <2>1. CASE a \in {"stop", "start"}
    BY <1>1, <1>3, <1>7, <2>1 DEF UpgradeBack, Agrees, Halts
  <2>2. CASE a \notin {"stop", "start"}
    <3>1. feature'[p] # NoFeature /\ feature'[p].state = feature[p].state /\ asked'[p] = asked[p]
      BY <1>1, <1>3, <1>6, <2>2 DEF UpgradeBack
    <3>2. halted(h2) <=> halted(a)
      BY <1>1, <2>2 DEF UpgradeBack
    <3> QED BY <1>6, <1>7, <3>1, <3>2
  <2> QED BY <2>1, <2>2
<1> QED BY <1>8, <1>9, <1>10, <1>11, <1>12, <1>13, <1>14, <1>15 DEF BackUpgrade, RowIs, StateIs, Halted, RowAsAsked, h2, j, r

LEMMA BackStep ==
    ASSUME Typed, NEW s \in Sessions, Effect(s), Back(s)
    PROVE  Back(s)' /\ mem'[s] = mem[s] /\ file' = file /\ job'[s] = job[s]
<1> DEFINE j == job[s]
           c == Top(undo[s])
<1>1. UnwindFollows(s)
  BY UnwindStep DEF Back
<1>2. /\ job'[s] = j /\ undo'[s] = undo[s] /\ Top(undo[s])' = c /\ Unwinding(j, todo'[s], c)
      /\ mem'[s] = mem[s] /\ file' = file
  BY <1>1 DEF UnwindFollows
<1>3. Stacked(j, undo[s]) /\ (Installs(j) \/ (Upgrades(j) /\ j.old # j.new))
  BY DEF Back
<1>4. Installs(j) => BackInstall(s)'
  BY <1>1, BackInstallStep DEF Back
<1>5. Upgrades(j) => BackUpgrade(s)'
  BY <1>1, <1>3, JobKinds, BackUpgradeStep DEF Back
<1> HIDE DEF j, c
<1> QED BY <1>2, <1>3, <1>4, <1>5 DEF Back, j

-----------------------------------------------------------------------------
(* One session: the callbacks, one after the other. *)

LEMMA UnwindKept ==
    ASSUME Typed, NEW s \in Sessions, Effect(s), InUnwind(s)
    PROVE  InUnwind(s)'
<1> DEFINE p == Pkg(s)
           others == Packages \ {p}
<1>1. Fit(Packages \ {Pkg(s)}, mem[s])' /\ spoiled' = spoiled /\ Pkg(s)' = p
  BY OthersFit, JobAfter DEF InUnwind
<1>2. file' # Torn => SameVersions(others, file', mem'[s])
  <2>1. file # Torn => SameVersions(others, file, mem[s])
    BY DEF InUnwind, FileInUnwind
  <2>2. \A m : SameVersions(others, m, mem[s]) => SameVersions(others, m, mem'[s])
    BY OthersFit DEF InUnwind
  <2>3. SameVersions(others, mem[s], mem[s])
    BY DEF SameVersions
  <2>4. file' \in {Torn, mem[s], file}
    BY StorageAfter
  <2> QED BY <2>1, <2>2, <2>3, <2>4
<1>3. p \notin spoiled => Back(s)' /\ job'[s] = job[s] /\ file' = file
  BY BackStep DEF InUnwind
<1>4. FileInUnwind(s)'
  <2>1. file' # Torn /\ p \notin spoiled => VersionIn(file', p) = job'[s].old
    BY <1>3 DEF InUnwind, FileInUnwind
  <2> HIDE DEF p
  <2> QED BY <1>1, <1>2, <2>1 DEF FileInUnwind, p
<1> QED BY <1>1, <1>3, <1>4 DEF InUnwind

LEMMA UnwindDo ==
    ASSUME NEW j, NEW c, NEW a \in Acts, NEW v \in VersionOrNone, <<a, c>> \in UnwindOver(j),
           a \in {"script", "yang", "update", "plug"} => v = j.old, a = "rmi" => v = j.new
    PROVE  /\ Do(a, v) \in UnwindSteps(j, c) /\ Label(Do(a, v)) = a /\ Do(a, v).act = a
           /\ \A x \in CommandNames : Plug(a, v, x, "none") \in UnwindSteps(j, c)
<1>1. Do(a, v) \in Step /\ \A x \in CommandNames : Plug(a, v, x, "none") \in Step
  BY StepTyped
<1> QED BY <1>1, Labels DEF UnwindSteps, Do, Plug

LEMMA UnwindOne ==
    ASSUME NEW j, NEW c, NEW t \in UnwindSteps(j, c), t.act \in UnwindLast(j)
    PROVE  Unwinding(j, <<t>>, c) /\ Head(<<t>>) = t /\ <<t>> # <<>>
  BY DEF Unwinding, InOrder

LEMMA UnwindTwo ==
    ASSUME NEW j, NEW c, NEW t \in UnwindSteps(j, c), NEW u \in UnwindSteps(j, c), <<Label(t), Label(u)>> \in UnwindOrder(j),
           u.act \in UnwindLast(j)
    PROVE  Unwinding(j, <<t, u>>, c) /\ Head(<<t, u>>) = t /\ <<t, u>> # <<>>
  BY DEF Unwinding, InOrder

LEMMA UnwindThree ==
    ASSUME NEW j, NEW c, NEW t \in UnwindSteps(j, c), NEW u \in UnwindSteps(j, c), NEW w \in UnwindSteps(j, c),
           <<Label(t), Label(u)>> \in UnwindOrder(j), <<Label(u), Label(w)>> \in UnwindOrder(j), w.act \in UnwindLast(j)
    PROVE  Unwinding(j, <<t, u, w>>, c) /\ Head(<<t, u, w>>) = t /\ <<t, u, w>> # <<>>
<1> DEFINE q == <<t, u, w>>
<1>1. q \in Seq(UnwindSteps(j, c)) /\ Len(q) = 3 /\ q[1] = t /\ q[2] = u /\ q[3] = w /\ q # <<>> /\ Head(q) = t
  OBVIOUS
<1> HIDE DEF q
<1>2. ASSUME NEW i \in 1 .. Len(q) - 1 PROVE <<Label(q[i]), Label(q[i + 1])>> \in UnwindOrder(j)
  <2>1. i = 1 \/ i = 2
    BY <1>1
  <2> QED BY <2>1, <1>1
<1>3. Unwinding(j, q, c)
  BY <1>1, <1>2 DEF Unwinding, InOrder
<1> QED BY <1>1, <1>3 DEF q

LEMMA UnwindPlugs ==
    ASSUME NEW j, NEW c, NEW a \in Acts, NEW v \in VersionOrNone, <<a, c>> \in UnwindOver(j),
           a \in {"script", "yang", "update", "plug"} => v = j.old, a = "rmi" => v = j.new,
           <<a, a>> \in UnwindOrder(j), a \in UnwindLast(j)
    PROVE  LET q == Plugins(a, v) IN Unwinding(j, q, c) /\ (q # <<>> => Label(Head(q)) = a)
<1> DEFINE q == Plugins(a, v)
           F == UnwindSteps(j, c)
           R == UnwindOrder(j)
           n == Len(q)
<1>1. PlugsOf(q, a, v, "none")
  BY PluginSteps
<1>2. \A x \in CommandNames : Plug(a, v, x, "none") \in F /\ Label(Plug(a, v, x, "none")) = a
  BY UnwindDo, PlugLabel
<1>3. q \in Seq(F)
  BY <1>1, <1>2, PlugSeq
<1> HIDE DEF q, F, R
<1>4. q = <<>> \/ Piece(q, F, R, {a, a}, {a})
  BY <1>1, <1>2, <1>3, PlugPiece DEF R
<1>5. q # <<>> => InOrder(q, R) /\ Label(Head(q)) = a
  BY <1>4 DEF Piece
<1>6. q # <<>> => q[n].act = a
  <2>1. n \in Nat /\ (q = <<>> <=> n = 0) /\ n = Len(Commands)
    BY <1>1, <1>3, EmptySeq, CommandFacts DEF PlugsOf
  <2>2. q # <<>> => n \in 1 .. n
    BY <2>1
  <2>3. \A i \in 1 .. n : q[i] = Plug(a, v, Commands[i], "none")
    BY <1>1, <2>1 DEF PlugsOf
  <2>4. \A x : Plug(a, v, x, "none").act = a
    BY DEF Plug
  <2> HIDE DEF n
  <2> QED BY <2>2, <2>3, <2>4
<1>7. q = <<>> => InOrder(q, R)
  BY DEF InOrder
<1> QED BY <1>3, <1>5, <1>6, <1>7 DEF Unwinding, q, F, R

\* The callback that is called, what is left below it, and the first step of it.
InstallPops(c, below, h) ==
    /\ below = "end" => c = "uninstallImage"
    /\ below = "uninstallImage" => h = "noscript"

LEMMA InstallCallback ==
    ASSUME NEW j \in Job, Installs(j), NEW c, NEW below,
           IF below = "end" THEN c \in Bottom(j) ELSE <<c, below>> \in Stack(j),
           NEW h, h = IF Callback(c, j) = <<>> THEN "none" ELSE Label(Head(Callback(c, j)))
    PROVE  Unwinding(j, Callback(c, j), below) /\ InstallPops(c, below, h)
<1> DEFINE q == Callback(c, j)
           over == UnwindOver(j)
           R == UnwindOrder(j)
           Z == UnwindLast(j)
<1>1. j.old = NoVersion /\ j.new \in VersionOrNone /\ j.old \in VersionOrNone
  BY DEF Installs, Job
<1>2. /\ over = ({"noscript", "noyang", "deregister"} \X {"uninstallImage"}) \cup ({"fast", "warm"} \X {"removeService"})
                \cup {<<"unplug", "ordersBefore">>, <<"rmi", "end">>}
      /\ R = {<<"noscript", "noyang">>, <<"noyang", "deregister">>, <<"fast", "warm">>, <<"unplug", "unplug">>}
      /\ Z = {"deregister", "warm", "unplug", "rmi"}
  BY DEF UnwindOver, UnwindOrder, UnwindLast
<1>3. {"noscript", "noyang", "deregister", "fast", "warm", "unplug", "rmi"} \subseteq Acts
  BY DEF Acts
<1>4. \/ c = "uninstallImage" /\ below = "end"
      \/ c = "removeService" /\ below = "uninstallImage"
      \/ c = "ordersBefore" /\ below = "removeService"
      \/ c = "unplugNew" /\ below = "ordersBefore"
  BY DEF Bottom, Stack, InstallStack
<1> HIDE DEF over, R, Z
<1>5. CASE c = "uninstallImage" /\ below = "end"
  <2> DEFINE t == Do("rmi", j.new)
  <2>4. <<"rmi", below>> \in over /\ "rmi" \in Acts
    BY <1>2, <1>3, <1>5
  <2>1. t \in UnwindSteps(j, below) /\ t.act = "rmi" /\ Label(t) = "rmi"
    BY <1>1, <2>4, UnwindDo DEF over
  <2>2. q = <<t>>
    BY <1>5 DEF Callback
  <2>3. Unwinding(j, <<t>>, below)
    BY <1>2, <2>1, UnwindOne DEF Z
  <2> QED BY <1>5, <2>2, <2>3 DEF InstallPops
<1>6. CASE c = "removeService" /\ below = "uninstallImage"
  <2> DEFINE t == Do("noscript", j.new)
             u == Do("noyang", j.new)
             w == Do("deregister", j.new)
  <2>1. /\ t \in UnwindSteps(j, below) /\ Label(t) = "noscript"
        /\ u \in UnwindSteps(j, below) /\ Label(u) = "noyang"
        /\ w \in UnwindSteps(j, below) /\ Label(w) = "deregister" /\ w.act = "deregister"
    <3>1. \A a \in {"noscript", "noyang", "deregister"} : <<a, below>> \in over /\ a \in Acts
      BY <1>2, <1>3, <1>6
    <3> QED BY <1>1, <3>1, UnwindDo DEF over
  <2>2. q = <<t, u, w>>
    BY <1>6, CreateSteps DEF Callback
  <2>3. <<Label(t), Label(u)>> \in R /\ <<Label(u), Label(w)>> \in R /\ w.act \in Z
    BY <1>2, <2>1
  <2> HIDE DEF t, u, w
  <2>4. Unwinding(j, <<t, u, w>>, below) /\ Head(<<t, u, w>>) = t /\ <<t, u, w>> # <<>>
    BY <2>1, <2>3, UnwindThree DEF R, Z
  <2>5. h = "noscript"
    BY <2>1, <2>2, <2>4
  <2> QED BY <1>6, <2>2, <2>4, <2>5 DEF InstallPops
<1>7. CASE c = "ordersBefore" /\ below = "removeService"
  <2> DEFINE t == Do("fast", j.old)
             u == Do("warm", j.old)
  <2>1. /\ t \in UnwindSteps(j, below) /\ Label(t) = "fast"
        /\ u \in UnwindSteps(j, below) /\ Label(u) = "warm" /\ u.act = "warm"
    <3>1. \A a \in {"fast", "warm"} : <<a, below>> \in over /\ a \in Acts
      BY <1>2, <1>3, <1>7
    <3> QED BY <1>1, <3>1, UnwindDo DEF over
  <2>2. q = <<t, u>>
    BY <1>7 DEF Callback, Orders
  <2>3. <<Label(t), Label(u)>> \in R /\ u.act \in Z
    BY <1>2, <2>1
  <2> HIDE DEF t, u
  <2>4. Unwinding(j, <<t, u>>, below)
    BY <2>1, <2>3, UnwindTwo DEF R, Z
  <2> QED BY <1>7, <2>2, <2>4 DEF InstallPops
<1>8. CASE c = "unplugNew" /\ below = "ordersBefore"
  <2>1. q = Plugins("unplug", j.new)
    BY <1>1, <1>8 DEF Callback
  <2>2. Unwinding(j, Plugins("unplug", j.new), below)
    BY <1>1, <1>2, <1>3, <1>8, UnwindPlugs DEF over, R, Z
  <2> QED BY <1>8, <2>1, <2>2 DEF InstallPops
<1> QED BY <1>4, <1>5, <1>6, <1>7, <1>8

UpgradePops(r, c, below, h) ==
    /\ below \in OldRow => c \in OldRow \cup {"ordersBefore"}
    /\ below = "ordersBefore" => h = "update"
    /\ below = "createOld" => h # "none"
    /\ h \in {"script", "yang"} => c = "createOld"
    /\ below \in OldService /\ h \notin {"script", "yang"} => c \in OldService
    /\ h # "yang"
    /\ r => (c \in {"ordersBefore", "removeNew", "createOld", "startOld", "updateBack"} <=>
             \/ below \in {"ordersBefore", "removeNew", "createOld", "startOld"}
             \/ below = "updateBack" /\ h # "stop"
             \/ below = "uninstallImage" /\ h = "start")

LEMMA UpgradeCallback ==
    ASSUME NEW j \in Job, Upgrades(j), NEW c, NEW below,
           IF below = "end" THEN c \in Bottom(j) ELSE <<c, below>> \in Stack(j),
           NEW h, h = IF Callback(c, j) = <<>> THEN "none" ELSE Label(Head(Callback(c, j)))
    PROVE  Unwinding(j, Callback(c, j), below) /\ UpgradePops(j.running, c, below, h)
<1> DEFINE q == Callback(c, j)
           over == UnwindOver(j)
           R == UnwindOrder(j)
           Z == UnwindLast(j)
           r == j.running
           v == j.old
<1>1. j.old # NoVersion /\ j.new \in VersionOrNone /\ j.old \in VersionOrNone /\ ~Installs(j)
  BY JobKinds DEF Upgrades, Job
<1>2. /\ over = ({"noscript", "noyang"} \X {"createOld"}) \cup ({"fast", "warm"} \X {"removeNew"}) \cup {<<"update", "ordersBefore">>}
                \cup ({"script", "yang"} \X {IF r THEN "startOld" ELSE "uninstallImage"})
                \cup (IF r THEN ({"stop", "await"} \X {"updateBack"}) \cup ({"start", "await"} \X {"uninstallImage"}) ELSE {})
                \cup {<<"rmi", "end">>, <<"rmi", "plugOld">>, <<"plug", "end">>}
      /\ R = {<<"noscript", "noyang">>, <<"fast", "warm">>, <<"stop", "await">>, <<"script", "yang">>, <<"start", "await">>,
              <<"plug", "plug">>}
      /\ Z = {"noyang", "warm", "await", "update", "yang", "rmi", "plug"}
  BY <1>1 DEF UnwindOver, UnwindOrder, UnwindLast
<1>3. {"noscript", "noyang", "fast", "warm", "plug", "rmi", "update", "script", "yang", "stop", "start", "await"} \subseteq Acts
  BY DEF Acts
<1>4. \/ c = "plugOld" /\ below = "end"
      \/ c = "uninstallImage" /\ below \in {"plugOld", "end"}
      \/ c = "startOld" /\ below = "uninstallImage" /\ r
      \/ c = "createOld" /\ below = (IF r THEN "startOld" ELSE "uninstallImage")
      \/ c = "removeNew" /\ below = "createOld"
      \/ c = "ordersBefore" /\ below = "removeNew"
      \/ c = "updateBack" /\ below = "ordersBefore"
      \/ c = "stopNew" /\ below = "updateBack" /\ r
      \/ c = "unplugNew" /\ below = (IF r THEN "stopNew" ELSE "updateBack")
  <2>1. IF below = "end" THEN c \in {"uninstallImage", "plugOld"} ELSE <<c, below>> \in UpgradeStack(r)
    BY <1>1 DEF Bottom, Stack
  <2> HIDE DEF r
  <2> QED BY <2>1 DEF UpgradeStack
<1> HIDE DEF over, R, Z, r
<1>5. ASSUME NEW a \in {"rmi", "update"}, NEW w \in VersionOrNone, <<a, below>> \in over, q = <<Do(a, w)>>,
             IF a = "rmi" THEN w = j.new ELSE w = v
      PROVE  Unwinding(j, q, below) /\ h = a
  <2> DEFINE t == Do(a, w)
  <2>1. t \in UnwindSteps(j, below) /\ t.act = a /\ Label(t) = a
    BY <1>1, <1>3, <1>5, UnwindDo DEF over
  <2>2. t.act \in Z
    BY <2>1, <1>2
  <2> HIDE DEF t
  <2>3. Unwinding(j, <<t>>, below) /\ Head(<<t>>) = t /\ <<t>> # <<>>
    BY <2>1, <2>2, UnwindOne DEF Z
  <2> QED BY <2>1, <2>3, <1>5 DEF t
<1>6. ASSUME NEW a \in {"noscript", "fast", "stop", "script", "start"}, NEW b, NEW w \in VersionOrNone, <<a, b>> \in R,
             <<a, below>> \in over, <<b, below>> \in over, q = <<Do(a, w), Do(b, w)>>, a = "script" => w = v
      PROVE  Unwinding(j, q, below) /\ h = a
  <2> DEFINE t == Do(a, w)
             u == Do(b, w)
  <2>1. b \in {"noyang", "warm", "await", "yang"} /\ (b = "yang" => a = "script")
    BY <1>2, <1>6
  <2>2. /\ t \in UnwindSteps(j, below) /\ t.act = a /\ Label(t) = a
        /\ u \in UnwindSteps(j, below) /\ u.act = b /\ Label(u) = b
    BY <1>1, <1>3, <1>6, <2>1, UnwindDo DEF over
  <2>3. u.act \in Z /\ <<Label(t), Label(u)>> \in R
    BY <2>1, <2>2, <1>2, <1>6
  <2> HIDE DEF t, u
  <2>4. Unwinding(j, <<t, u>>, below) /\ Head(<<t, u>>) = t /\ <<t, u>> # <<>>
    BY <2>2, <2>3, UnwindTwo DEF R, Z
  <2> QED BY <2>2, <2>4, <1>6 DEF t, u
<1>7. CASE c = "plugOld" /\ below = "end"
  <2>1. q = Plugins("plug", v)
    BY <1>7 DEF Callback
  <2>2. Unwinding(j, Plugins("plug", v), below) /\ (Plugins("plug", v) # <<>> => Label(Head(Plugins("plug", v))) = "plug")
    <3>1. <<"plug", below>> \in over /\ "plug" \in Acts /\ <<"plug", "plug">> \in R /\ "plug" \in Z
      BY <1>2, <1>3, <1>7
    <3> HIDE DEF v
    <3> QED BY <1>1, <3>1, UnwindPlugs DEF over, R, Z, v
  <2>3. h \in {"none", "plug"}
    BY <2>1, <2>2
  <2> QED BY <1>7, <2>1, <2>2, <2>3 DEF UpgradePops, OldRow, OldService, r
<1>8. CASE c = "uninstallImage" /\ below \in {"plugOld", "end"}
  <2>1. q = <<Do("rmi", j.new)>> /\ <<"rmi", below>> \in over
    BY <1>2, <1>8 DEF Callback
  <2>2. Unwinding(j, q, below) /\ h = "rmi"
    BY <2>1, <1>1, <1>5
  <2> QED BY <1>8, <2>2 DEF UpgradePops, OldRow, OldService, r
<1>9. CASE c = "startOld" /\ below = "uninstallImage" /\ r
  <2>1. q = <<Do("start", v), Do("await", v)>> /\ <<"start", below>> \in over /\ <<"await", below>> \in over /\ <<"start", "await">> \in R
    BY <1>2, <1>9 DEF Callback, StartUp
  <2>2. Unwinding(j, q, below) /\ h = "start"
    BY <2>1, <1>1, <1>6
  <2> QED BY <1>9, <2>2 DEF UpgradePops, OldRow, OldService, r
<1>10. CASE c = "createOld" /\ below = (IF r THEN "startOld" ELSE "uninstallImage")
  <2>1. q = <<Do("script", v), Do("yang", v)>> /\ <<"script", below>> \in over /\ <<"yang", below>> \in over /\ <<"script", "yang">> \in R
    BY <1>2, <1>10, CreateSteps DEF Callback
  <2>2. Unwinding(j, q, below) /\ h = "script"
    BY <2>1, <1>1, <1>6
  <2> QED BY <1>10, <2>2 DEF UpgradePops, OldRow, OldService, r
<1>11. CASE c = "removeNew" /\ below = "createOld"
  <2>1. q = <<Do("noscript", j.new), Do("noyang", j.new)>> /\ <<"noscript", below>> \in over /\ <<"noyang", below>> \in over
        /\ <<"noscript", "noyang">> \in R
    BY <1>2, <1>11, CreateSteps DEF Callback
  <2>2. Unwinding(j, q, below) /\ h = "noscript"
    BY <2>1, <1>1, <1>6
  <2> QED BY <1>11, <2>2 DEF UpgradePops, OldRow, OldService, r
<1>12. CASE c = "ordersBefore" /\ below = "removeNew"
  <2>1. q = <<Do("fast", v), Do("warm", v)>> /\ <<"fast", below>> \in over /\ <<"warm", below>> \in over /\ <<"fast", "warm">> \in R
    BY <1>2, <1>12 DEF Callback, Orders
  <2>2. Unwinding(j, q, below) /\ h = "fast"
    BY <2>1, <1>1, <1>6
  <2> QED BY <1>12, <2>2 DEF UpgradePops, OldRow, OldService, r
<1>13. CASE c = "updateBack" /\ below = "ordersBefore"
  <2>1. q = <<Do("update", v)>> /\ <<"update", below>> \in over
    BY <1>2, <1>13 DEF Callback
  <2>2. Unwinding(j, q, below) /\ h = "update"
    BY <2>1, <1>1, <1>5
  <2> QED BY <1>13, <2>2 DEF UpgradePops, OldRow, OldService, r
<1>14. CASE c = "stopNew" /\ below = "updateBack" /\ r
  <2>1. q = <<Do("stop", j.new), Do("await", j.new)>> /\ <<"stop", below>> \in over /\ <<"await", below>> \in over /\ <<"stop", "await">> \in R
    BY <1>2, <1>14 DEF Callback, Stop
  <2>2. Unwinding(j, q, below) /\ h = "stop"
    BY <2>1, <1>1, <1>6
  <2> QED BY <1>14, <2>2 DEF UpgradePops, OldRow, OldService, r
<1>15. CASE c = "unplugNew" /\ below = (IF r THEN "stopNew" ELSE "updateBack")
  <2>1. q = <<>> /\ h = "none"
    BY <1>1, <1>15 DEF Callback
  <2>2. Unwinding(j, <<>>, below)
    BY DEF Unwinding, InOrder
  <2> QED BY <1>15, <2>1, <2>2 DEF UpgradePops, OldRow, OldService, r
<1> QED BY <1>4, <1>7, <1>8, <1>9, <1>10, <1>11, <1>12, <1>13, <1>14, <1>15

LEMMA CallbackBack ==
    ASSUME Typed, NEW s \in Sessions, NextCallback(s), undo[s] # <<>>, Back(s)
    PROVE  Back(s)'
<1> DEFINE j == job[s]
           u == undo[s]
           p == Pkg(s)
           c == Head(u)
           below == Top(Tail(u))
           q == Callback(c, j)
           h == Next1(s)'
<1>1. /\ todo[s] = <<>> /\ todo'[s] = q /\ undo'[s] = Tail(u) /\ job'[s] = j
      /\ UNCHANGED <<images, script, yang, feature, asked>> /\ Pkg(s)' = p
  <2>1. todo' = [todo EXCEPT ![s] = q] /\ undo' = [undo EXCEPT ![s] = Tail(@)] /\ job' = job /\ UNCHANGED <<host, ghost>> /\ todo[s] = <<>>
    BY DEF NextCallback
  <2>2. todo'[s] = q /\ undo'[s] = Tail(u)
    BY <2>1 DEF Typed, TypedSessions
  <2> QED BY <2>1, <2>2 DEF host, ghost, Pkg
<1>2. Stacked(j, u) /\ j \in Job /\ (Installs(j) \/ (Upgrades(j) /\ j.old # j.new))
  BY DEF Back, Typed, TypedSessions
<1>3. /\ Stacked(j, Tail(u)) /\ (IF below = "end" THEN c \in Bottom(j) ELSE <<c, below>> \in Stack(j))
  <2>1. /\ Tail(u) \in Seq(Callbacks) /\ Stacked(j, Tail(u))
        /\ IF Tail(u) = <<>> THEN c \in Bottom(j) ELSE <<c, Head(Tail(u))>> \in Stack(j)
    <3> HIDE DEF j, u
    <3>1. u # <<>> /\ Stacked(j, u)
      BY <1>2 DEF u
    <3> QED BY <3>1, StackPop
  <2>2. below = IF Tail(u) = <<>> THEN "end" ELSE Head(Tail(u))
    BY DEF Top
  <2>3. Tail(u) # <<>> => Head(Tail(u)) \in Callbacks
    BY <2>1
  <2>4. "end" \notin Callbacks
    BY DEF Callbacks
  <2> HIDE DEF u, below
  <2> QED BY <2>1, <2>2, <2>3, <2>4 DEF u
<1>4. Top(u) = c /\ Next1(s) = "none" /\ Top(undo[s])' = below
  BY <1>1 DEF Top, Next1
<1>5. h = IF q = <<>> THEN "none" ELSE Label(Head(q))
  BY <1>1 DEF Next1
<1>6. Installs(j) => Unwinding(j, q, below) /\ InstallPops(c, below, h)
  <2> HIDE DEF j, c, below, h
  <2> QED BY <1>2, <1>3, <1>5, InstallCallback
<1>7. Upgrades(j) => Unwinding(j, q, below) /\ UpgradePops(j.running, c, below, h)
  <2> HIDE DEF j, c, below, h
  <2> QED BY <1>2, <1>3, <1>5, UpgradeCallback
<1>8. Installs(j) => BackInstall(s)'
  <2> SUFFICES ASSUME Installs(j) PROVE BackInstall(s)'
    OBVIOUS
  <2>1. /\ RowAsAsked(p)
        /\ c \in {"end", "uninstallImage"} => script[p] = NoVersion /\ yang[p] = NoVersion /\ feature[p] = NoFeature
    BY <1>4 DEF Back, BackInstall
  <2>2. InstallPops(c, below, h)
    BY <1>6
  <2> HIDE DEF p, c, below, h
  <2> QED BY <1>1, <1>4, <2>1, <2>2 DEF BackInstall, InstallPops, RowAsAsked, h
<1>9. Upgrades(j) => BackUpgrade(s)'
  <2> SUFFICES ASSUME Upgrades(j) PROVE BackUpgrade(s)'
    OBVIOUS
  <2> DEFINE r == j.running
             before == c \in {"ordersBefore", "removeNew", "createOld", "startOld", "updateBack"}
             after == \/ below \in {"ordersBefore", "removeNew", "createOld", "startOld"}
                      \/ below = "updateBack" /\ h # "stop"
                      \/ below = "uninstallImage" /\ h = "start"
  <2>1. /\ <<p, j.old>> \in images
        /\ feature[p] # NoFeature
        /\ c \in OldRow \cup {"ordersBefore"} => RowHas(feature[p], j.old)
        /\ c = "createOld" => yang[p] = NoVersion
        /\ c \in OldService => script[p] = j.old
        /\ c \in OldService => yang[p] = YangOf(p, j.old)
    BY <1>4 DEF Back, BackUpgrade, RowIs, Pkg
  <2>2. IF r /\ before THEN feature[p] # NoFeature /\ Halts(feature[p].state, asked[p])
        ELSE (feature[p] # NoFeature => Agrees(feature[p].state, asked[p])) /\ (r => Agrees("enabled", asked[p]))
    BY <1>4 DEF Back, BackUpgrade, StateIs, Halted, RowAsAsked, Pkg
  <2>3. UpgradePops(r, c, below, h)
    BY <1>7
  <2>4. job'[s].pkg = p
    BY <1>1 DEF Pkg
  <2> HIDE DEF p, c, below, h, j, r
  <2>5. r => (before <=> after)
    BY <2>3 DEF UpgradePops
  <2>6. /\ below \in OldRow \/ (below = "ordersBefore" /\ h = "none") => RowHas(feature[p], j.old)
        /\ (below = "createOld" /\ h = "none") \/ h \in {"script", "yang"} => yang[p] = NoVersion
        /\ below \in OldService /\ h # "script" => script[p] = j.old
        /\ below \in OldService /\ h \notin {"script", "yang"} => yang[p] = YangOf(p, j.old)
    BY <2>1, <2>3 DEF UpgradePops
  <2>7. IF r /\ after THEN feature[p] # NoFeature /\ Halts(feature[p].state, asked[p])
        ELSE (feature[p] # NoFeature => Agrees(feature[p].state, asked[p])) /\ (r => Agrees("enabled", asked[p]))
    <3> HIDE DEF before, after
    <3> QED BY <2>2, <2>5
  <2> QED BY <1>1, <1>4, <2>1, <2>4, <2>6, <2>7 DEF BackUpgrade, RowIs, StateIs, Halted, RowAsAsked, h, r, j
<1> HIDE DEF j, u, c, below, q
<1> QED BY <1>1, <1>2, <1>3, <1>4, <1>6, <1>7, <1>8, <1>9 DEF Back

\* What is taken back is back when no callback is left.
LEMMA BackFits ==
    ASSUME Typed, NEW s \in Sessions, todo[s] = <<>>, undo[s] = <<>>, Back(s)
    PROVE  Fits(Pkg(s), job[s].old)
<1> DEFINE j == job[s]
           p == Pkg(s)
<1>1. Top(undo[s]) = "end" /\ Next1(s) = "none"
  BY DEF Top, Next1
<1>2. CASE Installs(j)
  <2>1. script[p] = NoVersion /\ yang[p] = NoVersion /\ feature[p] = NoFeature
    BY <1>1, <1>2 DEF Back, BackInstall
  <2>2. j.old = NoVersion
    BY <1>2 DEF Installs
  <2> HIDE DEF p
  <2> QED BY <2>1, <2>2 DEF Fits, YangOf, RowIs, RowHas, RowAsAsked, p
<1>3. CASE Upgrades(j)
  <2>1. <<p, j.old>> \in images /\ script[p] = j.old /\ yang[p] = YangOf(p, j.old) /\ RowIs(p, j.old)
    BY <1>1, <1>3 DEF Back, BackUpgrade, OldRow, OldService, Pkg
  <2>2. RowAsAsked(p)
    BY <1>1, <1>3 DEF Back, BackUpgrade, StateIs, Pkg
  <2> HIDE DEF p, j
  <2> QED BY <2>1, <2>2 DEF Fits, p, j
<1> QED BY <1>2, <1>3 DEF Back

LEMMA CallbackKept ==
    ASSUME Typed, NEW s \in Sessions, AloneAt(s), NextCallback(s)
    PROVE  AloneAt(s)'
<1> DEFINE p == Pkg(s)
<1>1. pc[s] = "unwind" /\ todo[s] = <<>> /\ UNCHANGED <<file, host, ghost>> /\ InUnwind(s) /\ p \in Packages
  BY DEF NextCallback, AloneAt, Typed, TypedSessions, Pkg, Job
<1>2. CASE undo[s] = <<>>
  <2>1. pc'[s] = "idle"
    BY <1>2, EndOwn DEF NextCallback, Typed
  <2> PICK m : m = file
    OBVIOUS
  <2>2. ASSUME m # Torn PROVE Fit(Packages, m)
    <3>1. SameVersions(Packages \ {p}, mem[s], m) /\ Fit(Packages \ {p}, mem[s])
      BY <1>1, <2>2 DEF InUnwind, FileInUnwind, SameVersions
    <3>2. Fit(Packages \ {p}, m)
      BY <3>1, FitTransfer
    <3>3. p \notin spoiled => Fits(p, VersionIn(m, p))
      <4>1. p \notin spoiled => Fits(p, job[s].old) /\ VersionIn(m, p) = job[s].old
        BY <1>1, <1>2, <2>2, BackFits DEF InUnwind, FileInUnwind
      <4> QED BY <4>1
    <3>4. Fit({p}, m)
      BY <3>3 DEF Fit
    <3> HIDE DEF p
    <3> QED BY <1>1, <3>2, <3>4, FitUnion
  <2>3. m # Torn => Fit(Packages, m)'
    BY <1>1, <2>2, FitKept DEF host, ghost
  <2> QED BY <1>1, <2>1, <2>3 DEF AloneAt, Resting
<1>3. CASE undo[s] # <<>>
  <2>1. pc' = pc /\ mem' = mem /\ job' = job /\ Pkg(s)' = p
    BY <1>3 DEF NextCallback, Pkg
  <2>2. spoiled' = spoiled /\ (p \notin spoiled => Back(s)')
    BY <1>1, <1>3, CallbackBack DEF InUnwind, ghost
  <2> PICK m : m = mem[s]
    OBVIOUS
  <2> PICK qs : qs = Packages \ {p}
    OBVIOUS
  <2>3. Fit(qs, m)'
    BY <1>1, FitKept DEF InUnwind, host, ghost
  <2>4. FileInUnwind(s)'
    BY <1>1, <2>1, <2>2 DEF InUnwind, FileInUnwind
  <2>5. InUnwind(s)'
    BY <2>1, <2>2, <2>3, <2>4 DEF InUnwind
  <2> QED BY <1>1, <2>1, <2>5 DEF AloneAt, Resting
<1> QED BY <1>2, <1>3

-----------------------------------------------------------------------------
(* One session: the theorems. *)

LEMMA InitAlone ==
    ASSUME Init, NEW s \in Sessions
    PROVE  AloneAt(s)
<1>1. pc[s] = "idle" /\ file = Shipped /\ spoiled = {}
  BY DEF Init
<1>2. ASSUME NEW p \in Packages PROVE Fits(p, VersionIn(Shipped, p))
  <2> DEFINE v == VersionIn(Shipped, p)
  <2>1. v \in VersionOrNone /\ (v # NoVersion => v = Shipped[p].version)
    BY PackagesAssumption, VersionFacts DEF VersionIn
  <2>2. p \in Installed(Shipped) <=> v # NoVersion
    BY DEF Installed
  <2>3. script[p] = v /\ yang[p] = YangOf(p, v)
    BY DEF Init, YangOf
  <2>4. v # NoVersion => <<p, v>> \in images
    BY <2>1, <2>2 DEF Init
  <2>5. /\ asked[p] = "disabled"
        /\ feature[p] = IF v # NoVersion THEN [state |-> "disabled", version |-> v] ELSE NoFeature
    <3>1. feature[p] = IF p \in Installed(Shipped) THEN [state |-> "disabled", version |-> Shipped[p].version] ELSE NoFeature
      BY DEF Init
    <3>2. asked[p] = "disabled"
      BY DEF Init
    <3> HIDE DEF v
    <3> QED BY <2>1, <2>2, <3>1, <3>2
  <2> HIDE DEF v
  <2>6. [state |-> "disabled", version |-> v] # NoFeature
    BY <2>1, FeaturesAssumption
  <2>7. RowIs(p, v) /\ RowAsAsked(p)
    BY <2>5, <2>6 DEF RowIs, RowHas, RowAsAsked, Agrees
  <2> QED BY <2>3, <2>4, <2>7 DEF Fits, v
<1>3. Fit(Packages, Shipped)
  BY <1>2 DEF Fit
<1> QED BY <1>1, <1>3 DEF AloneAt, Resting

LEMMA MovedAlone ==
    ASSUME Typed, Locking, Working, NEW s \in Sessions, AloneAt(s), Moved(s)
    PROVE  AloneAt(s)'
<1>1. CASE Begins(s)
  <2>1. pc'[s] = "work" /\ InWork(s)'
    BY <1>1, BeginsDone, BeginsInWork DEF AloneAt
  <2> QED BY <2>1 DEF AloneAt, Resting
<1>2. CASE Effect(s)
  <2>1. pc'[s] = pc[s] /\ pc[s] \in {"work", "unwind"}
    BY <1>2, StorageAfter DEF Effect, AtStep
  <2>2. CASE pc[s] = "work"
    <3>1. InWork(s)'
      BY <1>2, <2>2, InWorkStep DEF AloneAt, Working
    <3> QED BY <2>1, <2>2, <3>1 DEF AloneAt, Resting
  <2>3. CASE pc[s] = "unwind"
    <3>1. InUnwind(s)'
      BY <1>2, <2>3, UnwindKept DEF AloneAt
    <3> QED BY <2>1, <2>3, <3>1 DEF AloneAt, Resting
  <2> QED BY <2>1, <2>2, <2>3
<1>3. CASE Fails(s)
  <2>1. pc'[s] = "unwind" /\ pc[s] \in {"work", "unwind"}
    BY <1>3 DEF Fails, Raise, AtStep, Typed, TypedSessions
  <2>2. InUnwind(s)'
    BY <1>3, <2>1, FailsWork, FailsUnwind DEF AloneAt, Working
  <2> QED BY <2>1, <2>2 DEF AloneAt, Resting
<1> QED BY <1>1, <1>2, <1>3, RestingKept, CallbackKept, KillKept DEF Moved

LEMMA NextAlone ==
    ASSUME Typed, Locking, Working, [Next]_vars, NEW s, Sessions = {s}, AloneAt(s)
    PROVE  AloneAt(s)'
<1>1. s \in Sessions
  OBVIOUS
<1>2. CASE \E u \in Sessions : Moved(u)
  BY <1>1, <1>2, MovedAlone
<1>3. CASE \E p \in Packages : Toggle(p)
  BY <1>1, <1>3, ToggleKept
<1>4. CASE UNCHANGED vars
  <2>1. UNCHANGED <<file, images, script, yang, feature, asked, spoiled, pc, mem, job, todo, undo>>
    BY <1>4 DEF vars, host, session, ghost
  <2>2. \A p, v : Fits(p, v)' = Fits(p, v)
    BY <2>1 DEF Fits, RowIs, RowAsAsked
  <2>3. \A ps, m : Fit(ps, m)' = Fit(ps, m)
    BY <2>1, <2>2 DEF Fit
  <2>4. Next1(s)' = Next1(s) /\ Pkg(s)' = Pkg(s) /\ Top(undo[s])' = Top(undo[s])
    BY <2>1 DEF Next1, Pkg, Top
  <2>5. Resting(s)' = Resting(s)
    BY <2>1, <2>3 DEF Resting
  <2>6. FileInWork(s)' = FileInWork(s) /\ FileInUnwind(s)' = FileInUnwind(s)
    BY <2>1, <2>3, <2>4 DEF FileInWork, FileInUnwind
  <2>7. BeforeUpgrade(s)' = BeforeUpgrade(s) /\ BeforeInstall(s)' = BeforeInstall(s)
    BY <2>1, <2>4 DEF BeforeUpgrade, BeforeInstall, StateIs, Halted, RowIs, RowAsAsked
  <2>8. Before(s)' = Before(s)
    BY <2>1, <2>2, <2>4, <2>7 DEF Before
  <2>9. BackUpgrade(s)' = BackUpgrade(s) /\ BackInstall(s)' = BackInstall(s)
    BY <2>1, <2>4 DEF BackUpgrade, BackInstall, StateIs, Halted, RowIs, RowAsAsked
  <2>10. Back(s)' = Back(s)
    BY <2>1, <2>4, <2>9 DEF Back
  <2>11. InWork(s)' = InWork(s)
    BY <2>1, <2>3, <2>4, <2>6, <2>8 DEF InWork
  <2>12. InUnwind(s)' = InUnwind(s)
    BY <2>1, <2>3, <2>4, <2>6, <2>10 DEF InUnwind
  <2> QED BY <2>1, <2>5, <2>11, <2>12 DEF AloneAt
<1> QED BY <1>2, <1>3, <1>4, NextMoved


\* With a single session, an operation that has ended leaves what packages.json says.
LEMMA RestFits ==
    ASSUME Typed, Locking, NEW s \in Sessions, AloneAt(s), lock = Nobody, file # Torn
    PROVE  Fit(Packages, file)
<1>1. pc[s] \notin {"check", "work", "unwind"}
  BY PackagesAssumption DEF Locking, Locked
<1>2. pc[s] \in {"idle", "prompt"}
  BY <1>1 DEF Typed, TypedSessions
<1> QED BY <1>2 DEF AloneAt, Resting

\* The invariant of a system with one session is inductive: before, during and
\* after an operation, also while it is taken back, what the host has fits.
THEOREM OneSessionInductive ==
    ASSUME NEW s, Sessions = {s}
    PROVE  Spec => [](WorkInv /\ AloneAt(s))
<1>1. s \in Sessions
  OBVIOUS
<1>2. Init => WorkInv /\ AloneAt(s)
  BY <1>1, InitTyped, InitWorking, InitAlone DEF WorkInv
<1>3. WorkInv /\ AloneAt(s) /\ [Next]_vars => (WorkInv /\ AloneAt(s))'
  BY NextTyped, NextLocking, NextWorking, NextAlone DEF WorkInv
<1> QED BY <1>2, <1>3, PTL DEF Spec

\* One session: a package has the script, YANG module, FEATURE row and image of
\* the version packages.json records, also after a failure was taken back.
THEOREM ConsistentAlone ==
    ASSUME NEW s, Sessions = {s}
    PROVE  Spec => []Consistent
<1>1. WorkInv /\ AloneAt(s) => Consistent
  <2> SUFFICES ASSUME WorkInv, AloneAt(s), lock = Nobody, file # Torn, NEW p \in Packages \ spoiled
               PROVE  LET v == VersionIn(file, p)
                      IN  /\ script[p] = v
                          /\ p \in WithYang => yang[p] = v
                          /\ IF v = NoVersion THEN feature[p] = NoFeature
                             ELSE <<p, v>> \in images /\ feature[p] # NoFeature
                                                      /\ feature[p].version = v
    BY DEF Consistent
  <2>1. s \in Sessions
    OBVIOUS
  <2>2. Fit(Packages, file)
    BY <2>1, RestFits DEF WorkInv
  <2>3. Fits(p, VersionIn(file, p))
    BY <2>2 DEF Fit
  <2> QED BY <2>3 DEF Fits, YangOf, RowIs, RowHas
<1> QED BY <1>1, OneSessionInductive, PTL

\* One session: an installed feature is enabled if and only if the user asked for it, in an
\* operation or not, except while an upgrade was stopping and starting it.
THEOREM FeatureAsAskedAlone ==
    ASSUME NEW s, Sessions = {s}
    PROVE  Spec => []FeatureAsAsked
<1>1. WorkInv /\ AloneAt(s) => FeatureAsAsked
  <2> SUFFICES ASSUME WorkInv, AloneAt(s), lock = Nobody, file # Torn, NEW p \in Installed(file) \ spoiled
               PROVE  feature[p] # NoFeature /\ Agrees(feature[p].state, asked[p])
    BY DEF FeatureAsAsked, Agrees
  <2>1. s \in Sessions
    OBVIOUS
  <2>2. Fit(Packages, file) /\ p \in Packages \ spoiled /\ VersionIn(file, p) # NoVersion
    BY <2>1, RestFits DEF WorkInv, Installed
  <2>3. Fits(p, VersionIn(file, p))
    BY <2>2 DEF Fit
  <2> QED BY <2>2, <2>3 DEF Fits, RowIs, RowHas, RowAsAsked
<1> QED BY <1>1, OneSessionInductive, PTL
=============================================================================
