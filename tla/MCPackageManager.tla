-------------------------- MODULE MCPackageManager --------------------------
(***************************************************************************)
(* Instances of PackageManager for TLC.  Package a depends on b, not newer  *)
(* than itself, and at 1 breaks c at 1; a and b have YANG modules and      *)
(* plugins, which change from version to version.                          *)
(***************************************************************************)
EXTENDS PackageManagerProperties

CONSTANTS a, b, c, s1, s2

NoComponents == [x \in {} |-> x]
On(p, versions) == [on |-> p, versions |-> versions, components |-> NoComponents]

MCDependsOn == [m \in Packages \X Versions |-> IF m[1] = a THEN {On(b, 1..m[2])} ELSE {}]
MCBreaks == [m \in Packages \X Versions |->
                IF m = <<a, 1>> THEN {On(p, {1}) : p \in Packages \cap {c}} ELSE {}]
MCComponentsOf == [m \in Packages \X Versions |-> NoComponents]

MCCommands == <<"show", "config">>
MCPluginsOf == [m \in Packages \X Versions |->
                   IF m[2] = 1 THEN {"show", "config"} ELSE {"config"}]
MCSupported == Packages \X Versions

Listed(v, d) == [version |-> v, default |-> d]
MCShipped == [p \in Packages |-> Listed(NoVersion, IF p = b THEN 1 ELSE NoVersion)]
MCShippedBuiltIn == [p \in Packages |-> IF p = a THEN NotListed ELSE Listed(1, 1)]

Ask(kind, p, v) ==
    [kind |-> kind, pkg |-> p, version |-> v, from |-> "database", force |-> FALSE,
     enable |-> FALSE, downgrade |-> FALSE, skip |-> FALSE, old |-> <<>>]

Enabled(r) == [r EXCEPT !.enable = TRUE]
Down(r) == [r EXCEPT !.downgrade = TRUE]
From(source, r) == [r EXCEPT !.from = source]
Forced(r) == [r EXCEPT !.force = TRUE]
Skipping(r) == [r EXCEPT !.skip = TRUE]

\* One package from each source, up and down, and back.
OneByOne ==
    {Ask("install", b, 1), Enabled(Ask("install", b, 2)), Ask("install", b, 2),
     From("tarball", Skipping(Ask("install", a, 2))), From("registry", Ask("install", a, 1)),
     Down(Ask("install", b, 1)), Ask("install", b, NoVersion), Ask("reset", b, NoVersion),
     Ask("uninstall", a, NoVersion), Ask("uninstall", b, NoVersion),
     Forced(Ask("uninstall", b, NoVersion)), Forced(From("registry", Ask("install", a, 1)))}
MCOneByOne == [s \in Sessions |-> OneByOne]

MCUpgrades == [s \in Sessions |-> {Ask("install", p, v) : p \in Packages, v \in Versions}]

\* The old image had b at version 2 and a at version 1 or 2, in either order.
Migrate(old) == [Ask("migrate", b, NoVersion) EXCEPT !.old = old]
MCMigrations ==
    [s \in Sessions |->
        IF s = s1 THEN {Migrate(<< <<b, Listed(2, 1)>>, <<a, Listed(2, NoVersion)>>,
                                   <<c, Listed(2, 2)>> >>)}
        ELSE {Ask("install", b, 1), Ask("uninstall", b, NoVersion), Ask("add", a, 2),
              From("registry", Ask("install", a, 1)),
              From("registry", Ask("install", a, 2)), Ask("install", c, 2),
              Ask("uninstall", c, NoVersion), Ask("remove", a, NoVersion)}]
=============================================================================
