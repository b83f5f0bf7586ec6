--------------------------- MODULE MCPackageTree ---------------------------
(***************************************************************************)
(* Three packages in three versions.  a depends on b with implicit, with    *)
(* explicit component constraints, and on c too; c breaks versions and      *)
(* components of b; the components' versions differ in each place of the    *)
(* number and start at 0.                                                  *)
(*                                                                         *)
(* A package is accepted or not, and the shutdown order sorted or not, by   *)
(* different parts of its manifest: a behaviour goes through one of them.   *)
(***************************************************************************)
EXTENDS PackageTreeChecks, ShutdownOrder

CONSTANTS a, b, c, lib

Lib(v) == [x \in {lib} |-> v]
Nothing == [x \in {} |-> x]
On(p, versions, components) ==
    [on |-> p, versions |-> versions, components |-> components]

MCComponentVersions == {<<0, 0, 1>>, <<0, 1, 0>>, <<0, 1, 1>>, <<0, 2, 0>>,
                        <<1, 0, 0>>, <<1, 1, 0>>, <<1, 1, 1>>, <<2, 0, 0>>}

MCDependsOn ==
    [m \in Packages \X Versions |->
        CASE m = <<a, 1>> -> {On(b, {1, 2}, Nothing)}
          [] m = <<a, 2>> -> {On(b, {2, 3}, Lib({<<0, 1, 0>>, <<1, 1, 0>>}))}
          [] m = <<a, 3>> -> {On(b, {1, 3}, Nothing), On(c, {2, 3}, Nothing)}
          [] m = <<b, 3>> -> {On(c, {1, 3}, Nothing)}
          [] OTHER -> {}]

MCBreaks ==
    [m \in Packages \X Versions |->
        CASE m = <<c, 1>> -> {On(b, {1}, Nothing)}
          [] m = <<c, 2>> -> {On(b, {}, Lib({<<1, 1, 0>>}))}
          [] m = <<b, 2>> -> {On(c, {3}, Nothing)}
          [] OTHER -> {}]

MCComponentsOf ==
    [m \in Packages \X Versions |->
        CASE m = <<a, 1>> -> Lib(<<1, 0, 0>>)
          [] m = <<a, 3>> -> Lib(<<0, 1, 1>>)
          [] m = <<b, 1>> -> Lib(<<0, 1, 0>>)
          [] m = <<b, 2>> -> Lib(<<1, 1, 0>>)
          [] m = <<c, 1>> -> Lib(<<2, 0, 0>>)
          [] m = <<c, 3>> -> Lib(<<0, 1, 1>>)
          [] OTHER -> Nothing]

NoService == [s \in Services |-> {}]

ChecksInit ==
    \/ /\ TreeInit
       /\ installed = {} /\ after = NoService /\ before = NoService /\ left = {}
       /\ layer = [s \in Services |-> 0] /\ round = 0 /\ status = "done"
    \/ /\ tree = Nothing /\ verdict = "accepted"
       /\ Init

ChecksNext ==
    \/ Validate /\ UNCHANGED vars
    \/ Next /\ UNCHANGED <<tree, verdict>>

ChecksSpec == ChecksInit /\ [][ChecksNext]_<<tree, verdict, vars>>
=============================================================================
