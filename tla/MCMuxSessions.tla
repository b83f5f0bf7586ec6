----------------------------- MODULE MCMuxSessions -----------------------------
(***************************************************************************)
(* Pairs of commands: of the same tables, of each kind, over several ports,   *)
(* and of tables that one of them clears for the other.                      *)
(***************************************************************************)
EXTENDS MuxSessions

Both(a, b) == [s \in Sessions |-> IF s = 1 THEN a ELSE b]
On1(c) == [command |-> c, ports |-> <<"p1">>]
On2(c) == [command |-> c, ports |-> <<"p2">>]
OnAll(c) == [command |-> c, ports |-> <<"p1", "p2">>]

Pairs ==
    {Both(On1(HwState("active")), On1(HwState("standby"))),
     Both(On1(SetSwitchMode("auto")), OnAll(SetSwitchMode("manual"))),
     Both(On1(EnablePrbs), On2(DisablePrbs)), Both(On1(Reset), On1(SetAnlt)), Both(On1(SetFec), On1(SetFec)),
     Both(On1(EnableLoopback), On1(DisableLoopback)),
     Both(On1(Download("f")), On1(FirmwareVersion)), Both(OnAll(DownloadAll("f")), On1(Download("f"))),
     Both(On1(Activate("f", TRUE)), OnAll(ActivateAll("f"))), Both(OnAll(Rollback("f")), On1(Activate("f", FALSE))),
     Both(On1(BerInfo), On1(EyeInfo)), Both(On1(FecStatistics), On2(PcsStatistics)),
     Both(On1(DebugDumpRegisters), On1(AliveCableStatus)),
     Both(On1(MuxDirection(TRUE)), OnAll(MuxDirection(FALSE))), Both(OnAll(SwitchMode), On2(SwitchMode)),
     Both(On1(EventLog), On1(EventLog)), Both(On1(FecAnltSpeed), On1(FecAnltSpeed))}
SameKind == Both(On1(HwState("active")), On1(HwState("standby")))
\* With these, sessions and the daemon are free.
Free ==
    {SameKind, Both(On1(EnablePrbs), On2(DisablePrbs)),
     Both(On1(Download("f")), On1(FirmwareVersion)), Both(On1(BerInfo), On1(EyeInfo))}

MCScenarios ==
    [wants : Pairs, orderly : {TRUE}, kills : {{1}}, daemonIs : {"up"}]
        \cup [wants : Pairs, orderly : {TRUE}, kills : {{}}, daemonIs : {"fragile"}]
        \cup [wants : Free, orderly : {FALSE}, kills : {{}}, daemonIs : {"up"}]
        \cup [wants : {SameKind}, orderly : {FALSE}, kills : {{1}}, daemonIs : {"up"}]
        \cup [wants : {SameKind}, orderly : {FALSE}, kills : {{}}, daemonIs : {"fragile"}]
=============================================================================
