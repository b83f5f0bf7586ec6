------------------------------ MODULE MuxCommands ------------------------------
(***************************************************************************)
(* The commands of "config muxcable" and "show muxcable" that the daemon of  *)
(* the transceivers carries out: what each asks for, in which tables, and     *)
(* what it deletes before and after.  A command has a table for the request   *)
(* (cmd), for its arguments (arg), for the answer (rsp) and for what was read *)
(* (res), all of them keyed by the port.                                      *)
(***************************************************************************)
EXTENDS Naturals, TLC

\* A kind of command: its tables, and the answer that "config" takes for success.
Kind(name, tables, ok) ==
    [name |-> name, arg |-> "arg" \in tables, res |-> "res" \in tables, ok |-> ok,
     before |-> {<<name, k>> : k \in tables}, after |-> {<<name, k>> : k \in tables},
     sweeps |-> "each", always |-> FALSE]
Asks(kind, request, params) == [request |-> request, params |-> params] @@ kind

PrbsKind == Kind("CONFIG_PRBS", {"cmd", "arg", "rsp"}, "True")
EnablePrbs == Asks(PrbsKind, "enable", {"target", "mode_value", "lane_mask", "direction"})
DisablePrbs == Asks(PrbsKind, "disable", {"target", "direction"})
Reset == Asks(PrbsKind, "reset", {"target"})
SetAnlt == Asks(PrbsKind, "anlt", {"target", "mode"})
SetFec == Asks(PrbsKind, "fec", {"target", "mode"})

LoopKind == Kind("CONFIG_LOOP", {"cmd", "arg", "rsp"}, "True")
EnableLoopback == Asks(LoopKind, "enable", {"target", "mode_value", "lane_mask"})
DisableLoopback == Asks(LoopKind, "disable", {"target"})

HwState(state) == Asks(Kind("CONFIG_HWMODE_DIR", {"cmd", "rsp"}, "True"), state, {})
SetSwitchMode(state) == Asks(Kind("CONFIG_HWMODE_SWMODE", {"cmd", "rsp"}, "True"), state, {})

\* For all ports, the call has its arguments in the wrong places and asks for nothing.
Download(file) == Asks(Kind("DOWN_FW", {"cmd", "rsp"}, "0"), file, {})
DownloadAll(file) == [Download(file) EXCEPT !.sweeps = "nothing"]
\* The arguments of one port are left, those of all ports are not used.
ActiKind == Kind("ACTI_FW", {"cmd", "arg", "rsp"}, "0")
Activate(file, nonhitless) ==
    [Asks(ActiKind, file, IF nonhitless THEN {"hitless"} ELSE {}) EXCEPT !.after = @ \ {<<"ACTI_FW", "arg">>}]
ActivateAll(file) == [Asks(ActiKind, file, {}) EXCEPT !.arg = FALSE]
Rollback(file) == Asks(Kind("ROLL_FW", {"cmd", "rsp"}, "0"), file, {})

BerKind == Kind("GET_BER", {"cmd", "arg", "rsp", "res"}, "any")
BerInfo == Asks(BerKind, "ber", {"target"})
EyeInfo == Asks(BerKind, "eye", {"target"})
FecStatistics == Asks(BerKind, "fec_stats", {"target"})
PcsStatistics == Asks(BerKind, "pcs_stats", {"target"})
DebugDumpRegisters == Asks(BerKind, "debug_dump", {"option"})
AliveCableStatus == Asks(Kind("GET_BER", {"cmd", "rsp", "res"}, "any"), "cable_alive", {})

\* What was read is taken whatever the answer; a table of it is cleared, JSON is not.
MuxDirection(json) ==
    LET kind == Kind("SHOW_HWMODE_DIR", {"cmd", "rsp", "res"}, "any")
    IN  [Asks(kind, "probe", {}) EXCEPT !.always = TRUE, !.after = IF json THEN {} ELSE @]
\* For all ports the tables are cleared once, at the end.
SwitchMode == [Asks(Kind("SHOW_HWMODE_SWMODE", {"cmd", "rsp"}, "any"), "probe", {}) EXCEPT !.sweeps = "last"]
\* The tables of a download are cleared as well; its own requests are left.
FirmwareVersion ==
    LET kind == Kind("SHOW_FW", {"cmd", "rsp", "res"}, "any")
    IN  [Asks(kind, "probe", {}) EXCEPT !.before = @ \cup {<<"DOWN_FW", "cmd">>, <<"DOWN_FW", "rsp">>},
                                        !.after = @ \ {<<"SHOW_FW", "cmd">>}]
EventLog == Asks(Kind("EVENT_LOG", {"cmd", "rsp", "res"}, "any"), "probe", {})
FecAnltSpeed == Asks(Kind("GET_FEC", {"cmd", "rsp", "res"}, "any"), "probe", {})
=============================================================================
