------------------------------ MODULE ConfigReload ------------------------------
(***************************************************************************)
(* config save, load, reload and load_minigraph: the whole CONFIG_DB of each  *)
(* namespace goes to a file or comes from files, in many steps, each of which *)
(* may fail and end the command.                                              *)
(***************************************************************************)
EXTENDS Sequences, SequencesExt

CONSTANTS
    Namespaces,   \* the host, then one for each ASIC
    Overridden    \* what the golden configuration replaces

VARIABLES
    conf,       \* of each namespace: the sources of what is in CONFIG_DB, whether it is up to date, and marked
    files,      \* of each namespace: whether a saved configuration is there, and whole, and what is in it
    present,    \* the other files that are there
    services,   \* "up", "starting" or "down"
    task,       \* the command in progress, or the last one
    faults,     \* failures, kills, and commands given on what is broken
    budget      \* [commands, faults, saved]: bounds, and the namespaces with a file at first
reloadVars == <<conf, files, present, services, task, faults, budget>>

Host == Namespaces[1]
AllNs == ToSet(Namespaces)
\* Where `config qos reload` and `pfcwd start_default`, which load_minigraph runs, write.
AsicNs == IF Len(Namespaces) = 1 THEN Namespaces ELSE Tail(Namespaces)
Base == {"running", "saved", "minigraph"}   \* without one of these a configuration is of no use
Sources == Base \cup {"init", "sysinfo", "part", "acl", "backend_acl", "port_config", "qos", "pfcwd", "tsa", "golden"}

\* A host alone or with its ASICs, each once.
ASSUME NamespacesAssumption ==
    /\ Namespaces \in Seq(AllNs) /\ Namespaces # <<>>
    /\ \A m, n \in DOMAIN Namespaces : Namespaces[m] = Namespaces[n] => m = n
\* A golden configuration replaces some tables, not all that the minigraph made, and keeps its own.
ASSUME OverriddenAssumption == Overridden \subseteq Sources \ (Base \cup {"golden"})

\* d: [present, budget]
InitReload(d) ==
    /\ conf = [ns \in AllNs |-> [rows |-> {"running"}, current |-> TRUE, marked |-> TRUE]]
    /\ files = [ns \in AllNs |-> IF ns \in d.budget.saved THEN [is |-> "whole", rows |-> {"saved"}, current |-> FALSE]
                                 ELSE [is |-> "none", rows |-> {}, current |-> FALSE]]
    /\ present \in d.present /\ budget = d.budget /\ services = "up" /\ faults = 0
    /\ task = [kind |-> "none", opts |-> {}, todo |-> <<>>, outcome |-> "done", was |-> conf, services |-> "up"]
-----------------------------------------------------------------------------
(* the commands as programs: each step is one command run, one file or one call of Redis *)

S(does, ns, rows) == [does |-> does, ns |-> ns, rows |-> rows]
Given(condition, steps) == IF condition THEN steps ELSE <<>>
ForEach(nss, does, rows) == [n \in DOMAIN nss |-> S(does, nss[n], rows)]
FromInit == {"init"} \cap present

\* The export is read again, sorted and written over itself.
SaveProgram ==
    FlattenSeq([n \in DOMAIN Namespaces |->
        LET ns == Namespaces[n]
        IN  <<S("truncate", ns, {}), S("export", ns, {}), S("truncate", ns, {}), S("dump", ns, {})>>])

\* It stops, and reports no error, at the first file that is not there.
LoadProgram ==
    LET missing == {n \in DOMAIN Namespaces : files[Namespaces[n]].is = "none"}
        upto == {n \in DOMAIN Namespaces : \A m \in missing : n < m}
    IN  [n \in upto |-> S("import", Namespaces[n], files[Namespaces[n]].rows)]

StopSteps(opts) == Given("n" \notin opts, <<S("stop", Host, {})>>)
RestartSteps(opts) == Given("n" \notin opts, <<S("run", Host, {}), S("restart", Host, {}), S("run", Host, {})>>)

\* Mutant of ReloadOf: the mark is set before the configuration is there.
ReloadOfMarksFirst(ns, opts) ==
    Given("l" \in opts, <<S("read", ns, {})>>)
    \o <<S("flush", ns, {}), S("mark", ns, {})>>
    \o Given("l" \in opts, <<S("put", ns, {"sysinfo"})>>)
    \o <<S("import", ns, files[ns].rows \cup FromInit), S("migrate", ns, {})>>

\* The hwsku is read from the file before anything is removed.
ReloadOf(ns, opts) ==
    Given("l" \in opts, <<S("read", ns, {})>>)
    \o <<S("flush", ns, {})>>
    \o Given("l" \in opts, <<S("put", ns, {"sysinfo"})>>)
    \o <<S("import", ns, files[ns].rows \cup FromInit), S("mark", ns, {}), S("migrate", ns, {})>>

\* A namespace without a file is passed over.
ReloadProgram(opts) ==
    StopSteps(opts)
    \o FlattenSeq([n \in DOMAIN Namespaces |->
           Given(files[Namespaces[n]].is # "none", ReloadOf(Namespaces[n], opts))])
    \o <<S("run", Host, {})>> \o RestartSteps(opts)

GenerateConfig ==
    FlattenSeq([n \in DOMAIN Namespaces |->
        LET ns == Namespaces[n]
        IN  <<S("flush", ns, {}), S("put", ns, {"minigraph"} \cup FromInit), S("mark", ns, {})>>])
LoadBackendAcl == Given("backend_acl" \in present, <<S("run", Host, {}), S("put", Host, {"backend_acl"})>>)
\* A file that does not fit the ports is reported and ignored, as if it were not there.
LoadPortConfig == Given("port_config" \in present, <<S("put", Host, {"port_config"})>>)
OverrideConfigTable == <<S("drop", Host, Overridden), S("put", Host, {"golden"})>>

MinigraphProgram(opts) ==
    StopSteps(opts) \o GenerateConfig \o <<S("run", Host, {})>>
    \o Given("acl" \in present, <<S("put", Host, {"acl"})>>) \o LoadBackendAcl \o LoadPortConfig
    \o ForEach(AsicNs, "put", {"qos"}) \o ForEach(AsicNs, "put", {"pfcwd"})
    \o ForEach(Namespaces, "migrate", {})
    \o Given("t" \in opts, <<S("put", Host, {"tsa"})>>)
    \o Given("o" \in opts, <<S("find", Host, {})>> \o OverrideConfigTable)
    \o RestartSteps(opts)
-----------------------------------------------------------------------------
Initialized == \A ns \in AllNs : conf[ns].marked
\* The system is up, the timers have elapsed, and swss has run for two minutes.
SystemReady == services = "up"

Options(kind) == SUBSET (IF kind = "reload" THEN {"l", "n", "f"} ELSE IF kind = "minigraph" THEN {"n", "t", "o"} ELSE {})
Program(kind, opts) ==
    CASE kind = "save" -> SaveProgram
      [] kind = "load" -> LoadProgram
      [] kind = "reload" -> ReloadProgram(opts)
      [] kind = "minigraph" -> MinigraphProgram(opts)
\* Given on what is broken: a save of what is not complete, and what replaces a configuration that was
\* not saved in full.
Blind(kind) ==
    \/ kind = "save" /\ ~Initialized
    \/ kind \in {"reload", "minigraph"} /\ \E ns \in AllNs : files[ns].is = "torn"

\* reload and load_minigraph first connect to the database, which waits for the mark.
BeginTask(kind, opts) ==
    /\ task.todo = <<>> /\ budget.commands > 0
    /\ kind \in {"reload", "minigraph"} => Initialized
    /\ Blind(kind) => faults < budget.faults
    /\ LET refused == kind = "reload" /\ {"n", "f"} \cap opts = {} /\ ~SystemReady
           steps == IF refused THEN <<>> ELSE Program(kind, opts)
           outcome == IF refused THEN "refused" ELSE IF steps = <<>> THEN "done" ELSE "running"
       IN  task' = [kind |-> kind, opts |-> opts, todo |-> steps, outcome |-> outcome, was |-> conf, services |-> services]
    /\ faults' = IF Blind(kind) THEN faults + 1 ELSE faults
    /\ budget' = [budget EXCEPT !.commands = @ - 1]
    /\ UNCHANGED <<conf, files, present, services>>

Now(does) == task.todo # <<>> /\ Head(task.todo).does = does
Ns == Head(task.todo).ns
Rows == Head(task.todo).rows
Advance ==
    /\ task' = [task EXCEPT !.todo = Tail(@), !.outcome = IF Len(task.todo) = 1 THEN "done" ELSE "running"]
    /\ UNCHANGED <<present, faults, budget>>
Sets(f, value) == f' = [f EXCEPT ![Ns] = value]

StopTarget == Now("stop") /\ services' = "down" /\ Advance /\ UNCHANGED <<conf, files>>
RestartTarget == Now("restart") /\ services' = "starting" /\ Advance /\ UNCHANGED <<conf, files>>
RunOther == Now("run") /\ Advance /\ UNCHANGED <<conf, files, services>>
FindFile ==
    /\ \/ Now("read") /\ files[Ns].is = "whole"
       \/ Now("find") /\ "golden" \in present
    /\ Advance /\ UNCHANGED <<conf, files, services>>

FlushDb ==
    /\ Now("flush") /\ Sets(conf, [rows |-> {}, current |-> FALSE, marked |-> FALSE])
    /\ Advance /\ UNCHANGED <<files, services>>
\* What is written joins what is there.
WriteToDb ==
    /\ Now("put") /\ Sets(conf, [conf[Ns] EXCEPT !.rows = @ \cup Rows])
    /\ Advance /\ UNCHANGED <<files, services>>
ImportFile ==
    /\ Now("import") /\ files[Ns].is = "whole"
    /\ Sets(conf, [conf[Ns] EXCEPT !.rows = @ \cup Rows, !.current = files[Ns].current])
    /\ Advance /\ UNCHANGED <<files, services>>
DropTables ==
    /\ Now("drop") /\ Sets(conf, [conf[Ns] EXCEPT !.rows = @ \ Rows])
    /\ Advance /\ UNCHANGED <<files, services>>
SetIndicator == Now("mark") /\ Sets(conf, [conf[Ns] EXCEPT !.marked = TRUE]) /\ Advance /\ UNCHANGED <<files, services>>
MigrateDb == Now("migrate") /\ Sets(conf, [conf[Ns] EXCEPT !.current = TRUE]) /\ Advance /\ UNCHANGED <<files, services>>

Truncate == Now("truncate") /\ Sets(files, [files[Ns] EXCEPT !.is = "torn"]) /\ Advance /\ UNCHANGED <<conf, services>>
\* The export waits for the mark too.
ExportDb ==
    /\ Now("export") /\ conf[Ns].marked
    /\ Sets(files, [is |-> "whole", rows |-> conf[Ns].rows, current |-> conf[Ns].current])
    /\ Advance /\ UNCHANGED <<conf, services>>
DumpFile == Now("dump") /\ Sets(files, [files[Ns] EXCEPT !.is = "whole"]) /\ Advance /\ UNCHANGED <<conf, services>>

\* A step that cannot succeed: a torn file, or no golden configuration.
Impossible ==
    \/ (Now("read") \/ Now("import")) /\ files[Ns].is # "whole"
    \/ Now("find") /\ "golden" \notin present
\* run_command exits when the command fails, at whatever point it was; so does a kill.
StepFails ==
    /\ task.todo # <<>> /\ (Impossible \/ faults < budget.faults)
    /\ faults' = IF Impossible THEN faults ELSE faults + 1
    /\ task' = [task EXCEPT !.todo = <<>>, !.outcome = "failed"]
    /\ \/ UNCHANGED <<conf, services>>
       \/ /\ (Now("put") \/ Now("import")) /\ ~Impossible
          /\ Sets(conf, [conf[Ns] EXCEPT !.rows = @ \cup {"part"}]) /\ UNCHANGED services
       \/ Now("restart") /\ services' = "starting" /\ UNCHANGED conf
    /\ UNCHANGED <<files, present, budget>>
Settle == services = "starting" /\ services' = "up" /\ UNCHANGED <<conf, files, present, task, faults, budget>>

ReloadNext ==
    \/ \E kind \in {"save", "load", "reload", "minigraph"} : \E opts \in Options(kind) : BeginTask(kind, opts)
    \/ StopTarget \/ RestartTarget \/ RunOther \/ FindFile \/ FlushDb \/ WriteToDb \/ ImportFile \/ DropTables
    \/ SetIndicator \/ MigrateDb \/ Truncate \/ ExportDb \/ DumpFile \/ StepFails \/ Settle
-----------------------------------------------------------------------------
\* Who waits for the mark does not find an empty database, nor one without what a configuration is based on.
\* It may be half-written: by an import on a marked namespace that failed (config load), or by a
\* load_minigraph that failed after the mark, in its ACLs, QoS or migration.
MarkedHasBase == \A ns \in AllNs : conf[ns].marked => conf[ns].rows \cap Base # {}

Done(kind) == task.kind = kind /\ task.outcome = "done"
Reloaded(ns) ==
    IF files[ns].is = "none" THEN conf[ns] = task.was[ns]
    ELSE conf[ns] = [rows |-> files[ns].rows \cup FromInit \cup (IF "l" \in task.opts THEN {"sysinfo"} ELSE {}),
                     current |-> TRUE, marked |-> TRUE]
Regenerated(ns) ==
    /\ conf[ns].marked /\ conf[ns].current /\ "minigraph" \in conf[ns].rows
    /\ conf[ns].rows \cap {"running", "saved", "sysinfo", "part"} = {}
    /\ "o" \in task.opts => "golden" \in conf[Host].rows /\ conf[Host].rows \cap Overridden = {}
Restored == IF "n" \in task.opts THEN services = task.services \/ services = "up" ELSE services # "down"

\* A failure, or a kill, may cost the base of the configuration that runs or the file that is saved, never both.
OneCopyLeft ==
    faults <= 1 => \A ns \in budget.saved :
        files[ns].is = "whole" \/ (conf[ns].marked /\ conf[ns].rows \cap Base # {})

\* A reload or load_minigraph that reports success leaves exactly what it loaded, nothing of what was there
\* nor of earlier commands that failed half way, migrated and marked, with the services started again; what
\* is marked always has the base of a configuration, however much a failure left out after the mark; and no
\* single failure or kill of any of these commands, at whatever step, loses both that base and a whole file
\* (config/main.py save, load, reload, load_minigraph, override_config_table).
ReloadIsWhole ==
    /\ MarkedHasBase /\ OneCopyLeft
    /\ Done("reload") => (\A ns \in AllNs : Reloaded(ns)) /\ Restored
    /\ Done("minigraph") => (\A ns \in AllNs : Regenerated(ns)) /\ Restored
===============================================================================
