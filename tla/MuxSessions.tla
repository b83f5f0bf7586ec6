------------------------------ MODULE MuxSessions ------------------------------
(***************************************************************************)
(* Sessions of "config muxcable" and "show muxcable" and the daemon that      *)
(* answers them, by way of tables of STATE_DB and APPL_DB that carry no name  *)
(* of the request: a session takes the next row for its port as its answer.   *)
(***************************************************************************)
EXTENDS MuxCommands, Sequences, FiniteSets

CONSTANTS
    MuxPorts,
    Sessions,
    Scenarios    \* [wants, orderly, kills, daemonIs], see the variables

\* A command deletes its tables before it asks, and a table of arguments only with its requests.
ASSUME CommandsAssumption ==
    \A c \in Scenarios, s \in Sessions :
        LET command == c.wants[s].command
            kinds == {"cmd", "rsp"} \cup (IF command.res THEN {"res"} ELSE {}) \cup (IF command.arg THEN {"arg"} ELSE {})
        IN  /\ {command.name} \X kinds \subseteq command.before
            /\ \A tables \in {command.before, command.after} :
                  \A tbl \in tables : tbl[2] = "arg" => <<tbl[1], "cmd">> \in tables

\* A command is for some ports, each of them once.
ASSUME PortsAssumption ==
    \A c \in Scenarios, s \in Sessions :
        LET ports == c.wants[s].ports
        IN  ports \in Seq(MuxPorts) \ {<<>>} /\ \A i, j \in DOMAIN ports : ports[i] = ports[j] => i = j

VARIABLES
    wants,     \* the command and the ports of each session
    orderly,   \* one session at a time, and no time limit passes before an answer
    rows,      \* <<table, kind, port>> :> the row
    at,        \* where a session is
    left,      \* the ports it still has to ask about
    events,    \* changes of the answers that it is told of and has not read
    buffer,    \* answers that it has read and not looked at
    timeUp,    \* its time limit has passed
    answer,    \* what it has on its port
    told,      \* what it has reported of each port
    queue,     \* changed requests that the daemon has not read
    job,       \* what the daemon does
    executed,  \* requests carried out, and how that ended
    kills,     \* the sessions that may be stopped
    daemonIs   \* "up", "fragile": it may start again, or "restarted"
session == <<at, left, events, buffer, timeUp, answer, told>>
daemon == <<queue, job, executed, daemonIs>>
calls == <<wants, orderly, kills>>
vars == <<calls, rows, session, daemon>>

Nothing == [to |-> "nobody"]   \* no row, no answer, no job
C(s) == wants[s].command
Port(s) == Head(left[s])
RequestOf(s, p) == [by |-> s, port |-> p]
Active(s) == at[s] \notin {"new", "ended"}
KeysIn(tables) == {k \in DOMAIN rows : <<k[1], k[2]>> \in tables}
Answers(name) == KeysIn({<<name, "rsp">>})
Drop(keys) == [k \in DOMAIN rows \ keys |-> rows[k]]
Put(f, k, x) == [j \in DOMAIN f \cup {k} |-> IF j = k THEN x ELSE f[j]]
Orders(S) == {q \in [1 .. Cardinality(S) -> S] : \A i, j \in DOMAIN q : q[i] = q[j] => i = j}

\* Who listens to the answers in a table is told of each that comes or goes.
Listens(s, name) == at[s] \in {"ask", "wait"} /\ C(s).name = name
Tell(ev, keys, op) ==
    [s \in Sessions |->
        LET order == CHOOSE q \in Orders({k \in keys : k[2] = "rsp" /\ Listens(s, k[1])}) : TRUE
        IN  ev[s] \o [i \in DOMAIN order |-> [port |-> order[i][3], op |-> op]]]

Init ==
    /\ \E c \in Scenarios : wants = c.wants /\ orderly = c.orderly /\ kills = c.kills /\ daemonIs = c.daemonIs
    /\ rows = [k \in {} |-> Nothing]
    /\ at = [s \in Sessions |-> "new"]
    /\ left = [s \in Sessions |-> wants[s].ports]
    /\ events = [s \in Sessions |-> <<>>] /\ buffer = [s \in Sessions |-> <<>>]
    /\ timeUp = [s \in Sessions |-> FALSE]
    /\ answer = [s \in Sessions |-> Nothing]
    /\ told = [s \in Sessions |-> [p \in {} |-> Nothing]]
    /\ queue = <<>> /\ job = Nothing /\ executed = {}
-----------------------------------------------------------------------------
(* a session *)

\* Mutant of Begin: nothing is deleted first.
BeginUncleared(s) ==
    /\ at[s] = "new" /\ (orderly => queue = <<>> /\ job = Nothing /\ ~\E t \in Sessions : Active(t))
    /\ LET keys == {} IN rows' = Drop(keys) /\ events' = Tell(events, keys, "del")
    /\ at' = [at EXCEPT ![s] = "open"]
    /\ UNCHANGED <<calls, left, buffer, timeUp, answer, told, daemon>>

\* Mutant of Begin: the arguments of an earlier command are not deleted.
BeginKeepsArgs(s) ==
    /\ at[s] = "new" /\ (orderly => queue = <<>> /\ job = Nothing /\ ~\E t \in Sessions : Active(t))
    /\ LET keys == KeysIn(C(s).before \ {<<C(s).name, "arg">>}) IN rows' = Drop(keys) /\ events' = Tell(events, keys, "del")
    /\ at' = [at EXCEPT ![s] = "open"]
    /\ UNCHANGED <<calls, left, buffer, timeUp, answer, told, daemon>>

Begin(s) ==
    /\ at[s] = "new" /\ (orderly => queue = <<>> /\ job = Nothing /\ ~\E t \in Sessions : Active(t))
    /\ LET keys == KeysIn(C(s).before) IN rows' = Drop(keys) /\ events' = Tell(events, keys, "del")
    /\ at' = [at EXCEPT ![s] = "open"]
    /\ UNCHANGED <<calls, left, buffer, timeUp, answer, told, daemon>>

\* The subscriber starts with the answers that are there; they are deleted after that.
Open(s) ==
    /\ at[s] = "open" /\ C(s).sweeps # "nothing"
    /\ LET there == Answers(C(s).name)
       IN  /\ \E q \in Orders(there) :
                /\ buffer' = [buffer EXCEPT ![s] = [i \in DOMAIN q |-> [port |-> q[i][3], row |-> rows[q[i]]]]]
                /\ events' = [Tell(events, there, "del") EXCEPT
                                  ![s] = [i \in DOMAIN q |-> [port |-> q[i][3], op |-> "del"]]]
           /\ rows' = Drop(there)
    /\ at' = [at EXCEPT ![s] = "ask"]
    /\ UNCHANGED <<calls, left, timeUp, answer, told, daemon>>

\* Arguments are set one by one on what the row has; then the request.
Ask(s) ==
    /\ at[s] = "ask"
    /\ LET p == Port(s)
           arg == <<C(s).name, "arg", p>>
           cmd == <<C(s).name, "cmd", p>>
           old == IF arg \in DOMAIN rows THEN rows[arg] ELSE [f \in {} |-> Nothing]
           given == [f \in C(s).params \cup DOMAIN old |-> IF f \in C(s).params THEN RequestOf(s, p) ELSE old[f]]
       IN  /\ rows' = Put(IF C(s).params = {} THEN rows ELSE Put(rows, arg, given), cmd, RequestOf(s, p))
           /\ queue' = Append(queue, cmd)
    /\ at' = [at EXCEPT ![s] = "wait"]
    /\ UNCHANGED <<calls, left, events, buffer, timeUp, answer, told, job, executed, daemonIs>>

\* In an orderly run only a daemon that will not answer lets the time pass.
TimeUp(s) ==
    /\ at[s] = "wait" /\ ~timeUp[s]
    /\ orderly => queue = <<>> /\ job = Nothing /\ events[s] = <<>> /\ buffer[s] = <<>>
    /\ timeUp' = [timeUp EXCEPT ![s] = TRUE]
    /\ UNCHANGED <<calls, rows, at, left, events, buffer, answer, told, daemon>>

\* Mutant of GiveUp: the time is looked at only when something has come.
GiveUpOnEvent(s) ==
    /\ at[s] = "wait" /\ timeUp[s] /\ events[s] # <<>>
    /\ at' = [at EXCEPT ![s] = "report"]
    /\ UNCHANGED <<calls, rows, left, events, buffer, timeUp, answer, told, daemon>>

\* The time is looked at before what has come.
GiveUp(s) ==
    /\ at[s] = "wait" /\ timeUp[s]
    /\ at' = [at EXCEPT ![s] = "report"]
    /\ UNCHANGED <<calls, rows, left, events, buffer, timeUp, answer, told, daemon>>

\* Those of the first n events that lead to something: an answer that is gone again does not.
Found(s, n) == {i \in 1 .. n : events[s][i].op = "del" \/ <<C(s).name, "rsp", events[s][i].port>> \in DOMAIN rows}
Item(s, e) == [port |-> e.port, row |-> IF e.op = "del" THEN Nothing ELSE rows[<<C(s).name, "rsp", e.port>>]]

\* All that can be popped: what is read already, or what some events lead to, in their order.
InOrder(S) == {q \in Orders(S) : \A i, j \in DOMAIN q : i < j => q[i] < q[j]}
Popped(s) ==
    IF buffer[s] # <<>> THEN {[items |-> buffer[s], rest |-> events[s]]}
    ELSE UNION {{[items |-> [i \in DOMAIN q |-> Item(s, events[s][q[i]])], rest |-> SubSeq(events[s], n + 1, Len(events[s]))] :
                    q \in InOrder(Found(s, n))} : n \in 1 .. Len(events[s])}

\* Of an answer for another port the command deletes its own, and goes on waiting.
Pop(s) ==
    /\ at[s] = "wait" /\ ~timeUp[s]
    /\ \E x \in Popped(s) :
         LET p == Port(s)
             none == x.items = <<>>
             other == ~none /\ Head(x.items).port # p
             gone == IF other THEN {<<C(s).name, "rsp", p>>} \cap DOMAIN rows ELSE Answers(C(s).name)
         IN  /\ answer' = [answer EXCEPT ![s] = IF none \/ other THEN Nothing ELSE Head(x.items).row]
             /\ buffer' = [buffer EXCEPT ![s] = IF none THEN <<>> ELSE Tail(x.items)]
             /\ rows' = Drop(gone)
             /\ events' = Tell([events EXCEPT ![s] = x.rest], gone, "del")
             /\ at' = [at EXCEPT ![s] = IF other THEN "wait" ELSE "report"]
    /\ UNCHANGED <<calls, left, timeUp, told, daemon>>

\* What was read goes with the answer of a "show"; then the tables are cleared.
Report(s) ==
    /\ at[s] = "report" \/ (at[s] = "open" /\ C(s).sweeps = "nothing")
    /\ LET p == Port(s)
           key == <<C(s).name, "res", p>>
           positive == answer[s] # Nothing /\ answer[s].ok
           taken == C(s).res /\ (C(s).always \/ positive) /\ key \in DOMAIN rows
           last == Len(left[s]) = 1
           cleared == IF C(s).sweeps = "last" /\ ~last THEN {} ELSE KeysIn(C(s).after)
       IN  /\ told' = [told EXCEPT ![s] =
                  Put(@, p, [reply |-> answer[s], data |-> IF taken THEN rows[key] ELSE Nothing,
                             success |-> IF C(s).ok = "any" THEN answer[s] # Nothing ELSE positive])]
           /\ rows' = Drop(cleared)
           /\ events' = [Tell(events, cleared, "del") EXCEPT ![s] = <<>>]
           /\ left' = [left EXCEPT ![s] = Tail(@)]
           /\ at' = [at EXCEPT ![s] = IF last THEN "ended" ELSE "open"]
    /\ buffer' = [buffer EXCEPT ![s] = <<>>]
    /\ answer' = [answer EXCEPT ![s] = Nothing] /\ timeUp' = [timeUp EXCEPT ![s] = FALSE]
    /\ UNCHANGED <<calls, daemon>>

\* The user declines, or stops the command: the tables stay as they are.
Kill(s) ==
    /\ Active(s) /\ s \in kills
    /\ at' = [at EXCEPT ![s] = "ended"]
    /\ events' = [events EXCEPT ![s] = <<>>] /\ buffer' = [buffer EXCEPT ![s] = <<>>]
    /\ left' = [left EXCEPT ![s] = <<>>]
    /\ answer' = [answer EXCEPT ![s] = Nothing] /\ timeUp' = [timeUp EXCEPT ![s] = FALSE]
    /\ UNCHANGED <<calls, rows, told, daemon>>
-----------------------------------------------------------------------------
(* the daemon: one request at a time, in the order of the changes *)

Take ==
    /\ job = Nothing /\ queue # <<>>
    /\ queue' = Tail(queue)
    /\ LET k == Head(queue)
           arg == <<k[1], "arg", k[3]>>
       IN  job' = IF k \in DOMAIN rows
                  THEN [name |-> k[1], port |-> k[3], to |-> rows[k], ok |-> {},
                        args |-> IF arg \in DOMAIN rows THEN rows[arg] ELSE [f \in {} |-> Nothing]]
                  ELSE Nothing
    /\ UNCHANGED <<calls, rows, session, executed, daemonIs>>

\* What it has read is there before the answer is.
Execute ==
    /\ job # Nothing /\ job.ok = {}
    /\ \E ok \in BOOLEAN :
         /\ job' = [job EXCEPT !.ok = {ok}]
         /\ executed' = executed \cup {[to |-> job.to, ok |-> ok, args |-> job.args]}
         /\ rows' = IF C(job.to.by).res THEN Put(rows, <<job.name, "res", job.port>>, job.to) ELSE rows
    /\ UNCHANGED <<calls, session, queue, daemonIs>>

Answer ==
    /\ job # Nothing /\ job.ok # {}
    /\ LET k == <<job.name, "rsp", job.port>>
           row == [to |-> job.to, ok |-> TRUE \in job.ok, during |-> {s \in Sessions : Active(s)}]
       IN  rows' = Put(rows, k, row) /\ events' = Tell(events, {k}, "set")
    /\ job' = Nothing
    /\ UNCHANGED <<calls, at, left, buffer, timeUp, answer, told, queue, executed, daemonIs>>

\* It does not answer for a port that has no such cable.
Decline ==
    /\ job # Nothing /\ job.ok = {}
    /\ job' = Nothing
    /\ UNCHANGED <<calls, rows, session, queue, executed, daemonIs>>

\* A daemon that starts reads the requests that are there.
Restart ==
    /\ daemonIs = "fragile" /\ daemonIs' = "restarted"
    /\ queue' \in Orders({k \in DOMAIN rows : k[2] = "cmd"})
    /\ job' = Nothing
    /\ UNCHANGED <<calls, rows, session, executed>>
-----------------------------------------------------------------------------
Step(s) == Open(s) \/ Ask(s) \/ GiveUp(s) \/ Pop(s) \/ Report(s)
Next ==
    \/ \E s \in Sessions : Begin(s) \/ Step(s) \/ TimeUp(s) \/ Kill(s)
    \/ Take \/ Execute \/ Answer \/ Decline \/ Restart

\* A session runs, the daemon may stop, and time passes.
Spec == Init /\ [][Next]_vars /\ \A s \in Sessions : WF_vars(Step(s)) /\ WF_vars(TimeUp(s))
-----------------------------------------------------------------------------
Killed(s) == at[s] = "ended" /\ \E i \in DOMAIN wants[s].ports : wants[s].ports[i] \notin DOMAIN told[s]
Heard(s, p) == p \in DOMAIN told[s] /\ told[s][p].reply # Nothing

\* Whatever other sessions do, and however late the daemon is, what a command
\* reports of a port was answered for that port, in its table, and since the
\* command began: what an earlier command left is not taken for an answer.
ReplyIsRecent ==
    \A s \in Sessions, p \in MuxPorts :
        Heard(s, p) => LET r == told[s][p].reply
                       IN  s \in r.during /\ r.to.port = p /\ C(r.to.by).name = C(s).name

AnswersOwn ==
    /\ \A s \in Sessions, p \in MuxPorts :
         /\ Heard(s, p) => told[s][p].reply.to = RequestOf(s, p)
         /\ Heard(s, p) /\ told[s][p].success /\ C(s).ok # "any" =>
                \E e \in executed : e.to = RequestOf(s, p) /\ e.ok
         /\ p \in DOMAIN told[s] /\ told[s][p].data # Nothing => told[s][p].data = RequestOf(s, p)
    /\ \A e \in executed : C(e.to.by).arg => e.args = [f \in C(e.to.by).params |-> e.to]

NothingMissed ==
    /\ \A s \in Sessions, p \in MuxPorts :
         p \in DOMAIN told[s] /\ ~Heard(s, p) => ~\E e \in executed : e.to = RequestOf(s, p)
    /\ (\A s \in Sessions : at[s] = "ended" /\ ~Killed(s)) =>
         KeysIn({tbl \in UNION {C(s).after : s \in Sessions} : \A s \in Sessions : tbl \in C(s).after}) = {}

\* One command at a time and a daemon that answers in time: a command reports
\* the answer to its own request, carried out with its own arguments, and shows
\* what was read for it, after commands that were stopped half way too.  If the
\* daemon has not restarted, a command does not miss an answer, and leaves
\* nothing in the tables that both clear.
OwnReply == orderly => AnswersOwn /\ (daemonIs = "up" => NothingMissed)

\* A command ends, whether the daemon answers, is late, or is not there.
CommandEnds == \A s \in Sessions : ~orderly /\ Active(s) ~> at[s] = "ended"
=============================================================================
