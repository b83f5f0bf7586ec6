-------------------------- MODULE MuxSessions_proofs --------------------------
(***************************************************************************)
(* ReplyIsRecent and OwnReply for any number of sessions and ports and any     *)
(* commands: a session deletes the answers of its table when it begins, and    *)
(* what comes after that was answered while it ran; when one command runs at a *)
(* time, its tables hold nothing but its own, and the daemon takes turns with it. *)
(***************************************************************************)
EXTENDS MuxSessions, FiniteSetTheorems, TLAPS

\* A sequence, whatever its elements are.
Listed(q) == \E S : q \in Seq(S)
Total(f) == f = [s \in Sessions |-> f[s]]

Fits(r, name, p) == r.port = p /\ C(r.by).name = name
\* An answer in s's table for port p, given while s ran.
Recent(s, r, p) == s \in r.during /\ Fits(r.to, C(s).name, p)

TypeInv ==
    /\ Total(at) /\ Total(left) /\ Total(buffer) /\ Total(answer) /\ Total(told)
    /\ IsFiniteSet(DOMAIN rows)
    /\ \A s \in Sessions : Listed(buffer[s])
    /\ Listed(queue)

\* What a row is about agrees with its key.
RowsFit ==
    \A k \in DOMAIN rows : /\ k[2] = "cmd" => Fits(rows[k], k[1], k[3])
                           /\ k[2] = "rsp" => Fits(rows[k].to, k[1], k[3])
\* No answer in the table of a session that runs is older than the session.
RowsRecent ==
    \A s \in Sessions, k \in DOMAIN rows :
        Active(s) /\ k[1] = C(s).name /\ k[2] = "rsp" => s \in rows[k].during
\* The daemon reads requests, and answers what it was asked.
DaemonFits ==
    /\ \A i \in DOMAIN queue : queue[i][2] = "cmd"
    /\ job # Nothing => {"name", "port", "to"} \subseteq DOMAIN job /\ Fits(job.to, job.name, job.port)
\* What a session has read and not yet reported.
HeldRecent ==
    \A s \in Sessions :
        /\ \A i \in DOMAIN buffer[s] :
             buffer[s][i].row # Nothing => Recent(s, buffer[s][i].row, buffer[s][i].port)
        /\ answer[s] # Nothing => Recent(s, answer[s], Port(s))
ToldRecent ==
    \A s \in Sessions : \A p \in DOMAIN told[s] :
        told[s][p].reply # Nothing => Recent(s, told[s][p].reply, p)
Clears == \A s \in Sessions : <<C(s).name, "rsp">> \in C(s).before

Inv == TypeInv /\ RowsFit /\ RowsRecent /\ DaemonFits /\ HeldRecent /\ ToldRecent /\ Clears

-----------------------------------------------------------------------------
LEMMA EmptyListed == Listed(<<>>)
<1>1. <<>> \in Seq({})
  OBVIOUS
<1> QED
  BY <1>1 DEF Listed

\* The first element of a list and the others.
LEMMA HeadTail ==
    ASSUME NEW q, Listed(q), q # <<>>
    PROVE  /\ Head(q) = q[1] /\ 1 \in DOMAIN q
           /\ Listed(Tail(q))
           /\ \A i \in DOMAIN Tail(q) : i + 1 \in DOMAIN q /\ Tail(q)[i] = q[i + 1]
<1>1. PICK S : q \in Seq(S)
  BY DEF Listed
<1>2. Tail(q) \in Seq(S) /\ Len(Tail(q)) = Len(q) - 1 /\ Len(q) \in Nat \ {0}
  BY <1>1
<1>3. DOMAIN q = 1 .. Len(q) /\ DOMAIN Tail(q) = 1 .. Len(q) - 1
  BY <1>1, <1>2
<1>4. \A i \in 1 .. Len(q) - 1 : Tail(q)[i] = q[i + 1]
  BY <1>1, <1>2
<1>5. Listed(Tail(q))
  BY <1>2 DEF Listed
<1> QED
  BY <1>1, <1>2, <1>3, <1>4, <1>5

LEMMA AppendListed ==
    ASSUME NEW q, Listed(q), NEW e
    PROVE  /\ Listed(Append(q, e))
           /\ \A i \in DOMAIN Append(q, e) :
                  (i \in DOMAIN q /\ Append(q, e)[i] = q[i]) \/ Append(q, e)[i] = e
<1>1. PICK R : q \in Seq(R)
  BY DEF Listed
<1> DEFINE S == R \cup {e}
<1>2. q \in Seq(S) /\ e \in S
  BY <1>1
<1>3. /\ Append(q, e) \in Seq(S) /\ Len(Append(q, e)) = Len(q) + 1 /\ Len(q) \in Nat
      /\ Append(q, e)[Len(q) + 1] = e /\ \A i \in 1 .. Len(q) : Append(q, e)[i] = q[i]
  BY <1>2
<1>4. DOMAIN q = 1 .. Len(q) /\ DOMAIN Append(q, e) = 1 .. Len(q) + 1
  BY <1>2, <1>3
<1>5. Listed(Append(q, e))
  BY <1>3 DEF Listed
<1> QED
  BY <1>3, <1>4, <1>5

\* The orders of a finite set.
LEMMA OrdersListed ==
    ASSUME NEW S, IsFiniteSet(S), NEW q \in Orders(S)
    PROVE  /\ Listed(q) /\ \E n \in Nat : DOMAIN q = 1 .. n
           /\ \A i \in DOMAIN q : q[i] \in S
<1>1. q \in [1 .. Cardinality(S) -> S]
  BY DEF Orders
<1>2. Cardinality(S) \in Nat
  BY FS_CardinalityType
<1>3. q \in Seq(S) /\ DOMAIN q = 1 .. Cardinality(S)
  BY <1>1, <1>2
<1> QED
  BY <1>1, <1>2, <1>3 DEF Listed

-----------------------------------------------------------------------------
LEMMA InitHolds == Init => Inv
<1> SUFFICES ASSUME Init PROVE Inv
  OBVIOUS
<1>1. PICK c \in Scenarios : wants = c.wants
  BY DEF Init
<1>2. Clears
  BY <1>1, CommandsAssumption DEF Clears, C
<1>3. DOMAIN rows = {} /\ IsFiniteSet(DOMAIN rows)
  BY FS_EmptySet DEF Init
<1>4. TypeInv
  BY <1>3, EmptyListed DEF Init, TypeInv, Total
<1>5. RowsFit /\ RowsRecent
  BY <1>3 DEF RowsFit, RowsRecent
<1>6. DaemonFits /\ HeldRecent /\ ToldRecent
  BY DEF Init, DaemonFits, HeldRecent, ToldRecent
<1> QED
  BY <1>2, <1>4, <1>5, <1>6 DEF Inv

\* Fewer rows, and no session that starts to run.
LEMMA DropKeeps ==
    ASSUME Inv, wants' = wants, NEW keys, rows' = Drop(keys),
           \A s \in Sessions : Active(s)' => Active(s)
    PROVE  IsFiniteSet(DOMAIN rows') /\ RowsFit' /\ RowsRecent'
<1>1. DOMAIN rows' \subseteq DOMAIN rows /\ \A k \in DOMAIN rows' : rows'[k] = rows[k]
  BY DEF Drop
<1>2. IsFiniteSet(DOMAIN rows')
  BY <1>1, FS_Subset DEF Inv, TypeInv
<1>3. RowsFit'
  BY <1>1 DEF Inv, RowsFit, Fits, C
<1>4. RowsRecent'
  BY <1>1 DEF Inv, RowsRecent, C
<1> QED
  BY <1>2, <1>3, <1>4

LEMMA BeginKeeps == ASSUME Inv, NEW s \in Sessions, Begin(s) PROVE Inv'
<1> DEFINE keys == KeysIn(C(s).before)
<1>1. rows' = Drop(keys) /\ wants' = wants
  BY DEF Begin, calls
<1>2. DOMAIN rows' \subseteq DOMAIN rows \ keys /\ \A k \in DOMAIN rows' : rows'[k] = rows[k]
  BY <1>1 DEF Drop
<1> HIDE DEF keys
<1>3. at' = [at EXCEPT ![s] = "open"] /\ Total(at)
  BY DEF Begin, Inv, TypeInv
<1>4. TypeInv'
  <2>1. IsFiniteSet(DOMAIN rows')
    BY <1>2, FS_Subset DEF Inv, TypeInv
  <2> QED
    BY <2>1, <1>3 DEF Begin, daemon, Inv, TypeInv, Total
<1>5. RowsFit'
  BY <1>1, <1>2 DEF Inv, RowsFit, Fits, C
<1>6. RowsRecent'
  <2> SUFFICES ASSUME NEW t \in Sessions, NEW k \in DOMAIN rows',
                      Active(t)', k[1] = C(t).name, k[2] = "rsp"
               PROVE  t \in rows[k].during
    BY <1>1, <1>2 DEF RowsRecent, C
  <2>1. CASE t = s
    <3>1. <<k[1], k[2]>> \in C(s).before
      BY <2>1 DEF Inv, Clears
    <3>2. k \in keys
      BY <3>1, <1>2 DEF keys, KeysIn
    <3> QED
      BY <3>2, <1>2
  <2>2. CASE t # s
    <3>1. Active(t)
      BY <2>2, <1>3 DEF Active, Total
    <3> QED
      BY <3>1, <1>2 DEF Inv, RowsRecent
  <2> QED
    BY <2>1, <2>2
<1>7. DaemonFits' /\ HeldRecent' /\ ToldRecent' /\ Clears'
  BY <1>1 DEF Begin, calls, daemon, Inv, DaemonFits, HeldRecent, ToldRecent, Clears, Recent, Fits, C, Port
<1> QED
  BY <1>4, <1>5, <1>6, <1>7 DEF Inv

LEMMA OpenKeeps == ASSUME Inv, NEW s \in Sessions, Open(s) PROVE Inv'
<1> DEFINE there == Answers(C(s).name)
<1>1. /\ rows' = Drop(there) /\ wants' = wants
      /\ at' = [at EXCEPT ![s] = "ask"] /\ Active(s)
      /\ UNCHANGED <<left, answer, told, queue, job>>
  BY DEF Open, calls, daemon, Active
<1>2. PICK q \in Orders(there) :
        buffer' = [buffer EXCEPT ![s] = [i \in DOMAIN q |-> [port |-> q[i][3], row |-> rows[q[i]]]]]
  BY DEF Open
<1>3. IsFiniteSet(there) /\ \A k \in there : k \in DOMAIN rows /\ k[1] = C(s).name /\ k[2] = "rsp"
  BY FS_Subset DEF Inv, TypeInv, Answers, KeysIn
<1> HIDE DEF there
<1>4. \A t \in Sessions : Active(t)' => Active(t)
  BY <1>1 DEF Inv, TypeInv, Total, Active
<1>5. (\E n \in Nat : DOMAIN q = 1 .. n) /\ \A i \in DOMAIN q : q[i] \in there
  BY <1>3, OrdersListed
<1>6. IsFiniteSet(DOMAIN rows') /\ RowsFit' /\ RowsRecent'
  BY <1>1, <1>4, DropKeeps
<1>7. TypeInv'
  <2>1. Listed(buffer'[s])
    <3> DEFINE read == [i \in DOMAIN q |-> [port |-> q[i][3], row |-> rows[q[i]]]]
    <3>1. buffer'[s] = read
      BY <1>2 DEF Inv, TypeInv, Total
    <3>2. read \in Seq({[port |-> q[i][3], row |-> rows[q[i]]] : i \in DOMAIN q})
      BY <1>5
    <3> HIDE DEF read
    <3> QED
      BY <3>1, <3>2 DEF Listed
  <2> QED
    BY <1>1, <1>2, <1>6, <2>1 DEF Inv, TypeInv, Total
<1>8. HeldRecent'
  <2>1. \A t \in Sessions : Recent(t, answer[t], Port(t))' <=> Recent(t, answer[t], Port(t))
    BY <1>1 DEF Recent, Fits, C, Port
  <2>2. ASSUME NEW i \in DOMAIN buffer'[s]
        PROVE  Recent(s, buffer'[s][i].row, buffer'[s][i].port)
    <3>1. i \in DOMAIN q /\ buffer'[s][i] = [port |-> q[i][3], row |-> rows[q[i]]]
      BY <1>2 DEF Inv, TypeInv, Total
    <3>2. q[i] \in DOMAIN rows /\ q[i][1] = C(s).name /\ q[i][2] = "rsp"
      BY <3>1, <1>3, <1>5
    <3> QED
      BY <3>1, <3>2, <1>1 DEF Inv, RowsFit, RowsRecent, Recent, Fits
  <2>3. \A t \in Sessions \ {s} : buffer'[t] = buffer[t]
    BY <1>2 DEF Inv, TypeInv, Total
  <2> QED
    BY <1>1, <2>1, <2>2, <2>3 DEF Inv, HeldRecent, Recent, Fits, C
<1>9. DaemonFits' /\ ToldRecent' /\ Clears'
  BY <1>1 DEF Inv, DaemonFits, ToldRecent, Clears, Recent, Fits, C
<1> QED
  BY <1>6, <1>7, <1>8, <1>9 DEF Inv

LEMMA AskKeeps == ASSUME Inv, NEW s \in Sessions, Ask(s) PROVE Inv'
<1> DEFINE arg == <<C(s).name, "arg", Port(s)>>
           cmd == <<C(s).name, "cmd", Port(s)>>
<1>1. /\ at' = [at EXCEPT ![s] = "wait"] /\ wants' = wants /\ Active(s)
      /\ UNCHANGED <<left, buffer, answer, told, job>>
      /\ queue' = Append(queue, cmd)
  BY DEF Ask, calls, Active
<1>2. PICK given :
        rows' = Put(IF C(s).params = {} THEN rows ELSE Put(rows, arg, given), cmd, RequestOf(s, Port(s)))
  BY DEF Ask
<1>3. /\ DOMAIN rows' \subseteq DOMAIN rows \cup {cmd, arg}
      /\ \A k \in DOMAIN rows' \ {cmd, arg} : rows'[k] = rows[k]
      /\ rows'[cmd] = RequestOf(s, Port(s))
  BY <1>2 DEF Put
<1>4. IsFiniteSet(DOMAIN rows')
  <2>1. IsFiniteSet({cmd, arg})
    <3> HIDE DEF cmd, arg
    <3>1. {cmd, arg} = {cmd} \cup {arg}
      OBVIOUS
    <3>2. IsFiniteSet({cmd}) /\ IsFiniteSet({arg})
      BY FS_Singleton
    <3> QED
      BY <3>1, <3>2, FS_Union
  <2> QED
    BY <2>1, <1>3, FS_Union, FS_Subset DEF Inv, TypeInv
<1>5. TypeInv'
  BY <1>1, <1>4, AppendListed DEF Inv, TypeInv, Total
<1>6. RowsFit'
  <2> SUFFICES ASSUME NEW k \in DOMAIN rows'
               PROVE  /\ k[2] = "cmd" => Fits(rows'[k], k[1], k[3])
                      /\ k[2] = "rsp" => Fits(rows'[k].to, k[1], k[3])
    BY <1>1 DEF RowsFit, Fits, C
  <2>1. CASE k = cmd
    BY <2>1, <1>3 DEF Fits, RequestOf
  <2>2. CASE k = arg
    BY <2>2
  <2>3. CASE k \notin {cmd, arg}
    BY <2>3, <1>3 DEF Inv, RowsFit
  <2> QED
    BY <2>1, <2>2, <2>3
<1>7. RowsRecent'
  <2>1. \A t \in Sessions : Active(t)' => Active(t)
    BY <1>1 DEF Inv, TypeInv, Total, Active
  <2>2. \A k \in DOMAIN rows' : k[2] = "rsp" => k \in DOMAIN rows /\ rows'[k] = rows[k]
    BY <1>3
  <2> QED
    BY <1>1, <2>1, <2>2 DEF Inv, RowsRecent, C
<1>8. DaemonFits'
  <2>1. \A i \in DOMAIN queue' : queue'[i][2] = "cmd"
    BY <1>1, AppendListed DEF Inv, TypeInv, DaemonFits
  <2> QED
    BY <1>1, <2>1 DEF Inv, DaemonFits, Fits, C
<1>9. HeldRecent' /\ ToldRecent' /\ Clears'
  BY <1>1 DEF Inv, HeldRecent, ToldRecent, Clears, Recent, Fits, C, Port
<1> QED
  BY <1>5, <1>6, <1>7, <1>8, <1>9 DEF Inv

\* A time limit that passes, or that the session sees to have passed.
LEMMA TimeKeeps == ASSUME Inv, NEW s \in Sessions, TimeUp(s) \/ GiveUp(s) PROVE Inv'
<1>1. /\ UNCHANGED <<wants, rows, left, buffer, answer, told, queue, job>>
      /\ at' = at \/ (Active(s) /\ at' = [at EXCEPT ![s] = "report"])
  BY DEF TimeUp, GiveUp, calls, daemon, Active
<1>2. Total(at)' /\ \A t \in Sessions : Active(t)' => Active(t)
  BY <1>1 DEF Inv, TypeInv, Total, Active
<1>3. TypeInv' /\ RowsFit' /\ RowsRecent'
  BY <1>1, <1>2 DEF Inv, TypeInv, RowsFit, RowsRecent, Total, Fits, C
<1>4. DaemonFits' /\ HeldRecent' /\ ToldRecent' /\ Clears'
  BY <1>1 DEF Inv, DaemonFits, HeldRecent, ToldRecent, Clears, Recent, Fits, C, Port
<1> QED
  BY <1>3, <1>4 DEF Inv

\* What is popped was read before, or is read now from the rows.
LEMMA PoppedFits ==
    ASSUME Inv, NEW s \in Sessions, Active(s), NEW x \in Popped(s)
    PROVE  /\ Listed(x.items)
           /\ \A i \in DOMAIN x.items :
                 x.items[i].row # Nothing => Recent(s, x.items[i].row, x.items[i].port)
<1>1. CASE buffer[s] # <<>>
  BY <1>1 DEF Popped, Inv, TypeInv, HeldRecent
<1>2. CASE buffer[s] = <<>>
  <2>1. PICK n \in 1 .. Len(events[s]) : \E q \in InOrder(Found(s, n)) :
            x.items = [i \in DOMAIN q |-> Item(s, events[s][q[i]])]
    BY <1>2 DEF Popped
  <2>2. PICK q \in InOrder(Found(s, n)) : x.items = [i \in DOMAIN q |-> Item(s, events[s][q[i]])]
    BY <2>1
  <2>3. IsFiniteSet(Found(s, n))
    <3>1. IsFiniteSet(1 .. n)
      BY FS_Interval
    <3> QED
      BY <3>1, FS_Subset DEF Found
  <2>4. (\E m \in Nat : DOMAIN q = 1 .. m) /\ \A i \in DOMAIN q : q[i] \in Found(s, n)
    BY <2>3, OrdersListed DEF InOrder
  <2>5. Listed(x.items)
    <3> DEFINE read == [i \in DOMAIN q |-> Item(s, events[s][q[i]])]
    <3>1. read \in Seq({Item(s, events[s][q[i]]) : i \in DOMAIN q})
      BY <2>4
    <3> QED
      BY <2>2, <3>1 DEF Listed
  <2>6. ASSUME NEW i \in DOMAIN x.items, x.items[i].row # Nothing
        PROVE  Recent(s, x.items[i].row, x.items[i].port)
    <3> DEFINE e == events[s][q[i]]
               key == <<C(s).name, "rsp", e.port>>
    <3>1. q[i] \in Found(s, n) /\ x.items[i] = Item(s, e)
      BY <2>2, <2>4
    <3>2. key \in DOMAIN rows /\ x.items[i].row = rows[key] /\ x.items[i].port = e.port
      BY <2>6, <3>1 DEF Found, Item
    <3>3. key[1] = C(s).name /\ key[2] = "rsp" /\ key[3] = e.port
      OBVIOUS
    <3> HIDE DEF key, e
    <3> QED
      BY <3>2, <3>3 DEF Inv, RowsFit, RowsRecent, Recent, Fits
  <2> QED
    BY <2>5, <2>6
<1> QED
  BY <1>1, <1>2

LEMMA PopKeeps == ASSUME Inv, NEW s \in Sessions, Pop(s) PROVE Inv'
<1>1. PICK x \in Popped(s) :
        LET p == Port(s)
            none == x.items = <<>>
            other == ~none /\ Head(x.items).port # p
            gone == IF other THEN {<<C(s).name, "rsp", p>>} \cap DOMAIN rows ELSE Answers(C(s).name)
        IN  /\ answer' = [answer EXCEPT ![s] = IF none \/ other THEN Nothing ELSE Head(x.items).row]
            /\ buffer' = [buffer EXCEPT ![s] = IF none THEN <<>> ELSE Tail(x.items)]
            /\ rows' = Drop(gone)
            /\ at' = [at EXCEPT ![s] = IF other THEN "wait" ELSE "report"]
  BY DEF Pop
<1>2. UNCHANGED <<wants, left, told, queue, job>> /\ Active(s)
  BY DEF Pop, calls, daemon, Active
<1>3. \A t \in Sessions : Active(t)' => Active(t)
  BY <1>1, <1>2 DEF Inv, TypeInv, Total, Active
<1>4. \E keys : rows' = Drop(keys)
  BY <1>1
<1>5. IsFiniteSet(DOMAIN rows') /\ RowsFit' /\ RowsRecent'
  BY <1>2, <1>3, <1>4, DropKeeps
<1>6. /\ Listed(x.items)
      /\ \A i \in DOMAIN x.items :
            x.items[i].row # Nothing => Recent(s, x.items[i].row, x.items[i].port)
  BY <1>2, PoppedFits
<1>7. /\ Total(answer)' /\ Total(buffer)' /\ Total(at)'
      /\ \A t \in Sessions \ {s} : answer'[t] = answer[t] /\ buffer'[t] = buffer[t]
  BY <1>1 DEF Inv, TypeInv, Total
<1>8. CASE x.items = <<>>
  <2>1. answer'[s] = Nothing /\ buffer'[s] = <<>>
    BY <1>1, <1>8 DEF Inv, TypeInv, Total
  <2>2. TypeInv'
    BY <1>2, <1>5, <1>7, <2>1, EmptyListed DEF Inv, TypeInv, Total
  <2>3. HeldRecent'
    BY <1>2, <1>7, <2>1 DEF Inv, HeldRecent, Recent, Fits, C, Port
  <2> QED
    BY <1>2, <1>5, <2>2, <2>3 DEF Inv, DaemonFits, ToldRecent, Clears, Recent, Fits, C
<1>9. CASE x.items # <<>>
  <2>1. /\ Head(x.items) = x.items[1] /\ 1 \in DOMAIN x.items
        /\ Listed(Tail(x.items))
        /\ \A i \in DOMAIN Tail(x.items) :
              i + 1 \in DOMAIN x.items /\ Tail(x.items)[i] = x.items[i + 1]
    BY <1>6, <1>9, HeadTail
  <2>2. buffer'[s] = Tail(x.items)
    BY <1>1, <1>9 DEF Inv, TypeInv, Total
  <2>3. answer'[s] # Nothing => answer'[s] = x.items[1].row /\ x.items[1].port = Port(s)
    BY <1>1, <1>9, <2>1 DEF Inv, TypeInv, Total
  <2>4. TypeInv'
    BY <1>2, <1>5, <1>7, <2>1, <2>2 DEF Inv, TypeInv, Total
  <2>5. \A i \in DOMAIN buffer'[s] :
            buffer'[s][i].row # Nothing => Recent(s, buffer'[s][i].row, buffer'[s][i].port)
    BY <1>6, <2>1, <2>2
  <2>6. answer'[s] # Nothing => Recent(s, answer'[s], Port(s))
    BY <1>6, <2>1, <2>3
  <2>7. HeldRecent'
    BY <1>2, <1>7, <2>5, <2>6 DEF Inv, HeldRecent, Recent, Fits, C, Port
  <2> QED
    BY <1>2, <1>5, <2>4, <2>7 DEF Inv, DaemonFits, ToldRecent, Clears, Recent, Fits, C
<1> QED
  BY <1>8, <1>9

LEMMA ReportKeeps == ASSUME Inv, NEW s \in Sessions, Report(s) PROVE Inv'
<1>1. /\ UNCHANGED <<wants, queue, job>> /\ Active(s)
      /\ buffer' = [buffer EXCEPT ![s] = <<>>] /\ answer' = [answer EXCEPT ![s] = Nothing]
      /\ left' = [left EXCEPT ![s] = Tail(left[s])]
      /\ \E pc : at' = [at EXCEPT ![s] = pc]
      /\ \E keys : rows' = Drop(keys)
  BY DEF Report, calls, daemon, Active, Inv, TypeInv, Total
<1>2. PICK data, success :
        told' = [told EXCEPT ![s] = Put(told[s], Port(s), [reply |-> answer[s], data |-> data, success |-> success])]
  BY DEF Report, Inv, TypeInv, Total
<1>3. \A t \in Sessions : Active(t)' => Active(t)
  BY <1>1 DEF Inv, TypeInv, Total, Active
<1>4. IsFiniteSet(DOMAIN rows') /\ RowsFit' /\ RowsRecent'
  BY <1>1, <1>3, DropKeeps
<1>5. TypeInv'
  BY <1>1, <1>2, <1>4, EmptyListed DEF Inv, TypeInv, Total
<1>6. HeldRecent'
  <2>1. \A t \in Sessions \ {s} : /\ buffer'[t] = buffer[t] /\ answer'[t] = answer[t]
                                  /\ left'[t] = left[t]
    BY <1>1 DEF Inv, TypeInv, Total
  <2>2. buffer'[s] = <<>> /\ answer'[s] = Nothing
    BY <1>1 DEF Inv, TypeInv, Total
  <2> QED
    BY <1>1, <2>1, <2>2 DEF Inv, HeldRecent, Recent, Fits, C, Port
<1>7. ToldRecent'
  <2> SUFFICES ASSUME NEW t \in Sessions, NEW p \in DOMAIN told'[t], told'[t][p].reply # Nothing
               PROVE  Recent(t, told'[t][p].reply, p)
    BY <1>1 DEF ToldRecent, Recent, Fits, C
  <2>1. CASE t = s /\ p = Port(s)
    <3>1. told'[t][p].reply = answer[s]
      BY <1>2, <2>1 DEF Put, Inv, TypeInv, Total
    <3> QED
      BY <2>1, <3>1 DEF Inv, HeldRecent
  <2>2. CASE ~(t = s /\ p = Port(s))
    <3>1. p \in DOMAIN told[t] /\ told'[t][p] = told[t][p]
      BY <1>2, <2>2 DEF Put, Inv, TypeInv, Total
    <3> QED
      BY <3>1 DEF Inv, ToldRecent
  <2> QED
    BY <2>1, <2>2
<1> QED
  BY <1>1, <1>4, <1>5, <1>6, <1>7 DEF Inv, DaemonFits, Clears, Fits, C

LEMMA KillKeeps == ASSUME Inv, NEW s \in Sessions, Kill(s) PROVE Inv'
<1>1. /\ UNCHANGED <<wants, rows, told, queue, job>> /\ Active(s)
      /\ buffer' = [buffer EXCEPT ![s] = <<>>] /\ answer' = [answer EXCEPT ![s] = Nothing]
      /\ left' = [left EXCEPT ![s] = <<>>]
      /\ at' = [at EXCEPT ![s] = "ended"]
  BY DEF Kill, calls, daemon
<1>2. TypeInv'
  BY <1>1, EmptyListed DEF Inv, TypeInv, Total
<1>3. \A t \in Sessions : Active(t)' => Active(t)
  BY <1>1 DEF Inv, TypeInv, Total, Active
<1>4. RowsFit' /\ RowsRecent'
  BY <1>1, <1>3 DEF Inv, RowsFit, RowsRecent, Fits, C
<1>5. HeldRecent'
  <2>1. \A t \in Sessions \ {s} : /\ buffer'[t] = buffer[t] /\ answer'[t] = answer[t]
                                  /\ left'[t] = left[t]
    BY <1>1 DEF Inv, TypeInv, Total
  <2>2. buffer'[s] = <<>> /\ answer'[s] = Nothing
    BY <1>1 DEF Inv, TypeInv, Total
  <2> QED
    BY <1>1, <2>1, <2>2 DEF Inv, HeldRecent, Recent, Fits, C, Port
<1> QED
  BY <1>1, <1>2, <1>4, <1>5 DEF Inv, DaemonFits, ToldRecent, Clears, Recent, Fits, C

-----------------------------------------------------------------------------
\* A step of the daemon leaves the sessions alone, except for what they are told of.
LEMMA DaemonFrame ==
    ASSUME Inv, UNCHANGED <<wants, at, left, buffer, answer, told>>
    PROVE  HeldRecent' /\ ToldRecent' /\ Clears' /\ \A s \in Sessions : Active(s)' <=> Active(s)
BY DEF Inv, HeldRecent, ToldRecent, Clears, Recent, Fits, C, Port, Active

LEMMA TakeKeeps == ASSUME Inv, Take PROVE Inv'
<1>1. /\ UNCHANGED <<wants, at, left, buffer, answer, told, rows>>
      /\ queue # <<>> /\ queue' = Tail(queue)
  BY DEF Take, calls, session
<1>2. Listed(queue') /\ \A i \in DOMAIN queue' : queue'[i][2] = "cmd"
  BY <1>1, HeadTail DEF Inv, TypeInv, DaemonFits
<1>3. Head(queue)[2] = "cmd"
  BY <1>1, HeadTail DEF Inv, TypeInv, DaemonFits
<1>4. job' # Nothing => {"name", "port", "to"} \subseteq DOMAIN job' /\ Fits(job'.to, job'.name, job'.port)
  <2> SUFFICES ASSUME job' # Nothing
               PROVE  {"name", "port", "to"} \subseteq DOMAIN job' /\ Fits(job'.to, job'.name, job'.port)
    OBVIOUS
  <2> DEFINE k == Head(queue)
  <2>1. PICK args : k \in DOMAIN rows
                 /\ job' = [name |-> k[1], port |-> k[3], to |-> rows[k], ok |-> {}, args |-> args]
    BY DEF Take
  <2> HIDE DEF k
  <2>2. Fits(rows[k], k[1], k[3])
    BY <1>3, <2>1 DEF Inv, RowsFit, k
  <2> QED
    BY <2>1, <2>2
<1>5. DaemonFits'
  BY <1>1, <1>2, <1>4 DEF DaemonFits, Fits, C
<1>6. TypeInv' /\ RowsFit' /\ RowsRecent'
  BY <1>1, <1>2, DaemonFrame DEF Inv, TypeInv, RowsFit, RowsRecent, Total, Fits, C
<1> QED
  BY <1>1, <1>5, <1>6, DaemonFrame DEF Inv

LEMMA ExecuteKeeps == ASSUME Inv, Execute PROVE Inv'
<1> DEFINE res == <<job.name, "res", job.port>>
<1>1. /\ UNCHANGED <<wants, at, left, buffer, answer, told, queue>> /\ job # Nothing
      /\ \E ok : job' = [job EXCEPT !.ok = ok]
      /\ rows' = rows \/ rows' = Put(rows, res, job.to)
  BY DEF Execute, calls, session
<1>2. /\ DOMAIN rows' \subseteq DOMAIN rows \cup {res} /\ res[2] = "res"
      /\ \A k \in DOMAIN rows' \ {res} : rows'[k] = rows[k]
  BY <1>1 DEF Put
<1> HIDE DEF res
<1>3. IsFiniteSet(DOMAIN rows')
  <2>1. IsFiniteSet({res})
    BY FS_Singleton
  <2>2. IsFiniteSet(DOMAIN rows \cup {res})
    BY <2>1, FS_Union DEF Inv, TypeInv
  <2> QED
    BY <2>2, <1>2, FS_Subset
<1>4. TypeInv'
  BY <1>1, <1>3 DEF Inv, TypeInv, Total
<1>5. RowsFit' /\ RowsRecent'
  <2>1. \A k \in DOMAIN rows' : k[2] # "res" => k \in DOMAIN rows /\ rows'[k] = rows[k]
    BY <1>2
  <2> QED
    BY <1>1, <2>1, DaemonFrame DEF Inv, RowsFit, RowsRecent, Fits, C
<1>6. DaemonFits'
  BY <1>1 DEF Inv, DaemonFits, Fits, C
<1> QED
  BY <1>1, <1>4, <1>5, <1>6, DaemonFrame DEF Inv

LEMMA AnswerKeeps == ASSUME Inv, Answer PROVE Inv'
<1> DEFINE key == <<job.name, "rsp", job.port>>
           row == [to |-> job.to, ok |-> TRUE \in job.ok, during |-> {s \in Sessions : Active(s)}]
<1>1. /\ UNCHANGED <<wants, at, left, buffer, answer, told, queue>> /\ job # Nothing /\ job' = Nothing
      /\ rows' = Put(rows, key, row)
  BY DEF Answer, calls
<1>2. /\ key[1] = job.name /\ key[2] = "rsp" /\ key[3] = job.port
      /\ row.to = job.to /\ \A s \in Sessions : Active(s) => s \in row.during
  OBVIOUS
<1> HIDE DEF key, row
<1>3. /\ DOMAIN rows' = DOMAIN rows \cup {key} /\ rows'[key] = row
      /\ \A k \in DOMAIN rows' \ {key} : rows'[k] = rows[k]
  BY <1>1 DEF Put
<1>4. IsFiniteSet(DOMAIN rows')
  <2>1. IsFiniteSet({key})
    BY FS_Singleton
  <2>2. IsFiniteSet(DOMAIN rows \cup {key})
    BY <2>1, FS_Union DEF Inv, TypeInv
  <2> QED
    BY <2>2, <1>3
<1>5. TypeInv'
  BY <1>1, <1>4 DEF Inv, TypeInv, Total
<1>6. RowsFit'
  BY <1>1, <1>2, <1>3 DEF Inv, RowsFit, DaemonFits, Fits, C
<1>7. RowsRecent'
  BY <1>1, <1>2, <1>3, DaemonFrame DEF Inv, RowsRecent, C
<1>8. DaemonFits'
  BY <1>1 DEF Inv, DaemonFits
<1> QED
  BY <1>1, <1>5, <1>6, <1>7, <1>8, DaemonFrame DEF Inv

\* The daemon drops its work, or starts again with the requests that are there.
LEMMA RestartKeeps == ASSUME Inv, Decline \/ Restart PROVE Inv'
<1>1. /\ UNCHANGED <<wants, at, left, buffer, answer, told, rows>> /\ job' = Nothing
      /\ queue' = queue \/ queue' \in Orders({k \in DOMAIN rows : k[2] = "cmd"})
  BY DEF Decline, Restart, calls, session
<1>2. Listed(queue') /\ \A i \in DOMAIN queue' : queue'[i][2] = "cmd"
  <2>1. CASE queue' = queue
    BY <2>1 DEF Inv, TypeInv, DaemonFits
  <2>2. CASE queue' \in Orders({k \in DOMAIN rows : k[2] = "cmd"})
    <3>1. IsFiniteSet({k \in DOMAIN rows : k[2] = "cmd"})
      BY FS_Subset DEF Inv, TypeInv
    <3> QED
      BY <2>2, <3>1, OrdersListed
  <2> QED
    BY <1>1, <2>1, <2>2
<1>3. TypeInv' /\ RowsFit' /\ RowsRecent' /\ DaemonFits'
  BY <1>1, <1>2, DaemonFrame DEF Inv, TypeInv, RowsFit, RowsRecent, DaemonFits, Total, Fits, C
<1> QED
  BY <1>1, <1>3, DaemonFrame DEF Inv

-----------------------------------------------------------------------------
LEMMA StepKeepsInv == ASSUME Inv, [Next]_vars PROVE Inv'
<1>1. ASSUME NEW s \in Sessions, Begin(s) \/ Step(s) \/ TimeUp(s) \/ Kill(s) PROVE Inv'
  BY <1>1, BeginKeeps, OpenKeeps, AskKeeps, TimeKeeps, PopKeeps, ReportKeeps, KillKeeps DEF Step
<1>2. ASSUME Take \/ Execute \/ Answer \/ Decline \/ Restart PROVE Inv'
  BY <1>2, TakeKeeps, ExecuteKeeps, AnswerKeeps, RestartKeeps
<1>3. CASE UNCHANGED vars
  <2>1. UNCHANGED <<wants, at, left, buffer, answer, told, rows, queue, job>>
    BY <1>3 DEF vars, calls, session, daemon
  <2>2. TypeInv' /\ RowsFit' /\ RowsRecent' /\ DaemonFits'
    BY <2>1, DaemonFrame DEF Inv, TypeInv, RowsFit, RowsRecent, DaemonFits, Total, Fits, C
  <2> QED
    BY <2>1, <2>2, DaemonFrame DEF Inv
<1> QED
  BY <1>1, <1>2, <1>3 DEF Next

\* Whatever other sessions do, and however late the daemon is, what a command
\* reports was answered for that port, in its table, and since the command began
\* (config/muxcable.py, show/muxcable.py).
THEOREM RepliesAreRecent == Spec => []ReplyIsRecent
<1>1. Inv => ReplyIsRecent
  BY DEF Inv, ToldRecent, ReplyIsRecent, Heard, Recent, Fits
<1> QED
  BY <1>1, InitHolds, StepKeepsInv, PTL DEF Spec
-----------------------------------------------------------------------------
(* OwnReply: what is so when commands run one at a time *)

Known == \E c \in Scenarios : wants = c.wants
\* A request or what was read for it: of a session that has begun, for its port, in its table.
By(r, k) == r \in {RequestOf(s, k[3]) : s \in Sessions} /\ C(r.by).name = k[1] /\ at[r.by] # "new"
\* An answer, which says yes only when the request was carried out.
Good(r) == DOMAIN r = {"to", "ok", "during"} /\ (r.ok => \E e \in executed : e.to = r.to /\ e.ok)
GoodFor(s, r, p) == Good(r) /\ r.to = RequestOf(s, p)
ArgOf(k) == <<k[1], "arg", k[3]>>
ArgsOf(k) == IF ArgOf(k) \in DOMAIN rows THEN rows[ArgOf(k)] ELSE [f \in {} |-> Nothing]
Due(r) == [f \in C(r.by).params |-> r]

RowsShaped ==
    \A k \in DOMAIN rows :
        /\ k = <<k[1], k[2], k[3]>>
        /\ k[2] \in {"cmd", "res"} => By(rows[k], k)
        /\ k[2] = "rsp" => By(rows[k].to, k) /\ Good(rows[k])
\* A request has its own arguments.
ArgsMatch == \A k \in DOMAIN rows : k[2] = "cmd" /\ C(rows[k].by).arg => ArgsOf(k) = Due(rows[k])
JobShaped ==
    job # Nothing =>
        /\ DOMAIN job = {"name", "port", "to", "ok", "args"}
        /\ By(job.to, <<job.name, "cmd", job.port>>)
        /\ TRUE \in job.ok => \E e \in executed : e.to = job.to /\ e.ok
        /\ C(job.to.by).arg => job.args = Due(job.to)
OneActive == \A s, t \in Sessions : Active(s) /\ Active(t) => s = t
\* In the tables of the session that runs all is its own.
OwnRow(s, k) ==
    /\ k[2] = "cmd" \/ (k[2] = "res" /\ C(s).res) => rows[k].by = s
    /\ k[2] = "rsp" => rows[k].to.by = s
    /\ k[2] = "arg" /\ C(s).arg =>
          DOMAIN rows[k] \subseteq C(s).params /\ rows[k] = [f \in DOMAIN rows[k] |-> RequestOf(s, k[3])]
OwnRows ==
    \A s \in Sessions : Active(s) =>
        /\ \A k \in DOMAIN rows : k[1] = C(s).name => OwnRow(s, k)
        /\ job # Nothing /\ job.name = C(s).name => job.to.by = s
HeldOwn ==
    \A s \in Sessions :
        /\ \A i \in DOMAIN buffer[s] :
              buffer[s][i].row # Nothing => GoodFor(s, buffer[s][i].row, buffer[s][i].port)
        /\ answer[s] # Nothing => GoodFor(s, answer[s], Port(s))
ToldOwn ==
    \A s \in Sessions : \A p \in DOMAIN told[s] :
        /\ told[s][p].reply # Nothing => GoodFor(s, told[s][p].reply, p)
        /\ told[s][p].success /\ C(s).ok # "any" => told[s][p].reply # Nothing /\ told[s][p].reply.ok
        /\ told[s][p].data # Nothing => told[s][p].data = RequestOf(s, p)
ExecutedOwn == \A e \in executed : C(e.to.by).arg => e.args = Due(e.to)

\* The ports a session still has are those it has not told of.
Ports(s) == {wants[s].ports[i] : i \in DOMAIN wants[s].ports}
Remaining ==
    \A s \in Sessions : at[s] # "ended" =>
        /\ Listed(left[s]) /\ left[s] # <<>>
        /\ \A i \in DOMAIN left[s] : left[s][i] \in Ports(s) \ DOMAIN told[s]
        /\ \A i, j \in DOMAIN left[s] : left[s][i] = left[s][j] => i = j

OwnInv ==
    /\ Known /\ Total(events) /\ Total(timeUp)
    /\ RowsShaped /\ ArgsMatch /\ JobShaped /\ OneActive /\ OwnRows
    /\ HeldOwn /\ ToldOwn /\ ExecutedOwn /\ Remaining

\* What a session deletes before it asks, and what goes together.
LEMMA CommandsClear ==
    ASSUME Known, NEW s \in Sessions
    PROVE  /\ <<C(s).name, "cmd">> \in C(s).before /\ <<C(s).name, "rsp">> \in C(s).before
           /\ C(s).res => <<C(s).name, "res">> \in C(s).before
           /\ C(s).arg => <<C(s).name, "arg">> \in C(s).before
           /\ \A tbl \in C(s).before : tbl[2] = "arg" => <<tbl[1], "cmd">> \in C(s).before
           /\ \A tbl \in C(s).after : tbl[2] = "arg" => <<tbl[1], "cmd">> \in C(s).after
<1>1. PICK c \in Scenarios : wants = c.wants
  BY DEF Known
<1> DEFINE command == c.wants[s].command
           kinds == {"cmd", "rsp"} \cup (IF command.res THEN {"res"} ELSE {}) \cup (IF command.arg THEN {"arg"} ELSE {})
<1>2. /\ {command.name} \X kinds \subseteq command.before
      /\ \A tables \in {command.before, command.after} :
            \A tbl \in tables : tbl[2] = "arg" => <<tbl[1], "cmd">> \in tables
  BY CommandsAssumption
<1>3. command = C(s)
  BY <1>1 DEF C
<1>4. /\ "cmd" \in kinds /\ "rsp" \in kinds
      /\ command.res => "res" \in kinds
      /\ command.arg => "arg" \in kinds
  OBVIOUS
<1>5. \A kind \in kinds : <<command.name, kind>> \in command.before
  BY <1>2
<1> HIDE DEF command, kinds
<1> QED
  BY <1>2, <1>3, <1>4, <1>5

\* Sessions are told of a change by a change of "events" alone.
LEMMA TellTotal ==
    ASSUME NEW ev, NEW keys, NEW op, NEW f, f = Tell(ev, keys, op)
    PROVE  f = [t \in Sessions |-> f[t]]
<1> DEFINE order(t) == CHOOSE q \in Orders({k \in keys : k[2] = "rsp" /\ Listens(t, k[1])}) : TRUE
           h(t) == ev[t] \o [i \in DOMAIN order(t) |-> [port |-> order(t)[i][3], op |-> op]]
<1>1. Tell(ev, keys, op) = [t \in Sessions |-> h(t)]
  BY Zenon DEF Tell
<1> HIDE DEF h
<1> QED
  BY <1>1

LEMMA TellExceptTotal ==
    ASSUME NEW ev, NEW keys, NEW op, NEW s, NEW x, NEW f, f = [Tell(ev, keys, op) EXCEPT ![s] = x]
    PROVE  f = [t \in Sessions |-> f[t]]
<1> DEFINE g == Tell(ev, keys, op)
<1>1. g = [t \in Sessions |-> g[t]]
  BY TellTotal
<1>2. f = [g EXCEPT ![s] = x]
  OBVIOUS
<1> HIDE DEF g
<1> QED
  BY <1>1, <1>2

\* A session that has begun does so for good, and so does what it is known by.
LEMMA ByKeeps ==
    ASSUME wants' = wants, \A s \in Sessions : at[s] # "new" => at'[s] # "new"
    PROVE  /\ \A r, k : By(r, k) => By(r, k)'
           /\ (JobShaped /\ executed' = executed /\ job' = job => JobShaped')
<1>1. \A r, k : By(r, k) => By(r, k)'
  BY DEF By, C, RequestOf
<1>2. ASSUME JobShaped, executed' = executed, job' = job PROVE JobShaped'
  <2>1. job # Nothing => By(job.to, <<job.name, "cmd", job.port>>)'
    BY <1>2 DEF JobShaped, By, C, RequestOf
  <2>2. job # Nothing /\ C(job.to.by)'.arg => job'.args = Due(job.to)'
    BY <1>2 DEF JobShaped, C, Due
  <2> QED
    BY <1>2, <2>1, <2>2 DEF JobShaped
<1> QED
  BY <1>1, <1>2

\* Rows that go away, without the arguments of a request that stays, and no session that starts.
LEMMA DropOwn ==
    ASSUME OwnInv, wants' = wants, executed' = executed,
           NEW keys, rows' = Drop(keys) \/ (rows' = rows /\ keys = {}),
           \A k \in DOMAIN rows : k[2] = "cmd" /\ ArgOf(k) \in keys => k \in keys,
           \A s \in Sessions : at[s] # "new" => at'[s] # "new"
    PROVE  /\ RowsShaped' /\ ArgsMatch'
           /\ (job' = job /\ \A s \in Sessions : Active(s)' => Active(s)) => OwnRows'
<1>1. DOMAIN rows' = DOMAIN rows \ keys /\ \A k \in DOMAIN rows' : rows'[k] = rows[k]
  BY DEF Drop
<1>2. \A r, k : By(r, k) => By(r, k)'
  BY ByKeeps
<1>3. \A r : Good(r) => Good(r)'
  BY DEF Good
<1>4. RowsShaped'
  BY <1>1, <1>2, <1>3 DEF OwnInv, RowsShaped
<1>5. ArgsMatch'
  <2> SUFFICES ASSUME NEW k \in DOMAIN rows', k[2] = "cmd", C(rows[k].by).arg
               PROVE  ArgsOf(k)' = Due(rows[k])
    BY <1>1 DEF ArgsMatch, C, Due
  <2>1. k \in DOMAIN rows \ keys /\ ArgOf(k) \notin keys
    BY <1>1
  <2>2. ArgsOf(k)' = ArgsOf(k)
    BY <1>1, <2>1 DEF ArgsOf, ArgOf
  <2> QED
    BY <2>1, <2>2 DEF OwnInv, ArgsMatch
<1>6. (job' = job /\ \A s \in Sessions : Active(s)' => Active(s)) => OwnRows'
  <2> SUFFICES ASSUME job' = job, NEW s \in Sessions, Active(s)
               PROVE  /\ \A k \in DOMAIN rows' : k[1] = C(s).name => OwnRow(s, k)'
                      /\ job # Nothing /\ job.name = C(s).name => job.to.by = s
    BY DEF OwnRows, C
  <2>1. \A k \in DOMAIN rows' : OwnRow(s, k) => OwnRow(s, k)'
    BY <1>1 DEF OwnRow, C
  <2> QED
    BY <1>1, <2>1 DEF OwnInv, OwnRows
<1> QED
  BY <1>4, <1>5, <1>6

LEMMA BeginKeepsOwn ==
    ASSUME Inv, OwnInv, orderly, NEW s \in Sessions, Begin(s)
    PROVE  OwnInv'
<1> DEFINE keys == KeysIn(C(s).before)
<1>1. /\ UNCHANGED <<wants, left, buffer, timeUp, answer, told, executed, job>>
      /\ rows' = Drop(keys) /\ at[s] = "new" /\ at' = [at EXCEPT ![s] = "open"]
      /\ job = Nothing /\ ~\E t \in Sessions : Active(t)
      /\ events' = Tell(events, keys, "del")
  BY DEF Begin, calls, daemon
<1>2. /\ \A k \in keys : <<k[1], k[2]>> \in C(s).before
      /\ \A k \in DOMAIN rows : <<k[1], k[2]>> \in C(s).before => k \in keys
  BY DEF KeysIn
<1>3. \A k \in DOMAIN rows : k[2] = "cmd" /\ ArgOf(k) \in keys => k \in keys
  BY <1>2, CommandsClear DEF OwnInv, ArgOf
<1>4. DOMAIN rows' = DOMAIN rows \ keys
  BY <1>1 DEF Drop
<1> HIDE DEF keys
<1>5. /\ at'[s] = "open" /\ \A t \in Sessions \ {s} : at'[t] = at[t]
      /\ \A t \in Sessions : Active(t)' => t = s
  BY <1>1 DEF Inv, TypeInv, Total, Active
<1>6. RowsShaped' /\ ArgsMatch'
  <2>1. \A t \in Sessions : at[t] # "new" => at'[t] # "new"
    BY <1>5
  <2> QED
    BY <1>1, <1>3, <2>1, DropOwn
<1>7. OneActive' /\ JobShaped'
  BY <1>1, <1>5 DEF OneActive, JobShaped
<1>8. OwnRows'
  <2> SUFFICES ASSUME NEW k \in DOMAIN rows', k[1] = C(s).name
               PROVE  OwnRow(s, k)'
    BY <1>1, <1>5 DEF OwnRows, C
  <2>1. <<k[1], k[2]>> \notin C(s).before
    BY <1>2, <1>4
  <2>2. k[2] \notin {"cmd", "rsp"} /\ (C(s).res => k[2] # "res") /\ (C(s).arg => k[2] # "arg")
    BY <2>1, CommandsClear DEF OwnInv
  <2> QED
    BY <1>1, <2>2 DEF OwnRow, C
<1>9. HeldOwn' /\ ToldOwn' /\ ExecutedOwn' /\ Known'
  BY <1>1 DEF OwnInv, HeldOwn, ToldOwn, ExecutedOwn, Known, GoodFor, Good, Port, C, Due, RequestOf
<1>10. Remaining'
  BY <1>1, <1>5 DEF OwnInv, Remaining, Ports
<1>11. Total(events)' /\ Total(timeUp)'
  <2>1. Total(events)'
    <3>1. events' = Tell(events, keys, "del")
      BY <1>1
    <3>2. events' = [t \in Sessions |-> events'[t]]
      BY <3>1, TellTotal
    <3> QED
      BY <3>2 DEF Total
  <2> QED
    BY <1>1, <2>1 DEF OwnInv, Total
<1> QED
  BY <1>6, <1>7, <1>8, <1>9, <1>10, <1>11 DEF OwnInv

\* What the rows of its tables tell the session that runs.
LEMMA OwnAnswer ==
    ASSUME OwnInv, NEW s \in Sessions, Active(s), NEW k \in DOMAIN rows, k[1] = C(s).name
    PROVE  /\ k[2] = "rsp" => GoodFor(s, rows[k], k[3])
           /\ k[2] = "res" /\ C(s).res => rows[k] = RequestOf(s, k[3])
<1>1. OwnRow(s, k)
  BY DEF OwnInv, OwnRows
<1>2. ASSUME k[2] = "rsp" PROVE GoodFor(s, rows[k], k[3])
  BY <1>1, <1>2 DEF OwnInv, RowsShaped, OwnRow, By, GoodFor, RequestOf
<1>3. ASSUME k[2] = "res", C(s).res PROVE rows[k] = RequestOf(s, k[3])
  BY <1>1, <1>3 DEF OwnInv, RowsShaped, OwnRow, By, RequestOf
<1> QED
  BY <1>2, <1>3

LEMMA OpenKeepsOwn ==
    ASSUME Inv, OwnInv, orderly, NEW s \in Sessions, Open(s)
    PROVE  OwnInv'
<1> DEFINE there == Answers(C(s).name)
<1>1. /\ UNCHANGED <<wants, left, timeUp, answer, told, executed, job>>
      /\ rows' = Drop(there) /\ Active(s) /\ at' = [at EXCEPT ![s] = "ask"] /\ at[s] = "open"
  BY DEF Open, calls, daemon, Active
<1>2. PICK q \in Orders(there) :
        /\ buffer' = [buffer EXCEPT ![s] = [i \in DOMAIN q |-> [port |-> q[i][3], row |-> rows[q[i]]]]]
        /\ events' = [Tell(events, there, "del") EXCEPT ![s] = [i \in DOMAIN q |-> [port |-> q[i][3], op |-> "del"]]]
  BY DEF Open
<1>3. IsFiniteSet(there) /\ \A k \in there : k \in DOMAIN rows /\ k[1] = C(s).name /\ k[2] = "rsp"
  BY FS_Subset DEF Inv, TypeInv, Answers, KeysIn
<1>4. \A k : ArgOf(k) \notin there
  BY <1>3 DEF ArgOf
<1> HIDE DEF there
<1>5. /\ \A t \in Sessions : Active(t)' => Active(t)
      /\ \A t \in Sessions : (at[t] # "new" => at'[t] # "new") /\ (at'[t] # "ended" => at[t] # "ended")
  BY <1>1 DEF Inv, TypeInv, Total, Active
<1>6. RowsShaped' /\ ArgsMatch' /\ OwnRows'
  BY <1>1, <1>4, <1>5, DropOwn
<1>7. OneActive' /\ JobShaped'
  BY <1>1, <1>5, ByKeeps DEF OwnInv, OneActive
<1>8. ToldOwn' /\ ExecutedOwn' /\ Known' /\ Remaining'
  BY <1>1, <1>5 DEF OwnInv, ToldOwn, ExecutedOwn, Known, GoodFor, Good, C, Due, RequestOf, Remaining, Ports
<1>9. HeldOwn'
  <2>1. \A t \in Sessions : \A r, p : GoodFor(t, r, p)' <=> GoodFor(t, r, p)
    BY <1>1 DEF GoodFor, Good, RequestOf
  <2>2. \A t \in Sessions : Port(t)' = Port(t) /\ answer'[t] = answer[t]
    BY <1>1 DEF Port
  <2>3. \A i \in DOMAIN q : q[i] \in there
    BY <1>3, OrdersListed
  <2>4. \A i \in DOMAIN q : GoodFor(s, rows[q[i]], q[i][3])
    BY <1>1, <1>3, <2>3, OwnAnswer
  <2>5. buffer'[s] = [i \in DOMAIN q |-> [port |-> q[i][3], row |-> rows[q[i]]]]
    BY <1>2 DEF Inv, TypeInv, Total
  <2>6. \A i \in DOMAIN buffer'[s] : GoodFor(s, buffer'[s][i].row, buffer'[s][i].port)
    BY <2>4, <2>5
  <2>7. \A t \in Sessions \ {s} : buffer'[t] = buffer[t]
    BY <1>2 DEF Inv, TypeInv, Total
  <2> QED
    BY <2>1, <2>2, <2>6, <2>7 DEF OwnInv, HeldOwn
<1>10. Total(events)' /\ Total(timeUp)'
  <2>1. Total(events)'
    <3> DEFINE x == [i \in DOMAIN q |-> [port |-> q[i][3], op |-> "del"]]
    <3>1. events' = [Tell(events, there, "del") EXCEPT ![s] = x]
      BY <1>2
    <3> HIDE DEF x
    <3>2. events' = [t \in Sessions |-> events'[t]]
      BY <3>1, TellTotal
    <3> QED
      BY <3>2 DEF Total
  <2> QED
    BY <1>1, <2>1 DEF OwnInv, Total
<1> QED
  BY <1>6, <1>7, <1>8, <1>9, <1>10 DEF OwnInv

LEMMA AskKeepsOwn ==
    ASSUME Inv, OwnInv, orderly, NEW s \in Sessions, Ask(s)
    PROVE  OwnInv'
<1> DEFINE p == Port(s)
           arg == <<C(s).name, "arg", p>>
           cmd == <<C(s).name, "cmd", p>>
           mine == [f \in C(s).params |-> RequestOf(s, p)]
           old == IF arg \in DOMAIN rows THEN rows[arg] ELSE [f \in {} |-> Nothing]
           given == [f \in C(s).params \cup DOMAIN old |-> IF f \in C(s).params THEN RequestOf(s, p) ELSE old[f]]
<1>1. /\ UNCHANGED <<wants, left, events, buffer, timeUp, answer, told, job, executed>>
      /\ Active(s) /\ at[s] = "ask" /\ at' = [at EXCEPT ![s] = "wait"]
  BY DEF Ask, calls, Active
<1>2. rows' = Put(IF C(s).params = {} THEN rows ELSE Put(rows, arg, given), cmd, RequestOf(s, p))
  BY DEF Ask
<1>3. C(s).arg /\ arg \in DOMAIN rows =>
        DOMAIN rows[arg] \subseteq C(s).params /\ rows[arg] = [f \in DOMAIN rows[arg] |-> RequestOf(s, p)]
  <2>1. arg \in DOMAIN rows => OwnRow(s, arg)
    BY <1>1 DEF OwnInv, OwnRows
  <2> QED
    BY <2>1 DEF OwnRow
<1>4. C(s).arg => given = mine
  <2> SUFFICES ASSUME C(s).arg PROVE given = mine
    OBVIOUS
  <2>1. DOMAIN old \subseteq C(s).params
    BY <1>3
  <2> HIDE DEF old
  <2> QED
    BY <2>1
<1>5. cmd = <<cmd[1], cmd[2], cmd[3]>> /\ cmd[1] = C(s).name /\ cmd[2] = "cmd" /\ cmd[3] = p
  OBVIOUS
<1>6. arg = <<arg[1], arg[2], arg[3]>> /\ arg[1] = C(s).name /\ arg[2] = "arg" /\ arg[3] = p
  OBVIOUS
<1>7. /\ DOMAIN rows' = DOMAIN rows \cup {cmd} \cup (IF C(s).params = {} THEN {} ELSE {arg})
      /\ rows'[cmd] = RequestOf(s, p)
      /\ C(s).params # {} => rows'[arg] = given
      /\ \A k \in DOMAIN rows : k # cmd /\ (C(s).params # {} => k # arg) => rows'[k] = rows[k]
  <2> HIDE DEF cmd, arg, given, old
  <2>1. cmd # arg
    BY <1>5, <1>6
  <2> QED
    BY <1>2, <2>1 DEF Put
<1> HIDE DEF cmd, arg, given, old
<1>8. /\ at'[s] = "wait" /\ \A t \in Sessions \ {s} : at'[t] = at[t]
      /\ \A t \in Sessions : Active(t)' => t = s
  BY <1>1 DEF Inv, TypeInv, Total, Active, OwnInv, OneActive
<1>9. \A t \in Sessions : at[t] # "new" => at'[t] # "new"
  BY <1>8
<1>10. \A r, k : By(r, k) => By(r, k)'
  BY <1>1, <1>9, ByKeeps
<1>11. \A r : Good(r) => Good(r)'
  BY <1>1 DEF Good
<1>12. RequestOf(s, p).by = s /\ \A k : k = cmd => By(RequestOf(s, k[3]), k)'
  BY <1>1, <1>5, <1>8 DEF By, RequestOf, C
<1>13. RowsShaped'
  <2> SUFFICES ASSUME NEW k \in DOMAIN rows'
               PROVE  /\ k = <<k[1], k[2], k[3]>>
                      /\ k[2] \in {"cmd", "res"} => By(rows[k], k)'
                      /\ k[2] = "rsp" => By(rows[k].to, k)' /\ Good(rows[k])'
    BY DEF RowsShaped
  <2>1. CASE k = cmd
    <3>1. rows'[k] = RequestOf(s, k[3]) /\ k[2] = "cmd"
      BY <2>1, <1>5, <1>7
    <3>2. \A x : x = RequestOf(s, k[3]) => By(x, k)'
      BY <2>1, <1>12
    <3> QED
      BY <2>1, <1>5, <3>1, <3>2
  <2>2. CASE k = arg
    BY <2>2, <1>6
  <2>3. CASE k \notin {cmd, arg}
    <3>1. k \in DOMAIN rows /\ rows'[k] = rows[k]
      BY <2>3, <1>7
    <3>2. /\ k = <<k[1], k[2], k[3]>>
          /\ k[2] \in {"cmd", "res"} => By(rows[k], k)
          /\ k[2] = "rsp" => By(rows[k].to, k) /\ Good(rows[k])
      BY <3>1 DEF OwnInv, RowsShaped
    <3>3. k[2] \in {"cmd", "res"} => By(rows[k], k)'
      <4>1. ASSUME NEW x, x = rows[k], k[2] \in {"cmd", "res"} PROVE By(x, k)'
        BY <4>1, <3>2, <1>10
      <4> QED
        BY <4>1, <3>1
    <3>4. k[2] = "rsp" => By(rows[k].to, k)' /\ Good(rows[k])'
      <4>1. ASSUME NEW x, x = rows[k], k[2] = "rsp" PROVE By(x.to, k)' /\ Good(x)'
        BY <4>1, <3>2, <1>10, <1>11
      <4> QED
        BY <4>1, <3>1
    <3> QED
      BY <3>2, <3>3, <3>4
  <2> QED
    BY <2>1, <2>2, <2>3
<1>14. \A k : k = cmd /\ C(s).arg => ArgsOf(k)' = mine
  <2> SUFFICES ASSUME NEW k, k = cmd, C(s).arg PROVE ArgsOf(k)' = mine
    OBVIOUS
  <2>1. ArgOf(k) = arg
    BY <1>5, <1>6 DEF ArgOf
  <2>2. CASE C(s).params # {}
    BY <2>1, <2>2, <1>4, <1>7 DEF ArgsOf
  <2>3. CASE C(s).params = {} /\ arg \in DOMAIN rows
    <3>1. arg # cmd
      BY <1>5, <1>6
    <3>2. rows'[arg] = rows[arg] /\ arg \in DOMAIN rows' /\ DOMAIN rows[arg] = {}
      BY <2>3, <3>1, <1>3, <1>7
    <3>3. rows[arg] = [f \in {} |-> RequestOf(s, p)]
      BY <2>3, <3>2, <1>3
    <3> QED
      BY <2>1, <2>3, <3>2, <3>3 DEF ArgsOf
  <2>4. CASE C(s).params = {} /\ arg \notin DOMAIN rows
    <3>1. arg \notin DOMAIN rows'
      BY <2>4, <1>5, <1>6, <1>7
    <3>2. mine = [f \in {} |-> Nothing]
      BY <2>4
    <3> QED
      BY <2>1, <2>4, <3>1, <3>2 DEF ArgsOf
  <2> QED
    BY <2>2, <2>3, <2>4
<1>15. ArgsMatch'
  <2> SUFFICES ASSUME NEW k \in DOMAIN rows', k[2] = "cmd", C(rows'[k].by).arg
               PROVE  ArgsOf(k)' = [f \in C(rows'[k].by).params |-> rows'[k]]
    BY <1>1 DEF ArgsMatch, C, Due
  <2>1. CASE k = cmd
    BY <2>1, <1>7, <1>12, <1>14
  <2>2. CASE k # cmd
    <3>1. k \in DOMAIN rows /\ rows'[k] = rows[k] /\ k = <<k[1], k[2], k[3]>>
      BY <2>2, <1>6, <1>7 DEF OwnInv, RowsShaped
    <3>2. ArgOf(k) \notin {cmd, arg}
      <4>1. ArgOf(k) # arg
        BY <2>2, <3>1, <1>5, <1>6 DEF ArgOf
      <4>2. ArgOf(k) # cmd
        BY <1>5 DEF ArgOf
      <4> QED
        BY <4>1, <4>2
    <3>3. ArgsOf(k)' = ArgsOf(k)
      <4>1. ArgOf(k)' = ArgOf(k)
        BY DEF ArgOf
      <4>2. ArgOf(k) \in DOMAIN rows' <=> ArgOf(k) \in DOMAIN rows
        BY <3>2, <1>7
      <4>3. ArgOf(k) \in DOMAIN rows => rows'[ArgOf(k)] = rows[ArgOf(k)]
        BY <3>2, <1>7
      <4> QED
        BY <4>1, <4>2, <4>3 DEF ArgsOf
    <3> QED
      BY <3>1, <3>3 DEF OwnInv, ArgsMatch, Due
  <2> QED
    BY <2>1, <2>2
<1>16. OwnRows'
  <2>1. ASSUME NEW k \in DOMAIN rows', k[1] = C(s).name
        PROVE  OwnRow(s, k)'
    <3>1. CASE k = cmd
      BY <3>1, <1>5, <1>7, <1>12 DEF OwnRow
    <3>2. CASE k # cmd /\ k = arg /\ C(s).params # {}
      <4>1. rows'[k] = given /\ (C(s).arg => given = [f \in C(s).params |-> RequestOf(s, k[3])])
        BY <3>2, <1>4, <1>6, <1>7
      <4> QED
        BY <4>1, <3>2, <1>1, <1>6 DEF OwnRow, C, RequestOf
    <3>3. CASE k # cmd /\ (C(s).params # {} => k # arg)
      <4>1. k \in DOMAIN rows /\ rows'[k] = rows[k]
        BY <3>3, <1>7
      <4>2. OwnRow(s, k)
        BY <2>1, <4>1, <1>1 DEF OwnInv, OwnRows
      <4> QED
        BY <4>1, <4>2, <1>1 DEF OwnRow, C, RequestOf
    <3> QED
      BY <3>1, <3>2, <3>3
  <2> QED
    BY <2>1, <1>1, <1>8 DEF OwnInv, OwnRows, C
<1>17. HeldOwn' /\ ToldOwn' /\ ExecutedOwn'
  BY <1>1 DEF OwnInv, HeldOwn, ToldOwn, ExecutedOwn, GoodFor, Good, Port, C, Due, RequestOf
<1>18. Remaining' /\ OneActive' /\ JobShaped' /\ Known' /\ Total(events)' /\ Total(timeUp)'
  BY <1>1, <1>8, <1>9, ByKeeps DEF OwnInv, Remaining, Ports, OneActive, Known, Total
<1> QED
  BY <1>13, <1>15, <1>16, <1>17, <1>18 DEF OwnInv

\* A time limit that passes, or that the session sees to have passed.
LEMMA TimeKeepsOwn ==
    ASSUME Inv, OwnInv, NEW s \in Sessions, TimeUp(s) \/ GiveUp(s)
    PROVE  OwnInv'
<1>1. /\ UNCHANGED <<wants, rows, left, events, buffer, answer, told, job, executed>>
      /\ at[s] = "wait"
      /\ (at' = at /\ timeUp' = [timeUp EXCEPT ![s] = TRUE]) \/ (at' = [at EXCEPT ![s] = "report"] /\ timeUp' = timeUp)
  BY DEF TimeUp, GiveUp, calls, daemon
<1>2. /\ \A t \in Sessions : Active(t)' => Active(t)
      /\ \A t \in Sessions : (at[t] # "new" => at'[t] # "new") /\ (at'[t] # "ended" => at[t] # "ended")
  BY <1>1 DEF Inv, TypeInv, Total, Active
<1> DEFINE none == {}
<1>3. rows' = rows /\ none = {} /\ \A k : ArgOf(k) \notin none
  BY <1>1
<1> HIDE DEF none
<1>4. RowsShaped' /\ ArgsMatch' /\ OwnRows'
  BY <1>1, <1>2, <1>3, DropOwn
<1>5. HeldOwn' /\ ToldOwn' /\ ExecutedOwn' /\ Known'
  BY <1>1 DEF OwnInv, HeldOwn, ToldOwn, ExecutedOwn, Known, GoodFor, Good, Port, C, Due, RequestOf
<1>6. Remaining' /\ OneActive' /\ JobShaped' /\ Total(events)' /\ Total(timeUp)'
  BY <1>1, <1>2, ByKeeps DEF OwnInv, Remaining, Ports, OneActive, Total
<1> QED
  BY <1>4, <1>5, <1>6 DEF OwnInv

\* What is popped is an answer to the session.
LEMMA PoppedOwn ==
    ASSUME Inv, OwnInv, NEW s \in Sessions, Active(s), NEW x \in Popped(s)
    PROVE  \A i \in DOMAIN x.items :
              x.items[i].row # Nothing => GoodFor(s, x.items[i].row, x.items[i].port)
<1>1. CASE buffer[s] # <<>>
  BY <1>1 DEF Popped, OwnInv, HeldOwn
<1>2. CASE buffer[s] = <<>>
  <2>1. PICK n \in 1 .. Len(events[s]) : \E q \in InOrder(Found(s, n)) :
            x.items = [i \in DOMAIN q |-> Item(s, events[s][q[i]])]
    BY <1>2 DEF Popped
  <2>2. PICK q \in InOrder(Found(s, n)) : x.items = [i \in DOMAIN q |-> Item(s, events[s][q[i]])]
    BY <2>1
  <2>3. IsFiniteSet(Found(s, n))
    <3>1. IsFiniteSet(1 .. n)
      BY FS_Interval
    <3> QED
      BY <3>1, FS_Subset DEF Found
  <2>4. \A i \in DOMAIN q : q[i] \in Found(s, n)
    BY <2>3, OrdersListed DEF InOrder
  <2> SUFFICES ASSUME NEW i \in DOMAIN x.items, x.items[i].row # Nothing
               PROVE  GoodFor(s, x.items[i].row, x.items[i].port)
    BY <1>2
  <2> DEFINE e == events[s][q[i]]
             key == <<C(s).name, "rsp", e.port>>
  <2>5. q[i] \in Found(s, n) /\ x.items[i] = Item(s, e)
    BY <2>2, <2>4
  <2>6. key \in DOMAIN rows /\ x.items[i].row = rows[key] /\ x.items[i].port = e.port
    BY <2>5 DEF Found, Item
  <2>7. key[1] = C(s).name /\ key[2] = "rsp" /\ key[3] = e.port
    OBVIOUS
  <2> HIDE DEF key, e
  <2> QED
    BY <2>6, <2>7, OwnAnswer
<1> QED
  BY <1>1, <1>2

LEMMA PopKeepsOwn ==
    ASSUME Inv, OwnInv, NEW s \in Sessions, Pop(s)
    PROVE  OwnInv'
<1>1. PICK x \in Popped(s) :
        LET p == Port(s)
            none == x.items = <<>>
            other == ~none /\ Head(x.items).port # p
            gone == IF other THEN {<<C(s).name, "rsp", p>>} \cap DOMAIN rows ELSE Answers(C(s).name)
        IN  /\ answer' = [answer EXCEPT ![s] = IF none \/ other THEN Nothing ELSE Head(x.items).row]
            /\ buffer' = [buffer EXCEPT ![s] = IF none THEN <<>> ELSE Tail(x.items)]
            /\ rows' = Drop(gone)
            /\ events' = Tell([events EXCEPT ![s] = x.rest], gone, "del")
            /\ at' = [at EXCEPT ![s] = IF other THEN "wait" ELSE "report"]
  BY DEF Pop
<1>2. UNCHANGED <<wants, left, told, timeUp, job, executed>> /\ Active(s) /\ at[s] = "wait"
  BY DEF Pop, calls, daemon, Active
<1>3. PICK gone : /\ rows' = Drop(gone) /\ \A k \in gone : k[2] = "rsp"
                  /\ events' = Tell([events EXCEPT ![s] = x.rest], gone, "del")
  <2>1. \A k \in Answers(C(s).name) : k[2] = "rsp"
    BY DEF Answers, KeysIn
  <2>2. \A k \in {<<C(s).name, "rsp", Port(s)>>} \cap DOMAIN rows : k[2] = "rsp"
    OBVIOUS
  <2> QED
    BY <1>1, <2>1, <2>2
<1>4. \A k : ArgOf(k) \notin gone
  BY <1>3 DEF ArgOf
<1>5. /\ \A t \in Sessions : Active(t)' => Active(t)
      /\ \A t \in Sessions : (at[t] # "new" => at'[t] # "new") /\ (at'[t] # "ended" => at[t] # "ended")
  BY <1>1, <1>2 DEF Inv, TypeInv, Total, Active
<1>6. RowsShaped' /\ ArgsMatch' /\ OwnRows'
  BY <1>2, <1>3, <1>4, <1>5, DropOwn
<1>7. OneActive' /\ JobShaped'
  BY <1>2, <1>5, ByKeeps DEF OwnInv, OneActive
<1>8. ToldOwn' /\ ExecutedOwn' /\ Known' /\ Remaining'
  BY <1>2, <1>5 DEF OwnInv, ToldOwn, ExecutedOwn, Known, GoodFor, Good, C, Due, RequestOf, Remaining, Ports
<1>9. HeldOwn'
  <2>1. \A t \in Sessions : \A r, p : GoodFor(t, r, p) => GoodFor(t, r, p)'
    BY <1>2 DEF GoodFor, Good, RequestOf
  <2>2. \A t \in Sessions : Port(t)' = Port(t)
    BY <1>2 DEF Port
  <2>3. \A t \in Sessions \ {s} : buffer'[t] = buffer[t] /\ answer'[t] = answer[t]
    BY <1>1 DEF Inv, TypeInv, Total
  <2>4. /\ \A i \in DOMAIN buffer'[s] :
              buffer'[s][i].row # Nothing => GoodFor(s, buffer'[s][i].row, buffer'[s][i].port)
        /\ answer'[s] # Nothing => GoodFor(s, answer'[s], Port(s))
    <3>1. CASE x.items = <<>>
      <4>1. buffer'[s] = <<>> /\ answer'[s] = Nothing
        BY <1>1, <3>1 DEF Inv, TypeInv, Total
      <4> QED
        BY <4>1
    <3>2. CASE x.items # <<>>
      <4>1. /\ Head(x.items) = x.items[1] /\ 1 \in DOMAIN x.items
            /\ \A i \in DOMAIN Tail(x.items) :
                  i + 1 \in DOMAIN x.items /\ Tail(x.items)[i] = x.items[i + 1]
        BY <1>2, <3>2, HeadTail, PoppedFits
      <4>2. \A i \in DOMAIN x.items : x.items[i].row # Nothing => GoodFor(s, x.items[i].row, x.items[i].port)
        BY <1>2, PoppedOwn
      <4>3. buffer'[s] = Tail(x.items)
        BY <1>1, <3>2 DEF Inv, TypeInv, Total
      <4>4. answer'[s] # Nothing => answer'[s] = x.items[1].row /\ x.items[1].port = Port(s)
        BY <1>1, <3>2, <4>1 DEF Inv, TypeInv, Total
      <4> QED
        BY <4>1, <4>2, <4>3, <4>4
    <3> QED
      BY <3>1, <3>2
  <2> QED
    BY <2>1, <2>2, <2>3, <2>4 DEF OwnInv, HeldOwn
<1>10. Total(events)' /\ Total(timeUp)'
  <2>1. PICK ev : events' = Tell(ev, gone, "del")
    BY <1>3
  <2>2. events' = [t \in Sessions |-> events'[t]]
    BY <2>1, TellTotal
  <2> QED
    BY <1>2, <2>2 DEF OwnInv, Total
<1> QED
  BY <1>6, <1>7, <1>8, <1>9, <1>10 DEF OwnInv

LEMMA KillKeepsOwn ==
    ASSUME Inv, OwnInv, NEW s \in Sessions, Kill(s)
    PROVE  OwnInv'
<1>1. /\ UNCHANGED <<wants, rows, told, job, executed>> /\ Active(s)
      /\ events' = [events EXCEPT ![s] = <<>>] /\ timeUp' = [timeUp EXCEPT ![s] = FALSE]
      /\ buffer' = [buffer EXCEPT ![s] = <<>>] /\ answer' = [answer EXCEPT ![s] = Nothing]
      /\ left' = [left EXCEPT ![s] = <<>>] /\ at' = [at EXCEPT ![s] = "ended"]
  BY DEF Kill, calls, daemon
<1>2. /\ \A t \in Sessions : Active(t)' => Active(t)
      /\ \A t \in Sessions : at[t] # "new" => at'[t] # "new"
      /\ \A t \in Sessions : at'[t] # "ended" => at[t] # "ended" /\ left'[t] = left[t]
  BY <1>1 DEF Inv, TypeInv, Total, Active
<1> DEFINE none == {}
<1>3. rows' = rows /\ none = {} /\ \A k : ArgOf(k) \notin none
  BY <1>1
<1> HIDE DEF none
<1>4. RowsShaped' /\ ArgsMatch' /\ OwnRows'
  BY <1>1, <1>2, <1>3, DropOwn
<1>5. ToldOwn' /\ ExecutedOwn' /\ Known'
  BY <1>1 DEF OwnInv, ToldOwn, ExecutedOwn, Known, GoodFor, Good, C, Due, RequestOf
<1>6. HeldOwn'
  <2>1. \A t \in Sessions : \A r, p : GoodFor(t, r, p) => GoodFor(t, r, p)'
    BY <1>1 DEF GoodFor, Good, RequestOf
  <2>2. \A t \in Sessions \ {s} : buffer'[t] = buffer[t] /\ answer'[t] = answer[t] /\ Port(t)' = Port(t)
    BY <1>1 DEF Inv, TypeInv, Total, Port
  <2>3. buffer'[s] = <<>> /\ answer'[s] = Nothing
    BY <1>1 DEF Inv, TypeInv, Total
  <2> QED
    BY <2>1, <2>2, <2>3 DEF OwnInv, HeldOwn
<1>7. OneActive' /\ JobShaped' /\ Total(events)' /\ Total(timeUp)'
  BY <1>1, <1>2, ByKeeps DEF OwnInv, OneActive, Total
<1>8. Remaining'
  BY <1>1, <1>2 DEF OwnInv, Remaining, Ports
<1> QED
  BY <1>4, <1>5, <1>6, <1>7, <1>8 DEF OwnInv

LEMMA TailLeft == ASSUME NEW q, Listed(q), q # <<>>, Len(q) # 1 PROVE Tail(q) # <<>>
<1> SUFFICES ASSUME Tail(q) = <<>> PROVE FALSE
  OBVIOUS
<1>1. PICK S : q \in Seq(S)
  BY DEF Listed
<1>2. Len(Tail(q)) = Len(q) - 1 /\ Len(q) \in Nat \ {0}
  BY <1>1
<1>3. DOMAIN Tail(q) = 1 .. Len(q) - 1
  BY <1>1
<1>4. \A i \in DOMAIN Tail(q) : FALSE
  OBVIOUS
<1> QED
  BY <1>2, <1>3, <1>4

\* What a report changes of what a session has left and has told of.
Reported(s) ==
    /\ UNCHANGED <<calls, daemon>> /\ Active(s)
    /\ left[s] # <<>> /\ Listed(left[s]) /\ Port(s) = left[s][1] /\ 1 \in DOMAIN left[s]
    /\ left'[s] = Tail(left[s]) /\ at'[s] \in {"ended", "open"} /\ (at'[s] = "ended" => Len(left[s]) = 1)
    /\ at'[s] = "open" => left'[s] # <<>>
    /\ buffer'[s] = <<>> /\ answer'[s] = Nothing /\ events'[s] = <<>> /\ timeUp'[s] = FALSE
    /\ DOMAIN told'[s] = DOMAIN told[s] \cup {Port(s)}
    /\ \A p \in DOMAIN told[s] \ {Port(s)} : told'[s][p] = told[s][p]
    /\ told'[s][Port(s)].reply = answer[s]
    /\ \A t \in Sessions \ {s} : /\ left'[t] = left[t] /\ at'[t] = at[t] /\ buffer'[t] = buffer[t]
                                 /\ answer'[t] = answer[t] /\ told'[t] = told[t] /\ timeUp'[t] = timeUp[t]
    /\ Total(events)' /\ Total(timeUp)'

LEMMA ReportTells == ASSUME Inv, OwnInv, NEW s \in Sessions, Report(s) PROVE Reported(s)
<1>1. Active(s) /\ UNCHANGED <<calls, daemon>>
  BY DEF Report, Active
<1>2. left[s] # <<>> /\ Listed(left[s]) /\ Port(s) = left[s][1] /\ 1 \in DOMAIN left[s]
  <2>1. left[s] # <<>> /\ Listed(left[s])
    BY <1>1 DEF OwnInv, Remaining, Active
  <2> QED
    BY <2>1, HeadTail DEF Port
<1>3. /\ left' = [left EXCEPT ![s] = Tail(left[s])]
      /\ buffer' = [buffer EXCEPT ![s] = <<>>] /\ answer' = [answer EXCEPT ![s] = Nothing]
      /\ timeUp' = [timeUp EXCEPT ![s] = FALSE]
      /\ at' = [at EXCEPT ![s] = IF Len(left[s]) = 1 THEN "ended" ELSE "open"]
  BY DEF Report, Inv, TypeInv, Total
<1>4. PICK cleared : events' = [Tell(events, cleared, "del") EXCEPT ![s] = <<>>]
  BY DEF Report
<1>5. events' = [t \in Sessions |-> events'[t]] /\ events'[s] = <<>>
  <2>1. Tell(events, cleared, "del") = [t \in Sessions |-> Tell(events, cleared, "del")[t]]
    BY TellTotal
  <2> DEFINE g == Tell(events, cleared, "del")
  <2>2. g = [t \in Sessions |-> g[t]] /\ events' = [g EXCEPT ![s] = <<>>]
    BY <1>4, <2>1
  <2> HIDE DEF g
  <2> QED
    BY <2>2
<1>6. PICK data, success :
        told' = [told EXCEPT ![s] = Put(told[s], Port(s), [reply |-> answer[s], data |-> data, success |-> success])]
  BY DEF Report, Inv, TypeInv, Total
<1>7. told'[s] = Put(told[s], Port(s), [reply |-> answer[s], data |-> data, success |-> success])
  BY <1>6 DEF Inv, TypeInv, Total
<1>8. /\ DOMAIN told'[s] = DOMAIN told[s] \cup {Port(s)}
      /\ \A p \in DOMAIN told[s] \ {Port(s)} : told'[s][p] = told[s][p]
      /\ told'[s][Port(s)].reply = answer[s]
  BY <1>7 DEF Put
<1>9. at'[s] = IF Len(left[s]) = 1 THEN "ended" ELSE "open"
  BY <1>3 DEF Inv, TypeInv, Total
<1>10. at'[s] = "open" => left'[s] # <<>>
  BY <1>2, <1>3, <1>9, TailLeft DEF Inv, TypeInv, Total
<1>11. \A t \in Sessions \ {s} : /\ left'[t] = left[t] /\ at'[t] = at[t] /\ buffer'[t] = buffer[t]
                                 /\ answer'[t] = answer[t] /\ told'[t] = told[t] /\ timeUp'[t] = timeUp[t]
  BY <1>3, <1>6 DEF Inv, TypeInv, Total, OwnInv
<1>12. left'[s] = Tail(left[s]) /\ buffer'[s] = <<>> /\ answer'[s] = Nothing /\ timeUp'[s] = FALSE
  BY <1>3 DEF Inv, TypeInv, Total, OwnInv
<1>13. Total(events)' /\ Total(timeUp)'
  BY <1>3, <1>5 DEF OwnInv, Total
<1> QED
  BY <1>1, <1>2, <1>5, <1>8, <1>9, <1>10, <1>11, <1>12, <1>13 DEF Reported

LEMMA ReportKeepsOwn ==
    ASSUME Inv, OwnInv, NEW s \in Sessions, Report(s)
    PROVE  OwnInv'
<1> DEFINE p == Port(s)
           cleared == IF C(s).sweeps = "last" /\ Len(left[s]) # 1 THEN {} ELSE KeysIn(C(s).after)
<1>0. Reported(s)
  BY ReportTells
<1>1. Active(s) /\ UNCHANGED <<wants, job, executed>>
  BY <1>0 DEF Reported, calls, daemon
<1>2. rows' = Drop(cleared)
  BY DEF Report
<1>3. \A k \in DOMAIN rows : k[2] = "cmd" /\ ArgOf(k) \in cleared => k \in cleared
  BY CommandsClear DEF OwnInv, ArgOf, KeysIn
<1> HIDE DEF cleared
<1>4. /\ \A t \in Sessions : Active(t)' => Active(t)
      /\ \A t \in Sessions : (at[t] # "new" => at'[t] # "new") /\ (at'[t] # "ended" => at[t] # "ended")
  BY <1>0 DEF Reported, Active
<1>5. RowsShaped' /\ ArgsMatch' /\ OwnRows'
  BY <1>1, <1>2, <1>3, <1>4, DropOwn
<1>6. OneActive' /\ JobShaped' /\ ExecutedOwn' /\ Known'
  BY <1>1, <1>4, ByKeeps DEF OwnInv, OneActive, ExecutedOwn, Known, C, Due
<1>7. \A t \in Sessions : \A r, x : GoodFor(t, r, x) => GoodFor(t, r, x)'
  BY <1>1 DEF GoodFor, Good, RequestOf
<1>8. HeldOwn'
  <2>1. /\ \A t \in Sessions \ {s} : buffer'[t] = buffer[t] /\ answer'[t] = answer[t] /\ Port(t)' = Port(t)
        /\ buffer'[s] = <<>> /\ answer'[s] = Nothing
    BY <1>0 DEF Reported, Port
  <2> QED
    BY <1>7, <2>1 DEF OwnInv, HeldOwn
<1>9. ToldOwn'
  <2> SUFFICES ASSUME NEW t \in Sessions, NEW x \in DOMAIN told'[t], NEW v, v = told'[t][x]
               PROVE  /\ v.reply # Nothing => GoodFor(t, v.reply, x)
                      /\ v.success /\ C(t).ok # "any" => v.reply # Nothing /\ v.reply.ok
                      /\ v.data # Nothing => v.data = RequestOf(t, x)
    BY <1>1, <1>7 DEF ToldOwn, C, RequestOf, GoodFor, Good
  <2>1. CASE t # s \/ x # p
    <3>1. x \in DOMAIN told[t] /\ v = told[t][x]
      BY <1>0, <2>1 DEF Reported
    <3> QED
      BY <3>1 DEF OwnInv, ToldOwn
  <2>2. CASE t = s /\ x = p
    <3> DEFINE key == <<C(s).name, "res", p>>
               positive == answer[s] # Nothing /\ answer[s].ok
               taken == C(s).res /\ (C(s).always \/ positive) /\ key \in DOMAIN rows
               data == IF taken THEN rows[key] ELSE Nothing
               success == IF C(s).ok = "any" THEN answer[s] # Nothing ELSE positive
    <3>1. told'[s] = Put(told[s], p, [reply |-> answer[s], data |-> data, success |-> success])
      BY DEF Report, Inv, TypeInv, Total
    <3>2. taken => rows[key] = RequestOf(s, p)
      BY <1>1, OwnAnswer
    <3>3. data # Nothing => data = RequestOf(s, p)
      BY <3>2
    <3>4. success /\ C(s).ok # "any" => positive
      OBVIOUS
    <3> HIDE DEF data, success
    <3>5. v = [reply |-> answer[s], data |-> data, success |-> success]
      BY <2>2, <3>1 DEF Put
    <3>6. answer[s] # Nothing => GoodFor(s, answer[s], p)
      BY DEF OwnInv, HeldOwn
    <3>7. v.reply = answer[s] /\ v.data = data /\ (v.success => success)
      BY <3>5
    <3> QED
      BY <2>2, <3>3, <3>4, <3>6, <3>7
  <2> QED
    BY <2>1, <2>2
<1>10. Remaining'
  <2> SUFFICES ASSUME NEW t \in Sessions, at'[t] # "ended"
               PROVE  /\ Listed(left'[t]) /\ left'[t] # <<>>
                      /\ \A i \in DOMAIN left'[t] : left'[t][i] \in Ports(t) \ DOMAIN told'[t]
                      /\ \A i, j \in DOMAIN left'[t] : left'[t][i] = left'[t][j] => i = j
    BY <1>1 DEF Remaining, Ports
  <2>1. CASE t # s
    BY <1>0, <2>1 DEF Reported, OwnInv, Remaining
  <2>2. CASE t = s
    <3>1. /\ Listed(left[s]) /\ left[s] # <<>>
          /\ \A i \in DOMAIN left[s] : left[s][i] \in Ports(s) \ DOMAIN told[s]
          /\ \A i, j \in DOMAIN left[s] : left[s][i] = left[s][j] => i = j
      BY <1>1 DEF OwnInv, Remaining, Active
    <3>2. /\ Listed(left'[s]) /\ left'[s] # <<>> /\ 1 \in DOMAIN left[s] /\ p = left[s][1]
          /\ \A i \in DOMAIN left'[s] : i + 1 \in DOMAIN left[s] /\ left'[s][i] = left[s][i + 1]
      <4>1. left'[s] = Tail(left[s]) /\ at'[s] = "open" /\ left'[s] # <<>> /\ 1 \in DOMAIN left[s] /\ p = left[s][1]
        BY <1>0, <2>2 DEF Reported
      <4> QED
        BY <3>1, <4>1, HeadTail
    <3>3. \A i \in DOMAIN left'[s] : i \in Nat \ {0}
      <4>1. PICK S : left'[s] \in Seq(S)
        BY <3>2 DEF Listed
      <4> QED
        BY <4>1
    <3>4. \A i \in DOMAIN left'[s] : left'[s][i] \in Ports(s) \ DOMAIN told'[s]
      <4> SUFFICES ASSUME NEW i \in DOMAIN left'[s] PROVE left'[s][i] \in Ports(s) \ DOMAIN told'[s]
        OBVIOUS
      <4>1. left[s][i + 1] # left[s][1]
        BY <3>1, <3>2, <3>3
      <4> QED
        BY <1>0, <4>1, <3>1, <3>2 DEF Reported
    <3>5. \A i, j \in DOMAIN left'[s] : left'[s][i] = left'[s][j] => i = j
      BY <3>1, <3>2, <3>3
    <3> QED
      BY <2>2, <3>2, <3>4, <3>5
  <2> QED
    BY <2>1, <2>2
<1>11. Total(events)' /\ Total(timeUp)'
  BY <1>0 DEF Reported
<1> QED
  BY <1>5, <1>6, <1>8, <1>9, <1>10, <1>11 DEF OwnInv

\* A step of the daemon: what sessions hold stays theirs as long as what was carried out stays so.
LEMMA DaemonKeepsHeld ==
    ASSUME OwnInv, executed \subseteq executed',
           UNCHANGED <<wants, at, left, buffer, timeUp, answer, told>>
    PROVE  /\ Known' /\ OneActive' /\ HeldOwn' /\ ToldOwn' /\ Remaining' /\ Total(timeUp)'
           /\ \A s \in Sessions : Active(s)' <=> Active(s)
           /\ \A r, k : By(r, k) => By(r, k)'
           /\ \A r : Good(r) => Good(r)'
           /\ \A r : C(r.by)' = C(r.by) /\ Due(r)' = Due(r)
<1>1. \A s \in Sessions : \A r, p : GoodFor(s, r, p) => GoodFor(s, r, p)'
  BY DEF GoodFor, Good, RequestOf
<1>2. HeldOwn'
  <2>1. \A s \in Sessions : Port(s)' = Port(s)
    BY DEF Port
  <2> QED
    BY <1>1, <2>1 DEF OwnInv, HeldOwn
<1>3. ToldOwn'
  <2> SUFFICES ASSUME NEW s \in Sessions, NEW p \in DOMAIN told[s], NEW v, v = told[s][p]
               PROVE  /\ v.reply # Nothing => GoodFor(s, v.reply, p)'
                      /\ v.success /\ C(s).ok # "any" => v.reply # Nothing /\ v.reply.ok
                      /\ v.data # Nothing => v.data = RequestOf(s, p)
    BY DEF ToldOwn, C, RequestOf, GoodFor, Good
  <2> QED
    BY <1>1 DEF OwnInv, ToldOwn
<1>4. Known' /\ OneActive' /\ Remaining' /\ Total(timeUp)' /\ \A s \in Sessions : Active(s)' <=> Active(s)
  BY DEF OwnInv, Known, OneActive, Active, Remaining, Ports, Total
<1>5. \A r, k : By(r, k) => By(r, k)'
  BY ByKeeps
<1>6. /\ \A r : Good(r) => Good(r)'
      /\ \A r : C(r.by)' = C(r.by) /\ Due(r)' = Due(r)
  BY DEF Good, C, Due
<1> QED
  BY <1>2, <1>3, <1>4, <1>5, <1>6

\* A row that the daemon adds, which is no request and no argument.
LEMMA AddOwn ==
    ASSUME OwnInv, executed \subseteq executed',
           UNCHANGED <<wants, at, left, buffer, timeUp, answer, told>>,
           NEW key, NEW row, rows' = Put(rows, key, row),
           key = <<key[1], key[2], key[3]>>, key[2] \in {"res", "rsp"},
           key[2] = "res" => By(row, key) /\ \A s \in Sessions : Active(s) /\ key[1] = C(s).name => row.by = s,
           key[2] = "rsp" => /\ By(row.to, key) /\ Good(row)
                             /\ \A s \in Sessions : Active(s) /\ key[1] = C(s).name => row.to.by = s
    PROVE  /\ RowsShaped' /\ ArgsMatch'
           /\ \A s \in Sessions : Active(s) => \A k \in DOMAIN rows' : k[1] = C(s).name => OwnRow(s, k)'
<1>1. /\ DOMAIN rows' = DOMAIN rows \cup {key} /\ rows'[key] = row
      /\ \A k \in DOMAIN rows \ {key} : rows'[k] = rows[k]
  BY DEF Put
<1>2. RowsShaped'
  <2> SUFFICES ASSUME NEW k \in DOMAIN rows', NEW x, x = rows'[k]
               PROVE  /\ k = <<k[1], k[2], k[3]>>
                      /\ k[2] \in {"cmd", "res"} => By(x, k)'
                      /\ k[2] = "rsp" => By(x.to, k)' /\ Good(x)'
    BY DEF RowsShaped
  <2>1. /\ k = <<k[1], k[2], k[3]>>
        /\ k[2] \in {"cmd", "res"} => By(x, k)
        /\ k[2] = "rsp" => By(x.to, k) /\ Good(x)
    <3>1. CASE k = key
      BY <3>1, <1>1
    <3>2. CASE k # key
      BY <3>2, <1>1 DEF OwnInv, RowsShaped
    <3> QED
      BY <3>1, <3>2
  <2> QED
    BY <2>1, DaemonKeepsHeld
<1>3. ArgsMatch'
  <2> SUFFICES ASSUME NEW k \in DOMAIN rows', k[2] = "cmd", C(rows'[k].by).arg
               PROVE  ArgsOf(k)' = Due(rows'[k])
    BY DEF ArgsMatch, C, Due
  <2>1. k \in DOMAIN rows /\ rows'[k] = rows[k]
    BY <1>1
  <2>2. ArgOf(k)' = ArgOf(k) /\ ArgOf(k) # key
    BY DEF ArgOf
  <2>3. ArgsOf(k)' = ArgsOf(k)
    BY <1>1, <2>2 DEF ArgsOf
  <2> QED
    BY <2>1, <2>3 DEF OwnInv, ArgsMatch
<1>4. ASSUME NEW s \in Sessions, Active(s), NEW k \in DOMAIN rows', k[1] = C(s).name
      PROVE  OwnRow(s, k)'
  <2>1. CASE k = key
    BY <2>1, <1>1, <1>4 DEF OwnRow
  <2>2. CASE k # key
    <3>1. k \in DOMAIN rows /\ rows'[k] = rows[k]
      BY <2>2, <1>1
    <3>2. OwnRow(s, k)
      BY <3>1, <1>4 DEF OwnInv, OwnRows
    <3> QED
      BY <3>1, <3>2 DEF OwnRow, C, RequestOf
  <2> QED
    BY <2>1, <2>2
<1> QED
  BY <1>2, <1>3, <1>4

LEMMA TakeKeepsOwn == ASSUME Inv, OwnInv, Take PROVE OwnInv'
<1>1. /\ UNCHANGED <<wants, at, left, buffer, timeUp, answer, told, rows, events, executed>>
      /\ queue # <<>> /\ job = Nothing
  BY DEF Take, calls, session
<1> DEFINE k == Head(queue)
<1>2. k[2] = "cmd"
  BY <1>1, HeadTail DEF Inv, TypeInv, DaemonFits
<1>3. job' # Nothing => /\ k \in DOMAIN rows
                        /\ job' = [name |-> k[1], port |-> k[3], to |-> rows[k], ok |-> {}, args |-> ArgsOf(k)]
  BY DEF Take, ArgsOf, ArgOf
<1> HIDE DEF k
<1>4. ASSUME job' # Nothing
      PROVE  /\ DOMAIN job' = {"name", "port", "to", "ok", "args"} /\ job'.ok = {}
             /\ job'.name = k[1] /\ job'.to = rows[k] /\ By(job'.to, <<job'.name, "cmd", job'.port>>)
             /\ C(job'.to.by).arg => job'.args = Due(job'.to)
  <2>1. /\ DOMAIN job' = {"name", "port", "to", "ok", "args"} /\ job'.ok = {}
        /\ job'.name = k[1] /\ job'.port = k[3] /\ job'.to = rows[k] /\ job'.args = ArgsOf(k)
    BY <1>3, <1>4
  <2>2. By(rows[k], k) /\ k = <<k[1], k[2], k[3]>>
    BY <1>2, <1>3, <1>4 DEF OwnInv, RowsShaped
  <2>3. C(rows[k].by).arg => ArgsOf(k) = Due(rows[k])
    BY <1>2, <1>3, <1>4 DEF OwnInv, ArgsMatch
  <2> QED
    BY <1>2, <2>1, <2>2, <2>3
<1>5. JobShaped'
  <2> SUFFICES ASSUME NEW j, j = job', j # Nothing
               PROVE  /\ DOMAIN j = {"name", "port", "to", "ok", "args"}
                      /\ By(j.to, <<j.name, "cmd", j.port>>)'
                      /\ TRUE \in j.ok => \E e \in executed' : e.to = j.to /\ e.ok
                      /\ C(j.to.by).arg => j.args = Due(j.to)
    BY <1>1 DEF JobShaped, C, Due
  <2> QED
    BY <1>1, <1>4, DaemonKeepsHeld
<1>6. OwnRows'
  <2> SUFFICES ASSUME NEW s \in Sessions, Active(s)
               PROVE  /\ \A x \in DOMAIN rows : x[1] = C(s).name => OwnRow(s, x)'
                      /\ job' # Nothing /\ job'.name = C(s).name => job'.to.by = s
    BY <1>1 DEF OwnRows, Active, C
  <2>1. \A x : OwnRow(s, x) => OwnRow(s, x)'
    BY <1>1 DEF OwnRow, C, RequestOf
  <2>2. job' # Nothing /\ job'.name = C(s).name => job'.to.by = s
    BY <1>2, <1>3, <1>4 DEF OwnInv, OwnRows, OwnRow
  <2> QED
    BY <2>1, <2>2 DEF OwnInv, OwnRows
<1>7. RowsShaped' /\ ArgsMatch' /\ ExecutedOwn'
  BY <1>1 DEF OwnInv, RowsShaped, ArgsMatch, ArgsOf, ArgOf, ExecutedOwn, By, Good, C, Due, RequestOf
<1> QED
  BY <1>1, <1>5, <1>6, <1>7, DaemonKeepsHeld DEF OwnInv, Total

LEMMA ExecuteKeepsOwn == ASSUME Inv, OwnInv, Execute PROVE OwnInv'
<1> DEFINE key == <<job.name, "res", job.port>>
<1>1. /\ UNCHANGED <<wants, at, left, buffer, timeUp, answer, told, events>> /\ job # Nothing
      /\ rows' = IF C(job.to.by).res THEN Put(rows, key, job.to) ELSE rows
  BY DEF Execute, calls, session
<1>2. PICK ok \in BOOLEAN : /\ job' = [job EXCEPT !.ok = {ok}]
                            /\ executed' = executed \cup {[to |-> job.to, ok |-> ok, args |-> job.args]}
  BY DEF Execute
<1>3. /\ DOMAIN job = {"name", "port", "to", "ok", "args"}
      /\ By(job.to, <<job.name, "cmd", job.port>>)
      /\ C(job.to.by).arg => job.args = Due(job.to)
  BY <1>1 DEF OwnInv, JobShaped
<1>4. /\ DOMAIN job' = DOMAIN job /\ job'.name = job.name /\ job'.port = job.port /\ job'.to = job.to
      /\ job'.args = job.args /\ job'.ok = {ok}
  BY <1>2, <1>3
<1>5. executed \subseteq executed'
  BY <1>2
<1>6. JobShaped'
  <2> SUFFICES ASSUME NEW j, j = job', j # Nothing
               PROVE  /\ DOMAIN j = {"name", "port", "to", "ok", "args"}
                      /\ By(j.to, <<j.name, "cmd", j.port>>)'
                      /\ TRUE \in j.ok => \E e \in executed' : e.to = j.to /\ e.ok
                      /\ C(j.to.by).arg => j.args = Due(j.to)
    BY <1>1 DEF JobShaped, C, Due
  <2>1. TRUE \in j.ok => \E e \in executed' : e.to = j.to /\ e.ok
    <3> SUFFICES ASSUME ok = TRUE PROVE \E e \in executed' : e.to = j.to /\ e.ok
      BY <1>4
    <3> DEFINE e == [to |-> job.to, ok |-> ok, args |-> job.args]
    <3>1. e \in executed' /\ e.to = j.to /\ e.ok
      BY <1>2, <1>4
    <3> QED
      BY <3>1
  <2> QED
    BY <1>1, <1>3, <1>4, <1>5, <2>1, DaemonKeepsHeld
<1>7. ExecutedOwn'
  <2> SUFFICES ASSUME NEW e \in executed', C(e.to.by).arg PROVE e.args = Due(e.to)
    BY <1>1 DEF ExecutedOwn, C, Due
  <2>1. CASE e \in executed
    BY <2>1 DEF OwnInv, ExecutedOwn
  <2>2. CASE e = [to |-> job.to, ok |-> ok, args |-> job.args]
    BY <2>2, <1>3
  <2> QED
    BY <1>2, <2>1, <2>2
<1>8. RowsShaped' /\ ArgsMatch' /\ \A s \in Sessions : Active(s) => \A k \in DOMAIN rows' : k[1] = C(s).name => OwnRow(s, k)'
  <2>1. CASE C(job.to.by).res
    <3>1. /\ key = <<key[1], key[2], key[3]>> /\ key[1] = job.name /\ key[2] = "res" /\ key[3] = job.port
      OBVIOUS
    <3>2. By(job.to, key) /\ \A s \in Sessions : Active(s) /\ job.name = C(s).name => job.to.by = s
      BY <1>1, <1>3 DEF By, OwnInv, OwnRows
    <3> HIDE DEF key
    <3> QED
      BY <1>1, <1>5, <2>1, <3>1, <3>2, AddOwn
  <2>2. CASE ~C(job.to.by).res
    <3>1. rows' = rows
      BY <1>1, <2>2
    <3>2. RowsShaped'
      BY <1>1, <1>5, <3>1, DaemonKeepsHeld DEF OwnInv, RowsShaped
    <3>3. ArgsMatch'
      <4>1. \A k : ArgsOf(k)' = ArgsOf(k)
        BY <3>1 DEF ArgsOf, ArgOf
      <4> QED
        BY <1>1, <3>1, <4>1 DEF OwnInv, ArgsMatch, Due, C
    <3>4. \A s \in Sessions : \A k : OwnRow(s, k) => OwnRow(s, k)'
      BY <1>1, <3>1 DEF C, OwnRow, RequestOf
    <3> QED
      BY <3>1, <3>2, <3>3, <3>4 DEF OwnInv, OwnRows
  <2> QED
    BY <2>1, <2>2
<1>9. OwnRows'
  <2>1. \A s \in Sessions : Active(s) /\ job'.name = C(s).name => job'.to.by = s
    BY <1>1, <1>4 DEF OwnInv, OwnRows
  <2> QED
    BY <1>1, <1>8, <2>1 DEF OwnRows, Active, C
<1> QED
  BY <1>1, <1>5, <1>6, <1>7, <1>8, <1>9, DaemonKeepsHeld DEF OwnInv, Total

LEMMA AnswerKeepsOwn == ASSUME Inv, OwnInv, Answer PROVE OwnInv'
<1> DEFINE key == <<job.name, "rsp", job.port>>
           row == [to |-> job.to, ok |-> TRUE \in job.ok, during |-> {s \in Sessions : Active(s)}]
<1>1. /\ UNCHANGED <<wants, at, left, buffer, timeUp, answer, told, executed>> /\ job # Nothing /\ job' = Nothing
      /\ rows' = Put(rows, key, row) /\ events' = Tell(events, {key}, "set")
  BY DEF Answer, calls
<1>2. /\ By(job.to, <<job.name, "cmd", job.port>>)
      /\ TRUE \in job.ok => \E e \in executed : e.to = job.to /\ e.ok
      /\ \A s \in Sessions : Active(s) /\ job.name = C(s).name => job.to.by = s
  BY <1>1 DEF OwnInv, JobShaped, OwnRows
<1>3. key = <<key[1], key[2], key[3]>> /\ key[1] = job.name /\ key[2] = "rsp" /\ key[3] = job.port
  OBVIOUS
<1>4. By(row.to, key) /\ Good(row) /\ \A s \in Sessions : Active(s) /\ key[1] = C(s).name => row.to.by = s
  <2>1. row.to = job.to /\ (row.ok <=> TRUE \in job.ok) /\ DOMAIN row = {"to", "ok", "during"}
    OBVIOUS
  <2> HIDE DEF row
  <2>2. By(row.to, key)
    BY <1>2, <2>1, <1>3 DEF By
  <2> QED
    BY <1>2, <1>3, <2>1, <2>2 DEF Good
<1>5. Total(events)'
  <2> DEFINE keys == {key}
  <2>1. events' = Tell(events, keys, "set")
    BY <1>1
  <2> HIDE DEF keys
  <2>2. events' = [t \in Sessions |-> events'[t]]
    BY <2>1, TellTotal
  <2> QED
    BY <2>2 DEF Total
<1> HIDE DEF key, row
<1>6. RowsShaped' /\ ArgsMatch' /\ \A s \in Sessions : Active(s) => \A k \in DOMAIN rows' : k[1] = C(s).name => OwnRow(s, k)'
  BY <1>1, <1>3, <1>4, AddOwn
<1>7. OwnRows' /\ JobShaped' /\ ExecutedOwn'
  BY <1>1, <1>6 DEF OwnInv, OwnRows, Active, C, JobShaped, ExecutedOwn, Due
<1> QED
  BY <1>1, <1>5, <1>6, <1>7, DaemonKeepsHeld DEF OwnInv

LEMMA RestartKeepsOwn == ASSUME Inv, OwnInv, Decline \/ Restart PROVE OwnInv'
<1>1. UNCHANGED <<wants, at, left, buffer, timeUp, answer, told, executed, rows, events>> /\ job' = Nothing
  BY DEF Decline, Restart, calls, session
<1>2. OwnRows' /\ JobShaped' /\ ExecutedOwn'
  BY <1>1 DEF OwnInv, OwnRows, OwnRow, Active, C, JobShaped, ExecutedOwn, Due, RequestOf
<1>3. RowsShaped' /\ ArgsMatch'
  BY <1>1 DEF OwnInv, RowsShaped, ArgsMatch, ArgsOf, ArgOf, By, Good, C, Due, RequestOf
<1> QED
  BY <1>1, <1>2, <1>3, DaemonKeepsHeld DEF OwnInv, Total

LEMMA InitOwn == Init => OwnInv
<1> SUFFICES ASSUME Init PROVE OwnInv
  OBVIOUS
<1>1. PICK c \in Scenarios : wants = c.wants
  BY DEF Init
<1>2. /\ DOMAIN rows = {} /\ executed = {} /\ job = Nothing
      /\ \A s \in Sessions : /\ at[s] = "new" /\ left[s] = wants[s].ports /\ buffer[s] = <<>>
                             /\ answer[s] = Nothing /\ DOMAIN told[s] = {}
      /\ Total(events) /\ Total(timeUp)
  BY DEF Init, Total
<1>3. Remaining
  <2> SUFFICES ASSUME NEW s \in Sessions
               PROVE  /\ Listed(left[s]) /\ left[s] # <<>>
                      /\ \A i \in DOMAIN left[s] : left[s][i] \in Ports(s) \ DOMAIN told[s]
                      /\ \A i, j \in DOMAIN left[s] : left[s][i] = left[s][j] => i = j
    BY DEF Remaining
  <2> DEFINE ports == c.wants[s].ports
  <2>1. ports \in Seq(MuxPorts) /\ ports # <<>> /\ \A i, j \in DOMAIN ports : ports[i] = ports[j] => i = j
    BY PortsAssumption
  <2>2. left[s] = ports /\ wants[s].ports = ports
    BY <1>1, <1>2
  <2> HIDE DEF ports
  <2> QED
    BY <1>2, <2>1, <2>2 DEF Ports, Listed
<1>4. Known /\ RowsShaped /\ ArgsMatch /\ JobShaped /\ OneActive /\ OwnRows /\ HeldOwn /\ ToldOwn /\ ExecutedOwn
  BY <1>1, <1>2 DEF Known, RowsShaped, ArgsMatch, JobShaped, OneActive, OwnRows, HeldOwn, ToldOwn, ExecutedOwn, Active
<1> QED
  BY <1>2, <1>3, <1>4 DEF OwnInv

\* One step, in an orderly run.
LEMMA StepKeepsOwn == ASSUME Inv, OwnInv, orderly, [Next]_vars PROVE OwnInv'
<1>1. ASSUME NEW s \in Sessions, Begin(s) \/ Step(s) \/ TimeUp(s) \/ Kill(s) PROVE OwnInv'
  BY <1>1, BeginKeepsOwn, OpenKeepsOwn, AskKeepsOwn, TimeKeepsOwn, PopKeepsOwn, ReportKeepsOwn, KillKeepsOwn DEF Step
<1>2. ASSUME Take \/ Execute \/ Answer \/ Decline \/ Restart PROVE OwnInv'
  BY <1>2, TakeKeepsOwn, ExecuteKeepsOwn, AnswerKeepsOwn, RestartKeepsOwn
<1>3. CASE UNCHANGED vars
  <2>1. UNCHANGED <<wants, at, left, buffer, timeUp, answer, told, executed, rows, events, job>>
    BY <1>3 DEF vars, calls, session, daemon
  <2>2. OwnRows' /\ JobShaped' /\ ExecutedOwn'
    BY <2>1, ByKeeps DEF OwnInv, OwnRows, OwnRow, Active, C, ExecutedOwn, Due, RequestOf
  <2>3. RowsShaped' /\ ArgsMatch'
    BY <2>1 DEF OwnInv, RowsShaped, ArgsMatch, ArgsOf, ArgOf, By, Good, C, Due, RequestOf
  <2> QED
    BY <2>1, <2>2, <2>3, DaemonKeepsHeld DEF OwnInv, Total
<1> QED
  BY <1>1, <1>2, <1>3 DEF Next

LEMMA OwnAnswers == OwnInv => AnswersOwn
<1> SUFFICES ASSUME OwnInv PROVE AnswersOwn
  OBVIOUS
<1>1. ASSUME NEW s \in Sessions, NEW p \in MuxPorts, p \in DOMAIN told[s]
      PROVE  /\ Heard(s, p) => told[s][p].reply.to = RequestOf(s, p)
             /\ Heard(s, p) /\ told[s][p].success /\ C(s).ok # "any" =>
                    \E e \in executed : e.to = RequestOf(s, p) /\ e.ok
             /\ told[s][p].data # Nothing => told[s][p].data = RequestOf(s, p)
  BY <1>1 DEF OwnInv, ToldOwn, Heard, GoodFor, Good
<1>2. \A e \in executed : C(e.to.by).arg => e.args = [f \in C(e.to.by).params |-> e.to]
  BY DEF OwnInv, ExecutedOwn, Due
<1> QED
  BY <1>1, <1>2 DEF AnswersOwn, Heard
-----------------------------------------------------------------------------
(* OwnReply, when the daemon does not restart: it and the session take turns *)

Quiet == queue = <<>> /\ job = Nothing
NoAnswer(s) == Answers(C(s).name) = {}
Unheard(s) == \A e \in executed : e.to # RequestOf(s, Port(s))
\* Nothing is asked of the daemon: not yet, or it has declined.
Ready(s) == Quiet /\ NoAnswer(s) /\ events[s] = <<>> /\ buffer[s] = <<>> /\ Unheard(s)
Requested(s) ==
    LET cmd == <<C(s).name, "cmd", Port(s)>>
    IN  /\ queue = <<cmd>> /\ job = Nothing
        /\ cmd \in DOMAIN rows /\ rows[cmd] = RequestOf(s, Port(s))
        /\ NoAnswer(s) /\ events[s] = <<>> /\ Unheard(s)
Busy(s) ==
    /\ queue = <<>> /\ job # Nothing
    /\ job.name = C(s).name /\ job.port = Port(s) /\ job.to = RequestOf(s, Port(s))
    /\ NoAnswer(s) /\ events[s] = <<>> /\ (job.ok = {} => Unheard(s))
Answered(s) ==
    /\ Quiet /\ <<C(s).name, "rsp", Port(s)>> \in DOMAIN rows
    /\ events[s] = <<[port |-> Port(s), op |-> "set"]>>
Done(s) == Quiet /\ NoAnswer(s) /\ (answer[s] = Nothing => Unheard(s))

Turn(s) ==
    /\ at[s] \in {"new", "open", "ask", "wait", "report", "ended"}
    /\ at[s] \in {"open", "ask"} => Ready(s)
    /\ at[s] = "wait" =>
          /\ buffer[s] = <<>> /\ (Requested(s) \/ Busy(s) \/ Answered(s) \/ Ready(s))
          /\ timeUp[s] => Ready(s)
    /\ at[s] = "report" => Done(s)
    /\ timeUp[s] => at[s] \in {"wait", "report"}
    /\ ~Active(s) => events[s] = <<>> /\ buffer[s] = <<>>
Turns == \A s \in Sessions : Turn(s)

\* What the daemon has yet to do is not reported yet, and what it did was asked.
PendingUntold ==
    /\ job # Nothing => job.to.port \notin DOMAIN told[job.to.by]
    /\ \A i \in DOMAIN queue :
          queue[i] \in DOMAIN rows => rows[queue[i]].port \notin DOMAIN told[rows[queue[i]].by]
ExecutedAsked ==
    \A s \in Sessions : at[s] # "ended" =>
        \A e \in executed : e.to.by = s =>
            e.to.port \in DOMAIN told[s] \cup (IF at[s] \in {"wait", "report"} THEN {Port(s)} ELSE {})
Silent ==
    \A s \in Sessions : \A p \in DOMAIN told[s] :
        told[s][p].reply = Nothing => \A e \in executed : e.to # RequestOf(s, p)
\* Nothing is left when the last of them ends, if none was stopped.
Shared == {tbl \in UNION {C(s).after : s \in Sessions} : \A s \in Sessions : tbl \in C(s).after}
Over ==
    /\ \A s \in Sessions : ~Active(s) /\ ~Killed(s)
    /\ \E s \in Sessions : at[s] = "ended"
Cleared == Over => Quiet /\ KeysIn(Shared) = {}

TurnsInv == Turns /\ PendingUntold /\ ExecutedAsked /\ Silent /\ Cleared

\* Who does not listen is told of nothing; who listens, of the change of one answer.
LEMMA TellNone ==
    ASSUME NEW ev, NEW keys, NEW op, NEW s \in Sessions, ev[s] = <<>>,
           \A k \in keys : ~(k[2] = "rsp" /\ Listens(s, k[1]))
    PROVE  Tell(ev, keys, op)[s] = <<>>
<1> DEFINE S(t) == {k \in keys : k[2] = "rsp" /\ Listens(t, k[1])}
           order(t) == CHOOSE q \in Orders(S(t)) : TRUE
           h(t) == ev[t] \o [i \in DOMAIN order(t) |-> [port |-> order(t)[i][3], op |-> op]]
<1>1. Tell(ev, keys, op) = [t \in Sessions |-> h(t)]
  BY Zenon DEF Tell
<1>2. S(s) = {}
  OBVIOUS
<1>3. DOMAIN order(s) = {}
  <2>1. \E q : q \in Orders({})
    <3>1. Cardinality({}) = 0
      BY FS_EmptySet
    <3>2. [i \in {} |-> i] \in [1 .. 0 -> {}]
      OBVIOUS
    <3> QED
      BY <3>1, <3>2 DEF Orders
  <2>2. order(s) \in Orders({})
    BY <1>2, <2>1
  <2>3. order(s) \in [1 .. 0 -> {}]
    BY <2>2, FS_EmptySet DEF Orders
  <2> QED
    BY <2>3
<1> HIDE DEF order
<1>4. h(s) = <<>>
  <2>1. [i \in DOMAIN order(s) |-> [port |-> order(s)[i][3], op |-> op]] = <<>>
    BY <1>3
  <2>2. <<>> \o <<>> = <<>>
    OBVIOUS
  <2> QED
    BY <2>1, <2>2
<1> HIDE DEF h
<1> QED
  BY <1>1, <1>4

LEMMA TellOne ==
    ASSUME NEW ev, NEW keys, NEW key, NEW op, NEW s \in Sessions, ev[s] = <<>>, keys = {key}, key[2] = "rsp",
           Listens(s, key[1])
    PROVE  Tell(ev, keys, op)[s] = <<[port |-> key[3], op |-> op]>>
<1> DEFINE S(t) == {k \in keys : k[2] = "rsp" /\ Listens(t, k[1])}
           order(t) == CHOOSE q \in Orders(S(t)) : TRUE
           h(t) == ev[t] \o [i \in DOMAIN order(t) |-> [port |-> order(t)[i][3], op |-> op]]
<1>1. Tell(ev, keys, op) = [t \in Sessions |-> h(t)]
  BY Zenon DEF Tell
<1>2. S(s) = {key}
  OBVIOUS
<1>3. order(s) = [i \in 1 .. 1 |-> key]
  <2>1. Cardinality({key}) = 1
    BY FS_Singleton
  <2>2. [i \in 1 .. 1 |-> key] \in Orders({key})
    BY <2>1 DEF Orders
  <2>3. order(s) \in Orders({key})
    BY <1>2, <2>2
  <2>4. order(s) \in [1 .. 1 -> {key}]
    BY <2>1, <2>3 DEF Orders
  <2> QED
    BY <2>4
<1> HIDE DEF order
<1>4. h(s) = <<[port |-> key[3], op |-> op]>>
  <2>1. [i \in DOMAIN order(s) |-> [port |-> order(s)[i][3], op |-> op]] = <<[port |-> key[3], op |-> op]>>
    BY <1>3
  <2> DEFINE e == [port |-> key[3], op |-> op]
  <2> HIDE DEF e
  <2>2. <<>> \o <<e>> = <<e>>
    OBVIOUS
  <2> QED
    BY <2>1, <2>2 DEF e
<1> HIDE DEF h
<1> QED
  BY <1>1, <1>4

Apart == Inv /\ OwnInv /\ TurnsInv /\ orderly /\ daemonIs = "up"

LEMMA Others ==
    ASSUME Apart, NEW s \in Sessions, Active(s)
    PROVE  \A t \in Sessions \ {s} : ~Active(t) /\ events[t] = <<>> /\ buffer[t] = <<>> /\ ~timeUp[t]
BY DEF Apart, OwnInv, OneActive, TurnsInv, Turns, Turn, Active

\* The port a session is at.
LEMMA PortLeft ==
    ASSUME OwnInv, NEW s \in Sessions, at[s] # "ended"
    PROVE  Port(s) = left[s][1] /\ 1 \in DOMAIN left[s] /\ Port(s) \in Ports(s) /\ Port(s) \notin DOMAIN told[s]
BY HeadTail DEF OwnInv, Remaining, Port

LEMMA NotYetHeard ==
    ASSUME Apart, NEW s \in Sessions, at[s] \in {"new", "open", "ask"}
    PROVE  Unheard(s)
BY PortLeft DEF Apart, TurnsInv, ExecutedAsked, Unheard, RequestOf

LEMMA BeginTurns == ASSUME Apart, NEW s \in Sessions, Begin(s) PROVE TurnsInv'
<1> USE DEF Apart
<1> DEFINE keys == KeysIn(C(s).before)
<1>1. /\ UNCHANGED <<wants, left, buffer, timeUp, told, executed, queue, job>>
      /\ rows' = Drop(keys) /\ at[s] = "new" /\ at' = [at EXCEPT ![s] = "open"]
      /\ queue = <<>> /\ job = Nothing /\ ~\E t \in Sessions : Active(t)
      /\ events' = Tell(events, keys, "del")
  BY DEF Begin, calls, daemon
<1>2. at'[s] = "open" /\ \A t \in Sessions \ {s} : at'[t] = at[t]
  BY <1>1 DEF Inv, TypeInv, Total
<1>3. NoAnswer(s)'
  <2>1. DOMAIN rows' = DOMAIN rows \ keys
    BY <1>1 DEF Drop
  <2>2. <<C(s).name, "rsp">> \in C(s).before /\ C(s)' = C(s)
    BY <1>1, CommandsClear DEF OwnInv, C
  <2> QED
    BY <2>1, <2>2 DEF NoAnswer, Answers, KeysIn
<1> HIDE DEF keys
<1>4. \A t \in Sessions : events[t] = <<>> /\ buffer[t] = <<>> /\ ~timeUp[t]
  BY <1>1 DEF TurnsInv, Turns, Turn, Active
<1>5. \A t \in Sessions : events'[t] = <<>>
  <2> SUFFICES ASSUME NEW t \in Sessions PROVE events'[t] = <<>>
    OBVIOUS
  <2>1. \A k \in keys : ~Listens(t, k[1])
    BY <1>1 DEF Listens, Active
  <2> QED
    BY <1>1, <1>4, <2>1, TellNone
<1>6. Unheard(s)'
  BY <1>1, NotYetHeard DEF Unheard, Port, RequestOf
<1>7. Turns'
  <2>1. Turn(s)'
    BY <1>1, <1>2, <1>3, <1>4, <1>5, <1>6 DEF Turn, Ready, Quiet, Active
  <2>2. ASSUME NEW t \in Sessions \ {s} PROVE Turn(t)'
    BY <1>1, <1>2, <1>4, <1>5 DEF Turn, Active
  <2> QED
    BY <2>1, <2>2 DEF Turns
<1>8. PendingUntold' /\ Silent'
  BY <1>1 DEF TurnsInv, PendingUntold, Silent, RequestOf
<1>9. ExecutedAsked'
  BY <1>1, <1>2 DEF TurnsInv, ExecutedAsked, Port
<1>10. Cleared'
  BY <1>2 DEF Cleared, Over, Active
<1> QED
  BY <1>7, <1>8, <1>9, <1>10 DEF TurnsInv

LEMMA OpenTurns == ASSUME Apart, NEW s \in Sessions, Open(s) PROVE TurnsInv'
<1> USE DEF Apart
<1> DEFINE there == Answers(C(s).name)
<1>1. /\ UNCHANGED <<wants, left, timeUp, answer, told, executed, queue, job>>
      /\ rows' = Drop(there) /\ Active(s) /\ at' = [at EXCEPT ![s] = "ask"] /\ at[s] = "open"
  BY DEF Open, calls, daemon, Active
<1>2. PICK q \in Orders(there) :
        /\ buffer' = [buffer EXCEPT ![s] = [i \in DOMAIN q |-> [port |-> q[i][3], row |-> rows[q[i]]]]]
        /\ events' = [Tell(events, there, "del") EXCEPT ![s] = [i \in DOMAIN q |-> [port |-> q[i][3], op |-> "del"]]]
  BY DEF Open
<1>3. Ready(s)
  BY <1>1 DEF TurnsInv, Turns, Turn
<1>4. there = {}
  BY <1>3 DEF Ready, NoAnswer
<1>5. DOMAIN q = {}
  <2>1. q \in [1 .. 0 -> {}]
    BY <1>4, FS_EmptySet DEF Orders
  <2> QED
    BY <2>1
<1>6. DOMAIN rows' = DOMAIN rows
  BY <1>1, <1>4 DEF Drop
<1> HIDE DEF there
<1>7. at'[s] = "ask" /\ \A t \in Sessions \ {s} : at'[t] = at[t]
  BY <1>1 DEF Inv, TypeInv, Total
<1>8. buffer'[s] = <<>> /\ \A t \in Sessions \ {s} : buffer'[t] = buffer[t]
  BY <1>2, <1>5 DEF Inv, TypeInv, Total
<1>9. events'[s] = <<>> /\ \A t \in Sessions \ {s} : events'[t] = events[t]
  <2> DEFINE g == Tell(events, there, "del")
             mine == [i \in DOMAIN q |-> [port |-> q[i][3], op |-> "del"]]
  <2>1. g = [t \in Sessions |-> g[t]]
    BY TellTotal
  <2>2. \A t \in Sessions \ {s} : g[t] = events[t]
    <3> SUFFICES ASSUME NEW t \in Sessions \ {s} PROVE g[t] = events[t]
      OBVIOUS
    <3>1. events[t] = <<>>
      BY <1>1, Others
    <3>2. \A k \in there : ~(k[2] = "rsp" /\ Listens(t, k[1]))
      BY <1>4
    <3> QED
      BY <3>1, <3>2, TellNone
  <2>3. mine = <<>>
    BY <1>5
  <2>4. events' = [g EXCEPT ![s] = mine]
    BY <1>2
  <2> HIDE DEF g, mine
  <2> QED
    BY <2>1, <2>2, <2>3, <2>4
<1>10. Turns'
  <2>1. Turn(s)'
    <3>1. NoAnswer(s)' /\ Unheard(s)'
      BY <1>1, <1>3, <1>6 DEF Ready, NoAnswer, Answers, KeysIn, Unheard, Port, C, RequestOf
    <3>2. Ready(s)' /\ ~timeUp'[s]
      BY <1>1, <1>3, <1>8, <1>9, <3>1 DEF Ready, Quiet, TurnsInv, Turns, Turn
    <3> QED
      BY <1>7, <3>2 DEF Turn, Active
  <2>2. ASSUME NEW t \in Sessions \ {s} PROVE Turn(t)'
    BY <1>1, <1>7, <1>8, <1>9, Others DEF Turn, Active
  <2> QED
    BY <2>1, <2>2 DEF Turns
<1>11. PendingUntold' /\ Silent'
  BY <1>1, <1>3 DEF TurnsInv, PendingUntold, Silent, RequestOf, Ready, Quiet
<1>12. ExecutedAsked'
  BY <1>1, <1>7 DEF TurnsInv, ExecutedAsked, Port
<1>13. Cleared'
  BY <1>7 DEF Cleared, Over, Active
<1> QED
  BY <1>10, <1>11, <1>12, <1>13 DEF TurnsInv

LEMMA AskTurns == ASSUME Apart, NEW s \in Sessions, Ask(s) PROVE TurnsInv'
<1> USE DEF Apart
<1> DEFINE p == Port(s)
           arg == <<C(s).name, "arg", p>>
           cmd == <<C(s).name, "cmd", p>>
<1>1. /\ UNCHANGED <<wants, left, events, buffer, timeUp, answer, told, job, executed>>
      /\ Active(s) /\ at[s] = "ask" /\ at' = [at EXCEPT ![s] = "wait"]
      /\ queue' = Append(queue, cmd)
  BY DEF Ask, calls, Active
<1>2. PICK given : rows' = Put(IF C(s).params = {} THEN rows ELSE Put(rows, arg, given), cmd, RequestOf(s, p))
  BY DEF Ask
<1>3. Ready(s)
  BY <1>1 DEF TurnsInv, Turns, Turn
<1>4. cmd[2] = "cmd" /\ arg[2] = "arg"
  OBVIOUS
<1>5. queue' = <<cmd>> /\ job' = Nothing
  <2> HIDE DEF cmd
  <2>1. Append(<<>>, cmd) = <<cmd>>
    OBVIOUS
  <2> QED
    BY <1>1, <1>3, <2>1 DEF Ready, Quiet
<1>6. cmd \in DOMAIN rows' /\ rows'[cmd] = RequestOf(s, p) /\ DOMAIN rows' \subseteq DOMAIN rows \cup {cmd, arg}
  <2> HIDE DEF cmd, arg
  <2> QED
    BY <1>2 DEF Put
<1>7. at'[s] = "wait" /\ \A t \in Sessions \ {s} : at'[t] = at[t]
  BY <1>1 DEF Inv, TypeInv, Total
<1>8. NoAnswer(s)'
  <2>1. \A k \in DOMAIN rows' : k[2] = "rsp" => k \in DOMAIN rows
    BY <1>4, <1>6
  <2>2. C(s)' = C(s)
    BY <1>1 DEF C
  <2> QED
    BY <1>3, <2>1, <2>2 DEF Ready, NoAnswer, Answers, KeysIn
<1>9. Turns'
  <2>1. Turn(s)'
    <3>1. Port(s)' = Port(s) /\ C(s)' = C(s) /\ ~timeUp'[s]
      BY <1>1 DEF Port, C, TurnsInv, Turns, Turn
    <3>2. Requested(s)' /\ buffer'[s] = <<>>
      BY <1>1, <1>3, <1>5, <1>6, <1>8, <3>1 DEF Ready, Requested, Unheard, RequestOf
    <3> QED
      BY <1>7, <3>1, <3>2 DEF Turn, Active
  <2>2. ASSUME NEW t \in Sessions \ {s} PROVE Turn(t)'
    BY <1>1, <1>7, Others DEF Turn, Active
  <2> QED
    BY <2>1, <2>2 DEF Turns
<1>10. PendingUntold'
  <2>1. p \notin DOMAIN told[s]
    BY <1>1, PortLeft
  <2>2. \A i \in DOMAIN queue' : queue'[i] = cmd
    BY <1>5
  <2> HIDE DEF cmd
  <2>3. \A i \in DOMAIN queue' : rows'[queue'[i]] = RequestOf(s, p)
    BY <1>6, <2>2
  <2> QED
    BY <1>1, <1>5, <2>1, <2>3 DEF PendingUntold, RequestOf
<1>11. Silent'
  BY <1>1 DEF TurnsInv, Silent, RequestOf
<1>12. ExecutedAsked'
  BY <1>1, <1>7 DEF TurnsInv, ExecutedAsked, Port
<1>13. Cleared'
  BY <1>7 DEF Cleared, Over, Active
<1> QED
  BY <1>9, <1>10, <1>11, <1>12, <1>13 DEF TurnsInv

LEMMA TimeTurns == ASSUME Apart, NEW s \in Sessions, TimeUp(s) \/ GiveUp(s) PROVE TurnsInv'
<1> USE DEF Apart
<1>1. /\ UNCHANGED <<wants, rows, left, events, buffer, answer, told, executed, queue, job>>
      /\ at[s] = "wait" /\ Active(s)
      /\ \A t \in Sessions \ {s} : at'[t] = at[t] /\ timeUp'[t] = timeUp[t]
      /\ at'[s] \in {"wait", "report"}
  BY DEF TimeUp, GiveUp, calls, daemon, Active, Inv, OwnInv, TypeInv, Total
<1>2. Ready(s) /\ buffer[s] = <<>>
  <2>1. CASE TimeUp(s)
    <3>1. queue = <<>> /\ job = Nothing /\ events[s] = <<>>
      BY <2>1 DEF TimeUp
    <3>2. ~Requested(s) /\ ~Busy(s) /\ ~Answered(s)
      BY <3>1 DEF Requested, Busy, Answered
    <3> QED
      BY <1>1, <3>2 DEF TurnsInv, Turns, Turn
  <2>2. CASE GiveUp(s)
    BY <2>2, <1>1 DEF GiveUp, TurnsInv, Turns, Turn
  <2> QED
    BY <2>1, <2>2
<1>3. Ready(s)' /\ Done(s)'
  BY <1>1, <1>2 DEF Ready, Done, Quiet, NoAnswer, Answers, KeysIn, Unheard, Port, C, RequestOf
<1>4. Turns'
  <2>1. Turn(s)'
    BY <1>1, <1>2, <1>3 DEF Turn, Active
  <2>2. ASSUME NEW t \in Sessions \ {s} PROVE Turn(t)'
    BY <1>1, Others DEF Turn, Active
  <2> QED
    BY <2>1, <2>2 DEF Turns
<1>5. PendingUntold' /\ Silent'
  BY <1>1 DEF TurnsInv, PendingUntold, Silent, RequestOf
<1>6. ExecutedAsked'
  BY <1>1 DEF TurnsInv, ExecutedAsked, Port
<1>7. Cleared'
  BY <1>1 DEF Cleared, Over, Active
<1> QED
  BY <1>4, <1>5, <1>6, <1>7 DEF TurnsInv

LEMMA PoppedNow ==
    ASSUME NEW s \in Sessions, buffer[s] = <<>>, NEW x \in Popped(s)
    PROVE  \E n \in 1 .. Len(events[s]) : \E q \in InOrder(Found(s, n)) :
               x.items = [i \in DOMAIN q |-> Item(s, events[s][q[i]])]
BY DEF Popped

\* With one answer to read, that is what is popped.
LEMMA PopAnswer ==
    ASSUME NEW s \in Sessions, buffer[s] = <<>>, NEW p, events[s] = <<[port |-> p, op |-> "set"]>>,
           <<C(s).name, "rsp", p>> \in DOMAIN rows, NEW x \in Popped(s)
    PROVE  x.items # <<>> /\ Head(x.items) = [port |-> p, row |-> rows[<<C(s).name, "rsp", p>>]]
<1>0. PICK n \in 1 .. Len(events[s]) : \E q \in InOrder(Found(s, n)) :
          x.items = [i \in DOMAIN q |-> Item(s, events[s][q[i]])]
  BY PoppedNow
<1>1. PICK q \in InOrder(Found(s, n)) : x.items = [i \in DOMAIN q |-> Item(s, events[s][q[i]])]
  BY <1>0
<1>2. Len(events[s]) = 1 /\ events[s][1] = [port |-> p, op |-> "set"]
  OBVIOUS
<1>3. n = 1
  BY <1>2
<1>4. Found(s, n) = {1}
  BY <1>2, <1>3 DEF Found
<1>5. q = [i \in 1 .. 1 |-> 1]
  <2>1. Cardinality({1}) = 1
    BY FS_Singleton
  <2>2. q \in [1 .. 1 -> {1}]
    BY <1>4, <2>1 DEF InOrder, Orders
  <2> QED
    BY <2>2
<1> DEFINE item == [port |-> p, row |-> rows[<<C(s).name, "rsp", p>>]]
<1>6. Item(s, events[s][1]) = item
  BY <1>2 DEF Item
<1> HIDE DEF item
<1>7. x.items = <<item>>
  BY <1>1, <1>5, <1>6
<1> QED
  BY <1>7 DEF item

LEMMA PopTurns == ASSUME Apart, NEW s \in Sessions, Pop(s) PROVE TurnsInv'
<1> USE DEF Apart
<1> DEFINE p == Port(s)
           key == <<C(s).name, "rsp", p>>
<1>1. /\ UNCHANGED <<wants, left, timeUp, told, executed, queue, job>> /\ Active(s)
      /\ at[s] = "wait" /\ ~timeUp[s]
  BY DEF Pop, calls, daemon, Active
<1>2. PICK x \in Popped(s) :
        LET none == x.items = <<>>
            other == ~none /\ Head(x.items).port # p
            gone == IF other THEN {key} \cap DOMAIN rows ELSE Answers(C(s).name)
        IN  /\ answer' = [answer EXCEPT ![s] = IF none \/ other THEN Nothing ELSE Head(x.items).row]
            /\ buffer' = [buffer EXCEPT ![s] = IF none THEN <<>> ELSE Tail(x.items)]
            /\ rows' = Drop(gone)
            /\ events' = Tell([events EXCEPT ![s] = x.rest], gone, "del")
            /\ at' = [at EXCEPT ![s] = IF other THEN "wait" ELSE "report"]
  BY DEF Pop
<1>3. buffer[s] = <<>> /\ Answered(s)
  <2>1. buffer[s] = <<>> /\ (Requested(s) \/ Busy(s) \/ Answered(s) \/ Ready(s))
    BY <1>1 DEF TurnsInv, Turns, Turn
  <2>2. events[s] # <<>>
    <3> SUFFICES ASSUME events[s] = <<>> PROVE FALSE
      OBVIOUS
    <3>1. PICK n \in 1 .. Len(events[s]) : TRUE
      BY <2>1, <1>2 DEF Popped
    <3>2. \A e : e = <<>> => Len(e) = 0
      OBVIOUS
    <3> QED
      BY <3>1, <3>2
  <2> QED
    BY <2>1, <2>2 DEF Requested, Busy, Ready
<1>4. x.items # <<>> /\ Head(x.items) = [port |-> p, row |-> rows[key]]
  BY <1>3, PopAnswer DEF Answered
<1> DEFINE gone == Answers(C(s).name)
<1>5. /\ answer' = [answer EXCEPT ![s] = rows[key]]
      /\ buffer' = [buffer EXCEPT ![s] = Tail(x.items)]
      /\ rows' = Drop(gone)
      /\ events' = Tell([events EXCEPT ![s] = x.rest], gone, "del")
      /\ at' = [at EXCEPT ![s] = "report"]
  <2>1. Head(x.items).port = p /\ Head(x.items).row = rows[key]
    BY <1>4
  <2> HIDE DEF key, p, gone
  <2> QED
    BY <1>2, <1>4, <2>1 DEF gone
<1>6. /\ at'[s] = "report" /\ answer'[s] = rows[key]
      /\ \A t \in Sessions \ {s} : at'[t] = at[t] /\ buffer'[t] = buffer[t]
  BY <1>5 DEF Inv, TypeInv, Total
<1>7. answer'[s] # Nothing
  <2>1. Good(rows[key])
    BY <1>3 DEF Answered, OwnInv, RowsShaped
  <2>2. DOMAIN Nothing = {"to"}
    BY DEF Nothing
  <2> QED
    BY <1>6, <2>1, <2>2 DEF Good
<1>8. NoAnswer(s)'
  <2>1. DOMAIN rows' = DOMAIN rows \ gone /\ C(s)' = C(s)
    BY <1>1, <1>5 DEF Drop, C
  <2> QED
    BY <2>1 DEF NoAnswer, Answers, KeysIn
<1>9. \A t \in Sessions \ {s} : events'[t] = <<>>
  <2> SUFFICES ASSUME NEW t \in Sessions \ {s} PROVE events'[t] = <<>>
    OBVIOUS
  <2> DEFINE ev == [events EXCEPT ![s] = x.rest]
  <2>1. events' = Tell(ev, gone, "del")
    BY <1>5
  <2>2. ev[t] = <<>> /\ \A k \in gone : ~Listens(t, k[1])
    BY <1>1, Others DEF OwnInv, Total, Listens, Active
  <2> HIDE DEF ev, gone
  <2> QED
    BY <2>1, <2>2, TellNone
<1> HIDE DEF gone, key
<1>10. Turns'
  <2>1. Done(s)'
    BY <1>1, <1>3, <1>7, <1>8 DEF Answered, Done, Quiet
  <2>2. Turn(s)'
    BY <1>6, <2>1 DEF Turn, Active
  <2>3. ASSUME NEW t \in Sessions \ {s} PROVE Turn(t)'
    BY <1>1, <1>6, <1>9, Others DEF Turn, Active
  <2> QED
    BY <2>2, <2>3 DEF Turns
<1>11. PendingUntold' /\ Silent'
  BY <1>1, <1>3 DEF TurnsInv, PendingUntold, Silent, RequestOf, Answered, Quiet
<1>12. ExecutedAsked'
  BY <1>1, <1>6 DEF TurnsInv, ExecutedAsked, Port
<1>13. Cleared'
  BY <1>6 DEF Cleared, Over, Active
<1> QED
  BY <1>10, <1>11, <1>12, <1>13 DEF TurnsInv

LEMMA ReportTurns == ASSUME Apart, NEW s \in Sessions, Report(s) PROVE TurnsInv'
<1> USE DEF Apart
<1> DEFINE p == Port(s)
           last == Len(left[s]) = 1
           cleared == IF C(s).sweeps = "last" /\ ~last THEN {} ELSE KeysIn(C(s).after)
<1>1. Reported(s)
  BY ReportTells
<1>2. /\ UNCHANGED <<wants, queue, job, executed>> /\ Active(s)
      /\ at[s] = "report" \/ at[s] = "open"
      /\ at'[s] \in {"ended", "open"} /\ \A t \in Sessions \ {s} : at'[t] = at[t]
  BY <1>1 DEF Reported, calls, daemon, Report
<1>3. Quiet /\ NoAnswer(s) /\ (answer[s] = Nothing => Unheard(s))
  BY <1>2 DEF TurnsInv, Turns, Turn, Done, Ready
<1>4. rows' = Drop(cleared) /\ events' = [Tell(events, cleared, "del") EXCEPT ![s] = <<>>]
  BY DEF Report
<1>5. DOMAIN rows' = DOMAIN rows \ cleared
  BY <1>4 DEF Drop
<1>6. at'[s] = "ended" => cleared = KeysIn(C(s).after)
  BY <1>1 DEF Reported
<1> HIDE DEF cleared
<1>7. \A t \in Sessions \ {s} : events'[t] = <<>>
  <2> SUFFICES ASSUME NEW t \in Sessions \ {s} PROVE events'[t] = <<>>
    OBVIOUS
  <2> DEFINE g == Tell(events, cleared, "del")
  <2>1. g[t] = <<>>
    <3>1. events[t] = <<>> /\ \A k \in cleared : ~Listens(t, k[1])
      BY <1>2, Others DEF Listens, Active
    <3> QED
      BY <3>1, TellNone
  <2>2. g = [u \in Sessions |-> g[u]]
    BY TellTotal
  <2>3. events' = [g EXCEPT ![s] = <<>>]
    BY <1>4
  <2> HIDE DEF g
  <2> QED
    BY <2>1, <2>2, <2>3
<1>8. /\ DOMAIN told'[s] = DOMAIN told[s] \cup {p}
      /\ told'[s][p].reply = answer[s] /\ \A x \in DOMAIN told[s] \ {p} : told'[s][x] = told[s][x]
      /\ \A t \in Sessions \ {s} : told'[t] = told[t]
  BY <1>1 DEF Reported
<1>9. ExecutedAsked'
  <2> SUFFICES ASSUME NEW t \in Sessions, at'[t] # "ended", NEW e \in executed, e.to.by = t
               PROVE  e.to.port \in DOMAIN told'[t] \cup (IF at'[t] \in {"wait", "report"} THEN {Port(t)'} ELSE {})
    BY <1>2 DEF ExecutedAsked
  <2>1. CASE t = s
    <3>1. e.to.port \in DOMAIN told[s] \cup {p}
      BY <2>1, <1>2 DEF TurnsInv, ExecutedAsked
    <3> QED
      BY <2>1, <3>1, <1>8
  <2>2. CASE t # s
    <3>1. Port(t)' = Port(t) /\ at'[t] = at[t] /\ told'[t] = told[t]
      BY <1>1, <2>2 DEF Reported, Port
    <3> QED
      BY <2>2, <3>1 DEF TurnsInv, ExecutedAsked
  <2> QED
    BY <2>1, <2>2
<1>10. Turns'
  <2>1. Turn(s)'
    <3>1. NoAnswer(s)'
      BY <1>2, <1>3, <1>5 DEF NoAnswer, Answers, KeysIn, C
    <3>2. ASSUME at'[s] = "open" PROVE Unheard(s)'
      <4>1. OwnInv'
        BY ReportKeepsOwn
      <4>2. Listed(left'[s]) /\ left'[s] # <<>> /\ \A i \in DOMAIN left'[s] : left'[s][i] \notin DOMAIN told'[s]
        BY <3>2, <4>1 DEF OwnInv, Remaining
      <4>3. Head(left'[s]) \notin DOMAIN told'[s]
        BY <4>2, HeadTail
      <4>4. \A e \in executed : e.to.by = s => e.to.port \in DOMAIN told'[s]
        BY <1>2, <1>9, <3>2 DEF ExecutedAsked
      <4> QED
        BY <1>2, <4>3, <4>4 DEF Unheard, Port, RequestOf
    <3>3. buffer'[s] = <<>> /\ events'[s] = <<>> /\ ~timeUp'[s]
      BY <1>1 DEF Reported
    <3> QED
      BY <1>2, <1>3, <3>1, <3>2, <3>3 DEF Turn, Active, Ready, Quiet
  <2>2. ASSUME NEW t \in Sessions \ {s} PROVE Turn(t)'
    <3>1. ~Active(t) /\ at'[t] = at[t] /\ buffer'[t] = <<>> /\ events'[t] = <<>> /\ ~timeUp'[t]
      BY <1>1, <1>2, <1>7, Others DEF Reported
    <3> QED
      BY <3>1 DEF Turn, Active
  <2> QED
    BY <2>1, <2>2 DEF Turns
<1>11. PendingUntold'
  BY <1>2, <1>3 DEF PendingUntold, Quiet
<1>12. Silent'
  <2> SUFFICES ASSUME NEW t \in Sessions, NEW x \in DOMAIN told'[t], told'[t][x].reply = Nothing
               PROVE  \A e \in executed : e.to # RequestOf(t, x)
    BY <1>2 DEF Silent, RequestOf
  <2>1. CASE t = s /\ x = p
    BY <2>1, <1>3, <1>8 DEF Unheard
  <2>2. CASE t # s \/ x # p
    <3>1. x \in DOMAIN told[t] /\ told'[t][x] = told[t][x]
      BY <2>2, <1>8
    <3> QED
      BY <3>1 DEF TurnsInv, Silent
  <2> QED
    BY <2>1, <2>2
<1>13. Cleared'
  <2> SUFFICES ASSUME at'[s] = "ended" PROVE Quiet' /\ KeysIn(Shared)' = {}
    BY <1>2 DEF Cleared, Over, Active
  <2>1. \A tbl \in Shared : tbl \in C(s).after
    BY DEF Shared
  <2>2. Shared' = Shared
    BY <1>2 DEF Shared, C
  <2> QED
    BY <1>2, <1>3, <1>5, <1>6, <2>1, <2>2 DEF KeysIn, Quiet
<1> QED
  BY <1>9, <1>10, <1>11, <1>12, <1>13 DEF TurnsInv

LEMMA KillTurns == ASSUME Apart, NEW s \in Sessions, Kill(s) PROVE TurnsInv'
<1> USE DEF Apart
<1>1. /\ UNCHANGED <<wants, rows, told, executed, queue, job>> /\ Active(s)
      /\ \A t \in Sessions \ {s} : /\ at'[t] = at[t] /\ events'[t] = events[t] /\ buffer'[t] = buffer[t]
                                   /\ timeUp'[t] = timeUp[t] /\ left'[t] = left[t]
      /\ at'[s] = "ended" /\ events'[s] = <<>> /\ buffer'[s] = <<>> /\ ~timeUp'[s]
  BY DEF Kill, calls, daemon, Inv, OwnInv, TypeInv, Total
<1>2. Turns'
  <2>1. Turn(s)'
    BY <1>1 DEF Turn, Active
  <2>2. ASSUME NEW t \in Sessions \ {s} PROVE Turn(t)'
    BY <1>1, Others DEF Turn, Active
  <2> QED
    BY <2>1, <2>2 DEF Turns
<1>3. PendingUntold' /\ Silent'
  BY <1>1 DEF TurnsInv, PendingUntold, Silent, RequestOf
<1>4. ExecutedAsked'
  BY <1>1 DEF TurnsInv, ExecutedAsked, Port
<1>5. Killed(s)'
  <2>1. Port(s) \in Ports(s) /\ Port(s) \notin DOMAIN told[s]
    BY <1>1, PortLeft DEF Active
  <2> QED
    BY <1>1, <2>1 DEF Killed, Ports
<1>6. Cleared'
  BY <1>5 DEF Cleared, Over
<1> QED
  BY <1>2, <1>3, <1>4, <1>6 DEF TurnsInv

\* The request that the daemon is at is of the session that runs, which waits for it.
LEMMA BusyFor ==
    ASSUME Apart, NEW s \in Sessions, Active(s)
    PROVE  /\ queue # <<>> => at[s] = "wait" /\ Requested(s) /\ ~timeUp[s]
           /\ job # Nothing => at[s] = "wait" /\ Busy(s) /\ ~timeUp[s]
<1> USE DEF Apart
<1>1. Turn(s)
  BY DEF TurnsInv, Turns
<1>2. CASE at[s] \in {"open", "ask", "report"}
  BY <1>1, <1>2 DEF Turn, Ready, Done, Quiet
<1>3. CASE at[s] = "wait"
  BY <1>1, <1>3 DEF Turn, Requested, Busy, Answered, Ready, Quiet
<1>4. at[s] \in {"open", "ask", "wait", "report"}
  BY <1>1 DEF Turn, Active
<1> QED
  BY <1>2, <1>3, <1>4

\* A step of the daemon that changes no request and no answer that anyone hears of.
LEMMA DaemonTurns ==
    ASSUME Apart, UNCHANGED <<wants, at, left, buffer, timeUp, answer, told>>,
           queue # <<>> \/ job # Nothing,
           \A s \in Sessions : ~Active(s) => events'[s] = <<>>,
           \A s \in Sessions : Active(s) /\ at[s] = "wait" => Turn(s)'
    PROVE  /\ Turns' /\ (executed' = executed => ExecutedAsked' /\ Silent')
           /\ Cleared'
<1> USE DEF Apart
<1>1. Turns'
  <2> SUFFICES ASSUME NEW s \in Sessions PROVE Turn(s)'
    BY DEF Turns
  <2>1. CASE ~Active(s)
    BY <2>1 DEF TurnsInv, Turns, Turn, Active
  <2>2. CASE Active(s)
    BY <2>2, BusyFor
  <2> QED
    BY <2>1, <2>2
<1>2. executed' = executed => ExecutedAsked' /\ Silent'
  BY DEF TurnsInv, ExecutedAsked, Silent, Port, RequestOf
<1>3. Cleared'
  <2>1. Over' = Over
    BY DEF Over, Killed, Active
  <2> QED
    BY <2>1 DEF TurnsInv, Cleared, Quiet
<1> QED
  BY <1>1, <1>2, <1>3

LEMMA TakeTurns == ASSUME Apart, Take PROVE TurnsInv'
<1> USE DEF Apart
<1>1. /\ UNCHANGED <<wants, at, left, buffer, timeUp, answer, told, rows, events, executed>>
      /\ queue # <<>> /\ job = Nothing /\ queue' = Tail(queue)
  BY DEF Take, calls, session
<1> DEFINE k == Head(queue)
<1>2. /\ k \notin DOMAIN rows => job' = Nothing
      /\ k \in DOMAIN rows =>
           /\ DOMAIN job' = {"name", "port", "to", "ok", "args"}
           /\ job'.name = k[1] /\ job'.port = k[3] /\ job'.to = rows[k] /\ job'.ok = {}
  BY DEF Take
<1>3. k = queue[1] /\ 1 \in DOMAIN queue /\ \A i \in DOMAIN Tail(queue) : i + 1 \in DOMAIN queue /\ Tail(queue)[i] = queue[i + 1]
  BY <1>1, HeadTail DEF Inv, TypeInv
<1> HIDE DEF k
<1>4. \A s \in Sessions : ~Active(s) => events'[s] = <<>>
  BY <1>1 DEF TurnsInv, Turns, Turn
<1>5. ASSUME NEW s \in Sessions, Active(s), at[s] = "wait" PROVE Turn(s)'
  <2>1. Requested(s) /\ ~timeUp[s] /\ buffer[s] = <<>>
    BY <1>1, <1>5, BusyFor DEF TurnsInv, Turns, Turn
  <2> DEFINE cmd == <<C(s).name, "cmd", Port(s)>>
  <2>2. queue = <<cmd>> /\ cmd \in DOMAIN rows /\ rows[cmd] = RequestOf(s, Port(s))
    BY <2>1 DEF Requested
  <2>3. cmd[1] = C(s).name /\ cmd[3] = Port(s)
    OBVIOUS
  <2> HIDE DEF cmd
  <2>4. k = cmd /\ queue' = <<>>
    BY <1>1, <1>3, <2>2
  <2>5. job' # Nothing
    <3>1. DOMAIN Nothing = {"to"}
      BY DEF Nothing
    <3> QED
      BY <1>2, <2>2, <2>4, <3>1
  <2>6. Busy(s)'
    <3>1. C(s)' = C(s) /\ Port(s)' = Port(s) /\ RequestOf(s, Port(s))' = RequestOf(s, Port(s))
      BY <1>1 DEF C, Port, RequestOf
    <3>2. NoAnswer(s)' /\ Unheard(s)'
      BY <1>1, <2>1 DEF Requested, NoAnswer, Answers, KeysIn, C, Unheard, Port, RequestOf
    <3> QED
      BY <1>1, <1>2, <2>1, <2>2, <2>3, <2>4, <2>5, <3>1, <3>2 DEF Busy, Requested
  <2> QED
    BY <1>1, <1>5, <2>1, <2>6 DEF Turn, Active
<1>6. PendingUntold'
  <2>1. job' # Nothing => job'.to.port \notin DOMAIN told[job'.to.by]
    BY <1>2, <1>3 DEF TurnsInv, PendingUntold
  <2> QED
    BY <1>1, <1>3, <2>1 DEF TurnsInv, PendingUntold
<1> QED
  BY <1>1, <1>4, <1>5, <1>6, DaemonTurns DEF TurnsInv

LEMMA ExecuteTurns == ASSUME Apart, Execute PROVE TurnsInv'
<1> USE DEF Apart
<1> DEFINE key == <<job.name, "res", job.port>>
<1>1. /\ UNCHANGED <<wants, at, left, buffer, timeUp, answer, told, queue, events>> /\ job # Nothing /\ job.ok = {}
      /\ rows' = Put(rows, key, job.to) \/ rows' = rows
  BY DEF Execute, calls, session
<1>2. PICK ok \in BOOLEAN : /\ job' = [job EXCEPT !.ok = {ok}]
                            /\ executed' = executed \cup {[to |-> job.to, ok |-> ok, args |-> job.args]}
  BY DEF Execute
<1>3. DOMAIN job = {"name", "port", "to", "ok", "args"} /\ By(job.to, <<job.name, "cmd", job.port>>)
  BY <1>1 DEF OwnInv, JobShaped
<1>4. /\ DOMAIN job' = DOMAIN job /\ job'.name = job.name /\ job'.port = job.port /\ job'.to = job.to
      /\ job'.ok = {ok} /\ job' # Nothing
  <2>1. DOMAIN Nothing = {"to"}
    BY DEF Nothing
  <2> QED
    BY <1>2, <1>3, <2>1
<1>5. /\ key[2] = "res"
      /\ \A k \in DOMAIN rows' : k[2] # "res" => k \in DOMAIN rows /\ rows'[k] = rows[k]
  <2>1. key[2] = "res"
    OBVIOUS
  <2> HIDE DEF key
  <2> QED
    BY <1>1, <2>1 DEF Put
<1>6. \A e \in executed' : e \in executed \/ e.to = job.to
  BY <1>2
<1>7. \A s \in Sessions : ~Active(s) => events'[s] = <<>>
  BY <1>1 DEF TurnsInv, Turns, Turn
<1>8. ASSUME NEW s \in Sessions, Active(s), at[s] = "wait" PROVE Turn(s)'
  <2>1. Busy(s) /\ ~timeUp[s] /\ buffer[s] = <<>>
    BY <1>1, <1>8, BusyFor DEF TurnsInv, Turns, Turn
  <2>2. NoAnswer(s)'
    BY <1>1, <1>5, <2>1 DEF Busy, NoAnswer, Answers, KeysIn, C
  <2>3. Busy(s)'
    <3>1. C(s)' = C(s) /\ Port(s)' = Port(s) /\ RequestOf(s, Port(s))' = RequestOf(s, Port(s))
      BY <1>1 DEF C, Port, RequestOf
    <3> QED
      BY <1>1, <1>4, <2>1, <2>2, <3>1 DEF Busy
  <2> QED
    BY <1>1, <1>8, <2>1, <2>3 DEF Turn, Active
<1>9. PendingUntold'
  <2>1. \A i \in DOMAIN queue : queue[i] \in DOMAIN rows' => queue[i] \in DOMAIN rows /\ rows'[queue[i]] = rows[queue[i]]
    BY <1>5 DEF Inv, DaemonFits
  <2> QED
    BY <1>1, <1>4, <2>1 DEF TurnsInv, PendingUntold
<1>10. Silent'
  <2> SUFFICES ASSUME NEW s \in Sessions, NEW p \in DOMAIN told[s], told[s][p].reply = Nothing, NEW e \in executed'
               PROVE  e.to # RequestOf(s, p)
    BY <1>1 DEF Silent, RequestOf
  <2>1. CASE e \in executed
    BY <2>1 DEF TurnsInv, Silent
  <2>2. CASE e.to = job.to
    BY <2>2, <1>1 DEF TurnsInv, PendingUntold, RequestOf
  <2> QED
    BY <1>6, <2>1, <2>2
<1>11. ExecutedAsked'
  <2> SUFFICES ASSUME NEW s \in Sessions, at[s] # "ended", NEW e \in executed', e.to.by = s
               PROVE  e.to.port \in DOMAIN told[s] \cup (IF at[s] \in {"wait", "report"} THEN {Port(s)} ELSE {})
    BY <1>1 DEF ExecutedAsked, Port
  <2>1. CASE e \in executed
    BY <2>1 DEF TurnsInv, ExecutedAsked
  <2>2. CASE e.to = job.to
    <3>1. Active(s)
      BY <1>3, <2>2 DEF By, Active
    <3>2. at[s] = "wait" /\ job.to = RequestOf(s, Port(s))
      BY <1>1, <3>1, BusyFor DEF Busy
    <3> QED
      BY <2>2, <3>2 DEF RequestOf
  <2> QED
    BY <1>6, <2>1, <2>2
<1> QED
  BY <1>1, <1>7, <1>8, <1>9, <1>10, <1>11, DaemonTurns DEF TurnsInv

LEMMA AnswerTurns == ASSUME Apart, Answer PROVE TurnsInv'
<1> USE DEF Apart
<1> DEFINE key == <<job.name, "rsp", job.port>>
<1>1. /\ UNCHANGED <<wants, at, left, buffer, timeUp, answer, told, queue, executed>>
      /\ job # Nothing /\ job' = Nothing /\ job.ok # {}
      /\ \E row : rows' = Put(rows, key, row)
      /\ events' = Tell(events, {key}, "set")
  BY DEF Answer, calls
<1>2. key[1] = job.name /\ key[2] = "rsp" /\ key[3] = job.port
  OBVIOUS
<1> HIDE DEF key
<1>3. DOMAIN rows' = DOMAIN rows \cup {key} /\ \A k \in DOMAIN rows : k # key => rows'[k] = rows[k]
  BY <1>1 DEF Put
<1>4. \A s \in Sessions : ~Active(s) => events'[s] = <<>>
  <2> SUFFICES ASSUME NEW s \in Sessions, ~Active(s) PROVE events'[s] = <<>>
    OBVIOUS
  <2>1. events[s] = <<>> /\ \A k \in {key} : ~Listens(s, k[1])
    BY DEF TurnsInv, Turns, Turn, Listens, Active
  <2> DEFINE keys == {key}
  <2>2. events' = Tell(events, keys, "set") /\ \A k \in keys : ~(k[2] = "rsp" /\ Listens(s, k[1]))
    BY <1>1, <2>1
  <2> HIDE DEF keys
  <2> QED
    BY <2>1, <2>2, TellNone
<1>5. ASSUME NEW s \in Sessions, Active(s), at[s] = "wait" PROVE Turn(s)'
  <2>1. Busy(s) /\ ~timeUp[s] /\ buffer[s] = <<>>
    BY <1>1, <1>5, BusyFor DEF TurnsInv, Turns, Turn
  <2>2. key = <<C(s).name, "rsp", Port(s)>>
    BY <2>1 DEF Busy, key
  <2>3. events'[s] = <<[port |-> Port(s), op |-> "set"]>>
    <3>1. events[s] = <<>> /\ Listens(s, key[1]) /\ key[3] = Port(s)
      BY <1>2, <1>5, <2>1 DEF Busy, Listens
    <3> DEFINE keys == {key}
    <3>2. keys = {key} /\ events' = Tell(events, keys, "set")
      BY <1>1
    <3> HIDE DEF keys
    <3>3. Tell(events, keys, "set")[s] = <<[port |-> key[3], op |-> "set"]>>
      BY <1>2, <3>1, <3>2, TellOne
    <3> QED
      BY <3>1, <3>2, <3>3
  <2>4. Answered(s)'
    <3>1. C(s)' = C(s) /\ Port(s)' = Port(s)
      BY <1>1 DEF C, Port
    <3> QED
      BY <1>1, <1>3, <2>1, <2>2, <2>3, <3>1 DEF Answered, Quiet, Busy
  <2> QED
    BY <1>1, <1>5, <2>1, <2>4 DEF Turn, Active
<1>6. PendingUntold'
  <2>1. \A i \in DOMAIN queue : queue[i] # key
    BY <1>2 DEF Inv, DaemonFits
  <2> QED
    BY <1>1, <1>3, <2>1 DEF TurnsInv, PendingUntold
<1> QED
  BY <1>1, <1>4, <1>5, <1>6, DaemonTurns DEF TurnsInv

LEMMA DeclineTurns == ASSUME Apart, Decline PROVE TurnsInv'
<1> USE DEF Apart
<1>1. /\ UNCHANGED <<wants, at, left, buffer, timeUp, answer, told, rows, queue, events, executed>>
      /\ job # Nothing /\ job' = Nothing /\ job.ok = {}
  BY DEF Decline, calls, session
<1>2. \A s \in Sessions : ~Active(s) => events'[s] = <<>>
  BY <1>1 DEF TurnsInv, Turns, Turn
<1>3. ASSUME NEW s \in Sessions, Active(s), at[s] = "wait" PROVE Turn(s)'
  <2>1. Busy(s) /\ ~timeUp[s] /\ buffer[s] = <<>>
    BY <1>1, <1>3, BusyFor DEF TurnsInv, Turns, Turn
  <2>2. NoAnswer(s)' /\ Unheard(s)'
    BY <1>1, <2>1 DEF Busy, NoAnswer, Answers, KeysIn, C, Unheard, Port, RequestOf
  <2>3. Ready(s)'
    BY <1>1, <2>1, <2>2 DEF Ready, Quiet, Busy
  <2> QED
    BY <1>1, <1>3, <2>1, <2>3 DEF Turn, Active
<1>4. PendingUntold'
  BY <1>1 DEF TurnsInv, PendingUntold
<1> QED
  BY <1>1, <1>2, <1>3, <1>4, DaemonTurns DEF TurnsInv

LEMMA InitTurns == Init => TurnsInv
<1> SUFFICES ASSUME Init PROVE TurnsInv
  OBVIOUS
<1>1. /\ executed = {} /\ queue = <<>> /\ job = Nothing
      /\ \A s \in Sessions : /\ at[s] = "new" /\ buffer[s] = <<>> /\ events[s] = <<>> /\ timeUp[s] = FALSE
                             /\ DOMAIN told[s] = {}
  BY DEF Init
<1>2. Turns
  BY <1>1 DEF Turns, Turn, Active
<1>3. PendingUntold
  BY <1>1 DEF PendingUntold
<1>4. ExecutedAsked /\ Silent /\ Cleared
  BY <1>1 DEF ExecutedAsked, Silent, Cleared, Over
<1> QED
  BY <1>2, <1>3, <1>4 DEF TurnsInv

\* One step, with a daemon that does not restart.
LEMMA StepKeepsTurns == ASSUME Apart, [Next]_vars PROVE TurnsInv'
<1>1. ASSUME NEW s \in Sessions, Begin(s) \/ Step(s) \/ TimeUp(s) \/ Kill(s) PROVE TurnsInv'
  BY <1>1, BeginTurns, OpenTurns, AskTurns, TimeTurns, PopTurns, ReportTurns, KillTurns DEF Step
<1>2. ASSUME Take \/ Execute \/ Answer \/ Decline \/ Restart PROVE TurnsInv'
  BY <1>2, TakeTurns, ExecuteTurns, AnswerTurns, DeclineTurns DEF Restart, Apart
<1>3. CASE UNCHANGED vars
  <2>1. UNCHANGED <<wants, at, left, buffer, timeUp, answer, told, executed, rows, events, job, queue>>
    BY <1>3 DEF vars, calls, session, daemon
  <2>2. PendingUntold' /\ ExecutedAsked' /\ Silent' /\ Cleared'
    BY <2>1 DEF Apart, TurnsInv, PendingUntold, ExecutedAsked, Silent, Cleared, Port, RequestOf,
                Over, Killed, Active, Quiet, KeysIn, Shared, C
  <2>3. ASSUME NEW s \in Sessions PROVE Turn(s)'
    <3>1. Turn(s)
      BY DEF Apart, TurnsInv, Turns
    <3>2. Port(s)' = Port(s) /\ C(s)' = C(s) /\ RequestOf(s, Port(s))' = RequestOf(s, Port(s))
      BY <2>1 DEF Port, C, RequestOf
    <3>3. (NoAnswer(s)' <=> NoAnswer(s)) /\ (Unheard(s)' <=> Unheard(s))
      BY <2>1, <3>2 DEF NoAnswer, Answers, KeysIn, Unheard, Port, C, RequestOf
    <3>4. /\ Ready(s)' <=> Ready(s)
          /\ Busy(s)' <=> Busy(s)
          /\ Answered(s)' <=> Answered(s)
          /\ Done(s)' <=> Done(s)
      BY <2>1, <3>2, <3>3 DEF Ready, Busy, Answered, Done, Quiet
    <3>5. Requested(s)' <=> Requested(s)
      BY <2>1, <3>2, <3>3 DEF Requested
    <3> QED
      BY <2>1, <3>1, <3>4, <3>5 DEF Turn, Active
  <2> QED
    BY <2>2, <2>3 DEF TurnsInv, Turns
<1> QED
  BY <1>1, <1>2, <1>3 DEF Next

LEMMA TurnsMissNothing == TurnsInv => NothingMissed
<1> SUFFICES ASSUME TurnsInv PROVE NothingMissed
  OBVIOUS
<1>1. \A s \in Sessions, p \in MuxPorts :
        p \in DOMAIN told[s] /\ ~Heard(s, p) => ~\E e \in executed : e.to = RequestOf(s, p)
  BY DEF TurnsInv, Silent, Heard
<1>2. ASSUME \A s \in Sessions : at[s] = "ended" /\ ~Killed(s) PROVE KeysIn(Shared) = {}
  <2>1. CASE Sessions = {}
    BY <2>1 DEF Shared, KeysIn
  <2>2. CASE Sessions # {}
    BY <1>2, <2>2 DEF TurnsInv, Cleared, Over, Active
  <2> QED
    BY <2>1, <2>2
<1> QED
  BY <1>1, <1>2 DEF NothingMissed, Shared

\* One command at a time and a daemon that answers in time: a command reports the
\* answer to its own request, carried out with its own arguments, and, if the
\* daemon has not restarted, misses none and leaves nothing in the tables that
\* all clear (config/muxcable.py, show/muxcable.py).
THEOREM RepliesAreOwn == Spec => []OwnReply
<1> DEFINE I == /\ Inv /\ (orderly => OwnInv)
                /\ (orderly /\ daemonIs = "up" => TurnsInv)
<1>1. Init => I
  BY InitHolds, InitOwn, InitTurns
<1>2. I /\ [Next]_vars => I'
  <2> SUFFICES ASSUME I, [Next]_vars PROVE I'
    OBVIOUS
  <2>1. Inv'
    BY StepKeepsInv
  <2>2. orderly' = orderly /\ (daemonIs' = "up" => daemonIs = "up")
    BY DEF Next, vars, calls, daemon, Step, Begin, Open, Ask, TimeUp, GiveUp, Pop, Report, Kill,
           Take, Execute, Answer, Decline, Restart
  <2>3. orderly' => OwnInv'
    BY <2>2, StepKeepsOwn
  <2>4. orderly' /\ daemonIs' = "up" => TurnsInv'
    BY <2>2, StepKeepsTurns DEF Apart
  <2> QED
    BY <2>1, <2>3, <2>4
<1>3. I => OwnReply
  BY OwnAnswers, TurnsMissNothing DEF OwnReply
<1> QED
  BY <1>1, <1>2, <1>3, PTL DEF Spec
=============================================================================
