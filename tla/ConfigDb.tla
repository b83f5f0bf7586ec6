------------------------------ MODULE ConfigDb ------------------------------
(***************************************************************************)
(* CONFIG_DB as the commands of "config" see it: a row is a tuple of the    *)
(* table and the parts of the key, and has fields.  A command reads what it *)
(* checks and writes, one row after the other, without a transaction.       *)
(***************************************************************************)
EXTENDS Integers, Sequences, FiniteSets

VARIABLES
    db,     \* CONFIG_DB: from rows to their fields
    area,   \* bounds a behaviour: the groups of commands and the names in use
    switch, \* what the daemons have made of it: from names to what they see
    job     \* a command that waits: [kind, ...], or None

vars == <<db, area, switch, job>>
None == <<>>
On(names) == names \cap area.on

\* The commands of group g are in use, and no command is waiting.
Use(g) == g \in area.groups /\ job = None
Doing(kind) == job # None /\ job.kind = kind
Become(d) == db' = d /\ UNCHANGED <<area, switch, job>>

\* The functions of module TLC, defined here so that proofs can look into them.
d :> e == [x \in {d} |-> e]
f @@ g == [x \in DOMAIN f \cup DOMAIN g |-> IF x \in DOMAIN f THEN f[x] ELSE g[x]]

NoFields == <<>>   \* a row of {"NULL": "NULL"}, which get_entry returns as {}

Rows == DOMAIN db
Has(r) == r \in DOMAIN db
Entry(r) == IF Has(r) THEN db[r] ELSE NoFields
Field(r, f) == IF f \in DOMAIN Entry(r) THEN db[r][f] ELSE ""
KeysOf(table) == {r \in Rows : r[1] = table}

\* ConfigDBConnector.set_entry replaces the fields of a row, mod_entry merges,
\* and both delete a row that is set to None.
SetEntry(d, r, fields) == (r :> fields) @@ d
ModEntry(d, r, fields) == (r :> (fields @@ (IF r \in DOMAIN d THEN d[r] ELSE NoFields))) @@ d
Without(d, rows) == [r \in DOMAIN d \ rows |-> d[r]]

Drop(fields, f) == [g \in DOMAIN fields \ {f} |-> fields[g]]
=============================================================================
