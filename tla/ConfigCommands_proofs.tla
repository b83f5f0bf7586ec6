------------------------ MODULE ConfigCommands_proofs ------------------------
(***************************************************************************)
(* What the checks of the commands keep true together, whatever commands    *)
(* are called in whatever order, of any names.                              *)
(***************************************************************************)
EXTENDS ConfigWrites_proofs, FiniteSetTheorems, TLAPS

----------------------------------------------------------------------------
(* Services: each command keeps its rows in step, and no other writes them. *)

\* The rows of a table after a row is set, and a Field of any other row.
LEMMA KeysAfter ==
  ASSUME NEW r, NEW f, db' = SetEntry(db, r, f) \/ db' = ModEntry(db, r, f), NEW t
  PROVE  /\ r[1] = t => KeysOf(t)' = KeysOf(t) \cup {r}
         /\ r[1] # t => KeysOf(t)' = KeysOf(t)
<1>1. \A x : KeysOf(x)' = KeysOf(x) \cup {s \in {r} : r[1] = x}
  BY SetReads, ModReads
<1>2. KeysOf(t)' = KeysOf(t) \cup {s \in {r} : r[1] = t}
  BY <1>1
<1> QED  BY ONLY <1>2

\* A new device is on no other line, and the other settings of a line leave its device.
LEMMA DevicesStep ==
  ASSUME DevicesApart, Leaves({"CONSOLE_PORT"}) \/ ConsoleStep
  PROVE  DevicesApart'
<1>0. /\ \A n : Line(n)[1] = "CONSOLE_PORT"
      /\ \A r \in KeysOf("CONSOLE_PORT") : r[1] = "CONSOLE_PORT"
      /\ \A n : Has(Line(n)) => Line(n) \in KeysOf("CONSOLE_PORT")
  BY DEF Line, KeysOf, Has, Rows
<1>1. CASE Leaves({"CONSOLE_PORT"})
  <2>1. KeysOf("CONSOLE_PORT")' = KeysOf("CONSOLE_PORT")
    BY <1>1, LeavesReads
  <2>2. \A r \in KeysOf("CONSOLE_PORT") : Field(r, "remote_device")' = Field(r, "remote_device")
    BY <1>0, <1>1, LeavesReads
  <2> QED  BY ONLY DevicesApart, <2>1, <2>2 DEF DevicesApart
<1>2. ASSUME NEW n, DelLine(n) PROVE DevicesApart'
  <2>1. db' = Without(db, {Line(n)})
    BY <1>2 DEF DelLine, Become
  <2>2. KeysOf("CONSOLE_PORT")' = KeysOf("CONSOLE_PORT") \ {Line(n)}
    BY <2>1, DropReads
  <2>3. \A r : r # Line(n) => Field(r, "remote_device")' = Field(r, "remote_device")
    BY <2>1, DropReads
  <2> QED  BY ONLY DevicesApart, <2>2, <2>3 DEF DevicesApart
<1>3. ASSUME NEW n, NEW d,
             Field(Line(n), "remote_device")' = d \/
                (Has(Line(n)) /\ Field(Line(n), "remote_device")' = Field(Line(n), "remote_device")),
             d # "" => ~IsExistingSameDevice(d),
             \A r : r # Line(n) => Field(r, "remote_device")' = Field(r, "remote_device"),
             KeysOf("CONSOLE_PORT")' = KeysOf("CONSOLE_PORT") \cup {Line(n)}
      PROVE  DevicesApart'
  <2>1. Has(Line(n)) => Line(n) \in KeysOf("CONSOLE_PORT")
    BY <1>0
  <2>2. d # "" => \A r \in KeysOf("CONSOLE_PORT") : Field(r, "remote_device") # d
    BY <1>3 DEF IsExistingSameDevice
  <2>3. SUFFICES ASSUME NEW r \in KeysOf("CONSOLE_PORT") \cup {Line(n)}, NEW s \in KeysOf("CONSOLE_PORT") \cup {Line(n)},
                        r # s, Field(r, "remote_device")' # ""
                 PROVE  Field(r, "remote_device")' # Field(s, "remote_device")'
    BY ONLY <1>3, <2>3 DEF DevicesApart
  <2>4. CASE r # Line(n) /\ s # Line(n)
    BY ONLY DevicesApart, <1>3, <2>3, <2>4 DEF DevicesApart
  <2>5. CASE r = Line(n)
    BY ONLY DevicesApart, <1>3, <2>1, <2>2, <2>3, <2>5 DEF DevicesApart
  <2>6. CASE s = Line(n)
    BY ONLY DevicesApart, <1>3, <2>1, <2>2, <2>3, <2>6 DEF DevicesApart
  <2> QED  BY ONLY <2>4, <2>5, <2>6
<1>4. ASSUME NEW n, NEW d, AddLine(n, d) PROVE DevicesApart'
  <2> DEFINE f == IF d = "" THEN [baud_rate |-> "9600", flow_control |-> "0"]
                  ELSE [baud_rate |-> "9600", flow_control |-> "0", remote_device |-> d]
  <2>1. db' = SetEntry(db, Line(n), f)
    BY ONLY <1>4 DEF AddLine, Become
  <2>2. d # "" => ~IsExistingSameDevice(d)
    BY ONLY <1>4 DEF AddLine
  <2>3. (IF "remote_device" \in DOMAIN f THEN f["remote_device"] ELSE Blank) = d
    BY DEF Blank
  <2> HIDE DEF f
  <2>4. \A g : Field(Line(n), g)' = IF g \in DOMAIN f THEN f[g] ELSE Blank
    BY ONLY <2>1, SetReads
  <2>5. Field(Line(n), "remote_device")' = d
    BY ONLY <2>3, <2>4
  <2>6. KeysOf("CONSOLE_PORT")' = KeysOf("CONSOLE_PORT") \cup {Line(n)}
    BY ONLY <1>0, <2>1, KeysAfter
  <2>7. \A r : r # Line(n) => Field(r, "remote_device")' = Field(r, "remote_device")
    BY ONLY <2>1, SetReads
  <2> QED  BY ONLY <1>3, <2>2, <2>5, <2>6, <2>7
<1>5. ASSUME NEW n, NEW f, NEW d, db' = ModEntry(db, Line(n), f), Has(Line(n)),
             "remote_device" \in DOMAIN f => f["remote_device"] = d,
             d # "" => ~IsExistingSameDevice(d)
      PROVE  DevicesApart'
  <2>0. db' = ModEntry(db, Line(n), f)
    BY ONLY <1>5
  <2>1. \A g : Field(Line(n), g)' = IF g \in DOMAIN f THEN f[g] ELSE Field(Line(n), g)
    BY ONLY <2>0, ModReads
  <2>2. Field(Line(n), "remote_device")' \in {d, Field(Line(n), "remote_device")}
    BY ONLY <1>5, <2>1
  <2>3. KeysOf("CONSOLE_PORT")' = KeysOf("CONSOLE_PORT") \cup {Line(n)}
    BY ONLY <1>0, <2>0, KeysAfter
  <2>4. \A r : r # Line(n) => Field(r, "remote_device")' = Field(r, "remote_device")
    BY ONLY <2>0, ModReads
  <2> QED  BY ONLY <1>3, <1>5, <2>2, <2>3, <2>4
<1>6. ASSUME NEW n, NEW d, RemoteDevice(n, d) PROVE DevicesApart'
  <2>1. Has(Line(n)) /\ (d # "" => ~IsExistingSameDevice(d))
    BY ONLY <1>6 DEF RemoteDevice
  <2>2. CASE d = ""
    <3>1. db' = ModEntry(db, Line(n), Drop(db[Line(n)], "remote_device"))
      BY ONLY <1>6, <2>2 DEF RemoteDevice, Become
    <3>2. "remote_device" \notin DOMAIN Drop(db[Line(n)], "remote_device")
      BY DEF Drop
    <3> QED  BY ONLY <1>5, <2>1, <3>1, <3>2
  <2>3. CASE d # ""
    <3>1. db' = ModEntry(db, Line(n), [remote_device |-> d])
      BY ONLY <1>6, <2>3 DEF RemoteDevice, Become
    <3>2. [remote_device |-> d]["remote_device"] = d
      OBVIOUS
    <3> QED  BY ONLY <1>5, <2>1, <3>1, <3>2
  <2> QED  BY ONLY <2>2, <2>3
<1>7. ASSUME NEW n, NEW x, Baud(n, x) \/ FlowControl(n, x) PROVE DevicesApart'
  <2>1. Has(Line(n)) /\ \E f \in {"baud_rate", "flow_control"} : db' = ModEntry(db, Line(n), f :> x)
    BY ONLY <1>7 DEF Baud, FlowControl, Put, Become
  <2>2. PICK f : f # "remote_device" /\ db' = ModEntry(db, Line(n), f :> x)
    BY ONLY <2>1
  <2>3. DOMAIN (f :> x) = {f}
    BY ONLY OneFacts
  <2>4. "remote_device" \notin DOMAIN (f :> x)
    BY ONLY <2>2, <2>3
  <2> QED  BY ONLY <1>5, <2>1, <2>2, <2>4
<1> QED  BY <1>1, <1>2, <1>4, <1>6, <1>7 DEF ConsoleStep

\* There is one domain, and the timers of a domain are checked against each other.
MclagOne == \A r, s \in KeysOf("MCLAG_DOMAIN") : r = s
MclagMembers == \A r \in KeysOf("MCLAG_INTERFACE") : Has(Domain(r[2]))
MclagTimers == \A d \in Domains : Has(Domain(d)) => TimersFit(Keepalive(d), SessionTimeout(d))

LEMMA TimerReads ==
  ASSUME NEW d
  PROVE  /\ Keepalive(d) = IF "keepalive_interval" \in DOMAIN Entry(Domain(d)) THEN Field(Domain(d), "keepalive_interval") ELSE 1
         /\ SessionTimeout(d) = IF "session_timeout" \in DOMAIN Entry(Domain(d)) THEN Field(Domain(d), "session_timeout") ELSE 15
  BY DEF Keepalive, SessionTimeout, Field

LEMMA MclagStays ==
  ASSUME MclagOne, MclagMembers, MclagTimers, Leaves(MclagTables) \/ MclagStep
  PROVE  MclagOne' /\ MclagMembers' /\ MclagTimers'
<1>0. /\ \A d : Domain(d)[1] = "MCLAG_DOMAIN" /\ Domain(d) = <<"MCLAG_DOMAIN", d>>
      /\ \A r : r \in KeysOf("MCLAG_DOMAIN") => Has(r)
      /\ \A d : Has(Domain(d)) <=> Domain(d) \in KeysOf("MCLAG_DOMAIN")
  BY DEF Domain, KeysOf, Has, Rows
<1>1. ASSUME NEW d, Entry(Domain(d))' = Entry(Domain(d)), \A g : Field(Domain(d), g)' = Field(Domain(d), g)
      PROVE  Keepalive(d)' = Keepalive(d) /\ SessionTimeout(d)' = SessionTimeout(d)
  <2>1. /\ Keepalive(d)' = IF "keepalive_interval" \in DOMAIN Entry(Domain(d))' THEN Field(Domain(d), "keepalive_interval")' ELSE 1
        /\ SessionTimeout(d)' = IF "session_timeout" \in DOMAIN Entry(Domain(d))' THEN Field(Domain(d), "session_timeout")' ELSE 15
    BY DEF Keepalive, SessionTimeout, Field
  <2> QED  BY <1>1, <2>1, TimerReads
<1>2. CASE Leaves(MclagTables)
  <2>1. KeysOf("MCLAG_DOMAIN")' = KeysOf("MCLAG_DOMAIN") /\ KeysOf("MCLAG_INTERFACE")' = KeysOf("MCLAG_INTERFACE")
    BY <1>2, LeavesReads DEF MclagTables
  <2>2. \A d : (Has(Domain(d))' <=> Has(Domain(d))) /\ Entry(Domain(d))' = Entry(Domain(d)) /\ \A g : Field(Domain(d), g)' = Field(Domain(d), g)
    BY <1>0, <1>2, LeavesReads DEF MclagTables
  <2> QED  BY <1>1, <2>1, <2>2 DEF MclagOne, MclagMembers, MclagTimers
<1>3. ASSUME NEW d, AddDomain(d)
      PROVE  MclagOne' /\ MclagMembers' /\ MclagTimers'
  <2>1. db' = SetEntry(db, Domain(d), [source_ip |-> "ip"]) /\ KeysOf("MCLAG_DOMAIN") = {}
    BY <1>3 DEF AddDomain, Become
  <2>a. KeysOf("MCLAG_DOMAIN")' = KeysOf("MCLAG_DOMAIN") \cup {Domain(d)}
    BY ONLY <1>0, <2>1, KeysAfter
  <2>b. Domain(d)[1] # "MCLAG_INTERFACE"
    BY <1>0
  <2>c. KeysOf("MCLAG_INTERFACE")' = KeysOf("MCLAG_INTERFACE")
    BY ONLY <2>b, <2>1, KeysAfter
  <2>2. KeysOf("MCLAG_DOMAIN")' = {Domain(d)} /\ KeysOf("MCLAG_INTERFACE")' = KeysOf("MCLAG_INTERFACE")
    BY <2>1, <2>a, <2>c
  <2>3. MclagMembers'
    BY <1>0, <2>1, <2>2 DEF MclagMembers
  <2>4. Entry(Domain(d))' = [source_ip |-> "ip"]
    BY <2>1, SetReads
  <2>5. Keepalive(d)' = 1 /\ SessionTimeout(d)' = 15
    BY <2>4 DEF Keepalive, SessionTimeout
  <2>6. \A e : Has(Domain(e))' => Domain(e) = Domain(d)
    BY <1>0, <2>1, SetReads
  <2>7. \A e : Has(Domain(e))' => e = d
    BY <1>0, <2>6
  <2> QED  BY <2>2, <2>3, <2>5, <2>7 DEF MclagOne, MclagTimers, TimersFit
<1>4. ASSUME NEW d, DelDomain(d)
      PROVE  MclagOne' /\ MclagMembers' /\ MclagTimers'
  <2> DEFINE S == {Domain(d)} \cup {r \in KeysOf("MCLAG_INTERFACE") : r[2] = d}
  <2>1. db' = Without(db, S)
    BY <1>4 DEF DelDomain, Become
  <2>2. \A e : Domain(e) \in S => e = d
    BY <1>0 DEF KeysOf
  <2>3. \A r \in KeysOf("MCLAG_INTERFACE") : r[2] = d => r \in S
    OBVIOUS
  <2> HIDE DEF S
  <2>4. \A t : KeysOf(t)' = KeysOf(t) \ S
    BY <2>1, DropReads
  <2>5. \A e : Domain(e) \notin S => (Has(Domain(e))' <=> Has(Domain(e))) /\ Entry(Domain(e))' = Entry(Domain(e)) /\ \A g : Field(Domain(e), g)' = Field(Domain(e), g)
    BY <2>1, DropReads
  <2>6. \A e : Domain(e) \in S => ~Has(Domain(e))'
    BY <2>1, DropReads
  <2>7. MclagMembers'
    BY <2>2, <2>3, <2>4, <2>5 DEF MclagMembers
  <2>8. MclagTimers'
    BY <1>1, <2>5, <2>6 DEF MclagTimers
  <2> QED  BY <2>4, <2>7, <2>8 DEF MclagOne
<1>5. ASSUME NEW d \in Domains, NEW s, SetKeepalive(d, s) \/ SetSessionTimeout(d, s)
      PROVE  MclagOne' /\ MclagMembers' /\ MclagTimers'
  <2>1. PICK f \in {"keepalive_interval", "session_timeout"} :
           /\ db' = ModEntry(db, Domain(d), f :> s) /\ Has(Domain(d))
           /\ f = "keepalive_interval" => TimersFit(s, SessionTimeout(d))
           /\ f = "session_timeout" => TimersFit(Keepalive(d), s)
    BY <1>5 DEF SetKeepalive, SetSessionTimeout, Put, Become
  <2>2. DOMAIN (f :> s) = {f} /\ (f :> s)[f] = s
    BY OneFacts
  <2>a. KeysOf("MCLAG_DOMAIN")' = KeysOf("MCLAG_DOMAIN") \cup {Domain(d)}
    BY ONLY <1>0, <2>1, KeysAfter
  <2>b. Domain(d)[1] # "MCLAG_INTERFACE" /\ Domain(d) \in KeysOf("MCLAG_DOMAIN")
    BY <1>0, <2>1
  <2>c. KeysOf("MCLAG_INTERFACE")' = KeysOf("MCLAG_INTERFACE")
    BY ONLY <2>b, <2>1, KeysAfter
  <2>3. KeysOf("MCLAG_DOMAIN")' = KeysOf("MCLAG_DOMAIN") /\ KeysOf("MCLAG_INTERFACE")' = KeysOf("MCLAG_INTERFACE")
    BY <2>a, <2>b, <2>c
  <2>4. \A e : e # d => (Has(Domain(e))' <=> Has(Domain(e))) /\ Entry(Domain(e))' = Entry(Domain(e)) /\ \A g : Field(Domain(e), g)' = Field(Domain(e), g)
    BY <1>0, <2>1, ModReads
  <2>5. Has(Domain(d))' /\ \A g : Field(Domain(d), g)' = IF g = f THEN s ELSE Field(Domain(d), g)
    BY <2>1, <2>2, ModReads
  <2>6. DOMAIN Entry(Domain(d))' = {f} \cup DOMAIN Entry(Domain(d))
    <3>1. Entry(Domain(d))' = (f :> s) @@ Entry(Domain(d))
      BY <2>1, ModReads
    <3>2. DOMAIN ((f :> s) @@ Entry(Domain(d))) = DOMAIN (f :> s) \cup DOMAIN Entry(Domain(d))
      BY ONLY MergeFacts
    <3> QED  BY <2>2, <3>1, <3>2
  <2>7. /\ Keepalive(d)' = IF "keepalive_interval" \in DOMAIN Entry(Domain(d))' THEN Field(Domain(d), "keepalive_interval")' ELSE 1
        /\ SessionTimeout(d)' = IF "session_timeout" \in DOMAIN Entry(Domain(d))' THEN Field(Domain(d), "session_timeout")' ELSE 15
    BY DEF Keepalive, SessionTimeout, Field
  <2>8. TimersFit(Keepalive(d)', SessionTimeout(d)')
    BY <2>1, <2>5, <2>6, <2>7, TimerReads
  <2>9. \A e \in Domains : e # d => Keepalive(e)' = Keepalive(e) /\ SessionTimeout(e)' = SessionTimeout(e)
    BY <1>1, <2>4
  <2>10. MclagTimers'
    BY <2>4, <2>8, <2>9 DEF MclagTimers, TimersFit
  <2>11. \A e : Has(Domain(e)) => Has(Domain(e))'
    BY <2>4, <2>5
  <2> QED  BY <2>3, <2>10, <2>11 DEF MclagOne, MclagMembers
<1>6. ASSUME NEW d, NEW l, AddMclagMember(d, l) \/ DelMclagMember(d, l)
      PROVE  MclagOne' /\ MclagMembers' /\ MclagTimers'
  <2> DEFINE m == <<"MCLAG_INTERFACE", d, l>>
  <2>0. m[1] = "MCLAG_INTERFACE" /\ m[2] = d /\ \A e : Domain(e) # m
    BY <1>0
  <2>1. (db' = SetEntry(db, m, NoFields) /\ Has(Domain(d))) \/ db' = Without(db, {m})
    BY <1>6 DEF AddMclagMember, DelMclagMember, Become
  <2> HIDE DEF m
  <2>a. CASE db' = SetEntry(db, m, NoFields) /\ Has(Domain(d))
    <3>1. m[1] # "MCLAG_DOMAIN"
      BY <2>0
    <3>2. KeysOf("MCLAG_DOMAIN")' = KeysOf("MCLAG_DOMAIN")
      BY ONLY <2>a, <3>1, KeysAfter
    <3>3. KeysOf("MCLAG_INTERFACE")' = KeysOf("MCLAG_INTERFACE") \cup {m}
      BY ONLY <2>0, <2>a, KeysAfter
    <3>4. /\ \A s : s # m => (Has(s)' <=> Has(s)) /\ Entry(s)' = Entry(s)
          /\ \A s, g : s # m => Field(s, g)' = Field(s, g)
      BY ONLY <2>a, SetReads
    <3>5. \A e : (Has(Domain(e))' <=> Has(Domain(e))) /\ Entry(Domain(e))' = Entry(Domain(e)) /\ \A g : Field(Domain(e), g)' = Field(Domain(e), g)
      BY ONLY <2>0, <3>4
    <3> QED  BY <1>1, <2>0, <2>a, <3>2, <3>3, <3>5 DEF MclagOne, MclagMembers, MclagTimers
  <2>b. CASE db' = Without(db, {m})
    <3>1. KeysOf("MCLAG_DOMAIN")' = KeysOf("MCLAG_DOMAIN") \ {m} /\ KeysOf("MCLAG_INTERFACE")' = KeysOf("MCLAG_INTERFACE") \ {m}
      BY ONLY <2>b, DropReads
    <3>4. /\ \A s : s # m => (Has(s)' <=> Has(s)) /\ Entry(s)' = Entry(s)
          /\ \A s, g : s # m => Field(s, g)' = Field(s, g)
      BY ONLY <2>b, DropReads
    <3>5. \A e : (Has(Domain(e))' <=> Has(Domain(e))) /\ Entry(Domain(e))' = Entry(Domain(e)) /\ \A g : Field(Domain(e), g)' = Field(Domain(e), g)
      BY ONLY <2>0, <3>4
    <3> QED  BY <1>1, <2>0, <3>1, <3>5 DEF MclagOne, MclagMembers, MclagTimers
  <2> QED  BY <2>1, <2>a, <2>b
<1> QED  BY <1>2, <1>3, <1>4, <1>5, <1>6 DEF MclagStep

\* Of two agents on one address and port, the address has letters; the contact has one name.
AgentsApart == \A r, s \in KeysOf("SNMP_AGENT_ADDRESS_CONFIG") : r # s /\ r[2] = s[2] => r[2][1] \in Lettered
ContactOnce == Has(Contact) => Cardinality(DOMAIN db[Contact]) = 1

LEMMA AgentsStep ==
  ASSUME AgentsApart, Leaves({"SNMP_AGENT_ADDRESS_CONFIG"}) \/ AgentStep
  PROVE  AgentsApart'
<1>1. CASE Leaves({"SNMP_AGENT_ADDRESS_CONFIG"})
  <2>1. KeysOf("SNMP_AGENT_ADDRESS_CONFIG")' = KeysOf("SNMP_AGENT_ADDRESS_CONFIG")
    BY <1>1, LeavesReads
  <2> QED  BY <2>1 DEF AgentsApart
<1>2. ASSUME NEW a, NEW v, AddAgent(a, v) PROVE AgentsApart'
  <2>1. db' = SetEntry(db, Agent(a, v), NoFields)
    BY ONLY <1>2 DEF AddAgent, Become
  <2>2. Agent(a, v)[1] = "SNMP_AGENT_ADDRESS_CONFIG" /\ Agent(a, v)[2] = a
    BY DEF Agent
  <2>3. KeysOf("SNMP_AGENT_ADDRESS_CONFIG")' = KeysOf("SNMP_AGENT_ADDRESS_CONFIG") \cup {Agent(a, v)}
    BY ONLY <2>1, <2>2, KeysAfter
  <2>4. ~\E r \in KeysOf("SNMP_AGENT_ADDRESS_CONFIG") :
           r[2][1] = a[1] /\ a[1] \notin Lettered /\ a[2] \in {"", r[2][2]}
    BY ONLY <1>2 DEF AddAgent
  <2>5. \A r \in KeysOf("SNMP_AGENT_ADDRESS_CONFIG") : r[2] = a => a[1] \in Lettered
    BY ONLY <2>4
  <2> QED  BY ONLY AgentsApart, <2>2, <2>3, <2>5 DEF AgentsApart
<1>3. ASSUME NEW a, NEW v, DelAgent(a, v) PROVE AgentsApart'
  <2>1. db' = Without(db, {Agent(a, v)})
    BY ONLY <1>3 DEF DelAgent, Become
  <2>2. KeysOf("SNMP_AGENT_ADDRESS_CONFIG")' = KeysOf("SNMP_AGENT_ADDRESS_CONFIG") \ {Agent(a, v)}
    BY ONLY <2>1, DropReads
  <2> QED  BY ONLY AgentsApart, <2>2 DEF AgentsApart
<1> QED  BY <1>1, <1>2, <1>3 DEF AgentStep

LEMMA OneName == ASSUME NEW c, NEW mail PROVE Cardinality(DOMAIN (c :> mail)) = 1
<1>1. DOMAIN (c :> mail) = {c}
  BY ONLY OneFacts
<1>2. Cardinality({c}) = 1
  BY ONLY FS_Singleton
<1> QED  BY ONLY <1>1, <1>2

LEMMA ContactStep ==
  ASSUME ContactOnce, Leaves({"SNMP"}) \/ SnmpStep
  PROVE  ContactOnce'
<1>0. Contact[1] = "SNMP" /\ Contact # Location
  BY DEF Contact, Location
<1>1. CASE Leaves({"SNMP"})
  <2>1. (Has(Contact)' <=> Has(Contact)) /\ (Has(Contact) => db'[Contact] = db[Contact])
    BY <1>0, <1>1, LeavesReads
  <2> QED  BY <2>1 DEF ContactOnce, Contact
<1>2. ASSUME NEW c, NEW mail, AddContact(c, mail) \/ ModifyContact(c, mail) PROVE ContactOnce'
  <2>1. db' = SetEntry(db, Contact, c :> mail)
    BY <1>2 DEF AddContact, ModifyContact, Become
  <2>2. db'[Contact] = c :> mail
    BY <2>1, SetReads
  <2> QED  BY <2>2, OneName DEF ContactOnce, Contact
<1>3. ASSUME NEW c, DelContact(c) PROVE ContactOnce'
  <2>1. db' = Without(db, {Contact})
    BY <1>3 DEF DelContact, Become
  <2>2. ~Has(Contact)'
    BY <2>1, DropReads
  <2> QED  BY <2>2 DEF ContactOnce, Contact
<1>4. ASSUME NEW x, AddLocation(x) \/ DelLocation(x) \/ ModifyLocation(x) PROVE ContactOnce'
  <2>1. db' = Without(db, {Location}) \/ \E f : db' = SetEntry(db, Location, f) \/ db' = ModEntry(db, Location, f)
    BY <1>4 DEF AddLocation, DelLocation, ModifyLocation, Put, Become
  <2>2. (Has(Contact)' <=> Has(Contact)) /\ (Has(Contact) => db'[Contact] = db[Contact])
    BY <1>0, <2>1, SetReads, ModReads, DropReads
  <2> QED  BY <2>2 DEF ContactOnce, Contact
<1> QED  BY <1>1, <1>2, <1>3, <1>4 DEF SnmpStep

\* A table has at most n rows, and finitely many: a row is added only while they are fewer.
Counted(t, n) == IsFiniteSet(KeysOf(t)) /\ Cardinality(KeysOf(t)) <= n

LEMMA CountedAdd ==
  ASSUME NEW S, IsFiniteSet(S), NEW n \in Nat, Cardinality(S) <= n, NEW r, r \in S \/ Cardinality(S) # n
  PROVE  IsFiniteSet(S \cup {r}) /\ Cardinality(S \cup {r}) <= n
<1>1. /\ IsFiniteSet(S \cup {r}) /\ Cardinality(S) \in Nat
      /\ Cardinality(S \cup {r}) = IF r \in S THEN Cardinality(S) ELSE Cardinality(S) + 1
  BY FS_AddElement, FS_CardinalityType
<1> QED  BY <1>1

LEMMA CountedLess ==
  ASSUME NEW S, IsFiniteSet(S), NEW n \in Nat, Cardinality(S) <= n, NEW R, R \subseteq S
  PROVE  IsFiniteSet(R) /\ Cardinality(R) <= n
<1>1. IsFiniteSet(R) /\ Cardinality(R) <= Cardinality(S) /\ Cardinality(S) \in Nat /\ Cardinality(R) \in Nat
  BY FS_Subset, FS_CardinalityType
<1> QED  BY <1>1

LEMMA CollectorsStep ==
  ASSUME Counted("SFLOW_COLLECTOR", 2), Leaves({"SFLOW_COLLECTOR"}) \/ CollectorStep
  PROVE  Counted("SFLOW_COLLECTOR", 2)'
<1>1. CASE Leaves({"SFLOW_COLLECTOR"})
  <2>1. KeysOf("SFLOW_COLLECTOR")' = KeysOf("SFLOW_COLLECTOR")
    BY <1>1, LeavesReads
  <2> QED  BY <2>1 DEF Counted
<1>2. ASSUME NEW c, NEW v, AddCollector(c, v) PROVE Counted("SFLOW_COLLECTOR", 2)'
  <2> DEFINE r == <<"SFLOW_COLLECTOR", c>>
  <2>1. \E f : db' = ModEntry(db, r, f)
    BY ONLY <1>2 DEF AddCollector, Put, Become
  <2>2. Has(r) \/ Cardinality(KeysOf("SFLOW_COLLECTOR")) # 2
    BY ONLY <1>2 DEF AddCollector
  <2>3. r \in KeysOf("SFLOW_COLLECTOR") \/ Cardinality(KeysOf("SFLOW_COLLECTOR")) # 2
    BY ONLY <2>2 DEF KeysOf, Has, Rows
  <2>4. r[1] = "SFLOW_COLLECTOR"
    OBVIOUS
  <2> HIDE DEF r
  <2>5. KeysOf("SFLOW_COLLECTOR")' = KeysOf("SFLOW_COLLECTOR") \cup {r}
    BY ONLY <2>1, <2>4, KeysAfter
  <2> QED  BY ONLY Counted("SFLOW_COLLECTOR", 2), <2>3, <2>5, CountedAdd DEF Counted
<1>3. ASSUME NEW c, DelCollector(c) PROVE Counted("SFLOW_COLLECTOR", 2)'
  <2>1. db' = Without(db, {<<"SFLOW_COLLECTOR", c>>})
    BY ONLY <1>3 DEF DelCollector, Become
  <2>2. KeysOf("SFLOW_COLLECTOR")' \subseteq KeysOf("SFLOW_COLLECTOR")
    BY ONLY <2>1, DropReads
  <2> QED  BY ONLY Counted("SFLOW_COLLECTOR", 2), <2>2, CountedLess DEF Counted
<1> QED  BY <1>1, <1>2, <1>3 DEF CollectorStep

LEMMA ServersStep ==
  ASSUME Counted("RADIUS_SERVER", MaxServers), Leaves({"RADIUS_SERVER"}) \/ RadiusStep
  PROVE  Counted("RADIUS_SERVER", MaxServers)'
<1>1. CASE Leaves({"RADIUS_SERVER"})
  <2>1. KeysOf("RADIUS_SERVER")' = KeysOf("RADIUS_SERVER")
    BY <1>1, LeavesReads
  <2> QED  BY <2>1 DEF Counted
<1>2. ASSUME NEW s, AddRadius(s) PROVE Counted("RADIUS_SERVER", MaxServers)'
  <2> DEFINE r == <<"RADIUS_SERVER", s>>
  <2>1. \E f : db' = SetEntry(db, r, f)
    BY ONLY <1>2 DEF AddRadius, Become
  <2>2. Cardinality(KeysOf("RADIUS_SERVER")) # MaxServers
    BY ONLY <1>2 DEF AddRadius
  <2>4. r[1] = "RADIUS_SERVER"
    OBVIOUS
  <2> HIDE DEF r
  <2>5. KeysOf("RADIUS_SERVER")' = KeysOf("RADIUS_SERVER") \cup {r}
    BY ONLY <2>1, <2>4, KeysAfter
  <2> QED  BY ONLY Counted("RADIUS_SERVER", MaxServers), <2>2, <2>5, CountedAdd, ServersAssumption DEF Counted
<1>3. ASSUME NEW s, DelRadius(s) PROVE Counted("RADIUS_SERVER", MaxServers)'
  <2>1. db' = Without(db, {<<"RADIUS_SERVER", s>>})
    BY ONLY <1>3 DEF DelRadius, Become
  <2>2. KeysOf("RADIUS_SERVER")' \subseteq KeysOf("RADIUS_SERVER")
    BY ONLY <2>1, DropReads
  <2> QED  BY ONLY Counted("RADIUS_SERVER", MaxServers), <2>2, CountedLess, ServersAssumption DEF Counted
<1> QED  BY <1>1, <1>2, <1>3 DEF RadiusStep

\* A master has its four fields, whichever is set first.
KubeFields == {"ip", "port", "insecure", "disable"}
KubeWhole == \A r \in KeysOf("KUBERNETES_MASTER") : DOMAIN db[r] = KubeFields

LEMMA MastersStep ==
  ASSUME KubeWhole, Leaves({"KUBERNETES_MASTER"}) \/ KubeStep
  PROVE  KubeWhole'
<1>1. CASE Leaves({"KUBERNETES_MASTER"})
  <2>1. KeysOf("KUBERNETES_MASTER")' = KeysOf("KUBERNETES_MASTER")
    BY <1>1, LeavesReads
  <2>2. \A r \in KeysOf("KUBERNETES_MASTER") : r[1] = "KUBERNETES_MASTER" /\ Has(r)
    BY DEF KeysOf, Has, Rows
  <2>3. \A r \in KeysOf("KUBERNETES_MASTER") : db'[r] = db[r]
    BY <1>1, <2>2, LeavesReads
  <2> QED  BY ONLY KubeWhole, <2>1, <2>3 DEF KubeWhole
<1>2. ASSUME NEW f \in KubeFields, NEW x, KubeServer(f, x) PROVE KubeWhole'
  <2> DEFINE m == <<"KUBERNETES_MASTER", "SERVER">>
             defaults == [ip |-> "", port |-> "6443", insecure |-> "True", disable |-> "False"]
             g == (f :> x) @@ Entry(m) @@ defaults
  <2>1. db' = ModEntry(db, m, g)
    BY ONLY <1>2 DEF KubeServer, Become
  <2>2. m[1] = "KUBERNETES_MASTER"
    OBVIOUS
  <2>3. DOMAIN defaults = KubeFields
    BY DEF KubeFields
  <2>4. Entry(m) = NoFields \/ (m \in KeysOf("KUBERNETES_MASTER") /\ Entry(m) = db[m])
    BY ONLY DEF Entry, Has, KeysOf, Rows
  <2>5. DOMAIN Entry(m) = {} \/ DOMAIN Entry(m) = KubeFields
    BY ONLY KubeWhole, <2>4, NoFieldsFact DEF KubeWhole
  <2> HIDE DEF defaults, m
  <2>6. DOMAIN g = {f} \cup DOMAIN Entry(m) \cup KubeFields
    <3>1. DOMAIN (f :> x) = {f}
      BY ONLY OneFacts
    <3>2. \A a, b : DOMAIN (a @@ b) = DOMAIN a \cup DOMAIN b
      BY ONLY MergeFacts
    <3>3. DOMAIN (Entry(m) @@ defaults) = DOMAIN Entry(m) \cup KubeFields
      BY ONLY <2>3, <3>2
    <3>4. DOMAIN ((f :> x) @@ (Entry(m) @@ defaults)) = {f} \cup (DOMAIN Entry(m) \cup KubeFields)
      BY ONLY <3>1, <3>2, <3>3
    <3>5. DOMAIN (((f :> x) @@ Entry(m)) @@ defaults) = ({f} \cup DOMAIN Entry(m)) \cup KubeFields
      BY ONLY <2>3, <3>1, <3>2
    <3> QED  BY ONLY <3>4, <3>5
  <2>7. DOMAIN g = KubeFields
    BY ONLY <1>2, <2>5, <2>6
  <2> HIDE DEF g
  <2>8. db'[m] = g @@ Entry(m)
    BY ONLY <2>1, ModReads
  <2>9. DOMAIN db'[m] = KubeFields
    BY ONLY <2>5, <2>7, <2>8, MergeFacts
  <2>10. KeysOf("KUBERNETES_MASTER")' = KeysOf("KUBERNETES_MASTER") \cup {m}
    BY ONLY <2>1, <2>2, KeysAfter
  <2>11. \A r \in KeysOf("KUBERNETES_MASTER") : Has(r)
    BY DEF KeysOf, Has, Rows
  <2>12. \A r \in KeysOf("KUBERNETES_MASTER") : r # m => db'[r] = db[r]
    BY ONLY <2>1, <2>11, ModReads
  <2> QED  BY ONLY KubeWhole, <2>9, <2>10, <2>12 DEF KubeWhole
<1> QED  BY <1>1, <1>2 DEF KubeStep, KubeFields

----------------------------------------------------------------------------
(* Every behaviour starts without rows in the tables that commands fill.   *)

LEMMA StartRows ==
  ASSUME Init, NEW r \in Rows
  PROVE  \/ r[1] \in FoundTables \cup QosTables /\ r \in DOMAIN area.start /\ db[r] = area.start[r]
         \/ \E p \in Ports : r = <<"PORT", p>>
<1> DEFINE ports == [s \in {<<"PORT", p>> : p \in On(Ports)} |->
                       [admin_status |-> "up", mtu |-> "9100", speed |-> "40G"]]
<1>1. db = area.start @@ ports /\ area \in Areas
  BY DEF Init
<1>2. DOMAIN ports = {<<"PORT", p>> : p \in On(Ports)}
  OBVIOUS
<1> HIDE DEF ports
<1>3. DOMAIN db = DOMAIN area.start \cup DOMAIN ports /\ \A s \in DOMAIN area.start : db[s] = area.start[s]
  BY ONLY <1>1, MergeFacts
<1>4. CASE r \in DOMAIN area.start
  BY <1>1, <1>3, <1>4, AreasAssumption
<1>5. CASE r \in DOMAIN ports
  BY ONLY <1>2, <1>5 DEF On
<1> QED  BY <1>3, <1>4, <1>5 DEF Rows

LEMMA StartEmpty ==
  ASSUME Init, NEW t, t \notin FoundTables \cup QosTables \cup {"PORT"}
  PROVE  KeysOf(t) = {}
<1>1. ASSUME NEW r \in KeysOf(t) PROVE FALSE
  <2>1. r \in Rows /\ r[1] = t
    BY <1>1 DEF KeysOf
  <2>2. CASE \E p \in Ports : r = <<"PORT", p>>
    BY <2>1, <2>2
  <2> QED  BY <2>1, <2>2, StartRows
<1> QED  BY <1>1

\* What the commands of services keep in step.
ServicesStay ==
    /\ DevicesApart /\ MclagOne /\ MclagMembers /\ MclagTimers /\ AgentsApart /\ ContactOnce
    /\ Counted("SFLOW_COLLECTOR", 2) /\ Counted("RADIUS_SERVER", MaxServers) /\ KubeWhole
ServiceRows ==
    MclagTables \cup {"CONSOLE_PORT", "SNMP_AGENT_ADDRESS_CONFIG", "SNMP", "SFLOW_COLLECTOR", "RADIUS_SERVER", "KUBERNETES_MASTER"}

LEMMA ServicesStart == ASSUME Init PROVE ServicesStay
<1>1. /\ KeysOf("CONSOLE_PORT") = {} /\ KeysOf("MCLAG_DOMAIN") = {} /\ KeysOf("MCLAG_INTERFACE") = {}
      /\ KeysOf("SNMP_AGENT_ADDRESS_CONFIG") = {} /\ KeysOf("SNMP") = {} /\ KeysOf("SFLOW_COLLECTOR") = {}
      /\ KeysOf("RADIUS_SERVER") = {} /\ KeysOf("KUBERNETES_MASTER") = {}
  BY StartEmpty DEF FoundTables, QosTables
<1>2. ~Has(Contact) /\ \A d : ~Has(Domain(d))
  BY <1>1 DEF Has, Contact, Domain, KeysOf, Rows
<1>3. Counted("SFLOW_COLLECTOR", 2) /\ Counted("RADIUS_SERVER", MaxServers)
  BY <1>1, FS_EmptySet, ServersAssumption DEF Counted
<1>4. DevicesApart
  BY <1>1 DEF DevicesApart
<1> QED  BY <1>1, <1>2, <1>3, <1>4 DEF ServicesStay, MclagOne, MclagMembers, MclagTimers, AgentsApart, ContactOnce, KubeWhole

\* A step writes rows of services by the commands of services alone.
LEMMA ServicesOnly ==
  ASSUME BreakoutJobFits, [Next]_vars
  PROVE  \/ Leaves(ServiceRows)
         \/ ConsoleStep \/ MclagStep \/ AgentStep \/ SnmpStep \/ CollectorStep \/ RadiusStep \/ KubeStep
<1>1. CASE Writes(InterfaceTables)
  BY <1>1, WritesLeave DEF InterfaceTables, OwnTables, PortTables, VxlanTables, VrfTables, ServiceRows, MclagTables
<1>2. CASE Writes(BreakoutTables)
  BY <1>2, WritesLeave DEF BreakoutTables, ServiceRows, MclagTables
<1>3. CASE Writes(BufferTables)
  BY <1>3, WritesLeave DEF BufferTables, QosTables, ServiceRows, MclagTables
<1>4. CASE Writes(TrafficTables)
  BY <1>4, WritesLeave DEF TrafficTables, NatTables, OwnTables, ServiceRows, MclagTables
<1>5. CASE Writes(PolicyTables)
  BY <1>5, WritesLeave DEF PolicyTables, PbhTables, NvgreTables, DropTables, KnobTables, ServiceRows, MclagTables
<1>6. CASE Writes(PlainTables)
  BY <1>6, WritesLeave DEF PlainTables, ServiceRows, MclagTables
<1>7. CASE Idle
  <2>1. Writes({})
    BY <1>7, NothingWrites DEF Idle
  <2> QED  BY <2>1, WritesLeave
<1> QED  BY <1>1, <1>2, <1>3, <1>4, <1>5, <1>6, <1>7, NextWrites, ServiceSteps

LEMMA ServicesStep ==
  ASSUME BreakoutJobFits, ServicesStay, [Next]_vars
  PROVE  ServicesStay'
<1>2. ASSUME NEW W, Writes(W), NEW T, W \cap T = {} PROVE Leaves(T)
  BY <1>2, WritesLeave
<1> DEFINE C == {"CONSOLE_PORT"}
           A == {"SNMP_AGENT_ADDRESS_CONFIG"}
           S == {"SNMP"}
           F == {"SFLOW_COLLECTOR"}
           R == {"RADIUS_SERVER"}
           K == {"KUBERNETES_MASTER"}
<1>3. /\ \A X, Y \in {C, MclagTables, A, S, F, R, K} : X # Y => X \cap Y = {}
      /\ C \notin {MclagTables, A, S, F, R, K} /\ MclagTables \notin {A, S, F, R, K} /\ A \notin {S, F, R, K}
      /\ S \notin {F, R, K} /\ F \notin {R, K} /\ R # K
  BY DEF MclagTables
<1> HIDE DEF C, A, S, F, R, K
<1>4. /\ C = {"CONSOLE_PORT"} /\ A = {"SNMP_AGENT_ADDRESS_CONFIG"} /\ S = {"SNMP"} /\ F = {"SFLOW_COLLECTOR"}
      /\ R = {"RADIUS_SERVER"} /\ K = {"KUBERNETES_MASTER"}
  BY DEF C, A, S, F, R, K
<1>5. SUFFICES /\ Leaves(C) \/ ConsoleStep
               /\ Leaves(MclagTables) \/ MclagStep
               /\ Leaves(A) \/ AgentStep
               /\ Leaves(S) \/ SnmpStep
               /\ Leaves(F) \/ CollectorStep
               /\ Leaves(R) \/ RadiusStep
               /\ Leaves(K) \/ KubeStep
  BY <1>4, <1>5, DevicesStep, MclagStays, AgentsStep, ContactStep, CollectorsStep, ServersStep, MastersStep DEF ServicesStay
<1>1. CASE Leaves(ServiceRows)
  <2>1. \A T : T \subseteq ServiceRows => Leaves(T)
    BY <1>1, LeavesLess
  <2>2. /\ C \subseteq ServiceRows /\ MclagTables \subseteq ServiceRows /\ A \subseteq ServiceRows /\ S \subseteq ServiceRows
        /\ F \subseteq ServiceRows /\ R \subseteq ServiceRows /\ K \subseteq ServiceRows
    BY <1>4 DEF ServiceRows
  <2> QED  BY <2>1, <2>2
<1>6. CASE ConsoleStep
  BY <1>2, <1>3, <1>4, <1>6, ConsoleWrites
<1>7. CASE MclagStep
  BY <1>2, <1>3, <1>4, <1>7, MclagWrites
<1>8. CASE AgentStep
  BY <1>2, <1>3, <1>4, <1>8, AgentWrites
<1>9. CASE SnmpStep
  BY <1>2, <1>3, <1>4, <1>9, SnmpWrites
<1>10. CASE CollectorStep
  BY <1>2, <1>3, <1>4, <1>10, CollectorWrites
<1>11. CASE RadiusStep
  BY <1>2, <1>3, <1>4, <1>11, RadiusWrites
<1>12. CASE KubeStep
  BY <1>2, <1>3, <1>4, <1>12, KubeWrites
<1> QED  BY <1>1, <1>6, <1>7, <1>8, <1>9, <1>10, <1>11, <1>12, ServicesOnly

LEMMA ServicesStayFit == ASSUME ServicesStay PROVE ServicesFit
<1>1. Cardinality(KeysOf("MCLAG_DOMAIN")) <= 1
  <2>1. CASE KeysOf("MCLAG_DOMAIN") = {}
    BY <2>1, FS_EmptySet
  <2>2. CASE \E d : KeysOf("MCLAG_DOMAIN") = {d}
    <3>1. PICK d : KeysOf("MCLAG_DOMAIN") = {d}
      BY <2>2
    <3>2. Cardinality({d}) = 1
      BY FS_Singleton
    <3> QED  BY <3>1, <3>2
  <2> QED  BY <2>1, <2>2 DEF ServicesStay, MclagOne
<1>2. MclagFits
  BY <1>1 DEF ServicesStay, MclagMembers, MclagTimers, MclagFits
<1>3. SnmpStarts
  BY DEF ServicesStay, AgentsApart, ContactOnce, SnmpStarts
<1> QED  BY <1>2, <1>3 DEF ServicesStay, Counted, KubeWhole, KubeFields, ServicesFit

LEMMA BreakoutStart == ASSUME Init PROVE BreakoutJobFits
  BY DEF Init, BreakoutJobFits, Doing

\* What the commands of the services check of one row against the others stays true
\* whatever they are called in turn: console lines with one device, one MCLAG domain
\* with its members and timers, agents and a contact the SNMP daemon starts with, at
\* most two collectors and MaxServers RADIUS servers, a whole Kubernetes master.
THEOREM ServicesKept == Spec => []ServicesFit
<1> DEFINE I == BreakoutJobFits /\ ServicesStay
<1>1. Init => I
  BY BreakoutStart, ServicesStart
<1>2. I /\ [Next]_vars => I'
  BY BreakoutJobStep, ServicesStep
<1>3. I => ServicesFit
  BY ServicesStayFit
<1> HIDE DEF I
<1> QED  BY <1>1, <1>2, <1>3, PTL DEF Spec

----------------------------------------------------------------------------
(* Policies.                                                               *)

LEMMA PolicyNumbers ==
  /\ Blank \notin DOMAIN IpVersion
  /\ "hash" \in DOMAIN PbhCapability["PBH_RULE"] => "REMOVE" \notin PbhCapability["PBH_RULE"]["hash"]
  /\ \A type \in DOMAIN DropCapability : DropCapability[type].count \in Nat
  BY PoliciesAssumption DEF Blank

\* A row is set and some go.
LEMMA SetDropReads ==
  ASSUME NEW r, NEW h, NEW S, r \notin S, db' = Without(SetEntry(db, r, h), S)
  PROVE  /\ Has(r)' /\ db'[r] = h
         /\ \A g : Field(r, g)' = IF g \in DOMAIN h THEN h[g] ELSE Blank
         /\ \A s : s \notin S \cup {r} => (Has(s)' <=> Has(s)) /\ (Has(s) => db'[s] = db[s])
         /\ \A s, g : s \notin S \cup {r} => Field(s, g)' = Field(s, g)
         /\ \A t : KeysOf(t)' = (KeysOf(t) \cup {s \in {r} : r[1] = t}) \ S
<1> DEFINE e == SetEntry(db, r, h)
<1>1. DOMAIN e = DOMAIN db \cup {r} /\ e[r] = h /\ \A s \in DOMAIN db : s # r => e[s] = db[s]
  BY DEF SetEntry, :>, @@
<1>2. db' = Without(e, S)
  OBVIOUS
<1> HIDE DEF e
<1>3. DOMAIN db' = DOMAIN e \ S /\ \A s \in DOMAIN e \ S : db'[s] = e[s]
  BY ONLY <1>2, WithoutFacts
<1>4. db'[r] = h /\ r \in DOMAIN db'
  BY ONLY <1>1, <1>3, r \notin S
<1>5. \A s : s \notin S \cup {r} => (Has(s)' <=> Has(s)) /\ (Has(s) => db'[s] = db[s])
  BY ONLY <1>1, <1>3 DEF Has
<1>6. \A g : Field(r, g)' = IF g \in DOMAIN h THEN h[g] ELSE Blank
  BY <1>4 DEF Field, Blank, Entry, Has
<1>7. \A s, g : s \notin S \cup {r} => Field(s, g)' = Field(s, g)
  <2> SUFFICES ASSUME NEW s, NEW g, s \notin S \cup {r}
               PROVE  Field(s, g)' = Field(s, g)
    OBVIOUS
  <2>1. CASE s \in DOMAIN db
    BY <1>5, <2>1 DEF Field, Blank, Entry, Has
  <2>2. CASE s \notin DOMAIN db
    BY <1>5, <2>2, NoFieldsFact DEF Field, Blank, Has, Entry
  <2> QED  BY <2>1, <2>2
<1>8. \A t : KeysOf(t)' = (KeysOf(t) \cup {s \in {r} : r[1] = t}) \ S
  BY ONLY <1>1, <1>3 DEF KeysOf, Rows
<1> QED  BY <1>4, <1>5, <1>6, <1>7, <1>8 DEF Has

LEMMA ChosenFacts ==
  ASSUME NEW o
  PROVE  /\ \A f \in DOMAIN Chosen(o) : f \in DOMAIN o /\ o[f] # Blank /\ Chosen(o)[f] = o[f]
         /\ \A f \in DOMAIN o : o[f] # Blank => f \in DOMAIN Chosen(o)
  BY DEF Chosen, Blank

\* A hash field has a mask of its version.
HashFieldsFit == \A r \in KeysOf("PBH_HASH_FIELD") : IpVersion[db[r].hash_field] = Field(r, "ip_mask")

LEMMA HashFieldsStep ==
  ASSUME HashFieldsFit, Leaves({"PBH_HASH_FIELD"}) \/ FieldsStep
  PROVE  HashFieldsFit'
<1>0. /\ \A n : HashField(n)[1] = "PBH_HASH_FIELD"
      /\ \A r \in KeysOf("PBH_HASH_FIELD") : r[1] = "PBH_HASH_FIELD" /\ Has(r)
  BY DEF HashField, KeysOf, Has, Rows
<1>1. CASE Leaves({"PBH_HASH_FIELD"})
  <2>1. KeysOf("PBH_HASH_FIELD")' = KeysOf("PBH_HASH_FIELD")
    BY <1>1, LeavesReads
  <2>2. \A r \in KeysOf("PBH_HASH_FIELD") : db'[r] = db[r] /\ Field(r, "ip_mask")' = Field(r, "ip_mask")
    BY <1>0, <1>1, LeavesReads
  <2> QED  BY ONLY HashFieldsFit, <2>1, <2>2 DEF HashFieldsFit
<1>2. ASSUME NEW n, DeleteHashField(n) PROVE HashFieldsFit'
  <2>1. db' = Without(db, {HashField(n)})
    BY <1>2 DEF DeleteHashField, Become
  <2>2. KeysOf("PBH_HASH_FIELD")' = KeysOf("PBH_HASH_FIELD") \ {HashField(n)}
    BY ONLY <2>1, DropReads
  <2>3. \A s : s \notin {HashField(n)} => (Has(s) => db'[s] = db[s]) /\ Field(s, "ip_mask")' = Field(s, "ip_mask")
    BY ONLY <2>1, DropReads
  <2> QED  BY ONLY HashFieldsFit, <1>0, <2>2, <2>3 DEF HashFieldsFit
<1>3. ASSUME NEW n, NEW h, db' = SetEntry(db, HashField(n), h),
             IpVersion[h.hash_field] = IF "ip_mask" \in DOMAIN h THEN h.ip_mask ELSE Blank
      PROVE  HashFieldsFit'
  <2>0. db' = SetEntry(db, HashField(n), h)
    BY ONLY <1>3
  <2>1. KeysOf("PBH_HASH_FIELD")' = KeysOf("PBH_HASH_FIELD") \cup {HashField(n)}
    BY ONLY <1>0, <2>0, KeysAfter
  <2>2. db'[HashField(n)] = h /\ Field(HashField(n), "ip_mask")' = IF "ip_mask" \in DOMAIN h THEN h["ip_mask"] ELSE Blank
    BY ONLY <2>0, SetReads
  <2>3. \A s : s # HashField(n) => (Has(s) => db'[s] = db[s]) /\ Field(s, "ip_mask")' = Field(s, "ip_mask")
    BY ONLY <2>0, SetReads
  <2> QED  BY ONLY HashFieldsFit, <1>0, <1>3, <2>1, <2>2, <2>3 DEF HashFieldsFit
<1>4. ASSUME NEW n, NEW field \in DOMAIN IpVersion, NEW mask, AddHashField(n, field, mask) PROVE HashFieldsFit'
  <2> DEFINE o == [hash_field |-> field, ip_mask |-> mask]
             h == Chosen(o)
  <2>1. db' = SetEntry(db, HashField(n), h) /\ IpVersion[field] = mask
    BY ONLY <1>4 DEF AddHashField, Become
  <2>2. DOMAIN o = {"hash_field", "ip_mask"} /\ o["hash_field"] = field /\ o["ip_mask"] = mask
    OBVIOUS
  <2> HIDE DEF o
  <2>3. h["hash_field"] = field
    BY ONLY <1>4, <2>2, ChosenFacts, PolicyNumbers
  <2>4. mask = IF "ip_mask" \in DOMAIN h THEN h["ip_mask"] ELSE Blank
    BY ONLY <2>2, ChosenFacts
  <2> HIDE DEF h
  <2> QED  BY ONLY <1>3, <2>1, <2>3, <2>4
<1>5. ASSUME NEW n, NEW field, NEW mask, UpdateHashField(n, field, mask) PROVE HashFieldsFit'
  <2> DEFINE new == Chosen([hash_field |-> field, ip_mask |-> mask])
             both == new @@ Entry(HashField(n))
             h == [f \in DOMAIN (new @@ db[HashField(n)]) \ {} |-> (new @@ db[HashField(n)])[f]]
  <2>1. db' = SetEntry(db, HashField(n), h) /\ Has(HashField(n))
    BY ONLY <1>5 DEF UpdateHashField, UpdateEntry, Become
  <2>2. IpVersion[both.hash_field] = IF "ip_mask" \in DOMAIN both THEN both.ip_mask ELSE Blank
    BY ONLY <1>5 DEF UpdateHashField, Blank
  <2> HIDE DEF new
  <2>3. both = new @@ db[HashField(n)]
    BY ONLY <2>1 DEF Entry
  <2>4. h = both
    BY ONLY <2>3 DEF @@
  <2> HIDE DEF h, both
  <2> QED  BY ONLY <1>3, <2>1, <2>2, <2>4
<1> QED  BY <1>1, <1>2, <1>4, <1>5 DEF FieldsStep

\* A rule matches something and has a hash.
RulesMatch ==
    \A r \in KeysOf("PBH_RULE") : r = Rule(r[2], r[3]) /\ DOMAIN db[r] \cap Matches # {} /\ "hash" \in DOMAIN db[r]
\* What is saved as counted is of a rule that counts.
SavedCounts ==
    \A s \in KeysOf("PBH_SAVED") :
        s = Saved(s[2], s[3]) /\ (db[s].counts = "ENABLED" => Field(Rule(s[2], s[3]), "flow_counter") = "ENABLED")

LEMMA RuleKeys ==
  /\ \A t, n : Rule(t, n)[1] = "PBH_RULE" /\ Rule(t, n)[2] = t /\ Rule(t, n)[3] = n
  /\ \A t, n : Saved(t, n)[1] = "PBH_SAVED" /\ Saved(t, n)[2] = t /\ Saved(t, n)[3] = n
  BY DEF Rule, Saved

LEMMA RuleOption ==
  ASSUME NEW o \in RuleOptions, "flow_counter" \in DOMAIN o
  PROVE  o["flow_counter"] \in {"ENABLED", "DISABLED"}
<1>1. PICK c : o = Chosen(c) /\ c.flow_counter \in {"", "ENABLED", "DISABLED"}
  BY DEF RuleOptions
<1>2. c["flow_counter"] \in {Blank, "ENABLED", "DISABLED"}
  BY <1>1 DEF Blank
<1>3. c["flow_counter"] # Blank /\ o["flow_counter"] = c["flow_counter"]
  BY ONLY <1>1, "flow_counter" \in DOMAIN o, ChosenFacts
<1> QED  BY ONLY <1>2, <1>3

LEMMA RuleWritten ==
  ASSUME RulesMatch, SavedCounts, NEW t, NEW n, NEW h, NEW S \in SUBSET {Saved(t, n)},
         db' = Without(SetEntry(db, Rule(t, n), h), S),
         DOMAIN h \cap Matches # {}, "hash" \in DOMAIN h,
         \/ S = {Saved(t, n)}
         \/ "flow_counter" \in DOMAIN h /\ h["flow_counter"] = "ENABLED"
         \/ Field(Rule(t, n), "flow_counter") # "ENABLED"
         \/ "flow_counter" \in DOMAIN h /\ h["flow_counter"] = Field(Rule(t, n), "flow_counter")
  PROVE  RulesMatch' /\ SavedCounts'
<1>0. /\ \A r \in KeysOf("PBH_RULE") : r[1] = "PBH_RULE" /\ Has(r)
      /\ \A r \in KeysOf("PBH_SAVED") : r[1] = "PBH_SAVED" /\ Has(r)
  BY DEF KeysOf, Has, Rows
<1>1. Rule(t, n) \notin S
  BY RuleKeys
<1>2. /\ db'[Rule(t, n)] = h
      /\ \A g : Field(Rule(t, n), g)' = IF g \in DOMAIN h THEN h[g] ELSE Blank
      /\ \A s : s \notin S \cup {Rule(t, n)} => (Has(s) => db'[s] = db[s])
      /\ \A s, g : s \notin S \cup {Rule(t, n)} => Field(s, g)' = Field(s, g)
      /\ \A x : KeysOf(x)' = (KeysOf(x) \cup {s \in {Rule(t, n)} : Rule(t, n)[1] = x}) \ S
  BY <1>1, SetDropReads
<1>3. KeysOf("PBH_RULE")' \subseteq KeysOf("PBH_RULE") \cup {Rule(t, n)} /\ KeysOf("PBH_SAVED")' = KeysOf("PBH_SAVED") \ S
  BY <1>2, RuleKeys
<1>4. RulesMatch'
  <2>1. \A r \in KeysOf("PBH_RULE") : r # Rule(t, n) => db'[r] = db[r]
    BY <1>0, <1>2, RuleKeys
  <2> QED  BY <1>2, <1>3, <2>1, RuleKeys DEF RulesMatch
<1>5. ASSUME NEW s \in KeysOf("PBH_SAVED"), s \notin S, db[s].counts = "ENABLED"
      PROVE  Field(Rule(s[2], s[3]), "flow_counter")' = "ENABLED"
  <2>1. s = Saved(s[2], s[3]) /\ Field(Rule(s[2], s[3]), "flow_counter") = "ENABLED"
    BY <1>5 DEF SavedCounts
  <2>2. CASE Rule(s[2], s[3]) = Rule(t, n)
    <3>1. s[2] = t /\ s[3] = n
      BY <2>2, RuleKeys
    <3>2. s = Saved(t, n)
      BY <2>1, <3>1
    <3>3. "flow_counter" \in DOMAIN h /\ h["flow_counter"] = "ENABLED"
      BY <1>5, <2>1, <3>1, <3>2
    <3> QED  BY <1>2, <2>2, <3>3
  <2>3. CASE Rule(s[2], s[3]) # Rule(t, n)
    <3>1. Rule(s[2], s[3]) \notin S \cup {Rule(t, n)}
      BY <2>3, RuleKeys
    <3> QED  BY <1>2, <2>1, <3>1
  <2> QED  BY <2>2, <2>3
<1>6. SavedCounts'
  <2>1. \A s \in KeysOf("PBH_SAVED") : s \notin S => db'[s] = db[s]
    BY <1>0, <1>2, RuleKeys
  <2> QED  BY <1>3, <1>5, <2>1 DEF SavedCounts
<1> QED  BY <1>4, <1>6

LEMMA RulesStay ==
  ASSUME RulesMatch, SavedCounts, Leaves({"PBH_RULE", "PBH_SAVED"}) \/ RulesStep
  PROVE  RulesMatch' /\ SavedCounts'
<1>0. /\ \A r \in KeysOf("PBH_RULE") : r[1] = "PBH_RULE" /\ Has(r)
      /\ \A r \in KeysOf("PBH_SAVED") : r[1] = "PBH_SAVED" /\ Has(r)
      /\ \A t, n : Has(Rule(t, n)) => Rule(t, n) \in KeysOf("PBH_RULE")
  BY DEF KeysOf, Has, Rows, Rule
<1>1. CASE Leaves({"PBH_RULE", "PBH_SAVED"})
  <2>1. KeysOf("PBH_RULE")' = KeysOf("PBH_RULE") /\ KeysOf("PBH_SAVED")' = KeysOf("PBH_SAVED")
    BY <1>1, LeavesReads
  <2>2. /\ \A r \in KeysOf("PBH_RULE") \cup KeysOf("PBH_SAVED") : db'[r] = db[r]
        /\ \A t, n : Field(Rule(t, n), "flow_counter")' = Field(Rule(t, n), "flow_counter")
    BY <1>0, <1>1, LeavesReads, RuleKeys
  <2> QED  BY ONLY RulesMatch, SavedCounts, <2>1, <2>2 DEF RulesMatch, SavedCounts
<1>3. ASSUME NEW t, NEW n, NEW o, AddRule(t, n, o) PROVE RulesMatch' /\ SavedCounts'
  <2>1. db' = SetEntry(db, Rule(t, n), o) /\ ~Has(Rule(t, n)) /\ "hash" \in DOMAIN o /\ DOMAIN o \cap Matches # {}
    BY ONLY <1>3 DEF AddRule, Become
  <2>2. db' = Without(SetEntry(db, Rule(t, n), o), {})
    BY ONLY <2>1 DEF Without, SetEntry, @@
  <2>3. Field(Rule(t, n), "flow_counter") # "ENABLED"
    <3>1. Field(Rule(t, n), "flow_counter") = Blank
      BY ONLY <2>1, FieldIs, NoFieldsFact DEF Entry
    <3>2. Blank # "ENABLED"
      BY DEF Blank
    <3> QED  BY ONLY <3>1, <3>2
  <2> QED  BY ONLY RulesMatch, SavedCounts, <2>1, <2>2, <2>3, RuleWritten
<1>4. ASSUME NEW t, NEW n, NEW o \in RuleOptions, SetRule(t, n, o) PROVE RulesMatch' /\ SavedCounts'
  <2> DEFINE e == db[Rule(t, n)]
             h == [f \in DOMAIN (o @@ e) \ {} |-> (o @@ e)[f]]
             S == IF "flow_counter" \in DOMAIN o /\ o.flow_counter = "DISABLED" THEN {Saved(t, n)} ELSE {}
  <2>1. db' = Without(SetEntry(db, Rule(t, n), h), S) /\ Has(Rule(t, n))
    BY ONLY <1>4 DEF SetRule, UpdateEntry, Become
  <2>2. DOMAIN e \cap Matches # {} /\ "hash" \in DOMAIN e
    BY ONLY <1>0, <2>1, RulesMatch DEF RulesMatch
  <2>3. Field(Rule(t, n), "flow_counter") = IF "flow_counter" \in DOMAIN e THEN e["flow_counter"] ELSE Blank
    BY ONLY <2>1, FieldIs DEF Entry
  <2> HIDE DEF e
  <2>4. /\ DOMAIN h = DOMAIN o \cup DOMAIN e
        /\ \A f \in DOMAIN o : h[f] = o[f]
        /\ \A f \in DOMAIN e \ DOMAIN o : h[f] = e[f]
    <3> DEFINE m == o @@ e
    <3>1. DOMAIN m = DOMAIN o \cup DOMAIN e /\ (\A f \in DOMAIN o : m[f] = o[f]) /\ \A f \in DOMAIN e \ DOMAIN o : m[f] = e[f]
      BY MergeFacts
    <3>2. h = [f \in DOMAIN m \ {} |-> m[f]]
      OBVIOUS
    <3> HIDE DEF h, m
    <3> QED  BY ONLY <3>1, <3>2
  <2> HIDE DEF h
  <2>5. S \in SUBSET {Saved(t, n)}
    OBVIOUS
  <2>6. "flow_counter" \in DOMAIN o /\ o["flow_counter"] # "ENABLED" => S = {Saved(t, n)}
    BY ONLY <1>4, RuleOption
  <2> HIDE DEF S
  <2>7. Blank # "ENABLED"
    BY DEF Blank
  <2> QED  BY ONLY RulesMatch, SavedCounts, <2>1, <2>2, <2>3, <2>4, <2>5, <2>6, <2>7, RuleWritten
<1>5. ASSUME NEW t, NEW n, NEW gone, UnsetRule(t, n, gone) PROVE RulesMatch' /\ SavedCounts'
  <2> DEFINE e == db[Rule(t, n)]
             h == [f \in DOMAIN (NoFields @@ e) \ gone |-> (NoFields @@ e)[f]]
             S == IF "flow_counter" \in gone THEN {Saved(t, n)} ELSE {}
  <2>1. db' = Without(SetEntry(db, Rule(t, n), h), S) /\ Has(Rule(t, n)) /\ (DOMAIN e \cap Matches) \ gone # {}
    BY ONLY <1>5 DEF UnsetRule, UpdateEntry, Become
  <2>2. "hash" \in DOMAIN e
    BY ONLY <1>0, <2>1, RulesMatch DEF RulesMatch
  <2>3. Field(Rule(t, n), "flow_counter") = IF "flow_counter" \in DOMAIN e THEN e["flow_counter"] ELSE Blank
    BY ONLY <2>1, FieldIs DEF Entry
  <2>4. "hash" \notin gone
    <3>1. MayUpdate(Rule(t, n), NoFields, gone)
      BY ONLY <1>5 DEF UnsetRule
    <3>2. "hash" \in gone => "hash" \in DOMAIN PbhCapability[Rule(t, n)[1]] /\ "REMOVE" \in PbhCapability[Rule(t, n)[1]]["hash"]
      BY ONLY <3>1 DEF MayUpdate
    <3> QED  BY ONLY <3>2, PolicyNumbers, RuleKeys
  <2> HIDE DEF e
  <2>5. /\ DOMAIN h = (DOMAIN NoFields \cup DOMAIN e) \ gone
        /\ \A f \in DOMAIN e \ (gone \cup DOMAIN NoFields) : h[f] = e[f]
    <3> DEFINE m == NoFields @@ e
    <3>1. DOMAIN m = DOMAIN NoFields \cup DOMAIN e /\ \A f \in DOMAIN e \ DOMAIN NoFields : m[f] = e[f]
      BY MergeFacts
    <3>2. h = [f \in DOMAIN m \ gone |-> m[f]]
      OBVIOUS
    <3> HIDE DEF h, m
    <3> QED  BY ONLY <3>1, <3>2
  <2> HIDE DEF h
  <2>6. S \in SUBSET {Saved(t, n)} /\ ("flow_counter" \in gone => S = {Saved(t, n)})
    OBVIOUS
  <2> HIDE DEF S
  <2>7. Blank # "ENABLED"
    BY DEF Blank
  <2> QED  BY ONLY RulesMatch, SavedCounts, <2>1, <2>2, <2>3, <2>4, <2>5, <2>6, <2>7, NoFieldsFact, RuleWritten
<1>6. ASSUME NEW t, NEW n, DeleteRule(t, n) PROVE RulesMatch' /\ SavedCounts'
  <2> DEFINE S == {Rule(t, n), Saved(t, n)}
  <2>1. db' = Without(db, S)
    BY ONLY <1>6 DEF DeleteRule, Become
  <2>2. /\ \A x : KeysOf(x)' = KeysOf(x) \ S
        /\ \A s : s \notin S => (Has(s) => db'[s] = db[s])
        /\ \A s, g : s \notin S => Field(s, g)' = Field(s, g)
    BY ONLY <2>1, DropReads
  <2>3. RulesMatch'
    BY ONLY <1>0, <2>2, RulesMatch DEF RulesMatch
  <2>4. ASSUME NEW s \in KeysOf("PBH_SAVED") \ S PROVE Rule(s[2], s[3]) \notin S
    <3>1. s = Saved(s[2], s[3])
      BY ONLY <2>4, SavedCounts DEF SavedCounts
    <3>2. Rule(s[2], s[3]) # Saved(t, n)
      BY ONLY RuleKeys
    <3>3. Rule(s[2], s[3]) = Rule(t, n) => s[2] = t /\ s[3] = n
      BY ONLY RuleKeys
    <3> QED  BY ONLY <2>4, <3>1, <3>2, <3>3
  <2> HIDE DEF S
  <2>5. SavedCounts'
    BY ONLY <1>0, <2>2, <2>4, SavedCounts DEF SavedCounts
  <2> QED  BY ONLY <2>3, <2>5
<1>7. CASE ClearPbh
  <2> DEFINE g == [s \in {Saved(r[2], r[3]) : r \in KeysOf("PBH_RULE")} |-> [counts |-> Field(Rule(s[2], s[3]), "flow_counter")]]
             d == Without(db, KeysOf("PBH_SAVED"))
  <2>1. db' = g @@ d
    BY ONLY <1>7 DEF ClearPbh, Become
  <2>2. /\ DOMAIN g = {Saved(r[2], r[3]) : r \in KeysOf("PBH_RULE")}
        /\ \A s \in DOMAIN g : g[s].counts = Field(Rule(s[2], s[3]), "flow_counter")
    OBVIOUS
  <2>3. DOMAIN d = DOMAIN db \ KeysOf("PBH_SAVED") /\ \A s \in DOMAIN db \ KeysOf("PBH_SAVED") : d[s] = db[s]
    BY ONLY WithoutFacts
  <2> HIDE DEF g, d
  <2>4. /\ DOMAIN db' = DOMAIN g \cup DOMAIN d
        /\ \A s \in DOMAIN g : db'[s] = g[s]
        /\ \A s \in DOMAIN d \ DOMAIN g : db'[s] = d[s]
    <3>1. /\ DOMAIN (g @@ d) = DOMAIN g \cup DOMAIN d
          /\ \A s \in DOMAIN g : (g @@ d)[s] = g[s]
          /\ \A s \in DOMAIN d \ DOMAIN g : (g @@ d)[s] = d[s]
      BY ONLY MergeFacts
    <3> QED  BY ONLY <2>1, <3>1
  <2>5. \A s \in DOMAIN g : s[1] = "PBH_SAVED" /\ s = Saved(s[2], s[3])
    BY ONLY <2>2, RuleKeys
  <2>6. Leaves({"PBH_RULE"})
    <3>1. \A r : r[1] = "PBH_RULE" => r \notin KeysOf("PBH_SAVED") /\ r \notin DOMAIN g
      BY ONLY <2>5 DEF KeysOf
    <3> QED  BY ONLY <2>3, <2>4, <3>1 DEF Leaves, Beside, Same
  <2>7. /\ KeysOf("PBH_RULE")' = KeysOf("PBH_RULE")
        /\ \A t, n : Field(Rule(t, n), "flow_counter")' = Field(Rule(t, n), "flow_counter")
    BY ONLY <2>6, LeavesReads, RuleKeys
  <2>8. \A r \in KeysOf("PBH_RULE") : db'[r] = db[r]
    BY ONLY <1>0, <2>6, LeavesReads
  <2>9. RulesMatch'
    BY ONLY <2>7, <2>8, RulesMatch DEF RulesMatch
  <2>10. KeysOf("PBH_SAVED")' \subseteq DOMAIN g
    BY ONLY <2>3, <2>4 DEF KeysOf, Rows
  <2>11. SavedCounts'
    BY ONLY <2>2, <2>4, <2>5, <2>7, <2>10 DEF SavedCounts
  <2> QED  BY ONLY <2>9, <2>11
<1> QED  BY <1>1, <1>3, <1>4, <1>5, <1>6, <1>7 DEF RulesStep

\* A map has its tunnel: a change of tunnels or maps is written when the model accepts it.
LEMMA TunnelsStay ==
  ASSUME YangAccepts(db), Leaves(NvgreTables) \/ NvgreStep
  PROVE  YangAccepts(db')
<1>1. CASE Leaves(NvgreTables)
  <2>1. \A r : r[1] \in NvgreTables => (r \in DOMAIN db' <=> r \in DOMAIN db)
    BY <1>1 DEF Leaves, Beside, Same
  <2>2. \A t : NvgreTunnel(t)[1] \in NvgreTables
    BY DEF NvgreTunnel, NvgreTables
  <2>3. "NVGRE_TUNNEL_MAP" \in NvgreTables
    BY DEF NvgreTables
  <2> QED  BY ONLY YangAccepts(db), <2>1, <2>2, <2>3 DEF YangAccepts
<1>2. CASE NvgreStep
  BY <1>2 DEF NvgreStep, AddNvgre, DelNvgre, AddNvgreMap, DelNvgreMap, Validated, Become
<1> QED  BY <1>1, <1>2

\* A reason has its counter; the counters of a type are as many as the switch has.
ReasonsKept == \A r \in KeysOf("DEBUG_COUNTER_DROP_REASON") : Has(DropCounter(r[2]))
OfType(type) == {r \in KeysOf("DEBUG_COUNTER") : db[r].type = type}
CountersKept ==
    /\ IsFiniteSet(KeysOf("DEBUG_COUNTER"))
    /\ \A type \in DOMAIN DropCapability : Cardinality(OfType(type)) <= DropCapability[type].count

LEMMA DropKeys ==
  /\ \A n : DropCounter(n)[1] = "DEBUG_COUNTER" /\ DropCounter(n)[2] = n
  /\ \A n, x : Reason(n, x)[1] = "DEBUG_COUNTER_DROP_REASON" /\ Reason(n, x)[2] = n
  BY DEF DropCounter, Reason

LEMMA FewerOfType ==
  ASSUME CountersKept, KeysOf("DEBUG_COUNTER")' \subseteq KeysOf("DEBUG_COUNTER"),
         \A r \in KeysOf("DEBUG_COUNTER")' : db'[r] = db[r]
  PROVE  CountersKept'
<1>1. IsFiniteSet(KeysOf("DEBUG_COUNTER")')
  BY FS_Subset DEF CountersKept
<1>2. ASSUME NEW type \in DOMAIN DropCapability
      PROVE  Cardinality(OfType(type)') <= DropCapability[type].count
  <2>1. OfType(type)' \subseteq OfType(type)
    BY DEF OfType
  <2>2. IsFiniteSet(OfType(type))
    BY FS_Subset DEF OfType, CountersKept
  <2>3. Cardinality(OfType(type)) <= DropCapability[type].count /\ DropCapability[type].count \in Nat
    BY PolicyNumbers DEF CountersKept
  <2> QED  BY <2>1, <2>2, <2>3, CountedLess
<1> QED  BY <1>1, <1>2 DEF CountersKept

LEMMA CountersStay ==
  ASSUME ReasonsKept, CountersKept, Leaves(DropTables) \/ DropStep
  PROVE  ReasonsKept' /\ CountersKept'
<1>0. /\ \A r \in KeysOf("DEBUG_COUNTER") : r[1] = "DEBUG_COUNTER" /\ Has(r)
      /\ \A r \in KeysOf("DEBUG_COUNTER_DROP_REASON") : r[1] = "DEBUG_COUNTER_DROP_REASON" /\ Has(r)
  BY DEF KeysOf, Has, Rows
<1>1. CASE Leaves(DropTables)
  <2>1. /\ KeysOf("DEBUG_COUNTER")' = KeysOf("DEBUG_COUNTER")
        /\ KeysOf("DEBUG_COUNTER_DROP_REASON")' = KeysOf("DEBUG_COUNTER_DROP_REASON")
    BY <1>1, LeavesReads DEF DropTables
  <2>2. \A n : Has(DropCounter(n))' <=> Has(DropCounter(n))
    BY <1>1, DropKeys, LeavesReads DEF DropTables
  <2>3. \A r \in KeysOf("DEBUG_COUNTER") : db'[r] = db[r]
    BY <1>0, <1>1, LeavesReads DEF DropTables
  <2>4. ReasonsKept'
    BY ONLY <2>1, <2>2, ReasonsKept DEF ReasonsKept
  <2> QED  BY ONLY <2>1, <2>3, <2>4, CountersKept, FewerOfType
<1>2. ASSUME NEW n, DeleteCounter(n) PROVE ReasonsKept' /\ CountersKept'
  <2> DEFINE S == {DropCounter(n)} \cup {r \in KeysOf("DEBUG_COUNTER_DROP_REASON") : r[2] = n}
  <2>1. db' = Without(db, S)
    BY ONLY <1>2 DEF DeleteCounter, Become
  <2>2. /\ \A x : KeysOf(x)' = KeysOf(x) \ S
        /\ \A s : s \notin S => (Has(s)' <=> Has(s)) /\ (Has(s) => db'[s] = db[s])
    BY ONLY <2>1, DropReads
  <2>3. \A r \in KeysOf("DEBUG_COUNTER_DROP_REASON") \ S : DropCounter(r[2]) \notin S
    BY ONLY <1>0, DropKeys
  <2> HIDE DEF S
  <2>4. ReasonsKept'
    BY ONLY <2>2, <2>3, ReasonsKept DEF ReasonsKept
  <2>5. KeysOf("DEBUG_COUNTER")' \subseteq KeysOf("DEBUG_COUNTER") /\ \A r \in KeysOf("DEBUG_COUNTER")' : db'[r] = db[r]
    BY ONLY <1>0, <2>2
  <2> QED  BY ONLY <2>4, <2>5, CountersKept, FewerOfType
<1>3. ASSUME NEW n, NEW reasons, RemoveReasons(n, reasons) PROVE ReasonsKept' /\ CountersKept'
  <2> DEFINE S == {Reason(n, x) : x \in reasons}
  <2>1. db' = Without(db, S)
    BY ONLY <1>3 DEF RemoveReasons, Become
  <2>2. /\ \A x : KeysOf(x)' = KeysOf(x) \ S
        /\ \A s : s \notin S => (Has(s)' <=> Has(s)) /\ (Has(s) => db'[s] = db[s])
    BY ONLY <2>1, DropReads
  <2>3. \A m : DropCounter(m) \notin S
    BY ONLY DropKeys
  <2> HIDE DEF S
  <2>4. ReasonsKept'
    BY ONLY <2>2, <2>3, ReasonsKept DEF ReasonsKept
  <2>5. KeysOf("DEBUG_COUNTER")' \subseteq KeysOf("DEBUG_COUNTER") /\ \A r \in KeysOf("DEBUG_COUNTER")' : db'[r] = db[r]
    BY ONLY <1>0, <2>2
  <2> QED  BY ONLY <2>4, <2>5, CountersKept, FewerOfType
<1>4. ASSUME NEW n, NEW reasons
      PROVE  LET d == WithReasons(db, n, reasons)
             IN  /\ DOMAIN d = {Reason(n, x) : x \in reasons} \cup DOMAIN db
                 /\ \A s \in DOMAIN db : s \notin {Reason(n, x) : x \in reasons} => d[s] = db[s]
  <2> DEFINE g == [r \in {Reason(n, x) : x \in reasons} |-> NoFields]
  <2>1. DOMAIN g = {Reason(n, x) : x \in reasons}
    OBVIOUS
  <2> HIDE DEF g
  <2>2. DOMAIN (g @@ db) = DOMAIN g \cup DOMAIN db /\ \A s \in DOMAIN db \ DOMAIN g : (g @@ db)[s] = db[s]
    BY ONLY MergeFacts
  <2>3. WithReasons(db, n, reasons) = g @@ db
    BY DEF WithReasons, g
  <2> QED  BY ONLY <2>1, <2>2, <2>3
<1>5. ASSUME NEW n, NEW reasons, AddReasons(n, reasons) PROVE ReasonsKept' /\ CountersKept'
  <2> DEFINE R == {Reason(n, x) : x \in reasons}
  <2>1. db' = WithReasons(db, n, reasons) /\ Has(DropCounter(n))
    BY ONLY <1>5 DEF AddReasons, Become
  <2>2. DOMAIN db' = R \cup DOMAIN db /\ \A s \in DOMAIN db : s \notin R => db'[s] = db[s]
    BY ONLY <1>4, <2>1
  <2>3. \A r \in R : r[1] = "DEBUG_COUNTER_DROP_REASON" /\ r[2] = n
    BY ONLY DropKeys
  <2> HIDE DEF R
  <2>4. KeysOf("DEBUG_COUNTER")' = KeysOf("DEBUG_COUNTER") /\ \A r \in KeysOf("DEBUG_COUNTER")' : db'[r] = db[r]
    BY ONLY <2>2, <2>3 DEF KeysOf, Rows
  <2>5. \A r \in KeysOf("DEBUG_COUNTER_DROP_REASON")' : r \in KeysOf("DEBUG_COUNTER_DROP_REASON") \/ r[2] = n
    BY ONLY <2>2, <2>3 DEF KeysOf, Rows
  <2>6. \A s : Has(s) => Has(s)'
    BY ONLY <2>2 DEF Has
  <2>7. ReasonsKept'
    BY ONLY <2>1, <2>5, <2>6, ReasonsKept DEF ReasonsKept
  <2> QED  BY ONLY <2>4, <2>7, CountersKept, FewerOfType
<1>6. ASSUME NEW n, NEW type, NEW reasons, InstallCounter(n, type, reasons) PROVE ReasonsKept' /\ CountersKept'
  <2> DEFINE R == {Reason(n, x) : x \in reasons}
             C == DropCounter(n)
             d == WithReasons(db, n, reasons)
             K == KeysOf("DEBUG_COUNTER")
  <2>1. db' = SetEntry(d, C, [type |-> type]) /\ ~Has(C) /\ type \in DOMAIN DropCapability
    BY ONLY <1>6 DEF InstallCounter, SupportedReasons, Become
  <2>2. Cardinality(K) < DropCapability[type].count
    BY ONLY <1>6 DEF InstallCounter
  <2>3. DOMAIN d = R \cup DOMAIN db /\ \A s \in DOMAIN db : s \notin R => d[s] = db[s]
    BY ONLY <1>4
  <2>4. \A r \in R : r[1] = "DEBUG_COUNTER_DROP_REASON" /\ r[2] = n
    BY ONLY DropKeys
  <2>5. C[1] = "DEBUG_COUNTER" /\ C[2] = n
    BY ONLY DropKeys
  <2> HIDE DEF R, d
  <2>6. DOMAIN db' = DOMAIN d \cup {C} /\ db'[C] = [type |-> type] /\ \A s \in DOMAIN d : s # C => db'[s] = d[s]
    <3>1. PICK f : db' = SetEntry(d, C, f) /\ f = [type |-> type]
      BY ONLY <2>1
    <3>2. DOMAIN db' = DOMAIN d \cup {C} /\ db'[C] = f /\ \A s \in DOMAIN d : s # C => db'[s] = d[s]
      BY ONLY <3>1 DEF SetEntry, :>, @@
    <3> QED  BY ONLY <3>1, <3>2
  <2> HIDE DEF C
  <2>7. KeysOf("DEBUG_COUNTER")' = K \cup {C} /\ C \notin K /\ \A r \in K : db'[r] = db[r]
    BY ONLY <1>0, <2>1, <2>3, <2>4, <2>5, <2>6 DEF KeysOf, Rows, Has
  <2>8. \A r \in KeysOf("DEBUG_COUNTER_DROP_REASON")' : r \in KeysOf("DEBUG_COUNTER_DROP_REASON") \/ r[2] = n
    BY ONLY <2>3, <2>4, <2>5, <2>6 DEF KeysOf, Rows
  <2>9. (\A s : Has(s) => Has(s)') /\ Has(DropCounter(n))'
    BY <2>3, <2>6 DEF Has, C
  <2>10. ReasonsKept'
    BY ONLY <2>8, <2>9, ReasonsKept DEF ReasonsKept
  <2>11. IsFiniteSet(K)
    BY DEF CountersKept
  <2> HIDE DEF K
  <2>12. IsFiniteSet(K \cup {C}) /\ Cardinality(K \cup {C}) <= DropCapability[type].count
    <3>1. DropCapability[type].count \in Nat
      BY <2>1, PolicyNumbers
    <3>2. Cardinality(K \cup {C}) = Cardinality(K) + 1 /\ IsFiniteSet(K \cup {C}) /\ Cardinality(K) \in Nat
      BY ONLY <2>7, <2>11, FS_AddElement, FS_CardinalityType
    <3> QED  BY ONLY <2>2, <3>1, <3>2
  <2>13. ASSUME NEW other \in DOMAIN DropCapability
         PROVE  Cardinality(OfType(other)') <= DropCapability[other].count
    <3>1. CASE other = type
      <4>1. OfType(other)' \subseteq K \cup {C}
        BY ONLY <2>7 DEF OfType
      <4>2. DropCapability[type].count \in Nat
        BY <2>1, PolicyNumbers
      <4> QED  BY ONLY <2>12, <3>1, <4>1, <4>2, CountedLess
    <3>2. CASE other # type
      <4>1. [type |-> type].type = type
        OBVIOUS
      <4>2. OfType(other)' = OfType(other)
        BY <2>6, <2>7, <3>2, <4>1 DEF OfType, K
      <4> QED  BY <4>2 DEF CountersKept
    <3> QED  BY <3>1, <3>2
  <2>14. CountersKept'
    BY <2>7, <2>12, <2>13 DEF CountersKept
  <2> QED  BY <2>10, <2>14
<1> QED  BY <1>1, <1>2, <1>3, <1>5, <1>6 DEF DropStep

\* The thresholds are in order, whichever of them is set.
WredOrdered == Has(Wred) => Ordered(db[Wred])
LEMMA WredStays ==
  ASSUME WredOrdered, Leaves({"WRED_PROFILE"}) \/ WredStep
  PROVE  WredOrdered'
<1>0. Wred[1] = "WRED_PROFILE" /\ Wred = <<"WRED_PROFILE", "AZURE_LOSSLESS">>
  BY DEF Wred
<1>1. CASE Leaves({"WRED_PROFILE"})
  <2>1. (Has(Wred)' <=> Has(Wred)) /\ (Has(Wred) => db'[Wred] = db[Wred])
    BY <1>0, <1>1, LeavesReads
  <2> QED  BY <1>0, <2>1 DEF WredOrdered, Wred
<1>2. ASSUME NEW new, SetWred(new) PROVE WredOrdered'
  <2>1. Has(Wred) /\ Ordered(new @@ db[Wred]) /\ db' = ModEntry(db, Wred, new)
    BY ONLY <1>2 DEF SetWred, Become
  <2>2. db'[Wred] = new @@ Entry(Wred)
    BY ONLY <2>1, ModReads
  <2>3. db'[Wred] = new @@ db[Wred]
    BY ONLY <2>1, <2>2 DEF Entry
  <2> QED  BY ONLY <1>0, <2>1, <2>3 DEF WredOrdered, Wred, Ordered
<1> QED  BY <1>1, <1>2 DEF WredStep

\* What the commands of policies keep in step.
PolicyRows == {"PBH_HASH_FIELD", "PBH_RULE", "PBH_SAVED", "WRED_PROFILE"} \cup NvgreTables \cup DropTables
PoliciesStay == HashFieldsFit /\ RulesMatch /\ SavedCounts /\ YangAccepts(db) /\ ReasonsKept /\ CountersKept /\ WredOrdered

LEMMA PoliciesStart == ASSUME Init PROVE PoliciesStay
<1>1. /\ KeysOf("PBH_HASH_FIELD") = {} /\ KeysOf("PBH_RULE") = {} /\ KeysOf("PBH_SAVED") = {}
      /\ KeysOf("NVGRE_TUNNEL_MAP") = {} /\ KeysOf("DEBUG_COUNTER") = {} /\ KeysOf("DEBUG_COUNTER_DROP_REASON") = {}
  BY StartEmpty DEF FoundTables, QosTables
<1>2. YangAccepts(db)
  BY <1>1 DEF YangAccepts, KeysOf, Rows
<1>3. CountersKept
  <2>1. \A type : OfType(type) = {}
    BY <1>1 DEF OfType
  <2>2. Cardinality({}) = 0 /\ IsFiniteSet({})
    BY FS_EmptySet
  <2> QED  BY <1>1, <2>1, <2>2, PolicyNumbers DEF CountersKept
<1>4. WredOrdered
  <2> SUFFICES ASSUME Has(Wred) PROVE Ordered(db[Wred])
    BY DEF WredOrdered
  <2>1. Wred[1] = "WRED_PROFILE"
    BY DEF Wred
  <2>2. ~\E p \in Ports : Wred = <<"PORT", p>>
    BY <2>1
  <2>3. Wred \in DOMAIN area.start /\ db[Wred] = area.start[Wred]
    BY <2>2, StartRows DEF Has, Rows
  <2> QED  BY <2>3, AreasAssumption DEF Init
<1> QED  BY <1>1, <1>2, <1>3, <1>4 DEF PoliciesStay, HashFieldsFit, RulesMatch, SavedCounts, ReasonsKept

LEMMA PoliciesOnly ==
  ASSUME BreakoutJobFits, [Next]_vars
  PROVE  Leaves(PolicyRows) \/ FieldsStep \/ RulesStep \/ NvgreStep \/ DropStep \/ WredStep
<1>1. CASE Writes(InterfaceTables)
  BY <1>1, WritesLeave DEF InterfaceTables, OwnTables, PortTables, VxlanTables, VrfTables, PolicyRows, NvgreTables, DropTables
<1>2. CASE Writes(BreakoutTables)
  BY <1>2, WritesLeave DEF BreakoutTables, PolicyRows, NvgreTables, DropTables
<1>3. CASE Writes(BufferTables)
  BY <1>3, WritesLeave DEF BufferTables, QosTables, PolicyRows, NvgreTables, DropTables
<1>4. CASE Writes(TrafficTables)
  BY <1>4, WritesLeave DEF TrafficTables, NatTables, OwnTables, PolicyRows, NvgreTables, DropTables
<1>5. CASE Writes(ServiceTables)
  BY <1>5, WritesLeave DEF ServiceTables, PlainTables, MclagTables, PolicyRows, NvgreTables, DropTables
<1>6. CASE Writes(KnobTables)
  BY <1>6, WritesLeave DEF KnobTables, PolicyRows, NvgreTables, DropTables
<1>7. CASE Writes({"PBH_HASH", "PBH_TABLE"}) \/ Writes({"BUFFER_PROFILE"})
  BY <1>7, WritesLeave DEF PolicyRows, NvgreTables, DropTables
<1>8. CASE Idle
  <2>1. Writes({})
    BY <1>8, NothingWrites DEF Idle
  <2> QED  BY <2>1, WritesLeave
<1>9. CASE PoliciesNext
  BY <1>6, <1>7, <1>9, PolicySteps, PbhParts, SupportWrites, MuxWrites, QueuesWrites, AlphaWrites, PollWrites
<1> QED  BY <1>1, <1>2, <1>3, <1>4, <1>5, <1>8, <1>9, NextWrites

LEMMA PoliciesKeep ==
  ASSUME BreakoutJobFits, PoliciesStay, [Next]_vars
  PROVE  PoliciesStay'
<1> DEFINE F == {"PBH_HASH_FIELD"}
           R == {"PBH_RULE", "PBH_SAVED"}
           W == {"WRED_PROFILE"}
<1>1. /\ F \cap R = {} /\ F \cap W = {} /\ R \cap W = {} /\ NvgreTables \cap (F \cup R \cup W \cup DropTables) = {}
      /\ DropTables \cap (F \cup R \cup W) = {} /\ PolicyRows = F \cup R \cup W \cup NvgreTables \cup DropTables
  BY DEF NvgreTables, DropTables, PolicyRows
<1>2. F = {"PBH_HASH_FIELD"} /\ R = {"PBH_RULE", "PBH_SAVED"} /\ W = {"WRED_PROFILE"}
  OBVIOUS
<1> HIDE DEF F, R, W
<1>3. ASSUME NEW T, Writes(T), NEW X, X \cap T = {} PROVE Leaves(X)
  BY <1>3, WritesLeave
<1>4. SUFFICES /\ Leaves(F) \/ FieldsStep
               /\ Leaves(R) \/ RulesStep
               /\ Leaves(NvgreTables) \/ NvgreStep
               /\ Leaves(DropTables) \/ DropStep
               /\ Leaves(W) \/ WredStep
  <2>1. HashFieldsFit' /\ RulesMatch' /\ SavedCounts'
    BY <1>2, <1>4, HashFieldsStep, RulesStay DEF PoliciesStay
  <2>2. YangAccepts(db')
    BY <1>4, TunnelsStay DEF PoliciesStay
  <2>3. ReasonsKept' /\ CountersKept' /\ WredOrdered'
    BY <1>2, <1>4, CountersStay, WredStays DEF PoliciesStay
  <2>4. YangAccepts(db)' <=> YangAccepts(db')
    BY DEF YangAccepts
  <2> QED  BY <2>1, <2>2, <2>3, <2>4 DEF PoliciesStay
<1>5. CASE Leaves(PolicyRows)
  <2>1. \A X : X \subseteq PolicyRows => Leaves(X)
    BY <1>5, LeavesLess
  <2> QED  BY <1>1, <2>1
<1>6. CASE FieldsStep
  BY <1>1, <1>2, <1>3, <1>6, FieldsWrites
<1>7. CASE RulesStep
  BY <1>1, <1>2, <1>3, <1>7, RulesWrites
<1>8. CASE NvgreStep
  BY <1>1, <1>3, <1>8, NvgreWrites
<1>9. CASE DropStep
  BY <1>1, <1>3, <1>9, DropCounterWrites
<1>10. CASE WredStep
  BY <1>1, <1>2, <1>3, <1>10, WredWrites
<1> QED  BY <1>5, <1>6, <1>7, <1>8, <1>9, <1>10, PoliciesOnly

LEMMA PoliciesStayFit == ASSUME PoliciesStay PROVE PoliciesFit
<1>1. \A r \in KeysOf("NVGRE_TUNNEL_MAP") : Has(NvgreTunnel(r[2]))
  BY DEF PoliciesStay, YangAccepts, KeysOf, Rows, Has
<1>2. PbhFits
  BY DEF PoliciesStay, HashFieldsFit, RulesMatch, SavedCounts, PbhFits
<1>3. \A type \in DOMAIN DropCapability :
         Cardinality({r \in KeysOf("DEBUG_COUNTER") : db[r].type = type}) <= DropCapability[type].count
  BY DEF PoliciesStay, CountersKept, OfType
<1> QED  BY <1>1, <1>2, <1>3 DEF PoliciesStay, ReasonsKept, WredOrdered, PoliciesFit

\* What several commands write of one policy stays consistent: a hash field has a mask of
\* its version, a rule matches and hashes and what is saved of it counted ever since, a
\* map has its tunnel, a drop reason its counter, a type no more counters than the switch
\* has, and the thresholds of WRED are in order.
THEOREM PoliciesKept == Spec => []PoliciesFit
<1> DEFINE I == BreakoutJobFits /\ PoliciesStay
<1>1. Init => I
  BY BreakoutStart, PoliciesStart
<1>2. I /\ [Next]_vars => I'
  BY BreakoutJobStep, PoliciesKeep
<1>3. I => PoliciesFit
  BY PoliciesStayFit
<1> HIDE DEF I
<1> QED  BY <1>1, <1>2, <1>3, PTL DEF Spec


----------------------------------------------------------------------------
(* Traffic.                                                                *)

Part(f, S) == [r \in S |-> f[r]]

\* What an incremental update makes of the rows d: the new rows, of which those that
\* changed are written, over what is left.
Renewed(d, new, current, control, changed) ==
    Part(new, changed) @@ Part(new, DOMAIN new \ (DOMAIN new \cap control))
        @@ Without(d, (current \ control) \cup (control \ DOMAIN new))

\* Rows that stay are those that a full update would write again.
LEMMA SameUpdate ==
  ASSUME NEW d, NEW new, NEW current, NEW control, control \subseteq current, NEW changed,
         \A r : r \in changed <=> r \in DOMAIN new \cap control /\ new[r] # d[r], current \subseteq DOMAIN d
  PROVE  Renewed(d, new, current, control, changed) = new @@ Without(d, current)
<1> DEFINE a == Part(new, changed)
           b == Part(new, DOMAIN new \ (DOMAIN new \cap control))
           c == Without(d, (current \ control) \cup (control \ DOMAIN new))
           e == Without(d, current)
           f == a @@ b @@ c
           g == new @@ e
<1>1. DOMAIN a = changed /\ \A r \in changed : a[r] = new[r]
  BY DEF Part
<1>2. DOMAIN b = DOMAIN new \ control /\ \A r \in DOMAIN new \ control : b[r] = new[r]
  BY DEF Part
<1>3. /\ DOMAIN c = DOMAIN d \ ((current \ control) \cup (control \ DOMAIN new))
      /\ \A r \in DOMAIN c : c[r] = d[r]
  BY DEF Without
<1>4. DOMAIN e = DOMAIN d \ current /\ \A r \in DOMAIN e : e[r] = d[r]
  BY DEF Without
<1> HIDE DEF a, b, c, e
<1>5. /\ DOMAIN (a @@ b) = DOMAIN a \cup DOMAIN b
      /\ \A r \in DOMAIN a : (a @@ b)[r] = a[r]
      /\ \A r \in DOMAIN b \ DOMAIN a : (a @@ b)[r] = b[r]
  BY ONLY MergeFacts
<1> DEFINE ab == a @@ b
<1>6. f = ab @@ c
  OBVIOUS
<1>7. DOMAIN ab = DOMAIN a \cup DOMAIN b /\ \A r \in DOMAIN ab : ab[r] = new[r]
  BY ONLY <1>1, <1>2, <1>5
<1> HIDE DEF ab
<1>8. /\ DOMAIN (ab @@ c) = DOMAIN ab \cup DOMAIN c
      /\ \A r \in DOMAIN ab : (ab @@ c)[r] = ab[r]
      /\ \A r \in DOMAIN c \ DOMAIN ab : (ab @@ c)[r] = c[r]
  BY ONLY MergeFacts
<1>9. /\ DOMAIN g = DOMAIN new \cup DOMAIN e
      /\ \A r \in DOMAIN new : g[r] = new[r]
      /\ \A r \in DOMAIN e \ DOMAIN new : g[r] = e[r]
  BY ONLY MergeFacts
<1>10. f = [r \in DOMAIN f |-> f[r]] /\ g = [r \in DOMAIN g |-> g[r]]
  BY DEF @@
<1>11. DOMAIN f = DOMAIN g
  BY <1>1, <1>2, <1>3, <1>4, <1>6, <1>7, <1>8, <1>9
<1>12. \A r \in DOMAIN f : f[r] = g[r]
  BY <1>1, <1>2, <1>3, <1>4, <1>6, <1>7, <1>8, <1>9
<1> HIDE DEF f, g
<1>13. f = g
  BY ONLY <1>10, <1>11, <1>12
<1> QED  BY <1>13 DEF f, g, a, b, c, e, Renewed

\* From any rows, an incremental update leaves what a full one leaves.
LEMMA UpdatesDoAgree == UpdatesAgree
<1> SUFFICES ASSUME NEW file, NEW s
             PROVE  IncrementalUpdate(file, s) = FullUpdate(file, s, "")
  BY Zenon DEF UpdatesAgree
<1> DEFINE new == ConvertRules(file, s, "")
           current == KeysOf("ACL_RULE")
           control == {r \in current : IsControlPlane(r[2])}
           changed == {r \in DOMAIN new \cap control : new[r] # db[r]}
<1>1. {r \in current : "" \in {"", r[2]}} = current
  BY Zenon
<1>2. FullUpdate(file, s, "") = new @@ Without(db, current)
  BY <1>1, Zenon DEF FullUpdate
<1>3. IncrementalUpdate(file, s) =
        Renewed(db, new, current, control, changed)
  BY Zenon DEF IncrementalUpdate, Renewed, Part
<1>4. current \subseteq DOMAIN db
  BY DEF KeysOf, Rows
<1>5. control \subseteq current /\ \A r : r \in changed <=> r \in DOMAIN new \cap control /\ new[r] # db[r]
  BY Zenon
<1> HIDE DEF new, current, control, changed
<1>6. Renewed(db, new, current, control, changed) = new @@ Without(db, current)
  BY ONLY <1>4, <1>5, SameUpdate
<1> QED  BY ONLY <1>2, <1>3, <1>6, Zenon

\* An address that is translated one to one is translated in no other way.
NatApart ==
    \A r \in KeysOf("STATIC_NAT") :
        /\ \A s \in KeysOf("STATIC_NAPT") : TakenBy(s) # TakenBy(r)
        /\ \A s \in KeysOf("NAT_POOL") : ~InPool(TakenBy(r), db[s].nat_ip)

LEMMA NatNames ==
  /\ \A g : StaticNat(g)[1] = "STATIC_NAT" /\ StaticNat(g)[2] = g
  /\ \A g, p : Napt(g, p)[1] = "STATIC_NAPT" /\ Napt(g, p)[2] = g
  /\ \A q : Pool(q)[1] = "NAT_POOL" /\ Binding(q)[1] = "NAT_BINDINGS"
  /\ \A t : \A r \in KeysOf(t) : Has(r) /\ r[1] = t
  BY DEF StaticNat, Napt, Pool, Binding, KeysOf, Has, Rows

\* Rows that go leave the others apart.
LEMMA NatGoes ==
  ASSUME NatApart, NEW S, db' = Without(db, S)
  PROVE  NatApart'
<1>1. \A t : KeysOf(t)' = KeysOf(t) \ S
  BY DropReads
<1>2. \A r : r \notin S /\ Has(r) => db'[r] = db[r]
  BY DropReads
<1>3. \A t : \A r \in KeysOf(t)' : db'[r] = db[r]
  BY ONLY <1>1, <1>2, NatNames
<1>4. \A t : \A r \in KeysOf(t)' : TakenBy(r)' = TakenBy(r)
  BY <1>3 DEF TakenBy, Taken
<1> QED  BY <1>1, <1>3, <1>4 DEF NatApart

\* What holds of a row that is set, of its address or its pool, keeps it apart.
LEMMA NatComes ==
  ASSUME NatApart, NEW r, NEW f, db' = SetEntry(db, r, f),
         r[1] = "STATIC_NAT" => /\ \A s \in KeysOf("STATIC_NAPT") : TakenBy(s) # TakenBy(r)'
                                /\ \A s \in KeysOf("NAT_POOL") : ~InPool(TakenBy(r)', db[s].nat_ip),
         r[1] = "STATIC_NAPT" => \A s \in KeysOf("STATIC_NAT") : TakenBy(s) # TakenBy(r)',
         r[1] = "NAT_POOL" => \A s \in KeysOf("STATIC_NAT") : ~InPool(TakenBy(s), f.nat_ip)
  PROVE  NatApart'
<1>1. \A t : KeysOf(t)' = KeysOf(t) \cup {s \in {r} : r[1] = t}
  BY SetReads
<1>2. db'[r] = f /\ \A s : s # r /\ Has(s) => db'[s] = db[s]
  BY SetReads
<1>3. \A s : s # r /\ Has(s) => TakenBy(s)' = TakenBy(s)
  BY <1>2 DEF TakenBy, Taken
<1>4. \A t : \A s \in KeysOf(t) : Has(s) /\ s[1] = t
  BY NatNames
<1> SUFFICES ASSUME NEW x \in KeysOf("STATIC_NAT")'
             PROVE  /\ \A s \in KeysOf("STATIC_NAPT")' : TakenBy(s)' # TakenBy(x)'
                    /\ \A s \in KeysOf("NAT_POOL")' : ~InPool(TakenBy(x)', db'[s].nat_ip)
  BY DEF NatApart, InPool
<1>5. CASE x = r
  BY <1>1, <1>2, <1>3, <1>4, <1>5
<1>6. CASE x # r
  <2>1. x \in KeysOf("STATIC_NAT") /\ TakenBy(x)' = TakenBy(x)
    BY <1>1, <1>3, <1>4, <1>6
  <2>2. \A s \in KeysOf("STATIC_NAPT")' : TakenBy(s)' # TakenBy(x)'
    BY <1>1, <1>3, <1>4, <2>1 DEF NatApart
  <2>3. \A s \in KeysOf("NAT_POOL")' : ~InPool(TakenBy(x)', db'[s].nat_ip)
    BY <1>1, <1>2, <1>4, <2>1 DEF NatApart
  <2> QED  BY <2>2, <2>3
<1> QED  BY <1>5, <1>6

LEMMA NatStays ==
  ASSUME NatApart, Leaves(NatTables) \/ NatStep
  PROVE  NatApart'
<1>1. CASE Leaves(NatTables)
  <2>1. /\ KeysOf("STATIC_NAT")' = KeysOf("STATIC_NAT") /\ KeysOf("STATIC_NAPT")' = KeysOf("STATIC_NAPT")
        /\ KeysOf("NAT_POOL")' = KeysOf("NAT_POOL")
    BY <1>1, LeavesReads DEF NatTables
  <2>2. \A r : r[1] \in NatTables /\ Has(r) => db'[r] = db[r]
    BY <1>1, LeavesReads
  <2>3. \A t \in NatTables : \A r \in KeysOf(t) : db'[r] = db[r]
    BY ONLY <2>2, NatNames
  <2>4. \A t \in NatTables : \A r \in KeysOf(t) : TakenBy(r)' = TakenBy(r)
    BY <2>3 DEF TakenBy, Taken
  <2> QED  BY <2>1, <2>3, <2>4 DEF NatApart, NatTables
<1>2. ASSUME NEW g, NEW l, NEW type, NEW id, AddBasic(g, l, type, id) PROVE NatApart'
  <2> DEFINE r == StaticNat(g)
  <2>1. db' = SetEntry(db, r, Static(l, type, id))
    BY <1>2, Zenon DEF AddBasic, Become
  <2>2. /\ \A s \in KeysOf("STATIC_NAPT") : TakenBy(s) # Taken(g, l, type)
        /\ \A s \in KeysOf("NAT_POOL") : ~InPool(Taken(g, l, type), db[s].nat_ip)
    BY <1>2, Zenon DEF AddBasic, IsOverlapping, IsOverlappingDynamic
  <2>3. db'[r] = Static(l, type, id) /\ r[2] = g /\ r[1] = "STATIC_NAT"
    BY <2>1, SetReads, NatNames
  <2>4. TakenBy(r)' = Taken(g, l, type)
    BY <2>3 DEF TakenBy, Taken, Static
  <2> HIDE DEF r
  <2> QED  BY ONLY NatApart, <2>1, <2>2, <2>3, <2>4, NatComes
<1>3. ASSUME NEW g, NEW p, NEW l, NEW type, NEW id, AddNapt(g, p, l, type, id) PROVE NatApart'
  <2> DEFINE r == Napt(g, p)
  <2>1. db' = SetEntry(db, r, Static(l, type, id))
    BY <1>3, Zenon DEF AddNapt, Become
  <2>2. \A s \in KeysOf("STATIC_NAT") : TakenBy(s) # Taken(g, l, type)
    BY <1>3, Zenon DEF AddNapt, IsOverlapping
  <2>3. db'[r] = Static(l, type, id) /\ r[2] = g /\ r[1] = "STATIC_NAPT"
    BY <2>1, SetReads, NatNames
  <2>4. TakenBy(r)' = Taken(g, l, type)
    BY <2>3 DEF TakenBy, Taken, Static
  <2> HIDE DEF r
  <2> QED  BY ONLY NatApart, <2>1, <2>2, <2>3, <2>4, NatComes
<1>4. ASSUME NEW g, NEW p, NEW l, RemoveBasic(g, l) \/ RemoveNapt(g, p, l) PROVE NatApart'
  BY <1>4, NatGoes DEF RemoveBasic, RemoveNapt, Become
<1>5. CASE RemoveStaticAll \/ RemovePools \/ RemoveBindings
  BY <1>5, NatGoes DEF RemoveStaticAll, RemovePools, RemoveBindings, Become
<1>6. ASSUME NEW q, NEW range, AddPool(q, range) PROVE NatApart'
  <2>1. db' = SetEntry(db, Pool(q), [nat_ip |-> range]) /\ Pool(q)[1] = "NAT_POOL"
    BY <1>6, NatNames DEF AddPool, Become
  <2>2. \A s \in KeysOf("STATIC_NAT") : ~InPool(TakenBy(s), [nat_ip |-> range].nat_ip)
    BY <1>6 DEF AddPool
  <2> QED  BY <2>1, <2>2, NatComes
<1>7. ASSUME NEW q, RemovePool(q) \/ RemoveBinding(q) PROVE NatApart'
  BY <1>7, NatGoes DEF RemovePool, RemoveBinding, Become
<1>8. ASSUME NEW b, NEW q, NEW id, AddBinding(b, q, id) PROVE NatApart'
  <2>1. \E f : db' = SetEntry(db, Binding(b), f) /\ Binding(b)[1] = "NAT_BINDINGS"
    BY <1>8, NatNames DEF AddBinding, Become
  <2> QED  BY <2>1, NatComes
<1> QED  BY <1>1, <1>2, <1>3, <1>4, <1>5, <1>6, <1>7, <1>8 DEF NatStep

----------------------------------------------------------------------------
(* Behaviours that break out no port.  What the default configuration of a  *)
(* new port gives it is not checked by the commands.                        *)

Unbroken == "breakout" \notin area.groups

LEMMA AreaStays == ASSUME [Next]_vars PROVE area' = area
<1>1. CASE BindStep
  BY <1>1 DEF BindStep, Rebind, BindVrf, UnbindVrf, Wait, Become
<1>2. CASE QosStep
  BY <1>2 DEF QosStep, ClearQos, ReloadQos, WriteQos, ReloadPorts, WritePorts, Become
<1>3. CASE FeatureStep
  BY <1>3 DEF FeatureStep, SetFeatureState, FeatureReached
<1>4. CASE BreakoutNext
  BY <1>4 DEF BreakoutNext, Breakout, BreakoutDelete, BreakoutAdd, BreakoutTimesOut
<1>5. CASE vars' = vars
  BY <1>5 DEF vars
<1> QED  BY <1>1, <1>2, <1>3, <1>4, <1>5, InterfacesCalm, BuffersCalm, ServicesCalm, TrafficCalm, PoliciesCalm DEF Next, Calm, Idle

LEMMA UnbrokenStep ==
  ASSUME Unbroken, ~Doing("breakout"), [Next]_vars
  PROVE  ~BreakoutNext /\ Unbroken' /\ ~Doing("breakout")'
<1>1. ~BreakoutNext
  BY DEF BreakoutNext, Breakout, BreakoutDelete, BreakoutAdd, BreakoutTimesOut, Unbroken, Use
<1>2. CASE Idle \/ Calm
  BY <1>1, <1>2 DEF Idle, Calm, Unbroken, Doing
<1>3. CASE BindStep
  <2>1. area' = area /\ (job' = job \/ job' = None \/ \E i, f : job' = [kind |-> "bind", of |-> i, fields |-> f])
    BY <1>3 DEF BindStep, Rebind, BindVrf, UnbindVrf, Wait, Become
  <2>2. job' = job \/ job' = None \/ job'.kind = "bind"
    BY <2>1
  <2> QED  BY <1>1, <2>1, <2>2 DEF Unbroken, Doing
<1>4. CASE QosStep
  <2>1. /\ area' = area
        /\ \/ job' = job \/ job' = None
           \/ \E dry : job' = [kind |-> "qos", dry |-> dry] \/ \E ps : job' = [kind |-> "ports", of |-> ps, dry |-> dry]
    BY <1>4 DEF QosStep, ClearQos, ReloadQos, WriteQos, ReloadPorts, WritePorts, Become
  <2>2. job' = job \/ job' = None \/ job'.kind = "qos" \/ job'.kind = "ports"
    BY <2>1
  <2> QED  BY <1>1, <2>1, <2>2 DEF Unbroken, Doing
<1>5. CASE FeatureStep
  <2>1. area' = area /\ (job' = None \/ \E f, x : job' = [kind |-> "feature", of |-> f, state |-> x])
    BY <1>5 DEF FeatureStep, SetFeatureState, FeatureReached
  <2>2. job' = None \/ job'.kind = "feature"
    BY <2>1
  <2> QED  BY <1>1, <2>1, <2>2 DEF Unbroken, Doing
<1>6. Idle \/ Calm \/ BindStep \/ QosStep \/ FeatureStep
  <2>1. CASE vars' = vars
    BY <2>1 DEF vars, Idle, Daemons
  <2>2. CASE Next
    BY <1>1, <2>2, InterfacesCalm, BuffersCalm, ServicesCalm, TrafficCalm, PoliciesCalm DEF Next
  <2> QED  BY <2>1, <2>2
<1> QED  BY <1>1, <1>2, <1>3, <1>4, <1>5, <1>6

\* The members of port channels are ports.
LagNames ==
    \A r \in KeysOf("PORTCHANNEL_MEMBER") :
        r[2] \in Lags /\ r[3] \in Ports /\ r = <<"PORTCHANNEL_MEMBER", r[2], r[3]>>
\* An ACL is not bound to a member of a port channel.
AclApart == \A r \in KeysOf("ACL_TABLE") : \A p \in db[r].ports : ~InLag(p)

LEMMA LagNamesStay ==
  ASSUME LagNames, Leaves({"PORTCHANNEL_MEMBER"}) \/ LagMemberStep
  PROVE  LagNames'
<1>1. CASE Leaves({"PORTCHANNEL_MEMBER"})
  <2>1. KeysOf("PORTCHANNEL_MEMBER")' = KeysOf("PORTCHANNEL_MEMBER")
    BY <1>1, LeavesReads
  <2> QED  BY <2>1 DEF LagNames
<1>2. ASSUME NEW l \in Lags, NEW p \in Ports, AddPortchannelMember(l, p) PROVE LagNames'
  <2> DEFINE r == <<"PORTCHANNEL_MEMBER", l, p>>
  <2>1. db' = SetEntry(db, r, NoFields)
    BY <1>2, Zenon DEF AddPortchannelMember, Become
  <2>2. r[1] = "PORTCHANNEL_MEMBER" /\ r[2] = l /\ r[3] = p /\ r = <<"PORTCHANNEL_MEMBER", r[2], r[3]>>
    OBVIOUS
  <2> HIDE DEF r
  <2>3. KeysOf("PORTCHANNEL_MEMBER")' = KeysOf("PORTCHANNEL_MEMBER") \cup {r}
    BY ONLY <2>1, <2>2, KeysAfter
  <2> QED  BY <2>2, <2>3 DEF LagNames
<1>3. ASSUME NEW l, NEW p, DelPortchannelMember(l, p) PROVE LagNames'
  <2>1. KeysOf("PORTCHANNEL_MEMBER")' \subseteq KeysOf("PORTCHANNEL_MEMBER")
    BY <1>3, DropReads DEF DelPortchannelMember, Become
  <2> QED  BY <2>1 DEF LagNames
<1> QED  BY <1>1, <1>2, <1>3 DEF LagMemberStep

\* Who is in a port channel, after a step.
LEMMA InLagReads ==
  /\ Leaves({"PORTCHANNEL_MEMBER"}) => \A p : InLag(p)' <=> InLag(p)
  /\ \A l, p : AddPortchannelMember(l, p) => \A q : InLag(q)' <=> InLag(q) \/ q = p
  /\ \A l, p : DelPortchannelMember(l, p) => \A q : InLag(q)' => InLag(q)
<1>1. ASSUME Leaves({"PORTCHANNEL_MEMBER"}) PROVE \A p : InLag(p)' <=> InLag(p)
  <2>1. KeysOf("PORTCHANNEL_MEMBER")' = KeysOf("PORTCHANNEL_MEMBER")
    BY <1>1, LeavesReads
  <2> QED  BY <2>1 DEF InLag
<1>2. ASSUME NEW l, NEW p, AddPortchannelMember(l, p) PROVE \A q : InLag(q)' <=> InLag(q) \/ q = p
  <2> DEFINE r == <<"PORTCHANNEL_MEMBER", l, p>>
  <2>1. db' = SetEntry(db, r, NoFields)
    BY <1>2, Zenon DEF AddPortchannelMember, Become
  <2>2. r[1] = "PORTCHANNEL_MEMBER" /\ r[3] = p
    OBVIOUS
  <2> HIDE DEF r
  <2>3. KeysOf("PORTCHANNEL_MEMBER")' = KeysOf("PORTCHANNEL_MEMBER") \cup {r}
    BY ONLY <2>1, <2>2, KeysAfter
  <2> QED  BY ONLY <2>2, <2>3 DEF InLag
<1>3. ASSUME NEW l, NEW p, DelPortchannelMember(l, p) PROVE \A q : InLag(q)' => InLag(q)
  <2>1. KeysOf("PORTCHANNEL_MEMBER")' \subseteq KeysOf("PORTCHANNEL_MEMBER")
    BY <1>3, DropReads DEF DelPortchannelMember, Become
  <2> QED  BY <2>1 DEF InLag
<1> QED  BY <1>1, <1>2, <1>3

\* A port channel is in no port channel.
LEMMA BoundPortsFree ==
  ASSUME LagNames
  PROVE  \A p \in GetAclBoundPorts : ~InLag(p)
  BY NamesAssumption, Zenon DEF GetAclBoundPorts, LagNames, InLag

LEMMA AclStays ==
  ASSUME LagNames, AclApart,
         Leaves({"ACL_TABLE"}) \/ AclTableStep,
         Leaves({"PORTCHANNEL_MEMBER"}) \/ LagMemberStep,
         Leaves({"ACL_TABLE"}) \/ Leaves({"PORTCHANNEL_MEMBER"})
  PROVE  AclApart'
<1>0. \A r \in KeysOf("ACL_TABLE") : r[1] = "ACL_TABLE" /\ Has(r)
  BY DEF KeysOf, Has, Rows
<1>1. CASE Leaves({"ACL_TABLE"})
  <2>1. KeysOf("ACL_TABLE")' = KeysOf("ACL_TABLE") /\ \A r \in KeysOf("ACL_TABLE") : db'[r] = db[r]
    BY <1>0, <1>1, LeavesReads
  <2>2. CASE \A p : InLag(p)' => InLag(p)
    BY <2>1, <2>2 DEF AclApart
  <2>3. ASSUME NEW l, NEW p, AddPortchannelMember(l, p) PROVE AclApart'
    <3>1. \A r \in KeysOf("ACL_TABLE") : p \notin db[r].ports
      BY <2>3, Zenon DEF AddPortchannelMember
    <3>2. \A q : InLag(q)' => InLag(q) \/ q = p
      BY <2>3, InLagReads
    <3> QED  BY ONLY AclApart, <2>1, <3>1, <3>2 DEF AclApart
  <2> QED  BY <2>2, <2>3, InLagReads DEF LagMemberStep
<1>2. CASE Leaves({"PORTCHANNEL_MEMBER"}) /\ AclTableStep
  <2>1. \A p : InLag(p)' <=> InLag(p)
    BY <1>2, InLagReads
  <2>2. ASSUME NEW t, NEW type, NEW stage, NEW names, AddAclTable(t, type, stage, names) PROVE AclApart'
    <3> DEFINE r == AclTable(t)
    <3>1. PICK ps : ps \subseteq GetAclBoundPorts /\ db' = SetEntry(db, r, [type |-> type, stage |-> stage, ports |-> ps])
      <4>1. CASE names = {}
        BY <2>2, <4>1 DEF AddAclTable, Become
      <4>2. CASE names # {}
        <5>1. (UNION {ExpandVlanPorts(i) : i \in names}) \subseteq GetAclBoundPorts
          BY <2>2 DEF AddAclTable
        <5> QED  BY <2>2, <4>2, <5>1 DEF AddAclTable, Become
      <4> QED  BY <4>1, <4>2
    <3>2. r[1] = "ACL_TABLE"
      BY DEF AclTable
    <3> HIDE DEF r
    <3>3. /\ KeysOf("ACL_TABLE")' = KeysOf("ACL_TABLE") \cup {r} /\ db'[r].ports = ps
          /\ \A s \in KeysOf("ACL_TABLE") : s # r => db'[s] = db[s]
      BY <1>0, <3>1, <3>2, SetReads
    <3>4. \A p \in ps : ~InLag(p)
      BY <3>1, BoundPortsFree
    <3> QED  BY ONLY AclApart, <2>1, <3>3, <3>4 DEF AclApart
  <2>3. ASSUME NEW t, RemoveAclTable(t) PROVE AclApart'
    <3>1. db' = Without(db, {AclTable(t)})
      BY <2>3 DEF RemoveAclTable, Become
    <3>2. KeysOf("ACL_TABLE")' \subseteq KeysOf("ACL_TABLE") /\ \A r \in KeysOf("ACL_TABLE")' : db'[r] = db[r]
      BY <1>0, <3>1, DropReads
    <3> QED  BY ONLY AclApart, <2>1, <3>2 DEF AclApart
  <2> QED  BY <1>2, <2>2, <2>3 DEF AclTableStep
<1> QED  BY <1>1, <1>2

\* What the commands of ACLs, of NAT and of port channels keep in step.
TrafficRows == {"PORTCHANNEL_MEMBER", "ACL_TABLE"} \cup NatTables
TrafficStay == LagNames /\ AclApart

LEMMA InterfacesOnly ==
  ASSUME InterfacesNext
  PROVE  Leaves(TrafficRows) \/ LagMemberStep
<1>1. ASSUME NEW W, Writes(W), W \in SUBSET (InterfaceTables \ {"PORTCHANNEL_MEMBER"}) PROVE Leaves(TrafficRows)
  <2>1. W \cap TrafficRows = {}
    BY <1>1 DEF InterfaceTables, OwnTables, PortTables, VxlanTables, VrfTables, TrafficRows, NatTables
  <2> QED  BY <1>1, <2>1, WritesLeave
<1>2. /\ OwnTables \subseteq InterfaceTables \ {"PORTCHANNEL_MEMBER"}
      /\ PortTables \subseteq InterfaceTables \ {"PORTCHANNEL_MEMBER"}
      /\ (VrfTables \cup OwnTables) \subseteq InterfaceTables \ {"PORTCHANNEL_MEMBER"}
      /\ {"VLAN", "DHCP_RELAY"} \subseteq InterfaceTables \ {"PORTCHANNEL_MEMBER"}
      /\ {"VXLAN_TUNNEL", "VXLAN_EVPN_NVO"} \subseteq InterfaceTables \ {"PORTCHANNEL_MEMBER"}
      /\ \A t \in {"VLAN_MEMBER", "PORTCHANNEL", "MIRROR_SESSION", "VRF", "SYSLOG_SERVER", "VXLAN_TUNNEL_MAP", "STATIC_ROUTE"} :
            {t} \subseteq InterfaceTables \ {"PORTCHANNEL_MEMBER"}
  BY DEF InterfaceTables, OwnTables, PortTables, VxlanTables, VrfTables
<1>3. CASE db' = db
  <2>1. Writes({})
    BY <1>3, NothingWrites
  <2> QED  BY <1>1, <2>1
<1>4. CASE VlanStep \/ MemberStep \/ LagStep
  BY <1>1, <1>2, <1>4, VlanWrites, MemberWrites, LagWrites
<1>5. CASE PortStep \/ FitStep \/ MirrorStep
  BY <1>1, <1>2, <1>5, PortWrites, FitWrites, MirrorWrites
<1>6. CASE AddressStep \/ RoutedStep \/ LinkLocalStep \/ OwnStep \/ BindStep
  BY <1>1, <1>2, <1>6, AddressWrites, RoutedWrites, LinkLocalWrites, OwnWrites, BindWrites
<1>7. CASE VrfStep \/ VniStep \/ SyslogStep
  BY <1>1, <1>2, <1>7, VrfWrites, VniWrites, SyslogWrites
<1>8. CASE TunnelStep \/ MapStep \/ RouteStep
  BY <1>1, <1>2, <1>8, TunnelWrites, MapWrites, RouteWrites
<1> QED  BY <1>3, <1>4, <1>5, <1>6, <1>7, <1>8, InterfaceSteps

LEMMA TrafficOnly ==
  ASSUME BreakoutJobFits, [Next]_vars
  PROVE  \/ BreakoutNext /\ Leaves(NatTables)
         \/ Leaves(TrafficRows) \/ LagMemberStep \/ AclTableStep \/ NatStep
<1>1. CASE InterfacesNext
  BY <1>1, InterfacesOnly
<1>2. CASE BreakoutNext /\ Writes(BreakoutTables)
  BY <1>2, WritesLeave DEF BreakoutTables, NatTables
<1>3. CASE Writes(BufferTables)
  BY <1>3, WritesLeave DEF BufferTables, QosTables, TrafficRows, NatTables
<1>4. CASE Writes(ServiceTables)
  BY <1>4, WritesLeave DEF ServiceTables, PlainTables, MclagTables, TrafficRows, NatTables
<1>5. CASE Writes(PolicyTables)
  BY <1>5, WritesLeave DEF PolicyTables, PbhTables, NvgreTables, DropTables, KnobTables, TrafficRows, NatTables
<1>6. CASE Idle
  <2>1. Writes({})
    BY <1>6, NothingWrites DEF Idle
  <2> QED  BY <2>1, WritesLeave
<1>7. CASE TrafficNext
  <2>1. CASE RuleStep \/ ZoneStep \/ GlobalStep
    <3>1. Writes({"ACL_RULE", "NAT_GLOBAL"} \cup OwnTables)
      BY <2>1, RuleWrites, ZoneWrites, GlobalWrites, WritesMore
    <3> QED  BY <3>1, WritesLeave DEF OwnTables, TrafficRows, NatTables
  <2> QED  BY <1>7, <2>1, TrafficSteps
<1> QED  BY <1>1, <1>2, <1>3, <1>4, <1>5, <1>6, <1>7, NextWrites

LEMMA TrafficKeep ==
  ASSUME LagNames, AclApart, BreakoutJobFits, ~BreakoutNext, [Next]_vars
  PROVE  LagNames' /\ AclApart'
<1> DEFINE A == {"ACL_TABLE"}
           M == {"PORTCHANNEL_MEMBER"}
<1>1. A \cap M = {} /\ A \cap NatTables = {} /\ M \cap NatTables = {} /\ A \subseteq TrafficRows /\ M \subseteq TrafficRows
  BY DEF NatTables, TrafficRows
<1>2. A = {"ACL_TABLE"} /\ M = {"PORTCHANNEL_MEMBER"}
  OBVIOUS
<1> HIDE DEF A, M
<1>3. \/ Leaves(A) /\ Leaves(M)
      \/ Leaves(A) /\ LagMemberStep
      \/ Leaves(M) /\ AclTableStep
  <2>1. CASE Leaves(TrafficRows)
    BY <1>1, <2>1, LeavesLess
  <2>2. CASE LagMemberStep
    BY <1>1, <1>2, <2>2, LagMemberWrites, WritesLeave
  <2>3. CASE AclTableStep
    BY <1>1, <1>2, <2>3, AclTableWrites, WritesLeave
  <2>4. CASE NatStep
    BY <1>1, <2>4, NatWrites, WritesLeave
  <2> QED  BY <2>1, <2>2, <2>3, <2>4, TrafficOnly
<1> QED  BY <1>2, <1>3, LagNamesStay, AclStays

LEMMA NatKeep ==
  ASSUME NatApart, BreakoutJobFits, [Next]_vars
  PROVE  NatApart'
<1>1. CASE Leaves(TrafficRows)
  BY <1>1, LeavesLess, NatStays DEF TrafficRows
<1>2. CASE LagMemberStep
  BY <1>2, LagMemberWrites, WritesLeave, NatStays DEF NatTables
<1>3. CASE AclTableStep
  BY <1>3, AclTableWrites, WritesLeave, NatStays DEF NatTables
<1> QED  BY <1>1, <1>2, <1>3, NatStays, TrafficOnly

LEMMA TrafficFits ==
  ASSUME NatApart, AclApart
  PROVE  TrafficFit
<1>1. \A r \in KeysOf("STATIC_NAT") : ~IsOverlapping(TakenBy(r), "STATIC_NAPT") /\ ~IsOverlappingDynamic(TakenBy(r))
  BY DEF NatApart, IsOverlapping, IsOverlappingDynamic
<1> QED  BY <1>1, UpdatesDoAgree, Zenon DEF AclApart, TrafficFit

\* Unless ports are broken out, an ACL is never bound to a member of a port channel,
\* whichever of the two came first; always, an address that is translated one to one is
\* translated in no other way, and an incremental update of the rules leaves what a full one leaves.
THEOREM TrafficKept ==
  Spec => [](/\ UpdatesAgree /\ NatApart
             /\ Unbroken => TrafficFit)
<1> DEFINE I == BreakoutJobFits /\ NatApart
           U == Unbroken => ~Doing("breakout") /\ LagNames /\ AclApart
<1>1. Init => I /\ U
  <2> SUFFICES ASSUME Init PROVE I /\ U
    OBVIOUS
  <2>1. KeysOf("STATIC_NAT") = {} /\ KeysOf("ACL_TABLE") = {} /\ KeysOf("PORTCHANNEL_MEMBER") = {}
    BY StartEmpty DEF FoundTables, QosTables
  <2>2. ~Doing("breakout")
    BY DEF Init, Doing
  <2> QED  BY <2>1, <2>2, BreakoutStart DEF NatApart, LagNames, AclApart
<1>2. I /\ U /\ [Next]_vars => I' /\ U'
  <2> SUFFICES ASSUME I, U, [Next]_vars PROVE I' /\ U'
    OBVIOUS
  <2>1. I'
    BY BreakoutJobStep, NatKeep
  <2>2. Unbroken' => Unbroken
    <3>1. area' = area
      BY AreaStays
    <3> QED  BY <3>1 DEF Unbroken
  <2>3. U'
    BY <2>2, UnbrokenStep, TrafficKeep
  <2> QED  BY <2>1, <2>3
<1>3. I /\ U => UpdatesAgree /\ NatApart /\ (Unbroken => TrafficFit)
  BY UpdatesDoAgree, TrafficFits
<1> HIDE DEF I, U
<1> QED  BY <1>1, <1>2, <1>3, PTL DEF Spec

----------------------------------------------------------------------------
(* Roles: what has an address is routed, and a member of nothing.          *)

\* No address comes, and a row of an interface stays as long as its addresses.
OwnsKept ==
    /\ \A r \in DOMAIN db' : r \in DOMAIN db \/ Len(r) # 3
    /\ \A i \in Routed : Has(Own(i)) => Has(Own(i))' \/ AddressRows(i)' = {}

LEMMA OwnNames ==
  /\ \A i, j : Own(i) = Own(j) => i = j
  /\ \A i : Len(Own(i)) = 2 /\ Own(i)[2] = i
  /\ \A i, a : Len(Address(i, a)) = 3 /\ Address(i, a)[2] = i
  /\ \A i, j : Own(i) \notin AddressRows(j)
  /\ \A i : \A r \in AddressRows(i) : Len(r) = 3 /\ r[2] = i
<1>1. /\ \A i, j : Own(i) = Own(j) => i = j
      /\ \A i : Len(Own(i)) = 2 /\ Own(i)[2] = i
      /\ \A i, a : Len(Address(i, a)) = 3 /\ Address(i, a)[2] = i
  BY DEF Own, Address
<1>2. \A i : \A r \in AddressRows(i) : Len(r) = 3 /\ r[2] = i
  BY DEF AddressRows
<1> QED  BY <1>1, <1>2

LEMMA AddressesKept ==
  ASSUME AddressedIsRouted, Leaves({"VLAN_MEMBER", "PORTCHANNEL_MEMBER"}), OwnsKept
  PROVE  AddressedIsRouted'
<1>1. KeysOf("VLAN_MEMBER")' = KeysOf("VLAN_MEMBER") /\ KeysOf("PORTCHANNEL_MEMBER")' = KeysOf("PORTCHANNEL_MEMBER")
  BY LeavesReads
<1>2. \A i : (InVlan(i)' <=> InVlan(i)) /\ (InLag(i)' <=> InLag(i))
  BY <1>1 DEF InVlan, InLag
<1>3. \A i : AddressRows(i)' \subseteq AddressRows(i)
  BY DEF OwnsKept, AddressRows, Rows
<1> QED  BY <1>2, <1>3 DEF AddressedIsRouted, OwnsKept

LEMMA KeptOver ==
  ASSUME DOMAIN db \subseteq DOMAIN db', \A r \in DOMAIN db' : r \in DOMAIN db \/ \E i : r = Own(i)
  PROVE  OwnsKept
  BY OwnNames DEF OwnsKept, Has

LEMMA KeptSet ==
  ASSUME NEW i, NEW f, db' = SetEntry(db, Own(i), f) \/ db' = ModEntry(db, Own(i), f)
  PROVE  OwnsKept
<1>1. DOMAIN db' = DOMAIN db \cup {Own(i)}
  BY DEF SetEntry, ModEntry, :>, @@
<1> QED  BY <1>1, KeptOver

LEMMA KeptLess ==
  ASSUME NEW S, db' = Without(db, S), \A i \in Routed : Own(i) \in S => AddressRows(i) \subseteq S
  PROVE  OwnsKept
<1>1. DOMAIN db' = DOMAIN db \ S
  BY WithoutFacts
<1>2. \A i : AddressRows(i)' = AddressRows(i) \ S
  BY <1>1 DEF AddressRows, Rows
<1> QED  BY <1>1, <1>2 DEF OwnsKept, Has

LEMMA KeptBoth ==
  ASSUME NEW i, db' = Without(db, {Own(i)} \cup AddressRows(i))
  PROVE  OwnsKept
<1>1. \A j \in Routed : Own(j) \in {Own(i)} \cup AddressRows(i) => j = i
  BY OwnNames
<1> QED  BY <1>1, KeptLess

\* Rows are written over, and those that are new are of interfaces.
LEMMA KeptMerge ==
  ASSUME NEW g, db' = g @@ db, \A r \in DOMAIN g : r \in DOMAIN db \/ \E i : r = Own(i)
  PROVE  OwnsKept
<1>1. DOMAIN db' = DOMAIN g \cup DOMAIN db
  BY MergeFacts
<1> QED  BY <1>1, KeptOver

LEMMA AddressGoes == ASSUME NEW i, NEW a, IpRemove(i, a) PROVE OwnsKept
<1>1. PICK T \in SUBSET {Own(i)} : /\ db' = Without(db, {Address(i, a)} \cup T)
                                   /\ T # {} => AddressRows(i) \ {Address(i, a)} = {}
  <2> DEFINE left == AddressRows(i) \ {Address(i, a)}
             idle == left = {} /\ Vrf(i) = "" /\ Field(Own(i), "ipv6_use_link_local_only") # "enable"
             T == IF idle /\ i \notin Subs THEN {Own(i)} ELSE {}
  <2>1. db' = Without(db, {Address(i, a)} \cup T)
    BY Zenon DEF IpRemove, Become
  <2>2. T # {} => left = {}
    BY Zenon
  <2>3. T \in SUBSET {Own(i)}
    BY Zenon
  <2> HIDE DEF T
  <2> QED  BY <2>1, <2>2, <2>3, Zenon
<1> DEFINE S == {Address(i, a)} \cup T
<1>2. \A j \in Routed : Own(j) \in S => j = i /\ T # {}
  BY OwnNames
<1>3. \A j \in Routed : Own(j) \in S => AddressRows(j) \subseteq S
  BY <1>1, <1>2
<1> HIDE DEF S
<1> QED  BY <1>1, <1>3, KeptLess DEF S

LEMMA AddressComes ==
  ASSUME AddressedIsRouted, NEW i, NEW a, IpAdd(i, a), Leaves({"VLAN_MEMBER", "PORTCHANNEL_MEMBER"})
  PROVE  AddressedIsRouted'
<1>1. KeysOf("VLAN_MEMBER")' = KeysOf("VLAN_MEMBER") /\ KeysOf("PORTCHANNEL_MEMBER")' = KeysOf("PORTCHANNEL_MEMBER")
  BY LeavesReads
<1>2. \A j : (InVlan(j)' <=> InVlan(j)) /\ (InLag(j)' <=> InLag(j))
  BY <1>1 DEF InVlan, InLag
<1>3. ~InVlan(i) /\ ~InLag(i)
  BY DEF IpAdd
<1>4. DOMAIN db' = DOMAIN db \cup {Own(i), Address(i, a)}
  <2>1. CASE Entry(Own(i)) # NoFields
    <3>1. db' = SetEntry(db, Address(i, a), NoFields)
      BY <2>1 DEF IpAdd, Become
    <3>2. Own(i) \in DOMAIN db
      BY <2>1 DEF Entry, Has
    <3> QED  BY <3>1, <3>2 DEF SetEntry, :>, @@
  <2>2. CASE Entry(Own(i)) = NoFields
    <3>1. PICK f : db' = SetEntry(SetEntry(db, Own(i), f), Address(i, a), NoFields)
      BY <2>2 DEF IpAdd, Become
    <3> DEFINE e == SetEntry(db, Own(i), f)
    <3>2. DOMAIN e = DOMAIN db \cup {Own(i)}
      BY SetFacts
    <3>3. db' = SetEntry(e, Address(i, a), NoFields)
      BY <3>1
    <3> HIDE DEF e
    <3>4. DOMAIN db' = DOMAIN e \cup {Address(i, a)}
      BY <3>3, SetFacts
    <3> QED  BY <3>2, <3>4
  <2> QED  BY <2>1, <2>2
<1>5. \A j : j # i => AddressRows(j)' = AddressRows(j)
  <2>1. Len(Own(i)) = 2 /\ Address(i, a)[2] = i
    BY OwnNames
  <2> QED  BY <1>4, <2>1 DEF AddressRows, Rows
<1>6. \A j : Has(Own(j)) => Has(Own(j))'
  BY <1>4 DEF Has
<1>7. Has(Own(i))'
  BY <1>4 DEF Has
<1> QED  BY <1>2, <1>3, <1>5, <1>6, <1>7 DEF AddressedIsRouted

LEMMA LinkLocalKeeps == ASSUME LinkLocalStep PROVE OwnsKept
<1>1. ASSUME NEW i, EnableLinkLocalOnly(i) PROVE OwnsKept
  BY <1>1, KeptSet DEF EnableLinkLocalOnly, LinkLocalOn, Become
<1>0. ASSUME NEW i
      PROVE  \/ \E f : LinkLocalOff(db, i) = ModEntry(db, Own(i), f)
             \/ LinkLocalOff(db, i) = Without(db, {Own(i)}) /\ AddressRows(i) = {}
  BY DEF LinkLocalOff, AddressRows, Rows
<1>2. ASSUME NEW i, DisableLinkLocalOnly(i) PROVE OwnsKept
  <2>1. db' = LinkLocalOff(db, i)
    BY <1>2 DEF DisableLinkLocalOnly, Become
  <2>2. CASE \E f : db' = ModEntry(db, Own(i), f)
    BY <2>2, KeptSet
  <2>3. CASE db' = Without(db, {Own(i)}) /\ AddressRows(i) = {}
    <3>1. db' = Without(db, {Own(i)} \cup AddressRows(i))
      BY <2>3
    <3> QED  BY <3>1, KeptBoth
  <2> QED  BY <1>0, <2>1, <2>2, <2>3
<1>3. CASE EnableLinkLocal
  <2>1. PICK all : db' = [r \in {Own(i) : i \in all} |-> [ipv6_use_link_local_only |-> "enable"] @@ Entry(r)] @@ db
    BY <1>3 DEF EnableLinkLocal, Become
  <2> DEFINE g == [r \in {Own(i) : i \in all} |-> [ipv6_use_link_local_only |-> "enable"] @@ Entry(r)]
  <2>2. \A r \in DOMAIN g : \E i : r = Own(i)
    OBVIOUS
  <2>3. db' = g @@ db
    BY <2>1
  <2> HIDE DEF g
  <2> QED  BY <2>2, <2>3, KeptMerge
<1>4. CASE DisableLinkLocal
  <2>1. PICK all, off : /\ off = [i \in all |-> LinkLocalOff(db, i)]
                        /\ db' = [r \in {x \in Rows : \A i \in all : x \in DOMAIN off[i]} |->
                                     IF \E i \in all : r = Own(i) THEN [ipv6_use_link_local_only |-> "disable"] @@ db[r]
                                     ELSE db[r]]
    BY <1>4 DEF DisableLinkLocal, Become
  <2>2. DOMAIN db' = {x \in DOMAIN db : \A i \in all : x \in DOMAIN off[i]}
    BY <2>1 DEF Rows
  <2>3. ASSUME NEW i \in all, NEW x \in DOMAIN db, x \notin DOMAIN off[i]
        PROVE  x = Own(i) /\ AddressRows(i) = {}
    <3>1. off[i] = LinkLocalOff(db, i)
      BY <2>1
    <3>2. ASSUME NEW f, off[i] = ModEntry(db, Own(i), f) PROVE FALSE
      <4>1. DOMAIN off[i] = DOMAIN db \cup {Own(i)}
        BY <3>2 DEF ModEntry, :>, @@
      <4> QED  BY <2>3, <4>1
    <3>3. CASE off[i] = Without(db, {Own(i)}) /\ AddressRows(i) = {}
      <4>1. DOMAIN off[i] = DOMAIN db \ {Own(i)}
        BY <3>3 DEF Without
      <4> QED  BY <2>3, <3>3, <4>1
    <3> QED  BY <1>0, <3>1, <3>2, <3>3
  <2>4. ASSUME NEW j \in Routed, Has(Own(j)), ~Has(Own(j))' PROVE AddressRows(j)' = {}
    <3>1. AddressRows(j) = {}
      BY <2>2, <2>3, <2>4, OwnNames DEF Has
    <3> QED  BY <2>2, <3>1 DEF AddressRows, Rows
  <2> QED  BY <2>2, <2>4 DEF OwnsKept
<1> QED  BY <1>1, <1>2, <1>3, <1>4 DEF LinkLocalStep

LEMMA VrfKeeps == ASSUME VrfStep PROVE OwnsKept
<1>1. ASSUME NEW r, NEW f, Len(r) = 2, db' = ModEntry(db, r, f) \/ db' = SetEntry(db, r, f) PROVE OwnsKept
  <2>1. DOMAIN db' = DOMAIN db \cup {r}
    BY <1>1 DEF SetEntry, ModEntry, :>, @@
  <2> QED  BY <1>1, <2>1 DEF OwnsKept, Has
<1>2. Len(MgmtVrf) = 2 /\ \A v : Len(<<"VRF", v>>) = 2
  BY DEF MgmtVrf
<1>3. ASSUME NEW v, AddVrf(v) PROVE OwnsKept
  <2>1. \/ db' = ModEntry(db, MgmtVrf, [mgmtVrfEnabled |-> "true"])
        \/ db' = SetEntry(db, <<"VRF", v>>, NoFields)
    BY <1>3 DEF AddVrf, Become
  <2> QED  BY <1>1, <1>2, <2>1
<1>4. ASSUME NEW v, DelVrf(v) PROVE OwnsKept
  <2> DEFINE S == {<<"VRF", v>>} \cup {Own(i) : i \in BoundTo(v)} \cup UNION {AddressRows(i) : i \in BoundTo(v)}
  <2>1. \/ db' = ModEntry(db, MgmtVrf, [mgmtVrfEnabled |-> "false"])
        \/ db' = Without(db, S)
    BY <1>4 DEF DelVrf, Become
  <2>2. \A j \in Routed : Own(j) \in S => j \in BoundTo(v)
    <3>1. \A j : Own(j) # <<"VRF", v>>
      BY OwnFacts DEF OwnTables
    <3> QED  BY <3>1, OwnNames
  <2>3. \A j \in Routed : Own(j) \in S => AddressRows(j) \subseteq S
    BY <2>2
  <2> HIDE DEF S
  <2> QED  BY <1>1, <1>2, <2>1, <2>3, KeptLess
<1> QED  BY <1>3, <1>4 DEF VrfStep

LEMMA BindKeeps == ASSUME BindStep PROVE OwnsKept
<1>1. ASSUME NEW i, UnbindVrf(i) PROVE OwnsKept
  <2>1. db' = Without(db, {Own(i)} \cup AddressRows(i))
    BY <1>1 DEF UnbindVrf, Wait, Become
  <2> QED  BY <2>1, KeptBoth
<1>2. ASSUME NEW i, NEW v, BindVrf(i, v) PROVE OwnsKept
  <2>1. db' = Without(db, {Own(i)} \cup AddressRows(i))
    BY <1>2 DEF BindVrf, Wait
  <2> QED  BY <2>1, KeptBoth
<1>3. CASE Rebind
  BY <1>3, KeptSet DEF Rebind
<1> QED  BY <1>1, <1>2, <1>3 DEF BindStep

LEMMA OwnKeeps == ASSUME OwnStep \/ RoutedStep \/ ZoneStep PROVE OwnsKept
<1>1. ASSUME NEW i, AddLoopback(i) \/ \E vid : AddSub(i, vid) PROVE OwnsKept
  <2>1. \E f : db' = SetEntry(db, Own(i), f)
    BY <1>1 DEF AddLoopback, AddSub, Become
  <2> QED  BY <2>1, KeptSet
<1>2. ASSUME NEW i, DelLoopback(i) \/ DelSub(i) PROVE OwnsKept
  <2>1. db' = Without(db, {Own(i)} \cup AddressRows(i))
    BY <1>2 DEF DelLoopback, DelSub, Become
  <2> QED  BY <2>1, KeptBoth
<1>3. ASSUME NEW i, NEW x, ProxyArp(i, x) \/ LoopbackAction(i, x) \/ Mpls(i, x) \/ NatZone(i, x) PROVE OwnsKept
  BY <1>3, KeptSet DEF ProxyArp, LoopbackAction, Mpls, NatZone, Become
<1>4. CASE RemoveNatInterfaces
  <2> DEFINE g == [r \in {Own(i) : i \in Routed \ Subs} \cap Rows |-> [nat_zone |-> "0"]]
  <2>1. db' = g @@ db
    BY <1>4 DEF RemoveNatInterfaces, Become
  <2>2. \A r \in DOMAIN g : \E i : r = Own(i)
    OBVIOUS
  <2> HIDE DEF g
  <2> QED  BY <2>1, <2>2, KeptMerge
<1> QED  BY <1>1, <1>2, <1>3, <1>4 DEF OwnStep, RoutedStep, ZoneStep

\* What is set of ports, also of a sub-interface, is set of rows that are there.
LEMMA PortKeeps == ASSUME PortStep \/ FitStep \/ AsymStep PROVE OwnsKept
<1>1. ASSUME NEW i, NEW status, AdminStatus(i, status) PROVE OwnsKept
  <2> DEFINE rows == {<<"PORT", i>>, <<"PORTCHANNEL", i>>, <<"VLAN_SUB_INTERFACE", i>>} \cap Rows
             g == [r \in rows |-> [admin_status |-> status] @@ db[r]]
  <2>1. db' = g @@ db
    BY <1>1 DEF AdminStatus, Become
  <2>2. \A r \in DOMAIN g : r \in DOMAIN db
    BY DEF Rows
  <2> HIDE DEF g
  <2> QED  BY <2>1, <2>2, KeptMerge
<1>2. ASSUME NEW r, NEW f, Len(r) = 2, db' = ModEntry(db, r, f) PROVE OwnsKept
  <2>1. DOMAIN db' = DOMAIN db \cup {r}
    BY <1>2, ModFacts
  <2> QED  BY <1>2, <2>1 DEF OwnsKept, Has
<1>3. \A p : Len(<<"PORT", p>>) = 2 /\ Len(<<"PORTCHANNEL", p>>) = 2
  OBVIOUS
<1>4. ASSUME NEW p, NEW x, SetFec(p, x) \/ SetSpeed(p, x) \/ SetMtu(p, x) \/ SetTpid(p, x) \/ PfcAsymmetric(p, x) PROVE OwnsKept
  <2>1. \E f : db' = ModEntry(db, <<"PORT", p>>, f) \/ db' = ModEntry(db, <<"PORTCHANNEL", p>>, f)
    BY <1>4 DEF SetFec, SetSpeed, SetMtu, SetTpid, PfcAsymmetric, Become
  <2> QED  BY <1>2, <1>3, <2>1
<1>5. ASSUME NEW p, NEW f, NEW x, SetCapability(p, f, x) \/ SetTransceiver(p, f, x) PROVE OwnsKept
  <2>1. \E g : db' = ModEntry(db, <<"PORT", p>>, g)
    BY <1>5 DEF SetCapability, SetTransceiver, Become
  <2> QED  BY <1>2, <1>3, <2>1
<1> QED  BY <1>1, <1>4, <1>5 DEF PortStep, FitStep, AsymStep

LEMMA MembersAddressed ==
  ASSUME AddressedIsRouted, MemberStep \/ LagMemberStep, Leaves(OwnTables)
  PROVE  AddressedIsRouted'
<1>0. \A i : (Has(Own(i))' <=> Has(Own(i))) /\ AddressRows(i)' = AddressRows(i)
  <2>1. \A i : Table(i) \in OwnTables /\ Own(i)[1] = Table(i)
    BY OwnFacts
  <2>2. \A r : r[1] \in OwnTables => (r \in DOMAIN db' <=> r \in DOMAIN db)
    BY DEF Leaves, Beside, Same
  <2> QED  BY <2>1, <2>2 DEF Has, AddressRows, Rows
<1>1. ASSUME NEW i, ~Has(Own(i)),
             \A j : j # i => (InVlan(j)' => InVlan(j)) /\ (InLag(j)' => InLag(j))
      PROVE  AddressedIsRouted'
  BY <1>0, <1>1 DEF AddressedIsRouted
<1>2. ASSUME \A j : (InVlan(j)' => InVlan(j)) /\ (InLag(j)' => InLag(j))
      PROVE  AddressedIsRouted'
  BY <1>0, <1>2 DEF AddressedIsRouted
<1>3. ASSUME NEW v, NEW i, NEW mode, AddVlanMember(v, i, mode) PROVE AddressedIsRouted'
  <2> DEFINE r == <<"VLAN_MEMBER", v, i>>
  <2>1. db' = SetEntry(db, r, [tagging_mode |-> mode]) /\ ~Has(Own(i))
    BY <1>3 DEF AddVlanMember, Become
  <2>2. r[1] = "VLAN_MEMBER" /\ r[3] = i
    OBVIOUS
  <2> HIDE DEF r
  <2>3. KeysOf("VLAN_MEMBER")' = KeysOf("VLAN_MEMBER") \cup {r} /\ KeysOf("PORTCHANNEL_MEMBER")' = KeysOf("PORTCHANNEL_MEMBER")
    BY ONLY <2>1, <2>2, KeysAfter
  <2>4. \A j : j # i => (InVlan(j)' => InVlan(j)) /\ (InLag(j)' => InLag(j))
    BY ONLY <2>2, <2>3 DEF InVlan, InLag
  <2> QED  BY <1>1, <2>1, <2>4
<1>4. ASSUME NEW l, NEW p, AddPortchannelMember(l, p) PROVE AddressedIsRouted'
  <2> DEFINE r == <<"PORTCHANNEL_MEMBER", l, p>>
  <2>1. db' = SetEntry(db, r, NoFields) /\ ~Has(Own(p))
    BY <1>4, Zenon DEF AddPortchannelMember, Become
  <2>2. r[1] = "PORTCHANNEL_MEMBER" /\ r[3] = p
    OBVIOUS
  <2> HIDE DEF r
  <2>3. KeysOf("PORTCHANNEL_MEMBER")' = KeysOf("PORTCHANNEL_MEMBER") \cup {r} /\ KeysOf("VLAN_MEMBER")' = KeysOf("VLAN_MEMBER")
    BY ONLY <2>1, <2>2, KeysAfter
  <2>4. \A j : j # p => (InVlan(j)' => InVlan(j)) /\ (InLag(j)' => InLag(j))
    BY ONLY <2>2, <2>3 DEF InVlan, InLag
  <2> QED  BY <1>1, <2>1, <2>4
<1>5. ASSUME NEW S, db' = Without(db, S) PROVE AddressedIsRouted'
  <2>1. \A t : KeysOf(t)' \subseteq KeysOf(t)
    BY <1>5, DropReads
  <2>2. \A j : (InVlan(j)' => InVlan(j)) /\ (InLag(j)' => InLag(j))
    BY <2>1 DEF InVlan, InLag
  <2> QED  BY <1>2, <2>2
<1>6. ASSUME NEW v, NEW i, DelVlanMember(v, i) \/ DelPortchannelMember(v, i) PROVE AddressedIsRouted'
  BY <1>5, <1>6 DEF DelVlanMember, DelPortchannelMember, Become
<1> QED  BY <1>3, <1>4, <1>6 DEF MemberStep, LagMemberStep

----------------------------------------------------------------------------
(* Roles: the sessions that mirror, and who is a member of what.           *)

\* A session to target dst, or to none.
Mirrored(s, dst, src, dir) ==
    ValidSession(s, dst, src, dir) /\ Become(SetEntry(db, <<"MIRROR_SESSION", s>>, NewSession(dst, src, dir)))

LEMMA MirrorCases ==
  ASSUME MirrorStep
  PROVE  \/ \E S : db' = Without(db, S)
         \/ \E s, dst, dir : \E src \in SUBSET Ports : Mirrored(s, dst, src, dir)
<1>1. ASSUME NEW s, RemoveMirror(s) PROVE \E S : db' = Without(db, S)
  BY <1>1, Zenon DEF RemoveMirror, Become
<1>2. ASSUME NEW s, NEW src, NEW dir, AddErspan(s, src, dir) PROVE Mirrored(s, Blank, src, dir)
  BY <1>2, Zenon DEF AddErspan, Mirrored, Blank
<1>3. ASSUME NEW s, NEW dst, NEW src, NEW dir, AddSpan(s, dst, src, dir) PROVE Mirrored(s, dst, src, dir)
  BY <1>3, Zenon DEF AddSpan, Mirrored
<1>4. \/ \E s : RemoveMirror(s)
      \/ \E s, dir : \E src \in SUBSET Ports : AddErspan(s, src, dir) \/ \E dst : AddSpan(s, dst, src, dir)
  BY Zenon DEF MirrorStep
<1> QED  BY ONLY <1>1, <1>2, <1>3, <1>4

LEMMA NewSessionIs ==
  ASSUME NEW dst, NEW src, NEW dir
  PROVE  /\ NewSession(dst, src, dir).dst = dst /\ NewSession(dst, src, dir).src = src
         /\ NewSession(dst, src, dir).direction = IF src = {} THEN Blank ELSE IF dir = Blank THEN "BOTH" ELSE dir
         /\ {"dst", "src", "direction"} \subseteq DOMAIN NewSession(dst, src, dir)
<1> DEFINE blank == Blank
           way == IF src = {} THEN blank ELSE IF dir = blank THEN "BOTH" ELSE dir
<1>1. NewSession(dst, src, dir) = [dst |-> dst, src |-> src, direction |-> way]
  BY Zenon DEF NewSession, Blank
<1> HIDE DEF way
<1>2. /\ [dst |-> dst, src |-> src, direction |-> way].dst = dst
      /\ [dst |-> dst, src |-> src, direction |-> way].src = src
      /\ [dst |-> dst, src |-> src, direction |-> way].direction = way
      /\ {"dst", "src", "direction"} \subseteq DOMAIN [dst |-> dst, src |-> src, direction |-> way]
  OBVIOUS
<1> QED  BY <1>1, <1>2, Zenon DEF way

LEMMA SessionGuards ==
  ASSUME NEW s, NEW dst, NEW src, NEW dir, ValidSession(s, dst, src, dir)
  PROVE  /\ ~Has(<<"MIRROR_SESSION", s>>)
         /\ dst # Blank => ~InVlan(dst) /\ ~InLag(dst)
         /\ \A p \in src : p # dst
         /\ \A r \in KeysOf("MIRROR_SESSION") :
               /\ \A p \in src : Field(r, "dst") # p /\ ~(Mentions(r, p) /\ SameWay(r, dir))
               /\ dst # Blank => Field(r, "dst") # dst /\ ~Mentions(r, dst)
<1>1. ~Has(<<"MIRROR_SESSION", s>>) /\ \A p \in src : p # dst
  BY Zenon DEF ValidSession
<1>2. dst # Blank => ~InVlan(dst) /\ ~InLag(dst)
  BY Zenon DEF ValidSession, Blank
<1>3. ~HasMirrorConfig(dst, src, dir)
  BY Zenon DEF ValidSession
<1>4. \A r \in KeysOf("MIRROR_SESSION") :
               /\ \A p \in src : Field(r, "dst") # p /\ ~(Mentions(r, p) /\ SameWay(r, dir))
               /\ dst # Blank => Field(r, "dst") # dst /\ ~Mentions(r, dst)
  BY <1>3, Zenon DEF HasMirrorConfig, Blank
<1> QED  BY <1>1, <1>2, <1>4, Zenon

SameWayIs(r, dir) == dir \in {Blank, "BOTH"} \/ Direction(r) \in {"BOTH", dir}

LEMMA SameWayFact == \A r, dir : SameWay(r, dir) <=> SameWayIs(r, dir)
  BY Zenon DEF SameWay, SameWayIs, Blank

\* A session has its fields; its sources are ports, and have a direction.
SessionsShape ==
    \A r \in KeysOf("MIRROR_SESSION") :
        /\ {"dst", "src", "direction"} \subseteq DOMAIN db[r] /\ db[r].src \subseteq Ports
        /\ db[r].src # {} => db[r].direction # Blank
\* SessionsApart without the empty string.
SessionsDiffer ==
    \A r, s \in KeysOf("MIRROR_SESSION") :
        r # s => /\ db[r].dst # Blank => db[r].dst # db[s].dst /\ db[r].dst \notin db[s].src
                 /\ db[s].direction \in {Blank, "BOTH"} \/ db[r].direction \in {"BOTH", db[s].direction}
                       => db[r].src \cap db[s].src = {}

LEMMA SessionReads ==
  ASSUME SessionsShape, NEW r \in KeysOf("MIRROR_SESSION")
  PROVE  /\ Field(r, "dst") = db[r].dst /\ Direction(r) = db[r].direction /\ Entry(r) = db[r]
         /\ \A p \in db[r].src : Mentions(r, p)
<1>1. Has(r) /\ Entry(r) = db[r]
  BY DEF KeysOf, Rows, Has, Entry
<1>2. Field(r, "dst") = db[r].dst /\ Direction(r) = db[r].direction
  BY <1>1, FieldIs DEF SessionsShape, Direction
<1>3. \A p \in db[r].src : <<p, p>> \in Occurs
  BY NamesAssumption, Zenon DEF SessionsShape
<1> QED  BY <1>1, <1>2, <1>3 DEF Mentions

LEMMA SessionsLeft ==
  ASSUME SessionsShape, SessionsDiffer,
         \A r \in KeysOf("MIRROR_SESSION")' : r \in KeysOf("MIRROR_SESSION") /\ db'[r] = db[r]
  PROVE  SessionsShape' /\ SessionsDiffer'
  BY DEF SessionsShape, SessionsDiffer, Blank

LEMMA SessionsStay ==
  ASSUME SessionsShape, SessionsDiffer, Leaves({"MIRROR_SESSION"}) \/ MirrorStep
  PROVE  SessionsShape' /\ SessionsDiffer'
<1>0. \A r \in KeysOf("MIRROR_SESSION") : r[1] = "MIRROR_SESSION" /\ Has(r)
  BY DEF KeysOf, Rows, Has
<1>1. CASE Leaves({"MIRROR_SESSION"})
  BY <1>0, <1>1, LeavesReads, SessionsLeft
<1>2. ASSUME NEW S, db' = Without(db, S) PROVE SessionsShape' /\ SessionsDiffer'
  BY <1>0, <1>2, DropReads, SessionsLeft
<1>3. ASSUME NEW s, NEW dst, NEW dir, NEW src \in SUBSET Ports, Mirrored(s, dst, src, dir)
      PROVE  SessionsShape' /\ SessionsDiffer'
  <2> DEFINE x == <<"MIRROR_SESSION", s>>
             f == NewSession(dst, src, dir)
             M == KeysOf("MIRROR_SESSION")
  <2>1. db' = SetEntry(db, x, f) /\ ValidSession(s, dst, src, dir)
    BY <1>3, Zenon DEF Mirrored, Become
  <2>2. x[1] = "MIRROR_SESSION"
    OBVIOUS
  <2>3. /\ ~Has(x)
        /\ \A p \in src : p # dst
        /\ \A r \in M :
               /\ \A p \in src : Field(r, "dst") # p /\ ~(Mentions(r, p) /\ SameWay(r, dir))
               /\ dst # Blank => Field(r, "dst") # dst /\ ~Mentions(r, dst)
    BY <2>1, SessionGuards
  <2>4. /\ f.dst = dst /\ f.src = src /\ {"dst", "src", "direction"} \subseteq DOMAIN f
        /\ f.direction = IF src = {} THEN Blank ELSE IF dir = Blank THEN "BOTH" ELSE dir
    BY ONLY NewSessionIs
  <2> HIDE DEF x, f
  <2>5. KeysOf("MIRROR_SESSION")' = M \cup {x} /\ db'[x] = f /\ \A r \in M : r # x /\ db'[r] = db[r]
    BY <1>0, <2>1, <2>2, <2>3, SetReads, KeysAfter
  <2>6. \A r \in M : /\ db[r].dst \notin src /\ (dst # Blank => db[r].dst # dst /\ dst \notin db[r].src)
                     /\ \A p \in src \cap db[r].src : ~SameWayIs(r, dir)
                     /\ Direction(r) = db[r].direction
    BY <2>3, SessionReads, SameWayFact
  <2>7. SessionsShape'
    BY <2>4, <2>5 DEF SessionsShape, Blank
  <2>8. \A r \in M : /\ db[r].dst # Blank => db[r].dst # f.dst /\ db[r].dst \notin f.src
                     /\ f.dst # Blank => f.dst # db[r].dst /\ f.dst \notin db[r].src
                     /\ f.direction \in {Blank, "BOTH"} \/ db[r].direction \in {"BOTH", f.direction} => db[r].src \cap f.src = {}
                     /\ db[r].direction \in {Blank, "BOTH"} \/ f.direction \in {"BOTH", db[r].direction} => db[r].src \cap f.src = {}
    <3> SUFFICES ASSUME NEW r \in M
                 PROVE  /\ db[r].dst # Blank => db[r].dst # f.dst /\ db[r].dst \notin f.src
                        /\ f.dst # Blank => f.dst # db[r].dst /\ f.dst \notin db[r].src
                        /\ f.direction \in {Blank, "BOTH"} \/ db[r].direction \in {"BOTH", f.direction} => db[r].src \cap f.src = {}
                        /\ db[r].direction \in {Blank, "BOTH"} \/ f.direction \in {"BOTH", db[r].direction} => db[r].src \cap f.src = {}
      OBVIOUS
    <3>1. CASE db[r].src \cap f.src = {}
      BY <2>4, <2>6, <3>1
    <3>2. CASE db[r].src \cap f.src # {}
      <4>1. ~SameWayIs(r, dir) /\ src # {} /\ db[r].src # {}
        BY <2>4, <2>6, <3>2
      <4>2. dir \notin {Blank, "BOTH"} /\ db[r].direction \notin {"BOTH", dir} /\ db[r].direction # Blank
        BY <2>6, <4>1 DEF SameWayIs, SessionsShape
      <4> QED  BY <2>4, <2>6, <4>1, <4>2
    <3> QED  BY <3>1, <3>2
  <2>9. SessionsDiffer'
    BY <2>5, <2>8 DEF SessionsDiffer, Blank
  <2> QED  BY <2>7, <2>9
<1> QED  BY <1>1, <1>2, <1>3, MirrorCases

LEMMA SessionsFit == ASSUME SessionsShape, SessionsDiffer PROVE SessionsApart
<1>1. ASSUME NEW r \in KeysOf("MIRROR_SESSION"), NEW s \in KeysOf("MIRROR_SESSION"), r # s
      PROVE  /\ db[r].dst # Blank => db[r].dst # db[s].dst /\ db[r].dst \notin db[s].src
             /\ SameWay(r, db[s].direction) => db[r].src \cap db[s].src = {}
  <2>1. Direction(r) = db[r].direction
    BY SessionReads
  <2> QED  BY <1>1, <2>1, SameWayFact DEF SessionsDiffer, SameWayIs
<1> QED  BY <1>1, Zenon DEF SessionsApart, Blank

\* A member of a port channel is a member of it alone, a port is in one VLAN without a
\* tag, and a target of mirrored packets is a member of nothing.
AloneInLag ==
    \A r \in KeysOf("PORTCHANNEL_MEMBER") :
        ~InVlan(r[3]) /\ \A s \in KeysOf("PORTCHANNEL_MEMBER") : r[3] = s[3] => r = s
Untagged(r) == Field(r, "tagging_mode") = "untagged"
OnceUntagged == \A r, s \in KeysOf("VLAN_MEMBER") : r[3] = s[3] /\ Untagged(r) /\ Untagged(s) => r = s
TargetsFree == \A p \in Ports \cup Lags : IsMirrorDst(p) => ~InVlan(p) /\ ~InLag(p)
MastersStay == AloneInLag /\ OnceUntagged /\ TargetsFree

\* Tables of members, and of sessions, that a step leaves.
LEMMA MembersLeft ==
  ASSUME NEW t, Leaves({t})
  PROVE  /\ KeysOf(t)' = KeysOf(t)
         /\ \A r \in KeysOf(t) : Untagged(r)' <=> Untagged(r)
         /\ t = "VLAN_MEMBER" => \A p : InVlan(p)' <=> InVlan(p)
         /\ t = "PORTCHANNEL_MEMBER" => \A p : InLag(p)' <=> InLag(p)
         /\ t = "MIRROR_SESSION" => \A p : IsMirrorDst(p)' <=> IsMirrorDst(p)
<1>1. KeysOf(t)' = KeysOf(t)
  BY LeavesReads
<1>2. \A r \in KeysOf(t) : \A g : Field(r, g)' = Field(r, g)
  BY LeavesReads DEF KeysOf
<1>3. \A r \in KeysOf(t) : Untagged(r)' <=> Untagged(r)
  BY <1>2 DEF Untagged
<1> QED  BY <1>1, <1>2, <1>3 DEF InVlan, InLag, IsMirrorDst

\* Members, and sessions, that go.
LEMMA MembersGo ==
  ASSUME MastersStay, NEW S, db' = Without(db, S)
  PROVE  MastersStay'
<1>1. \A t : KeysOf(t)' = KeysOf(t) \ S
  BY DropReads
<1>2. \A r, g : r \notin S => Field(r, g)' = Field(r, g)
  BY DropReads
<1>3. \A t : \A r \in KeysOf(t)' : r \in KeysOf(t) /\ (Untagged(r)' <=> Untagged(r))
  BY <1>1, <1>2 DEF Untagged
<1>4. \A p : (InVlan(p)' => InVlan(p)) /\ (InLag(p)' => InLag(p)) /\ (IsMirrorDst(p)' => IsMirrorDst(p))
  BY <1>1, <1>2 DEF InVlan, InLag, IsMirrorDst
<1> QED  BY <1>3, <1>4 DEF MastersStay, AloneInLag, OnceUntagged, TargetsFree

LEMMA VlanMemberComes ==
  ASSUME MastersStay, Leaves({"PORTCHANNEL_MEMBER"}), Leaves({"MIRROR_SESSION"}),
         NEW v, NEW i, NEW mode, AddVlanMember(v, i, mode)
  PROVE  MastersStay'
<1> DEFINE x == <<"VLAN_MEMBER", v, i>>
           V == KeysOf("VLAN_MEMBER")
<1>1. /\ db' = SetEntry(db, x, [tagging_mode |-> mode])
      /\ ~IsMirrorDst(i) /\ ~InLag(i) /\ ~Has(x)
      /\ mode = "untagged" => ~\E r \in V : r[3] = i /\ db[r].tagging_mode = "untagged"
  BY Zenon DEF AddVlanMember, Become
<1>2. x[1] = "VLAN_MEMBER" /\ x[3] = i
  OBVIOUS
<1> HIDE DEF x
<1>3. V' = V \cup {x}
  BY ONLY <1>1, <1>2, KeysAfter
<1>4. \A r \in V : Has(r)
  BY DEF KeysOf, Has, Rows
<1>5. /\ Field(x, "tagging_mode")' = mode
      /\ \A s, g : s # x => Field(s, g)' = Field(s, g)
  <2>1. \A g : Field(x, g)' = IF g \in DOMAIN [tagging_mode |-> mode] THEN [tagging_mode |-> mode][g] ELSE Blank
    BY <1>1, SetReads
  <2>2. \A s, g : s # x => Field(s, g)' = Field(s, g)
    BY <1>1, SetReads
  <2> QED  BY <2>1, <2>2
<1>6. \A r \in V : r # x /\ (Untagged(r)' <=> Untagged(r))
  BY <1>1, <1>4, <1>5 DEF Untagged
<1>7. \A r \in V : Untagged(r) => db[r].tagging_mode = "untagged"
  <2>1. "untagged" # Blank
    BY Zenon DEF Blank
  <2> QED  BY <2>1, FieldIs DEF Untagged
<1>8. \A p : InVlan(p)' <=> InVlan(p) \/ p = i
  BY ONLY <1>2, <1>3 DEF InVlan
<1>9. \A p : (InLag(p)' <=> InLag(p)) /\ (IsMirrorDst(p)' <=> IsMirrorDst(p))
  BY MembersLeft
<1>10. KeysOf("PORTCHANNEL_MEMBER")' = KeysOf("PORTCHANNEL_MEMBER")
  BY MembersLeft
<1>11. AloneInLag'
  <2>1. \A r \in KeysOf("PORTCHANNEL_MEMBER") : r[3] # i
    BY <1>1 DEF InLag
  <2> QED  BY <1>8, <1>10, <2>1 DEF MastersStay, AloneInLag
<1>12. OnceUntagged'
  <2>1. Untagged(x)' => mode = "untagged"
    BY <1>5 DEF Untagged
  <2>2. Untagged(x)' => \A r \in V : r[3] = i => ~Untagged(r)
    BY <1>1, <1>7, <2>1
  <2> QED  BY <1>2, <1>3, <1>6, <2>2 DEF MastersStay, OnceUntagged
<1>13. TargetsFree'
  BY <1>1, <1>8, <1>9 DEF MastersStay, TargetsFree
<1> QED  BY <1>11, <1>12, <1>13 DEF MastersStay

LEMMA LagMemberComes ==
  ASSUME MastersStay, Leaves({"VLAN_MEMBER"}), Leaves({"MIRROR_SESSION"}), NEW l, NEW p, AddPortchannelMember(l, p)
  PROVE  MastersStay'
<1> DEFINE x == <<"PORTCHANNEL_MEMBER", l, p>>
           M == KeysOf("PORTCHANNEL_MEMBER")
<1>1. db' = SetEntry(db, x, NoFields) /\ ~IsMirrorDst(p) /\ ~InLag(p) /\ ~InVlan(p)
  BY Zenon DEF AddPortchannelMember, Become
<1>2. x[1] = "PORTCHANNEL_MEMBER" /\ x[3] = p
  OBVIOUS
<1> HIDE DEF x
<1>3. M' = M \cup {x}
  BY ONLY <1>1, <1>2, KeysAfter
<1>4. \A q : InLag(q)' <=> InLag(q) \/ q = p
  BY ONLY <1>2, <1>3 DEF InLag
<1>5. \A q : (InVlan(q)' <=> InVlan(q)) /\ (IsMirrorDst(q)' <=> IsMirrorDst(q))
  BY MembersLeft
<1>6. AloneInLag'
  BY <1>1, <1>2, <1>3, <1>5 DEF MastersStay, AloneInLag, InLag
<1>7. OnceUntagged'
  BY MembersLeft DEF MastersStay, OnceUntagged
<1>8. TargetsFree'
  BY <1>1, <1>4, <1>5 DEF MastersStay, TargetsFree
<1> QED  BY <1>6, <1>7, <1>8 DEF MastersStay

LEMMA TargetComes ==
  ASSUME MastersStay, Leaves({"VLAN_MEMBER"}), Leaves({"PORTCHANNEL_MEMBER"}),
         NEW s, NEW dst, NEW dir, NEW src, Mirrored(s, dst, src, dir)
  PROVE  MastersStay'
<1> DEFINE x == <<"MIRROR_SESSION", s>>
           f == NewSession(dst, src, dir)
<1>1. db' = SetEntry(db, x, f) /\ ValidSession(s, dst, src, dir)
  BY Zenon DEF Mirrored, Become
<1>2. x[1] = "MIRROR_SESSION"
  OBVIOUS
<1>3. dst # Blank => ~InVlan(dst) /\ ~InLag(dst)
  BY <1>1, SessionGuards
<1>4. f.dst = dst /\ "dst" \in DOMAIN f
  BY ONLY NewSessionIs
<1> HIDE DEF x, f
<1>5. KeysOf("MIRROR_SESSION")' = KeysOf("MIRROR_SESSION") \cup {x}
  BY ONLY <1>1, <1>2, KeysAfter
<1>6. Field(x, "dst")' = dst /\ \A r, g : r # x => Field(r, g)' = Field(r, g)
  BY <1>1, <1>4, SetReads
<1>7. \A p : IsMirrorDst(p)' => IsMirrorDst(p) \/ p = dst
  BY ONLY <1>5, <1>6 DEF IsMirrorDst
<1>8. Blank \notin Ports \cup Lags
  BY NamesAssumption, Zenon DEF Blank
<1>9. \A q : (InVlan(q)' <=> InVlan(q)) /\ (InLag(q)' <=> InLag(q))
  BY MembersLeft
<1>10. TargetsFree'
  BY <1>3, <1>7, <1>8, <1>9 DEF MastersStay, TargetsFree
<1>11. AloneInLag' /\ OnceUntagged'
  <2>1. KeysOf("VLAN_MEMBER")' = KeysOf("VLAN_MEMBER") /\ KeysOf("PORTCHANNEL_MEMBER")' = KeysOf("PORTCHANNEL_MEMBER")
    BY MembersLeft
  <2>2. \A r \in KeysOf("VLAN_MEMBER") : Untagged(r)' <=> Untagged(r)
    BY MembersLeft
  <2> QED  BY <1>9, <2>1, <2>2 DEF MastersStay, AloneInLag, OnceUntagged
<1> QED  BY <1>10, <1>11 DEF MastersStay

LEMMA MastersKeep ==
  ASSUME MastersStay,
         \/ Leaves({"VLAN_MEMBER"}) /\ Leaves({"PORTCHANNEL_MEMBER"}) /\ Leaves({"MIRROR_SESSION"})
         \/ MemberStep /\ Leaves({"PORTCHANNEL_MEMBER"}) /\ Leaves({"MIRROR_SESSION"})
         \/ LagMemberStep /\ Leaves({"VLAN_MEMBER"}) /\ Leaves({"MIRROR_SESSION"})
         \/ MirrorStep /\ Leaves({"VLAN_MEMBER"}) /\ Leaves({"PORTCHANNEL_MEMBER"})
  PROVE  MastersStay'
<1>1. CASE Leaves({"VLAN_MEMBER"}) /\ Leaves({"PORTCHANNEL_MEMBER"}) /\ Leaves({"MIRROR_SESSION"})
  <2>1. KeysOf("VLAN_MEMBER")' = KeysOf("VLAN_MEMBER") /\ KeysOf("PORTCHANNEL_MEMBER")' = KeysOf("PORTCHANNEL_MEMBER")
    BY <1>1, MembersLeft
  <2>2. \A r \in KeysOf("VLAN_MEMBER") : Untagged(r)' <=> Untagged(r)
    BY <1>1, MembersLeft
  <2>3. \A p : (InVlan(p)' <=> InVlan(p)) /\ (InLag(p)' <=> InLag(p)) /\ (IsMirrorDst(p)' <=> IsMirrorDst(p))
    BY <1>1, MembersLeft
  <2> QED  BY <2>1, <2>2, <2>3 DEF MastersStay, AloneInLag, OnceUntagged, TargetsFree
<1>2. CASE MemberStep /\ Leaves({"PORTCHANNEL_MEMBER"}) /\ Leaves({"MIRROR_SESSION"})
  <2>1. PICK v, i : DelVlanMember(v, i) \/ \E mode : AddVlanMember(v, i, mode)
    BY <1>2, Zenon DEF MemberStep
  <2>2. CASE DelVlanMember(v, i)
    BY <2>2, MembersGo DEF DelVlanMember, Become
  <2> QED  BY <1>2, <2>1, <2>2, VlanMemberComes
<1>3. CASE LagMemberStep /\ Leaves({"VLAN_MEMBER"}) /\ Leaves({"MIRROR_SESSION"})
  <2>1. PICK l, p : AddPortchannelMember(l, p) \/ DelPortchannelMember(l, p)
    BY <1>3, Zenon DEF LagMemberStep
  <2>2. CASE DelPortchannelMember(l, p)
    BY <2>2, MembersGo DEF DelPortchannelMember, Become
  <2> QED  BY <1>3, <2>1, <2>2, LagMemberComes
<1>4. CASE MirrorStep /\ Leaves({"VLAN_MEMBER"}) /\ Leaves({"PORTCHANNEL_MEMBER"})
  BY <1>4, MirrorCases, MembersGo, TargetComes
<1> QED  BY <1>1, <1>2, <1>3, <1>4

LEMMA AtMostOne ==
  ASSUME NEW S, \A r, s \in S : r = s
  PROVE  Cardinality(S) <= 1
<1>1. CASE S = {}
  BY <1>1, FS_EmptySet
<1>2. CASE S # {}
  <2>1. PICK r \in S : TRUE
    BY <1>2
  <2>2. S = {r}
    BY <2>1
  <2>3. Cardinality({r}) = 1
    BY FS_Singleton
  <2> QED  BY <2>2, <2>3
<1> QED  BY <1>1, <1>2

LEMMA MastersFit == ASSUME MastersStay PROVE OneMaster
<1> SUFFICES ASSUME NEW p \in Ports \cup Lags
             PROVE  /\ InLag(p) => Cardinality(Members(p)) = 1
                    /\ Cardinality({r \in Members(p) : Untagged(r)}) <= 1
                    /\ IsMirrorDst(p) => Members(p) = {}
  BY DEF OneMaster, Untagged
<1>0. Members(p) = {r \in KeysOf("VLAN_MEMBER") \cup KeysOf("PORTCHANNEL_MEMBER") : r[3] = p}
  BY DEF Members
<1>1. IsMirrorDst(p) => Members(p) = {}
  BY <1>0 DEF MastersStay, TargetsFree, InVlan, InLag
<1>2. CASE InLag(p)
  <2>1. PICK x \in KeysOf("PORTCHANNEL_MEMBER") : x[3] = p
    BY <1>2 DEF InLag
  <2>2. Members(p) = {x}
    BY <1>0, <2>1 DEF MastersStay, AloneInLag, InVlan
  <2>3. Cardinality({x}) = 1
    BY FS_Singleton
  <2> DEFINE U == {r \in Members(p) : Untagged(r)}
  <2>4. \A r, s \in U : r = s
    BY <2>2
  <2> HIDE DEF U
  <2>5. Cardinality(U) <= 1
    BY <2>4, AtMostOne
  <2> QED  BY <1>1, <2>2, <2>3, <2>5 DEF U
<1>3. CASE ~InLag(p)
  <2> DEFINE U == {r \in Members(p) : Untagged(r)}
  <2>1. \A r, s \in U : r = s
    BY <1>0, <1>3 DEF MastersStay, OnceUntagged, InLag
  <2> HIDE DEF U
  <2>2. Cardinality(U) <= 1
    BY <2>1, AtMostOne
  <2> QED  BY <1>1, <1>3, <2>2 DEF U
<1> QED  BY <1>2, <1>3

\* The members of a port channel have its MTU and the default TPID.
Differs(r, s, f) == Field(r, f) # Blank /\ Field(s, f) # Blank /\ Field(r, f) # Field(s, f)
Lag(l) == <<"PORTCHANNEL", l>>
Port(p) == <<"PORT", p>>
MembersSettled ==
    \A r \in KeysOf("PORTCHANNEL_MEMBER") :
        /\ Has(Lag(r[2])) /\ ~Differs(Lag(r[2]), Port(r[3]), "mtu")
        /\ Field(Port(r[3]), "tpid") \in {Blank, "0x8100"}

LEMMA SettledFits == ASSUME MembersSettled PROVE MembersFit
  BY Zenon DEF MembersSettled, MembersFit, Differs, Differ, Blank, Lag, Port

LEMMA SettledNames ==
  /\ \A l, p : Lag(l) # Port(p)
  /\ \A l, k : Lag(l) = Lag(k) => l = k
  /\ \A p, q : Port(p) = Port(q) => p = q
  /\ \A l : Lag(l)[1] = "PORTCHANNEL" /\ Port(l)[1] = "PORT"
  BY DEF Lag, Port

\* What a step keeps of port channels, and of the ports that are in one.
LEMMA SettledKept ==
  ASSUME MembersSettled, Leaves({"PORTCHANNEL_MEMBER"}),
         \A r \in KeysOf("PORTCHANNEL_MEMBER") :
            LET l == r[2]
                p == r[3]
            IN  /\ Has(Lag(l)) => Has(Lag(l))'
                /\ Field(Lag(l), "mtu")' = Field(Lag(l), "mtu")
                /\ Field(Port(p), "mtu")' = Field(Port(p), "mtu")
                /\ Field(Port(p), "tpid")' = Field(Port(p), "tpid")
  PROVE  MembersSettled'
<1>1. KeysOf("PORTCHANNEL_MEMBER")' = KeysOf("PORTCHANNEL_MEMBER")
  BY LeavesReads
<1> QED  BY <1>1 DEF MembersSettled, Differs, Blank

LEMMA SettledMod ==
  ASSUME MembersSettled, Leaves({"PORTCHANNEL_MEMBER"}), NEW x, NEW f, db' = ModEntry(db, x, f),
         x[1] \in {"PORT", "PORTCHANNEL"},
         \/ "mtu" \notin DOMAIN f /\ "tpid" \notin DOMAIN f
         \/ \E p : x = Port(p) /\ ~InLag(p)
         \/ x[1] = "PORTCHANNEL" /\ "mtu" \notin DOMAIN f
  PROVE  MembersSettled'
<1>1. /\ \A s : Has(s) => Has(s)'
      /\ \A s, g : s # x => Field(s, g)' = Field(s, g)
      /\ \A g : g \notin DOMAIN f => Field(x, g)' = Field(x, g)
  BY ModReads
<1>2. ASSUME NEW r \in KeysOf("PORTCHANNEL_MEMBER")
      PROVE  /\ Field(Lag(r[2]), "mtu")' = Field(Lag(r[2]), "mtu")
             /\ Field(Port(r[3]), "mtu")' = Field(Port(r[3]), "mtu")
             /\ Field(Port(r[3]), "tpid")' = Field(Port(r[3]), "tpid")
  <2>1. InLag(r[3])
    BY DEF InLag
  <2> QED  BY <1>1, <2>1, SettledNames
<1> QED  BY <1>1, <1>2, SettledKept

LEMMA SettledOver ==
  ASSUME MembersSettled, Leaves({"PORTCHANNEL_MEMBER"}), NEW g, db' = g @@ db,
         \A r \in DOMAIN g : r \in DOMAIN db /\ \E e : DOMAIN e = {"admin_status"} /\ g[r] = e @@ db[r]
  PROVE  MembersSettled'
<1>1. DOMAIN db' = DOMAIN db /\ (\A r \in DOMAIN g : db'[r] = g[r]) /\ (\A r \in DOMAIN db \ DOMAIN g : db'[r] = db[r])
  BY DEF @@
<1>2. ASSUME NEW r, NEW n, n # "admin_status" PROVE Field(r, n)' = Field(r, n)
  <2>1. CASE r \in DOMAIN g
    <3>1. PICK e : DOMAIN e = {"admin_status"} /\ g[r] = e @@ db[r]
      BY <2>1
    <3>2. /\ DOMAIN (e @@ db[r]) = DOMAIN e \cup DOMAIN db[r]
          /\ \A k \in DOMAIN db[r] \ DOMAIN e : (e @@ db[r])[k] = db[r][k]
      BY ONLY MergeFacts
    <3>3. Entry(r) = db[r] /\ Entry(r)' = db'[r] /\ db'[r] = e @@ db[r]
      BY <1>1, <2>1, <3>1 DEF Entry, Has
    <3>4. n \in DOMAIN db'[r] <=> n \in DOMAIN db[r]
      BY ONLY <1>2, <3>1, <3>2, <3>3
    <3>5. n \in DOMAIN db[r] => db'[r][n] = db[r][n]
      BY ONLY <1>2, <3>1, <3>2, <3>3
    <3> QED  BY <3>3, <3>4, <3>5 DEF Field, Blank
  <2>2. CASE r \in DOMAIN db \ DOMAIN g
    BY <1>1, <2>2 DEF Field, Blank, Entry, Has
  <2>3. CASE r \notin DOMAIN db
    BY <1>1, <2>3, NoFieldsFact DEF Field, Blank, Entry, Has
  <2> QED  BY <2>1, <2>2, <2>3
<1>3. \A s : Has(s) => Has(s)'
  BY <1>1 DEF Has
<1> QED  BY <1>2, <1>3, SettledKept

LEMMA SettledPorts ==
  ASSUME MembersSettled, Leaves({"PORTCHANNEL_MEMBER"}), PortStep \/ FitStep \/ AsymStep
  PROVE  MembersSettled'
<1>1. ASSUME NEW i, NEW status, AdminStatus(i, status) PROVE MembersSettled'
  <2> DEFINE rows == {<<"PORT", i>>, <<"PORTCHANNEL", i>>, <<"VLAN_SUB_INTERFACE", i>>} \cap Rows
             e == [admin_status |-> status]
             g == [r \in rows |-> e @@ db[r]]
  <2>1. db' = g @@ db
    BY <1>1 DEF AdminStatus, Become
  <2>2. DOMAIN e = {"admin_status"}
    OBVIOUS
  <2> HIDE DEF e
  <2>3. \A r \in DOMAIN g : r \in DOMAIN db /\ g[r] = e @@ db[r]
    BY DEF Rows
  <2> HIDE DEF g
  <2> QED  BY <2>1, <2>2, <2>3, SettledOver
<1>2. ASSUME NEW p, NEW f, db' = ModEntry(db, Port(p), f), "mtu" \notin DOMAIN f, "tpid" \notin DOMAIN f PROVE MembersSettled'
  BY <1>2, SettledMod, SettledNames
<1>3. ASSUME NEW p, NEW f, db' = ModEntry(db, Port(p), f), ~InLag(p) PROVE MembersSettled'
  BY <1>3, SettledMod, SettledNames
<1>4. ASSUME NEW p, NEW x, SetFec(p, x) \/ SetSpeed(p, x) \/ PfcAsymmetric(p, x) PROVE MembersSettled'
  <2>1. \E y : db' \in {ModEntry(db, Port(p), [fec |-> y]), ModEntry(db, Port(p), [speed |-> y]), ModEntry(db, Port(p), [pfc_asym |-> y])}
    BY <1>4 DEF SetFec, SetSpeed, PfcAsymmetric, Become, Port
  <2>2. \A y : /\ DOMAIN [fec |-> y] = {"fec"} /\ DOMAIN [speed |-> y] = {"speed"} /\ DOMAIN [pfc_asym |-> y] = {"pfc_asym"}
    OBVIOUS
  <2> QED  BY <1>2, <2>1, <2>2
<1>5. ASSUME NEW p, NEW f \in DOMAIN Capabilities \cup {"laser_freq", "tx_power"}, NEW x, SetCapability(p, f, x) \/ SetTransceiver(p, f, x) PROVE MembersSettled'
  <2>1. db' = ModEntry(db, Port(p), f :> x)
    BY <1>5 DEF SetCapability, SetTransceiver, Become, Port
  <2>2. DOMAIN (f :> x) = {f}
    BY ONLY OneFacts
  <2>3. f # "mtu" /\ f # "tpid"
    BY <1>5 DEF Capabilities
  <2> QED  BY <1>2, <2>1, <2>2, <2>3
<1>6. ASSUME NEW p, NEW m, SetMtu(p, m) PROVE MembersSettled'
  BY <1>3, <1>6 DEF SetMtu, Become, Port
<1>7. ASSUME NEW i, NEW t, SetTpid(i, t) PROVE MembersSettled'
  <2>1. \/ db' = ModEntry(db, Lag(i), [tpid |-> t])
        \/ db' = ModEntry(db, Port(i), [tpid |-> t]) /\ ~InLag(i)
    BY <1>7 DEF SetTpid, Become, Port, Lag
  <2>2. DOMAIN [tpid |-> t] = {"tpid"}
    OBVIOUS
  <2> QED  BY <1>3, <2>1, <2>2, SettledMod, SettledNames
<1> QED  BY <1>1, <1>4, <1>5, <1>6, <1>7 DEF PortStep, FitStep, AsymStep

LEMMA SettledLags ==
  ASSUME MembersSettled, Leaves({"PORTCHANNEL_MEMBER"}), LagStep
  PROVE  MembersSettled'
<1>1. ASSUME NEW l, AddPortchannel(l) PROVE MembersSettled'
  <2>1. ~Has(Lag(l)) /\ \E f : db' = SetEntry(db, Lag(l), f)
    BY <1>1 DEF AddPortchannel, Become, Lag
  <2>2. \A s : s # Lag(l) => (Has(s)' <=> Has(s)) /\ \A g : Field(s, g)' = Field(s, g)
    BY <2>1, SetReads
  <2>3. \A r \in KeysOf("PORTCHANNEL_MEMBER") : Lag(r[2]) # Lag(l)
    BY <2>1 DEF MembersSettled
  <2> QED  BY <2>2, <2>3, SettledKept, SettledNames
<1>2. ASSUME NEW l, RemovePortchannel(l) PROVE MembersSettled'
  <2>1. db' = Without(db, {Lag(l)}) /\ \A r \in KeysOf("PORTCHANNEL_MEMBER") : r[2] # l
    BY <1>2 DEF RemovePortchannel, Become, Lag
  <2>2. \A s : s # Lag(l) => (Has(s)' <=> Has(s)) /\ \A g : Field(s, g)' = Field(s, g)
    BY <2>1, DropReads
  <2> QED  BY <2>1, <2>2, SettledKept, SettledNames
<1> QED  BY <1>1, <1>2 DEF LagStep

LEMMA SettledMembers ==
  ASSUME MembersSettled, LagMemberStep, Leaves({"PORT", "PORTCHANNEL"})
  PROVE  MembersSettled'
<1>1. /\ \A l : (Has(Lag(l))' <=> Has(Lag(l))) /\ \A g : Field(Lag(l), g)' = Field(Lag(l), g)
      /\ \A p, g : Field(Port(p), g)' = Field(Port(p), g)
  BY LeavesReads, SettledNames
<1>2. ASSUME NEW l, NEW p, AddPortchannelMember(l, p) PROVE MembersSettled'
  <2> DEFINE x == <<"PORTCHANNEL_MEMBER", l, p>>
  <2>1. /\ db' = SetEntry(db, x, NoFields) /\ Has(Lag(l)) /\ ~Differs(Lag(l), Port(p), "mtu")
        /\ Field(Port(p), "tpid") \in {Blank, "0x8100"}
    BY <1>2, Zenon DEF AddPortchannelMember, Become, Lag, Port, Differ, Differs, Blank
  <2>2. x[1] = "PORTCHANNEL_MEMBER" /\ x[2] = l /\ x[3] = p
    OBVIOUS
  <2> HIDE DEF x
  <2>3. KeysOf("PORTCHANNEL_MEMBER")' = KeysOf("PORTCHANNEL_MEMBER") \cup {x}
    BY ONLY <2>1, <2>2, KeysAfter
  <2>4. Blank' = Blank
    BY Zenon DEF Blank
  <2>5. \A m, q, g : Differs(Lag(m), Port(q), g)' <=> Differs(Lag(m), Port(q), g)
    BY <1>1, <2>4 DEF Differs
  <2>6. ASSUME NEW r \in KeysOf("PORTCHANNEL_MEMBER") \cup {x}
        PROVE  /\ Has(Lag(r[2])) /\ ~Differs(Lag(r[2]), Port(r[3]), "mtu")
               /\ Field(Port(r[3]), "tpid") \in {Blank, "0x8100"}
    BY <2>1, <2>2 DEF MembersSettled
  <2>7. ASSUME NEW r \in KeysOf("PORTCHANNEL_MEMBER")'
        PROVE  /\ Has(Lag(r[2]))' /\ ~Differs(Lag(r[2]), Port(r[3]), "mtu")'
               /\ Field(Port(r[3]), "tpid")' \in {Blank', "0x8100"}
    BY <1>1, <2>3, <2>4, <2>5, <2>6
  <2> QED  BY <2>7 DEF MembersSettled
<1>3. ASSUME NEW l, NEW p, DelPortchannelMember(l, p) PROVE MembersSettled'
  <2>1. KeysOf("PORTCHANNEL_MEMBER")' \subseteq KeysOf("PORTCHANNEL_MEMBER")
    BY <1>3, DropReads DEF DelPortchannelMember, Become
  <2> QED  BY <1>1, <2>1 DEF MembersSettled, Differs, Blank
<1> QED  BY <1>2, <1>3 DEF LagMemberStep

\* What the roles of ports are read from, and who writes it.
RoleRows == OwnTables \cup {"VLAN_MEMBER", "PORTCHANNEL_MEMBER", "MIRROR_SESSION", "PORT", "PORTCHANNEL"}
MemberTables == {"VLAN_MEMBER", "PORTCHANNEL_MEMBER"}
RolesStay == AddressedIsRouted /\ MastersStay /\ SessionsShape /\ SessionsDiffer /\ MembersSettled

LEMMA RoleTables ==
  /\ OwnTables \subseteq RoleRows /\ MemberTables \subseteq RoleRows
  /\ {"VLAN_MEMBER"} \subseteq RoleRows /\ {"PORTCHANNEL_MEMBER"} \subseteq RoleRows
  /\ {"MIRROR_SESSION"} \subseteq RoleRows /\ {"PORT", "PORTCHANNEL"} \subseteq RoleRows
  /\ MemberTables = {"VLAN_MEMBER", "PORTCHANNEL_MEMBER"}
  BY DEF RoleRows, MemberTables

\* Interfaces come and go, their addresses stay with them.
OwnsStep == AddressStep \/ RoutedStep \/ LinkLocalStep \/ VrfStep \/ BindStep \/ OwnStep \/ ZoneStep

LEMMA RoleWriters ==
  ASSUME BreakoutJobFits, ~BreakoutNext, [Next]_vars
  PROVE  \/ Leaves(RoleRows)
         \/ MemberStep \/ LagMemberStep \/ MirrorStep \/ LagStep \/ PortStep \/ FitStep \/ AsymStep \/ OwnsStep
<1>1. CASE InterfacesNext
  <2>1. ASSUME NEW W, Writes(W), W \in SUBSET (VrfTables \cup VxlanTables \cup {"VLAN", "DHCP_RELAY", "SYSLOG_SERVER", "STATIC_ROUTE"})
        PROVE  Leaves(RoleRows)
    <3>1. W \cap RoleRows = {}
      BY <2>1 DEF RoleRows, OwnTables, VrfTables, VxlanTables
    <3> QED  BY <2>1, <3>1, WritesLeave
  <2>2. CASE VlanStep \/ SyslogStep \/ RouteStep
    BY <2>1, <2>2, VlanWrites, SyslogWrites, RouteWrites
  <2>3. CASE TunnelStep \/ MapStep \/ VniStep
    BY <2>1, <2>3, TunnelWrites, MapWrites, VniWrites DEF VrfTables, VxlanTables
  <2>4. CASE db' = db
    BY <2>1, <2>4, NothingWrites
  <2> QED  BY <1>1, <2>2, <2>3, <2>4, InterfaceSteps DEF OwnsStep
<1>2. CASE BuffersNext
  <2>1. ASSUME NEW W, Writes(W), W \in SUBSET (BufferTables \ {"PORT"}) PROVE Leaves(RoleRows)
    <3>1. W \cap RoleRows = {}
      BY <2>1 DEF RoleRows, OwnTables, BufferTables, QosTables
    <3> QED  BY <2>1, <3>1, WritesLeave
  <2>2. /\ {"BUFFER_PG", "PORT_QOS_MAP"} \subseteq BufferTables \ {"PORT"} /\ {"BUFFER_QUEUE"} \subseteq BufferTables \ {"PORT"}
        /\ {"CABLE_LENGTH"} \subseteq BufferTables \ {"PORT"} /\ {"BUFFER_PROFILE"} \subseteq BufferTables \ {"PORT"}
        /\ {"BUFFER_POOL", "DEFAULT_LOSSLESS_BUFFER_PARAMETER"} \subseteq BufferTables \ {"PORT"}
        /\ (QosTables \cup {"DEVICE_METADATA"}) \subseteq BufferTables \ {"PORT"}
        /\ {"DSCP_TO_FC_MAP"} \subseteq BufferTables \ {"PORT"} /\ {"PORT_QOS_MAP"} \subseteq BufferTables \ {"PORT"}
        /\ {"PFC_WD"} \subseteq BufferTables \ {"PORT"}
    BY DEF BufferTables, QosTables
  <2>3. CASE PgStep \/ QueueStep \/ CableStep \/ ProfileStep
    BY <2>1, <2>2, <2>3, PgWrites, QueueWrites, CableWrites, ProfileWrites
  <2>4. CASE PoolStep \/ QosStep \/ CbfStep \/ PfcStep \/ WatchStep
    BY <2>1, <2>2, <2>4, PoolWrites, QosWrites, CbfWrites, PfcWrites, WatchWrites
  <2> QED  BY <1>2, <2>3, <2>4, BufferSteps
<1>3. CASE ServicesNext
  BY <1>3, ServicesWrite, WritesLeave DEF ServiceTables, PlainTables, MclagTables, RoleRows, OwnTables
<1>4. CASE PoliciesNext
  BY <1>4, PoliciesWrite, WritesLeave DEF PolicyTables, PbhTables, NvgreTables, DropTables, KnobTables, RoleRows, OwnTables
<1>5. CASE vars' = vars
  <2>1. Writes({})
    BY <1>5, NothingWrites DEF vars
  <2> QED  BY <2>1, WritesLeave
<1>6. CASE TrafficNext
  <2>1. CASE AclTableStep \/ RuleStep \/ NatStep \/ GlobalStep
    <3>1. Writes({"ACL_TABLE", "ACL_RULE", "NAT_GLOBAL"} \cup NatTables)
      BY <2>1, AclTableWrites, RuleWrites, NatWrites, GlobalWrites, WritesMore
    <3> QED  BY <3>1, WritesLeave DEF OwnTables, RoleRows, NatTables
  <2> QED  BY <1>6, <2>1, TrafficSteps DEF OwnsStep
<1> QED  BY <1>1, <1>2, <1>3, <1>4, <1>5, <1>6 DEF Next

LEMMA OwnsLeft ==
  ASSUME AddressedIsRouted, Leaves(OwnTables), Leaves({"VLAN_MEMBER"}), Leaves({"PORTCHANNEL_MEMBER"})
  PROVE  AddressedIsRouted'
<1>1. \A i : (Has(Own(i))' <=> Has(Own(i))) /\ AddressRows(i)' = AddressRows(i)
  <2>1. \A i : Table(i) \in OwnTables /\ Own(i)[1] = Table(i)
    BY OwnFacts
  <2>2. \A r : r[1] \in OwnTables => (r \in DOMAIN db' <=> r \in DOMAIN db)
    BY DEF Leaves, Beside, Same
  <2> QED  BY <2>1, <2>2 DEF Has, AddressRows, Rows
<1>2. KeysOf("VLAN_MEMBER")' = KeysOf("VLAN_MEMBER") /\ KeysOf("PORTCHANNEL_MEMBER")' = KeysOf("PORTCHANNEL_MEMBER")
  BY LeavesReads
<1> QED  BY <1>1, <1>2 DEF AddressedIsRouted, InVlan, InLag

LEMMA RolesKeepWhole ==
  ASSUME RolesStay, Leaves(RoleRows)
  PROVE  RolesStay'
<1>1. Leaves(MemberTables) /\ Leaves({"VLAN_MEMBER"}) /\ Leaves({"PORTCHANNEL_MEMBER"}) /\ Leaves({"MIRROR_SESSION"})
  BY RoleTables, LeavesLess
<1>2. MembersSettled'
  <2>1. \A l : Lag(l)[1] \in RoleRows /\ Port(l)[1] \in RoleRows
    BY SettledNames DEF RoleRows
  <2> QED  BY <1>1, <2>1, LeavesReads, SettledKept DEF RolesStay
<1>3. AddressedIsRouted'
  <2>1. Leaves(OwnTables)
    BY RoleTables, LeavesLess
  <2> QED  BY <1>1, <2>1, OwnsLeft DEF RolesStay
<1>4. MastersStay'
  BY <1>1, MastersKeep DEF RolesStay
<1>5. SessionsShape' /\ SessionsDiffer'
  BY <1>1, SessionsStay DEF RolesStay
<1> QED  BY <1>2, <1>3, <1>4, <1>5 DEF RolesStay

\* A step that writes the rows W of tables, of what the roles read.
LEMMA RoleLeaves ==
  ASSUME NEW W, Writes(W)
  PROVE  /\ W \cap MemberTables = {} => Leaves(MemberTables) /\ Leaves({"VLAN_MEMBER"}) /\ Leaves({"PORTCHANNEL_MEMBER"})
         /\ "VLAN_MEMBER" \notin W => Leaves({"VLAN_MEMBER"})
         /\ "PORTCHANNEL_MEMBER" \notin W => Leaves({"PORTCHANNEL_MEMBER"})
         /\ "MIRROR_SESSION" \notin W => Leaves({"MIRROR_SESSION"})
         /\ W \cap OwnTables = {} => Leaves(OwnTables)
         /\ W \cap {"PORT", "PORTCHANNEL"} = {} => Leaves({"PORT", "PORTCHANNEL"})
<1>1. \A t : t \notin W => Leaves({t})
  BY WritesLeave
<1> QED  BY <1>1, WritesLeave DEF MemberTables

\* The interfaces are not what a member of a port channel is checked against.
LEMMA SettledLeft ==
  ASSUME MembersSettled, Leaves({"PORTCHANNEL_MEMBER"}), Leaves({"PORT", "PORTCHANNEL"})
  PROVE  MembersSettled'
  BY LeavesReads, SettledNames, SettledKept

LEMMA OwnsWrites == ASSUME OwnsStep PROVE Writes(VrfTables \cup OwnTables)
<1>1. OwnTables \subseteq VrfTables \cup OwnTables
  OBVIOUS
<1>2. CASE VrfStep
  BY <1>2, VrfWrites
<1>3. CASE AddressStep \/ RoutedStep \/ LinkLocalStep
  BY <1>1, <1>3, WritesMore, AddressWrites, RoutedWrites, LinkLocalWrites
<1>4. CASE BindStep \/ OwnStep \/ ZoneStep
  BY <1>1, <1>4, WritesMore, BindWrites, OwnWrites, ZoneWrites
<1> QED  BY <1>2, <1>3, <1>4 DEF OwnsStep

LEMMA RolesOfOwns ==
  ASSUME RolesStay, OwnsStep
  PROVE  RolesStay'
<1>1. /\ Leaves(MemberTables) /\ Leaves({"VLAN_MEMBER"}) /\ Leaves({"PORTCHANNEL_MEMBER"}) /\ Leaves({"MIRROR_SESSION"})
      /\ Leaves({"PORT", "PORTCHANNEL"})
  BY OwnsWrites, RoleLeaves DEF VrfTables, OwnTables, MemberTables
<1>2. AddressedIsRouted'
  <2>1. CASE OwnsKept
    BY <1>1, <2>1, AddressesKept DEF RolesStay, MemberTables
  <2>2. CASE AddressStep
    BY <1>1, <2>1, <2>2, AddressGoes, AddressComes DEF AddressStep, RolesStay, MemberTables
  <2> QED  BY <2>1, <2>2, LinkLocalKeeps, VrfKeeps, BindKeeps, OwnKeeps DEF OwnsStep
<1> QED  BY <1>1, <1>2, SettledLeft, MastersKeep, SessionsStay DEF RolesStay

LEMMA RolesOfPorts ==
  ASSUME RolesStay, PortStep \/ FitStep \/ AsymStep \/ LagStep
  PROVE  RolesStay'
<1>1. Writes(PortTables)
  BY PortWrites, FitWrites, AsymWrites, LagWrites, WritesMore DEF PortTables
<1>2. Leaves(MemberTables) /\ Leaves({"VLAN_MEMBER"}) /\ Leaves({"PORTCHANNEL_MEMBER"}) /\ Leaves({"MIRROR_SESSION"})
  BY <1>1, RoleLeaves DEF PortTables, MemberTables
<1>3. AddressedIsRouted'
  <2>1. CASE PortStep \/ FitStep \/ AsymStep
    BY <1>2, <2>1, PortKeeps, AddressesKept DEF RolesStay, MemberTables
  <2>2. CASE LagStep
    <3>1. Leaves(OwnTables) /\ Leaves({"VLAN_MEMBER"}) /\ Leaves({"PORTCHANNEL_MEMBER"})
      BY <1>2, <2>2, LagWrites, RoleLeaves DEF OwnTables
    <3> QED  BY <3>1, OwnsLeft DEF RolesStay
  <2> QED  BY <2>1, <2>2
<1>4. MembersSettled'
  BY <1>2, SettledPorts, SettledLags DEF RolesStay
<1> QED  BY <1>2, <1>3, <1>4, MastersKeep, SessionsStay DEF RolesStay

LEMMA RolesOfMembers ==
  ASSUME RolesStay, MemberStep \/ LagMemberStep
  PROVE  RolesStay'
<1>1. Leaves(OwnTables) /\ Leaves({"PORT", "PORTCHANNEL"}) /\ Leaves({"MIRROR_SESSION"})
  <2>1. Writes(MemberTables)
    BY MemberWrites, LagMemberWrites, WritesMore DEF MemberTables
  <2> QED  BY <2>1, RoleLeaves DEF MemberTables, OwnTables
<1>2. MemberStep => Leaves({"PORTCHANNEL_MEMBER"})
  BY MemberWrites, RoleLeaves
<1>3. LagMemberStep => Leaves({"VLAN_MEMBER"})
  BY LagMemberWrites, RoleLeaves
<1>4. AddressedIsRouted'
  BY <1>1, MembersAddressed DEF RolesStay
<1>5. MembersSettled'
  BY <1>1, <1>2, SettledMembers, SettledLeft DEF RolesStay
<1> QED  BY <1>1, <1>2, <1>3, <1>4, <1>5, MastersKeep, SessionsStay DEF RolesStay

LEMMA RolesOfSessions ==
  ASSUME RolesStay, MirrorStep
  PROVE  RolesStay'
<1>1. /\ Leaves(OwnTables) /\ Leaves({"VLAN_MEMBER"}) /\ Leaves({"PORTCHANNEL_MEMBER"})
      /\ Leaves({"PORT", "PORTCHANNEL"})
  BY MirrorWrites, RoleLeaves DEF OwnTables
<1> QED  BY <1>1, OwnsLeft, SettledLeft, MastersKeep, SessionsStay DEF RolesStay

\* Unless ports are broken out, no sequence of commands gives a port, a port channel or a VLAN
\* two uses that exclude each other: each command checks the rows of the other uses before it
\* writes its own, and none of them can be written around another.
THEOREM RolesKept == Spec => [](Unbroken => RolesApart)
<1> DEFINE U == Unbroken => ~Doing("breakout") /\ RolesStay
<1>1. Init => BreakoutJobFits /\ U
  <2> SUFFICES ASSUME Init PROVE BreakoutJobFits /\ U
    OBVIOUS
  <2>1. KeysOf("VLAN_MEMBER") = {} /\ KeysOf("PORTCHANNEL_MEMBER") = {} /\ KeysOf("MIRROR_SESSION") = {}
    BY StartEmpty DEF FoundTables, QosTables
  <2>2. \A t \in OwnTables : KeysOf(t) = {}
    BY StartEmpty DEF FoundTables, QosTables, OwnTables
  <2>3. \A i : AddressRows(i) = {}
    BY <2>2, OwnFacts DEF AddressRows, KeysOf
  <2>4. ~Doing("breakout")
    BY DEF Init, Doing
  <2>5. AddressedIsRouted /\ MastersStay
    BY <2>1, <2>3 DEF AddressedIsRouted, MastersStay, AloneInLag, OnceUntagged, TargetsFree, IsMirrorDst
  <2>6. SessionsShape /\ SessionsDiffer /\ MembersSettled
    BY <2>1 DEF SessionsShape, SessionsDiffer, MembersSettled
  <2> QED  BY <2>4, <2>5, <2>6, BreakoutStart DEF RolesStay
<1>2. BreakoutJobFits /\ U /\ [Next]_vars => BreakoutJobFits' /\ U'
  <2> SUFFICES ASSUME BreakoutJobFits, U, [Next]_vars PROVE BreakoutJobFits' /\ U'
    OBVIOUS
  <2>1. BreakoutJobFits'
    BY BreakoutJobStep
  <2>2. Unbroken' => Unbroken
    <3>1. area' = area
      BY AreaStays
    <3> QED  BY <3>1 DEF Unbroken
  <2>3. ASSUME RolesStay, ~BreakoutNext PROVE RolesStay'
    BY <2>3, RoleWriters, RolesKeepWhole, RolesOfOwns, RolesOfPorts, RolesOfMembers, RolesOfSessions
  <2> QED  BY <2>1, <2>2, <2>3, UnbrokenStep
<1>3. U => (Unbroken => RolesApart)
  BY MastersFit, SettledFits, SessionsFit DEF RolesStay, RolesApart
<1> HIDE DEF U
<1> QED  BY <1>1, <1>2, <1>3, PTL DEF Spec

----------------------------------------------------------------------------
(* What rows name: who writes the rows that others name, and those that      *)
(* name a tunnel, a VLAN, a VRF or the map of a VNI.                        *)

LinkTables == VxlanTables \cup {"VLAN", "VRF", "MGMT_VRF_CONFIG", "SYSLOG_SERVER", "STATIC_ROUTE"}
Maps4 == "VXLAN_TUNNEL_MAP"

LEMMA LinkWriters ==
  ASSUME BreakoutJobFits, [Next]_vars
  PROVE  \/ Leaves(LinkTables)
         \/ VlanStep \/ VrfStep \/ VniStep \/ SyslogStep \/ TunnelStep \/ MapStep \/ RouteStep
<1>1. CASE InterfacesNext
  <2>1. ASSUME NEW W, Writes(W), W \in SUBSET (OwnTables \cup PortTables \cup {"VLAN_MEMBER", "PORTCHANNEL_MEMBER", "MIRROR_SESSION"})
        PROVE  Leaves(LinkTables)
    <3>1. W \cap LinkTables = {}
      BY <2>1 DEF LinkTables, OwnTables, PortTables, VxlanTables
    <3> QED  BY <2>1, <3>1, WritesLeave
  <2>2. CASE MemberStep \/ LagStep \/ LagMemberStep \/ MirrorStep
    <3>1. {"PORTCHANNEL"} \subseteq PortTables
      BY DEF PortTables
    <3> QED  BY <2>1, <2>2, <3>1, MemberWrites, LagWrites, LagMemberWrites, MirrorWrites
  <2>3. CASE PortStep \/ FitStep
    BY <2>1, <2>3, PortWrites, FitWrites
  <2>4. CASE AddressStep \/ RoutedStep \/ LinkLocalStep \/ BindStep \/ OwnStep
    BY <2>1, <2>4, AddressWrites, RoutedWrites, LinkLocalWrites, BindWrites, OwnWrites
  <2>5. CASE db' = db
    <3>1. Writes({})
      BY <2>5, NothingWrites
    <3> QED  BY <2>1, <3>1
  <2> QED  BY <1>1, <2>2, <2>3, <2>4, <2>5, InterfaceSteps
<1>2. CASE BuffersNext
  BY <1>2, BuffersWrite, WritesLeave DEF BufferTables, QosTables, LinkTables, VxlanTables
<1>3. CASE ServicesNext
  BY <1>3, ServicesWrite, WritesLeave DEF ServiceTables, PlainTables, MclagTables, LinkTables, VxlanTables
<1>4. CASE PoliciesNext
  BY <1>4, PoliciesWrite, WritesLeave DEF PolicyTables, PbhTables, NvgreTables, DropTables, KnobTables, LinkTables, VxlanTables
<1>5. CASE TrafficNext
  BY <1>5, TrafficWrite, WritesLeave DEF TrafficTables, NatTables, OwnTables, LinkTables, VxlanTables
<1>6. CASE BreakoutNext
  BY <1>6, BreakoutWrite, WritesLeave DEF BreakoutTables, LinkTables, VxlanTables
<1>7. CASE vars' = vars
  <2>1. Writes({})
    BY <1>7, NothingWrites DEF vars
  <2> QED  BY <2>1, WritesLeave
<1> QED  BY <1>1, <1>2, <1>3, <1>4, <1>5, <1>6, <1>7 DEF Next

\* A map says what its key says, has a VNI and a VLAN of its own, and its tunnel
\* and VLAN are there; so are the tunnel of an NVO and the map of the VNI of a VRF.
MapsShaped == \A r \in KeysOf(Maps4) : db[r].vni = r[3] /\ db[r].vlan = r[4]
MapsUnique == \A r, s \in KeysOf(Maps4) : r # s => r[3] # s[3] /\ r[4] # s[4]
MapsResolve == \A r \in KeysOf(Maps4) : Has(<<"VXLAN_TUNNEL", r[2]>>) /\ Has(<<"VLAN", r[4]>>)
NvosResolve == \A r \in KeysOf("VXLAN_EVPN_NVO") : Has(<<"VXLAN_TUNNEL", db[r].source_vtep>>)
VnisMapped ==
    \A r \in KeysOf("VRF") : "vni" \in DOMAIN db[r] /\ db[r].vni # 0 => \E s \in KeysOf(Maps4) : s[3] = db[r].vni
MapsStay == MapsShaped /\ MapsUnique /\ MapsResolve /\ NvosResolve /\ VnisMapped

\* What leaves the tables that the maps are read from leaves what is said of them.
LEMMA MapRowsLeft ==
  ASSUME Leaves({Maps4})
  PROVE  /\ KeysOf(Maps4)' = KeysOf(Maps4)
         /\ \A r \in KeysOf(Maps4) : db'[r] = db[r]
         /\ MapsShaped => MapsShaped'
         /\ MapsUnique => MapsUnique'
<1>1. KeysOf(Maps4)' = KeysOf(Maps4)
  BY LeavesReads
<1>2. \A r \in KeysOf(Maps4) : r[1] = Maps4 /\ Has(r)
  BY DEF KeysOf, Has, Rows
<1>3. \A r \in KeysOf(Maps4) : db'[r] = db[r]
  BY <1>2, LeavesReads
<1> QED  BY <1>1, <1>3 DEF MapsShaped, MapsUnique

LEMMA VrfRowsLeft ==
  ASSUME Leaves({"VRF"}), VnisMapped, \A s \in KeysOf(Maps4) : s \in KeysOf(Maps4)'
  PROVE  VnisMapped'
<1>1. KeysOf("VRF")' = KeysOf("VRF")
  BY LeavesReads
<1>2. \A r \in KeysOf("VRF") : db'[r] = db[r]
  BY LeavesReads DEF KeysOf, Has, Rows
<1> QED  BY <1>1, <1>2 DEF VnisMapped

LEMMA NvoRowsLeft ==
  ASSUME Leaves({"VXLAN_EVPN_NVO"}), NvosResolve, \A t : Has(<<"VXLAN_TUNNEL", t>>) => Has(<<"VXLAN_TUNNEL", t>>)'
  PROVE  NvosResolve'
<1>1. KeysOf("VXLAN_EVPN_NVO")' = KeysOf("VXLAN_EVPN_NVO")
  BY LeavesReads
<1>2. \A r \in KeysOf("VXLAN_EVPN_NVO") : db'[r] = db[r]
  BY LeavesReads DEF KeysOf, Has, Rows
<1> QED  BY <1>1, <1>2 DEF NvosResolve

LEMMA MapsOfNone == ASSUME MapsStay, Leaves(LinkTables) PROVE MapsStay'
<1>1. Leaves({Maps4}) /\ Leaves({"VRF"}) /\ Leaves({"VXLAN_EVPN_NVO"})
  BY LeavesLess DEF LinkTables, VxlanTables, Maps4
<1>2. \A t : Has(<<"VXLAN_TUNNEL", t>>)' <=> Has(<<"VXLAN_TUNNEL", t>>)
  BY LeavesReads DEF LinkTables, VxlanTables
<1>3. \A v : Has(<<"VLAN", v>>)' <=> Has(<<"VLAN", v>>)
  BY LeavesReads DEF LinkTables, VxlanTables
<1> QED  BY <1>1, <1>2, <1>3, MapRowsLeft, VrfRowsLeft, NvoRowsLeft DEF MapsStay, MapsResolve

LEMMA MapsOfVlans == ASSUME MapsStay, VlanStep PROVE MapsStay'
<1>1. Leaves({Maps4}) /\ Leaves({"VRF"}) /\ Leaves({"VXLAN_EVPN_NVO"}) /\ Leaves({"VXLAN_TUNNEL"})
  BY VlanWrites, WritesLeave DEF Maps4
<1>2. \A t : Has(<<"VXLAN_TUNNEL", t>>)' <=> Has(<<"VXLAN_TUNNEL", t>>)
  BY <1>1, LeavesReads
<1>3. \A r \in KeysOf(Maps4) : Has(<<"VLAN", r[4]>>) => Has(<<"VLAN", r[4]>>)'
  <2>1. PICK v \in Vlans : AddVlan(v) \/ DelVlan(v)
    BY DEF VlanStep
  <2>2. CASE AddVlan(v)
    <3>1. PICK e : db' = Without(SetEntry(db, <<"VLAN", v>>, e), {<<"DHCP_RELAY", v>>})
      BY <2>2 DEF AddVlan, Become
    <3>2. DOMAIN db' = (DOMAIN db \cup {<<"VLAN", v>>}) \ {<<"DHCP_RELAY", v>>}
      BY <3>1 DEF Without, SetEntry, :>, @@
    <3> QED  BY <3>2 DEF Has
  <2>3. CASE DelVlan(v)
    <3>1. DOMAIN db' = DOMAIN db \ {<<"VLAN", v>>, <<"DHCP_RELAY", v>>}
      BY <2>3, WithoutFacts DEF DelVlan, Become
    <3>2. \A r \in KeysOf(Maps4) : r[4] # v
      BY <2>3 DEF DelVlan, MapsStay, MapsShaped, Maps4
    <3> QED  BY <3>1, <3>2 DEF Has
  <2> QED  BY <2>1, <2>2, <2>3
<1> QED  BY <1>1, <1>2, <1>3, MapRowsLeft, VrfRowsLeft, NvoRowsLeft DEF MapsStay, MapsResolve

LEMMA MapsOfTunnels == ASSUME MapsStay, TunnelStep PROVE MapsStay'
<1>1. Leaves({Maps4}) /\ Leaves({"VRF"}) /\ Leaves({"VLAN"})
  BY TunnelWrites, WritesLeave DEF Maps4
<1>2. \A v : Has(<<"VLAN", v>>)' <=> Has(<<"VLAN", v>>)
  BY <1>1, LeavesReads
<1>3. ASSUME NEW t, AddVxlan(t)
      PROVE  (\A u : Has(<<"VXLAN_TUNNEL", u>>) => Has(<<"VXLAN_TUNNEL", u>>)') /\ NvosResolve'
  <2>1. PICK e : db' = SetEntry(db, <<"VXLAN_TUNNEL", t>>, e)
    BY <1>3 DEF AddVxlan, Become
  <2>2. \A u : Has(<<"VXLAN_TUNNEL", u>>) => Has(<<"VXLAN_TUNNEL", u>>)'
    BY <2>1 DEF Has, SetEntry, :>, @@
  <2>3. Leaves({"VXLAN_EVPN_NVO"})
    <3>1. Writes({"VXLAN_TUNNEL"})
      BY <2>1, SetWrites
    <3> QED  BY <3>1, WritesLeave
  <2> QED  BY <2>2, <2>3, NvoRowsLeft DEF MapsStay
<1>4. ASSUME NEW t, DelVxlan(t)
      PROVE  KeysOf(Maps4) = {} /\ NvosResolve'
  <2>1. KeysOf("VXLAN_EVPN_NVO") = {} /\ KeysOf(Maps4) = {} /\ db' = Without(db, {<<"VXLAN_TUNNEL", t>>})
    BY <1>4 DEF DelVxlan, Become, Maps4
  <2>2. KeysOf("VXLAN_EVPN_NVO")' = {}
    BY <2>1, DropReads
  <2> QED  BY <2>1, <2>2 DEF NvosResolve
<1>5. ASSUME NEW o, NEW t, AddNvo(o, t)
      PROVE  (\A u : Has(<<"VXLAN_TUNNEL", u>>) => Has(<<"VXLAN_TUNNEL", u>>)') /\ NvosResolve'
  <2> DEFINE r == <<"VXLAN_EVPN_NVO", o>>
  <2>1. db' = SetEntry(db, r, [source_vtep |-> t]) /\ Has(<<"VXLAN_TUNNEL", t>>)
    BY <1>5 DEF AddNvo, Become
  <2> HIDE DEF r
  <2>2. \A u : Has(<<"VXLAN_TUNNEL", u>>) => Has(<<"VXLAN_TUNNEL", u>>)'
    BY <2>1 DEF Has, SetEntry, :>, @@
  <2>3. KeysOf("VXLAN_EVPN_NVO")' \subseteq KeysOf("VXLAN_EVPN_NVO") \cup {r} /\ db'[r].source_vtep = t
    BY <2>1, SetReads
  <2>4. \A s \in KeysOf("VXLAN_EVPN_NVO") : s # r => db'[s] = db[s]
    BY <2>1, SetReads DEF KeysOf, Rows, Has
  <2> QED  BY <2>1, <2>2, <2>3, <2>4 DEF NvosResolve, MapsStay
<1>6. ASSUME NEW o, DelNvo(o)
      PROVE  (\A u : Has(<<"VXLAN_TUNNEL", u>>) => Has(<<"VXLAN_TUNNEL", u>>)') /\ NvosResolve'
  <2>1. db' = Without(db, {<<"VXLAN_EVPN_NVO", o>>})
    BY <1>6 DEF DelNvo, Become
  <2>2. \A u : Has(<<"VXLAN_TUNNEL", u>>) => Has(<<"VXLAN_TUNNEL", u>>)'
    BY <2>1, WithoutFacts DEF Has
  <2>3. KeysOf("VXLAN_EVPN_NVO")' = KeysOf("VXLAN_EVPN_NVO") \ {<<"VXLAN_EVPN_NVO", o>>}
    BY <2>1, DropReads
  <2>4. \A s \in KeysOf("VXLAN_EVPN_NVO")' : db'[s] = db[s]
    BY <2>1 DEF Without, KeysOf, Rows
  <2> QED  BY <2>2, <2>3, <2>4 DEF NvosResolve, MapsStay
<1>7. NvosResolve' /\ (KeysOf(Maps4) = {} \/ \A u : Has(<<"VXLAN_TUNNEL", u>>) => Has(<<"VXLAN_TUNNEL", u>>)')
  BY <1>3, <1>4, <1>5, <1>6 DEF TunnelStep
<1>8. MapsResolve'
  BY <1>1, <1>2, <1>7, MapRowsLeft DEF MapsStay, MapsResolve
<1> QED  BY <1>1, <1>7, <1>8, MapRowsLeft, VrfRowsLeft DEF MapsStay

\* The maps that a command adds are not there yet, and neither is another of their VNI or VLAN.
LEMMA MapComes ==
  ASSUME MapsStay, NEW new,
         \A r \in DOMAIN new : new[r].vni = r[3] /\ new[r].vlan = r[4] /\ r[1] = Maps4
                              /\ Has(<<"VXLAN_TUNNEL", r[2]>>) /\ Has(<<"VLAN", r[4]>>) /\ ~Mapped(r[3], r[4]),
         \A r, s \in DOMAIN new : r # s => r[3] # s[3] /\ r[4] # s[4],
         db' = new @@ db
  PROVE  MapsStay'
<1>1. DOMAIN db' = DOMAIN new \cup DOMAIN db
  BY MergeFacts
<1>2. (\A r \in DOMAIN new : db'[r] = new[r]) /\ \A r \in DOMAIN db \ DOMAIN new : db'[r] = db[r]
  BY DEF @@
<1>3. KeysOf(Maps4)' = KeysOf(Maps4) \cup DOMAIN new
  BY <1>1 DEF KeysOf, Rows
<1>4. \A r \in DOMAIN new, s \in KeysOf(Maps4) : s[3] # r[3] /\ s[4] # r[4]
  BY DEF MapsStay, MapsShaped, Mapped, Maps4
<1>5. \A r \in KeysOf(Maps4) : r \in DOMAIN db \ DOMAIN new
  BY <1>4 DEF KeysOf, Rows
<1>6. \A r : Has(r) => Has(r)'
  BY <1>1 DEF Has
<1>7. Leaves({"VRF"}) /\ Leaves({"VXLAN_EVPN_NVO"})
  <2>1. Writes({Maps4})
    BY OverWrites
  <2> QED  BY <2>1, WritesLeave DEF Maps4
<1>8. MapsShaped'
  BY <1>2, <1>3, <1>5 DEF MapsStay, MapsShaped
<1>9. MapsUnique'
  BY <1>3, <1>4 DEF MapsStay, MapsUnique
<1>10. MapsResolve'
  BY <1>3, <1>6 DEF MapsStay, MapsResolve
<1> QED  BY <1>3, <1>6, <1>7, <1>8, <1>9, <1>10, VrfRowsLeft, NvoRowsLeft DEF MapsStay

LEMMA MapGoes ==
  ASSUME MapsStay, NEW S, \A r \in S : r[1] = Maps4 /\ ~VniInVrf(r[3]), db' = Without(db, S)
  PROVE  MapsStay'
<1>1. KeysOf(Maps4)' = KeysOf(Maps4) \ S /\ \A r \in KeysOf(Maps4)' : db'[r] = db[r]
  BY DropReads DEF KeysOf, Rows, Has
<1>2. Leaves({"VRF"}) /\ Leaves({"VXLAN_EVPN_NVO"}) /\ Leaves({"VXLAN_TUNNEL"}) /\ Leaves({"VLAN"})
  <2>1. Writes({Maps4})
    BY DropWrites
  <2> QED  BY <2>1, WritesLeave DEF Maps4
<1>3. \A t : (Has(<<"VXLAN_TUNNEL", t>>)' <=> Has(<<"VXLAN_TUNNEL", t>>)) /\ (Has(<<"VLAN", t>>)' <=> Has(<<"VLAN", t>>))
  BY <1>2, LeavesReads
<1>4. VnisMapped'
  <2>1. KeysOf("VRF")' = KeysOf("VRF")
    BY <1>2, LeavesReads
  <2>2. \A r \in KeysOf("VRF") : db'[r] = db[r]
    BY <1>2, LeavesReads DEF KeysOf, Has, Rows
  <2>3. \A r \in KeysOf("VRF"), s \in S : "vni" \in DOMAIN db[r] => s[3] # db[r].vni
    BY DEF VniInVrf
  <2> QED  BY <1>1, <2>1, <2>2, <2>3 DEF MapsStay, VnisMapped
<1> QED  BY <1>1, <1>2, <1>3, <1>4, NvoRowsLeft DEF MapsStay, MapsShaped, MapsUnique, MapsResolve

LEMMA MapNames ==
  /\ \A t, n, v : /\ MapRow(t, n, v)[1] = Maps4 /\ MapRow(t, n, v)[2] = t
                  /\ MapRow(t, n, v)[3] = n /\ MapRow(t, n, v)[4] = v
  BY DEF MapRow, Maps4

\* The maps of a range: VLANs one after the other, VNIs as many.
LEMMA RangeApart ==
  ASSUME NEW v \in Vlans, NEW n \in Vnis, NEW m \in MapRange(v, n, 2), NEW k \in MapRange(v, n, 2), m # k
  PROVE  m[1] # k[1] /\ m[2] # k[2]
<1>1. PICK w \in Vlans : m = <<Vid[w] - Vid[v] + n, w>>
  BY DEF MapRange
<1>2. PICK x \in Vlans : k = <<Vid[x] - Vid[v] + n, x>>
  BY DEF MapRange
<1>3. n \in Int /\ Vid[w] \in Int /\ Vid[x] \in Int /\ Vid[v] \in Int
  BY NumbersAssumption
<1>4. w # x /\ Vid[w] # Vid[x]
  BY <1>1, <1>2, NumbersAssumption
<1>5. \A a, b, c, d \in Int : a # b => a - c + d # b - c + d
  OBVIOUS
<1>6. m[1] = Vid[w] - Vid[v] + n /\ k[1] = Vid[x] - Vid[v] + n /\ m[2] = w /\ k[2] = x
  BY <1>1, <1>2
<1> HIDE DEF MapRange
<1> QED  BY <1>3, <1>4, <1>5, <1>6

LEMMA MapsOfMaps == ASSUME MapsStay, MapStep PROVE MapsStay'
<1>1. ASSUME NEW t, NEW v, NEW n, AddVxlanMap(t, v, n) PROVE MapsStay'
  <2> DEFINE r == MapRow(t, n, v)
             new == r :> [vni |-> n, vlan |-> v]
  <2>1. db' = new @@ db /\ Has(<<"VXLAN_TUNNEL", t>>) /\ Has(<<"VLAN", v>>) /\ ~Mapped(n, v)
    BY <1>1 DEF AddVxlanMap, Become, SetEntry
  <2>2. DOMAIN new = {r} /\ new[r].vni = n /\ new[r].vlan = v
    BY DEF :>
  <2>3. r[1] = Maps4 /\ r[2] = t /\ r[3] = n /\ r[4] = v
    BY MapNames
  <2> HIDE DEF r, new
  <2> QED  BY <2>1, <2>2, <2>3, MapComes
<1>2. ASSUME NEW t, NEW v \in Vlans, NEW n \in Vnis, AddVxlanMapRange(t, v, n, 2) PROVE MapsStay'
  <2> DEFINE ms == {m \in MapRange(v, n, 2) : Has(<<"VLAN", m[2]>>) /\ ~Mapped(m[1], m[2])}
             new == [r \in {MapRow(t, m[1], m[2]) : m \in ms} |-> [vni |-> r[3], vlan |-> r[4]]]
  <2>1. db' = new @@ db /\ Has(<<"VXLAN_TUNNEL", t>>)
    BY <1>2 DEF AddVxlanMapRange, Become
  <2>2. DOMAIN new = {MapRow(t, m[1], m[2]) : m \in ms} /\ \A r \in DOMAIN new : new[r].vni = r[3] /\ new[r].vlan = r[4]
    OBVIOUS
  <2>3. ASSUME NEW r \in DOMAIN new PROVE r[1] = Maps4 /\ r[2] = t /\ Has(<<"VLAN", r[4]>>) /\ ~Mapped(r[3], r[4])
    <3>1. PICK m \in ms : r = MapRow(t, m[1], m[2])
      BY <2>2
    <3> QED  BY <3>1, MapNames
  <2>4. ASSUME NEW r \in DOMAIN new, NEW s \in DOMAIN new, r # s PROVE r[3] # s[3] /\ r[4] # s[4]
    <3>1. PICK m \in ms : r = MapRow(t, m[1], m[2])
      BY <2>2
    <3>2. PICK k \in ms : s = MapRow(t, k[1], k[2])
      BY <2>2
    <3>3. m \in MapRange(v, n, 2) /\ k \in MapRange(v, n, 2) /\ m # k
      BY <2>4, <3>1, <3>2
    <3>4. m[1] # k[1] /\ m[2] # k[2]
      BY <3>3, RangeApart
    <3> QED  BY <3>1, <3>2, <3>4, MapNames
  <2> HIDE DEF new, ms
  <2> QED  BY <2>1, <2>2, <2>3, <2>4, MapComes
<1>3. ASSUME NEW t, NEW v, NEW n, DelVxlanMap(t, v, n) PROVE MapsStay'
  <2> DEFINE S == {MapRow(t, n, v)}
  <2>1. db' = Without(db, S) /\ ~VniInVrf(n)
    BY <1>3 DEF DelVxlanMap, Become
  <2>2. \A r \in S : r[1] = Maps4 /\ r[3] = n
    BY MapNames
  <2> HIDE DEF S
  <2> QED  BY <2>1, <2>2, MapGoes
<1>4. ASSUME NEW t, NEW v, NEW n, DelVxlanMapRange(t, v, n, 2) PROVE MapsStay'
  <2> DEFINE S == {MapRow(t, m[1], m[2]) : m \in {x \in MapRange(v, n, 2) : ~VniInVrf(x[1])}}
  <2>1. db' = Without(db, S)
    BY <1>4 DEF DelVxlanMapRange, Become
  <2>2. \A r \in S : r[1] = Maps4 /\ ~VniInVrf(r[3])
    BY MapNames
  <2> HIDE DEF S
  <2> QED  BY <2>1, <2>2, MapGoes
<1> QED  BY <1>1, <1>2, <1>3, <1>4 DEF MapStep

LEMMA MapsOfVrfs == ASSUME MapsStay, VrfStep \/ VniStep PROVE MapsStay'
<1>1. Leaves(VxlanTables) /\ Leaves({"VLAN"})
  <2>1. Writes(VrfTables \cup OwnTables)
    BY VrfWrites, VniWrites, WritesMore DEF VrfTables
  <2> QED  BY <2>1, WritesLeave DEF VrfTables, OwnTables, VxlanTables
<1>2. Leaves({Maps4}) /\ Leaves({"VXLAN_EVPN_NVO"})
  BY <1>1, LeavesLess DEF VxlanTables, Maps4
<1>3. \A t : (Has(<<"VXLAN_TUNNEL", t>>)' <=> Has(<<"VXLAN_TUNNEL", t>>)) /\ (Has(<<"VLAN", t>>)' <=> Has(<<"VLAN", t>>))
  BY <1>1, LeavesReads DEF VxlanTables
<1>4. KeysOf(Maps4)' = KeysOf(Maps4)
  BY <1>2, LeavesReads
<1>5. VnisMapped'
  <2>1. ASSUME NEW v, NEW n, n = 0 \/ \E s \in KeysOf(Maps4) : s[3] = n, db' = ModEntry(db, <<"VRF", v>>, [vni |-> n])
        PROVE  VnisMapped'
    <3> DEFINE r == <<"VRF", v>>
    <3>1. db' = ModEntry(db, r, [vni |-> n])
      BY <2>1
    <3> HIDE DEF r
    <3>2. KeysOf("VRF")' \subseteq KeysOf("VRF") \cup {r}
      BY <3>1, ModReads
    <3>3. \A s \in KeysOf("VRF") : s # r => db'[s] = db[s]
      BY <3>1, ModReads DEF KeysOf, Rows, Has
    <3>4. db'[r].vni = n
      BY <3>1 DEF ModEntry, :>, @@
    <3> QED  BY <1>4, <2>1, <3>2, <3>3, <3>4 DEF VnisMapped, MapsStay
  <2>2. ASSUME NEW v, NEW n, AddVrfVniMap(v, n) PROVE VnisMapped'
    <3>1. \E s \in KeysOf(Maps4) : s[3] = n
      BY <2>2 DEF AddVrfVniMap, MapsStay, MapsShaped, Maps4
    <3>2. db' = ModEntry(db, <<"VRF", v>>, [vni |-> n])
      BY <2>2 DEF AddVrfVniMap, Become
    <3> QED  BY <2>1, <3>1, <3>2
  <2>3. ASSUME NEW v, DelVrfVniMap(v) PROVE VnisMapped'
    BY <2>1, <2>3 DEF DelVrfVniMap, Become
  <2>4. ASSUME NEW v, AddVrf(v) PROVE VnisMapped'
    <3>1. CASE db' = ModEntry(db, MgmtVrf, [mgmtVrfEnabled |-> "true"])
      <4>1. Leaves({"VRF"})
        <5>1. Writes({"MGMT_VRF_CONFIG"})
          BY <3>1, ModWrites DEF MgmtVrf
        <5> QED  BY <5>1, WritesLeave
      <4> QED  BY <1>4, <4>1, VrfRowsLeft DEF MapsStay
    <3>2. CASE db' = SetEntry(db, <<"VRF", v>>, NoFields)
      <4> DEFINE r == <<"VRF", v>>
      <4>1. db' = SetEntry(db, r, NoFields)
        BY <3>2
      <4> HIDE DEF r
      <4>2. KeysOf("VRF")' \subseteq KeysOf("VRF") \cup {r} /\ db'[r] = NoFields
        BY <4>1, SetReads
      <4>3. \A s \in KeysOf("VRF") : s # r => db'[s] = db[s]
        BY <4>1, SetReads DEF KeysOf, Rows, Has
      <4> QED  BY <1>4, <4>2, <4>3, NoFieldsFact DEF VnisMapped, MapsStay
    <3> QED  BY <2>4, <3>1, <3>2 DEF AddVrf, Become
  <2>5. ASSUME NEW v, DelVrf(v) PROVE VnisMapped'
    <3>1. CASE db' = ModEntry(db, MgmtVrf, [mgmtVrfEnabled |-> "false"])
      <4>1. Leaves({"VRF"})
        <5>1. Writes({"MGMT_VRF_CONFIG"})
          BY <3>1, ModWrites DEF MgmtVrf
        <5> QED  BY <5>1, WritesLeave
      <4> QED  BY <1>4, <4>1, VrfRowsLeft DEF MapsStay
    <3>2. ASSUME NEW S, db' = Without(db, S) PROVE VnisMapped'
      <4>1. KeysOf("VRF")' = KeysOf("VRF") \ S /\ \A s \in KeysOf("VRF")' : db'[s] = db[s]
        BY <3>2, DropReads DEF KeysOf, Rows, Has
      <4> QED  BY <1>4, <4>1 DEF VnisMapped, MapsStay
    <3> QED  BY <2>5, <3>1, <3>2 DEF DelVrf, Become
  <2> QED  BY <2>2, <2>3, <2>4, <2>5 DEF VrfStep, VniStep
<1>6. MapsResolve'
  BY <1>2, <1>3, MapRowsLeft DEF MapsStay, MapsResolve
<1> QED  BY <1>2, <1>3, <1>5, <1>6, MapRowsLeft, NvoRowsLeft DEF MapsStay

LEMMA MapsOfOthers == ASSUME MapsStay, SyslogStep \/ RouteStep PROVE MapsStay'
<1>1. Leaves({Maps4}) /\ Leaves({"VRF"}) /\ Leaves({"VXLAN_EVPN_NVO"}) /\ Leaves({"VXLAN_TUNNEL"}) /\ Leaves({"VLAN"})
  BY SyslogWrites, RouteWrites, WritesLeave DEF Maps4
<1>2. \A t : (Has(<<"VXLAN_TUNNEL", t>>)' <=> Has(<<"VXLAN_TUNNEL", t>>)) /\ (Has(<<"VLAN", t>>)' <=> Has(<<"VLAN", t>>))
  BY <1>1, LeavesReads
<1> QED  BY <1>1, <1>2, MapRowsLeft, VrfRowsLeft, NvoRowsLeft DEF MapsStay, MapsResolve

LEMMA MapsKeep ==
  ASSUME BreakoutJobFits, MapsStay, [Next]_vars
  PROVE  MapsStay'
  BY LinkWriters, MapsOfNone, MapsOfVlans, MapsOfTunnels, MapsOfMaps, MapsOfVrfs, MapsOfOthers

----------------------------------------------------------------------------
(* The VRFs of syslog servers.                                             *)

SyslogVrf(r) == Field(r, "vrf") \in {Blank, "default"} \/ VrfExists(Field(r, "vrf"))
SyslogStay == \A r \in KeysOf("SYSLOG_SERVER") : SyslogVrf(r)

LEMMA SyslogFits == ASSUME SyslogStay
  PROVE \A r \in KeysOf("SYSLOG_SERVER") : Field(r, "vrf") \in {"", "default"} \/ VrfExists(Field(r, "vrf"))
  BY Zenon DEF SyslogStay, SyslogVrf, Blank

\* A server keeps its VRF if its row stays and VRFs do not go.
LEMMA SyslogLeft ==
  ASSUME SyslogStay, Leaves({"SYSLOG_SERVER"}), \A v : VrfExists(v) => VrfExists(v)' \/ \A r \in KeysOf("SYSLOG_SERVER") : Field(r, "vrf") # v
  PROVE  SyslogStay'
<1>1. KeysOf("SYSLOG_SERVER")' = KeysOf("SYSLOG_SERVER") /\ \A r \in KeysOf("SYSLOG_SERVER") : Field(r, "vrf")' = Field(r, "vrf")
  BY LeavesReads DEF KeysOf
<1> QED  BY <1>1 DEF SyslogStay, SyslogVrf

LEMMA VrfsLeft ==
  ASSUME Leaves({"VRF"}), Leaves({"MGMT_VRF_CONFIG"})
  PROVE  \A v : VrfExists(v)' <=> VrfExists(v)
<1>1. MgmtVrf[1] = "MGMT_VRF_CONFIG"
  BY DEF MgmtVrf
<1>2. Field(MgmtVrf, "mgmtVrfEnabled")' = Field(MgmtVrf, "mgmtVrfEnabled")
  BY <1>1, LeavesReads
<1>3. \A v : Has(<<"VRF", v>>)' <=> Has(<<"VRF", v>>)
  BY LeavesReads
<1> QED  BY <1>2, <1>3 DEF VrfExists, MgmtVrfEnabled

\* A VRF comes, or one goes that no server names.
LEMMA VrfsChange ==
  ASSUME VrfStep \/ VniStep
  PROVE  \A v : VrfExists(v) => VrfExists(v)' \/ \A r \in KeysOf("SYSLOG_SERVER") : Field(r, "vrf") # v
<1>0. MgmtVrf[1] = "MGMT_VRF_CONFIG" /\ \A v : <<"VRF", v>> # MgmtVrf
  BY DEF MgmtVrf
<1>1. ASSUME NEW x, NEW e, db' = SetEntry(db, <<"VRF", x>>, e) \/ db' = ModEntry(db, <<"VRF", x>>, e)
      PROVE  \A v : VrfExists(v) => VrfExists(v)'
  <2>1. \A v : Has(<<"VRF", v>>) => Has(<<"VRF", v>>)'
    BY <1>1 DEF Has, SetEntry, ModEntry, :>, @@
  <2>2. Leaves({"MGMT_VRF_CONFIG"})
    <3>1. Writes({"VRF"})
      BY <1>1, SetWrites, ModWrites
    <3> QED  BY <3>1, WritesLeave
  <2>3. Field(MgmtVrf, "mgmtVrfEnabled")' = Field(MgmtVrf, "mgmtVrfEnabled")
    BY <1>0, <2>2, LeavesReads
  <2> QED  BY <2>1, <2>3 DEF VrfExists, MgmtVrfEnabled
<1>2. ASSUME NEW x, db' = ModEntry(db, MgmtVrf, [mgmtVrfEnabled |-> x])
      PROVE  \A v : VrfExists(v) => VrfExists(v)' \/ (v = "mgmt" /\ x # "true")
  <2>1. \A v : Has(<<"VRF", v>>) => Has(<<"VRF", v>>)'
    BY <1>2 DEF Has, ModEntry, :>, @@
  <2>2. Field(MgmtVrf, "mgmtVrfEnabled")' = x
    BY <1>2, ModReads
  <2> QED  BY <2>1, <2>2 DEF VrfExists, MgmtVrfEnabled
<1>3. ASSUME NEW v, AddVrf(v) PROVE \A w : VrfExists(w) => VrfExists(w)'
  <2>1. db' = ModEntry(db, MgmtVrf, [mgmtVrfEnabled |-> "true"]) \/ db' = SetEntry(db, <<"VRF", v>>, NoFields)
    BY <1>3 DEF AddVrf, Become
  <2> QED  BY <1>1, <1>2, <2>1
<1>4. ASSUME NEW v, DelVrf(v)
      PROVE  \A w : VrfExists(w) => VrfExists(w)' \/ \A r \in KeysOf("SYSLOG_SERVER") : Field(r, "vrf") # w
  <2>1. \A r \in KeysOf("SYSLOG_SERVER") : Field(r, "vrf") # v
    BY <1>4 DEF DelVrf
  <2>2. CASE v = "mgmt"
    <3>1. db' = ModEntry(db, MgmtVrf, [mgmtVrfEnabled |-> "false"])
      BY <1>4, <2>2 DEF DelVrf, Become
    <3> QED  BY <1>2, <2>1, <2>2, <3>1
  <2>3. CASE v # "mgmt"
    <3> DEFINE S == {<<"VRF", v>>} \cup {Own(i) : i \in BoundTo(v)} \cup UNION {AddressRows(i) : i \in BoundTo(v)}
    <3>1. db' = Without(db, S)
      BY <1>4, <2>3 DEF DelVrf, Become
    <3>2. \A r \in S : r = <<"VRF", v>> \/ r[1] \in OwnTables
      BY OwnFacts
    <3>3. MgmtVrf \notin S /\ \A w : w # v => <<"VRF", w>> \notin S
      BY <1>0, <3>2 DEF OwnTables
    <3> HIDE DEF S
    <3>4. \A w : w # v => (Has(<<"VRF", w>>) => Has(<<"VRF", w>>)')
      BY <3>1, <3>3, DropReads
    <3>5. Field(MgmtVrf, "mgmtVrfEnabled")' = Field(MgmtVrf, "mgmtVrfEnabled")
      BY <3>1, <3>3, DropReads
    <3> QED  BY <2>1, <3>4, <3>5 DEF VrfExists, MgmtVrfEnabled
  <2> QED  BY <2>2, <2>3
<1>5. CASE VniStep
  <2>1. \E v, n : db' = ModEntry(db, <<"VRF", v>>, [vni |-> n])
    BY <1>5 DEF VniStep, DelVrfVniMap, AddVrfVniMap, Become
  <2> QED  BY <1>1, <2>1
<1> QED  BY <1>3, <1>4, <1>5 DEF VrfStep

LEMMA SyslogOfSyslog == ASSUME SyslogStay, SyslogStep PROVE SyslogStay'
<1>1. \A v : VrfExists(v)' <=> VrfExists(v)
  BY SyslogWrites, WritesLeave, VrfsLeft
<1>2. ASSUME NEW s, NEW v, AddSyslog(s, v) PROVE SyslogStay'
  <2> DEFINE r == <<"SYSLOG_SERVER", s>>
  <2>1. v \in {Blank, "default"} \/ VrfExists(v)
    BY <1>2, Zenon DEF AddSyslog, Blank
  <2>2. (v = Blank /\ db' = SetEntry(db, r, NoFields)) \/ db' = SetEntry(db, r, [vrf |-> v])
    BY <1>2, Zenon DEF AddSyslog, Become, Blank
  <2> HIDE DEF r
  <2>3. Field(r, "vrf")' = v
    BY ONLY <2>2, SetReads, NoFieldsFact
  <2>4. SyslogVrf(r)'
    BY <1>1, <2>1, <2>3 DEF SyslogVrf
  <2>5. KeysOf("SYSLOG_SERVER")' \subseteq KeysOf("SYSLOG_SERVER") \cup {r} /\ \A x : x # r => Field(x, "vrf")' = Field(x, "vrf")
    BY ONLY <2>2, SetReads
  <2> QED  BY <1>1, <2>4, <2>5 DEF SyslogStay, SyslogVrf
<1>3. ASSUME NEW s, DelSyslog(s) PROVE SyslogStay'
  <2> DEFINE S == {<<"SYSLOG_SERVER", s>>}
  <2>1. db' = Without(db, S)
    BY <1>3 DEF DelSyslog, Become
  <2> HIDE DEF S
  <2>2. KeysOf("SYSLOG_SERVER")' = KeysOf("SYSLOG_SERVER") \ S /\ \A x : x \notin S => Field(x, "vrf")' = Field(x, "vrf")
    BY <2>1, DropReads
  <2> QED  BY <1>1, <2>2 DEF SyslogStay, SyslogVrf
<1> QED  BY <1>2, <1>3 DEF SyslogStep

LEMMA SyslogKeeps ==
  ASSUME BreakoutJobFits, SyslogStay, [Next]_vars
  PROVE  SyslogStay'
<1>1. CASE Leaves(LinkTables)
  <2>1. Leaves({"VRF"}) /\ Leaves({"MGMT_VRF_CONFIG"}) /\ Leaves({"SYSLOG_SERVER"})
    BY <1>1, LeavesLess DEF LinkTables
  <2> QED  BY <2>1, VrfsLeft, SyslogLeft
<1>2. CASE VlanStep \/ TunnelStep \/ MapStep \/ RouteStep
  <2>1. Leaves({"VRF"}) /\ Leaves({"MGMT_VRF_CONFIG"}) /\ Leaves({"SYSLOG_SERVER"})
    BY <1>2, VlanWrites, TunnelWrites, MapWrites, RouteWrites, WritesLeave
  <2> QED  BY <2>1, VrfsLeft, SyslogLeft
<1>3. CASE VrfStep \/ VniStep
  <2>1. Leaves({"SYSLOG_SERVER"})
    BY <1>3, VrfWrites, VniWrites, WritesLeave DEF VrfTables, OwnTables
  <2> QED  BY <1>3, <2>1, VrfsChange, SyslogLeft
<1> QED  BY <1>1, <1>2, <1>3, LinkWriters, SyslogOfSyslog

----------------------------------------------------------------------------
(* Static routes: lists of one length.                                     *)

RouteWords == Hops \cup Ports \cup Vrfs \cup {Blank, "null", "0", "true", "false"}
Leads(row, k) == row.nexthop[k] # Blank \/ row.ifname[k] # Blank \/ row.blackhole[k] = "true"
Aligned(row, n) == (\A f \in Lists : row[f] \in Seq(RouteWords) /\ Len(row[f]) = n) /\ \A k \in 1 .. n : Leads(row, k)
RoutesStay == \A r \in KeysOf("STATIC_ROUTE") : \E n \in Nat \ {0} : Aligned(db[r], n)

LEMMA ListNames ==
  /\ "nexthop" \in Lists /\ "ifname" \in Lists /\ "blackhole" \in Lists /\ "distance" \in Lists /\ "nexthop-vrf" \in Lists
  /\ Lists = {"nexthop", "nexthop-vrf", "ifname", "distance", "blackhole"}
  BY DEF Lists

LEMMA RoutesAreAligned == ASSUME RoutesStay PROVE RoutesAligned
<1> SUFFICES ASSUME NEW r \in KeysOf("STATIC_ROUTE")
             PROVE  /\ \A f, g \in Lists : Len(db[r][f]) = Len(db[r][g])
                    /\ \E k \in DOMAIN db[r].nexthop : Leads(db[r], k)
  BY Zenon DEF RoutesAligned, Leads, Blank
<1>1. PICK n \in Nat \ {0} : Aligned(db[r], n)
  BY DEF RoutesStay
<1>2. db[r].nexthop \in Seq(RouteWords) /\ Len(db[r].nexthop) = n /\ Leads(db[r], 1)
  BY <1>1, ListNames DEF Aligned
<1>3. 1 \in DOMAIN db[r].nexthop
  BY <1>2
<1> QED  BY <1>1, <1>2, <1>3 DEF Aligned

\* NewRoute without the empty string.
RouteOf(hops, v, dev) ==
    LET n == IF hops = <<>> THEN 1 ELSE Len(hops)
    IN  [nexthop |-> IF hops = <<>> THEN <<Blank>> ELSE hops,
         ifname |-> IF hops = <<>> THEN <<dev>> ELSE Repeat(Blank, n),
         distance |-> Repeat("0", n),
         blackhole |-> Repeat(IF dev = "null" THEN "true" ELSE "false", n)]
        @@ ("nexthop-vrf" :> Repeat(v, n))

LEMMA NewRouteIs == ASSUME NEW hops, NEW v, NEW dev PROVE NewRoute(hops, v, dev) = RouteOf(hops, v, dev)
  BY Zenon DEF NewRoute, RouteOf, Blank

LEMMA RepeatIs ==
  ASSUME NEW x \in RouteWords, NEW n \in Nat
  PROVE  Repeat(x, n) \in Seq(RouteWords) /\ Len(Repeat(x, n)) = n /\ \A k \in 1 .. n : Repeat(x, n)[k] = x
  BY DEF Repeat

\* Sequences of words, as the provers see them.
LEMMA JoinIs ==
  ASSUME NEW W, NEW s \in Seq(W), NEW t \in Seq(W)
  PROVE  /\ s \o t \in Seq(W) /\ Len(s \o t) = Len(s) + Len(t)
         /\ \A k \in 1 .. Len(s) : (s \o t)[k] = s[k]
         /\ \A k \in 1 .. Len(s) + Len(t) : ~(k <= Len(s)) => (s \o t)[k] = t[k - Len(s)]
  OBVIOUS

LEMMA ListIs ==
  ASSUME NEW W, NEW n \in Nat, NEW s, s = [k \in 1 .. n |-> s[k]], \A k \in 1 .. n : s[k] \in W
  PROVE  s \in Seq(W) /\ Len(s) = n
  OBVIOUS

LEMMA SeqLess ==
  ASSUME NEW V, NEW W, V \subseteq W, NEW s \in Seq(V)
  PROVE  s \in Seq(W)
  OBVIOUS

LEMMA HopListIs ==
  ASSUME NEW hops \in HopLists
  PROVE  hops \in Seq(Hops) /\ hops # <<>> /\ Len(hops) \in Nat \ {0} /\ \A k \in 1 .. Len(hops) : hops[k] \in Hops
<1>1. CASE \E h \in Hops : hops = <<h>>
  BY <1>1
<1>2. CASE \E h, g \in Hops : hops = <<h, g>>
  BY <1>2
<1> QED  BY <1>1, <1>2 DEF HopLists

LEMMA RouteFields ==
  ASSUME NEW a, NEW b, NEW c, NEW d, NEW e
  PROVE  LET row == [nexthop |-> a, ifname |-> b, distance |-> c, blackhole |-> d] @@ ("nexthop-vrf" :> e)
         IN  /\ row.nexthop = a /\ row.ifname = b /\ row.distance = c /\ row.blackhole = d /\ row["nexthop-vrf"] = e
  BY DEF :>, @@

LEMMA NextHopRoute ==
  ASSUME NEW hops \in HopLists, NEW v \in Vrfs \cup {Blank}
  PROVE  \E n \in Nat \ {0} : Aligned(RouteOf(hops, v, Blank), n)
<1> DEFINE n == Len(hops)
           row == RouteOf(hops, v, Blank)
<1>1. hops \in Seq(Hops) /\ hops # <<>> /\ n \in Nat \ {0} /\ \A k \in 1 .. n : hops[k] \in Hops
  BY HopListIs
<1>2. PICK x \in {"true", "false"} :
        row = [nexthop |-> hops, ifname |-> Repeat(Blank, n), distance |-> Repeat("0", n), blackhole |-> Repeat(x, n)]
                 @@ ("nexthop-vrf" :> Repeat(v, n))
  <2>1. hops # <<>>
    BY <1>1
  <2> HIDE <1>1
  <2> QED  BY <2>1 DEF RouteOf
<1>3. /\ row.nexthop = hops /\ row.ifname = Repeat(Blank, n) /\ row.distance = Repeat("0", n) /\ row.blackhole = Repeat(x, n)
      /\ row["nexthop-vrf"] = Repeat(v, n)
  BY ONLY <1>2, RouteFields
<1> HIDE DEF row
<1>4. Hops \subseteq RouteWords /\ v \in RouteWords /\ x \in RouteWords /\ "0" \in RouteWords /\ Blank \in RouteWords
  BY DEF RouteWords
<1>5. hops \in Seq(RouteWords)
  BY <1>1, <1>4, SeqLess
<1>6. ASSUME NEW f \in Lists PROVE row[f] \in Seq(RouteWords) /\ Len(row[f]) = n
  <2>1. \A w \in RouteWords : Repeat(w, n) \in Seq(RouteWords) /\ Len(Repeat(w, n)) = n
    BY <1>1, RepeatIs
  <2>2. row[f] = hops \/ \E w \in RouteWords : row[f] = Repeat(w, n)
    BY <1>3, <1>4, ListNames
  <2> QED  BY <1>5, <2>1, <2>2
<1>7. \A h \in Hops : h # Blank
  BY Zenon, NumbersAssumption DEF Blank
<1>8. \A k \in 1 .. n : Leads(row, k)
  BY <1>1, <1>3, <1>7 DEF Leads
<1>9. Aligned(row, n)
  BY <1>6, <1>8 DEF Aligned
<1> QED  BY <1>1, <1>9 DEF row

LEMMA DeviceRoute ==
  ASSUME NEW dev \in Ports \cup {"null"}
  PROVE  \E n \in Nat \ {0} : Aligned(RouteOf(<<>>, Blank, dev), n)
<1> DEFINE row == RouteOf(<<>>, Blank, dev)
           x == IF dev = "null" THEN "true" ELSE "false"
<1>2. row = [nexthop |-> <<Blank>>, ifname |-> <<dev>>, distance |-> Repeat("0", 1), blackhole |-> Repeat(x, 1)]
                @@ ("nexthop-vrf" :> Repeat(Blank, 1))
  BY DEF RouteOf
<1>3. /\ row.nexthop = <<Blank>> /\ row.ifname = <<dev>> /\ row.distance = Repeat("0", 1) /\ row.blackhole = Repeat(x, 1)
      /\ row["nexthop-vrf"] = Repeat(Blank, 1)
  BY ONLY <1>2, RouteFields
<1>4. dev \in RouteWords /\ x \in RouteWords /\ "0" \in RouteWords /\ Blank \in RouteWords
  BY DEF RouteWords
<1>5. \A w \in RouteWords : <<w>> \in Seq(RouteWords) /\ Len(<<w>>) = 1
  OBVIOUS
<1>6. dev # Blank \/ x = "true"
  <2>1. Blank \notin Ports
    BY Zenon, NamesAssumption DEF Blank
  <2> QED  BY <2>1
<1> HIDE DEF row, x
<1>7. ASSUME NEW f \in Lists PROVE row[f] \in Seq(RouteWords) /\ Len(row[f]) = 1
  <2>1. \A w \in RouteWords : Repeat(w, 1) \in Seq(RouteWords) /\ Len(Repeat(w, 1)) = 1
    BY RepeatIs
  <2>2. \E w \in RouteWords : row[f] = <<w>> \/ row[f] = Repeat(w, 1)
    BY <1>3, <1>4, ListNames
  <2> QED  BY <1>5, <2>1, <2>2
<1>8. \A k \in 1 .. 1 : Leads(row, k)
  <2>1. row.ifname[1] = dev /\ row.blackhole[1] = x
    BY <1>3, <1>4, RepeatIs
  <2> QED  BY <1>6, <2>1 DEF Leads
<1>9. Aligned(row, 1)
  BY <1>7, <1>8 DEF Aligned
<1> QED  BY <1>9 DEF row

\* Lists of the same lengths stay so when they are joined, or cut at one place.
LEMMA AlignedJoin ==
  ASSUME NEW row, NEW new, NEW n \in Nat \ {0}, NEW m \in Nat \ {0}, Aligned(row, n), Aligned(new, m)
  PROVE  \E k \in Nat \ {0} : Aligned([f \in Lists |-> row[f] \o new[f]], k)
<1> DEFINE j == [f \in Lists |-> row[f] \o new[f]]
<1>1. \A f \in Lists : j[f] = row[f] \o new[f]
  OBVIOUS
<1>2. \A f \in Lists : row[f] \in Seq(RouteWords) /\ Len(row[f]) = n /\ new[f] \in Seq(RouteWords) /\ Len(new[f]) = m
  BY DEF Aligned
<1> HIDE DEF j
<1>3. ASSUME NEW f \in Lists
      PROVE  /\ j[f] \in Seq(RouteWords) /\ Len(j[f]) = n + m
             /\ \A k \in 1 .. n : j[f][k] = row[f][k]
             /\ \A k \in 1 .. n + m : ~(k <= n) => j[f][k] = new[f][k - n]
  <2>1. j[f] = row[f] \o new[f]
    BY <1>1
  <2>2. row[f] \in Seq(RouteWords) /\ Len(row[f]) = n /\ new[f] \in Seq(RouteWords) /\ Len(new[f]) = m
    BY <1>2
  <2>3. PICK s \in Seq(RouteWords), t \in Seq(RouteWords) : s = row[f] /\ t = new[f]
    BY <2>2
  <2>4. /\ s \o t \in Seq(RouteWords) /\ Len(s \o t) = Len(s) + Len(t)
        /\ \A k \in 1 .. Len(s) : (s \o t)[k] = s[k]
        /\ \A k \in 1 .. Len(s) + Len(t) : ~(k <= Len(s)) => (s \o t)[k] = t[k - Len(s)]
    BY JoinIs
  <2>5. j[f] = s \o t /\ Len(s) = n /\ Len(t) = m
    BY <2>1, <2>2, <2>3
  <2> QED  BY ONLY <2>3, <2>4, <2>5
<1>4. ASSUME NEW k \in 1 .. n + m PROVE Leads(j, k)
  <2>1. CASE k <= n
    <3>1. \A f \in Lists : j[f][k] = row[f][k]
      BY <1>3, <2>1
    <3>2. Leads(row, k)
      BY <2>1 DEF Aligned
    <3> QED  BY <3>1, <3>2, ListNames DEF Leads
  <2>2. CASE ~(k <= n)
    <3>1. \A f \in Lists : j[f][k] = new[f][k - n]
      BY <1>3, <2>2
    <3>2. Leads(new, k - n)
      BY <2>2 DEF Aligned
    <3> QED  BY <3>1, <3>2, ListNames DEF Leads
  <2> QED  BY <2>1, <2>2
<1>5. n + m \in Nat \ {0}
  OBVIOUS
<1> QED  BY <1>3, <1>4, <1>5 DEF Aligned, j

LEMMA AlignedCut ==
  ASSUME NEW row, NEW n \in Nat \ {0}, NEW k, Aligned(row, n), n # 1
  PROVE  \E m \in Nat \ {0} : Aligned([f \in Lists |-> CutAt(row[f], k)], m)
<1> DEFINE c == [f \in Lists |-> CutAt(row[f], k)]
           at(j) == IF j < k THEN j ELSE j + 1
<1>2. \A f \in Lists : row[f] \in Seq(RouteWords) /\ Len(row[f]) = n
  BY DEF Aligned
<1>1. \A f \in Lists : c[f] = [j \in 1 .. n - 1 |-> row[f][at(j)]]
  BY <1>2 DEF CutAt
<1>3. n - 1 \in Nat \ {0}
  OBVIOUS
<1>4. \A j \in 1 .. n - 1 : at(j) \in 1 .. n
  OBVIOUS
<1> HIDE DEF c, at
<1>5. \A f \in Lists, j \in 1 .. n - 1 : row[f][at(j)] \in RouteWords
  BY <1>2, <1>4
<1>6. ASSUME NEW f \in Lists PROVE c[f] \in Seq(RouteWords) /\ Len(c[f]) = n - 1
  <2>1. \A j \in 1 .. n - 1 : c[f][j] = row[f][at(j)]
    BY <1>1
  <2>2. c[f] = [j \in 1 .. n - 1 |-> c[f][j]]
    BY <1>1
  <2>3. \A j \in 1 .. n - 1 : c[f][j] \in RouteWords
    BY <1>5, <2>1
  <2> QED  BY <1>3, <2>2, <2>3, ListIs
<1>7. ASSUME NEW j \in 1 .. n - 1 PROVE Leads(c, j)
  <2>1. \A f \in Lists : c[f][j] = row[f][at(j)]
    BY <1>1
  <2>2. Leads(row, at(j))
    BY <1>4 DEF Aligned
  <2> QED  BY <2>1, <2>2, ListNames DEF Leads
<1> QED  BY <1>3, <1>6, <1>7 DEF Aligned, c

\* A route is added to what there is, taken out, or goes.
LEMMA RoutesOfRoute == ASSUME RoutesStay, RouteStep PROVE RoutesStay'
<1>1. ASSUME NEW v, NEW p, NEW e,
             \E n \in Nat \ {0} : Aligned(e, n),
             db' = SetEntry(db, RouteRow(v, p), e)
      PROVE  RoutesStay'
  <2> DEFINE r == RouteRow(v, p)
  <2>1. db' = SetEntry(db, r, e)
    BY <1>1
  <2> HIDE DEF r
  <2>2. KeysOf("STATIC_ROUTE")' \subseteq KeysOf("STATIC_ROUTE") \cup {r} /\ db'[r] = e
    BY <2>1, SetReads
  <2>3. \A s \in KeysOf("STATIC_ROUTE") : s # r => db'[s] = db[s]
    BY <2>1, SetReads DEF KeysOf, Rows, Has
  <2> QED  BY <1>1, <2>2, <2>3 DEF RoutesStay
<1>2. ASSUME NEW S, db' = Without(db, S) PROVE RoutesStay'
  <2>1. KeysOf("STATIC_ROUTE")' \subseteq KeysOf("STATIC_ROUTE") /\ \A s \in KeysOf("STATIC_ROUTE")' : db'[s] = db[s]
    BY <1>2, DropReads DEF KeysOf, Rows, Has
  <2> QED  BY <2>1 DEF RoutesStay
<1>3. ASSUME NEW v, NEW p, Has(RouteRow(v, p)) PROVE \E n \in Nat \ {0} : Aligned(db[RouteRow(v, p)], n)
  <2>1. RouteRow(v, p) \in KeysOf("STATIC_ROUTE")
    BY <1>3 DEF RouteRow, KeysOf, Rows, Has
  <2> QED  BY <2>1 DEF RoutesStay
<1>4. ASSUME NEW v, NEW p, NEW new, \E n \in Nat \ {0} : Aligned(new, n), AddRouteOver(RouteRow(v, p), new)
      PROVE  RoutesStay'
  <2>1. CASE ~Has(RouteRow(v, p))
    <3>1. db' = SetEntry(db, RouteRow(v, p), new)
      BY <1>4, <2>1 DEF AddRouteOver, Become
    <3> QED  BY <1>1, <1>4, <3>1
  <2>2. CASE Has(RouteRow(v, p))
    <3> DEFINE row == db[RouteRow(v, p)]
               e == [f \in Lists |-> row[f] \o new[f]]
    <3>1. db' = SetEntry(db, RouteRow(v, p), e)
      BY <1>4, <2>2 DEF AddRouteOver, Become
    <3>2. \E n \in Nat \ {0} : Aligned(e, n)
      BY <1>3, <1>4, <2>2, AlignedJoin
    <3> HIDE DEF e
    <3> QED  BY <1>1, <3>1, <3>2
  <2> QED  BY <2>1, <2>2
<1>5. ASSUME NEW v, NEW p, NEW hops \in HopLists, NEW w \in Vrfs \cup {Blank}, NEW x, x = Blank, AddRoute(v, p, hops, w, x)
      PROVE  RoutesStay'
  <2>1. AddRouteOver(RouteRow(v, p), RouteOf(hops, w, Blank))
    BY <1>5, NewRouteIs DEF AddRoute
  <2> QED  BY <1>4, <2>1, NextHopRoute
<1>6. ASSUME NEW p, NEW dev \in Ports \cup {"null"}, NEW x, x = Blank, AddRoute("default", p, <<>>, x, dev)
      PROVE  RoutesStay'
  <2>1. AddRouteOver(RouteRow("default", p), RouteOf(<<>>, Blank, dev))
    BY <1>6, NewRouteIs DEF AddRoute
  <2> QED  BY <1>4, <2>1, DeviceRoute
<1>7. ASSUME NEW v, NEW p, DelRoute(v, p) PROVE RoutesStay'
  BY <1>2, <1>7 DEF DelRoute, Become
<1>8. ASSUME NEW v, NEW p, NEW hop, NEW w, NEW dev, DelHop(v, p, hop, w, dev) PROVE RoutesStay'
  <2> DEFINE row == Entry(RouteRow(v, p))
             left(k) == [f \in Lists |-> CutAt(row[f], k)]
             bare(s) == s = <<>> \/ s = <<Blank>>
  <2> DEFINE at == {k \in DOMAIN row.nexthop :
                      <<row.nexthop[k], row["nexthop-vrf"][k], row.ifname[k]>> = <<hop, w, dev>>}
             last == CHOOSE j \in at : \A o \in at : j <= o
  <2>1. db' = IF bare(left(last).nexthop) /\ bare(left(last).ifname) THEN Without(db, {RouteRow(v, p)})
              ELSE SetEntry(db, RouteRow(v, p), left(last))
    BY <1>8, Zenon DEF DelHop, Become, Blank
  <2>2. Has(RouteRow(v, p)) /\ row = db[RouteRow(v, p)]
    BY <1>8 DEF DelHop, Entry
  <2>3. PICK n \in Nat \ {0} : Aligned(row, n)
    BY <1>3, <2>2
  <2>4. ASSUME NEW k, n = 1 PROVE left(k).nexthop = <<>> /\ left(k).ifname = <<>>
    <3>1. \A f \in Lists : Len(row[f]) - 1 = 0
      BY <2>3, <2>4 DEF Aligned
    <3>2. ASSUME NEW s, Len(s) - 1 = 0 PROVE CutAt(s, k) = <<>>
      <4>1. CutAt(s, k) = [j \in 1 .. 0 |-> IF j < k THEN s[j] ELSE s[j + 1]]
        BY <3>2 DEF CutAt
      <4>2. 1 .. 0 = {}
        OBVIOUS
      <4> QED  BY <4>1, <4>2
    <3> QED  BY <3>1, <3>2, ListNames
  <2>5. ASSUME NEW k, n # 1 PROVE \E m \in Nat \ {0} : Aligned(left(k), m)
    BY <2>3, <2>5, AlignedCut
  <2>6. PICK k : \/ db' = Without(db, {RouteRow(v, p)})
                 \/ ~(bare(left(k).nexthop) /\ bare(left(k).ifname)) /\ db' = SetEntry(db, RouteRow(v, p), left(k))
    <3> HIDE DEF last, left, bare
    <3> QED  BY <2>1
  <2>7. CASE db' = Without(db, {RouteRow(v, p)})
    BY <1>2, <2>7
  <2>8. CASE n # 1 /\ db' = SetEntry(db, RouteRow(v, p), left(k))
    <3>1. \E m \in Nat \ {0} : Aligned(left(k), m)
      BY <2>5, <2>8
    <3> HIDE DEF left
    <3> QED  BY <1>1, <2>8, <3>1
  <2> QED  BY <2>4, <2>6, <2>7, <2>8
<1> QED  BY <1>5, <1>6, <1>7, <1>8, Zenon DEF RouteStep, Blank

LEMMA RoutesKeep ==
  ASSUME BreakoutJobFits, RoutesStay, [Next]_vars
  PROVE  RoutesStay'
<1>1. ASSUME Leaves({"STATIC_ROUTE"}) PROVE RoutesStay'
  <2>1. KeysOf("STATIC_ROUTE")' = KeysOf("STATIC_ROUTE") /\ \A r \in KeysOf("STATIC_ROUTE") : db'[r] = db[r]
    BY <1>1, LeavesReads DEF KeysOf, Rows, Has
  <2> QED  BY <2>1 DEF RoutesStay
<1>2. CASE Leaves(LinkTables)
  BY <1>1, <1>2, LeavesLess DEF LinkTables
<1>3. CASE VlanStep \/ VrfStep \/ VniStep \/ SyslogStep \/ TunnelStep \/ MapStep
  <2>1. Leaves({"STATIC_ROUTE"})
    BY <1>3, VlanWrites, VrfWrites, VniWrites, SyslogWrites, TunnelWrites, MapWrites, WritesLeave DEF VrfTables, OwnTables
  <2> QED  BY <1>1, <2>1
<1> QED  BY <1>2, <1>3, LinkWriters, RoutesOfRoute

----------------------------------------------------------------------------
(* The VRFs of interfaces.  Only bind gives an interface a VRF.            *)

VrfOf(e) == IF "vrf_name" \in DOMAIN e THEN e.vrf_name ELSE Blank
RowTame(r, e) == VrfOf(e) = Blank \/ (r \in DOMAIN db /\ VrfOf(e) = VrfOf(db[r]))
OfInterface(r) == \E i : r[1] = Table(i) /\ r[2] = i
OwnsTame ==
    \A r \in DOMAIN db' : r[1] \in OwnTables => (r \in DOMAIN db \/ OfInterface(r)) /\ RowTame(r, db'[r])

LEMMA OwnIsNamed ==
  /\ \A i : OfInterface(Own(i)) /\ \A a : OfInterface(Address(i, a))
  /\ \A r : RowTame(r, NoFields) /\ (r \in DOMAIN db => RowTame(r, db[r]))
<1>1. \A i : Own(i)[1] = Table(i) /\ Own(i)[2] = i /\ \A a : Address(i, a)[1] = Table(i) /\ Address(i, a)[2] = i
  BY DEF Own, Address
<1> QED  BY <1>1, NoFieldsFact DEF OfInterface, RowTame, VrfOf

LEMMA TameMerge ==
  ASSUME NEW g, db' = g @@ db,
         \A r \in DOMAIN g : r[1] \in OwnTables => (r \in DOMAIN db \/ OfInterface(r)) /\ RowTame(r, g[r])
  PROVE  OwnsTame
<1>1. DOMAIN db' = DOMAIN g \cup DOMAIN db
  BY MergeFacts
<1>2. (\A r \in DOMAIN g : db'[r] = g[r]) /\ \A r \in DOMAIN db \ DOMAIN g : db'[r] = db[r]
  BY DEF @@
<1> QED  BY <1>1, <1>2, OwnIsNamed DEF OwnsTame

LEMMA TameSet ==
  ASSUME NEW r, NEW f, db' = SetEntry(db, r, f), "vrf_name" \notin DOMAIN f, OfInterface(r) \/ r[1] \notin OwnTables
  PROVE  OwnsTame
<1> DEFINE g == r :> f
<1>1. db' = g @@ db
  BY DEF SetEntry
<1>2. DOMAIN g = {r} /\ g[r] = f
  BY DEF :>
<1>3. RowTame(r, f)
  BY DEF RowTame, VrfOf
<1> HIDE DEF g
<1> QED  BY <1>1, <1>2, <1>3, TameMerge

LEMMA TameMod ==
  ASSUME NEW r, NEW f, db' = ModEntry(db, r, f), "vrf_name" \notin DOMAIN f, OfInterface(r) \/ r[1] \notin OwnTables
  PROVE  OwnsTame
<1> DEFINE e == f @@ (IF r \in DOMAIN db THEN db[r] ELSE NoFields)
           g == r :> e
<1>1. db' = g @@ db
  BY DEF ModEntry
<1>2. DOMAIN g = {r} /\ g[r] = e
  BY DEF :>
<1>3. RowTame(r, e)
  <2>1. CASE r \in DOMAIN db
    BY <2>1 DEF RowTame, VrfOf, @@
  <2>2. CASE r \notin DOMAIN db
    BY <2>2, NoFieldsFact DEF RowTame, VrfOf, @@
  <2> QED  BY <2>1, <2>2
<1> HIDE DEF g, e
<1> QED  BY <1>1, <1>2, <1>3, TameMerge

LEMMA TameLess ==
  ASSUME NEW S, db' = Without(db, S)
  PROVE  OwnsTame
<1>1. DOMAIN db' = DOMAIN db \ S /\ \A r \in DOMAIN db' : db'[r] = db[r]
  BY DEF Without
<1> QED  BY <1>1, OwnIsNamed DEF OwnsTame

LEMMA TameLeft == ASSUME Leaves(OwnTables) PROVE OwnsTame
<1>1. \A r : r[1] \in OwnTables => (r \in DOMAIN db' <=> r \in DOMAIN db) /\ (r \in DOMAIN db => db'[r] = db[r])
  BY DEF Leaves, Beside, Same
<1> QED  BY <1>1, OwnIsNamed DEF OwnsTame

LEMMA TameAddresses == ASSUME AddressStep PROVE OwnsTame
<1>1. ASSUME NEW i, NEW a, IpAdd(i, a) PROVE OwnsTame
  <2>1. CASE Entry(Own(i)) # NoFields
    <3>1. db' = SetEntry(db, Address(i, a), NoFields)
      BY <1>1, <2>1 DEF IpAdd, Become
    <3> QED  BY <3>1, TameSet, NoFieldsFact, OwnIsNamed
  <2>2. CASE Entry(Own(i)) = NoFields
    <3>1. PICK f \in {NoFields, [admin_status |-> "up"]} : db' = SetEntry(SetEntry(db, Own(i), f), Address(i, a), NoFields)
      BY <1>1, <2>2 DEF IpAdd, Become
    <3> DEFINE e == SetEntry(db, Own(i), f)
    <3>2. DOMAIN e = DOMAIN db \cup {Own(i)} /\ e[Own(i)] = f /\ \A r \in DOMAIN db : r # Own(i) => e[r] = db[r]
      BY DEF SetEntry, :>, @@
    <3>3. db' = SetEntry(e, Address(i, a), NoFields)
      BY <3>1
    <3> HIDE DEF e
    <3>4. /\ DOMAIN db' = DOMAIN e \cup {Address(i, a)} /\ db'[Address(i, a)] = NoFields
          /\ \A r \in DOMAIN e : r # Address(i, a) => db'[r] = e[r]
      BY <3>3 DEF SetEntry, :>, @@
    <3>5. \A r : RowTame(r, f)
      BY NoFieldsFact DEF RowTame, VrfOf
    <3> QED  BY <3>2, <3>4, <3>5, OwnIsNamed DEF OwnsTame
  <2> QED  BY <2>1, <2>2
<1>2. ASSUME NEW i, NEW a, IpRemove(i, a) PROVE OwnsTame
  <2>1. \E S : db' = Without(db, S)
    BY <1>2 DEF IpRemove, Become
  <2> QED  BY <2>1, TameLess
<1> QED  BY <1>1, <1>2 DEF AddressStep

LEMMA TameLinkLocal == ASSUME LinkLocalStep PROVE OwnsTame
<1> DEFINE on == [ipv6_use_link_local_only |-> "enable"]
           off == [ipv6_use_link_local_only |-> "disable"]
<1>1. ASSUME NEW r, NEW e, e \in {on, off}, NEW d PROVE VrfOf(e @@ d) = VrfOf(d)
  BY <1>1 DEF VrfOf, @@
<1>2. ASSUME NEW i, EnableLinkLocalOnly(i) PROVE OwnsTame
  <2>1. db' = ModEntry(db, Own(i), on)
    BY <1>2 DEF EnableLinkLocalOnly, LinkLocalOn, Become
  <2> QED  BY <2>1, TameMod, OwnIsNamed
<1>3. ASSUME NEW i, DisableLinkLocalOnly(i) PROVE OwnsTame
  <2>1. db' = ModEntry(db, Own(i), off) \/ \E S : db' = Without(db, S)
    BY <1>3 DEF DisableLinkLocalOnly, LinkLocalOff, Become
  <2> QED  BY <2>1, TameMod, TameLess, OwnIsNamed
<1>4. CASE EnableLinkLocal
  <2>1. PICK all : db' = [r \in {Own(i) : i \in all} |-> on @@ Entry(r)] @@ db
    BY <1>4 DEF EnableLinkLocal, Become
  <2> DEFINE g == [r \in {Own(i) : i \in all} |-> on @@ Entry(r)]
  <2>2. \A r \in DOMAIN g : OfInterface(r)
    BY OwnIsNamed
  <2>3. \A r \in DOMAIN g : RowTame(r, g[r])
    <3>1. \A r \in DOMAIN g : VrfOf(g[r]) = VrfOf(Entry(r))
      BY <1>1
    <3>2. \A r : RowTame(r, Entry(r))
      BY OwnIsNamed DEF Entry, Has
    <3> HIDE DEF g
    <3> QED  BY <3>1, <3>2 DEF RowTame
  <2>4. db' = g @@ db
    BY <2>1
  <2> HIDE DEF g
  <2> QED  BY <2>2, <2>3, <2>4, TameMerge
<1>5. CASE DisableLinkLocal
  <2>1. PICK all, D : db' = [r \in {x \in Rows : x \in D} |-> IF \E i \in all : r = Own(i) THEN off @@ db[r] ELSE db[r]]
    <3>1. PICK all, each : db' = [r \in {x \in Rows : \A i \in all : x \in DOMAIN each[i]} |->
                                    IF \E i \in all : r = Own(i) THEN off @@ db[r] ELSE db[r]]
      BY <1>5 DEF DisableLinkLocal, Become
    <3> DEFINE D == {x \in Rows : \A i \in all : x \in DOMAIN each[i]}
    <3>2. {x \in Rows : \A i \in all : x \in DOMAIN each[i]} = {x \in Rows : x \in D}
      OBVIOUS
    <3> HIDE DEF D
    <3> QED  BY <3>1, <3>2
  <2>2. DOMAIN db' \subseteq DOMAIN db /\ \A r \in DOMAIN db' : db'[r] = db[r] \/ db'[r] = off @@ db[r]
    BY <2>1 DEF Rows
  <2>3. \A r \in DOMAIN db' : VrfOf(db'[r]) = VrfOf(db[r])
    BY <1>1, <2>2
  <2> QED  BY <2>2, <2>3 DEF OwnsTame, RowTame
<1> QED  BY <1>2, <1>3, <1>4, <1>5 DEF LinkLocalStep

LEMMA TameOwns == ASSUME OwnStep \/ RoutedStep \/ ZoneStep PROVE OwnsTame
<1>1. ASSUME NEW i, AddLoopback(i) PROVE OwnsTame
  BY <1>1, TameSet, NoFieldsFact, OwnIsNamed DEF AddLoopback, Become
<1>2. ASSUME NEW s, NEW vid, AddSub(s, vid) PROVE OwnsTame
  <2>1. \/ db' = SetEntry(db, Own(s), [admin_status |-> "up"])
        \/ db' = SetEntry(db, Own(s), [vlan |-> vid, admin_status |-> "up"])
    BY <1>2, Zenon DEF AddSub, Become
  <2> QED  BY <2>1, TameSet, OwnIsNamed
<1>3. ASSUME NEW i, DelLoopback(i) \/ DelSub(i) PROVE OwnsTame
  BY <1>3, TameLess DEF DelLoopback, DelSub, Become
<1>4. ASSUME NEW i, NEW x, ProxyArp(i, x) \/ LoopbackAction(i, x) \/ NatZone(i, x) PROVE OwnsTame
  <2>1. PICK f \in {[proxy_arp |-> x], [loopback_action |-> x], [nat_zone |-> x]} : db' = ModEntry(db, Own(i), f)
    BY <1>4 DEF ProxyArp, LoopbackAction, NatZone, Become
  <2>2. "vrf_name" \notin DOMAIN f
    OBVIOUS
  <2> QED  BY <2>1, <2>2, TameMod, OwnIsNamed
<1>5. ASSUME NEW i, NEW x, Mpls(i, x) PROVE OwnsTame
  <2>1. db' = SetEntry(db, Own(i), [mpls |-> x])
    BY <1>5 DEF Mpls, Become
  <2> QED  BY <2>1, TameSet, OwnIsNamed
<1>6. CASE RemoveNatInterfaces
  <2> DEFINE g == [r \in {Own(i) : i \in Routed \ Subs} \cap Rows |-> [nat_zone |-> "0"]]
  <2>1. db' = g @@ db
    BY <1>6 DEF RemoveNatInterfaces, Become
  <2>2. \A r \in DOMAIN g : OfInterface(r) /\ RowTame(r, g[r])
    BY OwnIsNamed DEF RowTame, VrfOf
  <2> HIDE DEF g
  <2> QED  BY <2>1, <2>2, TameMerge
<1> QED  BY <1>1, <1>2, <1>3, <1>4, <1>5, <1>6 DEF OwnStep, RoutedStep, ZoneStep

----------------------------------------------------------------------------
(* What a breakout plans: which rows are there after each of its writes.   *)

Written(D, load) == DOMAIN load.set \cup (D \ load.gone)
\* A plan gives no interface a VRF, and writes no mode.
LoadTame(load) ==
    \A r \in DOMAIN load.set :
        r[1] # "BREAKOUT_CFG" /\ (r[1] = "INTERFACE" => "vrf_name" \notin DOMAIN load.set[r])

LEMMA WrittenIs ==
  ASSUME NEW d, NEW load
  PROVE  /\ DOMAIN WriteConfigDB(d, load) = Written(DOMAIN d, load)
         /\ \A r \in DOMAIN load.set : WriteConfigDB(d, load)[r] = load.set[r] @@ (IF r \in DOMAIN d THEN d[r] ELSE NoFields)
         /\ \A r \in Written(DOMAIN d, load) \ DOMAIN load.set : r \in DOMAIN d /\ WriteConfigDB(d, load)[r] = d[r]
<1> DEFINE g == [r \in DOMAIN load.set |-> load.set[r] @@ (IF r \in DOMAIN d THEN d[r] ELSE NoFields)]
           e == Without(d, load.gone)
<1>1. WriteConfigDB(d, load) = g @@ e
  BY DEF WriteConfigDB
<1>2. DOMAIN e = DOMAIN d \ load.gone /\ \A r \in DOMAIN e : e[r] = d[r]
  BY DEF Without
<1>3. DOMAIN g = DOMAIN load.set /\ \A r \in DOMAIN load.set : g[r] = load.set[r] @@ (IF r \in DOMAIN d THEN d[r] ELSE NoFields)
  OBVIOUS
<1> HIDE DEF g, e
<1>4. DOMAIN (g @@ e) = DOMAIN g \cup DOMAIN e /\ (\A r \in DOMAIN g : (g @@ e)[r] = g[r]) /\ \A r \in DOMAIN e \ DOMAIN g : (g @@ e)[r] = e[r]
  BY DEF @@
<1> QED  BY <1>1, <1>2, <1>3, <1>4 DEF Written

LEMMA PlanIs ==
  ASSUME NEW d, NEW e
  PROVE  /\ Written(DOMAIN d, CreateConfigToLoad(d, e)) = DOMAIN e
         /\ \A r \in DOMAIN CreateConfigToLoad(d, e).set :
              /\ r \in DOMAIN e /\ (r \in DOMAIN d => e[r] # d[r])
              /\ \A f \in DOMAIN CreateConfigToLoad(d, e).set[r] :
                   /\ f \in DOMAIN e[r]
                   /\ r \in DOMAIN d /\ f \in DOMAIN d[r] => d[r][f] # e[r][f]
<1> DEFINE old(r) == IF r \in DOMAIN d THEN d[r] ELSE NoFields
           new(r) == {f \in DOMAIN e[r] : f \notin DOMAIN old(r) \/ old(r)[f] # e[r][f]}
           set == [r \in {x \in DOMAIN e : x \notin DOMAIN d \/ new(x) # {}} |-> [f \in new(r) |-> e[r][f]]]
<1>1. CreateConfigToLoad(d, e).gone = DOMAIN d \ DOMAIN e /\ CreateConfigToLoad(d, e).set = set
  BY DEF CreateConfigToLoad
<1>2. DOMAIN set \subseteq DOMAIN e /\ DOMAIN e \ DOMAIN d \subseteq DOMAIN set
  OBVIOUS
<1>3. \A r \in DOMAIN set : DOMAIN set[r] = new(r)
  OBVIOUS
<1>4. \A r : r \in DOMAIN d => old(r) = d[r]
  OBVIOUS
<1>5. \A r : \A f \in new(r) : f \in DOMAIN e[r] /\ (r \in DOMAIN d /\ f \in DOMAIN d[r] => d[r][f] # e[r][f])
  OBVIOUS
<1>6. \A r \in DOMAIN set : r \in DOMAIN d => e[r] # d[r]
  BY <1>4
<1> HIDE DEF set, new, old
<1> QED  BY <1>1, <1>2, <1>3, <1>5, <1>6 DEF Written

LEMMA DeleteTame ==
  ASSUME NEW d, NEW ports
  PROVE  LoadTame(CreateConfigToLoad(d, DeletePorts(d, ports)))
<1> DEFINE e == DeletePorts(d, ports)
<1>1. \A r \in DOMAIN e : r \in DOMAIN d /\ (r[1] \in {"INTERFACE", "BREAKOUT_CFG"} => e[r] = d[r])
  BY DEF DeletePorts
<1> HIDE DEF e
<1> QED  BY <1>1, PlanIs DEF LoadTame, e

LEMMA AddIs ==
  ASSUME NEW d, NEW speeds, NEW load
  PROVE  /\ {<<"PORT", q>> : q \in DOMAIN speeds} \subseteq DOMAIN AddPorts(d, speeds, load)
         /\ DOMAIN d \subseteq DOMAIN AddPorts(d, speeds, load)
         /\ \A r \in DOMAIN AddPorts(d, speeds, load) :
              \/ r \in DOMAIN d \/ \E q \in DOMAIN speeds : r = <<"PORT", q>>
              \/ r[1] \in {"VLAN_MEMBER", "PORTCHANNEL_MEMBER", "INTERFACE", "ACL_TABLE"}
         /\ \A r \in DOMAIN AddPorts(d, speeds, load) :
              r[1] = "BREAKOUT_CFG" => r \in DOMAIN d /\ AddPorts(d, speeds, load)[r] = d[r]
         /\ \A r \in DOMAIN AddPorts(d, speeds, load) :
              r[1] = "INTERFACE" =>
                 \/ "vrf_name" \notin DOMAIN AddPorts(d, speeds, load)[r]
                 \/ /\ r \in DOMAIN d /\ "vrf_name" \in DOMAIN d[r]
                    /\ AddPorts(d, speeds, load)[r].vrf_name = d[r].vrf_name
<1> DEFINE ports == [r \in {<<"PORT", q>> : q \in DOMAIN speeds} |-> [speed |-> speeds[r[2]]]]
           e == IF load THEN GetDefaultConfig(DOMAIN speeds) ELSE NoFields
           c == ports @@ d
           g == [r \in DOMAIN e |-> IF r \in DOMAIN c /\ r[1] = "ACL_TABLE"
                                    THEN [c[r] EXCEPT !.ports = @ \cup e[r].ports]
                                    ELSE IF r \in DOMAIN c THEN c[r] @@ e[r] ELSE e[r]]
<1>1. AddPorts(d, speeds, load) = g @@ c
  BY DEF AddPorts, MergeConfigs
<1>2. DOMAIN ports = {<<"PORT", q>> : q \in DOMAIN speeds} /\ \A r \in DOMAIN ports : r[1] = "PORT"
  OBVIOUS
<1>3. \A r \in DOMAIN e : /\ r[1] \in {"VLAN_MEMBER", "PORTCHANNEL_MEMBER", "INTERFACE", "ACL_TABLE"}
                          /\ r[1] = "INTERFACE" => "vrf_name" \notin DOMAIN e[r]
  <2>1. \A r \in DOMAIN GetDefaultConfig(DOMAIN speeds) :
          /\ r \in DOMAIN BreakoutDefaults
          /\ r[1] \in {"VLAN_MEMBER", "PORTCHANNEL_MEMBER", "INTERFACE", "ACL_TABLE"}
          /\ r[1] = "INTERFACE" => GetDefaultConfig(DOMAIN speeds)[r] = BreakoutDefaults[r]
    BY DEF GetDefaultConfig, Dependencies, KeyNames, ListsPort
  <2>2. \A r \in DOMAIN GetDefaultConfig(DOMAIN speeds) : r[1] = "INTERFACE" => "vrf_name" \notin DOMAIN GetDefaultConfig(DOMAIN speeds)[r]
    BY <2>1, ModesAssumption
  <2> QED  BY <2>1, <2>2, NoFieldsFact
<1> HIDE DEF ports, e
<1>4. DOMAIN c = DOMAIN ports \cup DOMAIN d /\ \A r \in DOMAIN d : r[1] \in {"INTERFACE", "BREAKOUT_CFG"} => c[r] = d[r]
  BY <1>2 DEF @@
<1> HIDE DEF c
<1>5. DOMAIN g = DOMAIN e /\ \A r \in DOMAIN g : r[1] = "INTERFACE" => g[r] = IF r \in DOMAIN c THEN c[r] @@ e[r] ELSE e[r]
  OBVIOUS
<1> HIDE DEF g
<1>6. DOMAIN (g @@ c) = DOMAIN g \cup DOMAIN c /\ (\A r \in DOMAIN g : (g @@ c)[r] = g[r]) /\ \A r \in DOMAIN c \ DOMAIN g : (g @@ c)[r] = c[r]
  BY DEF @@
<1>7. ASSUME NEW r \in DOMAIN (g @@ c), r[1] = "INTERFACE"
      PROVE  \/ "vrf_name" \notin DOMAIN (g @@ c)[r]
             \/ r \in DOMAIN d /\ "vrf_name" \in DOMAIN d[r] /\ (g @@ c)[r].vrf_name = d[r].vrf_name
  <2>0. r \notin DOMAIN ports
    BY <1>2, <1>7
  <2>1. CASE r \in DOMAIN g /\ r \in DOMAIN c
    <3>1. r \in DOMAIN d /\ (g @@ c)[r] = d[r] @@ e[r] /\ "vrf_name" \notin DOMAIN e[r]
      BY <1>3, <1>4, <1>5, <1>6, <1>7, <2>0, <2>1
    <3> QED  BY <3>1 DEF @@
  <2>2. CASE r \in DOMAIN g /\ r \notin DOMAIN c
    BY <1>3, <1>5, <1>6, <1>7, <2>2
  <2>3. CASE r \notin DOMAIN g
    BY <1>4, <1>6, <1>7, <2>0, <2>3
  <2> QED  BY <2>1, <2>2, <2>3
<1>8. \A r \in DOMAIN (g @@ c) : \/ r \in DOMAIN d \/ \E q \in DOMAIN speeds : r = <<"PORT", q>>
                                \/ r[1] \in {"VLAN_MEMBER", "PORTCHANNEL_MEMBER", "INTERFACE", "ACL_TABLE"}
  BY <1>2, <1>3, <1>4, <1>5, <1>6
<1>9. \A r \in DOMAIN (g @@ c) : r[1] = "BREAKOUT_CFG" => r \in DOMAIN d /\ (g @@ c)[r] = d[r]
  BY <1>2, <1>3, <1>4, <1>5, <1>6
<1> QED  BY <1>1, <1>2, <1>4, <1>6, <1>7, <1>8, <1>9

LEMMA AddTame ==
  ASSUME NEW d, NEW speeds, NEW load
  PROVE  LoadTame(CreateConfigToLoad(d, AddPorts(d, speeds, load)))
<1> DEFINE e == AddPorts(d, speeds, load)
<1>1. \A r \in DOMAIN e : (r[1] = "BREAKOUT_CFG" => r \in DOMAIN d /\ e[r] = d[r]) /\ (r[1] = "INTERFACE" =>
        "vrf_name" \notin DOMAIN e[r] \/ (r \in DOMAIN d /\ "vrf_name" \in DOMAIN d[r] /\ e[r].vrf_name = d[r].vrf_name))
  BY AddIs
<1> HIDE DEF e
<1> QED  BY <1>1, PlanIs DEF LoadTame, e

\* The commands that are not a breakout leave one that waits alone, and begin none.
LEMMA JobOfOthers ==
  ASSUME [Next]_vars, ~BreakoutNext
  PROVE  Idle \/ (~Doing("breakout") /\ ~Doing("breakout")')
<1>1. CASE Idle \/ Calm
  BY <1>1 DEF Calm, Doing
<1>2. CASE BindStep
  <2>1. job = None \/ job.kind = "bind"
    BY <1>2 DEF BindStep, Rebind, BindVrf, UnbindVrf, Doing, Use
  <2>2. job' = job \/ job' = None \/ \E i, f : job' = [kind |-> "bind", of |-> i, fields |-> f]
    BY <1>2 DEF BindStep, Rebind, BindVrf, UnbindVrf, Wait, Become
  <2>3. job' = job \/ job' = None \/ job'.kind = "bind"
    BY <2>2
  <2> QED  BY <2>1, <2>3 DEF Doing
<1>3. CASE QosStep
  <2>1. job = None \/ job.kind \in {"qos", "ports"}
    BY <1>3 DEF QosStep, ClearQos, ReloadQos, WriteQos, ReloadPorts, WritePorts, Doing, Use
  <2>2. \/ job' = job \/ job' = None
        \/ \E dry : job' = [kind |-> "qos", dry |-> dry] \/ \E ps : job' = [kind |-> "ports", of |-> ps, dry |-> dry]
    BY <1>3 DEF QosStep, ClearQos, ReloadQos, WriteQos, ReloadPorts, WritePorts, Become
  <2>3. job' = job \/ job' = None \/ job'.kind = "qos" \/ job'.kind = "ports"
    BY <2>2
  <2> QED  BY <2>1, <2>3 DEF Doing
<1>4. CASE FeatureStep
  <2>1. job = None \/ job.kind = "feature"
    BY <1>4 DEF FeatureStep, SetFeatureState, FeatureReached, Doing, Use
  <2>2. job' = None \/ \E f, x : job' = [kind |-> "feature", of |-> f, state |-> x]
    BY <1>4 DEF FeatureStep, SetFeatureState, FeatureReached
  <2>3. job' = None \/ job'.kind = "feature"
    BY <2>2
  <2> QED  BY <2>1, <2>3 DEF Doing
<1>5. Idle \/ Calm \/ BindStep \/ QosStep \/ FeatureStep
  <2>1. CASE vars' = vars
    BY <2>1 DEF vars, Idle, Daemons
  <2>2. CASE Next
    BY <2>2, InterfacesCalm, BuffersCalm, ServicesCalm, TrafficCalm, PoliciesCalm DEF Next
  <2> QED  BY <2>1, <2>2
<1> QED  BY <1>1, <1>2, <1>3, <1>4, <1>5

PortsOf(D, p) == {q \in Family(p) : <<"PORT", q>> \in D}
\* What a member names is there.
MembersIn(D) ==
    \A r \in D : /\ r[1] = "VLAN_MEMBER" => {<<"PORT", r[3]>>, <<"PORTCHANNEL", r[3]>>} \cap D # {}
                 /\ r[1] = "PORTCHANNEL_MEMBER" => <<"PORT", r[3]>> \in D
\* The ports that are not of family p, and the modes that are written, are the same.
SameElse(D, E, p) ==
    \A r : \/ r[1] = "BREAKOUT_CFG"
           \/ r[1] = "PORT" /\ \A q \in Family(p) : r # <<"PORT", q>>
           => (r \in E <=> r \in D)

\* A plan takes one family of ports from one mode, by none, to another.
Planned(D, E, F, p, mode) ==
    /\ SameElse(D, E, p) /\ SameElse(E, F, p)
    /\ MembersIn(E) /\ MembersIn(F)
    /\ PortsOf(E, p) = {} /\ PortsOf(F, p) = DOMAIN Modes[p][mode]
Deleted(at, delete) == IF at = "delete" THEN Written(DOMAIN db, delete) ELSE DOMAIN db
PlanIn(at, of, mode, delete, add) ==
    /\ job = [kind |-> "breakout", at |-> at, of |-> of, mode |-> mode, delete |-> delete, add |-> add]
    /\ at \in {"delete", "asic"} /\ of \in DOMAIN Modes /\ mode \in DOMAIN Modes[of] /\ Has(BreakoutRow(of))
    /\ LoadTame(delete) /\ LoadTame(add)
    /\ Planned(DOMAIN db, Deleted(at, delete), Written(Deleted(at, delete), add), of, mode)
PlanStay == Doing("breakout") => \E at, of, mode, delete, add : PlanIn(at, of, mode, delete, add)

\* The ports that are there of what can be broken out are those of the mode that is written, or none.
WholeFamilies ==
    \A p \in DOMAIN Modes :
        Has(BreakoutRow(p)) /\ ~(Doing("breakout") /\ job.of = p) =>
            PortsOf(DOMAIN db, p) \in {{}, DOMAIN Modes[p][CurrentMode(p)]}

LEMMA SameElseAll == ASSUME NEW D, NEW p PROVE SameElse(D, D, p)
  BY DEF SameElse

LEMMA ModesAreOfFamily ==
  ASSUME NEW p, NEW mode \in DOMAIN Modes[p]
  PROVE  DOMAIN Modes[p][mode] \subseteq Family(p)
  BY DEF Family

LEMMA ValidMembers ==
  ASSUME NEW d, ValidateConfigData(d)
  PROVE  MembersIn(DOMAIN d)
  BY DEF ValidateConfigData, MembersIn, IsPort

\* When a breakout begins its family is whole, and it takes no row away.
LEMMA BreakoutBegins ==
  ASSUME WholeFamilies, NEW p \in DOMAIN Modes, NEW mode, NEW force, NEW load, Breakout(p, mode, force, load)
  PROVE  /\ DOMAIN db' = DOMAIN db
         /\ \A r \in DOMAIN db : r[1] # "PORT" => db'[r] = db[r]
         /\ \E delete, add : PlanIn("delete", p, mode, delete, add)'
         /\ Leaves({"BREAKOUT_CFG"})
<1> DEFINE ports == DOMAIN Modes[p][CurrentMode(p)]
           without == DeletePorts(db, ports)
           with == AddPorts(without, Modes[p][mode], load)
           delete == CreateConfigToLoad(db, without)
           add == CreateConfigToLoad(without, with)
           g == [r \in {<<"PORT", q>> : q \in ports} |-> [admin_status |-> "down"] @@ db[r]]
<1>1. /\ job = None /\ mode \in DOMAIN Modes[p] /\ Has(<<"PORT", p>>) /\ Has(BreakoutRow(p))
      /\ ValidateConfigData(without) /\ ValidateConfigData(with)
      /\ db' = ShutdownIntf(db, ports)
      /\ job' = [kind |-> "breakout", at |-> "delete", of |-> p, mode |-> mode, delete |-> delete, add |-> add]
  BY DEF Breakout, ModeIsAvailable, Use
<1>2. ports = PortsOf(DOMAIN db, p)
  <2>1. p \in Family(p)
    BY <1>1, ModesAssumption, ModesAreOfFamily
  <2>2. p \in PortsOf(DOMAIN db, p)
    BY <1>1, <2>1 DEF PortsOf, Has
  <2>3. PortsOf(DOMAIN db, p) \in {{}, ports}
    BY <1>1 DEF WholeFamilies, Doing
  <2> QED  BY <2>2, <2>3
<1>3. ports \subseteq Family(p) /\ \A q \in ports : <<"PORT", q>> \in DOMAIN db
  BY <1>2 DEF PortsOf
<1>4. DOMAIN db' = DOMAIN db /\ \A r \in DOMAIN db : r[1] # "PORT" => db'[r] = db[r]
  <2>1. db' = g @@ db
    BY <1>1 DEF ShutdownIntf
  <2>2. DOMAIN g \subseteq DOMAIN db /\ \A r \in DOMAIN g : r[1] = "PORT"
    BY <1>3
  <2> HIDE DEF g
  <2> QED  BY <2>1, <2>2 DEF @@
<1>5. DOMAIN without = {r \in DOMAIN db : ~\E q \in ports : r = <<"PORT", q>> \/ KeyNames(r, q)}
  BY DEF DeletePorts
<1>6. Written(DOMAIN db', delete) = DOMAIN without /\ Written(DOMAIN without, add) = DOMAIN with
  <2> HIDE DEF without, with
  <2> QED  BY <1>4, PlanIs
<1>7. LoadTame(delete) /\ LoadTame(add)
  BY DeleteTame, AddTame
<1>8. MembersIn(DOMAIN without) /\ MembersIn(DOMAIN with)
  BY <1>1, ValidMembers
<1>9. SameElse(DOMAIN db, DOMAIN without, p) /\ PortsOf(DOMAIN without, p) = {}
  <2>1. \A r : r[1] \in {"BREAKOUT_CFG", "PORT"} => \A q : ~KeyNames(r, q)
    BY DEF KeyNames
  <2>2. \A r : r[1] \in {"BREAKOUT_CFG", "PORT"} => (r \in DOMAIN without <=> r \in DOMAIN db /\ \A q \in ports : r # <<"PORT", q>>)
    BY <1>5, <2>1
  <2>3. SameElse(DOMAIN db, DOMAIN without, p)
    BY <1>3, <2>2 DEF SameElse
  <2>4. PortsOf(DOMAIN without, p) = {}
    BY <1>2, <2>2 DEF PortsOf
  <2> QED  BY <2>3, <2>4
<1>10. SameElse(DOMAIN without, DOMAIN with, p) /\ PortsOf(DOMAIN with, p) = DOMAIN Modes[p][mode]
  <2> DEFINE speeds == Modes[p][mode]
  <2>1. DOMAIN speeds \subseteq Family(p)
    BY <1>1, ModesAreOfFamily
  <2>2. /\ {<<"PORT", q>> : q \in DOMAIN speeds} \subseteq DOMAIN with
        /\ DOMAIN without \subseteq DOMAIN with
        /\ \A r \in DOMAIN with :
              \/ r \in DOMAIN without \/ \E q \in DOMAIN speeds : r = <<"PORT", q>>
              \/ r[1] \in {"VLAN_MEMBER", "PORTCHANNEL_MEMBER", "INTERFACE", "ACL_TABLE"}
    <3> HIDE DEF without
    <3> QED  BY AddIs
  <2> HIDE DEF without, with, speeds
  <2>3. SameElse(DOMAIN without, DOMAIN with, p)
    BY <2>1, <2>2 DEF SameElse
  <2>4. \A q : <<"PORT", q>> \in DOMAIN with => <<"PORT", q>> \in DOMAIN without \/ q \in DOMAIN speeds
    BY <2>2
  <2>5. PortsOf(DOMAIN with, p) = DOMAIN speeds
    BY <1>9, <2>1, <2>2, <2>4 DEF PortsOf
  <2> QED  BY <2>3, <2>5 DEF speeds
<1>11. PICK del, ins, E, F : del = delete /\ ins = add /\ E = DOMAIN without /\ F = DOMAIN with
  OBVIOUS
<1> HIDE DEF without, with, delete, add
<1>12. PlanIn("delete", p, mode, del, ins)'
  <2>1. Has(BreakoutRow(p))'
    BY <1>1, <1>4 DEF Has
  <2>2. Deleted("delete", del)' = E
    BY <1>6, <1>11 DEF Deleted
  <2>3. Planned(DOMAIN db', E, F, p, mode)
    BY <1>4, <1>8, <1>9, <1>10, <1>11 DEF Planned
  <2>4. Written(E, ins) = F
    BY <1>6, <1>11
  <2>5. Planned(DOMAIN db, Deleted("delete", del), Written(Deleted("delete", del), ins), p, mode)'
    BY <2>2, <2>3, <2>4
  <2> QED  BY <1>1, <1>7, <1>11, <2>1, <2>5 DEF PlanIn
<1>13. Leaves({"BREAKOUT_CFG"})
  BY <1>4 DEF Leaves, Beside, Same
<1> QED  BY <1>4, <1>12, <1>13

LEMMA LoadWritten ==
  ASSUME NEW load, LoadTame(load), LoadFits(load), NEW d, d = WriteConfigDB(db, load)
  PROVE  /\ DOMAIN d = Written(DOMAIN db, load)
         /\ \A r \in DOMAIN d : r[1] = "BREAKOUT_CFG" => r \in DOMAIN db /\ d[r] = db[r]
         /\ \A r \in DOMAIN d : r[1] \in OwnTables => RowTame(r, d[r])
<1>1. /\ DOMAIN d = Written(DOMAIN db, load)
      /\ \A r \in DOMAIN load.set : d[r] = load.set[r] @@ (IF r \in DOMAIN db THEN db[r] ELSE NoFields)
      /\ \A r \in Written(DOMAIN db, load) \ DOMAIN load.set : r \in DOMAIN db /\ d[r] = db[r]
  BY WrittenIs
<1>2. ASSUME NEW r \in DOMAIN d, r[1] \in OwnTables PROVE RowTame(r, d[r])
  <2>1. CASE r \notin DOMAIN load.set
    BY <1>1, <2>1 DEF RowTame
  <2>2. CASE r \in DOMAIN load.set
    <3>1. r[1] = "INTERFACE" /\ "vrf_name" \notin DOMAIN load.set[r]
      BY <1>2, <2>2 DEF LoadTame, LoadFits, BreakoutTables, OwnTables
    <3>2. CASE r \in DOMAIN db
      <4>1. d[r] = load.set[r] @@ db[r]
        BY <1>1, <2>2, <3>2
      <4> QED  BY <3>1, <3>2, <4>1 DEF RowTame, VrfOf, @@
    <3>3. CASE r \notin DOMAIN db
      <4>1. d[r] = load.set[r] @@ NoFields
        BY <1>1, <2>2, <3>3
      <4> QED  BY <3>1, <4>1, NoFieldsFact DEF RowTame, VrfOf, @@
    <3> QED  BY <3>2, <3>3
  <2> QED  BY <2>1, <2>2
<1> QED  BY <1>1, <1>2 DEF LoadTame

\* The rows whose names a check reads: a port's is no other's.
RowsNamed ==
    \A r \in DOMAIN db : /\ r[1] \in {"PORTCHANNEL", "VLAN_SUB_INTERFACE", "LOOPBACK_INTERFACE"} => r[2] \notin Ports
                         /\ r[1] = "PORT" => r = <<"PORT", r[2]>>
FamiliesStay == PlanStay /\ WholeFamilies /\ RowsNamed /\ MembersIn(DOMAIN db)
SameModes == \A p : Has(BreakoutRow(p))' <=> Has(BreakoutRow(p))
OwnsRowsTame == \A r \in DOMAIN db' : r[1] \in OwnTables => RowTame(r, db'[r])

LEMMA NamedThrough ==
  ASSUME RowsNamed, Writes(BreakoutTables), NEW of, SameElse(DOMAIN db, DOMAIN db', of)
  PROVE  RowsNamed'
  BY DEF RowsNamed, Writes, Within, Same, BreakoutTables, SameElse

\* The families that are not broken out stay as they are.
LEMMA WholeElse ==
  ASSUME WholeFamilies, NEW of \in DOMAIN Modes, job.of = of, NEW E, SameElse(DOMAIN db, E, of), NEW p \in DOMAIN Modes, p # of,
         Has(BreakoutRow(p))
  PROVE  PortsOf(E, p) \in {{}, DOMAIN Modes[p][CurrentMode(p)]}
<1>1. \A q \in Family(p) : \A o \in Family(of) : <<"PORT", q>> # <<"PORT", o>>
  BY ModesAssumption
<1>2. \A q \in Family(p) : <<"PORT", q>> \in E <=> <<"PORT", q>> \in DOMAIN db
  BY <1>1 DEF SameElse
<1>3. PortsOf(E, p) = PortsOf(DOMAIN db, p)
  BY <1>2 DEF PortsOf
<1> QED  BY <1>3 DEF WholeFamilies

LEMMA PlanDeletes ==
  ASSUME FamiliesStay, BreakoutJobFits, BreakoutDelete
  PROVE  FamiliesStay' /\ OwnsRowsTame /\ SameModes
<1>1. PICK at, of, mode, delete, add : PlanIn(at, of, mode, delete, add)
  BY DEF FamiliesStay, PlanStay, BreakoutDelete
<1>2. job = [kind |-> "breakout", at |-> at, of |-> of, mode |-> mode, delete |-> delete, add |-> add]
  BY <1>1 DEF PlanIn
<1>3. at = "delete" /\ job.delete = delete /\ job.of = of
  BY <1>2 DEF BreakoutDelete
<1>4. db' = WriteConfigDB(db, delete) /\ LoadFits(delete) /\ LoadTame(delete)
  <2>1. db' = WriteConfigDB(db, job.delete) /\ LoadFits(job.delete)
    BY DEF BreakoutDelete, BreakoutJobFits, BreakoutJob
  <2> QED  BY <1>1, <1>3, <2>1 DEF PlanIn
<1>5. job' = [kind |-> "breakout", at |-> "asic", of |-> of, mode |-> mode, delete |-> delete, add |-> add]
  BY <1>2 DEF BreakoutDelete
<1>6. /\ DOMAIN db' = Written(DOMAIN db, delete) /\ OwnsRowsTame
      /\ \A r \in DOMAIN db' : r[1] = "BREAKOUT_CFG" => r \in DOMAIN db /\ db'[r] = db[r]
  BY <1>4, LoadWritten DEF OwnsRowsTame
<1>7. Planned(DOMAIN db, DOMAIN db', Written(DOMAIN db', add), of, mode)
  BY <1>1, <1>3, <1>6 DEF PlanIn, Deleted
<1>8. SameElse(DOMAIN db, DOMAIN db', of) /\ MembersIn(DOMAIN db')
  BY <1>7 DEF Planned
<1>9. Planned(DOMAIN db', DOMAIN db', Written(DOMAIN db', add), of, mode)
  BY <1>7, SameElseAll DEF Planned
<1>10. \A p : (Has(BreakoutRow(p))' <=> Has(BreakoutRow(p))) /\ CurrentMode(p)' = CurrentMode(p)
  <2>1. Leaves({"BREAKOUT_CFG"})
    BY <1>6, <1>8 DEF SameElse, Leaves, Beside, Same
  <2>2. \A p : BreakoutRow(p)[1] = "BREAKOUT_CFG"
    BY DEF BreakoutRow
  <2> QED  BY <2>1, <2>2, LeavesReads DEF CurrentMode
<1>11. PlanStay'
  <2>1. PlanIn("asic", of, mode, delete, add)'
    BY <1>1, <1>5, <1>9, <1>10 DEF PlanIn, Deleted
  <2> QED  BY <2>1 DEF PlanStay
<1>12. WholeFamilies'
  <2>1. Doing("breakout")' /\ job'.of = of
    BY <1>5 DEF Doing, None
  <2>2. of \in DOMAIN Modes
    BY <1>1 DEF PlanIn
  <2>3. ASSUME NEW p \in DOMAIN Modes, Has(BreakoutRow(p)), p # of
        PROVE  PortsOf(DOMAIN db', p) \in {{}, DOMAIN Modes[p][CurrentMode(p)]}
    BY <1>3, <1>8, <2>2, <2>3, WholeElse DEF FamiliesStay
  <2> QED  BY <1>10, <2>1, <2>3 DEF WholeFamilies
<1>13. RowsNamed'
  <2>1. Writes(BreakoutTables)
    BY BreakoutWrite DEF BreakoutNext
  <2> QED  BY <1>8, <2>1, NamedThrough DEF FamiliesStay
<1> QED  BY <1>6, <1>8, <1>10, <1>11, <1>12, <1>13 DEF FamiliesStay, SameModes

LEMMA PlanAdds ==
  ASSUME FamiliesStay, BreakoutJobFits, BreakoutAdd
  PROVE  FamiliesStay' /\ OwnsRowsTame /\ SameModes
<1>1. PICK at, of, mode, delete, add : PlanIn(at, of, mode, delete, add)
  BY DEF FamiliesStay, PlanStay, BreakoutAdd
<1>2. job = [kind |-> "breakout", at |-> at, of |-> of, mode |-> mode, delete |-> delete, add |-> add]
  BY <1>1 DEF PlanIn
<1>3. at = "asic" /\ job.add = add /\ job.of = of /\ job.mode = mode
  BY <1>2 DEF BreakoutAdd
<1>4. LoadFits(add) /\ LoadTame(add)
  <2>1. LoadFits(job.add)
    BY DEF BreakoutAdd, BreakoutJobFits, BreakoutJob
  <2> QED  BY <1>1, <1>3, <2>1 DEF PlanIn
<1>5. PICK d : d = WriteConfigDB(db, add)
  OBVIOUS
<1>6. db' = SetEntry(d, BreakoutRow(of), [brkout_mode |-> mode]) /\ job' = None
  BY <1>3, <1>5 DEF BreakoutAdd
<1>7. /\ DOMAIN d = Written(DOMAIN db, add) /\ \A r \in DOMAIN d : r[1] \in OwnTables => RowTame(r, d[r])
      /\ \A r \in DOMAIN d : r[1] = "BREAKOUT_CFG" => r \in DOMAIN db /\ d[r] = db[r]
  BY <1>4, <1>5, LoadWritten
<1>8. /\ SameElse(DOMAIN db, DOMAIN d, of) /\ MembersIn(DOMAIN d) /\ PortsOf(DOMAIN d, of) = DOMAIN Modes[of][mode]
      /\ of \in DOMAIN Modes /\ Has(BreakoutRow(of))
  BY <1>1, <1>3, <1>7 DEF PlanIn, Deleted, Planned
<1>9. \A p : BreakoutRow(p)[1] = "BREAKOUT_CFG" /\ (p # of => BreakoutRow(p) # BreakoutRow(of))
  BY DEF BreakoutRow
<1>10. DOMAIN db' = DOMAIN d /\ db'[BreakoutRow(of)] = [brkout_mode |-> mode] /\ \A r \in DOMAIN d : r # BreakoutRow(of) => db'[r] = d[r]
  <2>1. BreakoutRow(of) \in DOMAIN d
    BY <1>8, <1>9 DEF SameElse, Has
  <2> QED  BY <1>6, <2>1 DEF SetEntry, :>, @@
<1>11. OwnsRowsTame
  <2>1. \A r : r[1] \in OwnTables => r # BreakoutRow(of)
    BY <1>9 DEF OwnTables
  <2> QED  BY <1>7, <1>10, <2>1 DEF OwnsRowsTame
<1>12. \A p : p # of => (Has(BreakoutRow(p))' <=> Has(BreakoutRow(p))) /\ CurrentMode(p)' = CurrentMode(p)
  <2>1. \A p : p # of => (Has(BreakoutRow(p))' <=> Has(BreakoutRow(p))) /\ Entry(BreakoutRow(p))' = Entry(BreakoutRow(p))
    BY <1>7, <1>8, <1>9, <1>10 DEF SameElse, Has, Entry
  <2> SUFFICES ASSUME NEW p, p # of PROVE CurrentMode(p)' = CurrentMode(p)
    BY <2>1
  <2>2. CASE Has(BreakoutRow(p))
    <3>1. Has(BreakoutRow(p))' /\ db'[BreakoutRow(p)] = db[BreakoutRow(p)] /\ Entry(BreakoutRow(p))' = Entry(BreakoutRow(p))
      BY <1>7, <1>9, <1>10, <2>1, <2>2 DEF Has
    <3> QED  BY <3>1 DEF CurrentMode, Field, Blank
  <2>3. CASE ~Has(BreakoutRow(p))
    <3>1. Entry(BreakoutRow(p)) = NoFields /\ Entry(BreakoutRow(p))' = NoFields
      BY <2>1, <2>3 DEF Entry
    <3> QED  BY <3>1, NoFieldsFact DEF CurrentMode, Field, Blank
  <2> QED  BY <2>2, <2>3
<1>13. CurrentMode(of)' = mode
  <2>1. Entry(BreakoutRow(of))' = [brkout_mode |-> mode] /\ db'[BreakoutRow(of)] = [brkout_mode |-> mode]
    BY <1>8, <1>9, <1>10 DEF SameElse, Has, Entry
  <2> QED  BY <2>1 DEF CurrentMode, Field, Blank
<1>14. WholeFamilies'
  <2>1. ASSUME NEW p \in DOMAIN Modes, Has(BreakoutRow(p)), p # of
        PROVE  PortsOf(DOMAIN db', p) \in {{}, DOMAIN Modes[p][CurrentMode(p)]}
    BY <1>3, <1>8, <1>10, <2>1, WholeElse DEF FamiliesStay
  <2> QED  BY <1>8, <1>10, <1>12, <1>13, <2>1 DEF WholeFamilies
<1>15. PlanStay'
  BY <1>6 DEF PlanStay, Doing
<1>16. RowsNamed'
  <2>1. Writes(BreakoutTables)
    BY BreakoutWrite DEF BreakoutNext
  <2> QED  BY <1>8, <1>10, <2>1, NamedThrough DEF FamiliesStay
<1>17. SameModes
  <2>1. Has(BreakoutRow(of))'
    BY <1>8, <1>9, <1>10 DEF SameElse, Has
  <2> QED  BY <1>8, <1>12, <2>1 DEF SameModes
<1> QED  BY <1>8, <1>10, <1>11, <1>14, <1>15, <1>16, <1>17 DEF FamiliesStay

LEMMA PlanTimesOut ==
  ASSUME FamiliesStay, BreakoutTimesOut
  PROVE  FamiliesStay' /\ OwnsRowsTame /\ SameModes
<1>1. PICK at, of, mode, delete, add : PlanIn(at, of, mode, delete, add)
  BY DEF FamiliesStay, PlanStay, BreakoutTimesOut
<1>2. job = [kind |-> "breakout", at |-> at, of |-> of, mode |-> mode, delete |-> delete, add |-> add]
  BY <1>1 DEF PlanIn
<1>3. at = "asic" /\ job.of = of
  BY <1>2 DEF BreakoutTimesOut
<1>4. PortsOf(DOMAIN db, of) = {}
  BY <1>1, <1>3 DEF PlanIn, Deleted, Planned
<1>5. db' = db /\ job' = None
  BY DEF BreakoutTimesOut
<1>6. \A p : (Has(BreakoutRow(p))' <=> Has(BreakoutRow(p))) /\ CurrentMode(p)' = CurrentMode(p)
  BY <1>5 DEF Has, CurrentMode, Field, Entry, Blank
<1>7. WholeFamilies'
  BY <1>3, <1>4, <1>5, <1>6 DEF WholeFamilies, FamiliesStay
<1> QED  BY <1>5, <1>6, <1>7 DEF SameModes, FamiliesStay, PlanStay, Doing, RowsNamed, OwnsRowsTame, RowTame

LEMMA PlanBegins ==
  ASSUME FamiliesStay, NEW p \in DOMAIN Modes, NEW mode, NEW force, NEW load, Breakout(p, mode, force, load)
  PROVE  FamiliesStay' /\ OwnsRowsTame /\ SameModes
<1>1. /\ DOMAIN db' = DOMAIN db
      /\ \A r \in DOMAIN db : r[1] # "PORT" => db'[r] = db[r]
      /\ \E delete, add : PlanIn("delete", p, mode, delete, add)'
      /\ Leaves({"BREAKOUT_CFG"})
  BY BreakoutBegins DEF FamiliesStay
<1>2. \A q : (Has(BreakoutRow(q))' <=> Has(BreakoutRow(q))) /\ CurrentMode(q)' = CurrentMode(q)
  <2>1. \A q : BreakoutRow(q)[1] = "BREAKOUT_CFG"
    BY DEF BreakoutRow
  <2> QED  BY <1>1, <2>1, LeavesReads DEF CurrentMode
<1>3. ~Doing("breakout")
  BY DEF Breakout, Use, Doing
<1>4. WholeFamilies'
  BY <1>1, <1>2, <1>3 DEF WholeFamilies, FamiliesStay
<1>5. PlanStay'
  BY <1>1 DEF PlanStay
<1>6. OwnsRowsTame
  BY <1>1 DEF OwnsRowsTame, RowTame, OwnTables
<1> QED  BY <1>1, <1>2, <1>4, <1>5, <1>6 DEF SameModes, FamiliesStay, RowsNamed

LEMMA FamiliesOfBreakout ==
  ASSUME FamiliesStay, BreakoutJobFits, BreakoutNext
  PROVE  FamiliesStay' /\ OwnsRowsTame /\ SameModes
<1>1. ASSUME NEW p \in On(DOMAIN Modes), NEW mode, NEW force, NEW load, Breakout(p, mode, force, load)
      PROVE  FamiliesStay' /\ OwnsRowsTame /\ SameModes
  BY <1>1, PlanBegins DEF On
<1> QED  BY <1>1, PlanDeletes, PlanAdds, PlanTimesOut DEF BreakoutNext

----------------------------------------------------------------------------
(* The commands that are not a breakout.                                   *)

\* No row is added but of a name that fits its table, and no port.
NewNamed ==
    \A r \in DOMAIN db' :
        \/ r \in DOMAIN db
        \/ r[1] # "PORT" /\ (r[1] \in {"PORTCHANNEL", "VLAN_SUB_INTERFACE", "LOOPBACK_INTERFACE"} => r[2] \notin Ports)

LEMMA InterfacesNamed ==
  ASSUME NEW r, OfInterface(r), r[1] \in {"PORT", "PORTCHANNEL", "VLAN_SUB_INTERFACE", "LOOPBACK_INTERFACE"}
  PROVE  r[1] # "PORT" /\ r[1] # "PORTCHANNEL" /\ r[2] \notin Ports
<1>1. PICK i : r[1] = Table(i) /\ r[2] = i
  BY DEF OfInterface
<1> QED  BY <1>1, NamesAssumption DEF Table

LEMMA TamedNames ==
  ASSUME OwnsTame, Writes(OwnTables \cup VrfTables)
  PROVE  NewNamed
<1>1. ASSUME NEW r \in DOMAIN db', r \notin DOMAIN db, r[1] \in {"PORT", "PORTCHANNEL", "VLAN_SUB_INTERFACE", "LOOPBACK_INTERFACE"}
      PROVE  r[1] # "PORT" /\ r[1] # "PORTCHANNEL" /\ r[2] \notin Ports
  <2>1. r[1] \in OwnTables
    BY <1>1 DEF Writes, Within, Same, VrfTables
  <2> QED  BY <1>1, <2>1, InterfacesNamed DEF OwnsTame
<1> QED  BY <1>1 DEF NewNamed

LEMMA SameRowsNamed ==
  ASSUME DOMAIN db' \subseteq DOMAIN db
  PROVE  NewNamed
  BY DEF NewNamed

\* What sets a field of a port adds no row.
LEMMA PortsSameRows ==
  ASSUME PortStep \/ FitStep
  PROVE  DOMAIN db' = DOMAIN db /\ \A r \in DOMAIN db : r[1] \in OwnTables /\ r[1] # "VLAN_SUB_INTERFACE" => db'[r] = db[r]
<1>0. \A i : <<"PORT", i>>[1] = "PORT" /\ <<"PORTCHANNEL", i>>[1] = "PORTCHANNEL" /\ <<"VLAN_SUB_INTERFACE", i>>[1] = "VLAN_SUB_INTERFACE"
  OBVIOUS
<1>1. ASSUME NEW x \in DOMAIN db, NEW f, db' = ModEntry(db, x, f), x[1] \in {"PORT", "PORTCHANNEL"}
      PROVE  DOMAIN db' = DOMAIN db /\ \A r \in DOMAIN db : r[1] \in OwnTables => db'[r] = db[r]
  BY <1>1 DEF ModEntry, :>, @@, OwnTables
<1>2. ASSUME NEW i, NEW status, AdminStatus(i, status)
      PROVE  DOMAIN db' = DOMAIN db /\ \A r \in DOMAIN db : r[1] \in OwnTables /\ r[1] # "VLAN_SUB_INTERFACE" => db'[r] = db[r]
  <2> DEFINE g == [r \in {<<"PORT", i>>, <<"PORTCHANNEL", i>>, <<"VLAN_SUB_INTERFACE", i>>} \cap Rows |-> [admin_status |-> status] @@ db[r]]
  <2>1. db' = g @@ db
    BY <1>2 DEF AdminStatus, Become
  <2>2. DOMAIN g \subseteq DOMAIN db /\ \A r \in DOMAIN g : r[1] \in {"PORT", "PORTCHANNEL", "VLAN_SUB_INTERFACE"}
    BY <1>0 DEF Rows
  <2> HIDE DEF g
  <2> QED  BY <2>1, <2>2 DEF @@, OwnTables
<1>3. ASSUME NEW p, NEW x, SetFec(p, x) \/ SetSpeed(p, x) \/ SetMtu(p, x)
      PROVE  \E f : <<"PORT", p>> \in DOMAIN db /\ db' = ModEntry(db, <<"PORT", p>>, f)
  BY <1>3 DEF SetFec, SetSpeed, SetMtu, Become, Has
<1>4. ASSUME NEW p, NEW f, NEW x, SetCapability(p, f, x) \/ SetTransceiver(p, f, x)
      PROVE  \E g : <<"PORT", p>> \in DOMAIN db /\ db' = ModEntry(db, <<"PORT", p>>, g)
  BY <1>4 DEF SetCapability, SetTransceiver, Become, Has
<1>5. ASSUME NEW i, NEW t, SetTpid(i, t)
      PROVE  \E x \in DOMAIN db : \E f : db' = ModEntry(db, x, f) /\ x[1] \in {"PORT", "PORTCHANNEL"}
  BY <1>0, <1>5 DEF SetTpid, Become, Has
<1> QED  BY <1>0, <1>1, <1>2, <1>3, <1>4, <1>5 DEF PortStep, FitStep

LEMMA LagsNamed ==
  ASSUME LagStep
  PROVE  NewNamed
<1>1. ASSUME NEW l \in Lags, AddPortchannel(l) PROVE NewNamed
  <2>1. DOMAIN db' = DOMAIN db \cup {<<"PORTCHANNEL", l>>}
    BY <1>1 DEF AddPortchannel, Become, SetEntry, :>, @@
  <2>2. l \notin Ports
    BY NamesAssumption
  <2> QED  BY <2>1, <2>2 DEF NewNamed
<1>2. ASSUME NEW l, RemovePortchannel(l) PROVE NewNamed
  BY <1>2, SameRowsNamed DEF RemovePortchannel, Become, Without
<1> QED  BY <1>1, <1>2 DEF LagStep

\* Binding an interface to a VRF adds its row again, and no other.
LEMMA BindNamed ==
  ASSUME BindStep
  PROVE  NewNamed
<1>1. CASE Rebind
  <2>1. db' = SetEntry(db, Own(job.of), job.fields)
    BY <1>1 DEF Rebind
  <2>2. PICK r : r = Own(job.of) /\ OfInterface(r)
    BY OwnIsNamed
  <2>3. DOMAIN db' = DOMAIN db \cup {r}
    BY <2>1, <2>2 DEF SetEntry, :>, @@
  <2> QED  BY <2>2, <2>3, InterfacesNamed DEF NewNamed
<1>2. ASSUME NEW i, UnbindVrf(i) \/ \E v : BindVrf(i, v) PROVE NewNamed
  <2>1. \E S : db' = Without(db, S)
    BY <1>2 DEF UnbindVrf, BindVrf, Wait, Become
  <2> QED  BY <2>1, SameRowsNamed DEF Without
<1> QED  BY <1>1, <1>2 DEF BindStep

LEMMA VrfsNamed ==
  ASSUME VrfStep
  PROVE  NewNamed
<1>1. ASSUME NEW v, AddVrf(v) PROVE NewNamed
  <2>1. (\E f : db' = ModEntry(db, MgmtVrf, f)) \/ \E f : db' = SetEntry(db, <<"VRF", v>>, f)
    BY <1>1 DEF AddVrf, Become
  <2>2. PICK r \in {MgmtVrf, <<"VRF", v>>} : DOMAIN db' = DOMAIN db \cup {r}
    BY <2>1 DEF SetEntry, ModEntry, :>, @@
  <2> QED  BY <2>2 DEF NewNamed, MgmtVrf
<1>2. ASSUME NEW v, DelVrf(v) PROVE NewNamed
  <2>1. (\E x : db' = ModEntry(db, MgmtVrf, x)) \/ \E S : db' = Without(db, S)
    BY <1>2 DEF DelVrf, Become
  <2>2. CASE \E x : db' = ModEntry(db, MgmtVrf, x)
    <3>1. DOMAIN db' = DOMAIN db \cup {MgmtVrf}
      BY <2>2 DEF ModEntry, :>, @@
    <3> QED  BY <3>1 DEF NewNamed, MgmtVrf
  <2>3. CASE \E S : db' = Without(db, S)
    BY <2>3, SameRowsNamed DEF Without
  <2> QED  BY <2>1, <2>2, <2>3
<1> QED  BY <1>1, <1>2 DEF VrfStep

LEMMA ElseNamed ==
  ASSUME NEW W, Writes(W), W \cap {"PORT", "PORTCHANNEL", "VLAN_SUB_INTERFACE", "LOOPBACK_INTERFACE"} = {}
  PROVE  NewNamed
  BY DEF NewNamed, Writes, Within, Same

\* Rows of ports are added by breakouts, and by one command of PFC.
LEMMA OthersNamed ==
  ASSUME BreakoutJobFits, ~BreakoutNext, ~AsymStep, [Next]_vars
  PROVE  NewNamed
<1>1. CASE Leaves(RoleRows)
  BY <1>1 DEF NewNamed, Leaves, Beside, Same, RoleRows, OwnTables
<1>2. CASE MemberStep \/ LagMemberStep \/ MirrorStep
  BY <1>2, MemberWrites, LagMemberWrites, MirrorWrites, ElseNamed
<1>3. CASE PortStep \/ FitStep
  BY <1>3, PortsSameRows, SameRowsNamed
<1>4. CASE AddressStep \/ RoutedStep \/ LinkLocalStep \/ OwnStep \/ ZoneStep
  <2>1. OwnsTame
    BY <1>4, TameAddresses, TameLinkLocal, TameOwns
  <2>2. Writes(OwnTables \cup VrfTables)
    BY <1>4, AddressWrites, RoutedWrites, LinkLocalWrites, OwnWrites, ZoneWrites, WritesMore
  <2> QED  BY <2>1, <2>2, TamedNames
<1> QED  BY <1>1, <1>2, <1>3, <1>4, RoleWriters, LagsNamed, BindNamed, VrfsNamed DEF OwnsStep

\* No other command takes a port, or writes a mode.
LEMMA OthersPorts ==
  ASSUME BreakoutJobFits, ~BreakoutNext, ~AsymStep, [Next]_vars
  PROVE  (\A r : r[1] = "PORT" => (r \in DOMAIN db' <=> r \in DOMAIN db)) /\ Leaves({"BREAKOUT_CFG"})
<1>1. \A r : r[1] = "PORT" => (r \in DOMAIN db' <=> r \in DOMAIN db)
  <2>1. ASSUME NEW W, Writes(W), "PORT" \notin W PROVE \A r : r[1] = "PORT" => (r \in DOMAIN db' <=> r \in DOMAIN db)
    BY <2>1 DEF Writes, Within, Same
  <2>2. CASE Leaves(RoleRows)
    BY <2>2 DEF Leaves, Beside, Same, RoleRows
  <2>3. CASE MemberStep \/ LagMemberStep \/ MirrorStep \/ LagStep
    BY <2>1, <2>3, MemberWrites, LagMemberWrites, MirrorWrites, LagWrites
  <2>4. CASE PortStep \/ FitStep
    BY <2>4, PortsSameRows
  <2>5. CASE OwnsStep
    BY <2>1, <2>5, OwnsWrites DEF OwnTables, VrfTables
  <2> QED  BY <2>2, <2>3, <2>4, <2>5, RoleWriters
<1>2. Leaves({"BREAKOUT_CFG"})
  <2>1. ASSUME NEW W, Writes(W), "BREAKOUT_CFG" \notin W PROVE Leaves({"BREAKOUT_CFG"})
    BY <2>1, WritesLeave
  <2>2. CASE InterfacesNext
    <3>1. "BREAKOUT_CFG" \notin InterfaceTables
      BY DEF InterfaceTables, OwnTables, PortTables, VxlanTables, VrfTables
    <3> QED  BY <2>1, <2>2, <3>1, InterfacesWrite
  <2>3. CASE BuffersNext
    <3>1. "BREAKOUT_CFG" \notin BufferTables
      BY DEF BufferTables, QosTables
    <3> QED  BY <2>1, <2>3, <3>1, BuffersWrite
  <2>4. CASE ServicesNext
    <3>1. "BREAKOUT_CFG" \notin ServiceTables
      BY DEF ServiceTables, PlainTables, MclagTables
    <3> QED  BY <2>1, <2>4, <3>1, ServicesWrite
  <2>5. CASE TrafficNext
    <3>1. "BREAKOUT_CFG" \notin TrafficTables
      BY DEF TrafficTables, NatTables, OwnTables
    <3> QED  BY <2>1, <2>5, <3>1, TrafficWrite
  <2>6. CASE PoliciesNext
    <3>1. "BREAKOUT_CFG" \notin PolicyTables
      BY DEF PolicyTables, PbhTables, NvgreTables, DropTables, KnobTables
    <3> QED  BY <2>1, <2>6, <3>1, PoliciesWrite
  <2>7. CASE db' = db
    <3>1. Writes({})
      BY <2>7, NothingWrites
    <3> QED  BY <2>1, <3>1
  <2> QED  BY <2>2, <2>3, <2>4, <2>5, <2>6, <2>7, NextWrites DEF Idle
<1> QED  BY <1>1, <1>2

LEMMA ModesLeft ==
  ASSUME Leaves({"BREAKOUT_CFG"})
  PROVE  SameModes /\ \A p : CurrentMode(p)' = CurrentMode(p)
<1>1. \A p : BreakoutRow(p)[1] = "BREAKOUT_CFG"
  BY DEF BreakoutRow
<1> QED  BY <1>1, LeavesReads DEF SameModes, CurrentMode

\* A breakout that waits finds the rows it planned for.
LEMMA PlanWaits == ASSUME PlanStay, Idle PROVE PlanStay'
<1>1. db' = db /\ job' = job
  BY DEF Idle
<1> QED  BY <1>1 DEF PlanStay, PlanIn, Deleted, Doing, Has

MemberRows == {"PORT", "PORTCHANNEL", "VLAN_MEMBER", "PORTCHANNEL_MEMBER"}
LEMMA SameMembers ==
  ASSUME MembersIn(DOMAIN db), \A r : r[1] \in MemberRows => (r \in DOMAIN db' <=> r \in DOMAIN db)
  PROVE  MembersIn(DOMAIN db')
<1> SUFFICES ASSUME NEW r \in DOMAIN db'
             PROVE  /\ r[1] = "VLAN_MEMBER" => {<<"PORT", r[3]>>, <<"PORTCHANNEL", r[3]>>} \cap DOMAIN db' # {}
                    /\ r[1] = "PORTCHANNEL_MEMBER" => <<"PORT", r[3]>> \in DOMAIN db'
  BY DEF MembersIn
<1> DEFINE p == <<"PORT", r[3]>>
           l == <<"PORTCHANNEL", r[3]>>
<1>1. (p \in DOMAIN db' <=> p \in DOMAIN db) /\ (l \in DOMAIN db' <=> l \in DOMAIN db)
  <2>1. p[1] = "PORT" /\ l[1] = "PORTCHANNEL"
    OBVIOUS
  <2> HIDE DEF p, l
  <2> QED  BY <2>1 DEF MemberRows
<1>2. r[1] = "VLAN_MEMBER" \/ r[1] = "PORTCHANNEL_MEMBER" => r \in DOMAIN db
  BY DEF MemberRows
<1>3. /\ r[1] = "VLAN_MEMBER" => p \in DOMAIN db \/ l \in DOMAIN db
      /\ r[1] = "PORTCHANNEL_MEMBER" => p \in DOMAIN db
  BY <1>2 DEF MembersIn
<1> QED  BY <1>1, <1>3

\* Rows go that are no port and no port channel that a VLAN has.
LEMMA FewerMembers ==
  ASSUME MembersIn(DOMAIN db), NEW S, db' = Without(db, S),
         \A r \in S : \/ r[1] \notin {"PORT", "PORTCHANNEL"}
                      \/ \E l : r = <<"PORTCHANNEL", l>> /\ ~InVlan(l)
  PROVE  MembersIn(DOMAIN db')
<1>1. DOMAIN db' = DOMAIN db \ S
  BY DEF Without
<1>2. \A r \in DOMAIN db : r[1] = "VLAN_MEMBER" => <<"PORTCHANNEL", r[3]>> \notin S
  BY DEF InVlan, KeysOf, Rows
<1>3. \A i : <<"PORT", i>> \notin S
  OBVIOUS
<1> SUFFICES ASSUME NEW r \in DOMAIN db'
             PROVE  /\ r[1] = "VLAN_MEMBER" => {<<"PORT", r[3]>>, <<"PORTCHANNEL", r[3]>>} \cap DOMAIN db' # {}
                    /\ r[1] = "PORTCHANNEL_MEMBER" => <<"PORT", r[3]>> \in DOMAIN db'
  BY DEF MembersIn
<1>4. r \in DOMAIN db
  BY <1>1
<1>5. ASSUME r[1] = "VLAN_MEMBER" PROVE {<<"PORT", r[3]>>, <<"PORTCHANNEL", r[3]>>} \cap DOMAIN db' # {}
  <2>1. <<"PORT", r[3]>> \in DOMAIN db \/ <<"PORTCHANNEL", r[3]>> \in DOMAIN db
    BY <1>4, <1>5 DEF MembersIn
  <2> QED  BY <1>1, <1>2, <1>3, <1>4, <1>5, <2>1
<1>6. ASSUME r[1] = "PORTCHANNEL_MEMBER" PROVE <<"PORT", r[3]>> \in DOMAIN db'
  BY <1>1, <1>3, <1>4, <1>6 DEF MembersIn
<1> QED  BY <1>5, <1>6

LEMMA MoreMembers ==
  ASSUME MembersIn(DOMAIN db), NEW r, DOMAIN db' = DOMAIN db \cup {r},
         r[1] = "VLAN_MEMBER" => {<<"PORT", r[3]>>, <<"PORTCHANNEL", r[3]>>} \cap DOMAIN db # {},
         r[1] = "PORTCHANNEL_MEMBER" => <<"PORT", r[3]>> \in DOMAIN db
  PROVE  MembersIn(DOMAIN db')
  BY DEF MembersIn

LEMMA MembersOfVlans == ASSUME MembersIn(DOMAIN db), MemberStep PROVE MembersIn(DOMAIN db')
<1>1. ASSUME NEW v, NEW i, NEW mode, AddVlanMember(v, i, mode) PROVE MembersIn(DOMAIN db')
  <2>1. DOMAIN db' = DOMAIN db \cup {<<"VLAN_MEMBER", v, i>>}
    BY <1>1 DEF AddVlanMember, Become, SetEntry, :>, @@
  <2>2. {<<"PORT", i>>, <<"PORTCHANNEL", i>>} \cap DOMAIN db # {}
    BY <1>1 DEF AddVlanMember, Has
  <2> QED  BY <2>1, <2>2, MoreMembers
<1>2. ASSUME NEW v, NEW i, DelVlanMember(v, i) PROVE MembersIn(DOMAIN db')
  BY <1>2, FewerMembers DEF DelVlanMember, Become
<1> QED  BY <1>1, <1>2 DEF MemberStep

LEMMA MembersOfLags == ASSUME MembersIn(DOMAIN db), RowsNamed, LagMemberStep PROVE MembersIn(DOMAIN db')
<1>1. ASSUME NEW l, NEW p \in Ports, AddPortchannelMember(l, p) PROVE MembersIn(DOMAIN db')
  <2>1. DOMAIN db' = DOMAIN db \cup {<<"PORTCHANNEL_MEMBER", l, p>>}
    BY <1>1 DEF AddPortchannelMember, Become, SetEntry, :>, @@
  <2>2. <<"PORT", p>> \in DOMAIN db
    <3>1. NameIsValid(p)
      BY <1>1 DEF AddPortchannelMember
    <3> QED  BY <3>1 DEF NameIsValid, RowsNamed, Rows
  <2> QED  BY <2>1, <2>2, MoreMembers
<1>2. ASSUME NEW l, NEW p, DelPortchannelMember(l, p) PROVE MembersIn(DOMAIN db')
  BY <1>2, FewerMembers DEF DelPortchannelMember, Become
<1> QED  BY <1>1, <1>2 DEF LagMemberStep

LEMMA LagsOfMembers == ASSUME MembersIn(DOMAIN db), LagStep PROVE MembersIn(DOMAIN db')
<1>1. ASSUME NEW l, AddPortchannel(l) PROVE MembersIn(DOMAIN db')
  <2>1. DOMAIN db' = DOMAIN db \cup {<<"PORTCHANNEL", l>>}
    BY <1>1 DEF AddPortchannel, Become, SetEntry, :>, @@
  <2> QED  BY <2>1, MoreMembers
<1>2. ASSUME NEW l, RemovePortchannel(l) PROVE MembersIn(DOMAIN db')
  <2>1. db' = Without(db, {<<"PORTCHANNEL", l>>}) /\ ~InVlan(l)
    BY <1>2 DEF RemovePortchannel, Become
  <2> QED  BY <2>1, FewerMembers
<1> QED  BY <1>1, <1>2 DEF LagStep

LEMMA FamiliesOfOthers ==
  ASSUME FamiliesStay, BreakoutJobFits, ~BreakoutNext, ~AsymStep, [Next]_vars
  PROVE  FamiliesStay' /\ SameModes
<1>1. /\ \A r : r[1] = "PORT" => (r \in DOMAIN db' <=> r \in DOMAIN db)
      /\ SameModes /\ \A p : CurrentMode(p)' = CurrentMode(p)
  BY OthersPorts, ModesLeft
<1>2. PlanStay' /\ WholeFamilies'
  <2>1. \A p : PortsOf(DOMAIN db', p) = PortsOf(DOMAIN db, p)
    BY <1>1 DEF PortsOf
  <2>2. Idle \/ (~Doing("breakout") /\ ~Doing("breakout")')
    BY JobOfOthers
  <2>4. WholeFamilies'
    BY <1>1, <2>1, <2>2 DEF WholeFamilies, FamiliesStay, SameModes, Idle, Doing
  <2>5. PlanStay'
    BY <2>2, PlanWaits DEF FamiliesStay, PlanStay
  <2> QED  BY <2>4, <2>5
<1>3. RowsNamed'
  <2>1. NewNamed
    BY OthersNamed
  <2> QED  BY <2>1 DEF NewNamed, RowsNamed, FamiliesStay
<1>4. MembersIn(DOMAIN db')
  <2>1. ASSUME NEW W, Writes(W), W \cap (MemberRows \ {"PORT"}) = {} PROVE MembersIn(DOMAIN db')
    <3>1. \A r : r[1] \in MemberRows => (r \in DOMAIN db' <=> r \in DOMAIN db)
      BY <1>1, <2>1 DEF Writes, Within, Same
    <3> QED  BY <3>1, SameMembers DEF FamiliesStay
  <2>2. CASE Leaves(RoleRows)
    <3>1. \A r : r[1] \in MemberRows => (r \in DOMAIN db' <=> r \in DOMAIN db)
      BY <2>2 DEF Leaves, Beside, Same, RoleRows, MemberRows
    <3> QED  BY <3>1, SameMembers DEF FamiliesStay
  <2>3. CASE PortStep \/ FitStep
    BY <2>3, PortsSameRows DEF FamiliesStay
  <2>4. CASE OwnsStep
    BY <2>1, <2>4, OwnsWrites DEF OwnTables, VrfTables, MemberRows
  <2>5. CASE MirrorStep
    BY <2>1, <2>5, MirrorWrites DEF MemberRows
  <2> QED  BY <2>2, <2>3, <2>4, <2>5, RoleWriters, MembersOfVlans, MembersOfLags, LagsOfMembers DEF FamiliesStay
<1> QED  BY <1>1, <1>2, <1>3, <1>4 DEF FamiliesStay

\* "pfc config asymmetric" writes the row of a port that may not be there: but where there is no port to
\* break out, that makes no family less whole.
Sound == "pfc" \in area.groups => \A p \in DOMAIN Modes : BreakoutRow(p) \notin DOMAIN area.start
NoModes == "pfc" \in area.groups => \A p \in DOMAIN Modes : ~Has(BreakoutRow(p))

LEMMA FamiliesOfPfc ==
  ASSUME FamiliesStay, NoModes, AsymStep
  PROVE  FamiliesStay' /\ SameModes
<1>1. PICK p, status : PfcAsymmetric(p, status)
  BY DEF AsymStep
<1>2. /\ job = None /\ job' = None /\ "pfc" \in area.groups
      /\ db' = ModEntry(db, <<"PORT", p>>, [pfc_asym |-> status])
  BY <1>1 DEF PfcAsymmetric, Use, Become
<1>3. DOMAIN db' = DOMAIN db \cup {<<"PORT", p>>}
  BY <1>2 DEF ModEntry, :>, @@
<1>4. SameModes
  BY <1>3 DEF SameModes, Has, BreakoutRow
<1>5. PlanStay' /\ WholeFamilies'
  BY <1>2, <1>4 DEF PlanStay, WholeFamilies, Doing, SameModes, NoModes
<1>6. RowsNamed'
  BY <1>3 DEF RowsNamed, FamiliesStay
<1>7. MembersIn(DOMAIN db')
  BY <1>3, MoreMembers DEF FamiliesStay
<1> QED  BY <1>4, <1>5, <1>6, <1>7 DEF FamiliesStay

LEMMA FamiliesKeep ==
  ASSUME FamiliesStay, NoModes, BreakoutJobFits, [Next]_vars
  PROVE  FamiliesStay' /\ NoModes'
<1>1. FamiliesStay' /\ SameModes
  BY FamiliesOfOthers, FamiliesOfPfc, FamiliesOfBreakout
<1>2. area' = area
  BY AreaStays
<1> QED  BY <1>1, <1>2 DEF NoModes, SameModes

----------------------------------------------------------------------------
(* The VRF of an interface is there, also while a bind waits.              *)

Known(v) == v \in {Blank, "mgmt"} \/ Has(<<"VRF", v>>)
BoundStay == \A i \in Routed \ Subs : Has(Own(i)) => Known(VrfOf(db[Own(i)]))
BindFits ==
    Doing("bind") => \E i, f : job = [kind |-> "bind", of |-> i, fields |-> f] /\ (i \notin Subs => Known(VrfOf(f)))

LEMMA VrfIs ==
  ASSUME NEW i
  PROVE  Vrf(i) = IF Has(Own(i)) THEN VrfOf(db[Own(i)]) ELSE Blank
  BY NoFieldsFact DEF Vrf, Field, Entry, VrfOf, Blank

LEMMA BoundFits == ASSUME BoundStay
  PROVE \A i \in Routed \ Subs : Vrf(i) \notin {Blank, "mgmt"} => Has(<<"VRF", Vrf(i)>>)
  BY VrfIs DEF BoundStay, Known

LEMMA OwnTable == ASSUME NEW i PROVE Own(i)[1] \in OwnTables
  BY OwnFacts

LEMMA BoundKept ==
  ASSUME BoundStay, \A v : Known(v) => Known(v)',
         OwnsRowsTame
  PROVE  BoundStay'
<1> SUFFICES ASSUME NEW i \in Routed \ Subs, Own(i) \in DOMAIN db'
             PROVE  \A v : v = VrfOf(db'[Own(i)]) => Known(v)'
  BY DEF BoundStay, Known, Has
<1>1. RowTame(Own(i), db'[Own(i)])
  BY OwnTable DEF OwnsRowsTame
<1>2. Known(Blank)'
  BY DEF Known
<1> QED  BY <1>1, <1>2 DEF RowTame, BoundStay, Has

\* What is set of a port or a sub-interface is not the VRF.
LEMMA PortsTame == ASSUME PortStep \/ FitStep PROVE OwnsRowsTame
<1>1. ASSUME NEW i, NEW status, AdminStatus(i, status) PROVE OwnsRowsTame
  <2> DEFINE e == [admin_status |-> status]
             g == [r \in {<<"PORT", i>>, <<"PORTCHANNEL", i>>, <<"VLAN_SUB_INTERFACE", i>>} \cap Rows |-> e @@ db[r]]
  <2>1. db' = g @@ db
    BY <1>1 DEF AdminStatus, Become
  <2>2. DOMAIN g \subseteq DOMAIN db /\ \A r \in DOMAIN g : g[r] = e @@ db[r]
    BY DEF Rows
  <2> HIDE DEF g
  <2>3. DOMAIN db' = DOMAIN db /\ \A r \in DOMAIN db' : db'[r] = db[r] \/ db'[r] = e @@ db[r]
    BY <2>1, <2>2 DEF @@
  <2>4. \A d : VrfOf(e @@ d) = VrfOf(d)
    BY DEF VrfOf, @@
  <2> HIDE DEF e
  <2> QED  BY <2>3, <2>4 DEF OwnsRowsTame, RowTame
<1>2. ASSUME NEW x, NEW f, db' = ModEntry(db, x, f), x[1] \in {"PORT", "PORTCHANNEL"} PROVE OwnsRowsTame
  <2>1. \A r \in DOMAIN db' : r[1] \in OwnTables => r \in DOMAIN db /\ db'[r] = db[r]
    BY <1>2 DEF ModEntry, :>, @@, OwnTables
  <2> QED  BY <2>1 DEF OwnsRowsTame, RowTame
<1>3. \A i : <<"PORT", i>>[1] = "PORT" /\ <<"PORTCHANNEL", i>>[1] = "PORTCHANNEL"
  OBVIOUS
<1>4. ASSUME NEW p, NEW x, SetFec(p, x) \/ SetSpeed(p, x) \/ SetMtu(p, x) PROVE OwnsRowsTame
  <2>1. \E f : db' = ModEntry(db, <<"PORT", p>>, f)
    BY <1>4 DEF SetFec, SetSpeed, SetMtu, Become
  <2> QED  BY <1>2, <1>3, <2>1
<1>5. ASSUME NEW p, NEW f, NEW x, SetCapability(p, f, x) \/ SetTransceiver(p, f, x) PROVE OwnsRowsTame
  <2>1. \E g : db' = ModEntry(db, <<"PORT", p>>, g)
    BY <1>5 DEF SetCapability, SetTransceiver, Become
  <2> QED  BY <1>2, <1>3, <2>1
<1>6. ASSUME NEW i, NEW t, SetTpid(i, t) PROVE OwnsRowsTame
  <2>1. \E x, f : db' = ModEntry(db, x, f) /\ x[1] \in {"PORT", "PORTCHANNEL"}
    BY <1>3, <1>6 DEF SetTpid, Become
  <2> QED  BY <1>2, <2>1
<1> QED  BY <1>1, <1>4, <1>5, <1>6 DEF PortStep, FitStep

LEMMA OthersTame ==
  ASSUME BreakoutJobFits, ~BreakoutNext, ~VrfStep, ~BindStep, [Next]_vars
  PROVE  OwnsRowsTame
<1>1. ASSUME OwnsTame PROVE OwnsRowsTame
  BY <1>1 DEF OwnsTame, OwnsRowsTame
<1>2. CASE Leaves(RoleRows)
  <2>1. Leaves(OwnTables)
    BY <1>2, RoleTables, LeavesLess
  <2> QED  BY <1>1, <2>1, TameLeft
<1>3. CASE MemberStep \/ LagMemberStep \/ MirrorStep \/ LagStep \/ AsymStep
  <2>1. Leaves(OwnTables)
    BY <1>3, MemberWrites, LagMemberWrites, MirrorWrites, LagWrites, AsymWrites, WritesLeave DEF OwnTables
  <2> QED  BY <1>1, <2>1, TameLeft
<1>4. CASE PortStep \/ FitStep
  BY <1>4, PortsTame
<1>5. CASE AddressStep \/ RoutedStep \/ LinkLocalStep \/ OwnStep \/ ZoneStep
  BY <1>1, <1>5, TameAddresses, TameLinkLocal, TameOwns
<1> QED  BY <1>2, <1>3, <1>4, <1>5, RoleWriters DEF OwnsStep

\* Only "vrf del" takes a VRF, and with it the interfaces that have it.
LEMMA KnownKept ==
  ASSUME BreakoutJobFits, ~VrfStep, [Next]_vars
  PROVE  \A v : Known(v) => Known(v)'
<1>1. ASSUME \A v : Has(<<"VRF", v>>) => Has(<<"VRF", v>>)' PROVE \A v : Known(v) => Known(v)'
  BY <1>1 DEF Known
<1>2. CASE Leaves({"VRF"})
  BY <1>1, <1>2, LeavesReads
<1>3. CASE VniStep
  <2>1. \E v, n : db' = ModEntry(db, <<"VRF", v>>, [vni |-> n])
    BY <1>3 DEF VniStep, DelVrfVniMap, AddVrfVniMap, Become
  <2>2. DOMAIN db \subseteq DOMAIN db'
    BY <2>1 DEF ModEntry, :>, @@
  <2> QED  BY <1>1, <2>2 DEF Has
<1>4. CASE Leaves(LinkTables)
  BY <1>2, <1>4, LeavesLess DEF LinkTables
<1>5. CASE VlanStep \/ SyslogStep \/ TunnelStep \/ MapStep \/ RouteStep
  BY <1>2, <1>5, VlanWrites, SyslogWrites, TunnelWrites, MapWrites, RouteWrites, WritesLeave
<1> QED  BY <1>3, <1>4, <1>5, LinkWriters

LEMMA BoundOfVrfs == ASSUME BoundStay, VrfStep PROVE BoundStay'
<1>1. ASSUME NEW x, NEW f, x[1] \in VrfTables, db' = SetEntry(db, x, f) \/ db' = ModEntry(db, x, f) PROVE BoundStay'
  <2>1. DOMAIN db' = DOMAIN db \cup {x} /\ \A r \in DOMAIN db : r # x => db'[r] = db[r]
    BY <1>1 DEF SetEntry, ModEntry, :>, @@
  <2>2. \A v : Known(v) => Known(v)'
    BY <2>1 DEF Known, Has
  <2>3. OwnsRowsTame
    BY <1>1, <2>1 DEF OwnsRowsTame, RowTame, VrfTables, OwnTables
  <2> QED  BY <2>2, <2>3, BoundKept
<1>2. MgmtVrf[1] \in VrfTables /\ \A v : <<"VRF", v>>[1] \in VrfTables
  BY DEF MgmtVrf, VrfTables
<1>3. ASSUME NEW v, AddVrf(v) PROVE BoundStay'
  <2>1. db' = ModEntry(db, MgmtVrf, [mgmtVrfEnabled |-> "true"]) \/ db' = SetEntry(db, <<"VRF", v>>, NoFields)
    BY <1>3 DEF AddVrf, Become
  <2> QED  BY <1>1, <1>2, <2>1
<1>4. ASSUME NEW v, DelVrf(v) PROVE BoundStay'
  <2>1. CASE v = "mgmt"
    <3>1. db' = ModEntry(db, MgmtVrf, [mgmtVrfEnabled |-> "false"])
      BY <1>4, <2>1 DEF DelVrf, Become
    <3> QED  BY <1>1, <1>2, <3>1
  <2>2. CASE v # "mgmt"
    <3> DEFINE S == {<<"VRF", v>>} \cup {Own(i) : i \in BoundTo(v)} \cup UNION {AddressRows(i) : i \in BoundTo(v)}
    <3>1. db' = Without(db, S)
      BY <1>4, <2>2 DEF DelVrf, Become
    <3>2. \A r \in S : r = <<"VRF", v>> \/ r[1] \in OwnTables
      BY OwnFacts
    <3>3. \A w : w # v => <<"VRF", w>> \notin S
      BY <3>2 DEF OwnTables
    <3>4. \A i \in BoundTo(v) : Own(i) \in S
      OBVIOUS
    <3> HIDE DEF S
    <3>5. DOMAIN db' = DOMAIN db \ S /\ \A r \in DOMAIN db' : db'[r] = db[r]
      BY <3>1 DEF Without
    <3>6. \A w : w # v /\ Known(w) => Known(w)'
      BY <3>3, <3>5 DEF Known, Has
    <3>7. ASSUME NEW i \in Routed \ Subs, Own(i) \in DOMAIN db' PROVE \A w : w = VrfOf(db'[Own(i)]) => Known(w)'
      <4>1. Own(i) \in DOMAIN db /\ i \notin BoundTo(v) /\ db'[Own(i)] = db[Own(i)]
        BY <3>4, <3>5, <3>7
      <4>2. VrfOf(db[Own(i)]) # v /\ Known(VrfOf(db[Own(i)]))
        BY <4>1, VrfIs DEF BoundTo, BoundStay, Has
      <4> QED  BY <3>6, <4>1, <4>2
    <3> QED  BY <3>7 DEF BoundStay, Known, Has
  <2> QED  BY <2>1, <2>2
<1> QED  BY <1>3, <1>4 DEF VrfStep

LEMMA BoundOfBind == ASSUME BoundStay, BindFits, BreakoutJobFits, BindStep, [Next]_vars PROVE BoundStay' /\ BindFits'
<1>1. \A v : Has(<<"VRF", v>>)' <=> Has(<<"VRF", v>>)
  <2>1. Leaves({"VRF"})
    BY BindWrites, WritesLeave DEF OwnTables
  <2> QED  BY <2>1, LeavesReads
<1>2. \A v : Known(v)' <=> Known(v)
  BY <1>1 DEF Known
<1>3. ASSUME NEW S, db' = Without(db, S) PROVE BoundStay'
  <2>1. OwnsTame
    BY <1>3, TameLess
  <2> QED  BY <1>2, <2>1, BoundKept DEF OwnsTame, OwnsRowsTame
<1>4. CASE Rebind
  <2>1. PICK i, f : job = [kind |-> "bind", of |-> i, fields |-> f] /\ (i \notin Subs => Known(VrfOf(f)))
    BY <1>4 DEF Rebind, BindFits
  <2>2. db' = SetEntry(db, Own(i), f) /\ job' = None
    BY <1>4, <2>1 DEF Rebind
  <2>3. DOMAIN db' = DOMAIN db \cup {Own(i)} /\ db'[Own(i)] = f /\ \A r \in DOMAIN db : r # Own(i) => db'[r] = db[r]
    BY <2>2 DEF SetEntry, :>, @@
  <2>4. ASSUME NEW j \in Routed \ Subs, Own(j) \in DOMAIN db' PROVE Known(VrfOf(db'[Own(j)]))
    BY <2>1, <2>3, <2>4, OwnNames DEF BoundStay, Has
  <2> QED  BY <1>2, <2>2, <2>4 DEF BoundStay, BindFits, Doing, Has
<1>5. ASSUME NEW i, NEW v, BindVrf(i, v) PROVE BoundStay' /\ BindFits'
  <2> DEFINE g == IF i \in Subs THEN [vrf_name |-> v] @@ Entry(Own(i)) ELSE [vrf_name |-> v]
  <2>1. PICK f : f = g
    OBVIOUS
  <2>2. db' = Without(db, {Own(i)} \cup AddressRows(i)) /\ job' = [kind |-> "bind", of |-> i, fields |-> f] /\ VrfExists(v)
    BY <1>5, <2>1 DEF BindVrf, Wait
  <2>3. i \notin Subs => Known(VrfOf(f))
    BY <2>1, <2>2 DEF VrfOf, Known, VrfExists
  <2>4. BindFits'
    BY <1>2, <2>2, <2>3 DEF BindFits
  <2> QED  BY <1>3, <2>2, <2>4
<1>6. ASSUME NEW i, UnbindVrf(i) PROVE BoundStay' /\ BindFits'
  <2>1. \E S : db' = Without(db, S)
    BY <1>6 DEF UnbindVrf, Wait, Become
  <2>2. job = None /\ (job' = job \/ (i \in Subs /\ \E f : job' = [kind |-> "bind", of |-> i, fields |-> f]))
    BY <1>6 DEF UnbindVrf, Wait, Become, Use
  <2> QED  BY <1>3, <2>1, <2>2 DEF BindFits, Doing
<1> QED  BY <1>4, <1>5, <1>6 DEF BindStep

\* A bind that waits is of a VRF that stays: no other command runs.
LEMMA BindWaits ==
  ASSUME BindFits, BreakoutJobFits, ~BindStep, [Next]_vars
  PROVE  BindFits'
<1>1. CASE Idle
  <2>1. \A v : Known(v)' <=> Known(v)
    BY <1>1 DEF Idle, Known, Has
  <2> QED  BY <1>1, <2>1 DEF Idle, BindFits, Doing
<1>2. CASE Calm
  BY <1>2 DEF Calm, BindFits, Doing
<1>3. CASE QosStep
  <2>1. job = None \/ job.kind \in {"qos", "ports"}
    BY <1>3 DEF QosStep, ClearQos, ReloadQos, WriteQos, ReloadPorts, WritePorts, Doing, Use
  <2>2. \/ job' = job \/ job' = None
        \/ \E dry : job' = [kind |-> "qos", dry |-> dry] \/ \E ps : job' = [kind |-> "ports", of |-> ps, dry |-> dry]
    BY <1>3 DEF QosStep, ClearQos, ReloadQos, WriteQos, ReloadPorts, WritePorts, Become
  <2>3. job' = job \/ job' = None \/ job'.kind = "qos" \/ job'.kind = "ports"
    BY <2>2
  <2> QED  BY <2>1, <2>3 DEF BindFits, Doing
<1>4. CASE FeatureStep
  <2>1. job' = None \/ \E f, x : job' = [kind |-> "feature", of |-> f, state |-> x]
    BY <1>4 DEF FeatureStep, SetFeatureState, FeatureReached
  <2>2. job' = None \/ job'.kind = "feature"
    BY <2>1
  <2> QED  BY <2>2 DEF BindFits, Doing
<1>5. CASE BreakoutNext
  <2>1. ASSUME NEW p, NEW mode, NEW force, NEW load, Breakout(p, mode, force, load)
        PROVE  job'.kind = "breakout"
    BY <2>1 DEF Breakout
  <2>2. BreakoutDelete => job' = [job EXCEPT !.at = "asic"] /\ BreakoutJob
    BY DEF BreakoutDelete, BreakoutJobFits
  <2>3. BreakoutDelete => job'.kind = "breakout"
    BY <2>2 DEF BreakoutJob
  <2>4. BreakoutAdd \/ BreakoutTimesOut => job' = None
    BY DEF BreakoutAdd, BreakoutTimesOut
  <2> QED  BY <1>5, <2>1, <2>3, <2>4 DEF BindFits, Doing, BreakoutNext
<1>6. Idle \/ Calm \/ QosStep \/ FeatureStep \/ BreakoutNext
  <2>1. CASE vars' = vars
    BY <2>1 DEF vars, Idle, Daemons
  <2>2. CASE Next
    BY <2>2, InterfacesCalm, BuffersCalm, ServicesCalm, TrafficCalm, PoliciesCalm DEF Next
  <2> QED  BY <2>1, <2>2
<1> QED  BY <1>1, <1>2, <1>3, <1>4, <1>5, <1>6

LEMMA BoundKeeps ==
  ASSUME FamiliesStay, BoundStay, BindFits, BreakoutJobFits, [Next]_vars
  PROVE  BoundStay' /\ BindFits'
<1>1. CASE BindStep
  BY <1>1, BoundOfBind
<1>2. CASE VrfStep /\ ~BindStep
  BY <1>2, BoundOfVrfs, BindWaits
<1>3. CASE ~VrfStep /\ ~BindStep
  <2>1. \A v : Known(v) => Known(v)'
    BY <1>3, KnownKept
  <2>2. OwnsRowsTame
    BY <1>3, OthersTame, FamiliesOfBreakout
  <2> QED  BY <1>3, <2>1, <2>2, BoundKept, BindWaits
<1> QED  BY <1>1, <1>2, <1>3

\* A behaviour begins with whole families.
LEMMA FamiliesStart ==
  ASSUME Init
  PROVE  FamiliesStay
<1>1. KeysOf("VLAN_MEMBER") = {} /\ KeysOf("PORTCHANNEL_MEMBER") = {}
  BY StartEmpty DEF FoundTables, QosTables
<1>2. MembersIn(DOMAIN db)
  BY <1>1 DEF MembersIn, KeysOf, Rows
<1>3. PlanStay
  BY DEF Init, PlanStay, Doing
<1>4. RowsNamed
  <2>1. ASSUME NEW r \in Rows
        PROVE  /\ r[1] \notin {"PORTCHANNEL", "VLAN_SUB_INTERFACE", "LOOPBACK_INTERFACE"}
               /\ r[1] = "PORT" => r = <<"PORT", r[2]>>
    <3>1. CASE r[1] \in FoundTables \cup QosTables
      BY <3>1 DEF FoundTables, QosTables
    <3>2. CASE \E p \in Ports : r = <<"PORT", p>>
      BY <3>2
    <3> QED  BY <2>1, <3>1, <3>2, StartRows
  <2> QED  BY <2>1 DEF RowsNamed, Rows
<1>5. WholeFamilies
  <2> SUFFICES ASSUME NEW p \in DOMAIN Modes, Has(BreakoutRow(p))
               PROVE  PortsOf(DOMAIN db, p) = DOMAIN Modes[p][CurrentMode(p)]
    BY DEF WholeFamilies
  <2> DEFINE r == BreakoutRow(p)
             ports == [x \in {<<"PORT", q>> : q \in On(Ports)} |->
                         [admin_status |-> "up", mtu |-> "9100", speed |-> "40G"]]
  <2>1. area \in Areas /\ db = area.start @@ ports
    BY DEF Init
  <2>2. DOMAIN db = DOMAIN area.start \cup DOMAIN ports
    BY <2>1, MergeFacts
  <2>3. \A q : <<"PORT", q>> \notin DOMAIN area.start
    <3>1. \A x \in DOMAIN area.start : x[1] # "PORT"
      BY <2>1, AreasAssumption DEF FoundTables, QosTables
    <3> QED  BY <3>1
  <2>4. \A q : <<"PORT", q>> \in DOMAIN db <=> q \in Ports \cap area.on
    BY <2>2, <2>3 DEF On
  <2>5. r[1] = "BREAKOUT_CFG" /\ r \in Rows
    BY DEF BreakoutRow, Has, Rows
  <2>6. r \in DOMAIN area.start /\ db[r] = area.start[r]
    <3>1. ~\E q \in Ports : r = <<"PORT", q>>
      BY <2>5
    <3> HIDE DEF r
    <3> QED  BY <2>5, <3>1, StartRows
  <2>7. /\ "brkout_mode" \in DOMAIN area.start[r] /\ area.start[r].brkout_mode \in DOMAIN Modes[p]
        /\ Family(p) \cap Ports \cap area.on = DOMAIN Modes[p][area.start[r].brkout_mode]
    BY <2>1, <2>6, AreasAssumption
  <2>8. CurrentMode(p) = area.start[r].brkout_mode
    <3>1. Entry(r) = area.start[r]
      BY <2>5, <2>6 DEF Entry, Has, Rows
    <3> HIDE DEF r
    <3>2. Field(r, "brkout_mode") = area.start[r].brkout_mode
      BY <2>6, <2>7, <3>1 DEF Field, Blank
    <3> QED  BY <3>2 DEF CurrentMode, r
  <2>9. PortsOf(DOMAIN db, p) = Family(p) \cap Ports \cap area.on
    BY <2>4 DEF PortsOf
  <2> QED  BY <2>7, <2>8, <2>9
<1> QED  BY <1>2, <1>3, <1>4, <1>5 DEF FamiliesStay

LEMMA FamiliesAreWhole == ASSUME FamiliesStay PROVE PortsWhole
<1>1. ASSUME NEW p \in DOMAIN Modes, job = None, Has(BreakoutRow(p))
      PROVE  {q \in Family(p) : Has(<<"PORT", q>>)} \in {{}, DOMAIN Modes[p][CurrentMode(p)]}
  BY <1>1 DEF FamiliesStay, WholeFamilies, PortsOf, Has, Doing
<1>2. \A r \in KeysOf("VLAN_MEMBER") \cup KeysOf("PORTCHANNEL_MEMBER") : IsPort(db, r[3])
  BY DEF FamiliesStay, MembersIn, KeysOf, Rows, IsPort
<1> QED  BY <1>1, <1>2 DEF PortsWhole

LinksStay == FamiliesStay /\ NoModes /\ BoundStay /\ BindFits /\ MapsStay /\ SyslogStay /\ RoutesStay

LEMMA LinksStart ==
  ASSUME Init
  PROVE  BreakoutJobFits /\ (Sound => LinksStay)
<1>1. /\ KeysOf(Maps4) = {} /\ KeysOf("VXLAN_EVPN_NVO") = {} /\ KeysOf("VRF") = {}
      /\ KeysOf("SYSLOG_SERVER") = {} /\ KeysOf("STATIC_ROUTE") = {}
  BY StartEmpty DEF FoundTables, QosTables, Maps4
<1>2. \A t \in OwnTables : KeysOf(t) = {}
  BY StartEmpty DEF FoundTables, QosTables, OwnTables
<1>3. \A i : ~Has(Own(i))
  BY <1>2, OwnFacts DEF Own, KeysOf, Has, Rows
<1>4. BoundStay /\ BindFits
  BY <1>3 DEF BoundStay, BindFits, Init, Doing
<1>5. MapsStay /\ SyslogStay /\ RoutesStay
  BY <1>1 DEF MapsStay, MapsShaped, MapsUnique, MapsResolve, NvosResolve, VnisMapped, SyslogStay, RoutesStay
<1>6. Sound => NoModes
  <2> SUFFICES ASSUME Sound, "pfc" \in area.groups, NEW p \in DOMAIN Modes, Has(BreakoutRow(p)) PROVE FALSE
    BY DEF NoModes
  <2>1. BreakoutRow(p) \in Rows /\ BreakoutRow(p)[1] = "BREAKOUT_CFG" /\ ~\E q \in Ports : BreakoutRow(p) = <<"PORT", q>>
    BY DEF BreakoutRow, Has, Rows
  <2> QED  BY <2>1, StartRows DEF Sound
<1> QED  BY <1>4, <1>5, <1>6, FamiliesStart, BreakoutStart DEF LinksStay

LEMMA LinksResolve ==
  ASSUME LinksStay
  PROVE  ReferencesResolve
<1>1. RoutesAligned /\ PortsWhole
  BY RoutesAreAligned, FamiliesAreWhole DEF LinksStay
<1>2. \A i \in Routed \ Subs : Vrf(i) \notin {"", "mgmt"} => Has(<<"VRF", Vrf(i)>>)
  <2>1. \A i \in Routed \ Subs : Vrf(i) \notin {Blank, "mgmt"} => Has(<<"VRF", Vrf(i)>>)
    BY BoundFits DEF LinksStay
  <2> QED  BY <2>1, Zenon DEF Blank
<1>3. \A r \in KeysOf("SYSLOG_SERVER") : Field(r, "vrf") \in {"", "default"} \/ VrfExists(Field(r, "vrf"))
  BY SyslogFits, Zenon DEF LinksStay
<1>4. MapsResolve /\ NvosResolve /\ VnisMapped /\ MapsUnique
  BY DEF LinksStay, MapsStay
<1> QED  BY <1>1, <1>2, <1>3, <1>4, Zenon DEF ReferencesResolve, MapsResolve, NvosResolve, VnisMapped, MapsUnique, Maps4

\* Whatever commands are called, in whatever order: the VRF of an interface and of a syslog server, the map of a
\* VNI, the VLAN and the tunnel of a map, and the tunnel of an endpoint are there; VLANs and VNIs are mapped once;
\* the lists of a static route are aligned; members are of ports that are there; and what can be broken out has
\* the ports of the mode that is written, or none (config vrf, vxlan, syslog, route, interface breakout).
THEOREM ReferencesKept == Spec => [](Sound => ReferencesResolve)
<1> DEFINE J == Sound => LinksStay
<1>1. Init => BreakoutJobFits /\ J
  BY LinksStart
<1>2. BreakoutJobFits /\ J /\ [Next]_vars => BreakoutJobFits' /\ J'
  <2> SUFFICES ASSUME BreakoutJobFits, J, [Next]_vars PROVE BreakoutJobFits' /\ J'
    OBVIOUS
  <2>1. BreakoutJobFits'
    BY BreakoutJobStep
  <2>2. Sound' => Sound
    <3>1. area' = area
      BY AreaStays
    <3> QED  BY <3>1 DEF Sound
  <2>3. ASSUME LinksStay PROVE LinksStay'
    <3>1. FamiliesStay' /\ NoModes'
      BY <2>3, FamiliesKeep DEF LinksStay
    <3>2. BoundStay' /\ BindFits'
      BY <2>3, BoundKeeps DEF LinksStay
    <3>3. MapsStay' /\ SyslogStay' /\ RoutesStay'
      BY <2>3, MapsKeep, SyslogKeeps, RoutesKeep DEF LinksStay
    <3> QED  BY <3>1, <3>2, <3>3 DEF LinksStay
  <2> QED  BY <2>1, <2>2, <2>3
<1>3. J => (Sound => ReferencesResolve)
  BY LinksResolve
<1> HIDE DEF J
<1> QED  BY <1>1, <1>2, <1>3, PTL DEF Spec

----------------------------------------------------------------------------
(* What the interface manager sees of a VRF that an interface changes to.   *)

\* The VRF that the row of an interface has is the one that the manager has seen, if it has seen one.
SeenStay ==
    \A i \in Routed \cap DOMAIN switch :
        Has(Own(i)) /\ VrfOf(db[Own(i)]) # Blank => switch[i] \in {Blank, VrfOf(db[Own(i)])}
PlanTame == Doing("breakout") => LoadTame(job.delete) /\ LoadTame(job.add)

LEMMA SwitchWatched == ASSUME [Next]_vars PROVE Daemons
<1>1. ASSUME NEW i, NEW v, BindVrf(i, v) PROVE switch' = switch
  BY <1>1 DEF BindVrf, Wait
<1>2. ASSUME NEW i, UnbindVrf(i) PROVE switch' = switch
  BY <1>2 DEF UnbindVrf, Wait, Become
<1>3. CASE BindStep
  BY <1>1, <1>2, <1>3 DEF BindStep, Rebind, Daemons
<1>4. CASE QosStep
  BY <1>4 DEF QosStep, ClearQos, ReloadQos, WriteQos, ReloadPorts, WritePorts, Become, Daemons
<1>5. CASE FeatureStep
  BY <1>5 DEF FeatureStep, SetFeatureState, FeatureReached, Daemons
<1>6. CASE BreakoutNext
  BY <1>6 DEF BreakoutNext, Breakout, BreakoutDelete, BreakoutAdd, BreakoutTimesOut, Daemons
<1>7. Idle \/ Calm \/ BindStep \/ QosStep \/ FeatureStep \/ BreakoutNext
  <2>1. CASE vars' = vars
    BY <2>1 DEF vars, Idle, Daemons
  <2>2. CASE Next
    BY <2>2, InterfacesCalm, BuffersCalm, ServicesCalm, TrafficCalm, PoliciesCalm DEF Next
  <2> QED  BY <2>1, <2>2
<1> QED  BY <1>3, <1>4, <1>5, <1>6, <1>7 DEF Idle, Calm, Daemons

\* A breakout gives no interface a VRF.
LEMMA BreakoutTame ==
  ASSUME PlanTame, BreakoutJobFits, BreakoutNext
  PROVE  PlanTame' /\ OwnsRowsTame
<1>1. ASSUME NEW p, NEW mode, NEW force, NEW load, Breakout(p, mode, force, load)
      PROVE  PlanTame' /\ OwnsRowsTame
  <2> DEFINE ports == DOMAIN Modes[p][CurrentMode(p)]
             without == DeletePorts(db, ports)
             with == AddPorts(without, Modes[p][mode], load)
             delete == CreateConfigToLoad(db, without)
             add == CreateConfigToLoad(without, with)
             g == [r \in {<<"PORT", q>> : q \in ports} |-> [admin_status |-> "down"] @@ db[r]]
  <2>1. /\ db' = g @@ db
        /\ job' = [kind |-> "breakout", at |-> "delete", of |-> p, mode |-> mode, delete |-> delete, add |-> add]
    BY <1>1 DEF Breakout, ShutdownIntf
  <2>2. LoadTame(delete) /\ LoadTame(add)
    BY DeleteTame, AddTame
  <2>3. \A r \in DOMAIN g : r[1] = "PORT"
    OBVIOUS
  <2> HIDE DEF delete, add, g
  <2>4. PlanTame'
    BY <2>1, <2>2 DEF PlanTame
  <2>5. \A r \in DOMAIN db' : r[1] \in OwnTables => r \in DOMAIN db /\ db'[r] = db[r]
    BY <2>1, <2>3 DEF @@, OwnTables
  <2> QED  BY <2>4, <2>5 DEF OwnsRowsTame, RowTame
<1>2. CASE BreakoutDelete
  <2>1. LoadFits(job.delete) /\ LoadTame(job.delete) /\ LoadTame(job.add)
    BY <1>2 DEF BreakoutDelete, BreakoutJobFits, BreakoutJob, PlanTame
  <2>2. OwnsRowsTame
    BY <1>2, <2>1, LoadWritten DEF BreakoutDelete, OwnsRowsTame
  <2>3. job'.delete = job.delete /\ job'.add = job.add
    BY <1>2 DEF BreakoutDelete, BreakoutJobFits, BreakoutJob
  <2> QED  BY <2>1, <2>2, <2>3 DEF PlanTame
<1>3. CASE BreakoutAdd
  <2>1. PICK d, m : /\ d = WriteConfigDB(db, job.add)
                    /\ db' = SetEntry(d, BreakoutRow(job.of), m) /\ job' = None
    BY <1>3 DEF BreakoutAdd
  <2>2. LoadFits(job.add) /\ LoadTame(job.add)
    BY <1>3 DEF BreakoutAdd, BreakoutJobFits, BreakoutJob, PlanTame
  <2>3. \A r \in DOMAIN d : r[1] \in OwnTables => RowTame(r, d[r])
    BY <2>1, <2>2, LoadWritten
  <2>4. PICK x : x = BreakoutRow(job.of) /\ x[1] = "BREAKOUT_CFG"
    <3>1. \A p : BreakoutRow(p)[1] = "BREAKOUT_CFG"
      BY DEF BreakoutRow
    <3> QED  BY <3>1
  <2>5. DOMAIN db' = DOMAIN d \cup {x} /\ \A r \in DOMAIN d : r # x => db'[r] = d[r]
    BY <2>1, <2>4 DEF SetEntry, :>, @@
  <2>6. \A r \in DOMAIN db' : r[1] \in OwnTables => r \in DOMAIN d /\ db'[r] = d[r]
    BY <2>4, <2>5 DEF OwnTables
  <2> QED  BY <2>1, <2>3, <2>6 DEF OwnsRowsTame, PlanTame, Doing
<1>4. CASE BreakoutTimesOut
  <2>1. db' = db /\ job' = None
    BY <1>4 DEF BreakoutTimesOut
  <2> QED  BY <2>1 DEF PlanTame, Doing, OwnsRowsTame, RowTame
<1> QED  BY <1>1, <1>2, <1>3, <1>4 DEF BreakoutNext

LEMMA PlanTameStep ==
  ASSUME PlanTame, BreakoutJobFits, [Next]_vars
  PROVE  PlanTame'
<1>1. CASE BreakoutNext
  BY <1>1, BreakoutTame
<1>2. CASE ~BreakoutNext
  <2>1. Idle \/ (~Doing("breakout") /\ ~Doing("breakout")')
    BY <1>2, JobOfOthers
  <2>2. CASE Idle
    <3>1. job' = job
      BY <2>2 DEF Idle
    <3> QED  BY <3>1 DEF PlanTame, Doing
  <2> QED  BY <2>1, <2>2 DEF PlanTame
<1> QED  BY <1>1, <1>2

\* No command but the end of a bind gives an interface a VRF that it did not have.
LEMMA VrfsTame == ASSUME VrfStep PROVE OwnsRowsTame
<1>1. ASSUME NEW x, NEW f, x[1] \in VrfTables, db' = SetEntry(db, x, f) \/ db' = ModEntry(db, x, f) PROVE OwnsRowsTame
  <2>1. DOMAIN db' = DOMAIN db \cup {x} /\ \A r \in DOMAIN db : r # x => db'[r] = db[r]
    BY <1>1 DEF SetEntry, ModEntry, :>, @@
  <2> QED  BY <1>1, <2>1 DEF OwnsRowsTame, RowTame, VrfTables, OwnTables
<1>2. MgmtVrf[1] \in VrfTables /\ \A v : <<"VRF", v>>[1] \in VrfTables
  BY DEF MgmtVrf, VrfTables
<1>3. ASSUME NEW v, AddVrf(v) PROVE OwnsRowsTame
  <2>1. db' = ModEntry(db, MgmtVrf, [mgmtVrfEnabled |-> "true"]) \/ db' = SetEntry(db, <<"VRF", v>>, NoFields)
    BY <1>3 DEF AddVrf, Become
  <2> QED  BY <1>1, <1>2, <2>1
<1>4. ASSUME NEW v, DelVrf(v) PROVE OwnsRowsTame
  <2>1. db' = ModEntry(db, MgmtVrf, [mgmtVrfEnabled |-> "false"]) \/ \E S : db' = Without(db, S)
    BY <1>4 DEF DelVrf, Become
  <2> QED  BY <1>1, <1>2, <2>1, TameLess DEF OwnsTame, OwnsRowsTame
<1> QED  BY <1>3, <1>4 DEF VrfStep

LEMMA BindsTame == ASSUME BindStep, ~Rebind PROVE OwnsRowsTame
<1>1. \E S : db' = Without(db, S)
  BY DEF BindStep, BindVrf, UnbindVrf, Wait, Become
<1> QED  BY <1>1, TameLess DEF OwnsTame, OwnsRowsTame

LEMMA OnlyRebindBinds ==
  ASSUME PlanTame, BreakoutJobFits, ~Rebind, [Next]_vars
  PROVE  OwnsRowsTame
  BY OthersTame, VrfsTame, BindsTame, BreakoutTame

LEMMA SeenWhenTame ==
  ASSUME SeenStay, OwnsRowsTame, NEW i \in Routed, i \in DOMAIN switch, Own(i) \in DOMAIN db', VrfOf(db'[Own(i)]) # Blank
  PROVE  switch[i] \in {Blank, VrfOf(db'[Own(i)])}
<1>1. RowTame(Own(i), db'[Own(i)])
  BY OwnTable DEF OwnsRowsTame
<1> QED  BY <1>1 DEF RowTame, SeenStay, Has

LEMMA SeenKeeps ==
  ASSUME SeenStay, PlanTame, BreakoutJobFits, [Next]_vars
  PROVE  SeenStay'
<1> SUFFICES ASSUME NEW i \in Routed, i \in DOMAIN switch', Own(i) \in DOMAIN db', VrfOf(db'[Own(i)]) # Blank
             PROVE  switch'[i] \in {Blank, VrfOf(db'[Own(i)])}
  BY DEF SeenStay, Has
<1>1. CASE Rebind
  <2>1. PICK j, f : j \notin DOMAIN switch /\ db' = SetEntry(db, Own(j), f) /\ switch' = switch
    BY <1>1 DEF Rebind
  <2>2. Own(i) # Own(j)
    BY <2>1, OwnNames
  <2>3. Own(i) \in DOMAIN db /\ db'[Own(i)] = db[Own(i)]
    BY <2>1, <2>2 DEF SetEntry, :>, @@
  <2> QED  BY <2>1, <2>3 DEF SeenStay, Has
<1>2. CASE switch' = switch /\ ~Rebind
  BY <1>2, OnlyRebindBinds, SeenWhenTame
<1>3. ASSUME NEW f \in Features, FeatureDaemon(f) PROVE switch'[i] \in {Blank, VrfOf(db'[Own(i)])}
  <2>1. db' = db /\ (\E s : switch' = (f :> s) @@ switch) /\ i # f
    BY <1>3, StateAssumption DEF FeatureDaemon
  <2>2. i \in DOMAIN switch /\ switch'[i] = switch[i]
    BY <2>1 DEF :>, @@
  <2> QED  BY <2>1, <2>2 DEF SeenStay, Has
<1>4. ASSUME NEW j \in Routed, InterfaceManager(j) PROVE switch'[i] \in {Blank, VrfOf(db'[Own(i)])}
  <2>1. db' = db /\ switch' = IF Has(Own(j)) THEN (j :> Vrf(j)) @@ switch ELSE Without(switch, {j})
    BY <1>4 DEF InterfaceManager
  <2>2. CASE i = j
    <3>1. switch'[i] = Vrf(i)
      BY <2>1, <2>2 DEF Has, :>, @@
    <3> QED  BY <2>1, <3>1, VrfIs DEF Has
  <2>3. CASE i # j
    <3>1. i \in DOMAIN switch /\ switch'[i] = switch[i]
      BY <2>1, <2>3 DEF Without, :>, @@
    <3> QED  BY <2>1, <3>1 DEF SeenStay, Has
  <2> QED  BY <2>2, <2>3
<1> QED  BY <1>1, <1>2, <1>3, <1>4, SwitchWatched DEF Daemons

\* A step that shows the manager an interface in a VRF showed it in no other before.
MovesNot == \A i \in Routed \cap DOMAIN switch : i \in DOMAIN switch' /\ switch'[i] # "" => switch[i] \in {"", switch'[i]}

LEMMA SeenMoves ==
  ASSUME SeenStay, [Next]_vars
  PROVE  MovesNot
<1> SUFFICES ASSUME NEW i \in Routed, i \in DOMAIN switch, i \in DOMAIN switch', switch'[i] # Blank
             PROVE  switch[i] \in {Blank, switch'[i]}
  BY DEF MovesNot, Blank
<1>1. CASE switch' = switch
  BY <1>1
<1>2. ASSUME NEW f \in Features, FeatureDaemon(f) PROVE switch'[i] = switch[i]
  <2>1. (\E s : switch' = (f :> s) @@ switch) /\ i # f
    BY <1>2, StateAssumption DEF FeatureDaemon
  <2> QED  BY <2>1 DEF :>, @@
<1>3. ASSUME NEW j \in Routed, InterfaceManager(j) PROVE switch[i] \in {Blank, switch'[i]}
  <2>1. switch' = IF Has(Own(j)) THEN (j :> Vrf(j)) @@ switch ELSE Without(switch, {j})
    BY <1>3 DEF InterfaceManager
  <2>2. CASE i = j
    <3>1. Has(Own(i)) /\ switch'[i] = Vrf(i)
      BY <2>1, <2>2 DEF Without, :>, @@
    <3>2. Vrf(i) = VrfOf(db[Own(i)])
      BY <3>1, VrfIs
    <3> QED  BY <3>1, <3>2 DEF SeenStay
  <2>3. CASE i # j
    BY <2>1, <2>3 DEF Without, :>, @@
  <2> QED  BY <2>2, <2>3
<1> QED  BY <1>1, <1>2, <1>3, SwitchWatched DEF Daemons

\* Whatever commands are called, the interface manager never sees an interface go from one VRF to another
\* at once: it sees it go, or without a VRF, in between (vrf bind and its wait; vrf unbind, vrf del, mpls).
THEOREM MovesAreSeen == Spec => NeverMoves
<1> DEFINE J == BreakoutJobFits /\ PlanTame /\ SeenStay
<1>1. Init => J
  BY BreakoutStart DEF Init, PlanTame, SeenStay, Doing
<1>2. J /\ [Next]_vars => J' /\ [MovesNot]_vars
  BY BreakoutJobStep, PlanTameStep, SeenKeeps, SeenMoves
<1> HIDE DEF J
<1>3. Spec => [][MovesNot]_vars
  BY <1>1, <1>2, PTL DEF Spec
<1> QED  BY <1>3, Zenon DEF NeverMoves, MovesNot
----------------------------------------------------------------------------
(* Priority groups, PFC and profiles: of a database, and of one port of it. *)

BufferRows == {"BUFFER_PG", "BUFFER_QUEUE", "BUFFER_PROFILE", "PORT_QOS_MAP"}
QosRow(p) == <<"PORT_QOS_MAP", p>>
PortApart(d, p) ==
    \A m, o \in Maps : m # o /\ IdsOf(m) \cap IdsOf(o) # {} =>
        /\ ~(Pg(p, m) \in DOMAIN d /\ Pg(p, o) \in DOMAIN d)
        /\ ~(Queue(p, m) \in DOMAIN d /\ Queue(p, o) \in DOMAIN d)
PortPaused(d, p) ==
    \A m \in Maps :
        Pg(p, m) \in DOMAIN d /\ d[Pg(p, m)].profile # "ingress_lossy_profile" => IdsOf(m) \subseteq PfcEnable(d, p)
PortSame(d, e, p) ==
    (\A m : Same(Pg(p, m), d, e) /\ Same(Queue(p, m), d, e)) /\ Same(QosRow(p), d, e)
PgsShaped(d) == \A r \in DOMAIN d : r[1] = "BUFFER_PG" => "profile" \in DOMAIN d[r]
ProfileWhole(e) ==
    /\ \A f \in DOMAIN e \cap {"xon", "xoff", "size"} : e[f] \in Nat
    /\ "xoff" \in DOMAIN e => e.xoff > 0
    /\ "xon" \in DOMAIN e => {"xoff", "size"} \subseteq DOMAIN e

LEMMA BufferNames ==
  /\ \A p, m : Pg(p, m)[1] = "BUFFER_PG" /\ Queue(p, m)[1] = "BUFFER_QUEUE" /\ QosRow(p)[1] = "PORT_QOS_MAP"
  /\ \A p, m, q, o : Pg(p, m) = Pg(q, o) => p = q /\ m = o
  /\ \A p, m, q, o : Queue(p, m) = Queue(q, o) => p = q /\ m = o
  /\ \A p, q : QosRow(p) = QosRow(q) => p = q
  /\ \A f : Profile(f)[1] = "BUFFER_PROFILE"
  /\ \A f, g : Profile(f) = Profile(g) => f = g
  BY DEF Pg, Queue, QosRow, Profile

LEMMA ByPort ==
  ASSUME NEW d
  PROVE  /\ NoOverlap(d) <=> \A p \in BufferPorts : PortApart(d, p)
         /\ LosslessIsPaused(d) <=> \A p \in BufferPorts : PortPaused(d, p)
         /\ ProfilesWhole(d) <=> \A r \in DOMAIN d : r[1] = "BUFFER_PROFILE" => ProfileWhole(d[r])
<1>1. NoOverlap(d) <=> \A p \in BufferPorts : PortApart(d, p)
  BY Zenon DEF NoOverlap, PortApart
<1>2. LosslessIsPaused(d) <=> \A p \in BufferPorts : PortPaused(d, p)
  BY Zenon DEF LosslessIsPaused, PortPaused
<1>3. ProfilesWhole(d) <=> \A r \in DOMAIN d : r[1] = "BUFFER_PROFILE" => ProfileWhole(d[r])
  BY Zenon DEF ProfilesWhole, ProfileWhole
<1> QED  BY <1>1, <1>2, <1>3

LEMMA PfcRow ==
  ASSUME NEW d, NEW e, NEW p, Same(QosRow(p), d, e)
  PROVE  QosMap(e, p) = QosMap(d, p) /\ PfcEnable(e, p) = PfcEnable(d, p)
<1>1. QosMap(e, p) = QosMap(d, p)
  BY DEF Same, QosRow, QosMap
<1> QED  BY <1>1 DEF PfcEnable

LEMMA RangesKeep ==
  ASSUME NEW d, NEW e, NEW p, PortSame(d, e, p)
  PROVE  /\ PortApart(d, p) => PortApart(e, p)
         /\ PortPaused(d, p) => PortPaused(e, p)
<1>1. \A m : Pg(p, m) \in DOMAIN e => Pg(p, m) \in DOMAIN d /\ e[Pg(p, m)] = d[Pg(p, m)]
  BY Zenon DEF PortSame, Same
<1>2. \A m : Queue(p, m) \in DOMAIN e => Queue(p, m) \in DOMAIN d
  BY DEF PortSame, Same
<1>3. PfcEnable(e, p) = PfcEnable(d, p)
  BY PfcRow DEF PortSame
<1>4. PortApart(d, p) => PortApart(e, p)
  BY <1>1, <1>2, Zenon DEF PortApart
<1>5. PortPaused(d, p) => PortPaused(e, p)
  BY <1>1, <1>3, Zenon DEF PortPaused
<1> QED  BY <1>4, <1>5

\* What is true of one database is true of one with the same rows.
RowsFit(d) == NoOverlap(d) /\ ProfilesWhole(d) /\ PgsShaped(d)

LEMMA SameBuffers ==
  ASSUME NEW d, NEW e, Beside(BufferRows, d, e)
  PROVE  /\ RowsFit(d) => RowsFit(e)
         /\ LosslessIsPaused(d) => LosslessIsPaused(e)
         /\ PgProfilesResolve(d) => PgProfilesResolve(e)
<1>1. \A p : PortSame(d, e, p)
  BY BufferNames DEF PortSame, Beside, BufferRows
<1>2. NoOverlap(d) => NoOverlap(e)
  BY <1>1, ByPort, RangesKeep
<1>3. LosslessIsPaused(d) => LosslessIsPaused(e)
  BY <1>1, ByPort, RangesKeep
<1>4. \A r : r[1] \in BufferRows /\ r \in DOMAIN e => r \in DOMAIN d /\ e[r] = d[r]
  BY DEF Beside, Same
<1>5. \A r \in DOMAIN e : r[1] \in {"BUFFER_PG", "BUFFER_PROFILE"} => r \in DOMAIN d /\ e[r] = d[r]
  BY <1>4 DEF BufferRows
<1>6. ProfilesWhole(d) => ProfilesWhole(e)
  BY <1>5, ByPort
<1>7. PgsShaped(d) => PgsShaped(e)
  BY <1>5 DEF PgsShaped
<1>8. PgProfilesResolve(d) => PgProfilesResolve(e)
  <2>1. \A f : Profile(f) \in DOMAIN d => Profile(f) \in DOMAIN e
    BY BufferNames DEF Beside, Same, BufferRows
  <2> QED  BY <1>5, <2>1 DEF PgProfilesResolve
<1> QED  BY <1>2, <1>3, <1>6, <1>7, <1>8 DEF RowsFit

LEMMA NoBuffers ==
  ASSUME NEW e, \A r \in DOMAIN e : r[1] \notin BufferRows
  PROVE  RowsFit(e) /\ LosslessIsPaused(e) /\ PgProfilesResolve(e)
<1>1. \A p, m : Pg(p, m) \notin DOMAIN e /\ Queue(p, m) \notin DOMAIN e
  BY BufferNames DEF BufferRows
<1>2. \A r \in DOMAIN e : r[1] # "BUFFER_PG" /\ r[1] # "BUFFER_PROFILE"
  BY DEF BufferRows
<1> QED  BY <1>1, <1>2 DEF RowsFit, NoOverlap, LosslessIsPaused, PgProfilesResolve, ProfilesWhole, PgsShaped

LEMMA BufferWriters ==
  ASSUME BreakoutJobFits, [Next]_vars
  PROVE  Leaves(BufferRows) \/ PgStep \/ QueueStep \/ ProfileStep \/ QosStep \/ PfcStep \/ AlphaStep
<1>1. CASE Writes(InterfaceTables)
  BY <1>1, WritesLeave DEF InterfaceTables, OwnTables, PortTables, VxlanTables, VrfTables, BufferRows
<1>2. CASE Writes(BreakoutTables)
  BY <1>2, WritesLeave DEF BreakoutTables, BufferRows
<1>3. CASE Writes(TrafficTables)
  BY <1>3, WritesLeave DEF TrafficTables, NatTables, OwnTables, BufferRows
<1>4. CASE Writes(ServiceTables)
  BY <1>4, WritesLeave DEF ServiceTables, PlainTables, MclagTables, BufferRows
<1>5. CASE Writes({"CABLE_LENGTH"}) \/ Writes({"BUFFER_POOL", "DEFAULT_LOSSLESS_BUFFER_PARAMETER"})
           \/ Writes({"DSCP_TO_FC_MAP"}) \/ Writes({"PORT"}) \/ Writes({"PFC_WD"})
  BY <1>5, WritesLeave DEF BufferRows
<1>6. CASE BuffersNext
  BY <1>5, <1>6, BufferSteps, CableWrites, PoolWrites, CbfWrites, AsymWrites, WatchWrites
<1>7. CASE Writes(PbhTables) \/ Writes(NvgreTables) \/ Writes(DropTables) \/ Writes(KnobTables) \/ Writes({"WRED_PROFILE"})
  BY <1>7, WritesLeave DEF PbhTables, NvgreTables, DropTables, KnobTables, BufferRows
<1>8. CASE PoliciesNext
  BY <1>7, <1>8, PolicySteps, PbhWrites, NvgreWrites, DropCounterWrites, WredWrites, SupportWrites, MuxWrites,
     QueuesWrites, PollWrites
<1>9. CASE Idle
  <2>1. Writes({})
    BY <1>9, NothingWrites DEF Idle
  <2> QED  BY <2>1, WritesLeave
<1> QED  BY <1>1, <1>2, <1>3, <1>4, <1>6, <1>8, <1>9, NextWrites

LEMMA PfcDomain == ASSUME NEW d, NEW p, NEW ids PROVE DOMAIN WithPfc(d, p, ids) = DOMAIN d \cup {QosRow(p)}
  BY DEF WithPfc, SetEntry, :>, @@, QosRow

LEMMA PfcOthers ==
  ASSUME NEW d, NEW p, NEW ids, NEW s \in DOMAIN d, s # QosRow(p)
  PROVE  WithPfc(d, p, ids)[s] = d[s]
  BY DEF WithPfc, SetEntry, :>, @@, QosRow

LEMMA PfcIds == ASSUME NEW d, NEW p, NEW ids PROVE PfcEnable(WithPfc(d, p, ids), p) = ids
<1> DEFINE g == [pfc_enable |-> ids]
           f == g @@ QosMap(d, p)
           e == WithPfc(d, p, ids)
<1>1. e = SetEntry(d, QosRow(p), f)
  BY DEF WithPfc, QosRow
<1>2. "pfc_enable" \in DOMAIN f /\ f["pfc_enable"] = ids
  <2>1. "pfc_enable" \in DOMAIN g /\ g["pfc_enable"] = ids
    OBVIOUS
  <2> HIDE DEF g
  <2> QED  BY <2>1 DEF @@
<1> HIDE DEF f, e
<1>3. QosRow(p) \in DOMAIN e /\ e[QosRow(p)] = f
  BY <1>1 DEF SetEntry, :>, @@
<1>4. QosMap(e, p) = f
  BY <1>3 DEF QosMap, QosRow
<1>5. PfcEnable(e, p) = ids
  BY <1>2, <1>4 DEF PfcEnable
<1> QED  BY <1>5 DEF e

\* A step that writes priority groups and queues of one port.
LEMMA OnePort ==
  ASSUME NEW p \in BufferPorts, RowsFit(db), PortApart(db', p), PgsShaped(db'),
         \A q : q # p => PortSame(db, db', q),
         \A f : Profile(f) \in DOMAIN db => Profile(f) \in DOMAIN db',
         \A r \in DOMAIN db' : r[1] = "BUFFER_PROFILE" => r \in DOMAIN db /\ db'[r] = db[r]
  PROVE  /\ RowsFit(db')
         /\ LosslessIsPaused(db) /\ PortPaused(db', p) => LosslessIsPaused(db')
<1>1. NoOverlap(db')
  <2>1. \A q \in BufferPorts : PortApart(db, q)
    BY ByPort DEF RowsFit
  <2>2. \A q \in BufferPorts : PortApart(db', q)
    BY <2>1, RangesKeep
  <2> QED  BY <2>2, ByPort
<1>2. ProfilesWhole(db')
  BY ByPort DEF RowsFit
<1>3. ASSUME LosslessIsPaused(db), PortPaused(db', p) PROVE LosslessIsPaused(db')
  <2>1. \A q \in BufferPorts : PortPaused(db, q)
    BY <1>3, ByPort
  <2>2. \A q \in BufferPorts : PortPaused(db', q)
    BY <1>3, <2>1, RangesKeep
  <2> QED  BY <2>2, ByPort
<1> QED  BY <1>1, <1>2, <1>3 DEF RowsFit

LEMMA PgComes ==
  ASSUME RowsFit(db), NEW p \in BufferPorts, NEW m \in Maps, NEW f, NEW new, SetPg(p, m, f, new)
  PROVE  /\ RowsFit(db')
         /\ LosslessIsPaused(db) => LosslessIsPaused(db')
         /\ PgProfilesResolve(db) => PgProfilesResolve(db')
<1> DEFINE row == [profile |-> f]
           d == SetEntry(db, Pg(p, m), row)
<1>1. DOMAIN d = DOMAIN db \cup {Pg(p, m)} /\ d[Pg(p, m)] = row /\ \A s \in DOMAIN db : s # Pg(p, m) => d[s] = db[s]
  BY DEF SetEntry, :>, @@
<1>2. db' = WithPfc(d, p, PfcEnable(db, p) \cup IdsOf(m))
  BY DEF SetPg, Become
<1>3. LegalMap({o \in Maps : Has(Pg(p, o))}, m, new) /\ FitsPg(f)
  BY DEF SetPg
<1> HIDE DEF d
<1>4. Pg(p, m) # QosRow(p)
  BY BufferNames
<1>5. /\ DOMAIN db' = DOMAIN db \cup {Pg(p, m), QosRow(p)} /\ db'[Pg(p, m)] = row
      /\ \A s \in DOMAIN db : s # Pg(p, m) /\ s # QosRow(p) => db'[s] = db[s]
      /\ PfcEnable(db', p) = PfcEnable(db, p) \cup IdsOf(m)
  <2>1. DOMAIN db' = DOMAIN d \cup {QosRow(p)}
    BY <1>2, PfcDomain
  <2>2. ASSUME NEW s \in DOMAIN d, s # QosRow(p) PROVE db'[s] = d[s]
    BY <1>2, <2>2, PfcOthers
  <2>3. PfcEnable(db', p) = PfcEnable(db, p) \cup IdsOf(m)
    BY <1>2, PfcIds
  <2> QED  BY <1>1, <1>4, <2>1, <2>2, <2>3
<1>6. \A q : q # p => PortSame(db, db', q)
  BY <1>5, BufferNames DEF PortSame, Same
<1>7. \A r : r[1] \notin {"BUFFER_PG", "PORT_QOS_MAP"} => Same(r, db, db')
  BY <1>5, BufferNames DEF Same
<1>8. PgsShaped(db')
  <2>1. \A r \in DOMAIN db' : r[1] = "BUFFER_PG" => r = Pg(p, m) \/ (r \in DOMAIN db /\ db'[r] = db[r])
    BY <1>5, BufferNames
  <2>2. "profile" \in DOMAIN row
    OBVIOUS
  <2> QED  BY <1>5, <2>1, <2>2 DEF RowsFit, PgsShaped
<1>9. \A o : Pg(p, o) \in DOMAIN db' => o = m \/ (Pg(p, o) \in DOMAIN db /\ db'[Pg(p, o)] = db[Pg(p, o)])
  BY <1>5, BufferNames
<1>10. \A o : Queue(p, o) \in DOMAIN db' => Queue(p, o) \in DOMAIN db
  BY <1>5, BufferNames
<1>11. PortApart(db', p)
  <2>1. PortApart(db, p)
    BY ByPort DEF RowsFit
  <2>2. CASE Pg(p, m) \in DOMAIN db
    BY <1>9, <1>10, <2>1, <2>2 DEF PortApart
  <2>3. CASE Pg(p, m) \notin DOMAIN db
    <3>1. \A o \in Maps : Pg(p, o) \in DOMAIN db => IdsOf(o) \cap IdsOf(m) = {}
      BY <1>3, <2>3 DEF LegalMap, Has
    <3>2. \A o \in Maps : Pg(p, o) \in DOMAIN db => IdsOf(m) \cap IdsOf(o) = {}
      BY <3>1
    <3> QED  BY <1>9, <1>10, <2>1, <3>1, <3>2 DEF PortApart
  <2> QED  BY <2>2, <2>3
<1>12. LosslessIsPaused(db) => PortPaused(db', p)
  <2> SUFFICES ASSUME PortPaused(db, p), NEW o \in Maps, Pg(p, o) \in DOMAIN db',
                      db'[Pg(p, o)].profile # "ingress_lossy_profile"
               PROVE  IdsOf(o) \subseteq PfcEnable(db', p)
    BY ByPort DEF PortPaused
  <2>1. CASE o = m
    BY <1>5, <2>1
  <2>2. CASE o # m
    BY <1>5, <1>9, <2>2 DEF PortPaused
  <2> QED  BY <2>1, <2>2
<1>13. ASSUME PgProfilesResolve(db) PROVE PgProfilesResolve(db')
  <2> SUFFICES ASSUME NEW r \in DOMAIN db', r[1] = "BUFFER_PG"
               PROVE  db'[r].profile = "NULL" \/ Profile(db'[r].profile) \in DOMAIN db'
    BY DEF PgProfilesResolve
  <2>1. CASE r = Pg(p, m)
    BY <1>3, <1>5, <2>1 DEF FitsPg, Has
  <2>2. CASE r # Pg(p, m)
    <3>1. r \in DOMAIN db /\ db'[r] = db[r]
      BY <1>5, <2>2, BufferNames
    <3> QED  BY <1>5, <1>13, <3>1 DEF PgProfilesResolve
  <2> QED  BY <2>1, <2>2
<1>14. /\ \A g : Profile(g) \in DOMAIN db => Profile(g) \in DOMAIN db'
       /\ \A r \in DOMAIN db' : r[1] = "BUFFER_PROFILE" => r \in DOMAIN db /\ db'[r] = db[r]
  BY <1>5, <1>7 DEF Same
<1> QED  BY <1>6, <1>8, <1>11, <1>12, <1>13, <1>14, OnePort

\* Priority groups S of a port go, and PFC pauses what is left of the lossless ones.
LEMMA PgGoes ==
  ASSUME RowsFit(db), NEW p \in BufferPorts, NEW S, NEW ids, db' = WithPfc(Without(db, {Pg(p, m) : m \in S}), p, ids),
         LosslessIsPaused(db) =>
            \A m \in Maps \ S : Pg(p, m) \in DOMAIN db /\ db[Pg(p, m)].profile # "ingress_lossy_profile" => IdsOf(m) \subseteq ids
  PROVE  /\ RowsFit(db')
         /\ LosslessIsPaused(db) => LosslessIsPaused(db')
         /\ PgProfilesResolve(db) => PgProfilesResolve(db')
<1> DEFINE gone == {Pg(p, m) : m \in S}
           d == Without(db, gone)
<1>1. DOMAIN d = DOMAIN db \ gone /\ \A s \in DOMAIN db \ gone : d[s] = db[s]
  BY DEF Without
<1>2. \A r : r \in gone <=> \E m \in S : r = Pg(p, m)
  OBVIOUS
<1>3. db' = WithPfc(d, p, ids)
  OBVIOUS
<1> HIDE DEF gone, d
<1>4. DOMAIN db' = (DOMAIN db \ gone) \cup {QosRow(p)}
  BY <1>1, <1>3, PfcDomain
<1>5. ASSUME NEW s \in DOMAIN db \ gone, s # QosRow(p) PROVE db'[s] = db[s]
  <2>1. s \in DOMAIN d /\ d[s] = db[s]
    BY <1>1
  <2>2. WithPfc(d, p, ids)[s] = d[s]
    BY <1>5, <2>1, PfcOthers
  <2> QED  BY <1>3, <2>1, <2>2
<1>6. PfcEnable(db', p) = ids
  BY <1>3, PfcIds
<1>7. \A r \in gone : r[1] = "BUFFER_PG"
  BY <1>2, BufferNames
<1>8. \A q : q # p => PortSame(db, db', q)
  <2> SUFFICES ASSUME NEW q, q # p PROVE PortSame(db, db', q)
    OBVIOUS
  <2>1. \A m : Pg(q, m) \notin gone /\ Queue(q, m) \notin gone /\ QosRow(q) \notin gone
    BY <1>2, <1>7, BufferNames
  <2>2. \A m : Pg(q, m) # QosRow(p) /\ Queue(q, m) # QosRow(p) /\ QosRow(q) # QosRow(p)
    BY BufferNames
  <2> QED  BY <1>4, <1>5, <2>1, <2>2 DEF PortSame, Same
<1>9. \A r \in DOMAIN db' : r[1] # "PORT_QOS_MAP" => r \in DOMAIN db /\ db'[r] = db[r]
  BY <1>4, <1>5, BufferNames
<1>10. PgsShaped(db')
  BY <1>9 DEF RowsFit, PgsShaped
<1>11. \A m : Pg(p, m) \in DOMAIN db' => Pg(p, m) \in DOMAIN db /\ db'[Pg(p, m)] = db[Pg(p, m)] /\ m \notin S
  BY <1>2, <1>4, <1>9, BufferNames
<1>12. \A m : Queue(p, m) \in DOMAIN db' => Queue(p, m) \in DOMAIN db
  BY <1>9, BufferNames
<1>13. PortApart(db', p)
  <2>1. PortApart(db, p)
    BY ByPort DEF RowsFit
  <2> QED  BY <1>11, <1>12, <2>1 DEF PortApart
<1>14. LosslessIsPaused(db) => PortPaused(db', p)
  BY <1>6, <1>11 DEF PortPaused
<1>15. \A f : Profile(f) \in DOMAIN db => Profile(f) \in DOMAIN db'
  BY <1>4, <1>7, BufferNames
<1>16. PgProfilesResolve(db) => PgProfilesResolve(db')
  BY <1>9, <1>15 DEF PgProfilesResolve
<1> QED  BY <1>8, <1>9, <1>10, <1>13, <1>14, <1>15, <1>16, OnePort

LEMMA BuffersOfPgs ==
  ASSUME RowsFit(db), PgStep
  PROVE  /\ RowsFit(db')
         /\ LosslessIsPaused(db) => LosslessIsPaused(db')
         /\ PgProfilesResolve(db) => PgProfilesResolve(db')
<1>1. ASSUME NEW p \in BufferPorts, RemovePgs(p)
      PROVE  /\ RowsFit(db') /\ (LosslessIsPaused(db) => LosslessIsPaused(db'))
             /\ PgProfilesResolve(db) => PgProfilesResolve(db')
  <2> DEFINE S == Removable(Pg, p)
  <2>1. db' = WithPfc(Without(db, {Pg(p, m) : m \in S}), p, {})
    BY <1>1 DEF RemovePgs, Become
  <2>2. ASSUME NEW m \in Maps \ S, Pg(p, m) \in DOMAIN db PROVE db[Pg(p, m)].profile = "ingress_lossy_profile"
    <3>1. "profile" \in DOMAIN db[Pg(p, m)]
      BY <2>2, BufferNames DEF RowsFit, PgsShaped
    <3>2. Field(Pg(p, m), "profile") = "ingress_lossy_profile"
      BY <2>2 DEF Removable, Has
    <3> QED  BY <2>2, <3>1, <3>2 DEF Field, Entry, Has
  <2> HIDE DEF S
  <2> QED  BY <2>1, <2>2, PgGoes
<1>2. ASSUME NEW p \in BufferPorts, NEW m \in Maps, RemovePg(p, m)
      PROVE  /\ RowsFit(db') /\ (LosslessIsPaused(db) => LosslessIsPaused(db'))
             /\ PgProfilesResolve(db) => PgProfilesResolve(db')
  <2> DEFINE ids == PfcEnable(db, p) \ IdsOf(m)
  <2>1. {Pg(p, o) : o \in {m}} = {Pg(p, m)}
    OBVIOUS
  <2>2. db' = WithPfc(Without(db, {Pg(p, o) : o \in {m}}), p, ids)
    BY <1>2, <2>1 DEF RemovePg, Become
  <2>3. Pg(p, m) \in DOMAIN db
    BY <1>2 DEF RemovePg, Removable, Has
  <2>4. ASSUME LosslessIsPaused(db), NEW o \in Maps \ {m}, Pg(p, o) \in DOMAIN db,
               db[Pg(p, o)].profile # "ingress_lossy_profile"
        PROVE  IdsOf(o) \subseteq ids
    <3>1. IdsOf(o) \subseteq PfcEnable(db, p)
      BY <2>4, ByPort DEF PortPaused
    <3>2. IdsOf(o) \cap IdsOf(m) = {}
      BY <2>3, <2>4, ByPort DEF RowsFit, PortApart
    <3> QED  BY <3>1, <3>2
  <2> HIDE DEF ids
  <2> QED  BY <2>2, <2>4, PgGoes
<1> QED  BY <1>1, <1>2, PgComes DEF PgStep

LEMMA BuffersOfQueues ==
  ASSUME RowsFit(db), QueueStep
  PROVE  /\ RowsFit(db')
         /\ LosslessIsPaused(db) => LosslessIsPaused(db')
         /\ PgProfilesResolve(db) => PgProfilesResolve(db')
<1>1. \A r : r[1] \in {"BUFFER_PG", "BUFFER_PROFILE", "PORT_QOS_MAP"} => Same(r, db, db')
  BY QueueWrites DEF Writes, Within
<1>2. (\A p, m : Same(Pg(p, m), db, db')) /\ (\A p : Same(QosRow(p), db, db')) /\ \A f : Same(Profile(f), db, db')
  BY <1>1, BufferNames
<1>3. \A r \in DOMAIN db' : r[1] \in {"BUFFER_PG", "BUFFER_PROFILE"} => r \in DOMAIN db /\ db'[r] = db[r]
  BY <1>1 DEF Same
<1>4. ProfilesWhole(db') /\ PgsShaped(db')
  BY <1>3, ByPort DEF RowsFit, PgsShaped
<1>5. PgProfilesResolve(db) => PgProfilesResolve(db')
  BY <1>2, <1>3 DEF PgProfilesResolve, Same
<1>6. LosslessIsPaused(db) => LosslessIsPaused(db')
  <2>1. \A p : PfcEnable(db', p) = PfcEnable(db, p)
    BY <1>2, PfcRow
  <2>2. \A p, m : Pg(p, m) \in DOMAIN db' => Pg(p, m) \in DOMAIN db /\ db'[Pg(p, m)] = db[Pg(p, m)]
    BY <1>2 DEF Same
  <2> QED  BY <2>1, <2>2 DEF LosslessIsPaused
<1>7. PICK p \in BufferPorts :
         \/ \E ms \in SUBSET Removable(Queue, p) : RemoveQueues(p, ms)
         \/ \E m \in Maps, f \in Profiles, new \in BOOLEAN : SetQueue(p, m, f, new)
  BY DEF QueueStep
<1>8. NoOverlap(db')
  <2>1. \A q \in BufferPorts : PortApart(db, q)
    BY ByPort DEF RowsFit
  <2>2. \A q, m : Pg(q, m) \in DOMAIN db' => Pg(q, m) \in DOMAIN db
    BY <1>2 DEF Same
  <2>3. CASE \E ms : RemoveQueues(p, ms)
    <3>1. DOMAIN db' \subseteq DOMAIN db
      BY <2>3 DEF RemoveQueues, Become, Without
    <3>2. \A q \in BufferPorts : PortApart(db', q)
      BY <2>1, <3>1 DEF PortApart
    <3> QED  BY <3>2, ByPort
  <2>4. ASSUME NEW m \in Maps, NEW f, NEW new, SetQueue(p, m, f, new) PROVE NoOverlap(db')
    <3>1. DOMAIN db' = DOMAIN db \cup {Queue(p, m)}
      BY <2>4 DEF SetQueue, Become, SetEntry, :>, @@
    <3>2. LegalMap({o \in Maps : Has(Queue(p, o))}, m, new)
      BY <2>4 DEF SetQueue
    <3>3. \A q, o : Queue(q, o) \in DOMAIN db' => (q = p /\ o = m) \/ Queue(q, o) \in DOMAIN db
      BY <3>1, BufferNames
    <3>4. CASE Queue(p, m) \in DOMAIN db
      <4>1. DOMAIN db' = DOMAIN db
        BY <3>1, <3>4
      <4>2. \A q \in BufferPorts : PortApart(db', q)
        BY <2>1, <4>1 DEF PortApart
      <4> QED  BY <4>2, ByPort
    <3>5. CASE Queue(p, m) \notin DOMAIN db
      <4>1. \A o \in Maps : Queue(p, o) \in DOMAIN db => IdsOf(o) \cap IdsOf(m) = {}
        BY <3>2, <3>5 DEF LegalMap, Has
      <4>2. \A o \in Maps : Queue(p, o) \in DOMAIN db => IdsOf(m) \cap IdsOf(o) = {}
        BY <4>1
      <4>3. \A q \in BufferPorts : PortApart(db', q)
        BY <2>1, <2>2, <3>3, <4>1, <4>2 DEF PortApart
      <4> QED  BY <4>3, ByPort
    <3> QED  BY <3>4, <3>5
  <2> QED  BY <1>7, <2>3, <2>4
<1> QED  BY <1>4, <1>5, <1>6, <1>8 DEF RowsFit

\* A profile is written with its sizes made complete.
LEMMA UpdatedWhole ==
  ASSUME NEW old, ProfileWhole(old), NEW new \in NewSizes, NEW pool, Updatable(old, new, pool)
  PROVE  ProfileWhole(Updated(old, new, pool))
<1> DEFINE some == [f \in {g \in DOMAIN new : new[g] # 0} |-> new[f]]
           G == some @@ old
           given == [pool |-> pool] @@ G
           Sizes == {"xon", "xoff", "size"}
<1>1. /\ DOMAIN new = Sizes /\ new["xon"] \in {0, 1} /\ new["xoff"] \in {0, 1} /\ new["size"] \in {0, 2}
  BY DEF NewSizes
<1>2. DOMAIN some \subseteq Sizes /\ \A f \in DOMAIN some : some[f] \in {1, 2}
  BY <1>1
<1>3. G = Given(old, new)
  BY DEF Given
<1> HIDE DEF some
<1>4. DOMAIN G = DOMAIN some \cup DOMAIN old /\ \A f \in DOMAIN G : G[f] = IF f \in DOMAIN some THEN some[f] ELSE old[f]
  BY DEF @@
<1> HIDE DEF G
<1>5. \A f \in DOMAIN G \cap Sizes : G[f] \in Nat
  BY <1>2, <1>4 DEF ProfileWhole
<1>6. "xoff" \in DOMAIN G => G["xoff"] > 0
  BY <1>2, <1>4 DEF ProfileWhole
<1>7. DOMAIN given = {"pool"} \cup DOMAIN G /\ \A f \in DOMAIN G \cap Sizes : given[f] = G[f]
  BY DEF @@
<1>8. DOMAIN given \cap Sizes = DOMAIN G \cap Sizes
  BY <1>7
<1>9. Updated(old, new, pool) = IF DOMAIN given \cap Sizes = {}
                                THEN [headroom_type |-> "dynamic", dynamic_th |-> 0] @@ given
                                ELSE Sized(given) @@ [dynamic_th |-> 0]
  BY <1>3 DEF Updated
<1> HIDE DEF given
<1>10. CASE DOMAIN given \cap Sizes = {}
  <2> DEFINE row == [headroom_type |-> "dynamic", dynamic_th |-> 0] @@ given
  <2>1. DOMAIN row \cap Sizes = {}
    BY <1>10 DEF @@
  <2>2. Updated(old, new, pool) = row
    BY <1>9, <1>10
  <2> HIDE DEF row
  <2> QED  BY <2>1, <2>2 DEF ProfileWhole
<1>11. CASE DOMAIN given \cap Sizes # {}
  <2> DEFINE xoff == IF "xoff" \in DOMAIN given THEN given.xoff ELSE given.size - given.xon
             size == IF SharedHeadroom THEN given.xon ELSE given.xon + xoff
             sized == [xoff |-> xoff] @@ given @@ [size |-> size]
             row == sized @@ [dynamic_th |-> 0]
  <2>1. SizesFit(G)
    BY <1>3, <1>8, <1>11 DEF Updatable
  <2>2. "xon" \in DOMAIN given /\ given.xon \in Nat
    BY <1>5, <1>7, <2>1 DEF SizesFit
  <2>3. xoff \in Nat /\ xoff > 0
    <3>1. CASE "xoff" \in DOMAIN G
      BY <1>5, <1>6, <1>7, <3>1
    <3>2. CASE "xoff" \notin DOMAIN G
      <4>1. "size" \in DOMAIN G /\ "xon" \in DOMAIN G /\ G.size > G.xon
        BY <2>1, <3>2 DEF SizesFit
      <4>2. G.size \in Nat /\ G.xon \in Nat /\ given.size = G.size /\ given.xon = G.xon
        BY <1>5, <1>7, <4>1
      <4>3. "xoff" \notin DOMAIN given
        BY <1>7, <3>2
      <4> QED  BY <4>1, <4>2, <4>3
    <3> QED  BY <3>1, <3>2
  <2>4. row = Updated(old, new, pool)
    BY <1>9, <1>11 DEF Sized
  <2> HIDE DEF xoff
  <2>5. size \in Nat
    BY <2>2, <2>3
  <2> HIDE DEF size
  <2>6. /\ DOMAIN row = {"xoff", "size", "dynamic_th"} \cup DOMAIN given
        /\ row["xoff"] = xoff
        /\ row["xon"] = given["xon"]
        /\ row["size"] = IF "size" \in DOMAIN given THEN given["size"] ELSE size
    BY <2>2 DEF @@
  <2>7. "size" \in DOMAIN given => given["size"] \in Nat
    BY <1>5, <1>7
  <2> HIDE DEF row
  <2>8. ProfileWhole(row)
    BY <2>2, <2>3, <2>5, <2>6, <2>7 DEF ProfileWhole
  <2> QED  BY <2>4, <2>8
<1> QED  BY <1>10, <1>11

\* A step that writes profiles alone.
GroupRows == {"BUFFER_PG", "BUFFER_QUEUE", "PORT_QOS_MAP"}

LEMMA GroupsLeft ==
  ASSUME RowsFit(db), Leaves(GroupRows)
  PROVE  /\ NoOverlap(db') /\ PgsShaped(db')
         /\ LosslessIsPaused(db) => LosslessIsPaused(db')
         /\ \A r \in DOMAIN db' : r[1] = "BUFFER_PG" => r \in DOMAIN db /\ db'[r] = db[r]
<1>1. \A p : PortSame(db, db', p)
  BY BufferNames DEF PortSame, Leaves, Beside, GroupRows
<1>2. NoOverlap(db')
  BY <1>1, ByPort, RangesKeep DEF RowsFit
<1>3. LosslessIsPaused(db) => LosslessIsPaused(db')
  BY <1>1, ByPort, RangesKeep
<1>4. \A r \in DOMAIN db' : r[1] = "BUFFER_PG" => r \in DOMAIN db /\ db'[r] = db[r]
  BY DEF Leaves, Beside, Same, GroupRows
<1>5. PgsShaped(db')
  BY <1>4 DEF RowsFit, PgsShaped
<1> QED  BY <1>2, <1>3, <1>4, <1>5

LEMMA ProfileWritten ==
  ASSUME RowsFit(db), NEW f, NEW row, ProfileWhole(row), db' = SetEntry(db, Profile(f), row)
  PROVE  /\ RowsFit(db')
         /\ LosslessIsPaused(db) => LosslessIsPaused(db')
         /\ PgProfilesResolve(db) => PgProfilesResolve(db')
<1>1. DOMAIN db' = DOMAIN db \cup {Profile(f)} /\ db'[Profile(f)] = row
  BY DEF SetEntry, :>, @@
<1>2. \A s \in DOMAIN db : s # Profile(f) => db'[s] = db[s]
  BY DEF SetEntry, :>, @@
<1>3. Leaves(GroupRows)
  BY <1>1, <1>2, BufferNames DEF Leaves, Beside, Same, GroupRows
<1>4. \A r \in DOMAIN db' : r[1] = "BUFFER_PROFILE" => ProfileWhole(db'[r])
  BY <1>1, <1>2, ByPort DEF RowsFit
<1>5. ProfilesWhole(db')
  BY <1>4, ByPort
<1>6. PgProfilesResolve(db) => PgProfilesResolve(db')
  BY <1>1, <1>3, GroupsLeft DEF PgProfilesResolve
<1> QED  BY <1>3, <1>5, <1>6, GroupsLeft DEF RowsFit

LEMMA BuffersOfProfiles ==
  ASSUME RowsFit(db), ProfileStep
  PROVE  /\ RowsFit(db')
         /\ LosslessIsPaused(db) => LosslessIsPaused(db')
         /\ PgProfilesResolve(db) => PgProfilesResolve(db')
<1>1. ASSUME NEW f, RemoveProfile(f)
      PROVE  /\ RowsFit(db') /\ (LosslessIsPaused(db) => LosslessIsPaused(db'))
             /\ PgProfilesResolve(db) => PgProfilesResolve(db')
  <2>1. DOMAIN db' = DOMAIN db \ {Profile(f)} /\ \A s \in DOMAIN db' : db'[s] = db[s]
    BY <1>1 DEF RemoveProfile, Become, Without
  <2>2. Leaves(GroupRows)
    BY <2>1, BufferNames DEF Leaves, Beside, Same, GroupRows
  <2>3. ProfilesWhole(db')
    BY <2>1, ByPort DEF RowsFit
  <2>4. ASSUME NEW r \in DOMAIN db, r[1] = "BUFFER_PG" PROVE db[r].profile # f
    <3>1. Field(r, "profile") # f
      BY <1>1, <2>4 DEF RemoveProfile, KeysOf, Rows
    <3>2. "profile" \in DOMAIN db[r]
      BY <2>4 DEF RowsFit, PgsShaped
    <3> QED  BY <2>4, <3>1, <3>2 DEF Field, Entry, Has
  <2>5. PgProfilesResolve(db) => PgProfilesResolve(db')
    BY <2>1, <2>2, <2>4, BufferNames, GroupsLeft DEF PgProfilesResolve
  <2> QED  BY <2>2, <2>3, <2>5, GroupsLeft DEF RowsFit
<1>2. ASSUME NEW f, NEW new \in NewSizes, NEW pool, AddProfile(f, new, pool) PROVE \E row : ProfileWhole(row) /\ db' = SetEntry(db, Profile(f), row)
  <2>1. ProfileWhole(NoFields)
    BY NoFieldsFact DEF ProfileWhole
  <2>2. ProfileWhole(Updated(NoFields, new, pool))
    BY <1>2, <2>1, UpdatedWhole DEF AddProfile
  <2> QED  BY <1>2, <2>2 DEF AddProfile, Become
<1>3. ASSUME NEW f, NEW new \in NewSizes, NEW pool, SetProfile(f, new, pool) PROVE \E row : ProfileWhole(row) /\ db' = SetEntry(db, Profile(f), row)
  <2> DEFINE old == Entry(Profile(f))
  <2>1. ProfileWhole(old)
    BY <1>3, ByPort, BufferNames DEF SetProfile, RowsFit, Entry, Has
  <2>2. Updatable(old, new, pool) /\ db' = SetEntry(db, Profile(f), Updated(old, new, pool))
    BY <1>3 DEF SetProfile, Become
  <2> HIDE DEF old
  <2>3. ProfileWhole(Updated(old, new, pool))
    BY <2>1, <2>2, UpdatedWhole
  <2> QED  BY <2>2, <2>3
<1> QED  BY <1>1, <1>2, <1>3, ProfileWritten DEF ProfileStep

\* config mmu writes the threshold of a profile.
LEMMA BuffersOfAlpha ==
  ASSUME RowsFit(db), AlphaStep
  PROVE  /\ RowsFit(db')
         /\ LosslessIsPaused(db) => LosslessIsPaused(db')
         /\ PgProfilesResolve(db) => PgProfilesResolve(db')
<1>1. PICK f \in Profiles : \E n : MmuAlpha(f, n)
  BY DEF AlphaStep
<1>2. PICK n : MmuAlpha(f, n)
  BY <1>1
<1> DEFINE old == IF Profile(f) \in DOMAIN db THEN db[Profile(f)] ELSE NoFields
           row == [dynamic_th |-> n] @@ old
<1>3. db' = SetEntry(db, Profile(f), row)
  BY <1>2 DEF MmuAlpha, Become, ModEntry, SetEntry
<1>4. ProfileWhole(old)
  <2>1. CASE Profile(f) \in DOMAIN db
    BY <2>1, ByPort, BufferNames DEF RowsFit
  <2>2. CASE Profile(f) \notin DOMAIN db
    BY <2>2, NoFieldsFact DEF ProfileWhole
  <2> QED  BY <2>1, <2>2
<1> HIDE DEF old
<1>5. DOMAIN row = {"dynamic_th"} \cup DOMAIN old /\ \A g \in DOMAIN old : g # "dynamic_th" => row[g] = old[g]
  BY DEF @@
<1> HIDE DEF row
<1>6. ProfileWhole(row)
  BY <1>4, <1>5 DEF ProfileWhole
<1> QED  BY <1>3, <1>6, ProfileWritten

\* pfc config priority writes the priorities alone.
LEMMA BuffersOfPfc ==
  ASSUME RowsFit(db), PfcStep
  PROVE  /\ RowsFit(db') /\ "pfc" \in area.groups
         /\ PgProfilesResolve(db) => PgProfilesResolve(db')
<1>1. \A r : r[1] \in {"BUFFER_PG", "BUFFER_QUEUE", "BUFFER_PROFILE"} => Same(r, db, db')
  BY PfcWrites DEF Writes, Within
<1>2. /\ \A r \in DOMAIN db' : r[1] \in {"BUFFER_PG", "BUFFER_QUEUE", "BUFFER_PROFILE"} => r \in DOMAIN db /\ db'[r] = db[r]
      /\ \A f : Profile(f) \in DOMAIN db => Profile(f) \in DOMAIN db'
  BY <1>1, BufferNames DEF Same
<1>3. \A p \in BufferPorts : PortApart(db', p)
  <2>1. \A p \in BufferPorts : PortApart(db, p)
    BY ByPort DEF RowsFit
  <2>2. \A p, m : (Pg(p, m) \in DOMAIN db' => Pg(p, m) \in DOMAIN db) /\ (Queue(p, m) \in DOMAIN db' => Queue(p, m) \in DOMAIN db)
    BY <1>2, BufferNames
  <2> QED  BY <2>1, <2>2 DEF PortApart
<1>4. ProfilesWhole(db') /\ PgsShaped(db')
  BY <1>2, ByPort DEF RowsFit, PgsShaped
<1>5. PgProfilesResolve(db) => PgProfilesResolve(db')
  BY <1>2 DEF PgProfilesResolve
<1>6. "pfc" \in area.groups
  BY DEF PfcStep, PfcPriority, Use
<1> QED  BY <1>3, <1>4, <1>5, <1>6, ByPort DEF RowsFit

\* A reload that waits has removed the rows of the tables, or of the ports, that it will write.
QosWait ==
    /\ Doing("qos") =>
         "qos" \in area.groups
         /\ \E dry \in BOOLEAN : job = [kind |-> "qos", dry |-> dry] /\ (dry \/ \A r \in DOMAIN db : r[1] \notin BufferRows)
    /\ Doing("ports") =>
         "qos" \in area.groups
         /\ \E ps, dry : /\ job = [kind |-> "ports", of |-> ps, dry |-> dry]
                         /\ \A r \in DOMAIN db : r[1] \in {"BUFFER_PG", "BUFFER_QUEUE"} => r[2] \notin ps

LEMMA TemplateFits == RowsFit(Template) /\ LosslessIsPaused(Template) /\ PgProfilesResolve(Template)
  BY TemplateAssumption DEF RowsFit, PgsShaped

LEMMA BufferTablesOfQos == BufferRows \subseteq QosTables
  BY DEF BufferRows, QosTables

LEMMA ClearedBuffers == \A r \in DOMAIN Cleared(db, QosTables) : r[1] \notin BufferRows
  BY BufferTablesOfQos DEF Cleared, Without

LEMMA QosWaits ==
  ASSUME QosWait, BreakoutJobFits, [Next]_vars
  PROVE  QosWait'
<1>1. area' = area
  BY AreaStays
<1>2. CASE job' = None
  BY <1>2 DEF QosWait, Doing
<1>3. CASE job'.kind \in {"bind", "feature", "breakout"}
  BY <1>3 DEF QosWait, Doing
<1>4. CASE Idle
  BY <1>1, <1>4 DEF QosWait, Doing, Idle
<1>5. CASE QosStep
  <2>1. ASSUME NEW dry \in BOOLEAN, ReloadQos(dry) PROVE QosWait'
    <3>1. "qos" \in area.groups /\ job' = [kind |-> "qos", dry |-> dry] /\ (dry \/ db' = Cleared(db, QosTables))
      BY <2>1 DEF ReloadQos, Use
    <3>2. dry \/ \A r \in DOMAIN db' : r[1] \notin BufferRows
      BY <3>1, ClearedBuffers
    <3>3. job'.kind = "qos"
      BY <3>1
    <3> QED  BY <1>1, <3>1, <3>2, <3>3 DEF QosWait, Doing
  <2>2. ASSUME NEW ps, NEW dry, ReloadPorts(ps, dry) PROVE QosWait'
    <3>1. "qos" \in area.groups /\ job' = [kind |-> "ports", of |-> ps, dry |-> dry]
      BY <2>2 DEF ReloadPorts, Use
    <3>2. \A r \in DOMAIN db' : r[1] \in {"BUFFER_PG", "BUFFER_QUEUE"} => r[2] \notin ps
      BY <2>2 DEF ReloadPorts, Without, OfPorts, Rows
    <3>3. job'.kind = "ports"
      BY <3>1
    <3> QED  BY <1>1, <3>1, <3>2, <3>3 DEF QosWait, Doing
  <2>3. ClearQos => job' = None
    BY DEF ClearQos, Use, Become
  <2>4. ASSUME NEW model, NEW found, WriteQos(model, found) PROVE job' = None
    BY <2>4 DEF WriteQos
  <2>5. ASSUME NEW rendered, WritePorts(rendered) PROVE job' = None
    BY <2>5 DEF WritePorts
  <2> QED  BY <1>2, <1>5, <2>1, <2>2, <2>3, <2>4, <2>5 DEF QosStep
<1>6. CASE Calm
  BY <1>2, <1>6 DEF Calm
<1>7. CASE BindStep
  <2>1. job = None \/ job' = None \/ \E i, f : job' = [kind |-> "bind", of |-> i, fields |-> f]
    BY <1>7 DEF BindStep, Rebind, BindVrf, UnbindVrf, Wait, Become, Use
  <2>2. job' = job \/ job' = None \/ \E i, f : job' = [kind |-> "bind", of |-> i, fields |-> f]
    BY <1>7 DEF BindStep, Rebind, BindVrf, UnbindVrf, Wait, Become
  <2>3. job' = None \/ job'.kind = "bind"
    BY <2>1, <2>2
  <2> QED  BY <1>2, <1>3, <2>3
<1>8. CASE FeatureStep
  <2>1. job' = None \/ \E f, x : job' = [kind |-> "feature", of |-> f, state |-> x]
    BY <1>8 DEF FeatureStep, SetFeatureState, FeatureReached
  <2>2. job' = None \/ job'.kind = "feature"
    BY <2>1
  <2> QED  BY <1>2, <1>3, <2>2
<1>9. CASE BreakoutNext
  <2>1. ASSUME NEW p, NEW mode, NEW force, NEW load, Breakout(p, mode, force, load)
        PROVE  job'.kind = "breakout"
    BY <2>1 DEF Breakout
  <2>2. BreakoutDelete => job' = [job EXCEPT !.at = "asic"] /\ BreakoutJob
    BY DEF BreakoutDelete, BreakoutJobFits
  <2>3. BreakoutDelete => job'.kind = "breakout"
    BY <2>2 DEF BreakoutJob
  <2>4. BreakoutAdd \/ BreakoutTimesOut => job' = None
    BY DEF BreakoutAdd, BreakoutTimesOut
  <2> QED  BY <1>2, <1>3, <1>9, <2>1, <2>3, <2>4 DEF BreakoutNext
<1>10. Idle \/ Calm \/ QosStep \/ BindStep \/ FeatureStep \/ BreakoutNext
  <2>1. CASE vars' = vars
    BY <2>1 DEF vars, Idle, Daemons
  <2>2. CASE Next
    BY <2>2, InterfacesCalm, BuffersCalm, ServicesCalm, TrafficCalm, PoliciesCalm DEF Next
  <2> QED  BY <2>1, <2>2
<1> QED  BY <1>4, <1>5, <1>6, <1>7, <1>8, <1>9, <1>10

\* The templates are written over tables that are empty.
LEMMA BuffersRendered ==
  ASSUME RowsFit(db), QosWait, NEW model, NEW found, WriteQos(model, found)
  PROVE  RowsFit(db') /\ (LosslessIsPaused(db) => LosslessIsPaused(db')) /\ "qos" \in area.groups
<1> DEFINE d == ModEntry(db, Metadata, [buffer_model |-> model])
<1>1. PICK dry \in BOOLEAN : job = [kind |-> "qos", dry |-> dry] /\ (dry \/ \A r \in DOMAIN db : r[1] \notin BufferRows)
  BY DEF QosWait, WriteQos
<1>2. job.dry = dry
  BY <1>1
<1>3. "qos" \in area.groups
  BY DEF QosWait, WriteQos
<1>4. /\ DOMAIN d = DOMAIN db \cup {Metadata}
      /\ \A s \in DOMAIN db : s # Metadata => d[s] = db[s]
  BY DEF ModEntry, :>, @@
<1>5. Metadata[1] \notin BufferRows
  BY DEF Metadata, BufferRows
<1>6. CASE db' = d
  <2>1. Beside(BufferRows, db, db')
    BY <1>4, <1>5, <1>6 DEF Beside, Same
  <2> QED  BY <1>3, <2>1, SameBuffers
<1>7. CASE found /\ ~dry
  <2>1. db' = Rendered({r \in DOMAIN Template : r[1] \in QosTables}) @@ d
    BY <1>2, <1>7 DEF WriteQos
  <2> HIDE DEF d
  <2>2. Beside(BufferRows, Template, db')
    <3>1. \A r : r[1] \in BufferRows => r \notin DOMAIN d
      BY <1>1, <1>4, <1>5, <1>7
    <3>2. \A r : r[1] \in BufferRows => r[1] \in QosTables
      BY BufferTablesOfQos
    <3> QED  BY <2>1, <3>1, <3>2 DEF Beside, Same, Rendered, @@
  <2> QED  BY <1>3, <2>2, SameBuffers, TemplateFits
<1>8. db' = d \/ (found /\ ~dry)
  BY <1>2 DEF WriteQos
<1> QED  BY <1>6, <1>7, <1>8

\* The templates of some ports are written, whose priority groups and queues are gone.
LEMMA PortsRendered ==
  ASSUME RowsFit(db), QosWait, NEW rendered, WritePorts(rendered)
  PROVE  RowsFit(db') /\ (LosslessIsPaused(db) => LosslessIsPaused(db')) /\ "qos" \in area.groups
<1>1. PICK ps, dry : /\ job = [kind |-> "ports", of |-> ps, dry |-> dry]
                     /\ \A r \in DOMAIN db : r[1] \in {"BUFFER_PG", "BUFFER_QUEUE"} => r[2] \notin ps
  BY DEF QosWait, WritePorts
<1>2. job.of = ps
  BY <1>1
<1>3. "qos" \in area.groups
  BY DEF QosWait, WritePorts
<1> DEFINE rows == OfPorts(ps, {"PORT_QOS_MAP", "BUFFER_PG", "BUFFER_QUEUE"})
           cable == {r \in DOMAIN Template : r[1] = "CABLE_LENGTH"}
           lengths == [r \in cable |-> [p \in ps \cap DOMAIN Template[r] |-> Template[r][p]] @@ Entry(r)]
<1>4. CASE db' = db
  BY <1>3, <1>4
<1>5. CASE db' = Rendered(rows) @@ lengths @@ db
  <2>1. DOMAIN Rendered(rows) = rows \cap DOMAIN Template /\ \A r \in rows \cap DOMAIN Template : Rendered(rows)[r] = Template[r]
    BY DEF Rendered
  <2>2. \A r : r \in rows <=> r \in DOMAIN Template \cup DOMAIN db /\ r[2] \in ps /\ r[1] \in {"PORT_QOS_MAP", "BUFFER_PG", "BUFFER_QUEUE"}
    BY DEF OfPorts, Rows
  <2>3. DOMAIN lengths = cable
    OBVIOUS
  <2>4. \A r \in cable : r[1] \notin BufferRows
    BY DEF BufferRows
  <2> HIDE DEF rows, cable, lengths
  <2>5. /\ \A r \in rows \cap DOMAIN Template : r \in DOMAIN db' /\ db'[r] = Template[r]
        /\ \A r : r[1] \in BufferRows /\ r \notin rows \cap DOMAIN Template => Same(r, db, db')
    BY <1>5, <2>1, <2>3, <2>4 DEF @@, Same
  <2>6. \A r : r[1] \in {"BUFFER_PG", "BUFFER_QUEUE"} /\ r[2] \in ps => Same(r, Template, db')
    BY <1>1, <2>2, <2>5 DEF Same, BufferRows
  <2>7. \A r : r[1] \in {"BUFFER_PG", "BUFFER_QUEUE", "PORT_QOS_MAP"} /\ r[2] \notin ps => Same(r, db, db')
    BY <2>2, <2>5 DEF BufferRows
  <2>8. \A r : r[1] = "BUFFER_PROFILE" => Same(r, db, db')
    BY <2>2, <2>5 DEF BufferRows
  <2>9. \A p, m : Pg(p, m)[2] = p /\ Queue(p, m)[2] = p /\ QosRow(p)[2] = p
    BY DEF Pg, Queue, QosRow
  <2>10. \A p : p \notin ps => PortSame(db, db', p)
    BY <2>7, <2>9, BufferNames DEF PortSame
  <2>11. \A p \in ps : \A m : Same(Pg(p, m), Template, db') /\ Same(Queue(p, m), Template, db')
    BY <2>6, <2>9, BufferNames
  <2>12. NoOverlap(db')
    <3>1. ASSUME NEW p \in BufferPorts PROVE PortApart(db', p)
      <4>1. PortApart(db, p) /\ PortApart(Template, p)
        BY TemplateFits, ByPort DEF RowsFit
      <4>2. CASE p \in ps
        <5>1. \A m : (Pg(p, m) \in DOMAIN db' => Pg(p, m) \in DOMAIN Template) /\ (Queue(p, m) \in DOMAIN db' => Queue(p, m) \in DOMAIN Template)
          BY <2>11, <4>2 DEF Same
        <5> QED  BY <4>1, <5>1 DEF PortApart
      <4> QED  BY <2>10, <4>1, <4>2, RangesKeep
    <3> QED  BY <3>1, ByPort
  <2>13. ProfilesWhole(db')
    BY <2>8, ByPort DEF RowsFit, Same
  <2>14. PgsShaped(db')
    <3> SUFFICES ASSUME NEW r \in DOMAIN db', r[1] = "BUFFER_PG" PROVE "profile" \in DOMAIN db'[r]
      BY DEF PgsShaped
    <3>1. Same(r, Template, db') \/ Same(r, db, db')
      BY <2>6, <2>7
    <3> QED  BY <3>1, TemplateFits DEF Same, RowsFit, PgsShaped
  <2>15. ASSUME LosslessIsPaused(db) PROVE LosslessIsPaused(db')
    <3>1. ASSUME NEW p \in BufferPorts PROVE PortPaused(db', p)
      <4>1. PortPaused(db, p) /\ PortPaused(Template, p)
        BY <2>15, TemplateFits, ByPort
      <4>2. CASE p \in ps
        <5>1. ASSUME NEW m \in Maps, Pg(p, m) \in DOMAIN db', db'[Pg(p, m)].profile # "ingress_lossy_profile"
              PROVE  IdsOf(m) \subseteq PfcEnable(Template, p)
          <6>1. Pg(p, m) \in DOMAIN Template /\ db'[Pg(p, m)] = Template[Pg(p, m)]
            BY <2>11, <4>2, <5>1 DEF Same
          <6> QED  BY <4>1, <5>1, <6>1 DEF PortPaused
        <5>2. PfcEnable(Template, p) \subseteq PfcEnable(db', p)
          <6>1. CASE QosRow(p) \in DOMAIN Template
            <7>1. QosRow(p) \in rows
              BY <2>2, <2>9, <4>2, <6>1, BufferNames
            <7>2. Same(QosRow(p), Template, db')
              BY <2>5, <6>1, <7>1 DEF Same
            <7> QED  BY <7>2, PfcRow
          <6>2. CASE QosRow(p) \notin DOMAIN Template
            <7>1. PfcEnable(Template, p) = {}
              BY <6>2, NoFieldsFact DEF PfcEnable, QosMap, QosRow
            <7> QED  BY <7>1
          <6> QED  BY <6>1, <6>2
        <5> QED  BY <5>1, <5>2 DEF PortPaused
      <4> QED  BY <2>10, <4>1, <4>2, RangesKeep
    <3> QED  BY <3>1, ByPort
  <2> QED  BY <1>3, <2>12, <2>13, <2>14, <2>15 DEF RowsFit
<1>6. db' = db \/ db' = Rendered(rows) @@ lengths @@ db
  BY <1>2 DEF WritePorts
<1> QED  BY <1>4, <1>5, <1>6

LEMMA BuffersOfQos ==
  ASSUME RowsFit(db), QosWait, QosStep
  PROVE  RowsFit(db') /\ (LosslessIsPaused(db) => LosslessIsPaused(db')) /\ "qos" \in area.groups
<1>1. ASSUME db' = Cleared(db, QosTables) PROVE RowsFit(db') /\ LosslessIsPaused(db')
  BY <1>1, ClearedBuffers, NoBuffers
<1>2. CASE ClearQos \/ \E dry : ReloadQos(dry)
  BY <1>1, <1>2 DEF ClearQos, ReloadQos, Become, Use
<1>3. ASSUME NEW ps, NEW dry, ReloadPorts(ps, dry)
      PROVE  RowsFit(db') /\ (LosslessIsPaused(db) => LosslessIsPaused(db')) /\ "qos" \in area.groups
  <2> DEFINE gone == OfPorts(ps, {"BUFFER_PG", "BUFFER_QUEUE"})
  <2>1. DOMAIN db' = DOMAIN db \ gone /\ \A s \in DOMAIN db' : db'[s] = db[s]
    BY <1>3 DEF ReloadPorts, Without
  <2>2. \A p : QosRow(p) \notin gone
    BY BufferNames DEF OfPorts
  <2> HIDE DEF gone
  <2>3. \A p : PfcEnable(db', p) = PfcEnable(db, p)
    <3>1. \A p : Same(QosRow(p), db, db')
      BY <2>1, <2>2 DEF Same
    <3> QED  BY <3>1, PfcRow
  <2>4. \A p \in BufferPorts : PortApart(db', p)
    <3>1. \A p \in BufferPorts : PortApart(db, p)
      BY ByPort DEF RowsFit
    <3> QED  BY <2>1, <3>1 DEF PortApart
  <2>5. ProfilesWhole(db') /\ PgsShaped(db')
    BY <2>1, ByPort DEF RowsFit, PgsShaped
  <2>6. LosslessIsPaused(db) => LosslessIsPaused(db')
    BY <2>1, <2>3 DEF LosslessIsPaused
  <2>7. "qos" \in area.groups
    BY <1>3 DEF ReloadPorts, Use
  <2> QED  BY <2>4, <2>5, <2>6, <2>7, ByPort DEF RowsFit
<1> QED  BY <1>2, <1>3, BuffersRendered, PortsRendered DEF QosStep

\* What the commands of buffers keep in step.
BuffersStay ==
    /\ RowsFit(db) /\ QosWait
    /\ "pfc" \notin area.groups => LosslessIsPaused(db)
    /\ "qos" \notin area.groups => PgProfilesResolve(db)

LEMMA BuffersStart == ASSUME Init PROVE BuffersStay
<1>1. \A r \in DOMAIN db : r[1] \in BufferRows => r \in DOMAIN area.start /\ db[r] = area.start[r] /\ r[1] \in QosTables
  <2> SUFFICES ASSUME NEW r \in DOMAIN db, r[1] \in BufferRows PROVE r \in DOMAIN area.start /\ db[r] = area.start[r]
    BY BufferTablesOfQos
  <2>1. ~\E p \in Ports : r = <<"PORT", p>>
    BY DEF BufferRows
  <2> QED  BY <2>1, StartRows DEF Rows
<1>2. DOMAIN area.start \subseteq DOMAIN db
  BY DEF Init, @@
<1>3. RowsFit(db) /\ LosslessIsPaused(db) /\ PgProfilesResolve(db)
  <2>1. CASE \E r \in DOMAIN area.start : r[1] \in QosTables
    <3>1. area \in Areas
      BY DEF Init
    <3>2. {s \in DOMAIN Template : s[1] \in QosTables} \subseteq DOMAIN area.start
      BY <2>1, <3>1, AreasAssumption
    <3>3. \A r \in DOMAIN area.start : r[1] \in QosTables => r \in DOMAIN Template /\ area.start[r] = Template[r]
      BY <3>1, AreasAssumption
    <3>4. Beside(BufferRows, Template, db)
      <4> SUFFICES ASSUME NEW r, r[1] \in BufferRows PROVE Same(r, Template, db)
        BY DEF Beside
      <4>1. r \in DOMAIN Template => r \in DOMAIN db
        BY <1>2, <3>2, BufferTablesOfQos
      <4>2. r \in DOMAIN db => r \in DOMAIN Template /\ db[r] = Template[r]
        BY <1>1, <3>3
      <4> QED  BY <4>1, <4>2 DEF Same
    <3> QED  BY <3>4, SameBuffers, TemplateFits
  <2>2. CASE ~\E r \in DOMAIN area.start : r[1] \in QosTables
    <3>1. \A r \in DOMAIN db : r[1] \notin BufferRows
      BY <1>1, <2>2
    <3> QED  BY <3>1, NoBuffers
  <2> QED  BY <2>1, <2>2
<1>4. QosWait
  BY DEF QosWait, Init, Doing
<1> QED  BY <1>3, <1>4 DEF BuffersStay

LEMMA BuffersKeep ==
  ASSUME BuffersStay, BreakoutJobFits, [Next]_vars
  PROVE  BuffersStay'
<1>1. area' = area /\ QosWait'
  BY AreaStays, QosWaits DEF BuffersStay
<1>2. CASE Leaves(BufferRows)
  <2>1. Beside(BufferRows, db, db')
    BY <1>2 DEF Leaves
  <2>2. RowsFit(db') /\ (LosslessIsPaused(db) => LosslessIsPaused(db')) /\ (PgProfilesResolve(db) => PgProfilesResolve(db'))
    BY <2>1, SameBuffers DEF BuffersStay
  <2> QED  BY <1>1, <2>2 DEF BuffersStay
<1>3. CASE PgStep \/ QueueStep \/ ProfileStep \/ AlphaStep
  <2>1. RowsFit(db') /\ (LosslessIsPaused(db) => LosslessIsPaused(db')) /\ (PgProfilesResolve(db) => PgProfilesResolve(db'))
    BY <1>3, BuffersOfPgs, BuffersOfQueues, BuffersOfProfiles, BuffersOfAlpha DEF BuffersStay
  <2> QED  BY <1>1, <2>1 DEF BuffersStay
<1>4. CASE PfcStep
  <2>1. RowsFit(db') /\ "pfc" \in area.groups /\ (PgProfilesResolve(db) => PgProfilesResolve(db'))
    BY <1>4, BuffersOfPfc DEF BuffersStay
  <2> QED  BY <1>1, <2>1 DEF BuffersStay
<1>5. CASE QosStep
  <2>1. RowsFit(db') /\ (LosslessIsPaused(db) => LosslessIsPaused(db')) /\ "qos" \in area.groups
    BY <1>5, BuffersOfQos DEF BuffersStay
  <2> QED  BY <1>1, <2>1 DEF BuffersStay
<1> QED  BY <1>2, <1>3, <1>4, <1>5, BufferWriters

\* Whatever commands are called, in whatever order: the priority groups and the queue ranges of a port do not
\* overlap; a profile with one threshold has both, and a size; PFC pauses the priorities of each lossless group,
\* unless "pfc config priority" is in use; and the profile of a group is there, unless a reload of the QoS tables
\* is (config interface buffer, buffer profile, qos reload and clear, mmu).
THEOREM BuffersKept == Spec => []BuffersFit
<1> DEFINE I == BreakoutJobFits /\ BuffersStay
<1>1. Init => I
  BY BreakoutStart, BuffersStart
<1>2. I /\ [Next]_vars => I'
  BY BreakoutJobStep, BuffersKeep
<1>3. I => BuffersFit
  BY DEF BuffersStay, RowsFit, BuffersFit
<1> HIDE DEF I
<1> QED  BY <1>1, <1>2, <1>3, PTL DEF Spec
=============================================================================
