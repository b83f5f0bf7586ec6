--------------------------- MODULE ConfigBuffers ---------------------------
(***************************************************************************)
(* The buffer, QoS and PFC commands of "config": which profile the priority *)
(* groups and queues of a port have, and which priorities PFC pauses.  A    *)
(* reload of the QoS tables removes rows, renders templates, and writes.    *)
(***************************************************************************)
EXTENDS ConfigDb

CONSTANTS
    BufferPorts,
    MaxPg,      \* the highest priority group
    Profiles, Pools,
    Template    \* the rows that the templates of the platform render

Maps == {m \in (0 .. MaxPg) \X (0 .. MaxPg) : m[1] <= m[2]}
IdsOf(m) == m[1] .. m[2]
Pg(p, m) == <<"BUFFER_PG", p, m>>
Queue(p, m) == <<"BUFFER_QUEUE", p, m>>
Profile(f) == <<"BUFFER_PROFILE", f>>
Metadata == <<"DEVICE_METADATA", "localhost">>
Dynamic == Field(Metadata, "buffer_model") = "dynamic"

QosMap(d, p) == IF <<"PORT_QOS_MAP", p>> \in DOMAIN d THEN d[<<"PORT_QOS_MAP", p>>] ELSE NoFields
PfcEnable(d, p) == IF "pfc_enable" \in DOMAIN QosMap(d, p) THEN QosMap(d, p).pfc_enable ELSE {}
WithPfc(d, p, ids) == SetEntry(d, <<"PORT_QOS_MAP", p>>, [pfc_enable |-> ids] @@ QosMap(d, p))
-----------------------------------------------------------------------------
(* config interface buffer priority_group, queue *)

\* Mutant of LegalMap: overlapping ranges are not looked at.
LegalIfNotThere(used, m, new) ==
    /\ m[1] # 0 /\ m[2] # 0
    /\ (m \in used) # new

\* used are the maps of the port that have a row; an id of 0 counts as no id.
LegalMap(used, m, new) ==
    /\ m[1] # 0 /\ m[2] # 0
    /\ IF new THEN ~\E o \in used : IdsOf(o) \cap IdsOf(m) # {} ELSE m \in used

PoolType(f) == Field(<<"BUFFER_POOL", Field(Profile(f), "pool")>>, "type")
Lossless(f) == "xoff" \in DOMAIN Entry(Profile(f)) \/ "size" \notin DOMAIN Entry(Profile(f))
FitsPg(f) == f = "NULL" \/ (Has(Profile(f)) /\ PoolType(f) = "ingress" /\ Lossless(f))

SetPg(p, m, f, new) ==
    /\ Use("buffer") /\ Dynamic /\ Has(<<"PORT", p>>)
    /\ LegalMap({o \in Maps : Has(Pg(p, o))}, m, new) /\ FitsPg(f)
    /\ Become(WithPfc(SetEntry(db, Pg(p, m), [profile |-> f]), p, PfcEnable(db, p) \cup IdsOf(m)))

SetQueue(p, m, f, new) ==
    /\ Use("queue") /\ Dynamic /\ Has(<<"PORT", p>>)
    /\ LegalMap({o \in Maps : Has(Queue(p, o))}, m, new)
    /\ Has(Profile(f)) /\ PoolType(f) = "egress"
    /\ Become(SetEntry(db, Queue(p, m), [profile |-> f]))

Removable(row(_, _), p) ==
    {m \in Maps : Has(row(p, m)) /\ Field(row(p, m), "profile") # "ingress_lossy_profile"}

RemovePg(p, m) ==
    /\ Use("buffer") /\ Dynamic /\ m \in Removable(Pg, p)
    /\ Become(WithPfc(Without(db, {Pg(p, m)}), p, PfcEnable(db, p) \ IdsOf(m)))

\* Without a map all go but the lossy ones, and all priorities.
RemovePgs(p) ==
    /\ Use("buffer") /\ Dynamic /\ Removable(Pg, p) # {}
    /\ Become(WithPfc(Without(db, {Pg(p, m) : m \in Removable(Pg, p)}), p, {}))

RemoveQueues(p, ms) ==
    /\ Use("queue") /\ Dynamic /\ ms # {} /\ ms \subseteq Removable(Queue, p)
    /\ Cardinality(ms) = 1 \/ ms = Removable(Queue, p)
    /\ Become(Without(db, {Queue(p, m) : m \in ms}))

CableLength(p, len) ==
    /\ Use("cable") /\ Dynamic /\ Has(<<"PORT", p>>)
    /\ \E r \in KeysOf("CABLE_LENGTH") : Become(ModEntry(db, r, p :> len))
-----------------------------------------------------------------------------
(* config buffer *)

Defaults == <<"DEFAULT_LOSSLESS_BUFFER_PARAMETER", "AZURE">>
SharedHeadroom ==
    "xoff" \in DOMAIN Entry(<<"BUFFER_POOL", "ingress_lossless_pool">>)
    \/ ("over_subscribe_ratio" \in DOMAIN Entry(Defaults) /\ db[Defaults].over_subscribe_ratio # 0)

\* update_profile with sizes of which 0 counts as not given; what is not given
\* is taken from the profile, or from the other sizes.
Given(old, new) == [f \in {g \in DOMAIN new : new[g] # 0} |-> new[f]] @@ old
Sized(given) ==
    LET xoff == IF "xoff" \in DOMAIN given THEN given.xoff ELSE given.size - given.xon
        size == IF SharedHeadroom THEN given.xon ELSE given.xon + xoff
    IN  [xoff |-> xoff] @@ given @@ [size |-> size]
SizesFit(given) ==
    /\ "xon" \in DOMAIN given
    /\ "xoff" \in DOMAIN given
       \/ (~SharedHeadroom /\ "size" \in DOMAIN given /\ given.size > given.xon)

Updated(old, new, pool) ==
    LET given == [pool |-> pool] @@ Given(old, new)
    IN  IF DOMAIN given \cap {"xon", "xoff", "size"} = {}
        THEN [headroom_type |-> "dynamic", dynamic_th |-> 0] @@ given
        ELSE Sized(given) @@ [dynamic_th |-> 0]
Updatable(old, new, pool) ==
    /\ Has(Defaults) \/ "xoff" \in DOMAIN Entry(<<"BUFFER_POOL", "ingress_lossless_pool">>)
    /\ Has(<<"BUFFER_POOL", pool>>)
    /\ DOMAIN Given(old, new) \cap {"xon", "xoff", "size"} # {} => SizesFit(Given(old, new))

AddProfile(f, new, pool) ==
    /\ Use("profile") /\ Dynamic /\ ~Has(Profile(f)) /\ Updatable(NoFields, new, pool)
    /\ Become(SetEntry(db, Profile(f), Updated(NoFields, new, pool)))

SetProfile(f, new, pool) ==
    /\ Use("profile") /\ Dynamic /\ Has(Profile(f)) /\ Updatable(Entry(Profile(f)), new, pool)
    /\ "xoff" \notin DOMAIN Entry(Profile(f)) => new.xoff = 0
    /\ Become(SetEntry(db, Profile(f), Updated(Entry(Profile(f)), new, pool)))

\* Priority groups that refer to the profile are looked at, queues are not.
RemoveProfile(f) ==
    /\ Use("profile") /\ Dynamic /\ Has(Profile(f))
    /\ ~\E r \in KeysOf("BUFFER_PG") : Field(r, "profile") = f
    /\ Become(Without(db, {Profile(f)}))

OverSubscribeRatio(n) ==
    /\ Use("profile") /\ Dynamic /\ Has(Defaults)
    /\ n \in 0 .. Cardinality(KeysOf("PORT"))
    /\ Become(SetEntry(db, Defaults, IF n = 0 THEN Drop(db[Defaults], "over_subscribe_ratio")
                                     ELSE [over_subscribe_ratio |-> n] @@ db[Defaults]))

HeadroomPoolSize(n) ==
    LET pool == <<"BUFFER_POOL", "ingress_lossless_pool">>
    IN  /\ Use("profile") /\ Dynamic
        /\ Become(SetEntry(db, pool, IF n = 0 THEN Drop(Entry(pool), "xoff")
                                     ELSE [xoff |-> n] @@ Entry(pool)))
-----------------------------------------------------------------------------
(* config qos, config cbf *)

QosTables ==
    {"PORT_QOS_MAP", "CABLE_LENGTH", "BUFFER_PG", "BUFFER_QUEUE", "BUFFER_PROFILE",
     "BUFFER_POOL", "DEFAULT_LOSSLESS_BUFFER_PARAMETER"}
Cleared(d, tables) == Without(d, {r \in DOMAIN d : r[1] \in tables})
Rendered(rows) == [r \in rows \cap DOMAIN Template |-> Template[r]]

ClearQos ==
    /\ Use("qos")
    /\ Become(Cleared(db, QosTables))

\* The tables go; after a wait for the switch to follow, which ends at 30 s
\* whatever it saw, the templates are written, if they are there.
ReloadQos(dry) ==
    /\ Use("qos")
    /\ db' = IF dry THEN db ELSE Cleared(db, QosTables)
    /\ job' = [kind |-> "qos", dry |-> dry]
    /\ UNCHANGED <<area, switch>>

WriteQos(model, found) ==
    /\ Doing("qos")
    /\ LET d == ModEntry(db, Metadata, [buffer_model |-> model])
       IN  db' = IF found /\ ~job.dry
                 THEN Rendered({r \in DOMAIN Template : r[1] \in QosTables}) @@ d ELSE d
    /\ job' = None /\ UNCHANGED <<area, switch>>

OfPorts(ps, tables) == {r \in DOMAIN Template \cup Rows : r[1] \in tables /\ r[2] \in ps}

\* Priority groups and queues of the ports go, also when the run is dry; then
\* the templates are rendered.
ReloadPorts(ps, dry) ==
    /\ Use("qos") /\ ps # {}
    /\ db' = Without(db, OfPorts(ps, {"BUFFER_PG", "BUFFER_QUEUE"}))
    /\ job' = [kind |-> "ports", of |-> ps, dry |-> dry]
    /\ UNCHANGED <<area, switch>>

WritePorts(rendered) ==
    /\ Doing("ports")
    /\ LET rows == OfPorts(job.of, {"PORT_QOS_MAP", "BUFFER_PG", "BUFFER_QUEUE"})
           cable == {r \in DOMAIN Template : r[1] = "CABLE_LENGTH"}
       IN  db' = IF rendered /\ ~job.dry
                 THEN Rendered(rows)
                      @@ [r \in cable |-> [p \in job.of \cap DOMAIN Template[r] |-> Template[r][p]] @@ Entry(r)]
                      @@ db
                 ELSE db
    /\ job' = None /\ UNCHANGED <<area, switch>>

ReloadCbf(dry) ==
    /\ Use("cbf")
    /\ Become(IF dry THEN Cleared(db, {"DSCP_TO_FC_MAP"})
              ELSE Rendered({r \in DOMAIN Template : r[1] = "DSCP_TO_FC_MAP"})
                   @@ Cleared(db, {"DSCP_TO_FC_MAP"}))
ClearCbf ==
    /\ Use("cbf")
    /\ Become(Cleared(db, {"DSCP_TO_FC_MAP"}))
-----------------------------------------------------------------------------
(* pfc, pfcwd *)

PfcPriority(p, id, status) ==
    /\ Use("pfc") /\ "pfc_enable" \in DOMAIN QosMap(db, p)
    /\ (id \in PfcEnable(db, p)) = (status = "off")
    /\ Become(WithPfc(db, p, IF status = "on" THEN PfcEnable(db, p) \cup {id} ELSE PfcEnable(db, p) \ {id}))

PfcAsymmetric(p, status) ==
    /\ Use("pfc")
    /\ Become(ModEntry(db, <<"PORT", p>>, [pfc_asym |-> status]))

Watched(p) == <<"PFC_WD", p>>
Global == <<"PFC_WD", "GLOBAL">>
Watch(d, ps, info) ==
    [r \in {Watched(p) : p \in {q \in ps : "pfc_enable" \in DOMAIN QosMap(d, q)}} |-> info] @@ d

\* The row of a port is deleted and written again.
StartWatchdog(ps, detection, restoration) ==
    /\ Use("pfcwd")
    /\ Become(Watch(db, ps, [detection_time |-> detection,
                             restoration_time |-> IF restoration = 0 THEN 2 * detection ELSE restoration]))

StopWatchdog(ps) ==
    /\ Use("pfcwd")
    /\ Become(Without(db, {Watched(p) : p \in ps}))

\* The interval may not exceed a time that some port has.
WatchdogInterval(n) ==
    /\ Use("pfcwd") /\ n <= 3000
    /\ \A r \in KeysOf("PFC_WD") \ {Global} : n <= db[r].detection_time /\ n <= db[r].restoration_time
    /\ Become(ModEntry(db, Global, [poll_interval |-> n]))

StartDefaultWatchdog(ps) ==
    /\ Use("pfcwd") /\ Field(Metadata, "default_pfcwd_status") = "enable"
    /\ Become(ModEntry(Watch(db, ps, [detection_time |-> 200, restoration_time |-> 200]),
                       Global, [poll_interval |-> 200]))
-----------------------------------------------------------------------------
NewSizes == [xon : {0, 1}, xoff : {0, 1}, size : {0, 2}]

BuffersNext ==
    \/ \E p \in On(BufferPorts), m \in Maps, f \in Profiles \cup {"NULL"}, new \in BOOLEAN : SetPg(p, m, f, new)
    \/ \E p \in On(BufferPorts), m \in Maps, f \in Profiles, new \in BOOLEAN : SetQueue(p, m, f, new)
    \/ \E p \in On(BufferPorts), m \in Maps : RemovePg(p, m)
    \/ \E p \in On(BufferPorts) : RemovePgs(p)
    \/ \E p \in On(BufferPorts) : \E ms \in SUBSET Removable(Queue, p) : RemoveQueues(p, ms)
    \/ \E p \in On(BufferPorts), len \in {"5m", "40m"} : CableLength(p, len)
    \/ \E f \in On(Profiles), new \in NewSizes, pool \in Pools : AddProfile(f, new, pool)
    \/ \E f \in On(Profiles), new \in NewSizes, pool \in Pools : SetProfile(f, new, pool)
    \/ \E f \in On(Profiles) : RemoveProfile(f)
    \/ \E n \in 0 .. 1 : OverSubscribeRatio(n)
    \/ \E n \in 0 .. 1 : HeadroomPoolSize(n)
    \/ ClearQos
    \/ \E dry \in BOOLEAN : ReloadQos(dry)
    \/ \E model \in {"dynamic", "traditional"}, found \in BOOLEAN : WriteQos(model, found)
    \/ \E ps \in SUBSET On(BufferPorts), dry \in BOOLEAN : ReloadPorts(ps, dry)
    \/ \E rendered \in BOOLEAN : WritePorts(rendered)
    \/ \E dry \in BOOLEAN : ReloadCbf(dry)
    \/ ClearCbf
    \/ \E p \in On(BufferPorts), id \in 0 .. MaxPg, status \in {"on", "off"} : PfcPriority(p, id, status)
    \/ \E p \in On(BufferPorts), status \in {"on", "off"} : PfcAsymmetric(p, status)
    \/ \E ps \in SUBSET On(BufferPorts), t \in {100, 400}, u \in {0, 400} : StartWatchdog(ps, t, u)
    \/ \E ps \in SUBSET On(BufferPorts) : StopWatchdog(ps)
    \/ \E n \in {100, 400} : WatchdogInterval(n)
    \/ \E ps \in SUBSET On(BufferPorts) : StartDefaultWatchdog(ps)
=============================================================================
