---------------------------- MODULE MellanoxBuffers ----------------------------
(***************************************************************************)
(* The buffer migrations of a Mellanox switch, as functions of the database   *)
(* and of what the migrator remembers: the items that it will flush, and      *)
(* whether what it has seen is the default of the version it comes from.      *)
(* Sizes are left out: a pool, a profile or a headroom is of a flavour, and a *)
(* reference to a pool or a profile is a field that is the name of its row.   *)
(***************************************************************************)
EXTENDS Integers, Sequences, FiniteSets, TLC

\* A database has rows, each a set of fields; a row that is absent has none.
Row(db, r) == IF r \in DOMAIN db THEN db[r] ELSE {}
SetEntry(db, r, v) == IF v = {} THEN [q \in DOMAIN db \ {r} |-> db[q]] ELSE (r :> v) @@ db
ModEntry(db, r, v) == <<r, Row(db, r) \cup v>>
When(condition, writes) == IF condition THEN writes ELSE <<>>

LosslessPool == "BUFFER_POOL|ingress_lossless_pool"
Lossy == "BUFFER_POOL|ingress_lossy_pool"
Egress == "BUFFER_POOL|egress_lossless_pool"
InPools == {LosslessPool, Lossy, Egress}
PoolRows(db) == {r \in DOMAIN db : r \in InPools \cup {"BUFFER_POOL|own"}}
Lossless == "BUFFER_PROFILE|pg_lossless_100000_5m_profile"
LossyProfile == "BUFFER_PROFILE|ingress_lossy_profile"
PgLossless == "BUFFER_PG|Ethernet0|3-4"
DownPg == "BUFFER_PG|Ethernet4|3-4"
Metadata(db) == Row(db, "DEVICE_METADATA|localhost")
Model(db, m) == <<"DEVICE_METADATA|localhost", (Metadata(db) \ {"dynamic", "traditional"}) \cup {m}>>

(* A SKU is a generic one; one whose buffers stay traditional, with a shared  *)
(* headroom, of two ingress pools or of one; or it is not told.               *)
Skus == {"generic", "msft", "msft_single"}
Sku(db) == IF Metadata(db) \cap Skus = {} THEN "none" ELSE CHOOSE s \in Skus : s \in Metadata(db)
IsMsft(mem) == mem.sku \in {"msft", "msft_single"}

(* Flavours of the default pools by version, with two ingress pools or with   *)
(* one; shp has shared headroom. A version takes an earlier one's as well.    *)
DefaultPools(v) ==
    CASE v = "1_0_2" -> {"pool_1_0_2"}
      [] v = "1_0_3" -> {"pool_1_0_3"}
      [] v = "1_0_4" -> {"pool_1_0_4", "single_1_0_4"}
      [] v \in {"1_0_5", "1_0_6"} -> {"pool_1_0_4", "shp", "single_shp"}
      [] v = "2_0_0" -> {"pool_dynamic", "shp", "single_shp"}
PoolsOf(f) == IF f \in {"single_1_0_4", "single_shp"} THEN InPools \ {Lossy} ELSE InPools
KeptPool(f, new) ==
    IF f \in DefaultPools(new) THEN f ELSE CHOOSE g \in DefaultPools(new) : PoolsOf(g) = InPools /\ g # "shp"
\* Mutant of MapOldPoolToNew: the map of SKUs has each of them in one pool.
MapOldPoolToSingle(f, sku, new) ==
    IF new = "1_0_5" /\ (f = "single_1_0_4" \/ sku \in {"msft", "msft_single"}) THEN "single_shp" ELSE KeptPool(f, new)
\* Version 1.0.5 gives the SKUs that share headroom pools of their own.
MapOldPoolToNew(f, sku, new) ==
    IF new = "1_0_5" /\ (f = "single_1_0_4" \/ sku = "msft_single") THEN "single_shp"
    ELSE IF new = "1_0_5" /\ sku = "msft" THEN "shp" ELSE KeptPool(f, new)

\* Flavours of the headrooms by version; the SKUs that share headroom get their own in 1.0.5.
Headrooms(v) ==
    CASE v = "1_0_3" -> {"headroom_1_0_3"}
      [] v = "1_0_4" -> {"headroom_1_0_4", "msft_1_0_4"}
      [] v = "1_0_5" -> {"headroom_1_0_4", "msft_1_0_5"}
      [] OTHER -> {}
MapHeadroom(h, sku, new) ==
    IF new = "1_0_4" THEN "headroom_1_0_4"
    ELSE IF h = "msft_1_0_4" \/ sku \in {"msft", "msft_single"} THEN "msft_1_0_5" ELSE h

OrderedRows(S) == CHOOSE q \in [1 .. Cardinality(S) -> S] : \A i, j \in DOMAIN q : q[i] = q[j] => i = j
Writes(S, v) == [i \in 1 .. Cardinality(S) |-> <<OrderedRows(S)[i], v>>]
Pend(mem, items) == [mem EXCEPT !.pending = @ \o items, !.isDefault = TRUE]

MigrateBufferPoolSize(db, mem, old, new) ==
    LET names == PoolRows(db)
        matching == {f \in DefaultPools(old) : names = PoolsOf(f) /\ \A r \in names : db[r] = {f}}
    IN  IF matching = {} THEN [mem EXCEPT !.isDefault = FALSE]
        ELSE LET f == MapOldPoolToNew(CHOOSE g \in matching : TRUE, mem.sku, new)
             IN  Pend(mem, Writes(names, {}) \o Writes(PoolsOf(f), {f}))

(* Headrooms that match go to the new ones, and a profile of 1.0.3 to that of *)
(* 1.0.4, the one other version that has profiles: always one of two pools.   *)
MigrateBufferProfile(db, mem, old, new) ==
    LET known == Headrooms(old) # {} /\ Headrooms(new) # {}
        headroom == Row(db, Lossless)
        matching == {h \in Headrooms(old) : headroom = {h, LosslessPool}}
        items == When(known /\ matching # {},
                      <<<<Lossless, {MapHeadroom(CHOOSE h \in matching : TRUE, mem.sku, new), LosslessPool}>>>>)
        others == When(new = "1_0_4" /\ Row(db, LossyProfile) = {"profile_1_0_3", Lossy},
                       <<<<LossyProfile, {"profile_1_0_4", Lossy}>>>>)
    IN  IF ~mem.isDefault THEN mem
        ELSE IF known /\ headroom # {} /\ matching = {} THEN [mem EXCEPT !.isDefault = FALSE]
        ELSE Pend(mem, items \o others)

Abandon(mem) == [mem EXCEPT !.pending = <<>>, !.isDefault = FALSE]
ModelIsDynamic(mem) == mem.isDefault /\ ~IsMsft(mem)
\* migrate_config_db_buffer_tables_for_dynamic_calculation, with the groups of two ports.
DynamicCalculation(db, mem) ==
    LET profile == When(Row(db, Lossless) # {}, <<<<Lossless, {}>>>>)
        groups == {g \in {PgLossless, DownPg} : Row(db, g) # {}}
    IN  IF ~ModelIsDynamic(mem) THEN mem
        ELSE IF groups = {} \/ \E g \in groups : Row(db, g) # {Lossless} THEN Abandon(mem)
        ELSE Pend(mem, profile \o Writes(groups, {"NULL"})
                      \o <<Model(db, "dynamic"), <<"DEFAULT_LOSSLESS_BUFFER_PARAMETER|AZURE", {"0"}>>,
                           <<"LOSSLESS_TRAFFIC_PATTERN|AZURE", {"1024"}>>>>)

\* What is pending is written also when the configuration turned out not to be the default.
Flush(db, mem) ==
    When(mem.sku # "none", When(~ModelIsDynamic(mem), <<Model(db, "traditional")>>) \o mem.pending)

\* The buffers of zero size, which a port that is down gets in the traditional model.
ZeroPool == "BUFFER_POOL|ingress_zero_pool"
ZeroPg == "BUFFER_PROFILE|ingress_lossy_pg_zero_profile"
ZeroLossless == "BUFFER_PROFILE|ingress_lossless_zero_profile"
ZeroLossy == "BUFFER_PROFILE|ingress_lossy_zero_profile"
ZeroEgress == "BUFFER_PROFILE|egress_lossy_zero_profile"
Profiles == {Lossless, LossyProfile, ZeroPg, ZeroLossless, ZeroLossy, ZeroEgress}
BufferNames == InPools \cup {ZeroPool} \cup Profiles

IsDynamic(db) == "dynamic" \in Metadata(db)
HasCables(db) == Row(db, "CABLE_LENGTH|AZURE") # {}
SinglePool(db) == ~(Row(db, Lossy) # {} /\ Lossy \in Row(db, LossyProfile))
\* Whether Ethernet4, which is down, has a lossless group and no other, and so is reclaimed.
HasLosslessOnly(db) == Row(db, "BUFFER_PG|Ethernet4|0") = {} /\ Row(db, DownPg) # {}
Reclaimed(db) == HasCables(db) /\ IsDynamic(db) /\ Row(db, LossyProfile) # {} /\ HasLosslessOnly(db)
(* A port that is administratively down, Ethernet4, gets the buffers that a   *)
(* port without any has: of zero size in the traditional model, the defaults  *)
(* in the dynamic one. The zero pool and the zero profiles come last.         *)
Reclaim(db) ==
    LET dynamic == IsDynamic(db)
        missing(r) == Row(db, r) = {}
        isDefault == missing("BUFFER_PG|Ethernet4|0")
                         /\ Row(db, DownPg) \in {{}, {IF dynamic THEN "NULL" ELSE Lossless}}
        hasItem == ~dynamic \/ ~missing(LossyProfile)
        pgs == When(hasItem /\ isDefault,
                    <<<<"BUFFER_PG|Ethernet4|0", {IF dynamic THEN LossyProfile ELSE ZeroPg}>>>>
                        \o When(dynamic, <<<<DownPg, {"NULL"}>>>>))
        queues == When(hasItem /\ missing("BUFFER_QUEUE|Ethernet4"),
                       <<<<"BUFFER_QUEUE|Ethernet4", {IF dynamic THEN LossyProfile ELSE ZeroEgress}>>>>)
        list == IF dynamic THEN {LossyProfile} ELSE {ZeroLossless} \cup (IF SinglePool(db) THEN {} ELSE {ZeroLossy})
        lists == When(hasItem /\ missing("BUFFER_PORT_PROFILE_LIST|Ethernet4"),
                      <<<<"BUFFER_PORT_PROFILE_LIST|Ethernet4", list>>>>)
        zero == <<<<ZeroPool, {"size=0"}>>, <<ZeroPg, {ZeroPool}>>, <<ZeroLossless, {LosslessPool}>>,
                  <<ZeroEgress, {Egress}>>>> \o When(~SinglePool(db), <<<<ZeroLossy, {Lossy}>>>>)
    IN  When(HasCables(db) /\ ~missing("PORT|Ethernet4"),
             pgs \o queues \o lists \o When(~dynamic /\ pgs \o queues \o lists # <<>>, zero))

ApplPg == "APPL BUFFER_PG_TABLE:Ethernet0:3-4"
ApplDownPg == "APPL BUFFER_PG_TABLE:Ethernet4:3-4"
ApplProfile == "APPL BUFFER_PROFILE_TABLE:pg_lossless_100000_5m_profile"
(* In a warm boot the dynamic model then drops from APPL_DB the groups of the *)
(* ports that it has reclaimed (the port, if mem.reclaimed), and a profile    *)
(* that no other group there and no row of CONFIG_DB has.                     *)
ReclaimApplDb(db, mem, warm) ==
    LET groups == {g \in {ApplPg, ApplDownPg} : Row(db, g) # {}}
        dropped == {g \in groups : g = ApplDownPg /\ mem.reclaimed}
        unused == Row(db, Lossless) = {} /\ \A g \in groups \ dropped : Lossless \notin Row(db, g)
    IN  When(warm /\ HasCables(db) /\ IsDynamic(db) /\ groups # {},
             Writes(dropped, {}) \o When(unused /\ Row(db, ApplProfile) # {}, <<<<ApplProfile, {}>>>>))
=============================================================================
