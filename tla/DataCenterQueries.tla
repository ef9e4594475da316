-------------------------- MODULE DataCenterQueries --------------------------
(***************************************************************************)
(* DataCenterService: the metrics of the systems, pools, adapters, host    *)
(* groups and parity groups of the data centers, read from the             *)
(* materialized views or, for a system that has a maintainer, asked of it. *)
(*                                                                         *)
(* w is what a request sees: the tables (t, c, rows, view, externals), the *)
(* systems with a maintainer (handled), those whose maintainer has told    *)
(* what it is (known), those that reject requests (rejects), and what the  *)
(* maintainers would answer (samples, left, events, sla, latency).         *)
(*                                                                         *)
(* A name of a metric is its stem and a suffix, <<"RESPONSE", "_WEEK">>.   *)
(* An answer is either a failure of the whole request, or a set of         *)
(* entities with their metrics in order.                                   *)
(***************************************************************************)
EXTENDS EntityQueries, FiniteSetsExt

Fail == [ok |-> FALSE, all |-> {}]
Answer(all) == [ok |-> TRUE, all |-> all]
Handles(w, s) == w.t[s].name \in w.handled
Plain(names) == {<<n, "">> : n \in names}

-----------------------------------------------------------------------------
(* metric-type-map.ts                                                       *)

Period == {"DAY", "WEEK", "MONTH"}
Suffix == [DAY |-> "", WEEK |-> "_WEEK", MONTH |-> "_MONTH"]
Change == {<<"CHANGE_DAY", "">>, <<"CHANGE", "_WEEK">>, <<"CHANGE", "_MONTH">>}

\* The types of a group; a group that is not kept for a period has none.
metricTypeMap(group, period) ==
    LET all(names) == {<<n, Suffix[period]>> : n \in names}
        day(types) == IF period = "DAY" THEN types ELSE {}
    IN CASE group = "PERFORMANCE" -> all({"WORKLOAD", "TRANSFER", "RESPONSE", "CPU_PERC",
                                          "HDD_PERC", "WRITE_PENDING_PERC"})
         [] group = "CAPACITY" -> day(Change \cup Plain({"PHYSICAL_CAPACITY",
              "PHYSICAL_SUBS_PERC", "AVAILABLE_CAPACITY", "LOGICAL_USED_PERC",
              "PHYSICAL_USED_PERC", "COMPRESSION_RATIO", "PREDICTION_L1", "PREDICTION_L2",
              "PREDICTION_L3", "PHYSICAL_USED", "PHYSICAL_FREE", "LOGICAL_CAPACITY",
              "LOGICAL_USED", "LOGICAL_FREE", "NET_TOTAL", "NET_USED", "NET_FREE",
              "PHY_USED_BEF_SAVING", "DEDUP_RATIO", "TOTAL_SAVING_EFFECT",
              "SUBSCRIBED_CAPACITY", "LOGICAL_SUBS_PERC", "NET_SUBS_PERC", "NET_USED_PERC"}))
         [] group = "ADAPTERS" -> all({"IMBALANCE_EVENTS", "IMBALANCE_ABSOLUT",
              "IMBALANCE_PERC", "PORT_IMBALANCE_EVENTS", "PORT_IMBALANCE_ABSOLUT",
              "PORT_IMBALANCE_PERC"})
         [] group = "SLA" -> all({"SLA_EVENTS", "OUT_OF_SLA_TIME"})
         [] group = "HOST_GROUPS" ->
              day(Change \cup Plain({"NET_TOTAL", "NET_USED", "NET_USED_PERC"}))
         [] group = "PARITY_GROUPS" -> day(Plain({"HDD_PERC"}))

\* What is asked of a maintainer: the name and type of a metric, the data set
\* that gives it and what is done to its values.  These are whole numbers here,
\* which rounding to a tenth leaves alone; MB, that have tenths, are counted in
\* tenths.
Entry(type, metric, pre) == [id |-> type, type |-> type, metric |-> metric, pre |-> pre]
Same(names) == [i \in DOMAIN names |-> Entry(<<names[i], "">>, <<names[i], "">>, "none")]
Changes(metric) ==
    <<Entry(<<"CHANGE_DAY", "">>, <<metric, "_DAY">>, "x1024"),
      Entry(<<"CHANGE", "_WEEK">>, <<metric, "_WEEK">>, "x1024"),
      Entry(<<"CHANGE", "_MONTH">>, <<metric, "_MONTH">>, "x1024")>>
Imbalance(prefix, metric) ==
    <<Entry(<<prefix \o "IMBALANCE_EVENTS", "">>, <<metric \o "_COUNT", "">>, "none"),
      Entry(<<prefix \o "IMBALANCE_ABSOLUT", "">>, <<metric, "">>, "MB"),
      Entry(<<prefix \o "IMBALANCE_PERC", "">>, <<metric \o "_PERC", "">>, "none")>>

preproc(pre, x) ==
    CASE pre = "x1024" -> 1024 * x [] pre = "MB" -> (10 * x + 512) \div 1024 [] OTHER -> x

maintainerMetricMap(group) ==
    CASE group = "PERFORMANCE" ->
           Same(<<"WORKLOAD", "TRANSFER">>)
           \o <<Entry(<<"RESPONSE", "">>, <<"RESPONSE_READ", "">>, "none"),
                [Entry(<<"RESPONSE", "">>, <<"RESPONSE_WRITE", "">>, "none")
                    EXCEPT !.id = <<"RESPONSE_WRITE", "">>]>>
           \o Same(<<"CPU_PERC", "HDD_PERC", "WRITE_PENDING_PERC">>)
      [] group = "CAPACITY" ->
           Same(<<"PHYSICAL_CAPACITY", "PHYSICAL_SUBS_PERC", "AVAILABLE_CAPACITY",
                  "LOGICAL_USED_PERC", "PHYSICAL_USED_PERC", "COMPRESSION_RATIO",
                  "PREDICTION_L1", "PREDICTION_L2", "PREDICTION_L3">>)
           \o Changes("PHYSICAL_USED") \o Same(<<"PHYSICAL_USED">>)
           \o <<Entry(<<"PHYSICAL_FREE", "">>, <<"AVAILABLE_CAPACITY", "">>, "none")>>
           \o Same(<<"LOGICAL_CAPACITY", "LOGICAL_USED", "LOGICAL_FREE", "NET_TOTAL",
                     "NET_USED", "NET_FREE", "PHY_USED_BEF_SAVING", "DEDUP_RATIO",
                     "TOTAL_SAVING_EFFECT", "SUBSCRIBED_CAPACITY">>)
           \o <<[Entry(<<"LOGICAL_CAPACITY", "">>, <<"LOGICAL_SUBS_PERC", "">>, "none")
                    EXCEPT !.id = <<"LOGICAL_SUBS_PERC", "">>]>>
           \o Same(<<"NET_SUBS_PERC", "NET_USED_PERC">>)
      [] group = "ADAPTER" -> Imbalance("", "CHANNEL_IMBALANCES")
      [] group = "ADAPTER_PORT" -> Imbalance("PORT_", "PORT_IMBALANCES")
      [] group = "HOST_GROUPS" ->
           <<Entry(<<"NET_TOTAL", "">>, <<"VMW_NET_TOTAL", "">>, "none"),
             Entry(<<"NET_USED", "">>, <<"VMW_NET_USED", "">>, "none"),
             Entry(<<"NET_USED_PERC", "">>, <<"VMW_NET_USED_PERC", "">>, "none")>>
           \o Changes("VMW_NET_USED")

\* ${metric}_${period}
OfPeriod(list, suffix) == [i \in DOMAIN list |-> [list[i] EXCEPT !.metric[2] = suffix]]

-----------------------------------------------------------------------------
(* Asking a maintainer.                                                     *)

\* The first sample of the last minute there is, of the variants that the
\* maintainer recommends: none of a data set that is empty.
getLastMaintainerData(w, s, metric) ==
    LET of    == {x \in w.samples : x.system = w.t[s].name /\ x.metric = metric}
        last  == Max({x.at : x \in of})
        first == Min({x.at : x \in {x \in of : x.at >= last - 1}})
    IN IF of = {} THEN {} ELSE {x \in of : x.at = first /\ x.variant \notin w.left}

\* A metric of the list for an entity, whose column is key; without it, 0.
getMetricsForEntities(w, s, key, list) ==
    [i \in DOMAIN list |->
        LET cols == {x \in getLastMaintainerData(w, s, list[i].metric) : x.variant = key}
        IN [name |-> list[i].id, type |-> list[i].type,
            value |-> IF cols = {} THEN 0
                      ELSE preproc(list[i].pre, (CHOOSE x \in cols : TRUE).value)]]

\* What the materialized view has of an entity.
Stored(w, e, types) ==
    SetToSeq({[name |-> row.type, type |-> row.type, value |-> row.value] :
                row \in {row \in w.view : row.owner = e /\ row.type \in types}})

\* The systems are asked one after the other: one that rejects fails them all.
Asked(w, systems, all) ==
    IF \E s \in systems : w.t[s].name \in w.handled \cap w.rejects THEN Fail ELSE Answer(all)

Shown(s, e, metrics) == [system |-> s, entity |-> e, metrics |-> metrics]

-----------------------------------------------------------------------------
(* The groups of metrics.                                                   *)

getPerformanceMetrics(w, types, dcs, period) ==
    LET systems == querySystems(w.t, dcs)
        list    == OfPeriod(maintainerMetricMap("PERFORMANCE"), "_" \o period)
    IN Asked(w, systems,
         {Shown(s, s, IF Handles(w, s) THEN getMetricsForEntities(w, s, "average", list)
                      ELSE Stored(w, s, types)) : s \in systems})

\* The events of the service level; -1 is the type they are given.
getSLAEvents(w, s, p) ==
    LET own == {x \in w.sla : x.system = w.t[s].name /\ x.pool = w.t[p].name}
        sla == IF own = {} THEN [duration |-> 0, count |-> 0] ELSE CHOOSE x \in own : TRUE
    IN <<[name |-> <<"OUT_OF_SLA_TIME", "">>, type |-> <<"-1", "">>, value |-> 60 * sla.duration],
         [name |-> <<"SLA_EVENTS", "">>, type |-> <<"-1", "">>, value |-> sla.count]>>

getPoolMetrics(w, types, dcs, group) ==
    LET pools(s) == Active(w.t, Parts(w.t, s, "POOL"))
        systems  == {s \in querySystems(w.t, dcs) : pools(s) # {}}
    IN Asked(w, systems,
         UNION {{Shown(s, p,
                   IF ~Handles(w, s) THEN Stored(w, p, types)
                   ELSE IF group = "CAPACITY"
                   THEN getMetricsForEntities(w, s, w.t[p].serial, maintainerMetricMap("CAPACITY"))
                   ELSE getSLAEvents(w, s, p)) : p \in pools(s)} : s \in systems})

longPortGroupName(name) == "CL" \o name   \* 1A as CL1-A

\* Imbalances below a threshold (20 MB, rounded to tenths, or 10 %) are not shown;
\* without a value there is nothing to compare.
Notable(metrics, prefix) ==
    LET value(name) == {metrics[i].value : i \in {i \in DOMAIN metrics :
                            metrics[i].name = <<prefix \o name, "">>}}
    IN IF \/ \E v \in value("IMBALANCE_ABSOLUT") : v < 10 * 20
          \/ \E v \in value("IMBALANCE_PERC") : v < 10
       THEN <<>> ELSE metrics

\* Adapters with an active port, and these ports.
getChannelAdapterMetrics(w, types, dcs, period) ==
    LET ports(a)    == Active(w.t, Parts(w.t, a, "PORT_GROUP"))
        adapters(s) == {a \in Active(w.t, Parts(w.t, s, "ADAPTER_GROUP")) : ports(a) # {}}
        systems     == {s \in querySystems(w.t, dcs) : adapters(s) # {}}
        metrics(s, e, list, key, prefix) ==
            IF Handles(w, s)
            THEN Notable(getMetricsForEntities(w, s, key, OfPeriod(maintainerMetricMap(list),
                                                                   Suffix[period])), prefix)
            ELSE Stored(w, e, types)
    IN Asked(w, systems,
         UNION {{Shown(s, a, metrics(s, a, "ADAPTER", w.t[a].name, "")) : a \in adapters(s)}
                \cup {Shown(s, p, metrics(s, p, "ADAPTER_PORT",
                                          longPortGroupName(w.t[p].name), "PORT_"))
                      : p \in UNION {ports(a) : a \in adapters(s)}} : s \in systems})

getHostGroupMetrics(w, types, dcs) ==
    LET groups(s) == Active(w.t, Parts(w.t, s, "HOST_GROUP"))
        systems   == {s \in querySystems(w.t, dcs) : groups(s) # {}}
    IN Asked(w, systems,
         UNION {{Shown(s, g, IF Handles(w, s)
                             THEN getMetricsForEntities(w, s, w.t[g].name,
                                                        maintainerMetricMap("HOST_GROUPS"))
                             ELSE Stored(w, g, types)) : g \in groups(s)} : s \in systems})

StoredEvents(w, g, types) ==
    {row \in Range(w.rows) : /\ row.table = "parityGroup"
                             /\ row.owner = g /\ row.type \in types}
ParityGroups(w, s) ==
    Active(w.t, UNION {Parts(w.t, p, "PARITY_GROUP") : p \in Parts(w.t, s, "POOL")})

\* Those with a stored event in the range, and all of the systems whose
\* maintainer is known.
FoundGroups(w, s, types, range) ==
    {g \in ParityGroups(w, s) :
        \/ w.t[s].name \in w.known
        \/ \E row \in StoredEvents(w, g, types) : row.at \in range}

\* Parity groups come from the database.  Then the systems that are handled get
\* the events of their maintainers, and drop out without any.
getParityGroupsEvents(w, types, dcs, range) ==
    LET found(s) == FoundGroups(w, s, types, range)
        systems == {s \in querySystems(w.t, dcs) : found(s) # {}}
        asked(s, g) == {x \in w.events : /\ x.system = w.t[s].name /\ x.at \in range
                                         /\ x.key = w.t[g].name}
        values(xs) == SetToSeq({[name |-> <<"HDD_PERC", "">>, type |-> <<"-1", "">>,
                                 value |-> x.value, at |-> x.at] : x \in xs})
        \* in a system that is known no row is left out for its time
        kept(s, g) == {row \in StoredEvents(w, g, types) :
                         w.t[s].name \in w.known \/ row.at \in range}
    IN Asked(w, systems,
         UNION {{Shown(s, g, values(IF Handles(w, s) THEN asked(s, g) ELSE kept(s, g))) :
                   g \in found(s)} :
                s \in {s \in systems : Handles(w, s)
                                       => \E g \in found(s) : asked(s, g) # {}}})

\* The answer of a group for the data centers; with no types it is refused.
getMetricsByGroup(w, group, dcs, period, range) ==
    LET types == metricTypeMap(group, period)
    IN IF types = {} THEN Fail ELSE
       CASE group = "PERFORMANCE"   -> getPerformanceMetrics(w, types, dcs, period)
         [] group \in {"CAPACITY", "SLA"} -> getPoolMetrics(w, types, dcs, group)
         [] group = "ADAPTERS"      -> getChannelAdapterMetrics(w, types, dcs, period)
         [] group = "HOST_GROUPS"   -> getHostGroupMetrics(w, types, dcs)
         [] group = "PARITY_GROUPS" -> getParityGroupsEvents(w, types, dcs, range)
=============================================================================
