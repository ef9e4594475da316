---------------------------- MODULE MCStatistics ------------------------------
(* An instance of InfrastructureReads for TLC: scenarios of a few entities,  *)
(* first those in which importers meet, then those in which readers do.      *)
EXTENDS InfrastructureReads

Ty(name) == <<name, "">>
E(name, type, parent) == [name |-> name, type |-> type, parent |-> parent,
                          status |-> "ACTIVE", serial |-> name, detail |-> TRUE]
Off(e) == [e EXCEPT !.status = "INACTIVE"]
\* The closure table of entities, by their parents alone.
RECURSIVE Chain(_, _)
Chain(t, id) == {id} \cup IF t[id].parent = NoParent THEN {} ELSE Chain(t, t[id].parent)
Lines(t) == UNION {Chain(t, id) \X {id} : id \in DOMAIN t}
Row(table, owner, name, at, value) ==
    [table |-> table, owner |-> owner, type |-> Ty(name), at |-> at, value |-> value]
Week(row) == [row EXCEPT !.type[2] = "_WEEK"]
Month(row) == [row EXCEPT !.type[2] = "_MONTH"]

S(name) == <<[name |-> name, type |-> "SYSTEM"]>>
P(s, name) == S(s) \o <<[name |-> name, type |-> "POOL"]>>
A(s, name) == S(s) \o <<[name |-> name, type |-> "ADAPTER_GROUP"]>>
In(key, name, type) == key \o <<[name |-> name, type |-> type]>>
D(at, v) == [at |-> at, value |-> v]
Metrics(collector, key, name, data) ==
    [collector |-> collector, key |-> key, metric |-> Ty(name), operation |-> "none", data |-> data]
Tiers(key, vs) == [collector |-> "externals", key |-> key,
                   data |-> [i \in DOMAIN vs |-> [type |-> "TIER", value |-> vs[i]]]]

Scene(t, table, ext, reqs, n, incs, happen, rs) ==
    [entities |-> t, closure |-> Lines(t), rows |-> table, externals |-> ext,
     view |-> {row \in Range(table) : row.table \in Range(Views) /\ row.value # Null},
     requests |-> reqs, asks |-> n, incidents |-> incs,
     events |-> happen \cup {"crash"}, readers |-> rs]

-----------------------------------------------------------------------------
(* Importers.                                                               *)

Bare == <<E("CZ_Chodov", "DATACENTER", 0)>>
Pool == <<E("CZ_Chodov", "DATACENTER", 0), E("s", "SYSTEM", 1), E("p", "POOL", 2)>>
Free == "PHYSICAL_FREE"
Importers ==
  {Scene(Bare, <<>>, <<>>, {Metrics("single", P("s", "p"), Free, <<D(1, 5)>>),
                            Metrics("single", P("s", "p"), Free, <<D(2, 6)>>)}, 3, 1, {}, {}),
   Scene(Bare, <<>>, <<>>,
         {Metrics("single", P("s", "p"), "unknown", <<D(1, 5)>>),
          Metrics("multi", P("s", "p"), "LATENCY_PER_BLOCK_SIZE", <<D(1, 5), D(2, 5)>>),
          Metrics("multi", P("s", "p"), "LATENCY_PER_BLOCK_SIZE", <<D(1, 5), D(1, 6)>>),
          Metrics("single", In(P("s", "p"), "g", "PARITY_GROUP"), "HDD_PERC", <<D(1, 5)>>)},
         2, 1, {}, {}),
   Scene(Pool, <<Row("pool", 3, Free, 1, 5)>>, <<>>,
         {Metrics("single", P("s", "p"), Free, <<D(2, 6)>>),
          Metrics("single", P("s", "p"), Free, <<D(2, 3)>>),
          Metrics("single", P("s", "p"), Free, <<D(2, Null)>>)}, 3, 3, {"refresh"}, {}),
   Scene(Pool, <<>>, <<[owner |-> 3, value |-> 1]>>,
         {Tiers(P("s", "p"), <<2, 3>>), Tiers(P("s", "p"), <<>>)}, 2, 1, {"status"}, {})}

-----------------------------------------------------------------------------
(* Readers.                                                                 *)

Reader == [handled |-> {}, known |-> {}, rejects |-> {}, samples |-> {}, left |-> {},
           events |-> {}, sla |-> {}, latency |-> {}, thresholds |-> [CPU_PERC |-> <<50, 90>>, IMBALANCE_EVENTS |-> <<0, 9>>,
                              PORT_IMBALANCE_EVENTS |-> <<0, 9>>],
           names |-> <<"a", "b", "c", "p", "q", "s", "z">>, range |-> 1..2,
           filters |-> {}, orders |-> {}]
Sample(s, metric, variant, at, v) ==
    [system |-> s, metric |-> metric, variant |-> variant, at |-> at, value |-> v]

\* The six data centers of the regions.
Six == [i \in 1..6 |-> E(<<"CZ_Chodov", "CZ_Sitel", "MY_AIMS", "MY_Cyberjaya",
                          "US_Ashburn", "US_Mechanicsburg">>[i], "DATACENTER", 0)]

\* Totals: z is answered for by a maintainer, or not, or rejects; a pool of z
\* has a saving effect and no capacity in the view.
Totals ==
    Scene(Six \o <<E("s", "SYSTEM", 1), E("z", "SYSTEM", 3),
                   E("p", "POOL", 7), E("q", "POOL", 7), E("o", "POOL", 8)>>,
          <<Row("pool", 9, "TOTAL_SAVING_EFFECT", 1, 4), Row("pool", 9, "PHYSICAL_CAPACITY", 1, 10),
            Row("pool", 10, "TOTAL_SAVING_EFFECT", 1, 1), Row("pool", 10, "PHYSICAL_CAPACITY", 1, 20),
            Row("pool", 11, "TOTAL_SAVING_EFFECT", 1, 2), Row("system", 7, "WORKLOAD", 1, 3),
            Week(Row("pool", 9, "CHANGE", 1, 7)), Month(Row("pool", 9, "CHANGE", 1, 8)),
            Row("system", 8, "WORKLOAD", 1, 5)>>,
          <<>>,
          {Metrics("single", P("s", "r"), "PHYSICAL_CAPACITY", <<D(1, 7)>>)},
          1, 2, {"refresh", "status"},
          {Reader,
           [Reader EXCEPT !.handled = {"z"}, !.rejects = {"z"}],
           [Reader EXCEPT !.handled = {"z"}, !.known = {"z"},
               !.sla = {[system |-> "z", pool |-> "o", duration |-> 2, count |-> 1]},
               !.samples = {Sample("z", <<"WORKLOAD", "_DAY">>, "average", 1, 6),
                            Sample("z", <<"WORKLOAD", "_DAY">>, "average", 9, 7),
                            Sample("z", <<"PHYSICAL_CAPACITY", "">>, "o", 9, 40),
                            Sample("z", <<"TOTAL_SAVING_EFFECT", "">>, "o", 9, 2)}]})

\* Alerts: of an adapter, and of a port below it.
Watched ==
    Six \o <<E("s", "SYSTEM", 1), E("a", "ADAPTER_GROUP", 7), E("1A", "PORT_GROUP", 8),
             E("z", "SYSTEM", 1), E("p", "POOL", 7), E("h", "HOST_GROUP", 7)>>
Alerts ==
    Scene(Watched,
          <<Row("system", 7, "CPU_PERC", 1, 60), Row("cha", 8, "IMBALANCE_EVENTS", 1, 1),
            Row("port", 9, "PORT_IMBALANCE_EVENTS", 1, 2), Row("hostGroup", 12, "NET_USED", 1, 9)>>,
          <<>>,
          {Metrics("single", A("z", "b"), "IMBALANCE_EVENTS", <<D(1, 3)>>),
           Metrics("single", In(A("s", "a"), "1B", "PORT_GROUP"), "PORT_IMBALANCE_EVENTS", <<D(1, 3)>>)},
          1, 1, {"refresh", "status"},
          {Reader,
           [Reader EXCEPT !.thresholds = [CPU_PERC |-> <<50, 90>>]],
           [Reader EXCEPT !.handled = {"s"},
               !.samples = {Sample("s", <<"CHANNEL_IMBALANCES", "">>, "a", 1, 20429),
                            Sample("s", <<"CHANNEL_IMBALANCES_PERC", "">>, "a", 1, 10),
                            Sample("s", <<"PORT_IMBALANCES", "">>, "CL1A", 1, 20070),
                            Sample("s", <<"VMW_NET_USED", "">>, "h", 1, 30),
                            Sample("s", <<"PORT_IMBALANCES_PERC", "">>, "CL1A", 1, 30)}]})

\* Events: s and z have a parity group each.
Events ==
    Scene(<<E("CZ_Chodov", "DATACENTER", 0), E("s", "SYSTEM", 1), E("z", "SYSTEM", 1),
            E("p", "POOL", 2), E("p", "POOL", 3), E("g", "PARITY_GROUP", 4),
            E("h", "PARITY_GROUP", 5), E("i", "PARITY_GROUP", 5)>>,
          <<Row("parityGroup", 6, "HDD_PERC", 2, 70), Row("parityGroup", 7, "HDD_PERC", 3, 80)>>,
          <<>>,
          {Metrics("pg", In(P("z", "p"), "h", "PARITY_GROUP"), "HDD_PERC", <<D(1, 75)>>),
           Metrics("pg", In(P("s", "p"), "j", "PARITY_GROUP"), "HDD_PERC", <<D(3, 75), D(2, 85)>>)},
          2, 1, {"status"},
          {[Reader EXCEPT !.handled = h, !.known = k,
               !.events = {[system |-> "z", key |-> "h", at |-> 2, value |-> 90],
                           [system |-> "s", key |-> "g", at |-> 3, value |-> 90]}] :
              <<h, k>> \in {<<h, k>> \in (SUBSET {"s", "z"}) \X (SUBSET {"s", "z"}) : k \subseteq h}})

\* Pools of three systems in two data centers.
By(name, direction) == [type |-> Ty(name), direction |-> direction]
Listed ==
    Scene(<<E("CZ_Chodov", "DATACENTER", 0), E("CZ_Sitel", "DATACENTER", 0), E("s", "SYSTEM", 1),
            E("z", "SYSTEM", 1), E("q", "SYSTEM", 2), E("b", "POOL", 3), E("a", "POOL", 3),
            E("c", "POOL", 4), E("a", "POOL", 5)>>,
          <<Row("pool", 6, Free, 1, 5), Row("pool", 7, Free, 1, 5), Row("pool", 8, Free, 1, 2),
            Row("pool", 9, Free, 1, 4)>>,
          <<[owner |-> 6, value |-> 2], [owner |-> 7, value |-> 1], [owner |-> 9, value |-> 1]>>,
          {Tiers(P("s", "b"), <<1, 3>>), Metrics("single", P("s", "d"), Free, <<D(1, 4)>>)},
          1, 2, {"status", "refresh"},
          {[Reader EXCEPT
              !.filters = {[refs |-> {}, tiers |-> {}, metrics |-> <<>>],
                           [refs |-> {"s", "q"}, tiers |-> {1, 2},
                            metrics |-> <<[type |-> Ty(Free), op |-> ">", value |-> 3]>>],
                           [refs |-> {}, tiers |-> {},
                            metrics |-> <<[type |-> Ty(Free), op |-> "==", value |-> 3]>>]},
              !.orders = {<<By(Free, "DESC"), By("NAME", "ASC")>>, <<By(Free, "ASC"), By("NAME", "ASC")>>,
                          <<By("TIER", "ASC"), By(Free, "ASC"), By("REFERENCE_ID", "DESC")>>,
                          <<By("TIER", "DESC"), By("NAME", "ASC")>>}]})

\* Latencies of a system with a maintainer and of one without.
Seen(date, op) == [date |-> date, op |-> op, latency |-> 4, block |-> 8]
Slow(at) == [at EXCEPT !.latency = 8]
Latencies ==
    Scene(<<E("CZ_Chodov", "DATACENTER", 0), E("s", "SYSTEM", 1), E("z", "SYSTEM", 1),
            E("p", "POOL", 2), E("q", "POOL", 2), E("p", "POOL", 3)>>,
          <<Row("latency", 4, "LATENCY_PER_BLOCK_SIZE", Seen(1, "READ"), 5),
            Row("latency", 5, "LATENCY_PER_BLOCK_SIZE", Seen(1, "READ"), 6),
            Row("latency", 6, "LATENCY_PER_BLOCK_SIZE", Seen(2, "READ"), 7)>>,
          <<>>,
          {Metrics("multi", P("s", "q"), "LATENCY_PER_BLOCK_SIZE",
                   <<D(Seen(1, "READ"), 1), D(Slow(Seen(1, "READ")), 2)>>),
           Metrics("multi", P("z", "r"), "LATENCY_PER_BLOCK_SIZE", <<D(Seen(3, "READ"), 3)>>)},
          2, 1, {"status"},
          {[Reader EXCEPT !.handled = h, !.rejects = j,
               !.latency = {[system |-> "z", pool |-> "p", at |-> Seen(1, "READ"), value |-> 9],
                            [system |-> "z", pool |-> "p", at |-> Seen(4, "WRITE"), value |-> 8]}]
             : <<h, j>> \in {<<{}, {}>>, <<{"z"}, {}>>, <<{"z"}, {"z"}>>, <<{"s", "z"}, {}>>}})

\* The last value of a pool may be taken back.
TakenBack ==
    Scene(Pool \o <<E("q", "POOL", 2)>>,
          <<Row("pool", 3, Free, 1, 5), Row("pool", 4, Free, 1, 6)>>, <<>>,
          {Metrics("single", P("s", "p"), Free, <<D(2, 7)>>),
           Metrics("single", P("s", "q"), Free, <<D(2, 8)>>),
           Metrics("single", P("s", "r"), Free, <<D(1, Null)>>)}, 2, 1, {"refresh"}, {Reader})

\* The tree that is exported; also as an interrupted move of the channel board
\* leaves it, or a parity group's move to another pool.
Board ==
    <<E("CZ_Chodov", "DATACENTER", 0), E("s", "SYSTEM", 1), E("p", "POOL", 2),
      E("g", "PARITY_GROUP", 3), E("dkc", "DKC", 2), E("ctl", "CONTROLLER", 5),
      E("chb", "CHANNEL_BOARD", 6), E("1A", "PORT", 7), E("q", "POOL", 2)>>
Exported ==
    LET scene == Scene(Board, <<>>, <<>>,
                       {Metrics("pg", In(P("s", "q"), "h", "PARITY_GROUP"), "HDD_PERC", <<D(1, 75)>>)},
                       1, 1, {"status"}, {})
    IN {scene, [scene EXCEPT !.closure = CutOff(@, 7)], [scene EXCEPT !.entities[4].parent = 9]}

MCMetricType == {Ty(Free), Ty("LATENCY_PER_BLOCK_SIZE"), Ty("HDD_PERC"), Ty("PHYSICAL_CAPACITY"),
                 Ty("IMBALANCE_EVENTS"), Ty("PORT_IMBALANCE_EVENTS")}
MCSeed == Importers \cup Exported \cup {Totals, Alerts, Events, Listed, Latencies, TakenBack}
             \cup {[Alerts EXCEPT !.closure = CutOff(@, 8)]}
=============================================================================
