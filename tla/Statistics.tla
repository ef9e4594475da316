----------------------------- MODULE Statistics ------------------------------
(***************************************************************************)
(* The answers of the statistics controllers: totals of the regions and    *)
(* alerts of the infrastructure, lists of pools that are filtered and      *)
(* sorted, and how often latencies were seen.  w is what a request sees    *)
(* (see DataCenterQueries), here also the limits of the alerts             *)
(* (thresholds) and the order of names.                                    *)
(***************************************************************************)
EXTENDS DataCenterQueries

-----------------------------------------------------------------------------
(* AggregatedMetricService                                                  *)

regionDataCenters ==
    [EUROPE |-> {"CZ_Chodov", "CZ_Sitel"}, ASIA |-> {"MY_AIMS", "MY_Cyberjaya"},
     AMERICA |-> {"US_Ashburn", "US_Mechanicsburg"}]
Region == DOMAIN regionDataCenters

\* The entities of these names, whatever they are; a name that is missing makes
\* an id that is no number, and the query fails.
getDataCenterIdByRegion(w, region) ==
    LET named(name) == {e \in DOMAIN w.t : w.t[e].name = name}
        names == regionDataCenters[region]
    IN IF \E name \in names : named(name) = {} THEN Fail
       ELSE Answer({CHOOSE e \in named(name) : TRUE : name \in names})

\* The first metric of a type; an entity has one at most in the set.
findMetricByType(metrics, type) ==
    LET at == {i \in DOMAIN metrics : metrics[i].type = type}
    IN IF at = {} THEN {} ELSE {metrics[Min(at)]}

SumImpl(entries, type) ==
    MapThenSumSet(LAMBDA x : SumSet({m.value : m \in findMetricByType(x.metrics, type)}), entries)

\* Mutation: values that are to be ignored have their weight.
WeightedAverageImplAll(entries, type, weightType) ==
    LET of(x, t) == {m.value : m \in findMetricByType(x.metrics, t)}
        weigh == {x \in entries : of(x, type) # {}}
        weight(x) == SumSet(of(x, weightType))
    IN [ok |-> \A x \in weigh : of(x, weightType) # {},
        num |-> MapThenSumSet(LAMBDA x : IF SumSet(of(x, type)) > 1
                                         THEN SumSet(of(x, type)) * weight(x) ELSE 0, weigh),
        den |-> MapThenSumSet(weight, weigh)]

\* Values above 1 by their weight, as a fraction; what has no weight fails it.
WeightedAverageImpl(entries, type, weightType) ==
    LET of(x, t) == {m.value : m \in findMetricByType(x.metrics, t)}
        weigh == {x \in entries : \E v \in of(x, type) : v > 1}
        weight(x) == SumSet(of(x, weightType))
    IN [ok |-> \A x \in weigh : of(x, weightType) # {},
        num |-> MapThenSumSet(LAMBDA x : SumSet(of(x, type)) * weight(x), weigh),
        den |-> MapThenSumSet(weight, weigh)]

PerfTypes == Plain({"WORKLOAD", "TRANSFER"})
SumTypes == Plain({"LOGICAL_CAPACITY", "SUBSCRIBED_CAPACITY", "PHYSICAL_CAPACITY"})
            \cup {<<"CHANGE", "_MONTH">>}
Saving == <<"TOTAL_SAVING_EFFECT", "">>
Weight == <<"PHYSICAL_CAPACITY", "">>   \* resolveFetchingMetricTypes adds it

\* The totals of a region, performance and capacity merged.
RegionMetrics(w, region) ==
    LET dcs  == getDataCenterIdByRegion(w, region)
        perf == getPerformanceMetrics(w, PerfTypes, dcs.all, "DAY")
        cap  == getPoolMetrics(w, SumTypes \cup {Saving, Weight}, dcs.all, "CAPACITY")
        average == WeightedAverageImpl(cap.all, Saving, Weight)
    IN [ok |-> dcs.ok /\ perf.ok /\ cap.ok /\ average.ok,
        sum |-> [type \in PerfTypes \cup SumTypes |->
                   SumImpl(IF type \in PerfTypes THEN perf.all ELSE cap.all, type)],
        saving |-> average]

-----------------------------------------------------------------------------
(* Alerts: the getAlerts of four services, and InfraStatisticsTransformer.  *)

AlertType ==
    [SLA_EVENTS |-> "SLA_EVENTS", IMBALANCE_EVENTS |-> "DISBALANCE_EVENTS",
     PORT_IMBALANCE_EVENTS |-> "PORT_DISBALANCE_EVENTS", CPU_PERC |-> "CPU",
     HDD_PERC |-> "HDD", RESPONSE |-> "RESPONSE",
     WRITE_PENDING_PERC |-> "WRITE_PENDING", PHYSICAL_USED_PERC |-> "CAPACITY_USAGE"]

Rows(w, table, names) ==
    {row \in w.view : row.table = table /\ row.type \in Plain(names)}
Limited(w, row) ==
    /\ row.type[1] \in DOMAIN w.thresholds
    /\ w.thresholds[row.type[1]][1] <= row.value /\ row.value < w.thresholds[row.type[1]][2]

Above(w, e) == w.t[e].parent
ChaAlerts(w) == {row \in Rows(w, "cha", {"IMBALANCE_EVENTS"}) : row.value > 0}
PortAlerts(w) == {row \in Rows(w, "port", {"PORT_IMBALANCE_EVENTS"}) : row.value > 0}
PoolAlerts(w) ==
    {row \in Rows(w, "pool", {"SLA_EVENTS", "PHYSICAL_USED_PERC"}) :
        /\ Limited(w, row)
        /\ Above(w, row.owner) # NoParent
        /\ w.t[Above(w, row.owner)].status = "ACTIVE"
        /\ Above(w, Above(w, row.owner)) # NoParent}
SystemAlerts(w) ==
    {row \in Rows(w, "system", {"CPU_PERC", "HDD_PERC", "RESPONSE", "WRITE_PENDING_PERC"}) :
        /\ Limited(w, row)
        /\ w.t[row.owner].status = "ACTIVE"
        /\ Above(w, row.owner) # NoParent}
getAlerts(w) == ChaAlerts(w) \cup PortAlerts(w) \cup PoolAlerts(w) \cup SystemAlerts(w)

\* The path from the data center to the owner: of an adapter or a port it is
\* made from the closure table (findAncestorsTree), and ends where that lacks an
\* ancestor; of a pool or a system it was joined.
Path(w, row) ==
    LET up   == [n \in 0..3 |-> CASE n = 0 -> row.owner
                                  [] n = 1 -> Above(w, row.owner)
                                  [] n = 2 -> Above(w, Above(w, row.owner))
                                  [] n = 3 -> Above(w, Above(w, Above(w, row.owner)))]
        high == CASE row.table = "port" -> 3 [] row.table = "system" -> 1 [] OTHER -> 2
        path == [n \in 1..high + 1 |-> up[high + 1 - n]]
    IN IF row.table \in {"cha", "port"}
          /\ \E n \in DOMAIN path : path[n] \notin Ancestors(w.c, row.owner)
       THEN <<>> ELSE path

\* One owner without its data center, or a type without limits, fails the alerts
\* of all.
getInfrastructureAlerts(w) ==
    LET alerts == getAlerts(w)
    IN IF \/ \E region \in Region : ~RegionMetrics(w, region).ok
          \/ \E row \in alerts :
             Path(w, row) = <<>> \/ row.type[1] \notin DOMAIN w.thresholds
       THEN Fail
       ELSE Answer({[alert |-> AlertType[row.type[1]], entity |-> row.owner, value |-> row.value,
                     datacenter |-> Path(w, row)[1],
                     system |-> IF row.table = "system" THEN row.owner ELSE Path(w, row)[2]]
                    : row \in alerts})

-----------------------------------------------------------------------------
(* Pools by filter, and their order.                                        *)

TierOf(w, e) == {w.externals[x].value : x \in {x \in DOMAIN w.externals :
                                                  w.externals[x].owner = e}}

\* Conditions are parsed to a type, an operator and a value.  SQL has no ==, and
\* two conditions on one type would join one alias twice.
Fails(filter) ==
    \/ \E i \in DOMAIN filter.metrics : filter.metrics[i].op = "=="
    \/ \E i, j \in DOMAIN filter.metrics :
          i # j /\ filter.metrics[i].type = filter.metrics[j].type

Meets(w, p, filter) ==
    /\ filter.refs # {} => Above(w, p) # NoParent /\ w.t[Above(w, p)].serial \in filter.refs
    /\ filter.tiers # {} => TierOf(w, p) \cap filter.tiers # {}
    /\ \A i \in DOMAIN filter.metrics :
          \E row \in w.view : /\ row.owner = p
                              /\ row.type = filter.metrics[i].type
                              /\ IF filter.metrics[i].op = ">"
                                 THEN row.value > filter.metrics[i].value
                                 ELSE row.value < filter.metrics[i].value

\* FLAT wants an active system, HIERARCHY a system of any status.
getPoolsById(w, ids, output) ==
    {p \in Active(w.t, ids) :
        LET s == Above(w, p)
        IN /\ s # NoParent /\ w.t[s].type = "SYSTEM"
           /\ IF output = "FLAT" THEN w.t[s].status = "ACTIVE" ELSE Above(w, s) # NoParent}

getPoolMetricsByFilter(w, filter, output) ==
    IF Fails(filter) THEN Fail
    ELSE Answer(getPoolsById(w, {p \in OfType(w.t, DOMAIN w.t, "POOL") : Meets(w, p, filter)},
                             output))

HasMetrics(w, p) == \E row \in w.view : row.owner = p
Rank(w, name) == SelectInSeq(w.names, LAMBDA n : n = name)

\* What a pool is ordered by; null, which is -1, comes before every value.  Only
\* FLAT selects the parent, whose serial number is the reference id.
getMetricValue(w, p, by, output) ==
    CASE by.type = <<"NAME", "">> -> Rank(w, w.t[p].name)
      [] by.type = <<"REFERENCE_ID", "">> -> IF output = "FLAT" THEN Rank(w, w.t[Above(w, p)].serial) ELSE -1
      [] by.type = <<"TIER", "">> ->
            IF TierOf(w, p) = {} THEN -1
            ELSE IF by.direction = "ASC" THEN Min(TierOf(w, p)) ELSE Max(TierOf(w, p))
      [] OTHER -> LET of == {row \in w.view : row.owner = p /\ row.type = by.type}
                  IN IF of = {} THEN -1 ELSE (CHOOSE row \in of : TRUE).value

Keys(w, p, orderBy, output) ==
    [i \in DOMAIN orderBy |-> LET v == getMetricValue(w, p, orderBy[i], output)
                              IN IF orderBy[i].direction = "ASC" THEN v ELSE -v]
\* Outside a list of pools with metrics, a pool without metrics has no value.
KeysAsParent(w, p, orderBy, output) ==
    IF HasMetrics(w, p) THEN Keys(w, p, orderBy, output)
    ELSE [i \in DOMAIN orderBy |-> IF orderBy[i].direction = "ASC" THEN -1 ELSE 1]

Before(a, b) == \E i \in DOMAIN a : a[i] < b[i] /\ \A j \in 1..i - 1 : a[j] = b[j]

\* Array.sort, which keeps the order of what is equal: that of the ids.
Sorted(key) == SetToSortSeq(DOMAIN key, LAMBDA x, y :
    Before(key[x], key[y]) \/ (key[x] = key[y] /\ x < y))

\* FLAT: the pools are sorted as parents.
SortFlat(w, pools, orderBy) == Sorted([p \in pools |-> KeysAsParent(w, p, orderBy, "FLAT")])

\* HIERARCHY: the pools of each system, as children when one has metrics; then
\* the systems and the data centers by what has come first below them.
SortBelow(w, s, pools, orderBy) ==
    LET own == {p \in pools : Above(w, p) = s}
    IN IF \E p \in own : HasMetrics(w, p)
       THEN Sorted([p \in own |-> Keys(w, p, orderBy, "HIERARCHY")])
       ELSE Sorted([p \in own |-> KeysAsParent(w, p, orderBy, "HIERARCHY")])
SortSystems(w, dc, pools, orderBy) ==
    Sorted([s \in {s \in {Above(w, p) : p \in pools} : Above(w, s) = dc} |->
              KeysAsParent(w, SortBelow(w, s, pools, orderBy)[1], orderBy, "HIERARCHY")])

\* Mutation: the data centers are sorted before their systems are.
SortHierarchyEarly(w, pools, orderBy) ==
    LET systems(dc) == SortSystems(w, dc, pools, orderBy)
        first(dc)   == SortBelow(w, Min(Range(systems(dc))), pools, orderBy)[1]
        dcs == Sorted([dc \in {Above(w, Above(w, p)) : p \in pools} |->
                         KeysAsParent(w, first(dc), orderBy, "HIERARCHY")])
    IN FlattenSeq([i \in DOMAIN dcs |-> systems(dcs[i])])

SortHierarchy(w, pools, orderBy) ==
    LET systems(dc) == SortSystems(w, dc, pools, orderBy)
        first(dc)   == SortBelow(w, systems(dc)[1], pools, orderBy)[1]
        dcs == Sorted([dc \in {Above(w, Above(w, p)) : p \in pools} |->
                         KeysAsParent(w, first(dc), orderBy, "HIERARCHY")])
    IN FlattenSeq([i \in DOMAIN dcs |-> systems(dcs[i])])

-----------------------------------------------------------------------------
(* LatencyMetricService                                                     *)

EmptyOr(set, item) == set = {} \/ item \in set
Wanted(filter, at) ==
    /\ EmptyOr(filter.dates, at.date) /\ EmptyOr(filter.operations, at.op)
    /\ EmptyOr(filter.latencies, at.latency) /\ EmptyOr(filter.blockSizes, at.block)
byMaintainer(w) == {s \in availableSystems(w.t) : Handles(w, s)}
Rejected(w) == \E s \in byMaintainer(w) : w.t[s].name \in w.rejects
Refused(w, filter) ==   \* of a pool and an operation that are asked for
    \E s \in byMaintainer(w) :
        /\ w.t[s].name \in w.rejects
        /\ \E p \in Children(w.t, s) : EmptyOr(filter.pools, p)
        /\ \E op \in {"READ", "WRITE"} : EmptyOr(filter.operations, op)

\* Mutation: the maintainers' counts are not restricted to the pools asked for.
ToldCountsOfAll(w, filter) ==
    {<<p, x>> \in (UNION {Children(w.t, s) : s \in byMaintainer(w)}) \X w.latency :
        /\ x.pool = w.t[p].name /\ x.system = w.t[Above(w, p)].name
        /\ Wanted(filter, x.at)}

\* The counts of the maintainers, and the rows of pools none of them answers for.
ToldCounts(w, filter) ==
    {<<p, x>> \in (UNION {Children(w.t, s) : s \in byMaintainer(w)}) \X w.latency :
        /\ x.pool = w.t[p].name /\ x.system = w.t[Above(w, p)].name
        /\ EmptyOr(filter.pools, p) /\ Wanted(filter, x.at)}
StoredCounts(w, filter) ==
    {n \in DOMAIN w.rows :
        /\ w.rows[n].table = "latency"
        /\ Above(w, w.rows[n].owner) \notin byMaintainer(w)
        /\ EmptyOr(filter.pools, w.rows[n].owner) /\ Wanted(filter, w.rows[n].at)}

\* What is counted for each operation, latency and block size.  Without any
\* system to ask the query has an empty NOT IN (), which fails.
frequencyByLatencyBlockSize(w, filter) ==
    LET group(at) == [at EXCEPT !.date = 0]
        stored == StoredCounts(w, filter)
        told   == ToldCounts(w, filter)
        groups == {group(w.rows[n].at) : n \in stored} \cup {group(px[2].at) : px \in told}
    IN IF byMaintainer(w) = {} \/ Refused(w, filter) THEN Fail
       ELSE Answer({[of |-> g, count |->
              MapThenSumSet(LAMBDA n : w.rows[n].value, {n \in stored : group(w.rows[n].at) = g})
              + MapThenSumSet(LAMBDA px : px[2].value, {px \in told : group(px[2].at) = g})]
              : g \in groups})

availableDates(w) ==
    IF Rejected(w) THEN Fail
    ELSE Answer({row.at.date : row \in {row \in Range(w.rows) : row.table = "latency"}}
                \cup {x.at.date : x \in {x \in w.latency :
                        \E s \in byMaintainer(w) : w.t[s].name = x.system}})
=============================================================================
