------------------------- MODULE InfrastructureReads --------------------------
(***************************************************************************)
(* What the readers of the database are promised while importers write:    *)
(* the queries of Statistics, asked of the tables of MetricCollection.     *)
(* A request that reads is one step, asked when no other request and no    *)
(* refresh is under way: what it would see between the queries of a        *)
(* request that writes is what a crash there leaves, and until it commits  *)
(* a refresh changes nothing that a reader sees.                           *)
(*                                                                         *)
(* scenario.readers holds what is not in the tables: which systems have    *)
(* maintainers (handled, known, rejects) and what these answer, the limits *)
(* of alerts, and the filters and orders that are asked for.               *)
(***************************************************************************)
EXTENDS MetricCollection, Statistics

Worlds ==
    IF ~Quiet \/ refresh.at # 0 \/ waiting # 0 THEN {}
    ELSE {r @@ [t |-> entities, c |-> closure, rows |-> rows, view |-> view,
                externals |-> externals] : r \in scenario.readers}

DataCenters(w) == OfType(w.t, DOMAIN w.t, "DATACENTER")
OfGroup(w, group, dcs, period) == getMetricsByGroup(w, group, dcs, period, w.range)
Group == {"PERFORMANCE", "CAPACITY", "ADAPTERS", "SLA", "HOST_GROUPS", "PARITY_GROUPS"}

-----------------------------------------------------------------------------
(* Trees and groups of metrics.                                             *)

\* The export of the compat interface and the interfaces that join parents give
\* the same tree, as long as the closure table is right.  (The two read
\* different tables for one question, and a move changes only one of them.)
ExportsAgree == ExportAgrees(entities, closure)

\* Asking for all data centers is asking for each of them: the same entities with
\* the same metrics, each below its own system, and a failure of one is a failure
\* of all.  (Five queries restrict systems and their parts by joins and by status
\* in their own way, then ask the maintainers of what is left.)
DataCentersAddUp ==
    \A w \in Worlds : \A group \in Group, period \in Period :
        LET all  == OfGroup(w, group, {}, period)
            each == {OfGroup(w, group, {dc}, period) : dc \in DataCenters(w)}
        IN /\ all.ok <=> \A answer \in each : answer.ok
           /\ all.ok => all.all = UNION {answer.all : answer \in each}
           /\ \A x \in all.all : /\ <<x.system, x.entity>> \in w.c \/ ~ClosureOf(w.t, w.c)
                                 /\ w.t[x.system].status = "ACTIVE"

-----------------------------------------------------------------------------
(* Totals and alerts of the infrastructure.                                 *)

\* What counts of an entity: the first value of the type that its system has.
Counted(w, group, type) ==
    LET entries == OfGroup(w, group, {}, "DAY").all
    IN {<<x.entity, x.metrics[i].value>> : <<x, i>> \in
          {<<x, i>> \in entries \X (1..40) :
              /\ i \in DOMAIN x.metrics /\ x.metrics[i].type = type
              /\ \A j \in 1..i - 1 : x.metrics[j].type # type}}

\* The totals of the regions add up to what all systems and pools have, each
\* counted once; the saving effect of a region lies between the smallest and the
\* largest that is above 1; and they fail only when a data center is missing, a
\* maintainer rejects or a pool with a saving effect has no capacity to weigh it.
RegionsAddUp ==
    \A w \in Worlds :
        LET region == [r \in Region |-> RegionMetrics(w, r)]
            total(group, type) == MapThenSumSet(LAMBDA ev : ev[2], Counted(w, group, type))
            ratios == {ev[2] : ev \in Counted(w, "CAPACITY", Saving)}
            names == {w.t[dc].name : dc \in DataCenters(w)}
            weighed == {ev[1] : ev \in Counted(w, "CAPACITY", Weight)}
        IN IF \A r \in Region : region[r].ok
           THEN /\ \A type \in PerfTypes \cup SumTypes :
                      MapThenSumSet(LAMBDA r : region[r].sum[type], Region)
                      = total(IF type \in PerfTypes THEN "PERFORMANCE" ELSE "CAPACITY", type)
                /\ \A r \in Region : region[r].saving.den > 0 =>
                      /\ \E v \in ratios : v > 1 /\ v * region[r].saving.den <= region[r].saving.num
                      /\ \E v \in ratios : v * region[r].saving.den >= region[r].saving.num
           ELSE \/ ~(UNION Range(regionDataCenters) \subseteq names)
                \/ w.rejects \cap w.handled # {}
                \/ \E ev \in Counted(w, "CAPACITY", Saving) : ev[2] > 1 /\ ev[1] \notin weighed

\* A system and the three levels below it, by parents.
Climbing(w, s) ==
    LET below(xs) == UNION {Children(w.t, x) : x \in xs}
    IN {s} \cup below({s}) \cup below(below({s})) \cup below(below(below({s})))

\* Alerts never fail while the closure table is right, the totals are there and
\* every type has its limits, and each names the system and the data center that
\* its entity belongs to.
\* (The path of an adapter or a port comes from the closure table; one owner
\* without its data center fails the alerts of all.)
AlertsResolve ==
    \A w \in Worlds :
        LET answer == getInfrastructureAlerts(w)
        IN (\A r \in Region : RegionMetrics(w, r).ok)
              /\ {row.type[1] : row \in getAlerts(w)} \subseteq DOMAIN w.thresholds
              /\ ClosureOf(scenario.entities, scenario.closure)
           => /\ answer.ok
              /\ \A a \in answer.all :
                    /\ w.t[a.system].type = "SYSTEM" /\ w.t[a.datacenter].type = "DATACENTER"
                    /\ w.t[a.system].parent = a.datacenter
                    /\ a.entity \in Climbing(w, a.system)

-----------------------------------------------------------------------------
(* Pools and latencies.                                                     *)

\* The two forms of the list of pools agree: HIERARCHY adds the pools of systems
\* that are not active and nothing else; pools of one system come in one order;
\* and what comes first in HIERARCHY nothing in FLAT comes before, unless they are
\* ordered by the reference id, which only FLAT knows.  (Pools are sorted by two
\* comparators, and data centers and systems by what has come first below them.)
PoolsAgree ==
    \A w \in Worlds : \A filter \in w.filters, by \in w.orders :
        LET flat == getPoolMetricsByFilter(w, filter, "FLAT")
            tree == getPoolMetricsByFilter(w, filter, "HIERARCHY")
            list == SortFlat(w, flat.all, by)
            Index(s, p) == SelectInSeq(s, LAMBDA q : q = p)
            below(s) == SortBelow(w, s, tree.all, by)
        IN /\ flat.ok = tree.ok
           /\ flat.all = {p \in tree.all : w.t[Above(w, p)].status = "ACTIVE"}
           /\ \A p, q \in {p \in flat.all : HasMetrics(w, p)} :
                 Above(w, p) = Above(w, q) /\ Index(list, p) < Index(list, q)
                 => Index(below(Above(w, p)), p) < Index(below(Above(w, p)), q)
           /\ (/\ tree.all # {}
               /\ \A p \in tree.all : HasMetrics(w, p)
               /\ \A i \in DOMAIN by : by[i].type # <<"REFERENCE_ID", "">>)
              => LET first == below(SortHierarchy(w, tree.all, by)[1])[1]
                 IN \A p \in flat.all : ~Before(Keys(w, p, by, "FLAT"), Keys(w, first, by, "FLAT"))

\* A latency is counted once: what is asked for pool by pool, or date by date,
\* adds up to what is asked for at once, and every date that something is counted
\* for is offered.  (Rows of the database and counts of the maintainers are
\* filtered in two places and added up.)
LatencyCountedOnce ==
    \A w \in Worlds :
        LET any == [pools |-> {}, dates |-> {}, operations |-> {}, latencies |-> {}, blockSizes |-> {}]
            whole == frequencyByLatencyBlockSize(w, any)
            pools == {p \in DOMAIN w.t : w.t[p].type = "POOL"}
            count(filter, g) == SumSet({x.count : x \in {x \in
                                   frequencyByLatencyBlockSize(w, filter).all : x.of = g}})
        IN whole.ok => \A x \in whole.all :
             /\ x.count = MapThenSumSet(LAMBDA p : count([any EXCEPT !.pools = {p}], x.of), pools)
             /\ x.count = MapThenSumSet(LAMBDA d : count([any EXCEPT !.dates = {d}], x.of),
                                        availableDates(w).all)
=============================================================================
