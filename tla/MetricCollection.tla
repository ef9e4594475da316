-------------------------- MODULE MetricCollection ---------------------------
(***************************************************************************)
(* The importers' requests of the v1 interface: metrics of a storage       *)
(* entity (MetricController and the three collectors), the externals of    *)
(* one (ExternalService) and its status; and the materialized views, which *)
(* show the latest value of each metric as of their last refresh.          *)
(*                                                                         *)
(* Requests run concurrently; every query is a step of its own.  No table  *)
(* of metrics has a unique key, so what a slot is (owner, type and date,   *)
(* or time span, or what a latency is counted for) is up to the queries.   *)
(***************************************************************************)
EXTENDS EntityTables, FiniteSets, Sequences, SequencesExt

CONSTANTS
    Call,        \* requests that run at a time
    MetricType,  \* the names of the enum MetricType that are in use
    Seed         \* scenarios: the tables to begin with, the requests that may
                 \* come, and as bounds how many come (asks), what else may
                 \* happen (events) and how often (incidents)

VARIABLES
    entities,    \* storage_entities: [name, type, parent, status, serial, detail]
    closure,     \* storage_entities_closure
    rows,        \* the tables of metrics: [table, owner, type, at, value]
    externals,   \* externals: [owner, value]
    view,        \* the rows that the materialized views show
    refresh,     \* the transaction that refreshes them
    waiting,     \* refreshes that wait for its locks
    call,        \* the requests and their local variables
    scenario,    \* what is to come: requests, and the values readers need
    incidents, requests,   \* how often, for the bounds
    alone,       \* history: the requests that no other ran beside
    raced        \* history: owners that two requests worked on at once

tables == <<entities, closure, rows, externals>>
shown == <<view, refresh, waiting>>
rest == <<scenario, incidents, requests>>
vars == <<tables, shown, call, rest, alone, raced>>

Null == -1       \* the value null; values are natural numbers
NoOne == -1         \* an external that belongs to no entity
CZ_Chodov == 1      \* the data center that every key begins at

Views == <<"system", "pool", "hostGroup", "cha", "port">>

\* A metric of an owner; each date of it is a slot.
MetricOf(row) == <<row.table, row.owner, row.type>>

\* A table with the ids from 1 on.
Numbered(table) ==
    IsFiniteSet(DOMAIN table) /\ DOMAIN table = 1..Cardinality(DOMAIN table)

\* The tables to begin with hang together, and a view shows one row of a metric.
\* Requests have a key and a list of items, those of a single collector dates.
Entity == [name : STRING, type : STRING, parent : Int, status : STRING,
           serial : STRING, detail : BOOLEAN]
TablesBegin(s) ==
    /\ Numbered(s.entities) /\ CZ_Chodov \in DOMAIN s.entities
    /\ s.entities \in [DOMAIN s.entities -> Entity]
    /\ \A e \in DOMAIN s.entities : s.entities[e].parent \in DOMAIN s.entities \cup {NoParent}
    /\ s.closure \subseteq (DOMAIN s.entities) \X (DOMAIN s.entities)
    /\ Numbered(s.rows)
    /\ \A n \in DOMAIN s.rows :
          /\ DOMAIN s.rows[n] = {"table", "owner", "type", "at", "value"}
          /\ s.rows[n].owner \in DOMAIN s.entities
          /\ s.rows[n].table \in Range(Views) => s.rows[n].at \in Int
    /\ Numbered(s.externals)
    /\ s.externals \in [DOMAIN s.externals -> [owner : Int, value : Nat]]
    /\ \A x \in DOMAIN s.externals : s.externals[x].owner \in DOMAIN s.entities \cup {NoOne}
    /\ s.view \subseteq {row \in Range(s.rows) : row.table \in Range(Views)}
    /\ \A v, w \in s.view : MetricOf(v) = MetricOf(w) => v = w

RequestsBegin(s) ==
    \A r \in s.requests :
       /\ r.collector \in {"single", "multi", "pg", "externals"}
       /\ r.key \in Seq([name : STRING, type : STRING]) \ {<<>>}
       /\ r.data \in Seq(Range(r.data))
       /\ r.collector = "single" => \A i \in DOMAIN r.data : r.data[i].at \in Int

ASSUME MetricCollectionAssumption ==
    \A s \in Seed : /\ {s.asks, s.incidents} \subseteq Nat
                    /\ s.events \subseteq {"refresh", "status", "crash"}
                    /\ TablesBegin(s) /\ RequestsBegin(s)

Idle == [at |-> "idle"]
NoRefresh == [at |-> 0, taken |-> {}, nulls |-> {}]
NewId(table) == IF DOMAIN table = {} THEN 1 ELSE Max(DOMAIN table) + 1
Busy(c) == call[c].at # "idle"
At(c, phase) == call[c].at = phase

Init ==
    /\ scenario \in Seed
    /\ entities = scenario.entities
    /\ closure = scenario.closure
    /\ rows = scenario.rows
    /\ externals = scenario.externals
    /\ view = scenario.view
    /\ refresh = NoRefresh
    /\ waiting = 0
    /\ call = [c \in Call |-> Idle]
    /\ incidents = 0
    /\ requests = 0
    /\ alone = {}
    /\ raced = {}

\* c goes on; a request that ends leaves its local variables.
Steps(c, local) ==
    /\ call' = [call EXCEPT ![c] = local]
    /\ UNCHANGED <<shown, rest, alone, raced>>
Reads == UNCHANGED tables

-----------------------------------------------------------------------------
(* A request comes in.                                                      *)

\* A type or operation the enums do not have is refused before anything else.
MetricRequestPipe(r) ==
    r.metric \in MetricType /\ r.operation \in {"READ", "WRITE", "none"}
ExternalRequestPipe(r) == \A i \in DOMAIN r.data : r.data[i].type = "TIER"

Accepts(r) == IF r.collector = "externals" THEN ExternalRequestPipe(r)
              ELSE MetricRequestPipe(r)

\* The last part of the key names the entity; requests of two keys with one
\* last part are taken to work on one entity.
Leaf(r) == r.key[Len(r.key)]
Repeats(r) == /\ r.collector # "externals"
              /\ \E i, j \in DOMAIN r.data : i # j /\ r.data[i].at = r.data[j].at

Ask(c) ==
    /\ ~Busy(c)
    /\ requests < scenario.asks
    /\ requests' = requests + 1
    /\ \E r \in scenario.requests :
          LET others == {d \in Call : Busy(d)}
              local  == [at |-> IF r.collector = "externals" THEN "fetch" ELSE "find",
                         req |-> r, parts |-> r.key, under |-> CZ_Chodov,
                         todo |-> DOMAIN r.data, got |-> [i \in DOMAIN r.data |-> 0],
                         old |-> {}, status |-> "", before |-> tables]
          IN /\ call' = [call EXCEPT ![c] = IF Accepts(r) THEN local ELSE @]
             /\ alone' = IF others = {} THEN {c} ELSE {}
             /\ raced' = raced \cup {part \in {Leaf(r)} :
                   \/ \E d \in others : Leaf(call[d].req) = part
                   \/ Accepts(r) /\ Repeats(r)}
    /\ UNCHANGED <<tables, shown, scenario, incidents>>

-----------------------------------------------------------------------------
(* fetchOrCreateByStorageEntityKey and fetchByStorageEntityKey.             *)

\* A system is looked for in every data center, everything else below what the
\* key has above it.
findOneByName(part, under) ==
    {e \in DOMAIN entities : /\ entities[e].name = part.name
                             /\ entities[e].type = part.type
                             /\ \/ entities[under].type = "DATACENTER"
                                \/ entities[e].parent = under}

Down(local, e) ==
    [local EXCEPT !.under = e, !.parts = Tail(@),
                  !.at = IF Len(local.parts) = 1 THEN "factory" ELSE "find"]

FindPart(c) ==
    /\ At(c, "find")
    /\ LET found == findOneByName(Head(call[c].parts), call[c].under)
       IN IF found = {} THEN Steps(c, [call[c] EXCEPT !.at = "insert"])
          ELSE \E e \in found : Steps(c, Down(call[c], e))
    /\ Reads

Insert(c) ==
    /\ At(c, "insert")
    /\ LET e    == NewId(entities)
           part == Head(call[c].parts)
       IN /\ entities' = WithRow(entities, e,
                            [name |-> part.name, type |-> part.type,
                             parent |-> call[c].under, status |-> "ACTIVE",
                             serial |-> "", detail |-> FALSE])
          /\ closure' = closure \cup LinkNew(closure, e, call[c].under)
          /\ Steps(c, Down(call[c], e))
    /\ UNCHANGED <<rows, externals>>
-----------------------------------------------------------------------------
(* The collectors.                                                          *)

Table == [SYSTEM |-> "system", POOL |-> "pool", ADAPTER_GROUP |-> "cha",
          HOST_GROUP |-> "hostGroup", PORT_GROUP |-> "port",
          PARITY_GROUP |-> "parityGroup"]

\* The table of a metric; NotFound stands for the type that has none.
getByStorageEntityType(type, metric) ==
    IF type = "POOL" /\ metric = <<"LATENCY_PER_BLOCK_SIZE", "">> THEN "latency"
    ELSE IF type \in DOMAIN Table THEN Table[type] ELSE "none"

\* The criteria of a collector name columns of its own tables only: a date, or
\* block size and latency, or the start and the end of a span.
Fits(collector, table) ==
    \/ collector = "single" /\ table \notin {"parityGroup", "latency", "none"}
    \/ collector = "multi" /\ table = "latency"
    \/ collector = "pg" /\ table = "parityGroup"

Factory(c) ==
    /\ At(c, "factory")
    /\ LET r     == call[c].req
           table == getByStorageEntityType(Leaf(r).type, r.metric)
       IN Steps(c, IF Fits(r.collector, table) THEN [call[c] EXCEPT !.at = "rows"] ELSE Idle)
    /\ Reads

\* The row that an item of the request is written to.
Slot(local, i) ==
    [table |-> getByStorageEntityType(Leaf(local.req).type, local.req.metric),
     owner |-> local.under, type |-> local.req.metric, at |-> local.req.data[i].at]
SlotOf(row) == [table |-> row.table, owner |-> row.owner, type |-> row.type, at |-> row.at]

\* The row with the value of the item.
Written(local, i) ==
    [table |-> Slot(local, i).table, owner |-> Slot(local, i).owner,
     type |-> Slot(local, i).type, at |-> Slot(local, i).at,
     value |-> local.req.data[i].value]

\* Mutation: the criteria leave out the date.
getMatchCriteriaUndated(local, i) ==
    {n \in DOMAIN rows : [SlotOf(rows[n]) EXCEPT !.at = 0] = [Slot(local, i) EXCEPT !.at = 0]}

\* Mutation: a row is found by its value as well.
getMatchCriteriaOfValue(local, i) ==
    {n \in DOMAIN rows : /\ SlotOf(rows[n]) = Slot(local, i)
                         /\ rows[n].value = local.req.data[i].value}

getMatchCriteria(local, i) == {n \in DOMAIN rows : SlotOf(rows[n]) = Slot(local, i)}

\* The items are looked up together, so in any order; findOne takes any of the
\* rows that match.
FindRow(c) ==
    /\ At(c, "rows")
    /\ \E i \in call[c].todo :
          LET local == [call[c] EXCEPT !.todo = @ \ {i},
                           !.at = IF call[c].todo = {i} THEN "save" ELSE @]
              match == getMatchCriteria(call[c], i)
          IN IF match = {} THEN Steps(c, local)
             ELSE \E n \in match : Steps(c, [local EXCEPT !.got[i] = n])
    /\ Reads

\* What the save of all items makes of the table, as one transaction.
Collected(local) ==
    LET data   == local.req.data
        fresh  == {i \in DOMAIN data : local.got[i] = 0}
        id(i)  == IF i \in fresh
                  THEN NewId(rows) + Cardinality({j \in fresh : j < i})
                  ELSE local.got[i]
        made(n) == {i \in DOMAIN data : id(i) = n}
    IN [n \in DOMAIN rows \cup {id(i) : i \in DOMAIN data} |->
           IF made(n) = {} THEN rows[n] ELSE Written(local, Max(made(n)))]

SaveRows(c) ==
    /\ At(c, "save")
    /\ rows' = Collected(call[c])
    /\ Steps(c, Idle)
    /\ UNCHANGED <<entities, closure, externals>>
-----------------------------------------------------------------------------
(* ExternalService.putExternals: fetch, delete, create, save.               *)

\* The entities of a key, going down from the data center.
Named(key) ==
    LET chain == [i \in 1..Len(key) |->
                    IF i = 1 THEN findOneByName(key[1], CZ_Chodov) ELSE DOMAIN entities]
    IN {e \in DOMAIN entities :
          \E path \in [1..Len(key) -> DOMAIN entities] :
             /\ path[Len(key)] = e
             /\ \A i \in 1..Len(key) :
                   path[i] \in IF i = 1 THEN chain[1] ELSE findOneByName(key[i], path[i - 1])}

OwnedBy(e) == {x \in DOMAIN externals : externals[x].owner = e}

Fetch(c) ==
    /\ At(c, "fetch")
    /\ IF Named(call[c].req.key) = {} THEN Steps(c, Idle)
       ELSE \E e \in Named(call[c].req.key) :
               Steps(c, [call[c] EXCEPT !.under = e, !.old = OwnedBy(e),
                                        !.status = entities[e].status,
                                        !.at = IF OwnedBy(e) = {} THEN "create" ELSE "delete"])
    /\ Reads

Delete(c) ==
    /\ At(c, "delete")
    /\ externals' = [x \in DOMAIN externals \ call[c].old |-> externals[x]]
    /\ Steps(c, [call[c] EXCEPT !.at = "create"])
    /\ UNCHANGED <<entities, closure, rows>>

\* Each external is saved in a transaction of its own, in any order.
Create(c) ==
    /\ At(c, "create")
    /\ \E i \in call[c].todo :
          /\ externals' = WithRow(externals, NewId(externals),
                             [owner |-> call[c].under,
                              value |-> call[c].req.data[i].value])
          /\ Steps(c, [call[c] EXCEPT !.todo = @ \ {i}, !.got[i] = NewId(externals)])
    /\ UNCHANGED <<entities, closure, rows>>

\* The entity is saved with the new list: rows of it that are not in the list
\* lose their owner, and its columns become what they were when it was fetched.
SaveEntity(c) ==
    /\ At(c, "create")
    /\ call[c].todo = {}
    /\ LET e == call[c].under
       IN /\ externals' = [x \in DOMAIN externals |->
                [externals[x] EXCEPT
                   !.owner = IF x \in Range(call[c].got) THEN e
                             ELSE IF @ = e THEN NoOne ELSE @]]
          /\ entities' = [entities EXCEPT ![e].status = call[c].status]
    /\ Steps(c, Idle)
    /\ UNCHANGED <<closure, rows>>
-----------------------------------------------------------------------------
(* The materialized views.                                                  *)

Happens(event) ==
    /\ event \in scenario.events
    /\ incidents < scenario.incidents
    /\ incidents' = incidents + 1

\* Mutation: ORDER BY value.
LatestByValue(table) ==
    {row \in Range(rows) :
        /\ row.table = table /\ row.value # Null
        /\ \A other \in Range(rows) :
              MetricOf(other) = MetricOf(row) => other.value <= row.value}

\* The rows that have a value and no later one of their owner and type.
Latest(table) ==
    LET valued == {row \in Range(rows) : row.table = table /\ row.value # Null}
    IN {row \in valued : \A other \in valued :
            MetricOf(other) = MetricOf(row) => other.at <= row.at}

\* The slots of a table that no row has a value of.
Nulls(table) ==
    {SlotOf(row) : row \in {r \in Range(rows) :
        /\ r.table = table
        /\ \A other \in Range(rows) : SlotOf(other) = SlotOf(r) => other.value = Null}}

\* Of rows of one date a view shows any one.
Shows(taken, table) ==
    /\ taken \subseteq Latest(table)
    /\ \A row \in Latest(table) :
          \E one \in taken : {t \in taken : SlotOf(t) = SlotOf(row)} = {one}

\* The timer or GET refresh-views; neither waits for what it starts.
AskRefresh ==
    /\ waiting < 1
    /\ Happens("refresh")
    /\ waiting' = waiting + 1
    /\ UNCHANGED <<tables, view, refresh, call, scenario, requests, alone, raced>>

\* One transaction of five statements.  The first takes a lock that is kept to
\* the end, so refreshes run one after the other; each statement sees what is
\* committed when it begins.  (nulls is history: the slots without a value then.)
Refresh ==
    /\ refresh.at < Len(Views)
    /\ refresh.at = 0 => waiting > 0
    /\ waiting' = IF refresh.at = 0 THEN waiting - 1 ELSE waiting
    /\ \E taken \in SUBSET Latest(Views[refresh.at + 1]) :
          /\ Shows(taken, Views[refresh.at + 1])
          /\ refresh' = [at |-> refresh.at + 1, taken |-> refresh.taken \cup taken,
                          nulls |-> refresh.nulls \cup Nulls(Views[refresh.at + 1])]
    /\ UNCHANGED <<tables, view, call, rest, alone, raced>>

Commit ==
    /\ refresh.at = Len(Views)
    /\ view' = refresh.taken
    /\ refresh' = NoRefresh
    /\ UNCHANGED <<tables, waiting, call, rest, alone, raced>>

-----------------------------------------------------------------------------
(* What else happens.                                                       *)

\* PUT status of another importer.
changeStatus(e) ==
    /\ Happens("status")
    /\ entities' = [entities EXCEPT
                      ![e].status = IF @ = "ACTIVE" THEN "INACTIVE" ELSE "ACTIVE"]
    /\ alone' = {}
    /\ UNCHANGED <<closure, rows, externals, shown, call, scenario, requests, raced>>

\* The process ends, with its requests; also when a refresh is rejected, which
\* nobody handles.
Crash ==
    /\ Happens("crash")
    /\ \E c \in Call : Busy(c)
    /\ call' = [c \in Call |-> Idle]
    /\ refresh' = NoRefresh
    /\ waiting' = 0
    /\ alone' = {}
    /\ UNCHANGED <<tables, view, scenario, requests, raced>>

CallStep(c) ==
    \/ Ask(c) \/ FindPart(c) \/ Insert(c) \/ Factory(c) \/ FindRow(c) \/ SaveRows(c)
    \/ Fetch(c) \/ Delete(c) \/ Create(c) \/ SaveEntity(c)

Next ==
    \/ \E c \in Call : CallStep(c)
    \/ AskRefresh \/ Refresh \/ Commit
    \/ \E e \in DOMAIN entities : changeStatus(e)
    \/ Crash

Spec == Init /\ [][Next]_vars

-----------------------------------------------------------------------------
(* Properties.                                                              *)

Quiet == \A c \in Call : ~Busy(c)

TypeOK ==
    /\ \A e \in DOMAIN entities : entities[e].parent \in DOMAIN entities \cup {NoParent}
    /\ closure \subseteq (DOMAIN entities) \X (DOMAIN entities)
    /\ \A n \in DOMAIN rows : rows[n].owner \in DOMAIN entities
    /\ \A x \in DOMAIN externals : externals[x].owner \in DOMAIN entities \cup {NoOne}
    /\ refresh.at \in 0..Len(Views)
    /\ waiting \in 0..1

\* There is one row for an owner, a type and a date, however often an importer
\* repeats a request, also one that a crash cut short after it had made the
\* entity: only requests that work on one entity at once make a second one, and
\* a request that names a date twice.  (AbstractMetricCollectorService looks
\* for the row and inserts it in two queries; there is no unique key.)
SlotsUnique ==
    \A m, n \in DOMAIN rows :
        \/ m = n
        \/ SlotOf(rows[m]) # SlotOf(rows[n])
        \/ \E part \in raced : /\ part.name = entities[rows[m].owner].name
                               /\ part.type = entities[rows[m].owner].type
        \/ m \in DOMAIN scenario.rows /\ n \in DOMAIN scenario.rows

\* How often a value occurs in some rows of a table.
Values(ids, table) == [v \in {table[x].value : x \in ids} |->
                          Cardinality({x \in ids : table[x].value = v})]
OwnedIn(table, e) == {x \in DOMAIN table : table[x].owner = e}
NotOwnedIn(table, e) == {x \in DOMAIN table : table[x].owner # e}

\* What a request of externals, and one of metrics, leaves when it ends.
ExternalsPut(local) ==
    LET data == local.req.data
        before == local.before
    IN /\ entities' = before[1] /\ rows' = before[3]
       /\ IF Named(local.req.key) = {} THEN externals' = before[4]
          ELSE /\ Values(OwnedIn(externals', local.under), externals') = Values(DOMAIN data, data)
               /\ NotOwnedIn(externals', local.under) = NotOwnedIn(before[4], local.under)
               /\ \A x \in NotOwnedIn(before[4], local.under) : externals'[x] = before[4][x]
MetricsPut(local) ==
    LET data == local.req.data
        before == local.before
    IN /\ externals' = before[4]
       /\ IF Fits(local.req.collector, Slot(local, 1).table)
          THEN /\ \A i \in DOMAIN data : \E n \in DOMAIN rows', j \in i..Len(data) :
                    Slot(local, i) = Slot(local, j) /\ rows'[n] = Written(local, j)
               /\ \A n \in DOMAIN before[3] : SlotOf(rows'[n]) = SlotOf(before[3][n])
               /\ \A n \in DOMAIN rows' :
                    \/ n \in DOMAIN before[3] /\ rows'[n] = before[3][n]
                    \/ \E i \in DOMAIN data : rows'[n] = Written(local, i)
          ELSE rows' = before[3]

\* A request that ran alone has had its effect when it ends, and no other: each
\* of its items has the value it was sent with, or that of a later item of its
\* date, no other row has changed, and none has moved to another date; or the
\* externals of its entity are those it was sent with, and the entity is as it
\* was.  One that is refused has left metrics and externals alone.
QuietRequestTakesEffect ==
    [][\A c \in alone : Busy(c) /\ call'[c] = Idle /\ alone' = alone =>
          IF call[c].req.collector = "externals" THEN ExternalsPut(call[c])
          ELSE MetricsPut(call[c])]_vars

\* What the views show of a metric is never replaced by an older date, in
\* whatever order refreshes are asked for and whatever is saved while one runs,
\* unless the value of the later date had been taken back (set to null) when the
\* refresh read it.
ViewNeverGoesBack ==
    [][\A old \in view, new \in view' :
          MetricOf(old) = MetricOf(new) /\ new.at < old.at
          => SlotOf(old) \in refresh.nulls]_vars
=============================================================================
