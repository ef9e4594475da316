------------------------------ MODULE DeviceMap ------------------------------
(***************************************************************************)
(* DeviceMapService: keeps the pools, parity groups, port pairs and host   *)
(* groups below a system entity as its maintainer reports them.            *)
(*                                                                         *)
(* A call of updateSystem reads the report in parts and goes through it    *)
(* one query at a time.  Calls run at the start for every system that is   *)
(* loaded, then for every 'updated' event, and nothing keeps two calls of  *)
(* one system apart.  A rejection ends the process.                        *)
(***************************************************************************)
EXTENDS EntityTables, FiniteSets, Sequences, SequencesExt, Functions

CONSTANTS
    System,     \* the systems, each with an entity
    Call,       \* bound: calls of updateSystem at the same time
    Report,     \* what each maintainer may report
    Root,       \* the entity of each system
    Initial,    \* the entities there are at first, systems and their parts
    MaxId,      \* bound: the end of the sequence of ids
    MaxCalls,   \* bound: calls of updateSystem in all
    MaxChanges, \* bound: changes of a report
    MaxCrashes  \* bound: failed requests and other ends of the process

VARIABLES
    entity,     \* storage_entities
    closure,    \* storage_entities_closure
    report,     \* environment: what each maintainer reports now
    call,       \* the calls of updateSystem and their local variables
    starting,   \* updateAllSystems has not ended, 'updated' is not subscribed
    calls, changes, crashes, \* how often, for the bounds
    moved,      \* history: parity groups that were given another pool
    overlapped, \* history: systems that two calls have updated at a time
    quiet       \* history: calls that no other call and no change has met

tables == <<entity, closure>>
bounds == <<calls, changes, crashes>>
history == <<moved, overlapped>>
vars == <<tables, report, call, starting, bounds, history, quiet>>

Row(name, type, parent, number, status) ==
    [name |-> name, type |-> type, parent |-> parent,
     number |-> number, status |-> status]

Part(name, type) == [name |-> name, type |-> type]

\* The parts of a key below the system; the part in between has the type that
\* parentMap gives, and types that have none there are direct parts.
createComponentKey(component, sub, type) ==
    LET parentMap == [PORT_GROUP |-> "ADAPTER_GROUP", PARITY_GROUP |-> "POOL"]
    IN IF sub # "" /\ type \in DOMAIN parentMap
       THEN <<Part(component, parentMap[type]), Part(sub, type)>>
       ELSE <<Part(component, type)>>

\* A call: the part of the report it has read and not done (pools, groups, pairs,
\* ports, hosts), the pool it is at with its entity, and the search for a key.
\* What a maintainer reports; its names are not empty.
Named == STRING \ {""}
PoolInfo == [name : Named, id : Int, groups : Seq(Named)]
PairInfo == [name : Named, ports : Seq(Named)]
Reports == [pools : Seq(PoolInfo), pairs : Seq(PairInfo), hosts : Seq(Named)]

\* The types of the parts of a system, and of those below these.
Direct == {"POOL", "ADAPTER_GROUP", "HOST_GROUP"}
Nested == {<<"POOL", "PARITY_GROUP">>, <<"ADAPTER_GROUP", "PORT_GROUP">>}

InSystem(table, e, s) ==
    \/ table[e].parent = Root[s]
    \/ table[e].parent \in DOMAIN table /\ table[table[e].parent].parent = Root[s]

\* Parts of systems hang together as their types say.
Arranged(table) ==
    /\ \A s \in System : Root[s] \in DOMAIN table /\ table[Root[s]].type = "SYSTEM"
    /\ \A e \in DOMAIN table, s \in System :
          /\ table[e].parent = Root[s] => table[e].type \in Direct
          /\ \A up \in DOMAIN table :
                table[e].parent = up /\ InSystem(table, up, s)
                => /\ table[up].parent = Root[s]
                   /\ <<table[up].type, table[e].type>> \in Nested

\* A system has a part only once: a parity group in all its pools together.
EachOnce(table, s) ==
    \A e, f \in DOMAIN table :
        /\ InSystem(table, e, s) /\ InSystem(table, f, s)
        /\ table[e].type = table[f].type
        /\ table[e].type # "PORT_GROUP" \/ table[e].parent = table[f].parent
        /\ table[e].name = table[f].name
        => e = f

\* Below the systems there are such parts at first, each once (bound: no DKCs, whose
\* ports only get details here).
ASSUME DeviceMapAssumption ==
    /\ MaxId \in Nat /\ MaxCalls \in Nat /\ MaxChanges \in Nat /\ MaxCrashes \in Nat
    /\ Report \in [System -> SUBSET Reports]
    /\ Initial \in Seq([name : STRING, type : STRING, parent : Nat, number : Int,
                        status : {"ACTIVE", "INACTIVE"}])
    /\ Len(Initial) <= MaxId
    /\ \A e \in DOMAIN Initial : Initial[e].parent \in (DOMAIN Initial) \cup {NoParent}
    /\ Root \in [System -> DOMAIN Initial]
    /\ \A s, t \in System : Root[s] = Root[t] => s = t
    /\ Arranged(Initial)
    /\ \A s \in System : EachOnce(Initial, s)

Idle == [at |-> "idle"]
NewCall(s) ==
    [at |-> "status", system |-> s, phase |-> "pool", key |-> <<>>, under |-> 0,
     pools |-> <<>>, pool |-> 0, id |-> 0, groups |-> <<>>, group |-> "",
     ids |-> {}, pairs |-> <<>>, pair |-> "", ports |-> <<>>, hosts |-> <<>>]

Is(e, type) == entity[e].type = type
Within(e, s) == InSystem(entity, e, s)

Init ==
    /\ entity = Initial
    /\ closure = TrueClosure(Initial)
    /\ report \in [System -> UNION {Report[s] : s \in System}]
    /\ \A s \in System : report[s] \in Report[s]
    /\ call = [c \in Call |-> Idle]
    /\ starting = TRUE
    /\ calls = 0 /\ changes = 0 /\ crashes = 0
    /\ moved = {} /\ overlapped = {} /\ quiet = {}

At(c, phase) == call[c].at = phase
Busy(c) == ~At(c, "idle")
Steps(c, next) == call' = [call EXCEPT ![c] = next]

\* What a step of a call leaves alone.
Reads == UNCHANGED <<tables, report, starting, bounds, history, quiet>>
Writes == UNCHANGED <<report, starting, bounds, overlapped, quiet>>
-----------------------------------------------------------------------------
(* Starting calls.                                                          *)

Starts(c, s) ==
    /\ calls < MaxCalls
    /\ ~Busy(c)
    /\ Steps(c, NewCall(s))
    /\ calls' = calls + 1
    /\ quiet' = IF \E d \in Call : Busy(d) THEN {} ELSE {c}
    /\ overlapped' = overlapped \cup
                     {t \in {s} : \E d \in Call : Busy(d) /\ call[d].system = s}
    /\ UNCHANGED <<tables, report, changes, crashes, moved>>

\* updateAllSystems: a call for every system that is loaded.  (They start at
\* once; one that starts later here is one whose status came later.)
AtStart(c) ==
    /\ starting
    /\ \E s \in System : /\ \A d \in Call : Busy(d) => call[d].system # s
                         /\ Starts(c, s)
    /\ UNCHANGED starting

Subscribe ==
    /\ starting
    /\ \A c \in Call : ~Busy(c)
    /\ starting' = FALSE
    /\ UNCHANGED <<tables, report, call, bounds, history, quiet>>

\* on('updated')
Updated(c) ==
    /\ ~starting
    /\ \E s \in System : Starts(c, s)
    /\ UNCHANGED starting
-----------------------------------------------------------------------------
(* fetchOrCreateByStorageEntityKey below the system: part by part.          *)

Fetching(local, phase, key) ==
    [local EXCEPT !.at = "find", !.phase = phase, !.key = key,
                  !.under = Root[local.system]]

\* The next parity group of the pool, the next pool, or the adapter groups.
NextPart(local) ==
    IF local.groups # <<>>
    THEN [local EXCEPT !.at = "poolIds", !.group = Head(local.groups), !.groups = Tail(@)]
    ELSE IF local.pools # <<>>
    THEN Fetching([local EXCEPT !.pool = Head(local.pools), !.pools = Tail(@)], "pool",
                  createComponentKey(Head(local.pools).name, "", "POOL"))
    ELSE [local EXCEPT !.at = "chbInfo", !.pool = 0, !.id = 0, !.ids = {}]

\* The next pair of ports of the pair of channel boards, the next of these pairs, or
\* the host groups.
NextPair(local) ==
    IF local.ports # <<>>
    THEN Fetching([local EXCEPT !.ports = Tail(@)], "pair",
                  createComponentKey(local.pair, Head(local.ports), "PORT_GROUP"))
    ELSE IF local.pairs # <<>>
    THEN Fetching([local EXCEPT !.pairs = Tail(@), !.pair = Head(local.pairs).name,
                                !.ports = Head(local.pairs).ports], "pair",
                  createComponentKey(Head(local.pairs).name, "", "ADAPTER_GROUP"))
    ELSE [local EXCEPT !.at = "hosts"]

NextHost(local) ==
    IF local.hosts # <<>>
    THEN Fetching([local EXCEPT !.hosts = Tail(@)], "host",
                  createComponentKey(Head(local.hosts), "", "HOST_GROUP"))
    ELSE Idle

\* What follows when the entity e of the key, read as row, is known.
Found(local, e, row) ==
    LET outdated == \/ row.status = "INACTIVE"
                    \/ local.phase = "pool" /\ row.number # local.pool.id
    IN IF local.phase = "group" THEN NextPart(local)
       ELSE IF local.phase = "pair" THEN NextPair(local)
       ELSE IF outdated THEN [local EXCEPT !.at = "revive", !.id = e]
       ELSE IF local.phase = "pool" THEN [local EXCEPT !.at = "retireGroups", !.id = e]
       ELSE NextHost(local)

Down(local, e, row) ==
    IF Len(local.key) > 1
    THEN [local EXCEPT !.at = "find", !.key = Tail(@), !.under = e]
    ELSE Found(local, e, row)

FindPart(c) ==
    /\ At(c, "find")
    /\ LET part  == Head(call[c].key)
           found == {e \in DOMAIN entity :
                       /\ entity[e].name = part.name
                       /\ Is(e, part.type)
                       /\ entity[e].parent = call[c].under}
       IN IF found = {}
          THEN Steps(c, [call[c] EXCEPT !.at = "insert"])
          ELSE \E e \in found : Steps(c, Down(call[c], e, entity[e]))
    /\ Reads

\* The save of a new entity, in one transaction.
Insert(c) ==
    /\ At(c, "insert")
    /\ LET part == Head(call[c].key)
           new  == Cardinality(DOMAIN entity) + 1
           row  == Row(part.name, part.type, call[c].under, 0, "ACTIVE")
       IN /\ new <= MaxId
          /\ entity' = WithRow(entity, new, row)
          /\ closure' = closure \cup LinkNew(closure, new, call[c].under)
          /\ Steps(c, Down(call[c], new, row))
    /\ Writes /\ UNCHANGED moved
-----------------------------------------------------------------------------
(* updateSystem.                                                            *)

\* getStatus: a system that is not available is passed over.
GetStatus(c) ==
    /\ At(c, "status")
    /\ \/ Steps(c, [call[c] EXCEPT !.at = "poolInfo"])
       \/ Steps(c, Idle)
    /\ Reads

GetPoolInfo(c) ==
    /\ At(c, "poolInfo")
    /\ Steps(c, [call[c] EXCEPT !.at = "retirePools",
                                !.pools = report[call[c].system].pools])
    /\ Reads

\* updateMany: the active entities of a type below a parent, but for some names,
\* become inactive.
Deactivate(type, parent, names) ==
    entity' = [e \in DOMAIN entity |->
        IF /\ Is(e, type)
           /\ entity[e].parent = parent
           /\ entity[e].name \notin names
        THEN [entity[e] EXCEPT !.status = "INACTIVE"]
        ELSE entity[e]]

RetirePools(c) ==
    /\ At(c, "retirePools")
    /\ Deactivate("POOL", Root[call[c].system], {p.name : p \in ToSet(call[c].pools)})
    /\ Steps(c, NextPart(call[c]))
    /\ Writes /\ UNCHANGED <<closure, moved>>

\* Mutation: a pool that was inactive stays so, its number is set.
ReviveNumberOnly(c) ==
    /\ At(c, "revive")
    /\ IF call[c].phase = "pool"
       THEN /\ entity' = [entity EXCEPT ![call[c].id].number = call[c].pool.id]
            /\ Steps(c, [call[c] EXCEPT !.at = "retireGroups"])
       ELSE /\ entity' = [entity EXCEPT ![call[c].id].status = "ACTIVE"]
            /\ Steps(c, NextHost(call[c]))
    /\ Writes /\ UNCHANGED <<closure, moved>>

\* A pool gets its number and becomes active, a host group becomes active.
Revive(c) ==
    /\ At(c, "revive")
    /\ IF call[c].phase = "pool"
       THEN /\ entity' = [entity EXCEPT ![call[c].id].number = call[c].pool.id,
                                        ![call[c].id].status = "ACTIVE"]
            /\ Steps(c, [call[c] EXCEPT !.at = "retireGroups"])
       ELSE /\ entity' = [entity EXCEPT ![call[c].id].status = "ACTIVE"]
            /\ Steps(c, NextHost(call[c]))
    /\ Writes /\ UNCHANGED <<closure, moved>>

\* Mutation: the groups of every pool of that number or name are deactivated.
RetireGroupsAnywhere(c) ==
    /\ At(c, "retireGroups")
    /\ entity' = [e \in DOMAIN entity |->
          IF Is(e, "PARITY_GROUP") /\ entity[e].name \notin ToSet(call[c].pool.groups)
             /\ entity[e].parent # call[c].id
          THEN [entity[e] EXCEPT !.status = "INACTIVE"] ELSE entity[e]]
    /\ Steps(c, NextPart([call[c] EXCEPT !.groups = call[c].pool.groups]))
    /\ Writes /\ UNCHANGED <<closure, moved>>

\* The parent that is asked for is the number the array gives to the pool, not
\* the id of the pool's entity.
RetireGroups(c) ==
    /\ At(c, "retireGroups")
    /\ Deactivate("PARITY_GROUP", call[c].pool.id, ToSet(call[c].pool.groups))
    /\ Steps(c, NextPart([call[c] EXCEPT !.groups = call[c].pool.groups]))
    /\ Writes /\ UNCHANGED <<closure, moved>>

\* Mutations: the pools of every system; the pool of the report only.
PoolIdsOfAll(c) ==
    /\ At(c, "poolIds")
    /\ Steps(c, [call[c] EXCEPT !.at = "group",
                    !.ids = {e \in DOMAIN entity : Is(e, "POOL")}])
    /\ Reads
PoolIdsOfPool(c) ==
    /\ At(c, "poolIds")
    /\ Steps(c, [call[c] EXCEPT !.at = "group", !.ids = {call[c].id}])
    /\ Reads

\* The pools of the system, to look for the parity group in all of them.
PoolIds(c) ==
    /\ At(c, "poolIds")
    /\ Steps(c, [call[c] EXCEPT !.at = "group",
                    !.ids = {e \in Children(entity, Root[call[c].system]) :
                                Is(e, "POOL")}])
    /\ Reads

FindGroup(c) ==
    /\ At(c, "group")
    /\ LET local == call[c]
           found == {e \in DOMAIN entity :
                       /\ entity[e].name = local.group
                       /\ Is(e, "PARITY_GROUP")
                       /\ entity[e].parent \in local.ids}
       IN IF found = {}
          THEN Steps(c, Fetching(local, "group",
                           createComponentKey(local.pool.name, local.group,
                                              "PARITY_GROUP")))
          ELSE \E e \in found :
                  IF entity[e].parent # local.id \/ entity[e].status = "INACTIVE"
                  THEN Steps(c, [local EXCEPT !.at = "regroup", !.under = e])
                  ELSE Steps(c, NextPart(local))
    /\ Reads

\* The parity group is put below the pool by its parentId alone; Prisma knows
\* nothing of the closure table.
Regroup(c) ==
    /\ At(c, "regroup")
    /\ LET e == call[c].under
       IN /\ entity' = [entity EXCEPT ![e].parent = call[c].id,
                                      ![e].status = "ACTIVE"]
          /\ moved' = IF entity[e].parent = call[c].id THEN moved ELSE moved \cup {e}
    /\ Steps(c, NextPart(call[c]))
    /\ Writes /\ UNCHANGED closure

\* The pairs of channel boards, each followed by the pairs of ports that touch
\* the ports of its first board.  An error of the request is caught.
GetChbInfo(c) ==
    /\ At(c, "chbInfo")
    /\ \/ Steps(c, NextPair([call[c] EXCEPT !.pairs = report[call[c].system].pairs]))
       \/ Steps(c, [call[c] EXCEPT !.at = "hosts"])
    /\ Reads

\* An error of a query for a pair is caught, too: the pairs that are left are not
\* looked for.
PairsFail(c) ==
    /\ At(c, "find") \/ At(c, "insert")
    /\ call[c].phase = "pair"
    /\ Steps(c, [call[c] EXCEPT !.at = "hosts"])
    /\ Reads

\* The columns of the last sample; there are none when there is no sample.
GetHosts(c) ==
    /\ At(c, "hosts")
    /\ Steps(c, [call[c] EXCEPT !.at = "retireHosts",
                                !.hosts = report[call[c].system].hosts])
    /\ Reads

RetireHosts(c) ==
    /\ At(c, "retireHosts")
    /\ Deactivate("HOST_GROUP", Root[call[c].system], ToSet(call[c].hosts))
    /\ Steps(c, NextHost(call[c]))
    /\ Writes /\ UNCHANGED <<closure, moved>>
-----------------------------------------------------------------------------
(* The environment.                                                         *)

\* A request fails outside of the try block, or the process ends for another
\* reason: the tables stay, and the first calls are made again.
Crash ==
    /\ crashes < MaxCrashes
    /\ crashes' = crashes + 1
    /\ call' = [c \in Call |-> Idle]
    /\ starting' = TRUE
    /\ quiet' = {}
    /\ UNCHANGED <<tables, report, calls, changes, history>>

ReportChanges ==
    /\ changes < MaxChanges
    /\ changes' = changes + 1
    /\ \E s \in System : \E r \in Report[s] : report' = [report EXCEPT ![s] = r]
    /\ quiet' = {}
    /\ UNCHANGED <<tables, call, starting, calls, crashes, history>>

CallStep(c) ==
    \/ FindPart(c) \/ Insert(c) \/ GetStatus(c) \/ GetPoolInfo(c)
    \/ RetirePools(c) \/ Revive(c) \/ RetireGroups(c) \/ PoolIds(c)
    \/ FindGroup(c) \/ Regroup(c) \/ GetChbInfo(c) \/ PairsFail(c)
    \/ GetHosts(c) \/ RetireHosts(c)

Next == \/ \E c \in Call : AtStart(c) \/ Updated(c) \/ CallStep(c)
        \/ Subscribe \/ Crash \/ ReportChanges

Spec == Init /\ [][Next]_vars
-----------------------------------------------------------------------------
(* Properties.                                                              *)

TypeOK ==
    /\ DOMAIN entity \subseteq 1..MaxId
    /\ closure \subseteq (DOMAIN entity) \X (DOMAIN entity)
    /\ \A s \in System : report[s] \in Report[s]
    /\ \A c \in Call : Busy(c) => /\ call[c].system \in System
                                  /\ call[c].ids \subseteq DOMAIN entity
    /\ starting \in BOOLEAN
    /\ calls \in 0..MaxCalls /\ changes \in 0..MaxChanges /\ crashes \in 0..MaxCrashes
    /\ moved \subseteq DOMAIN entity
    /\ overlapped \subseteq System
    /\ quiet \subseteq Call

\* What a call means to establish: the active pools and host groups of the system
\* are those of the report, and every parity group of the report is active below
\* its pool.  Left out are groups below an entity whose id is the number of a
\* pool: the call may deactivate them again (device-map.service.ts:124).
ActiveBelow(e, type) ==
    {f \in Children(entity, e) : Is(f, type) /\ entity[f].status = "ACTIVE"}
Names(found) == {entity[e].name : e \in found}

ListsMirror(s) ==
    /\ Names(ActiveBelow(Root[s], "POOL")) = {p.name : p \in ToSet(report[s].pools)}
    /\ Names(ActiveBelow(Root[s], "HOST_GROUP")) = ToSet(report[s].hosts)

PoolsMirror(s) ==
    LET pools == ToSet(report[s].pools)
    IN \A p \in pools : \E e \in ActiveBelow(Root[s], "POOL") :
          /\ entity[e].name = p.name
          /\ entity[e].number = p.id
          /\ \/ e \in {q.id : q \in pools}
             \/ ToSet(p.groups) \subseteq Names(ActiveBelow(e, "PARITY_GROUP"))

\* A call that runs to its end alone, while the report stays, leaves the device
\* map as the maintainer reports it, whatever calls that were cut short left
\* behind.  Calls that overlapped leave pools twice, and then only the lists of
\* names are right: the search by key finds either pool, and may put a parity
\* group below the one that has not got the number.
QuietCallMirrors ==
    [][\A c \in quiet, s \in System :
          /\ Busy(c) /\ ~At(c, "status") /\ call[c].system = s
          /\ call'[c] = Idle /\ crashes' = crashes
          => ListsMirror(s)' /\ (s \in overlapped \/ PoolsMirror(s)')]_vars

\* An update touches only what is below its own system, and parity groups below
\* an entity whose id happens to be the number of one of its pools.
OwnSystemOnly ==
    [][\A c \in Call, e \in DOMAIN entity :
          Busy(c) /\ call'[c] # call[c] /\ entity'[e] # entity[e]
          => \/ Within(e, call[c].system)
             \/ At(c, "retireGroups") /\ entity[e].parent = call[c].pool.id]_vars

\* The tree that is read from a system by the closure table has every entity that
\* hangs below it by the parents, and no other: only the rows of parity groups
\* that changed their pool are stale, and the pools between which they move are
\* pools of one system.
SystemTreeComplete ==
    /\ \A s \in System, e \in DOMAIN entity :
          e # Root[s] => (<<Root[s], e>> \in closure <=> Within(e, s))
    /\ \A e \in DOMAIN entity \ moved :
          Ancestors(closure, e) = {e} \cup Ancestors(closure, entity[e].parent)

\* As long as no two calls have updated a system at the same time, it has one
\* entity for each pool, host group and pair, and one for each parity group in
\* all its pools together, also after a group moved and calls were cut short.
OneEntityPerName == \A s \in System \ overlapped : EachOnce(entity, s)
=============================================================================
