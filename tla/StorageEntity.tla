---------------------------- MODULE StorageEntity ----------------------------
(***************************************************************************)
(* The storage entity service: requests that create, find or create,       *)
(* rename, change the status of, delete, move and duplicate the entities   *)
(* of the tree datacenter, system, pool, ... kept in PostgreSQL.           *)
(*                                                                         *)
(* The service holds no lock and opens no transaction of its own: every    *)
(* await is a step, and between two steps of a request other requests run. *)
(* Only TypeORM's save is a transaction.  A rejection that nobody awaits   *)
(* ends the process, and so does a crash; the tables stay.                 *)
(***************************************************************************)
EXTENDS EntityTables, FiniteSets, Sequences, SequencesExt, Functions

CONSTANTS
    Request,      \* slots for requests that run at the same time
    Kind,         \* the operations that requests ask for
    Name,         \* names of entities
    Type,         \* types of entities, DATACENTER among them
    MaxId,        \* bound: the end of the sequence of ids
    MaxCrashes    \* bound: crashes that are nobody's rejection

ASSUME StorageEntityAssumption ==
    /\ Kind \subseteq {"create", "fetch", "status", "keyStatus", "update",
                       "delete", "move", "duplicate"}
    /\ "SYSTEM" \in Type
    /\ MaxId \in Nat \ {0, 1}
    /\ MaxCrashes \in Nat

VARIABLES
    entity,     \* storage_entities: id to row
    closure,    \* storage_entities_closure: pairs <<ancestor, descendant>>
    detailed,   \* storage_entity_details: the ids that have a row
    lastId,     \* the sequence the ids come from
    req,        \* what each request is doing
    loose,      \* queries that were started and are not awaited
    crashes,    \* crashes so far, for the bound
    stray       \* history: a move was interrupted, refused late or overtaken

vars == <<entity, closure, detailed, lastId, req, loose, crashes, stray>>
tables == <<entity, closure, detailed, lastId>>
process == <<loose, crashes, stray>>

Id == 1..MaxId
Status == {"ACTIVE", "INACTIVE"}
CHECK_DUPLICITY_TYPE == {"DATACENTER", "SYSTEM", "POOL"}

\* The datacenter that every key names.
DataCenterName == "CZ_Chodov"

Row == [name: Name \cup {DataCenterName}, type: Type \cup {"DATACENTER"},
        parent: Id \cup {NoParent}, status: Status]

NewRow(name, type, parent) ==
    [name |-> name, type |-> type, parent |-> parent, status |-> "ACTIVE"]
DataCenter == NewRow(DataCenterName, "DATACENTER", NoParent)

\* A request that has answered, with its result or with an error.  at is the
\* await the request waits at, id the entity it is about, row the row it makes
\* or has read, new and link the id and the closure rows of a transaction that
\* is not yet committed, work what is still to be done in order, todo the
\* entities of a tree that are still to be updated, each with its parent.
Ended(result) ==
    [at |-> result, op |-> "none", id |-> NoParent, row |-> DataCenter,
     new |-> NoParent, link |-> {}, work |-> <<>>, todo |-> {}]

Idle(r) == req[r].op = "none"

Start(r, op, at, id, row, work) ==
    req' = [req EXCEPT ![r] =
               [Ended(at) EXCEPT !.op = op, !.id = id, !.row = row, !.work = work]]
Goes(r, at) == req' = [req EXCEPT ![r].at = at]
Answer(r) == req' = [req EXCEPT ![r] = Ended("done")]
Fail(r) == req' = [req EXCEPT ![r] = Ended("failed")]

\* A request may start if its slot is free and the queries it left behind ran.
May(r, op) == op \in Kind /\ Idle(r) /\ \A q \in loose : q.r # r

Init ==
    /\ entity = <<DataCenter, NewRow(CHOOSE n \in Name : TRUE, "SYSTEM", 1)>>
    /\ closure = {<<1, 1>>, <<1, 2>>, <<2, 2>>}
    /\ detailed = {2}
    /\ lastId = 2
    /\ req = [r \in Request |-> Ended("done")]
    /\ loose = {}
    /\ crashes = 0
    /\ stray = FALSE
-----------------------------------------------------------------------------
(* Create: find the parent, look for a duplicate, save.                    *)

\* A datacenter needs no parent and no check.  Of any other type the parent is
\* looked up; findOne answers null for an unknown one, and the guard, which
\* asks for undefined, lets it pass.  (Without a parentId findOne answers any
\* row, which is one of the parents chosen here.)
AskCreate(r) ==
    /\ May(r, "create")
    /\ \E name \in Name, type \in Type, parentId \in Id :
          IF type = "DATACENTER"
          THEN Start(r, "create", "insert", NoParent,
                     NewRow(name, type, NoParent), <<>>)
          ELSE Start(r, "create", "check", NoParent,
                     NewRow(name, type,
                            IF parentId \in DOMAIN entity
                            THEN parentId ELSE NoParent), <<>>)
    /\ UNCHANGED <<tables, process>>

\* The entities of the name, and whether one of them forbids the new row.
SameName(row) == {e \in DOMAIN entity : entity[e].name = row.name}

\* Mutation: only the types of CHECK_DUPLICITY_TYPE are compared.
isAlreadyExistsUnique(row) ==
    \E e \in SameName(row) :
        /\ entity[e].type = row.type
        /\ row.type \in CHECK_DUPLICITY_TYPE

isAlreadyExists(row) ==
    \E e \in SameName(row) :
        /\ entity[e].type = row.type
        /\ \/ row.type \in CHECK_DUPLICITY_TYPE
           \/ entity[e].parent = row.parent

\* Reading the id of a parent that is null fails, once there is an entity of
\* the name to compare with.
ReadsNullParent(row) ==
    /\ row.type \notin CHECK_DUPLICITY_TYPE
    /\ row.parent = NoParent
    /\ SameName(row) # {}

Check(r) ==
    /\ req[r].at = "check"
    /\ IF isAlreadyExists(req[r].row) \/ ReadsNullParent(req[r].row)
       THEN Fail(r)
       ELSE Goes(r, "insert")
    /\ UNCHANGED <<tables, process>>

\* The transaction of save: the row takes the next id and locks its parent
\* against deletion, and the closure rows are computed from what is committed.
\* A sequence at its end and a parent that is gone are errors.
Insert(r) ==
    /\ req[r].at = "insert"
    /\ lastId' = IF lastId < MaxId THEN lastId + 1 ELSE lastId
    /\ IF lastId < MaxId /\ req[r].row.parent \in DOMAIN entity \cup {NoParent}
       THEN req' = [req EXCEPT
                ![r].at = "commit",
                ![r].new = lastId + 1,
                ![r].link = LinkNew(closure, lastId + 1, req[r].row.parent)]
       ELSE Fail(r)
    /\ UNCHANGED <<entity, closure, detailed, process>>

\* The entities a transaction still keeps from being deleted.
Held(id) ==
    \E r \in Request :
        /\ req[r].at = "commit"
        /\ id \in {req[r].row.parent} \cup {p[1] : p \in req[r].link}

Commits(r) ==
    /\ req[r].at = "commit"
    /\ entity' = WithRow(entity, req[r].new, req[r].row)
    /\ closure' = closure \cup req[r].link
    /\ UNCHANGED <<detailed, lastId, crashes, stray>>

CommitCreated(r) ==
    /\ req[r].op = "create"
    /\ Commits(r)
    /\ Answer(r)
    /\ UNCHANGED loose
-----------------------------------------------------------------------------
(* Find or create by key: the datacenter by name, then part by part.        *)

\* A key names a system, or a part of another type below a system.
Key == {<<[name |-> n, type |-> "SYSTEM"]>> : n \in Name} \cup
       {<<[name |-> n, type |-> "SYSTEM"], [name |-> m, type |-> t]>> :
            n \in Name, m \in Name, t \in Type \ {"SYSTEM", "DATACENTER"}}

\* The collectors find or create; the status of a component is changed by key
\* without creating.  Without a datacenter the type of null is read.
AskKey(r) ==
    /\ \E op \in {"fetch", "keyStatus"}, key \in Key, status \in Status :
          /\ May(r, op)
          /\ op = "fetch" => status = "ACTIVE"
          /\ LET found == {e \in DOMAIN entity :
                             /\ entity[e].name = DataCenterName
                             /\ entity[e].type = "DATACENTER"}
             IN \/ /\ found = {}
                   /\ Fail(r)
                \/ \E dc \in found :
                      Start(r, op, "system", dc,
                            [DataCenter EXCEPT !.status = status], key)
    /\ UNCHANGED <<tables, process>>

\* The part of the key is found: the next part is looked for below it, and the
\* last part is the answer, or the entity to change the status of.
Down(r, e) ==
    IF Len(req[r].work) > 1
    THEN req' = [req EXCEPT ![r].at = "level", ![r].id = e, ![r].new = NoParent,
                            ![r].link = {}, ![r].work = Tail(@)]
    ELSE IF req[r].op = "keyStatus"
         THEN req' = [req EXCEPT ![r].at = "tree", ![r].id = e, ![r].work = <<>>]
         ELSE Answer(r)

\* Below a datacenter the parent is not part of the search.
FindPart(r) ==
    /\ req[r].at \in {"system", "level"}
    /\ LET part  == Head(req[r].work)
           found == {e \in DOMAIN entity :
                       /\ entity[e].name = part.name
                       /\ entity[e].type = part.type
                       /\ req[r].at = "level" => entity[e].parent = req[r].id}
       IN \/ \E e \in found : Down(r, e)
          \/ /\ found = {}
             /\ req[r].op = "fetch"
             /\ req' = [req EXCEPT
                   ![r].at = "insert",
                   ![r].row = NewRow(part.name, part.type, req[r].id)]
          \/ /\ found = {}
             /\ req[r].op = "keyStatus"
             /\ Fail(r)
    /\ UNCHANGED <<tables, process>>

CommitFetched(r) ==
    /\ req[r].op = "fetch"
    /\ Commits(r)
    /\ Down(r, req[r].new)
    /\ UNCHANGED loose
-----------------------------------------------------------------------------
(* Status: read the entity, read its tree, update the tree from the leaves. *)

AskStatus(r) ==
    /\ May(r, "status")
    /\ \E id \in DOMAIN entity, status \in Status :
          Start(r, "status", "tree", id,
                [DataCenter EXCEPT !.status = status], <<>>)
    /\ UNCHANGED <<tables, process>>

\* Mutation: only the children of the entity are updated with it.
ReadTreeShallow(r) ==
    /\ req[r].at = "tree"
    /\ req' = [req EXCEPT
          ![r].at = "updates",
          ![r].todo = {<<NoParent, req[r].id>>} \cup
                      {<<req[r].id, e>> : e \in Children(entity, req[r].id)}]
    /\ UNCHANGED <<tables, process>>

\* A tree that contains its own root's parent has no end to recurse to.
ReadTree(r) ==
    /\ req[r].at = "tree"
    /\ LET id   == req[r].id
           tree == TreeOf(entity, closure, id)
           above(e) == IF e = id THEN NoParent ELSE entity[e].parent
       IN IF id \in DOMAIN entity /\ entity[id].parent \in tree
          THEN Fail(r)
          ELSE req' = [req EXCEPT ![r].at = "updates",
                                  ![r].todo = {<<above(e), e>> : e \in tree}]
    /\ UNCHANGED <<tables, process>>

\* Each entity is updated when its children are; the children in any order.
UpdateStatus(r) ==
    /\ req[r].at = "updates"
    /\ \E e \in req[r].todo :
          /\ \A below \in req[r].todo : below[1] # e[2]
          /\ entity' = IF e[2] \in DOMAIN entity
                       THEN [entity EXCEPT ![e[2]].status = req[r].row.status]
                       ELSE entity
          /\ IF req[r].todo = {e}
             THEN Answer(r)
             ELSE req' = [req EXCEPT ![r].todo = @ \ {e}]
    /\ UNCHANGED <<closure, detailed, lastId, process>>
-----------------------------------------------------------------------------
(* Update: read the entity, upsert its details, save what was read.         *)

AskUpdate(r) ==
    /\ May(r, "update")
    /\ \E id \in DOMAIN entity, name \in Name :
          Start(r, "update", "detail", id,
                [entity[id] EXCEPT !.name = name], <<>>)
    /\ UNCHANGED <<tables, process>>

\* findOne answers null when there are no details, which the guard lets pass
\* like above: the upsert only ever updates.
FindDetail(r) ==
    /\ req[r].at = "detail"
    /\ IF req[r].id \in detailed THEN Goes(r, "detailSave") ELSE Fail(r)
    /\ UNCHANGED <<tables, process>>

\* Details that were deleted meanwhile are inserted again, if the entity exists.
SaveDetail(r) ==
    /\ req[r].at = "detailSave"
    /\ IF req[r].id \in DOMAIN entity
       THEN /\ detailed' = detailed \cup {req[r].id}
            /\ Goes(r, "save")
       ELSE /\ Fail(r)
            /\ UNCHANGED detailed
    /\ UNCHANGED <<entity, closure, lastId, process>>

\* Every column gets the value that was read, or the one asked for; an entity
\* that was deleted meanwhile is inserted again, as a root of the closure table.
SaveRow(r) ==
    /\ req[r].at = "save"
    /\ LET id == req[r].id
           row == req[r].row
       IN IF row.parent \in DOMAIN entity \cup {NoParent}
          THEN /\ entity' = WithRow(entity, id, row)
               /\ closure' = IF id \in DOMAIN entity
                             THEN closure
                             ELSE closure \cup {<<id, id>>}
               /\ Answer(r)
          ELSE /\ Fail(r)
               /\ UNCHANGED <<entity, closure>>
    /\ UNCHANGED <<detailed, lastId, process>>
-----------------------------------------------------------------------------
(* Delete: children first, each entity in four steps.                       *)

Frame(id, step) == [id |-> id, step |-> step]
Doing(r, step) ==
    /\ req[r].at = "delete"
    /\ Head(req[r].work).step = step
Victim(r) == Head(req[r].work).id
Then(r, step) == req' = [req EXCEPT ![r].work[1].step = step]

AskDelete(r) ==
    /\ May(r, "delete")
    /\ \E id \in Id :
          Start(r, "delete", "delete", id, DataCenter, <<Frame(id, "find")>>)
    /\ UNCHANGED <<tables, process>>

\* Mutation: after its children the entity itself is visited again.
DeleteFindAgain(r) ==
    /\ Doing(r, "find")
    /\ \/ /\ Victim(r) \notin DOMAIN entity
          /\ Fail(r)
       \/ /\ Victim(r) \in DOMAIN entity
          /\ \E children \in SetToSeqs(Children(entity, Victim(r))) :
                req' = [req EXCEPT ![r].work =
                           [i \in DOMAIN children |-> Frame(children[i], "find")] \o @]
    /\ UNCHANGED <<tables, process>>

\* The children that are read now are deleted before the entity; reading the
\* children of null fails.
DeleteFind(r) ==
    /\ Doing(r, "find")
    /\ \/ /\ Victim(r) \notin DOMAIN entity
          /\ Fail(r)
       \/ /\ Victim(r) \in DOMAIN entity
          /\ \E children \in SetToSeqs(Children(entity, Victim(r))) :
                req' = [req EXCEPT ![r].work =
                           [i \in DOMAIN children |-> Frame(children[i], "find")]
                           \o <<Frame(Victim(r), "data")>> \o Tail(@)]
    /\ UNCHANGED <<tables, process>>

DeleteData(r) ==
    /\ Doing(r, "data")
    /\ detailed' = detailed \ {Victim(r)}
    /\ Then(r, "closure")
    /\ UNCHANGED <<entity, closure, lastId, process>>

DeleteClosure(r) ==
    /\ Doing(r, "closure")
    /\ closure' = WithoutSubtree(closure, Victim(r))
    /\ Then(r, "row")
    /\ UNCHANGED <<entity, detailed, lastId, process>>

\* What the foreign keys of the tables forbid to delete.
Referenced(id) ==
    \/ Children(entity, id) # {}
    \/ \E p \in closure : id \in {p[1], p[2]}
    \/ id \in detailed

\* Mutation: the refusal is ignored.
DeleteRowLenient(r) ==
    /\ Doing(r, "row")
    /\ ~Held(Victim(r))
    /\ entity' = IF Referenced(Victim(r)) THEN entity
                 ELSE Restrict(entity, DOMAIN entity \ {Victim(r)})
    /\ IF Len(req[r].work) = 1
       THEN Answer(r)
       ELSE req' = [req EXCEPT ![r].work = Tail(@)]
    /\ UNCHANGED <<closure, detailed, lastId, process>>

\* The deletion waits for the transactions that hold the row, and is refused if
\* the row is referenced.
DeleteRow(r) ==
    /\ Doing(r, "row")
    /\ ~Held(Victim(r))
    /\ IF Victim(r) \in DOMAIN entity /\ Referenced(Victim(r))
       THEN /\ Fail(r)
            /\ UNCHANGED entity
       ELSE /\ entity' = Restrict(entity, DOMAIN entity \ {Victim(r)})
            /\ IF Len(req[r].work) = 1
               THEN Answer(r)
               ELSE req' = [req EXCEPT ![r].work = Tail(@)]
    /\ UNCHANGED <<closure, detailed, lastId, process>>
-----------------------------------------------------------------------------
(* Move: two queries that nobody awaits, and a save that does their work     *)
(* once more.                                                               *)

Loose(r, query, id, parent) ==
    [r |-> r, query |-> query, id |-> id, parent |-> parent]

Movable(id) == id \in DOMAIN entity /\ entity[id].status = "ACTIVE"

AskMove(r) ==
    /\ May(r, "move")
    /\ \E id \in Id, parentId \in Id :
          IF Movable(id)
          THEN Start(r, "move", "target", id,
                     [entity[id] EXCEPT !.parent = parentId], <<>>)
          ELSE Fail(r)
    /\ UNCHANGED <<tables, process>>

FindTarget(r) ==
    /\ req[r].at = "target"
    /\ IF Movable(req[r].row.parent)
       THEN /\ loose' = loose \cup
                  {Loose(r, query, req[r].id, req[r].row.parent) :
                      query \in {"cut", "link"}}
            /\ Goes(r, "moveSave")
       ELSE /\ Fail(r)
            /\ UNCHANGED loose
    /\ UNCHANGED <<tables, crashes, stray>>

\* TypeORM's update of the closure table, if the parent changes: what the two
\* queries do, in one transaction.  The primary key refuses a pair that exists.
Relinked(id, parent) ==
    CutOff(closure, id) \cup LinkSubtree(CutOff(closure, id), id, parent)

\* Mutation: pairs that exist are passed over (ON CONFLICT DO NOTHING).
LinkConflictsIgnored(table, id, parent) == FALSE

LinkConflicts(table, id, parent) ==
    LinkSubtree(table, id, parent) \cap table # {}

SaveMoved(r) ==
    /\ req[r].at = "moveSave"
    /\ LET id     == req[r].id
           parent == req[r].row.parent
           known  == id \in DOMAIN entity
           moves  == known /\ entity[id].parent # parent
       IN IF \/ parent \notin DOMAIN entity
             \/ moves /\ LinkConflicts(CutOff(closure, id), id, parent)
          THEN /\ Fail(r)
               /\ stray' = TRUE
               /\ UNCHANGED <<entity, closure>>
          ELSE /\ entity' = WithRow(entity, id, req[r].row)
               /\ closure' = IF moves THEN Relinked(id, parent)
                             ELSE IF known THEN closure
                             ELSE closure \cup LinkNew(closure, id, parent)
               /\ Answer(r)
               /\ UNCHANGED stray
    /\ UNCHANGED <<detailed, lastId, loose, crashes>>
-----------------------------------------------------------------------------
(* Duplicate: create the copy, then create the copies of the children one   *)
(* after the other, each through all the steps of create.                   *)

Part(e, parent) == [id |-> e, name |-> entity[e].name,
                    type |-> entity[e].type, parent |-> parent]

\* The orders in which the children of the wanted types may be read.
Wanted(id, types, parent) ==
    SetToSeqs({Part(e, parent) : e \in {c \in Children(entity, id) :
                                          entity[c].type \in types}})

\* The request goes on with the next copy, or ends.  work begins with the child
\* that is copied; todo keeps the wanted types; id is the copy once it exists.
Copying(request, work) ==
    IF work = <<>>
    THEN Ended("done")
    ELSE [request EXCEPT
             !.at = "parent", !.work = work, !.new = NoParent, !.link = {},
             !.row = NewRow(work[1].name, work[1].type, work[1].parent)]

AskDuplicate(r) ==
    /\ May(r, "duplicate")
    /\ \E id \in DOMAIN entity, name \in Name, types \in SUBSET Type :
          \E children \in Wanted(id, types, NoParent) :
             req' = [req EXCEPT ![r] = [Ended("parent") EXCEPT
                        !.op = "duplicate", !.todo = types, !.work = children,
                        !.row = NewRow(name, entity[id].type, entity[id].parent)]]
    /\ UNCHANGED <<tables, process>>

\* Create looks up the parent.  The parent of a root is null, which findOne
\* takes for no condition at all and answers any row.
FindParent(r) ==
    /\ req[r].at = "parent"
    /\ LET row == req[r].row
       IN IF row.type = "DATACENTER"
          THEN req' = [req EXCEPT ![r].at = "insert", ![r].row.parent = NoParent]
          ELSE \E parent \in IF row.parent = NoParent THEN DOMAIN entity
                             ELSE {row.parent} :
                  req' = [req EXCEPT
                     ![r].at = "check",
                     ![r].row.parent =
                        IF parent \in DOMAIN entity THEN parent ELSE NoParent]
    /\ UNCHANGED <<tables, process>>

\* The copy of the entity itself: its details are upserted without waiting, and
\* its children, read at the start, follow.
CommitCopy(r) ==
    /\ req[r].op = "duplicate"
    /\ req[r].id = NoParent
    /\ Commits(r)
    /\ loose' = loose \cup {Loose(r, "upsert", req[r].new, NoParent)}
    /\ req' = [req EXCEPT ![r] =
          Copying([@ EXCEPT !.id = req[r].new],
                  [i \in DOMAIN @.work |->
                      [@.work[i] EXCEPT !.parent = req[r].new]])]

CommitChild(r) ==
    /\ req[r].op = "duplicate"
    /\ req[r].id # NoParent
    /\ Commits(r)
    /\ Goes(r, "children")
    /\ UNCHANGED loose

\* The children of the child that was copied come next; it may be gone.
FindChildren(r) ==
    /\ req[r].at = "children"
    /\ LET source == Head(req[r].work).id
       IN IF source \in DOMAIN entity
          THEN \E children \in Wanted(source, req[r].todo, req[r].new) :
                  req' = [req EXCEPT ![r] =
                             Copying(@, children \o Tail(@.work))]
          ELSE Fail(r)
    /\ UNCHANGED <<tables, process>>
-----------------------------------------------------------------------------
(* The queries nobody awaits, and the end of the process.                   *)

\* A query of move runs beside its request or after it.
CutRuns ==
    \E q \in loose :
        /\ q.query = "cut"
        /\ closure' = CutOff(closure, q.id)
        /\ loose' = loose \ {q}
        /\ stray' = (stray \/ req[q.r].at # "moveSave")
        /\ UNCHANGED <<entity, detailed, lastId, req, crashes>>

LinkRuns ==
    \E q \in loose :
        /\ q.query = "link"
        /\ ~LinkConflicts(closure, q.id, q.parent)
        /\ closure' = closure \cup LinkSubtree(closure, q.id, q.parent)
        /\ loose' = loose \ {q}
        /\ stray' = (stray \/ req[q.r].at # "moveSave")
        /\ UNCHANGED <<entity, detailed, lastId, req, crashes>>

\* All requests are gone; what their transactions had not committed is undone.
End ==
    /\ req' = [r \in Request |-> Ended("failed")]
    /\ loose' = {}
    /\ stray' = TRUE
    /\ UNCHANGED tables

\* The link is refused by the primary key; the upsert of a copy finds no details
\* and fails like that of update.  Nobody catches either.
Rejection ==
    /\ \E q \in loose :
          \/ q.query = "link" /\ LinkConflicts(closure, q.id, q.parent)
          \/ q.query = "upsert" /\ q.id \notin detailed
    /\ End
    /\ UNCHANGED crashes

Crash ==
    /\ crashes < MaxCrashes
    /\ crashes' = crashes + 1
    /\ End

\* An entity that does not exist, for an operation that reads a property of it.
AskUnknown(r) ==
    /\ \E op \in {"status", "update", "duplicate"} : May(r, op)
    /\ Id \ DOMAIN entity # {}
    /\ Fail(r)
    /\ UNCHANGED <<tables, process>>
-----------------------------------------------------------------------------
Ask(r) == \/ AskCreate(r) \/ AskKey(r) \/ AskStatus(r) \/ AskUpdate(r)
          \/ AskDelete(r) \/ AskMove(r) \/ AskDuplicate(r) \/ AskUnknown(r)

Continue(r) ==
    \/ Check(r) \/ Insert(r) \/ CommitCreated(r)
    \/ FindPart(r) \/ CommitFetched(r)
    \/ ReadTree(r) \/ UpdateStatus(r)
    \/ FindDetail(r) \/ SaveDetail(r) \/ SaveRow(r)
    \/ DeleteFind(r) \/ DeleteData(r) \/ DeleteClosure(r) \/ DeleteRow(r)
    \/ FindTarget(r) \/ SaveMoved(r)
    \/ FindParent(r) \/ CommitCopy(r) \/ CommitChild(r) \/ FindChildren(r)

LooseRuns == CutRuns \/ LinkRuns \/ Rejection

Next == \/ \E r \in Request : Ask(r) \/ Continue(r)
        \/ LooseRuns
        \/ Crash

Spec == Init /\ [][Next]_vars

\* Every query is answered in the end, so every await returns.
Fairness == /\ \A r \in Request : WF_vars(Continue(r))
            /\ WF_vars(LooseRuns)

FairSpec == Spec /\ Fairness
-----------------------------------------------------------------------------
(* Properties                                                              *)

\* Types of the tables and of what the requests keep.
TypeOK ==
    /\ \E ids \in SUBSET (1..lastId) : entity \in [ids -> Row]
    /\ closure \subseteq (DOMAIN entity) \X (DOMAIN entity)
    /\ detailed \subseteq DOMAIN entity
    /\ lastId \in Id
    /\ \A r \in Request :
          /\ req[r].id \in Id \cup {NoParent}
          /\ req[r].row \in Row
          /\ req[r].new \in Id \cup {NoParent}
          /\ req[r].at \in {"done", "failed"} <=> req[r].op = "none"
    /\ \A q \in loose : q.r \in Request /\ q.query \in {"cut", "link", "upsert"}
    /\ crashes \in 0..MaxCrashes
    /\ stray \in BOOLEAN

\* The closure table is the closure of the parents: what it says of an entity it
\* knows is what the parents say (storage-entity.entity.ts:8).  Requests that
\* run one after the other keep it so, and a crash between two of their steps
\* only ever makes entities unknown to it.
ClosureExact == ClosureOf(entity, closure)

\* No pair of the closure table is false: an ancestor there is an ancestor by
\* the parents.  Creations and deletions that overlap may lose pairs, but never
\* make one up.
ClosureSound == \A p \in closure : p[2] \in Below(entity, p[1])

\* Unless a crash came before, or a move that went wrong, a status request that
\* succeeds leaves its status on the whole subtree of its entity, as the parents
\* have it; the tree it walks is that of the closure.
StatusReachesSubtree ==
    [][\A r \in Request :
          (~stray /\ req[r].at = "updates" /\ req'[r].at = "done")
          => \A e \in Below(entity', req[r].id) :
                entity'[e].status = req[r].row.status]_vars

\* A deletion that succeeds leaves neither the entity nor anything that refers
\* to it: children, pairs of the closure table, details.
DeleteLeavesNothing ==
    [][\A r \in Request :
          (req[r].op = "delete" /\ req'[r].at = "done")
          => LET id == req[r].id
             IN /\ id \notin DOMAIN entity' \cup detailed'
                /\ \A e \in DOMAIN entity' : entity'[e].parent # id
                /\ \A p \in closure' : id \notin {p[1], p[2]}]_vars

\* Two entities of the same type below the same parent have different names;
\* create refuses the second with CONFLICT
\* (test/storage-entity.controller.e2e-spec.ts:113), when the requests do not
\* overlap.  Datacenters are not checked.
SiblingsUnique ==
    \A e, f \in DOMAIN entity :
        /\ entity[e].type = entity[f].type
        /\ entity[e].type # "DATACENTER"
        /\ entity[e].parent = entity[f].parent
        /\ entity[e].name = entity[f].name
        => e = f

\* As long as every move ended well and its two raw queries ran before its save,
\* the closure table is exact and the parents have no cycle whenever no move is
\* under way: nothing but the primary key of the closure table keeps an entity
\* from being moved below itself.
MoveKeepsTree ==
    (~stray /\ loose = {} /\ \A r \in Request : req[r].at # "moveSave")
    => ClosureOf(entity, closure) /\ Acyclic(entity)

\* Every request is answered.
RequestsEnd ==
    \A r \in Request : req[r].op # "none" ~> req[r].op = "none"
=============================================================================
