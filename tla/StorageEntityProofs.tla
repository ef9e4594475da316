------------------------- MODULE StorageEntityProofs -------------------------
(***************************************************************************)
(* Proofs, for every set of names, types and operations, about the tables  *)
(* of StorageEntity: what any number of requests that overlap and crash    *)
(* keep of them, and what requests one after the other keep.               *)
(***************************************************************************)
EXTENDS StorageEntity, EntityTablesProofs, FiniteSetTheorems

-----------------------------------------------------------------------------
(* The inductive invariant of any number of requests.                      *)

IsRow(x) == DOMAIN x = {"name", "type", "parent", "status"}

\* The foreign keys of the tables, and ids that the sequence has given.
TablesOK ==
    /\ lastId \in Id
    /\ DOMAIN entity \subseteq 1..lastId
    /\ \A e \in DOMAIN entity :
          IsRow(entity[e]) /\ entity[e].parent \in DOMAIN entity \cup {NoParent}
    /\ Pairs(closure, DOMAIN entity)
    /\ detailed \subseteq DOMAIN entity

\* Where the requests of each operation can be.
StageOK(q) ==
    \/ q.op = "none" /\ q.at \in {"done", "failed"}
    \/ q.op = "create" /\ q.at \in {"check", "insert", "commit"}
    \/ q.op = "fetch" /\ q.at \in {"system", "level", "insert", "commit"}
    \/ q.op = "keyStatus" /\ q.at \in {"system", "level", "tree", "updates"}
    \/ q.op = "status" /\ q.at \in {"tree", "updates"}
    \/ q.op = "update" /\ q.at \in {"detail", "detailSave", "save"}
    \/ q.op = "delete" /\ q.at = "delete"
    \/ q.op = "move" /\ q.at \in {"target", "moveSave"}
    \/ q.op = "duplicate"
          /\ q.at \in {"parent", "check", "insert", "commit", "children"}

\* A transaction that is not yet committed: its id is new, and what it refers to
\* is there.
CommitOK(q) ==
    /\ q.new \in 1..lastId
    /\ q.new \notin DOMAIN entity
    /\ q.row.parent \in DOMAIN entity \cup {NoParent}
    /\ q.link \subseteq ((DOMAIN entity) \cup {q.new}) \X {q.new}
    /\ <<q.new, q.new>> \in q.link

\* A deletion ends with the entity it was asked for.
AFrame == [id : Id, step : {"find", "data", "closure", "row"}]
DeleteOK(q) ==
    /\ q.work \in Seq(AFrame)
    /\ q.work # <<>>
    /\ q.work[Len(q.work)].id = q.id

RequestOK(q) ==
    /\ DOMAIN q = {"at", "op", "id", "row", "new", "link", "work", "todo"}
    /\ q.op \in Kind \cup {"none"}
    /\ StageOK(q)
    /\ IsRow(q.row)
    /\ q.op \in {"update", "move"} => q.id \in 1..lastId
    /\ q.at = "commit" => CommitOK(q)
    /\ q.op = "delete" => DeleteOK(q)

RequestsOK ==
    /\ req = [r \in Request |-> req[r]]
    /\ \A r \in Request : RequestOK(req[r])

\* Two transactions have different ids, and no request that saves a row it has
\* read saves it under one of them.
Apart ==
    \A r, s \in Request :
        req[r].at = "commit" =>
            /\ req[s].at = "commit" /\ r # s => req[r].new # req[s].new
            /\ req[s].op \in {"update", "move"} => req[s].id # req[r].new

Inv == TablesOK /\ RequestsOK /\ Apart

-----------------------------------------------------------------------------
(* What is added to it for requests among which there are no moves.        *)

\* The pairs of a transaction are true once it is committed.
LinksSound ==
    \A r \in Request :
        req[r].at = "commit" =>
            \A p \in req[r].link :
                p[1] # req[r].new => req[r].row.parent \in Below(entity, p[1])

\* The parent an update has read is the one its entity has, or had.
ParentsStay ==
    /\ \A r \in Request :
          req[r].op = "update" /\ req[r].id \in DOMAIN entity
          => entity[req[r].id].parent = req[r].row.parent
    /\ \A r, s \in Request :
          req[r].op = "update" /\ req[s].op = "update" /\ req[r].id = req[s].id
          => req[r].row.parent = req[s].row.parent

NothingMoves == \A q \in loose : q.query = "upsert"

SoundInv == ClosureSound /\ LinksSound /\ ParentsStay /\ NothingMoves

-----------------------------------------------------------------------------
(* What is added to it for requests one after the other.                   *)

ExactInv ==
    /\ ClosureExact
    /\ Transitive(closure)
    /\ \A r \in Request :
          /\ req[r].at = "commit"
             => req[r].link = LinkNew(closure, req[r].new, req[r].row.parent)
          /\ req[r].op = "update" => req[r].id \in DOMAIN entity

\* Nobody has the name, type and parent of the row that is being made.
TwinFree(row) ==
    \A e \in DOMAIN entity :
        ~ /\ entity[e].name = row.name /\ entity[e].type = row.type
          /\ entity[e].parent = row.parent

UniqueInv ==
    /\ SiblingsUnique
    /\ \A r \in Request :
          req[r].at \in {"insert", "commit"} /\ req[r].row.type # "DATACENTER"
          => TwinFree(req[r].row)

-----------------------------------------------------------------------------
(* Steps of a request.                                                     *)

\* A step of one request leaves the others alone.
Only(r) == req' = [s \in Request |-> IF s = r THEN req'[r] ELSE req[s]]

Fields == {"at", "op", "id", "row", "new", "link", "work", "todo"}

\* What holds of the others after a step of r, and what is to be shown of r.
LEMMA StepKeeps ==
  ASSUME Inv, TablesOK', lastId' >= lastId, NEW r \in Request, Only(r),
         RequestOK(req[r])',
         \A s \in Request : s # r /\ req[s].at = "commit" => CommitOK(req[s])',
         req'[r].op \in {"update", "move"}
         => \/ req'[r].id \in DOMAIN entity
            \/ req[r].op \in {"update", "move"} /\ req'[r].id = req[r].id,
         req'[r].at = "commit" => req'[r].new \notin 1..lastId
  PROVE  Inv'
<1>1. /\ lastId \in Nat /\ lastId' \in Nat /\ DOMAIN entity \subseteq 1..lastId
      /\ req'[r] = req'[r] /\ \A s \in Request : s # r => req'[s] = req[s]
  BY StorageEntityAssumption DEF Inv, TablesOK, Id, Only
<1>2. ASSUME NEW s \in Request
      PROVE  RequestOK(req[s])'
  <2>1. CASE s = r
    BY <2>1
  <2>2. CASE s # r
    <3>1. RequestOK(req[s]) /\ req'[s] = req[s]
      BY <1>1, <2>2 DEF Inv, RequestsOK
    <3>2. req[s].at = "commit" => CommitOK(req[s])'
      BY <2>2
    <3>3. req[s].id \in 1..lastId => req[s].id \in 1..lastId'
      BY <1>1
    <3> QED
      BY <3>1, <3>2, <3>3 DEF RequestOK, StageOK, DeleteOK
  <2> QED
    BY <2>1, <2>2
<1>3. RequestsOK'
  BY <1>2 DEF RequestsOK, Only
<1>4. ASSUME NEW x \in Request, NEW y \in Request, req'[x].at = "commit"
      PROVE  /\ req'[y].at = "commit" /\ x # y => req'[x].new # req'[y].new
             /\ req'[y].op \in {"update", "move"} => req'[y].id # req'[x].new
  <2>1. /\ \A s \in Request : req'[s].at = "commit" => req'[s].op \notin {"update", "move"}
        /\ \A s \in Request : req[s].at = "commit"
              => req[s].new \in 1..lastId /\ req[s].new \notin DOMAIN entity
        /\ \A s \in Request : req[s].op \in {"update", "move"} => req[s].id \in 1..lastId
    BY <1>2 DEF Inv, RequestsOK, RequestOK, StageOK, CommitOK
  <2>2. CASE x = r
    BY <1>1, <1>4, <2>1, <2>2
  <2>3. CASE x # r /\ y = r
    BY <1>1, <1>4, <2>1, <2>3 DEF Inv, Apart
  <2>4. CASE x # r /\ y # r
    BY <1>1, <1>4, <2>4 DEF Inv, Apart
  <2> QED
    BY <2>2, <2>3, <2>4
<1>5. Apart'
  BY <1>4 DEF Apart
<1> QED
  BY <1>3, <1>5 DEF Inv

\* The tables stay as they are.
LEMMA QuietKeeps ==
  ASSUME Inv, UNCHANGED tables, NEW r \in Request, Only(r), RequestOK(req[r])',
         req'[r].op \in {"update", "move"}
         => \/ req'[r].id \in DOMAIN entity
            \/ req[r].op \in {"update", "move"} /\ req'[r].id = req[r].id,
         req'[r].at # "commit"
  PROVE  Inv'
<1>1. lastId' = lastId /\ entity' = entity /\ closure' = closure /\ detailed' = detailed
  BY DEF tables
<1>2. TablesOK'
  BY <1>1 DEF Inv, TablesOK
<1>3. lastId' >= lastId
  BY <1>1, StorageEntityAssumption DEF Inv, TablesOK, Id
<1>4. ASSUME NEW s \in Request, s # r, req[s].at = "commit"
      PROVE  CommitOK(req[s])'
  BY <1>1, <1>4 DEF Inv, RequestsOK, RequestOK, CommitOK, Only
<1> QED
  BY <1>2, <1>3, <1>4, StepKeeps

\* A request that answers is free.
LEMMA EndedOK ==
  ASSUME RequestsOK, NEW r \in Request, Answer(r) \/ Fail(r)
  PROVE  /\ Only(r) /\ RequestOK(req[r])'
         /\ req'[r].op = "none" /\ req'[r].at \in {"done", "failed"}
<1>1. PICK result \in {"done", "failed"} : req' = [req EXCEPT ![r] = Ended(result)]
  BY DEF Answer, Fail
<1>2. req'[r] = Ended(result) /\ Only(r)
  BY <1>1 DEF RequestsOK, Only
<1>3. /\ DOMAIN Ended(result) = Fields /\ IsRow(Ended(result).row)
      /\ Ended(result).op = "none" /\ Ended(result).at = result
  BY DEF Ended, DataCenter, NewRow, IsRow, Fields
<1> QED
  BY <1>2, <1>3 DEF RequestOK, StageOK, Fields

\* A request that starts.
LEMMA StartIs ==
  ASSUME RequestsOK, NEW r \in Request, NEW op, NEW at, NEW id, NEW row, NEW work,
         Start(r, op, at, id, row, work)
  PROVE  /\ Only(r) /\ DOMAIN req'[r] = Fields
         /\ req'[r].op = op /\ req'[r].at = at /\ req'[r].id = id
         /\ req'[r].row = row /\ req'[r].work = work
  BY DEF Start, Ended, RequestsOK, Only, Fields

\* A request that goes on with nothing but its place changed.
LEMMA GoesIs ==
  ASSUME RequestsOK, NEW r \in Request, NEW at, Goes(r, at)
  PROVE  /\ Only(r) /\ DOMAIN req'[r] = Fields
         /\ req'[r].at = at
         /\ req'[r].op = req[r].op /\ req'[r].id = req[r].id /\ req'[r].row = req[r].row
         /\ req'[r].new = req[r].new /\ req'[r].link = req[r].link
         /\ req'[r].work = req[r].work
<1>1. DOMAIN req[r] = Fields
  BY DEF RequestsOK, RequestOK, Fields
<1> QED
  BY <1>1 DEF Goes, RequestsOK, Only, Fields

-----------------------------------------------------------------------------
(* The arrivals.                                                           *)

LEMMA AskCreateOK ==
  ASSUME Inv, NEW r \in Request, AskCreate(r)
  PROVE  Inv'
<1>1. UNCHANGED tables /\ RequestsOK /\ "create" \in Kind
  BY DEF AskCreate, May, Inv
<1>2. PICK name \in Name, type \in Type, parentId \in Id :
        \/ Start(r, "create", "insert", NoParent, NewRow(name, type, NoParent), <<>>)
        \/ Start(r, "create", "check", NoParent,
                 NewRow(name, type, IF parentId \in DOMAIN entity
                                    THEN parentId ELSE NoParent), <<>>)
  BY Zenon DEF AskCreate
<1>3. /\ Only(r) /\ DOMAIN req'[r] = Fields /\ req'[r].op = "create"
      /\ req'[r].at \in {"insert", "check"}
      /\ \E parent : req'[r].row = NewRow(name, type, parent)
  BY <1>1, <1>2, StartIs
<1>4. IsRow(req'[r].row)
  BY <1>3 DEF IsRow, NewRow
<1>5. RequestOK(req[r])'
  BY <1>1, <1>3, <1>4 DEF RequestOK, StageOK, Fields
<1> QED
  BY <1>1, <1>3, <1>5, QuietKeeps

LEMMA AskKeyOK ==
  ASSUME Inv, NEW r \in Request, AskKey(r)
  PROVE  Inv'
<1>1. UNCHANGED tables /\ RequestsOK
  BY DEF AskKey, Inv
<1>2. PICK op \in {"fetch", "keyStatus"}, key \in Key, status \in Status :
        /\ op \in Kind
        /\ \/ Fail(r)
           \/ \E dc \in DOMAIN entity :
                 Start(r, op, "system", dc, [DataCenter EXCEPT !.status = status], key)
  BY DEF AskKey, May
<1>3. CASE Fail(r)
  BY <1>1, <1>3, EndedOK, QuietKeeps
<1>4. CASE \E dc \in DOMAIN entity :
             Start(r, op, "system", dc, [DataCenter EXCEPT !.status = status], key)
  <2>1. PICK dc \in DOMAIN entity :
          Start(r, op, "system", dc, [DataCenter EXCEPT !.status = status], key)
    BY <1>4
  <2>2. /\ Only(r) /\ DOMAIN req'[r] = Fields /\ req'[r].op = op /\ req'[r].at = "system"
        /\ req'[r].row = [DataCenter EXCEPT !.status = status]
    BY <1>1, <2>1, StartIs
  <2>3. IsRow(req'[r].row)
    BY <2>2 DEF IsRow, DataCenter, NewRow
  <2>4. RequestOK(req[r])'
    BY <1>1, <1>2, <2>2, <2>3 DEF RequestOK, StageOK, Fields
  <2> QED
    BY <1>1, <2>2, <2>4, QuietKeeps
<1> QED
  BY <1>2, <1>3, <1>4

LEMMA AskStatusOK ==
  ASSUME Inv, NEW r \in Request, AskStatus(r)
  PROVE  Inv'
<1>1. UNCHANGED tables /\ RequestsOK /\ "status" \in Kind
  BY DEF AskStatus, May, Inv
<1>2. PICK id \in DOMAIN entity, status \in Status :
        Start(r, "status", "tree", id, [DataCenter EXCEPT !.status = status], <<>>)
  BY DEF AskStatus
<1>3. /\ Only(r) /\ DOMAIN req'[r] = Fields /\ req'[r].op = "status"
      /\ req'[r].at = "tree"
      /\ req'[r].row = [DataCenter EXCEPT !.status = status]
  BY <1>1, <1>2, StartIs
<1>4. IsRow(req'[r].row)
  BY <1>3 DEF IsRow, DataCenter, NewRow
<1>5. RequestOK(req[r])'
  BY <1>1, <1>3, <1>4 DEF RequestOK, StageOK, Fields
<1> QED
  BY <1>1, <1>3, <1>5, QuietKeeps

LEMMA AskUpdateOK ==
  ASSUME Inv, NEW r \in Request, AskUpdate(r)
  PROVE  Inv'
<1>1. UNCHANGED tables /\ RequestsOK /\ "update" \in Kind
  BY DEF AskUpdate, May, Inv
<1>2. PICK id \in DOMAIN entity, name \in Name :
        Start(r, "update", "detail", id, [entity[id] EXCEPT !.name = name], <<>>)
  BY DEF AskUpdate
<1>3. /\ Only(r) /\ DOMAIN req'[r] = Fields /\ req'[r].op = "update"
      /\ req'[r].at = "detail" /\ req'[r].id = id
      /\ req'[r].row = [entity[id] EXCEPT !.name = name]
  BY <1>1, <1>2, StartIs
<1>4. IsRow(req'[r].row)
  BY <1>3 DEF IsRow, Inv, TablesOK
<1>5. id \in 1..lastId'
  BY <1>1 DEF Inv, TablesOK, tables
<1>6. RequestOK(req[r])'
  BY <1>1, <1>3, <1>4, <1>5 DEF RequestOK, StageOK, Fields
<1> QED
  BY <1>1, <1>2, <1>3, <1>6, QuietKeeps

LEMMA AskDeleteOK ==
  ASSUME Inv, NEW r \in Request, AskDelete(r)
  PROVE  Inv'
<1>1. UNCHANGED tables /\ RequestsOK /\ "delete" \in Kind
  BY DEF AskDelete, May, Inv
<1>2. PICK id \in Id :
        Start(r, "delete", "delete", id, DataCenter, <<Frame(id, "find")>>)
  BY DEF AskDelete
<1>3. /\ Only(r) /\ DOMAIN req'[r] = Fields /\ req'[r].op = "delete"
      /\ req'[r].at = "delete" /\ req'[r].id = id /\ req'[r].row = DataCenter
      /\ req'[r].work = <<Frame(id, "find")>>
  BY <1>1, <1>2, StartIs
<1>4. IsRow(req'[r].row)
  BY <1>3 DEF IsRow, DataCenter, NewRow
<1>5. Frame(id, "find") \in AFrame /\ Frame(id, "find").id = id
  BY DEF Frame, AFrame
<1>6. DeleteOK(req[r])'
  <2> HIDE DEF AFrame
  <2>1. <<Frame(id, "find")>> \in Seq(AFrame) /\ Len(<<Frame(id, "find")>>) = 1
        /\ <<Frame(id, "find")>> # <<>> /\ <<Frame(id, "find")>>[1] = Frame(id, "find")
    BY <1>5
  <2> QED
    BY <1>3, <1>5, <2>1 DEF DeleteOK
<1>7. RequestOK(req[r])'
  BY <1>1, <1>3, <1>4, <1>6 DEF RequestOK, StageOK, Fields
<1> QED
  BY <1>1, <1>3, <1>7, QuietKeeps

LEMMA AskMoveOK ==
  ASSUME Inv, NEW r \in Request, AskMove(r)
  PROVE  Inv'
<1>1. UNCHANGED tables /\ RequestsOK /\ "move" \in Kind
  BY DEF AskMove, May, Inv
<1>2. CASE Fail(r)
  BY <1>1, <1>2, EndedOK, QuietKeeps
<1>3. CASE \E id \in Id, parentId \in Id :
             /\ Movable(id)
             /\ Start(r, "move", "target", id,
                      [entity[id] EXCEPT !.parent = parentId], <<>>)
  <2>1. PICK id \in Id, parentId \in Id :
             /\ id \in DOMAIN entity
             /\ Start(r, "move", "target", id,
                      [entity[id] EXCEPT !.parent = parentId], <<>>)
    BY <1>3 DEF Movable
  <2>2. /\ Only(r) /\ DOMAIN req'[r] = Fields /\ req'[r].op = "move"
        /\ req'[r].at = "target" /\ req'[r].id = id
        /\ req'[r].row = [entity[id] EXCEPT !.parent = parentId]
    BY <1>1, <2>1, StartIs
  <2>3. IsRow(req'[r].row)
    BY <2>1, <2>2 DEF IsRow, Inv, TablesOK
  <2>4. id \in 1..lastId'
    BY <1>1, <2>1 DEF Inv, TablesOK, tables
  <2>5. RequestOK(req[r])'
    BY <1>1, <2>2, <2>3, <2>4 DEF RequestOK, StageOK, Fields
  <2> QED
    BY <1>1, <2>1, <2>2, <2>5, QuietKeeps
<1> QED
  BY <1>2, <1>3 DEF AskMove

LEMMA AskDuplicateOK ==
  ASSUME Inv, NEW r \in Request, AskDuplicate(r)
  PROVE  Inv'
<1>1. UNCHANGED tables /\ RequestsOK /\ "duplicate" \in Kind
  BY DEF AskDuplicate, May, Inv
<1>2. PICK name, type, parent, types, children :
        req' = [req EXCEPT ![r] = [Ended("parent") EXCEPT
                        !.op = "duplicate", !.todo = types, !.work = children,
                        !.row = NewRow(name, type, parent)]]
  BY DEF AskDuplicate
<1>3. /\ Only(r) /\ DOMAIN req'[r] = Fields /\ req'[r].op = "duplicate"
      /\ req'[r].at = "parent" /\ req'[r].row = NewRow(name, type, parent)
  BY <1>1, <1>2 DEF Ended, RequestsOK, Only, Fields
<1>4. IsRow(req'[r].row)
  BY <1>3 DEF IsRow, NewRow
<1>5. RequestOK(req[r])'
  BY <1>1, <1>3, <1>4 DEF RequestOK, StageOK, Fields
<1> QED
  BY <1>1, <1>3, <1>5, QuietKeeps

LEMMA AskOK ==
  ASSUME Inv, NEW r \in Request, Ask(r)
  PROVE  Inv'
<1>1. CASE AskUnknown(r)
  <2>1. UNCHANGED tables /\ Fail(r) /\ RequestsOK
    BY <1>1 DEF AskUnknown, Inv
  <2> QED
    BY <2>1, EndedOK, QuietKeeps
<1> QED
  BY <1>1, AskCreateOK, AskKeyOK, AskStatusOK, AskUpdateOK, AskDeleteOK, AskMoveOK,
     AskDuplicateOK DEF Ask

-----------------------------------------------------------------------------
(* Reads.                                                                  *)

\* A step that goes on to another place of the same operation.
LEMMA MovesOnOK ==
  ASSUME Inv, UNCHANGED tables, NEW r \in Request, Only(r), DOMAIN req'[r] = Fields,
         req'[r].op = req[r].op, req'[r].op # "delete", req'[r].at # "commit",
         StageOK(req'[r]), IsRow(req'[r].row),
         req'[r].op \in {"update", "move"} => req'[r].id = req[r].id
  PROVE  Inv'
<1>1. RequestOK(req[r]) /\ lastId' = lastId
  BY DEF Inv, RequestsOK, tables
<1>2. req'[r].op \in {"update", "move"} => req'[r].id \in 1..lastId'
  BY <1>1 DEF RequestOK
<1>3. RequestOK(req[r])'
  BY <1>1, <1>2 DEF RequestOK, Fields, StageOK
<1> QED
  BY <1>3, QuietKeeps

LEMMA GoesOK ==
  ASSUME Inv, UNCHANGED tables, NEW r \in Request, NEW at, Goes(r, at),
         req[r].op # "delete", at # "commit", StageOK(req'[r])
  PROVE  Inv'
<1>1. /\ Only(r) /\ DOMAIN req'[r] = Fields /\ req'[r].at = at
      /\ req'[r].op = req[r].op /\ req'[r].id = req[r].id /\ req'[r].row = req[r].row
  BY GoesIs DEF Inv
<1>2. IsRow(req[r].row)
  BY DEF Inv, RequestsOK, RequestOK
<1> QED
  BY <1>1, <1>2, MovesOnOK

LEMMA CheckOK ==
  ASSUME Inv, NEW r \in Request, Check(r)
  PROVE  Inv'
<1>1. UNCHANGED tables /\ RequestsOK /\ req[r].at = "check"
  BY DEF Check, Inv
<1>2. CASE Fail(r)
  BY <1>1, <1>2, EndedOK, QuietKeeps
<1>3. CASE Goes(r, "insert")
  <2>1. req'[r].at = "insert" /\ req'[r].op = req[r].op
    BY <1>1, <1>3, GoesIs
  <2>2. StageOK(req[r])
    BY DEF Inv, RequestsOK, RequestOK
  <2>3. StageOK(req'[r]) /\ req[r].op # "delete"
    BY <1>1, <2>1, <2>2 DEF StageOK
  <2> QED
    BY <1>1, <1>3, <2>3, GoesOK
<1> QED
  BY <1>2, <1>3 DEF Check

\* Down the key: the next part, the tree of the entity, or the answer.
LEMMA DownIs ==
  ASSUME RequestsOK, NEW r \in Request, NEW e, Down(r, e)
  PROVE  \/ Answer(r)
         \/ /\ Only(r) /\ DOMAIN req'[r] = Fields /\ req'[r].op = req[r].op
            /\ req'[r].row = req[r].row /\ req'[r].id = e
            /\ \/ req'[r].at = "level"
               \/ req'[r].at = "tree" /\ req[r].op = "keyStatus"
<1>1. DOMAIN req[r] = Fields /\ req = [s \in Request |-> req[s]]
  BY DEF RequestsOK, RequestOK, Fields
<1>2. CASE Len(req[r].work) > 1
  <2>1. req' = [req EXCEPT ![r].at = "level", ![r].id = e, ![r].new = NoParent,
                           ![r].link = {}, ![r].work = Tail(@)]
    BY <1>2 DEF Down
  <2>2. /\ req' = [s \in Request |-> req'[s]]
        /\ \A s \in Request : s # r => req'[s] = req[s]
    BY <1>1, <2>1
  <2>3. /\ DOMAIN req'[r] = Fields /\ req'[r].op = req[r].op
        /\ req'[r].row = req[r].row /\ req'[r].id = e /\ req'[r].at = "level"
    BY <1>1, <2>1 DEF Fields
  <2> QED
    BY <2>2, <2>3 DEF Only
<1>3. CASE ~(Len(req[r].work) > 1) /\ req[r].op = "keyStatus"
  <2>1. req' = [req EXCEPT ![r].at = "tree", ![r].id = e, ![r].work = <<>>]
    BY <1>3 DEF Down
  <2>2. Only(r)
    BY <1>1, <2>1 DEF Only
  <2>3. /\ DOMAIN req'[r] = Fields /\ req'[r].op = req[r].op
        /\ req'[r].row = req[r].row /\ req'[r].id = e /\ req'[r].at = "tree"
    BY <1>1, <2>1 DEF Fields
  <2> QED
    BY <1>3, <2>2, <2>3
<1> QED
  BY <1>2, <1>3 DEF Down

LEMMA FindPartOK ==
  ASSUME Inv, NEW r \in Request, FindPart(r)
  PROVE  Inv'
<1>1. UNCHANGED tables /\ RequestsOK /\ req[r].at \in {"system", "level"}
  BY DEF FindPart, Inv
<1>2. req[r].op \in {"fetch", "keyStatus"} /\ IsRow(req[r].row) /\ DOMAIN req[r] = Fields
  BY <1>1 DEF Inv, RequestsOK, RequestOK, StageOK, Fields
<1>3. \/ \E e : Down(r, e)
      \/ /\ req[r].op = "fetch"
         /\ \E name, type : req' = [req EXCEPT ![r].at = "insert",
                                   ![r].row = NewRow(name, type, req[r].id)]
      \/ Fail(r)
  BY DEF FindPart
<1>4. CASE Answer(r) \/ Fail(r)
  BY <1>1, <1>4, EndedOK, QuietKeeps
<1>5. ASSUME NEW e, Down(r, e)
      PROVE  Inv'
  <2>1. CASE ~Answer(r)
    <3>1. /\ Only(r) /\ DOMAIN req'[r] = Fields /\ req'[r].op = req[r].op
          /\ req'[r].row = req[r].row
          /\ \/ req'[r].at = "level"
             \/ req'[r].at = "tree" /\ req[r].op = "keyStatus"
      BY <1>1, <1>5, <2>1, DownIs
    <3>2. StageOK(req'[r])
      BY <1>2, <3>1 DEF StageOK
    <3> QED
      BY <1>1, <1>2, <3>1, <3>2, MovesOnOK
  <2> QED
    BY <1>4, <2>1
<1>6. ASSUME req[r].op = "fetch", NEW name, NEW type,
             req' = [req EXCEPT ![r].at = "insert",
                                ![r].row = NewRow(name, type, req[r].id)]
      PROVE  Inv'
  <2>1. /\ Only(r) /\ DOMAIN req'[r] = Fields /\ req'[r].op = req[r].op
        /\ req'[r].at = "insert" /\ req'[r].row = NewRow(name, type, req[r].id)
    BY <1>1, <1>2, <1>6 DEF RequestsOK, Only, Fields
  <2>2. StageOK(req'[r]) /\ IsRow(req'[r].row)
    BY <1>6, <2>1 DEF StageOK, IsRow, NewRow
  <2> QED
    BY <1>1, <1>6, <2>1, <2>2, MovesOnOK
<1> QED
  BY <1>3, <1>4, <1>5, <1>6

LEMMA ReadTreeOK ==
  ASSUME Inv, NEW r \in Request, ReadTree(r)
  PROVE  Inv'
<1>1. UNCHANGED tables /\ RequestsOK /\ req[r].at = "tree"
  BY DEF ReadTree, Inv
<1>2. /\ req[r].op \in {"status", "keyStatus"} /\ IsRow(req[r].row)
      /\ DOMAIN req[r] = Fields
  BY <1>1 DEF Inv, RequestsOK, RequestOK, StageOK, Fields
<1>3. Fail(r) \/ \E todo : req' = [req EXCEPT ![r].at = "updates", ![r].todo = todo]
  BY DEF ReadTree
<1>4. CASE Fail(r)
  BY <1>1, <1>4, EndedOK, QuietKeeps
<1>5. ASSUME NEW todo, req' = [req EXCEPT ![r].at = "updates", ![r].todo = todo]
      PROVE  Inv'
  <2>1. /\ Only(r) /\ DOMAIN req'[r] = Fields /\ req'[r].op = req[r].op
        /\ req'[r].at = "updates" /\ req'[r].row = req[r].row
    BY <1>1, <1>2, <1>5 DEF RequestsOK, Only, Fields
  <2>2. StageOK(req'[r])
    BY <1>2, <2>1 DEF StageOK
  <2> QED
    BY <1>1, <1>2, <2>1, <2>2, MovesOnOK
<1> QED
  BY <1>3, <1>4, <1>5

LEMMA FindDetailOK ==
  ASSUME Inv, NEW r \in Request, FindDetail(r)
  PROVE  Inv'
<1>1. UNCHANGED tables /\ RequestsOK /\ req[r].at = "detail"
  BY DEF FindDetail, Inv
<1>2. CASE Fail(r)
  BY <1>1, <1>2, EndedOK, QuietKeeps
<1>3. CASE Goes(r, "detailSave")
  <2>1. req'[r].at = "detailSave" /\ req'[r].op = req[r].op
    BY <1>1, <1>3, GoesIs
  <2>2. StageOK(req[r])
    BY DEF Inv, RequestsOK, RequestOK
  <2>3. StageOK(req'[r]) /\ req[r].op # "delete"
    BY <1>1, <2>1, <2>2 DEF StageOK
  <2> QED
    BY <1>1, <1>3, <2>3, GoesOK
<1> QED
  BY <1>2, <1>3 DEF FindDetail

LEMMA FindTargetOK ==
  ASSUME Inv, NEW r \in Request, FindTarget(r)
  PROVE  Inv'
<1>1. UNCHANGED tables /\ RequestsOK /\ req[r].at = "target"
  BY DEF FindTarget, Inv
<1>2. CASE Fail(r)
  BY <1>1, <1>2, EndedOK, QuietKeeps
<1>3. CASE Goes(r, "moveSave")
  <2>1. req'[r].at = "moveSave" /\ req'[r].op = req[r].op
    BY <1>1, <1>3, GoesIs
  <2>2. StageOK(req[r])
    BY DEF Inv, RequestsOK, RequestOK
  <2>3. StageOK(req'[r]) /\ req[r].op # "delete"
    BY <1>1, <2>1, <2>2 DEF StageOK
  <2> QED
    BY <1>1, <1>3, <2>3, GoesOK
<1> QED
  BY <1>2, <1>3 DEF FindTarget

LEMMA FindParentOK ==
  ASSUME Inv, NEW r \in Request, FindParent(r)
  PROVE  Inv'
<1>1. UNCHANGED tables /\ RequestsOK /\ req[r].at = "parent"
  BY DEF FindParent, Inv
<1>2. req[r].op = "duplicate" /\ IsRow(req[r].row) /\ DOMAIN req[r] = Fields
  BY <1>1 DEF Inv, RequestsOK, RequestOK, StageOK, Fields
<1>3. \E at \in {"insert", "check"} : \E parent :
        req' = [req EXCEPT ![r].at = at, ![r].row.parent = parent]
  BY DEF FindParent
<1>4. PICK at \in {"insert", "check"} : \E parent :
        req' = [req EXCEPT ![r].at = at, ![r].row.parent = parent]
  BY <1>3
<1>5. PICK parent : req' = [req EXCEPT ![r].at = at, ![r].row.parent = parent]
  BY <1>4
<1>6. /\ Only(r) /\ DOMAIN req'[r] = Fields /\ req'[r].op = req[r].op
      /\ req'[r].at = at /\ req'[r].row = [req[r].row EXCEPT !.parent = parent]
  BY <1>1, <1>2, <1>5 DEF RequestsOK, Only, Fields
<1>7. StageOK(req'[r]) /\ IsRow(req'[r].row)
  BY <1>2, <1>6 DEF StageOK, IsRow
<1> QED
  BY <1>1, <1>2, <1>6, <1>7, MovesOnOK

\* The next copy.
LEMMA CopyingIs ==
  ASSUME NEW q, NEW work, DOMAIN q = Fields, q.op = "duplicate"
  PROVE  \/ Copying(q, work) = Ended("done")
         \/ /\ work # <<>> /\ DOMAIN Copying(q, work) = Fields
            /\ Copying(q, work).op = "duplicate" /\ Copying(q, work).at = "parent"
            /\ IsRow(Copying(q, work).row)
<1>1. ASSUME NEW name, NEW type, NEW parent
      PROVE  IsRow(NewRow(name, type, parent))
  BY DEF IsRow, NewRow
<1> QED
  BY <1>1 DEF Copying, Fields

LEMMA FindChildrenOK ==
  ASSUME Inv, NEW r \in Request, FindChildren(r)
  PROVE  Inv'
<1>1. UNCHANGED tables /\ RequestsOK /\ req[r].at = "children"
  BY DEF FindChildren, Inv
<1>2. req[r].op = "duplicate" /\ DOMAIN req[r] = Fields
  BY <1>1 DEF Inv, RequestsOK, RequestOK, StageOK, Fields
<1>3. Fail(r) \/ \E work : req' = [req EXCEPT ![r] = Copying(req[r], work)]
  BY <1>1 DEF FindChildren, RequestsOK
<1>4. CASE Answer(r) \/ Fail(r)
  BY <1>1, <1>4, EndedOK, QuietKeeps
<1>5. ASSUME NEW work, req' = [req EXCEPT ![r] = Copying(req[r], work)]
      PROVE  Inv'
  <2>1. Only(r) /\ req'[r] = Copying(req[r], work)
    BY <1>1, <1>5 DEF RequestsOK, Only
  <2>2. CASE Copying(req[r], work) = Ended("done")
    BY <1>4, <1>5, <2>2 DEF Answer
  <2>3. CASE /\ DOMAIN req'[r] = Fields
             /\ req'[r].op = "duplicate" /\ req'[r].at = "parent" /\ IsRow(req'[r].row)
    <3>1. StageOK(req'[r])
      BY <2>3 DEF StageOK
    <3> QED
      BY <1>1, <1>2, <2>1, <2>3, <3>1, MovesOnOK
  <2> QED
    BY <1>2, <2>1, <2>2, <2>3, CopyingIs
<1> QED
  BY <1>3, <1>4, <1>5

-----------------------------------------------------------------------------
(* Writes.                                                                 *)

LEMMA LastIdIs ==
  ASSUME TablesOK
  PROVE  /\ lastId \in Nat /\ lastId <= MaxId /\ lastId >= lastId
         /\ 0 \notin DOMAIN entity /\ DOMAIN entity \subseteq 1..lastId
         /\ 1..lastId \subseteq Id
  BY StorageEntityAssumption DEF TablesOK, Id

\* A row is added, or saved over the one there is.
LEMMA AddedTables ==
  ASSUME TablesOK, NEW id \in 1..lastId, NEW row, IsRow(row),
         row.parent \in DOMAIN entity \cup {NoParent},
         entity' = WithRow(entity, id, row), UNCHANGED <<detailed, lastId>>,
         Pairs(closure', DOMAIN entity \cup {id})
  PROVE  TablesOK' /\ DOMAIN entity' = DOMAIN entity \cup {id}
<1>1. /\ DOMAIN entity' = DOMAIN entity \cup {id}
      /\ \A e \in DOMAIN entity' : entity'[e] = IF e = id THEN row ELSE entity[e]
  BY DEF WithRow
<1>2. ASSUME NEW e \in DOMAIN entity'
      PROVE  IsRow(entity'[e]) /\ entity'[e].parent \in DOMAIN entity' \cup {NoParent}
  BY <1>1 DEF TablesOK
<1> QED
  BY <1>1, <1>2 DEF TablesOK

\* The transactions of the others, if no row goes that they hold and none comes
\* under their ids.
LEMMA OthersKeep ==
  ASSUME Inv, NEW r \in Request, Only(r), NEW s \in Request, s # r,
         req[s].at = "commit", lastId' \in Nat, lastId' >= lastId,
         req[s].new \notin DOMAIN entity',
         \A e \in DOMAIN entity \ DOMAIN entity' :
            e # req[s].row.parent /\ \A p \in req[s].link : p[1] # e
  PROVE  CommitOK(req[s])'
<1>1. req'[s] = req[s] /\ CommitOK(req[s])
  BY DEF Only, Inv, RequestsOK, RequestOK
<1>2. lastId \in Nat
  BY LastIdIs DEF Inv
<1>3. req[s].new \in 1..lastId'
  BY <1>1, <1>2 DEF CommitOK
<1>4. req[s].row.parent \in DOMAIN entity' \cup {NoParent}
  BY <1>1 DEF CommitOK
<1>5. req[s].link \subseteq ((DOMAIN entity') \cup {req[s].new}) \X {req[s].new}
  <2> SUFFICES ASSUME NEW p \in req[s].link
               PROVE  p \in ((DOMAIN entity') \cup {req[s].new}) \X {req[s].new}
    OBVIOUS
  <2>1. /\ p = <<p[1], p[2]>> /\ p[2] = req[s].new
        /\ p[1] \in DOMAIN entity \cup {req[s].new}
    BY <1>1 DEF CommitOK
  <2>2. p[1] \in (DOMAIN entity') \cup {req[s].new}
    BY <2>1
  <2> QED
    BY <2>1, <2>2
<1> QED
  BY <1>1, <1>3, <1>4, <1>5 DEF CommitOK

LEMMA InsertOK ==
  ASSUME Inv, NEW r \in Request, Insert(r)
  PROVE  Inv'
<1>1. /\ UNCHANGED <<entity, closure, detailed>> /\ req[r].at = "insert"
      /\ lastId' = IF lastId < MaxId THEN lastId + 1 ELSE lastId
  BY DEF Insert
<1>2. /\ req[r].op \in {"create", "fetch", "duplicate"} /\ IsRow(req[r].row)
      /\ DOMAIN req[r] = Fields /\ RequestsOK /\ TablesOK /\ req[r].op \in Kind
  BY <1>1, StorageEntityAssumption DEF Inv, RequestsOK, RequestOK, StageOK, Fields
<1>3. /\ lastId \in Nat /\ lastId' \in Id /\ lastId' >= lastId
      /\ 1..lastId \subseteq 1..lastId'
  BY <1>1, <1>2, LastIdIs, StorageEntityAssumption DEF Id, TablesOK
<1>4. TablesOK'
  BY <1>1, <1>2, <1>3 DEF TablesOK
<1>5. Only(r) => \A s \in Request : s # r /\ req[s].at = "commit" => CommitOK(req[s])'
  <2> SUFFICES ASSUME Only(r), NEW s \in Request, s # r, req[s].at = "commit"
               PROVE  CommitOK(req[s])'
    OBVIOUS
  <2>1. req[s].new \notin DOMAIN entity
    BY DEF Inv, RequestsOK, RequestOK, CommitOK
  <2>2. lastId' \in Nat
    BY <1>3 DEF Id
  <2> QED
    BY <1>1, <1>3, <2>1, <2>2, OthersKeep
<1>6. CASE Fail(r)
  BY <1>2, <1>3, <1>4, <1>5, <1>6, EndedOK, StepKeeps
<1>7. CASE /\ lastId < MaxId /\ req[r].row.parent \in DOMAIN entity \cup {NoParent}
           /\ req' = [req EXCEPT
                ![r].at = "commit",
                ![r].new = lastId + 1,
                ![r].link = LinkNew(closure, lastId + 1, req[r].row.parent)]
  <2>1. lastId' = lastId + 1
    BY <1>1, <1>7
  <2>2. req = [s \in Request |-> req[s]]
    BY <1>2 DEF RequestsOK
  <2>3. Only(r)
    BY <1>7, <2>2 DEF Only
  <2>4. /\ DOMAIN req'[r] = Fields /\ req'[r].at = "commit" /\ req'[r].op = req[r].op
        /\ req'[r].row = req[r].row /\ req'[r].new = lastId'
        /\ req'[r].link = LinkNew(closure, lastId', req[r].row.parent)
    BY <1>2, <1>7, <2>1, <2>2 DEF Fields
  <2>5. \A a \in Ancestors(closure, req[r].row.parent) : a \in DOMAIN entity
    BY <1>2, Columns DEF TablesOK
  <2>6. CommitOK(req[r])'
    <3>1. lastId' \in 1..lastId' /\ lastId' \notin 1..lastId /\ lastId' \notin DOMAIN entity
      BY <1>2, <1>3, <2>1 DEF TablesOK
    <3>2. /\ LinkNew(closure, lastId', req[r].row.parent)
             \subseteq ((DOMAIN entity) \cup {lastId'}) \X {lastId'}
          /\ <<lastId', lastId'>> \in LinkNew(closure, lastId', req[r].row.parent)
      BY <2>5 DEF LinkNew
    <3> QED
      BY <1>1, <1>7, <2>4, <3>1, <3>2 DEF CommitOK
  <2>7. StageOK(req'[r])
    BY <1>2, <2>4 DEF StageOK
  <2>8. RequestOK(req[r])'
    BY <1>2, <2>4, <2>6, <2>7 DEF RequestOK, Fields
  <2>9. lastId' \notin 1..lastId
    BY <1>3, <2>1
  <2> QED
    BY <1>2, <1>3, <1>4, <1>5, <2>3, <2>4, <2>8, <2>9, StepKeeps
<1> QED
  BY <1>6, <1>7 DEF Insert

\* What a commit leaves, whatever the request goes on with.
LEMMA CommitsIs ==
  ASSUME Inv, NEW r \in Request, Commits(r)
  PROVE  /\ TablesOK' /\ lastId' >= lastId /\ lastId' = lastId
         /\ DOMAIN entity' = DOMAIN entity \cup {req[r].new}
         /\ Only(r) => \A s \in Request :
                          s # r /\ req[s].at = "commit" => CommitOK(req[s])'
<1>1. /\ req[r].at = "commit" /\ entity' = WithRow(entity, req[r].new, req[r].row)
      /\ closure' = closure \cup req[r].link /\ UNCHANGED <<detailed, lastId>>
  BY DEF Commits
<1>2. TablesOK /\ RequestOK(req[r]) /\ CommitOK(req[r]) /\ IsRow(req[r].row)
  BY <1>1 DEF Inv, RequestsOK, RequestOK
<1>3. Pairs(closure', DOMAIN entity \cup {req[r].new})
  BY <1>1, <1>2 DEF TablesOK, CommitOK, Pairs
<1>4. TablesOK' /\ DOMAIN entity' = DOMAIN entity \cup {req[r].new}
  BY <1>1, <1>2, <1>3, AddedTables DEF CommitOK
<1>5. lastId' \in Nat /\ lastId' >= lastId
  BY <1>1, <1>2, LastIdIs
<1>6. ASSUME Only(r), NEW s \in Request, s # r, req[s].at = "commit"
      PROVE  CommitOK(req[s])'
  <2>1. req[s].new \notin DOMAIN entity /\ req[s].new # req[r].new
    BY <1>1, <1>6 DEF Inv, RequestsOK, RequestOK, CommitOK, Apart
  <2> QED
    BY <1>4, <1>5, <1>6, <2>1, OthersKeep
<1> QED
  BY <1>1, <1>4, <1>5, <1>6

LEMMA CommitCreatedOK ==
  ASSUME Inv, NEW r \in Request, CommitCreated(r)
  PROVE  Inv'
<1>1. Commits(r) /\ Answer(r) /\ RequestsOK
  BY DEF CommitCreated, Inv
<1> QED
  BY <1>1, CommitsIs, EndedOK, StepKeeps

LEMMA CommitFetchedOK ==
  ASSUME Inv, NEW r \in Request, CommitFetched(r)
  PROVE  Inv'
<1>1. Commits(r) /\ Down(r, req[r].new) /\ RequestsOK /\ req[r].op = "fetch"
  BY DEF CommitFetched, Inv
<1>2. IsRow(req[r].row) /\ req[r].op \in Kind \cup {"none"}
  BY DEF Inv, RequestsOK, RequestOK
<1>3. CASE Answer(r)
  BY <1>1, <1>3, CommitsIs, EndedOK, StepKeeps
<1>4. CASE ~Answer(r)
  <2>1. /\ Only(r) /\ DOMAIN req'[r] = Fields /\ req'[r].op = "fetch"
        /\ req'[r].row = req[r].row /\ req'[r].at = "level"
    BY <1>1, <1>4, DownIs
  <2>2. RequestOK(req[r])'
    BY <1>1, <1>2, <2>1 DEF RequestOK, StageOK, Fields
  <2> QED
    BY <1>1, <2>1, <2>2, CommitsIs, StepKeeps
<1> QED
  BY <1>3, <1>4

LEMMA CommitCopyOK ==
  ASSUME Inv, NEW r \in Request, CommitCopy(r)
  PROVE  Inv'
<1>1. Commits(r) /\ RequestsOK /\ req[r].op = "duplicate"
  BY DEF CommitCopy, Inv
<1>2. DOMAIN req[r] = Fields /\ req[r].op \in Kind \cup {"none"}
  BY DEF Inv, RequestsOK, RequestOK, Fields
<1>3. \E work : req' = [req EXCEPT ![r] = Copying([req[r] EXCEPT !.id = req[r].new], work)]
  BY <1>1 DEF CommitCopy, RequestsOK
<1>4. PICK work : req' = [req EXCEPT ![r] = Copying([req[r] EXCEPT !.id = req[r].new], work)]
  BY <1>3
<1> DEFINE q == [req[r] EXCEPT !.id = req[r].new]
<1>5. DOMAIN q = Fields /\ q.op = "duplicate"
  BY <1>1, <1>2 DEF Fields
<1>6. Only(r) /\ req'[r] = Copying(q, work)
  BY <1>1, <1>4 DEF RequestsOK, Only
<1> HIDE DEF q
<1>7. CASE Copying(q, work) = Ended("done")
  <2>1. Answer(r)
    BY <1>4, <1>7 DEF Answer, q
  <2> QED
    BY <1>1, <2>1, CommitsIs, EndedOK, StepKeeps
<1>8. CASE /\ DOMAIN req'[r] = Fields
           /\ req'[r].op = "duplicate" /\ req'[r].at = "parent" /\ IsRow(req'[r].row)
  <2>1. RequestOK(req[r])'
    BY <1>1, <1>2, <1>8 DEF RequestOK, StageOK, Fields
  <2> QED
    BY <1>1, <1>6, <1>8, <2>1, CommitsIs, StepKeeps
<1> QED
  BY <1>5, <1>6, <1>7, <1>8, CopyingIs

LEMMA CommitChildOK ==
  ASSUME Inv, NEW r \in Request, CommitChild(r)
  PROVE  Inv'
<1>1. Commits(r) /\ RequestsOK /\ req[r].op = "duplicate" /\ Goes(r, "children")
  BY DEF CommitChild, Inv
<1>2. IsRow(req[r].row) /\ req[r].op \in Kind \cup {"none"}
  BY DEF Inv, RequestsOK, RequestOK
<1>3. /\ Only(r) /\ DOMAIN req'[r] = Fields /\ req'[r].at = "children"
      /\ req'[r].op = "duplicate" /\ req'[r].row = req[r].row
  BY <1>1, GoesIs
<1>4. RequestOK(req[r])'
  BY <1>1, <1>2, <1>3 DEF RequestOK, StageOK, Fields
<1> QED
  BY <1>1, <1>3, <1>4, CommitsIs, StepKeeps

\* A write that takes no row away and makes none under the id of a transaction.
LEMMA WriteKeeps ==
  ASSUME Inv, TablesOK', lastId' = lastId, NEW r \in Request, Only(r),
         DOMAIN entity \subseteq DOMAIN entity',
         \A s \in Request : s # r /\ req[s].at = "commit" => req[s].new \notin DOMAIN entity',
         RequestOK(req[r])', req'[r].at # "commit",
         req'[r].op \in {"update", "move"}
         => req[r].op \in {"update", "move"} /\ req'[r].id = req[r].id
  PROVE  Inv'
<1>1. lastId' \in Nat /\ lastId' >= lastId
  BY LastIdIs DEF Inv
<1>2. ASSUME NEW s \in Request, s # r, req[s].at = "commit"
      PROVE  CommitOK(req[s])'
  BY <1>1, <1>2, OthersKeep
<1> QED
  BY <1>1, <1>2, StepKeeps

LEMMA UpdateStatusOK ==
  ASSUME Inv, NEW r \in Request, UpdateStatus(r)
  PROVE  Inv'
<1>1. /\ req[r].at = "updates" /\ UNCHANGED <<closure, detailed, lastId>>
      /\ TablesOK /\ RequestsOK
  BY DEF UpdateStatus, Inv
<1>2. PICK e \in req[r].todo :
        /\ entity' = IF e[2] \in DOMAIN entity
                     THEN [entity EXCEPT ![e[2]].status = req[r].row.status]
                     ELSE entity
        /\ \/ Answer(r)
           \/ req' = [req EXCEPT ![r].todo = @ \ {e}]
  BY DEF UpdateStatus
<1>3. /\ DOMAIN entity' = DOMAIN entity
      /\ \A x \in DOMAIN entity : entity'[x].parent = entity[x].parent /\ IsRow(entity'[x])
  BY <1>1, <1>2 DEF TablesOK, IsRow
<1>4. TablesOK'
  BY <1>1, <1>3 DEF TablesOK
<1>5. \A s \in Request : req[s].at = "commit" => req[s].new \notin DOMAIN entity'
  BY <1>3 DEF Inv, RequestsOK, RequestOK, CommitOK
<1>6. CASE Answer(r)
  BY <1>1, <1>3, <1>4, <1>5, <1>6, EndedOK, WriteKeeps
<1>7. CASE req' = [req EXCEPT ![r].todo = @ \ {e}]
  <2>1. /\ DOMAIN req[r] = Fields /\ req[r].op \in Kind \cup {"none"} /\ IsRow(req[r].row)
        /\ req[r].op \in {"status", "keyStatus"}
    BY <1>1 DEF RequestsOK, RequestOK, StageOK, Fields
  <2>2. /\ Only(r) /\ DOMAIN req'[r] = Fields /\ req'[r].op = req[r].op
        /\ req'[r].at = "updates" /\ req'[r].row = req[r].row
    BY <1>1, <1>7, <2>1 DEF RequestsOK, Only, Fields
  <2>3. RequestOK(req[r])'
    BY <2>1, <2>2 DEF RequestOK, StageOK, Fields
  <2> QED
    BY <1>1, <1>3, <1>4, <1>5, <2>1, <2>2, <2>3, WriteKeeps
<1> QED
  BY <1>2, <1>6, <1>7

LEMMA SaveDetailOK ==
  ASSUME Inv, NEW r \in Request, SaveDetail(r)
  PROVE  Inv'
<1>1. /\ req[r].at = "detailSave" /\ UNCHANGED <<entity, closure, lastId>>
      /\ TablesOK /\ RequestsOK
  BY DEF SaveDetail, Inv
<1>2. CASE /\ req[r].id \in DOMAIN entity /\ detailed' = detailed \cup {req[r].id}
           /\ Goes(r, "save")
  <2>1. TablesOK'
    BY <1>1, <1>2 DEF TablesOK
  <2>2. /\ Only(r) /\ DOMAIN req'[r] = Fields /\ req'[r].at = "save"
        /\ req'[r].op = req[r].op /\ req'[r].row = req[r].row /\ req'[r].id = req[r].id
    BY <1>1, <1>2, GoesIs
  <2>3. /\ req[r].op = "update" /\ "update" \in Kind \cup {"none"} /\ IsRow(req[r].row)
        /\ req[r].id \in 1..lastId
    BY <1>1 DEF RequestsOK, RequestOK, StageOK
  <2>4. RequestOK(req[r])'
    BY <1>1, <2>2, <2>3 DEF RequestOK, StageOK, Fields
  <2>5. \A s \in Request : req[s].at = "commit" => req[s].new \notin DOMAIN entity'
    BY <1>1 DEF Inv, RequestsOK, RequestOK, CommitOK
  <2> QED
    BY <1>1, <2>1, <2>2, <2>3, <2>4, <2>5, WriteKeeps
<1>3. CASE Fail(r) /\ UNCHANGED detailed
  BY <1>1, <1>3, EndedOK, QuietKeeps DEF tables
<1> QED
  BY <1>2, <1>3 DEF SaveDetail

LEMMA SaveRowOK ==
  ASSUME Inv, NEW r \in Request, SaveRow(r)
  PROVE  Inv'
<1>1. req[r].at = "save" /\ UNCHANGED <<detailed, lastId>> /\ TablesOK /\ RequestsOK
  BY DEF SaveRow, Inv
<1>2. req[r].op = "update" /\ IsRow(req[r].row) /\ req[r].id \in 1..lastId
  BY <1>1 DEF RequestsOK, RequestOK, StageOK
<1>3. CASE Fail(r) /\ UNCHANGED <<entity, closure>>
  BY <1>1, <1>3, EndedOK, QuietKeeps DEF tables
<1>4. CASE /\ req[r].row.parent \in DOMAIN entity \cup {NoParent}
           /\ entity' = WithRow(entity, req[r].id, req[r].row)
           /\ closure' = IF req[r].id \in DOMAIN entity
                         THEN closure
                         ELSE closure \cup {<<req[r].id, req[r].id>>}
           /\ Answer(r)
  <2>1. Pairs(closure', DOMAIN entity \cup {req[r].id})
    BY <1>1, <1>4 DEF TablesOK, Pairs
  <2>2. TablesOK' /\ DOMAIN entity' = DOMAIN entity \cup {req[r].id}
    BY <1>1, <1>2, <1>4, <2>1, AddedTables
  <2>3. ASSUME NEW s \in Request, req[s].at = "commit"
        PROVE  req[s].new \notin DOMAIN entity'
    BY <1>2, <2>2, <2>3 DEF Inv, Apart, RequestsOK, RequestOK, CommitOK
  <2> QED
    BY <1>1, <1>4, <2>2, <2>3, EndedOK, WriteKeeps
<1> QED
  BY <1>3, <1>4 DEF SaveRow

LEMMA CutOffPairs ==
  ASSUME NEW ids, Pairs(closure, ids), NEW id
  PROVE  Pairs(CutOff(closure, id), ids)
  BY DEF CutOff, Pairs

LEMMA LinkedPairs ==
  ASSUME NEW table, NEW ids, Pairs(table, ids), NEW id, NEW parent
  PROVE  Pairs(table \cup LinkSubtree(table, id, parent), ids)
<1>1. Ancestors(table, parent) \subseteq ids /\ Descendants(table, id) \subseteq ids
  BY Columns
<1> QED
  BY <1>1 DEF LinkSubtree, Pairs

LEMMA SaveMovedOK ==
  ASSUME Inv, NEW r \in Request, SaveMoved(r)
  PROVE  Inv'
<1> DEFINE id == req[r].id
           parent == req[r].row.parent
<1>1. req[r].at = "moveSave" /\ UNCHANGED <<detailed, lastId>> /\ TablesOK /\ RequestsOK
  BY DEF SaveMoved, Inv
<1>2. req[r].op = "move" /\ IsRow(req[r].row) /\ id \in 1..lastId
  BY <1>1 DEF RequestsOK, RequestOK, StageOK
<1>3. CASE Fail(r) /\ UNCHANGED <<entity, closure>>
  BY <1>1, <1>3, EndedOK, QuietKeeps DEF tables
<1>4. CASE /\ parent \in DOMAIN entity
           /\ entity' = WithRow(entity, id, req[r].row)
           /\ \/ closure' = Relinked(id, parent)
              \/ closure' = closure
              \/ closure' = closure \cup LinkNew(closure, id, parent)
           /\ Answer(r)
  <2> DEFINE ids == DOMAIN entity \cup {id}
  <2>1. Pairs(closure, DOMAIN entity) /\ Pairs(closure, ids)
    BY <1>1 DEF TablesOK, Pairs
  <2>2. Pairs(Relinked(id, parent), ids)
    BY <2>1, CutOffPairs, LinkedPairs DEF Relinked
  <2>3. Pairs(closure \cup LinkNew(closure, id, parent), ids)
    <3>1. Ancestors(closure, parent) \subseteq ids
      BY <2>1, Columns
    <3> QED
      BY <2>1, <3>1 DEF LinkNew, Pairs
  <2> HIDE DEF ids
  <2>4. Pairs(closure', ids)
    BY <1>4, <2>1, <2>2, <2>3
  <2>5. TablesOK' /\ DOMAIN entity' = DOMAIN entity \cup {id}
    BY <1>1, <1>2, <1>4, <2>4, AddedTables DEF ids
  <2>6. ASSUME NEW s \in Request, req[s].at = "commit"
        PROVE  req[s].new \notin DOMAIN entity'
    BY <1>2, <2>5, <2>6 DEF Inv, Apart, RequestsOK, RequestOK, CommitOK
  <2> QED
    BY <1>1, <1>4, <2>5, <2>6, EndedOK, WriteKeeps
<1> QED
  BY <1>3, <1>4 DEF SaveMoved

-----------------------------------------------------------------------------
(* Deletions.                                                              *)

\* The last element of two sequences one after the other.
LEMMA LastOfBoth ==
  ASSUME NEW A, NEW f \in Seq(A), NEW g \in Seq(A), f # <<>>
  PROVE  LET h == f \o g
         IN /\ h \in Seq(A) /\ h # <<>>
            /\ g = <<>> => h[Len(h)] = f[Len(f)]
            /\ g # <<>> => h[Len(h)] = g[Len(g)]
<1>1. f \o g \in Seq(A) /\ Len(f \o g) = Len(f) + Len(g) /\ Len(f) \in Nat /\ Len(g) \in Nat
  OBVIOUS
<1>2. Len(f) > 0
  OBVIOUS
<1>3. CASE g = <<>>
  BY <1>1, <1>2, <1>3
<1>4. CASE g # <<>>
  <2>1. Len(g) > 0
    BY <1>4
  <2> QED
    BY <1>1, <1>2, <1>4, <2>1
<1> QED
  BY <1>3, <1>4

LEMMA LastOfTail ==
  ASSUME NEW A, NEW f \in Seq(A), f # <<>>
  PROVE  /\ Tail(f) \in Seq(A) /\ f[Len(f)] \in A /\ Len(f) \in Nat \ {0}
         /\ Head(f) = f[1]
         /\ Tail(f) = <<>> <=> Len(f) = 1
         /\ Tail(f) # <<>> => Tail(f)[Len(Tail(f))] = f[Len(f)]
<1>1. /\ Len(f) \in Nat /\ Len(f) > 0 /\ Tail(f) \in Seq(A)
      /\ Len(Tail(f)) = Len(f) - 1 /\ Head(f) = f[1]
  OBVIOUS
<1>2. Tail(f) = <<>> <=> Len(Tail(f)) = 0
  <2> DEFINE t == Tail(f)
  <2>1. t \in Seq(A)
    BY <1>1
  <2> HIDE DEF t
  <2>2. t = <<>> <=> Len(t) = 0
    BY <2>1
  <2> QED
    BY <2>2 DEF t
<1>3. f[Len(f)] \in A
  BY <1>1
<1>4. Len(f) > 1 => Tail(f)[Len(Tail(f))] = f[Len(f)]
  BY <1>1
<1> QED
  BY <1>1, <1>2, <1>3, <1>4

\* The frames of the children, that of the entity, and those after it.
LEMMA FramesOK ==
  ASSUME NEW front \in Seq(AFrame), NEW work \in Seq(AFrame), work # <<>>,
         NEW x \in AFrame, x.id = Head(work).id
  PROVE  LET all == front \o <<x>> \o Tail(work)
         IN all \in Seq(AFrame) /\ all # <<>> /\ all[Len(all)].id = work[Len(work)].id
<1> HIDE DEF AFrame
<1> DEFINE g == front \o <<x>>
<1>1. <<x>> \in Seq(AFrame) /\ <<x>> # <<>> /\ <<x>>[Len(<<x>>)] = x
  OBVIOUS
<1>2. g \in Seq(AFrame) /\ g # <<>> /\ g[Len(g)] = x
  BY <1>1
<1> HIDE DEF g
<1>3. /\ Tail(work) \in Seq(AFrame) /\ Head(work) = work[1]
      /\ Tail(work) = <<>> => Len(work) = 1
      /\ Tail(work) # <<>> => Tail(work)[Len(Tail(work))] = work[Len(work)]
  BY LastOfTail
<1>4. /\ g \o Tail(work) \in Seq(AFrame) /\ g \o Tail(work) # <<>>
      /\ Tail(work) = <<>> => (g \o Tail(work))[Len(g \o Tail(work))] = g[Len(g)]
      /\ Tail(work) # <<>>
         => (g \o Tail(work))[Len(g \o Tail(work))] = Tail(work)[Len(Tail(work))]
  BY <1>2, <1>3, LastOfBoth
<1>5. (g \o Tail(work))[Len(g \o Tail(work))].id = work[Len(work)].id
  BY <1>2, <1>3, <1>4
<1> QED
  BY <1>4, <1>5 DEF g

LEMMA VictimIs ==
  ASSUME Inv, NEW r \in Request, NEW step, Doing(r, step)
  PROVE  /\ req[r].op = "delete" /\ req[r].at = "delete" /\ DeleteOK(req[r])
         /\ Victim(r) \in Id /\ DOMAIN req[r] = Fields /\ IsRow(req[r].row)
         /\ "delete" \in Kind \cup {"none"} /\ Len(req[r].work) \in Nat \ {0}
         /\ Head(req[r].work) = req[r].work[1] /\ req[r].work[1] \in AFrame
<1>1. req[r].at = "delete" /\ RequestOK(req[r])
  BY DEF Doing, Inv, RequestsOK
<1>2. req[r].op = "delete"
  BY <1>1 DEF RequestOK, StageOK
<1>3. DeleteOK(req[r])
  BY <1>1, <1>2 DEF RequestOK
<1>4. /\ Len(req[r].work) \in Nat \ {0} /\ Head(req[r].work) = req[r].work[1]
      /\ req[r].work[1] \in AFrame
  <2> HIDE DEF AFrame
  <2>1. req[r].work \in Seq(AFrame) /\ req[r].work # <<>>
    BY <1>3 DEF DeleteOK
  <2> QED
    BY <2>1
<1>5. Victim(r) \in Id
  BY <1>4 DEF Victim, AFrame
<1> QED
  BY <1>1, <1>2, <1>3, <1>4, <1>5 DEF RequestOK, Fields

\* A deletion goes on with other frames above the last.
LEMMA FramesGo ==
  ASSUME Inv, NEW r \in Request, req[r].op = "delete", req[r].at = "delete",
         NEW work, req' = [req EXCEPT ![r].work = work],
         work \in Seq(AFrame), work # <<>>, work[Len(work)].id = req[r].id
  PROVE  /\ Only(r) /\ RequestOK(req[r])' /\ req'[r].op = "delete"
         /\ req'[r].at = "delete"
<1> HIDE DEF AFrame
<1>1. RequestsOK /\ RequestOK(req[r]) /\ DOMAIN req[r] = Fields
  BY DEF Inv, RequestsOK, RequestOK, Fields
<1>2. Only(r)
  BY <1>1 DEF RequestsOK, Only
<1>3. /\ DOMAIN req'[r] = Fields /\ req'[r].op = "delete" /\ req'[r].at = "delete"
      /\ req'[r].row = req[r].row /\ req'[r].id = req[r].id /\ req'[r].work = work
  BY <1>1 DEF RequestsOK, Fields
<1>4. RequestOK(req[r])'
  BY <1>1, <1>3 DEF RequestOK, StageOK, DeleteOK, Fields
<1> QED
  BY <1>2, <1>3, <1>4

LEMMA DeleteFindOK ==
  ASSUME Inv, NEW r \in Request, DeleteFind(r)
  PROVE  Inv'
<1>1. UNCHANGED tables /\ Doing(r, "find") /\ RequestsOK /\ TablesOK
  BY DEF DeleteFind, Inv
<1>2. CASE Fail(r)
  BY <1>1, <1>2, EndedOK, QuietKeeps
<1>3. CASE \E children \in SetToSeqs(Children(entity, Victim(r))) :
              req' = [req EXCEPT ![r].work =
                        [i \in DOMAIN children |-> Frame(children[i], "find")]
                        \o <<Frame(Victim(r), "data")>> \o Tail(@)]
  <2>1. PICK children \in SetToSeqs(Children(entity, Victim(r))) :
              req' = [req EXCEPT ![r].work =
                        [i \in DOMAIN children |-> Frame(children[i], "find")]
                        \o <<Frame(Victim(r), "data")>> \o Tail(@)]
    BY <1>3
  <2> DEFINE front == [i \in DOMAIN children |-> Frame(children[i], "find")]
             S == Children(entity, Victim(r))
             work == front \o <<Frame(Victim(r), "data")>> \o Tail(req[r].work)
  <2>2. S \subseteq Id
    BY <1>1, LastIdIs DEF Children
  <2>3. Cardinality(S) \in Nat
    <3>1. IsFiniteSet(1..lastId)
      BY <1>1, LastIdIs, FS_Interval
    <3>2. S \subseteq 1..lastId
      BY <1>1, LastIdIs DEF Children
    <3> QED
      BY <3>1, <3>2, FS_Subset, FS_CardinalityType
  <2>4. DOMAIN children = 1..Cardinality(S) /\ \A i \in DOMAIN children : children[i] \in S
    BY <2>1 DEF SetToSeqs
  <2> HIDE DEF S
  <2>5. \A i \in DOMAIN children : Frame(children[i], "find") \in AFrame
    BY <2>2, <2>4 DEF Frame, AFrame
  <2>6. front \in Seq(AFrame)
    BY <2>3, <2>4, <2>5
  <2>7. Frame(Victim(r), "data") \in AFrame /\ Frame(Victim(r), "data").id = Head(req[r].work).id
    BY <1>1, VictimIs DEF Frame, AFrame, Victim
  <2>8. work \in Seq(AFrame) /\ work # <<>> /\ work[Len(work)].id = req[r].id
    <3>1. req[r].work \in Seq(AFrame) /\ req[r].work # <<>>
          /\ req[r].work[Len(req[r].work)].id = req[r].id
      BY <1>1, VictimIs DEF DeleteOK
    <3> HIDE DEF front, AFrame
    <3> QED
      BY <2>6, <2>7, <3>1, FramesOK
  <2>9. req' = [req EXCEPT ![r].work = work]
    BY <2>1
  <2> HIDE DEF work
  <2>10. req[r].op = "delete" /\ req[r].at = "delete"
    BY <1>1, VictimIs
  <2> QED
    BY <1>1, <2>8, <2>9, <2>10, FramesGo, QuietKeeps
<1> QED
  BY <1>2, <1>3 DEF DeleteFind

\* A frame goes to its next step.
LEMMA ThenIs ==
  ASSUME Inv, NEW r \in Request, NEW old, Doing(r, old),
         NEW step \in {"find", "data", "closure", "row"}, Then(r, step)
  PROVE  /\ Only(r) /\ RequestOK(req[r])' /\ req'[r].op = "delete"
         /\ req'[r].at = "delete"
<1> DEFINE x == [req[r].work[1] EXCEPT !.step = step]
           work == [req[r].work EXCEPT ![1] = x]
<1>1. /\ req[r].op = "delete" /\ req[r].at = "delete" /\ DeleteOK(req[r])
      /\ Len(req[r].work) \in Nat \ {0} /\ req[r].work[1] \in AFrame
  BY VictimIs
<1>2. x \in AFrame /\ x.id = req[r].work[1].id
  BY <1>1 DEF AFrame
<1>3. req' = [req EXCEPT ![r].work = work]
  BY DEF Then
<1> HIDE DEF x, AFrame
<1>4. work \in Seq(AFrame) /\ Len(work) = Len(req[r].work)
  BY <1>1, <1>2 DEF DeleteOK
<1>5. work # <<>> /\ work[Len(work)].id = req[r].id
  BY <1>1, <1>2, <1>4 DEF DeleteOK
<1> HIDE DEF work
<1> QED
  BY <1>1, <1>3, <1>4, <1>5, FramesGo

LEMMA DeleteDataOK ==
  ASSUME Inv, NEW r \in Request, DeleteData(r)
  PROVE  Inv'
<1>1. /\ Doing(r, "data") /\ Then(r, "closure") /\ UNCHANGED <<entity, closure, lastId>>
      /\ detailed' = detailed \ {Victim(r)} /\ TablesOK
  BY DEF DeleteData, Inv
<1>2. TablesOK'
  BY <1>1 DEF TablesOK
<1>3. \A s \in Request : req[s].at = "commit" => req[s].new \notin DOMAIN entity'
  BY <1>1 DEF Inv, RequestsOK, RequestOK, CommitOK
<1> QED
  BY <1>1, <1>2, <1>3, ThenIs, WriteKeeps

LEMMA DeleteClosureOK ==
  ASSUME Inv, NEW r \in Request, DeleteClosure(r)
  PROVE  Inv'
<1>1. /\ Doing(r, "closure") /\ Then(r, "row") /\ UNCHANGED <<entity, detailed, lastId>>
      /\ closure' = WithoutSubtree(closure, Victim(r)) /\ TablesOK
  BY DEF DeleteClosure, Inv
<1>2. closure' \subseteq closure
  BY <1>1 DEF WithoutSubtree
<1>3. TablesOK'
  BY <1>1, <1>2 DEF TablesOK, Pairs
<1>4. \A s \in Request : req[s].at = "commit" => req[s].new \notin DOMAIN entity'
  BY <1>1 DEF Inv, RequestsOK, RequestOK, CommitOK
<1> QED
  BY <1>1, <1>3, <1>4, ThenIs, WriteKeeps

\* The row that goes is one that nothing refers to.
LEMMA RowGone ==
  ASSUME TablesOK, NEW id,
         id \in DOMAIN entity => ~Referenced(id),
         entity' = Restrict(entity, DOMAIN entity \ {id}),
         UNCHANGED <<closure, detailed, lastId>>
  PROVE  /\ TablesOK' /\ DOMAIN entity' = DOMAIN entity \ {id}
         /\ \A e \in DOMAIN entity' : entity'[e] = entity[e]
         /\ \A e \in DOMAIN entity : entity[e].parent # id \/ id \notin DOMAIN entity
         /\ \A p \in closure : id \notin {p[1], p[2]}
         /\ id \notin detailed
<1>1. /\ DOMAIN entity' = DOMAIN entity \ {id}
      /\ \A e \in DOMAIN entity' : entity'[e] = entity[e]
  BY DEF Restrict
<1>2. CASE id \notin DOMAIN entity
  <2>1. DOMAIN entity' = DOMAIN entity
    BY <1>1, <1>2
  <2>2. \A p \in closure : id \notin {p[1], p[2]}
    BY <1>2, Columns DEF TablesOK
  <2> QED
    BY <1>1, <1>2, <2>1, <2>2 DEF TablesOK
<1>3. CASE ~Referenced(id)
  <2>1. /\ \A e \in DOMAIN entity : entity[e].parent # id
        /\ \A p \in closure : id \notin {p[1], p[2]}
        /\ id \notin detailed
    BY <1>3 DEF Referenced, Children
  <2>2. Pairs(closure, DOMAIN entity')
    <3> SUFFICES ASSUME NEW p \in closure
                 PROVE  p \in (DOMAIN entity') \X (DOMAIN entity')
      BY DEF Pairs
    <3>1. p = <<p[1], p[2]>> /\ p[1] \in DOMAIN entity /\ p[2] \in DOMAIN entity
      BY Columns DEF TablesOK
    <3> QED
      BY <1>1, <2>1, <3>1
  <2>3. \A e \in DOMAIN entity' : entity'[e].parent \in DOMAIN entity' \cup {NoParent}
    BY <1>1, <2>1 DEF TablesOK
  <2> QED
    BY <1>1, <2>1, <2>2, <2>3 DEF TablesOK
<1> QED
  BY <1>2, <1>3

LEMMA DeleteRowOK ==
  ASSUME Inv, NEW r \in Request, DeleteRow(r)
  PROVE  Inv'
<1>1. /\ Doing(r, "row") /\ ~Held(Victim(r)) /\ UNCHANGED <<closure, detailed, lastId>>
      /\ TablesOK /\ RequestsOK
  BY DEF DeleteRow, Inv
<1>2. CASE Fail(r) /\ UNCHANGED entity
  BY <1>1, <1>2, EndedOK, QuietKeeps DEF tables
<1>3. CASE /\ Victim(r) \in DOMAIN entity => ~Referenced(Victim(r))
           /\ entity' = Restrict(entity, DOMAIN entity \ {Victim(r)})
           /\ \/ Answer(r)
              \/ /\ Len(req[r].work) # 1
                 /\ req' = [req EXCEPT ![r].work = Tail(@)]
  <2>1. TablesOK' /\ DOMAIN entity' = DOMAIN entity \ {Victim(r)}
    BY <1>1, <1>3, RowGone
  <2>2. lastId' \in Nat /\ lastId' >= lastId /\ lastId' = lastId
    BY <1>1, LastIdIs
  <2>3. ASSUME Only(r), NEW s \in Request, s # r, req[s].at = "commit"
        PROVE  CommitOK(req[s])'
    <3>1. Victim(r) # req[s].row.parent /\ \A p \in req[s].link : p[1] # Victim(r)
      BY <1>1, <2>3 DEF Held
    <3>2. req[s].new \notin DOMAIN entity'
      BY <2>1, <2>3 DEF Inv, RequestsOK, RequestOK, CommitOK
    <3>3. \A e \in DOMAIN entity \ DOMAIN entity' : e = Victim(r)
      BY <2>1
    <3>4. \A e \in DOMAIN entity \ DOMAIN entity' :
            e # req[s].row.parent /\ \A p \in req[s].link : p[1] # e
      BY <3>1, <3>3
    <3> QED
      BY <2>2, <2>3, <3>2, <3>4, OthersKeep
  <2>4. CASE Answer(r)
    BY <1>1, <2>1, <2>2, <2>3, <2>4, EndedOK, StepKeeps
  <2>5. CASE Len(req[r].work) # 1 /\ req' = [req EXCEPT ![r].work = Tail(@)]
    <3> DEFINE work == Tail(req[r].work)
    <3>1. /\ req[r].op = "delete" /\ req[r].at = "delete" /\ DeleteOK(req[r])
          /\ Len(req[r].work) \in Nat \ {0}
      BY <1>1, VictimIs
    <3>2. work \in Seq(AFrame) /\ work # <<>> /\ work[Len(work)].id = req[r].id
      <4> HIDE DEF AFrame
      <4>1. req[r].work \in Seq(AFrame) /\ req[r].work # <<>>
        BY <3>1 DEF DeleteOK
      <4>2. /\ work \in Seq(AFrame) /\ work # <<>>
            /\ work[Len(work)] = req[r].work[Len(req[r].work)]
        BY <2>5, <4>1, LastOfTail
      <4> QED
        BY <3>1, <4>2 DEF DeleteOK
    <3>3. req' = [req EXCEPT ![r].work = work]
      BY <2>5
    <3> HIDE DEF work
    <3>4. Only(r) /\ RequestOK(req[r])' /\ req'[r].op = "delete" /\ req'[r].at = "delete"
      BY <3>1, <3>2, <3>3, FramesGo
    <3> QED
      BY <2>1, <2>2, <2>3, <3>4, StepKeeps
  <2> QED
    BY <1>3, <2>4, <2>5
<1> QED
  BY <1>2, <1>3 DEF DeleteRow

-----------------------------------------------------------------------------
(* The invariant.                                                          *)

LEMMA LooseOK ==
  ASSUME Inv, CutRuns \/ LinkRuns
  PROVE  Inv'
<1>1. UNCHANGED <<entity, detailed, lastId, req>> /\ TablesOK
  BY DEF CutRuns, LinkRuns, Inv
<1>2. Pairs(closure', DOMAIN entity)
  BY CutOffPairs, LinkedPairs DEF CutRuns, LinkRuns, Inv, TablesOK
<1>3. TablesOK'
  BY <1>1, <1>2 DEF TablesOK
<1>4. RequestsOK' /\ Apart'
  BY <1>1 DEF Inv, RequestsOK, RequestOK, StageOK, CommitOK, DeleteOK, Apart
<1> QED
  BY <1>3, <1>4 DEF Inv

\* Every slot is free.
LEMMA FreeOK ==
  ASSUME TablesOK', NEW result \in {"done", "failed"},
         req' = [r \in Request |-> Ended(result)]
  PROVE  Inv'
<1>1. /\ DOMAIN Ended(result) = Fields /\ IsRow(Ended(result).row)
      /\ Ended(result).op = "none" /\ Ended(result).at = result
  BY DEF Ended, DataCenter, NewRow, IsRow, Fields
<1>2. \A r \in Request : req'[r] = Ended(result)
  OBVIOUS
<1>3. \A r \in Request : RequestOK(req[r])'
  BY <1>1, <1>2 DEF RequestOK, StageOK, Fields
<1>4. RequestsOK' /\ Apart'
  BY <1>1, <1>2, <1>3 DEF RequestsOK, Apart
<1> QED
  BY <1>4 DEF Inv

LEMMA EndOK ==
  ASSUME Inv, End
  PROVE  Inv'
<1>1. TablesOK'
  BY DEF Inv, TablesOK, End, tables
<1> QED
  BY <1>1, FreeOK DEF End

LEMMA InitOK == Init => Inv
<1> SUFFICES ASSUME Init PROVE Inv
  OBVIOUS
<1> DEFINE other == NewRow(CHOOSE n \in Name : TRUE, "SYSTEM", 1)
<1>1. IsRow(DataCenter) /\ DataCenter.parent = 0 /\ IsRow(other) /\ other.parent = 1
  BY DEF DataCenter, NewRow, IsRow, NoParent
<1>2. /\ entity = <<DataCenter, other>> /\ closure = {<<1, 1>>, <<1, 2>>, <<2, 2>>}
      /\ detailed = {2} /\ lastId = 2 /\ req = [r \in Request |-> Ended("done")]
  BY DEF Init
<1> HIDE DEF other
<1>3. DOMAIN entity = {1, 2} /\ entity[1] = DataCenter /\ entity[2] = other
  BY <1>2
<1>4. TablesOK
  <2>1. lastId \in Id /\ DOMAIN entity \subseteq 1..lastId
    BY <1>2, <1>3, StorageEntityAssumption DEF Id
  <2> QED
    BY <1>1, <1>2, <1>3, <2>1 DEF TablesOK, Pairs, NoParent
<1>5. /\ DOMAIN Ended("done") = Fields /\ IsRow(Ended("done").row)
      /\ Ended("done").op = "none" /\ Ended("done").at = "done"
  BY DEF Ended, DataCenter, NewRow, IsRow, Fields
<1>6. \A r \in Request : req[r] = Ended("done") /\ RequestOK(req[r])
  BY <1>2, <1>5 DEF RequestOK, StageOK, Fields
<1>7. RequestsOK /\ Apart
  BY <1>2, <1>5, <1>6 DEF RequestsOK, Apart
<1> QED
  BY <1>4, <1>7 DEF Inv

LEMMA StepOK == Inv /\ [Next]_vars => Inv'
<1> SUFFICES ASSUME Inv, [Next]_vars PROVE Inv'
  OBVIOUS
<1>1. CASE \E r \in Request : Ask(r)
  BY <1>1, AskOK
<1>2. ASSUME NEW r \in Request, Continue(r)
      PROVE  Inv'
  BY <1>2, CheckOK, InsertOK, CommitCreatedOK, FindPartOK, CommitFetchedOK, ReadTreeOK,
     UpdateStatusOK, FindDetailOK, SaveDetailOK, SaveRowOK, DeleteFindOK, DeleteDataOK,
     DeleteClosureOK, DeleteRowOK, FindTargetOK, SaveMovedOK, FindParentOK,
     CommitCopyOK, CommitChildOK, FindChildrenOK DEF Continue
<1>3. CASE LooseRuns \/ Crash
  BY <1>3, LooseOK, EndOK DEF LooseRuns, Rejection, Crash
<1>4. CASE UNCHANGED vars
  BY <1>4 DEF vars, Inv, TablesOK, RequestsOK, RequestOK, StageOK, CommitOK, DeleteOK,
     Apart
<1> QED
  BY <1>1, <1>2, <1>3, <1>4 DEF Next

\* The foreign keys hold, and transactions and requests that save what they have
\* read keep out of each other's way, however many requests overlap and whatever
\* they ask for.
THEOREM Invariance == Spec => []Inv
  BY InitOK, StepOK, PTL DEF Spec

-----------------------------------------------------------------------------
(* What a deletion leaves.                                                 *)

\* A step of one request changes no other.
LEMMA OthersStay ==
  ASSUME RequestsOK, NEW r \in Request, Ask(r) \/ Continue(r),
         NEW s \in Request, s # r
  PROVE  req'[s] = req[s]
<1>1. req = [x \in Request |-> req[x]]
  BY DEF RequestsOK
<1>2. CASE \E op, at, id, row, work : Start(r, op, at, id, row, work)
  BY <1>1, <1>2 DEF Start
<1>3. CASE (\E at : Goes(r, at)) \/ (\E step : Then(r, step))
  BY <1>1, <1>3 DEF Goes, Then
<1>4. CASE Answer(r) \/ Fail(r)
  BY <1>1, <1>4 DEF Answer, Fail
<1>5. CASE \E e : Down(r, e)
  BY <1>1, <1>4, <1>5 DEF Down
<1>6. CASE Ask(r)
  <2>1. CASE AskDuplicate(r)
    BY <1>1, <2>1 DEF AskDuplicate
  <2>2. CASE AskCreate(r)
    BY <1>2, <2>2, Zenon DEF AskCreate
  <2>3. CASE AskKey(r)
    BY <1>2, <1>4, <2>3 DEF AskKey
  <2>4. CASE AskMove(r)
    BY <1>2, <1>4, <2>4 DEF AskMove
  <2> QED
    BY <1>2, <1>4, <1>6, <2>1, <2>2, <2>3, <2>4
    DEF Ask, AskStatus, AskUpdate, AskDelete, AskUnknown
<1>7. CASE \/ Check(r) \/ CommitCreated(r) \/ CommitFetched(r) \/ FindDetail(r)
           \/ SaveDetail(r) \/ SaveRow(r) \/ DeleteData(r) \/ DeleteClosure(r)
           \/ FindTarget(r) \/ SaveMoved(r) \/ CommitChild(r)
  BY <1>3, <1>4, <1>5, <1>7
  DEF Check, CommitCreated, CommitFetched, FindDetail, SaveDetail, SaveRow, DeleteData,
      DeleteClosure, FindTarget, SaveMoved, CommitChild
<1>8. CASE Insert(r) \/ FindPart(r)
  BY <1>1, <1>4, <1>5, <1>8 DEF Insert, FindPart
<1>9. CASE ReadTree(r) \/ UpdateStatus(r)
  BY <1>1, <1>4, <1>9 DEF ReadTree, UpdateStatus
<1>10. CASE DeleteFind(r) \/ DeleteRow(r)
  BY <1>1, <1>4, <1>10 DEF DeleteFind, DeleteRow
<1>11. CASE FindParent(r) \/ CommitCopy(r) \/ FindChildren(r)
  BY <1>1, <1>4, <1>11 DEF FindParent, CommitCopy, FindChildren
<1> QED
  BY <1>6, <1>7, <1>8, <1>9, <1>10, <1>11 DEF Continue

\* A deletion that succeeds leaves neither the entity nor anything that refers to
\* it (StorageEntityService.delete), with any number of requests beside it.
THEOREM NothingLeft == Spec => DeleteLeavesNothing
<1> DEFINE Gone(r) ==
      LET id == req[r].id
      IN /\ id \notin DOMAIN entity' \cup detailed'
         /\ \A e \in DOMAIN entity' : entity'[e].parent # id
         /\ \A p \in closure' : id \notin {p[1], p[2]}
           Leaves == \A r \in Request :
                       (req[r].op = "delete" /\ req'[r].at = "done") => Gone(r)
<1>1. ASSUME Inv, [Next]_vars
      PROVE  [Leaves]_vars
  <2> SUFFICES ASSUME Next, NEW r \in Request, req[r].op = "delete", req'[r].at = "done"
               PROVE  Gone(r)
    BY <1>1
  <2>1. /\ req[r].at = "delete" /\ DOMAIN req[r] = Fields
        /\ RequestsOK /\ TablesOK /\ req = [s \in Request |-> req[s]]
    BY <1>1 DEF Inv, RequestsOK, RequestOK, StageOK, Fields
  <2>2. req'[r] # req[r]
    BY <2>1
  <2>3. PICK s \in Request : Ask(s) \/ Continue(s)
    <3>1. CASE CutRuns \/ LinkRuns
      BY <2>2, <3>1 DEF CutRuns, LinkRuns
    <3>2. CASE End
      <4>1. req'[r] = Ended("failed")
        BY <3>2 DEF End
      <4> QED
        BY <4>1 DEF Ended
    <3> QED
      BY <3>1, <3>2 DEF Next, LooseRuns, Rejection, Crash
  <2>4. s = r
    BY <2>1, <2>2, <2>3, OthersStay
  <2>5. ~Ask(r)
    BY DEF Ask, AskCreate, AskKey, AskStatus, AskUpdate, AskDelete, AskMove,
           AskDuplicate, AskUnknown, May, Idle
  <2>6. ~Fail(r)
    BY <2>1 DEF Fail, Ended
  <2>7. ~ \E step : Then(r, step)
    BY <2>1 DEF Then, Fields
  <2>8. DeleteFind(r) \/ DeleteRow(r)
    <3>1. req[r].at = "delete" /\ req[r].op = "delete"
      BY <2>1
    <3> QED
      BY <2>3, <2>4, <2>5, <2>7, <3>1
      DEF Continue, Check, Insert, CommitCreated, FindPart, CommitFetched, ReadTree,
          UpdateStatus, FindDetail, SaveDetail, SaveRow, DeleteData, DeleteClosure,
          FindTarget, SaveMoved, FindParent, CommitCopy, CommitChild, FindChildren
  <2>9. ~DeleteFind(r)
    <3>1. ASSUME NEW work, req' = [req EXCEPT ![r].work = work]
          PROVE  FALSE
      BY <2>1, <3>1 DEF Fields
    <3> QED
      BY <2>6, <3>1 DEF DeleteFind
  <2>10. /\ Doing(r, "row") /\ UNCHANGED <<closure, detailed, lastId>>
         /\ Victim(r) \in DOMAIN entity => ~Referenced(Victim(r))
         /\ entity' = Restrict(entity, DOMAIN entity \ {Victim(r)})
         /\ Len(req[r].work) = 1
    <3>1. ASSUME NEW work, req' = [req EXCEPT ![r].work = work]
          PROVE  FALSE
      BY <2>1, <3>1 DEF Fields
    <3> QED
      BY <2>6, <2>8, <2>9, <3>1 DEF DeleteRow
  <2>11. Victim(r) = req[r].id /\ Victim(r) \in Id
    BY <1>1, <2>10, VictimIs DEF Victim, DeleteOK
  <2>12. /\ DOMAIN entity' = DOMAIN entity \ {Victim(r)}
         /\ \A e \in DOMAIN entity' : entity'[e] = entity[e]
         /\ \A e \in DOMAIN entity : entity[e].parent # Victim(r) \/ Victim(r) \notin DOMAIN entity
         /\ \A p \in closure : Victim(r) \notin {p[1], p[2]}
         /\ Victim(r) \notin detailed
    BY <2>1, <2>10, RowGone
  <2>13. \A e \in DOMAIN entity' : entity'[e].parent # Victim(r)
    <3>1. Victim(r) # NoParent
      BY <2>11 DEF Id, NoParent
    <3> QED
      BY <2>1, <2>12, <3>1 DEF TablesOK
  <2> QED
    BY <2>10, <2>11, <2>12, <2>13
<1> QED
  BY <1>1, Invariance, PTL DEF DeleteLeavesNothing, Spec

-----------------------------------------------------------------------------
(* What a step changes.                                                    *)

\* Only the start of a transaction makes one, only the arrival of an update
\* changes what an update has read; a move has one step before its save, and a
\* deletion is one from its arrival on.
LEMMA OwnStep ==
  ASSUME Inv, NEW r \in Request, Ask(r) \/ Continue(r)
  PROVE  /\ req'[r].at = "commit" => Insert(r)
         /\ req'[r].op = "update"
            => \/ AskUpdate(r)
               \/ /\ req[r].op = "update" /\ req'[r].id = req[r].id
                  /\ req'[r].row = req[r].row
         /\ req'[r].op = "move" => AskMove(r) \/ FindTarget(r)
         /\ req'[r].op = "delete" => AskDelete(r) \/ req[r].op = "delete"
<1>1. /\ RequestsOK /\ req = [x \in Request |-> req[x]] /\ RequestOK(req[r])
      /\ DOMAIN req[r] = Fields /\ StageOK(req[r])
  BY DEF Inv, RequestsOK, RequestOK, Fields
<1>2. Answer(r) \/ Fail(r)
      => req'[r].at # "commit" /\ req'[r].op \notin {"update", "move", "delete"}
  BY <1>1, EndedOK
<1>3. ASSUME NEW op, NEW at, NEW id, NEW row, NEW work, Start(r, op, at, id, row, work)
      PROVE  req'[r].op = op /\ req'[r].at = at
  BY <1>1, <1>3, StartIs
<1>4. ASSUME NEW at, Goes(r, at)
      PROVE  /\ req'[r].at = at /\ req'[r].op = req[r].op /\ req'[r].id = req[r].id
             /\ req'[r].row = req[r].row
  BY <1>1, <1>4, GoesIs
<1>5. ASSUME NEW step, NEW old, Doing(r, old), Then(r, step)
      PROVE  /\ req'[r].at # "commit" /\ req'[r].op \notin {"update", "move"}
             /\ req[r].op = "delete"
  BY <1>1, <1>5, VictimIs DEF Then, Fields
<1>6. ASSUME NEW e, Down(r, e)
      PROVE  /\ req'[r].at # "commit"
             /\ \/ req'[r].op \notin {"update", "move", "delete"}
                \/ req[r].op = req'[r].op
  BY <1>1, <1>2, <1>6, DownIs
<1>7. CASE Ask(r)
  <2>1. CASE AskDuplicate(r)
    BY <1>1, <2>1 DEF AskDuplicate, Ended
  <2>2. CASE AskCreate(r)
    <3>1. \E row : \/ Start(r, "create", "insert", NoParent, row, <<>>)
                   \/ Start(r, "create", "check", NoParent, row, <<>>)
      BY <2>2, Zenon DEF AskCreate
    <3>2. req'[r].op = "create" /\ req'[r].at \in {"insert", "check"}
      BY <1>3, <3>1
    <3> QED
      BY <3>2
  <2>3. CASE AskKey(r)
    BY <1>2, <1>3, <2>3 DEF AskKey
  <2>4. CASE AskMove(r)
    BY <1>2, <1>3, <2>4 DEF AskMove
  <2>5. CASE AskStatus(r) \/ AskDelete(r)
    <3>1. \/ \E id, row, work : Start(r, "status", "tree", id, row, work)
          \/ /\ AskDelete(r)
             /\ \E id, row, work : Start(r, "delete", "delete", id, row, work)
      BY <2>5 DEF AskStatus, AskDelete
    <3>2. \/ req'[r].op = "status" /\ req'[r].at = "tree"
          \/ AskDelete(r) /\ req'[r].op = "delete" /\ req'[r].at = "delete"
      BY <1>3, <3>1
    <3> QED
      BY <3>2
  <2>6. CASE AskUpdate(r)
    BY <1>3, <2>6 DEF AskUpdate
  <2> QED
    BY <1>2, <1>7, <2>1, <2>2, <2>3, <2>4, <2>5, <2>6 DEF Ask, AskUnknown
<1>8. CASE Check(r) \/ FindDetail(r) \/ SaveDetail(r) \/ FindTarget(r) \/ CommitChild(r)
  <2>1. FindTarget(r) \/ req[r].op # "move"
    BY <1>1, <1>8 DEF Check, FindDetail, SaveDetail, CommitChild, StageOK
  <2> QED
    BY <1>2, <1>4, <1>8, <2>1 DEF Check, FindDetail, SaveDetail, FindTarget, CommitChild
<1>9. CASE SaveRow(r) \/ SaveMoved(r) \/ CommitCreated(r)
  BY <1>2, <1>9 DEF SaveRow, SaveMoved, CommitCreated
<1>10. CASE CommitFetched(r)
  BY <1>6, <1>10 DEF CommitFetched
<1>11. CASE DeleteData(r) \/ DeleteClosure(r)
  BY <1>5, <1>11 DEF DeleteData, DeleteClosure
<1>12. CASE Insert(r)
  <2>1. req[r].op \notin {"update", "move"}
    BY <1>1, <1>12 DEF Insert, StageOK
  <2>2. Fail(r) \/ req'[r].op = req[r].op
    BY <1>1, <1>12 DEF Insert, Fields
  <2> QED
    BY <1>2, <1>12, <2>1, <2>2
<1>13. CASE FindPart(r)
  <2>1. req[r].op \in {"fetch", "keyStatus"}
    BY <1>1, <1>13 DEF FindPart, StageOK
  <2>2. ASSUME NEW row, req' = [req EXCEPT ![r].at = "insert", ![r].row = row]
        PROVE  req'[r].at = "insert" /\ req'[r].op = req[r].op
    BY <1>1, <2>2 DEF Fields
  <2> QED
    BY <1>2, <1>6, <1>13, <2>1, <2>2 DEF FindPart
<1>14. CASE ReadTree(r) \/ UpdateStatus(r)
  <2>1. req[r].op \in {"status", "keyStatus"} /\ req[r].at # "commit"
    BY <1>1, <1>14 DEF ReadTree, UpdateStatus, StageOK
  <2>2. \/ Answer(r) \/ Fail(r)
        \/ \E todo : req' = [req EXCEPT ![r].at = "updates", ![r].todo = todo]
        \/ \E todo : req' = [req EXCEPT ![r].todo = todo]
    BY <1>14 DEF ReadTree, UpdateStatus
  <2>3. ASSUME NEW todo, req' = [req EXCEPT ![r].at = "updates", ![r].todo = todo]
        PROVE  req'[r].op = req[r].op /\ req'[r].at = "updates"
    BY <1>1, <2>3 DEF Fields
  <2>4. ASSUME NEW todo, req' = [req EXCEPT ![r].todo = todo]
        PROVE  req'[r].op = req[r].op /\ req'[r].at = req[r].at
    BY <1>1, <2>4 DEF Fields
  <2> QED
    BY <1>2, <2>1, <2>2, <2>3, <2>4
<1>15. CASE DeleteFind(r) \/ DeleteRow(r)
  <2>1. req[r].op = "delete" /\ req[r].at = "delete"
    BY <1>15, VictimIs DEF DeleteFind, DeleteRow
  <2>2. \/ Answer(r) \/ Fail(r)
        \/ \E work : req' = [req EXCEPT ![r].work = work]
    BY <1>15 DEF DeleteFind, DeleteRow
  <2>3. \/ Answer(r) \/ Fail(r)
        \/ req'[r].op = req[r].op /\ req'[r].at = req[r].at
    BY <1>1, <2>2 DEF Fields
  <2> QED
    BY <1>2, <2>1, <2>3
<1>16. CASE FindParent(r)
  <2>1. req[r].op = "duplicate"
    BY <1>1, <1>16 DEF FindParent, StageOK
  <2>2. \E at \in {"insert", "check"} : \E parent :
           req' = [req EXCEPT ![r].at = at, ![r].row.parent = parent]
    BY <1>16 DEF FindParent
  <2>3. req'[r].op = req[r].op /\ req'[r].at \in {"insert", "check"}
    BY <1>1, <2>2 DEF Fields
  <2> QED
    BY <2>1, <2>3
<1>17. CASE CommitCopy(r) \/ FindChildren(r)
  <2>1. req[r].op = "duplicate"
    BY <1>1, <1>17 DEF CommitCopy, FindChildren, StageOK
  <2>2. \/ Fail(r)
        \/ \E work : req' = [req EXCEPT ![r] = Copying(req[r], work)]
        \/ \E work : req' = [req EXCEPT ![r] =
                                Copying([req[r] EXCEPT !.id = req[r].new], work)]
    BY <1>1, <1>17 DEF CommitCopy, FindChildren
  <2>3. ASSUME NEW q, DOMAIN q = Fields, q.op = "duplicate", NEW work,
               req' = [req EXCEPT ![r] = Copying(q, work)]
        PROVE  req'[r].at # "commit" /\ req'[r].op \notin {"update", "move", "delete"}
    <3>1. req'[r] = Copying(q, work)
      BY <1>1, <2>3
    <3>2. Ended("done").at = "done" /\ Ended("done").op = "none"
      BY DEF Ended
    <3> QED
      BY <2>3, <3>1, <3>2, CopyingIs
  <2>4. /\ DOMAIN [req[r] EXCEPT !.id = req[r].new] = Fields
        /\ [req[r] EXCEPT !.id = req[r].new].op = "duplicate"
    BY <1>1, <2>1 DEF Fields
  <2>5. \/ Fail(r)
        \/ \E q, work : /\ DOMAIN q = Fields /\ q.op = "duplicate"
                        /\ req' = [req EXCEPT ![r] = Copying(q, work)]
    BY <1>1, <2>1, <2>2, <2>4
  <2> QED
    BY <1>2, <2>3, <2>5
<1> QED
  BY <1>7, <1>8, <1>9, <1>10, <1>11, <1>12, <1>13, <1>14, <1>15, <1>16, <1>17 DEF Continue

-----------------------------------------------------------------------------
(* No pair of the closure table is false.                                  *)

\* A tree that keeps the parents it has and loses at most leaves.
LEMMA StillSound ==
  ASSUME Inv, Inv', SoundInv,
         \A e \in DOMAIN entity \cap DOMAIN entity' :
            entity'[e].parent = entity[e].parent,
         \A e \in DOMAIN entity :
            entity[e].parent \in DOMAIN entity => entity[e].parent \in DOMAIN entity',
         \A p \in closure' : p \in closure \/ p[2] \in Below(entity', p[1]),
         \A r \in Request : req'[r].at = "commit" =>
            \/ req'[r] = req[r]
            \/ /\ entity' = entity
               /\ req'[r].link = LinkNew(closure, req'[r].new, req'[r].row.parent),
         \A r \in Request : req'[r].op = "update" =>
            \/ /\ req[r].op = "update" /\ req'[r].id = req[r].id
               /\ req'[r].row = req[r].row
            \/ /\ entity' = entity /\ req'[r].id \in DOMAIN entity
               /\ entity[req'[r].id].parent = req'[r].row.parent,
         \A r \in Request :
            /\ req[r].op = "update"
            /\ req[r].id \in DOMAIN entity' /\ req[r].id \notin DOMAIN entity
            => entity'[req[r].id].parent = req[r].row.parent,
         NothingMoves'
  PROVE  SoundInv'
<1>1. /\ Pairs(closure, DOMAIN entity) /\ Pairs(closure', DOMAIN entity')
  BY DEF Inv, TablesOK
<1>2. ASSUME NEW a \in DOMAIN entity, a \in DOMAIN entity',
             NEW e \in Below(entity, a), e \in DOMAIN entity'
      PROVE  e \in Below(entity', a)
  BY <1>2, BelowKept
<1>3. ASSUME NEW p \in closure'
      PROVE  p[2] \in Below(entity', p[1])
  <2>1. CASE p \in closure
    <3>1. p[1] \in DOMAIN entity /\ p[1] \in DOMAIN entity' /\ p[2] \in DOMAIN entity'
      BY <1>1, <2>1, Columns
    <3>2. p[2] \in Below(entity, p[1])
      BY <2>1 DEF SoundInv, ClosureSound
    <3> QED
      BY <1>2, <3>1, <3>2
  <2> QED
    BY <2>1
<1>4. ASSUME NEW r \in Request, req'[r].at = "commit", NEW p \in req'[r].link,
             p[1] # req'[r].new
      PROVE  req'[r].row.parent \in Below(entity', p[1])
  <2>1. CommitOK(req[r])'
    BY <1>4 DEF Inv, RequestsOK, RequestOK
  <2>2. p[1] \in DOMAIN entity' /\ req'[r].row.parent \in DOMAIN entity' \cup {NoParent}
    BY <1>4, <2>1 DEF CommitOK
  <2>3. CASE req'[r] = req[r]
    <3>1. CommitOK(req[r])
      BY <1>4, <2>3 DEF Inv, RequestsOK, RequestOK
    <3>2. p[1] \in DOMAIN entity /\ req[r].row.parent \in Below(entity, p[1])
      BY <1>4, <2>3, <3>1 DEF CommitOK, SoundInv, LinksSound
    <3>3. req[r].row.parent \in DOMAIN entity
      BY <3>2, BelowByParent
    <3>4. 0 \notin DOMAIN entity
      BY LastIdIs DEF Inv
    <3>5. req[r].row.parent \in DOMAIN entity'
      BY <2>2, <2>3, <3>3, <3>4 DEF NoParent
    <3> QED
      BY <1>2, <2>2, <2>3, <3>2, <3>5
  <2>4. CASE /\ entity' = entity
             /\ req'[r].link = LinkNew(closure, req'[r].new, req'[r].row.parent)
    <3>1. p[1] \in Ancestors(closure, req'[r].row.parent)
      BY <1>4, <2>4 DEF LinkNew
    <3> DEFINE q == <<p[1], req'[r].row.parent>>
    <3>2. q \in closure /\ q[1] = p[1] /\ q[2] = req'[r].row.parent
      BY <1>1, <3>1, Columns
    <3> HIDE DEF q
    <3>3. q[2] \in Below(entity, q[1])
      BY <3>2 DEF SoundInv, ClosureSound
    <3> QED
      BY <2>4, <3>2, <3>3
  <2> QED
    BY <1>4, <2>3, <2>4
<1>5. ASSUME NEW r \in Request, req'[r].op = "update", req'[r].id \in DOMAIN entity'
      PROVE  entity'[req'[r].id].parent = req'[r].row.parent
  <2>1. CASE /\ req[r].op = "update" /\ req'[r].id = req[r].id
             /\ req'[r].row = req[r].row
    BY <1>5, <2>1 DEF SoundInv, ParentsStay
  <2> QED
    BY <1>5, <2>1
<1>6. ASSUME NEW r \in Request, NEW s \in Request, req'[r].op = "update",
             req'[s].op = "update", req'[r].id = req'[s].id
      PROVE  req'[r].row.parent = req'[s].row.parent
  <2>1. CASE req'[r].id \in DOMAIN entity'
    BY <1>5, <1>6, <2>1
  <2>2. CASE req'[r].id \notin DOMAIN entity'
    <3>1. /\ req[r].op = "update" /\ req'[r].id = req[r].id /\ req'[r].row = req[r].row
          /\ req[s].op = "update" /\ req'[s].id = req[s].id /\ req'[s].row = req[s].row
      BY <1>6, <2>2
    <3> QED
      BY <1>6, <3>1 DEF SoundInv, ParentsStay
  <2> QED
    BY <2>1, <2>2
<1> QED
  BY <1>3, <1>4, <1>5, <1>6 DEF SoundInv, ClosureSound, LinksSound, ParentsStay

\* What the requests are after a step, as StillSound asks for it.
LEMMA RequestsStill ==
  ASSUME Inv, NEW r \in Request, Ask(r) \/ Continue(r)
  PROVE  /\ \A s \in Request : req'[s].at = "commit" =>
               \/ req'[s] = req[s]
               \/ /\ entity' = entity
                  /\ req'[s].link = LinkNew(closure, req'[s].new, req'[s].row.parent)
         /\ \A s \in Request : req'[s].op = "update" =>
               \/ /\ req[s].op = "update" /\ req'[s].id = req[s].id
                  /\ req'[s].row = req[s].row
               \/ /\ entity' = entity /\ req'[s].id \in DOMAIN entity
                  /\ entity[req'[s].id].parent = req'[s].row.parent
<1>1. /\ RequestsOK /\ TablesOK /\ req = [x \in Request |-> req[x]]
      /\ DOMAIN req[r] = Fields
  BY DEF Inv, RequestsOK, RequestOK, Fields
<1>2. \A s \in Request : s # r => req'[s] = req[s]
  BY <1>1, OthersStay
<1>3. ASSUME req'[r].at = "commit"
      PROVE  /\ entity' = entity
             /\ req'[r].link = LinkNew(closure, req'[r].new, req'[r].row.parent)
  <2>1. Insert(r)
    BY <1>3, OwnStep
  <2>2. ~Fail(r)
    BY <1>1, <1>3, EndedOK
  <2>3. /\ entity' = entity
        /\ req' = [req EXCEPT
                ![r].at = "commit",
                ![r].new = lastId + 1,
                ![r].link = LinkNew(closure, lastId + 1, req[r].row.parent)]
    BY <2>1, <2>2 DEF Insert
  <2> QED
    BY <1>1, <2>3 DEF Fields
<1>4. ASSUME req'[r].op = "update"
      PROVE  \/ /\ req[r].op = "update" /\ req'[r].id = req[r].id
                /\ req'[r].row = req[r].row
             \/ /\ entity' = entity /\ req'[r].id \in DOMAIN entity
                /\ entity[req'[r].id].parent = req'[r].row.parent
  <2>1. CASE AskUpdate(r)
    <3>1. PICK id \in DOMAIN entity, name \in Name :
            Start(r, "update", "detail", id, [entity[id] EXCEPT !.name = name], <<>>)
      BY <2>1 DEF AskUpdate
    <3>2. entity' = entity /\ req'[r].id = id /\ req'[r].row = [entity[id] EXCEPT !.name = name]
      BY <1>1, <2>1, <3>1, StartIs DEF AskUpdate, tables
    <3>3. req'[r].row.parent = entity[id].parent
      BY <1>1, <3>1, <3>2 DEF TablesOK, IsRow
    <3> QED
      BY <3>2, <3>3
  <2> QED
    BY <1>4, <2>1, OwnStep
<1>5. ASSUME NEW s \in Request, req'[s].at = "commit"
      PROVE  \/ req'[s] = req[s]
             \/ /\ entity' = entity
                /\ req'[s].link = LinkNew(closure, req'[s].new, req'[s].row.parent)
  BY <1>2, <1>3, <1>5
<1>6. ASSUME NEW s \in Request, req'[s].op = "update"
      PROVE  \/ /\ req[s].op = "update" /\ req'[s].id = req[s].id
                /\ req'[s].row = req[s].row
             \/ /\ entity' = entity /\ req'[s].id \in DOMAIN entity
                /\ entity[req'[s].id].parent = req'[s].row.parent
  BY <1>2, <1>4, <1>6
<1> QED
  BY <1>5, <1>6

\* The rows stay, and the closure table only loses pairs.
LEMMA QuietSound ==
  ASSUME Inv, Inv', SoundInv, NEW r \in Request, Ask(r) \/ Continue(r),
         DOMAIN entity' = DOMAIN entity,
         \A e \in DOMAIN entity : entity'[e].parent = entity[e].parent,
         closure' \subseteq closure, NothingMoves'
  PROVE  SoundInv'
<1>1. /\ \A e \in DOMAIN entity \cap DOMAIN entity' :
            entity'[e].parent = entity[e].parent
      /\ \A e \in DOMAIN entity :
            entity[e].parent \in DOMAIN entity => entity[e].parent \in DOMAIN entity'
      /\ \A p \in closure' : p \in closure \/ p[2] \in Below(entity', p[1])
      /\ \A s \in Request :
            /\ req[s].op = "update"
            /\ req[s].id \in DOMAIN entity' /\ req[s].id \notin DOMAIN entity
            => entity'[req[s].id].parent = req[s].row.parent
  OBVIOUS
<1> QED
  BY <1>1, RequestsStill, StillSound

\* A row comes below its parent, or stays there.
LEMMA AddedSound ==
  ASSUME Inv, Inv', SoundInv, NEW r \in Request, Continue(r),
         NEW id, NEW row, entity' = WithRow(entity, id, row),
         id \in DOMAIN entity => entity[id].parent = row.parent,
         \A p \in closure' : p \in closure \/ p[2] \in Below(entity', p[1]),
         \A s \in Request : req[s].op = "update" /\ req[s].id = id
                            => req[s].row.parent = row.parent,
         NothingMoves'
  PROVE  SoundInv'
<1>1. /\ DOMAIN entity' = DOMAIN entity \cup {id}
      /\ \A e \in DOMAIN entity' : entity'[e] = IF e = id THEN row ELSE entity[e]
  BY DEF WithRow
<1>2. /\ \A e \in DOMAIN entity \cap DOMAIN entity' :
            entity'[e].parent = entity[e].parent
      /\ \A e \in DOMAIN entity :
            entity[e].parent \in DOMAIN entity => entity[e].parent \in DOMAIN entity'
      /\ \A s \in Request :
            /\ req[s].op = "update"
            /\ req[s].id \in DOMAIN entity' /\ req[s].id \notin DOMAIN entity
            => entity'[req[s].id].parent = req[s].row.parent
  BY <1>1
<1> QED
  BY <1>2, RequestsStill, StillSound

LEMMA CommitsSound ==
  ASSUME Inv, Inv', SoundInv, NEW r \in Request, Continue(r), Commits(r), NothingMoves'
  PROVE  SoundInv'
<1> DEFINE id == req[r].new
           row == req[r].row
<1>1. /\ req[r].at = "commit" /\ entity' = WithRow(entity, id, row)
      /\ closure' = closure \cup req[r].link
  BY DEF Commits
<1>2. CommitOK(req[r])
  BY <1>1 DEF Inv, RequestsOK, RequestOK
<1>3. /\ DOMAIN entity' = DOMAIN entity \cup {id} /\ entity'[id] = row
      /\ \A e \in DOMAIN entity : entity'[e] = entity[e]
  BY <1>1, <1>2 DEF WithRow, CommitOK
<1>4. ASSUME NEW p \in req[r].link
      PROVE  p[2] \in Below(entity', p[1])
  <2>1. p[2] = id /\ p[1] \in DOMAIN entity \cup {id}
    BY <1>2 DEF CommitOK
  <2>2. CASE p[1] = id
    BY <1>3, <2>1, <2>2, BelowByParent
  <2>3. CASE p[1] # id
    <3>1. p[1] \in DOMAIN entity /\ row.parent \in Below(entity, p[1])
      BY <1>1, <2>1, <2>3 DEF SoundInv, LinksSound
    <3>2. row.parent \in Below(entity', p[1])
      <4>1. row.parent \in DOMAIN entity'
        BY <1>3, <3>1, BelowByParent
      <4>2. \A e \in DOMAIN entity \cap DOMAIN entity' :
               entity'[e].parent = entity[e].parent
        BY <1>3
      <4>3. \A e \in DOMAIN entity :
               entity[e].parent \in DOMAIN entity => entity[e].parent \in DOMAIN entity'
        BY <1>3
      <4>4. p[1] \in DOMAIN entity'
        BY <1>3, <3>1
      <4> QED
        BY <3>1, <4>1, <4>2, <4>3, <4>4, BelowKept
    <3>3. id \in DOMAIN entity' /\ p[1] \in DOMAIN entity' /\ entity'[id].parent = row.parent
      BY <1>3, <3>1
    <3> QED
      BY <2>1, <2>3, <3>2, <3>3, BelowByParent
  <2> QED
    BY <2>2, <2>3
<1>5. \A s \in Request : req[s].op = "update" => req[s].id # id
  BY <1>1 DEF Inv, Apart
<1> QED
  BY <1>1, <1>2, <1>4, <1>5, AddedSound DEF CommitOK

LEMMA SaveRowSound ==
  ASSUME Inv, Inv', SoundInv, NEW r \in Request, SaveRow(r)
  PROVE  SoundInv'
<1>1. /\ req[r].at = "save" /\ NothingMoves'
  BY DEF SaveRow, process, SoundInv, NothingMoves
<1>2. req[r].op = "update"
  BY <1>1 DEF Inv, RequestsOK, RequestOK, StageOK
<1>3. CASE UNCHANGED <<entity, closure>>
  BY <1>1, <1>3, QuietSound DEF Continue
<1>4. CASE /\ entity' = WithRow(entity, req[r].id, req[r].row)
           /\ closure' = IF req[r].id \in DOMAIN entity
                         THEN closure
                         ELSE closure \cup {<<req[r].id, req[r].id>>}
  <2>1. req[r].id \in DOMAIN entity'
    BY <1>4 DEF WithRow
  <2>2. req[r].id \in Below(entity', req[r].id)
    BY <2>1, BelowByParent
  <2>3. \A p \in closure' : p \in closure \/ p[2] \in Below(entity', p[1])
    <3>1. \A p \in closure' : p \in closure \/ p = <<req[r].id, req[r].id>>
      BY <1>4
    <3> QED
      BY <2>2, <3>1
  <2>4. /\ req[r].id \in DOMAIN entity => entity[req[r].id].parent = req[r].row.parent
        /\ \A s \in Request : req[s].op = "update" /\ req[s].id = req[r].id
                              => req[s].row.parent = req[r].row.parent
    BY <1>2 DEF SoundInv, ParentsStay
  <2> QED
    BY <1>1, <1>4, <2>3, <2>4, AddedSound DEF Continue
<1> QED
  BY <1>3, <1>4 DEF SaveRow

LEMMA UpdateStatusSound ==
  ASSUME Inv, Inv', SoundInv, NEW r \in Request, UpdateStatus(r)
  PROVE  SoundInv'
<1>1. closure' = closure /\ NothingMoves'
  BY DEF UpdateStatus, process, SoundInv, NothingMoves
<1>2. PICK e \in req[r].todo :
        entity' = IF e[2] \in DOMAIN entity
                  THEN [entity EXCEPT ![e[2]].status = req[r].row.status]
                  ELSE entity
  BY DEF UpdateStatus
<1>3. /\ DOMAIN entity' = DOMAIN entity
      /\ \A x \in DOMAIN entity : entity'[x].parent = entity[x].parent
  BY <1>2 DEF Inv, TablesOK, IsRow
<1> QED
  BY <1>1, <1>3, QuietSound DEF Continue

LEMMA DeleteRowSound ==
  ASSUME Inv, Inv', SoundInv, NEW r \in Request, DeleteRow(r)
  PROVE  SoundInv'
<1>1. /\ UNCHANGED <<closure, detailed, lastId>> /\ NothingMoves' /\ TablesOK
  BY DEF DeleteRow, process, SoundInv, NothingMoves, Inv
<1>2. CASE UNCHANGED entity
  BY <1>1, <1>2, QuietSound DEF Continue
<1>3. CASE /\ Victim(r) \in DOMAIN entity => ~Referenced(Victim(r))
           /\ entity' = Restrict(entity, DOMAIN entity \ {Victim(r)})
  <2> DEFINE v == Victim(r)
  <2>1. /\ DOMAIN entity' = DOMAIN entity \ {v}
        /\ \A e \in DOMAIN entity' : entity'[e] = entity[e]
        /\ \A e \in DOMAIN entity : entity[e].parent # v \/ v \notin DOMAIN entity
    BY <1>1, <1>3, RowGone
  <2> HIDE DEF v
  <2>2. /\ \A e \in DOMAIN entity \cap DOMAIN entity' :
              entity'[e].parent = entity[e].parent
        /\ \A e \in DOMAIN entity :
              entity[e].parent \in DOMAIN entity => entity[e].parent \in DOMAIN entity'
        /\ \A p \in closure' : p \in closure \/ p[2] \in Below(entity', p[1])
        /\ \A s \in Request :
              /\ req[s].op = "update"
              /\ req[s].id \in DOMAIN entity' /\ req[s].id \notin DOMAIN entity
              => entity'[req[s].id].parent = req[s].row.parent
    BY <1>1, <2>1
  <2> QED
    BY <1>1, <2>2, RequestsStill, StillSound DEF Continue
<1> QED
  BY <1>2, <1>3 DEF DeleteRow

\* Every slot is free, and the tables stay.
LEMMA EndSound ==
  ASSUME Inv, SoundInv, End
  PROVE  SoundInv'
<1>1. /\ entity' = entity /\ closure' = closure /\ loose' = {}
      /\ req' = [r \in Request |-> Ended("failed")]
  BY DEF End, tables
<1>2. \A r \in Request : req'[r].at = "failed" /\ req'[r].op = "none"
  BY <1>1 DEF Ended
<1> QED
  BY <1>1, <1>2 DEF SoundInv, ClosureSound, LinksSound, ParentsStay, NothingMoves

LEMMA StepSound ==
  ASSUME "move" \notin Kind, Inv, Inv', SoundInv, [Next]_vars
  PROVE  SoundInv'
<1>1. ~LinkRuns /\ ~CutRuns
  BY DEF SoundInv, NothingMoves, LinkRuns, CutRuns
<1>2. ASSUME NEW r \in Request, Ask(r)
      PROVE  SoundInv'
  <2>1. UNCHANGED <<tables, process>>
    BY <1>2 DEF Ask, AskCreate, AskKey, AskStatus, AskUpdate, AskDelete, AskMove,
                AskDuplicate, AskUnknown
  <2>2. entity' = entity /\ closure' = closure /\ NothingMoves'
    BY <2>1 DEF tables, process, SoundInv, NothingMoves
  <2> QED
    BY <1>2, <2>2, QuietSound
<1>3. ASSUME NEW r \in Request, Continue(r)
      PROVE  SoundInv'
  <2>1. ~FindTarget(r) /\ ~SaveMoved(r)
    <3>1. req[r].at \notin {"target", "moveSave"}
      BY DEF Inv, RequestsOK, RequestOK, StageOK
    <3> QED
      BY <3>1 DEF FindTarget, SaveMoved
  <2>2. CASE \/ Check(r) \/ Insert(r) \/ FindPart(r) \/ ReadTree(r) \/ FindDetail(r)
             \/ SaveDetail(r) \/ DeleteFind(r) \/ DeleteData(r) \/ DeleteClosure(r)
             \/ FindParent(r) \/ FindChildren(r)
    <3>1. entity' = entity /\ closure' \subseteq closure /\ loose' = loose
      BY <2>2 DEF Check, Insert, FindPart, ReadTree, FindDetail, SaveDetail, DeleteFind,
                  DeleteData, DeleteClosure, FindParent, FindChildren, tables, process,
                  WithoutSubtree
    <3>2. NothingMoves'
      BY <3>1 DEF SoundInv, NothingMoves
    <3> QED
      BY <1>3, <3>1, <3>2, QuietSound
  <2>3. CASE CommitCreated(r) \/ CommitFetched(r) \/ CommitCopy(r) \/ CommitChild(r)
    <3>1. /\ Commits(r)
          /\ \/ loose' = loose
             \/ loose' = loose \cup {Loose(r, "upsert", req[r].new, NoParent)}
      BY <2>3 DEF CommitCreated, CommitFetched, CommitCopy, CommitChild
    <3>2. Loose(r, "upsert", req[r].new, NoParent).query = "upsert"
      BY DEF Loose
    <3>3. NothingMoves'
      BY <3>1, <3>2 DEF SoundInv, NothingMoves
    <3> QED
      BY <1>3, <3>1, <3>3, CommitsSound
  <2> QED
    BY <1>3, <2>1, <2>2, <2>3, UpdateStatusSound, SaveRowSound, DeleteRowSound
    DEF Continue
<1>4. CASE Rejection \/ Crash
  BY <1>4, EndSound DEF Rejection, Crash
<1>5. CASE UNCHANGED vars
  BY <1>5 DEF vars, SoundInv, ClosureSound, LinksSound, ParentsStay, NothingMoves
<1> QED
  BY <1>1, <1>2, <1>3, <1>4, <1>5 DEF Next, LooseRuns

LEMMA InitSound == Init => SoundInv
<1> SUFFICES ASSUME Init PROVE SoundInv
  OBVIOUS
<1> DEFINE other == NewRow(CHOOSE n \in Name : TRUE, "SYSTEM", 1)
<1>1. /\ entity = <<DataCenter, other>> /\ closure = {<<1, 1>>, <<1, 2>>, <<2, 2>>}
      /\ req = [r \in Request |-> Ended("done")] /\ loose = {} /\ other.parent = 1
  BY DEF Init, NewRow
<1> HIDE DEF other
<1>2. DOMAIN entity = {1, 2} /\ entity[2] = other
  BY <1>1
<1>3. 1 \in Below(entity, 1) /\ 2 \in Below(entity, 2) /\ 2 \in Below(entity, 1)
  BY <1>1, <1>2, BelowByParent
<1>4. \A r \in Request : req[r].at = "done" /\ req[r].op = "none"
  BY <1>1 DEF Ended
<1>5. ASSUME NEW p \in closure
      PROVE  p[2] \in Below(entity, p[1])
  BY <1>1, <1>3
<1> QED
  BY <1>1, <1>4, <1>5
  DEF SoundInv, ClosureSound, LinksSound, ParentsStay, NothingMoves

\* No pair of the closure table is false, with any number of requests among which
\* there are no moves: creations, updates and deletions that overlap lose pairs
\* and never make one up (storage-entity.entity.ts:8).
THEOREM NoFalsePair ==
  ASSUME "move" \notin Kind
  PROVE  Spec => []ClosureSound
<1>1. Init => Inv /\ SoundInv
  BY InitOK, InitSound
<1>2. (Inv /\ SoundInv) /\ [Next]_vars => (Inv /\ SoundInv)'
  BY StepOK, StepSound
<1>3. SoundInv => ClosureSound
  BY DEF SoundInv
<1> QED
  BY <1>1, <1>2, <1>3, PTL DEF Spec

-----------------------------------------------------------------------------
(* The closure table is exact, for requests one after the other.           *)

LEMMA StillExact ==
  ASSUME Inv, ExactInv, NEW r \in Request, Request = {r}, Ask(r) \/ Continue(r),
         ClosureOf(entity', closure'), Transitive(closure'),
         Insert(r) => closure' = closure,
         req'[r].op = "update" => DOMAIN entity \subseteq DOMAIN entity'
  PROVE  ExactInv'
<1>1. ASSUME req'[r].at = "commit"
      PROVE  req'[r].link = LinkNew(closure', req'[r].new, req'[r].row.parent)
  <2>1. Insert(r)
    BY <1>1, OwnStep
  <2>2. RequestsOK /\ DOMAIN req[r] = Fields /\ req = [x \in Request |-> req[x]]
    BY DEF Inv, RequestsOK, RequestOK, Fields
  <2>3. ~Fail(r)
    BY <1>1, <2>2, EndedOK
  <2>4. req' = [req EXCEPT
                ![r].at = "commit",
                ![r].new = lastId + 1,
                ![r].link = LinkNew(closure, lastId + 1, req[r].row.parent)]
    BY <2>1, <2>3 DEF Insert
  <2>5. req'[r].link = LinkNew(closure, req'[r].new, req'[r].row.parent)
    BY <2>2, <2>4 DEF Fields
  <2> QED
    BY <2>1, <2>5
<1>2. ASSUME req'[r].op = "update"
      PROVE  req'[r].id \in DOMAIN entity'
  <2>1. \/ req[r].op = "update" /\ req'[r].id = req[r].id
        \/ req'[r].id \in DOMAIN entity
    BY <1>2, RequestsStill
  <2> QED
    BY <1>2, <2>1 DEF ExactInv
<1> QED
  BY <1>1, <1>2 DEF ExactInv, ClosureExact

\* The parents stay as they are.
LEMMA QuietExact ==
  ASSUME Inv, ExactInv, NEW r \in Request, Request = {r}, Ask(r) \/ Continue(r),
         DOMAIN entity' = DOMAIN entity,
         \A e \in DOMAIN entity : entity'[e].parent = entity[e].parent,
         closure' = closure
  PROVE  ExactInv'
<1>1. Pairs(closure, DOMAIN entity) /\ ClosureOf(entity, closure) /\ Transitive(closure)
  BY DEF Inv, TablesOK, ExactInv, ClosureExact
<1>2. ClosureOf(entity', closure)
  BY <1>1, SameParentsClosed
<1> QED
  BY <1>1, <1>2, StillExact

LEMMA CommitsExact ==
  ASSUME Inv, ExactInv, NEW r \in Request, Request = {r}, Continue(r), Commits(r)
  PROVE  ExactInv'
<1> DEFINE id == req[r].new
           parent == req[r].row.parent
<1>1. /\ req[r].at = "commit" /\ entity' = WithRow(entity, id, req[r].row)
      /\ closure' = closure \cup LinkNew(closure, id, parent)
  BY DEF Commits, ExactInv
<1>2. CommitOK(req[r]) /\ TablesOK
  BY <1>1 DEF Inv, RequestsOK, RequestOK
<1>3. /\ Pairs(closure, DOMAIN entity) /\ ClosureOf(entity, closure) /\ Transitive(closure)
      /\ id \notin DOMAIN entity /\ id # NoParent /\ parent # id
  BY <1>2, LastIdIs DEF TablesOK, ExactInv, ClosureExact, CommitOK, NoParent
<1>4. /\ DOMAIN entity' = DOMAIN entity \cup {id} /\ entity'[id].parent = parent
      /\ \A e \in DOMAIN entity :
            entity'[e].parent = entity[e].parent /\ entity[e].parent # id
  BY <1>1, <1>2, <1>3 DEF WithRow, TablesOK
<1> HIDE DEF id, parent
<1>5. ClosureOf(entity', closure') /\ Transitive(closure')
  BY <1>1, <1>3, <1>4, LeafLinked
<1>6. ~Insert(r)
  BY <1>1 DEF Insert
<1> QED
  BY <1>4, <1>5, <1>6, StillExact

LEMMA DeleteExact ==
  ASSUME Inv, ExactInv, NEW r \in Request, Request = {r},
         DeleteClosure(r) \/ DeleteRow(r)
  PROVE  ExactInv'
<1>1. /\ Pairs(closure, DOMAIN entity) /\ ClosureOf(entity, closure)
      /\ Transitive(closure) /\ TablesOK
      /\ req[r].op = "delete" /\ req[r].at = "delete"
  BY VictimIs DEF Inv, TablesOK, ExactInv, ClosureExact, DeleteClosure, DeleteRow
<1>2. ~Insert(r) /\ req'[r].op # "update"
  <2>1. ~AskUpdate(r)
    BY <1>1 DEF AskUpdate, May, Idle
  <2> QED
    BY <1>1, <2>1, OwnStep DEF Insert, Continue
<1>3. CASE DeleteClosure(r)
  <2>1. entity' = entity /\ closure' = WithoutSubtree(closure, Victim(r))
    BY <1>3 DEF DeleteClosure
  <2>2. ClosureOf(entity', closure') /\ Transitive(closure')
    BY <1>1, <2>1, SubtreeForgotten
  <2> QED
    BY <1>2, <1>3, <2>2, StillExact DEF Continue
<1>4. CASE DeleteRow(r) /\ UNCHANGED entity
  <2>1. closure' = closure
    BY <1>4 DEF DeleteRow
  <2> QED
    BY <1>1, <1>2, <1>4, <2>1, StillExact DEF Continue
<1>5. CASE /\ DeleteRow(r)
           /\ Victim(r) \in DOMAIN entity => ~Referenced(Victim(r))
           /\ entity' = Restrict(entity, DOMAIN entity \ {Victim(r)})
  <2>1. UNCHANGED <<closure, detailed, lastId>>
    BY <1>5 DEF DeleteRow
  <2>2. /\ DOMAIN entity' = DOMAIN entity \ {Victim(r)}
        /\ \A e \in DOMAIN entity' : entity'[e] = entity[e]
    BY <1>1, <1>5, <2>1, RowGone
  <2>3. ClosureOf(entity', closure)
    BY <1>1, <2>2, SameParentsClosed
  <2> QED
    BY <1>1, <1>2, <1>5, <2>1, <2>3, StillExact DEF Continue
<1> QED
  BY <1>3, <1>4, <1>5 DEF DeleteRow, DeleteClosure

LEMMA SaveRowExact ==
  ASSUME Inv, SoundInv, ExactInv, NEW r \in Request, Request = {r}, SaveRow(r)
  PROVE  ExactInv'
<1>1. req[r].op = "update"
  BY DEF SaveRow, Inv, RequestsOK, RequestOK, StageOK
<1>2. /\ req[r].id \in DOMAIN entity
      /\ entity[req[r].id].parent = req[r].row.parent
  BY <1>1 DEF ExactInv, SoundInv, ParentsStay
<1>3. closure' = closure /\ (entity' = entity \/ entity' = WithRow(entity, req[r].id, req[r].row))
  BY <1>2 DEF SaveRow
<1>4. /\ DOMAIN entity' = DOMAIN entity
      /\ \A e \in DOMAIN entity : entity'[e].parent = entity[e].parent
  BY <1>2, <1>3 DEF WithRow
<1> QED
  BY <1>3, <1>4, QuietExact DEF Continue

LEMMA StepExact ==
  ASSUME "move" \notin Kind, NEW r \in Request, Request = {r},
         Inv, SoundInv, ExactInv, [Next]_vars
  PROVE  ExactInv'
<1>1. ~LinkRuns /\ ~CutRuns
  BY DEF SoundInv, NothingMoves, LinkRuns, CutRuns
<1>2. CASE Ask(r)
  <2>1. UNCHANGED tables
    BY <1>2 DEF Ask, AskCreate, AskKey, AskStatus, AskUpdate, AskDelete, AskMove,
                AskDuplicate, AskUnknown
  <2> QED
    BY <1>2, <2>1, QuietExact DEF tables
<1>3. CASE Continue(r)
  <2>1. ~FindTarget(r) /\ ~SaveMoved(r)
    <3>1. req[r].at \notin {"target", "moveSave"}
      BY DEF Inv, RequestsOK, RequestOK, StageOK
    <3> QED
      BY <3>1 DEF FindTarget, SaveMoved
  <2>2. CASE \/ Check(r) \/ Insert(r) \/ FindPart(r) \/ ReadTree(r) \/ FindDetail(r)
             \/ SaveDetail(r) \/ DeleteFind(r) \/ DeleteData(r)
             \/ FindParent(r) \/ FindChildren(r)
    <3>1. entity' = entity /\ closure' = closure
      BY <2>2 DEF Check, Insert, FindPart, ReadTree, FindDetail, SaveDetail, DeleteFind,
                  DeleteData, FindParent, FindChildren, tables
    <3> QED
      BY <1>3, <3>1, QuietExact
  <2>3. CASE CommitCreated(r) \/ CommitFetched(r) \/ CommitCopy(r) \/ CommitChild(r)
    BY <1>3, <2>3, CommitsExact DEF CommitCreated, CommitFetched, CommitCopy, CommitChild
  <2>4. CASE UpdateStatus(r)
    <3>1. closure' = closure
      BY <2>4 DEF UpdateStatus
    <3>2. PICK e \in req[r].todo :
            entity' = IF e[2] \in DOMAIN entity
                      THEN [entity EXCEPT ![e[2]].status = req[r].row.status]
                      ELSE entity
      BY <2>4 DEF UpdateStatus
    <3>3. /\ DOMAIN entity' = DOMAIN entity
          /\ \A x \in DOMAIN entity : entity'[x].parent = entity[x].parent
      BY <3>2 DEF Inv, TablesOK, IsRow
    <3> QED
      BY <1>3, <3>1, <3>3, QuietExact
  <2> QED
    BY <1>3, <2>1, <2>2, <2>3, <2>4, SaveRowExact, DeleteExact DEF Continue
<1>4. CASE End
  <2>1. /\ entity' = entity /\ closure' = closure
        /\ req' = [s \in Request |-> Ended("failed")]
    BY <1>4 DEF End, tables
  <2>2. \A s \in Request : req'[s].at = "failed" /\ req'[s].op = "none"
    BY <2>1 DEF Ended
  <2> QED
    BY <2>1, <2>2 DEF ExactInv, ClosureExact
<1>5. CASE UNCHANGED vars
  BY <1>5 DEF vars, ExactInv, ClosureExact
<1> QED
  BY <1>1, <1>2, <1>3, <1>4, <1>5 DEF Next, LooseRuns, Rejection, Crash

LEMMA InitExact == Init => ExactInv
<1> SUFFICES ASSUME Init PROVE ExactInv
  OBVIOUS
<1> DEFINE other == NewRow(CHOOSE n \in Name : TRUE, "SYSTEM", 1)
<1>1. /\ entity = <<DataCenter, other>> /\ closure = {<<1, 1>>, <<1, 2>>, <<2, 2>>}
      /\ req = [r \in Request |-> Ended("done")]
      /\ other.parent = 1 /\ DataCenter.parent = 0
  BY DEF Init, NewRow, DataCenter, NoParent
<1> HIDE DEF other
<1>2. DOMAIN entity = {1, 2} /\ entity[1] = DataCenter /\ entity[2] = other
  BY <1>1
<1>3. \A a, e : <<a, e>> \in closure <=> (a = 1 /\ e \in {1, 2}) \/ (a = 2 /\ e = 2)
  BY <1>1
<1>4. Pairs(closure, {1, 2})
  BY <1>1 DEF Pairs
<1>5. ClosureOf(entity, closure)
  <2>1. \A e \in DOMAIN entity : \A a :
           <<a, e>> \in closure <=> a = e \/ <<a, entity[e].parent>> \in closure
    BY <1>1, <1>2, <1>3
  <2>2. \A a, e : <<a, e>> \in closure
                  => <<a, a>> \in closure /\ <<e, e>> \in closure
    BY <1>3
  <2> QED
    BY <1>4, <2>1, <2>2, ClosureByPair
<1>6. Transitive(closure)
  BY <1>3 DEF Transitive
<1>7. \A r \in Request : req[r].at = "done" /\ req[r].op = "none"
  BY <1>1 DEF Ended
<1> QED
  BY <1>5, <1>6, <1>7 DEF ExactInv, ClosureExact

\* When requests come one after the other and none is a move, the closure table is
\* the closure of the parents for every entity it knows, whatever crashes come
\* between two steps of a request (storage-entity.entity.ts:8).
THEOREM ExactClosure ==
  ASSUME "move" \notin Kind, NEW r \in Request, Request = {r}
  PROVE  Spec => []ClosureExact
<1>1. Init => Inv /\ SoundInv /\ ExactInv
  BY InitOK, InitSound, InitExact
<1>2. (Inv /\ SoundInv /\ ExactInv) /\ [Next]_vars => (Inv /\ SoundInv /\ ExactInv)'
  BY StepOK, StepSound, StepExact
<1>3. ExactInv => ClosureExact
  BY DEF ExactInv
<1> QED
  BY <1>1, <1>2, <1>3, PTL DEF Spec

-----------------------------------------------------------------------------
(* No two siblings of a type have one name, for requests one after the      *)
(* other.                                                                   *)

\* Only four steps go to the save of a new row.
LEMMA SavesAfter ==
  ASSUME Inv, NEW r \in Request, Ask(r) \/ Continue(r), req'[r].at = "insert"
  PROVE  AskCreate(r) \/ Check(r) \/ FindPart(r) \/ FindParent(r)
<1>1. /\ RequestsOK /\ req = [x \in Request |-> req[x]] /\ RequestOK(req[r])
      /\ DOMAIN req[r] = Fields /\ StageOK(req[r])
  BY DEF Inv, RequestsOK, RequestOK, Fields
<1>2. ~Answer(r) /\ ~Fail(r)
  BY <1>1, EndedOK
<1>3. ASSUME NEW op, NEW at, NEW id, NEW row, NEW work, Start(r, op, at, id, row, work)
      PROVE  at = "insert"
  BY <1>1, <1>3, StartIs
<1>4. ASSUME NEW at, Goes(r, at)
      PROVE  at = "insert"
  BY <1>1, <1>4, GoesIs
<1>5. \A e : ~Down(r, e)
  BY <1>1, <1>2, DownIs
<1>6. ASSUME NEW q, DOMAIN q = Fields, q.op = "duplicate", NEW work
      PROVE  req' # [req EXCEPT ![r] = Copying(q, work)]
  <2>1. Ended("done").at = "done" /\ Copying(q, work).at \in {"done", "parent"}
    BY <1>6, CopyingIs DEF Ended
  <2> QED
    BY <1>1, <2>1
<1>7. ~AskDuplicate(r)
  BY <1>1 DEF AskDuplicate, Ended
<1>8. ~AskKey(r) /\ ~AskMove(r) /\ ~AskStatus(r) /\ ~AskDelete(r) /\ ~AskUpdate(r)
  BY <1>2, <1>3 DEF AskKey, AskMove, AskStatus, AskDelete, AskUpdate
<1>9. /\ ~FindDetail(r) /\ ~SaveDetail(r) /\ ~FindTarget(r) /\ ~CommitChild(r)
      /\ ~SaveRow(r) /\ ~SaveMoved(r) /\ ~CommitCreated(r) /\ ~CommitFetched(r)
  BY <1>2, <1>4, <1>5
  DEF FindDetail, SaveDetail, FindTarget, CommitChild, SaveRow, SaveMoved,
      CommitCreated, CommitFetched
<1>10. ~DeleteData(r) /\ ~DeleteClosure(r) /\ ~DeleteFind(r) /\ ~DeleteRow(r)
  <2>1. ASSUME NEW step, Doing(r, step)
        PROVE  \A next : ~Then(r, next)
    BY <1>1, <2>1, VictimIs DEF Then, Fields
  <2>2. ASSUME NEW work, req' = [req EXCEPT ![r].work = work]
        PROVE  req[r].at = "insert"
    BY <1>1, <2>2 DEF Fields
  <2>3. ASSUME DeleteFind(r) \/ DeleteRow(r)
        PROVE  FALSE
    <3>1. \E work : req' = [req EXCEPT ![r].work = work]
      BY <1>2, <2>3 DEF DeleteFind, DeleteRow
    <3>2. req[r].at = "delete"
      BY <2>3 DEF DeleteFind, DeleteRow, Doing
    <3> QED
      BY <2>2, <3>1, <3>2
  <2> QED
    BY <2>1, <2>3 DEF DeleteData, DeleteClosure
<1>11. ~Insert(r)
  BY <1>1, <1>2 DEF Insert, Fields
<1>12. ~ReadTree(r) /\ ~UpdateStatus(r)
  <2>1. ASSUME NEW todo, req' = [req EXCEPT ![r].at = "updates", ![r].todo = todo]
        PROVE  FALSE
    BY <1>1, <2>1 DEF Fields
  <2>2. ASSUME NEW todo, req' = [req EXCEPT ![r].todo = todo]
        PROVE  req[r].at = "insert"
    BY <1>1, <2>2 DEF Fields
  <2> QED
    BY <1>2, <2>1, <2>2 DEF ReadTree, UpdateStatus
<1>13. ~CommitCopy(r) /\ ~FindChildren(r)
  <2>1. CASE CommitCopy(r)
    <3>1. /\ DOMAIN [req[r] EXCEPT !.id = req[r].new] = Fields
          /\ [req[r] EXCEPT !.id = req[r].new].op = "duplicate"
      BY <1>1, <2>1 DEF CommitCopy, Fields
    <3>2. \E work : req' = [req EXCEPT ![r] =
                               Copying([req[r] EXCEPT !.id = req[r].new], work)]
      BY <1>1, <2>1 DEF CommitCopy
    <3> QED
      BY <1>6, <3>1, <3>2
  <2>2. CASE FindChildren(r)
    <3>1. req[r].op = "duplicate"
      BY <1>1, <2>2 DEF FindChildren, StageOK
    <3>2. \E work : req' = [req EXCEPT ![r] = Copying(req[r], work)]
      BY <1>1, <1>2, <2>2 DEF FindChildren
    <3> QED
      BY <1>1, <1>6, <3>1, <3>2
  <2> QED
    BY <2>1, <2>2
<1> QED
  BY <1>2, <1>7, <1>8, <1>9, <1>10, <1>11, <1>12, <1>13 DEF Ask, Continue, AskUnknown

\* A row that is about to be saved has no twin, or is a datacenter.
LEMMA SavedAlone ==
  ASSUME Inv, NEW r \in Request, Ask(r) \/ Continue(r), req'[r].at = "insert",
         req'[r].row.type # "DATACENTER"
  PROVE  entity' = entity /\ TwinFree(req'[r].row)
<1>1. /\ RequestsOK /\ req = [x \in Request |-> req[x]] /\ DOMAIN req[r] = Fields
      /\ IsRow(req[r].row)
  BY DEF Inv, RequestsOK, RequestOK, Fields
<1>2. ~Fail(r) /\ ~Answer(r)
  BY <1>1, EndedOK
<1>3. ~AskCreate(r)
  <2>1. ASSUME AskCreate(r)
        PROVE  \E row : \/ /\ row.type = "DATACENTER"
                           /\ Start(r, "create", "insert", NoParent, row, <<>>)
                        \/ Start(r, "create", "check", NoParent, row, <<>>)
    <3>1. PICK name \in Name, type \in Type, parentId \in Id :
             IF type = "DATACENTER"
             THEN Start(r, "create", "insert", NoParent,
                        NewRow(name, type, NoParent), <<>>)
             ELSE Start(r, "create", "check", NoParent,
                        NewRow(name, type,
                               IF parentId \in DOMAIN entity
                               THEN parentId ELSE NoParent), <<>>)
      BY <2>1, Zenon DEF AskCreate
    <3>2. NewRow(name, type, NoParent).type = type
      BY DEF NewRow
    <3> QED
      BY <3>1, <3>2
  <2>2. ASSUME NEW row, Start(r, "create", "insert", NoParent, row, <<>>)
        PROVE  req'[r].row = row
    BY <1>1, <2>2, StartIs
  <2>3. ASSUME NEW row, Start(r, "create", "check", NoParent, row, <<>>)
        PROVE  FALSE
    BY <1>1, <2>3, StartIs
  <2> QED
    BY <2>1, <2>2, <2>3
<1>4. ~FindParent(r)
  <2>1. ASSUME NEW parent,
               req' = [req EXCEPT ![r].at = "insert", ![r].row.parent = parent]
        PROVE  req'[r].row.type = req[r].row.type
    BY <1>1, <2>1 DEF Fields, IsRow
  <2>2. ASSUME NEW parent,
               req' = [req EXCEPT ![r].at = "check", ![r].row.parent = parent]
        PROVE  FALSE
    BY <1>1, <2>2 DEF Fields
  <2> QED
    BY <2>1, <2>2 DEF FindParent
<1>5. CASE Check(r)
  <2>1. /\ req'[r].row = req[r].row /\ ~isAlreadyExists(req[r].row)
        /\ entity' = entity
    BY <1>1, <1>2, <1>5, GoesIs DEF Check, tables
  <2> QED
    BY <2>1 DEF isAlreadyExists, SameName, TwinFree
<1>6. CASE FindPart(r)
  <2> DEFINE part == Head(req[r].work)
  <2>1. \A e : ~Down(r, e)
    BY <1>1, <1>2, DownIs
  <2>2. /\ req' = [req EXCEPT ![r].at = "insert",
                              ![r].row = NewRow(part.name, part.type, req[r].id)]
        /\ \A e \in DOMAIN entity :
              ~ /\ entity[e].name = part.name /\ entity[e].type = part.type
                /\ req[r].at = "level" => entity[e].parent = req[r].id
        /\ entity' = entity
    BY <1>2, <1>6, <2>1 DEF FindPart, tables
  <2>3. req'[r].row = NewRow(part.name, part.type, req[r].id)
    BY <1>1, <2>2 DEF Fields
  <2> HIDE DEF part
  <2>4. /\ req'[r].row.name = part.name /\ req'[r].row.type = part.type
        /\ req'[r].row.parent = req[r].id
    BY <2>3 DEF NewRow
  <2> QED
    BY <2>2, <2>4 DEF TwinFree
<1> QED
  BY <1>3, <1>4, <1>5, <1>6, SavesAfter

\* Rows that go, and columns that are none of the three, make no twins.
LEMMA StillUnique ==
  ASSUME Inv, UniqueInv, NEW r \in Request, Request = {r}, Ask(r) \/ Continue(r),
         DOMAIN entity' \subseteq DOMAIN entity,
         \A e \in DOMAIN entity' :
            /\ entity'[e].name = entity[e].name /\ entity'[e].type = entity[e].type
            /\ entity'[e].parent = entity[e].parent
  PROVE  UniqueInv'
<1>1. SiblingsUnique'
  BY DEF UniqueInv, SiblingsUnique
<1>2. \A row : TwinFree(row) => TwinFree(row)'
  BY DEF TwinFree
<1>3. ASSUME req'[r].at = "insert", req'[r].row.type # "DATACENTER"
      PROVE  TwinFree(req[r].row)'
  BY <1>2, <1>3, SavedAlone
<1>4. ASSUME req'[r].at = "commit", req'[r].row.type # "DATACENTER"
      PROVE  TwinFree(req[r].row)'
  <2>1. Insert(r)
    BY <1>4, OwnStep
  <2>2. /\ RequestsOK /\ req = [x \in Request |-> req[x]] /\ DOMAIN req[r] = Fields
    BY DEF Inv, RequestsOK, RequestOK, Fields
  <2>3. ~Fail(r)
    BY <1>4, <2>2, EndedOK
  <2>4. req[r].at = "insert" /\ req'[r].row = req[r].row
    BY <2>1, <2>2, <2>3 DEF Insert, Fields
  <2> QED
    BY <1>2, <1>4, <2>4 DEF UniqueInv
<1>5. \A x \in Request : x = r
  OBVIOUS
<1> QED
  BY <1>1, <1>3, <1>4, <1>5 DEF UniqueInv

LEMMA CommitsUnique ==
  ASSUME Inv, UniqueInv, NEW r \in Request, Request = {r}, Continue(r), Commits(r)
  PROVE  UniqueInv'
<1> DEFINE id == req[r].new
           row == req[r].row
<1>1. req[r].at = "commit" /\ entity' = WithRow(entity, id, row)
  BY DEF Commits
<1>2. CommitOK(req[r])
  BY <1>1 DEF Inv, RequestsOK, RequestOK
<1>3. row.type # "DATACENTER" => TwinFree(row)
  BY <1>1 DEF UniqueInv
<1>4. id \notin DOMAIN entity
  BY <1>2 DEF CommitOK
<1> HIDE DEF id, row
<1>5. /\ DOMAIN entity' = DOMAIN entity \cup {id} /\ entity'[id] = row
      /\ \A e \in DOMAIN entity : entity'[e] = entity[e]
  BY <1>1, <1>4 DEF WithRow
<1>6. SiblingsUnique'
  <2>1. SiblingsUnique
    BY DEF UniqueInv
  <2> QED
    BY <1>3, <1>5, <2>1 DEF SiblingsUnique, TwinFree
<1>7. req'[r].at # "commit"
  BY <1>1, OwnStep DEF Insert
<1>8. req'[r].at # "insert"
  <2>1. ~May(r, "create")
    BY <1>1 DEF May, Idle, Inv, RequestsOK, RequestOK, StageOK
  <2>2. ~AskCreate(r) /\ ~Check(r) /\ ~FindPart(r) /\ ~FindParent(r)
    BY <1>1, <2>1 DEF AskCreate, Check, FindPart, FindParent
  <2> QED
    BY <2>2, SavesAfter
<1> QED
  BY <1>6, <1>7, <1>8 DEF UniqueInv

LEMMA StepUnique ==
  ASSUME "move" \notin Kind, "update" \notin Kind, NEW r \in Request, Request = {r},
         Inv, SoundInv, UniqueInv, [Next]_vars
  PROVE  UniqueInv'
<1>1. ~LinkRuns /\ ~CutRuns
  BY DEF SoundInv, NothingMoves, LinkRuns, CutRuns
<1>2. CASE Ask(r)
  <2>1. UNCHANGED tables
    BY <1>2 DEF Ask, AskCreate, AskKey, AskStatus, AskUpdate, AskDelete, AskMove,
                AskDuplicate, AskUnknown
  <2> QED
    BY <1>2, <2>1, StillUnique DEF tables
<1>3. CASE Continue(r)
  <2>1. ~FindTarget(r) /\ ~SaveMoved(r) /\ ~SaveRow(r)
    <3>1. req[r].at \notin {"target", "moveSave", "save"}
      BY DEF Inv, RequestsOK, RequestOK, StageOK
    <3> QED
      BY <3>1 DEF FindTarget, SaveMoved, SaveRow
  <2>2. CASE \/ Check(r) \/ Insert(r) \/ FindPart(r) \/ ReadTree(r) \/ FindDetail(r)
             \/ SaveDetail(r) \/ DeleteFind(r) \/ DeleteData(r) \/ DeleteClosure(r)
             \/ FindParent(r) \/ FindChildren(r)
    <3>1. entity' = entity
      BY <2>2 DEF Check, Insert, FindPart, ReadTree, FindDetail, SaveDetail, DeleteFind,
                  DeleteData, DeleteClosure, FindParent, FindChildren, tables
    <3> QED
      BY <1>3, <3>1, StillUnique
  <2>3. CASE CommitCreated(r) \/ CommitFetched(r) \/ CommitCopy(r) \/ CommitChild(r)
    BY <1>3, <2>3, CommitsUnique DEF CommitCreated, CommitFetched, CommitCopy, CommitChild
  <2>4. CASE UpdateStatus(r)
    <3>1. PICK e \in req[r].todo :
            entity' = IF e[2] \in DOMAIN entity
                      THEN [entity EXCEPT ![e[2]].status = req[r].row.status]
                      ELSE entity
      BY <2>4 DEF UpdateStatus
    <3>2. /\ DOMAIN entity' = DOMAIN entity
          /\ \A x \in DOMAIN entity :
                /\ entity'[x].name = entity[x].name /\ entity'[x].type = entity[x].type
                /\ entity'[x].parent = entity[x].parent
      BY <3>1 DEF Inv, TablesOK, IsRow
    <3> QED
      BY <1>3, <3>2, StillUnique
  <2>5. CASE DeleteRow(r)
    <3>1. \/ entity' = entity
          \/ entity' = Restrict(entity, DOMAIN entity \ {Victim(r)})
      BY <2>5 DEF DeleteRow
    <3>2. /\ DOMAIN entity' \subseteq DOMAIN entity
          /\ \A e \in DOMAIN entity' : entity'[e] = entity[e]
      BY <3>1 DEF Restrict
    <3> QED
      BY <1>3, <3>2, StillUnique
  <2> QED
    BY <1>3, <2>1, <2>2, <2>3, <2>4, <2>5 DEF Continue
<1>4. CASE End
  <2>1. entity' = entity /\ req' = [s \in Request |-> Ended("failed")]
    BY <1>4 DEF End, tables
  <2>2. \A s \in Request : req'[s].at = "failed"
    BY <2>1 DEF Ended
  <2> QED
    BY <2>1, <2>2 DEF UniqueInv, SiblingsUnique
<1>5. CASE UNCHANGED vars
  BY <1>5 DEF vars, UniqueInv, SiblingsUnique, TwinFree
<1> QED
  BY <1>1, <1>2, <1>3, <1>4, <1>5 DEF Next, LooseRuns, Rejection, Crash

LEMMA InitUnique == Init => UniqueInv
<1> SUFFICES ASSUME Init PROVE UniqueInv
  OBVIOUS
<1> DEFINE other == NewRow(CHOOSE n \in Name : TRUE, "SYSTEM", 1)
<1>1. /\ entity = <<DataCenter, other>> /\ req = [r \in Request |-> Ended("done")]
      /\ other.type = "SYSTEM" /\ DataCenter.type = "DATACENTER"
  BY DEF Init, NewRow, DataCenter
<1> HIDE DEF other
<1>2. DOMAIN entity = {1, 2} /\ entity[1] = DataCenter /\ entity[2] = other
  BY <1>1
<1>3. \A r \in Request : req[r].at = "done"
  BY <1>1 DEF Ended
<1> QED
  BY <1>1, <1>2, <1>3 DEF UniqueInv, SiblingsUnique

\* When requests come one after the other and none renames or moves, no two
\* entities of a type below one parent have one name: what create refuses with
\* CONFLICT is never made by fetching a key or duplicating a tree either
\* (test/storage-entity.controller.e2e-spec.ts:113).
THEOREM UniqueSiblings ==
  ASSUME "move" \notin Kind, "update" \notin Kind, NEW r \in Request, Request = {r}
  PROVE  Spec => []SiblingsUnique
<1>1. Init => Inv /\ SoundInv /\ UniqueInv
  BY InitOK, InitSound, InitUnique
<1>2. (Inv /\ SoundInv /\ UniqueInv) /\ [Next]_vars => (Inv /\ SoundInv /\ UniqueInv)'
  BY StepOK, StepSound, StepUnique
<1>3. UniqueInv => SiblingsUnique
  BY DEF UniqueInv
<1> QED
  BY <1>1, <1>2, <1>3, PTL DEF Spec

-----------------------------------------------------------------------------
(* Moves that end well, for requests one after the other.                  *)

\* The stage that the queries of a move have left the closure table in, which
\* was base when the move was asked for.
Halfway(base, r) ==
    LET id     == req[r].id
        parent == req[r].row.parent
        cut    == Loose(r, "cut", id, parent) \in loose
        link   == Loose(r, "link", id, parent) \in loose
        rest   == CutOff(base, id)
    IN \/ cut /\ link /\ closure = base
       \/ ~cut /\ link /\ closure = rest
       \/ /\ cut /\ ~link /\ ~LinkConflicts(base, id, parent)
          /\ closure = base \cup LinkSubtree(base, id, parent)
       \/ /\ ~cut /\ ~link
          /\ \/ /\ ~LinkConflicts(rest, id, parent)
                /\ closure = rest \cup LinkSubtree(rest, id, parent)
             \/ ~LinkConflicts(base, id, parent) /\ closure = rest

\* A move waits for its save, and its queries run or have run.
UnderWay(r) ==
    /\ req[r].at = "moveSave"
    /\ req[r].id \in DOMAIN entity
    /\ req[r].row.parent \in DOMAIN entity
    /\ \A q \in loose :
          q.query \in {"cut", "link"}
          => q = Loose(r, q.query, req[r].id, req[r].row.parent)
    /\ \E base : /\ Pairs(base, DOMAIN entity)
                 /\ KeptTree(entity, base)
                 /\ Halfway(base, r)

\* Whatever else a request does but delete.
AtRest(r) ==
    /\ req[r].at # "moveSave"
    /\ req[r].op # "delete"
    /\ NothingMoves
    /\ KeptTree(entity, closure)
    /\ req[r].at = "commit"
       => req[r].link = LinkNew(closure, req[r].new, req[r].row.parent)
    /\ req[r].op \in {"update", "move"} => req[r].id \in DOMAIN entity
    /\ req[r].op = "update" => entity[req[r].id].parent = req[r].row.parent

\* Below the top of the stack no entity has lost its details or closure rows, and
\* above the frame of one whose children were read are the frames of them all.
FrameCovers(table, work, n, i) ==
    /\ i > 1 => work[i].step \in {"find", "data"}
    /\ work[i].step # "find"
       => \A e \in Children(table, work[i].id) :
             \E j \in 1..n : j < i /\ work[j].id = e

FramesCover(table, work) ==
    \A i \in 1..Len(work) : FrameCovers(table, work, Len(work), i)

\* The rows that are left without some are described in full.
KeptWithout(gone) ==
    LET kept == [e \in DOMAIN entity \ gone |-> entity[e]]
    IN Pairs(closure, DOMAIN kept) /\ KeptTree(kept, closure)

Deleting(r) ==
    /\ req[r].op = "delete"
    /\ NothingMoves
    /\ FramesCover(entity, req[r].work)
    /\ req[r].work[1].step # "row" => KeptTree(entity, closure)
    /\ req[r].work[1].step = "row" => KeptWithout({req[r].work[1].id})
    /\ req[r].work[1].step \in {"closure", "row"} => req[r].work[1].id \notin detailed

\* A move saved before its queries ran: until they do, nobody asks for anything.
LeftBehind(r) ==
    /\ Idle(r)
    /\ \E q \in loose : q.query \in {"cut", "link"}
    /\ \A q \in loose : q.query \in {"cut", "link"} => q.r = r

MoveInv ==
    /\ \A q \in loose : q.query \in {"cut", "link", "upsert"}
    /\ stray \/ \A r \in Request :
                   AtRest(r) \/ Deleting(r) \/ UnderWay(r) \/ LeftBehind(r)

\* What the steps that are no move keep.
LEMMA StillAtRest ==
  ASSUME Inv, Inv', NEW r \in Request, AtRest(r), Ask(r) \/ Continue(r),
         ~AskMove(r), ~AskDelete(r), ~FindTarget(r),
         KeptTree(entity, closure)', Insert(r) => closure' = closure,
         DOMAIN entity \subseteq DOMAIN entity', NothingMoves',
         \A e \in DOMAIN entity : entity'[e].parent = entity[e].parent
  PROVE  AtRest(r)'
<1>1. /\ req'[r].at = "commit" => Insert(r)
      /\ req'[r].op = "update"
         => \/ AskUpdate(r)
            \/ req[r].op = "update" /\ req'[r].id = req[r].id
      /\ req'[r].op # "move" /\ req'[r].op # "delete"
  BY OwnStep DEF AtRest
<1>2. req'[r].at # "moveSave"
  BY <1>1 DEF Inv, RequestsOK, RequestOK, StageOK
<1>3. ASSUME req'[r].at = "commit"
      PROVE  req'[r].link = LinkNew(closure', req'[r].new, req'[r].row.parent)
  <2>1. \/ req'[r] = req[r]
        \/ req'[r].link = LinkNew(closure, req'[r].new, req'[r].row.parent)
    BY <1>3, RequestsStill
  <2>2. req[r].at # "commit" /\ closure' = closure
    BY <1>1, <1>3 DEF Insert
  <2> QED
    BY <1>3, <2>1, <2>2
<1>4. ASSUME req'[r].op = "update"
      PROVE  /\ req'[r].id \in DOMAIN entity'
             /\ entity'[req'[r].id].parent = req'[r].row.parent
  <2>1. \/ /\ req[r].op = "update" /\ req'[r].id = req[r].id
           /\ req'[r].row = req[r].row
        \/ /\ req'[r].id \in DOMAIN entity
           /\ entity[req'[r].id].parent = req'[r].row.parent
    BY <1>4, RequestsStill
  <2>2. /\ req'[r].id \in DOMAIN entity
        /\ entity[req'[r].id].parent = req'[r].row.parent
    BY <2>1 DEF AtRest
  <2> QED
    BY <2>2
<1> QED
  BY <1>1, <1>2, <1>3, <1>4 DEF AtRest

LEMMA AskMoved ==
  ASSUME Inv, Inv', NEW r \in Request, AtRest(r), Ask(r)
  PROVE  AtRest(r)' \/ Deleting(r)'
<1>1. /\ UNCHANGED <<entity, closure, detailed, loose>> /\ RequestsOK
      /\ NothingMoves /\ KeptTree(entity, closure)
  BY DEF Ask, AskCreate, AskKey, AskStatus, AskUpdate, AskDelete, AskMove,
         AskDuplicate, AskUnknown, tables, process, Inv, AtRest
<1>2. NothingMoves' /\ KeptTree(entity, closure)'
  BY <1>1 DEF NothingMoves
<1>3. ~FindTarget(r) /\ ~Insert(r)
  BY DEF Ask, AskCreate, AskKey, AskStatus, AskUpdate, AskDelete, AskMove,
         AskDuplicate, AskUnknown, May, Idle, Inv, RequestsOK, RequestOK, StageOK,
         FindTarget, Insert
<1>4. CASE AskMove(r)
  <2>1. CASE Fail(r)
    BY <1>1, <1>2, <2>1, EndedOK DEF AtRest
  <2>2. CASE \E id \in DOMAIN entity : \E row : Start(r, "move", "target", id, row, <<>>)
    <3>1. PICK id \in DOMAIN entity : \E row : Start(r, "move", "target", id, row, <<>>)
      BY <2>2
    <3>2. req'[r].op = "move" /\ req'[r].at = "target" /\ req'[r].id = id
      BY <1>1, <3>1, StartIs
    <3> QED
      BY <1>1, <1>2, <3>2 DEF AtRest
  <2> QED
    BY <1>4, <2>1, <2>2 DEF AskMove, Movable
<1>5. CASE AskDelete(r)
  <2>1. PICK id \in Id :
          Start(r, "delete", "delete", id, DataCenter, <<Frame(id, "find")>>)
    BY <1>5 DEF AskDelete
  <2>2. req'[r].op = "delete" /\ req'[r].work = <<Frame(id, "find")>>
    BY <1>1, <2>1, StartIs
  <2> DEFINE work == req'[r].work
  <2>3. Len(work) = 1 /\ work[1].step = "find"
    BY <2>2 DEF Frame
  <2> HIDE DEF work
  <2>4. \A i \in 1..Len(work) : i = 1
    BY <2>3
  <2>5. FramesCover(entity', work)
    BY <2>3, <2>4 DEF FramesCover, FrameCovers
  <2> QED
    BY <1>2, <2>2, <2>3, <2>5 DEF Deleting, work
<1>6. CASE ~AskMove(r) /\ ~AskDelete(r)
  <2>1. /\ DOMAIN entity \subseteq DOMAIN entity'
        /\ \A e \in DOMAIN entity : entity'[e].parent = entity[e].parent
    BY <1>1
  <2> QED
    BY <1>2, <1>3, <1>6, <2>1, StillAtRest
<1> QED
  BY <1>4, <1>5, <1>6

\* Nobody asks before a deletion or a move is over and its queries have run.
LEMMA NoAsk ==
  ASSUME Inv, NEW r \in Request, Deleting(r) \/ UnderWay(r) \/ LeftBehind(r)
  PROVE  ~Ask(r)
<1>1. ASSUME Ask(r)
      PROVE  Idle(r) /\ \A q \in loose : q.r # r
  BY <1>1 DEF Ask, AskCreate, AskKey, AskStatus, AskUpdate, AskDelete, AskMove,
              AskDuplicate, AskUnknown, May
<1>2. Idle(r) => req[r].op = "none" /\ req[r].at \in {"done", "failed"}
  BY DEF Idle, Inv, RequestsOK, RequestOK, StageOK
<1> QED
  BY <1>1, <1>2 DEF Deleting, UnderWay, LeftBehind

\* The target of a move is there, and its two queries are started.
LEMMA TargetMoved ==
  ASSUME Inv, NEW r \in Request, AtRest(r), FindTarget(r)
  PROVE  AtRest(r)' \/ UnderWay(r)'
<1>1. /\ req[r].at = "target" /\ UNCHANGED <<entity, closure>> /\ RequestsOK
      /\ NothingMoves /\ KeptTree(entity, closure) /\ TablesOK
  BY DEF FindTarget, tables, Inv, AtRest
<1>2. CASE Fail(r) /\ UNCHANGED loose
  <2>1. NothingMoves'
    BY <1>1, <1>2 DEF NothingMoves
  <2> QED
    BY <1>1, <1>2, <2>1, EndedOK DEF AtRest
<1>3. CASE /\ Movable(req[r].row.parent)
           /\ loose' = loose \cup
                  {Loose(r, query, req[r].id, req[r].row.parent) :
                      query \in {"cut", "link"}}
           /\ Goes(r, "moveSave")
  <2> DEFINE id == req[r].id
             parent == req[r].row.parent
  <2>1. /\ req'[r].at = "moveSave" /\ req'[r].id = id /\ req'[r].row = req[r].row
        /\ req[r].op = "move"
    BY <1>1, <1>3, GoesIs DEF RequestsOK, RequestOK, StageOK
  <2>2. id \in DOMAIN entity' /\ parent \in DOMAIN entity'
    BY <1>1, <1>3, <2>1 DEF AtRest, Movable
  <2>3. /\ Loose(r, "cut", id, parent) \in loose' /\ Loose(r, "link", id, parent) \in loose'
        /\ \A q \in loose' : q.query \in {"cut", "link"} => q = Loose(r, q.query, id, parent)
    BY <1>1, <1>3 DEF Loose, NothingMoves
  <2>4. Pairs(closure, DOMAIN entity') /\ KeptTree(entity', closure)
    BY <1>1 DEF TablesOK
  <2>5. Halfway(closure, r)'
    BY <1>1, <2>1, <2>3 DEF Halfway
  <2> HIDE DEF id, parent
  <2>6. UnderWay(r)'
    BY <1>1, <2>1, <2>2, <2>3, <2>4, <2>5 DEF UnderWay, id, parent
  <2> QED
    BY <2>6
<1> QED
  BY <1>2, <1>3 DEF FindTarget

\* What a request that is no move and no deletion does to the tree.
LEMMA ContinueMoved ==
  ASSUME Inv, Inv', NEW r \in Request, AtRest(r), Continue(r), ~FindTarget(r)
  PROVE  AtRest(r)'
<1>1. /\ Pairs(closure, DOMAIN entity) /\ KeptTree(entity, closure)
      /\ TablesOK /\ RequestsOK /\ NothingMoves
      /\ req[r].at # "delete" /\ req[r].at # "moveSave"
  BY DEF Inv, TablesOK, RequestsOK, RequestOK, StageOK, AtRest
<1>2. ~AskMove(r) /\ ~AskDelete(r)
  <2>1. req[r].op # "none"
    BY <1>1 DEF Continue, Check, Insert, CommitCreated, FindPart, CommitFetched, ReadTree,
         UpdateStatus, FindDetail, SaveDetail, SaveRow, DeleteFind, DeleteData,
         DeleteClosure, DeleteRow, FindTarget, SaveMoved, FindParent, CommitCopy,
         CommitChild, FindChildren, Commits, Doing, RequestsOK, RequestOK, StageOK
  <2> QED
    BY <2>1 DEF AskMove, AskDelete, May, Idle
<1>3. NothingMoves'
  <2>1. loose' = loose \/ CommitCopy(r)
    BY <1>1 DEF Continue, Check, Insert, CommitCreated, FindPart, CommitFetched, ReadTree,
         UpdateStatus, FindDetail, SaveDetail, SaveRow, DeleteFind, DeleteData,
         DeleteClosure, DeleteRow, SaveMoved, FindParent, CommitChild, FindChildren,
         process
  <2>2. CASE CommitCopy(r)
    BY <1>1, <2>2 DEF CommitCopy, Loose, NothingMoves
  <2> QED
    BY <1>1, <2>1, <2>2 DEF NothingMoves
<1>4. CASE /\ DOMAIN entity' = DOMAIN entity /\ closure' = closure
           /\ \A e \in DOMAIN entity : entity'[e].parent = entity[e].parent
  <2>1. KeptTree(entity, closure)'
    BY <1>1, <1>4, SameParentsKept
  <2> QED
    BY <1>2, <1>3, <1>4, <2>1, StillAtRest
<1>5. CASE \/ Check(r) \/ Insert(r) \/ FindPart(r) \/ ReadTree(r) \/ FindDetail(r)
           \/ SaveDetail(r) \/ FindParent(r) \/ FindChildren(r)
  <2>1. entity' = entity /\ closure' = closure
    BY <1>5 DEF Check, Insert, FindPart, ReadTree, FindDetail, SaveDetail, FindParent,
                FindChildren, tables
  <2> QED
    BY <1>4, <2>1
<1>6. CASE CommitCreated(r) \/ CommitFetched(r) \/ CommitCopy(r) \/ CommitChild(r)
  <2> DEFINE id == req[r].new
             parent == req[r].row.parent
  <2>1. Commits(r)
    BY <1>6 DEF CommitCreated, CommitFetched, CommitCopy, CommitChild
  <2>2. /\ req[r].at = "commit" /\ entity' = WithRow(entity, id, req[r].row)
        /\ closure' = closure \cup LinkNew(closure, id, parent)
    BY <2>1 DEF Commits, AtRest
  <2>3. CommitOK(req[r])
    BY <1>1, <2>2 DEF RequestsOK, RequestOK
  <2>4. id \notin DOMAIN entity /\ id # NoParent /\ parent # id
    BY <1>1, <2>3, LastIdIs DEF CommitOK, NoParent
  <2>5. /\ DOMAIN entity' = DOMAIN entity \cup {id} /\ entity'[id].parent = parent
        /\ \A e \in DOMAIN entity :
              entity'[e].parent = entity[e].parent /\ entity[e].parent # id
    BY <1>1, <2>2, <2>4 DEF WithRow, TablesOK
  <2> HIDE DEF id, parent
  <2>6. KeptTree(entity, closure)'
    BY <1>1, <2>2, <2>4, <2>5, LeafKept
  <2>7. ~Insert(r)
    BY <2>2 DEF Insert
  <2> QED
    BY <1>2, <1>3, <2>5, <2>6, <2>7, StillAtRest
<1>7. CASE UpdateStatus(r)
  <2>1. PICK e \in req[r].todo :
          entity' = IF e[2] \in DOMAIN entity
                    THEN [entity EXCEPT ![e[2]].status = req[r].row.status]
                    ELSE entity
    BY <1>7 DEF UpdateStatus
  <2>2. /\ DOMAIN entity' = DOMAIN entity
        /\ \A x \in DOMAIN entity : entity'[x].parent = entity[x].parent
    BY <1>1, <2>1 DEF TablesOK, IsRow
  <2>3. closure' = closure
    BY <1>7 DEF UpdateStatus
  <2> QED
    BY <1>4, <2>2, <2>3
<1>8. CASE SaveRow(r)
  <2>1. req[r].op = "update"
    BY <1>1, <1>8 DEF SaveRow, RequestsOK, RequestOK, StageOK
  <2>2. /\ req[r].id \in DOMAIN entity
        /\ entity[req[r].id].parent = req[r].row.parent
    BY <2>1 DEF AtRest
  <2>3. /\ closure' = closure
        /\ entity' = entity \/ entity' = WithRow(entity, req[r].id, req[r].row)
    BY <1>8, <2>2 DEF SaveRow
  <2>4. /\ DOMAIN entity' = DOMAIN entity
        /\ \A e \in DOMAIN entity : entity'[e].parent = entity[e].parent
    BY <2>2, <2>3 DEF WithRow
  <2> QED
    BY <1>4, <2>3, <2>4
<1>9. ~DeleteFind(r) /\ ~DeleteData(r) /\ ~DeleteClosure(r) /\ ~DeleteRow(r) /\ ~SaveMoved(r)
  BY <1>1 DEF DeleteFind, DeleteData, DeleteClosure, DeleteRow, Doing, SaveMoved
<1> QED
  BY <1>5, <1>6, <1>7, <1>8, <1>9 DEF Continue

\* The first query of a move, before or after the second.
LEMMA CutMoved ==
  ASSUME Inv, NEW r \in Request, UnderWay(r), CutRuns
  PROVE  UnderWay(r)'
<1> DEFINE id == req[r].id
           parent == req[r].row.parent
           Cut == Loose(r, "cut", id, parent)
           Link == Loose(r, "link", id, parent)
<1>1. PICK q \in loose :
        q.query = "cut" /\ closure' = CutOff(closure, q.id) /\ loose' = loose \ {q}
  BY DEF CutRuns
<1>2. UNCHANGED <<entity, detailed, lastId, req>>
  BY DEF CutRuns
<1>3. q = Cut /\ Cut.id = id /\ Cut.query = "cut" /\ Link.query = "link"
  BY <1>1 DEF UnderWay, Loose
<1>4. PICK base : Pairs(base, DOMAIN entity) /\ KeptTree(entity, base) /\ Halfway(base, r)
  BY DEF UnderWay
<1>5. id \in DOMAIN entity /\ <<id, id>> \in base
  BY <1>4, KeptByPair DEF UnderWay
<1>6. Cut \in loose /\ Cut \notin loose' /\ (Link \in loose' <=> Link \in loose)
  BY <1>1, <1>3
<1>7. closure' = CutOff(closure, id)
  BY <1>1, <1>3
<1> HIDE DEF Cut, Link
<1>8. ASSUME Link \in loose, closure = base
      PROVE  Halfway(base, r)'
  BY <1>2, <1>6, <1>7, <1>8 DEF Halfway, Cut, Link
<1>9. ASSUME Link \notin loose, ~LinkConflicts(base, id, parent),
             closure = base \cup LinkSubtree(base, id, parent)
      PROVE  Halfway(base, r)'
  <2>1. LinkSubtree(base, id, parent) \cap base = {}
    BY <1>9 DEF LinkConflicts
  <2>2. closure' = CutOff(base, id)
    BY <1>4, <1>5, <1>7, <1>9, <2>1, CutAfterLink
  <2> QED
    BY <1>2, <1>6, <1>9, <2>2 DEF Halfway, Cut, Link
<1>10. Halfway(base, r)'
  BY <1>4, <1>6, <1>8, <1>9 DEF Halfway, Cut, Link
<1> QED
  BY <1>1, <1>2, <1>4, <1>10 DEF UnderWay

\* The second query of a move, if the primary key does not refuse it.
LEMMA LinkMoved ==
  ASSUME Inv, NEW r \in Request, UnderWay(r), LinkRuns
  PROVE  UnderWay(r)'
<1> DEFINE id == req[r].id
           parent == req[r].row.parent
           Cut == Loose(r, "cut", id, parent)
           Link == Loose(r, "link", id, parent)
<1>1. PICK q \in loose :
        /\ q.query = "link" /\ ~LinkConflicts(closure, q.id, q.parent)
        /\ closure' = closure \cup LinkSubtree(closure, q.id, q.parent)
        /\ loose' = loose \ {q}
  BY DEF LinkRuns
<1>2. UNCHANGED <<entity, detailed, lastId, req>>
  BY DEF LinkRuns
<1>3. /\ q = Link /\ Link.id = id /\ Link.parent = parent
      /\ Cut.query = "cut" /\ Link.query = "link"
  BY <1>1 DEF UnderWay, Loose
<1>4. PICK base : Pairs(base, DOMAIN entity) /\ KeptTree(entity, base) /\ Halfway(base, r)
  BY DEF UnderWay
<1>5. Link \in loose /\ Link \notin loose' /\ (Cut \in loose' <=> Cut \in loose)
  BY <1>1, <1>3
<1>6. /\ closure' = closure \cup LinkSubtree(closure, id, parent)
      /\ ~LinkConflicts(closure, id, parent)
  BY <1>1, <1>3
<1> HIDE DEF Cut, Link
<1>7. ASSUME Cut \in loose, closure = base
      PROVE  Halfway(base, r)'
  BY <1>2, <1>5, <1>6, <1>7 DEF Halfway, Cut, Link
<1>8. ASSUME Cut \notin loose, closure = CutOff(base, id)
      PROVE  Halfway(base, r)'
  BY <1>2, <1>5, <1>6, <1>8 DEF Halfway, Cut, Link
<1>9. Halfway(base, r)'
  BY <1>4, <1>5, <1>7, <1>8 DEF Halfway, Cut, Link
<1> QED
  BY <1>1, <1>2, <1>4, <1>9 DEF UnderWay

\* The save of a move whose queries ran leaves a tree.
LEMMA SaveMovedKeeps ==
  ASSUME Inv, NEW r \in Request, UnderWay(r), SaveMoved(r), ~stray',
         \A q \in loose : q.query \in {"cut", "link", "upsert"}
  PROVE  AtRest(r)' \/ LeftBehind(r)'
<1> DEFINE id == req[r].id
           parent == req[r].row.parent
           moves == entity[id].parent # parent
<1>1. /\ id \in DOMAIN entity /\ parent \in DOMAIN entity
      /\ \A q \in loose : q.query \in {"cut", "link"} => q = Loose(r, q.query, id, parent)
      /\ TablesOK /\ RequestsOK
  BY DEF UnderWay, Inv
<1>2. ~Fail(r) \/ ~stray'
  OBVIOUS
<1>3. /\ entity' = WithRow(entity, id, req[r].row) /\ Answer(r) /\ loose' = loose
      /\ moves => /\ ~LinkConflicts(CutOff(closure, id), id, parent)
                  /\ closure' = Relinked(id, parent)
      /\ ~moves => closure' = closure
  BY <1>1 DEF SaveMoved
<1>4. /\ DOMAIN entity' = DOMAIN entity /\ entity'[id].parent = parent
      /\ \A e \in DOMAIN entity \ {id} : entity'[e].parent = entity[e].parent
  BY <1>1, <1>3 DEF WithRow
<1>5. req'[r].op = "none" /\ req'[r].at \in {"done", "failed"}
  BY <1>1, <1>3, EndedOK
<1>6. CASE \E q \in loose : q.query \in {"cut", "link"}
  <2>1. \A q \in loose : q.query \in {"cut", "link"} => q.r = r
    BY <1>1 DEF Loose
  <2> QED
    BY <1>3, <1>5, <1>6, <2>1 DEF LeftBehind, Idle
<1>7. CASE \A q \in loose : q.query \notin {"cut", "link"}
  <2> DEFINE Cut == Loose(r, "cut", id, parent)
             Link == Loose(r, "link", id, parent)
  <2>1. NothingMoves'
    BY <1>3, <1>7 DEF NothingMoves
  <2>2. Cut \notin loose /\ Link \notin loose
    BY <1>7 DEF Loose
  <2>3. PICK base : Pairs(base, DOMAIN entity) /\ KeptTree(entity, base) /\ Halfway(base, r)
    BY DEF UnderWay
  <2> DEFINE rest == CutOff(base, id)
  <2>4. \/ /\ ~LinkConflicts(rest, id, parent)
           /\ closure = rest \cup LinkSubtree(rest, id, parent)
        \/ ~LinkConflicts(base, id, parent) /\ closure = rest
    BY <2>2, <2>3 DEF Halfway
  <2>5. <<id, id>> \in base /\ <<parent, parent>> \in base
    BY <1>1, <2>3, KeptByPair
  <2>6. Pairs(rest, DOMAIN entity) /\ <<id, id>> \in rest
    BY <2>3, <2>5, CutByPair
  <2>7. CutOff(rest, id) = rest
    BY <2>3, CutOnce
  <2> HIDE DEF rest
  <2>8. /\ LinkSubtree(rest, id, parent) \cap rest = {}
        /\ closure' = rest \cup LinkSubtree(rest, id, parent)
    <3>1. CASE /\ ~LinkConflicts(rest, id, parent)
               /\ closure = rest \cup LinkSubtree(rest, id, parent)
      <4>1. LinkSubtree(rest, id, parent) \cap rest = {}
        BY <3>1 DEF LinkConflicts
      <4>2. CutOff(closure, id) = rest
        BY <2>6, <2>7, <3>1, <4>1, CutAfterLink
      <4> QED
        BY <1>3, <3>1, <4>1, <4>2 DEF Relinked
    <3>2. CASE ~LinkConflicts(base, id, parent) /\ closure = rest
      <4>1. moves
        <5> SUFFICES ASSUME entity[id].parent = parent
                     PROVE  FALSE
          OBVIOUS
        <5>1. <<parent, id>> \in base
          BY <1>1, <2>3, <2>5, KeptByPair
        <5>2. LinkSubtree(base, id, parent) \cap base = {}
          BY <3>2 DEF LinkConflicts
        <5> QED
          BY <2>3, <2>5, <5>1, <5>2, NotBelowItself
      <4>2. CutOff(closure, id) = rest
        BY <2>7, <3>2
      <4> QED
        BY <1>3, <4>1, <4>2 DEF Relinked, LinkConflicts
    <3> QED
      BY <2>4, <3>1, <3>2
  <2>9. KeptTree(entity', closure')
    BY <1>1, <1>4, <2>3, <2>8, SubtreeMoved DEF rest
  <2> QED
    BY <1>5, <2>1, <2>9 DEF AtRest
<1> QED
  BY <1>6, <1>7

\* The children of the entity on top are put above it.
LEMMA FramesPushed ==
  ASSUME NEW t, NEW S, NEW front \in Seq(S), NEW work \in Seq(S), work # <<>>,
         NEW x \in S, x.id = work[1].id, x.step = "data", FramesCover(t, work),
         \A i \in 1..Len(front) : front[i].step = "find",
         \A e \in Children(t, x.id) : \E j \in 1..Len(front) : front[j].id = e
  PROVE  LET all == front \o <<x>> \o Tail(work)
         IN FramesCover(t, all) /\ all[1].step \in {"find", "data"}
<1> DEFINE all == front \o <<x>> \o Tail(work)
<1>1. PICK n \in Nat : n = Len(front)
  OBVIOUS
<1>2. PICK m \in Nat : m = Len(work) /\ m > 0
  OBVIOUS
<1>3. /\ Len(all) = n + m
      /\ \A i \in 1..n : all[i] = front[i]
      /\ all[n + 1] = x
      /\ \A i \in 1..(n + m) : i > n + 1 => all[i] = work[i - n]
  BY <1>1, <1>2
<1> HIDE DEF all
<1>4. ASSUME NEW i \in 1..(n + m)
      PROVE  FrameCovers(t, all, n + m, i)
  <2>1. CASE i <= n
    BY <1>1, <1>3, <2>1 DEF FrameCovers
  <2>2. CASE i = n + 1
    <3>1. ASSUME NEW e \in Children(t, x.id)
          PROVE  \E j \in 1..(n + m) : j < i /\ all[j].id = e
      <4>1. PICK j \in 1..n : front[j].id = e
        BY <1>1, <3>1
      <4>2. j \in 1..(n + m) /\ j < i
        BY <1>2, <2>2, <4>1
      <4> QED
        BY <1>3, <4>1, <4>2
    <3> QED
      BY <1>3, <2>2, <3>1 DEF FrameCovers
  <2>3. CASE i > n + 1
    <3> DEFINE k == i - n
    <3>1. k \in 1..m /\ k > 1 /\ all[i] = work[k]
      BY <1>3, <2>3
    <3>2. /\ work[k].step \in {"find", "data"}
          /\ work[k].step # "find"
             => \A e \in Children(t, work[k].id) :
                   \E j \in 1..m : j < k /\ work[j].id = e
      BY <1>2, <3>1 DEF FramesCover, FrameCovers
    <3> HIDE DEF k
    <3>3. ASSUME all[i].step # "find", NEW e \in Children(t, all[i].id)
          PROVE  \E j \in 1..(n + m) : j < i /\ all[j].id = e
      <4>1. PICK j \in 1..m : j < k /\ work[j].id = e
        BY <3>1, <3>2, <3>3
      <4>2. CASE j = 1
        BY <1>3, <2>3, <4>1, <4>2
      <4>3. CASE j > 1
        <5>1. j + n \in 1..(n + m) /\ j + n < i /\ j + n > n + 1 /\ (j + n) - n = j
          BY <3>1, <4>1, <4>3 DEF k
        <5>2. all[j + n] = work[j]
          BY <1>3, <5>1
        <5> QED
          BY <4>1, <5>1, <5>2
      <4> QED
        BY <4>2, <4>3
    <3> QED
      BY <3>1, <3>2, <3>3 DEF FrameCovers
  <2> QED
    BY <2>1, <2>2, <2>3
<1>5. all[1].step \in {"find", "data"}
  <2>1. CASE n = 0
    BY <1>3, <2>1
  <2>2. CASE n > 0
    BY <1>1, <1>3, <2>2
  <2> QED
    BY <2>1, <2>2
<1>6. FramesCover(t, all)
  <2>1. Len(all) = n + m
    BY <1>3
  <2> QED
    BY <1>4, <2>1, Zenon DEF FramesCover
<1> QED
  BY <1>5, <1>6 DEF all

\* The entity on top goes on; it has no children any more.
LEMMA FramesStep ==
  ASSUME NEW t, NEW work, FramesCover(t, work), Len(work) \in Nat \ {0},
         work[1].step # "find", NEW next, Len(next) = Len(work),
         next[1].id = work[1].id,
         \A i \in 1..Len(work) : i > 1 => next[i] = work[i]
  PROVE  FramesCover(t, next) /\ Children(t, work[1].id) = {}
<1>1. PICK n \in Nat : n = Len(work) /\ n > 0
  OBVIOUS
<1>2. Children(t, work[1].id) = {}
  BY <1>1 DEF FramesCover, FrameCovers
<1>3. \A j \in 1..n : next[j].id = work[j].id
  BY <1>1
<1>4. ASSUME NEW i \in 1..n
      PROVE  FrameCovers(t, next, n, i)
  <2>1. CASE i = 1
    BY <1>2, <2>1 DEF FrameCovers
  <2>2. CASE i > 1
    <3>1. next[i] = work[i]
      BY <1>1, <2>2
    <3>2. /\ work[i].step \in {"find", "data"}
          /\ work[i].step # "find"
             => \A e \in Children(t, work[i].id) :
                   \E j \in 1..n : j < i /\ work[j].id = e
      BY <1>1, <2>2 DEF FramesCover, FrameCovers
    <3> QED
      BY <1>3, <3>1, <3>2 DEF FrameCovers
  <2> QED
    BY <2>1, <2>2
<1>5. FramesCover(t, next)
  <2>1. Len(next) = n
    BY <1>1
  <2> QED
    BY <1>4, <2>1, Zenon DEF FramesCover
<1> QED
  BY <1>2, <1>5

\* The entity on top is gone.
LEMMA FramesPopped ==
  ASSUME NEW t, NEW u, NEW S, NEW work \in Seq(S), work # <<>>, Tail(work) # <<>>,
         FramesCover(t, work), DOMAIN u = DOMAIN t \ {work[1].id},
         \A e \in DOMAIN u : u[e].parent = t[e].parent
  PROVE  FramesCover(u, Tail(work)) /\ Tail(work)[1].step \in {"find", "data"}
<1>1. PICK m \in Nat : m = Len(work) /\ m > 1
  <2>1. Len(work) \in Nat /\ (Len(work) = 1 <=> Tail(work) = <<>>) /\ Len(work) # 0
    BY LastOfTail
  <2> QED
    BY <2>1
<1> DEFINE rest == Tail(work)
<1>2. Len(rest) = m - 1 /\ \A i \in 1..(m - 1) : rest[i] = work[i + 1]
  BY <1>1
<1> HIDE DEF rest
<1>3. \A id : \A e \in Children(u, id) : e \in Children(t, id) /\ e # work[1].id
  BY DEF Children
<1>4. ASSUME NEW i \in 1..(m - 1)
      PROVE  FrameCovers(u, rest, m - 1, i) /\ rest[i].step \in {"find", "data"}
  <2> DEFINE k == i + 1
  <2>1. k \in 1..m /\ k > 1 /\ rest[i] = work[k]
    BY <1>2
  <2>2. /\ work[k].step \in {"find", "data"}
        /\ work[k].step # "find"
           => \A e \in Children(t, work[k].id) :
                 \E j \in 1..m : j < k /\ work[j].id = e
    BY <1>1, <2>1 DEF FramesCover, FrameCovers
  <2> HIDE DEF k
  <2>3. ASSUME rest[i].step # "find", NEW e \in Children(u, rest[i].id)
        PROVE  \E j \in 1..(m - 1) : j < i /\ rest[j].id = e
    <3>1. e \in Children(t, work[k].id) /\ e # work[1].id
      BY <1>3, <2>1, <2>3
    <3>2. PICK j \in 1..m : j < k /\ work[j].id = e
      BY <2>1, <2>2, <2>3, <3>1
    <3>3. j # 1
      BY <3>1, <3>2
    <3>4. j - 1 \in 1..(m - 1) /\ j - 1 < i /\ (j - 1) + 1 = j
      BY <2>1, <3>2, <3>3 DEF k
    <3>5. rest[j - 1] = work[j]
      BY <1>2, <3>4
    <3> QED
      BY <3>2, <3>4, <3>5
  <2> QED
    BY <2>1, <2>2, <2>3 DEF FrameCovers
<1>5. rest[1].step \in {"find", "data"}
  BY <1>1, <1>4
<1>6. FramesCover(u, rest)
  <2>1. Len(rest) = m - 1
    BY <1>2
  <2> QED
    BY <1>4, <2>1, Zenon DEF FramesCover
<1> QED
  BY <1>5, <1>6 DEF rest

\* An order of the elements of a set names each of them.
LEMMA OrderIs ==
  ASSUME NEW S, IsFiniteSet(S), NEW order \in SetToSeqs(S)
  PROVE  /\ Cardinality(S) \in Nat /\ DOMAIN order = 1..Cardinality(S)
         /\ \A i \in DOMAIN order : order[i] \in S
         /\ \A e \in S : \E i \in DOMAIN order : order[i] = e
<1> DEFINE D == 1..Cardinality(S)
<1>1. Cardinality(S) \in Nat
  BY FS_CardinalityType
<1>2. IsFiniteSet(D) /\ Cardinality(D) = Cardinality(S)
  BY <1>1, FS_Interval
<1>3. order \in [D -> S] /\ \A i, j \in D : i # j => order[i] # order[j]
  BY DEF SetToSeqs
<1> HIDE DEF D
<1>4. order \in Injection(D, S)
  BY <1>3 DEF Injection, IsInjective
<1>5. order \in Surjection(D, S)
  BY <1>2, <1>4, FS_Injection
<1>6. \A e \in S : \E i \in D : order[i] = e
  BY <1>5 DEF Surjection
<1>7. DOMAIN order = D
  BY <1>3
<1> QED
  BY <1>1, <1>3, <1>6, <1>7 DEF D

\* The children that a deletion reads come before their parent.
LEMMA FindMoved ==
  ASSUME Inv, NEW r \in Request, Deleting(r), DeleteFind(r)
  PROVE  AtRest(r)' \/ Deleting(r)'
<1>1. /\ UNCHANGED <<entity, closure, detailed, loose>> /\ Doing(r, "find")
      /\ RequestsOK /\ TablesOK /\ NothingMoves /\ FramesCover(entity, req[r].work)
  BY DEF DeleteFind, tables, process, Deleting, Inv
<1>2. /\ req[r].work[1].step = "find" /\ Victim(r) = req[r].work[1].id
      /\ req[r].work[1] \in AFrame /\ req[r].work \in Seq(AFrame) /\ req[r].work # <<>>
  BY <1>1, VictimIs, Zenon DEF Doing, Victim, DeleteOK
<1>3. KeptTree(entity, closure)
  BY <1>2 DEF Deleting
<1>4. NothingMoves' /\ KeptTree(entity', closure')
  BY <1>1, <1>3 DEF NothingMoves
<1>5. CASE Fail(r)
  BY <1>1, <1>4, <1>5, EndedOK DEF AtRest
<1>6. CASE \E children \in SetToSeqs(Children(entity, Victim(r))) :
              req' = [req EXCEPT ![r].work =
                        [i \in DOMAIN children |-> Frame(children[i], "find")]
                        \o <<Frame(Victim(r), "data")>> \o Tail(@)]
  <2>1. PICK children \in SetToSeqs(Children(entity, Victim(r))) :
              req' = [req EXCEPT ![r].work =
                        [i \in DOMAIN children |-> Frame(children[i], "find")]
                        \o <<Frame(Victim(r), "data")>> \o Tail(@)]
    BY <1>6
  <2> DEFINE front == [i \in DOMAIN children |-> Frame(children[i], "find")]
             x == Frame(Victim(r), "data")
             S == Children(entity, Victim(r))
             work == front \o <<x>> \o Tail(req[r].work)
  <2>2. S \subseteq Id /\ IsFiniteSet(S)
    <3>1. IsFiniteSet(1..lastId)
      BY <1>1, LastIdIs, FS_Interval
    <3>2. S \subseteq 1..lastId /\ S \subseteq Id
      BY <1>1, LastIdIs DEF Children
    <3> QED
      BY <3>1, <3>2, FS_Subset
  <2> HIDE DEF S
  <2>3. /\ Cardinality(S) \in Nat /\ DOMAIN children = 1..Cardinality(S)
        /\ \A i \in DOMAIN children : children[i] \in S
        /\ \A e \in S : \E i \in DOMAIN children : children[i] = e
    BY <2>1, <2>2, OrderIs DEF S
  <2>4. \A i \in DOMAIN children :
           /\ Frame(children[i], "find") \in AFrame
           /\ front[i].id = children[i] /\ front[i].step = "find"
    BY <2>2, <2>3 DEF Frame, AFrame
  <2>5. x \in AFrame /\ x.id = req[r].work[1].id /\ x.step = "data"
    BY <1>1, <1>2, VictimIs DEF Frame, AFrame
  <2> HIDE DEF AFrame, x
  <2>6. front \in Seq(AFrame) /\ Len(front) = Cardinality(S)
    BY <2>3, <2>4
  <2>7. \A i \in 1..Len(front) : front[i].step = "find"
    BY <2>3, <2>4, <2>6
  <2>8. \A e \in Children(entity, x.id) : \E j \in 1..Len(front) : front[j].id = e
    BY <1>2, <2>3, <2>4, <2>5, <2>6 DEF S
  <2> HIDE DEF front
  <2>9. FramesCover(entity, work) /\ work[1].step \in {"find", "data"}
    BY <1>1, <1>2, <2>5, <2>6, <2>7, <2>8, FramesPushed
  <2>10. req' = [req EXCEPT ![r].work = work]
    BY <2>1 DEF front, x
  <2> HIDE DEF work
  <2>11. req'[r].work = work /\ req'[r].op = "delete"
    BY <1>1, <2>10, VictimIs DEF RequestsOK, Fields
  <2> QED
    BY <1>1, <1>4, <2>9, <2>11 DEF Deleting
<1> QED
  BY <1>5, <1>6 DEF DeleteFind

\* A frame that goes to its next step is the only one that changes.
LEMMA ThenMoves ==
  ASSUME Inv, NEW r \in Request, NEW old, Doing(r, old),
         NEW step \in {"find", "data", "closure", "row"}, Then(r, step)
  PROVE  /\ req'[r].op = "delete" /\ Len(req'[r].work) = Len(req[r].work)
         /\ req[r].work[1].step = old /\ Victim(r) = req[r].work[1].id
         /\ req'[r].work[1].id = Victim(r) /\ req'[r].work[1].step = step
         /\ \A i \in 1..Len(req[r].work) : i > 1 => req'[r].work[i] = req[r].work[i]
<1> DEFINE old1 == req[r].work[1]
           x == [old1 EXCEPT !.step = step]
           work == [req[r].work EXCEPT ![1] = x]
<1>1. /\ req[r].op = "delete" /\ req[r].work \in Seq(AFrame) /\ old1 \in AFrame
      /\ Len(req[r].work) \in Nat \ {0} /\ Head(req[r].work) = old1
      /\ DOMAIN req[r] = Fields /\ RequestsOK
  BY VictimIs DEF DeleteOK, Inv
<1>2. old1.step = old /\ Victim(r) = old1.id
  BY <1>1, Zenon DEF Doing, Victim
<1> HIDE DEF old1
<1>3. x.id = old1.id /\ x.step = step
  BY <1>1 DEF AFrame
<1>4. req' = [req EXCEPT ![r].work = work]
  BY DEF Then, old1
<1> HIDE DEF x, AFrame
<1>5. /\ Len(work) = Len(req[r].work) /\ work[1] = x
      /\ \A i \in 1..Len(req[r].work) : i > 1 => work[i] = req[r].work[i]
  BY <1>1
<1> HIDE DEF work
<1>6. req'[r].work = work /\ req'[r].op = "delete"
  BY <1>1, <1>4 DEF RequestsOK, Fields
<1> QED
  BY <1>2, <1>3, <1>5, <1>6 DEF old1

\* The details of the entity on top, and then its closure rows.
LEMMA DataMoved ==
  ASSUME Inv, NEW r \in Request, Deleting(r), DeleteData(r)
  PROVE  Deleting(r)'
<1>1. /\ UNCHANGED <<entity, closure, loose>> /\ Doing(r, "data") /\ Then(r, "closure")
      /\ detailed' = detailed \ {Victim(r)}
      /\ NothingMoves /\ FramesCover(entity, req[r].work)
      /\ Len(req[r].work) \in Nat \ {0}
  BY VictimIs DEF DeleteData, process, Deleting
<1>2. /\ req'[r].op = "delete" /\ Len(req'[r].work) = Len(req[r].work)
      /\ req[r].work[1].step = "data" /\ Victim(r) = req[r].work[1].id
      /\ req'[r].work[1].id = Victim(r) /\ req'[r].work[1].step = "closure"
      /\ \A i \in 1..Len(req[r].work) : i > 1 => req'[r].work[i] = req[r].work[i]
  BY <1>1, ThenMoves
<1>3. FramesCover(entity', req'[r].work)
  BY <1>1, <1>2, FramesStep
<1>4. KeptTree(entity', closure') /\ NothingMoves'
  BY <1>1, <1>2 DEF Deleting, NothingMoves
<1> QED
  BY <1>1, <1>2, <1>3, <1>4 DEF Deleting

LEMMA ClosureMoved ==
  ASSUME Inv, NEW r \in Request, Deleting(r), DeleteClosure(r)
  PROVE  Deleting(r)'
<1>1. /\ UNCHANGED <<entity, detailed, loose>> /\ Doing(r, "closure") /\ Then(r, "row")
      /\ closure' = WithoutSubtree(closure, Victim(r))
      /\ NothingMoves /\ FramesCover(entity, req[r].work)
      /\ Len(req[r].work) \in Nat \ {0} /\ Pairs(closure, DOMAIN entity)
  BY VictimIs DEF DeleteClosure, process, Deleting, Inv, TablesOK
<1>2. /\ req'[r].op = "delete" /\ Len(req'[r].work) = Len(req[r].work)
      /\ req[r].work[1].step = "closure" /\ Victim(r) = req[r].work[1].id
      /\ req'[r].work[1].id = Victim(r) /\ req'[r].work[1].step = "row"
      /\ \A i \in 1..Len(req[r].work) : i > 1 => req'[r].work[i] = req[r].work[i]
  BY <1>1, ThenMoves
<1>3. FramesCover(entity', req'[r].work) /\ Children(entity, Victim(r)) = {}
  BY <1>1, <1>2, FramesStep
<1>4. KeptTree(entity, closure) /\ NothingMoves' /\ Victim(r) \notin detailed'
  BY <1>1, <1>2 DEF Deleting, NothingMoves
<1> DEFINE id == Victim(r)
           kept == [e \in DOMAIN entity \ {id} |-> entity[e]]
<1>5. Pairs(closure', DOMAIN kept) /\ KeptTree(kept, closure')
  BY <1>1, <1>3, <1>4, LeafForgotten
<1> HIDE DEF id
<1>6. KeptWithout({req[r].work[1].id})'
  <2>1. req'[r].work[1].id = id
    BY <1>2 DEF id
  <2> QED
    BY <1>1, <1>5, <2>1 DEF KeptWithout
<1>7. req'[r].work[1].id \notin detailed'
  BY <1>2, <1>4
<1> QED
  BY <1>2, <1>3, <1>4, <1>6, <1>7 DEF Deleting

\* The row of the entity on top is not refused.
LEMMA RowMoved ==
  ASSUME Inv, NEW r \in Request, Deleting(r), DeleteRow(r)
  PROVE  AtRest(r)' \/ Deleting(r)'
<1> DEFINE id == Victim(r)
           kept == [e \in DOMAIN entity \ {id} |-> entity[e]]
<1>1. /\ UNCHANGED <<closure, detailed, loose>> /\ Doing(r, "row")
      /\ NothingMoves /\ FramesCover(entity, req[r].work)
      /\ Len(req[r].work) \in Nat \ {0} /\ req[r].work \in Seq(AFrame)
      /\ req[r].work # <<>> /\ RequestsOK /\ req[r].op = "delete"
  BY VictimIs DEF DeleteRow, process, Deleting, Inv, DeleteOK
<1>2. req[r].work[1].step = "row" /\ id = req[r].work[1].id
  BY <1>1, VictimIs, Zenon DEF Doing, Victim
<1>3. id \notin detailed /\ Pairs(closure, DOMAIN kept) /\ KeptTree(kept, closure)
  BY <1>2 DEF Deleting, KeptWithout
<1>4. Children(entity, id) = {}
  <2>1. PICK n \in Nat : n = Len(req[r].work) /\ n > 0
    BY <1>1
  <2>2. FrameCovers(entity, req[r].work, n, 1)
    BY <1>1, <2>1 DEF FramesCover
  <2> QED
    BY <1>2, <2>2 DEF FrameCovers
<1>5. \A p \in closure : id \notin {p[1], p[2]}
  BY <1>3, Columns
<1>6. ~Referenced(id)
  BY <1>3, <1>4, <1>5 DEF Referenced
<1>7. /\ entity' = Restrict(entity, DOMAIN entity \ {id})
      /\ \/ Answer(r)
         \/ Len(req[r].work) # 1 /\ req' = [req EXCEPT ![r].work = Tail(@)]
  BY <1>6 DEF DeleteRow
<1>8. entity' = kept
  BY <1>7 DEF Restrict
<1>9. NothingMoves' /\ KeptTree(entity', closure')
  BY <1>1, <1>3, <1>8 DEF NothingMoves
<1>10. CASE Answer(r)
  BY <1>1, <1>9, <1>10, EndedOK DEF AtRest
<1>11. CASE Len(req[r].work) # 1 /\ req' = [req EXCEPT ![r].work = Tail(@)]
  <2> HIDE DEF AFrame
  <2>1. Tail(req[r].work) # <<>>
    BY <1>1, <1>11, LastOfTail
  <2>2. DOMAIN entity' = DOMAIN entity \ {req[r].work[1].id}
        /\ \A e \in DOMAIN entity' : entity'[e].parent = entity[e].parent
    BY <1>2, <1>8
  <2>3. FramesCover(entity', Tail(req[r].work)) /\ Tail(req[r].work)[1].step \in {"find", "data"}
    BY <1>1, <2>1, <2>2, FramesPopped
  <2>4. req'[r].work = Tail(req[r].work) /\ req'[r].op = "delete"
    BY <1>1, <1>11 DEF RequestsOK, RequestOK
  <2> QED
    BY <1>9, <2>3, <2>4 DEF Deleting
<1> QED
  BY <1>7, <1>10, <1>11

\* An entity whose children were read has none left when it is on top.
LEMMA TopBare ==
  ASSUME Inv, NEW r \in Request, Deleting(r), req[r].work[1].step # "find"
  PROVE  Children(entity, req[r].work[1].id) = {}
<1>1. req[r].work \in Seq(AFrame) /\ req[r].work # <<>>
  BY DEF Deleting, Inv, RequestsOK, RequestOK, DeleteOK
<1>2. PICK n \in Nat : n = Len(req[r].work) /\ n > 0
  BY <1>1, LastOfTail
<1>3. FrameCovers(entity, req[r].work, n, 1)
  BY <1>2 DEF Deleting, FramesCover
<1> QED
  BY <1>3 DEF FrameCovers

\* A request that goes on has begun; one that deletes goes on with its frames, and
\* one that waits for the save of a move with that.
LEMMA GoesOn ==
  ASSUME Inv, NEW r \in Request, Continue(r)
  PROVE  /\ req[r].op # "none"
         /\ req[r].op = "delete"
            => DeleteFind(r) \/ DeleteData(r) \/ DeleteClosure(r) \/ DeleteRow(r)
         /\ req[r].at = "moveSave" => SaveMoved(r)
<1>1. StageOK(req[r])
  BY DEF Inv, RequestsOK, RequestOK
<1> QED
  BY <1>1 DEF StageOK, Continue, Check, Insert, CommitCreated, FindPart, CommitFetched,
       ReadTree, UpdateStatus, FindDetail, SaveDetail, SaveRow, DeleteFind, DeleteData,
       DeleteClosure, DeleteRow, FindTarget, SaveMoved, FindParent, CommitCopy,
       CommitChild, FindChildren, Commits, Doing

LEMMA StepMoved ==
  ASSUME NEW r \in Request, Request = {r}, Inv, Inv', MoveInv, [Next]_vars
  PROVE  MoveInv'
<1>1. CASE Ask(r)
  <2>1. UNCHANGED <<loose, stray>>
    BY <1>1 DEF Ask, AskCreate, AskKey, AskStatus, AskUpdate, AskDelete, AskMove,
         AskDuplicate, AskUnknown, process
  <2>2. CASE ~stray
    <3>1. AtRest(r)
      BY <1>1, <2>2, NoAsk DEF MoveInv
    <3> QED
      BY <1>1, <2>1, <3>1, AskMoved DEF MoveInv
  <2> QED
    BY <2>1, <2>2 DEF MoveInv
<1>2. CASE Continue(r)
  <2>1. \A q \in loose' : q.query \in {"cut", "link", "upsert"}
    <3>1. loose' = loose \/ FindTarget(r) \/ CommitCopy(r)
      BY <1>2 DEF Continue, Check, Insert, CommitCreated, FindPart, CommitFetched,
           ReadTree, UpdateStatus, FindDetail, SaveDetail, SaveRow, DeleteFind,
           DeleteData, DeleteClosure, DeleteRow, SaveMoved, FindParent, CommitChild,
           FindChildren, process
    <3>2. CASE FindTarget(r)
      BY <3>2 DEF FindTarget, Loose, MoveInv
    <3>3. CASE CommitCopy(r)
      BY <3>3 DEF CommitCopy, Loose, MoveInv
    <3> QED
      BY <3>1, <3>2, <3>3 DEF MoveInv
  <2>2. stray' = stray \/ stray'
    BY <1>2 DEF Continue, Check, Insert, CommitCreated, FindPart, CommitFetched,
         ReadTree, UpdateStatus, FindDetail, SaveDetail, SaveRow, DeleteFind,
         DeleteData, DeleteClosure, DeleteRow, FindTarget, SaveMoved, FindParent,
         CommitCopy, CommitChild, FindChildren, Commits, process
  <2>3. ASSUME ~stray'
        PROVE  AtRest(r)' \/ Deleting(r)' \/ UnderWay(r)' \/ LeftBehind(r)'
    <3>1. AtRest(r) \/ Deleting(r) \/ UnderWay(r) \/ LeftBehind(r)
      BY <2>2, <2>3 DEF MoveInv
    <3>2. CASE AtRest(r)
      BY <1>2, <3>2, TargetMoved, ContinueMoved
    <3>3. CASE Deleting(r)
      <4>1. DeleteFind(r) \/ DeleteData(r) \/ DeleteClosure(r) \/ DeleteRow(r)
        BY <1>2, <3>3, GoesOn DEF Deleting
      <4> QED
        BY <3>3, <4>1, FindMoved, DataMoved, ClosureMoved, RowMoved
    <3>4. CASE UnderWay(r)
      <4>1. SaveMoved(r)
        BY <1>2, <3>4, GoesOn DEF UnderWay
      <4>2. \A q \in loose : q.query \in {"cut", "link", "upsert"}
        BY DEF MoveInv
      <4> QED
        BY <2>3, <3>4, <4>1, <4>2, SaveMovedKeeps
    <3>5. ~LeftBehind(r)
      BY <1>2, GoesOn DEF LeftBehind, Idle
    <3> QED
      BY <3>1, <3>2, <3>3, <3>4, <3>5
  <2> QED
    BY <2>1, <2>3 DEF MoveInv
<1>3. CASE CutRuns \/ LinkRuns
  <2>1. /\ loose' \subseteq loose /\ req' = req
        /\ \E q \in loose : /\ q.query \in {"cut", "link"}
                            /\ stray' = (stray \/ req[q.r].at # "moveSave")
    BY <1>3 DEF CutRuns, LinkRuns
  <2>2. PICK q \in loose : /\ q.query \in {"cut", "link"}
                           /\ stray' = (stray \/ req[q.r].at # "moveSave")
    BY <2>1
  <2>3. ASSUME ~stray'
        PROVE  UnderWay(r)'
    <3>1. ~stray /\ req[q.r].at = "moveSave"
      BY <2>2, <2>3
    <3>2. ~AtRest(r) /\ ~Deleting(r)
      BY <2>2 DEF AtRest, Deleting, NothingMoves
    <3>3. ~LeftBehind(r)
      <4>1. req[r].at = "moveSave" => req[r].op = "move"
        BY DEF Inv, RequestsOK, RequestOK, StageOK
      <4> QED
        BY <2>2, <3>1, <4>1 DEF LeftBehind, Idle
    <3>4. UnderWay(r)
      BY <3>1, <3>2, <3>3 DEF MoveInv
    <3> QED
      BY <1>3, <3>4, CutMoved, LinkMoved
  <2> QED
    BY <2>1, <2>3 DEF MoveInv
<1>4. CASE End
  BY <1>4 DEF End, MoveInv
<1>5. CASE UNCHANGED vars
  <2>1. UNCHANGED <<entity, closure, detailed, req, loose, stray>>
    BY <1>5 DEF vars
  <2> QED
    BY <2>1 DEF MoveInv, AtRest, Deleting, UnderWay, LeftBehind, NothingMoves, Halfway,
                KeptWithout, Idle
<1> QED
  BY <1>1, <1>2, <1>3, <1>4, <1>5 DEF Next, LooseRuns, Rejection, Crash

LEMMA InitMoved == Init => MoveInv
<1> SUFFICES ASSUME Init PROVE MoveInv
  OBVIOUS
<1>1. /\ ClosureOf(entity, closure) /\ Transitive(closure) /\ loose = {}
      /\ \A r \in Request : req[r].at = "done" /\ req[r].op = "none"
  BY InitExact DEF Init, ExactInv, ClosureExact, Ended
<1> DEFINE other == NewRow(CHOOSE n \in Name : TRUE, "SYSTEM", 1)
<1>2. /\ entity = <<DataCenter, other>> /\ closure = {<<1, 1>>, <<1, 2>>, <<2, 2>>}
      /\ other.parent = 1 /\ DataCenter.parent = 0
  BY DEF Init, NewRow, DataCenter, NoParent
<1> HIDE DEF other
<1>3. DOMAIN entity = {1, 2} /\ entity[1].parent = 0 /\ entity[2].parent = 1
  BY <1>2
<1>4. Acyclic(entity)
  <2> SUFFICES ASSUME NEW S \in SUBSET {1, 2}, S # {}
               PROVE  \E e \in S : entity[e].parent \notin S
    BY <1>3 DEF Acyclic
  <2>1. CASE 1 \in S
    BY <1>3, <2>1
  <2>2. CASE 1 \notin S
    BY <1>3, <2>2
  <2> QED
    BY <2>1, <2>2
<1>5. \A e \in DOMAIN entity : <<e, e>> \in closure
  BY <1>2, <1>3
<1>6. KeptTree(entity, closure)
  BY <1>1, <1>4, <1>5 DEF KeptTree
<1> QED
  BY <1>1, <1>6 DEF MoveInv, AtRest, NothingMoves

\* When requests come one after the other, moves among them, and every move ended
\* well and its two raw queries ran before its save (storage-entity.repository.ts,
\* storage-entity.service.ts), then whenever no move is under way the closure table
\* is the closure of the parents and no entity is above itself: the primary key of
\* the closure table, and nothing else, refuses to move an entity below itself.
THEOREM MovesKeepTheTree ==
  ASSUME NEW r \in Request, Request = {r}
  PROVE  Spec => []MoveKeepsTree
<1>1. Init => Inv /\ MoveInv
  BY InitOK, InitMoved
<1>2. (Inv /\ MoveInv) /\ [Next]_vars => (Inv /\ MoveInv)'
  BY StepOK, StepMoved
<1>3. Inv /\ MoveInv => MoveKeepsTree
  <2> SUFFICES ASSUME Inv, MoveInv, ~stray, loose = {}, req[r].at # "moveSave"
               PROVE  ClosureOf(entity, closure) /\ Acyclic(entity)
    BY DEF MoveKeepsTree
  <2>1. AtRest(r) \/ Deleting(r)
    BY DEF MoveInv, UnderWay, LeftBehind
  <2>2. CASE KeptTree(entity, closure)
    BY <2>2 DEF KeptTree
  <2>3. CASE Deleting(r) /\ req[r].work[1].step = "row"
    <3> DEFINE id == req[r].work[1].id
               kept == [e \in DOMAIN entity \ {id} |-> entity[e]]
    <3>1. Children(entity, id) = {}
      BY <2>3, TopBare
    <3>2. Pairs(closure, DOMAIN kept) /\ KeptTree(kept, closure)
      BY <2>3 DEF Deleting, KeptWithout
    <3> QED
      BY <3>1, <3>2, LeafThere
  <2> QED
    BY <2>1, <2>2, <2>3 DEF AtRest, Deleting
<1> QED
  BY <1>1, <1>2, <1>3, PTL DEF Spec

-----------------------------------------------------------------------------
(* What a status request reaches.                                           *)

\* A request keeps its operation until it ends.
LEMMA SameOperation ==
  ASSUME Inv, NEW r \in Request, Continue(r)
  PROVE  req'[r].op \in {"none", req[r].op}
<1>1. RequestsOK /\ req = [x \in Request |-> req[x]] /\ DOMAIN req[r] = Fields
  BY DEF Inv, RequestsOK, RequestOK, Fields
<1>2. Answer(r) \/ Fail(r) => req'[r].op = "none"
  BY <1>1, EndedOK
<1>3. ASSUME NEW at, Goes(r, at)
      PROVE  req'[r].op = req[r].op
  BY <1>1, <1>3, GoesIs
<1>4. ASSUME NEW e, Down(r, e)
      PROVE  req'[r].op \in {"none", req[r].op}
  BY <1>1, <1>2, <1>4, DownIs
<1>5. CASE Check(r) \/ FindDetail(r) \/ SaveDetail(r) \/ FindTarget(r) \/ CommitChild(r)
  BY <1>2, <1>3, <1>5 DEF Check, FindDetail, SaveDetail, FindTarget, CommitChild
<1>6. CASE SaveRow(r) \/ SaveMoved(r) \/ CommitCreated(r)
  BY <1>2, <1>6 DEF SaveRow, SaveMoved, CommitCreated
<1>7. CASE CommitFetched(r)
  BY <1>4, <1>7 DEF CommitFetched
<1>8. CASE DeleteData(r) \/ DeleteClosure(r)
  BY <1>1, <1>8 DEF DeleteData, DeleteClosure, Then, Fields
<1>9. CASE Insert(r)
  <2>1. Fail(r) \/ req'[r].op = req[r].op
    BY <1>1, <1>9 DEF Insert, Fields
  <2> QED
    BY <1>2, <2>1
<1>10. CASE FindPart(r)
  <2>1. ASSUME NEW row, req' = [req EXCEPT ![r].at = "insert", ![r].row = row]
        PROVE  req'[r].op = req[r].op
    BY <1>1, <2>1 DEF Fields
  <2> QED
    BY <1>2, <1>4, <1>10, <2>1 DEF FindPart
<1>11. CASE ReadTree(r) \/ UpdateStatus(r)
  <2>1. \/ Answer(r) \/ Fail(r)
        \/ \E todo : req' = [req EXCEPT ![r].at = "updates", ![r].todo = todo]
        \/ \E todo : req' = [req EXCEPT ![r].todo = todo]
    BY <1>11 DEF ReadTree, UpdateStatus
  <2> QED
    BY <1>1, <1>2, <2>1 DEF Fields
<1>12. CASE DeleteFind(r) \/ DeleteRow(r)
  <2>1. \/ Answer(r) \/ Fail(r)
        \/ \E work : req' = [req EXCEPT ![r].work = work]
    BY <1>12 DEF DeleteFind, DeleteRow
  <2> QED
    BY <1>1, <1>2, <2>1 DEF Fields
<1>13. CASE FindParent(r)
  <2>1. \E at \in {"insert", "check"} : \E parent :
           req' = [req EXCEPT ![r].at = at, ![r].row.parent = parent]
    BY <1>13 DEF FindParent
  <2> QED
    BY <1>1, <2>1 DEF Fields
<1>14. CASE CommitCopy(r) \/ FindChildren(r)
  <2>1. req[r].op = "duplicate"
    BY <1>1, <1>14 DEF CommitCopy, FindChildren, StageOK, Inv, RequestsOK, RequestOK
  <2>2. \/ Fail(r)
        \/ \E work : req' = [req EXCEPT ![r] = Copying(req[r], work)]
        \/ \E work : req' = [req EXCEPT ![r] =
                                Copying([req[r] EXCEPT !.id = req[r].new], work)]
    BY <1>1, <1>14 DEF CommitCopy, FindChildren
  <2>3. ASSUME NEW q, DOMAIN q = Fields, q.op = "duplicate", NEW work,
               req' = [req EXCEPT ![r] = Copying(q, work)]
        PROVE  req'[r].op \in {"none", "duplicate"}
    <3>1. req'[r] = Copying(q, work)
      BY <1>1, <2>3
    <3>2. Ended("done").op = "none"
      BY DEF Ended
    <3> QED
      BY <2>3, <3>1, <3>2, CopyingIs
  <2>4. /\ DOMAIN [req[r] EXCEPT !.id = req[r].new] = Fields
        /\ [req[r] EXCEPT !.id = req[r].new].op = "duplicate"
    BY <1>1, <2>1 DEF Fields
  <2>5. \/ Fail(r)
        \/ \E q, work : /\ DOMAIN q = Fields /\ q.op = "duplicate"
                        /\ req' = [req EXCEPT ![r] = Copying(q, work)]
    BY <1>1, <2>1, <2>2, <2>4
  <2> QED
    BY <1>2, <2>1, <2>3, <2>5
<1> QED
  BY <1>5, <1>6, <1>7, <1>8, <1>9, <1>10, <1>11, <1>12, <1>13, <1>14 DEF Continue

\* A walk begins at an entity that is there.
LEMMA WalkBegins ==
  ASSUME Inv, Inv', NEW r \in Request, Ask(r) \/ Continue(r),
         req'[r].at \in {"tree", "updates"}, ~ReadTree(r), ~UpdateStatus(r)
  PROVE  entity' = entity /\ req'[r].at = "tree" /\ req'[r].id \in DOMAIN entity
<1>1. RequestsOK /\ StageOK(req[r]) /\ req'[r].op \in {"status", "keyStatus"}
  BY DEF Inv, RequestsOK, RequestOK, StageOK
<1>2. ~Answer(r) /\ ~Fail(r)
  BY <1>1, EndedOK
<1>3. CASE Ask(r)
  <2>1. AskStatus(r)
    <3>1. ASSUME NEW op, NEW at, NEW id, NEW row, NEW work, Start(r, op, at, id, row, work)
          PROVE  req'[r].op = op /\ req'[r].at = at
      BY <1>1, <3>1, StartIs
    <3>2. ~AskDuplicate(r)
      <4>1. AskDuplicate(r) => req'[r].op = "duplicate"
        BY DEF AskDuplicate, Ended, Inv, RequestsOK
      <4> QED
        BY <1>1, <4>1
    <3>3. ~AskCreate(r)
      <4>1. AskCreate(r) => \E row : \/ Start(r, "create", "insert", NoParent, row, <<>>)
                                     \/ Start(r, "create", "check", NoParent, row, <<>>)
        BY Zenon DEF AskCreate
      <4> QED
        BY <1>1, <3>1, <4>1
    <3>4. ~AskKey(r)
      <4>1. AskKey(r) => Fail(r) \/ \E op, id, row, work :
                                       Start(r, op, "system", id, row, work)
        BY DEF AskKey
      <4> QED
        BY <1>2, <3>1, <4>1
    <3>5. ~AskMove(r) /\ ~AskDelete(r) /\ ~AskUpdate(r) /\ ~AskUnknown(r)
      BY <1>1, <1>2, <3>1 DEF AskMove, AskDelete, AskUpdate, AskUnknown
    <3> QED
      BY <1>3, <3>2, <3>3, <3>4, <3>5 DEF Ask
  <2>2. PICK id \in DOMAIN entity : \E row : Start(r, "status", "tree", id, row, <<>>)
    BY <2>1 DEF AskStatus
  <2>3. req'[r].at = "tree" /\ req'[r].id = id
    BY <1>1, <2>2, StartIs
  <2> QED
    BY <2>1, <2>3 DEF AskStatus, tables
<1>4. CASE Continue(r)
  <2>1. req[r].op \in {"status", "keyStatus"}
    BY <1>1, <1>4, SameOperation
  <2>2. FindPart(r)
    BY <1>1, <1>4, <2>1 DEF StageOK, Continue, Check, Insert, CommitCreated, CommitFetched,
       FindDetail, SaveDetail, SaveRow, DeleteFind, DeleteData,
       DeleteClosure, DeleteRow, FindTarget, SaveMoved, FindParent, CommitCopy,
       CommitChild, FindChildren, Commits, Doing
  <2>3. PICK e \in DOMAIN entity : Down(r, e)
    BY <1>1, <1>2, <2>1, <2>2 DEF FindPart, StageOK
  <2>4. req'[r].at \in {"level", "tree"} /\ req'[r].id = e
    BY <1>1, <1>2, <2>3, DownIs
  <2> QED
    BY <2>2, <2>4 DEF FindPart, tables
<1> QED
  BY <1>3, <1>4

\* Of the subtree of its entity a status request that has read the tree has
\* updated what is no longer to be done.
Walked(r) ==
    \A e \in Below(entity, req[r].id) :
        \/ entity[e].status = req[r].row.status
        \/ \E edge \in req[r].todo : edge[2] = e
WalkInv ==
    stray \/ \A r \in Request :
                req[r].at \in {"tree", "updates"} =>
                   /\ req[r].id \in DOMAIN entity
                   /\ req[r].at = "updates" => Walked(r)

\* The tree that is read is the whole subtree, and all of it is to be updated.
LEMMA ReadWalks ==
  ASSUME Inv, NEW r \in Request, KeptTree(entity, closure), req[r].id \in DOMAIN entity,
         ReadTree(r), req'[r].at = "updates"
  PROVE  req'[r].id = req[r].id /\ Walked(r)'
<1>1. RequestsOK /\ req = [x \in Request |-> req[x]] /\ DOMAIN req[r] = Fields
  BY DEF Inv, RequestsOK, RequestOK, Fields
<1> DEFINE id == req[r].id
           tree == TreeOf(entity, closure, id)
           above(e) == IF e = id THEN NoParent ELSE entity[e].parent
           todo == {<<above(e), e>> : e \in tree}
<1>2. req' = [req EXCEPT ![r].at = "updates", ![r].todo = todo]
  <2>1. ~Fail(r)
    BY <1>1, EndedOK
  <2> QED
    BY <2>1, Zenon DEF ReadTree
<1>7. ASSUME NEW e \in tree
       PROVE  \E edge \in todo : edge[2] = e
  <2>1. <<above(e), e>> \in todo
    OBVIOUS
  <2>2. <<above(e), e>>[2] = e
    OBVIOUS
  <2> QED
    BY <2>1, <2>2
<1> HIDE DEF todo
<1>3. req'[r].id = req[r].id /\ req'[r].todo = todo
  BY <1>1, <1>2 DEF Fields
<1>4. tree = Below(entity, req[r].id)
  BY TreeIsBelow DEF Inv, TablesOK
<1>5. entity' = entity
  BY DEF ReadTree, tables
<1>6. \A e \in Below(entity', req'[r].id) : \E edge \in req'[r].todo : edge[2] = e
  BY <1>7, <1>3, <1>4, <1>5
<1> QED
  BY <1>3, <1>6 DEF Walked

\* An update leaves the subtree what it is, and takes one entity off the list.
LEMMA UpdateWalks ==
  ASSUME Inv, NEW r \in Request, req[r].id \in DOMAIN entity, Walked(r), UpdateStatus(r)
  PROVE  /\ req'[r].at # "updates"
            => \A e \in Below(entity', req[r].id) : entity'[e].status = req[r].row.status
         /\ req'[r].at \in {"tree", "updates"} => req'[r].id \in DOMAIN entity' /\ Walked(r)'
<1>1. RequestsOK /\ req = [x \in Request |-> req[x]] /\ DOMAIN req[r] = Fields
  BY DEF Inv, RequestsOK, RequestOK, Fields
<1>2. PICK edge \in req[r].todo :
         /\ entity' = IF edge[2] \in DOMAIN entity
                      THEN [entity EXCEPT ![edge[2]].status = req[r].row.status]
                      ELSE entity
         /\ IF req[r].todo = {edge} THEN Answer(r)
            ELSE req' = [req EXCEPT ![r].todo = @ \ {edge}]
  BY DEF UpdateStatus
<1>3. /\ DOMAIN entity' = DOMAIN entity
      /\ \A e \in DOMAIN entity : e # edge[2] => entity'[e] = entity[e]
      /\ \A e \in DOMAIN entity : entity'[e].parent = entity[e].parent
      /\ edge[2] \in DOMAIN entity => entity'[edge[2]].status = req[r].row.status
  <2>1. \A e \in DOMAIN entity : DOMAIN entity[e] = {"name", "type", "parent", "status"}
    BY DEF Inv, TablesOK, IsRow
  <2> QED
    BY <1>2, <2>1
<1>4. Below(entity', req[r].id) = Below(entity, req[r].id)
  BY <1>3, SameBelow
<1>5. Below(entity, req[r].id) \subseteq DOMAIN entity
  BY BelowByParent
<1>6. \A e \in Below(entity', req[r].id) :
         \/ entity'[e].status = req[r].row.status
         \/ \E f \in req[r].todo \ {edge} : f[2] = e
  BY <1>3, <1>4, <1>5 DEF Walked
<1>7. CASE req[r].todo = {edge}
  <2>1. Answer(r)
    BY <1>2, <1>7
  <2>2. req'[r].at \in {"done", "failed"}
    BY <1>1, <2>1, EndedOK
  <2> QED
    BY <1>6, <1>7, <2>2
<1>8. CASE req[r].todo # {edge}
  <2>1. req' = [req EXCEPT ![r].todo = @ \ {edge}]
    BY <1>2, <1>8
  <2>2. /\ req'[r].id = req[r].id /\ req'[r].at = req[r].at /\ req'[r].row = req[r].row
        /\ req'[r].todo = req[r].todo \ {edge}
    BY <1>1, <2>1 DEF Fields
  <2>3. req[r].at = "updates"
    BY DEF UpdateStatus
  <2> QED
    BY <1>3, <1>6, <2>2, <2>3 DEF Walked
<1> QED
  BY <1>7, <1>8

\* A request that walks is at rest.
LEMMA WalksAtRest ==
  ASSUME Inv, NEW r \in Request, Request = {r}, MoveInv, ~stray,
         req[r].at \in {"tree", "updates"}
  PROVE  KeptTree(entity, closure)
<1>1. req[r].op \in {"status", "keyStatus"}
  BY DEF Inv, RequestsOK, RequestOK, StageOK
<1> QED
  BY <1>1 DEF MoveInv, AtRest, Deleting, UnderWay, LeftBehind, Idle

LEMMA StepWalked ==
  ASSUME NEW r \in Request, Request = {r}, Inv, Inv', MoveInv, WalkInv, [Next]_vars
  PROVE  WalkInv'
<1> SUFFICES ASSUME ~stray', req'[r].at \in {"tree", "updates"}
             PROVE  /\ req'[r].id \in DOMAIN entity'
                    /\ req'[r].at = "updates" => Walked(r)'
  BY DEF WalkInv
<1>1. CASE Ask(r) \/ Continue(r)
  <2>1. CASE ReadTree(r) \/ UpdateStatus(r)
    <3>1. ~stray /\ req[r].at \in {"tree", "updates"}
      BY <2>1 DEF ReadTree, UpdateStatus, process
    <3>2. KeptTree(entity, closure)
      BY <3>1, WalksAtRest
    <3>3. req[r].id \in DOMAIN entity /\ (req[r].at = "updates" => Walked(r))
      BY <3>1 DEF WalkInv
    <3>4. CASE ReadTree(r)
      <4>1. req[r].at = "tree" /\ entity' = entity
        BY <3>4 DEF ReadTree, tables
      <4>2. req'[r].at = "updates"
        <5>1. RequestsOK /\ req = [x \in Request |-> req[x]] /\ DOMAIN req[r] = Fields
          BY DEF Inv, RequestsOK, RequestOK, Fields
        <5>2. ~Fail(r)
          BY <5>1, EndedOK
        <5> QED
          BY <3>4, <5>1, <5>2 DEF ReadTree, Fields
      <4> QED
        BY <3>2, <3>3, <3>4, <4>1, <4>2, ReadWalks
    <3>5. CASE UpdateStatus(r)
      <4>1. req[r].at = "updates"
        BY <3>5 DEF UpdateStatus
      <4> QED
        BY <3>3, <3>5, <4>1, UpdateWalks
    <3> QED
      BY <2>1, <3>4, <3>5
  <2>2. CASE ~ReadTree(r) /\ ~UpdateStatus(r)
    BY <1>1, <2>2, WalkBegins
  <2> QED
    BY <2>1, <2>2
<1>2. CASE CutRuns \/ LinkRuns
  <2>1. PICK q \in loose : stray' = (stray \/ req[q.r].at # "moveSave")
    BY <1>2 DEF CutRuns, LinkRuns
  <2>2. entity' = entity /\ req' = req
    BY <1>2 DEF CutRuns, LinkRuns
  <2>3. ~stray
    BY <2>1
  <2> QED
    BY <2>2, <2>3 DEF WalkInv, Walked
<1>4. CASE UNCHANGED vars
  <2>1. entity' = entity /\ req' = req /\ stray' = stray
    BY <1>4 DEF vars
  <2> QED
    BY <2>1 DEF WalkInv, Walked
<1>3. ~End
  BY DEF End
<1> QED
  BY <1>1, <1>2, <1>3, <1>4 DEF Next, LooseRuns, Rejection, Crash

\* When requests come one after the other, moves among them, and no crash came
\* before and no move went wrong, then a status request that succeeds has set the
\* status of every entity that is below its own by the parents, although it has
\* walked the tree that the closure table knows (storage-entity.service.ts,
\* updateStatusRecursively).
THEOREM StatusReachesAll ==
  ASSUME NEW only, Request = {only}
  PROVE  Spec => StatusReachesSubtree
<1> DEFINE Reaches == \A r \in Request :
                         (~stray /\ req[r].at = "updates" /\ req'[r].at = "done")
                         => \A e \in Below(entity', req[r].id) :
                               entity'[e].status = req[r].row.status
<1>1. Init => Inv /\ MoveInv /\ WalkInv
  <2>1. Init => WalkInv
    BY DEF Init, WalkInv, Ended
  <2> QED
    BY <2>1, InitOK, InitMoved
<1>2. (Inv /\ MoveInv /\ WalkInv) /\ [Next]_vars => (Inv /\ MoveInv /\ WalkInv)'
  BY StepOK, StepMoved, StepWalked
<1>3. ASSUME Inv, WalkInv, [Next]_vars
      PROVE  [Reaches]_vars
  <2> SUFFICES ASSUME NEW r \in Request, ~stray, req[r].at = "updates",
                      req'[r].at = "done"
               PROVE  \A e \in Below(entity', req[r].id) :
                         entity'[e].status = req[r].row.status
    BY <1>3
  <2>1. Next /\ ~CutRuns /\ ~LinkRuns
    BY <1>3 DEF CutRuns, LinkRuns, vars
  <2>2. ~End
    BY DEF End, Ended
  <2>3. Ask(r) \/ Continue(r)
    BY <2>1, <2>2 DEF Next, LooseRuns, Rejection, Crash
  <2>4. req[r].op \in {"status", "keyStatus"}
    BY <1>3 DEF Inv, RequestsOK, RequestOK, StageOK
  <2>5. UpdateStatus(r)
    <3>1. ~Idle(r)
      BY <2>4 DEF Idle
    <3>2. ~Ask(r)
      BY <3>1 DEF Ask, AskCreate, AskKey, AskStatus, AskUpdate, AskDelete, AskMove,
           AskDuplicate, AskUnknown, May
    <3> QED
      BY <2>3, <2>4, <3>2 DEF Continue, Check, Insert, CommitCreated, FindPart,
         CommitFetched, ReadTree, FindDetail, SaveDetail, SaveRow, DeleteFind, DeleteData,
         DeleteClosure, DeleteRow, FindTarget, SaveMoved, FindParent, CommitCopy,
         CommitChild, FindChildren, Commits, Doing
  <2>6. req[r].id \in DOMAIN entity /\ Walked(r)
    BY <1>3 DEF WalkInv
  <2> QED
    BY <1>3, <2>5, <2>6, UpdateWalks
<1> QED
  BY <1>1, <1>2, <1>3, PTL DEF Spec, StatusReachesSubtree
=============================================================================
