------------------------ MODULE MetricCollectionProofs ------------------------
(***************************************************************************)
(* Proofs, for any tables to begin with and any requests, about the slots  *)
(* that importers make and about what the materialized views show.         *)
(***************************************************************************)
EXTENDS MetricCollection, EntityTablesProofs, FiniteSetTheorems

-----------------------------------------------------------------------------
(* Ids.                                                                    *)

\* A set of numbers has a least one.
LEMMA LeastNat ==
  ASSUME NEW T \in SUBSET Nat, T # {}
  PROVE  \E x \in T : \A y \in T : x <= y
<1> DEFINE R == OpToRel(<, Nat)
<1>1. IsWellFoundedOn(R, Nat)
  BY NatLessThanWellFounded
<1>2. \A a, b \in Nat : <<a, b>> \in R <=> a < b
  BY DEF OpToRel
<1> HIDE DEF R
<1>3. \E x \in T : \A y \in T : ~(<<y, x>> \in R)
  BY <1>1, WFMin, Zenon
<1>4. PICK x \in T : \A y \in T : ~(<<y, x>> \in R)
  BY <1>3
<1>5. \A y \in T : ~(y < x)
  BY <1>2, <1>4
<1>6. \A y \in T : x <= y
  BY <1>5
<1> QED
  BY <1>6

UpTo(ids) == \E k \in Nat : ids \subseteq 1..k

\* The largest of some ids is one of them.
LEMMA MaxIs ==
  ASSUME NEW ids, UpTo(ids), ids # {}
  PROVE  Max(ids) \in ids /\ \A e \in ids : Max(ids) >= e
<1> DEFINE bounds == {k \in Nat : ids \subseteq 1..k}
<1>1. bounds \in SUBSET Nat /\ bounds # {}
  BY DEF UpTo
<1>2. PICK k \in bounds : \A j \in bounds : k <= j
  BY <1>1, LeastNat
<1>3. k \in ids
  <2> SUFFICES ASSUME k \notin ids PROVE FALSE
    OBVIOUS
  <2>1. k \in Nat /\ ids \subseteq 1..k
    BY <1>2
  <2>2. k # 0
    <3>1. PICK e : e \in ids
      OBVIOUS
    <3>2. e \in 1..k
      BY <2>1, <3>1
    <3> QED
      BY <3>2
  <2>3. k - 1 \in bounds
    BY <2>1, <2>2
  <2> QED
    BY <1>2, <2>1, <2>3
<1>4. \E x \in ids : \A e \in ids : x >= e
  BY <1>2, <1>3
<1> QED
  BY <1>4 DEF Max

\* A new id is not that of a row.
LEMMA NewIdIs ==
  ASSUME NEW table, UpTo(DOMAIN table)
  PROVE  /\ NewId(table) \in Nat /\ NewId(table) >= 1
         /\ \A e \in DOMAIN table : e \in Nat /\ e < NewId(table)
         /\ UpTo(DOMAIN table \cup {NewId(table)})
<1>1. PICK k \in Nat : DOMAIN table \subseteq 1..k
  BY DEF UpTo
<1>2. /\ NewId(table) \in Nat /\ NewId(table) >= 1
      /\ \A e \in DOMAIN table : e < NewId(table)
  <2>1. CASE DOMAIN table = {}
    BY <2>1 DEF NewId
  <2>2. CASE DOMAIN table # {}
    BY <1>1, <2>2, MaxIs DEF NewId
  <2> QED
    BY <2>1, <2>2
<1>3. DOMAIN table \cup {NewId(table)} \subseteq 1..(k + NewId(table))
  BY <1>1, <1>2
<1>4. k + NewId(table) \in Nat
  BY <1>2
<1> QED
  BY <1>1, <1>2, <1>3, <1>4 DEF UpTo

LEMMA NumberedUpTo ==
  ASSUME NEW table, Numbered(table)
  PROVE  UpTo(DOMAIN table) /\ IsFiniteSet(DOMAIN table)
BY FS_CardinalityType DEF Numbered, UpTo

-----------------------------------------------------------------------------
(* The tables and the requests.                                            *)

EntityFields == {"name", "type", "parent", "status", "serial", "detail"}
RowFields == {"table", "owner", "type", "at", "value"}

EntitiesOK ==
    /\ UpTo(DOMAIN entities)
    /\ CZ_Chodov \in DOMAIN entities
    /\ \A e \in DOMAIN entities :
          /\ DOMAIN entities[e] = EntityFields
          /\ entities[e].parent \in DOMAIN entities \cup {NoParent}
    /\ Pairs(closure, DOMAIN entities)

\* What is in the tables that have views has a date.
IsDated(row) == row.table \in Range(Views) => row.at \in Int

RowsOK ==
    /\ UpTo(DOMAIN rows)
    /\ \A n \in DOMAIN rows :
          /\ DOMAIN rows[n] = RowFields
          /\ rows[n].owner \in DOMAIN entities
          /\ IsDated(rows[n])

ExternalsOK ==
    \A x \in DOMAIN externals :
        /\ DOMAIN externals[x] = {"owner", "value"}
        /\ externals[x].owner \in DOMAIN entities \cup {NoOne}

Local == {"at", "req", "parts", "under", "todo", "got", "old", "status", "before"}
KeyPart == [name : STRING, type : STRING]

\* The entity is one that the last part of the key names.
Names(l) == /\ entities[l.under].name = Leaf(l.req).name
            /\ entities[l.under].type = Leaf(l.req).type

\* What an item has found has its slot.
Found(l, i) ==
    l.got[i] # 0 => /\ l.got[i] \in DOMAIN rows
                    /\ SlotOf(rows[l.got[i]]) = Slot(l, i)

Searching(l) ==
    /\ l.parts \in Seq(KeyPart) /\ l.parts # <<>>
    /\ l.parts[Len(l.parts)] = Leaf(l.req)

\* A request is at a place of its collector, with an entity that is there.
CallOK(l) ==
    l.at # "idle" =>
       /\ DOMAIN l = Local
       /\ l.req \in scenario.requests
       /\ l.under \in DOMAIN entities
       /\ \/ /\ l.req.collector # "externals"
             /\ \/ l.at \in {"find", "insert"} /\ Searching(l)
                \/ l.at = "factory" /\ Names(l)
                \/ /\ l.at \in {"rows", "save"} /\ Names(l)
                   /\ Fits(l.req.collector,
                           getByStorageEntityType(Leaf(l.req).type, l.req.metric))
             /\ DOMAIN l.got = DOMAIN l.req.data /\ l.todo \subseteq DOMAIN l.req.data
             /\ l.at \in {"find", "insert", "factory"} => l.todo = DOMAIN l.req.data
             /\ l.at = "save" => l.todo = {}
             /\ \A i \in DOMAIN l.req.data : Found(l, i)
             /\ \A i \in l.todo : l.got[i] = 0
          \/ /\ l.req.collector = "externals"
             /\ l.at \in {"fetch", "delete", "create"}

CallsOK == DOMAIN call = Call /\ \A c \in Call : CallOK(call[c])

\* What the views show, and will show, are rows of the tables that they are of,
\* one of each metric.
Stands(v) == /\ v.table \in Range(Views) /\ v.at \in Int
             /\ \E n \in DOMAIN rows : SlotOf(rows[n]) = SlotOf(v)
OneOfEach(shown_) == \A v, w \in shown_ : MetricOf(v) = MetricOf(w) => v = w

RefreshOK ==
    /\ refresh.at \in 0..Len(Views) /\ waiting \in 0..1
    /\ \A v \in refresh.taken : \E i \in 1..refresh.at : v.table = Views[i]
    /\ \A v \in view \cup refresh.taken : Stands(v)
    /\ OneOfEach(view) /\ OneOfEach(refresh.taken)

Inv == /\ scenario \in Seed
       /\ EntitiesOK /\ RowsOK /\ ExternalsOK /\ CallsOK /\ RefreshOK

-----------------------------------------------------------------------------
(* What is added to it for the slots.                                      *)

\* An item that has found no row will make one: there is none, unless another
\* request, or another item, works on the entity.
Missed(l) ==
    \A i \in DOMAIN l.req.data \ l.todo :
        l.got[i] = 0 => \A n \in DOMAIN rows : SlotOf(rows[n]) # Slot(l, i)

Races ==
    \A c \in Call : Busy(c) =>
        /\ \A d \in Call : d # c /\ Busy(d) /\ Leaf(call[d].req) = Leaf(call[c].req)
                           => Leaf(call[c].req) \in raced
        /\ Repeats(call[c].req) => Leaf(call[c].req) \in raced

SlotInv ==
    /\ SlotsUnique
    /\ Races
    /\ \A c \in Call :
          call[c].at \in {"rows", "save"} /\ Leaf(call[c].req) \notin raced
          => Missed(call[c])

\* What is added to it for the views.
NoneBack ==
    \A old \in view, new \in refresh.taken :
        MetricOf(old) = MetricOf(new) /\ new.at < old.at => SlotOf(old) \in refresh.nulls

-----------------------------------------------------------------------------
(* What steps keep.                                                        *)

\* Entities and rows stay, with their names and slots.
Grown ==
    /\ scenario' = scenario
    /\ DOMAIN entities \subseteq DOMAIN entities'
    /\ \A e \in DOMAIN entities : /\ entities'[e].name = entities[e].name
                                  /\ entities'[e].type = entities[e].type
    /\ DOMAIN rows \subseteq DOMAIN rows'
    /\ \A n \in DOMAIN rows : SlotOf(rows'[n]) = SlotOf(rows[n])

TablesOK == EntitiesOK /\ RowsOK /\ ExternalsOK

LEMMA ReadsKeeps ==
  ASSUME TablesOK, UNCHANGED tables, scenario' = scenario
  PROVE  Grown /\ TablesOK'
<1>1. entities' = entities /\ closure' = closure /\ rows' = rows /\ externals' = externals
  BY DEF tables
<1> QED
  BY <1>1 DEF Grown, TablesOK, EntitiesOK, RowsOK, ExternalsOK, IsDated

LEMMA CallKept ==
  ASSUME Inv, Grown, NEW c \in Call, call'[c] = call[c]
  PROVE  CallOK(call[c])'
<1>1. CallOK(call[c]) /\ scenario' = scenario
  BY DEF Inv, CallsOK, Grown
<1> DEFINE l == call[c]
<1>2. CASE l.at = "idle"
  BY <1>2 DEF CallOK
<1>3. CASE l.at # "idle"
  <2>1. l.under \in DOMAIN entities /\ l.under \in DOMAIN entities'
    BY <1>1, <1>3 DEF CallOK, Grown
  <2>2. /\ entities'[l.under].name = entities[l.under].name
        /\ entities'[l.under].type = entities[l.under].type
    BY <2>1 DEF Grown
  <2>3. ASSUME NEW i, Found(l, i)
        PROVE  l.got[i] # 0 => /\ l.got[i] \in DOMAIN rows'
                               /\ SlotOf(rows'[l.got[i]]) = Slot(l, i)
    BY <2>3 DEF Found, Grown
  <2> QED
    BY <1>1, <1>3, <2>1, <2>2, <2>3 DEF CallOK, Names, Found, Searching
<1> QED
  BY <1>2, <1>3

LEMMA StandsKept ==
  ASSUME Inv, Grown, UNCHANGED shown
  PROVE  RefreshOK'
<1>1. view' = view /\ refresh' = refresh /\ waiting' = waiting
  BY DEF shown
<1>2. ASSUME NEW v, Stands(v)
      PROVE  Stands(v)'
  BY <1>2 DEF Stands, Grown
<1> QED
  BY <1>1, <1>2 DEF Inv, RefreshOK, OneOfEach

\* A step of one request, after which the tables are as they should be.
LEMMA CallGoes ==
  ASSUME Inv, Grown, TablesOK', UNCHANGED shown, NEW c \in Call, DOMAIN call' = Call,
         \A d \in Call : d # c => call'[d] = call[d], CallOK(call[c])'
  PROVE  Inv'
<1>1. scenario' \in Seed
  BY DEF Inv, Grown
<1>2. ASSUME NEW d \in Call
      PROVE  CallOK(call[d])'
  BY CallKept, <1>2
<1>3. CallsOK'
  BY <1>2 DEF CallsOK
<1> QED
  BY <1>1, <1>3, StandsKept DEF Inv, TablesOK

LEMMA StepsIs ==
  ASSUME CallsOK, NEW c \in Call, NEW l, Steps(c, l)
  PROVE  /\ DOMAIN call' = Call /\ call'[c] = l
         /\ \A d \in Call : d # c => call'[d] = call[d]
         /\ UNCHANGED shown /\ scenario' = scenario /\ raced' = raced
BY DEF CallsOK, Steps, rest

\* A request that ends.
LEMMA EndsOK ==
  ASSUME Inv, Grown, TablesOK', NEW c \in Call, Steps(c, Idle)
  PROVE  Inv'
<1>1. /\ DOMAIN call' = Call /\ call'[c] = Idle /\ UNCHANGED shown
      /\ \A d \in Call : d # c => call'[d] = call[d]
  BY StepsIs DEF Inv
<1>2. CallOK(call[c])'
  BY <1>1 DEF CallOK, Idle
<1> QED
  BY <1>1, <1>2, CallGoes

-----------------------------------------------------------------------------
(* The beginning.                                                          *)

LEMMA InitOK ==
  ASSUME Init
  PROVE  Inv
<1>1. scenario \in Seed /\ TablesBegin(scenario)
  BY MetricCollectionAssumption DEF Init
<1>2. /\ entities = scenario.entities /\ closure = scenario.closure
      /\ rows = scenario.rows /\ externals = scenario.externals
      /\ view = scenario.view
  BY DEF Init
<1>3. EntitiesOK
  <2>1. \A e \in DOMAIN entities : DOMAIN entities[e] = EntityFields
    BY <1>1, <1>2 DEF TablesBegin, Entity, EntityFields
  <2> QED
    BY <1>1, <1>2, <2>1, NumberedUpTo DEF TablesBegin, EntitiesOK, Pairs
<1>4. RowsOK
  BY <1>1, <1>2, NumberedUpTo DEF TablesBegin, RowsOK, RowFields, IsDated
<1>5. ExternalsOK
  BY <1>1, <1>2 DEF TablesBegin, ExternalsOK
<1>6. CallsOK
  BY DEF Init, CallsOK, CallOK, Idle
<1>7. RefreshOK
  <2>1. /\ refresh.at = 0 /\ refresh.taken = {} /\ waiting = 0
    BY DEF Init, NoRefresh
  <2>2. Len(Views) = 5
    BY DEF Views
  <2>3. OneOfEach(view)
    BY <1>1, <1>2 DEF TablesBegin, OneOfEach
  <2>4. ASSUME NEW v \in view
        PROVE  Stands(v)
    <3>1. v \in Range(rows) /\ v.table \in Range(Views)
      BY <1>1, <1>2, <2>4 DEF TablesBegin
    <3>2. PICK n \in DOMAIN rows : rows[n] = v
      BY <3>1 DEF Range
    <3> QED
      BY <1>4, <3>1, <3>2 DEF Stands, RowsOK, IsDated
  <2>5. OneOfEach(refresh.taken)
    BY <2>1 DEF OneOfEach
  <2> QED
    BY <2>1, <2>2, <2>3, <2>4, <2>5 DEF RefreshOK
<1> QED
  BY <1>1, <1>3, <1>4, <1>5, <1>6, <1>7 DEF Inv

-----------------------------------------------------------------------------
(* The request comes in and looks for its entity.                          *)

LEMMA AskKeeps ==
  ASSUME Inv, NEW c \in Call, Ask(c)
  PROVE  Inv' /\ Grown
<1>1. /\ UNCHANGED tables /\ UNCHANGED shown /\ scenario' = scenario
      /\ scenario \in Seed /\ RequestsBegin(scenario) /\ TablesOK /\ CallsOK
  BY MetricCollectionAssumption DEF Ask, Inv, TablesOK
<1>2. Grown /\ TablesOK'
  BY <1>1, ReadsKeeps
<1> DEFINE Arrived(r) ==
      [at |-> IF r.collector = "externals" THEN "fetch" ELSE "find",
       req |-> r, parts |-> r.key, under |-> CZ_Chodov,
       todo |-> DOMAIN r.data, got |-> [i \in DOMAIN r.data |-> 0],
       old |-> {}, status |-> "", before |-> tables]
<1>3. PICK r \in scenario.requests :
         call' = [call EXCEPT ![c] = IF Accepts(r) THEN Arrived(r) ELSE @]
  BY Zenon DEF Ask
<1>4. /\ DOMAIN call' = Call
      /\ call'[c] = IF Accepts(r) THEN Arrived(r) ELSE call[c]
      /\ \A d \in Call : d # c => call'[d] = call[d]
  BY <1>1, <1>3 DEF CallsOK
<1>5. CallOK(call[c])'
  <2>1. CASE ~Accepts(r)
    BY <1>2, <1>4, <2>1, CallKept
  <2>2. CASE Accepts(r)
    <3>1. call'[c] = Arrived(r)
      BY <1>4, <2>2
    <3>0. /\ Arrived(r).at = IF r.collector = "externals" THEN "fetch" ELSE "find"
          /\ Arrived(r).req = r /\ Arrived(r).parts = r.key
          /\ Arrived(r).under = CZ_Chodov /\ Arrived(r).todo = DOMAIN r.data
          /\ Arrived(r).got = [i \in DOMAIN r.data |-> 0]
          /\ DOMAIN Arrived(r) = Local
      BY DEF Local
    <3> HIDE DEF Arrived
    <3>2. /\ r.collector \in {"single", "multi", "pg", "externals"}
          /\ r.key \in Seq(KeyPart) /\ r.key # <<>>
      BY <1>1 DEF RequestsBegin, KeyPart
    <3>3. CZ_Chodov \in DOMAIN entities'
      BY <1>2 DEF TablesOK, EntitiesOK
    <3>4. r \in scenario'.requests
      BY <1>1
    <3>5. DOMAIN call'[c] = Local
      BY <3>1, <3>0
    <3>6. CASE r.collector = "externals"
      BY <3>0, <3>1, <3>3, <3>4, <3>5, <3>6 DEF CallOK
    <3>7. CASE r.collector # "externals"
      <4>1. /\ call'[c].at = "find" /\ call'[c].req = r /\ call'[c].parts = r.key
            /\ call'[c].under = CZ_Chodov /\ call'[c].todo = DOMAIN r.data
            /\ DOMAIN call'[c].got = DOMAIN r.data
            /\ \A i \in DOMAIN r.data : call'[c].got[i] = 0
        BY <3>0, <3>1, <3>7
      <4>2. Searching(call[c])'
        BY <3>2, <4>1 DEF Searching, Leaf
      <4>3. \A i \in DOMAIN r.data : Found(call[c], i)'
        BY <4>1 DEF Found
      <4> QED
        BY <3>3, <3>4, <3>5, <3>7, <4>1, <4>2, <4>3 DEF CallOK
    <3> QED
      BY <3>6, <3>7
  <2> QED
    BY <2>1, <2>2
<1> QED
  BY <1>1, <1>2, <1>4, <1>5, CallGoes

\* What is left of a key.
LEMMA TailIs ==
  ASSUME NEW S, NEW s \in Seq(S), s # <<>>
  PROVE  /\ Head(s) \in S /\ Len(s) >= 1 /\ Len(s) \in Nat
         /\ Len(s) = 1 => s[Len(s)] = Head(s)
         /\ Len(s) # 1 => /\ Tail(s) \in Seq(S) /\ Tail(s) # <<>>
                          /\ Tail(s)[Len(Tail(s))] = s[Len(s)]
<1>1. Len(s) \in Nat /\ Len(s) # 0 /\ Head(s) = s[1] /\ s[1] \in S
  OBVIOUS
<1>2. PICK n \in Nat : n = Len(s) /\ n >= 1
  BY <1>1
<1>3. ASSUME n # 1
      PROVE  /\ Tail(s) \in Seq(S) /\ Len(Tail(s)) = n - 1 /\ Tail(s) # <<>>
             /\ Tail(s)[n - 1] = s[n]
  <2>1. Tail(s) \in Seq(S) /\ Len(Tail(s)) = n - 1
    BY <1>2
  <2>2. n - 1 \in 1..Len(Tail(s)) /\ n - 1 # 0
    BY <1>2, <1>3, <2>1
  <2>3. Tail(s)[n - 1] = s[n - 1 + 1]
    BY <2>2
  <2>4. Len(<<>>) = 0
    OBVIOUS
  <2> QED
    BY <1>2, <2>1, <2>2, <2>3, <2>4
<1> QED
  BY <1>1, <1>2, <1>3

\* The fields of a request that goes on to an entity.
LEMMA DownIs ==
  ASSUME NEW l, NEW e, DOMAIN l = Local
  PROVE  /\ DOMAIN Down(l, e) = Local
         /\ Down(l, e).before = l.before
         /\ Down(l, e).req = l.req /\ Down(l, e).todo = l.todo /\ Down(l, e).got = l.got
         /\ Down(l, e).under = e /\ Down(l, e).parts = Tail(l.parts)
         /\ Down(l, e).at = IF Len(l.parts) = 1 THEN "factory" ELSE "find"
BY DEF Down, Local

LEMMA GoesDown ==
  ASSUME Inv, Grown, TablesOK', NEW c \in Call, call[c].at \in {"find", "insert"},
         NEW e \in DOMAIN entities',
         entities'[e].name = Head(call[c].parts).name,
         entities'[e].type = Head(call[c].parts).type,
         Steps(c, Down(call[c], e))
  PROVE  Inv'
<1> DEFINE l == call[c]
<1>1. /\ CallsOK /\ DOMAIN l = Local /\ l.req \in scenario.requests
      /\ l.req.collector # "externals" /\ Searching(l)
      /\ DOMAIN l.got = DOMAIN l.req.data /\ l.todo = DOMAIN l.req.data
      /\ \A i \in l.todo : l.got[i] = 0
  <2>1. CallOK(l) /\ CallsOK
    BY DEF Inv, CallsOK
  <2> QED
    BY <2>1 DEF CallOK
<1>2. /\ DOMAIN call' = Call /\ call'[c] = Down(l, e) /\ UNCHANGED shown
      /\ \A d \in Call : d # c => call'[d] = call[d]
      /\ scenario' = scenario
  BY <1>1, StepsIs
<1>3. /\ l.parts \in Seq(KeyPart) /\ l.parts # <<>>
      /\ l.parts[Len(l.parts)] = Leaf(l.req)
  BY <1>1 DEF Searching
<1>4. /\ DOMAIN call'[c] = Local /\ call'[c].req = l.req /\ call'[c].todo = l.todo
      /\ call'[c].got = l.got /\ call'[c].under = e /\ call'[c].parts = Tail(l.parts)
      /\ call'[c].at = IF Len(l.parts) = 1 THEN "factory" ELSE "find"
  BY <1>1, <1>2, DownIs
<1>5. \A i \in DOMAIN l.req.data : Found(call[c], i)'
  BY <1>1, <1>4 DEF Found
<1>6. CASE Len(l.parts) = 1
  <2>1. Head(l.parts) = Leaf(l.req)
    BY <1>3, <1>6, TailIs
  <2>2. Names(call[c])'
    BY <1>4, <2>1 DEF Names
  <2>3. CallOK(call[c])'
    BY <1>1, <1>2, <1>4, <1>5, <1>6, <2>2 DEF CallOK
  <2> QED
    BY <1>2, <2>3, CallGoes
<1>7. CASE Len(l.parts) # 1
  <2>1. Searching(call[c])'
    BY <1>3, <1>4, <1>7, TailIs DEF Searching
  <2>2. CallOK(call[c])'
    BY <1>1, <1>2, <1>4, <1>5, <1>7, <2>1 DEF CallOK
  <2> QED
    BY <1>2, <2>2, CallGoes
<1> QED
  BY <1>6, <1>7

LEMMA FindPartKeeps ==
  ASSUME Inv, NEW c \in Call, FindPart(c)
  PROVE  Inv' /\ Grown
<1> DEFINE l == call[c]
<1> DEFINE found == findOneByName(Head(l.parts), l.under)
<1>1. CallOK(l) /\ CallsOK /\ l.at = "find" /\ TablesOK
  BY DEF FindPart, At, Inv, CallsOK, TablesOK
<1>2. CASE found = {}
  <2>1. Steps(c, [l EXCEPT !.at = "insert"]) /\ Reads
    BY <1>2 DEF FindPart
  <2>2. /\ DOMAIN call' = Call /\ call'[c] = [l EXCEPT !.at = "insert"]
        /\ \A d \in Call : d # c => call'[d] = call[d]
        /\ UNCHANGED shown /\ scenario' = scenario
    BY <1>1, <2>1, StepsIs
  <2>3. Grown /\ TablesOK'
    BY <1>1, <2>1, <2>2, ReadsKeeps DEF Reads
  <2>4. /\ DOMAIN l = Local /\ l.req \in scenario.requests /\ l.under \in DOMAIN entities
        /\ l.req.collector # "externals" /\ Searching(l)
        /\ DOMAIN l.got = DOMAIN l.req.data /\ l.todo = DOMAIN l.req.data
        /\ \A i \in l.todo : l.got[i] = 0
    BY <1>1 DEF CallOK
  <2>5. /\ DOMAIN call'[c] = Local /\ call'[c].req = l.req /\ call'[c].todo = l.todo
        /\ call'[c].got = l.got /\ call'[c].under = l.under /\ call'[c].parts = l.parts
        /\ call'[c].at = "insert"
    BY <2>2, <2>4 DEF Local
  <2>6. \A i \in DOMAIN l.req.data : Found(call[c], i)'
    BY <2>4, <2>5 DEF Found
  <2>7. Searching(call[c])'
    BY <2>4, <2>5 DEF Searching
  <2>8. CallOK(call[c])'
    BY <2>2, <2>3, <2>4, <2>5, <2>6, <2>7 DEF CallOK, Grown
  <2> QED
    BY <2>2, <2>3, <2>8, CallGoes
<1>3. CASE found # {}
  <2>1. Reads
    BY DEF FindPart
  <2>2. PICK e \in found : Steps(c, Down(l, e))
    BY <1>3 DEF FindPart
  <2>3. scenario' = scenario
    BY <1>1, <2>2, StepsIs
  <2>4. Grown /\ TablesOK' /\ entities' = entities
    BY <1>1, <2>1, <2>3, ReadsKeeps DEF Reads, tables
  <2>5. /\ e \in DOMAIN entities /\ entities[e].name = Head(l.parts).name
        /\ entities[e].type = Head(l.parts).type
    BY <2>2 DEF findOneByName
  <2> HIDE DEF found
  <2> QED
    BY <1>1, <2>2, <2>4, <2>5, GoesDown
<1> QED
  BY <1>2, <1>3

LEMMA InsertKeeps ==
  ASSUME Inv, NEW c \in Call, Insert(c)
  PROVE  Inv' /\ Grown
<1> DEFINE l == call[c]
<1> DEFINE part == Head(l.parts)
<1> DEFINE e == NewId(entities)
<1> DEFINE new == [name |-> part.name, type |-> part.type, parent |-> l.under,
                   status |-> "ACTIVE", serial |-> "", detail |-> FALSE]
<1>1. /\ CallOK(l) /\ CallsOK /\ l.at = "insert" /\ EntitiesOK /\ RowsOK /\ ExternalsOK
      /\ Pairs(closure, DOMAIN entities)
  BY DEF Insert, At, Inv, CallsOK, EntitiesOK
<1>2. l.under \in DOMAIN entities
  BY <1>1 DEF CallOK
<1>3. /\ entities' = WithRow(entities, e, new)
      /\ closure' = closure \cup LinkNew(closure, e, l.under)
      /\ Steps(c, Down(l, e)) /\ rows' = rows /\ externals' = externals
  BY Zenon DEF Insert
<1>4. /\ \A d \in DOMAIN entities : d # e
      /\ UpTo(DOMAIN entities \cup {e})
  BY <1>1, NewIdIs DEF EntitiesOK
<1>5. /\ new.name = part.name /\ new.type = part.type /\ new.parent = l.under
      /\ DOMAIN new = EntityFields
  BY DEF EntityFields
<1> HIDE DEF new, e
<1>6. /\ DOMAIN entities' = DOMAIN entities \cup {e} /\ entities'[e] = new
      /\ \A d \in DOMAIN entities : entities'[d] = entities[d]
  BY <1>3, <1>4 DEF WithRow
<1>7. scenario' = scenario
  BY <1>1, <1>3, StepsIs
<1>8. Grown
  BY <1>3, <1>6, <1>7 DEF Grown
<1>9. Pairs(closure', DOMAIN entities')
  BY <1>1, <1>2, <1>3, <1>6, PairsLinked
<1>10. EntitiesOK'
  BY <1>1, <1>2, <1>4, <1>5, <1>6, <1>9 DEF EntitiesOK
<1>11. RowsOK' /\ ExternalsOK'
  BY <1>1, <1>3, <1>6 DEF RowsOK, ExternalsOK, IsDated
<1>12. /\ e \in DOMAIN entities' /\ entities'[e].name = part.name
       /\ entities'[e].type = part.type
  BY <1>5, <1>6
<1> QED
  BY <1>1, <1>3, <1>8, <1>10, <1>11, <1>12, GoesDown DEF TablesOK

LEMMA FactoryKeeps ==
  ASSUME Inv, NEW c \in Call, Factory(c)
  PROVE  Inv' /\ Grown
<1> DEFINE l == call[c]
<1> DEFINE table == getByStorageEntityType(Leaf(l.req).type, l.req.metric)
<1>1. CallOK(l) /\ CallsOK /\ l.at = "factory" /\ TablesOK
  BY DEF Factory, At, Inv, CallsOK, TablesOK
<1>2. /\ Steps(c, IF Fits(l.req.collector, table) THEN [l EXCEPT !.at = "rows"] ELSE Idle)
      /\ UNCHANGED tables
  BY DEF Factory, Reads
<1>3. scenario' = scenario
  BY <1>1, <1>2, StepsIs
<1>4. Grown /\ TablesOK'
  BY <1>1, <1>2, <1>3, ReadsKeeps
<1>5. CASE ~Fits(l.req.collector, table)
  BY <1>2, <1>4, <1>5, EndsOK
<1>6. CASE Fits(l.req.collector, table)
  <2>1. Steps(c, [l EXCEPT !.at = "rows"])
    BY <1>2, <1>6
  <2>2. /\ DOMAIN call' = Call /\ call'[c] = [l EXCEPT !.at = "rows"]
        /\ \A d \in Call : d # c => call'[d] = call[d]
        /\ UNCHANGED shown
    BY <1>1, <2>1, StepsIs
  <2>3. /\ DOMAIN l = Local /\ l.req \in scenario.requests /\ l.under \in DOMAIN entities
        /\ l.req.collector # "externals" /\ Names(l)
        /\ DOMAIN l.got = DOMAIN l.req.data /\ l.todo = DOMAIN l.req.data
        /\ \A i \in l.todo : l.got[i] = 0
    BY <1>1 DEF CallOK
  <2>4. /\ DOMAIN call'[c] = Local /\ call'[c].req = l.req /\ call'[c].todo = l.todo
        /\ call'[c].got = l.got /\ call'[c].under = l.under /\ call'[c].at = "rows"
    BY <2>2, <2>3 DEF Local
  <2>5. \A i \in DOMAIN l.req.data : Found(call[c], i)'
    BY <2>3, <2>4 DEF Found
  <2>6. entities' = entities
    BY <1>2 DEF tables
  <2>7. Names(call[c])'
    BY <2>3, <2>4, <2>6 DEF Names
  <2>8. CallOK(call[c])'
    BY <1>3, <1>6, <2>3, <2>4, <2>5, <2>6, <2>7 DEF CallOK
  <2> QED
    BY <1>3, <1>4, <2>2, <2>8, CallGoes
<1> QED
  BY <1>5, <1>6

-----------------------------------------------------------------------------
(* The rows of the items are looked up and saved.                          *)

\* The fields of a request that has looked up an item.
Looked(l, i) ==
    [l EXCEPT !.todo = @ \ {i}, !.at = IF l.todo = {i} THEN "save" ELSE @]

Got(l, i, n) == [Looked(l, i) EXCEPT !.got[i] = n]

LEMMA LookedIs ==
  ASSUME NEW l, NEW i, NEW n, DOMAIN l = Local, i \in DOMAIN l.got
  PROVE  /\ DOMAIN Looked(l, i) = Local
         /\ Looked(l, i).req = l.req /\ Looked(l, i).under = l.under
         /\ Looked(l, i).before = l.before
         /\ Looked(l, i).todo = l.todo \ {i} /\ Looked(l, i).got = l.got
         /\ Looked(l, i).at = IF l.todo = {i} THEN "save" ELSE l.at
         /\ LET m == Got(l, i, n)
            IN /\ DOMAIN m = Local
               /\ m.req = l.req /\ m.under = l.under /\ m.before = l.before
               /\ m.todo = l.todo \ {i} /\ DOMAIN m.got = DOMAIN l.got
               /\ m.got[i] = n /\ \A j \in DOMAIN l.got : j # i => m.got[j] = l.got[j]
               /\ m.at = IF l.todo = {i} THEN "save" ELSE l.at
<1>1. /\ DOMAIN Looked(l, i) = Local
      /\ Looked(l, i).req = l.req /\ Looked(l, i).under = l.under
      /\ Looked(l, i).before = l.before
      /\ Looked(l, i).todo = l.todo \ {i} /\ Looked(l, i).got = l.got
      /\ Looked(l, i).at = IF l.todo = {i} THEN "save" ELSE l.at
  BY DEF Looked, Local
<1> DEFINE k == Looked(l, i)
<1> HIDE DEF k
<1>2. /\ DOMAIN k = Local
      /\ k.req = l.req /\ k.under = l.under /\ k.before = l.before
      /\ k.todo = l.todo \ {i} /\ k.got = l.got
      /\ k.at = IF l.todo = {i} THEN "save" ELSE l.at
  BY <1>1 DEF k
<1> DEFINE m == [k EXCEPT !.got[i] = n]
<1>3. m.got = [l.got EXCEPT ![i] = n]
  BY <1>2 DEF Local
<1>4. /\ DOMAIN m = Local /\ m.req = k.req /\ m.under = k.under
      /\ m.before = k.before
      /\ m.todo = k.todo /\ m.at = k.at
  BY <1>2 DEF Local
<1> HIDE DEF m
<1>5. /\ DOMAIN m.got = DOMAIN l.got /\ m.got[i] = n
      /\ \A j \in DOMAIN l.got : j # i => m.got[j] = l.got[j]
  BY <1>3
<1> QED
  BY <1>1, <1>2, <1>4, <1>5 DEF k, m, Got

\* What a request at the look-up of its rows has.
LEMMA RowsPhase ==
  ASSUME Inv, NEW c \in Call, call[c].at \in {"rows", "save"}
  PROVE  LET l == call[c]
         IN /\ DOMAIN l = Local /\ l.req \in scenario.requests /\ l.under \in DOMAIN entities
            /\ l.req.collector # "externals" /\ Names(l)
            /\ Fits(l.req.collector,
                    getByStorageEntityType(Leaf(l.req).type, l.req.metric))
            /\ DOMAIN l.got = DOMAIN l.req.data /\ l.todo \subseteq DOMAIN l.req.data
            /\ l.at = "save" => l.todo = {}
            /\ \A i \in DOMAIN l.req.data : Found(l, i)
            /\ \A i \in l.todo : l.got[i] = 0
            /\ TablesOK /\ CallsOK
<1>1. CallOK(call[c]) /\ CallsOK /\ TablesOK
  BY DEF Inv, CallsOK, TablesOK
<1> QED
  BY <1>1 DEF CallOK

\* A look-up of an item: nothing is found, or a row of its slot.
LEMMA FindRowIs ==
  ASSUME Inv, NEW c \in Call, FindRow(c)
  PROVE  LET l == call[c]
         IN \E i \in l.todo :
               /\ call'[c].at = IF l.todo = {i} THEN "save" ELSE "rows"
               /\ call'[c].todo = l.todo \ {i} /\ call'[c].before = l.before
               /\ DOMAIN call'[c] = Local /\ call'[c].req = l.req
               /\ call'[c].under = l.under /\ DOMAIN call'[c].got = DOMAIN l.got
               /\ \A j \in DOMAIN l.got : j # i => call'[c].got[j] = l.got[j]
               /\ IF \E n \in DOMAIN rows : SlotOf(rows[n]) = Slot(l, i)
                  THEN /\ call'[c].got[i] \in DOMAIN rows
                       /\ SlotOf(rows[call'[c].got[i]]) = Slot(l, i)
                  ELSE call'[c].got[i] = 0
               /\ DOMAIN call' = Call /\ \A d \in Call : d # c => call'[d] = call[d]
               /\ UNCHANGED shown /\ scenario' = scenario /\ raced' = raced
               /\ UNCHANGED tables
<1> DEFINE l == call[c]
<1>1. l.at = "rows" /\ UNCHANGED tables
  BY DEF FindRow, At, Reads
<1>2. /\ DOMAIN l = Local /\ CallsOK
      /\ DOMAIN l.got = DOMAIN l.req.data /\ l.todo \subseteq DOMAIN l.req.data
      /\ \A i \in l.todo : l.got[i] = 0
  BY <1>1, RowsPhase
<1>3. PICK i \in l.todo :
         IF getMatchCriteria(l, i) = {} THEN Steps(c, Looked(l, i))
         ELSE \E n \in getMatchCriteria(l, i) : Steps(c, [Looked(l, i) EXCEPT !.got[i] = n])
  BY DEF FindRow, Looked
<1>4. i \in DOMAIN l.got /\ l.got[i] = 0
  BY <1>2
<1>5. CASE getMatchCriteria(l, i) = {}
  <2>1. Steps(c, Looked(l, i))
    BY <1>3, <1>5
  <2>2. /\ DOMAIN call' = Call /\ call'[c] = Looked(l, i)
        /\ \A d \in Call : d # c => call'[d] = call[d]
        /\ UNCHANGED shown /\ scenario' = scenario /\ raced' = raced
    BY <1>2, <2>1, StepsIs
  <2>3. ~ \E n \in DOMAIN rows : SlotOf(rows[n]) = Slot(l, i)
    BY <1>5 DEF getMatchCriteria
  <2> QED
    BY <1>1, <1>2, <1>4, <2>2, <2>3, LookedIs
<1>6. CASE getMatchCriteria(l, i) # {}
  <2>1. PICK n \in getMatchCriteria(l, i) : Steps(c, [Looked(l, i) EXCEPT !.got[i] = n])
    BY <1>3, <1>6
  <2>2. /\ DOMAIN call' = Call /\ call'[c] = [Looked(l, i) EXCEPT !.got[i] = n]
        /\ \A d \in Call : d # c => call'[d] = call[d]
        /\ UNCHANGED shown /\ scenario' = scenario /\ raced' = raced
    BY <1>2, <2>1, StepsIs
  <2>3. n \in DOMAIN rows /\ SlotOf(rows[n]) = Slot(l, i)
    BY <2>1 DEF getMatchCriteria
  <2>4. /\ DOMAIN call'[c] = Local /\ call'[c].req = l.req /\ call'[c].under = l.under
        /\ call'[c].before = l.before /\ call'[c].todo = l.todo \ {i}
        /\ DOMAIN call'[c].got = DOMAIN l.got /\ call'[c].got[i] = n
        /\ \A j \in DOMAIN l.got : j # i => call'[c].got[j] = l.got[j]
        /\ call'[c].at = IF l.todo = {i} THEN "save" ELSE l.at
    <3> DEFINE m == Got(l, i, n)
    <3>1. /\ DOMAIN m = Local /\ m.req = l.req /\ m.under = l.under
          /\ m.before = l.before /\ m.todo = l.todo \ {i}
          /\ DOMAIN m.got = DOMAIN l.got /\ m.got[i] = n
          /\ \A j \in DOMAIN l.got : j # i => m.got[j] = l.got[j]
          /\ m.at = IF l.todo = {i} THEN "save" ELSE l.at
      BY <1>2, <1>4, LookedIs
    <3> HIDE DEF m
    <3>2. call'[c] = m
      BY <2>2 DEF m, Got
    <3> QED
      BY <3>1, <3>2
  <2> QED
    BY <1>1, <2>2, <2>3, <2>4
<1> QED
  BY <1>5, <1>6

LEMMA FindRowKeeps ==
  ASSUME Inv, NEW c \in Call, FindRow(c)
  PROVE  Inv' /\ Grown
<1> DEFINE l == call[c]
<1>1. l.at = "rows"
  BY DEF FindRow, At
<1>2. /\ DOMAIN l = Local /\ l.req \in scenario.requests /\ l.under \in DOMAIN entities
      /\ l.req.collector # "externals" /\ Names(l)
      /\ Fits(l.req.collector, getByStorageEntityType(Leaf(l.req).type, l.req.metric))
      /\ DOMAIN l.got = DOMAIN l.req.data /\ l.todo \subseteq DOMAIN l.req.data
      /\ \A i \in DOMAIN l.req.data : Found(l, i)
      /\ \A i \in l.todo : l.got[i] = 0
      /\ TablesOK /\ CallsOK
  BY <1>1, RowsPhase
<1>3. PICK i \in l.todo :
         /\ call'[c].at = IF l.todo = {i} THEN "save" ELSE "rows"
         /\ call'[c].todo = l.todo \ {i}
         /\ DOMAIN call'[c] = Local /\ call'[c].req = l.req
         /\ call'[c].under = l.under /\ DOMAIN call'[c].got = DOMAIN l.got
         /\ \A j \in DOMAIN l.got : j # i => call'[c].got[j] = l.got[j]
         /\ IF \E n \in DOMAIN rows : SlotOf(rows[n]) = Slot(l, i)
            THEN /\ call'[c].got[i] \in DOMAIN rows
                 /\ SlotOf(rows[call'[c].got[i]]) = Slot(l, i)
            ELSE call'[c].got[i] = 0
         /\ DOMAIN call' = Call /\ \A d \in Call : d # c => call'[d] = call[d]
         /\ UNCHANGED shown /\ scenario' = scenario /\ raced' = raced
         /\ UNCHANGED tables
  BY FindRowIs
<1>4. Grown /\ TablesOK'
  BY <1>2, <1>3, ReadsKeeps
<1>5. entities' = entities /\ rows' = rows
  BY <1>3 DEF tables
<1>6. Names(call[c])'
  BY <1>2, <1>3, <1>5 DEF Names
<1>7. \A j \in DOMAIN l.req.data : Slot(call[c], j)' = Slot(l, j)
  BY <1>3 DEF Slot
<1>8. ASSUME NEW j \in DOMAIN l.req.data
      PROVE  Found(call[c], j)'
  <2>1. CASE j = i
    BY <1>3, <1>5, <1>7, <2>1 DEF Found
  <2>2. CASE j # i
    <3>1. Found(l, j) /\ call'[c].got[j] = l.got[j] /\ Slot(call[c], j)' = Slot(l, j)
      BY <1>2, <1>3, <1>7, <2>2
    <3> QED
      BY <1>5, <3>1 DEF Found
  <2> QED
    BY <2>1, <2>2
<1>9. CallOK(call[c])'
  <2>1. call'[c].at = "save" => call'[c].todo = {}
    BY <1>3
  <2> QED
    BY <1>2, <1>3, <1>5, <1>6, <1>8, <2>1 DEF CallOK
<1> QED
  BY <1>3, <1>4, <1>9, CallGoes

\* The items of a request are a list.
LEMMA DataIs ==
  ASSUME Inv, NEW r \in scenario.requests
  PROVE  /\ Len(r.data) \in Nat /\ DOMAIN r.data = 1..Len(r.data)
         /\ UpTo(DOMAIN r.data) /\ IsFiniteSet(DOMAIN r.data)
<1>1. r.data \in Seq(Range(r.data))
  BY MetricCollectionAssumption DEF Inv, RequestsBegin
<1>2. Len(r.data) \in Nat /\ DOMAIN r.data = 1..Len(r.data)
  BY <1>1
<1>3. UpTo(DOMAIN r.data)
  BY <1>2 DEF UpTo
<1>4. IsFiniteSet(1..Len(r.data))
  BY <1>2, FS_Interval
<1> QED
  BY <1>2, <1>3, <1>4, Zenon

\* The id of the row that is made for an item without one.
IdOf(l, i) == NewId(rows) + Cardinality({j \in {k \in DOMAIN l.req.data : l.got[k] = 0} : j < i})

\* The save of a request: rows stay as they are, or get the value of an item
\* that has found them; new rows are those of items that have found none.
LEMMA CollectedIs ==
  ASSUME Inv, NEW c \in Call, call[c].at = "save"
  PROVE  LET l == call[c]
         IN /\ UpTo(DOMAIN Collected(l)) /\ DOMAIN rows \subseteq DOMAIN Collected(l)
            /\ \A n \in DOMAIN rows :
                  \/ Collected(l)[n] = rows[n]
                  \/ \E i \in DOMAIN l.req.data :
                        /\ Slot(l, i) = SlotOf(rows[n])
                        /\ Collected(l)[n] = Written(l, i)
            /\ \A n \in DOMAIN Collected(l) \ DOMAIN rows :
                  \E i \in DOMAIN l.req.data :
                     /\ l.got[i] = 0 /\ n = IdOf(l, i)
                     /\ Collected(l)[n] = Written(l, i)
<1> DEFINE l == call[c]
<1> DEFINE data == l.req.data
<1> DEFINE fresh == {k \in DOMAIN data : l.got[k] = 0}
<1> DEFINE id(i) == IF i \in fresh THEN IdOf(l, i) ELSE l.got[i]
<1> DEFINE made(n) == {i \in DOMAIN data : id(i) = n}
<1> DEFINE ids == DOMAIN rows \cup {id(i) : i \in DOMAIN data}
<1>1. /\ l.req \in scenario.requests /\ DOMAIN l.got = DOMAIN data
      /\ \A i \in DOMAIN data : Found(l, i)
      /\ UpTo(DOMAIN rows)
  BY RowsPhase DEF TablesOK, RowsOK
<1>2. Collected(l) = [n \in ids |-> IF made(n) = {} THEN rows[n] ELSE Written(l, Max(made(n)))]
  BY DEF Collected, IdOf
<1>3. UpTo(DOMAIN data) /\ IsFiniteSet(DOMAIN data)
  BY <1>1, DataIs
<1>4. NewId(rows) \in Nat /\ NewId(rows) >= 1 /\ \A n \in DOMAIN rows : n \in Nat /\ n < NewId(rows)
  BY <1>1, NewIdIs
<1>5. ASSUME NEW i \in fresh
      PROVE  /\ id(i) = IdOf(l, i) /\ id(i) \in Nat /\ id(i) >= NewId(rows)
             /\ id(i) <= NewId(rows) + Cardinality(DOMAIN data)
  <2> DEFINE earlier == {j \in fresh : j < i}
  <2>1. /\ Cardinality(earlier) \in Nat /\ Cardinality(DOMAIN data) \in Nat
        /\ Cardinality(earlier) <= Cardinality(DOMAIN data)
    BY <1>3, FS_Subset, FS_CardinalityType
  <2>2. id(i) = NewId(rows) + Cardinality(earlier)
    BY DEF IdOf
  <2> HIDE DEF earlier
  <2>3. id(i) = IdOf(l, i)
    BY <1>5
  <2> QED
    BY <1>4, <2>1, <2>2, <2>3
<1>6. ASSUME NEW i \in DOMAIN data, i \notin fresh
      PROVE  /\ id(i) \in DOMAIN rows /\ SlotOf(rows[id(i)]) = Slot(l, i)
  BY <1>1, <1>6 DEF Found
<1>7. ASSUME NEW n, made(n) # {}
      PROVE  Max(made(n)) \in made(n)
  <2>1. UpTo(made(n))
    BY <1>3 DEF UpTo
  <2> HIDE DEF made
  <2> QED
    BY <1>7, <2>1, MaxIs
<1>8. UpTo(ids)
  <2>1. PICK k \in Nat : DOMAIN rows \subseteq 1..k
    BY <1>1 DEF UpTo
  <2>2. Cardinality(DOMAIN data) \in Nat
    BY <1>3, FS_CardinalityType
  <2> DEFINE most == k + NewId(rows) + Cardinality(DOMAIN data)
  <2>3. most \in Nat /\ DOMAIN rows \subseteq 1..most
    BY <1>4, <2>1, <2>2
  <2>4. ASSUME NEW i \in DOMAIN data
        PROVE  id(i) \in 1..most
    <3>1. CASE i \in fresh
      <4> HIDE DEF id
      <4> QED
        BY <1>4, <1>5, <2>1, <2>2, <3>1
    <3>2. CASE i \notin fresh
      BY <1>6, <2>3, <3>2
    <3> QED
      BY <3>1, <3>2
  <2> HIDE DEF id, most
  <2> QED
    BY <2>3, <2>4 DEF UpTo
<1>9. ASSUME NEW n \in DOMAIN rows
      PROVE  \/ Collected(l)[n] = rows[n]
             \/ \E i \in DOMAIN data : /\ Slot(l, i) = SlotOf(rows[n])
                                       /\ Collected(l)[n] = Written(l, i)
  <2>1. CASE made(n) = {}
    <3> HIDE DEF made
    <3> QED
      BY <1>2, <2>1
  <2>2. CASE made(n) # {}
    <3>1. PICK i \in DOMAIN data : i = Max(made(n)) /\ id(i) = n
      BY <1>7, <2>2
    <3>2. Collected(l)[n] = Written(l, i)
      <4> HIDE DEF made, id
      <4> QED
        BY <1>2, <2>2, <3>1
    <3>3. i \notin fresh
      <4> HIDE DEF id
      <4> QED
        BY <1>4, <1>5, <3>1
    <3> QED
      BY <1>6, <3>1, <3>2, <3>3
  <2> QED
    BY <2>1, <2>2
<1>10. ASSUME NEW n \in ids \ DOMAIN rows
       PROVE  \E i \in DOMAIN data : /\ l.got[i] = 0 /\ n = IdOf(l, i)
                                     /\ Collected(l)[n] = Written(l, i)
  <2>1. made(n) # {}
    BY <1>10
  <2>2. PICK i \in DOMAIN data : i = Max(made(n)) /\ id(i) = n
    BY <1>7, <2>1
  <2>3. Collected(l)[n] = Written(l, i)
    <3> HIDE DEF made, id
    <3> QED
      BY <1>2, <2>1, <2>2
  <2>4. i \in fresh
    BY <1>6, <2>2
  <2>5. id(i) = IdOf(l, i)
    BY <1>5, <2>4
  <2> QED
    BY <2>2, <2>3, <2>4, <2>5
<1>11. DOMAIN Collected(l) = ids
  <2> HIDE DEF ids, made
  <2> QED
    BY <1>2
<1> HIDE DEF ids, made, id, fresh
<1>12. DOMAIN rows \subseteq ids
  BY DEF ids
<1> QED
  BY <1>8, <1>9, <1>10, <1>11, <1>12

LEMMA RangeOfViews == Range(Views) = {"system", "pool", "hostGroup", "cha", "port"}
<1>1. /\ DOMAIN Views = 1..5
      /\ Views[1] = "system" /\ Views[2] = "pool" /\ Views[3] = "hostGroup"
      /\ Views[4] = "cha" /\ Views[5] = "port"
  BY DEF Views
<1>2. 1..5 = {1, 2, 3, 4, 5}
  OBVIOUS
<1>3. DOMAIN Views = {1, 2, 3, 4, 5}
  BY <1>1, <1>2
<1> HIDE DEF Views
<1> QED
  BY <1>1, <1>3 DEF Range

\* A row that is written is one, of the slot and of the entity of its item.
LEMMA WrittenIs ==
  ASSUME Inv, NEW c \in Call, call[c].at = "save", NEW i \in DOMAIN call[c].req.data
  PROVE  /\ DOMAIN Written(call[c], i) = RowFields
         /\ SlotOf(Written(call[c], i)) = Slot(call[c], i)
         /\ Written(call[c], i).owner = call[c].under
         /\ call[c].under \in DOMAIN entities
         /\ IsDated(Written(call[c], i))
<1> DEFINE l == call[c]
<1> DEFINE table == getByStorageEntityType(Leaf(l.req).type, l.req.metric)
<1>1. /\ l.req \in scenario.requests /\ l.under \in DOMAIN entities
      /\ Fits(l.req.collector, table)
  BY RowsPhase
<1>2. l.req.collector = "single" => l.req.data[i].at \in Int
  <2>1. RequestsBegin(scenario)
    BY MetricCollectionAssumption DEF Inv
  <2> QED
    BY <1>1, <2>1 DEF RequestsBegin
<1>3. /\ DOMAIN Written(l, i) = RowFields
      /\ Written(l, i).table = Slot(l, i).table /\ Written(l, i).owner = Slot(l, i).owner
      /\ Written(l, i).type = Slot(l, i).type /\ Written(l, i).at = Slot(l, i).at
  BY DEF Written, RowFields
<1>4. Slot(l, i) = [table |-> Slot(l, i).table, owner |-> Slot(l, i).owner,
                    type |-> Slot(l, i).type, at |-> Slot(l, i).at]
  BY DEF Slot
<1>5. SlotOf(Written(l, i)) = Slot(l, i)
  BY <1>3, <1>4 DEF SlotOf
<1>6. Slot(l, i).table = table /\ Slot(l, i).owner = l.under /\ Slot(l, i).at = l.req.data[i].at
  BY DEF Slot
<1> HIDE DEF table
<1>7. table \in Range(Views) => l.req.collector = "single"
  BY <1>1, RangeOfViews DEF Fits
<1>8. IsDated(Written(l, i))
  BY <1>2, <1>3, <1>6, <1>7 DEF IsDated
<1> QED
  BY <1>1, <1>3, <1>5, <1>6, <1>8

LEMMA SaveRowsKeeps ==
  ASSUME Inv, NEW c \in Call, SaveRows(c)
  PROVE  Inv' /\ Grown
<1> DEFINE l == call[c]
<1> DEFINE t == Collected(l)
<1>1. /\ l.at = "save" /\ rows' = t /\ Steps(c, Idle)
      /\ UNCHANGED <<entities, closure, externals>>
  BY DEF SaveRows, At
<1>2. TablesOK /\ CallsOK
  BY <1>1, RowsPhase
<1>3. scenario' = scenario
  BY <1>1, <1>2, StepsIs
<1>4. /\ UpTo(DOMAIN t) /\ DOMAIN rows \subseteq DOMAIN t
      /\ \A n \in DOMAIN rows :
            \/ t[n] = rows[n]
            \/ \E i \in DOMAIN l.req.data :
                  /\ Slot(l, i) = SlotOf(rows[n])
                  /\ t[n] = Written(l, i)
      /\ \A n \in DOMAIN t \ DOMAIN rows :
            \E i \in DOMAIN l.req.data :
               /\ l.got[i] = 0 /\ n = IdOf(l, i)
               /\ t[n] = Written(l, i)
  BY <1>1, CollectedIs
<1> HIDE DEF t
<1>5. \A n \in DOMAIN rows : SlotOf(t[n]) = SlotOf(rows[n])
  BY <1>1, <1>4, WrittenIs
<1>6. Grown
  BY <1>1, <1>3, <1>4, <1>5 DEF Grown
<1>7. ASSUME NEW n \in DOMAIN t
      PROVE  DOMAIN t[n] = RowFields /\ t[n].owner \in DOMAIN entities /\ IsDated(t[n])
  <2>1. \/ n \in DOMAIN rows /\ t[n] = rows[n]
        \/ \E i \in DOMAIN l.req.data : t[n] = Written(l, i)
    BY <1>4
  <2> QED
    BY <1>1, <1>2, <2>1, WrittenIs DEF TablesOK, RowsOK
<1>8. RowsOK'
  BY <1>1, <1>4, <1>7 DEF RowsOK, IsDated
<1>9. TablesOK'
  BY <1>1, <1>2, <1>8 DEF TablesOK, EntitiesOK, ExternalsOK
<1> QED
  BY <1>1, <1>6, <1>9, EndsOK

-----------------------------------------------------------------------------
(* Externals.                                                              *)

ExternalPhase == {"fetch", "delete", "create"}

LEMMA ExternalsPhase ==
  ASSUME Inv, NEW c \in Call, call[c].at \in ExternalPhase
  PROVE  /\ DOMAIN call[c] = Local /\ call[c].req \in scenario.requests
         /\ call[c].under \in DOMAIN entities /\ call[c].req.collector = "externals"
         /\ TablesOK /\ CallsOK
<1>1. CallOK(call[c]) /\ CallsOK /\ TablesOK
  BY DEF Inv, CallsOK, TablesOK
<1> QED
  BY <1>1 DEF CallOK, ExternalPhase

\* A request of externals that goes on.
LEMMA ExternalGoes ==
  ASSUME Inv, Grown, TablesOK', NEW c \in Call, call[c].at \in ExternalPhase,
         NEW l, Steps(c, l), DOMAIN l = Local, l.at \in ExternalPhase,
         l.req = call[c].req, l.under \in DOMAIN entities
  PROVE  Inv'
<1>1. /\ CallsOK /\ call[c].req \in scenario.requests
      /\ call[c].req.collector = "externals"
  BY ExternalsPhase
<1>2. /\ DOMAIN call' = Call /\ call'[c] = l
      /\ \A d \in Call : d # c => call'[d] = call[d]
      /\ UNCHANGED shown /\ scenario' = scenario
  BY <1>1, StepsIs
<1>3. CallOK(call[c])'
  BY <1>1, <1>2 DEF CallOK, ExternalPhase, Grown
<1> QED
  BY <1>2, <1>3, CallGoes

LEMMA FetchKeeps ==
  ASSUME Inv, NEW c \in Call, Fetch(c)
  PROVE  Inv' /\ Grown
<1> DEFINE l == call[c]
<1> DEFINE to(e) == [l EXCEPT !.under = e, !.old = OwnedBy(e), !.status = entities[e].status,
                              !.at = IF OwnedBy(e) = {} THEN "create" ELSE "delete"]
<1>1. l.at \in ExternalPhase /\ UNCHANGED tables
  BY DEF Fetch, At, Reads, ExternalPhase
<1>2. DOMAIN l = Local /\ TablesOK /\ CallsOK
  BY <1>1, ExternalsPhase
<1>3. CASE Named(l.req.key) = {}
  <2>1. Steps(c, Idle)
    BY <1>3 DEF Fetch
  <2>2. scenario' = scenario
    BY <1>2, <2>1, StepsIs
  <2> QED
    BY <1>1, <1>2, <2>1, <2>2, ReadsKeeps, EndsOK
<1>4. CASE Named(l.req.key) # {}
  <2>1. PICK e \in Named(l.req.key) : Steps(c, to(e))
    BY <1>4 DEF Fetch
  <2>2. e \in DOMAIN entities
    BY <2>1 DEF Named
  <2>3. /\ DOMAIN to(e) = Local /\ to(e).req = l.req /\ to(e).under = e
        /\ to(e).at = IF OwnedBy(e) = {} THEN "create" ELSE "delete"
    BY <1>2 DEF Local
  <2> HIDE DEF to
  <2>4. scenario' = scenario
    BY <1>2, <2>1, StepsIs
  <2>5. Grown /\ TablesOK'
    BY <1>1, <1>2, <2>4, ReadsKeeps
  <2>6. to(e).at \in ExternalPhase
    BY <2>3 DEF ExternalPhase
  <2> QED
    BY <1>1, <2>1, <2>2, <2>3, <2>5, <2>6, ExternalGoes
<1> QED
  BY <1>3, <1>4

LEMMA DeleteKeeps ==
  ASSUME Inv, NEW c \in Call, Delete(c)
  PROVE  Inv' /\ Grown
<1> DEFINE l == call[c]
<1> DEFINE k == [l EXCEPT !.at = "create"]
<1>1. /\ l.at \in ExternalPhase /\ Steps(c, k)
      /\ externals' = [x \in DOMAIN externals \ l.old |-> externals[x]]
      /\ UNCHANGED <<entities, closure, rows>>
  BY DEF Delete, At, ExternalPhase
<1>2. DOMAIN l = Local /\ TablesOK /\ CallsOK /\ l.under \in DOMAIN entities
  BY <1>1, ExternalsPhase
<1>3. DOMAIN k = Local /\ k.req = l.req /\ k.under = l.under /\ k.at \in ExternalPhase
  BY <1>2 DEF Local, ExternalPhase
<1> HIDE DEF k
<1>4. scenario' = scenario
  BY <1>1, <1>2, StepsIs
<1>5. Grown
  BY <1>1, <1>4 DEF Grown
<1>6. TablesOK'
  BY <1>1, <1>2 DEF TablesOK, EntitiesOK, RowsOK, ExternalsOK, IsDated
<1> QED
  BY <1>1, <1>2, <1>3, <1>5, <1>6, ExternalGoes

LEMMA CreateKeeps ==
  ASSUME Inv, NEW c \in Call, Create(c)
  PROVE  Inv' /\ Grown
<1> DEFINE l == call[c]
<1> DEFINE x == NewId(externals)
<1> DEFINE k(i) == [l EXCEPT !.todo = @ \ {i}, !.got[i] = x]
<1> DEFINE new(i) == [owner |-> l.under, value |-> l.req.data[i].value]
<1>1. PICK i \in l.todo :
         externals' = WithRow(externals, x, new(i)) /\ Steps(c, k(i))
  BY DEF Create
<1>2. l.at \in ExternalPhase /\ l.at = "create" /\ UNCHANGED <<entities, closure, rows>>
  BY DEF Create, At, ExternalPhase
<1>3. DOMAIN l = Local /\ TablesOK /\ CallsOK /\ l.under \in DOMAIN entities
  BY <1>2, ExternalsPhase
<1>4. DOMAIN k(i) = Local /\ k(i).req = l.req /\ k(i).under = l.under /\ k(i).at = l.at
  BY <1>3 DEF Local
<1> HIDE DEF k
<1>5. DOMAIN new(i) = {"owner", "value"} /\ new(i).owner = l.under
  OBVIOUS
<1> HIDE DEF new, x
<1>6. scenario' = scenario
  BY <1>1, <1>3, StepsIs
<1>7. Grown
  BY <1>2, <1>6 DEF Grown
<1>8. ExternalsOK'
  <2>1. ASSUME NEW y \in DOMAIN externals'
        PROVE  \/ externals'[y] = new(i)
               \/ y \in DOMAIN externals /\ externals'[y] = externals[y]
    BY <1>1 DEF WithRow
  <2> QED
    BY <1>2, <1>3, <1>5, <2>1 DEF TablesOK, ExternalsOK
<1>9. TablesOK'
  BY <1>2, <1>3, <1>8 DEF TablesOK, EntitiesOK, RowsOK, IsDated
<1> QED
  BY <1>1, <1>2, <1>3, <1>4, <1>7, <1>9, ExternalGoes

LEMMA SaveEntityKeeps ==
  ASSUME Inv, NEW c \in Call, SaveEntity(c)
  PROVE  Inv' /\ Grown
<1> DEFINE l == call[c]
<1> DEFINE e == l.under
<1>1. /\ l.at \in ExternalPhase /\ Steps(c, Idle) /\ UNCHANGED <<closure, rows>>
      /\ entities' = [entities EXCEPT ![e].status = l.status]
      /\ externals' = [x \in DOMAIN externals |->
            [externals[x] EXCEPT !.owner = IF x \in Range(l.got) THEN e
                                           ELSE IF @ = e THEN NoOne ELSE @]]
  BY DEF SaveEntity, At, ExternalPhase
<1>2. TablesOK /\ CallsOK /\ e \in DOMAIN entities
  BY <1>1, ExternalsPhase
<1>3. scenario' = scenario
  BY <1>1, <1>2, StepsIs
<1> HIDE DEF e
<1>4. DOMAIN entities' = DOMAIN entities
  BY <1>1
<1>5. ASSUME NEW d \in DOMAIN entities
      PROVE  /\ entities'[d].name = entities[d].name /\ entities'[d].type = entities[d].type
             /\ entities'[d].parent = entities[d].parent
             /\ DOMAIN entities'[d] = DOMAIN entities[d]
  <2>1. entities'[d] = IF d = e THEN [entities[d] EXCEPT !.status = l.status] ELSE entities[d]
    BY <1>1
  <2>2. DOMAIN entities[d] = EntityFields
    BY <1>2 DEF TablesOK, EntitiesOK
  <2> QED
    BY <2>1, <2>2 DEF EntityFields
<1>6. Grown
  BY <1>1, <1>3, <1>4, <1>5 DEF Grown
<1>7. EntitiesOK'
  BY <1>1, <1>2, <1>4, <1>5 DEF TablesOK, EntitiesOK
<1>8. RowsOK'
  BY <1>1, <1>2, <1>4 DEF TablesOK, RowsOK, IsDated
<1>9. ASSUME NEW x \in DOMAIN externals'
      PROVE  /\ DOMAIN externals'[x] = {"owner", "value"}
             /\ externals'[x].owner \in DOMAIN entities' \cup {NoOne}
  <2>1. x \in DOMAIN externals
    BY <1>1
  <2>2. /\ DOMAIN externals[x] = {"owner", "value"}
        /\ externals[x].owner \in DOMAIN entities \cup {NoOne}
    BY <1>2, <2>1 DEF TablesOK, ExternalsOK
  <2>3. externals'[x] = [externals[x] EXCEPT !.owner =
                            IF x \in Range(l.got) THEN e
                            ELSE IF externals[x].owner = e THEN NoOne ELSE externals[x].owner]
    BY <1>1, <2>1
  <2> QED
    BY <1>2, <1>4, <2>2, <2>3
<1>10. TablesOK'
  BY <1>7, <1>8, <1>9 DEF TablesOK, ExternalsOK
<1> QED
  BY <1>1, <1>6, <1>10, EndsOK

-----------------------------------------------------------------------------
(* The views, and what else happens.                                       *)

LEMMA LenOfViews ==
  /\ Len(Views) = 5
  /\ \A i, j \in 1..5 : Views[i] = Views[j] => i = j
  /\ \A i \in 1..5 : Views[i] \in Range(Views)
<1>1. /\ DOMAIN Views = 1..5 /\ Len(Views) = 5
      /\ Views[1] = "system" /\ Views[2] = "pool" /\ Views[3] = "hostGroup"
      /\ Views[4] = "cha" /\ Views[5] = "port"
  BY DEF Views
<1> HIDE DEF Views
<1>2. \A i \in 1..5 : i = 1 \/ i = 2 \/ i = 3 \/ i = 4 \/ i = 5
  OBVIOUS
<1>3. \A i, j \in 1..5 : Views[i] = Views[j] => i = j
  BY <1>1, <1>2
<1>4. \A i \in 1..5 : Views[i] \in Range(Views)
  BY <1>1, <1>2 DEF Range
<1> QED
  BY <1>1, <1>3, <1>4

\* What a view takes are latest rows of its table, one of each metric.
LEMMA TakenIs ==
  ASSUME Inv, NEW i \in 1..5, NEW taken, Shows(taken, Views[i])
  PROVE  /\ \A v \in taken : v \in Latest(Views[i]) /\ v.table = Views[i] /\ Stands(v)
         /\ OneOfEach(taken)
<1>1. ASSUME NEW v \in taken
      PROVE  v \in Latest(Views[i]) /\ v.table = Views[i] /\ Stands(v)
  <2>1. v \in Latest(Views[i]) /\ v \in Range(rows) /\ v.table = Views[i]
    BY DEF Shows, Latest
  <2>2. PICK n \in DOMAIN rows : rows[n] = v
    BY <2>1 DEF Range
  <2>3. v.table \in Range(Views)
    BY <2>1, LenOfViews
  <2> QED
    BY <2>1, <2>2, <2>3 DEF Stands, Inv, RowsOK, IsDated
<1>2. ASSUME NEW v \in taken, NEW w \in taken, MetricOf(v) = MetricOf(w)
      PROVE  v = w
  <2>1. /\ v \in Latest(Views[i]) /\ w \in Latest(Views[i])
        /\ v.at \in Int /\ w.at \in Int
    BY <1>1 DEF Stands
  <2>2. v.at <= w.at /\ w.at <= v.at
    BY <1>2, <2>1 DEF Latest
  <2>3. v.at = w.at
    BY <2>1, <2>2
  <2>4. SlotOf(v) = SlotOf(w)
    BY <1>2, <2>3 DEF SlotOf, MetricOf
  <2>5. PICK one \in taken : {t \in taken : SlotOf(t) = SlotOf(v)} = {one}
    BY <2>1 DEF Shows
  <2> QED
    BY <2>4, <2>5
<1> QED
  BY <1>1, <1>2 DEF OneOfEach

\* Steps that leave requests and tables alone, but for a status or a crash.
LEMMA AroundKeeps ==
  ASSUME Inv, UNCHANGED tables, scenario' = scenario,
         call' = call \/ call' = [c \in Call |-> Idle]
  PROVE  /\ scenario' \in Seed /\ EntitiesOK' /\ RowsOK' /\ ExternalsOK' /\ CallsOK'
         /\ \A v : Stands(v) => Stands(v)'
         /\ Grown
<1>1. TablesOK
  BY DEF Inv, TablesOK
<1>2. Grown /\ TablesOK'
  BY <1>1, ReadsKeeps
<1>3. CallsOK'
  <2>1. CASE call' = call
    BY <1>2, <2>1, CallKept DEF Inv, CallsOK
  <2>2. CASE call' = [c \in Call |-> Idle]
    BY <2>2 DEF CallsOK, CallOK, Idle
  <2> QED
    BY <2>1, <2>2
<1>4. ASSUME NEW v, Stands(v)
      PROVE  Stands(v)'
  BY <1>2, <1>4 DEF Stands, Grown
<1> QED
  BY <1>2, <1>3, <1>4 DEF TablesOK, Inv

\* The step of a refresh, in parts.
LEMMA RefreshIs ==
  ASSUME Inv, Refresh
  PROVE  \E i \in 1..5, taken \in SUBSET Range(rows) :
            /\ i = refresh.at + 1 /\ refresh'.at = i
            /\ Shows(taken, Views[i])
            /\ refresh'.taken = refresh.taken \cup taken
            /\ refresh'.nulls = refresh.nulls \cup Nulls(Views[i])
            /\ view' = view /\ waiting' \in 0..1 /\ UNCHANGED tables /\ call' = call
            /\ scenario' = scenario
<1>1. refresh.at \in 0..5 /\ refresh.at < 5 /\ waiting \in 0..1
  BY LenOfViews DEF Refresh, Inv, RefreshOK
<1>2. PICK taken : /\ Shows(taken, Views[refresh.at + 1])
                   /\ refresh' = [at |-> refresh.at + 1, taken |-> refresh.taken \cup taken,
                                  nulls |-> refresh.nulls \cup Nulls(Views[refresh.at + 1])]
  BY DEF Refresh
<1>3. /\ view' = view /\ UNCHANGED tables /\ call' = call /\ scenario' = scenario
      /\ refresh.at = 0 => waiting > 0
      /\ waiting' = IF refresh.at = 0 THEN waiting - 1 ELSE waiting
  BY DEF Refresh, rest
<1>4. waiting' \in 0..1
  BY <1>1, <1>3
<1>5. refresh.at + 1 \in 1..5 /\ taken \in SUBSET Range(rows)
  BY <1>1, <1>2 DEF Shows, Latest
<1>6. /\ refresh'.at = refresh.at + 1 /\ refresh'.taken = refresh.taken \cup taken
      /\ refresh'.nulls = refresh.nulls \cup Nulls(Views[refresh.at + 1])
  BY <1>2
<1> QED
  BY <1>2, <1>3, <1>4, <1>5, <1>6

LEMMA RefreshKeeps ==
  ASSUME Inv, Refresh
  PROVE  Inv' /\ Grown
<1>1. PICK i \in 1..5, taken \in SUBSET Range(rows) :
         /\ i = refresh.at + 1 /\ refresh'.at = i
         /\ Shows(taken, Views[i])
         /\ refresh'.taken = refresh.taken \cup taken
         /\ refresh'.nulls = refresh.nulls \cup Nulls(Views[i])
         /\ view' = view /\ waiting' \in 0..1 /\ UNCHANGED tables /\ call' = call
         /\ scenario' = scenario
  BY RefreshIs
<1>2. /\ refresh.at \in 0..5 /\ OneOfEach(view) /\ OneOfEach(refresh.taken)
      /\ \A v \in refresh.taken : \E j \in 1..refresh.at : v.table = Views[j]
      /\ \A v \in view \cup refresh.taken : Stands(v)
  BY LenOfViews DEF Inv, RefreshOK
<1>3. /\ \A v \in taken : v.table = Views[i] /\ Stands(v)
      /\ OneOfEach(taken)
  BY <1>1, TakenIs
<1>4. /\ scenario' \in Seed /\ EntitiesOK' /\ RowsOK' /\ ExternalsOK' /\ CallsOK'
      /\ \A v : Stands(v) => Stands(v)'
      /\ Grown
  BY <1>1, AroundKeeps
<1>5. \A v \in view' \cup refresh'.taken : Stands(v)'
  BY <1>1, <1>2, <1>3, <1>4
<1>6. \A v \in refresh'.taken : \E j \in 1..refresh'.at : v.table = Views[j]
  <2>1. 1..refresh.at \subseteq 1..i /\ i \in 1..i
    BY <1>1, <1>2
  <2> QED
    BY <1>1, <1>2, <1>3, <2>1
<1>7. ASSUME NEW v \in refresh.taken, NEW w \in taken
      PROVE  MetricOf(v) # MetricOf(w)
  <2>1. PICK j \in 1..refresh.at : v.table = Views[j]
    BY <1>2
  <2>2. j \in 1..5 /\ j # i
    BY <1>1, <1>2
  <2>3. v.table # w.table
    BY <1>3, <2>1, <2>2, LenOfViews
  <2> QED
    BY <2>3 DEF MetricOf
<1>8. OneOfEach(refresh'.taken)
  BY <1>1, <1>2, <1>3, <1>7 DEF OneOfEach
<1>9. OneOfEach(view')
  BY <1>1, <1>2
<1>10. refresh'.at \in 0..Len(Views)
  BY <1>1, LenOfViews
<1> QED
  BY <1>1, <1>4, <1>5, <1>6, <1>8, <1>9, <1>10 DEF Inv, RefreshOK, OneOfEach

LEMMA OthersKeep ==
  ASSUME Inv,
         \/ AskRefresh \/ Commit \/ Crash \/ UNCHANGED vars
         \/ \E e \in DOMAIN entities : changeStatus(e)
  PROVE  Inv' /\ Grown
<1>1. /\ refresh.at \in 0..Len(Views) /\ waiting \in 0..1
      /\ \A v \in refresh.taken : \E j \in 1..refresh.at : v.table = Views[j]
      /\ \A v \in view \cup refresh.taken : Stands(v)
      /\ OneOfEach(view) /\ OneOfEach(refresh.taken)
  BY DEF Inv, RefreshOK
<1>2. NoRefresh.at = 0 /\ NoRefresh.taken = {} /\ 0 \in 0..Len(Views)
  BY LenOfViews DEF NoRefresh
<1>3. CASE AskRefresh
  <2>1. /\ UNCHANGED tables /\ scenario' = scenario /\ call' = call
        /\ view' = view /\ refresh' = refresh /\ waiting' \in 0..1
    BY <1>1, <1>3 DEF AskRefresh
  <2> QED
    BY <1>1, <2>1, AroundKeeps DEF Inv, RefreshOK, OneOfEach
<1>4. CASE Commit
  <2>1. /\ UNCHANGED tables /\ scenario' = scenario /\ call' = call
        /\ view' = refresh.taken /\ refresh' = NoRefresh /\ waiting' = waiting
    BY <1>4 DEF Commit, rest
  <2> QED
    BY <1>1, <1>2, <2>1, AroundKeeps DEF Inv, RefreshOK, OneOfEach
<1>5. CASE Crash
  <2>1. /\ UNCHANGED tables /\ scenario' = scenario /\ call' = [c \in Call |-> Idle]
        /\ view' = view /\ refresh' = NoRefresh /\ waiting' \in 0..1
    BY <1>5 DEF Crash
  <2> QED
    BY <1>1, <1>2, <2>1, AroundKeeps DEF Inv, RefreshOK, OneOfEach
<1>6. CASE UNCHANGED vars
  <2>1. /\ UNCHANGED tables /\ scenario' = scenario /\ call' = call
        /\ view' = view /\ refresh' = refresh /\ waiting' = waiting
    BY <1>6 DEF vars, shown, rest
  <2> QED
    BY <1>1, <2>1, AroundKeeps DEF Inv, RefreshOK, OneOfEach
<1>7. ASSUME NEW e \in DOMAIN entities, changeStatus(e)
      PROVE  Inv' /\ Grown
  <2>1. /\ entities' = [entities EXCEPT
                         ![e].status = IF @ = "ACTIVE" THEN "INACTIVE" ELSE "ACTIVE"]
        /\ UNCHANGED <<closure, rows, externals>> /\ UNCHANGED shown
        /\ scenario' = scenario /\ call' = call
    BY <1>7 DEF changeStatus
  <2>2. DOMAIN entities' = DOMAIN entities
    BY <2>1
  <2>3. EntitiesOK /\ RowsOK /\ ExternalsOK /\ CallsOK
    BY DEF Inv
  <2>4. ASSUME NEW d \in DOMAIN entities
        PROVE  /\ entities'[d].name = entities[d].name /\ entities'[d].type = entities[d].type
               /\ entities'[d].parent = entities[d].parent
               /\ DOMAIN entities'[d] = DOMAIN entities[d]
    <3> DEFINE other == IF entities[e].status = "ACTIVE" THEN "INACTIVE" ELSE "ACTIVE"
    <3>1. entities'[d] = IF d = e THEN [entities[d] EXCEPT !.status = other] ELSE entities[d]
      BY <2>1
    <3>2. DOMAIN entities[d] = EntityFields
      BY <2>3 DEF EntitiesOK
    <3> HIDE DEF other
    <3> QED
      BY <3>1, <3>2 DEF EntityFields
  <2>5. Grown
    BY <2>1, <2>2, <2>4 DEF Grown
  <2>6. EntitiesOK' /\ RowsOK' /\ ExternalsOK'
    BY <2>1, <2>2, <2>3, <2>4 DEF EntitiesOK, RowsOK, ExternalsOK, IsDated
  <2>7. CallsOK'
    BY <2>1, <2>3, <2>5, CallKept DEF CallsOK
  <2> QED
    BY <2>1, <2>5, <2>6, <2>7, StandsKept DEF Inv
<1> QED
  BY <1>3, <1>4, <1>5, <1>6, <1>7

LEMMA StepKeeps ==
  ASSUME Inv, [Next]_vars
  PROVE  Inv' /\ Grown
<1>1. ASSUME NEW c \in Call, CallStep(c)
      PROVE  Inv' /\ Grown
  BY <1>1, AskKeeps, FindPartKeeps, InsertKeeps, FactoryKeeps, FindRowKeeps, SaveRowsKeeps,
     FetchKeeps, DeleteKeeps, CreateKeeps, SaveEntityKeeps DEF CallStep
<1> QED
  BY <1>1, RefreshKeeps, OthersKeep DEF Next

\* Tables, requests and views hang together, whatever importers, refreshes and
\* crashes meet.
THEOREM Invariance == Spec => []Inv
<1>1. Init => Inv
  BY InitOK
<1>2. Inv /\ [Next]_vars => Inv'
  BY StepKeeps
<1> QED
  BY <1>1, <1>2, PTL DEF Spec

\* Every row that importers make belongs to an entity that is there, every
\* external to one or to none, and the closure table knows no others.
THEOREM TypeCorrect == Spec => []TypeOK
<1>1. Inv => TypeOK
  BY DEF Inv, EntitiesOK, RowsOK, ExternalsOK, RefreshOK, Pairs, TypeOK
<1> QED
  BY <1>1, Invariance, PTL

-----------------------------------------------------------------------------
(* One row of a slot.                                                      *)

\* What the last part of a key is.
LEMMA LeafIs ==
  ASSUME Inv, NEW c \in Call, Busy(c)
  PROVE  /\ call[c].req \in scenario.requests /\ Leaf(call[c].req) \in KeyPart
         /\ DOMAIN call[c] = Local /\ CallsOK
<1>1. CallOK(call[c]) /\ CallsOK
  BY DEF Inv, CallsOK
<1>2. call[c].req \in scenario.requests /\ DOMAIN call[c] = Local
  BY <1>1 DEF CallOK, Busy
<1>3. call[c].req.key \in Seq(KeyPart) /\ call[c].req.key # <<>>
  BY <1>2, MetricCollectionAssumption DEF Inv, RequestsBegin, KeyPart
<1>4. Len(call[c].req.key) \in 1..Len(call[c].req.key)
  BY <1>3, TailIs
<1> QED
  BY <1>1, <1>2, <1>3, <1>4 DEF Leaf

\* One part is another if the names and the types are the same.
LEMMA PartIs ==
  ASSUME NEW p \in KeyPart, NEW q \in KeyPart, p.name = q.name, p.type = q.type
  PROVE  p = q
BY DEF KeyPart

\* Steps that write no metrics make no second row.
LEMMA UniqueKept ==
  ASSUME Inv, SlotsUnique, Grown, rows' = rows, raced \subseteq raced'
  PROVE  SlotsUnique'
<1>1. scenario' = scenario
  BY DEF Grown
<1>2. \A n \in DOMAIN rows : /\ entities'[rows[n].owner].name = entities[rows[n].owner].name
                             /\ entities'[rows[n].owner].type = entities[rows[n].owner].type
  BY DEF Inv, RowsOK, Grown
<1> QED
  BY <1>1, <1>2 DEF SlotsUnique

\* Nor do they make rows for what others have looked up.
LEMMA MissedKept ==
  ASSUME rows' = rows, NEW c, call'[c] = call[c], Missed(call[c])
  PROVE  Missed(call[c])'
<1>1. \A i : Slot(call[c], i)' = Slot(call[c], i)
  BY DEF Slot
<1> QED
  BY <1>1 DEF Missed

\* What the steps of a request have in common, but for its first.
LEMMA GoesOnIs ==
  ASSUME Inv, NEW c \in Call, CallStep(c), ~Ask(c)
  PROVE  /\ Busy(c) /\ raced' = raced /\ scenario' = scenario
         /\ DOMAIN call' = Call /\ \A d \in Call : d # c => call'[d] = call[d]
         /\ \/ call'[c] = Idle
            \/ /\ call'[c].req = call[c].req
               /\ \/ call'[c].at \notin {"rows", "save"}
                  \/ call'[c].todo = DOMAIN call[c].req.data
                  \/ FindRow(c)
         /\ rows' = rows \/ SaveRows(c)
<1> DEFINE l == call[c]
<1>1. Busy(c)
  BY DEF CallStep, FindPart, Insert, Factory, FindRow, SaveRows, Fetch, Delete, Create,
         SaveEntity, At, Busy
<1>2. DOMAIN l = Local /\ CallsOK /\ CallOK(l)
  BY <1>1, LeafIs DEF CallsOK
<1>3. rows' = rows \/ SaveRows(c)
  BY DEF CallStep, FindPart, Insert, Factory, FindRow, Fetch, Delete, Create,
         SaveEntity, Reads, tables
<1>4. ASSUME NEW k, Steps(c, k),
             \/ k = Idle
             \/ /\ k.req = l.req
                /\ \/ k.at \notin {"rows", "save"}
                   \/ k.todo = DOMAIN l.req.data
                   \/ FindRow(c)
      PROVE  /\ raced' = raced /\ scenario' = scenario
             /\ DOMAIN call' = Call /\ \A d \in Call : d # c => call'[d] = call[d]
             /\ \/ call'[c] = Idle
                \/ /\ call'[c].req = l.req
                   /\ \/ call'[c].at \notin {"rows", "save"}
                      \/ call'[c].todo = DOMAIN l.req.data
                      \/ FindRow(c)
  BY <1>2, <1>4, StepsIs
<1>5. CASE FindPart(c)
  <2>1. \/ Steps(c, [l EXCEPT !.at = "insert"])
        \/ \E e \in DOMAIN entities : Steps(c, Down(l, e))
    BY <1>5 DEF FindPart, findOneByName
  <2>2. [l EXCEPT !.at = "insert"].req = l.req /\ [l EXCEPT !.at = "insert"].at = "insert"
    BY <1>2 DEF Local
  <2>3. \A e : /\ Down(l, e).req = l.req
               /\ Down(l, e).at = IF Len(l.parts) = 1 THEN "factory" ELSE "find"
    BY <1>2, DownIs
  <2>4. CASE Steps(c, [l EXCEPT !.at = "insert"])
    <3> DEFINE k == [l EXCEPT !.at = "insert"]
    <3>1. Steps(c, k) /\ k.req = l.req /\ k.at = "insert"
      BY <2>2, <2>4
    <3> HIDE DEF k
    <3> QED
      BY <1>1, <1>3, <1>4, <3>1
  <2>5. CASE \E e \in DOMAIN entities : Steps(c, Down(l, e))
    <3>1. PICK e \in DOMAIN entities : Steps(c, Down(l, e))
      BY <2>5
    <3>2. Down(l, e).req = l.req /\ Down(l, e).at \notin {"rows", "save"}
      BY <2>3
    <3> QED
      BY <1>1, <1>3, <1>4, <3>1, <3>2
  <2> QED
    BY <2>1, <2>4, <2>5
<1>6. CASE Insert(c)
  <2> DEFINE k == Down(l, NewId(entities))
  <2>1. Steps(c, k)
    BY <1>6 DEF Insert
  <2>2. k.req = l.req /\ k.at \notin {"rows", "save"}
    BY <1>2, DownIs
  <2> HIDE DEF k
  <2> QED
    BY <1>1, <1>3, <1>4, <2>1, <2>2
<1>7. CASE Factory(c)
  <2> DEFINE k == [l EXCEPT !.at = "rows"]
  <2>1. Steps(c, k) \/ Steps(c, Idle)
    BY <1>7 DEF Factory
  <2>2. l.todo = DOMAIN l.req.data
    BY <1>2, <1>7 DEF Factory, At, CallOK
  <2>3. k.req = l.req /\ k.todo = l.todo
    BY <1>2 DEF Local
  <2> HIDE DEF k
  <2> QED
    BY <1>1, <1>3, <1>4, <2>1, <2>2, <2>3
<1>8. CASE FindRow(c)
  <2>1. /\ DOMAIN call' = Call /\ \A d \in Call : d # c => call'[d] = call[d]
        /\ scenario' = scenario /\ raced' = raced /\ call'[c].req = l.req
    BY <1>8, FindRowIs
  <2> QED
    BY <1>1, <1>3, <1>8, <2>1
<1>9. CASE SaveRows(c) \/ SaveEntity(c)
  <2>1. Steps(c, Idle)
    BY <1>9 DEF SaveRows, SaveEntity
  <2> QED
    BY <1>1, <1>3, <1>4, <2>1
<1>10. CASE Fetch(c) \/ Delete(c) \/ Create(c)
  <2>1. \/ Steps(c, Idle)
        \/ \E k : Steps(c, k) /\ k.req = l.req /\ k.at \notin {"rows", "save"}
    <3>1. CASE Fetch(c)
      <4>1. CASE Named(l.req.key) = {}
        BY <3>1, <4>1 DEF Fetch
      <4>2. CASE Named(l.req.key) # {}
        <5> DEFINE to(e) == [l EXCEPT !.under = e, !.old = OwnedBy(e),
                                      !.status = entities[e].status,
                                      !.at = IF OwnedBy(e) = {} THEN "create" ELSE "delete"]
        <5>1. PICK e \in Named(l.req.key) : Steps(c, to(e))
          BY <3>1, <4>2 DEF Fetch
        <5>2. to(e).req = l.req /\ to(e).at \notin {"rows", "save"}
          BY <1>2 DEF Local
        <5> HIDE DEF to
        <5> QED
          BY <5>1, <5>2
      <4> QED
        BY <4>1, <4>2
    <3>2. CASE Delete(c)
      <4> DEFINE k == [l EXCEPT !.at = "create"]
      <4>1. Steps(c, k)
        BY <3>2 DEF Delete
      <4>2. k.req = l.req /\ k.at \notin {"rows", "save"}
        BY <1>2 DEF Local
      <4> HIDE DEF k
      <4> QED
        BY <4>1, <4>2
    <3>3. CASE Create(c)
      <4> DEFINE k(i) == [l EXCEPT !.todo = @ \ {i}, !.got[i] = NewId(externals)]
      <4>1. PICK i \in l.todo : Steps(c, k(i))
        BY <3>3 DEF Create
      <4>2. l.at = "create"
        BY <3>3 DEF Create, At
      <4>3. k(i).req = l.req /\ k(i).at \notin {"rows", "save"}
        BY <1>2, <4>2 DEF Local
      <4> HIDE DEF k
      <4> QED
        BY <4>1, <4>3
    <3> QED
      BY <1>10, <3>1, <3>2, <3>3
  <2> QED
    BY <1>1, <1>3, <1>4, <2>1
<1> QED
  BY <1>5, <1>6, <1>7, <1>8, <1>9, <1>10 DEF CallStep

LEMMA SlotsBegin ==
  ASSUME Init
  PROVE  SlotInv
<1>1. \A c \in Call : call[c].at = "idle"
  BY DEF Init, Idle
<1>2. SlotsUnique
  BY DEF Init, SlotsUnique
<1> QED
  BY <1>1, <1>2 DEF SlotInv, Races, Busy

\* A request that comes in meets those that run.
LEMMA AskSlots ==
  ASSUME Inv, SlotInv, NEW c \in Call, Ask(c)
  PROVE  SlotInv'
<1> DEFINE Arrived(r) ==
      [at |-> IF r.collector = "externals" THEN "fetch" ELSE "find",
       req |-> r, parts |-> r.key, under |-> CZ_Chodov,
       todo |-> DOMAIN r.data, got |-> [i \in DOMAIN r.data |-> 0],
       old |-> {}, status |-> "", before |-> tables]
<1>1. PICK r \in scenario.requests :
         /\ call' = [call EXCEPT ![c] = IF Accepts(r) THEN Arrived(r) ELSE @]
         /\ raced' = raced \cup {part \in {Leaf(r)} :
               \/ \E d \in {d \in Call : Busy(d)} : Leaf(call[d].req) = part
               \/ Accepts(r) /\ Repeats(r)}
  BY DEF Ask
<1>2. ~Busy(c) /\ UNCHANGED tables /\ CallsOK /\ Grown
  BY AskKeeps DEF Ask, Inv
<1>3. /\ call'[c] = IF Accepts(r) THEN Arrived(r) ELSE call[c]
      /\ \A d \in Call : d # c => call'[d] = call[d]
  BY <1>1, <1>2 DEF CallsOK
<1>4. /\ Arrived(r).req = r /\ Arrived(r).at \notin {"rows", "save"}
  OBVIOUS
<1> HIDE DEF Arrived
<1>5. raced \subseteq raced' /\ rows' = rows
  BY <1>1, <1>2 DEF tables
<1>6. SlotsUnique'
  BY <1>2, <1>5, UniqueKept DEF SlotInv
<1>7. Races'
  <2> SUFFICES ASSUME NEW e \in Call, Busy(e)'
               PROVE  /\ \A d \in Call :
                            /\ d # e /\ Busy(d)'
                            /\ Leaf(call'[d].req) = Leaf(call'[e].req)
                            => Leaf(call'[e].req) \in raced'
                      /\ Repeats(call'[e].req) => Leaf(call'[e].req) \in raced'
    BY DEF Races, Leaf, Repeats
  <2>1. \A d \in Call : Busy(d)' => \/ d = c /\ Accepts(r) /\ call'[c].req = r
                                    \/ d # c /\ Busy(d) /\ call'[d] = call[d]
    BY <1>2, <1>3, <1>4 DEF Busy
  <2>2. \A d \in Call : Busy(d) /\ Leaf(call[d].req) = Leaf(r) => Leaf(r) \in raced'
    BY <1>1
  <2>3. Accepts(r) /\ Repeats(r) => Leaf(r) \in raced'
    BY <1>1
  <2>4. \A d \in Call : Busy(d) =>
           /\ \A b \in Call : b # d /\ Busy(b) /\ Leaf(call[b].req) = Leaf(call[d].req)
                              => Leaf(call[d].req) \in raced
           /\ Repeats(call[d].req) => Leaf(call[d].req) \in raced
    BY DEF SlotInv, Races
  <2>5. CASE e = c
    BY <2>1, <2>2, <2>3, <2>5
  <2>6. CASE e # c
    <3>1. Busy(e) /\ call'[e] = call[e]
      BY <2>1, <2>6
    <3>2. Repeats(call'[e].req) => Leaf(call'[e].req) \in raced'
      BY <1>5, <2>4, <3>1
    <3>3. ASSUME NEW d \in Call, d # e, Busy(d)', Leaf(call'[d].req) = Leaf(call'[e].req)
          PROVE  Leaf(call'[e].req) \in raced'
      <4>1. CASE d = c
        BY <2>1, <2>2, <3>1, <3>3, <4>1
      <4>2. CASE d # c
        BY <1>5, <2>1, <2>4, <3>1, <3>3, <4>2
      <4> QED
        BY <4>1, <4>2
    <3> QED
      BY <3>2, <3>3
  <2> QED
    BY <2>5, <2>6
<1>8. ASSUME NEW d \in Call, call'[d].at \in {"rows", "save"}, Leaf(call'[d].req) \notin raced'
      PROVE  Missed(call[d])'
  <2>1. call'[d] = call[d]
    BY <1>3, <1>4, <1>8
  <2>2. Missed(call[d])
    BY <1>5, <1>8, <2>1 DEF SlotInv
  <2> QED
    BY <1>5, <2>1, <2>2, MissedKept
<1>9. \A d \in Call : Leaf(call[d].req)' = Leaf(call'[d].req)
  BY DEF Leaf
<1> QED
  BY <1>6, <1>7, <1>8, <1>9 DEF SlotInv

\* Requests that go on or end do not meet others.
LEMMA RacesKept ==
  ASSUME Races, raced' = raced, NEW c \in Call, Busy(c),
         \A d \in Call : d # c => call'[d] = call[d],
         call'[c].at = "idle" \/ call'[c].req = call[c].req
  PROVE  Races'
<1> SUFFICES ASSUME NEW e \in Call, Busy(e)'
             PROVE  /\ \A d \in Call :
                          /\ d # e /\ Busy(d)'
                          /\ Leaf(call'[d].req) = Leaf(call'[e].req)
                          => Leaf(call'[e].req) \in raced'
                    /\ Repeats(call'[e].req) => Leaf(call'[e].req) \in raced'
  BY DEF Races, Leaf, Repeats
<1>1. \A d \in Call : Busy(d)' => Busy(d) /\ call'[d].req = call[d].req
  BY DEF Busy
<1>2. /\ \A d \in Call : d # e /\ Busy(d) /\ Leaf(call[d].req) = Leaf(call[e].req)
                         => Leaf(call[e].req) \in raced
      /\ Repeats(call[e].req) => Leaf(call[e].req) \in raced
  BY <1>1 DEF Races
<1> QED
  BY <1>1, <1>2

\* A request that goes on and writes no metrics.
LEMMA GoesOnSlots ==
  ASSUME Inv, SlotInv, NEW c \in Call, CallStep(c), ~Ask(c), rows' = rows, Grown
  PROVE  SlotInv'
<1> DEFINE l == call[c]
<1>1. /\ Busy(c) /\ raced' = raced
      /\ \A d \in Call : d # c => call'[d] = call[d]
      /\ \/ call'[c] = Idle
         \/ /\ call'[c].req = l.req
            /\ \/ call'[c].at \notin {"rows", "save"}
               \/ call'[c].todo = DOMAIN l.req.data
               \/ FindRow(c)
  BY GoesOnIs
<1>2. Idle.at = "idle"
  BY DEF Idle
<1>3. SlotsUnique'
  BY <1>1, UniqueKept DEF SlotInv
<1>4. Races'
  BY <1>1, <1>2, RacesKept DEF SlotInv
<1>5. ASSUME NEW d \in Call, call'[d].at \in {"rows", "save"}, Leaf(call'[d].req) \notin raced'
      PROVE  Missed(call[d])'
  <2>1. CASE d # c
    <3>1. call'[d] = call[d]
      BY <1>1, <2>1
    <3>2. Missed(call[d])
      BY <1>1, <1>5, <3>1 DEF SlotInv
    <3> QED
      BY <3>1, <3>2, MissedKept
  <2>2. CASE d = c /\ call'[c].req = l.req /\ call'[c].todo = DOMAIN l.req.data
    BY <2>2 DEF Missed
  <2>3. CASE d = c /\ FindRow(c)
    <3>1. l.at = "rows"
      BY <2>3 DEF FindRow, At
    <3>2. PICK i \in l.todo :
             /\ call'[c].todo = l.todo \ {i}
             /\ call'[c].req = l.req
             /\ call'[c].under = l.under
             /\ \A j \in DOMAIN l.got : j # i => call'[c].got[j] = l.got[j]
             /\ IF \E n \in DOMAIN rows : SlotOf(rows[n]) = Slot(l, i)
                THEN /\ call'[c].got[i] \in DOMAIN rows
                     /\ SlotOf(rows[call'[c].got[i]]) = Slot(l, i)
                ELSE call'[c].got[i] = 0
      BY <2>3, FindRowIs
    <3>3. Missed(l)
      BY <1>1, <1>5, <2>3, <3>1, <3>2 DEF SlotInv
    <3>4. \A j : Slot(call[c], j)' = Slot(l, j)
      BY <3>2 DEF Slot
    <3>5. 0 \notin DOMAIN rows /\ DOMAIN l.got = DOMAIN l.req.data
      <4>1. PICK k \in Nat : DOMAIN rows \subseteq 1..k
        BY DEF Inv, RowsOK, UpTo
      <4> QED
        BY <3>1, <4>1, RowsPhase
    <3>6. ASSUME NEW j \in DOMAIN l.req.data, j \notin call'[c].todo, call'[c].got[j] = 0,
                 NEW n \in DOMAIN rows
          PROVE  SlotOf(rows[n]) # Slot(l, j)
      <4>1. CASE j = i
        BY <3>2, <3>5, <3>6, <4>1
      <4>2. CASE j # i
        BY <3>2, <3>3, <3>5, <3>6, <4>2 DEF Missed
      <4> QED
        BY <4>1, <4>2
    <3> QED
      BY <2>3, <3>2, <3>4, <3>6 DEF Missed
  <2> QED
    BY <1>1, <1>2, <1>5, <2>1, <2>2, <2>3
<1>6. \A d \in Call : Leaf(call[d].req)' = Leaf(call'[d].req)
  BY DEF Leaf
<1> QED
  BY <1>3, <1>4, <1>5, <1>6 DEF SlotInv

\* The save of a request: a new row has a slot that no other has, or two
\* requests worked on its entity.
LEMMA SaveSlots ==
  ASSUME Inv, SlotInv, NEW c \in Call, SaveRows(c)
  PROVE  SlotInv'
<1> DEFINE l == call[c]
<1> DEFINE part == Leaf(l.req)
<1>1. /\ l.at = "save" /\ rows' = Collected(l) /\ Steps(c, Idle) /\ entities' = entities
  BY DEF SaveRows, At
<1>2. /\ Busy(c) /\ CallsOK /\ Names(l) /\ l.todo = {}
      /\ l.req.collector # "externals"
  BY <1>1, RowsPhase DEF Busy
<1>3. /\ call'[c] = Idle /\ \A d \in Call : d # c => call'[d] = call[d]
      /\ raced' = raced /\ scenario' = scenario
  BY <1>1, <1>2, StepsIs
<1>4. Grown
  BY SaveRowsKeeps
<1>5. \A n \in DOMAIN rows' \ DOMAIN rows :
         \E i \in DOMAIN l.req.data :
            l.got[i] = 0 /\ n = IdOf(l, i) /\ SlotOf(rows'[n]) = Slot(l, i)
  BY <1>1, CollectedIs, WrittenIs
<1>6. \A n \in DOMAIN rows : n \in DOMAIN rows' /\ SlotOf(rows'[n]) = SlotOf(rows[n])
  BY <1>4 DEF Grown
<1>7. part \notin raced => \A i \in DOMAIN l.req.data : l.got[i] = 0 =>
                               \A n \in DOMAIN rows : SlotOf(rows[n]) # Slot(l, i)
  BY <1>1, <1>2 DEF SlotInv, Missed
<1>8. ASSUME NEW m \in DOMAIN rows', NEW i \in DOMAIN l.req.data, SlotOf(rows'[m]) = Slot(l, i)
      PROVE  /\ entities'[rows'[m].owner].name = part.name
             /\ entities'[rows'[m].owner].type = part.type
  <2>1. rows'[m].owner = l.under
    BY <1>8 DEF SlotOf, Slot
  <2> QED
    BY <1>1, <1>2, <2>1 DEF Names
<1>9. SlotsUnique'
  <2> SUFFICES ASSUME NEW m \in DOMAIN rows', NEW n \in DOMAIN rows', m # n,
                      SlotOf(rows'[m]) = SlotOf(rows'[n])
               PROVE  \/ \E p \in raced : /\ p.name = entities'[rows'[m].owner].name
                                          /\ p.type = entities'[rows'[m].owner].type
                      \/ m \in DOMAIN scenario.rows /\ n \in DOMAIN scenario.rows
    <3>1. \A m : SlotOf(rows[m])' = SlotOf(rows'[m])
      BY DEF SlotOf
    <3> QED
      BY <1>3, <3>1 DEF SlotsUnique
  <2>1. CASE m \in DOMAIN rows /\ n \in DOMAIN rows
    <3>1. rows'[m].owner = rows[m].owner
      BY <1>6, <2>1 DEF SlotOf
    <3> QED
      BY <1>1, <1>6, <2>1, <3>1 DEF SlotInv, SlotsUnique
  <2>2. ASSUME NEW a \in {m, n}, NEW b \in {m, n}, a \in DOMAIN rows, b \notin DOMAIN rows
        PROVE  \E i \in DOMAIN l.req.data : part \in raced /\ SlotOf(rows'[m]) = Slot(l, i)
    <3>1. PICK i \in DOMAIN l.req.data : l.got[i] = 0 /\ SlotOf(rows'[b]) = Slot(l, i)
      BY <1>5, <2>2
    <3>2. SlotOf(rows[a]) = Slot(l, i)
      BY <1>6, <2>2, <3>1
    <3> QED
      BY <1>7, <2>2, <3>1, <3>2
  <2>3. ASSUME m \notin DOMAIN rows, n \notin DOMAIN rows
        PROVE  \E i \in DOMAIN l.req.data : part \in raced /\ SlotOf(rows'[m]) = Slot(l, i)
    <3>1. PICK i \in DOMAIN l.req.data : m = IdOf(l, i) /\ SlotOf(rows'[m]) = Slot(l, i)
      BY <1>5, <2>3
    <3>2. PICK j \in DOMAIN l.req.data : n = IdOf(l, j) /\ SlotOf(rows'[n]) = Slot(l, j)
      BY <1>5, <2>3
    <3>3. i # j /\ l.req.data[i].at = l.req.data[j].at
      BY <3>1, <3>2 DEF Slot
    <3>4. Repeats(l.req)
      BY <1>2, <3>3 DEF Repeats
    <3> QED
      BY <1>2, <3>1, <3>4 DEF SlotInv, Races
  <2>4. CASE m \notin DOMAIN rows \/ n \notin DOMAIN rows
    <3>1. PICK i \in DOMAIN l.req.data : part \in raced /\ SlotOf(rows'[m]) = Slot(l, i)
      BY <2>2, <2>3, <2>4
    <3> QED
      BY <1>8, <3>1
  <2> QED
    BY <2>1, <2>4
<1>10. Races'
  <2>1. Idle.at = "idle"
    BY DEF Idle
  <2> QED
    BY <1>2, <1>3, <2>1, RacesKept DEF SlotInv
<1>11. ASSUME NEW d \in Call, call'[d].at \in {"rows", "save"}, Leaf(call'[d].req) \notin raced'
       PROVE  Missed(call[d])'
  <2>1. d # c /\ call'[d] = call[d]
    BY <1>3, <1>11 DEF Idle
  <2>2. Missed(call[d]) /\ Busy(d) /\ Names(call[d])
    BY <1>3, <1>11, <2>1, RowsPhase DEF SlotInv, Busy
  <2>3. Leaf(call[d].req) # part
    BY <1>2, <1>3, <1>11, <2>1, <2>2 DEF SlotInv, Races
  <2>4. call[d].under # l.under
    BY <1>2, <2>2, <2>3, LeafIs, PartIs DEF Names
  <2>5. ASSUME NEW i \in DOMAIN call[d].req.data, i \notin call[d].todo, call[d].got[i] = 0,
               NEW n \in DOMAIN rows'
        PROVE  SlotOf(rows'[n]) # Slot(call[d], i)
    <3>1. CASE n \in DOMAIN rows
      BY <1>6, <2>2, <2>5, <3>1 DEF Missed
    <3>2. CASE n \notin DOMAIN rows
      BY <1>5, <2>4, <3>2 DEF Slot
    <3> QED
      BY <3>1, <3>2
  <2>6. /\ \A i : Slot(call[d], i)' = Slot(call[d], i)
        /\ \A n : SlotOf(rows[n])' = SlotOf(rows'[n])
    BY <2>1 DEF Slot, SlotOf
  <2> QED
    BY <2>1, <2>5, <2>6 DEF Missed
<1>12. \A d \in Call : Leaf(call[d].req)' = Leaf(call'[d].req)
  BY DEF Leaf
<1> QED
  BY <1>9, <1>10, <1>11, <1>12 DEF SlotInv

\* Steps of no request.
LEMMA OthersSlots ==
  ASSUME Inv, SlotInv, Grown, UNCHANGED tables, raced' = raced,
         call' = call \/ call' = [c \in Call |-> Idle]
  PROVE  SlotInv'
<1>1. rows' = rows
  BY DEF tables
<1>2. SlotsUnique'
  BY <1>1, UniqueKept DEF SlotInv
<1>3. CASE call' = call
  <2>1. Races'
    BY <1>3 DEF SlotInv, Races, Busy, Leaf, Repeats
  <2>2. \A c \in Call : Missed(call[c]) => Missed(call[c])'
    BY <1>1, <1>3, MissedKept
  <2>3. \A c \in Call : Leaf(call[c].req)' = Leaf(call[c].req)
    BY <1>3 DEF Leaf
  <2> QED
    BY <1>2, <1>3, <2>1, <2>2, <2>3 DEF SlotInv
<1>4. CASE call' = [c \in Call |-> Idle]
  <2>1. \A c \in Call : call'[c].at = "idle"
    BY <1>4 DEF Idle
  <2>2. Races'
    BY <2>1 DEF Races, Busy
  <2> QED
    BY <1>2, <2>1, <2>2 DEF SlotInv
<1> QED
  BY <1>3, <1>4

LEMMA StepSlots ==
  ASSUME Inv, SlotInv, [Next]_vars
  PROVE  SlotInv'
<1>1. Grown
  BY StepKeeps
<1>2. ASSUME NEW c \in Call, CallStep(c)
      PROVE  SlotInv'
  <2>1. CASE Ask(c)
    BY <2>1, AskSlots
  <2>2. CASE ~Ask(c)
    <3>1. rows' = rows \/ SaveRows(c)
      BY <1>2, <2>2, GoesOnIs
    <3> QED
      BY <1>1, <1>2, <2>2, <3>1, GoesOnSlots, SaveSlots
  <2> QED
    BY <2>1, <2>2
<1>3. CASE AskRefresh \/ Refresh \/ Commit \/ Crash
  <2>1. /\ UNCHANGED tables /\ raced' = raced
        /\ call' = call \/ call' = [c \in Call |-> Idle]
    BY <1>3 DEF AskRefresh, Refresh, Commit, Crash
  <2> QED
    BY <1>1, <2>1, OthersSlots
<1>4. CASE UNCHANGED vars
  <2>1. UNCHANGED tables /\ raced' = raced /\ call' = call
    BY <1>4 DEF vars
  <2> QED
    BY <1>1, <2>1, OthersSlots
<1>5. ASSUME NEW e \in DOMAIN entities, changeStatus(e)
      PROVE  SlotInv'
  <2>1. rows' = rows /\ raced' = raced /\ call' = call
    BY <1>5 DEF changeStatus
  <2>2. SlotsUnique'
    BY <1>1, <2>1, UniqueKept DEF SlotInv
  <2>3. Races'
    BY <2>1 DEF SlotInv, Races, Busy, Leaf, Repeats
  <2>4. \A c \in Call : Missed(call[c]) => Missed(call[c])'
    BY <2>1, MissedKept
  <2>5. \A c \in Call : Leaf(call[c].req)' = Leaf(call[c].req)
    BY <2>1 DEF Leaf
  <2> QED
    BY <2>1, <2>2, <2>3, <2>4, <2>5 DEF SlotInv
<1> QED
  BY <1>2, <1>3, <1>4, <1>5 DEF Next

\* An owner, a type and a date have one row, unless two requests worked on the
\* entity at once, or one that named a date twice: looking for the row and
\* inserting it in two queries is safe as long as importers do not meet.
THEOREM OneRowPerSlot == Spec => []SlotsUnique
<1>1. Init => SlotInv
  BY SlotsBegin
<1>2. Inv /\ SlotInv /\ [Next]_vars => SlotInv'
  BY StepSlots
<1>3. SlotInv => SlotsUnique
  BY DEF SlotInv
<1> QED
  BY <1>1, <1>2, <1>3, Invariance, PTL DEF Spec

-----------------------------------------------------------------------------
(* Views do not go back.                                                   *)

\* A latest row is earlier than what is shown only if that has no value left.
LEMMA TakenBack ==
  ASSUME Inv, NEW i \in 1..5, NEW old, Stands(old), NEW new \in Latest(Views[i]),
         MetricOf(old) = MetricOf(new), new.at \in Int, new.at < old.at
  PROVE  SlotOf(old) \in Nulls(Views[i])
<1>1. PICK n \in DOMAIN rows : SlotOf(rows[n]) = SlotOf(old)
  BY DEF Stands
<1>2. new.table = Views[i] /\ old.table = Views[i] /\ old.at \in Int
  BY DEF Latest, MetricOf, Stands
<1>3. rows[n] \in Range(rows) /\ rows[n].table = Views[i]
  BY <1>1, <1>2 DEF Range, SlotOf
<1>4. ASSUME NEW other \in Range(rows), SlotOf(other) = SlotOf(rows[n])
      PROVE  other.value = Null
  <2>1. /\ other.table = Views[i] /\ MetricOf(other) = MetricOf(new)
        /\ other.at = old.at
    BY <1>1, <1>2, <1>4 DEF SlotOf, MetricOf
  <2>2. other.value # Null => other.at <= new.at
    BY <1>4, <2>1 DEF Latest
  <2> QED
    BY <1>2, <2>1, <2>2
<1> QED
  BY <1>1, <1>3, <1>4 DEF Nulls

\* Requests leave the views alone.
LEMMA CallShows ==
  ASSUME NEW c \in Call, CallStep(c)
  PROVE  UNCHANGED shown
<1>1. \A l : Steps(c, l) => UNCHANGED shown
  BY DEF Steps
<1>2. CASE Ask(c)
  BY <1>2 DEF Ask
<1>3. CASE FindPart(c) \/ Insert(c) \/ Factory(c)
  BY <1>1, <1>3 DEF FindPart, Insert, Factory
<1>4. CASE FindRow(c)
  BY <1>1, <1>4 DEF FindRow
<1>5. CASE SaveRows(c) \/ SaveEntity(c) \/ Delete(c)
  BY <1>1, <1>5 DEF SaveRows, SaveEntity, Delete
<1>6. CASE Fetch(c) \/ Create(c)
  BY <1>1, <1>6 DEF Fetch, Create
<1> QED
  BY <1>2, <1>3, <1>4, <1>5, <1>6 DEF CallStep

LEMMA StepNoneBack ==
  ASSUME Inv, NoneBack, [Next]_vars
  PROVE  NoneBack'
<1>1. CASE Refresh
  <2>1. PICK i \in 1..5, taken \in SUBSET Range(rows) :
           /\ i = refresh.at + 1 /\ refresh'.at = i
           /\ Shows(taken, Views[i])
           /\ refresh'.taken = refresh.taken \cup taken
           /\ refresh'.nulls = refresh.nulls \cup Nulls(Views[i])
           /\ view' = view /\ waiting' \in 0..1 /\ UNCHANGED tables /\ call' = call
           /\ scenario' = scenario
    BY <1>1, RefreshIs
  <2>2. ASSUME NEW old \in view, NEW new \in taken, MetricOf(old) = MetricOf(new),
               new.at < old.at
        PROVE  SlotOf(old) \in Nulls(Views[i])
    <3>1. new \in Latest(Views[i]) /\ Stands(new)
      BY <2>1, <2>2, TakenIs
    <3>2. Stands(old)
      BY DEF Inv, RefreshOK
    <3>3. new.at \in Int
      BY <3>1 DEF Stands
    <3> QED
      BY <2>2, <3>1, <3>2, <3>3, TakenBack
  <2> QED
    BY <2>1, <2>2 DEF NoneBack
<1>2. CASE refresh' = NoRefresh
  BY <1>2 DEF NoneBack, NoRefresh
<1>3. CASE view' = view /\ refresh' = refresh
  BY <1>3 DEF NoneBack
<1>4. \/ Refresh \/ refresh' = NoRefresh
      \/ view' = view /\ refresh' = refresh
  <2>1. \A c \in Call : CallStep(c) => view' = view /\ refresh' = refresh
    BY CallShows DEF shown
  <2> QED
    BY <2>1 DEF Next, AskRefresh, Commit, Crash, changeStatus, vars, shown
<1> QED
  BY <1>1, <1>2, <1>3, <1>4

\* The views change when a refresh is committed, and then to what it has taken.
LEMMA StepShows ==
  ASSUME Inv, NoneBack, [Next]_vars,
         NEW old \in view, NEW new \in view', MetricOf(old) = MetricOf(new), new.at < old.at
  PROVE  SlotOf(old) \in refresh.nulls
<1>1. \A c \in Call : CallStep(c) => view' = view
  BY CallShows DEF shown
<1>2. view' = view \/ view' = refresh.taken
  BY <1>1 DEF Next, AskRefresh, Refresh, Commit, Crash, changeStatus, vars, shown
<1>3. CASE view' = refresh.taken
  BY <1>3 DEF NoneBack
<1>4. CASE view' = view
  <2>1. new = old /\ old.at \in Int
    BY <1>4 DEF Inv, RefreshOK, OneOfEach, Stands
  <2> QED
    BY <2>1
<1> QED
  BY <1>2, <1>3, <1>4

\* What the views show of a metric is replaced by an older date only if the
\* refresh found no value at the later one.
THEOREM ViewsGoForward == Spec => ViewNeverGoesBack
<1>1. Init => NoneBack
  BY DEF Init, NoRefresh, NoneBack
<1>2. Inv /\ NoneBack /\ [Next]_vars => NoneBack'
  BY StepNoneBack
<1>3. Inv /\ NoneBack /\ [Next]_vars
      => [\A old \in view, new \in view' :
             MetricOf(old) = MetricOf(new) /\ new.at < old.at
             => SlotOf(old) \in refresh.nulls]_vars
  BY StepShows
<1> QED
  BY <1>1, <1>2, <1>3, Invariance, PTL DEF Spec, ViewNeverGoesBack

-----------------------------------------------------------------------------
(* A request that runs alone has had its effect when it ends.              *)

\* Rows are records, of tables with ids from 1 on.
ExternalFields == {"owner", "value"}
IsRow(row, fields) == row = [f \in fields |-> row[f]]
Recorded ==
    /\ entities = [e \in DOMAIN entities |-> entities[e]]
    /\ \A e \in DOMAIN entities : IsRow(entities[e], EntityFields)
    /\ \A x \in DOMAIN externals : IsRow(externals[x], ExternalFields)
    /\ UpTo(DOMAIN externals)

\* The tables to begin with are of records.
LEMMA RecordedBegins ==
  ASSUME Init
  PROVE  Recorded
<1>1. TablesBegin(scenario)
  BY MetricCollectionAssumption DEF Init
<1>2. entities = scenario.entities /\ externals = scenario.externals
  BY DEF Init
<1>3. entities = [e \in DOMAIN entities |-> entities[e]]
  BY <1>1, <1>2 DEF TablesBegin
<1>4. ASSUME NEW e \in DOMAIN entities
      PROVE  IsRow(entities[e], EntityFields)
  BY <1>1, <1>2 DEF TablesBegin, Entity, EntityFields, IsRow
<1>5. ASSUME NEW x \in DOMAIN externals
      PROVE  IsRow(externals[x], ExternalFields)
  BY <1>1, <1>2 DEF TablesBegin, ExternalFields, IsRow
<1>6. UpTo(DOMAIN externals)
  BY <1>1, <1>2, NumberedUpTo DEF TablesBegin
<1> QED
  BY <1>3, <1>4, <1>5, <1>6 DEF Recorded

\* A row of which one field is written.
LEMMA FieldSet ==
  ASSUME NEW fields, NEW row, IsRow(row, fields), NEW g \in fields, NEW v
  PROVE  /\ IsRow([row EXCEPT ![g] = v], fields)
         /\ [row EXCEPT ![g] = v][g] = v
         /\ \A f \in fields : f # g => [row EXCEPT ![g] = v][f] = row[f]
         /\ row[g] = v => [row EXCEPT ![g] = v] = row
<1>1. row = [f \in fields |-> row[f]]
  BY DEF IsRow
<1>2. [row EXCEPT ![g] = v] = [f \in fields |-> IF f = g THEN v ELSE row[f]]
  BY <1>1, Zenon
<1>3. row[g] = v => [row EXCEPT ![g] = v] = row
  <2> SUFFICES ASSUME row[g] = v PROVE [row EXCEPT ![g] = v] = row
    OBVIOUS
  <2>1. [f \in fields |-> IF f = g THEN v ELSE row[f]] = [f \in fields |-> row[f]]
    OBVIOUS
  <2> QED
    BY <1>1, <1>2, <2>1, Zenon
<1> DEFINE k == [row EXCEPT ![g] = v]
<1>4. k = [f \in fields |-> IF f = g THEN v ELSE row[f]]
  BY <1>2
<1> HIDE DEF k
<1>5. k = [f \in fields |-> k[f]]
  BY <1>4
<1>6. k[g] = v /\ \A f \in fields : f # g => k[f] = row[f]
  BY <1>4
<1> QED
  BY <1>3, <1>5, <1>6 DEF k, IsRow

\* The status of an entity is written.
LEMMA StatusSet ==
  ASSUME Recorded, NEW e, NEW v, entities' = [entities EXCEPT ![e].status = v]
  PROVE  /\ entities' = [d \in DOMAIN entities' |-> entities'[d]]
         /\ \A d \in DOMAIN entities' : IsRow(entities'[d], EntityFields)
<1>1. DOMAIN entities' = DOMAIN entities
  OBVIOUS
<1>2. entities' = [d \in DOMAIN entities' |-> entities'[d]]
  OBVIOUS
<1>3. ASSUME NEW d \in DOMAIN entities
      PROVE  IsRow(entities'[d], EntityFields)
  <2>1. IsRow(entities[d], EntityFields) /\ "status" \in EntityFields
    BY DEF Recorded, EntityFields
  <2>2. IsRow([entities[d] EXCEPT !["status"] = v], EntityFields)
    BY <2>1, FieldSet
  <2>3. entities'[d] = IF d = e THEN [entities[d] EXCEPT !["status"] = v] ELSE entities[d]
    OBVIOUS
  <2> QED
    BY <2>1, <2>2, <2>3, Zenon
<1> QED
  BY <1>1, <1>2, <1>3

\* Whatever is written is a record, at a new id or in place of one.
LEMMA StepRecorded ==
  ASSUME Inv, Recorded, [Next]_vars
  PROVE  Recorded'
<1>1. CASE entities' = entities /\ externals' = externals
  BY <1>1 DEF Recorded
<1>2. ASSUME NEW c \in Call, Insert(c)
      PROVE  Recorded'
  <2> DEFINE id == NewId(entities)
  <2> DEFINE row == [name |-> Head(call[c].parts).name, type |-> Head(call[c].parts).type,
                     parent |-> call[c].under, status |-> "ACTIVE",
                     serial |-> "", detail |-> FALSE]
  <2>1. entities' = WithRow(entities, id, row) /\ externals' = externals
    BY <1>2 DEF Insert
  <2>2. IsRow(row, EntityFields)
    BY DEF IsRow, EntityFields
  <2> HIDE DEF id, row
  <2>3. entities' = [d \in DOMAIN entities \cup {id} |-> IF d = id THEN row ELSE entities[d]]
    BY <2>1 DEF WithRow
  <2>4. /\ DOMAIN entities' = DOMAIN entities \cup {id}
        /\ entities' = [d \in DOMAIN entities' |-> entities'[d]]
    BY <2>3
  <2>5. ASSUME NEW d \in DOMAIN entities'
        PROVE  IsRow(entities'[d], EntityFields)
    <3>1. entities'[d] = IF d = id THEN row ELSE entities[d]
      BY <2>3, <2>4
    <3>2. d # id => IsRow(entities[d], EntityFields)
      BY <2>4 DEF Recorded
    <3> QED
      BY <2>2, <3>1, <3>2
  <2> QED
    BY <2>1, <2>4, <2>5 DEF Recorded
<1>3. ASSUME NEW c \in Call, Delete(c)
      PROVE  Recorded'
  <2>1. /\ entities' = entities
        /\ externals' = [x \in DOMAIN externals \ call[c].old |-> externals[x]]
    BY <1>3 DEF Delete
  <2>2. UpTo(DOMAIN externals')
    BY <2>1 DEF Recorded, UpTo
  <2> QED
    BY <2>1, <2>2 DEF Recorded
<1>4. ASSUME NEW c \in Call, Create(c)
      PROVE  Recorded'
  <2> DEFINE id == NewId(externals)
  <2> DEFINE row(i) == [owner |-> call[c].under, value |-> call[c].req.data[i].value]
  <2>1. PICK i : externals' = WithRow(externals, id, row(i)) /\ entities' = entities
    BY <1>4 DEF Create
  <2>2. IsRow(row(i), ExternalFields)
    BY DEF IsRow, ExternalFields
  <2>3. UpTo(DOMAIN externals \cup {id})
    BY NewIdIs DEF Recorded
  <2> HIDE DEF id, row
  <2>4. externals' = [x \in DOMAIN externals \cup {id} |-> IF x = id THEN row(i) ELSE externals[x]]
    BY <2>1 DEF WithRow
  <2>5. DOMAIN externals' = DOMAIN externals \cup {id}
    BY <2>4
  <2>6. ASSUME NEW x \in DOMAIN externals'
        PROVE  IsRow(externals'[x], ExternalFields)
    <3>1. externals'[x] = IF x = id THEN row(i) ELSE externals[x]
      BY <2>4, <2>5
    <3>2. x # id => IsRow(externals[x], ExternalFields)
      BY <2>5 DEF Recorded
    <3> QED
      BY <2>2, <3>1, <3>2
  <2> QED
    BY <2>1, <2>3, <2>5, <2>6 DEF Recorded
<1>5. ASSUME NEW c \in Call, SaveEntity(c)
      PROVE  Recorded'
  <2> DEFINE e == call[c].under
  <2>1. /\ entities' = [entities EXCEPT ![e].status = call[c].status]
        /\ externals' = [x \in DOMAIN externals |->
              [externals[x] EXCEPT !.owner = IF x \in Range(call[c].got) THEN e
                                             ELSE IF @ = e THEN NoOne ELSE @]]
    BY <1>5 DEF SaveEntity
  <2> HIDE DEF e
  <2>2. ASSUME NEW x \in DOMAIN externals'
        PROVE  IsRow(externals'[x], ExternalFields)
    <3> DEFINE v == IF x \in Range(call[c].got) THEN e
                    ELSE IF externals[x].owner = e THEN NoOne ELSE externals[x].owner
    <3>1. x \in DOMAIN externals /\ externals'[x] = [externals[x] EXCEPT !["owner"] = v]
      BY <2>1
    <3> HIDE DEF v
    <3>2. IsRow(externals[x], ExternalFields) /\ "owner" \in ExternalFields
      BY <3>1 DEF Recorded, ExternalFields
    <3>3. IsRow([externals[x] EXCEPT !["owner"] = v], ExternalFields)
      BY <3>2, FieldSet
    <3> QED
      BY <3>1, <3>3
  <2>3. /\ entities' = [d \in DOMAIN entities' |-> entities'[d]]
        /\ \A d \in DOMAIN entities' : IsRow(entities'[d], EntityFields)
    BY <2>1, StatusSet
  <2>4. DOMAIN externals' = DOMAIN externals
    BY <2>1
  <2> QED
    BY <2>2, <2>3, <2>4 DEF Recorded
<1>6. ASSUME NEW e \in DOMAIN entities, changeStatus(e)
      PROVE  Recorded'
  <2>1. /\ entities' = [entities EXCEPT ![e].status =
                            IF entities[e].status = "ACTIVE" THEN "INACTIVE" ELSE "ACTIVE"]
        /\ externals' = externals
    BY <1>6 DEF changeStatus
  <2> QED
    BY <2>1, StatusSet DEF Recorded
<1>7. \/ entities' = entities /\ externals' = externals
      \/ \E c \in Call : Insert(c) \/ Delete(c) \/ Create(c) \/ SaveEntity(c)
      \/ \E e \in DOMAIN entities : changeStatus(e)
  BY DEF Next, CallStep, Ask, FindPart, Factory, FindRow, SaveRows, Fetch, Reads,
         AskRefresh, Refresh, Commit, Crash, vars, tables
<1> QED
  BY <1>1, <1>2, <1>3, <1>4, <1>5, <1>6, <1>7

\* What a request of externals has made of them while it ran alone.
Replacing(l) ==
    LET done == DOMAIN l.req.data \ l.todo
    IN /\ NotOwnedIn(externals, l.under) = NotOwnedIn(l.before[4], l.under)
       /\ \A x \in NotOwnedIn(externals, l.under) : externals[x] = l.before[4][x]
       /\ OwnedIn(externals, l.under) = {l.got[i] : i \in done}
       /\ \A i, j \in done : l.got[i] = l.got[j] => i = j
       /\ \A i \in done : externals[l.got[i]].value = l.req.data[i].value

\* A request that runs alone: the tables are as it found them, but for externals
\* that it has deleted or created.
ExternalsAsBegun(l) ==
    /\ entities = l.before[1]
    /\ DOMAIN l.got = DOMAIN l.req.data /\ l.todo \subseteq DOMAIN l.req.data
    /\ l.at \in {"fetch", "delete"} => externals = l.before[4] /\ l.todo = DOMAIN l.req.data
    /\ l.at \in {"delete", "create"} => /\ l.under \in Named(l.req.key)
                                        /\ l.status = entities[l.under].status
    /\ l.at = "delete" => l.old = OwnedBy(l.under)
    /\ l.at = "create" => Replacing(l)
AsBegun(l) ==
    /\ rows = l.before[3]
    /\ IF l.req.collector = "externals" THEN ExternalsAsBegun(l)
       ELSE externals = l.before[4]

\* Beside a request that runs alone there is no other.
Alone ==
    \A c \in alone : /\ c \in Call
                     /\ Busy(c) => AsBegun(call[c]) /\ \A d \in Call : Busy(d) => d = c

\* The effect that a request should have had when it ends.
Put(l) == IF l.req.collector = "externals" THEN ExternalsPut(l) ELSE MetricsPut(l)

\* A step of a request goes on, or ends with the effect.
GoesOn(c) == Busy(c)' /\ AsBegun(call[c])'
Ends(c) == call'[c] = Idle /\ Put(call[c])

\* A step of a request of metrics that writes none.
LEMMA MetricsGoOn ==
  ASSUME NEW c \in Call, AsBegun(call[c]), call[c].req.collector # "externals",
         rows' = rows, externals' = externals,
         call'[c].req = call[c].req, call'[c].before = call[c].before, call'[c].at # "idle"
  PROVE  GoesOn(c)
BY DEF GoesOn, AsBegun, Busy

\* Looking for the entity, and making it, leaves metrics and externals alone.
LEMMA FindAlone ==
  ASSUME Inv, NEW c \in Call, AsBegun(call[c]), FindPart(c) \/ Insert(c)
  PROVE  GoesOn(c)
<1> DEFINE l == call[c]
<1>1. /\ CallOK(l) /\ CallsOK /\ l.at \in {"find", "insert"}
      /\ rows' = rows /\ externals' = externals
  BY DEF FindPart, Insert, At, Inv, CallsOK, Reads, tables
<1>2. DOMAIN l = Local /\ l.req.collector # "externals"
  BY <1>1 DEF CallOK
<1>3. \E k : Steps(c, k) /\ k.req = l.req /\ k.before = l.before /\ k.at # "idle"
  <2>1. \A e : /\ Down(l, e).req = l.req /\ Down(l, e).before = l.before
               /\ Down(l, e).at = IF Len(l.parts) = 1 THEN "factory" ELSE "find"
    BY <1>2, DownIs
  <2>2. \/ Steps(c, [l EXCEPT !.at = "insert"])
        \/ \E e : Steps(c, Down(l, e))
    BY DEF FindPart, Insert
  <2>3. CASE Steps(c, [l EXCEPT !.at = "insert"])
    <3> DEFINE k == [l EXCEPT !.at = "insert"]
    <3>1. Steps(c, k) /\ k.req = l.req /\ k.before = l.before /\ k.at = "insert"
      BY <1>2, <2>3 DEF Local
    <3> HIDE DEF k
    <3> QED
      BY <3>1
  <2> QED
    BY <2>1, <2>2, <2>3
<1>4. call'[c].req = l.req /\ call'[c].before = l.before /\ call'[c].at # "idle"
  BY <1>1, <1>3, StepsIs
<1> QED
  BY <1>1, <1>2, <1>4, MetricsGoOn

\* The factory refuses the request, or it goes on.
LEMMA FactoryAlone ==
  ASSUME Inv, NEW c \in Call, AsBegun(call[c]), Factory(c)
  PROVE  GoesOn(c) \/ Ends(c)
<1> DEFINE l == call[c]
<1> DEFINE table == getByStorageEntityType(Leaf(l.req).type, l.req.metric)
<1>1. /\ CallOK(l) /\ CallsOK /\ l.at = "factory" /\ rows' = rows /\ externals' = externals
      /\ Steps(c, IF Fits(l.req.collector, table) THEN [l EXCEPT !.at = "rows"] ELSE Idle)
  BY DEF Factory, At, Inv, CallsOK, Reads, tables
<1>2. DOMAIN l = Local /\ l.req.collector # "externals"
  BY <1>1 DEF CallOK
<1>3. CASE Fits(l.req.collector, table)
  <2> DEFINE k == [l EXCEPT !.at = "rows"]
  <2>1. Steps(c, k) /\ k.req = l.req /\ k.before = l.before /\ k.at = "rows"
    BY <1>1, <1>2, <1>3 DEF Local
  <2> HIDE DEF k
  <2>2. call'[c].req = l.req /\ call'[c].before = l.before /\ call'[c].at = "rows"
    BY <1>1, <2>1, StepsIs
  <2> QED
    BY <1>1, <1>2, <2>2, MetricsGoOn
<1>4. CASE ~Fits(l.req.collector, table)
  <2>1. call'[c] = Idle
    BY <1>1, <1>4, StepsIs
  <2>2. Slot(l, 1).table = table
    BY DEF Slot
  <2>3. rows' = l.before[3] /\ externals' = l.before[4]
    BY <1>1, <1>2 DEF AsBegun
  <2>4. MetricsPut(l)
    BY <1>4, <2>2, <2>3 DEF MetricsPut
  <2> QED
    BY <1>2, <2>1, <2>4 DEF Ends, Put
<1> QED
  BY <1>3, <1>4

\* So does looking for the rows.
LEMMA FindRowAlone ==
  ASSUME Inv, NEW c \in Call, AsBegun(call[c]), FindRow(c)
  PROVE  GoesOn(c)
<1>1. call[c].at = "rows"
  BY DEF FindRow, At
<1>2. call[c].req.collector # "externals"
  BY <1>1, RowsPhase
<1>3. /\ call'[c].req = call[c].req /\ call'[c].before = call[c].before
      /\ call'[c].at # "idle"
      /\ rows' = rows /\ externals' = externals
  BY FindRowIs DEF tables
<1> QED
  BY <1>2, <1>3, MetricsGoOn

\* The save gives each item of the request a row with its value, or with that of
\* a later item of its slot.
LEMMA CollectedHas ==
  ASSUME Inv, NEW c \in Call, call[c].at = "save", NEW i \in DOMAIN call[c].req.data
  PROVE  LET l == call[c]
         IN \E n \in DOMAIN Collected(l), j \in i..Len(l.req.data) :
               Slot(l, i) = Slot(l, j) /\ Collected(l)[n] = Written(l, j)
<1> DEFINE l == call[c]
<1> DEFINE data == l.req.data
<1> DEFINE fresh == {k \in DOMAIN data : l.got[k] = 0}
<1> DEFINE id(k) == IF k \in fresh THEN IdOf(l, k) ELSE l.got[k]
<1> DEFINE made(n) == {k \in DOMAIN data : id(k) = n}
<1> DEFINE ids == DOMAIN rows \cup {id(k) : k \in DOMAIN data}
<1>1. /\ l.req \in scenario.requests /\ DOMAIN l.got = DOMAIN data
      /\ \A k \in DOMAIN data : Found(l, k)
      /\ UpTo(DOMAIN rows)
  BY RowsPhase DEF TablesOK, RowsOK
<1>2. Collected(l) = [n \in ids |-> IF made(n) = {} THEN rows[n] ELSE Written(l, Max(made(n)))]
  BY DEF Collected, IdOf
<1>3. /\ UpTo(DOMAIN data) /\ IsFiniteSet(DOMAIN data)
      /\ Len(data) \in Nat /\ DOMAIN data = 1..Len(data)
  BY <1>1, DataIs
<1>4. NewId(rows) \in Nat /\ \A n \in DOMAIN rows : n \in Nat /\ n < NewId(rows)
  BY <1>1, NewIdIs
<1> DEFINE earlier(k) == {h \in fresh : h < k}
<1>5. ASSUME NEW k \in fresh
      PROVE  /\ Cardinality(earlier(k)) \in Nat /\ IsFiniteSet(earlier(k))
             /\ id(k) = NewId(rows) + Cardinality(earlier(k))
  BY <1>3, FS_Subset, FS_CardinalityType DEF IdOf
<1> DEFINE n == id(i)
<1>6. n \in ids /\ i \in made(n)
  OBVIOUS
<1>7. Max(made(n)) \in made(n) /\ \A k \in made(n) : Max(made(n)) >= k
  <2>1. UpTo(made(n)) /\ made(n) # {}
    BY <1>3, <1>6 DEF UpTo
  <2> HIDE DEF made
  <2> QED
    BY <2>1, MaxIs
<1> DEFINE j == Max(made(n))
<1>8. j \in DOMAIN data /\ id(j) = n /\ j >= i
  BY <1>6, <1>7
<1>9. Collected(l)[n] = Written(l, j) /\ n \in DOMAIN Collected(l)
  <2> HIDE DEF made, ids, id
  <2> QED
    BY <1>2, <1>6
<1>10. Slot(l, i) = Slot(l, j)
  <2> HIDE DEF j
  <2>1. ASSUME NEW k \in DOMAIN data, k \notin fresh
        PROVE  id(k) \in DOMAIN rows /\ SlotOf(rows[id(k)]) = Slot(l, k)
    BY <1>1, <2>1 DEF Found
  <2>2. ASSUME NEW k \in fresh
        PROVE  id(k) \notin DOMAIN rows
    <3>1. /\ Cardinality(earlier(k)) \in Nat
          /\ id(k) = NewId(rows) + Cardinality(earlier(k))
      BY <1>5
    <3> HIDE DEF id, earlier
    <3> QED
      BY <1>4, <3>1
  <2>3. CASE n \in DOMAIN rows
    BY <1>8, <2>1, <2>2, <2>3
  <2>4. CASE n \notin DOMAIN rows
    <3>1. i \in fresh /\ j \in fresh
      BY <1>8, <2>1, <2>4
    <3>2. Cardinality(earlier(i)) = Cardinality(earlier(j))
      <4>1. /\ Cardinality(earlier(i)) \in Nat /\ Cardinality(earlier(j)) \in Nat
            /\ id(i) = NewId(rows) + Cardinality(earlier(i))
            /\ id(j) = NewId(rows) + Cardinality(earlier(j))
        BY <1>5, <3>1
      <4>2. id(i) = id(j)
        BY <1>8
      <4> HIDE DEF id, earlier
      <4> QED
        BY <1>4, <4>1, <4>2
    <3>3. i \in Nat /\ j \in Nat
      BY <1>3, <1>8
    <3>4. earlier(i) \subseteq earlier(j)
      BY <1>3, <1>8, <3>3
    <3>5. earlier(i) = earlier(j)
      BY <1>5, <3>1, <3>2, <3>4, FS_Subset
    <3>6. ~(i < j)
      BY <3>1, <3>3, <3>5
    <3>7. i = j
      BY <1>8, <3>3, <3>6
    <3> QED
      BY <3>7
  <2> QED
    BY <2>3, <2>4
<1> HIDE DEF n, j, ids, made, id
<1>11. j \in i..Len(data)
  BY <1>3, <1>8
<1> QED
  BY <1>9, <1>10, <1>11

\* The save is the effect of the request.
LEMMA SaveRowsAlone ==
  ASSUME Inv, NEW c \in Call, AsBegun(call[c]), SaveRows(c)
  PROVE  Ends(c)
<1> DEFINE l == call[c]
<1>1. /\ l.at = "save" /\ rows' = Collected(l) /\ Steps(c, Idle) /\ externals' = externals
  BY DEF SaveRows, At
<1>2. /\ CallsOK /\ l.req.collector # "externals"
      /\ Fits(l.req.collector, getByStorageEntityType(Leaf(l.req).type, l.req.metric))
  BY <1>1, RowsPhase
<1>3. call'[c] = Idle
  BY <1>1, <1>2, StepsIs
<1>4. rows = l.before[3] /\ externals' = l.before[4]
  BY <1>1, <1>2 DEF AsBegun
<1>5. /\ DOMAIN rows \subseteq DOMAIN rows'
      /\ \A n \in DOMAIN rows :
            \/ rows'[n] = rows[n]
            \/ \E i \in DOMAIN l.req.data :
                  /\ Slot(l, i) = SlotOf(rows[n])
                  /\ rows'[n] = Written(l, i)
      /\ \A n \in DOMAIN rows' \ DOMAIN rows :
            \E i \in DOMAIN l.req.data : rows'[n] = Written(l, i)
  BY <1>1, CollectedIs
<1>6. \A i \in DOMAIN l.req.data : \E n \in DOMAIN rows', j \in i..Len(l.req.data) :
         Slot(l, i) = Slot(l, j) /\ rows'[n] = Written(l, j)
  BY <1>1, CollectedHas
<1>7. \A i \in DOMAIN l.req.data : SlotOf(Written(l, i)) = Slot(l, i)
  BY <1>1, WrittenIs
<1>8. \A n \in DOMAIN rows : SlotOf(rows'[n]) = SlotOf(rows[n])
  BY <1>5, <1>7
<1>9. \A n \in DOMAIN rows' : \/ n \in DOMAIN rows /\ rows'[n] = rows[n]
                              \/ \E i \in DOMAIN l.req.data : rows'[n] = Written(l, i)
  BY <1>5
<1>10. Slot(l, 1).table = getByStorageEntityType(Leaf(l.req).type, l.req.metric)
  BY DEF Slot
<1>11. MetricsPut(l)
  BY <1>2, <1>4, <1>6, <1>8, <1>9, <1>10 DEF MetricsPut
<1> QED
  BY <1>2, <1>3, <1>11 DEF Ends, Put

\* The entities of a key depend on the names and types of entities alone.
LEMMA NamedKept ==
  ASSUME entities' = entities, NEW c, call'[c].req = call[c].req
  PROVE  Named(call[c].req.key)' = Named(call[c].req.key)
<1>1. \A part, under : findOneByName(part, under)' = findOneByName(part, under)
  BY DEF findOneByName
<1>2. call'[c].req.key = call[c].req.key
  OBVIOUS
<1> QED
  BY <1>1, <1>2 DEF Named

\* Externals: nothing has the key, or the entity and what it owns are fetched.
LEMMA FetchAlone ==
  ASSUME Inv, NEW c \in Call, AsBegun(call[c]), Fetch(c)
  PROVE  GoesOn(c) \/ Ends(c)
<1> DEFINE l == call[c]
<1> DEFINE to(e) == [l EXCEPT !.under = e, !.old = OwnedBy(e), !.status = entities[e].status,
                              !.at = IF OwnedBy(e) = {} THEN "create" ELSE "delete"]
<1>1. l.at = "fetch" /\ entities' = entities /\ rows' = rows /\ externals' = externals
  BY DEF Fetch, At, Reads, tables
<1>2. DOMAIN l = Local /\ CallsOK /\ l.req.collector = "externals"
  BY <1>1, ExternalsPhase DEF ExternalPhase
<1>3. /\ entities = l.before[1] /\ rows = l.before[3] /\ externals = l.before[4]
      /\ DOMAIN l.got = DOMAIN l.req.data /\ l.todo = DOMAIN l.req.data
  BY <1>1, <1>2 DEF AsBegun, ExternalsAsBegun
<1>4. CASE Named(l.req.key) = {}
  <2>1. Steps(c, Idle)
    BY <1>4 DEF Fetch
  <2>2. call'[c] = Idle
    BY <1>2, <2>1, StepsIs
  <2>3. ExternalsPut(l)
    BY <1>1, <1>3, <1>4 DEF ExternalsPut
  <2> QED
    BY <1>2, <2>2, <2>3 DEF Ends, Put
<1>5. CASE Named(l.req.key) # {}
  <2>1. PICK e \in Named(l.req.key) : Steps(c, to(e))
    BY <1>5 DEF Fetch
  <2>2. /\ to(e).req = l.req /\ to(e).under = e /\ to(e).before = l.before
        /\ to(e).got = l.got /\ to(e).todo = l.todo /\ to(e).old = OwnedBy(e)
        /\ to(e).status = entities[e].status
        /\ to(e).at = IF OwnedBy(e) = {} THEN "create" ELSE "delete"
    BY <1>2 DEF Local
  <2> HIDE DEF to
  <2>3. call'[c] = to(e)
    BY <1>2, <2>1, StepsIs
  <2>4. Named(call[c].req.key)' = Named(l.req.key)
    BY <1>1, <2>2, <2>3, NamedKept
  <2>5. OwnedBy(call[c].under)' = OwnedBy(e)
    BY <1>1, <2>2, <2>3 DEF OwnedBy
  <2>6. OwnedBy(e) = {} => Replacing(call[c])'
    <3> SUFFICES ASSUME OwnedBy(e) = {} PROVE Replacing(call[c])'
      OBVIOUS
    <3>1. call'[c].req = l.req /\ call'[c].todo = DOMAIN l.req.data
          /\ call'[c].under = e /\ call'[c].before = l.before
      BY <1>3, <2>2, <2>3
    <3>2. OwnedIn(externals', e) = {}
      BY <1>1 DEF OwnedIn, OwnedBy
    <3>3. OwnedIn(externals, call[c].under)' = {}
      BY <3>1, <3>2 DEF OwnedIn
    <3>4. NotOwnedIn(externals, call[c].under)' = NotOwnedIn(call[c].before[4], call[c].under)'
      BY <1>1, <1>3, <3>1 DEF NotOwnedIn
    <3>5. \A x : externals'[x] = call'[c].before[4][x]
      BY <1>1, <1>3, <3>1
    <3> QED
      BY <3>1, <3>3, <3>4, <3>5 DEF Replacing
  <2>7. ExternalsAsBegun(call[c])'
    BY <1>1, <1>3, <2>1, <2>2, <2>3, <2>4, <2>5, <2>6 DEF ExternalsAsBegun
  <2> QED
    BY <1>1, <1>2, <1>3, <2>2, <2>3, <2>7 DEF GoesOn, Busy, AsBegun
<1> QED
  BY <1>4, <1>5

\* What the entity owned is gone, and nothing else.
LEMMA DeleteAlone ==
  ASSUME Inv, NEW c \in Call, AsBegun(call[c]), Delete(c)
  PROVE  GoesOn(c)
<1> DEFINE l == call[c]
<1> DEFINE k == [l EXCEPT !.at = "create"]
<1>1. /\ l.at = "delete" /\ Steps(c, k) /\ entities' = entities /\ rows' = rows
      /\ externals' = [x \in DOMAIN externals \ l.old |-> externals[x]]
  BY DEF Delete, At
<1>2. DOMAIN l = Local /\ CallsOK /\ l.req.collector = "externals"
  BY <1>1, ExternalsPhase DEF ExternalPhase
<1>3. /\ entities = l.before[1] /\ rows = l.before[3] /\ externals = l.before[4]
      /\ DOMAIN l.got = DOMAIN l.req.data /\ l.todo = DOMAIN l.req.data
      /\ l.under \in Named(l.req.key) /\ l.status = entities[l.under].status
      /\ l.old = OwnedBy(l.under)
  BY <1>1, <1>2 DEF AsBegun, ExternalsAsBegun
<1>4. /\ k.req = l.req /\ k.under = l.under /\ k.before = l.before /\ k.got = l.got
      /\ k.todo = l.todo /\ k.status = l.status /\ k.at = "create"
  BY <1>2 DEF Local
<1> HIDE DEF k
<1>5. call'[c] = k
  BY <1>1, <1>2, StepsIs
<1>6. Named(call[c].req.key)' = Named(l.req.key)
  BY <1>1, <1>4, <1>5, NamedKept
<1>7. Replacing(call[c])'
  <2>1. OwnedIn(externals, call[c].under)' = {}
    BY <1>1, <1>3, <1>4, <1>5 DEF OwnedIn, OwnedBy
  <2>2. DOMAIN externals' = DOMAIN externals \ OwnedBy(l.under)
    BY <1>1, <1>3
  <2>3. NotOwnedIn(externals', l.under) = NotOwnedIn(externals, l.under)
    BY <1>1, <2>2 DEF NotOwnedIn, OwnedBy
  <2>4. NotOwnedIn(externals, call[c].under)' = NotOwnedIn(call[c].before[4], call[c].under)'
    BY <1>3, <1>4, <1>5, <2>3 DEF NotOwnedIn
  <2>5. \A x \in NotOwnedIn(externals, call[c].under)' : externals'[x] = call'[c].before[4][x]
    BY <1>1, <1>3, <1>4, <1>5 DEF NotOwnedIn
  <2> QED
    BY <1>3, <1>4, <1>5, <2>1, <2>4, <2>5 DEF Replacing
<1>8. ExternalsAsBegun(call[c])'
  BY <1>1, <1>3, <1>4, <1>5, <1>6, <1>7 DEF ExternalsAsBegun
<1> QED
  BY <1>1, <1>2, <1>3, <1>4, <1>5, <1>8 DEF GoesOn, Busy, AsBegun

\* One more item has an external of its own.
LEMMA CreateAlone ==
  ASSUME Inv, Recorded, NEW c \in Call, AsBegun(call[c]), Create(c)
  PROVE  GoesOn(c)
<1> DEFINE l == call[c]
<1> DEFINE id == NewId(externals)
<1> DEFINE k(i) == [l EXCEPT !.todo = @ \ {i}, !.got[i] = id]
<1> DEFINE row(i) == [owner |-> l.under, value |-> l.req.data[i].value]
<1>1. PICK i \in l.todo : externals' = WithRow(externals, id, row(i)) /\ Steps(c, k(i))
  BY DEF Create
<1>2. l.at = "create" /\ entities' = entities /\ rows' = rows
  BY DEF Create, At
<1>3. DOMAIN l = Local /\ CallsOK /\ l.req.collector = "externals"
  BY <1>2, ExternalsPhase DEF ExternalPhase
<1>4. /\ entities = l.before[1] /\ rows = l.before[3]
      /\ DOMAIN l.got = DOMAIN l.req.data /\ l.todo \subseteq DOMAIN l.req.data
      /\ l.under \in Named(l.req.key) /\ l.status = entities[l.under].status
      /\ Replacing(l)
  BY <1>2, <1>3 DEF AsBegun, ExternalsAsBegun
<1>5. /\ k(i).req = l.req /\ k(i).under = l.under /\ k(i).before = l.before
      /\ k(i).got = [l.got EXCEPT ![i] = id]
      /\ k(i).todo = l.todo \ {i} /\ k(i).status = l.status /\ k(i).at = "create"
  BY <1>2, <1>3 DEF Local
<1>6. id \notin DOMAIN externals
  BY NewIdIs DEF Recorded
<1>7. row(i).owner = l.under /\ row(i).value = l.req.data[i].value
  OBVIOUS
<1> HIDE DEF k, id, row
<1>8. call'[c] = k(i)
  BY <1>1, <1>3, StepsIs
<1>9. Named(call[c].req.key)' = Named(l.req.key)
  BY <1>2, <1>5, <1>8, NamedKept
<1>10. /\ DOMAIN externals' = DOMAIN externals \cup {id}
       /\ externals'[id] = row(i)
       /\ \A x \in DOMAIN externals : externals'[x] = externals[x]
  BY <1>1, <1>6 DEF WithRow
<1> DEFINE done == DOMAIN l.req.data \ l.todo
<1> DEFINE new == call'[c].got
<1>11. /\ DOMAIN new = DOMAIN l.got /\ new[i] = id
       /\ \A j \in done : j # i /\ new[j] = l.got[j]
       /\ i \in DOMAIN l.req.data
  BY <1>1, <1>4, <1>5, <1>8
<1>12. DOMAIN call'[c].req.data \ call'[c].todo = done \cup {i}
  BY <1>1, <1>4, <1>5, <1>8
<1>13. /\ NotOwnedIn(externals, l.under) = NotOwnedIn(l.before[4], l.under)
       /\ \A x \in NotOwnedIn(externals, l.under) : externals[x] = l.before[4][x]
       /\ OwnedIn(externals, l.under) = {l.got[j] : j \in done}
       /\ \A h, j \in done : l.got[h] = l.got[j] => h = j
       /\ \A j \in done : externals[l.got[j]].value = l.req.data[j].value
  BY <1>4 DEF Replacing
<1>14. /\ NotOwnedIn(externals', l.under) = NotOwnedIn(externals, l.under)
       /\ OwnedIn(externals', l.under) = OwnedIn(externals, l.under) \cup {id}
  BY <1>6, <1>7, <1>10 DEF NotOwnedIn, OwnedIn
<1>15. \A j \in done : l.got[j] \in DOMAIN externals
  BY <1>13 DEF OwnedIn
<1> HIDE DEF done, new
<1>16. OwnedIn(externals', l.under) = {new[j] : j \in done \cup {i}}
  <2>1. {new[j] : j \in done \cup {i}} = {l.got[j] : j \in done} \cup {id}
    BY <1>11
  <2> QED
    BY <1>13, <1>14, <2>1
<1>17. \A h, j \in done \cup {i} : new[h] = new[j] => h = j
  BY <1>6, <1>11, <1>13, <1>15
<1>18. \A j \in done \cup {i} : externals'[new[j]].value = l.req.data[j].value
  BY <1>7, <1>10, <1>11, <1>13, <1>15
<1>19. \A x \in NotOwnedIn(externals', l.under) : externals'[x] = l.before[4][x]
  BY <1>10, <1>13, <1>14 DEF NotOwnedIn
<1>20. call'[c].req = l.req /\ call'[c].under = l.under /\ call'[c].before = l.before
  BY <1>5, <1>8
<1>21. /\ OwnedIn(externals, call[c].under)' = OwnedIn(externals', l.under)
       /\ NotOwnedIn(externals, call[c].under)' = NotOwnedIn(externals', l.under)
       /\ NotOwnedIn(call[c].before[4], call[c].under)' = NotOwnedIn(l.before[4], l.under)
  BY <1>20 DEF OwnedIn, NotOwnedIn
<1>22. Replacing(call[c])'
  BY <1>12, <1>13, <1>14, <1>16, <1>17, <1>18, <1>19, <1>20, <1>21 DEF Replacing, new
<1>23. /\ call'[c].at = "create" /\ call'[c].status = l.status
       /\ call'[c].todo \subseteq DOMAIN l.req.data /\ DOMAIN call'[c].got = DOMAIN l.req.data
  BY <1>4, <1>5, <1>8
<1>24. ExternalsAsBegun(call[c])'
  BY <1>2, <1>4, <1>9, <1>20, <1>22, <1>23 DEF ExternalsAsBegun
<1> QED
  BY <1>2, <1>3, <1>4, <1>20, <1>23, <1>24 DEF GoesOn, Busy, AsBegun

\* Items and the rows that are made of them have the same values.
LEMMA SameValues ==
  ASSUME NEW data, IsFiniteSet(DOMAIN data), NEW got, NEW table, NEW owned,
         owned = {got[i] : i \in DOMAIN data},
         \A i, j \in DOMAIN data : got[i] = got[j] => i = j,
         \A i \in DOMAIN data : table[got[i]].value = data[i].value
  PROVE  Values(owned, table) = Values(DOMAIN data, data)
<1>1. {table[x].value : x \in owned} = {data[i].value : i \in DOMAIN data}
  OBVIOUS
<1>2. ASSUME NEW v
      PROVE  Cardinality({x \in owned : table[x].value = v})
             = Cardinality({i \in DOMAIN data : data[i].value = v})
  <2> DEFINE S == {i \in DOMAIN data : data[i].value = v}
  <2> DEFINE T == {x \in owned : table[x].value = v}
  <2> DEFINE f == [i \in S |-> got[i]]
  <2>1. \A i \in S : f[i] = got[i] /\ got[i] \in T
    OBVIOUS
  <2>2. \A x \in T : \E i \in S : got[i] = x
    OBVIOUS
  <2>3. \A i, j \in S : got[i] = got[j] => i = j
    OBVIOUS
  <2>4. IsFiniteSet(S)
    BY FS_Subset
  <2> HIDE DEF S, T
  <2>5. f \in [S -> T] /\ \A i \in S : f[i] = got[i]
    BY <2>1
  <2> HIDE DEF f
  <2>6. f \in Injection(S, T)
    BY <2>3, <2>5 DEF Injection, IsInjective
  <2>7. f \in Surjection(S, T)
    BY <2>2, <2>5 DEF Surjection
  <2>8. ExistsBijection(S, T)
    BY <2>6, <2>7 DEF ExistsBijection, Bijection
  <2> QED
    BY <2>4, <2>8, FS_Bijection DEF S, T
<1> QED
  BY <1>1, <1>2 DEF Values

\* When every item has one, the save of the entity changes nothing any more.
LEMMA SaveEntityAlone ==
  ASSUME Inv, Recorded, NEW c \in Call, AsBegun(call[c]), SaveEntity(c)
  PROVE  Ends(c)
<1> DEFINE l == call[c]
<1> DEFINE e == l.under
<1>1. /\ l.at = "create" /\ l.todo = {} /\ Steps(c, Idle) /\ rows' = rows
      /\ entities' = [entities EXCEPT ![e].status = l.status]
      /\ externals' = [x \in DOMAIN externals |->
            [externals[x] EXCEPT !.owner = IF x \in Range(l.got) THEN e
                                           ELSE IF @ = e THEN NoOne ELSE @]]
  BY DEF SaveEntity, At
<1>2. DOMAIN l = Local /\ CallsOK /\ l.req.collector = "externals" /\ e \in DOMAIN entities
      /\ l.req \in scenario.requests
  BY <1>1, ExternalsPhase DEF ExternalPhase
<1>3. /\ entities = l.before[1] /\ rows = l.before[3]
      /\ DOMAIN l.got = DOMAIN l.req.data
      /\ e \in Named(l.req.key) /\ l.status = entities[e].status
      /\ Replacing(l)
  BY <1>1, <1>2 DEF AsBegun, ExternalsAsBegun
<1>4. call'[c] = Idle
  BY <1>1, <1>2, StepsIs
<1> HIDE DEF e
<1>5. entities' = entities
  <2> DEFINE row == [entities[e] EXCEPT !["status"] = entities[e].status]
  <2>1. IsRow(entities[e], EntityFields) /\ "status" \in EntityFields
    BY <1>2 DEF Recorded, EntityFields
  <2>2. row = entities[e]
    BY <2>1, FieldSet
  <2>3. entities' = [entities EXCEPT ![e] = row]
    BY <1>1, <1>3
  <2> HIDE DEF row
  <2>4. entities' = [d \in DOMAIN entities |-> entities[d]]
    BY <2>2, <2>3
  <2> QED
    BY <2>4 DEF Recorded
<1> DEFINE done == DOMAIN l.req.data \ l.todo
<1>6. done = DOMAIN l.req.data
  BY <1>1
<1>7. /\ NotOwnedIn(externals, e) = NotOwnedIn(l.before[4], e)
      /\ \A x \in NotOwnedIn(externals, e) : externals[x] = l.before[4][x]
      /\ OwnedIn(externals, e) = {l.got[j] : j \in DOMAIN l.req.data}
      /\ \A h, j \in DOMAIN l.req.data : l.got[h] = l.got[j] => h = j
      /\ \A j \in DOMAIN l.req.data : externals[l.got[j]].value = l.req.data[j].value
  BY <1>3, <1>6 DEF Replacing, e
<1>8. Range(l.got) = OwnedIn(externals, e)
  BY <1>3, <1>7 DEF Range
<1>9. ASSUME NEW x \in DOMAIN externals
      PROVE  externals'[x] = externals[x]
  <2> DEFINE v == IF x \in Range(l.got) THEN e
                  ELSE IF externals[x].owner = e THEN NoOne ELSE externals[x].owner
  <2>1. externals'[x] = [externals[x] EXCEPT !["owner"] = v]
    BY <1>1
  <2>2. externals[x].owner = v
    BY <1>8 DEF OwnedIn
  <2> HIDE DEF v
  <2>3. IsRow(externals[x], ExternalFields) /\ "owner" \in ExternalFields
    BY DEF Recorded, ExternalFields
  <2> QED
    BY <2>1, <2>2, <2>3, FieldSet
<1>10. DOMAIN externals' = DOMAIN externals
  BY <1>1
<1>11. /\ OwnedIn(externals', e) = OwnedIn(externals, e)
       /\ NotOwnedIn(externals', e) = NotOwnedIn(externals, e)
  BY <1>9, <1>10 DEF OwnedIn, NotOwnedIn
<1>12. \A j \in DOMAIN l.req.data : externals'[l.got[j]].value = l.req.data[j].value
  BY <1>7, <1>9 DEF OwnedIn
<1>13. IsFiniteSet(DOMAIN l.req.data)
  BY <1>2, DataIs
<1>14. Values(OwnedIn(externals', e), externals') = Values(DOMAIN l.req.data, l.req.data)
  <2> DEFINE data == l.req.data
  <2> DEFINE table == externals'
  <2> DEFINE owned == OwnedIn(externals', e)
  <2>1. /\ IsFiniteSet(DOMAIN data) /\ owned = {l.got[i] : i \in DOMAIN data}
        /\ \A i, j \in DOMAIN data : l.got[i] = l.got[j] => i = j
        /\ \A i \in DOMAIN data : table[l.got[i]].value = data[i].value
    BY <1>7, <1>11, <1>12, <1>13
  <2> HIDE DEF data, table, owned
  <2>2. Values(owned, table) = Values(DOMAIN data, data)
    BY <2>1, SameValues
  <2> QED
    BY <2>2 DEF data, table, owned
<1>15. \A x \in NotOwnedIn(l.before[4], e) : externals'[x] = l.before[4][x]
  BY <1>7, <1>9 DEF NotOwnedIn
<1>16. ExternalsPut(l)
  BY <1>1, <1>3, <1>5, <1>7, <1>11, <1>14, <1>15 DEF ExternalsPut, e
<1> QED
  BY <1>2, <1>4, <1>16 DEF Ends, Put

\* A step of a request that runs alone: it goes on, or has its effect.
LEMMA StepAlone ==
  ASSUME Inv, Recorded, NEW c \in Call, AsBegun(call[c]), CallStep(c), ~Ask(c)
  PROVE  GoesOn(c) \/ Ends(c)
BY FindAlone, FactoryAlone, FindRowAlone, SaveRowsAlone, FetchAlone, DeleteAlone, CreateAlone,
   SaveEntityAlone DEF CallStep

\* A request that comes in while no other runs.
LEMMA AskAlone ==
  ASSUME Inv, Alone, NEW c \in Call, Ask(c)
  PROVE  Alone'
<1> DEFINE others == {d \in Call : Busy(d)}
<1>1. ~Busy(c) /\ UNCHANGED tables /\ CallsOK
  BY DEF Ask, Inv
<1> DEFINE Arrived(r) ==
      [at |-> IF r.collector = "externals" THEN "fetch" ELSE "find",
       req |-> r, parts |-> r.key, under |-> CZ_Chodov,
       todo |-> DOMAIN r.data, got |-> [i \in DOMAIN r.data |-> 0],
       old |-> {}, status |-> "", before |-> tables]
<1>2. PICK r \in scenario.requests :
         /\ call' = [call EXCEPT ![c] = IF Accepts(r) THEN Arrived(r) ELSE @]
         /\ alone' = IF others = {} THEN {c} ELSE {}
  BY Zenon DEF Ask
<1>3. /\ call'[c] = IF Accepts(r) THEN Arrived(r) ELSE call[c]
      /\ \A d \in Call : d # c => call'[d] = call[d]
  BY <1>1, <1>2 DEF CallsOK
<1>4. /\ Arrived(r).at = IF r.collector = "externals" THEN "fetch" ELSE "find"
      /\ Arrived(r).req = r /\ Arrived(r).todo = DOMAIN r.data
      /\ DOMAIN Arrived(r).got = DOMAIN r.data /\ Arrived(r).before = tables
  OBVIOUS
<1> HIDE DEF Arrived
<1>5. CASE others # {}
  BY <1>2, <1>5 DEF Alone
<1>6. CASE others = {}
  <2>1. alone' = {c} /\ \A d \in Call : ~Busy(d)
    BY <1>2, <1>6
  <2>2. \A d \in Call : d # c => ~Busy(d)'
    BY <1>3, <2>1 DEF Busy
  <2>3. CASE ~Accepts(r)
    <3>1. ~Busy(c)'
      BY <1>1, <1>3, <2>3 DEF Busy
    <3> QED
      BY <2>1, <3>1 DEF Alone
  <2>4. CASE Accepts(r)
    <3>1. call'[c] = Arrived(r)
      BY <1>3, <2>4
    <3>2. /\ tables[1] = entities /\ tables[3] = rows /\ tables[4] = externals
          /\ entities' = entities /\ rows' = rows /\ externals' = externals
      BY <1>1 DEF tables
    <3>3. AsBegun(call[c])'
      BY <1>4, <3>1, <3>2 DEF AsBegun, ExternalsAsBegun
    <3> QED
      BY <2>1, <2>2, <3>3 DEF Alone
  <2> QED
    BY <2>3, <2>4
<1> QED
  BY <1>5, <1>6

\* The steps of requests leave the history of others as it is.
LEMMA AloneStays ==
  ASSUME NEW c \in Call, CallStep(c), ~Ask(c)
  PROVE  alone' = alone
<1>1. \A k : Steps(c, k) => alone' = alone
  BY DEF Steps
<1>2. CASE FindPart(c) \/ Insert(c) \/ Factory(c) \/ FindRow(c)
  BY <1>1, <1>2 DEF FindPart, Insert, Factory, FindRow
<1>3. CASE SaveRows(c) \/ SaveEntity(c) \/ Delete(c) \/ Fetch(c) \/ Create(c)
  BY <1>1, <1>3 DEF SaveRows, SaveEntity, Delete, Fetch, Create
<1> QED
  BY <1>2, <1>3 DEF CallStep

\* The tables stay as a request that runs alone has found them, but for its own
\* steps.
LEMMA NextAlone ==
  ASSUME Inv, Recorded, Alone, [Next]_vars
  PROVE  Alone'
<1>1. ASSUME NEW c \in Call, CallStep(c), ~Ask(c)
      PROVE  Alone'
  <2>1. /\ Busy(c) /\ alone' = alone
        /\ \A d \in Call : d # c => call'[d] = call[d]
    BY <1>1, GoesOnIs, AloneStays
  <2>2. ASSUME NEW d \in alone, Busy(d)'
        PROVE  (\A b \in Call : Busy(b)' => b = d) /\ AsBegun(call[d])'
    <3>1. d \in Call
      BY <2>2 DEF Alone
    <3>2. Busy(d)
      BY <2>1, <2>2, <3>1 DEF Busy
    <3>3. d = c /\ AsBegun(call[c]) /\ \A b \in Call : Busy(b) => b = c
      BY <2>1, <2>2, <3>2 DEF Alone
    <3>4. \A b \in Call : Busy(b)' => b = c
      BY <2>1, <3>3 DEF Busy
    <3>5. call'[c] # Idle
      BY <2>2, <3>3 DEF Busy, Idle
    <3> QED
      BY <1>1, <3>3, <3>4, <3>5, StepAlone DEF GoesOn, Ends
  <2> QED
    BY <2>1, <2>2 DEF Alone
<1>2. CASE alone' = {}
  BY <1>2 DEF Alone
<1>3. CASE alone' = alone /\ call' = call /\ UNCHANGED tables
  <2>1. entities' = entities /\ rows' = rows /\ externals' = externals
    BY <1>3 DEF tables
  <2>2. ASSUME NEW c, AsBegun(call[c])
        PROVE  AsBegun(call[c])'
    <3>1. /\ call'[c] = call[c] /\ Named(call[c].req.key)' = Named(call[c].req.key)
      BY <1>3, <2>1, NamedKept
    <3>2. OwnedBy(call[c].under)' = OwnedBy(call[c].under)
      BY <2>1, <3>1 DEF OwnedBy
    <3>3. Replacing(call[c])' = Replacing(call[c])
      BY <2>1, <3>1 DEF Replacing, OwnedIn, NotOwnedIn
    <3> QED
      BY <2>1, <2>2, <3>1, <3>2, <3>3 DEF AsBegun, ExternalsAsBegun
  <2>3. \A c : Busy(c)' = Busy(c)
    BY <1>3 DEF Busy
  <2> QED
    BY <1>3, <2>2, <2>3 DEF Alone
<1>4. \/ alone' = {}
      \/ alone' = alone /\ call' = call /\ UNCHANGED tables
      \/ \E c \in Call : CallStep(c)
  BY DEF Next, changeStatus, Crash, AskRefresh, Refresh, Commit, vars
<1> QED
  BY <1>1, <1>2, <1>3, <1>4, AskAlone

\* A request ends in a step of its own.
LEMMA EndsAlone ==
  ASSUME Inv, Recorded, Alone, [Next]_vars,
         NEW c \in alone, Busy(c), call'[c] = Idle, alone' = alone
  PROVE  Put(call[c])
<1>1. /\ c \in Call /\ AsBegun(call[c]) /\ \A d \in Call : Busy(d) => d = c
  BY DEF Alone
<1>2. call'[c] # call[c]
  BY DEF Busy, Idle
<1>3. \E d \in Call : CallStep(d)
  BY <1>2 DEF Next, changeStatus, Crash, AskRefresh, Refresh, Commit, vars
<1>4. PICK d \in Call : CallStep(d)
  BY <1>3
<1>5. ~Ask(d)
  <2> SUFFICES ASSUME Ask(d) PROVE FALSE
    OBVIOUS
  <2>1. alone' = {}
    BY <1>1 DEF Ask
  <2> QED
    BY <2>1
<1>6. d = c
  BY <1>1, <1>4, <1>5, GoesOnIs
<1>7. ~Busy(c)'
  BY DEF Busy, Idle
<1> QED
  BY <1>1, <1>4, <1>5, <1>6, <1>7, StepAlone DEF GoesOn, Ends

\* A request that no other ran beside leaves what it should: the values of its
\* items in their slots and every other row as it was, or as externals those it
\* came with; one that is refused leaves the tables of metrics as they were.
THEOREM RequestsTakeEffect == Spec => QuietRequestTakesEffect
<1>1. Init => Recorded /\ Alone
  BY RecordedBegins DEF Init, Alone
<1>2. Inv /\ Recorded /\ [Next]_vars => Recorded'
  BY StepRecorded
<1>3. Inv /\ Recorded /\ Alone /\ [Next]_vars => Alone'
  BY NextAlone
<1>4. Inv /\ Recorded /\ Alone /\ [Next]_vars
      => [\A c \in alone : Busy(c) /\ call'[c] = Idle /\ alone' = alone =>
             IF call[c].req.collector = "externals" THEN ExternalsPut(call[c])
             ELSE MetricsPut(call[c])]_vars
  BY EndsAlone DEF Put
<1> QED
  BY <1>1, <1>2, <1>3, <1>4, Invariance, PTL DEF Spec, QuietRequestTakesEffect
=============================================================================
