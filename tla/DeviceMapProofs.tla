--------------------------- MODULE DeviceMapProofs ---------------------------
(***************************************************************************)
(* Proofs, for every set of systems and reports and any number of calls    *)
(* that overlap, crash and begin again, of what DeviceMap keeps of the     *)
(* table of entities and its closure.                                      *)
(***************************************************************************)
EXTENDS DeviceMap, EntityTablesProofs, FiniteSetTheorems

-----------------------------------------------------------------------------
(* The inductive invariant.                                                *)

\* The rows have the ids that the sequence gave them, and their parents exist.
Rows(table) ==
    /\ \E n \in Nat : DOMAIN table = 1..n
    /\ \A e \in DOMAIN table :
          /\ DOMAIN table[e] = {"name", "type", "parent", "number", "status"}
          /\ table[e].parent \in (DOMAIN table) \cup {NoParent}

\* e is a part of a type right below the system, or a parity group of its pools.
PartOf(table, e, type, s) ==
    e \in DOMAIN table /\ table[e].type = type /\ table[e].parent = Root[s]
GroupOf(table, e, s) ==
    /\ e \in DOMAIN table /\ table[e].type = "PARITY_GROUP"
    /\ PartOf(table, table[e].parent, "POOL", s)

\* A call has its local variables.
Typed(l) ==
    /\ DOMAIN l = {"at", "system", "phase", "key", "under", "pools", "pool", "id",
                   "groups", "group", "ids", "pairs", "pair", "ports", "hosts"}
    /\ l.system \in System
    /\ l.pools \in Seq(PoolInfo) /\ l.groups \in Seq(Named)
    /\ l.pairs \in Seq(PairInfo) /\ l.ports \in Seq(Named)
    /\ l.hosts \in Seq(Named)

AtPool(table, l) ==
    l.pool \in PoolInfo /\ PartOf(table, l.id, "POOL", l.system)

PhaseOf(type) == IF type = "POOL" THEN "pool"
                 ELSE IF type = "PARITY_GROUP" THEN "group"
                 ELSE IF type = "HOST_GROUP" THEN "host" ELSE "pair"

\* What is left of the key a call is looking for, and where it looks.
TopKey(l, type) ==
    /\ type \in Direct /\ l.phase = PhaseOf(type) /\ l.under = Root[l.system]
    /\ \E name : l.key = <<Part(name, type)>>
WholeKey(l, up, type) ==
    /\ <<up, type>> \in Nested /\ l.phase = PhaseOf(type) /\ l.under = Root[l.system]
    /\ \E first, name : l.key = <<Part(first, up), Part(name, type)>>
                                  /\ (type = "PARITY_GROUP" => name = l.group)
LastKey(table, l, up, type) ==
    /\ <<up, type>> \in Nested /\ l.phase = PhaseOf(type)
    /\ PartOf(table, l.under, up, l.system)
    /\ \E name : l.key = <<Part(name, type)>>
                           /\ (type = "PARITY_GROUP" => name = l.group)

Searching(table, l) ==
    /\ \/ \E type \in Direct : TopKey(l, type)
       \/ \E pair \in Nested : \/ WholeKey(l, pair[1], pair[2])
                               \/ LastKey(table, l, pair[1], pair[2])
    /\ l.phase = "pool" => l.pool \in PoolInfo
    /\ l.phase = "group" => AtPool(table, l)

\* A call works on parts of its own system.
Placed(table, l) ==
    /\ l.at \in {"status", "poolInfo", "retirePools"} => l.groups = <<>>
    /\ l.at \in {"find", "insert"} => Searching(table, l)
    /\ l.at \in {"retireGroups", "poolIds", "group", "regroup"} => AtPool(table, l)
    /\ l.at \in {"poolIds", "group"} => l.group \in Named
    /\ l.at = "revive" => \/ l.phase = "pool" /\ AtPool(table, l)
                          \/ l.phase = "host" /\ PartOf(table, l.id, "HOST_GROUP", l.system)
    /\ l.at = "group" => \A e \in l.ids : PartOf(table, e, "POOL", l.system)
    /\ l.at = "regroup" => GroupOf(table, l.under, l.system)

CallOK(table, l) == l # Idle => Typed(l) /\ Placed(table, l) /\ l.at # "idle"

CallsOK == DOMAIN call = Call /\ \A c \in Call : CallOK(entity, call[c])

\* The closure table, but for the rows of the parity groups in gone.
Linked(table, links, gone) ==
    /\ links \subseteq (DOMAIN table) \X (DOMAIN table)
    /\ \A s \in System :
          /\ <<Root[s], Root[s]>> \in links
          /\ \A e \in DOMAIN table :
                e # Root[s] => (<<Root[s], e>> \in links <=> InSystem(table, e, s))
    /\ \A e \in DOMAIN table \ gone :
          Ancestors(links, e) = {e} \cup Ancestors(links, table[e].parent)

ReportOK == report \in [System -> Reports]

Inv == /\ Rows(entity) /\ Arranged(entity)
       /\ ReportOK /\ CallsOK
       /\ Linked(entity, closure, moved) /\ moved \subseteq DOMAIN entity

\* A system that no two calls have updated at a time has at most one call.
OneAtATime ==
    \A c, d \in Call : c # d /\ Busy(c) /\ Busy(d) /\ call[c].system = call[d].system
                       => call[c].system \in overlapped

\* There is no part of the name and type, or none below the same part if it is a
\* pair of ports.
NoneSuch(table, l, part) ==
    \A e \in DOMAIN table :
        InSystem(table, e, l.system) /\ table[e].type = part.type
        /\ table[e].name = part.name
        => part.type = "PORT_GROUP" /\ table[e].parent # l.under

\* What a call has looked for and not found is not there, where no other call could
\* make it.
Missed(table, l) ==
    /\ l.at = "insert" => NoneSuch(table, l, Head(l.key))
    /\ l.at \in {"find", "insert"} /\ l.phase = "group"
       => NoneSuch(table, l, Part(l.group, "PARITY_GROUP"))
    /\ l.at = "group" => \A e : PartOf(table, e, "POOL", l.system) => e \in l.ids

OnceInv ==
    /\ OneAtATime /\ OneEntityPerName
    /\ \A c \in Call : Busy(c) /\ call[c].system \notin overlapped
                       => Missed(entity, call[c])

-----------------------------------------------------------------------------
(* How steps change the table.                                             *)

\* The status or the number of rows, but no name, type or parent.
Retouched(t, u) ==
    /\ DOMAIN u = DOMAIN t
    /\ \A e \in DOMAIN t : /\ DOMAIN u[e] = DOMAIN t[e]
                           /\ u[e].name = t[e].name
                           /\ u[e].type = t[e].type
                           /\ u[e].parent = t[e].parent

\* A row that is new.
Extended(t, u, new, row) ==
    /\ new \notin DOMAIN t /\ new # NoParent /\ DOMAIN u = DOMAIN t \cup {new}
    /\ \A e \in DOMAIN t : u[e] = t[e]
    /\ u[new] = row

\* The parent of a row, and perhaps its status.
Moved(t, u, e, parent) ==
    /\ DOMAIN u = DOMAIN t /\ e \in DOMAIN t
    /\ \A f \in DOMAIN t : /\ DOMAIN u[f] = DOMAIN t[f]
                           /\ u[f].name = t[f].name
                           /\ u[f].type = t[f].type
                           /\ u[f].parent = IF f = e THEN parent ELSE t[f].parent

LEMMA NewRow ==
  ASSUME NEW table, Rows(table), NEW row, row.parent \in DOMAIN table,
         DOMAIN row = {"name", "type", "parent", "number", "status"},
         NEW new, new = Cardinality(DOMAIN table) + 1,
         NEW u, u = WithRow(table, new, row)
  PROVE  Extended(table, u, new, row) /\ Rows(u)
<1>1. PICK n \in Nat : DOMAIN table = 1..n
  BY DEF Rows
<1>2. Cardinality(1..n) = n
  BY FS_Interval
<1>3. new = n + 1
  BY <1>1, <1>2
<1>4. /\ DOMAIN u = DOMAIN table \cup {new}
      /\ \A e \in DOMAIN u : u[e] = IF e = new THEN row ELSE table[e]
  BY DEF WithRow
<1>5. new \notin DOMAIN table /\ new # NoParent
  BY <1>1, <1>3 DEF NoParent
<1>6. Extended(table, u, new, row)
  BY <1>4, <1>5 DEF Extended
<1>7. DOMAIN u = 1 .. n + 1 /\ n + 1 \in Nat
  <2>1. (1..n) \cup {n + 1} = 1 .. n + 1
    OBVIOUS
  <2>2. DOMAIN u = (1..n) \cup {n + 1}
    BY <1>1, <1>3, <1>4, Zenon
  <2>3. DOMAIN u = 1 .. n + 1
    BY <2>1, <2>2, Zenon
  <2> QED
    BY <2>3
<1>8. \A e \in DOMAIN u :
         /\ DOMAIN u[e] = {"name", "type", "parent", "number", "status"}
         /\ u[e].parent \in (DOMAIN u) \cup {NoParent}
  BY <1>4 DEF Rows
<1> QED
  BY <1>6, <1>7, <1>8 DEF Rows

LEMMA RootsDiffer ==
  ASSUME NEW r \in System, NEW s \in System, Root[r] = Root[s]
  PROVE  r = s
BY DeviceMapAssumption

\* An entity is part of one system at most, and systems of none.
LEMMA RootsApart ==
  ASSUME NEW t, Arranged(t), NEW r \in System, NEW s \in System
  PROVE  ~InSystem(t, Root[r], s)
<1>1. Root[r] \in DOMAIN t /\ t[Root[r]].type = "SYSTEM"
  BY DEF Arranged
<1>2. t[Root[r]].parent # Root[s]
  BY <1>1 DEF Arranged, Direct
<1>3. ASSUME NEW up \in DOMAIN t, t[Root[r]].parent = up
      PROVE  t[up].parent # Root[s]
  BY <1>1, <1>3 DEF Arranged, Nested, InSystem
<1> QED
  BY <1>2, <1>3 DEF InSystem

LEMMA OneSystem ==
  ASSUME NEW t, Arranged(t), NEW e \in DOMAIN t, NEW r \in System, NEW s \in System,
         InSystem(t, e, r), InSystem(t, e, s)
  PROVE  r = s
<1>1. CASE t[e].parent = Root[r]
  <2>1. CASE t[e].parent = Root[s]
    BY <1>1, <2>1, RootsDiffer
  <2>2. CASE t[Root[r]].parent = Root[s]
    BY <2>2, RootsApart DEF InSystem
  <2> QED
    BY <1>1, <2>1, <2>2 DEF InSystem
<1>2. CASE t[e].parent = Root[s]
  <2>1. CASE t[Root[s]].parent = Root[r]
    BY <2>1, RootsApart DEF InSystem
  <2> QED
    BY <1>1, <1>2, <2>1 DEF InSystem
<1>3. CASE t[t[e].parent].parent = Root[r] /\ t[t[e].parent].parent = Root[s]
  BY <1>3, RootsDiffer
<1> QED
  BY <1>1, <1>2, <1>3 DEF InSystem

\* What a part and a parity group are.
LEMMA PartsAre ==
  ASSUME NEW t, Arranged(t), NEW s \in System, NEW e
  PROVE  /\ \A type : PartOf(t, e, type, s) => InSystem(t, e, s) /\ type \in Direct
         /\ GroupOf(t, e, s)
            => InSystem(t, e, s) /\ \A r \in System : t[e].parent # Root[r]
<1>1. ASSUME NEW type, PartOf(t, e, type, s)
      PROVE  InSystem(t, e, s) /\ type \in Direct
  BY <1>1 DEF PartOf, InSystem, Arranged
<1>2. ASSUME GroupOf(t, e, s)
      PROVE  InSystem(t, e, s)
  BY <1>2 DEF GroupOf, PartOf, InSystem
<1>3. ASSUME GroupOf(t, e, s), NEW r \in System
      PROVE  t[e].parent # Root[r]
  BY <1>3 DEF GroupOf, Arranged, Direct
<1> QED
  BY <1>1, <1>2, <1>3

\* All that calls remember of parts stays true.
Keeps(t, u) ==
    /\ \A e, s, type : type \in Direct /\ PartOf(t, e, type, s) => PartOf(u, e, type, s)
    /\ \A e : \A s \in System : GroupOf(t, e, s) => GroupOf(u, e, s)

LEMMA RetouchedKeeps ==
  ASSUME NEW t, NEW u, Rows(t), Arranged(t), Retouched(t, u)
  PROVE  /\ Rows(u) /\ Arranged(u) /\ Keeps(t, u)
         /\ \A e \in DOMAIN t, s \in System : InSystem(u, e, s) <=> InSystem(t, e, s)
<1>1. DOMAIN u = DOMAIN t
  BY DEF Retouched
<1>2. Rows(u)
  BY DEF Retouched, Rows
<1>3. ASSUME NEW e \in DOMAIN t, NEW s \in System
      PROVE  InSystem(u, e, s) <=> InSystem(t, e, s)
  BY DEF Retouched, InSystem
<1>4. Arranged(u)
  <2>1. \A s \in System : Root[s] \in DOMAIN u /\ u[Root[s]].type = "SYSTEM"
    BY DEF Retouched, Arranged
  <2>2. ASSUME NEW e \in DOMAIN u, NEW s \in System, u[e].parent = Root[s]
        PROVE  u[e].type \in Direct
    BY <2>2 DEF Retouched, Arranged
  <2>3. ASSUME NEW e \in DOMAIN u, NEW s \in System, NEW up \in DOMAIN u,
               u[e].parent = up, InSystem(u, up, s)
        PROVE  u[up].parent = Root[s] /\ <<u[up].type, u[e].type>> \in Nested
    <3>1. InSystem(t, up, s) /\ t[e].parent = up /\ e \in DOMAIN t /\ up \in DOMAIN t
      BY <1>3, <2>3 DEF Retouched
    <3>2. t[up].parent = Root[s] /\ <<t[up].type, t[e].type>> \in Nested
      BY <3>1 DEF Arranged
    <3> QED
      BY <3>1, <3>2 DEF Retouched
  <2> QED
    BY <2>1, <2>2, <2>3 DEF Arranged
<1>5. Keeps(t, u)
  BY DEF Retouched, Keeps, PartOf, GroupOf
<1> QED
  BY <1>2, <1>3, <1>4, <1>5

\* Where a new part belongs: below the system or one of its parts.
Belongs(t, type, under, r) ==
    \/ under = Root[r] /\ type \in Direct
    \/ \E up : <<up, type>> \in Nested /\ PartOf(t, under, up, r)

LEMMA ExtendedKeeps ==
  ASSUME NEW t, NEW u, NEW new, NEW row, Rows(t), Arranged(t), Extended(t, u, new, row),
         NEW r \in System, Belongs(t, row.type, row.parent, r)
  PROVE  /\ Arranged(u) /\ Keeps(t, u)
         /\ \A e \in DOMAIN t, s \in System : InSystem(u, e, s) <=> InSystem(t, e, s)
         /\ \A s \in System : InSystem(u, new, s) <=> s = r
<1>1. /\ DOMAIN u = DOMAIN t \cup {new} /\ new \notin DOMAIN t /\ u[new] = row
      /\ \A e \in DOMAIN t : u[e] = t[e] /\ t[e].parent # new
      /\ NoParent \notin DOMAIN t
  BY DEF Extended, Rows, NoParent
<1>2. /\ \A s \in System : Root[s] \in DOMAIN t /\ ~InSystem(t, Root[s], r)
      /\ row.parent \in DOMAIN t /\ row.parent # new
  BY <1>1, RootsApart DEF Arranged, Belongs, PartOf
<1>3. ASSUME NEW e \in DOMAIN t, NEW s \in System
      PROVE  InSystem(u, e, s) <=> InSystem(t, e, s)
  BY <1>1 DEF InSystem
<1>4. ASSUME NEW s \in System
      PROVE  InSystem(u, new, s) <=> s = r
  <2>1. InSystem(u, new, s) <=> row.parent = Root[s] \/ t[row.parent].parent = Root[s]
    BY <1>1, <1>2 DEF InSystem
  <2>2. CASE row.parent = Root[r]
    <3>1. t[row.parent].parent # Root[s]
      BY <2>2, RootsApart DEF InSystem
    <3> QED
      BY <2>1, <2>2, <3>1, RootsDiffer
  <2>3. ASSUME NEW up, PartOf(t, row.parent, up, r)
        PROVE  InSystem(u, new, s) <=> s = r
    <3>1. t[row.parent].parent = Root[r]
      BY <2>3 DEF PartOf
    <3>2. row.parent # Root[s]
      BY <1>2, <3>1, RootsApart DEF InSystem
    <3> QED
      BY <2>1, <3>1, <3>2, RootsDiffer
  <2> QED
    BY <2>2, <2>3 DEF Belongs
<1>5. Keeps(t, u)
  BY <1>1 DEF Keeps, PartOf, GroupOf
<1>6. \A s \in System : Root[s] \in DOMAIN u /\ u[Root[s]].type = "SYSTEM"
  BY <1>1 DEF Arranged
<1>7. ASSUME NEW e \in DOMAIN t, NEW s \in System
      PROVE  /\ u[e].parent = Root[s] => u[e].type \in Direct
             /\ \A up \in DOMAIN u :
                   u[e].parent = up /\ InSystem(u, up, s)
                   => u[up].parent = Root[s] /\ <<u[up].type, u[e].type>> \in Nested
  BY <1>1, <1>3 DEF Arranged
<1>8. ASSUME NEW s \in System
      PROVE  /\ row.parent = Root[s] => row.type \in Direct
             /\ InSystem(u, row.parent, s)
                => /\ u[row.parent].parent = Root[s]
                   /\ <<u[row.parent].type, row.type>> \in Nested
  <2>1. CASE row.parent = Root[r] /\ row.type \in Direct
    BY <1>2, <1>3, <2>1, RootsApart
  <2>2. ASSUME NEW up, <<up, row.type>> \in Nested, PartOf(t, row.parent, up, r)
        PROVE  /\ row.parent # Root[s]
               /\ InSystem(u, row.parent, s)
                  => /\ u[row.parent].parent = Root[s]
                     /\ <<u[row.parent].type, row.type>> \in Nested
    <3>1. InSystem(t, row.parent, r)
      BY <2>2 DEF PartOf, InSystem
    <3>2. row.parent # Root[s]
      BY <3>1, RootsApart
    <3>3. InSystem(u, row.parent, s) => s = r
      BY <1>2, <1>3, <3>1, OneSystem
    <3> QED
      BY <1>1, <1>2, <2>2, <3>2, <3>3 DEF PartOf
  <2> QED
    BY <2>1, <2>2 DEF Belongs
<1>9. Arranged(u)
  BY <1>1, <1>6, <1>7, <1>8 DEF Arranged
<1> QED
  BY <1>3, <1>4, <1>5, <1>9

\* A parity group that goes to another pool of its system.
LEMMA MovedKeeps ==
  ASSUME NEW t, NEW u, NEW e, NEW pool, Rows(t), Arranged(t), NEW r \in System,
         GroupOf(t, e, r), PartOf(t, pool, "POOL", r), Moved(t, u, e, pool)
  PROVE  /\ Rows(u) /\ Arranged(u) /\ Keeps(t, u)
         /\ \A f \in DOMAIN t, s \in System : InSystem(u, f, s) <=> InSystem(t, f, s)
<1>1. /\ DOMAIN u = DOMAIN t /\ e \in DOMAIN t /\ pool \in DOMAIN t
      /\ \A f \in DOMAIN t : /\ DOMAIN u[f] = DOMAIN t[f]
                             /\ u[f].name = t[f].name /\ u[f].type = t[f].type
                             /\ u[f].parent = IF f = e THEN pool ELSE t[f].parent
  BY DEF Moved, PartOf
<1>2. Rows(u)
  BY <1>1 DEF Rows
<1>3. /\ InSystem(t, e, r) /\ InSystem(t, pool, r)
      /\ t[pool].parent = Root[r] /\ t[pool].type = "POOL"
      /\ t[e].type = "PARITY_GROUP" /\ pool # e
      /\ \A s \in System : t[e].parent # Root[s] /\ pool # Root[s] /\ e # Root[s]
  BY PartsAre, RootsApart DEF PartOf, GroupOf
<1>4. ASSUME NEW f \in DOMAIN t
      PROVE  t[f].parent # e
  <2>1. ASSUME t[f].parent = e
        PROVE  t[e].parent = Root[r]
    BY <1>1, <1>3, <2>1 DEF Arranged
  <2> QED
    BY <1>3, <2>1
<1>5. ASSUME NEW f \in DOMAIN t, NEW s \in System
      PROVE  InSystem(u, f, s) <=> InSystem(t, f, s)
  <2>1. CASE f # e
    BY <1>1, <1>4, <2>1 DEF InSystem
  <2>2. CASE f = e
    <3>1. InSystem(u, e, s) <=> t[pool].parent = Root[s]
      BY <1>1, <1>3 DEF InSystem
    <3>2. t[pool].parent = Root[s] <=> s = r
      BY <1>3, RootsDiffer
    <3>3. InSystem(t, e, s) <=> s = r
      BY <1>1, <1>3, OneSystem
    <3> QED
      BY <2>2, <3>1, <3>2, <3>3
  <2> QED
    BY <2>1, <2>2
<1>6. Keeps(t, u)
  <2>1. ASSUME NEW f, NEW type, NEW s, type \in Direct, PartOf(t, f, type, s)
        PROVE  PartOf(u, f, type, s)
    BY <1>1, <1>3, <2>1 DEF PartOf, Direct
  <2>2. ASSUME NEW f, NEW s \in System, GroupOf(t, f, s)
        PROVE  GroupOf(u, f, s)
    <3>1. CASE f # e
      BY <1>1, <2>1, <2>2, <3>1 DEF GroupOf, Direct
    <3>2. CASE f = e
      <4>1. s = r
        BY <1>1, <1>3, <2>2, <3>2, PartsAre, OneSystem
      <4>2. PartOf(u, pool, "POOL", r)
        BY <2>1 DEF Direct
      <4> QED
        BY <1>1, <1>3, <3>2, <4>1, <4>2 DEF GroupOf
    <3> QED
      BY <3>1, <3>2
  <2> QED
    BY <2>1, <2>2 DEF Keeps
<1>7. Arranged(u)
  <2>1. \A s \in System : Root[s] \in DOMAIN u /\ u[Root[s]].type = "SYSTEM"
    BY <1>1 DEF Arranged
  <2>2. ASSUME NEW f \in DOMAIN u, NEW s \in System, u[f].parent = Root[s]
        PROVE  u[f].type \in Direct
    BY <1>1, <1>3, <2>2 DEF Arranged
  <2>3. ASSUME NEW f \in DOMAIN u, NEW s \in System, NEW up \in DOMAIN u,
               u[f].parent = up, InSystem(u, up, s)
        PROVE  u[up].parent = Root[s] /\ <<u[up].type, u[f].type>> \in Nested
    <3>1. CASE f = e
      <4>1. up = pool
        BY <1>1, <2>3, <3>1
      <4>2. s = r
        BY <1>1, <1>3, <1>5, <2>3, <4>1, OneSystem
      <4> QED
        BY <1>1, <1>3, <3>1, <4>1, <4>2 DEF Nested
    <3>2. CASE f # e
      <4>1. t[f].parent = up /\ InSystem(t, up, s)
        BY <1>1, <1>5, <2>3, <3>2
      <4>2. t[up].parent = Root[s] /\ <<t[up].type, t[f].type>> \in Nested
        BY <1>1, <4>1 DEF Arranged
      <4> QED
        BY <1>1, <1>4, <4>1, <4>2
    <3> QED
      BY <3>1, <3>2
  <2> QED
    BY <2>1, <2>2, <2>3 DEF Arranged
<1> QED
  BY <1>2, <1>5, <1>6, <1>7

-----------------------------------------------------------------------------
(* Where a call goes.                                                      *)

LEMMA DirectKey ==
  ASSUME NEW name, NEW type
  PROVE  createComponentKey(name, "", type) = <<Part(name, type)>>
BY DEF createComponentKey

LEMMA NestedKey ==
  ASSUME NEW name, NEW sub \in Named
  PROVE  /\ createComponentKey(name, sub, "PARITY_GROUP")
              = <<Part(name, "POOL"), Part(sub, "PARITY_GROUP")>>
         /\ createComponentKey(name, sub, "PORT_GROUP")
              = <<Part(name, "ADAPTER_GROUP"), Part(sub, "PORT_GROUP")>>
BY DEF createComponentKey, Named

\* The fields that a search sets and those it leaves.
LEMMA FetchingSets ==
  ASSUME NEW l, Typed(l), NEW phase, NEW key
  PROVE  LET next == Fetching(l, phase, key)
         IN /\ Typed(next) /\ next.system = l.system
            /\ next.at = "find" /\ next.phase = phase /\ next.key = key
            /\ next.under = Root[l.system]
            /\ next.pool = l.pool /\ next.id = l.id /\ next.group = l.group
            /\ next.ids = l.ids
BY DEF Typed, Fetching

LEMMA CallIs ==
  ASSUME NEW t, NEW l, Typed(l), Placed(t, l), l.at # "idle"
  PROVE  CallOK(t, l)
BY DEF CallOK

LEMMA NextHostGoes ==
  ASSUME NEW t, NEW l, Typed(l)
  PROVE  CallOK(t, NextHost(l))
<1>1. CASE l.hosts # <<>>
  <2> DEFINE x == [l EXCEPT !.hosts = Tail(@)]
             key == createComponentKey(Head(l.hosts), "", "HOST_GROUP")
             next == Fetching(x, "host", key)
  <2>1. Typed(x)
    BY <1>1 DEF Typed
  <2>2. key = <<Part(Head(l.hosts), "HOST_GROUP")>>
    BY DirectKey
  <2>3. NextHost(l) = next
    BY <1>1 DEF NextHost
  <2> HIDE DEF x, key
  <2>4. /\ Typed(next) /\ next.at = "find" /\ next.phase = "host" /\ next.key = key
        /\ next.under = Root[next.system]
    BY <2>1, FetchingSets
  <2> HIDE DEF next
  <2>5. TopKey(next, "HOST_GROUP")
    BY <2>2, <2>4 DEF TopKey, PhaseOf, Direct
  <2>6. Placed(t, next)
    BY <2>4, <2>5 DEF Placed, Searching, TopKey
  <2> QED
    BY <2>3, <2>4, <2>6, CallIs
<1>2. CASE l.hosts = <<>>
  BY <1>2 DEF NextHost, CallOK
<1> QED
  BY <1>1, <1>2

LEMMA NextPairGoes ==
  ASSUME NEW t, NEW l, Typed(l), l.at # "idle"
  PROVE  CallOK(t, NextPair(l))
<1>1. CASE l.ports # <<>>
  <2> DEFINE x == [l EXCEPT !.ports = Tail(@)]
             key == createComponentKey(l.pair, Head(l.ports), "PORT_GROUP")
             next == Fetching(x, "pair", key)
  <2>1. Typed(x)
    BY <1>1 DEF Typed
  <2>2. Head(l.ports) \in Named
    BY <1>1 DEF Typed
  <2>3. key = <<Part(l.pair, "ADAPTER_GROUP"), Part(Head(l.ports), "PORT_GROUP")>>
    BY <2>2, NestedKey
  <2>4. NextPair(l) = next
    BY <1>1 DEF NextPair
  <2> HIDE DEF x, key
  <2>5. /\ Typed(next) /\ next.at = "find" /\ next.phase = "pair" /\ next.key = key
        /\ next.under = Root[next.system]
    BY <2>1, FetchingSets
  <2> HIDE DEF next
  <2>6. WholeKey(next, "ADAPTER_GROUP", "PORT_GROUP")
    BY <2>3, <2>5 DEF WholeKey, PhaseOf, Nested
  <2>7. Searching(t, next)
    BY <2>5, <2>6 DEF Searching, Nested
  <2>8. Placed(t, next)
    BY <2>5, <2>7 DEF Placed
  <2> QED
    BY <2>4, <2>5, <2>8, CallIs
<1>2. CASE l.ports = <<>> /\ l.pairs # <<>>
  <2> DEFINE pair == Head(l.pairs)
             rest == Tail(l.pairs)
             x == [l EXCEPT !.pairs = rest, !.pair = pair.name, !.ports = pair.ports]
             key == createComponentKey(pair.name, "", "ADAPTER_GROUP")
             next == Fetching(x, "pair", key)
  <2>1. pair.ports \in Seq(Named) /\ rest \in Seq(PairInfo)
    <3>1. Head(l.pairs) \in PairInfo /\ Tail(l.pairs) \in Seq(PairInfo)
      BY <1>2 DEF Typed
    <3> QED
      BY <3>1 DEF PairInfo
  <2>2. NextPair(l) = next
    BY <1>2 DEF NextPair
  <2> HIDE DEF pair, rest
  <2>3. Typed(x)
    BY <2>1 DEF Typed
  <2>4. key = <<Part(pair.name, "ADAPTER_GROUP")>>
    BY DirectKey
  <2> HIDE DEF x, key
  <2>5. /\ Typed(next) /\ next.at = "find" /\ next.phase = "pair" /\ next.key = key
        /\ next.under = Root[next.system]
    BY <2>3, FetchingSets
  <2> HIDE DEF next
  <2>6. TopKey(next, "ADAPTER_GROUP")
    BY <2>4, <2>5 DEF TopKey, PhaseOf, Direct
  <2>7. Searching(t, next)
    BY <2>5, <2>6 DEF Searching, TopKey
  <2>8. Placed(t, next)
    BY <2>5, <2>7 DEF Placed
  <2> QED
    BY <2>2, <2>5, <2>8, CallIs
<1>3. CASE l.ports = <<>> /\ l.pairs = <<>>
  <2>1. NextPair(l) = [l EXCEPT !.at = "hosts"]
    BY <1>3 DEF NextPair
  <2> DEFINE next == [l EXCEPT !.at = "hosts"]
  <2>2. Typed(next) /\ next.at = "hosts"
    BY DEF Typed
  <2> HIDE DEF next
  <2>3. Placed(t, next)
    BY <2>2 DEF Placed
  <2> QED
    BY <2>1, <2>2, <2>3, CallIs DEF next
<1> QED
  BY <1>1, <1>2, <1>3

LEMMA NextPartGoes ==
  ASSUME NEW t, NEW l, Typed(l), l.at # "idle", l.groups # <<>> => AtPool(t, l)
  PROVE  CallOK(t, NextPart(l))
<1>1. CASE l.groups # <<>>
  <2> DEFINE group == Head(l.groups)
             rest == Tail(l.groups)
             next == [l EXCEPT !.at = "poolIds", !.group = group, !.groups = rest]
  <2>1. group \in Named /\ rest \in Seq(Named)
    BY <1>1 DEF Typed
  <2>2. NextPart(l) = next
    BY <1>1 DEF NextPart
  <2> HIDE DEF group, rest
  <2>3. /\ Typed(next) /\ next.at = "poolIds" /\ next.group = group
        /\ next.pool = l.pool /\ next.id = l.id /\ next.system = l.system
    BY <2>1 DEF Typed
  <2> HIDE DEF next
  <2>4. Placed(t, next)
    BY <1>1, <2>1, <2>3 DEF Placed, AtPool
  <2> QED
    BY <2>2, <2>3, <2>4, CallIs
<1>2. CASE l.groups = <<>> /\ l.pools # <<>>
  <2> DEFINE pool == Head(l.pools)
             rest == Tail(l.pools)
             x == [l EXCEPT !.pool = pool, !.pools = rest]
             key == createComponentKey(pool.name, "", "POOL")
             next == Fetching(x, "pool", key)
  <2>1. pool \in PoolInfo /\ rest \in Seq(PoolInfo)
    BY <1>2 DEF Typed
  <2>2. NextPart(l) = next
    BY <1>2 DEF NextPart
  <2> HIDE DEF pool, rest
  <2>3. Typed(x) /\ x.pool = pool
    BY <2>1 DEF Typed
  <2>4. key = <<Part(pool.name, "POOL")>>
    BY DirectKey
  <2> HIDE DEF x, key
  <2>5. /\ Typed(next) /\ next.at = "find" /\ next.phase = "pool" /\ next.key = key
        /\ next.under = Root[next.system] /\ next.pool = pool
    BY <2>3, FetchingSets
  <2> HIDE DEF next
  <2>6. TopKey(next, "POOL")
    BY <2>4, <2>5 DEF TopKey, PhaseOf, Direct
  <2>7. Searching(t, next)
    BY <2>1, <2>5, <2>6 DEF Searching, TopKey
  <2>8. Placed(t, next)
    BY <2>5, <2>7 DEF Placed
  <2> QED
    BY <2>2, <2>5, <2>8, CallIs
<1>3. CASE l.groups = <<>> /\ l.pools = <<>>
  <2> DEFINE next == [l EXCEPT !.at = "chbInfo", !.pool = 0, !.id = 0, !.ids = {}]
  <2>1. NextPart(l) = next
    BY <1>3 DEF NextPart
  <2>2. Typed(next) /\ next.at = "chbInfo"
    BY DEF Typed
  <2> HIDE DEF next
  <2>3. Placed(t, next)
    BY <2>2 DEF Placed
  <2> QED
    BY <2>1, <2>2, <2>3, CallIs
<1> QED
  BY <1>1, <1>2, <1>3

\* A call that has found the part, or what is above it.
LEMMA FoundGoes ==
  ASSUME NEW t, NEW l, NEW e, NEW row, Typed(l), l.at # "idle",
         \/ l.phase = "pair"
         \/ l.phase = "group" /\ AtPool(t, l)
         \/ l.phase = "pool" /\ l.pool \in PoolInfo /\ PartOf(t, e, "POOL", l.system)
         \/ l.phase = "host" /\ PartOf(t, e, "HOST_GROUP", l.system)
  PROVE  CallOK(t, Found(l, e, row))
<1> DEFINE outdated == \/ row.status = "INACTIVE"
                       \/ l.phase = "pool" /\ row.number # l.pool.id
<1>1. CASE l.phase = "group"
  BY <1>1, NextPartGoes DEF Found
<1>2. CASE l.phase = "pair"
  BY <1>2, NextPairGoes DEF Found
<1>3. CASE l.phase \in {"pool", "host"} /\ outdated
  <2> DEFINE next == [l EXCEPT !.at = "revive", !.id = e]
  <2>1. Found(l, e, row) = next
    BY <1>3 DEF Found
  <2>2. /\ Typed(next) /\ next.at = "revive" /\ next.id = e
        /\ next.phase = l.phase /\ next.system = l.system /\ next.pool = l.pool
    BY DEF Typed
  <2> HIDE DEF next
  <2>3. Placed(t, next)
    BY <1>3, <2>2 DEF Placed, AtPool
  <2> QED
    BY <2>1, <2>2, <2>3, CallIs
<1>4. CASE l.phase = "pool" /\ ~outdated
  <2> DEFINE next == [l EXCEPT !.at = "retireGroups", !.id = e]
  <2>1. Found(l, e, row) = next
    BY <1>4 DEF Found
  <2>2. /\ Typed(next) /\ next.at = "retireGroups" /\ next.id = e
        /\ next.phase = l.phase /\ next.system = l.system /\ next.pool = l.pool
    BY DEF Typed
  <2> HIDE DEF next
  <2>3. Placed(t, next)
    BY <1>4, <2>2 DEF Placed, AtPool
  <2> QED
    BY <2>1, <2>2, <2>3, CallIs
<1>5. CASE l.phase = "host" /\ ~outdated
  BY <1>5, NextHostGoes DEF Found
<1> QED
  BY <1>1, <1>2, <1>3, <1>4, <1>5

LEMMA DownGoes ==
  ASSUME NEW t, NEW l, NEW e, NEW row, Typed(l), l.at # "idle", Searching(t, l),
         e \in DOMAIN t, t[e].type = Head(l.key).type, t[e].parent = l.under
  PROVE  CallOK(t, Down(l, e, row))
<1>1. ASSUME NEW type \in Direct, TopKey(l, type)
      PROVE  CallOK(t, Down(l, e, row))
  <2>1. PICK name : l.key = <<Part(name, type)>>
    BY <1>1 DEF TopKey
  <2>2. Len(l.key) = 1 /\ Head(l.key).type = type
    BY <2>1 DEF Part
  <2>3. PartOf(t, e, type, l.system)
    BY <1>1, <2>2 DEF TopKey, PartOf
  <2>4. Down(l, e, row) = Found(l, e, row)
    BY <2>2 DEF Down
  <2>5. \/ l.phase = "pair"
        \/ l.phase = "pool" /\ l.pool \in PoolInfo /\ type = "POOL"
        \/ l.phase = "host" /\ type = "HOST_GROUP"
    BY <1>1 DEF TopKey, PhaseOf, Direct, Searching
  <2> QED
    BY <2>3, <2>4, <2>5, FoundGoes
<1>2. ASSUME NEW pair \in Nested, LastKey(t, l, pair[1], pair[2])
      PROVE  CallOK(t, Down(l, e, row))
  <2>1. PICK name : l.key = <<Part(name, pair[2])>>
    BY <1>2 DEF LastKey
  <2>2. Len(l.key) = 1
    BY <2>1
  <2>3. Down(l, e, row) = Found(l, e, row)
    BY <2>2 DEF Down
  <2>4. l.phase = "pair" \/ (l.phase = "group" /\ AtPool(t, l))
    <3>1. pair[2] \in {"PARITY_GROUP", "PORT_GROUP"}
      BY DEF Nested
    <3>2. l.phase = PhaseOf(pair[2])
      BY <1>2 DEF LastKey
    <3>3. l.phase \in {"pair", "group"}
      BY <3>1, <3>2 DEF PhaseOf
    <3>4. l.phase = "group" => AtPool(t, l)
      BY DEF Searching
    <3> QED
      BY <3>3, <3>4
  <2> QED
    BY <2>3, <2>4, FoundGoes
<1>3. ASSUME NEW pair \in Nested, WholeKey(l, pair[1], pair[2])
      PROVE  CallOK(t, Down(l, e, row))
  <2>1. PICK first, name : /\ l.key = <<Part(first, pair[1]), Part(name, pair[2])>>
                           /\ (pair[2] = "PARITY_GROUP" => name = l.group)
    BY <1>3 DEF WholeKey
  <2> DEFINE rest == Tail(l.key)
             next == [l EXCEPT !.at = "find", !.key = rest, !.under = e]
  <2>2. Len(l.key) = 2 /\ Head(l.key).type = pair[1] /\ rest = <<Part(name, pair[2])>>
    BY <2>1 DEF Part
  <2>3. Down(l, e, row) = next
    BY <2>2 DEF Down
  <2> HIDE DEF rest
  <2>4. /\ Typed(next) /\ next.at = "find" /\ next.key = rest /\ next.under = e
        /\ next.phase = l.phase /\ next.system = l.system /\ next.group = l.group
        /\ next.pool = l.pool /\ next.id = l.id
    BY DEF Typed
  <2> HIDE DEF next
  <2>5. PartOf(t, e, pair[1], l.system)
    BY <1>3, <2>2 DEF WholeKey, PartOf
  <2>6. LastKey(t, next, pair[1], pair[2])
    BY <1>3, <2>1, <2>2, <2>4, <2>5 DEF LastKey, WholeKey
  <2>7. Searching(t, next)
    BY <2>4, <2>6 DEF Searching, AtPool
  <2>8. Placed(t, next)
    BY <2>4, <2>7 DEF Placed
  <2> QED
    BY <2>3, <2>4, <2>8, CallIs
<1> QED
  BY <1>1, <1>2, <1>3 DEF Searching

\* What a call knows of the table outlasts the steps that keep the parts.
LEMMA CallKept ==
  ASSUME NEW t, NEW u, NEW l, Keeps(t, u), CallOK(t, l)
  PROVE  CallOK(u, l)
<1>1. CASE l = Idle
  BY <1>1 DEF CallOK
<1>2. CASE l # Idle
  <2>1. Typed(l) /\ Placed(t, l) /\ l.at # "idle" /\ l.system \in System
    BY <1>2 DEF CallOK, Typed
  <2>2. AtPool(t, l) => AtPool(u, l)
    BY DEF AtPool, Keeps, Direct
  <2>3. Searching(t, l) => Searching(u, l)
    <3>1. ASSUME NEW pair \in Nested, LastKey(t, l, pair[1], pair[2])
          PROVE  LastKey(u, l, pair[1], pair[2])
      <4>1. pair[1] \in Direct
        BY DEF Nested, Direct
      <4> QED
        BY <3>1, <4>1 DEF LastKey, Keeps
    <3> QED
      BY <2>2, <3>1 DEF Searching
  <2>4. PartOf(t, l.id, "HOST_GROUP", l.system) => PartOf(u, l.id, "HOST_GROUP", l.system)
    BY DEF Keeps, Direct
  <2>5. \A e : PartOf(t, e, "POOL", l.system) => PartOf(u, e, "POOL", l.system)
    BY DEF Keeps, Direct
  <2>6. GroupOf(t, l.under, l.system) => GroupOf(u, l.under, l.system)
    BY <2>1 DEF Keeps
  <2>7. Placed(u, l)
    BY <2>1, <2>2, <2>3, <2>4, <2>5, <2>6 DEF Placed
  <2> QED
    BY <2>1, <2>7 DEF CallOK
<1> QED
  BY <1>1, <1>2

-----------------------------------------------------------------------------
(* The steps of a call.                                                    *)

LEMMA Unchanged ==
  ASSUME NEW t
  PROVE  Retouched(t, t)
BY DEF Retouched

LEMMA DeactivateRetouches ==
  ASSUME Rows(entity), NEW type, NEW parent, NEW names, Deactivate(type, parent, names)
  PROVE  Retouched(entity, entity')
<1>1. DOMAIN entity' = DOMAIN entity
  BY DEF Deactivate
<1>2. ASSUME NEW e \in DOMAIN entity
      PROVE  /\ DOMAIN entity'[e] = DOMAIN entity[e]
             /\ entity'[e].name = entity[e].name
             /\ entity'[e].type = entity[e].type
             /\ entity'[e].parent = entity[e].parent
  <2>1. entity'[e] = [entity[e] EXCEPT !.status = "INACTIVE"] \/ entity'[e] = entity[e]
    BY DEF Deactivate
  <2>2. DOMAIN entity[e] = {"name", "type", "parent", "number", "status"}
    BY DEF Rows
  <2> QED
    BY <2>1, <2>2
<1> QED
  BY <1>1, <1>2 DEF Retouched

\* What a step of a call of the system s may do to the tables.
TableStep(s) ==
    \/ Retouched(entity, entity') /\ UNCHANGED <<closure, moved>>
    \/ \E new, row :
         /\ Extended(entity, entity', new, row) /\ Rows(entity')
         /\ Belongs(entity, row.type, row.parent, s)
         /\ closure' = closure \cup LinkNew(closure, new, row.parent)
         /\ UNCHANGED moved
    \/ \E e, pool :
         /\ Moved(entity, entity', e, pool)
         /\ GroupOf(entity, e, s) /\ PartOf(entity, pool, "POOL", s)
         /\ closure' = closure
         /\ moved' = IF entity[e].parent = pool THEN moved ELSE moved \cup {e}

\* It goes on where the tables let it.
Goes(c) ==
    /\ \E next : call' = [call EXCEPT ![c] = next] /\ CallOK(entity', next)
    /\ TableStep(call[c].system)
    /\ report' = report

LEMMA ReadGoes ==
  ASSUME NEW c, NEW next, Steps(c, next), Reads, CallOK(entity, next)
  PROVE  Goes(c)
<1>1. entity' = entity /\ closure' = closure /\ moved' = moved /\ report' = report
  BY DEF Reads, tables, history
<1>2. call' = [call EXCEPT ![c] = next] /\ CallOK(entity', next)
  BY <1>1 DEF Steps
<1>3. TableStep(call[c].system)
  BY <1>1, Unchanged DEF TableStep
<1> QED
  BY <1>1, <1>2, <1>3 DEF Goes

LEMMA RetouchGoes ==
  ASSUME Inv, NEW c, NEW next, Steps(c, next), Writes, UNCHANGED <<closure, moved>>,
         Retouched(entity, entity'), CallOK(entity, next)
  PROVE  Goes(c)
<1>1. report' = report
  BY DEF Writes
<1>2. CallOK(entity', next)
  BY RetouchedKeeps, CallKept DEF Inv
<1> QED
  BY <1>1, <1>2 DEF Goes, TableStep, Steps

LEMMA CallAt ==
  ASSUME Inv, NEW c \in Call, NEW phase, phase # "idle", At(c, phase)
  PROVE  /\ Typed(call[c]) /\ Placed(entity, call[c]) /\ call[c].at = phase
         /\ call[c].system \in System /\ CallOK(entity, call[c])
BY DEF Inv, CallsOK, CallOK, At, Idle, Typed

LEMMA FindPartGoes ==
  ASSUME Inv, NEW c \in Call, FindPart(c)
  PROVE  Goes(c)
<1> DEFINE l == call[c]
           part == Head(l.key)
           found == {e \in DOMAIN entity : /\ entity[e].name = part.name
                                           /\ Is(e, part.type)
                                           /\ entity[e].parent = l.under}
<1>1. Typed(l) /\ Placed(entity, l) /\ l.at = "find" /\ Searching(entity, l)
  BY CallAt DEF FindPart, Placed
<1>2. CASE found = {}
  <2> DEFINE next == [l EXCEPT !.at = "insert"]
  <2>1. Steps(c, next) /\ Reads
    BY <1>2 DEF FindPart
  <2>2. /\ Typed(next) /\ next.at = "insert" /\ next.key = l.key /\ next.under = l.under
        /\ next.phase = l.phase /\ next.system = l.system /\ next.group = l.group
        /\ next.pool = l.pool /\ next.id = l.id
    BY <1>1 DEF Typed
  <2> HIDE DEF next
  <2>3. Searching(entity, next)
    BY <1>1, <2>2 DEF Searching, TopKey, WholeKey, LastKey, AtPool
  <2>4. CallOK(entity, next)
    BY <2>2, <2>3, CallIs DEF Placed
  <2> QED
    BY <2>1, <2>4, ReadGoes
<1>3. CASE found # {}
  <2>1. PICK e \in found : Steps(c, Down(l, e, entity[e])) /\ Reads
    BY <1>3 DEF FindPart
  <2>2. e \in DOMAIN entity /\ entity[e].type = part.type /\ entity[e].parent = l.under
    BY DEF Is
  <2>3. CallOK(entity, Down(l, e, entity[e]))
    BY <1>1, <2>2, DownGoes
  <2> QED
    BY <2>1, <2>3, ReadGoes
<1> QED
  BY <1>2, <1>3

\* The first part of the key belongs where the call looks for it.
LEMMA KeyBelongs ==
  ASSUME NEW t, NEW l, Searching(t, l)
  PROVE  Belongs(t, Head(l.key).type, l.under, l.system)
<1> DEFINE part == Head(l.key)
<1>1. ASSUME NEW type \in Direct, TopKey(l, type)
      PROVE  Belongs(t, part.type, l.under, l.system)
  <2>1. PICK name : l.key = <<Part(name, type)>>
    BY <1>1 DEF TopKey
  <2>2. part.type = type
    BY <2>1 DEF Part
  <2> QED
    BY <1>1, <2>2 DEF Belongs, TopKey
<1>2. ASSUME NEW pair \in Nested, LastKey(t, l, pair[1], pair[2])
      PROVE  Belongs(t, part.type, l.under, l.system)
  <2>1. PICK name : l.key = <<Part(name, pair[2])>>
    BY <1>2 DEF LastKey
  <2>2. part.type = pair[2]
    BY <2>1 DEF Part
  <2> QED
    BY <1>2, <2>2 DEF Belongs, LastKey
<1>3. ASSUME NEW pair \in Nested, WholeKey(l, pair[1], pair[2])
      PROVE  Belongs(t, part.type, l.under, l.system)
  <2>1. PICK first, name : l.key = <<Part(first, pair[1]), Part(name, pair[2])>>
    BY <1>3 DEF WholeKey
  <2>2. part.type = pair[1] /\ pair[1] \in Direct
    BY <2>1 DEF Part, Nested, Direct
  <2> QED
    BY <1>3, <2>2 DEF Belongs, WholeKey
<1> QED
  BY <1>1, <1>2, <1>3 DEF Searching

LEMMA InsertGoes ==
  ASSUME Inv, NEW c \in Call, Insert(c)
  PROVE  /\ Goes(c)
         /\ \E new, row : /\ Extended(entity, entity', new, row)
                          /\ row.name = Head(call[c].key).name
                          /\ row.type = Head(call[c].key).type
                          /\ row.parent = call[c].under /\ row.status = "ACTIVE"
                          /\ Belongs(entity, row.type, row.parent, call[c].system)
                          /\ Steps(c, Down(call[c], new, row))
         /\ Searching(entity', call[c])
<1> DEFINE l == call[c]
           part == Head(l.key)
           new == Cardinality(DOMAIN entity) + 1
           row == Row(part.name, part.type, l.under, 0, "ACTIVE")
<1>1. /\ Typed(l) /\ Placed(entity, l) /\ l.at = "insert" /\ Searching(entity, l)
      /\ l.system \in System
  BY CallAt DEF Insert, Placed
<1>2. /\ entity' = WithRow(entity, new, row)
      /\ closure' = closure \cup LinkNew(closure, new, l.under)
      /\ call' = [call EXCEPT ![c] = Down(l, new, row)]
      /\ report' = report /\ moved' = moved
  BY DEF Insert, Steps, Writes
<1>3. /\ DOMAIN row = {"name", "type", "parent", "number", "status"}
      /\ row.name = part.name /\ row.type = part.type /\ row.parent = l.under
      /\ row.status = "ACTIVE"
  BY DEF Row
<1> HIDE DEF row
<1>4. Belongs(entity, part.type, l.under, l.system)
  BY <1>1, KeyBelongs
<1>5. l.under \in DOMAIN entity
  BY <1>1, <1>4 DEF Belongs, PartOf, Inv, Arranged
<1>6. Extended(entity, entity', new, row) /\ Rows(entity')
  BY <1>2, <1>3, <1>5, NewRow DEF Inv
<1> HIDE DEF new
<1>7. Keeps(entity, entity')
  BY <1>1, <1>3, <1>4, <1>6, ExtendedKeeps DEF Inv
<1>8. Searching(entity', l)
  <2>1. CallOK(entity', l)
    BY <1>1, <1>7, CallKept, CallAt DEF Insert
  <2> QED
    BY <1>1, <2>1 DEF CallOK, Placed, Idle
<1>9. new \in DOMAIN entity' /\ entity'[new] = row
  BY <1>6 DEF Extended
<1>10. CallOK(entity', Down(l, new, row))
  BY <1>1, <1>3, <1>8, <1>9, DownGoes
<1>11. TableStep(l.system)
  BY <1>2, <1>3, <1>4, <1>6 DEF TableStep
<1> QED
  BY <1>2, <1>3, <1>4, <1>6, <1>8, <1>10, <1>11 DEF Goes, Steps

LEMMA RequestsGo ==
  ASSUME Inv, NEW c \in Call,
         \/ GetStatus(c) \/ GetPoolInfo(c) \/ GetChbInfo(c) \/ PairsFail(c)
         \/ GetHosts(c)
  PROVE  Goes(c)
<1> DEFINE l == call[c]
<1>1. /\ Typed(l) /\ Placed(entity, l) /\ l.at # "idle" /\ l.system \in System
      /\ report[l.system] \in Reports
  BY CallAt DEF GetStatus, GetPoolInfo, GetChbInfo, PairsFail, GetHosts, Inv, ReportOK
<1> DEFINE seen == report[l.system]
           pools == seen.pools
           pairs == seen.pairs
           hosts == seen.hosts
<1>2. pools \in Seq(PoolInfo) /\ pairs \in Seq(PairInfo) /\ hosts \in Seq(Named)
  BY <1>1 DEF Reports
<1> HIDE DEF pools, pairs, hosts
<1>3. CASE GetStatus(c)
  <2>1. CASE Steps(c, Idle)
    BY <1>3, <2>1, ReadGoes DEF GetStatus, CallOK
  <2>2. CASE Steps(c, [l EXCEPT !.at = "poolInfo"])
    <3> DEFINE next == [l EXCEPT !.at = "poolInfo"]
    <3>1. Typed(next) /\ next.at = "poolInfo" /\ next.groups = <<>>
      BY <1>1, <1>3 DEF Typed, Placed, GetStatus, At
    <3> HIDE DEF next
    <3>2. CallOK(entity, next)
      BY <3>1, CallIs DEF Placed
    <3> QED
      BY <1>3, <2>2, <3>2, ReadGoes DEF GetStatus, next
  <2> QED
    BY <1>3, <2>1, <2>2 DEF GetStatus
<1>4. CASE GetPoolInfo(c)
  <2> DEFINE next == [l EXCEPT !.at = "retirePools", !.pools = pools]
  <2>1. Typed(next) /\ next.at = "retirePools" /\ next.groups = <<>>
    BY <1>1, <1>2, <1>4 DEF Typed, Placed, GetPoolInfo, At
  <2>2. Steps(c, next) /\ Reads
    BY <1>4 DEF GetPoolInfo, pools
  <2> HIDE DEF next
  <2>3. CallOK(entity, next)
    BY <2>1, CallIs DEF Placed
  <2> QED
    BY <2>2, <2>3, ReadGoes
<1>5. CASE GetHosts(c)
  <2> DEFINE next == [l EXCEPT !.at = "retireHosts", !.hosts = hosts]
  <2>1. Typed(next) /\ next.at = "retireHosts"
    BY <1>1, <1>2 DEF Typed
  <2>2. Steps(c, next) /\ Reads
    BY <1>5 DEF GetHosts, hosts
  <2> HIDE DEF next
  <2>3. CallOK(entity, next)
    BY <2>1, CallIs DEF Placed
  <2> QED
    BY <2>2, <2>3, ReadGoes
<1>6. CASE GetChbInfo(c)
  <2>1. Reads
    BY <1>6 DEF GetChbInfo
  <2>2. CASE Steps(c, [l EXCEPT !.at = "hosts"])
    <3> DEFINE next == [l EXCEPT !.at = "hosts"]
    <3>1. Typed(next) /\ next.at = "hosts"
      BY <1>1 DEF Typed
    <3> HIDE DEF next
    <3>2. CallOK(entity, next)
      BY <3>1, CallIs DEF Placed
    <3> QED
      BY <2>1, <2>2, <3>2, ReadGoes DEF next
  <2>3. CASE Steps(c, NextPair([l EXCEPT !.pairs = pairs]))
    <3> DEFINE x == [l EXCEPT !.pairs = pairs]
    <3>1. Typed(x) /\ x.at # "idle"
      BY <1>1, <1>2 DEF Typed
    <3> HIDE DEF x
    <3>2. CallOK(entity, NextPair(x))
      BY <3>1, NextPairGoes
    <3> QED
      BY <2>1, <2>3, <3>2, ReadGoes DEF x
  <2> QED
    BY <1>6, <2>2, <2>3 DEF GetChbInfo, PairsFail, pairs
<1>7. CASE PairsFail(c)
  <2> DEFINE next == [l EXCEPT !.at = "hosts"]
  <2>1. Typed(next) /\ next.at = "hosts"
    BY <1>1 DEF Typed
  <2>2. Steps(c, next) /\ Reads
    BY <1>7 DEF PairsFail
  <2> HIDE DEF next
  <2>3. CallOK(entity, next)
    BY <2>1, CallIs DEF Placed
  <2> QED
    BY <2>2, <2>3, ReadGoes
<1> QED
  BY <1>3, <1>4, <1>5, <1>6, <1>7


LEMMA RetiresGo ==
  ASSUME Inv, NEW c \in Call, RetirePools(c) \/ RetireHosts(c) \/ RetireGroups(c)
  PROVE  Goes(c) /\ Retouched(entity, entity')
<1> DEFINE l == call[c]
<1>1. Typed(l) /\ Placed(entity, l) /\ l.at # "idle" /\ Rows(entity)
  BY CallAt DEF RetirePools, RetireHosts, RetireGroups, Inv
<1>2. CASE RetirePools(c)
  <2>1. l.groups = <<>>
    BY <1>1, <1>2 DEF RetirePools, At, Placed
  <2>2. CallOK(entity, NextPart(l))
    BY <1>1, <2>1, NextPartGoes
  <2>3. Retouched(entity, entity')
    BY <1>1, <1>2, DeactivateRetouches DEF RetirePools
  <2> QED
    BY <1>2, <2>2, <2>3, RetouchGoes DEF RetirePools
<1>3. CASE RetireHosts(c)
  <2>1. CallOK(entity, NextHost(l))
    BY <1>1, NextHostGoes
  <2>2. Retouched(entity, entity')
    BY <1>1, <1>3, DeactivateRetouches DEF RetireHosts
  <2> QED
    BY <1>3, <2>1, <2>2, RetouchGoes DEF RetireHosts
<1>4. CASE RetireGroups(c)
  <2> DEFINE groups == l.pool.groups
             x == [l EXCEPT !.groups = groups]
  <2>1. AtPool(entity, l)
    BY <1>1, <1>4 DEF RetireGroups, At, Placed
  <2>2. groups \in Seq(Named)
    BY <2>1 DEF AtPool, PoolInfo
  <2>3. Steps(c, NextPart(x))
    BY <1>4 DEF RetireGroups
  <2>4. Retouched(entity, entity')
    BY <1>1, <1>4, DeactivateRetouches DEF RetireGroups
  <2> HIDE DEF groups
  <2>5. /\ Typed(x) /\ x.at # "idle"
        /\ x.pool = l.pool /\ x.id = l.id /\ x.system = l.system
    BY <1>1, <2>2 DEF Typed
  <2> HIDE DEF x
  <2>6. CallOK(entity, NextPart(x))
    BY <2>1, <2>5, NextPartGoes DEF AtPool
  <2> QED
    BY <1>4, <2>3, <2>4, <2>6, RetouchGoes DEF RetireGroups
<1> QED
  BY <1>2, <1>3, <1>4

LEMMA ReviveGoes ==
  ASSUME Inv, NEW c \in Call, Revive(c)
  PROVE  /\ Goes(c) /\ Retouched(entity, entity')
         /\ \E type \in Direct : PartOf(entity, call[c].id, type, call[c].system)
         /\ \A e \in DOMAIN entity : e # call[c].id => entity'[e] = entity[e]
<1> DEFINE l == call[c]
<1>1. Typed(l) /\ Placed(entity, l) /\ l.at = "revive" /\ Rows(entity)
  BY CallAt DEF Revive, Inv
<1>2. CASE l.phase = "pool"
  <2> DEFINE next == [l EXCEPT !.at = "retireGroups"]
  <2>1. /\ Steps(c, next) /\ Writes /\ UNCHANGED <<closure, moved>>
        /\ entity' = [entity EXCEPT ![l.id].number = l.pool.id, ![l.id].status = "ACTIVE"]
    BY <1>2 DEF Revive
  <2>2. AtPool(entity, l)
    BY <1>1, <1>2 DEF Placed
  <2>3. /\ Typed(next) /\ next.at = "retireGroups"
        /\ next.pool = l.pool /\ next.id = l.id /\ next.system = l.system
    BY <1>1 DEF Typed
  <2> HIDE DEF next
  <2>4. CallOK(entity, next)
    BY <2>2, <2>3, CallIs DEF Placed, AtPool
  <2>5. Retouched(entity, entity')
    BY <1>1, <2>1 DEF Retouched, Rows
  <2>6. \A e \in DOMAIN entity : e # l.id => entity'[e] = entity[e]
    BY <2>1
  <2> QED
    BY <2>1, <2>2, <2>4, <2>5, <2>6, RetouchGoes DEF AtPool, Direct
<1>3. CASE l.phase # "pool"
  <2>1. /\ Steps(c, NextHost(l)) /\ Writes /\ UNCHANGED <<closure, moved>>
        /\ entity' = [entity EXCEPT ![l.id].status = "ACTIVE"]
    BY <1>3 DEF Revive
  <2>2. PartOf(entity, l.id, "HOST_GROUP", l.system)
    BY <1>1, <1>3 DEF Placed
  <2>3. CallOK(entity, NextHost(l))
    BY <1>1, NextHostGoes
  <2>4. Retouched(entity, entity')
    BY <1>1, <2>1 DEF Retouched, Rows
  <2>5. \A e \in DOMAIN entity : e # l.id => entity'[e] = entity[e]
    BY <2>1
  <2> QED
    BY <2>1, <2>2, <2>3, <2>4, <2>5, RetouchGoes DEF Direct
<1> QED
  BY <1>2, <1>3

LEMMA PoolIdsGoes ==
  ASSUME Inv, NEW c \in Call, PoolIds(c)
  PROVE  Goes(c)
<1> DEFINE l == call[c]
           found == {e \in Children(entity, Root[l.system]) : Is(e, "POOL")}
           next == [l EXCEPT !.at = "group", !.ids = found]
<1>1. Typed(l) /\ Placed(entity, l) /\ l.at = "poolIds"
  BY CallAt DEF PoolIds
<1>2. Steps(c, next) /\ Reads
  BY DEF PoolIds
<1>3. \A e \in found : PartOf(entity, e, "POOL", l.system)
  BY DEF PartOf, Children, Is
<1> HIDE DEF found
<1>4. /\ Typed(next) /\ next.at = "group" /\ next.ids = found /\ next.group = l.group
      /\ next.pool = l.pool /\ next.id = l.id /\ next.system = l.system
  BY <1>1 DEF Typed
<1> HIDE DEF next
<1>5. Placed(entity, next)
  BY <1>1, <1>3, <1>4 DEF Placed, AtPool
<1> QED
  BY <1>2, <1>4, <1>5, CallIs, ReadGoes

LEMMA FindGroupGoes ==
  ASSUME Inv, NEW c \in Call, FindGroup(c)
  PROVE  Goes(c)
<1> DEFINE l == call[c]
           found == {e \in DOMAIN entity : /\ entity[e].name = l.group
                                           /\ Is(e, "PARITY_GROUP")
                                           /\ entity[e].parent \in l.ids}
           key == createComponentKey(l.pool.name, l.group, "PARITY_GROUP")
<1>1. /\ Typed(l) /\ Placed(entity, l) /\ l.at = "group" /\ Reads
      /\ AtPool(entity, l) /\ l.group \in Named /\ l.system \in System
  BY CallAt DEF FindGroup, Placed
<1>2. CASE found = {}
  <2> DEFINE next == Fetching(l, "group", key)
  <2>1. Steps(c, next)
    BY <1>2 DEF FindGroup
  <2>2. key = <<Part(l.pool.name, "POOL"), Part(l.group, "PARITY_GROUP")>>
    BY <1>1, NestedKey
  <2> HIDE DEF key
  <2>3. /\ Typed(next) /\ next.system = l.system /\ next.at = "find"
        /\ next.phase = "group" /\ next.key = key /\ next.under = Root[l.system]
        /\ next.pool = l.pool /\ next.id = l.id /\ next.group = l.group
    BY <1>1, FetchingSets
  <2> HIDE DEF next
  <2>4. WholeKey(next, "POOL", "PARITY_GROUP")
    BY <2>2, <2>3 DEF WholeKey, PhaseOf, Nested
  <2>5. Searching(entity, next)
    BY <1>1, <2>3, <2>4 DEF Searching, Nested, AtPool
  <2> QED
    BY <1>1, <2>1, <2>3, <2>5, CallIs, ReadGoes DEF Placed
<1>3. CASE found # {}
  <2>1. PICK e \in found :
          IF entity[e].parent # l.id \/ entity[e].status = "INACTIVE"
          THEN Steps(c, [l EXCEPT !.at = "regroup", !.under = e])
          ELSE Steps(c, NextPart(l))
    BY <1>3 DEF FindGroup
  <2>2. GroupOf(entity, e, l.system)
    BY <1>1 DEF Placed, GroupOf, Is
  <2>3. CASE Steps(c, NextPart(l))
    BY <1>1, <2>3, NextPartGoes, ReadGoes
  <2>4. CASE Steps(c, [l EXCEPT !.at = "regroup", !.under = e])
    <3> DEFINE next == [l EXCEPT !.at = "regroup", !.under = e]
    <3>1. /\ Typed(next) /\ next.at = "regroup" /\ next.under = e
          /\ next.pool = l.pool /\ next.id = l.id /\ next.system = l.system
      BY <1>1 DEF Typed
    <3>2. Steps(c, next)
      BY <2>4
    <3> HIDE DEF next
    <3>3. Placed(entity, next)
      BY <1>1, <2>2, <3>1 DEF Placed, AtPool
    <3> QED
      BY <1>1, <3>1, <3>2, <3>3, CallIs, ReadGoes
  <2> QED
    BY <2>1, <2>3, <2>4
<1> QED
  BY <1>2, <1>3

LEMMA RegroupGoes ==
  ASSUME Inv, NEW c \in Call, Regroup(c)
  PROVE  /\ Goes(c)
         /\ Moved(entity, entity', call[c].under, call[c].id)
         /\ GroupOf(entity, call[c].under, call[c].system)
         /\ PartOf(entity, call[c].id, "POOL", call[c].system)
         /\ \A e \in DOMAIN entity : e # call[c].under => entity'[e] = entity[e]
<1> DEFINE l == call[c]
           e == l.under
<1>1. /\ Typed(l) /\ Placed(entity, l) /\ l.at = "regroup" /\ Rows(entity)
      /\ AtPool(entity, l) /\ GroupOf(entity, e, l.system) /\ l.system \in System
  BY CallAt DEF Regroup, Inv, Placed
<1>2. /\ entity' = [entity EXCEPT ![e].parent = l.id, ![e].status = "ACTIVE"]
      /\ moved' = IF entity[e].parent = l.id THEN moved ELSE moved \cup {e}
      /\ closure' = closure /\ report' = report
      /\ call' = [call EXCEPT ![c] = NextPart(l)]
  BY DEF Regroup, Steps, Writes
<1>3. Moved(entity, entity', e, l.id)
  BY <1>1, <1>2 DEF Moved, Rows, GroupOf
<1>4. PartOf(entity, l.id, "POOL", l.system)
  BY <1>1 DEF AtPool
<1>5. Keeps(entity, entity')
  BY <1>1, <1>3, <1>4, MovedKeeps DEF Inv
<1>6. CallOK(entity, NextPart(l))
  BY <1>1, NextPartGoes
<1>7. CallOK(entity', NextPart(l))
  BY <1>5, <1>6, CallKept
<1>8. TableStep(l.system)
  BY <1>1, <1>2, <1>3, <1>4 DEF TableStep
<1>9. \A f \in DOMAIN entity : f # e => entity'[f] = entity[f]
  BY <1>2
<1> QED
  BY <1>1, <1>2, <1>3, <1>4, <1>7, <1>8, <1>9 DEF Goes

LEMMA CallGoes ==
  ASSUME Inv, NEW c \in Call, CallStep(c)
  PROVE  Goes(c)
BY FindPartGoes, InsertGoes, RequestsGo, RetiresGo, ReviveGoes, PoolIdsGoes,
   FindGroupGoes, RegroupGoes DEF CallStep


-----------------------------------------------------------------------------
(* The closure table.                                                      *)

LEMMA RetouchedLinked ==
  ASSUME NEW t, NEW u, Rows(t), Arranged(t), Retouched(t, u),
         NEW links, NEW gone, Linked(t, links, gone)
  PROVE  Linked(u, links, gone)
<1>1. /\ DOMAIN u = DOMAIN t
      /\ \A e \in DOMAIN t : u[e].parent = t[e].parent
      /\ \A e \in DOMAIN t, s \in System : InSystem(u, e, s) <=> InSystem(t, e, s)
  BY RetouchedKeeps DEF Retouched
<1> QED
  BY <1>1 DEF Linked

LEMMA MovedLinked ==
  ASSUME NEW t, NEW u, NEW e, NEW pool, Rows(t), Arranged(t), NEW r \in System,
         GroupOf(t, e, r), PartOf(t, pool, "POOL", r), Moved(t, u, e, pool),
         NEW links, NEW gone, Linked(t, links, gone),
         NEW now, now = IF t[e].parent = pool THEN gone ELSE gone \cup {e}
  PROVE  Linked(u, links, now)
<1>1. /\ DOMAIN u = DOMAIN t
      /\ \A f \in DOMAIN t : u[f].parent = IF f = e THEN pool ELSE t[f].parent
      /\ \A f \in DOMAIN t, s \in System : InSystem(u, f, s) <=> InSystem(t, f, s)
  BY MovedKeeps DEF Moved
<1>2. \A f \in DOMAIN t \ now : f \in DOMAIN t \ gone /\ u[f].parent = t[f].parent
  BY <1>1
<1> QED
  BY <1>1, <1>2 DEF Linked

LEMMA ExtendedLinked ==
  ASSUME NEW t, NEW u, NEW new, NEW row, Rows(t), Arranged(t), Extended(t, u, new, row),
         NEW r \in System, Belongs(t, row.type, row.parent, r),
         NEW links, NEW gone, Linked(t, links, gone)
  PROVE  Linked(u, links \cup LinkNew(links, new, row.parent), gone)
<1> DEFINE up == row.parent
           more == links \cup LinkNew(links, new, up)
<1>1. /\ DOMAIN u = DOMAIN t \cup {new} /\ new \notin DOMAIN t /\ u[new] = row
      /\ new # NoParent /\ \A e \in DOMAIN t : u[e] = t[e]
  BY DEF Extended
<1>2. /\ \A e \in DOMAIN t, s \in System : InSystem(u, e, s) <=> InSystem(t, e, s)
      /\ \A s \in System : InSystem(u, new, s) <=> s = r
  BY ExtendedKeeps
<1>3. links \subseteq (DOMAIN t) \X (DOMAIN t)
  BY DEF Linked
<1>4. up \in DOMAIN t /\ up # new /\ \A s \in System : Root[s] \in DOMAIN t
  BY <1>1 DEF Belongs, PartOf, Arranged
<1>5. \A p : p \in more <=> \/ p \in links
                            \/ p = <<new, new>>
                            \/ \E a : p = <<a, new>> /\ <<a, up>> \in links
  <2>1. \A a : a \in Ancestors(links, up) <=> <<a, up>> \in links
    BY <1>3 DEF Ancestors
  <2> QED
    BY <2>1 DEF LinkNew
<1> HIDE DEF more
<1>6. more \subseteq (DOMAIN u) \X (DOMAIN u)
  <2>1. ASSUME NEW p \in more
        PROVE  p \in (DOMAIN u) \X (DOMAIN u)
    <3>1. CASE p \in links
      BY <1>1, <1>3, <3>1
    <3>2. CASE p = <<new, new>>
      BY <1>1, <3>2
    <3>3. ASSUME NEW a, p = <<a, new>>, <<a, up>> \in links
          PROVE  p \in (DOMAIN u) \X (DOMAIN u)
      <4>1. a \in DOMAIN t
        BY <1>3, <3>3
      <4> QED
        BY <1>1, <3>3, <4>1
    <3> QED
      BY <1>5, <3>1, <3>2, <3>3
  <2> QED
    BY <2>1
<1>7. \A a, e : e # new => (<<a, e>> \in more <=> <<a, e>> \in links)
  BY <1>5
<1>8. \A a : <<a, new>> \in more <=> a = new \/ <<a, up>> \in links
  <2>1. ASSUME NEW a
        PROVE  <<a, new>> \in more <=> a = new \/ <<a, up>> \in links
    <3>1. <<a, new>> \notin links
      BY <1>1, <1>3
    <3>2. <<a, new>> \in more <=> \/ <<a, new>> \in links
                                  \/ <<a, new>> = <<new, new>>
                                  \/ \E b : <<a, new>> = <<b, new>> /\ <<b, up>> \in links
      BY <1>5, Zenon
    <3>3. <<a, new>> = <<new, new>> <=> a = new
      OBVIOUS
    <3>4. (\E b : <<a, new>> = <<b, new>> /\ <<b, up>> \in links) <=> <<a, up>> \in links
      OBVIOUS
    <3> QED
      BY <3>1, <3>2, <3>3, <3>4
  <2> QED
    BY <2>1
<1>9. ASSUME NEW s \in System
      PROVE  /\ <<Root[s], Root[s]>> \in more
             /\ \A e \in DOMAIN u :
                   e # Root[s] => (<<Root[s], e>> \in more <=> InSystem(u, e, s))
  <2>1. <<Root[s], Root[s]>> \in more
    BY <1>5 DEF Linked
  <2>2. ASSUME NEW e \in DOMAIN t, e # Root[s]
        PROVE  <<Root[s], e>> \in more <=> InSystem(u, e, s)
    BY <1>1, <1>2, <1>7, <2>2 DEF Linked
  <2>3. <<Root[s], new>> \in more <=> <<Root[s], up>> \in links
    BY <1>1, <1>4, <1>8
  <2>4. <<Root[s], up>> \in links <=> s = r
    <3>1. CASE up = Root[r]
      <4>1. ~InSystem(t, up, s)
        BY <3>1, RootsApart
      <4>2. Root[s] = up <=> s = r
        BY <3>1, RootsDiffer
      <4>3. CASE Root[s] = up
        BY <4>2, <4>3 DEF Linked
      <4>4. CASE Root[s] # up
        BY <1>4, <4>1, <4>2, <4>4 DEF Linked
      <4> QED
        BY <4>3, <4>4
    <3>2. ASSUME NEW type, PartOf(t, up, type, r)
          PROVE  <<Root[s], up>> \in links <=> s = r
      <4>1. InSystem(t, up, r)
        BY <3>2, PartsAre
      <4>2. up # Root[s]
        BY <4>1, RootsApart
      <4>3. InSystem(t, up, s) <=> s = r
        BY <1>4, <4>1, OneSystem
      <4> QED
        BY <1>4, <4>2, <4>3 DEF Linked
    <3> QED
      BY <3>1, <3>2 DEF Belongs
  <2> QED
    BY <1>1, <1>2, <2>1, <2>2, <2>3, <2>4
<1>10. /\ \A e : e # new => Ancestors(more, e) = Ancestors(links, e)
       /\ Ancestors(more, new) = {new} \cup Ancestors(links, up)
  <2>1. \A a, e : a \in Ancestors(more, e) <=> <<a, e>> \in more
    BY <1>6 DEF Ancestors
  <2>2. \A a, e : a \in Ancestors(links, e) <=> <<a, e>> \in links
    BY <1>3 DEF Ancestors
  <2>3. ASSUME NEW e, e # new
        PROVE  Ancestors(more, e) = Ancestors(links, e)
    <3>1. \A a : a \in Ancestors(more, e) <=> a \in Ancestors(links, e)
      BY <1>7, <2>1, <2>2, <2>3
    <3> QED
      BY <3>1, Zenon DEF Ancestors
  <2>4. \A a : a \in Ancestors(more, new) <=> a \in {new} \cup Ancestors(links, up)
    BY <1>8, <2>1, <2>2
  <2>5. Ancestors(more, new) = {new} \cup Ancestors(links, up)
    BY <2>4, Zenon DEF Ancestors
  <2> QED
    BY <2>3, <2>5
<1>11. ASSUME NEW e \in DOMAIN u \ gone
       PROVE  Ancestors(more, e) = {e} \cup Ancestors(more, u[e].parent)
  <2>1. CASE e = new
    BY <1>1, <1>4, <1>10, <2>1
  <2>2. CASE e # new
    <3>1. e \in DOMAIN t \ gone /\ u[e] = t[e] /\ t[e].parent # new
      BY <1>1, <2>2 DEF Rows
    <3>2. Ancestors(links, e) = {e} \cup Ancestors(links, t[e].parent)
      BY <3>1 DEF Linked
    <3> QED
      BY <1>10, <2>2, <3>1, <3>2
  <2> QED
    BY <2>1, <2>2
<1> QED
  BY <1>6, <1>9, <1>11 DEF Linked, more

LEMMA TrueClosureLinked ==
  ASSUME NEW t, Rows(t), Arranged(t)
  PROVE  Linked(t, TrueClosure(t), {})
<1> DEFINE links == TrueClosure(t)
<1>1. \A a, e : <<a, e>> \in links <=> a \in DOMAIN t /\ e \in DOMAIN t /\ e \in Below(t, a)
  BY DEF TrueClosure
<1>2. links \subseteq (DOMAIN t) \X (DOMAIN t)
  BY DEF TrueClosure
<1> HIDE DEF links
<1>3. ASSUME NEW s \in System, NEW e \in DOMAIN t, e # Root[s]
      PROVE  <<Root[s], e>> \in links <=> InSystem(t, e, s)
  <2> DEFINE B == Below(t, Root[s])
             S == {Root[s]} \cup {f \in DOMAIN t : InSystem(t, f, s)}
  <2>1. Root[s] \in DOMAIN t
    BY DEF Arranged
  <2>2. /\ Root[s] \in B /\ B \subseteq DOMAIN t
        /\ \A f \in DOMAIN t : f # Root[s] => (f \in B <=> t[f].parent \in B)
        /\ \A T \in SUBSET DOMAIN t :
              Root[s] \in T /\ (\A f \in DOMAIN t : t[f].parent \in T => f \in T)
              => B \subseteq T
    BY <2>1, BelowByParent
  <2> HIDE DEF B
  <2>3. ASSUME InSystem(t, e, s)
        PROVE  e \in B
    <3>1. CASE t[e].parent = Root[s]
      BY <1>3, <2>2, <3>1
    <3>2. CASE t[e].parent \in DOMAIN t /\ t[t[e].parent].parent = Root[s]
      <4>1. t[e].parent \in B
        BY <2>2, <3>2
      <4> QED
        BY <1>3, <2>2, <4>1
    <3> QED
      BY <2>3, <3>1, <3>2 DEF InSystem
  <2>4. \A f \in DOMAIN t : t[f].parent \in S => f \in S
    BY DEF InSystem, Arranged
  <2>5. S \in SUBSET DOMAIN t /\ Root[s] \in S
    BY <2>1
  <2>6. e \in B => e \in S
    BY <2>2, <2>4, <2>5
  <2> QED
    BY <1>1, <1>3, <2>1, <2>3, <2>6 DEF B
<1>4. \A s \in System : <<Root[s], Root[s]>> \in links
  BY <1>1, BelowByParent DEF Arranged
<1>5. ASSUME NEW e \in DOMAIN t
      PROVE  Ancestors(links, e) = {e} \cup Ancestors(links, t[e].parent)
  <2>1. \A a, f : a \in Ancestors(links, f) <=> <<a, f>> \in links
    BY <1>2 DEF Ancestors
  <2>2. \A a : <<a, e>> \in links <=> a = e \/ <<a, t[e].parent>> \in links
    <3>1. ASSUME NEW a \in DOMAIN t
          PROVE  <<a, e>> \in links <=> a = e \/ <<a, t[e].parent>> \in links
      <4>1. /\ a \in Below(t, a) /\ Below(t, a) \subseteq DOMAIN t
            /\ e # a => (e \in Below(t, a) <=> t[e].parent \in Below(t, a))
        BY BelowByParent
      <4> QED
        BY <1>1, <4>1
    <3>2. ASSUME NEW a, a \notin DOMAIN t
          PROVE  <<a, e>> \in links <=> a = e \/ <<a, t[e].parent>> \in links
      BY <1>1, <3>2
    <3> QED
      BY <3>1, <3>2
  <2>3. \A a : a \in Ancestors(links, e)
               <=> a \in {e} \cup Ancestors(links, t[e].parent)
    BY <2>1, <2>2
  <2> QED
    BY <2>3, Zenon DEF Ancestors
<1> QED
  BY <1>2, <1>3, <1>4, <1>5 DEF Linked, links


-----------------------------------------------------------------------------
(* The invariant.                                                          *)

LEMMA InitOK == Init => Inv
<1> SUFFICES ASSUME Init PROVE Inv
  OBVIOUS
<1>1. entity = Initial /\ closure = TrueClosure(Initial) /\ moved = {}
  BY DEF Init
<1>2. /\ Initial \in Seq([name : STRING, type : STRING, parent : Nat, number : Int,
                          status : {"ACTIVE", "INACTIVE"}])
      /\ \A e \in DOMAIN Initial : Initial[e].parent \in (DOMAIN Initial) \cup {NoParent}
      /\ Arranged(Initial) /\ Report \in [System -> SUBSET Reports]
  BY DeviceMapAssumption
<1>3. Rows(Initial)
  <2>1. DOMAIN Initial = 1..Len(Initial) /\ Len(Initial) \in Nat
    BY <1>2
  <2>2. ASSUME NEW e \in DOMAIN Initial
        PROVE  DOMAIN Initial[e] = {"name", "type", "parent", "number", "status"}
    <3> DEFINE row == Initial[e]
               R == [name : STRING, type : STRING, parent : Nat, number : Int,
                     status : {"ACTIVE", "INACTIVE"}]
    <3>1. Initial \in Seq(R)
      BY <1>2
    <3> HIDE DEF R
    <3>2. row \in R
      BY <2>1, <3>1
    <3> HIDE DEF row
    <3>3. DOMAIN row = {"name", "type", "parent", "number", "status"}
      BY <3>2 DEF R
    <3> QED
      BY <3>3 DEF row
  <2>3. \E n \in Nat : DOMAIN Initial = 1..n
    BY <2>1
  <2> QED
    BY <1>2, <2>2, <2>3 DEF Rows
<1>4. ReportOK
  BY <1>2 DEF Init, ReportOK
<1>5. CallsOK
  BY DEF Init, CallsOK, CallOK
<1>6. Linked(entity, closure, moved)
  BY <1>1, <1>2, <1>3, TrueClosureLinked
<1> QED
  BY <1>1, <1>2, <1>3, <1>4, <1>5, <1>6 DEF Inv

\* A step of the tables keeps what the invariant says of them.
LEMMA TablesKept ==
  ASSUME Inv, NEW s \in System, TableStep(s)
  PROVE  /\ Rows(entity') /\ Arranged(entity') /\ Keeps(entity, entity')
         /\ Linked(entity', closure', moved') /\ moved' \subseteq DOMAIN entity'
<1>1. CASE Retouched(entity, entity') /\ UNCHANGED <<closure, moved>>
  <2>1. Rows(entity') /\ Arranged(entity') /\ Keeps(entity, entity')
    BY <1>1, RetouchedKeeps DEF Inv
  <2>2. Linked(entity', closure', moved')
    BY <1>1, RetouchedLinked DEF Inv
  <2> QED
    BY <1>1, <2>1, <2>2 DEF Inv, Retouched
<1>2. ASSUME NEW new, NEW row, Extended(entity, entity', new, row), Rows(entity'),
             Belongs(entity, row.type, row.parent, s), UNCHANGED moved,
             closure' = closure \cup LinkNew(closure, new, row.parent)
      PROVE  /\ Rows(entity') /\ Arranged(entity') /\ Keeps(entity, entity')
             /\ Linked(entity', closure', moved') /\ moved' \subseteq DOMAIN entity'
  <2>1. Arranged(entity') /\ Keeps(entity, entity')
    BY <1>2, ExtendedKeeps DEF Inv
  <2>2. Linked(entity', closure', moved')
    BY <1>2, ExtendedLinked DEF Inv
  <2> QED
    BY <1>2, <2>1, <2>2 DEF Inv, Extended
<1>3. ASSUME NEW e, NEW pool, Moved(entity, entity', e, pool), GroupOf(entity, e, s),
             PartOf(entity, pool, "POOL", s), closure' = closure,
             moved' = IF entity[e].parent = pool THEN moved ELSE moved \cup {e}
      PROVE  /\ Rows(entity') /\ Arranged(entity') /\ Keeps(entity, entity')
             /\ Linked(entity', closure', moved') /\ moved' \subseteq DOMAIN entity'
  <2>1. Rows(entity') /\ Arranged(entity') /\ Keeps(entity, entity')
    BY <1>3, MovedKeeps DEF Inv
  <2>2. Linked(entity', closure', moved')
    BY <1>3, MovedLinked DEF Inv
  <2> QED
    BY <1>3, <2>1, <2>2 DEF Inv, Moved
<1> QED
  BY <1>1, <1>2, <1>3 DEF TableStep

LEMMA NewCallOK ==
  ASSUME NEW t, NEW s \in System
  PROVE  CallOK(t, NewCall(s)) /\ NewCall(s).system = s /\ NewCall(s).at = "status"
<1> DEFINE l == NewCall(s)
<1>1. /\ Typed(l) /\ l.at = "status" /\ l.groups = <<>> /\ l.system = s
  BY DEF Typed, NewCall
<1> HIDE DEF l
<1>2. Placed(t, l)
  BY <1>1 DEF Placed
<1> QED
  BY <1>1, <1>2, CallIs DEF l

LEMMA StepOK == Inv /\ [Next]_vars => Inv'
<1> SUFFICES ASSUME Inv, [Next]_vars PROVE Inv'
  OBVIOUS
<1>1. ASSUME NEW c \in Call, CallStep(c)
      PROVE  Inv'
  <2>1. Goes(c)
    BY <1>1, CallGoes
  <2>2. call[c].system \in System
    BY <1>1, CallAt DEF CallStep, FindPart, Insert, GetStatus, GetPoolInfo, RetirePools,
       Revive, RetireGroups, PoolIds, FindGroup, Regroup, GetChbInfo, PairsFail,
       GetHosts, RetireHosts
  <2>3. /\ Rows(entity') /\ Arranged(entity') /\ Keeps(entity, entity')
        /\ Linked(entity', closure', moved') /\ moved' \subseteq DOMAIN entity'
    BY <2>1, <2>2, TablesKept DEF Goes
  <2>4. CallsOK'
    <3>1. PICK next : call' = [call EXCEPT ![c] = next] /\ CallOK(entity', next)
      BY <2>1 DEF Goes
    <3>2. ASSUME NEW d \in Call
          PROVE  CallOK(entity', call'[d])
      <4>1. CallOK(entity', call[d])
        BY <2>3, CallKept DEF Inv, CallsOK
      <4>2. call'[d] = IF d = c THEN next ELSE call[d]
        BY <3>1 DEF Inv, CallsOK
      <4> QED
        BY <3>1, <4>1, <4>2
    <3> QED
      BY <3>1, <3>2 DEF CallsOK, Inv
  <2>5. ReportOK'
    BY <2>1 DEF Goes, Inv, ReportOK
  <2> QED
    BY <2>3, <2>4, <2>5 DEF Inv
<1>2. ASSUME NEW c \in Call, AtStart(c) \/ Updated(c)
      PROVE  Inv'
  <2>1. PICK s \in System : Starts(c, s)
    BY <1>2 DEF AtStart, Updated
  <2>2. UNCHANGED <<tables, report, moved>> /\ call' = [call EXCEPT ![c] = NewCall(s)]
    BY <2>1 DEF Starts, Steps
  <2>3. CallsOK'
    BY <2>2, NewCallOK DEF Inv, CallsOK, tables
  <2> QED
    BY <2>2, <2>3 DEF Inv, ReportOK, tables
<1>3. CASE Crash
  <2>1. UNCHANGED <<tables, report, moved>> /\ call' = [c \in Call |-> Idle]
    BY <1>3 DEF Crash, history
  <2>2. CallsOK'
    BY <2>1 DEF CallsOK, CallOK
  <2> QED
    BY <2>1, <2>2 DEF Inv, ReportOK, tables
<1>4. CASE ReportChanges
  <2>1. UNCHANGED <<tables, call, moved>>
    BY <1>4 DEF ReportChanges, history
  <2>2. PICK s \in System : \E r \in Report[s] : report' = [report EXCEPT ![s] = r]
    BY <1>4 DEF ReportChanges
  <2>3. Report[s] \subseteq Reports
    BY DeviceMapAssumption
  <2>4. ReportOK'
    BY <2>2, <2>3 DEF Inv, ReportOK
  <2> QED
    BY <2>1, <2>4 DEF Inv, CallsOK, tables
<1>5. CASE Subscribe \/ UNCHANGED vars
  BY <1>5 DEF Subscribe, vars, history, tables, Inv, CallsOK, ReportOK
<1> QED
  BY <1>1, <1>2, <1>3, <1>4, <1>5 DEF Next

\* The tables and the calls stay as the invariant describes them.
THEOREM Invariance == Spec => []Inv
<1> QED
  BY InitOK, StepOK, PTL DEF Spec

\* However calls overlap, are cut short and begin again, the tree that is read from a
\* system is what hangs below it by the parents, and only the closure rows of parity
\* groups that changed their pool are stale.
THEOREM TreeComplete == Spec => []SystemTreeComplete
<1>1. Inv => SystemTreeComplete
  BY DEF Inv, Linked, SystemTreeComplete, Within
<1> QED
  BY <1>1, Invariance, PTL


-----------------------------------------------------------------------------
(* What a call touches.                                                    *)

LEMMA DeactivateTouches ==
  ASSUME NEW type, NEW parent, NEW names, Deactivate(type, parent, names),
         NEW e \in DOMAIN entity, entity'[e] # entity[e]
  PROVE  entity[e].parent = parent
BY DEF Deactivate

LEMMA CallTouches ==
  ASSUME Inv, NEW c \in Call, CallStep(c), NEW e \in DOMAIN entity, entity'[e] # entity[e]
  PROVE  \/ Within(e, call[c].system)
         \/ At(c, "retireGroups") /\ entity[e].parent = call[c].pool.id
<1> DEFINE s == call[c].system
<1>1. CASE Reads
  BY <1>1 DEF Reads, tables
<1>2. CASE Insert(c)
  BY <1>2, InsertGoes DEF Extended
<1>3. CASE RetirePools(c) \/ RetireHosts(c)
  <2>1. entity[e].parent = Root[s]
    BY <1>3, DeactivateTouches DEF RetirePools, RetireHosts
  <2> QED
    BY <2>1 DEF Within, InSystem
<1>4. CASE RetireGroups(c)
  BY <1>4, DeactivateTouches DEF RetireGroups
<1>5. CASE Revive(c)
  <2>1. e = call[c].id
    BY <1>5, ReviveGoes
  <2>2. entity[e].parent = Root[s]
    BY <1>5, <2>1, ReviveGoes DEF PartOf
  <2> QED
    BY <2>2 DEF Within, InSystem
<1>6. CASE Regroup(c)
  <2>1. e = call[c].under /\ GroupOf(entity, call[c].under, s)
    BY <1>6, RegroupGoes
  <2> QED
    BY <2>1 DEF Within, InSystem, GroupOf, PartOf
<1> QED
  BY <1>1, <1>2, <1>3, <1>4, <1>5, <1>6 DEF CallStep, FindPart, GetStatus, GetPoolInfo,
     PoolIds, FindGroup, GetChbInfo, PairsFail, GetHosts

\* A step of a call changes the local variables of no other.
LEMMA OneCallSteps ==
  ASSUME Inv, NEW c \in Call, CallStep(c), NEW d \in Call, d # c
  PROVE  call'[d] = call[d]
<1>1. PICK next : call' = [call EXCEPT ![c] = next]
  BY CallGoes DEF Goes
<1> QED
  BY <1>1 DEF Inv, CallsOK

\* An update touches what is below its own system, and no other entity but parity
\* groups below an entity whose id is the number of one of its pools.
THEOREM OwnSystem == Spec => OwnSystemOnly
<1> DEFINE A == \A c \in Call, e \in DOMAIN entity :
                   Busy(c) /\ call'[c] # call[c] /\ entity'[e] # entity[e]
                   => \/ Within(e, call[c].system)
                      \/ At(c, "retireGroups") /\ entity[e].parent = call[c].pool.id
<1>1. Inv /\ [Next]_vars => [A]_vars
  <2> SUFFICES ASSUME Inv, Next, NEW c \in Call, NEW e \in DOMAIN entity,
                      call'[c] # call[c], entity'[e] # entity[e]
               PROVE  \/ Within(e, call[c].system)
                      \/ At(c, "retireGroups") /\ entity[e].parent = call[c].pool.id
    OBVIOUS
  <2>1. PICK d \in Call : AtStart(d) \/ Updated(d) \/ CallStep(d)
    BY DEF Next, Subscribe, Crash, ReportChanges, tables
  <2>2. CallStep(d)
    BY <2>1 DEF AtStart, Updated, Starts, tables
  <2>3. c = d
    BY <2>2, OneCallSteps
  <2> QED
    BY <2>2, <2>3, CallTouches
<1> QED
  BY <1>1, Invariance, PTL DEF Spec, OwnSystemOnly


-----------------------------------------------------------------------------
(* Each part once.                                                         *)

\* A call that has missed nothing it will still insert.
Plain(l) == l.at \notin {"insert", "group"} /\ (l.at = "find" => l.phase # "group")

Onward(l, next) ==
    \/ next = Idle
    \/ next.system = l.system /\ next.ids \in {l.ids, {}} /\ Plain(next)

LEMMA NextHostOnward ==
  ASSUME NEW l, Typed(l)
  PROVE  Onward(l, NextHost(l))
<1>1. CASE l.hosts # <<>>
  <2> DEFINE x == [l EXCEPT !.hosts = Tail(@)]
             key == createComponentKey(Head(l.hosts), "", "HOST_GROUP")
  <2>1. Typed(x) /\ x.system = l.system /\ x.ids = l.ids
    BY <1>1 DEF Typed
  <2>2. NextHost(l) = Fetching(x, "host", key)
    BY <1>1 DEF NextHost
  <2> HIDE DEF x, key
  <2> QED
    BY <2>1, <2>2, FetchingSets DEF Onward, Plain
<1> QED
  BY <1>1 DEF NextHost, Onward

LEMMA NextPairOnward ==
  ASSUME NEW l, Typed(l)
  PROVE  Onward(l, NextPair(l))
<1>1. CASE l.ports # <<>>
  <2> DEFINE x == [l EXCEPT !.ports = Tail(@)]
             key == createComponentKey(l.pair, Head(l.ports), "PORT_GROUP")
  <2>1. Typed(x) /\ x.system = l.system /\ x.ids = l.ids
    BY <1>1 DEF Typed
  <2>2. NextPair(l) = Fetching(x, "pair", key)
    BY <1>1 DEF NextPair
  <2> HIDE DEF x, key
  <2> QED
    BY <2>1, <2>2, FetchingSets DEF Onward, Plain
<1>2. CASE l.ports = <<>> /\ l.pairs # <<>>
  <2> DEFINE pair == Head(l.pairs)
             rest == Tail(l.pairs)
             x == [l EXCEPT !.pairs = rest, !.pair = pair.name, !.ports = pair.ports]
             key == createComponentKey(pair.name, "", "ADAPTER_GROUP")
  <2>1. pair.ports \in Seq(Named) /\ rest \in Seq(PairInfo)
    <3>1. Head(l.pairs) \in PairInfo /\ Tail(l.pairs) \in Seq(PairInfo)
      BY <1>2 DEF Typed
    <3> QED
      BY <3>1 DEF PairInfo
  <2>2. NextPair(l) = Fetching(x, "pair", key)
    BY <1>2 DEF NextPair
  <2> HIDE DEF pair, rest
  <2>3. Typed(x) /\ x.system = l.system /\ x.ids = l.ids
    BY <2>1 DEF Typed
  <2> HIDE DEF x, key
  <2> QED
    BY <2>2, <2>3, FetchingSets DEF Onward, Plain
<1>3. CASE l.ports = <<>> /\ l.pairs = <<>>
  BY <1>3 DEF NextPair, Onward, Plain, Typed
<1> QED
  BY <1>1, <1>2, <1>3

LEMMA NextPartOnward ==
  ASSUME NEW l, Typed(l)
  PROVE  Onward(l, NextPart(l))
<1>1. CASE l.groups # <<>>
  BY <1>1 DEF NextPart, Onward, Plain, Typed
<1>2. CASE l.groups = <<>> /\ l.pools # <<>>
  <2> DEFINE pool == Head(l.pools)
             rest == Tail(l.pools)
             x == [l EXCEPT !.pool = pool, !.pools = rest]
             key == createComponentKey(pool.name, "", "POOL")
  <2>1. rest \in Seq(PoolInfo)
    BY <1>2 DEF Typed
  <2>2. NextPart(l) = Fetching(x, "pool", key)
    BY <1>2 DEF NextPart
  <2> HIDE DEF pool, rest
  <2>3. Typed(x) /\ x.system = l.system /\ x.ids = l.ids
    BY <2>1 DEF Typed
  <2> HIDE DEF x, key
  <2> QED
    BY <2>2, <2>3, FetchingSets DEF Onward, Plain
<1>3. CASE l.groups = <<>> /\ l.pools = <<>>
  BY <1>3 DEF NextPart, Onward, Plain, Typed
<1> QED
  BY <1>1, <1>2, <1>3

LEMMA FoundOnward ==
  ASSUME NEW l, NEW e, NEW row, Typed(l)
  PROVE  Onward(l, Found(l, e, row))
<1>1. CASE l.phase = "group"
  BY <1>1, NextPartOnward DEF Found
<1>2. CASE l.phase = "pair"
  BY <1>2, NextPairOnward DEF Found
<1>3. \A at \in {"revive", "retireGroups"} : Onward(l, [l EXCEPT !.at = at, !.id = e])
  BY DEF Onward, Plain, Typed
<1>4. CASE l.phase \notin {"group", "pair"}
  <2>1. \/ \E at \in {"revive", "retireGroups"} :
               Found(l, e, row) = [l EXCEPT !.at = at, !.id = e]
        \/ Found(l, e, row) = NextHost(l)
    BY <1>4 DEF Found
  <2> QED
    BY <1>3, <2>1, NextHostOnward
<1> QED
  BY <1>1, <1>2, <1>4

\* The parts of a system are the same in both tables.
SameIn(t, u, s) ==
    \A e \in DOMAIN u :
        InSystem(u, e, s) => /\ e \in DOMAIN t /\ InSystem(t, e, s)
                             /\ u[e].name = t[e].name
                             /\ u[e].type = t[e].type
                             /\ u[e].parent = t[e].parent

LEMMA SameOnce ==
  ASSUME NEW t, NEW u, NEW s, SameIn(t, u, s), EachOnce(t, s)
  PROVE  EachOnce(u, s)
BY DEF SameIn, EachOnce

LEMMA SameMissed ==
  ASSUME NEW t, NEW u, NEW l, SameIn(t, u, l.system), Missed(t, l)
  PROVE  Missed(u, l)
<1>1. \A part : NoneSuch(t, l, part) => NoneSuch(u, l, part)
  BY DEF SameIn, NoneSuch
<1>2. ASSUME NEW e, PartOf(u, e, "POOL", l.system)
      PROVE  PartOf(t, e, "POOL", l.system)
  BY <1>2 DEF SameIn, PartOf, InSystem
<1> QED
  BY <1>1, <1>2 DEF Missed

LEMMA RetouchedSame ==
  ASSUME NEW t, NEW u, Rows(t), Arranged(t), Retouched(t, u), NEW s \in System
  PROVE  SameIn(t, u, s)
BY RetouchedKeeps DEF Retouched, SameIn

\* A step of a call changes the parts of no other system.
LEMMA ElsewhereSame ==
  ASSUME Inv, NEW r \in System, TableStep(r), NEW s \in System, s # r
  PROVE  SameIn(entity, entity', s)
<1>1. CASE Retouched(entity, entity')
  BY <1>1, RetouchedSame DEF Inv
<1>2. ASSUME NEW new, NEW row, Extended(entity, entity', new, row),
             Belongs(entity, row.type, row.parent, r)
      PROVE  SameIn(entity, entity', s)
  <2>1. /\ \A e \in DOMAIN entity : InSystem(entity', e, s) <=> InSystem(entity, e, s)
        /\ ~InSystem(entity', new, s)
    BY <1>2, ExtendedKeeps DEF Inv
  <2> QED
    BY <1>2, <2>1 DEF Extended, SameIn
<1>3. ASSUME NEW e, NEW pool, Moved(entity, entity', e, pool), GroupOf(entity, e, r),
             PartOf(entity, pool, "POOL", r)
      PROVE  SameIn(entity, entity', s)
  <2>1. \A f \in DOMAIN entity : InSystem(entity', f, s) <=> InSystem(entity, f, s)
    BY <1>3, MovedKeeps DEF Inv
  <2>2. ~InSystem(entity, e, s)
    BY <1>3, PartsAre, OneSystem DEF Inv, GroupOf
  <2> QED
    BY <1>3, <2>1, <2>2 DEF Moved, SameIn
<1> QED
  BY <1>1, <1>2, <1>3 DEF TableStep

\* A new part that was not there.
LEMMA ExtendedOnce ==
  ASSUME NEW t, NEW u, NEW new, NEW row, Rows(t), Arranged(t), Extended(t, u, new, row),
         NEW l, l.system \in System, Belongs(t, row.type, row.parent, l.system),
         EachOnce(t, l.system), NEW part, NoneSuch(t, l, part),
         row.name = part.name, row.type = part.type, row.parent = l.under
  PROVE  EachOnce(u, l.system)
<1> DEFINE s == l.system
<1>1. /\ DOMAIN u = DOMAIN t \cup {new} /\ u[new] = row
      /\ \A e \in DOMAIN t : u[e] = t[e]
      /\ \A e \in DOMAIN t : InSystem(u, e, s) <=> InSystem(t, e, s)
  BY ExtendedKeeps DEF Extended
<1>2. ASSUME NEW e \in DOMAIN t, InSystem(u, e, s), u[e].type = row.type,
             u[e].name = row.name,
             u[e].type # "PORT_GROUP" \/ u[e].parent = row.parent
      PROVE  FALSE
  BY <1>1, <1>2 DEF NoneSuch
<1>3. ASSUME NEW e \in DOMAIN u, NEW f \in DOMAIN u,
             InSystem(u, e, s), InSystem(u, f, s), u[e].type = u[f].type,
             u[e].type # "PORT_GROUP" \/ u[e].parent = u[f].parent,
             u[e].name = u[f].name
      PROVE  e = f
  <2>1. CASE e \in DOMAIN t /\ f \in DOMAIN t
    BY <1>1, <1>3, <2>1 DEF EachOnce
  <2>2. CASE e = new /\ f \in DOMAIN t
    BY <1>1, <1>2, <1>3, <2>2
  <2>3. CASE e \in DOMAIN t /\ f = new
    BY <1>1, <1>2, <1>3, <2>3
  <2> QED
    BY <1>1, <1>3, <2>1, <2>2, <2>3
<1> QED
  BY <1>3 DEF EachOnce

\* A parity group counts once in all the pools.
LEMMA MovedOnce ==
  ASSUME NEW t, NEW u, NEW e, NEW pool, Rows(t), Arranged(t), NEW s \in System,
         GroupOf(t, e, s), PartOf(t, pool, "POOL", s), Moved(t, u, e, pool),
         EachOnce(t, s)
  PROVE  EachOnce(u, s)
<1>1. /\ DOMAIN u = DOMAIN t
      /\ \A f \in DOMAIN t : /\ u[f].name = t[f].name /\ u[f].type = t[f].type
                             /\ f # e => u[f].parent = t[f].parent
                             /\ InSystem(u, f, s) <=> InSystem(t, f, s)
  BY MovedKeeps DEF Moved
<1>2. t[e].type # "PORT_GROUP"
  BY DEF GroupOf
<1> QED
  BY <1>1, <1>2 DEF EachOnce


\* A call stays with its system, which has its parts once after the step if it had
\* them and nobody else updates it.
Stays(c) ==
    /\ \/ call'[c] = Idle
       \/ /\ call'[c].system = call[c].system
          /\ call'[c].ids = call[c].ids \/ call'[c].ids \subseteq DOMAIN entity
    /\ EachOnce(entity, call[c].system) /\ Missed(entity, call[c])
       => EachOnce(entity', call[c].system) /\ Missed(entity', call'[c])

LEMMA OnwardStays ==
  ASSUME Inv, NEW c \in Call, Typed(call[c]), NEW next, Steps(c, next),
         Onward(call[c], next),
         EachOnce(entity, call[c].system) /\ Missed(entity, call[c])
         => EachOnce(entity', call[c].system)
  PROVE  Stays(c)
<1>1. call'[c] = next
  BY DEF Steps, Inv, CallsOK
<1>2. Missed(entity', next)
  BY DEF Onward, Plain, Missed, Idle
<1> QED
  BY <1>1, <1>2 DEF Stays, Onward

LEMMA RetouchStays ==
  ASSUME Inv, NEW c \in Call, Typed(call[c]), NEW next, Steps(c, next),
         Onward(call[c], next), Retouched(entity, entity')
  PROVE  Stays(c)
<1>1. call[c].system \in System
  BY DEF Typed
<1>2. SameIn(entity, entity', call[c].system)
  BY <1>1, RetouchedSame DEF Inv
<1> QED
  BY <1>2, SameOnce, OnwardStays

LEMMA ReadRetouches ==
  ASSUME Reads
  PROVE  Retouched(entity, entity') /\ entity' = entity
BY Unchanged DEF Reads, tables

LEMMA RequestsStay ==
  ASSUME Inv, NEW c \in Call,
         \/ GetStatus(c) \/ GetPoolInfo(c) \/ GetChbInfo(c) \/ PairsFail(c)
         \/ GetHosts(c)
  PROVE  Stays(c)
<1> DEFINE l == call[c]
<1>1. /\ Typed(l) /\ l.system \in System /\ report[l.system] \in Reports
      /\ Retouched(entity, entity')
  BY CallAt, ReadRetouches
     DEF GetStatus, GetPoolInfo, GetChbInfo, PairsFail, GetHosts, Inv, ReportOK
<1>2. \A at \in {"poolInfo", "hosts"} : Onward(l, [l EXCEPT !.at = at])
  BY <1>1 DEF Onward, Plain, Typed
<1>3. Onward(l, Idle)
  BY DEF Onward
<1>4. \A pools : Onward(l, [l EXCEPT !.at = "retirePools", !.pools = pools])
  BY <1>1 DEF Onward, Plain, Typed
<1>5. \A hosts : Onward(l, [l EXCEPT !.at = "retireHosts", !.hosts = hosts])
  BY <1>1 DEF Onward, Plain, Typed
<1>6. ASSUME NEW pairs \in Seq(PairInfo)
      PROVE  Onward(l, NextPair([l EXCEPT !.pairs = pairs]))
  <2> DEFINE x == [l EXCEPT !.pairs = pairs]
  <2>1. Typed(x) /\ x.system = l.system /\ x.ids = l.ids
    BY <1>1 DEF Typed
  <2> HIDE DEF x
  <2>2. Onward(x, NextPair(x))
    BY <2>1, NextPairOnward
  <2>3. Onward(l, NextPair(x))
    BY <2>1, <2>2 DEF Onward
  <2> QED
    BY <2>3 DEF x
<1>7. report[l.system].pairs \in Seq(PairInfo)
  BY <1>1 DEF Reports
<1>8. CASE GetStatus(c)
  BY <1>1, <1>2, <1>3, <1>8, RetouchStays DEF GetStatus
<1>9. CASE GetPoolInfo(c)
  BY <1>1, <1>4, <1>9, RetouchStays DEF GetPoolInfo
<1>10. CASE GetHosts(c)
  BY <1>1, <1>5, <1>10, RetouchStays DEF GetHosts
<1>11. CASE GetChbInfo(c)
  <2>1. CASE Steps(c, [l EXCEPT !.at = "hosts"])
    BY <1>1, <1>2, <2>1, RetouchStays
  <2>2. CASE Steps(c, NextPair([l EXCEPT !.pairs = report[l.system].pairs]))
    BY <1>1, <1>6, <1>7, <2>2, RetouchStays
  <2> QED
    BY <1>11, <2>1, <2>2 DEF GetChbInfo
<1>12. CASE PairsFail(c)
  BY <1>1, <1>2, <1>12, RetouchStays DEF PairsFail
<1> QED
  BY <1>8, <1>9, <1>10, <1>11, <1>12

LEMMA RetiresStay ==
  ASSUME Inv, NEW c \in Call,
         RetirePools(c) \/ RetireHosts(c) \/ RetireGroups(c) \/ Revive(c)
  PROVE  Stays(c)
<1> DEFINE l == call[c]
<1>1. Typed(l) /\ Placed(entity, l) /\ Retouched(entity, entity')
  BY CallAt, RetiresGo, ReviveGoes DEF RetirePools, RetireHosts, RetireGroups, Revive
<1>2. CASE RetirePools(c)
  BY <1>1, <1>2, NextPartOnward, RetouchStays DEF RetirePools
<1>3. CASE RetireHosts(c)
  BY <1>1, <1>3, NextHostOnward, RetouchStays DEF RetireHosts
<1>4. CASE RetireGroups(c)
  <2> DEFINE groups == l.pool.groups
             x == [l EXCEPT !.groups = groups]
  <2>1. groups \in Seq(Named)
    BY <1>1, <1>4 DEF RetireGroups, At, Placed, AtPool, PoolInfo
  <2>2. Steps(c, NextPart(x))
    BY <1>4 DEF RetireGroups
  <2> HIDE DEF groups
  <2>3. Typed(x) /\ x.system = l.system /\ x.ids = l.ids
    BY <1>1, <2>1 DEF Typed
  <2> HIDE DEF x
  <2>4. Onward(x, NextPart(x))
    BY <2>3, NextPartOnward
  <2>5. Onward(l, NextPart(x))
    BY <2>3, <2>4 DEF Onward
  <2> QED
    BY <1>1, <2>2, <2>5, RetouchStays
<1>5. CASE Revive(c)
  <2>1. Onward(l, [l EXCEPT !.at = "retireGroups"])
    BY <1>1 DEF Onward, Plain, Typed
  <2>2. Onward(l, NextHost(l))
    BY <1>1, NextHostOnward
  <2> QED
    BY <1>1, <1>5, <2>1, <2>2, RetouchStays DEF Revive
<1> QED
  BY <1>2, <1>3, <1>4, <1>5

LEMMA RegroupStays ==
  ASSUME Inv, NEW c \in Call, Regroup(c)
  PROVE  Stays(c)
<1>1. Typed(call[c]) /\ call[c].system \in System
  BY CallAt DEF Regroup
<1>2. EachOnce(entity, call[c].system) => EachOnce(entity', call[c].system)
  BY <1>1, RegroupGoes, MovedOnce DEF Inv
<1> QED
  BY <1>1, <1>2, NextPartOnward, OnwardStays DEF Regroup

LEMMA PoolIdsStays ==
  ASSUME Inv, NEW c \in Call, PoolIds(c)
  PROVE  Stays(c)
<1> DEFINE l == call[c]
           found == {e \in Children(entity, Root[l.system]) : Is(e, "POOL")}
           next == [l EXCEPT !.at = "group", !.ids = found]
<1>1. Typed(l) /\ entity' = entity
  BY CallAt, ReadRetouches DEF PoolIds
<1>2. call'[c] = next
  BY DEF PoolIds, Steps, Inv, CallsOK
<1>3. \A e : PartOf(entity, e, "POOL", l.system) <=> e \in found
  BY DEF PartOf, Children, Is
<1>4. found \subseteq DOMAIN entity
  BY DEF Children
<1> HIDE DEF found
<1>5. next.at = "group" /\ next.ids = found /\ next.system = l.system
  BY <1>1 DEF Typed
<1> HIDE DEF next
<1>6. Missed(entity, next)
  BY <1>3, <1>5 DEF Missed
<1> QED
  BY <1>1, <1>2, <1>4, <1>5, <1>6 DEF Stays

\* A direct part is right below the system, a parity group below a pool.
LEMMA WhereParts ==
  ASSUME NEW t, Arranged(t), NEW s \in System, NEW e \in DOMAIN t, InSystem(t, e, s)
  PROVE  /\ t[e].type \in Direct => t[e].parent = Root[s]
         /\ t[e].type = "PARITY_GROUP" => PartOf(t, t[e].parent, "POOL", s)
<1>1. CASE t[e].parent = Root[s]
  BY <1>1 DEF Arranged, Direct
<1>2. CASE t[e].parent \in DOMAIN t /\ t[t[e].parent].parent = Root[s]
  <2> DEFINE up == t[e].parent
  <2>1. InSystem(t, up, s)
    BY <1>2 DEF InSystem
  <2>2. <<t[up].type, t[e].type>> \in Nested
    BY <1>2, <2>1 DEF Arranged
  <2> QED
    BY <1>2, <2>2 DEF Nested, Direct, PartOf
<1> QED
  BY <1>1, <1>2 DEF InSystem

LEMMA FindGroupStays ==
  ASSUME Inv, NEW c \in Call, FindGroup(c)
  PROVE  Stays(c)
<1> DEFINE l == call[c]
           found == {e \in DOMAIN entity : /\ entity[e].name = l.group
                                           /\ Is(e, "PARITY_GROUP")
                                           /\ entity[e].parent \in l.ids}
           key == createComponentKey(l.pool.name, l.group, "PARITY_GROUP")
           next == Fetching(l, "group", key)
<1>1. /\ Typed(l) /\ l.at = "group" /\ l.system \in System
      /\ Retouched(entity, entity') /\ entity' = entity
  BY CallAt, ReadRetouches DEF FindGroup
<1>2. CASE found = {}
  <2>1. call'[c] = next
    BY <1>2 DEF FindGroup, Steps, Inv, CallsOK
  <2> HIDE DEF key
  <2>2. /\ next.system = l.system /\ next.at = "find" /\ next.group = l.group
        /\ next.ids = l.ids
    BY <1>1, FetchingSets
  <2> HIDE DEF next
  <2>3. ASSUME Missed(entity, l)
        PROVE  Missed(entity, next)
    <3> DEFINE part == Part(l.group, "PARITY_GROUP")
    <3>1. part.type = "PARITY_GROUP" /\ part.name = l.group
      BY DEF Part
    <3> HIDE DEF part
    <3>2. ASSUME NEW e \in DOMAIN entity, InSystem(entity, e, l.system),
                 entity[e].type = part.type, entity[e].name = part.name
          PROVE  FALSE
      <4>1. PartOf(entity, entity[e].parent, "POOL", l.system)
        BY <1>1, <3>1, <3>2, WhereParts DEF Inv
      <4>2. entity[e].parent \in l.ids
        BY <1>1, <2>3, <4>1 DEF Missed
      <4>3. e \in found
        BY <3>1, <3>2, <4>2 DEF Is
      <4> QED
        BY <1>2, <4>3
    <3>3. NoneSuch(entity, next, part)
      BY <2>2, <3>2 DEF NoneSuch
    <3> QED
      BY <2>2, <3>3 DEF Missed, part
  <2> QED
    BY <1>1, <2>1, <2>2, <2>3 DEF Stays
<1>3. CASE found # {}
  <2>1. PICK e \in found :
          IF entity[e].parent # l.id \/ entity[e].status = "INACTIVE"
          THEN Steps(c, [l EXCEPT !.at = "regroup", !.under = e])
          ELSE Steps(c, NextPart(l))
    BY <1>3 DEF FindGroup
  <2>2. Onward(l, [l EXCEPT !.at = "regroup", !.under = e])
    BY <1>1 DEF Onward, Plain, Typed
  <2>3. Onward(l, NextPart(l))
    BY <1>1, NextPartOnward
  <2> QED
    BY <1>1, <2>1, <2>2, <2>3, RetouchStays
<1> QED
  BY <1>2, <1>3


\* What has not been found is not there.
LEMMA NotFound ==
  ASSUME Inv, NEW l, Typed(l), l.at = "find", Searching(entity, l), Missed(entity, l),
         \A e \in DOMAIN entity : ~ /\ entity[e].name = Head(l.key).name
                                    /\ entity[e].type = Head(l.key).type
                                    /\ entity[e].parent = l.under
  PROVE  NoneSuch(entity, l, Head(l.key))
<1> DEFINE part == Head(l.key)
<1>1. l.system \in System
  BY DEF Typed
<1>2. ASSUME part.type \in Direct, l.under = Root[l.system]
      PROVE  NoneSuch(entity, l, part)
  BY <1>1, <1>2, WhereParts DEF NoneSuch, Inv
<1>3. ASSUME NEW type \in Direct, TopKey(l, type)
      PROVE  NoneSuch(entity, l, part)
  <2>1. PICK name : l.key = <<Part(name, type)>>
    BY <1>3 DEF TopKey
  <2>2. part.type = type
    BY <2>1 DEF Part
  <2> QED
    BY <1>2, <1>3, <2>2 DEF TopKey
<1>4. ASSUME NEW pair \in Nested, WholeKey(l, pair[1], pair[2])
      PROVE  NoneSuch(entity, l, part)
  <2>1. PICK first, name : l.key = <<Part(first, pair[1]), Part(name, pair[2])>>
    BY <1>4 DEF WholeKey
  <2>2. part.type = pair[1] /\ pair[1] \in Direct
    BY <2>1 DEF Part, Nested, Direct
  <2> QED
    BY <1>2, <1>4, <2>2 DEF WholeKey
<1>5. ASSUME NEW pair \in Nested, LastKey(entity, l, pair[1], pair[2])
      PROVE  NoneSuch(entity, l, part)
  <2>1. PICK name : /\ l.key = <<Part(name, pair[2])>>
                    /\ (pair[2] = "PARITY_GROUP" => name = l.group)
    BY <1>5 DEF LastKey
  <2>2. part = Part(name, pair[2])
    BY <2>1
  <2>3. CASE pair[2] = "PARITY_GROUP"
    <3>1. l.phase = "group"
      BY <1>5, <2>3 DEF LastKey, PhaseOf
    <3>2. NoneSuch(entity, l, Part(l.group, "PARITY_GROUP"))
      BY <3>1 DEF Missed
    <3>3. part = Part(l.group, "PARITY_GROUP")
      BY <2>1, <2>2, <2>3
    <3> QED
      BY <3>2, <3>3
  <2>4. CASE pair[2] = "PORT_GROUP"
    <3>1. part.type = "PORT_GROUP"
      BY <2>2, <2>4 DEF Part
    <3> QED
      BY <3>1 DEF NoneSuch
  <2> QED
    BY <2>3, <2>4 DEF Nested
<1> QED
  BY <1>3, <1>4, <1>5 DEF Searching

\* Down the key, a search for a parity group stays one.
LEMMA DownOnward ==
  ASSUME NEW l, NEW e, NEW row, Typed(l)
  PROVE  \/ Onward(l, Down(l, e, row))
         \/ LET next == Down(l, e, row)
            IN /\ Len(l.key) > 1 /\ next.at = "find" /\ next.system = l.system
               /\ next.phase = l.phase /\ next.group = l.group /\ next.ids = l.ids
BY FoundOnward DEF Down, Typed

LEMMA FindPartStays ==
  ASSUME Inv, NEW c \in Call, FindPart(c)
  PROVE  Stays(c)
<1> DEFINE l == call[c]
           part == Head(l.key)
           found == {e \in DOMAIN entity : /\ entity[e].name = part.name
                                           /\ Is(e, part.type)
                                           /\ entity[e].parent = l.under}
<1>1. /\ Typed(l) /\ Placed(entity, l) /\ l.at = "find" /\ Searching(entity, l)
      /\ Retouched(entity, entity') /\ entity' = entity
  BY CallAt, ReadRetouches DEF FindPart, Placed
<1>2. CASE found = {}
  <2> DEFINE next == [l EXCEPT !.at = "insert"]
  <2>1. call'[c] = next
    BY <1>2 DEF FindPart, Steps, Inv, CallsOK
  <2>2. /\ next.at = "insert" /\ next.key = l.key /\ next.under = l.under
        /\ next.phase = l.phase /\ next.system = l.system /\ next.group = l.group
        /\ next.ids = l.ids
    BY <1>1 DEF Typed
  <2> HIDE DEF next
  <2>3. ASSUME Missed(entity, l)
        PROVE  Missed(entity, next)
    <3>1. NoneSuch(entity, l, part)
      <4>1. \A e \in DOMAIN entity : ~ /\ entity[e].name = part.name
                                       /\ entity[e].type = part.type
                                       /\ entity[e].parent = l.under
        BY <1>2 DEF Is
      <4> QED
        BY <1>1, <2>3, <4>1, NotFound
    <3>2. l.phase = "group" => NoneSuch(entity, l, Part(l.group, "PARITY_GROUP"))
      BY <1>1, <2>3 DEF Missed
    <3>3. \A p : NoneSuch(entity, l, p) => NoneSuch(entity, next, p)
      BY <2>2 DEF NoneSuch
    <3>4. NoneSuch(entity, next, Head(next.key))
      BY <2>2, <3>1, <3>3
    <3> QED
      BY <2>2, <3>2, <3>3, <3>4 DEF Missed
  <2> QED
    BY <1>1, <2>1, <2>2, <2>3 DEF Stays
<1>3. CASE found # {}
  <2>1. PICK e \in found : Steps(c, Down(l, e, entity[e]))
    BY <1>3 DEF FindPart
  <2> DEFINE next == Down(l, e, entity[e])
  <2>2. CASE Onward(l, next)
    BY <1>1, <2>1, <2>2, RetouchStays
  <2>3. CASE /\ Len(l.key) > 1 /\ next.at = "find" /\ next.system = l.system
             /\ next.phase = l.phase /\ next.group = l.group /\ next.ids = l.ids
    <3>1. call'[c] = next
      BY <2>1 DEF Steps, Inv, CallsOK
    <3> HIDE DEF next
    <3>2. ASSUME Missed(entity, l)
          PROVE  Missed(entity, next)
      <4> DEFINE group == Part(l.group, "PARITY_GROUP")
      <4>1. group.type = "PARITY_GROUP"
        BY DEF Part
      <4>2. l.phase = "group" => NoneSuch(entity, l, group)
        BY <1>1, <3>2 DEF Missed
      <4> HIDE DEF group
      <4>3. l.phase = "group" => NoneSuch(entity, next, group)
        BY <2>3, <4>1, <4>2 DEF NoneSuch
      <4> QED
        BY <2>3, <4>3 DEF Missed, group
    <3> QED
      BY <1>1, <2>3, <3>1, <3>2 DEF Stays
  <2> QED
    BY <1>1, <2>2, <2>3, DownOnward
<1> QED
  BY <1>2, <1>3

LEMMA InsertStays ==
  ASSUME Inv, NEW c \in Call, Insert(c)
  PROVE  Stays(c)
<1> DEFINE l == call[c]
           part == Head(l.key)
<1>1. /\ Typed(l) /\ Placed(entity, l) /\ l.at = "insert" /\ Searching(entity, l)
      /\ l.system \in System
  BY CallAt DEF Insert, Placed
<1>2. PICK new, row : Steps(c, Down(l, new, row))
  BY DEF Insert
<1>3. PICK made, is : /\ Extended(entity, entity', made, is)
                      /\ is.name = part.name /\ is.type = part.type
                      /\ is.parent = l.under
  BY InsertGoes
<1>4. Belongs(entity, is.type, is.parent, l.system)
  BY <1>1, <1>3, KeyBelongs
<1>5. ASSUME EachOnce(entity, l.system), Missed(entity, l)
      PROVE  EachOnce(entity', l.system)
  <2>1. NoneSuch(entity, l, part)
    BY <1>1, <1>5 DEF Missed
  <2> QED
    BY <1>1, <1>3, <1>4, <1>5, <2>1, ExtendedOnce DEF Inv
<1> DEFINE next == Down(l, new, row)
<1>6. CASE Onward(l, next)
  BY <1>1, <1>2, <1>5, <1>6, OnwardStays
<1>7. CASE /\ Len(l.key) > 1 /\ next.at = "find" /\ next.system = l.system
           /\ next.phase = l.phase /\ next.group = l.group /\ next.ids = l.ids
  <2>1. call'[c] = next
    BY <1>2 DEF Steps, Inv, CallsOK
  <2> HIDE DEF next
  <2>2. part.type \in Direct
    <3>1. ASSUME NEW type \in Direct, TopKey(l, type)
          PROVE  FALSE
      BY <1>7, <3>1 DEF TopKey
    <3>2. ASSUME NEW pair \in Nested, LastKey(entity, l, pair[1], pair[2])
          PROVE  FALSE
      BY <1>7, <3>2 DEF LastKey
    <3>3. PICK pair \in Nested : WholeKey(l, pair[1], pair[2])
      BY <1>1, <3>1, <3>2 DEF Searching
    <3>4. PICK first, name : l.key = <<Part(first, pair[1]), Part(name, pair[2])>>
      BY <3>3 DEF WholeKey
    <3> QED
      BY <3>4 DEF Part, Nested, Direct
  <2>3. ASSUME Missed(entity, l)
        PROVE  Missed(entity', next)
    <3> DEFINE group == Part(l.group, "PARITY_GROUP")
    <3>1. group.type = "PARITY_GROUP"
      BY DEF Part
    <3>2. l.phase = "group" => NoneSuch(entity, l, group)
      BY <1>1, <2>3 DEF Missed
    <3> HIDE DEF group
    <3>3. \A e \in DOMAIN entity :
             InSystem(entity', e, l.system) <=> InSystem(entity, e, l.system)
      BY <1>1, <1>3, <1>4, ExtendedKeeps DEF Inv
    <3>4. ASSUME l.phase = "group", NEW e \in DOMAIN entity',
                 InSystem(entity', e, l.system), entity'[e].type = group.type,
                 entity'[e].name = group.name
          PROVE  FALSE
      <4>1. e # made
        BY <1>3, <2>2, <3>1, <3>4 DEF Extended, Direct
      <4>2. e \in DOMAIN entity /\ entity'[e] = entity[e]
        BY <1>3, <3>4, <4>1 DEF Extended
      <4> QED
        BY <3>1, <3>2, <3>3, <3>4, <4>2 DEF NoneSuch
    <3>5. l.phase = "group" => NoneSuch(entity', next, group)
      BY <1>7, <3>4 DEF NoneSuch
    <3> QED
      BY <1>7, <3>5 DEF Missed, group
  <2> QED
    BY <1>5, <1>7, <2>1, <2>3 DEF Stays
<1> QED
  BY <1>1, <1>6, <1>7, DownOnward

LEMMA CallStays ==
  ASSUME Inv, NEW c \in Call, CallStep(c)
  PROVE  Stays(c)
BY FindPartStays, InsertStays, RequestsStay, RetiresStay, PoolIdsStays, FindGroupStays,
   RegroupStays DEF CallStep


\* What is true of the calls of a system that are alone.
LEMMA OnceInit == Init => OnceInv
BY DeviceMapAssumption DEF Init, OnceInv, OneAtATime, OneEntityPerName, Busy, At, Idle

LEMMA OnceStep == Inv /\ OnceInv /\ [Next]_vars => OnceInv'
<1> SUFFICES ASSUME Inv, OnceInv, [Next]_vars PROVE OnceInv'
  OBVIOUS
<1> USE DEF Busy, At
<1>1. ASSUME NEW c \in Call, CallStep(c)
      PROVE  OnceInv'
  <2> DEFINE s == call[c].system
  <2>1. /\ Goes(c) /\ TableStep(s) /\ Stays(c)
        /\ \A d \in Call : d # c => call'[d] = call[d]
    BY <1>1, CallGoes, CallStays, OneCallSteps DEF Goes
  <2>2. overlapped' = overlapped
    BY <1>1 DEF CallStep, FindPart, Insert, GetStatus, GetPoolInfo, RetirePools, Revive,
       RetireGroups, PoolIds, FindGroup, Regroup, GetChbInfo, PairsFail, GetHosts, RetireHosts,
       Reads, Writes, history
  <2>3. call[c].at # "idle" /\ s \in System
    BY <1>1, CallAt DEF CallStep, FindPart, Insert, GetStatus, GetPoolInfo, RetirePools,
       Revive, RetireGroups, PoolIds, FindGroup, Regroup, GetChbInfo, PairsFail,
       GetHosts, RetireHosts
  <2>4. call'[c].at # "idle" => call'[c].system = s
    BY <2>1 DEF Stays, Idle
  <2>5. OneAtATime'
    BY <2>1, <2>2, <2>3, <2>4 DEF OnceInv, OneAtATime
  <2>6. ASSUME s \notin overlapped
        PROVE  /\ EachOnce(entity', s)
               /\ Missed(entity', call'[c])
    BY <2>1, <2>3, <2>6 DEF Stays, OnceInv, OneEntityPerName
  <2>7. OneEntityPerName'
    <3>1. ASSUME NEW r \in System \ overlapped, r # s
          PROVE  EachOnce(entity', r)
      BY <2>1, <2>3, <3>1, ElsewhereSame, SameOnce DEF OnceInv, OneEntityPerName
    <3> QED
      BY <2>2, <2>6, <3>1 DEF OneEntityPerName
  <2>8. ASSUME NEW d \in Call, call'[d].at # "idle", call'[d].system \notin overlapped
        PROVE  Missed(entity', call'[d])
    <3>1. CASE d = c
      BY <2>4, <2>6, <2>8, <3>1
    <3>2. CASE d # c
      <4>1. call'[d] = call[d]
        BY <2>1, <3>2
      <4>2. call[d].system # s
        BY <2>3, <2>8, <3>2, <4>1 DEF OnceInv, OneAtATime
      <4>3. Missed(entity, call[d])
        BY <2>8, <4>1 DEF OnceInv
      <4>4. call[d].system \in System
        BY <2>8, <4>1 DEF Inv, CallsOK, CallOK, Typed, Idle
      <4> QED
        BY <2>1, <2>3, <4>1, <4>2, <4>3, <4>4, ElsewhereSame, SameMissed
    <3> QED
      BY <3>1, <3>2
  <2> QED
    BY <2>2, <2>5, <2>7, <2>8 DEF OnceInv
<1>2. ASSUME NEW c \in Call, AtStart(c) \/ Updated(c)
      PROVE  OnceInv'
  <2>1. PICK s \in System : Starts(c, s)
    BY <1>2 DEF AtStart, Updated
  <2>2. /\ entity' = entity
        /\ \A d \in Call : call'[d] = IF d = c THEN NewCall(s) ELSE call[d]
        /\ overlapped' = overlapped \cup
              {t \in {s} : \E d \in Call : call[d].at # "idle" /\ call[d].system = s}
        /\ NewCall(s).system = s /\ NewCall(s).at = "status"
    BY <2>1, NewCallOK DEF Starts, Steps, Inv, CallsOK, tables
  <2> DEFINE new == NewCall(s)
  <2> HIDE DEF new
  <2>3. \A d \in Call : call[d].at # "idle" /\ call[d].system = s => s \in overlapped'
    BY <2>2
  <2>4. overlapped \subseteq overlapped'
    BY <2>2
  <2>5. OneAtATime'
    BY <2>2, <2>3, <2>4 DEF OnceInv, OneAtATime
  <2>6. OneEntityPerName'
    BY <2>2, <2>4 DEF OnceInv, OneEntityPerName
  <2>7. Missed(entity, NewCall(s))
    BY <2>2 DEF Missed
  <2>8. \A d \in Call : call'[d].at # "idle" /\ call'[d].system \notin overlapped'
                       => Missed(entity', call'[d])
    BY <2>2, <2>4, <2>7 DEF OnceInv
  <2> QED
    BY <2>5, <2>6, <2>8 DEF OnceInv
<1>3. CASE Crash
  <2>1. /\ entity' = entity /\ overlapped' = overlapped
        /\ \A c \in Call : call'[c].at = "idle"
    BY <1>3 DEF Crash, Idle, tables, history
  <2> QED
    BY <2>1 DEF OnceInv, OneAtATime, OneEntityPerName
<1>4. CASE Subscribe \/ ReportChanges \/ UNCHANGED vars
  <2>1. entity' = entity /\ overlapped' = overlapped /\ call' = call
    BY <1>4 DEF Subscribe, ReportChanges, vars, tables, history
  <2> QED
    BY <2>1 DEF OnceInv, OneAtATime, OneEntityPerName
<1> QED
  BY <1>1, <1>2, <1>3, <1>4 DEF Next

\* A system that no two calls have updated at a time has each pool, host group and
\* pair once, and each parity group once in all its pools, after any number of calls,
\* reports that change, groups that move and ends of the process.
THEOREM OnePerName == Spec => []OneEntityPerName
<1>1. Inv /\ OnceInv /\ [Next]_vars => OnceInv'
  BY OnceStep
<1>2. OnceInv => OneEntityPerName
  BY DEF OnceInv
<1> QED
  BY <1>1, <1>2, OnceInit, Invariance, PTL DEF Spec


-----------------------------------------------------------------------------
(* Types.                                                                  *)

LEMMA CallTypes ==
  ASSUME Inv, TypeOK, NEW c \in Call, CallStep(c)
  PROVE  TypeOK'
<1>1. /\ Goes(c) /\ Stays(c)
      /\ \A d \in Call : d # c => call'[d] = call[d]
  BY CallGoes, CallStays, OneCallSteps
<1>2. Inv'
  BY StepOK DEF Next
<1>3. UNCHANGED <<report, starting, bounds, overlapped, quiet>>
  BY DEF CallStep, FindPart, Insert, GetStatus, GetPoolInfo, RetirePools, Revive,
     RetireGroups, PoolIds, FindGroup, Regroup, GetChbInfo, PairsFail, GetHosts, RetireHosts,
     Reads, Writes, history
<1>4. /\ DOMAIN entity' \subseteq 1..MaxId
      /\ DOMAIN entity \subseteq DOMAIN entity'
  <2>1. CASE Insert(c)
    <3> DEFINE new == Cardinality(DOMAIN entity) + 1
               row == Row(Head(call[c].key).name, Head(call[c].key).type,
                          call[c].under, 0, "ACTIVE")
    <3>1. entity' = WithRow(entity, new, row)
      BY <2>1 DEF Insert
    <3>2. new \in 1..MaxId
      <4>1. PICK n \in Nat : DOMAIN entity = 1..n
        BY DEF Inv, Rows
      <4>2. new = n + 1
        <5>1. Cardinality(1..n) = n
          BY FS_Interval
        <5> QED
          BY <4>1, <5>1
      <4>3. new <= MaxId
        BY <2>1 DEF Insert
      <4> HIDE DEF new
      <4>4. MaxId \in Nat
        BY DeviceMapAssumption
      <4> QED
        BY <4>2, <4>3, <4>4
    <3> HIDE DEF new, row
    <3>3. DOMAIN entity' = DOMAIN entity \cup {new}
      BY <3>1 DEF WithRow
    <3> QED
      BY <3>2, <3>3 DEF TypeOK
  <2>2. CASE ~Insert(c)
    <3>1. DOMAIN entity' = DOMAIN entity
      BY <2>2, ReadRetouches, RetiresGo, ReviveGoes, RegroupGoes
         DEF CallStep, FindPart, GetStatus, GetPoolInfo, PoolIds, FindGroup, GetChbInfo, PairsFail,
             GetHosts, Retouched, Moved
    <3> QED
      BY <3>1 DEF TypeOK
  <2> QED
    BY <2>1, <2>2
<1>5. ASSUME NEW d \in Call, Busy(d)'
      PROVE  call'[d].system \in System /\ call'[d].ids \subseteq DOMAIN entity'
  <2>1. call'[d].system \in System
    BY <1>2, <1>5 DEF Inv, CallsOK, CallOK, Typed, Busy, At, Idle
  <2>2. call[c].ids \subseteq DOMAIN entity
    BY CallAt DEF TypeOK, Busy, At, CallStep, FindPart, Insert, GetStatus, GetPoolInfo,
       RetirePools, Revive, RetireGroups, PoolIds, FindGroup, Regroup, GetChbInfo, PairsFail,
       GetHosts, RetireHosts
  <2>3. CASE d = c
    <3>1. call'[c] # Idle
      BY <1>5, <2>3 DEF Busy, At, Idle
    <3>2. call'[c].ids = call[c].ids \/ call'[c].ids \subseteq DOMAIN entity
      BY <1>1, <3>1, Zenon DEF Stays
    <3> QED
      BY <1>4, <2>1, <2>2, <2>3, <3>2
  <2>4. CASE d # c
    BY <1>1, <1>4, <1>5, <2>4 DEF TypeOK, Busy, At
  <2> QED
    BY <2>1, <2>3, <2>4
<1>6. /\ closure' \subseteq (DOMAIN entity') \X (DOMAIN entity')
      /\ moved' \subseteq DOMAIN entity'
  BY <1>2 DEF Inv, Linked
<1> QED
  BY <1>3, <1>4, <1>5, <1>6 DEF TypeOK, bounds

\* The variables keep their types, and the bounds hold.
THEOREM TypeCorrect == Spec => []TypeOK
<1>1. Init => TypeOK
  <2> SUFFICES ASSUME Init PROVE TypeOK
    OBVIOUS
  <2>1. DOMAIN entity \subseteq 1..MaxId
    BY DeviceMapAssumption DEF Init
  <2>2. closure \subseteq (DOMAIN entity) \X (DOMAIN entity)
    BY InitOK DEF Inv, Linked
  <2> QED
    BY <2>1, <2>2, DeviceMapAssumption DEF Init, TypeOK, Busy, At, Idle
<1>2. Inv /\ TypeOK /\ [Next]_vars => TypeOK'
  <2> SUFFICES ASSUME Inv, TypeOK, [Next]_vars PROVE TypeOK'
    OBVIOUS
  <2>1. ASSUME NEW c \in Call, AtStart(c) \/ Updated(c)
        PROVE  TypeOK'
    <3>1. PICK s \in System : Starts(c, s)
      BY <2>1 DEF AtStart, Updated
    <3>2. /\ UNCHANGED <<entity, closure, report, changes, crashes, moved, starting>>
          /\ calls < MaxCalls /\ calls' = calls + 1
          /\ quiet' \in {{}, {c}} /\ overlapped' \subseteq overlapped \cup {s}
      BY <2>1, <3>1 DEF Starts, AtStart, Updated, tables
    <3>3. \A d \in Call : call'[d] = IF d = c THEN NewCall(s) ELSE call[d]
      BY <3>1 DEF Starts, Steps, Inv, CallsOK
    <3>4. NewCall(s).ids = {} /\ NewCall(s).system = s
      BY DEF NewCall
    <3>5. calls' \in 0..MaxCalls
      BY <3>2, DeviceMapAssumption DEF TypeOK
    <3>6. quiet' \subseteq Call /\ overlapped' \subseteq System
      BY <3>2 DEF TypeOK
    <3>7. \A d \in Call : call'[d].at # "idle" => /\ call'[d].system \in System
                                                  /\ call'[d].ids \subseteq DOMAIN entity'
      BY <3>2, <3>3, <3>4 DEF TypeOK, Busy, At
    <3> QED
      BY <3>2, <3>5, <3>6, <3>7 DEF TypeOK, Busy, At
  <2>2. CASE Crash
    <3>1. crashes' \in 0..MaxCrashes
      BY <2>2, DeviceMapAssumption DEF Crash, TypeOK
    <3> QED
      BY <2>2, <3>1 DEF Crash, TypeOK, Busy, At, Idle, tables, history
  <2>3. CASE ReportChanges
    <3>1. changes' \in 0..MaxChanges
      BY <2>3, DeviceMapAssumption DEF ReportChanges, TypeOK
    <3>2. \A s \in System : report'[s] \in Report[s]
      BY <2>3 DEF ReportChanges, TypeOK, Inv, ReportOK
    <3> QED
      BY <2>3, <3>1, <3>2 DEF ReportChanges, TypeOK, Busy, At, tables, history
  <2>4. CASE Subscribe \/ UNCHANGED vars
    BY <2>4 DEF Subscribe, vars, tables, history, bounds, TypeOK, Busy, At
  <2> QED
    BY <2>1, <2>2, <2>3, <2>4, CallTypes DEF Next
<1> QED
  BY <1>1, <1>2, Invariance, PTL DEF Spec

-----------------------------------------------------------------------------
(* A call beside which no other runs.                                      *)

\* What a report lists.
PoolNames(r) == {p.name : p \in ToSet(r.pools)}
Numbers(r) == {p.id : p \in ToSet(r.pools)}

\* The active parts of a type: those of these names only, one of the name, and
\* a parity group below a pool.
ActivePart(table, e, type, s) ==
    PartOf(table, e, type, s) /\ table[e].status = "ACTIVE"
OnlyThese(table, s, type, names) ==
    \A e : ActivePart(table, e, type, s) => table[e].name \in names
Present(table, s, type, name) ==
    \E e : ActivePart(table, e, type, s) /\ table[e].name = name
GroupAt(table, e, name) ==
    \E f \in DOMAIN table : /\ table[f].type = "PARITY_GROUP" /\ table[f].parent = e
                            /\ table[f].status = "ACTIVE" /\ table[f].name = name

\* A pool of the report is there, and its groups where once says that no two
\* calls of the system have met.
IsPool(table, s, e, p) ==
    ActivePart(table, e, "POOL", s) /\ table[e].name = p.name
Mirrored(table, s, r, once, p) ==
    \E e \in DOMAIN table :
       /\ IsPool(table, s, e, p)
       /\ once => /\ table[e].number = p.id
                  /\ (e \in Numbers(r) \/ \A g \in ToSet(p.groups) : GroupAt(table, e, g))

\* Where a call is: at the groups of a pool, at the pool or before it is found, at
\* the host groups, or past the pools.
InGroups(l) == \/ l.at \in {"poolIds", "group", "regroup"}
               \/ (l.at \in {"find", "insert"} /\ l.phase = "group")
AtItsPool(l) == InGroups(l) \/ l.at = "retireGroups"
InPools(l) == AtItsPool(l) \/ (l.at \in {"find", "insert", "revive"} /\ l.phase = "pool")
InHosts(l) == l.at \in {"find", "insert", "revive"} /\ l.phase = "host"
PastPools(l) == \/ l.at \in {"chbInfo", "hosts", "retireHosts"} \/ InHosts(l)
                \/ l.at \in {"find", "insert"} /\ l.phase = "pair"

\* What is left to do of the groups of the pool, of the pools and of the host
\* groups, and what is done.
GroupsGoOn(table, l, r, once) ==
    /\ ToSet(l.groups) \subseteq ToSet(l.pool.groups) /\ l.group \in ToSet(l.pool.groups)
    /\ once /\ l.id \notin Numbers(r)
       => \A g \in ToSet(l.pool.groups) :
             g \in ToSet(l.groups) \/ g = l.group \/ GroupAt(table, l.id, g)
    /\ l.at = "regroup" => table[l.under].name = l.group
    /\ l.at \in {"find", "insert"}
       => \/ Len(l.key) = 2 /\ Head(l.key) = Part(l.pool.name, "POOL")
          \/ Len(l.key) = 1 /\ (once => l.under = l.id)

PoolsGoOn(table, l, r, once) ==
    /\ ToSet(l.pools) \subseteq ToSet(r.pools) /\ l.pool \in ToSet(r.pools)
    /\ \A p \in ToSet(r.pools) :
          p \in ToSet(l.pools) \/ p = l.pool \/ Mirrored(table, l.system, r, once, p)
    /\ l.at \in {"find", "insert"} /\ l.phase = "pool"
       => Head(l.key) = Part(l.pool.name, "POOL")
    /\ l.at = "revive" => table[l.id].name = l.pool.name
    /\ AtItsPool(l) => /\ IsPool(table, l.system, l.id, l.pool)
                       /\ table[l.id].number = l.pool.id
    /\ InGroups(l) => GroupsGoOn(table, l, r, once)

HostsGoOn(table, l, r) ==
    /\ OnlyThese(table, l.system, "HOST_GROUP", ToSet(r.hosts))
    /\ ToSet(l.hosts) \subseteq ToSet(r.hosts)
    /\ \E h \in ToSet(r.hosts) :
          /\ IF l.at = "revive" THEN table[l.id].name = h
             ELSE Head(l.key) = Part(h, "HOST_GROUP")
          /\ \A g \in ToSet(r.hosts) :
                g \in ToSet(l.hosts) \/ g = h \/ Present(table, l.system, "HOST_GROUP", g)

\* How far the table is as the report r says, for a call that stands at l.
Mirrors(table, l, r, once) ==
    /\ l.at = "retirePools" => l.pools = r.pools
    /\ InPools(l) \/ PastPools(l) => OnlyThese(table, l.system, "POOL", PoolNames(r))
    /\ InPools(l) => PoolsGoOn(table, l, r, once)
    /\ PastPools(l) => \A p \in ToSet(r.pools) : Mirrored(table, l.system, r, once, p)
    /\ l.at = "retireHosts" => l.hosts = r.hosts
    /\ InHosts(l) => HostsGoOn(table, l, r)

\* An entity is active or not.
StatusOK == \A e \in DOMAIN entity : entity[e].status \in {"ACTIVE", "INACTIVE"}

\* Where a call stands after a step of it.
DoneMirrors(table, s, r, once) ==
    /\ OnlyThese(table, s, "POOL", PoolNames(r))
    /\ OnlyThese(table, s, "HOST_GROUP", ToSet(r.hosts))
    /\ \A p \in ToSet(r.pools) : Mirrored(table, s, r, once, p)
    /\ \A h \in ToSet(r.hosts) : Present(table, s, "HOST_GROUP", h)
Proceeds(table, next, s, r, once) ==
    \/ next = Idle /\ DoneMirrors(table, s, r, once)
    \/ next.at # "idle" /\ next.system = s /\ Mirrors(table, next, r, once)

\* The pools are as the report says.
PoolsDone(table, s, r, once) ==
    /\ OnlyThese(table, s, "POOL", PoolNames(r))
    /\ \A p \in ToSet(r.pools) : Mirrored(table, s, r, once, p)

\* No name and no parity group belongs to two pools.
Apart(r) == \A p, q \in ToSet(r.pools) :
               p # q => p.name # q.name /\ ToSet(p.groups) \cap ToSet(q.groups) = {}

\* The rows that make a pool mirrored stay.
Spares(t, u, s, r, p) ==
    /\ DOMAIN t \subseteq DOMAIN u
    /\ \A e \in DOMAIN t :
          \/ PartOf(t, e, "POOL", s) /\ t[e].name = p.name
          \/ /\ t[e].type = "PARITY_GROUP" /\ t[e].name \in ToSet(p.groups)
             /\ t[e].parent \notin Numbers(r)
          => u[e] = t[e]

\* The elements of sequences.
LEMMA NoElements == ToSet(<<>>) = {}
BY DEF ToSet

LEMMA ElementsAre ==
  ASSUME NEW S, NEW seq \in Seq(S), seq # <<>>
  PROVE  /\ Head(seq) \in ToSet(seq) /\ ToSet(Tail(seq)) \subseteq ToSet(seq)
         /\ \A x \in ToSet(seq) : x = Head(seq) \/ x \in ToSet(Tail(seq))
<1>1. Len(seq) \in Nat \ {0} /\ DOMAIN seq = 1..Len(seq)
  OBVIOUS
<1>2. /\ Tail(seq) \in Seq(S) /\ Len(Tail(seq)) = Len(seq) - 1
      /\ \A i \in 1 .. Len(seq) - 1 : Tail(seq)[i] = seq[i + 1]
  OBVIOUS
<1>3. DOMAIN Tail(seq) = 1 .. Len(seq) - 1
  BY <1>2
<1>4. Head(seq) = seq[1]
  OBVIOUS
<1>5. Head(seq) \in ToSet(seq)
  BY <1>1, <1>4 DEF ToSet
<1>6. ASSUME NEW x \in ToSet(Tail(seq))
      PROVE  x \in ToSet(seq)
  <2>1. PICK i \in 1 .. Len(seq) - 1 : x = Tail(seq)[i]
    BY <1>3 DEF ToSet
  <2>2. i + 1 \in 1..Len(seq) /\ x = seq[i + 1]
    BY <1>1, <1>2, <2>1
  <2> QED
    BY <1>1, <2>2 DEF ToSet
<1>7. ASSUME NEW x \in ToSet(seq)
      PROVE  x = Head(seq) \/ x \in ToSet(Tail(seq))
  <2>1. PICK i \in 1..Len(seq) : x = seq[i]
    BY <1>1 DEF ToSet
  <2>2. CASE i = 1
    BY <1>4, <2>1, <2>2
  <2>3. CASE i # 1
    <3>1. i - 1 \in 1 .. Len(seq) - 1 /\ x = Tail(seq)[i - 1]
      BY <1>1, <1>2, <2>1, <2>3
    <3> QED
      BY <1>3, <3>1 DEF ToSet
  <2> QED
    BY <2>2, <2>3
<1> QED
  BY <1>5, <1>6, <1>7

\* A pool stays mirrored where a step spares its rows.
LEMMA MirroredStays ==
  ASSUME NEW t, NEW u, NEW s, NEW r, NEW once, NEW p, Spares(t, u, s, r, p),
         Mirrored(t, s, r, once, p)
  PROVE  Mirrored(u, s, r, once, p)
<1>1. PICK e \in DOMAIN t :
        /\ IsPool(t, s, e, p)
        /\ once => /\ t[e].number = p.id
                   /\ (e \in Numbers(r) \/ \A g \in ToSet(p.groups) : GroupAt(t, e, g))
  BY DEF Mirrored
<1>2. e \in DOMAIN u /\ u[e] = t[e]
  BY <1>1 DEF Spares, IsPool, ActivePart
<1>3. IsPool(u, s, e, p)
  BY <1>1, <1>2 DEF IsPool, ActivePart, PartOf
<1>4. ASSUME e \notin Numbers(r), NEW g \in ToSet(p.groups), GroupAt(t, e, g)
      PROVE  GroupAt(u, e, g)
  <2>1. PICK f \in DOMAIN t : /\ t[f].type = "PARITY_GROUP" /\ t[f].parent = e
                              /\ t[f].status = "ACTIVE" /\ t[f].name = g
    BY <1>4 DEF GroupAt
  <2>2. f \in DOMAIN u /\ u[f] = t[f]
    BY <1>4, <2>1 DEF Spares
  <2> QED
    BY <2>1, <2>2 DEF GroupAt
<1>5. once => /\ u[e].number = p.id
              /\ (e \in Numbers(r) \/ \A g \in ToSet(p.groups) : GroupAt(u, e, g))
  BY <1>1, <1>2, <1>4
<1> QED
  BY <1>2, <1>3, <1>5 DEF Mirrored

\* Where a call goes that has done the pools: to the next host group, or to its end.
LEMMA NextHostMirrors ==
  ASSUME NEW t, NEW l, NEW r, NEW once, Typed(l), PoolsDone(t, l.system, r, once),
         OnlyThese(t, l.system, "HOST_GROUP", ToSet(r.hosts)),
         ToSet(l.hosts) \subseteq ToSet(r.hosts),
         \A h \in ToSet(r.hosts) :
            h \in ToSet(l.hosts) \/ Present(t, l.system, "HOST_GROUP", h)
  PROVE  Proceeds(t, NextHost(l), l.system, r, once)
<1>1. CASE l.hosts # <<>>
  <2> DEFINE first == Head(l.hosts)
             rest == Tail(l.hosts)
             x == [l EXCEPT !.hosts = rest]
             key == createComponentKey(first, "", "HOST_GROUP")
             next == Fetching(x, "host", key)
  <2>1. /\ Typed(x) /\ x.system = l.system /\ x.hosts = rest
    BY <1>1 DEF Typed
  <2>2. key = <<Part(first, "HOST_GROUP")>>
    BY DirectKey
  <2>3. NextHost(l) = next
    BY <1>1 DEF NextHost
  <2>4. /\ first \in ToSet(l.hosts) /\ ToSet(rest) \subseteq ToSet(l.hosts)
        /\ \A h \in ToSet(l.hosts) : h = first \/ h \in ToSet(rest)
    BY <1>1, ElementsAre DEF Typed
  <2> HIDE DEF key, first, rest, x
  <2>5. /\ next.at = "find" /\ next.phase = "host" /\ next.key = key
        /\ next.system = l.system
    BY <2>1, FetchingSets
  <2>6. next.hosts = rest
    BY <2>1 DEF Fetching, Typed
  <2> HIDE DEF next
  <2>7. InHosts(next) /\ ~InPools(next)
    BY <2>5 DEF InHosts, InPools, AtItsPool, InGroups
  <2>8. HostsGoOn(t, next, r)
    BY <2>2, <2>4, <2>5, <2>6 DEF HostsGoOn
  <2>9. Mirrors(t, next, r, once)
    BY <2>5, <2>7, <2>8 DEF Mirrors, PoolsDone
  <2> QED
    BY <2>3, <2>5, <2>9 DEF Proceeds
<1>2. CASE l.hosts = <<>>
  <2>1. ToSet(l.hosts) = {}
    BY <1>2, NoElements
  <2> QED
    BY <1>2, <2>1 DEF NextHost, Proceeds, DoneMirrors, PoolsDone
<1> QED
  BY <1>1, <1>2

\* Or to the next pair, and then to the host groups.
LEMMA NextPairMirrors ==
  ASSUME NEW t, NEW l, NEW r, NEW once, Typed(l), PoolsDone(t, l.system, r, once)
  PROVE  Proceeds(t, NextPair(l), l.system, r, once)
<1>1. ASSUME NEW x, NEW key, Typed(x), x.system = l.system
      PROVE  Proceeds(t, Fetching(x, "pair", key), l.system, r, once)
  <2> DEFINE next == Fetching(x, "pair", key)
  <2>1. /\ next.at = "find" /\ next.phase = "pair" /\ next.system = l.system
    BY <1>1, FetchingSets
  <2> HIDE DEF next
  <2>2. Mirrors(t, next, r, once)
    BY <2>1 DEF Mirrors, PoolsDone, InHosts, InPools, AtItsPool, InGroups, PastPools
  <2> QED
    BY <2>1, <2>2 DEF Proceeds, next
<1>2. CASE l.ports # <<>>
  <2> DEFINE x == [l EXCEPT !.ports = Tail(@)]
             key == createComponentKey(l.pair, Head(l.ports), "PORT_GROUP")
  <2>1. Typed(x) /\ x.system = l.system
    BY <1>2 DEF Typed
  <2>2. NextPair(l) = Fetching(x, "pair", key)
    BY <1>2 DEF NextPair
  <2> HIDE DEF x, key
  <2> QED
    BY <1>1, <2>1, <2>2
<1>3. CASE l.ports = <<>> /\ l.pairs # <<>>
  <2> DEFINE pair == Head(l.pairs)
             rest == Tail(l.pairs)
             x == [l EXCEPT !.pairs = rest, !.pair = pair.name, !.ports = pair.ports]
             key == createComponentKey(pair.name, "", "ADAPTER_GROUP")
  <2>1. pair.ports \in Seq(Named) /\ rest \in Seq(PairInfo)
    <3>1. Head(l.pairs) \in PairInfo /\ Tail(l.pairs) \in Seq(PairInfo)
      BY <1>3 DEF Typed
    <3> QED
      BY <3>1 DEF PairInfo
  <2>2. NextPair(l) = Fetching(x, "pair", key)
    BY <1>3 DEF NextPair
  <2> HIDE DEF pair, rest
  <2>3. Typed(x) /\ x.system = l.system
    BY <2>1 DEF Typed
  <2> HIDE DEF x, key
  <2> QED
    BY <1>1, <2>2, <2>3
<1>4. CASE l.ports = <<>> /\ l.pairs = <<>>
  <2> DEFINE next == [l EXCEPT !.at = "hosts"]
  <2>1. NextPair(l) = next
    BY <1>4 DEF NextPair
  <2>2. next.at = "hosts" /\ next.system = l.system
    BY DEF Typed
  <2> HIDE DEF next
  <2>3. Mirrors(t, next, r, once)
    BY <2>2 DEF Mirrors, PoolsDone, InHosts, InPools, AtItsPool, InGroups, PastPools
  <2> QED
    BY <2>1, <2>2, <2>3 DEF Proceeds
<1> QED
  BY <1>2, <1>3, <1>4

\* To the next pool, when there are no groups left and the others are mirrored.
LEMMA NextPoolMirrors ==
  ASSUME NEW t, NEW l, NEW r, NEW once, Typed(l), l.groups = <<>>,
         OnlyThese(t, l.system, "POOL", PoolNames(r)),
         ToSet(l.pools) \subseteq ToSet(r.pools),
         \A p \in ToSet(r.pools) :
            p \in ToSet(l.pools) \/ Mirrored(t, l.system, r, once, p)
  PROVE  Proceeds(t, NextPart(l), l.system, r, once)
<1>1. CASE l.pools # <<>>
  <2> DEFINE pool == Head(l.pools)
             rest == Tail(l.pools)
             x == [l EXCEPT !.pool = pool, !.pools = rest]
             key == createComponentKey(pool.name, "", "POOL")
             next == Fetching(x, "pool", key)
  <2>1. rest \in Seq(PoolInfo)
    BY <1>1 DEF Typed
  <2>2. NextPart(l) = next
    BY <1>1 DEF NextPart
  <2>3. /\ pool \in ToSet(l.pools) /\ ToSet(rest) \subseteq ToSet(l.pools)
        /\ \A p \in ToSet(l.pools) : p = pool \/ p \in ToSet(rest)
    BY <1>1, ElementsAre DEF Typed
  <2>4. key = <<Part(pool.name, "POOL")>>
    BY DirectKey
  <2> HIDE DEF key, pool, rest
  <2>5. Typed(x) /\ x.pool = pool /\ x.pools = rest /\ x.system = l.system
    BY <2>1 DEF Typed
  <2> HIDE DEF x
  <2>6. /\ next.at = "find" /\ next.phase = "pool" /\ next.key = key
        /\ next.system = l.system /\ next.pool = pool
    BY <2>5, FetchingSets
  <2>7. next.pools = rest
    BY <2>5 DEF Fetching, Typed
  <2> HIDE DEF next
  <2>8. InPools(next) /\ ~AtItsPool(next) /\ ~InGroups(next) /\ ~PastPools(next)
    BY <2>6 DEF InHosts, InPools, AtItsPool, InGroups, PastPools
  <2>9. PoolsGoOn(t, next, r, once)
    BY <2>3, <2>4, <2>6, <2>7, <2>8 DEF PoolsGoOn
  <2>10. Mirrors(t, next, r, once)
    BY <2>6, <2>8, <2>9 DEF Mirrors, PastPools
  <2> QED
    BY <2>2, <2>6, <2>10 DEF Proceeds
<1>2. CASE l.pools = <<>>
  <2> DEFINE next == [l EXCEPT !.at = "chbInfo", !.pool = 0, !.id = 0, !.ids = {}]
  <2>1. NextPart(l) = next
    BY <1>2 DEF NextPart
  <2>2. next.at = "chbInfo" /\ next.system = l.system
    BY DEF Typed
  <2>3. ToSet(l.pools) = {}
    BY <1>2, NoElements
  <2> HIDE DEF next
  <2>4. Mirrors(t, next, r, once)
    BY <2>2, <2>3 DEF Mirrors, InHosts, InPools, AtItsPool, InGroups, PastPools
  <2> QED
    BY <2>1, <2>2, <2>4 DEF Proceeds
<1> QED
  BY <1>1, <1>2

\* To the next group of the pool, or to the next pool.
LEMMA NextPartMirrors ==
  ASSUME NEW t, NEW l, NEW r, NEW once, Typed(l),
         OnlyThese(t, l.system, "POOL", PoolNames(r)),
         ToSet(l.pools) \subseteq ToSet(r.pools), l.pool \in ToSet(r.pools),
         \A p \in ToSet(r.pools) :
            p \in ToSet(l.pools) \/ p = l.pool \/ Mirrored(t, l.system, r, once, p),
         IsPool(t, l.system, l.id, l.pool), t[l.id].number = l.pool.id,
         ToSet(l.groups) \subseteq ToSet(l.pool.groups),
         once /\ l.id \notin Numbers(r)
         => \A g \in ToSet(l.pool.groups) : g \in ToSet(l.groups) \/ GroupAt(t, l.id, g)
  PROVE  Proceeds(t, NextPart(l), l.system, r, once)
<1>1. CASE l.groups # <<>>
  <2> DEFINE group == Head(l.groups)
             rest == Tail(l.groups)
             next == [l EXCEPT !.at = "poolIds", !.group = group, !.groups = rest]
  <2>1. NextPart(l) = next
    BY <1>1 DEF NextPart
  <2>2. /\ group \in ToSet(l.groups) /\ ToSet(rest) \subseteq ToSet(l.groups)
        /\ \A g \in ToSet(l.groups) : g = group \/ g \in ToSet(rest)
    BY <1>1, ElementsAre DEF Typed
  <2> HIDE DEF group, rest
  <2>3. /\ next.at = "poolIds" /\ next.group = group /\ next.groups = rest
        /\ next.pool = l.pool /\ next.id = l.id /\ next.system = l.system
        /\ next.pools = l.pools
    BY DEF Typed
  <2> HIDE DEF next
  <2>4. InGroups(next) /\ AtItsPool(next) /\ InPools(next) /\ ~PastPools(next)
    BY <2>3 DEF InHosts, InPools, AtItsPool, InGroups, PastPools
  <2>5. GroupsGoOn(t, next, r, once)
    BY <2>2, <2>3 DEF GroupsGoOn
  <2>6. PoolsGoOn(t, next, r, once)
    BY <2>3, <2>5 DEF PoolsGoOn
  <2>7. Mirrors(t, next, r, once)
    BY <2>3, <2>4, <2>6 DEF Mirrors, PastPools
  <2> QED
    BY <2>1, <2>3, <2>7 DEF Proceeds
<1>2. CASE l.groups = <<>>
  <2>1. ToSet(l.groups) = {}
    BY <1>2, NoElements
  <2>2. l.id \in DOMAIN t
    BY DEF IsPool, ActivePart, PartOf
  <2>3. Mirrored(t, l.system, r, once, l.pool)
    BY <2>1, <2>2 DEF Mirrored
  <2> QED
    BY <1>2, <2>3, NextPoolMirrors
<1> QED
  BY <1>1, <1>2

\* A call that has found the pool it looks for.
LEMMA FoundPoolMirrors ==
  ASSUME NEW t, NEW l, NEW r, NEW once, Typed(l), l.at \in {"find", "insert"},
         l.phase = "pool", Mirrors(t, l, r, once),
         NEW e, PartOf(t, e, "POOL", l.system), t[e].name = l.pool.name,
         t[e].status \in {"ACTIVE", "INACTIVE"}
  PROVE  Proceeds(t, Found(l, e, t[e]), l.system, r, once)
<1> DEFINE outdated == t[e].status = "INACTIVE" \/ t[e].number # l.pool.id
<1>1. InPools(l) /\ ~AtItsPool(l) /\ ~PastPools(l)
  BY DEF InHosts, InPools, AtItsPool, InGroups, PastPools
<1>2. OnlyThese(t, l.system, "POOL", PoolNames(r)) /\ PoolsGoOn(t, l, r, once)
  BY <1>1 DEF Mirrors
<1>3. ASSUME NEW at \in {"revive", "retireGroups"}, at = "retireGroups" => ~outdated
      PROVE  Proceeds(t, [l EXCEPT !.at = at, !.id = e], l.system, r, once)
  <2> DEFINE next == [l EXCEPT !.at = at, !.id = e]
  <2>1. /\ next.at = at /\ next.phase = "pool" /\ next.id = e /\ next.system = l.system
        /\ next.pool = l.pool /\ next.pools = l.pools
    BY DEF Typed
  <2> HIDE DEF next
  <2>2. InPools(next) /\ ~InGroups(next) /\ ~PastPools(next)
        /\ (AtItsPool(next) => at = "retireGroups")
    BY <2>1 DEF InHosts, InPools, AtItsPool, InGroups, PastPools
  <2>3. at = "retireGroups" => IsPool(t, l.system, e, l.pool) /\ t[e].number = l.pool.id
    BY <1>3 DEF IsPool, ActivePart
  <2>4. PoolsGoOn(t, next, r, once)
    BY <1>2, <2>1, <2>2, <2>3 DEF PoolsGoOn
  <2>5. Mirrors(t, next, r, once)
    BY <1>2, <2>1, <2>2, <2>4 DEF Mirrors, PastPools
  <2> QED
    BY <2>1, <2>5 DEF Proceeds, next
<1>4. CASE outdated
  <2>1. Found(l, e, t[e]) = [l EXCEPT !.at = "revive", !.id = e]
    BY <1>4 DEF Found
  <2> QED
    BY <1>3, <2>1
<1>5. CASE ~outdated
  <2>1. Found(l, e, t[e]) = [l EXCEPT !.at = "retireGroups", !.id = e]
    BY <1>5 DEF Found
  <2> QED
    BY <1>3, <1>5, <2>1
<1> QED
  BY <1>4, <1>5

\* A call that has found the host group it looks for.
LEMMA FoundHostMirrors ==
  ASSUME NEW t, NEW l, NEW r, NEW once, Typed(l), l.at \in {"find", "insert"},
         l.phase = "host", Mirrors(t, l, r, once),
         NEW e, PartOf(t, e, "HOST_GROUP", l.system), t[e].name = Head(l.key).name,
         t[e].status \in {"ACTIVE", "INACTIVE"}
  PROVE  Proceeds(t, Found(l, e, t[e]), l.system, r, once)
<1>1. InHosts(l) /\ PastPools(l)
  BY DEF InHosts, PastPools
<1>2. PoolsDone(t, l.system, r, once) /\ HostsGoOn(t, l, r)
  BY <1>1 DEF Mirrors, PoolsDone
<1>3. PICK h \in ToSet(r.hosts) :
        /\ Head(l.key) = Part(h, "HOST_GROUP")
        /\ \A g \in ToSet(r.hosts) :
              g \in ToSet(l.hosts) \/ g = h \/ Present(t, l.system, "HOST_GROUP", g)
  BY <1>2 DEF HostsGoOn
<1>4. t[e].name = h
  BY <1>3 DEF Part
<1>5. CASE t[e].status = "INACTIVE"
  <2> DEFINE next == [l EXCEPT !.at = "revive", !.id = e]
  <2>1. Found(l, e, t[e]) = next
    BY <1>5 DEF Found
  <2>2. /\ next.at = "revive" /\ next.phase = "host" /\ next.id = e
        /\ next.system = l.system /\ next.hosts = l.hosts
    BY DEF Typed
  <2> HIDE DEF next
  <2>3. HostsGoOn(t, next, r)
    BY <1>2, <1>3, <1>4, <2>2 DEF HostsGoOn
  <2>4. Mirrors(t, next, r, once)
    BY <1>2, <2>2, <2>3
       DEF Mirrors, PoolsDone, InHosts, InPools, AtItsPool, InGroups, PastPools
  <2> QED
    BY <2>1, <2>2, <2>4 DEF Proceeds
<1>6. CASE t[e].status = "ACTIVE"
  <2>1. Found(l, e, t[e]) = NextHost(l)
    BY <1>6 DEF Found
  <2>2. Present(t, l.system, "HOST_GROUP", h)
    BY <1>4, <1>6 DEF Present, ActivePart
  <2>3. /\ OnlyThese(t, l.system, "HOST_GROUP", ToSet(r.hosts))
        /\ ToSet(l.hosts) \subseteq ToSet(r.hosts)
    BY <1>2 DEF HostsGoOn
  <2>4. \A g \in ToSet(r.hosts) :
           g \in ToSet(l.hosts) \/ Present(t, l.system, "HOST_GROUP", g)
    BY <1>3, <2>2
  <2> QED
    BY <1>2, <2>1, <2>3, <2>4, NextHostMirrors
<1> QED
  BY <1>5, <1>6

\* The pool that the group phase is at.
AtGroups(t, l, r, once) ==
    /\ OnlyThese(t, l.system, "POOL", PoolNames(r))
    /\ ToSet(l.pools) \subseteq ToSet(r.pools) /\ l.pool \in ToSet(r.pools)
    /\ \A p \in ToSet(r.pools) :
          p \in ToSet(l.pools) \/ p = l.pool \/ Mirrored(t, l.system, r, once, p)
    /\ IsPool(t, l.system, l.id, l.pool) /\ t[l.id].number = l.pool.id
    /\ ToSet(l.groups) \subseteq ToSet(l.pool.groups) /\ l.group \in ToSet(l.pool.groups)
    /\ once /\ l.id \notin Numbers(r)
       => \A g \in ToSet(l.pool.groups) :
             g \in ToSet(l.groups) \/ g = l.group \/ GroupAt(t, l.id, g)

\* What Mirrors says of a call that is at the groups of a pool.
LEMMA InGroupsMirrors ==
  ASSUME NEW t, NEW l, NEW r, NEW once, InGroups(l)
  PROVE  Mirrors(t, l, r, once)
         <=> /\ AtGroups(t, l, r, once)
             /\ l.at = "regroup" => t[l.under].name = l.group
             /\ l.at \in {"find", "insert"}
                => \/ Len(l.key) = 2 /\ Head(l.key) = Part(l.pool.name, "POOL")
                   \/ Len(l.key) = 1 /\ (once => l.under = l.id)
<1>1. /\ AtItsPool(l) /\ InPools(l) /\ ~PastPools(l)
      /\ l.at \notin {"retirePools", "retireHosts", "revive"}
      /\ (l.at \in {"find", "insert"} => l.phase # "pool") /\ ~InHosts(l)
  BY DEF InHosts, InPools, AtItsPool, InGroups, PastPools
<1>2. Mirrors(t, l, r, once) <=> /\ OnlyThese(t, l.system, "POOL", PoolNames(r))
                                 /\ PoolsGoOn(t, l, r, once)
  BY <1>1 DEF Mirrors
<1>3. PoolsGoOn(t, l, r, once)
      <=> /\ ToSet(l.pools) \subseteq ToSet(r.pools) /\ l.pool \in ToSet(r.pools)
          /\ \A p \in ToSet(r.pools) :
                p \in ToSet(l.pools) \/ p = l.pool \/ Mirrored(t, l.system, r, once, p)
          /\ IsPool(t, l.system, l.id, l.pool) /\ t[l.id].number = l.pool.id
          /\ GroupsGoOn(t, l, r, once)
  BY <1>1 DEF PoolsGoOn
<1> QED
  BY <1>2, <1>3 DEF AtGroups, GroupsGoOn

\* The parity group is there, below its pool if there are no others.
LEMMA GroupDone ==
  ASSUME NEW t, NEW l, NEW r, NEW once, Typed(l), AtGroups(t, l, r, once),
         once => GroupAt(t, l.id, l.group)
  PROVE  Proceeds(t, NextPart(l), l.system, r, once)
<1>1. once /\ l.id \notin Numbers(r)
      => \A g \in ToSet(l.pool.groups) : g \in ToSet(l.groups) \/ GroupAt(t, l.id, g)
  BY DEF AtGroups
<1> QED
  BY <1>1, NextPartMirrors DEF AtGroups

\* A call goes down the key of a parity group.
LEMMA DownGroupMirrors ==
  ASSUME NEW t, NEW l, NEW r, NEW once, Typed(l), l.at \in {"find", "insert"},
         l.phase = "group", Mirrors(t, l, r, once), NEW e, NEW row,
         Len(l.key) = 2 => Len(Tail(l.key)) = 1,
         once /\ Len(l.key) = 2 => e = l.id,
         once /\ Len(l.key) = 1 => GroupAt(t, l.id, l.group)
  PROVE  Proceeds(t, Down(l, e, row), l.system, r, once)
<1>1. InGroups(l)
  BY DEF InGroups
<1>2. /\ AtGroups(t, l, r, once)
      /\ \/ Len(l.key) = 2
         \/ Len(l.key) = 1
  BY <1>1, InGroupsMirrors
<1>3. CASE Len(l.key) = 1
  <2>1. Down(l, e, row) = NextPart(l)
    BY <1>3 DEF Down, Found
  <2> QED
    BY <1>2, <1>3, <2>1, GroupDone
<1>4. CASE Len(l.key) = 2
  <2> DEFINE rest == Tail(l.key)
             next == [l EXCEPT !.at = "find", !.key = rest, !.under = e]
  <2>1. Down(l, e, row) = next
    BY <1>4 DEF Down
  <2>2. Len(rest) = 1
    BY <1>4
  <2> HIDE DEF rest
  <2>3. /\ next.at = "find" /\ next.phase = "group" /\ next.key = rest /\ next.under = e
        /\ next.system = l.system /\ next.pool = l.pool /\ next.pools = l.pools
        /\ next.id = l.id /\ next.group = l.group /\ next.groups = l.groups
    BY DEF Typed
  <2> HIDE DEF next
  <2>4. InGroups(next)
    BY <2>3 DEF InGroups
  <2>5. AtGroups(t, next, r, once)
    BY <1>2, <2>3 DEF AtGroups
  <2>6. Mirrors(t, next, r, once)
    BY <1>4, <2>2, <2>3, <2>4, <2>5, InGroupsMirrors
  <2> QED
    BY <2>1, <2>3, <2>6 DEF Proceeds
<1> QED
  BY <1>2, <1>3, <1>4

\* And down the key of a pair.
LEMMA DownPairMirrors ==
  ASSUME NEW t, NEW l, NEW r, NEW once, Typed(l), l.at \in {"find", "insert"},
         l.phase = "pair", Mirrors(t, l, r, once), NEW e, NEW row
  PROVE  Proceeds(t, Down(l, e, row), l.system, r, once)
<1>1. PoolsDone(t, l.system, r, once)
  BY DEF Mirrors, PoolsDone, PastPools
<1>2. CASE Len(l.key) > 1
  <2> DEFINE next == [l EXCEPT !.at = "find", !.key = Tail(@), !.under = e]
  <2>1. Down(l, e, row) = next
    BY <1>2 DEF Down
  <2>2. next.at = "find" /\ next.phase = "pair" /\ next.system = l.system
    BY DEF Typed
  <2> HIDE DEF next
  <2>3. Mirrors(t, next, r, once)
    BY <1>1, <2>2
       DEF Mirrors, PoolsDone, InHosts, InPools, AtItsPool, InGroups, PastPools
  <2> QED
    BY <2>1, <2>2, <2>3 DEF Proceeds
<1>3. CASE ~(Len(l.key) > 1)
  <2>1. Down(l, e, row) = NextPair(l)
    BY <1>3 DEF Down, Found
  <2> QED
    BY <1>1, <2>1, NextPairMirrors
<1> QED
  BY <1>2, <1>3

\* The key of a parity group, or what is left of it.
LEMMA GroupKey ==
  ASSUME NEW t, NEW l, Searching(t, l), l.phase = "group"
  PROVE  \/ Len(l.key) = 2 /\ Len(Tail(l.key)) = 1 /\ Head(l.key).type = "POOL"
         \/ /\ Len(l.key) = 1 /\ Head(l.key).type = "PARITY_GROUP"
            /\ Head(l.key).name = l.group /\ PartOf(t, l.under, "POOL", l.system)
<1>1. ASSUME NEW pair \in Nested, WholeKey(l, pair[1], pair[2])
      PROVE  Len(l.key) = 2 /\ Len(Tail(l.key)) = 1 /\ Head(l.key).type = "POOL"
  <2>1. PICK first, name : l.key = <<Part(first, pair[1]), Part(name, pair[2])>>
    BY <1>1 DEF WholeKey
  <2>2. pair[1] = "POOL"
    BY <1>1 DEF WholeKey, PhaseOf, Nested
  <2> QED
    BY <2>1, <2>2 DEF Part
<1>2. ASSUME NEW pair \in Nested, LastKey(t, l, pair[1], pair[2])
      PROVE  /\ Len(l.key) = 1 /\ Head(l.key).type = "PARITY_GROUP"
             /\ Head(l.key).name = l.group /\ PartOf(t, l.under, "POOL", l.system)
  <2>1. pair[2] = "PARITY_GROUP" /\ pair[1] = "POOL"
    BY <1>2 DEF LastKey, PhaseOf, Nested
  <2>2. PICK name : l.key = <<Part(name, pair[2])>> /\ name = l.group
    BY <1>2, <2>1 DEF LastKey
  <2> QED
    BY <1>2, <2>1, <2>2 DEF Part, LastKey
<1>3. \A type \in Direct : ~TopKey(l, type)
  BY DEF TopKey, PhaseOf, Direct
<1> QED
  BY <1>1, <1>2, <1>3 DEF Searching

\* Of what type the first part is tells how much is left of the key.
LEMMA GroupKeyLeft ==
  ASSUME NEW t, NEW l, Searching(t, l), l.phase = "group"
  PROVE  /\ Head(l.key).type = "POOL" => Len(l.key) # 1
         /\ Head(l.key).type = "PARITY_GROUP"
            => Head(l.key).name = l.group /\ PartOf(t, l.under, "POOL", l.system)
<1>1. \/ Len(l.key) = 2 /\ Head(l.key).type = "POOL"
      \/ /\ Len(l.key) = 1 /\ Head(l.key).type = "PARITY_GROUP"
         /\ Head(l.key).name = l.group /\ PartOf(t, l.under, "POOL", l.system)
  BY GroupKey
<1> QED
  BY <1>1

\* A call goes down the key by the entity e that is there.
LEMMA DownMirrors ==
  ASSUME NEW t, NEW l, NEW r, NEW once, Typed(l), l.at \in {"find", "insert"},
         Searching(t, l), Mirrors(t, l, r, once), NEW e \in DOMAIN t,
         t[e].name = Head(l.key).name, t[e].type = Head(l.key).type,
         t[e].parent = l.under, t[e].status \in {"ACTIVE", "INACTIVE"},
         once /\ l.phase = "group" /\ t[e].type = "POOL" => e = l.id,
         once /\ l.phase = "group" /\ t[e].type = "PARITY_GROUP" => t[e].status = "ACTIVE"
  PROVE  Proceeds(t, Down(l, e, t[e]), l.system, r, once)
<1>1. CASE l.phase = "pair"
  BY <1>1, DownPairMirrors
<1>2. ASSUME NEW type \in Direct, TopKey(l, type), l.phase # "pair"
      PROVE  Proceeds(t, Down(l, e, t[e]), l.system, r, once)
  <2>1. PICK name : l.key = <<Part(name, type)>>
    BY <1>2 DEF TopKey
  <2>2. Len(l.key) = 1 /\ Head(l.key).type = type
    BY <2>1 DEF Part
  <2>3. PartOf(t, e, type, l.system)
    BY <1>2, <2>2 DEF TopKey, PartOf
  <2>4. Down(l, e, t[e]) = Found(l, e, t[e])
    BY <2>2 DEF Down
  <2>5. \/ l.phase = "pool" /\ type = "POOL"
        \/ l.phase = "host" /\ type = "HOST_GROUP"
    BY <1>2 DEF TopKey, PhaseOf, Direct
  <2>6. CASE l.phase = "pool"
    <3>1. Head(l.key) = Part(l.pool.name, "POOL")
      BY <2>6 DEF Mirrors, InPools, PoolsGoOn
    <3>2. t[e].name = l.pool.name
      BY <3>1 DEF Part
    <3> QED
      BY <2>3, <2>4, <2>5, <2>6, <3>2, FoundPoolMirrors
  <2> QED
    BY <2>3, <2>4, <2>5, <2>6, FoundHostMirrors
<1>3. CASE l.phase = "group"
  <2>3. \/ Len(l.key) = 2 /\ Len(Tail(l.key)) = 1 /\ Head(l.key).type = "POOL"
        \/ /\ Len(l.key) = 1 /\ Head(l.key).type = "PARITY_GROUP"
           /\ Head(l.key).name = l.group
    BY <1>3, GroupKey
  <2>4. once /\ Len(l.key) = 1 => GroupAt(t, l.id, l.group)
    <3>1. InGroups(l)
      BY <1>3 DEF InGroups
    <3>2. Len(l.key) = 2 \/ (Len(l.key) = 1 /\ (once => l.under = l.id))
      BY <3>1, InGroupsMirrors
    <3>3. ASSUME once, Len(l.key) = 1
          PROVE  GroupAt(t, l.id, l.group)
      <4>1. /\ l.under = l.id /\ Head(l.key).type = "PARITY_GROUP"
            /\ Head(l.key).name = l.group
        BY <2>3, <3>2, <3>3
      <4> QED
        BY <1>3, <3>3, <4>1 DEF GroupAt
    <3> QED
      BY <3>3
  <2> QED
    BY <1>3, <2>3, <2>4, DownGroupMirrors
<1>4. ASSUME NEW pair \in Nested,
             WholeKey(l, pair[1], pair[2]) \/ LastKey(t, l, pair[1], pair[2])
      PROVE  l.phase \in {"pair", "group"}
  BY <1>4 DEF WholeKey, LastKey, PhaseOf, Nested
<1> QED
  BY <1>1, <1>2, <1>3, <1>4 DEF Searching

\* What has been looked for and not found is inserted.
LEMMA InsertMirrors ==
  ASSUME NEW t, NEW l, NEW r, NEW once, Typed(l), l.at = "find", Mirrors(t, l, r, once)
  PROVE  Proceeds(t, [l EXCEPT !.at = "insert"], l.system, r, once)
<1> DEFINE next == [l EXCEPT !.at = "insert"]
<1>1. /\ next.at = "insert" /\ next.phase = l.phase /\ next.key = l.key
      /\ next.under = l.under /\ next.system = l.system /\ next.pool = l.pool
      /\ next.pools = l.pools /\ next.id = l.id /\ next.group = l.group
      /\ next.groups = l.groups /\ next.hosts = l.hosts
  BY DEF Typed
<1> HIDE DEF next
<1>2. /\ InGroups(next) <=> InGroups(l)
      /\ AtItsPool(next) <=> AtItsPool(l)
      /\ InPools(next) <=> InPools(l)
      /\ InHosts(next) <=> InHosts(l)
      /\ PastPools(next) <=> PastPools(l)
  BY <1>1 DEF InHosts, InPools, AtItsPool, InGroups, PastPools
<1>3. InGroups(l) /\ GroupsGoOn(t, l, r, once) => GroupsGoOn(t, next, r, once)
  BY <1>1 DEF GroupsGoOn
<1>4. PoolsGoOn(t, l, r, once) => PoolsGoOn(t, next, r, once)
  BY <1>1, <1>2, <1>3 DEF PoolsGoOn
<1>5. HostsGoOn(t, l, r) => HostsGoOn(t, next, r)
  BY <1>1 DEF HostsGoOn
<1>6. Mirrors(t, next, r, once)
  BY <1>1, <1>2, <1>4, <1>5 DEF Mirrors
<1> QED
  BY <1>1, <1>6 DEF Proceeds, next

\* A new row is one that the report names.
LEMMA ExtendedMirrors ==
  ASSUME NEW t, NEW u, NEW new, NEW row, Rows(t), Extended(t, u, new, row), NEW l, NEW r,
         NEW once, l.at = "insert", Mirrors(t, l, r, once),
         row.type = "POOL" => row.name \in PoolNames(r),
         row.type = "HOST_GROUP" => l.phase = "host" /\ row.name \in ToSet(r.hosts)
  PROVE  Mirrors(u, l, r, once)
<1>1. /\ DOMAIN u = DOMAIN t \cup {new} /\ u[new] = row
      /\ \A e \in DOMAIN t : u[e] = t[e]
  BY DEF Extended
<1>2. \A p : Mirrored(t, l.system, r, once, p) => Mirrored(u, l.system, r, once, p)
  BY <1>1, MirroredStays DEF Spares
<1>3. OnlyThese(t, l.system, "POOL", PoolNames(r))
      => OnlyThese(u, l.system, "POOL", PoolNames(r))
  BY <1>1 DEF OnlyThese, ActivePart, PartOf
<1>4. HostsGoOn(t, l, r) => HostsGoOn(u, l, r)
  <2>1. OnlyThese(t, l.system, "HOST_GROUP", ToSet(r.hosts))
        => OnlyThese(u, l.system, "HOST_GROUP", ToSet(r.hosts))
    BY <1>1 DEF OnlyThese, ActivePart, PartOf
  <2>2. \A g : Present(t, l.system, "HOST_GROUP", g) => Present(u, l.system, "HOST_GROUP", g)
    BY <1>1 DEF Present, ActivePart, PartOf
  <2> QED
    BY <2>1, <2>2 DEF HostsGoOn
<1>5. \A e, g : GroupAt(t, e, g) => GroupAt(u, e, g)
  BY <1>1 DEF GroupAt
<1>6. PoolsGoOn(t, l, r, once) => PoolsGoOn(u, l, r, once)
  <2>1. \A e, p : IsPool(t, l.system, e, p) => IsPool(u, l.system, e, p) /\ u[e] = t[e]
    BY <1>1 DEF IsPool, ActivePart, PartOf
  <2>2. GroupsGoOn(t, l, r, once) => GroupsGoOn(u, l, r, once)
    BY <1>5 DEF GroupsGoOn
  <2> QED
    BY <1>2, <2>1, <2>2 DEF PoolsGoOn
<1> QED
  BY <1>2, <1>3, <1>4, <1>6 DEF Mirrors

\* A call looks for pools and host groups of the report.
LEMMA KeyNames ==
  ASSUME NEW t, NEW l, NEW r, NEW once, l.at \in {"find", "insert"}, Searching(t, l),
         Mirrors(t, l, r, once)
  PROVE  /\ Head(l.key).type = "POOL" => Head(l.key).name \in PoolNames(r)
         /\ Head(l.key).type = "HOST_GROUP"
            => l.phase = "host" /\ Head(l.key).name \in ToSet(r.hosts)
<1>1. ASSUME NEW type \in Direct, TopKey(l, type)
      PROVE  Head(l.key).type = type
  BY <1>1 DEF TopKey, Part
<1>2. ASSUME NEW pair \in Nested, WholeKey(l, pair[1], pair[2])
      PROVE  Head(l.key).type = pair[1]
  BY <1>2 DEF WholeKey, Part
<1>3. ASSUME NEW pair \in Nested, LastKey(t, l, pair[1], pair[2])
      PROVE  Head(l.key).type = pair[2]
  BY <1>3 DEF LastKey, Part
<1>4. ASSUME Head(l.key).type = "POOL"
      PROVE  Head(l.key).name \in PoolNames(r)
  <2>1. l.phase \in {"pool", "group"}
    BY <1>1, <1>2, <1>3, <1>4
       DEF Searching, TopKey, WholeKey, LastKey, PhaseOf, Nested, Direct
  <2>2. InPools(l)
    BY <2>1 DEF InPools, AtItsPool, InGroups
  <2>3. l.pool \in ToSet(r.pools)
    BY <2>2 DEF Mirrors, PoolsGoOn
  <2>4. Head(l.key).name = l.pool.name
    <3>1. CASE l.phase = "pool"
      BY <2>2, <3>1 DEF Mirrors, PoolsGoOn, Part
    <3>2. CASE l.phase = "group"
      <4>1. InGroups(l) /\ Len(l.key) # 1
        BY <1>4, <3>2, GroupKeyLeft DEF InGroups
      <4>2. Head(l.key) = Part(l.pool.name, "POOL")
        BY <4>1, InGroupsMirrors
      <4> QED
        BY <4>2 DEF Part
    <3> QED
      BY <2>1, <3>1, <3>2
  <2> QED
    BY <2>3, <2>4 DEF PoolNames
<1>5. ASSUME Head(l.key).type = "HOST_GROUP"
      PROVE  l.phase = "host" /\ Head(l.key).name \in ToSet(r.hosts)
  <2>1. l.phase = "host"
    BY <1>1, <1>2, <1>3, <1>5
       DEF Searching, TopKey, WholeKey, LastKey, PhaseOf, Nested, Direct
  <2>2. HostsGoOn(t, l, r)
    BY <2>1 DEF Mirrors, InHosts
  <2> QED
    BY <2>1, <2>2 DEF HostsGoOn, Part
<1> QED
  BY <1>4, <1>5

\* What is known of a call that no other has met, and what a step makes of it.
Stand(c) == Mirrors(entity, call[c], report[call[c].system],
                    call[c].system \notin overlapped)
GoesOn(c) == Proceeds(entity', call'[c], call[c].system, report[call[c].system],
                      call[c].system \notin overlapped)

\* A step goes to next.
LEMMA GoesBy ==
  ASSUME Inv, NEW c \in Call, NEW next, Steps(c, next),
         Proceeds(entity', next, call[c].system, report[call[c].system],
                  call[c].system \notin overlapped)
  PROVE  GoesOn(c)
BY DEF GoesOn, Steps, Inv, CallsOK

\* The next part is looked for.
LEMMA FindPartMirrors ==
  ASSUME Inv, OnceInv, StatusOK, NEW c \in Call, FindPart(c),
         Stand(c)
  PROVE  GoesOn(c)
<1> DEFINE l == call[c]
           s == l.system
           r == report[s]
           once == s \notin overlapped
           part == Head(l.key)
           found == {e \in DOMAIN entity : /\ entity[e].name = part.name
                                           /\ Is(e, part.type)
                                           /\ entity[e].parent = l.under}
<1>1. /\ Typed(l) /\ Placed(entity, l) /\ l.at = "find" /\ Searching(entity, l)
      /\ entity' = entity /\ s \in System /\ Busy(c) /\ Arranged(entity)
  BY CallAt, ReadRetouches DEF FindPart, Placed, Busy, At, Inv
<1>2. Mirrors(entity, l, r, once)
  BY DEF Stand
<1>3. once => EachOnce(entity, s) /\ Missed(entity, l)
  BY <1>1 DEF OnceInv, OneEntityPerName
<1>4. CASE found = {}
  <2>1. Steps(c, [l EXCEPT !.at = "insert"])
    BY <1>4 DEF FindPart
  <2>2. Proceeds(entity, [l EXCEPT !.at = "insert"], s, r, once)
    BY <1>1, <1>2, InsertMirrors
  <2> QED
    BY <1>1, <2>1, <2>2, GoesBy
<1>5. CASE found # {}
  <2>1. PICK e \in found : Steps(c, Down(l, e, entity[e]))
    BY <1>5 DEF FindPart
  <2>2. /\ e \in DOMAIN entity /\ entity[e].name = part.name /\ entity[e].type = part.type
        /\ entity[e].parent = l.under /\ entity[e].status \in {"ACTIVE", "INACTIVE"}
    BY DEF Is, StatusOK
  <2> HIDE DEF found
  <2>3. ASSUME once, l.phase = "group"
        PROVE  /\ entity[e].type = "POOL" => e = l.id
               /\ entity[e].type # "PARITY_GROUP"
    <3>1. InGroups(l)
      BY <1>1, <2>3 DEF InGroups
    <3>2. /\ IsPool(entity, s, l.id, l.pool)
          /\ (Len(l.key) = 2 /\ part = Part(l.pool.name, "POOL")) \/ Len(l.key) = 1
      BY <1>1, <1>2, <3>1, InGroupsMirrors DEF AtGroups
    <3>3. ASSUME entity[e].type = "POOL"
          PROVE  e = l.id
      <4>1. Len(l.key) # 1
        BY <1>1, <2>2, <2>3, <3>3, GroupKeyLeft
      <4>2. part.name = l.pool.name
        BY <3>2, <4>1 DEF Part
      <4>3. InSystem(entity, l.id, s) /\ entity[l.id].type = "POOL" /\ l.id \in DOMAIN entity
            /\ entity[l.id].name = l.pool.name
        BY <1>1, <3>2, PartsAre DEF IsPool, ActivePart, PartOf
      <4>4. InSystem(entity, e, s)
        <5>1. Belongs(entity, part.type, l.under, s)
          BY <1>1, KeyBelongs
        <5> QED
          BY <2>2, <5>1 DEF Belongs, InSystem, PartOf
      <4> QED
        BY <1>3, <2>2, <2>3, <3>3, <4>2, <4>3, <4>4 DEF EachOnce
    <3>4. ASSUME entity[e].type = "PARITY_GROUP"
          PROVE  FALSE
      <4>1. part.name = l.group /\ PartOf(entity, l.under, "POOL", s)
        BY <1>1, <2>2, <2>3, <3>4, GroupKeyLeft
      <4>2. InSystem(entity, e, s)
        BY <2>2, <4>1 DEF InSystem, PartOf
      <4>3. NoneSuch(entity, l, Part(l.group, "PARITY_GROUP"))
        BY <1>1, <1>3, <2>3 DEF Missed
      <4> QED
        BY <2>2, <3>4, <4>1, <4>2, <4>3 DEF NoneSuch, Part
    <3> QED
      BY <3>3, <3>4
  <2>4. Proceeds(entity, Down(l, e, entity[e]), s, r, once)
    BY <1>1, <1>2, <2>2, <2>3, DownMirrors
  <2> QED
    BY <1>1, <2>1, <2>4, GoesBy
<1> QED
  BY <1>4, <1>5

\* A part that was not there is made.
LEMMA InsertStepMirrors ==
  ASSUME Inv, OnceInv, NEW c \in Call, Insert(c), Stand(c)
  PROVE  GoesOn(c)
<1> DEFINE l == call[c]
           s == l.system
           r == report[s]
           once == s \notin overlapped
           part == Head(l.key)
<1>1. /\ Typed(l) /\ Placed(entity, l) /\ l.at = "insert" /\ Searching(entity, l)
      /\ s \in System /\ Busy(c) /\ Arranged(entity) /\ Rows(entity)
  BY CallAt DEF Insert, Placed, Busy, At, Inv
<1>2. PICK new, row :
        /\ Extended(entity, entity', new, row)
        /\ row.name = part.name /\ row.type = part.type /\ row.parent = l.under
        /\ row.status = "ACTIVE" /\ Steps(c, Down(l, new, row))
  BY InsertGoes
<1>3. Searching(entity', l) /\ new \in DOMAIN entity' /\ entity'[new] = row
  BY <1>2, InsertGoes DEF Extended
<1>4. Mirrors(entity, l, r, once)
  BY DEF Stand
<1>5. Mirrors(entity', l, r, once)
  <2>1. /\ part.type = "POOL" => part.name \in PoolNames(r)
        /\ part.type = "HOST_GROUP" => l.phase = "host" /\ part.name \in ToSet(r.hosts)
    BY <1>1, <1>4, KeyNames
  <2> QED
    BY <1>1, <1>2, <1>4, <2>1, ExtendedMirrors
<1>6. ASSUME once, l.phase = "group", part.type = "POOL"
      PROVE  FALSE
  <2>1. InGroups(l) /\ Len(l.key) # 1
    BY <1>1, <1>6, GroupKeyLeft DEF InGroups
  <2>2. IsPool(entity, s, l.id, l.pool) /\ part = Part(l.pool.name, "POOL")
    BY <1>4, <1>1, <2>1, InGroupsMirrors DEF AtGroups
  <2>3. /\ InSystem(entity, l.id, s) /\ l.id \in DOMAIN entity
        /\ entity[l.id].type = part.type /\ entity[l.id].name = part.name
    BY <1>1, <2>2, PartsAre DEF IsPool, ActivePart, PartOf, Part
  <2>4. NoneSuch(entity, l, part)
    BY <1>1, <1>6 DEF OnceInv, Missed
  <2> QED
    BY <1>6, <2>3, <2>4 DEF NoneSuch
<1>7. Proceeds(entity', Down(l, new, entity'[new]), s, r, once)
  <2>1. /\ entity'[new].name = part.name /\ entity'[new].type = part.type
        /\ entity'[new].parent = l.under /\ entity'[new].status = "ACTIVE"
    BY <1>2, <1>3
  <2> QED
    BY <1>1, <1>3, <1>5, <1>6, <2>1, DownMirrors
<1> QED
  BY <1>2, <1>3, <1>7, GoesBy

\* The parts of the report are read.
LEMMA RequestsMirror ==
  ASSUME Inv, NEW c \in Call, Stand(c),
         \/ GetStatus(c) /\ call'[c] # Idle
         \/ GetPoolInfo(c) \/ GetChbInfo(c) \/ PairsFail(c) \/ GetHosts(c)
  PROVE  GoesOn(c)
<1> DEFINE l == call[c]
           s == l.system
           r == report[s]
           once == s \notin overlapped
<1>1. /\ Typed(l) /\ Placed(entity, l) /\ l.at # "idle" /\ s \in System
      /\ entity' = entity /\ r \in Reports
  BY CallAt, ReadRetouches
     DEF GetStatus, GetPoolInfo, GetChbInfo, PairsFail, GetHosts, Inv, ReportOK
<1>2. Mirrors(entity, l, r, once)
  BY DEF Stand
<1>3. PastPools(l) => PoolsDone(entity, s, r, once)
  BY <1>2 DEF Mirrors, PastPools, PoolsDone
<1>4. CASE GetStatus(c) /\ call'[c] # Idle
  <2> DEFINE next == [l EXCEPT !.at = "poolInfo"]
  <2>1. Steps(c, next)
    BY <1>4 DEF GetStatus, Steps, Inv, CallsOK
  <2>2. next.at = "poolInfo" /\ next.system = s
    BY <1>1 DEF Typed
  <2> HIDE DEF next
  <2>3. Mirrors(entity, next, r, once)
    BY <2>2 DEF Mirrors, InHosts, InPools, AtItsPool, InGroups, PastPools
  <2> QED
    BY <1>1, <2>1, <2>2, <2>3, GoesBy DEF Proceeds
<1>5. CASE GetPoolInfo(c)
  <2> DEFINE next == [l EXCEPT !.at = "retirePools", !.pools = r.pools]
  <2>1. Steps(c, next)
    BY <1>5 DEF GetPoolInfo
  <2>2. next.at = "retirePools" /\ next.system = s /\ next.pools = r.pools
    BY <1>1 DEF Typed
  <2> HIDE DEF next
  <2>3. Mirrors(entity, next, r, once)
    BY <2>2 DEF Mirrors, InHosts, InPools, AtItsPool, InGroups, PastPools
  <2> QED
    BY <1>1, <2>1, <2>2, <2>3, GoesBy DEF Proceeds
<1>6. CASE GetHosts(c)
  <2> DEFINE next == [l EXCEPT !.at = "retireHosts", !.hosts = r.hosts]
  <2>1. Steps(c, next)
    BY <1>6 DEF GetHosts
  <2>2. next.at = "retireHosts" /\ next.system = s /\ next.hosts = r.hosts
    BY <1>1 DEF Typed
  <2> HIDE DEF next
  <2>3. PastPools(l)
    BY <1>6 DEF GetHosts, At, PastPools
  <2>4. Mirrors(entity, next, r, once)
    BY <1>3, <2>2, <2>3
       DEF Mirrors, InHosts, InPools, AtItsPool, InGroups, PastPools, PoolsDone
  <2> QED
    BY <1>1, <2>1, <2>2, <2>4, GoesBy DEF Proceeds
<1>7. CASE GetChbInfo(c)
  <2>1. PoolsDone(entity, s, r, once)
    BY <1>3, <1>7 DEF GetChbInfo, PairsFail, At, PastPools
  <2>2. CASE Steps(c, [l EXCEPT !.at = "hosts"])
    <3> DEFINE next == [l EXCEPT !.at = "hosts"]
    <3>1. next.at = "hosts" /\ next.system = s /\ Steps(c, next)
      BY <1>1, <2>2 DEF Typed
    <3> HIDE DEF next
    <3>2. Mirrors(entity, next, r, once)
      BY <2>1, <3>1
         DEF Mirrors, InHosts, InPools, AtItsPool, InGroups, PastPools, PoolsDone
    <3> QED
      BY <1>1, <3>1, <3>2, GoesBy DEF Proceeds
  <2>3. CASE Steps(c, NextPair([l EXCEPT !.pairs = r.pairs]))
    <3> DEFINE pairs == r.pairs
               x == [l EXCEPT !.pairs = pairs]
    <3>1. pairs \in Seq(PairInfo)
      BY <1>1 DEF Reports
    <3>2. Steps(c, NextPair(x))
      BY <2>3
    <3> HIDE DEF pairs
    <3>3. Typed(x) /\ x.system = s
      BY <1>1, <3>1 DEF Typed
    <3> HIDE DEF x
    <3>4. Proceeds(entity, NextPair(x), s, r, once)
      BY <2>1, <3>3, NextPairMirrors
    <3> QED
      BY <1>1, <3>2, <3>4, GoesBy
  <2> QED
    BY <1>7, <2>2, <2>3 DEF GetChbInfo
<1>8. CASE PairsFail(c)
  <2>1. PoolsDone(entity, s, r, once)
    BY <1>3, <1>8 DEF PairsFail, At, PastPools
  <2> DEFINE next == [l EXCEPT !.at = "hosts"]
  <2>2. Steps(c, next)
    BY <1>8 DEF PairsFail
  <2>3. next.at = "hosts" /\ next.system = s
    BY <1>1 DEF Typed
  <2> HIDE DEF next
  <2>4. Mirrors(entity, next, r, once)
    BY <2>1, <2>3
       DEF Mirrors, InHosts, InPools, AtItsPool, InGroups, PastPools, PoolsDone
  <2> QED
    BY <1>1, <2>2, <2>3, <2>4, GoesBy DEF Proceeds
<1> QED
  BY <1>4, <1>5, <1>6, <1>7, <1>8

\* What becomes inactive has a type, a parent and none of the names.
LEMMA DeactivateDoes ==
  ASSUME Rows(entity), NEW type, NEW parent, NEW names, Deactivate(type, parent, names)
  PROVE  /\ DOMAIN entity' = DOMAIN entity
         /\ \A e \in DOMAIN entity :
               IF /\ entity[e].type = type /\ entity[e].parent = parent
                  /\ entity[e].name \notin names
               THEN /\ entity'[e].status = "INACTIVE"
                    /\ entity'[e].type = type /\ entity'[e].parent = parent
               ELSE entity'[e] = entity[e]
<1>1. ASSUME NEW e \in DOMAIN entity, entity[e].type = type, entity[e].parent = parent,
             entity[e].name \notin names
      PROVE  /\ entity'[e].status = "INACTIVE"
             /\ entity'[e].type = type /\ entity'[e].parent = parent
  <2>1. entity'[e] = [entity[e] EXCEPT !.status = "INACTIVE"]
    BY <1>1 DEF Deactivate, Is
  <2>2. DOMAIN entity[e] = {"name", "type", "parent", "number", "status"}
    BY DEF Rows
  <2> QED
    BY <1>1, <2>1, <2>2
<1>2. DOMAIN entity' = DOMAIN entity
  BY DEF Deactivate
<1>3. ASSUME NEW e \in DOMAIN entity,
             ~ (/\ entity[e].type = type /\ entity[e].parent = parent
                /\ entity[e].name \notin names)
      PROVE  entity'[e] = entity[e]
  BY <1>3 DEF Deactivate, Is
<1> QED
  BY <1>1, <1>2, <1>3

\* Pools and host groups that are not reported become inactive.
LEMMA RetirePoolsMirrors ==
  ASSUME Inv, NEW c \in Call, Stand(c), RetirePools(c)
  PROVE  GoesOn(c)
<1> DEFINE l == call[c]
           s == l.system
           r == report[s]
           once == s \notin overlapped
<1>1. Typed(l) /\ Placed(entity, l) /\ l.at = "retirePools" /\ Rows(entity)
  BY CallAt DEF RetirePools, Inv
<1>2. l.pools = r.pools /\ l.groups = <<>>
  BY <1>1 DEF Stand, Mirrors, Placed
<1>3. Deactivate("POOL", Root[s], PoolNames(r)) /\ Steps(c, NextPart(l))
  BY <1>2 DEF RetirePools, PoolNames
<1>4. OnlyThese(entity', s, "POOL", PoolNames(r))
  BY <1>1, <1>3, DeactivateDoes DEF OnlyThese, ActivePart, PartOf
<1>5. Proceeds(entity', NextPart(l), s, r, once)
  BY <1>1, <1>2, <1>4, NextPoolMirrors
<1> QED
  BY <1>3, <1>5, GoesBy

LEMMA RetireHostsMirrors ==
  ASSUME Inv, NEW c \in Call, Stand(c), RetireHosts(c)
  PROVE  GoesOn(c)
<1> DEFINE l == call[c]
           s == l.system
           r == report[s]
           once == s \notin overlapped
<1>1. Typed(l) /\ l.at = "retireHosts" /\ Rows(entity)
  BY CallAt DEF RetireHosts, Inv
<1>2. l.hosts = r.hosts /\ PoolsDone(entity, s, r, once)
  BY <1>1 DEF Stand, Mirrors, PastPools, PoolsDone
<1>3. Deactivate("HOST_GROUP", Root[s], ToSet(r.hosts)) /\ Steps(c, NextHost(l))
  BY <1>2 DEF RetireHosts
<1>4. /\ DOMAIN entity' = DOMAIN entity
      /\ \A e \in DOMAIN entity :
            IF /\ entity[e].type = "HOST_GROUP" /\ entity[e].parent = Root[s]
               /\ entity[e].name \notin ToSet(r.hosts)
            THEN /\ entity'[e].status = "INACTIVE"
                 /\ entity'[e].type = "HOST_GROUP" /\ entity'[e].parent = Root[s]
            ELSE entity'[e] = entity[e]
  BY <1>1, <1>3, DeactivateDoes
<1>5. OnlyThese(entity', s, "HOST_GROUP", ToSet(r.hosts))
  BY <1>4 DEF OnlyThese, ActivePart, PartOf
<1>6. PoolsDone(entity', s, r, once)
  <2>1. \A p : Spares(entity, entity', s, r, p)
    BY <1>4 DEF Spares, PartOf
  <2>2. OnlyThese(entity', s, "POOL", PoolNames(r))
    BY <1>2, <1>4 DEF PoolsDone, OnlyThese, ActivePart, PartOf
  <2> QED
    BY <1>2, <2>1, <2>2, MirroredStays DEF PoolsDone
<1>7. Proceeds(entity', NextHost(l), s, r, once)
  BY <1>1, <1>2, <1>5, <1>6, NextHostMirrors
<1> QED
  BY <1>3, <1>7, GoesBy

\* The pools are read, and the parity group looked for below all of them.
LEMMA PoolIdsMirrors ==
  ASSUME Inv, NEW c \in Call, Stand(c), PoolIds(c)
  PROVE  GoesOn(c)
<1> DEFINE l == call[c]
           s == l.system
           r == report[s]
           once == s \notin overlapped
           found == {e \in Children(entity, Root[l.system]) : Is(e, "POOL")}
           next == [l EXCEPT !.at = "group", !.ids = found]
<1>1. Typed(l) /\ l.at = "poolIds" /\ entity' = entity
  BY CallAt, ReadRetouches DEF PoolIds
<1>2. Steps(c, next)
  BY DEF PoolIds
<1> HIDE DEF found
<1>3. /\ next.at = "group" /\ next.system = s /\ next.pool = l.pool
      /\ next.pools = l.pools /\ next.id = l.id /\ next.group = l.group
      /\ next.groups = l.groups
  BY <1>1 DEF Typed
<1> HIDE DEF next
<1>4. InGroups(l) /\ InGroups(next)
  BY <1>1, <1>3 DEF InGroups
<1>5. AtGroups(entity, l, r, once)
  BY <1>4, InGroupsMirrors DEF Stand
<1>6. AtGroups(entity, next, r, once)
  BY <1>3, <1>5 DEF AtGroups
<1>7. Mirrors(entity, next, r, once)
  BY <1>3, <1>4, <1>6, InGroupsMirrors
<1> QED
  BY <1>1, <1>2, <1>3, <1>7, GoesBy DEF Proceeds

LEMMA FindGroupMirrors ==
  ASSUME Inv, StatusOK, NEW c \in Call, Stand(c), FindGroup(c)
  PROVE  GoesOn(c)
<1> DEFINE l == call[c]
           s == l.system
           r == report[s]
           once == s \notin overlapped
           found == {e \in DOMAIN entity : /\ entity[e].name = l.group
                                           /\ Is(e, "PARITY_GROUP")
                                           /\ entity[e].parent \in l.ids}
           key == createComponentKey(l.pool.name, l.group, "PARITY_GROUP")
<1>1. /\ Typed(l) /\ Placed(entity, l) /\ l.at = "group" /\ entity' = entity
      /\ l.group \in Named
  BY CallAt, ReadRetouches DEF FindGroup, Placed
<1>2. InGroups(l)
  BY <1>1 DEF InGroups
<1>3. AtGroups(entity, l, r, once)
  BY <1>2, InGroupsMirrors DEF Stand
<1>4. CASE found = {}
  <2> DEFINE next == Fetching(l, "group", key)
  <2>1. Steps(c, next)
    BY <1>4 DEF FindGroup
  <2>2. key = <<Part(l.pool.name, "POOL"), Part(l.group, "PARITY_GROUP")>>
    BY <1>1, NestedKey
  <2> HIDE DEF key
  <2>3. /\ next.system = s /\ next.at = "find" /\ next.phase = "group" /\ next.key = key
        /\ next.pool = l.pool /\ next.id = l.id /\ next.group = l.group
    BY <1>1, FetchingSets
  <2>4. next.pools = l.pools /\ next.groups = l.groups
    BY <1>1 DEF Fetching, Typed
  <2> HIDE DEF next
  <2>5. InGroups(next)
    BY <2>3 DEF InGroups
  <2>6. AtGroups(entity, next, r, once)
    BY <1>3, <2>3, <2>4 DEF AtGroups
  <2>7. Len(next.key) = 2 /\ Head(next.key) = Part(next.pool.name, "POOL")
    BY <2>2, <2>3
  <2>8. Mirrors(entity, next, r, once)
    BY <2>3, <2>5, <2>6, <2>7, InGroupsMirrors
  <2> QED
    BY <1>1, <2>1, <2>3, <2>8, GoesBy DEF Proceeds
<1>5. CASE found # {}
  <2>1. PICK e \in found :
          IF entity[e].parent # l.id \/ entity[e].status = "INACTIVE"
          THEN Steps(c, [l EXCEPT !.at = "regroup", !.under = e])
          ELSE Steps(c, NextPart(l))
    BY <1>5 DEF FindGroup
  <2>2. /\ e \in DOMAIN entity /\ entity[e].name = l.group
        /\ entity[e].type = "PARITY_GROUP"
        /\ entity[e].status \in {"ACTIVE", "INACTIVE"}
    BY DEF Is, StatusOK
  <2> HIDE DEF found
  <2>3. CASE entity[e].parent # l.id \/ entity[e].status = "INACTIVE"
    <3> DEFINE next == [l EXCEPT !.at = "regroup", !.under = e]
    <3>1. Steps(c, next)
      BY <2>1, <2>3
    <3>2. /\ next.at = "regroup" /\ next.under = e /\ next.system = s
          /\ next.pool = l.pool /\ next.pools = l.pools /\ next.id = l.id
          /\ next.group = l.group /\ next.groups = l.groups
      BY <1>1 DEF Typed
    <3> HIDE DEF next
    <3>3. InGroups(next)
      BY <3>2 DEF InGroups
    <3>4. AtGroups(entity, next, r, once)
      BY <1>3, <3>2 DEF AtGroups
    <3>5. Mirrors(entity, next, r, once)
      BY <2>2, <3>2, <3>3, <3>4, InGroupsMirrors
    <3> QED
      BY <1>1, <3>1, <3>2, <3>5, GoesBy DEF Proceeds
  <2>4. CASE entity[e].parent = l.id /\ entity[e].status = "ACTIVE"
    <3>1. Steps(c, NextPart(l))
      BY <2>1, <2>4
    <3>2. GroupAt(entity, l.id, l.group)
      BY <2>2, <2>4 DEF GroupAt
    <3>3. Proceeds(entity, NextPart(l), s, r, once)
      BY <1>1, <1>3, <3>2, GroupDone
    <3> QED
      BY <1>1, <3>1, <3>3, GoesBy
  <2> QED
    BY <2>2, <2>3, <2>4
<1> QED
  BY <1>4, <1>5

\* Parity groups that are not reported below the number become inactive.
LEMMA RetireGroupsMirrors ==
  ASSUME Inv, NEW c \in Call, Stand(c), RetireGroups(c)
  PROVE  GoesOn(c)
<1> DEFINE l == call[c]
           s == l.system
           r == report[s]
           once == s \notin overlapped
           groups == l.pool.groups
           x == [l EXCEPT !.groups = groups]
<1>1. Typed(l) /\ Placed(entity, l) /\ l.at = "retireGroups" /\ Rows(entity)
  BY CallAt DEF RetireGroups, Inv
<1>2. /\ OnlyThese(entity, s, "POOL", PoolNames(r))
      /\ ToSet(l.pools) \subseteq ToSet(r.pools) /\ l.pool \in ToSet(r.pools)
      /\ \A p \in ToSet(r.pools) :
            p \in ToSet(l.pools) \/ p = l.pool \/ Mirrored(entity, s, r, once, p)
      /\ IsPool(entity, s, l.id, l.pool) /\ entity[l.id].number = l.pool.id
  BY <1>1 DEF Stand, Mirrors, InPools, AtItsPool, PoolsGoOn
<1>3. groups \in Seq(Named)
  BY <1>1 DEF Placed, AtPool, PoolInfo
<1>4. Deactivate("PARITY_GROUP", l.pool.id, ToSet(groups)) /\ Steps(c, NextPart(x))
  BY DEF RetireGroups
<1>5. /\ DOMAIN entity' = DOMAIN entity
      /\ \A e \in DOMAIN entity :
            IF /\ entity[e].type = "PARITY_GROUP" /\ entity[e].parent = l.pool.id
               /\ entity[e].name \notin ToSet(groups)
            THEN /\ entity'[e].status = "INACTIVE"
                 /\ entity'[e].type = "PARITY_GROUP" /\ entity'[e].parent = l.pool.id
            ELSE entity'[e] = entity[e]
  BY <1>1, <1>4, DeactivateDoes
<1>6. l.pool.id \in Numbers(r)
  BY <1>2 DEF Numbers
<1>7. \A p : Spares(entity, entity', s, r, p)
  BY <1>5, <1>6 DEF Spares, PartOf
<1>8. OnlyThese(entity', s, "POOL", PoolNames(r))
  BY <1>2, <1>5 DEF OnlyThese, ActivePart, PartOf
<1>9. IsPool(entity', s, l.id, l.pool) /\ entity'[l.id].number = l.pool.id
  BY <1>2, <1>5 DEF IsPool, ActivePart, PartOf
<1> HIDE DEF groups
<1>10. /\ Typed(x) /\ x.system = s /\ x.pools = l.pools /\ x.pool = l.pool /\ x.id = l.id
       /\ x.groups = groups
  BY <1>1, <1>3 DEF Typed
<1> HIDE DEF x
<1>11. \A p \in ToSet(r.pools) :
          p \in ToSet(x.pools) \/ p = x.pool \/ Mirrored(entity', s, r, once, p)
  BY <1>2, <1>7, <1>10, MirroredStays
<1>12. ToSet(x.groups) = ToSet(x.pool.groups)
  BY <1>10 DEF groups
<1>13. Proceeds(entity', NextPart(x), s, r, once)
  BY <1>2, <1>8, <1>9, <1>10, <1>11, <1>12, NextPartMirrors
<1> QED
  BY <1>4, <1>13, GoesBy

\* The parity group comes below the pool that has it.
LEMMA RegroupMirrors ==
  ASSUME Inv, NEW c \in Call, Stand(c), Regroup(c),
         Apart(report[call[c].system])
  PROVE  GoesOn(c)
<1> DEFINE l == call[c]
           s == l.system
           r == report[s]
           once == s \notin overlapped
           e == l.under
<1>1. /\ Typed(l) /\ Placed(entity, l) /\ l.at = "regroup" /\ Rows(entity)
      /\ GroupOf(entity, e, s)
  BY CallAt DEF Regroup, Inv, Placed
<1>2. InGroups(l)
  BY <1>1 DEF InGroups
<1>3. AtGroups(entity, l, r, once) /\ entity[e].name = l.group
  BY <1>1, <1>2, InGroupsMirrors DEF Stand
<1>4. /\ DOMAIN entity' = DOMAIN entity /\ e \in DOMAIN entity
      /\ entity[e].type = "PARITY_GROUP"
      /\ \A f \in DOMAIN entity : f # e => entity'[f] = entity[f]
      /\ entity'[e].name = l.group /\ entity'[e].type = "PARITY_GROUP"
      /\ entity'[e].parent = l.id /\ entity'[e].status = "ACTIVE"
  <2>1. entity' = [entity EXCEPT ![e].parent = l.id, ![e].status = "ACTIVE"]
    BY DEF Regroup
  <2>2. /\ e \in DOMAIN entity /\ entity[e].type = "PARITY_GROUP"
        /\ DOMAIN entity[e] = {"name", "type", "parent", "number", "status"}
    BY <1>1 DEF GroupOf, Rows
  <2> QED
    BY <1>3, <2>1, <2>2
<1>5. ASSUME NEW p \in ToSet(r.pools), p # l.pool
      PROVE  Spares(entity, entity', s, r, p)
  <2>1. l.pool \in ToSet(r.pools) /\ l.group \in ToSet(l.pool.groups)
    BY <1>3 DEF AtGroups
  <2>2. l.group \notin ToSet(p.groups)
    BY <1>5, <2>1 DEF Apart
  <2> QED
    BY <1>3, <1>4, <2>2 DEF Spares, PartOf
<1>6. GroupAt(entity', l.id, l.group)
  BY <1>4 DEF GroupAt
<1>7. AtGroups(entity', l, r, once)
  <2>1. \A p \in ToSet(r.pools) :
           p \in ToSet(l.pools) \/ p = l.pool \/ Mirrored(entity', s, r, once, p)
    BY <1>3, <1>5, MirroredStays DEF AtGroups
  <2>2. OnlyThese(entity', s, "POOL", PoolNames(r))
    BY <1>3, <1>4 DEF AtGroups, OnlyThese, ActivePart, PartOf
  <2>3. IsPool(entity', s, l.id, l.pool) /\ entity'[l.id].number = l.pool.id
    BY <1>3, <1>4 DEF AtGroups, IsPool, ActivePart, PartOf
  <2>4. ASSUME NEW g, GroupAt(entity, l.id, g)
        PROVE  GroupAt(entity', l.id, g)
    BY <1>3, <1>4, <2>4 DEF GroupAt
  <2> QED
    BY <1>3, <2>1, <2>2, <2>3, <2>4 DEF AtGroups
<1>8. Proceeds(entity', NextPart(l), s, r, once)
  BY <1>1, <1>6, <1>7, GroupDone
<1>9. Steps(c, NextPart(l))
  BY DEF Regroup
<1> QED
  BY <1>8, <1>9, GoesBy

\* The pool or the host group becomes active.
LEMMA ReviveMirrors ==
  ASSUME Inv, NEW c \in Call, Stand(c), Revive(c),
         Apart(report[call[c].system])
  PROVE  GoesOn(c)
<1> DEFINE l == call[c]
           s == l.system
           r == report[s]
           once == s \notin overlapped
<1>1. Typed(l) /\ Placed(entity, l) /\ l.at = "revive" /\ Rows(entity)
  BY CallAt DEF Revive, Inv
<1>2. Mirrors(entity, l, r, once)
  BY DEF Stand
<1>3. CASE l.phase = "pool"
  <2> DEFINE next == [l EXCEPT !.at = "retireGroups"]
  <2>1. /\ OnlyThese(entity, s, "POOL", PoolNames(r))
        /\ ToSet(l.pools) \subseteq ToSet(r.pools) /\ l.pool \in ToSet(r.pools)
        /\ \A p \in ToSet(r.pools) :
              p \in ToSet(l.pools) \/ p = l.pool \/ Mirrored(entity, s, r, once, p)
        /\ entity[l.id].name = l.pool.name
    BY <1>1, <1>2, <1>3 DEF Mirrors, InPools, PoolsGoOn
  <2>2. PartOf(entity, l.id, "POOL", s)
    BY <1>1, <1>3 DEF Placed, AtPool
  <2>3. /\ DOMAIN entity' = DOMAIN entity
        /\ \A f \in DOMAIN entity : f # l.id => entity'[f] = entity[f]
        /\ entity'[l.id].name = l.pool.name /\ entity'[l.id].type = "POOL"
        /\ entity'[l.id].parent = Root[s] /\ entity'[l.id].status = "ACTIVE"
        /\ entity'[l.id].number = l.pool.id
    <3>1. entity' = [entity EXCEPT ![l.id].number = l.pool.id, ![l.id].status = "ACTIVE"]
      BY <1>3 DEF Revive
    <3>2. DOMAIN entity[l.id] = {"name", "type", "parent", "number", "status"}
      BY <1>1, <2>2 DEF Rows, PartOf
    <3> QED
      BY <2>1, <2>2, <3>1, <3>2 DEF PartOf
  <2>4. ASSUME NEW p \in ToSet(r.pools), p # l.pool
        PROVE  Spares(entity, entity', s, r, p)
    <3>1. l.pool.name # p.name
      BY <2>1, <2>4 DEF Apart
    <3> QED
      BY <2>1, <2>2, <2>3, <3>1 DEF Spares, PartOf
  <2>5. Steps(c, next)
    BY <1>3 DEF Revive
  <2>6. /\ next.at = "retireGroups" /\ next.system = s /\ next.pool = l.pool
        /\ next.pools = l.pools /\ next.id = l.id
    BY <1>1 DEF Typed
  <2> HIDE DEF next
  <2>7. OnlyThese(entity', s, "POOL", PoolNames(r))
    BY <2>1, <2>3 DEF OnlyThese, ActivePart, PartOf, PoolNames
  <2>8. IsPool(entity', s, l.id, l.pool)
    BY <2>2, <2>3 DEF IsPool, ActivePart, PartOf
  <2>9. InPools(next) /\ ~InGroups(next) /\ ~PastPools(next)
    BY <2>6 DEF InHosts, InPools, AtItsPool, InGroups, PastPools
  <2>10. \A p \in ToSet(r.pools) :
            p \in ToSet(l.pools) \/ p = l.pool \/ Mirrored(entity', s, r, once, p)
    BY <2>1, <2>4, MirroredStays
  <2>11. PoolsGoOn(entity', next, r, once)
    BY <2>1, <2>3, <2>6, <2>8, <2>9, <2>10 DEF PoolsGoOn
  <2>12. Mirrors(entity', next, r, once)
    BY <2>6, <2>7, <2>9, <2>11 DEF Mirrors, PastPools
  <2> QED
    BY <2>5, <2>6, <2>12, GoesBy DEF Proceeds
<1>4. CASE l.phase # "pool"
  <2>1. l.phase = "host" /\ PartOf(entity, l.id, "HOST_GROUP", s)
    BY <1>1, <1>4 DEF Placed
  <2>2. PoolsDone(entity, s, r, once) /\ HostsGoOn(entity, l, r)
    BY <1>1, <1>2, <2>1 DEF Mirrors, PastPools, InHosts, PoolsDone
  <2>3. PICK h \in ToSet(r.hosts) :
          /\ entity[l.id].name = h
          /\ \A g \in ToSet(r.hosts) :
                g \in ToSet(l.hosts) \/ g = h \/ Present(entity, s, "HOST_GROUP", g)
    BY <1>1, <2>2 DEF HostsGoOn
  <2>4. /\ DOMAIN entity' = DOMAIN entity
        /\ \A f \in DOMAIN entity : f # l.id => entity'[f] = entity[f]
        /\ entity'[l.id].name = h /\ entity'[l.id].type = "HOST_GROUP"
        /\ entity'[l.id].parent = Root[s] /\ entity'[l.id].status = "ACTIVE"
    <3>1. entity' = [entity EXCEPT ![l.id].status = "ACTIVE"]
      BY <1>4 DEF Revive
    <3>2. DOMAIN entity[l.id] = {"name", "type", "parent", "number", "status"}
      BY <1>1, <2>1 DEF Rows, PartOf
    <3> QED
      BY <2>1, <2>3, <3>1, <3>2 DEF PartOf
  <2>5. PoolsDone(entity', s, r, once)
    <3>1. \A p : Spares(entity, entity', s, r, p)
      BY <2>1, <2>4 DEF Spares, PartOf
    <3>2. OnlyThese(entity', s, "POOL", PoolNames(r))
      BY <2>2, <2>4 DEF PoolsDone, OnlyThese, ActivePart, PartOf
    <3> QED
      BY <2>2, <3>1, <3>2, MirroredStays DEF PoolsDone
  <2>6. OnlyThese(entity', s, "HOST_GROUP", ToSet(r.hosts))
    BY <2>2, <2>4 DEF HostsGoOn, OnlyThese, ActivePart, PartOf
  <2>7. \A g \in ToSet(r.hosts) :
           g \in ToSet(l.hosts) \/ Present(entity', s, "HOST_GROUP", g)
    <3>1. Present(entity', s, "HOST_GROUP", h)
      BY <2>1, <2>4 DEF Present, ActivePart, PartOf
    <3>2. \A g : Present(entity, s, "HOST_GROUP", g) => Present(entity', s, "HOST_GROUP", g)
      BY <2>1, <2>3, <2>4 DEF Present, ActivePart, PartOf
    <3> QED
      BY <2>3, <3>1, <3>2
  <2>8. Steps(c, NextHost(l)) /\ ToSet(l.hosts) \subseteq ToSet(r.hosts)
    BY <1>4, <2>2 DEF Revive, HostsGoOn
  <2>9. Proceeds(entity', NextHost(l), s, r, once)
    BY <1>1, <2>5, <2>6, <2>7, <2>8, NextHostMirrors
  <2> QED
    BY <2>8, <2>9, GoesBy
<1> QED
  BY <1>3, <1>4

\* Every step of a call that runs alone brings the tables closer to the report.
LEMMA CallMirrors ==
  ASSUME Inv, OnceInv, StatusOK, NEW c \in Call, CallStep(c), Stand(c),
         Apart(report[call[c].system]), ~At(c, "status") \/ call'[c] # Idle
  PROVE  GoesOn(c)
<1>1. CASE GetStatus(c)
  <2>1. call'[c] # Idle
    BY <1>1 DEF GetStatus
  <2> QED
    BY <1>1, <2>1, RequestsMirror
<1> QED
  BY <1>1, FindPartMirrors, InsertStepMirrors, RequestsMirror, RetirePoolsMirrors,
     RetireHostsMirrors, RetireGroupsMirrors, ReviveMirrors, PoolIdsMirrors,
     FindGroupMirrors, RegroupMirrors DEF CallStep

\* The inductive invariant: a call that no other has met is alone, and has brought
\* the table as far as the place it is at says.
MirrorInv ==
    /\ StatusOK
    /\ \A c \in quiet : /\ c \in Call
                        /\ Busy(c) => Stand(c) /\ \A d \in Call : Busy(d) => d = c

\* An array has a name only for one of its pools, and a parity group in one of them.
ReportsApart == \A s \in System : \A r \in Report[s] : Apart(r)

\* Statuses are what they may be.
LEMMA StatusInit == Init => StatusOK
<1> SUFFICES ASSUME Init PROVE StatusOK
  OBVIOUS
<1> DEFINE R == [name : STRING, type : STRING, parent : Nat, number : Int,
                 status : {"ACTIVE", "INACTIVE"}]
<1>1. Initial \in Seq(R) /\ entity = Initial
  BY DeviceMapAssumption DEF Init
<1>2. \A row \in R : row.status \in {"ACTIVE", "INACTIVE"}
  OBVIOUS
<1> HIDE DEF R
<1>3. DOMAIN Initial = 1..Len(Initial)
  BY <1>1
<1>4. \A e \in DOMAIN Initial : Initial[e] \in R
  BY <1>1, <1>3
<1> QED
  BY <1>1, <1>2, <1>4 DEF StatusOK

LEMMA StatusStep ==
  ASSUME Inv, StatusOK, NEW c \in Call, CallStep(c)
  PROVE  StatusOK'
<1>1. CASE entity' = entity
  BY <1>1 DEF StatusOK
<1>2. CASE Insert(c)
  <2>1. PICK new, row : Extended(entity, entity', new, row) /\ row.status = "ACTIVE"
    BY <1>2, InsertGoes
  <2> QED
    BY <2>1 DEF Extended, StatusOK
<1>3. ASSUME NEW type, NEW parent, NEW names, Deactivate(type, parent, names)
      PROVE  StatusOK'
  BY <1>3, DeactivateDoes DEF Inv, StatusOK
<1>4. CASE Revive(c)
  <2>1. \A e \in DOMAIN entity : e # call[c].id => entity'[e] = entity[e]
    BY <1>4, ReviveGoes
  <2> DEFINE e == call[c].id
             row == [entity[e] EXCEPT !.status = "ACTIVE"]
             numbered == [[entity[e] EXCEPT !.number = call[c].pool.id]
                            EXCEPT !.status = "ACTIVE"]
  <2>2. e \in DOMAIN entity /\ DOMAIN entity' = DOMAIN entity
    BY <1>4, ReviveGoes DEF Retouched, PartOf
  <2>3. DOMAIN entity[e] = {"name", "type", "parent", "number", "status"}
    BY <2>2 DEF Inv, Rows
  <2>4. row.status = "ACTIVE" /\ numbered.status = "ACTIVE"
    BY <2>3
  <2>5. entity'[e] = row \/ entity'[e] = numbered
    <3>1. IF call[c].phase = "pool"
          THEN entity' = [entity EXCEPT ![e].number = call[c].pool.id,
                                        ![e].status = "ACTIVE"]
          ELSE entity' = [entity EXCEPT ![e].status = "ACTIVE"]
      BY <1>4 DEF Revive
    <3> HIDE DEF e
    <3> QED
      BY <2>2, <3>1
  <2> HIDE DEF row, numbered
  <2> QED
    BY <2>1, <2>2, <2>4, <2>5 DEF StatusOK
<1>5. CASE Regroup(c)
  <2>1. \A e \in DOMAIN entity : e # call[c].under => entity'[e] = entity[e]
    BY <1>5, RegroupGoes
  <2>2. DOMAIN entity' = DOMAIN entity /\ call[c].under \in DOMAIN entity
    BY <1>5, RegroupGoes DEF Moved
  <2>3. DOMAIN entity[call[c].under] = {"name", "type", "parent", "number", "status"}
    BY <2>2 DEF Inv, Rows
  <2>4. entity'[call[c].under].status = "ACTIVE"
    BY <1>5, <2>2, <2>3 DEF Regroup
  <2> QED
    BY <2>1, <2>2, <2>4 DEF StatusOK
<1> QED
  BY <1>1, <1>2, <1>3, <1>4, <1>5, ReadRetouches, Zenon
     DEF CallStep, FindPart, GetStatus, GetPoolInfo, PoolIds, FindGroup, GetChbInfo, PairsFail,
         GetHosts, RetirePools, RetireGroups, RetireHosts

\* The invariant is kept.
LEMMA MirrorStep ==
  ASSUME ReportsApart, Inv, OnceInv, TypeOK, MirrorInv, [Next]_vars
  PROVE  MirrorInv'
<1> USE DEF Busy, At
<1>1. ASSUME NEW c \in Call, CallStep(c)
      PROVE  MirrorInv'
  <2>1. StatusOK'
    BY <1>1, StatusStep DEF MirrorInv
  <2>2. /\ report' = report /\ overlapped' = overlapped /\ quiet' = quiet
        /\ call[c].at # "idle" /\ call[c].system \in System
    BY <1>1, CallAt, Zenon DEF CallStep, FindPart, Insert, GetStatus, GetPoolInfo, RetirePools,
       Revive, RetireGroups, PoolIds, FindGroup, Regroup, GetChbInfo, PairsFail, GetHosts,
       RetireHosts, Reads, Writes, history
  <2>3. \A d \in Call : d # c => call'[d] = call[d]
    BY <1>1, OneCallSteps
  <2>4. ASSUME NEW d \in quiet, call'[d].at # "idle"
        PROVE  Stand(d)' /\ \A f \in Call : call'[f].at # "idle" => f = d
    <3>1. d = c
      BY <2>2, <2>3, <2>4 DEF MirrorInv
    <3>2. Stand(c) /\ \A f \in Call : call[f].at # "idle" => f = c
      BY <2>2, <2>4, <3>1 DEF MirrorInv
    <3>3. Apart(report[call[c].system])
      BY <2>2 DEF ReportsApart, TypeOK
    <3>4. call'[c] # Idle
      BY <2>4, <3>1 DEF Idle
    <3>5. GoesOn(c)
      BY <1>1, <3>2, <3>3, <3>4, CallMirrors DEF MirrorInv
    <3>6. /\ call'[c].system = call[c].system
          /\ Mirrors(entity', call'[c], report[call[c].system],
                     call[c].system \notin overlapped)
      BY <3>4, <3>5 DEF GoesOn, Proceeds
    <3>7. Stand(c)'
      BY <2>2, <3>6 DEF Stand
    <3> QED
      BY <2>3, <3>1, <3>2, <3>7
  <2> QED
    BY <2>1, <2>2, <2>4 DEF MirrorInv
<1>2. ASSUME NEW c \in Call, AtStart(c) \/ Updated(c)
      PROVE  MirrorInv'
  <2>1. PICK s \in System : Starts(c, s)
    BY <1>2 DEF AtStart, Updated
  <2>2. /\ entity' = entity
        /\ \A d \in Call : call'[d] = IF d = c THEN NewCall(s) ELSE call[d]
        /\ NewCall(s).at = "status"
        /\ quiet' = IF \E d \in Call : call[d].at # "idle" THEN {} ELSE {c}
    BY <2>1, NewCallOK DEF Starts, Steps, Inv, CallsOK, tables
  <2> DEFINE new == NewCall(s)
  <2> HIDE DEF new
  <2>3. StatusOK'
    BY <2>2 DEF MirrorInv, StatusOK
  <2>4. \A table, r, once : Mirrors(table, NewCall(s), r, once)
    BY <2>2 DEF Mirrors, InHosts, InPools, AtItsPool, InGroups, PastPools
  <2>5. call'[c] = NewCall(s)
    BY <2>2
  <2>6. Stand(c)'
    BY <2>4, <2>5 DEF Stand
  <2> QED
    BY <2>2, <2>3, <2>6 DEF MirrorInv
<1>3. CASE Crash \/ ReportChanges
  BY <1>3 DEF Crash, ReportChanges, MirrorInv, StatusOK, tables
<1>4. CASE Subscribe \/ UNCHANGED vars
  BY <1>4 DEF Subscribe, vars, tables, history, MirrorInv, StatusOK, Stand
<1> QED
  BY <1>1, <1>2, <1>3, <1>4 DEF Next

\* The names of the active parts of a type.
LEMMA NamesAre ==
  ASSUME NEW t, NEW s, NEW type, NEW names, OnlyThese(t, s, type, names),
         \A name \in names : Present(t, s, type, name)
  PROVE  {t[g].name : g \in {f \in Children(t, Root[s]) :
                                t[f].type = type /\ t[f].status = "ACTIVE"}} = names
<1> DEFINE found == {f \in Children(t, Root[s]) :
                        t[f].type = type /\ t[f].status = "ACTIVE"}
<1>1. \A f : f \in found <=> ActivePart(t, f, type, s)
  BY DEF Children, ActivePart, PartOf
<1> HIDE DEF found
<1>2. \A name : name \in {t[g].name : g \in found} <=> name \in names
  BY <1>1 DEF OnlyThese, Present
<1>3. {t[g].name : g \in found} = names
  BY <1>2
<1> QED
  BY <1>3 DEF found

\* What DoneMirrors says is what the properties ask for.
LEMMA DoneIsMirror ==
  ASSUME NEW s \in System, NEW once, DoneMirrors(entity', s, report'[s], once)
  PROVE  ListsMirror(s)' /\ (once => PoolsMirror(s)')
<1> DEFINE r == report'[s]
           Active(e, type) == {f \in Children(entity', e) :
                                  entity'[f].type = type /\ entity'[f].status = "ACTIVE"}
           In(found) == {entity'[g].name : g \in found}
<1>1. In(Active(Root[s], "POOL")) = PoolNames(r)
  <2>1. \A name \in PoolNames(r) : Present(entity', s, "POOL", name)
    BY DEF DoneMirrors, PoolNames, Mirrored, IsPool, Present
  <2>2. OnlyThese(entity', s, "POOL", PoolNames(r))
    BY DEF DoneMirrors
  <2> QED
    BY <2>1, <2>2, NamesAre
<1>2. In(Active(Root[s], "HOST_GROUP")) = ToSet(r.hosts)
  <2>1. /\ OnlyThese(entity', s, "HOST_GROUP", ToSet(r.hosts))
        /\ \A h \in ToSet(r.hosts) : Present(entity', s, "HOST_GROUP", h)
    BY DEF DoneMirrors
  <2> QED
    BY <2>1, NamesAre
<1>3. ListsMirror(s)'
  BY <1>1, <1>2 DEF ListsMirror, Names, ActiveBelow, Is, PoolNames
<1>4. ASSUME once, NEW p \in ToSet(r.pools)
      PROVE  \E e \in Active(Root[s], "POOL") :
                /\ entity'[e].name = p.name /\ entity'[e].number = p.id
                /\ \/ e \in Numbers(r)
                   \/ ToSet(p.groups) \subseteq In(Active(e, "PARITY_GROUP"))
  <2>1. PICK e \in DOMAIN entity' :
          /\ IsPool(entity', s, e, p) /\ entity'[e].number = p.id
          /\ e \in Numbers(r) \/ \A g \in ToSet(p.groups) : GroupAt(entity', e, g)
    BY <1>4 DEF DoneMirrors, Mirrored
  <2>2. e \in Active(Root[s], "POOL") /\ entity'[e].name = p.name
    BY <2>1 DEF IsPool, ActivePart, PartOf, Children
  <2>3. ASSUME NEW g, GroupAt(entity', e, g)
        PROVE  g \in In(Active(e, "PARITY_GROUP"))
    BY <2>3 DEF GroupAt, Children
  <2> QED
    BY <2>1, <2>2, <2>3
<1>5. once => PoolsMirror(s)'
  BY <1>4 DEF PoolsMirror, Names, ActiveBelow, Is, Numbers
<1> QED
  BY <1>3, <1>5

\* A call that runs to its end alone, while the report stays, leaves the pools, the
\* host groups and the parity groups of the system as the maintainer reports them,
\* whatever other calls left behind.
THEOREM QuietUpdatesMirror ==
  ASSUME ReportsApart
  PROVE  Spec => QuietCallMirrors
<1> DEFINE A == \A c \in quiet, s \in System :
                   /\ Busy(c) /\ ~At(c, "status") /\ call[c].system = s
                   /\ call'[c] = Idle /\ crashes' = crashes
                   => ListsMirror(s)' /\ (s \in overlapped \/ PoolsMirror(s)')
<1>1. Init => MirrorInv
  BY StatusInit DEF Init, MirrorInv
<1>2. Inv /\ OnceInv /\ TypeOK /\ MirrorInv /\ [Next]_vars => MirrorInv'
  BY MirrorStep
<1>3. Inv /\ OnceInv /\ TypeOK /\ MirrorInv /\ [Next]_vars => [A]_vars
  <2> SUFFICES ASSUME Inv, OnceInv, TypeOK, MirrorInv, Next,
                      NEW c \in quiet, NEW s \in System,
                      Busy(c), ~At(c, "status"), call[c].system = s,
                      call'[c] = Idle, crashes' = crashes
               PROVE  ListsMirror(s)' /\ (s \in overlapped \/ PoolsMirror(s)')
    OBVIOUS
  <2>1. c \in Call /\ Stand(c)
    BY DEF MirrorInv
  <2>2. ~Crash
    <3>1. crashes \in Nat
      BY DeviceMapAssumption DEF TypeOK
    <3> QED
      BY <3>1 DEF Crash
  <2>3. call'[c] # call[c]
    BY DEF Busy, At, Idle
  <2>4. PICK d \in Call : AtStart(d) \/ Updated(d) \/ CallStep(d)
    BY <2>2, <2>3 DEF Next, Subscribe, ReportChanges
  <2>5. CallStep(d)
    <3>1. ASSUME NEW r \in System, Starts(d, r)
          PROVE  FALSE
      <4>1. call' = [call EXCEPT ![d] = NewCall(r)] /\ c # d
        BY <2>1, <3>1 DEF Starts, Steps
      <4> QED
        BY <2>1, <2>3, <4>1 DEF Inv, CallsOK
    <3> QED
      BY <2>4, <3>1 DEF AtStart, Updated
  <2>6. d = c
    BY <2>1, <2>3, <2>5, OneCallSteps
  <2>7. /\ Apart(report[s]) /\ report' = report
    <3>1. report' = report
      BY <2>5, CallGoes DEF Goes
    <3> QED
      BY <3>1 DEF ReportsApart, TypeOK
  <2>8. GoesOn(c)
    BY <2>1, <2>5, <2>6, <2>7, CallMirrors DEF MirrorInv
  <2>9. DoneMirrors(entity', s, report[s], s \notin overlapped)
    BY <2>8 DEF GoesOn, Proceeds, Idle
  <2> QED
    BY <2>7, <2>9, DoneIsMirror
<1> QED
  BY <1>1, <1>2, <1>3, Invariance, OnceInit, OnceStep, TypeCorrect, PTL
     DEF Spec, QuietCallMirrors
=============================================================================
