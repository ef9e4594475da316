------------------------- MODULE EntityTablesProofs --------------------------
(***************************************************************************)
(* What the operators of EntityTables return, and what the changes of the  *)
(* closure table preserve.                                                 *)
(***************************************************************************)
EXTENDS EntityTables, TLAPS

-----------------------------------------------------------------------------
(* The subtree of an entity.                                               *)

\* Below an entity is what has its parent there.
LEMMA BelowByParent ==
  ASSUME NEW t, NEW a \in DOMAIN t
  PROVE  /\ Below(t, a) \subseteq DOMAIN t /\ a \in Below(t, a)
         /\ \A e \in DOMAIN t :
               e # a => (e \in Below(t, a) <=> t[e].parent \in Below(t, a))
         /\ \A S \in SUBSET DOMAIN t :
               a \in S /\ (\A e \in DOMAIN t : t[e].parent \in S => e \in S)
               => Below(t, a) \subseteq S
<1> DEFINE Closed(S) == a \in S /\ \A e \in DOMAIN t : t[e].parent \in S => e \in S
           B == Below(t, a)
<1>1. B = {e \in DOMAIN t : \A S \in SUBSET DOMAIN t : Closed(S) => e \in S}
  <2>1. {a} \cup DOMAIN t = DOMAIN t /\ DOMAIN t \cap DOMAIN t = DOMAIN t
    OBVIOUS
  <2>2. Below(t, a) = Hanging(t, DOMAIN t, a)
    BY <2>1, Zenon DEF Below
  <2> QED
    BY <2>1, <2>2, Zenon DEF Hanging
<1> HIDE DEF B
<1>2. B \subseteq DOMAIN t /\ a \in B
  BY <1>1
<1>3. ASSUME NEW e \in DOMAIN t, t[e].parent \in B
      PROVE  e \in B
  BY <1>1, <1>3
<1>4. ASSUME NEW e \in B, e # a, t[e].parent \notin B
      PROVE  FALSE
  <2> DEFINE S == B \ {e}
  <2>1. S \in SUBSET DOMAIN t /\ a \in S /\ e \notin S
    BY <1>2, <1>4
  <2>2. \A f \in DOMAIN t : t[f].parent \in S => f \in S
    BY <1>3, <1>4
  <2> HIDE DEF S
  <2>3. Closed(S)
    BY <2>1, <2>2
  <2> QED
    BY <1>1, <2>1, <2>3
<1>5. ASSUME NEW S \in SUBSET DOMAIN t, Closed(S)
      PROVE  B \subseteq S
  BY <1>1, <1>5
<1>6. \A e \in DOMAIN t : e # a => (e \in B <=> t[e].parent \in B)
  BY <1>3, <1>4
<1> QED
  BY <1>2, <1>5, <1>6 DEF B

\* Two tables that agree on the parents of the rows they share: what is below an
\* entity stays below it, if no row has its parent among those that are gone.
LEMMA BelowKept ==
  ASSUME NEW t, NEW u, NEW a \in DOMAIN t, a \in DOMAIN u,
         \A e \in DOMAIN t \cap DOMAIN u : u[e].parent = t[e].parent,
         \A e \in DOMAIN t : t[e].parent \in DOMAIN t => t[e].parent \in DOMAIN u
  PROVE  \A e \in Below(t, a) : e \in DOMAIN u => e \in Below(u, a)
<1> DEFINE S == {e \in DOMAIN t : e \in DOMAIN u => e \in Below(u, a)}
<1>1. S \in SUBSET DOMAIN t
  OBVIOUS
<1>2. /\ a \in Below(u, a)
      /\ \A e \in DOMAIN u :
            e # a => (e \in Below(u, a) <=> u[e].parent \in Below(u, a))
  BY BelowByParent
<1>3. a \in S
  BY <1>2
<1>4. ASSUME NEW e \in DOMAIN t, t[e].parent \in S
      PROVE  e \in S
  <2>1. t[e].parent \in Below(u, a)
    BY <1>4
  <2>2. e \in DOMAIN u => e \in Below(u, a)
    BY <1>2, <2>1
  <2> QED
    BY <2>2
<1> HIDE DEF S
<1>5. Below(t, a) \subseteq S
  BY <1>1, <1>3, <1>4, BelowByParent
<1> QED
  BY <1>5 DEF S

-----------------------------------------------------------------------------
(* The closure table.                                                      *)

Pairs(closure, ids) == closure \subseteq ids \X ids

Transitive(closure) ==
    \A a, b, e : <<a, b>> \in closure /\ <<b, e>> \in closure => <<a, e>> \in closure

\* The two columns of the closure table.
LEMMA Columns ==
  ASSUME NEW closure, NEW ids, Pairs(closure, ids)
  PROVE  /\ \A a, e : a \in Ancestors(closure, e) <=> <<a, e>> \in closure
         /\ \A a, e : e \in Descendants(closure, a) <=> <<a, e>> \in closure
         /\ \A p \in closure : p = <<p[1], p[2]>> /\ p[1] \in ids /\ p[2] \in ids
         /\ \A a, e : <<a, e>> \in closure => a \in ids /\ e \in ids
         /\ \A e : Ancestors(closure, e) \subseteq ids /\ Descendants(closure, e) \subseteq ids
<1>1. \A p \in closure : p = <<p[1], p[2]>> /\ p[1] \in ids /\ p[2] \in ids
  BY DEF Pairs
<1>2. ASSUME NEW a, NEW e
      PROVE  /\ a \in Ancestors(closure, e) <=> <<a, e>> \in closure
             /\ e \in Descendants(closure, a) <=> <<a, e>> \in closure
  BY <1>1 DEF Ancestors, Descendants
<1>3. \A a, e : <<a, e>> \in closure => a \in ids /\ e \in ids
  BY DEF Pairs
<1> QED
  BY <1>1, <1>2, <1>3

\* The rows of a new entity are pairs of the entities that there are then.
LEMMA PairsLinked ==
  ASSUME NEW closure, NEW ids, Pairs(closure, ids), NEW id, NEW parent
  PROVE  Pairs(closure \cup LinkNew(closure, id, parent), ids \cup {id})
<1>1. Ancestors(closure, parent) \subseteq ids
  BY Columns
<1>2. LinkNew(closure, id, parent) \subseteq (ids \cup {id}) \X (ids \cup {id})
  BY <1>1 DEF LinkNew
<1>3. closure \subseteq (ids \cup {id}) \X (ids \cup {id})
  BY DEF Pairs
<1> QED
  BY <1>2, <1>3 DEF Pairs

\* ClosureOf, pair by pair.
LEMMA ClosureByPair ==
  ASSUME NEW t, NEW closure, NEW ids, Pairs(closure, ids)
  PROVE  ClosureOf(t, closure)
         <=> /\ \A e \in DOMAIN t : <<e, e>> \in closure
                   => \A a : <<a, e>> \in closure
                             <=> a = e \/ <<a, t[e].parent>> \in closure
             /\ \A a, e : <<a, e>> \in closure
                   => <<a, a>> \in closure /\ <<e, e>> \in closure
<1>1. ASSUME NEW e \in DOMAIN t
      PROVE  Ancestors(closure, e) = {e} \cup Ancestors(closure, t[e].parent)
             <=> \A a : <<a, e>> \in closure
                        <=> a = e \/ <<a, t[e].parent>> \in closure
  <2> DEFINE A == Ancestors(closure, e)
             B == Ancestors(closure, t[e].parent)
  <2>1. \A a : (a \in A <=> <<a, e>> \in closure)
               /\ (a \in B <=> <<a, t[e].parent>> \in closure)
    BY Columns
  <2> HIDE DEF A, B
  <2>2. A = {e} \cup B <=> \A a : a \in A <=> a = e \/ a \in B
    OBVIOUS
  <2>3. A = {e} \cup B
        <=> \A a : <<a, e>> \in closure <=> a = e \/ <<a, t[e].parent>> \in closure
    BY <2>1, <2>2
  <2> QED
    BY <2>3, Zenon DEF A, B
<1>2. (\A p \in closure : <<p[1], p[1]>> \in closure /\ <<p[2], p[2]>> \in closure)
      <=> \A a, e : <<a, e>> \in closure
                    => <<a, a>> \in closure /\ <<e, e>> \in closure
  <2>1. \A p \in closure : p = <<p[1], p[2]>>
    BY Columns
  <2>2. ASSUME \A p \in closure : <<p[1], p[1]>> \in closure /\ <<p[2], p[2]>> \in closure,
               NEW a, NEW e, <<a, e>> \in closure
        PROVE  <<a, a>> \in closure /\ <<e, e>> \in closure
    <3> DEFINE p == <<a, e>>
    <3>1. <<p[1], p[1]>> \in closure /\ <<p[2], p[2]>> \in closure
      BY <2>2
    <3> QED
      BY <3>1
  <2>3. ASSUME \A a, e : <<a, e>> \in closure
                         => <<a, a>> \in closure /\ <<e, e>> \in closure,
               NEW p \in closure
        PROVE  <<p[1], p[1]>> \in closure /\ <<p[2], p[2]>> \in closure
    <3>1. <<p[1], p[2]>> \in closure
      BY <2>1
    <3> QED
      BY <2>3, <3>1
  <2> QED
    BY <2>2, <2>3
<1>3. ClosureOf(t, closure)
      <=> /\ \A e \in DOMAIN t : <<e, e>> \in closure
                => Ancestors(closure, e) = {e} \cup Ancestors(closure, t[e].parent)
          /\ \A p \in closure : <<p[1], p[1]>> \in closure /\ <<p[2], p[2]>> \in closure
  BY Zenon DEF ClosureOf, Detached
<1> QED
  BY <1>1, <1>2, <1>3, Zenon

\* The row of a new entity and its closure rows, below a parent that is there.
LEMMA LeafLinked ==
  ASSUME NEW t, NEW u, NEW closure, NEW id, NEW parent,
         Pairs(closure, DOMAIN t), ClosureOf(t, closure), Transitive(closure),
         id \notin DOMAIN t, DOMAIN u = DOMAIN t \cup {id},
         \A e \in DOMAIN t : u[e].parent = t[e].parent /\ t[e].parent # id,
         u[id].parent = parent, parent # id
  PROVE  LET more == closure \cup LinkNew(closure, id, parent)
         IN Pairs(more, DOMAIN u) /\ ClosureOf(u, more) /\ Transitive(more)
<1> DEFINE more == closure \cup LinkNew(closure, id, parent)
<1>1. \A a, e : <<a, e>> \in closure => a \in DOMAIN t /\ e \in DOMAIN t
  BY DEF Pairs
<1>2. \A a, e : <<a, e>> \in more
                <=> \/ <<a, e>> \in closure
                    \/ e = id /\ (a = id \/ <<a, parent>> \in closure)
  <2>1. \A a, e : <<a, e>> \in LinkNew(closure, id, parent)
                  <=> e = id /\ (a = id \/ a \in Ancestors(closure, parent))
    BY DEF LinkNew
  <2>2. \A a : a \in Ancestors(closure, parent) <=> <<a, parent>> \in closure
    BY Columns
  <2> QED
    BY <2>1, <2>2
<1>3. Pairs(more, DOMAIN u)
  <2>1. ASSUME NEW a \in Ancestors(closure, parent)
        PROVE  a \in DOMAIN t
    <3>1. <<a, parent>> \in closure
      BY Columns
    <3> QED
      BY <1>1, <3>1
  <2>2. LinkNew(closure, id, parent) \subseteq (DOMAIN u) \X (DOMAIN u)
    BY <2>1 DEF LinkNew
  <2> QED
    BY <2>2 DEF Pairs
<1> HIDE DEF more
<1>4. /\ \A e \in DOMAIN t : <<e, e>> \in closure
            => \A a : <<a, e>> \in closure <=> a = e \/ <<a, t[e].parent>> \in closure
      /\ \A a, e : <<a, e>> \in closure
            => <<a, a>> \in closure /\ <<e, e>> \in closure
  BY ClosureByPair
<1>5. ASSUME NEW e \in DOMAIN u, <<e, e>> \in more, NEW a
      PROVE  <<a, e>> \in more <=> a = e \/ <<a, u[e].parent>> \in more
  <2>1. CASE e = id
    BY <1>1, <1>2, <2>1
  <2>2. CASE e \in DOMAIN t
    <3>1. e # id /\ u[e].parent = t[e].parent /\ t[e].parent # id
      BY <2>2
    <3>2. <<e, e>> \in closure
      BY <1>2, <1>5, <3>1
    <3>3. <<a, e>> \in closure <=> a = e \/ <<a, t[e].parent>> \in closure
      BY <1>4, <2>2, <3>2
    <3> QED
      BY <1>2, <3>1, <3>3
  <2> QED
    BY <2>1, <2>2
<1>6. \A a, e : <<a, e>> \in more => <<a, a>> \in more /\ <<e, e>> \in more
  BY <1>2, <1>4
<1>7. ClosureOf(u, more)
  BY <1>3, <1>5, <1>6, ClosureByPair
<1>8. ASSUME NEW a, NEW b, NEW e, <<a, b>> \in more, <<b, e>> \in more
      PROVE  <<a, e>> \in more
  <2>1. CASE b = id
    BY <1>1, <1>2, <1>8, <2>1
  <2>2. CASE b # id
    <3>1. <<a, b>> \in closure
      BY <1>2, <1>8, <2>2
    <3>2. <<b, e>> \in closure \/ (e = id /\ <<b, parent>> \in closure)
      BY <1>2, <1>8, <2>2
    <3>3. <<a, e>> \in closure \/ (e = id /\ <<a, parent>> \in closure)
      BY <3>1, <3>2 DEF Transitive
    <3> QED
      BY <1>2, <3>3
  <2> QED
    BY <2>1, <2>2
<1>9. Transitive(more)
  BY <1>8 DEF Transitive
<1> QED
  BY <1>3, <1>7, <1>9 DEF more

\* The first query of a deletion: a subtree becomes unknown, and what is left is
\* as exact as before.
LEMMA SubtreeForgotten ==
  ASSUME NEW t, NEW closure, NEW id, NEW ids, Pairs(closure, ids),
         ClosureOf(t, closure), Transitive(closure)
  PROVE  LET less == WithoutSubtree(closure, id)
         IN ClosureOf(t, less) /\ Transitive(less)
<1> DEFINE less == WithoutSubtree(closure, id)
<1>1. \A a, e : <<a, e>> \in less <=> <<a, e>> \in closure /\ <<id, e>> \notin closure
  BY Columns DEF WithoutSubtree
<1>2. Pairs(less, ids)
  BY DEF WithoutSubtree, Pairs
<1> HIDE DEF less
<1>3. /\ \A e \in DOMAIN t : <<e, e>> \in closure
            => \A a : <<a, e>> \in closure <=> a = e \/ <<a, t[e].parent>> \in closure
      /\ \A a, e : <<a, e>> \in closure
            => <<a, a>> \in closure /\ <<e, e>> \in closure
  BY ClosureByPair
<1>4. ASSUME NEW e \in DOMAIN t, <<e, e>> \in less, NEW a
      PROVE  <<a, e>> \in less <=> a = e \/ <<a, t[e].parent>> \in less
  <2>1. <<e, e>> \in closure /\ <<id, e>> \notin closure
    BY <1>1, <1>4
  <2>2. \A b : <<b, e>> \in closure <=> b = e \/ <<b, t[e].parent>> \in closure
    BY <1>3, <2>1
  <2>3. <<id, t[e].parent>> \notin closure
    BY <2>1, <2>2
  <2> QED
    BY <1>1, <2>1, <2>2, <2>3
<1>5. ASSUME NEW a, NEW e, <<a, e>> \in less
      PROVE  <<a, a>> \in less /\ <<e, e>> \in less
  <2>1. <<a, e>> \in closure /\ <<id, e>> \notin closure
    BY <1>1, <1>5
  <2>2. <<a, a>> \in closure /\ <<e, e>> \in closure
    BY <1>3, <2>1
  <2>3. <<id, a>> \notin closure
    BY <2>1 DEF Transitive
  <2> QED
    BY <1>1, <2>1, <2>2, <2>3
<1>6. ClosureOf(t, less)
  BY <1>2, <1>4, <1>5, ClosureByPair
<1>7. Transitive(less)
  <2> SUFFICES ASSUME NEW a, NEW b, NEW e, <<a, b>> \in less, <<b, e>> \in less
               PROVE  <<a, e>> \in less
    BY DEF Transitive
  <2> QED
    BY <1>1 DEF Transitive
<1> QED
  BY <1>6, <1>7 DEF less

\* Rows may go that the closure table does not mention, and the others may
\* change, as long as their parents stay.
LEMMA SameParentsClosed ==
  ASSUME NEW t, NEW u, NEW closure, NEW ids, Pairs(closure, ids),
         ClosureOf(t, closure), DOMAIN u \subseteq DOMAIN t,
         \A e \in DOMAIN u : u[e].parent = t[e].parent
  PROVE  ClosureOf(u, closure)
<1>1. /\ \A e \in DOMAIN t : <<e, e>> \in closure
            => \A a : <<a, e>> \in closure <=> a = e \/ <<a, t[e].parent>> \in closure
      /\ \A a, e : <<a, e>> \in closure
            => <<a, a>> \in closure /\ <<e, e>> \in closure
  BY ClosureByPair
<1>2. \A e \in DOMAIN u : <<e, e>> \in closure
            => \A a : <<a, e>> \in closure <=> a = e \/ <<a, u[e].parent>> \in closure
  BY <1>1
<1> QED
  BY <1>1, <1>2, ClosureByPair

-----------------------------------------------------------------------------
(* Moving a subtree.                                                       *)

\* A tree that the closure table describes in full.
KeptTree(t, closure) ==
    /\ ClosureOf(t, closure)
    /\ Transitive(closure)
    /\ \A e \in DOMAIN t : <<e, e>> \in closure
    /\ Acyclic(t)

LEMMA KeptByPair ==
  ASSUME NEW t, NEW closure, Pairs(closure, DOMAIN t), KeptTree(t, closure)
  PROVE  /\ \A e \in DOMAIN t : <<e, e>> \in closure
         /\ \A e \in DOMAIN t : \A a :
               <<a, e>> \in closure <=> a = e \/ <<a, t[e].parent>> \in closure
         /\ \A a, b, e : <<a, b>> \in closure /\ <<b, e>> \in closure => <<a, e>> \in closure
         /\ \A a, e : <<a, e>> \in closure => a \in DOMAIN t /\ e \in DOMAIN t
         /\ \A S \in SUBSET DOMAIN t : S # {} => \E e \in S : t[e].parent \notin S
<1>1. \A e \in DOMAIN t : <<e, e>> \in closure
  BY DEF KeptTree
<1>2. \A e \in DOMAIN t : \A a :
         <<a, e>> \in closure <=> a = e \/ <<a, t[e].parent>> \in closure
  BY <1>1, ClosureByPair DEF KeptTree
<1>3. \A a, e : <<a, e>> \in closure => a \in DOMAIN t /\ e \in DOMAIN t
  BY Columns
<1> QED
  BY <1>1, <1>2, <1>3 DEF KeptTree, Transitive, Acyclic

\* An ancestor is no descendant, and of two ancestors one is above the other.
LEMMA OneWayUp ==
  ASSUME NEW t, NEW closure, Pairs(closure, DOMAIN t), KeptTree(t, closure),
         NEW a, NEW b, NEW e
  PROVE  /\ <<a, b>> \in closure /\ <<b, a>> \in closure => a = b
         /\ <<a, e>> \in closure /\ <<b, e>> \in closure
            => <<a, b>> \in closure \/ <<b, a>> \in closure
<1>1. ASSUME <<a, b>> \in closure, <<b, a>> \in closure, a # b
      PROVE  FALSE
  <2> DEFINE S == {x \in DOMAIN t : <<x, b>> \in closure /\ <<b, x>> \in closure}
  <2>1. b \in DOMAIN t /\ <<b, b>> \in closure
    BY <1>1, KeptByPair
  <2>2. S \in SUBSET DOMAIN t /\ S # {}
    BY <2>1
  <2>3. ASSUME NEW x \in S
        PROVE  t[x].parent \in S
    <3> DEFINE q == t[x].parent
    <3>1. x \in DOMAIN t /\ <<x, b>> \in closure /\ <<b, x>> \in closure /\ <<x, x>> \in closure
      BY KeptByPair
    <3>2. \A y : <<y, x>> \in closure <=> y = x \/ <<y, q>> \in closure
      BY <3>1, KeptByPair
    <3>3. <<b, q>> \in closure
      <4>1. CASE x = b
        <5>1. <<a, q>> \in closure
          BY <1>1, <3>2, <4>1
        <5> QED
          BY <1>1, <5>1, KeptByPair
      <4> QED
        BY <3>1, <3>2, <4>1
    <3>4. q \in DOMAIN t /\ <<q, q>> \in closure
      BY <3>3, KeptByPair
    <3>5. <<q, x>> \in closure
      BY <3>2, <3>4
    <3>6. <<q, b>> \in closure
      BY <3>1, <3>5, KeptByPair
    <3> QED
      BY <3>3, <3>4, <3>6
  <2> HIDE DEF S
  <2> QED
    BY <2>2, <2>3, KeptByPair
<1>2. ASSUME <<a, e>> \in closure, <<b, e>> \in closure,
             <<a, b>> \notin closure, <<b, a>> \notin closure
      PROVE  FALSE
  <2> DEFINE S == {x \in DOMAIN t : <<a, x>> \in closure /\ <<b, x>> \in closure}
  <2>1. e \in DOMAIN t
    BY <1>2, KeptByPair
  <2>2. S \in SUBSET DOMAIN t /\ S # {}
    BY <1>2, <2>1
  <2>3. ASSUME NEW x \in S
        PROVE  t[x].parent \in S
    <3> DEFINE q == t[x].parent
    <3>1. x \in DOMAIN t /\ <<a, x>> \in closure /\ <<b, x>> \in closure
      OBVIOUS
    <3>2. x # a /\ x # b
      BY <1>2, <3>1
    <3>3. <<a, q>> \in closure /\ <<b, q>> \in closure
      BY <3>1, <3>2, KeptByPair
    <3>4. q \in DOMAIN t
      BY <3>3, KeptByPair
    <3> QED
      BY <3>3, <3>4
  <2> HIDE DEF S
  <2> QED
    BY <2>2, <2>3, KeptByPair
<1> QED
  BY <1>1, <1>2

\* A new leaf, below a parent that is there or none.
LEMMA LeafKept ==
  ASSUME NEW t, NEW u, NEW closure, NEW id, NEW parent,
         Pairs(closure, DOMAIN t), KeptTree(t, closure),
         id \notin DOMAIN t, DOMAIN u = DOMAIN t \cup {id},
         \A e \in DOMAIN t : u[e].parent = t[e].parent /\ t[e].parent # id,
         u[id].parent = parent, parent # id
  PROVE  KeptTree(u, closure \cup LinkNew(closure, id, parent))
<1> DEFINE more == closure \cup LinkNew(closure, id, parent)
<1>1. ClosureOf(u, more) /\ Transitive(more)
  BY LeafLinked DEF KeptTree
<1>2. \A e \in DOMAIN u : <<e, e>> \in more
  BY DEF KeptTree, LinkNew
<1>3. ASSUME NEW S \in SUBSET DOMAIN u, S # {}, \A e \in S : u[e].parent \in S
      PROVE  FALSE
  <2> DEFINE T == S \ {id}
  <2>1. T \in SUBSET DOMAIN t
    BY <1>3
  <2>2. T # {}
    BY <1>3
  <2>3. \A e \in T : t[e].parent \in T
    BY <1>3, <2>1
  <2> HIDE DEF T
  <2> QED
    BY <2>1, <2>2, <2>3 DEF KeptTree, Acyclic
<1>4. Acyclic(u)
  BY <1>3 DEF Acyclic
<1> QED
  BY <1>1, <1>2, <1>4 DEF KeptTree

\* Columns that are not the parent change nothing.
LEMMA SameParentsKept ==
  ASSUME NEW t, NEW u, NEW closure, Pairs(closure, DOMAIN t), KeptTree(t, closure),
         DOMAIN u = DOMAIN t, \A e \in DOMAIN u : u[e].parent = t[e].parent
  PROVE  KeptTree(u, closure)
<1>1. ClosureOf(u, closure)
  BY SameParentsClosed DEF KeptTree
<1>2. Acyclic(u)
  BY DEF KeptTree, Acyclic
<1> QED
  BY <1>1, <1>2 DEF KeptTree

\* What the queries of a move do, pair by pair.
LEMMA CutByPair ==
  ASSUME NEW closure, NEW ids, Pairs(closure, ids), NEW id
  PROVE  /\ Pairs(CutOff(closure, id), ids)
         /\ \A a, e : <<a, e>> \in CutOff(closure, id)
               <=> /\ <<a, e>> \in closure
                   /\ ~(<<id, e>> \in closure /\ <<a, id>> \in closure /\ a # id)
<1>1. /\ \A a, e : a \in Ancestors(closure, e) <=> <<a, e>> \in closure
      /\ \A a, e : e \in Descendants(closure, a) <=> <<a, e>> \in closure
  BY Columns
<1>2. Pairs(CutOff(closure, id), ids)
  BY DEF CutOff, Pairs
<1>3. ASSUME NEW a, NEW e
      PROVE  <<a, e>> \in CutOff(closure, id)
               <=> /\ <<a, e>> \in closure
                   /\ ~(<<id, e>> \in closure /\ <<a, id>> \in closure /\ a # id)
  BY <1>1 DEF CutOff
<1> QED
  BY <1>2, <1>3

LEMMA LinkByPair ==
  ASSUME NEW closure, NEW ids, Pairs(closure, ids), NEW id, NEW parent
  PROVE  /\ Pairs(closure \cup LinkSubtree(closure, id, parent), ids)
         /\ \A a, e : <<a, e>> \in LinkSubtree(closure, id, parent)
               <=> <<a, parent>> \in closure /\ <<id, e>> \in closure
<1>1. /\ \A a, e : a \in Ancestors(closure, e) <=> <<a, e>> \in closure
      /\ \A a, e : e \in Descendants(closure, a) <=> <<a, e>> \in closure
  BY Columns
<1>2. Pairs(closure \cup LinkSubtree(closure, id, parent), ids)
  <2>1. Ancestors(closure, parent) \subseteq ids /\ Descendants(closure, id) \subseteq ids
    BY Columns
  <2> QED
    BY <2>1 DEF LinkSubtree, Pairs
<1>3. ASSUME NEW a, NEW e
      PROVE  <<a, e>> \in LinkSubtree(closure, id, parent)
               <=> <<a, parent>> \in closure /\ <<id, e>> \in closure
  BY <1>1 DEF LinkSubtree
<1> QED
  BY <1>2, <1>3

LEMMA SamePairs ==
  ASSUME NEW table, NEW other, NEW ids, Pairs(table, ids), Pairs(other, ids),
         \A a, e : <<a, e>> \in table <=> <<a, e>> \in other
  PROVE  table = other
<1>1. \A p \in table : p = <<p[1], p[2]>>
  BY Columns
<1>2. \A p \in other : p = <<p[1], p[2]>>
  BY Columns
<1>3. table \subseteq other
  BY <1>1
<1>4. other \subseteq table
  BY <1>2
<1> QED
  BY <1>3, <1>4

\* The subtree is not linked below itself, if no pair of the link is there.
LEMMA NotBelowItself ==
  ASSUME NEW t, NEW closure, Pairs(closure, DOMAIN t), NEW id, NEW parent,
         <<id, id>> \in closure, LinkSubtree(closure, id, parent) \cap closure = {}
  PROVE  /\ <<id, parent>> \notin closure
         /\ \A a, e : ~ /\ <<a, parent>> \in closure /\ <<id, e>> \in closure
                        /\ <<a, e>> \in closure
<1>1. \A a, e : <<a, e>> \in LinkSubtree(closure, id, parent)
               <=> <<a, parent>> \in closure /\ <<id, e>> \in closure
  BY LinkByPair
<1>2. \A a, e : ~ /\ <<a, parent>> \in closure /\ <<id, e>> \in closure
                  /\ <<a, e>> \in closure
  BY <1>1
<1> QED
  BY <1>2

\* The two queries of a move commute, if the second is not refused: a cut that
\* comes late takes the new ancestors away as well as the old ones.
LEMMA CutAfterLink ==
  ASSUME NEW t, NEW closure, Pairs(closure, DOMAIN t), NEW id, NEW parent,
         <<id, id>> \in closure, LinkSubtree(closure, id, parent) \cap closure = {}
  PROVE  CutOff(closure \cup LinkSubtree(closure, id, parent), id) = CutOff(closure, id)
<1> DEFINE L == closure \cup LinkSubtree(closure, id, parent)
<1>1. Pairs(L, DOMAIN t)
  BY LinkByPair
<1>2. \A a, e : <<a, e>> \in L
         <=> <<a, e>> \in closure \/ (<<a, parent>> \in closure /\ <<id, e>> \in closure)
  BY LinkByPair
<1>3. /\ Pairs(CutOff(closure, id), DOMAIN t)
      /\ \A a, e : <<a, e>> \in CutOff(closure, id)
            <=> /\ <<a, e>> \in closure
                /\ ~(<<id, e>> \in closure /\ <<a, id>> \in closure /\ a # id)
  BY CutByPair
<1> HIDE DEF L
<1>4. /\ Pairs(CutOff(L, id), DOMAIN t)
      /\ \A a, e : <<a, e>> \in CutOff(L, id)
            <=> /\ <<a, e>> \in L
                /\ ~(<<id, e>> \in L /\ <<a, id>> \in L /\ a # id)
  BY <1>1, CutByPair
<1>5. /\ <<id, parent>> \notin closure
      /\ \A a, e : ~ /\ <<a, parent>> \in closure /\ <<id, e>> \in closure
                     /\ <<a, e>> \in closure
  BY NotBelowItself
<1>6. ASSUME NEW a, NEW e
      PROVE  <<a, e>> \in CutOff(L, id) <=> <<a, e>> \in CutOff(closure, id)
  BY <1>2, <1>3, <1>4, <1>5
<1>7. CutOff(L, id) = CutOff(closure, id)
  BY <1>3, <1>4, <1>6, SamePairs
<1> QED
  BY <1>7 DEF L

\* The save that does the work of the queries once more undoes it first.
LEMMA CutOnce ==
  ASSUME NEW t, NEW closure, Pairs(closure, DOMAIN t), NEW id
  PROVE  CutOff(CutOff(closure, id), id) = CutOff(closure, id)
<1> DEFINE C == CutOff(closure, id)
<1>1. /\ Pairs(C, DOMAIN t)
      /\ \A a, e : <<a, e>> \in C
            <=> /\ <<a, e>> \in closure
                /\ ~(<<id, e>> \in closure /\ <<a, id>> \in closure /\ a # id)
  BY CutByPair
<1> HIDE DEF C
<1>2. /\ Pairs(CutOff(C, id), DOMAIN t)
      /\ \A a, e : <<a, e>> \in CutOff(C, id)
            <=> /\ <<a, e>> \in C
                /\ ~(<<id, e>> \in C /\ <<a, id>> \in C /\ a # id)
  BY <1>1, CutByPair
<1>3. ASSUME NEW a, NEW e
      PROVE  <<a, e>> \in CutOff(C, id) <=> <<a, e>> \in C
  BY <1>1, <1>2
<1>4. CutOff(C, id) = C
  BY <1>1, <1>2, <1>3, SamePairs
<1> QED
  BY <1>4 DEF C

\* The subtree below its new parent is a tree again, which the closure table
\* describes in full.
LEMMA SubtreeMoved ==
  ASSUME NEW t, NEW u, NEW closure, NEW id \in DOMAIN t, NEW parent \in DOMAIN t,
         Pairs(closure, DOMAIN t), KeptTree(t, closure),
         LinkSubtree(CutOff(closure, id), id, parent) \cap CutOff(closure, id) = {},
         DOMAIN u = DOMAIN t, u[id].parent = parent,
         \A e \in DOMAIN t \ {id} : u[e].parent = t[e].parent
  PROVE  LET moved == CutOff(closure, id) \cup LinkSubtree(CutOff(closure, id), id, parent)
         IN Pairs(moved, DOMAIN u) /\ KeptTree(u, moved)
<1> DEFINE C == CutOff(closure, id)
           M == C \cup LinkSubtree(C, id, parent)
<1>1. /\ Pairs(C, DOMAIN t)
      /\ \A a, e : <<a, e>> \in C
            <=> /\ <<a, e>> \in closure
                /\ ~(<<id, e>> \in closure /\ <<a, id>> \in closure /\ a # id)
  BY CutByPair
<1>2. /\ \A e \in DOMAIN t : <<e, e>> \in closure
      /\ \A e \in DOMAIN t : \A a :
            <<a, e>> \in closure <=> a = e \/ <<a, t[e].parent>> \in closure
      /\ \A a, b, e : <<a, b>> \in closure /\ <<b, e>> \in closure => <<a, e>> \in closure
      /\ \A a, e : <<a, e>> \in closure => a \in DOMAIN t /\ e \in DOMAIN t
      /\ \A S \in SUBSET DOMAIN t : S # {} => \E e \in S : t[e].parent \notin S
  BY KeptByPair
<1>3. /\ \A a, b : <<a, b>> \in closure /\ <<b, a>> \in closure => a = b
      /\ \A a, b, e : <<a, e>> \in closure /\ <<b, e>> \in closure
                      => <<a, b>> \in closure \/ <<b, a>> \in closure
  BY OneWayUp
<1>4. <<id, id>> \in C /\ \A e : <<id, e>> \in C <=> <<id, e>> \in closure
  BY <1>1, <1>2
<1>5. LinkSubtree(C, id, parent) \cap C = {}
  OBVIOUS
<1> HIDE DEF C
<1>6. /\ Pairs(M, DOMAIN t)
      /\ \A a, e : <<a, e>> \in M
            <=> <<a, e>> \in C \/ (<<a, parent>> \in C /\ <<id, e>> \in C)
  BY <1>1, LinkByPair
<1> HIDE DEF M
<1>7. <<id, parent>> \notin C /\ <<id, parent>> \notin closure
  BY <1>1, <1>4, <1>5, NotBelowItself
<1>8. ASSUME NEW a, NEW b, NEW e, <<a, b>> \in C, <<b, e>> \in C
      PROVE  <<a, e>> \in C
  BY <1>1, <1>2, <1>3, <1>8
<1>9. \A e \in DOMAIN t : <<e, e>> \in C
  BY <1>1, <1>2, <1>3
<1>10. \A a : <<a, id>> \in C <=> a = id
  BY <1>1, <1>2
<1>11. Pairs(M, DOMAIN u)
  BY <1>6
<1>12. \A e \in DOMAIN u : <<e, e>> \in M
  BY <1>6, <1>9
<1>13. ASSUME NEW e \in DOMAIN u, NEW a
       PROVE  <<a, e>> \in M <=> a = e \/ <<a, u[e].parent>> \in M
  <2>1. CASE e = id
    BY <1>4, <1>6, <1>7, <1>10, <2>1
  <2>2. CASE e # id
    <3> DEFINE q == t[e].parent
    <3>1. u[e].parent = q /\ e \in DOMAIN t
      BY <2>2
    <3>2. \A x : <<x, e>> \in closure <=> x = e \/ <<x, q>> \in closure
      BY <1>2, <3>1
    <3> HIDE DEF q
    <3>3. <<id, e>> \in C <=> <<id, q>> \in C
      BY <1>4, <2>2, <3>2
    <3>4. <<a, e>> \in C <=> a = e \/ <<a, q>> \in C
      BY <1>1, <1>3, <1>9, <2>2, <3>1, <3>2
    <3>5. CASE a = e
      BY <1>6, <1>9, <3>1, <3>5
    <3>6. CASE a # e
      BY <1>6, <3>1, <3>3, <3>4, <3>6
    <3> QED
      BY <3>5, <3>6
  <2> QED
    BY <2>1, <2>2
<1>14. \A a, e : <<a, e>> \in M => <<a, a>> \in M /\ <<e, e>> \in M
  BY <1>11, <1>12, Columns
<1>15. ClosureOf(u, M)
  BY <1>11, <1>13, <1>14, ClosureByPair
<1>16. Transitive(M)
  <2> SUFFICES ASSUME NEW a, NEW b, NEW e, <<a, b>> \in M, <<b, e>> \in M
               PROVE  <<a, e>> \in M
    BY DEF Transitive
  <2> QED
    BY <1>6, <1>7, <1>8
<1>17. Acyclic(u)
  <2> SUFFICES ASSUME NEW S \in SUBSET DOMAIN u, S # {}, \A e \in S : u[e].parent \in S
               PROVE  FALSE
    BY DEF Acyclic
  <2> DEFINE T == {e \in S : <<id, e>> \notin closure}
  <2>1. T \in SUBSET DOMAIN t
    OBVIOUS
  <2>2. id \notin T
    BY <1>2
  <2>3. \A e \in T : t[e].parent \in T
    <3> SUFFICES ASSUME NEW e \in T
                 PROVE  t[e].parent \in T
      OBVIOUS
    <3>1. e # id /\ e \in DOMAIN t /\ u[e].parent = t[e].parent /\ t[e].parent \in S
      BY <2>1, <2>2
    <3>2. <<id, t[e].parent>> \notin closure
      BY <1>2, <3>1
    <3> QED
      BY <3>1, <3>2
  <2>4. T # {}
    <3>1. CASE id \in S
      <4>1. parent \in S
        BY <3>1
      <4> QED
        BY <1>7, <4>1
    <3>2. CASE id \notin S
      <4>1. S \in SUBSET DOMAIN t /\ \A e \in S : t[e].parent \in S
        BY <3>2
      <4> QED
        BY <1>2, <4>1
    <3> QED
      BY <3>1, <3>2
  <2> HIDE DEF T
  <2> QED
    BY <1>2, <2>1, <2>3, <2>4
<1>18. KeptTree(u, M)
  BY <1>12, <1>15, <1>16, <1>17 DEF KeptTree
<1> QED
  BY <1>11, <1>18 DEF M, C

\* An entity without children is taken out of the closure table.
LEMMA LeafForgotten ==
  ASSUME NEW t, NEW closure, NEW id, Pairs(closure, DOMAIN t), KeptTree(t, closure),
         Children(t, id) = {}
  PROVE  LET u == [e \in DOMAIN t \ {id} |-> t[e]]
         IN /\ Pairs(WithoutSubtree(closure, id), DOMAIN u)
            /\ KeptTree(u, WithoutSubtree(closure, id))
<1> DEFINE u == [e \in DOMAIN t \ {id} |-> t[e]]
           less == WithoutSubtree(closure, id)
<1>1. /\ \A e \in DOMAIN t : <<e, e>> \in closure
      /\ \A e \in DOMAIN t : \A a :
            <<a, e>> \in closure <=> a = e \/ <<a, t[e].parent>> \in closure
      /\ \A a, e : <<a, e>> \in closure => a \in DOMAIN t /\ e \in DOMAIN t
  BY KeptByPair
<1>2. \A a, e : <<a, e>> \in less <=> <<a, e>> \in closure /\ <<id, e>> \notin closure
  BY Columns DEF WithoutSubtree
<1>3. less \subseteq closure
  BY DEF WithoutSubtree
<1>4. ASSUME NEW e, <<id, e>> \in closure, e # id
      PROVE  FALSE
  <2> DEFINE S == {x \in DOMAIN t : <<id, x>> \in closure /\ x # id}
  <2>1. S \in SUBSET DOMAIN t /\ S # {}
    BY <1>1, <1>4
  <2>2. ASSUME NEW x \in S
        PROVE  t[x].parent \in S
    <3>1. <<id, t[x].parent>> \in closure
      BY <1>1, <2>2
    <3>2. t[x].parent # id
      BY DEF Children
    <3> QED
      BY <1>1, <3>1, <3>2
  <2> HIDE DEF S
  <2> QED
    BY <2>1, <2>2, KeptByPair
<1>5. \A a, e : <<a, e>> \in less <=> <<a, e>> \in closure /\ e # id
  BY <1>1, <1>2, <1>4
<1>6. \A a, e : <<a, e>> \in less => a \in DOMAIN t \ {id} /\ e \in DOMAIN t \ {id}
  BY <1>1, <1>4, <1>5
<1>7. /\ DOMAIN u = DOMAIN t \ {id} /\ DOMAIN u \subseteq DOMAIN t
      /\ \A e \in DOMAIN u : u[e] = t[e] /\ u[e].parent = t[e].parent
  OBVIOUS
<1> HIDE DEF u, less
<1>8. Pairs(less, DOMAIN u)
  <2> SUFFICES ASSUME NEW p \in less
               PROVE  p \in (DOMAIN u) \X (DOMAIN u)
    BY DEF Pairs
  <2>1. p = <<p[1], p[2]>>
    BY <1>3, Columns
  <2>2. p[1] \in DOMAIN u /\ p[2] \in DOMAIN u
    BY <1>6, <1>7, <2>1
  <2> QED
    BY <2>1, <2>2
<1>9. Pairs(less, DOMAIN t) /\ ClosureOf(t, less) /\ Transitive(less)
  <2>1. Pairs(less, DOMAIN t)
    BY <1>3 DEF Pairs
  <2> QED
    BY <2>1, SubtreeForgotten DEF KeptTree, less
<1>10. ClosureOf(u, less)
  BY <1>7, <1>9, SameParentsClosed
<1>11. \A e \in DOMAIN u : <<e, e>> \in less
  BY <1>1, <1>5, <1>7
<1>12. Acyclic(u)
  BY <1>7 DEF KeptTree, Acyclic
<1>13. KeptTree(u, less)
  BY <1>9, <1>10, <1>11, <1>12 DEF KeptTree
<1> QED
  BY <1>8, <1>13 DEF u, less

\* A childless entity that the closure table does not know spoils nothing.
LEMMA LeafThere ==
  ASSUME NEW t, NEW closure, NEW id, Children(t, id) = {},
         Pairs(closure, DOMAIN t \ {id}),
         KeptTree([e \in DOMAIN t \ {id} |-> t[e]], closure)
  PROVE  ClosureOf(t, closure) /\ Acyclic(t)
<1> DEFINE u == [e \in DOMAIN t \ {id} |-> t[e]]
<1>1. DOMAIN u = DOMAIN t \ {id} /\ \A e \in DOMAIN u : u[e].parent = t[e].parent
  OBVIOUS
<1>2. Pairs(closure, DOMAIN u) /\ KeptTree(u, closure)
  BY <1>1
<1>3. \A e \in DOMAIN t : t[e].parent # id
  BY DEF Children
<1> HIDE DEF u
<1>4. ClosureOf(u, closure)
  BY <1>2 DEF KeptTree
<1>5. \A e \in DOMAIN t : <<e, e>> \in closure => e \in DOMAIN u
  BY <1>2, KeptByPair
<1>6. ClosureOf(t, closure)
  BY <1>1, <1>4, <1>5 DEF ClosureOf, Detached
<1>7. Acyclic(t)
  <2> SUFFICES ASSUME NEW S \in SUBSET DOMAIN t, S # {}
               PROVE  \E e \in S : t[e].parent \notin S
    BY DEF Acyclic
  <2>1. CASE S \ {id} = {}
    BY <1>3, <2>1
  <2>2. CASE S \ {id} # {}
    <3>1. PICK e \in S \ {id} : u[e].parent \notin S \ {id}
      <4>1. S \ {id} \in SUBSET DOMAIN u
        BY <1>1
      <4> QED
        BY <1>2, <2>2, <4>1 DEF KeptTree, Acyclic
    <3> QED
      BY <1>1, <1>3, <3>1
  <2> QED
    BY <2>1, <2>2
<1> QED
  BY <1>6, <1>7

-----------------------------------------------------------------------------
(* Reading the tree.                                                       *)

\* findDescendantsTree returns the subtree that the parents make, where the
\* closure table describes the tree in full.
LEMMA TreeIsBelow ==
  ASSUME NEW t, NEW closure, Pairs(closure, DOMAIN t), KeptTree(t, closure),
         NEW a \in DOMAIN t
  PROVE  TreeOf(t, closure, a) = Below(t, a)
<1> DEFINE D == Descendants(closure, a)
           Closed(S) == a \in S /\ \A e \in D : t[e].parent \in S => e \in S
<1>1. \A e : e \in D <=> <<a, e>> \in closure
  BY Columns
<1>2. D \subseteq DOMAIN t /\ a \in D
  BY <1>1, KeptByPair
<1>3. \A e \in DOMAIN t : e # a => (e \in D <=> t[e].parent \in D)
  BY <1>1, KeptByPair
<1>4. \A S \in SUBSET DOMAIN t : S # {} => \E e \in S : t[e].parent \notin S
  BY KeptByPair
<1>5. TreeOf(t, closure, a) = {e \in D : \A S \in SUBSET D : Closed(S) => e \in S}
  <2>1. {a} \cup (D \cap DOMAIN t) = D /\ D \cap DOMAIN t = D
    BY <1>2
  <2>2. TreeOf(t, closure, a) = Hanging(t, D, a)
    BY <2>1, Zenon DEF TreeOf
  <2> QED
    BY <2>1, <2>2, Zenon DEF Hanging
<1> HIDE DEF D
<1>6. ASSUME NEW S \in SUBSET D, Closed(S)
      PROVE  D \subseteq S
  <2> SUFFICES ASSUME D \ S # {}
               PROVE  FALSE
    OBVIOUS
  <2>1. PICK e \in D \ S : t[e].parent \notin D \ S
    BY <1>2, <1>4
  <2>2. t[e].parent \in D
    BY <1>2, <1>3, <1>6, <2>1
  <2> QED
    BY <1>6, <2>1, <2>2
<1>7. TreeOf(t, closure, a) = D
  BY <1>5, <1>6
<1>8. Below(t, a) \subseteq D
  <2>1. D \in SUBSET DOMAIN t /\ a \in D
    BY <1>2
  <2>2. \A e \in DOMAIN t : t[e].parent \in D => e \in D
    BY <1>2, <1>3
  <2> QED
    BY <2>1, <2>2, BelowByParent
<1>9. Closed(Below(t, a) \cap D)
  BY <1>2, BelowByParent
<1>10. D \subseteq Below(t, a)
  BY <1>6, <1>9
<1> QED
  BY <1>7, <1>8, <1>10

\* What is below an entity depends on nothing but the parents.
LEMMA SameBelow ==
  ASSUME NEW t, NEW u, DOMAIN u = DOMAIN t,
         \A e \in DOMAIN t : u[e].parent = t[e].parent, NEW a \in DOMAIN t
  PROVE  Below(u, a) = Below(t, a)
<1>1. Below(t, a) \subseteq Below(u, a)
  <2>1. \A e \in Below(t, a) : e \in DOMAIN u => e \in Below(u, a)
    BY BelowKept
  <2> QED
    BY <2>1, BelowByParent
<1>2. Below(u, a) \subseteq Below(t, a)
  <2>1. \A e \in Below(u, a) : e \in DOMAIN t => e \in Below(t, a)
    BY BelowKept
  <2> QED
    BY <2>1, BelowByParent
<1> QED
  BY <1>1, <1>2
=============================================================================
