---------------------------- MODULE EntityTables -----------------------------
(***************************************************************************)
(* The tables storage_entities and storage_entities_closure, and what the  *)
(* queries of the storage entity service and TypeORM's handling of the     *)
(* closure table (@Tree('closure-table')) do to them.                      *)
(*                                                                         *)
(* table is a function from the ids of the rows to records with the field  *)
(* parent; closure is a set of pairs <<ancestor, descendant>>, which the   *)
(* primary key of the closure table makes a set.                           *)
(***************************************************************************)
EXTENDS Integers

NoParent == 0

Ancestors(closure, id) == {pair[1] : pair \in {p \in closure : p[2] = id}}
Descendants(closure, id) == {pair[2] : pair \in {p \in closure : p[1] = id}}
WithRow(table, id, row) ==
    [e \in DOMAIN table \cup {id} |-> IF e = id THEN row ELSE table[e]]
Children(table, id) == {e \in DOMAIN table : table[e].parent = id}

-----------------------------------------------------------------------------
(* Changes of the closure table.                                           *)

\* Mutation: the two columns are exchanged.
LinkNewSwapped(closure, id, parent) ==
    {<<id, id>>} \cup {<<id, a>> : a \in Ancestors(closure, parent)}

\* The rows of a new entity: itself, and the ancestors of its parent.
LinkNew(closure, id, parent) ==
    {<<id, id>>} \cup {<<a, id>> : a \in Ancestors(closure, parent)}

\* Mutation: the rows of the descendants are found by their ancestor.
WithoutSubtreeBelow(closure, id) ==
    {p \in closure : p[1] \notin Descendants(closure, id)}

\* What delete leaves: no row of a descendant of the entity.
WithoutSubtree(closure, id) ==
    {p \in closure : p[2] \notin Descendants(closure, id)}

\* What the first query of move leaves: the subtree without what was above it.
CutOff(closure, id) ==
    {p \in closure : ~ /\ p[2] \in Descendants(closure, id)
                       /\ p[1] \in Ancestors(closure, id) \ {id}}

\* What the second query of move inserts: the subtree below the new parent.
LinkSubtree(closure, id, parent) ==
    Ancestors(closure, parent) \X Descendants(closure, id)

-----------------------------------------------------------------------------
(* Reading the tree.                                                       *)

\* The entities of a set that hang together below id by their parents.
Hanging(table, found, id) ==
    LET Closed(S) == /\ id \in S
                     /\ \A e \in found \cap DOMAIN table :
                           table[e].parent \in S => e \in S
    IN {e \in found : \A S \in SUBSET found : Closed(S) => e \in S}

\* findDescendantsTree: the entity it is given, and of the descendants that the
\* closure table knows those that hang together by their parents.
TreeOf(table, closure, id) ==
    Hanging(table, {id} \cup (Descendants(closure, id) \cap DOMAIN table), id)

-----------------------------------------------------------------------------
(* What the tables should look like.                                       *)

\* The subtree of an entity by the parents of the rows alone.
Below(table, id) == Hanging(table, {id} \cup DOMAIN table, id)

\* The closure table that the parents of the rows call for.
TrueClosure(table) ==
    {p \in (DOMAIN table) \X (DOMAIN table) : p[2] \in Below(table, p[1])}

\* An entity that the closure table does not know.
Detached(closure, id) == <<id, id>> \notin closure

\* Every entity known to the closure table has exactly the ancestors of its
\* parent and itself; one that is not known occurs nowhere in it.
ClosureOf(table, closure) ==
    /\ \A id \in DOMAIN table :
          ~Detached(closure, id)
          => Ancestors(closure, id) =
                {id} \cup Ancestors(closure, table[id].parent)
    /\ \A p \in closure : ~Detached(closure, p[1]) /\ ~Detached(closure, p[2])

\* Going from parent to parent ends.
Acyclic(table) ==
    \A S \in SUBSET DOMAIN table :
        S # {} => \E e \in S : table[e].parent \notin S
=============================================================================
