--------------------------- MODULE EntityQueries -----------------------------
(***************************************************************************)
(* What the queries of StorageEntityRepository answer, and the export of   *)
(* the compat interface that is built on them, as functions of the tables  *)
(* t (storage_entities) and c (its closure table).                         *)
(*                                                                         *)
(* A tree is answered as the set of its paths from the data center down.   *)
(***************************************************************************)
EXTENDS EntityTables, Sequences, SequencesExt

Status == {"ACTIVE", "INACTIVE"}
OfType(t, ids, type) == {e \in ids : t[e].type = type}
Active(t, ids) == {e \in ids : t[e].status = "ACTIVE"}
Parts(t, e, type) == OfType(t, Children(t, e), type)

-----------------------------------------------------------------------------
(* StorageEntityRepository.                                                 *)

\* The inner joins leave data centers with an active child that has details.
findDataCenters(t) ==
    {<<dc, s>> \in OfType(t, DOMAIN t, "DATACENTER") \X Active(t, DOMAIN t) :
        t[s].parent = dc /\ t[s].detail}

\* Active systems that have children, of whatever type.
availableSystems(t) ==
    {s \in Active(t, OfType(t, DOMAIN t, "SYSTEM")) : Children(t, s) # {}}

\* Mutation: with data centers the condition on the status is lost.
querySystemsOfAny(t, dcs) ==
    {s \in OfType(t, DOMAIN t, "SYSTEM") :
        /\ t[s].parent \in OfType(t, DOMAIN t, "DATACENTER")
        /\ IF dcs # {} THEN t[s].parent \in dcs ELSE t[s].status = "ACTIVE"}

\* The active systems of some data centers, of all when none is named.
querySystems(t, dcs) ==
    {s \in Active(t, OfType(t, DOMAIN t, "SYSTEM")) :
        /\ t[s].parent \in OfType(t, DOMAIN t, "DATACENTER")
        /\ dcs # {} => t[s].parent \in dcs}

\* hierachyType: the levels below the data center, down to the type asked for.
Levels == <<"SYSTEM", "DKC", "CONTROLLER", "CHANNEL_BOARD", "PORT">>
hierachyType(type) ==
    IF type = "DATACENTER" THEN <<>> ELSE SubSeq(Levels, 1, SelectInSeq(Levels, LAMBDA l : l = type))

\* leftJoinAndSelect: a path that ends above the level goes on with no entity.
Joined(t, path, type) ==
    LET below == Parts(t, Last(path), type)
    IN IF below = {} THEN {Append(path, NoParent)} ELSE {Append(path, e) : e \in below}

\* A condition on a joined level drops the paths without an entity there, but
\* for systems, where COALESCE makes a missing status an active one.
Passes(t, path, type, status) ==
    LET e == Last(path)
    IN CASE type = "DATACENTER" -> TRUE
         [] type = "SYSTEM" -> (IF e = NoParent THEN "ACTIVE" ELSE t[e].status) \in status
         [] OTHER -> e # NoParent /\ t[e].status \in status

getStorageEntities(t, type, systemId, status) ==
    LET roots == {<<dc>> : dc \in Active(t, OfType(t, DOMAIN t, "DATACENTER"))}
        paths == FoldLeft(LAMBDA ps, level : UNION {Joined(t, p, level) : p \in ps},
                          roots, hierachyType(type))
    IN {p \in paths : /\ Passes(t, p, type, status)
                      /\ systemId # NoParent /\ type # "DATACENTER" => p[2] = systemId}

-----------------------------------------------------------------------------
(* CompatibilityController.                                                 *)

\* Mutation: only active parts.
InTreeActive(t, tree, e, type) == Active(t, OfType(t, tree \cap Children(t, e), type))

\* The parts of a type below an entity, in the tree that the closure gives.
InTree(t, tree, e, type) == OfType(t, tree \cap Children(t, e), type)

\* Export: pools with their parity groups, and DKCs with what is below them; of
\* the other parts of a system nothing is exported.
ExportedPools(t, c) ==
    UNION {LET tree == TreeOf(t, c, ds[2])
           IN UNION {{<<ds[1], ds[2], p, g>> : g \in InTree(t, tree, p, "PARITY_GROUP")}
                        \cup {<<ds[1], ds[2], p>>} : p \in InTree(t, tree, ds[2], "POOL")}
             : ds \in findDataCenters(t)}

ExportedPorts(t, c) ==
    UNION {LET tree == TreeOf(t, c, ds[2])
               Below2(paths, type) ==
                  UNION {{Append(p, e) : e \in InTree(t, tree, Last(p), type)} : p \in paths}
           IN FoldLeft(Below2, {ds}, Tail(Levels))
             : ds \in findDataCenters(t)}

-----------------------------------------------------------------------------
(* Properties of a database.                                                *)

\* The export, which reads the tree from the closure table, has the ports that
\* the v2 interface, which joins parents, gives for the same system whatever
\* their status, and the pools and parity groups that statistics are made of,
\* provided the closure table is right and the data center is active (the export
\* does not look at its status, the interface does); what is missing from it has
\* lost its rows in the closure table.
ExportAgrees(t, c) ==
    \A ds \in findDataCenters(t) :
        LET exported == {p \in ExportedPorts(t, c) : p[2] = ds[2]}
            joined   == {p \in getStorageEntities(t, "PORT", ds[2], Status) : p[1] = ds[1]}
        IN /\ exported \subseteq joined \/ t[ds[1]].status = "INACTIVE"
           /\ joined \subseteq exported \/ ~ClosureOf(t, c)
           /\ \A p \in joined \ exported : \E i \in 3..Len(p) : <<p[2], p[i]>> \notin c
           /\ \A p \in Parts(t, ds[2], "POOL") : \A g \in Parts(t, p, "PARITY_GROUP") :
                 \/ ds \o <<p, g>> \in ExportedPools(t, c) /\ ds \o <<p>> \in ExportedPools(t, c)
                 \/ ~ClosureOf(t, c) /\ {<<ds[2], p>>, <<ds[2], g>>} \ c # {}
=============================================================================
