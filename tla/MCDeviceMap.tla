----------------------------- MODULE MCDeviceMap ------------------------------
(* An instance of DeviceMap for TLC: two systems, of which the second has a   *)
(* pool and a parity group already, and the first a pool that is inactive;    *)
(* the numbers the arrays give to pools are also ids of entities.             *)
EXTENDS DeviceMap

MCRoot == [s1 |-> 2, s2 |-> 3]
MCInitial == <<Row("dc", "DATACENTER", NoParent, 0, "ACTIVE"),
               Row("s1", "SYSTEM", 1, 0, "ACTIVE"),
               Row("s2", "SYSTEM", 1, 0, "ACTIVE"),
               Row("A", "POOL", 3, 7, "ACTIVE"),
               Row("g", "PARITY_GROUP", 4, 0, "ACTIVE"),
               Row("B", "POOL", 2, 4, "INACTIVE")>>

Pool(name, id, groups) == [name |-> name, id |-> id, groups |-> groups]

\* The group of the first system is in its first pool, in its second, or in none.
MCReport ==
    [s1 |-> {[pools |-> <<Pool("A", 9, <<"g">>), Pool("B", 4, <<>>)>>,
              pairs |-> <<>>, hosts |-> <<"h">>],
             [pools |-> <<Pool("A", 9, <<>>), Pool("B", 4, <<"g">>)>>,
              pairs |-> <<[name |-> "c", ports |-> <<"p">>]>>, hosts |-> <<>>],
             [pools |-> <<Pool("A", 6, <<>>)>>, pairs |-> <<>>, hosts |-> <<"h">>]},
     s2 |-> {[pools |-> <<Pool("A", 7, <<"g">>)>>, pairs |-> <<>>, hosts |-> <<>>]}]
=============================================================================
