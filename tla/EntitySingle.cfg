\* One request at a time: everything but update and move.
SPECIFICATION Spec
CONSTANTS
    n1 = n1
    n2 = n2
    r1 = r1
    r2 = r2
    Request = {r1}
    Kind = {"create", "fetch", "status", "keyStatus", "delete", "duplicate"}
    Name = {n1, n2}
    Type = {"SYSTEM", "DKC"}
    MaxId = 4
    MaxCrashes = 1
INVARIANTS
    ClosureExact
    SiblingsUnique
PROPERTIES
    StatusReachesSubtree
