\* Two requests that overlap.
SPECIFICATION FairSpec
CONSTANTS
    n1 = n1
    n2 = n2
    r1 = r1
    r2 = r2
    Request = {r1, r2}
    Kind = {"create", "fetch", "update", "delete"}
    Name = {n1}
    Type = {"SYSTEM", "DKC"}
    MaxId = 3
    MaxCrashes = 0
INVARIANTS
    ClosureSound
PROPERTIES
    DeleteLeavesNothing
    RequestsEnd
