\* One request at a time, moves among them.
SPECIFICATION Spec
CONSTANTS
    n1 = n1
    n2 = n2
    r1 = r1
    r2 = r2
    Request = {r1}
    Kind = {"create", "move", "duplicate"}
    Name = {n1, n2}
    Type = {"SYSTEM", "DKC"}
    MaxId = 5
    MaxCrashes = 0
INVARIANTS
    MoveKeepsTree
CONSTRAINT
    WhileKept
