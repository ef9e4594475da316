\* Two calls, of one system or of both.
SPECIFICATION Spec
CONSTANTS
    System = {"s1", "s2"}
    Call = {c1, c2}
    Report <- MCReport
    Root <- MCRoot
    Initial <- MCInitial
    MaxId = 15
    MaxCalls = 2
    MaxChanges = 1
    MaxCrashes = 1
INVARIANTS
    SystemTreeComplete
    OneEntityPerName
PROPERTIES
    QuietCallMirrors
    OwnSystemOnly
CHECK_DEADLOCK FALSE
