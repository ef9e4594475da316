\* Two runs that may overlap: one system with two parity groups, of which one may
\* become active or inactive; a failure, no crash.
SPECIFICATION Spec
CONSTANTS
    System = {s1}
    Key = {k1, k2}
    Run = {r1, r2}
    FirstRun = r1
    Window = 1
    PlainTo = FALSE
    MaxTime = 2
    MaxFailures = 1
    MaxCrashes = 0
    MaxChanges = 1
    Torn = Torn
INVARIANTS
    ProgressAccounted
