\* Runs that do not overlap: two systems with a parity group each, that is active or
\* not all the time; failures, a crash.
SPECIFICATION FairSpec
CONSTANTS
    System = {s1, s2}
    Key = {k1}
    Run = {r1}
    FirstRun = r1
    Window = 1
    PlainTo = TRUE
    MaxTime = 2
    MaxFailures = 2
    MaxCrashes = 1
    MaxChanges = 0
    Torn = Torn
INVARIANTS
    ProgressAccounted
    SavedAccounted
    MailedOnce
PROPERTIES
    NoRepeatOfSaved
    EveryEventReported
