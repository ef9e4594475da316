\* Importers whose requests overlap, and readers of what they leave.
SPECIFICATION Spec
CONSTANTS
    Call = {"a", "b"}
    MetricType <- MCMetricType
    Seed <- MCSeed
INVARIANTS
    SlotsUnique
    ExportsAgree
    DataCentersAddUp
    RegionsAddUp
    AlertsResolve
    PoolsAgree
    LatencyCountedOnce
PROPERTIES
    QuietRequestTakesEffect
    ViewNeverGoesBack
CHECK_DEADLOCK FALSE
