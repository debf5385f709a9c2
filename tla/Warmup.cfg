\* The counters under two packers, or the statistics under a manual warm-up.
SPECIFICATION Spec
CONSTANTS
    p1 = p1
    p2 = p2
    Packers = {p1, p2}
    Warmers = {w}
    Job = job
    Terms = {a}
    Defaults = {a}
    MinPacks = 2
    ZeroLimit = 2
    UnselectedLimit = 2
    Interval = 1
    Yields = {"none", "found", "selected"}
    MaxPacks = 3
    MaxManual = 1
    MaxEdits = 1
    MaxTime = 1
CONSTRAINT EitherKind
INVARIANTS
    TypeOK
    NegativeIsEarned
    NeverOverstated
    UndisturbedCountsAreExact
PROPERTIES
    EveryRunEnds
CHECK_DEADLOCK FALSE
