\* Two kinds of job on one worker, two edits, one raise, clock step or restart.
SPECIFICATION FairSpec
CONSTANTS
    refresh = refresh
    prune = prune
    Keys = {refresh, prune}
    Tasks = {j1, j2, j3}
    NoTask = NoTask
    Workers = 1
    Interval <- TwoIntervals
    MaxEdits = 2
    MaxFaults = 1
INVARIANTS
    TypeOK
    OneFuturePerKey
    ReportIsHonest
PROPERTIES
    EventuallyServed
