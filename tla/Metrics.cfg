\* Two requests record at most four events of six kinds.
CONSTANTS
    r1 = r1
    r2 = r2
    Recorders = {r1, r2}
    Events <- MCEvents
    Operations = {"context_pack", "context_lookup.search", "context_admin.warmup"}
    Pack = "context_pack"
    Warmup = "context_admin.warmup"
    Spaces = {"search", "summary"}
    Routes = {"code", "docs"}
    NoRoute = "none"
    RecentLimit = 3
    SnapshotLimit = 2
    MaxEvents = 4

SPECIFICATION Spec

SYMMETRY Symmetry

INVARIANTS
    TypeOK
    EventsLostOnlyToOverlap
    AggregatesAgree
    VerdictsAreOfPacks

CHECK_DEADLOCK FALSE
