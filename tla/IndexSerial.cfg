\* One refresh at a time, edits and crashes anywhere, no git repository.
SPECIFICATION Spec
CONSTANTS
    Files = {1, 2}
    Texts = {a, b, bin}
    BinaryTexts = {bin}
    None = None
    Tracked = {}
    Untracked = {}
    Present = Present
    SignatureSources = {"files"}
    Requests <- SerialRequests
    Threads = {t1}
    a = a
    b = b
    t1 = t1
    t2 = t2
    Background = bg
    Readers = {}
    NoStatus = NoStatus
    MaxStamp = 3
SYMMETRY TextSymmetry
INVARIANTS
    TypeOK
    SkipMeansCurrent
    TermRowsMatch
    CommitIsComplete
PROPERTIES
    ScopedRefreshIsLocal
