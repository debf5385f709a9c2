\* Two threads refresh one file while a third reads it and it is rewritten.
SPECIFICATION Spec
CONSTANTS
    Files = {1}
    a = a
    b = b
    t1 = t1
    t2 = t2
    Texts = {a, b}
    BinaryTexts = {}
    None = None
    Tracked = {}
    Untracked = {1}
    Present = Present
    SignatureSources = {"git"}
    Requests <- OverlapRequests
    Threads = {t1, t2}
    Background = bg
    Readers = {r}
    NoStatus = NoStatus
    MaxStamp = 2
SYMMETRY OverlapSymmetry
INVARIANTS
    RowStampSound
    ReadsAreLive
PROPERTIES
    ImplementsCopy
