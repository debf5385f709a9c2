\* An edit, a refresh and a search while the sidecar lags behind the rows.
SPECIFICATION CacheSpec
CONSTANTS
    Files = {1, 2}
    a = a
    b = b
    Texts = {a, b}
    BinaryTexts = {}
    None = None
    Tracked = {}
    Untracked = {}
    Present = Present
    SignatureSources = {"files"}
    Requests <- WholeRequests
    Threads = {t1}
    Background = bg
    Readers = {}
    NoStatus = NoStatus
    MaxStamp = 2
    Requesters = {q}
    Asked = {"fragments"}
    Matching = {a}
    Removable = {2}
INVARIANTS
    CachedSearchIsCurrent
