\* Searches or summaries beside the background refresh, edits and removals; no git.
SPECIFICATION CacheSpec
CONSTANTS
    Files = {1, 2}
    a = a
    b = b
    Texts = {a, b}
    BinaryTexts = {}
    None = None
    Tracked = {}
    Untracked = {}
    Present = Present
    SignatureSources = {"files"}
    Requests <- WholeRequests
    Threads = {t1}
    Background = bg
    Readers = {}
    NoStatus = NoStatus
    MaxStamp = 2
    Requesters = {q}
    Asked = {"fragments", "summaries"}
    Matching = {a}
    Removable = {2}
CONSTRAINT OneCache
INVARIANTS
    CacheTypeOK
    FragmentIsCurrent
    SummaryIsGenuine
