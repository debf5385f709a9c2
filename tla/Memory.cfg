CONSTANTS
    Writers = {w1, w2}
    Namespaces = {workspace}
    Global = global
    Names = {topic, secret}
    AutoCompact = auto_compact
    Texts = {plain, secret}
    Secret = secret
    Redacted = redacted
    Digest = digest
    Confidences = {1, 2}
    Default = 2
    Lifetimes = {0}
    CompactLifetime = 2
    NoExpiry = never
    Threshold = 0
    MaxTime = 1
    MaxOps = 3

SYMMETRY Symmetry

SPECIFICATION Spec

INVARIANTS
    TypeOK
    IdsAreUnique
    LostOnlyToOverlap
    BestDecides

CHECK_DEADLOCK FALSE
