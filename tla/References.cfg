\* Two calls, two identifiers, a small and a large payload; files are harmed,
\* the project is pruned and the process dies at any step.
SPECIFICATION Spec
CONSTANTS
    r1 = r1
    r2 = r2
    i1 = i1
    i2 = i2
    Requests = {r1, r2}
    RefIds = {i1, i2}
    Payloads = {small, large}
    Large = {large}
    Lifetime = 0
    MaxTime = 1
SYMMETRY Symmetry
INVARIANTS
    TypeOK
    ResolvedIsGenuine
    GivenOutIsKept
    RefusalHasCause
