\* Two threads refresh and search at the same time, and nothing fails.
SPECIFICATION Spec
CONSTANTS
    f1 = f1
    f2 = f2
    a = a
    b = b
    t1 = t1
    t2 = t2
    Files = {f1, f2}
    Texts = {a, b}
    None = None
    Threads = {t1, t2}
    FaultKinds = {}
    MaxCommits = 3
    MaxFaults = 0
SYMMETRY SidecarSymmetry
INVARIANT
    AcceptedIsCurrent
