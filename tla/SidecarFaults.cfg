\* One refresh or search at a time, with every kind of fault.
SPECIFICATION Spec
CONSTANTS
    f1 = f1
    f2 = f2
    a = a
    b = b
    t1 = t1
    t2 = t2
    Files = {f1, f2}
    Texts = {a, b}
    None = None
    Threads = {t1}
    FaultKinds = {"crash", "fail", "lose", "upgrade"}
    MaxCommits = 4
    MaxFaults = 3
SYMMETRY FaultSymmetry
INVARIANTS
    TypeOK
    DamageIsConfined
    CountsAgree
    OneDocPerPath
