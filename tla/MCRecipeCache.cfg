SPECIFICATION Spec
CONSTANTS
    s1 = s1
    s1m = s1m
    s2 = s2
    h1 = h1
    h2 = h2
    m1 = m1
    m2 = m2
    NoMem = NoMem
    System <- MCSystem
    Hw = {h1, h2}
    Mem = {m1, m2}
    HwOf <- MCHwOf
    MemOf <- MCMemOf
    MaxStarts = 4
INVARIANTS
    RestoredFits
PROPERTIES
    RootRunsValidated
CHECK_DEADLOCK FALSE
