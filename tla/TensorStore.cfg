\* Two processes, three repins of two overlapping fixtures, one dies.
SPECIFICATION Spec
CONSTANTS
    c1 = c1
    c2 = c2
    c3 = c3
    f1 = f1
    f2 = f2
    r = r
    s = s
    p = p
    q = q
    Procs = {p, q}
    Fixtures = {f1, f2}
    Commanders = {c1, c2, c3}
    Rules = {r, s}
    List <- MCList
    HashOf <- MCHashOf
    Fires <- MCFires
    LastBuild = 3
    Batch = 2
    MaxRepins = 3
    MaxFaults = 1
    Coverages <- MCCoverages
    MaxEpoch = 2
INVARIANTS
    WholeOrAbsent
    FixtureBacked
    GemsOfCoveredCommanders
CHECK_DEADLOCK FALSE
PROPERTIES
    OnlyOwnRows
