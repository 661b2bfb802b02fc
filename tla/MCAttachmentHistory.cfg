SPECIFICATION Spec
CONSTANTS
    r1 = r1
    c1 = c1
    c2 = c2
    k1 = k1
    k2 = k2
    k3 = k3
    a = a
    b = b
    t1 = t1
    None = None
    Record = {r1}
    Content = {a, b}
    Client = {c1, c2}
    Wish <- MCWish
    Key = {k1, k2, k3}
    Token = {t1}
    MaxNames = 6
    MaxFiles = 2
    MaxEvents = 4
    MaxStaged = 2
    MaxFaults = 1
SYMMETRY MCSymmetry
INVARIANTS
    ReferencesAreWhole
    HistoryIsRestorable
    ResendsAreHarmless
PROPERTIES
    RestoreIsExact
CHECK_DEADLOCK FALSE
