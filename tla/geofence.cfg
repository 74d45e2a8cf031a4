SPECIFICATION Spec
CONSTANTS
    Devices = {d1}
    Places = {p1, p2, p3}
    Fences = {f1, f2, f3, f4}
    Centre <- MCCentre
    Area <- MCArea
    Unspeakable = {f3}
    Stamps = {t1, t2}
    None = None
    MaxRows = 3
    MaxMoves = 2
    MaxFaults = 2
    MaxOut = 1
    p1 = p1
    p2 = p2
    p3 = p3
    f1 = f1
    f2 = f2
    f3 = f3
    f4 = f4
    c1 = c1
    c2 = c2
INVARIANTS
    TypeOK
    NowhereMeansOutside
    StaleOnlyBehind
    Agreement
