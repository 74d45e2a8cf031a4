SPECIFICATION FairSpec
CONSTANTS
    Devices = {d1, d2}
    Places = {p1, p2, p3}
    Fences = {f1, f2}
    Centre <- MCCentre
    Area <- MCArea
    Unspeakable = {f2}
    Stamps = {t1, t2}
    None = None
    MaxRows = 2
    MaxMoves = 1
    MaxFaults = 1
    MaxOut = 1
    p1 = p1
    p2 = p2
    p3 = p3
    f1 = f1
    f2 = f2
    f3 = f3
    f4 = f4
    c1 = c1
    c2 = c2
PROPERTIES
    Settles
