SPECIFICATION FairSpec
CONSTANTS
    Imeis = {i1, i2}
    Custids = {c1}
    Versions = {1, 2}
    Snames = {s1}
    Workers = {w1}
    CustomerOf <- MCCustomerOf
    Any = Any
    None = None
    MaxOps = 5
    MaxFaults = 1
PROPERTIES
    OffersFollowTheRow
    PermanentStays
    ImplementsPolicy
    Convergence
    OnceIsSpent
