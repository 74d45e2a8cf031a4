SPECIFICATION Spec
CONSTANTS
    Imeis = {i1}
    Custids = {c1, c2}
    Versions = {1, 2}
    Snames = {s1}
    Workers = {w1}
    CustomerOf <- MCCustomerOf
    Any = Any
    None = None
    MaxOps = 7
    MaxFaults = 2
INVARIANTS
    TypeOK
    DeliverHasJar
    NoDanglingSet
    Consistent
    OnceOnly
    ClearedIsHandedOut
    SettingsPushedWithJars
PROPERTIES
    OffersFollowTheRow
    PermanentStays
    SimulationIsReadOnly
    ImplementsPolicy
