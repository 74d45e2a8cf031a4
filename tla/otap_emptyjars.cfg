SPECIFICATION Spec
CONSTANTS
    Imeis = {i1}
    Custids = {c1}
    Versions = {1}
    Snames = {s1}
    Workers = {w1}
    CustomerOf <- MCCustomerOf
    Any = Any
    None = None
    MaxOps = 5
    MaxFaults = 0
INVARIANT
    SettingsPushed
