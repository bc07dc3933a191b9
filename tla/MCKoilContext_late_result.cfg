CONSTANTS
    k1 = k1
    k2 = k2
    o1 = o1
    o2 = o2
    m1 = m1
    f1 = f1
    NoKoil = NoKoil
    Koils = {k1}
    Objects = {}
    Wrappers = {}
    Futures = {f1}
    FieldCount = 2
    MaxStarts = 1
SPECIFICATION Spec
CHECK_DEADLOCK FALSE
INVARIANT AmbientKoilIsActive
