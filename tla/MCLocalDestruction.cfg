SPECIFICATION FairSpec
CONSTANTS
    p = p
    q = q
    near = near
    far = far
    t = t
    d = d
    Processes = {p}
    Locations = {near, far}
    Configured <- FarFirst
    Order <- NearFirst
    Primary = near
    Targets = {t}
    Devices = {d}
    MaxArrivals = 1
    Nobody = Nobody
    None = None
INVARIANTS
    RemovalCovered
PROPERTIES
    ReportsTrue
    DenominatorKept
    StartedResolves
