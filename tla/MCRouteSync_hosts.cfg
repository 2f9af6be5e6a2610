CONSTANTS
    t1 = t1  t2 = t2  a = a  b = b  A = A  r1 = r1  r2 = r2
    Tenants = {t1, t2}
    Addrs = {a, A}
    Lower <- MixedLower
    Payloads <- EitherSpelling
    Requests = {r1, r2}
    Tables <- AnyStart
    Clouds <- SomeRoutes
    Ops = {"Upsert", "ChangeTenantStatus", "DeleteTenant", "DeleteRoutes", "GetServiceName"}
    Faults = {}
    WatchEcho = FALSE
    BusCap = 1
    MaxOps = 3
    MaxFaults = 0
    None = None
SYMMETRY Symmetric
SPECIFICATION Spec
INVARIANTS ActiveHostCovered OrphanRouteCovered
PROPERTIES ImplementsRouteTable
