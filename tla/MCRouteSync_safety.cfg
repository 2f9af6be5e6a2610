CONSTANTS
    t1 = t1  t2 = t2  a = a  b = b  A = A  r1 = r1  r2 = r2
    Tenants = {t1}
    Addrs = {a, b}
    Lower <- PlainLower
    Payloads <- TwoHosts
    Requests = {r1, r2}
    Tables <- AnyStart
    Clouds <- SomeRoutes
    Ops = {"Upsert", "ChangeTenantStatus", "DeleteTenant", "DeleteRoutes", "RegisterTenant", "GetServiceName", "RestoreTenantAlias", "DeleteMissing", "Sync"}
    Faults = {"paas", "db", "service", "crash"}
    WatchEcho = TRUE
    BusCap = 2
    MaxOps = 2
    MaxFaults = 1
    None = None
SYMMETRY Symmetric
SPECIFICATION Spec
INVARIANTS TypeOK SyncInv QuiescentConverged
PROPERTIES RestoredRowKept
