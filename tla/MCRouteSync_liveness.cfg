CONSTANTS
    t1 = t1  t2 = t2  a = a  b = b  A = A  r1 = r1  r2 = r2
    Tenants = {t1}
    Addrs = {a}
    Lower <- PlainLower
    Payloads <- OneOrNone
    Requests = {r1, r2}
    Tables <- AtWork
    Clouds <- ItsRoute
    Ops = {"Upsert", "ChangeTenantStatus", "DeleteTenant", "DeleteRoutes", "RegisterTenant", "GetServiceName", "RestoreTenantAlias", "DeleteMissing", "Sync"}
    Faults = {"paas", "db", "service", "crash"}
    WatchEcho = TRUE
    BusCap = 1
    MaxOps = 2
    MaxFaults = 1
    None = None
SPECIFICATION FairSpec
PROPERTIES EventuallyConverged RemovedTenantGoes
