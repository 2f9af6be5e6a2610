CONSTANTS
    t1 = t1  t2 = t2  a = a  b = b  A = A  r1 = r1  r2 = r2
    Tenants = {t1}
    Addrs = {a}
    Lower <- PlainLower
    Payloads <- OneOrNone
    Requests = {r1, r2}
    Tables <- Marked
    Clouds <- ItsRoute
    Ops = {"Upsert"}
    Faults = {}
    WatchEcho = FALSE
    BusCap = 1
    MaxOps = 1
    MaxFaults = 0
    None = None
SPECIFICATION Spec
PROPERTIES AcknowledgedWriteStored
