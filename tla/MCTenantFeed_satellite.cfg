CONSTANTS
    t1 = t1  t2 = t2
    Tenants = {t1, t2}
    Satellite = TRUE
    Managers <- MCManagers
    Tables <- MCTables
    MaxChanges = 2
    MaxBreaks = 1
    MaxFaults = 1
    None = None
SPECIFICATION Spec
INVARIANTS TypeOK ActiveTenantsFollow RowsFollow
PROPERTIES EventuallyCaughtUp
CHECK_DEADLOCK FALSE
