CONSTANTS
    i1 = i1  i2 = i2  t1 = t1  t2 = t2  h1 = h1  h2 = h2
    Instances = {i1, i2}
    Tenants = {t1, t2}
    Hosts = {h1, h2}
    Last = 3
    OldSchemas = {0, 2}
    Clouds <- MCClouds
    MaxFaults = 2
    MaxEdits = 1
    None = None
SPECIFICATION Spec
INVARIANTS TypeOK SchemaReady EditsSurviveStart
PROPERTIES RoutesSurviveStart EventuallyServing
