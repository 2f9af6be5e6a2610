CONSTANTS
    t1 = t1  t2 = t2  svc = svc  aux = aux  shop = shop
    name1 = name1  name1b = name1b  name2 = name2
    m = m  n1 = n1  n2 = n2  site0 = site0  site1 = site1
    d1 = d1  tn1 = tn1  tn2 = tn2
    own1 = own1  own2 = own2  gen1 = gen1  gen1up = gen1up
    bad = bad  gsvc = gsvc  gshop1 = gshop1  gshop2 = gshop2  nohost = nohost
    nopath = nopath  root = root
    Tenants = {t1, t2}
    Sites = {site0, site1}
    Services = {svc, aux, shop, name1, name1b, name2}
    Namespaces = {m, n1, n2}
    Domains = {NoDomain, d1}
    TenantNames = {tn1, tn2}
    Hosts = {own1, own2, gen1, gen1up, bad, gsvc, gshop1, gshop2, nohost}
    Lower <- MCLower
    ValidHosts = {own1, own2, gen1, gen1up, gsvc, gshop1, gshop2}
    Paths = {nopath, root}
    NoPath = nopath
    Root = root
    Protocol = "https"
    Master = m
    DefaultSite = site0
    Shopping = shop
    PublicServices <- MCPublicServices
    DomainHost <- MCDomainHost
    ShoppingHost <- MCShoppingHost
    NameCandidates <- MCNameCandidates
    TakenNames = {name1}
    NoHost = nohost
    NoDomain = NoDomain
    NoName = NoName
    NoParent = NoParent
    None = None
    Payloads <- MCPayloads
    Registrations <- MCRegistrations
    CloudRoutes <- MCCloudRoutes
    ParentMaps <- MCParentMaps
SPECIFICATION Spec
INVARIANTS TypeOK AcceptedIffChain UpsertedHostServed StatusChangeKeepsScheme StatusChangeAccepted RestoredSchemeServes ValidatedSchemeUnique
