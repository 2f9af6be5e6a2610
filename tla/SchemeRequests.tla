---------------------------- MODULE SchemeRequests ----------------------------
(***************************************************************************)
(* The API requests that write tenant schemes, one at a time, with all     *)
(* they do to the scheme: controller/api.go and synchronizer/              *)
(* synchronizer.go.  (How requests interleave with each other and with the *)
(* sync passes is the subject of RouteSync.)  Between two requests general *)
(* routes appear in the cloud and go, and config maps change, as their     *)
(* owners please.                                                          *)
(***************************************************************************)
EXTENDS TenantScheme, TLC

CONSTANTS
    Payloads,       \* bodies of POST /routes and POST /validate
    Registrations,  \* bodies of POST /tenants
    CloudRoutes,    \* the general routes that may exist
    ParentMaps      \* bound: what the config maps may say, namespace -> parent

\* The sites of a scheme, with lists of a type.
AreSites(sites, Lists) ==
    /\ DOMAIN sites \subseteq Sites
    /\ \A site \in DOMAIN sites :
          /\ DOMAIN sites[site] \subseteq Services
          /\ \A service \in DOMAIN sites[site] : sites[site][service] \in Lists

\* TenantDns, without what the other modules are about.
IsRow(row) ==
    /\ DOMAIN row = {"sites", "active", "namespaces", "domainName",
                     "tenantName", "serviceName"}
    /\ AreSites(row.sites, Seq(StoredAddress))
    /\ row.active \in BOOLEAN /\ row.namespaces \in Seq(Namespaces)
    /\ row.domainName \in Domains /\ row.tenantName \in TenantNames
    /\ row.serviceName \in Services \union {NoName}

Payload(p) == [p.row EXCEPT !.sites = FlattenAddressesToHosts(@)]

ASSUME RequestAssumption ==
    /\ \A p \in Payloads : /\ p.tenant \in Tenants /\ IsRow(Payload(p))
                           /\ AreSites(p.row.sites, Seq(Address))
    /\ \A r \in Registrations : /\ r.tenant \in Tenants
                                /\ r.namespaces \in Seq(Namespaces)
                                /\ r.tenantName \in TenantNames
    /\ CloudRoutes \subseteq GeneralRoute
    /\ ParentMaps \subseteq [Namespaces -> Namespaces \union {NoParent, None}]

VARIABLES
    tenantDns,      \* the table: tenant -> row or None
    generalRoutes,  \* the general routes of the cloud
    parentOf,       \* the config maps of the namespaces, as cached
    accepted,       \* history: tenants whose scheme was accepted, with the config
                    \* maps of their namespaces as they are
    answer          \* the request that was answered last: [op, tenant, ok, data,
                    \* before], data being what Upsert was called with; or the
                    \* tenant of a request that failed

vars == <<tenantDns, generalRoutes, parentOf, accepted, answer>>

EmptySites == [site \in {} |-> None]

Answer(op, t, ok, data) ==
    answer' = [op |-> op, tenant |-> t, ok |-> ok, data |-> data,
               before |-> tenantDns[t]]

\* An error other than that of the hierarchy.
Failed(t) ==
    answer' = [op |-> "Failed", tenant |-> t, ok |-> FALSE, data |-> None,
               before |-> tenantDns[t]]

Unmoved == UNCHANGED <<generalRoutes, parentOf>>

-----------------------------------------------------------------------------
(* Upsert *)

\* generateNewUrlsForServicesIfNecessary takes effect.
UrlsChange(t, d, rows) ==
    /\ ~d.active /\ DefaultSite \in DOMAIN d.sites
    /\ rows[t] # None
    /\ \/ rows[t].domainName # d.domainName
       \/ rows[t].tenantName # d.tenantName

\* The sites it may leave behind.
GenerateNewUrls(t, d, rows) ==
    LET routes == GeneralRoutesOf(d.namespaces, generalRoutes)
        bases == IF rows[t].domainName = d.domainName THEN {d.sites}
                 ELSE {[d.sites EXCEPT ![DefaultSite] = services] : services \in
                         GenerateRoutesForServices(d.domainName, d.namespaces,
                                                   routes)}
        WithShopping(sites) ==
            IF Shopping \in DOMAIN sites[DefaultSite]
            THEN [sites EXCEPT ![DefaultSite][Shopping] =
                     <<Url(ShoppingHost[<<d.domainName, d.tenantName>>])>>]
            ELSE sites
    IN IF UrlsChange(t, d, rows) THEN {WithShopping(s) : s \in bases}
       ELSE {d.sites}

\* Mutant: the service is taken out and not put back under its new name.
ChangeServiceNameLoses(services, to) ==
    Restrict(services, DOMAIN services \ {Shopping})

\* changeServiceNameIfExists
ChangeServiceName(services, to) ==
    [s \in (DOMAIN services \ {Shopping}) \union {to} |->
        IF s = to THEN services[Shopping] ELSE services[s]]

\* Of the sites with a shopping frontend, one is found and its service renamed.
RenameShopping(t, d, sites, rows) ==
    LET found == {site \in DOMAIN sites : Shopping \in DOMAIN sites[site]}
        name == IF d.serviceName # NoName THEN d.serviceName
                ELSE IF rows[t] # None /\ rows[t].serviceName # NoName
                THEN rows[t].serviceName
                ELSE GenerateUniqueServiceName(d.tenantName)
    IN IF found = {}
       THEN {[d EXCEPT !.sites = sites]}
       ELSE {[d EXCEPT !.sites = [sites EXCEPT ![site] =
                                    ChangeServiceName(@, name)],
                       !.serviceName = name] : site \in found}

\* The rows Upsert may write.  CheckCollisions is called, and its result is
\* not used; the list of namespaces is stored as the hierarchy check left it.
UpsertRows(t, data, rows) ==
    LET d == [data EXCEPT !.namespaces = WithoutMaster(@).array]
        routes == GeneralRoutesOf(d.namespaces, generalRoutes) IN
    UNION {RenameShopping(t, d, FilterGeneralRoutes(sites, routes), rows) :
             sites \in GenerateNewUrls(t, d, rows)}

\* Synchronizer.Upsert, as called by the handler of `op'.
UpsertAs(op, t, data) ==
    \E ok \in HierarchyOutcomes(data.namespaces, parentOf) :
        /\ Answer(op, t, ok, data)
        /\ IF ok
           THEN /\ \E row \in UpsertRows(t, data, tenantDns) :
                      tenantDns' = [tenantDns EXCEPT ![t] = row]
                /\ accepted' = accepted \union {t}
           ELSE UNCHANGED <<tenantDns, accepted>>

-----------------------------------------------------------------------------
(* Requests *)

\* POST and PUT /routes
Upsert(p) ==
    /\ answer = None
    /\ UpsertAs("Upsert", p.tenant, Payload(p))
    /\ Unmoved

\* POST /routes/{id}/activate and /deactivate write the row as it was read.
ChangeTenantStatus(t, active) ==
    /\ answer = None
    /\ tenantDns[t] # None
    /\ UpsertAs("ChangeTenantStatus", t, [tenantDns[t] EXCEPT !.active = active])
    /\ Unmoved

\* Config maps, services, routes or rows cannot be read, no name is found, or the
\* row cannot be written: the call of Upsert ends with the error.
UpsertFails(t) ==
    /\ answer = None
    /\ Failed(t)
    /\ Unmoved /\ UNCHANGED <<tenantDns, accepted>>

\* POST /tenants: an insertion, which fails if there is a row.
RegisterTenant(r) ==
    /\ answer = None
    /\ tenantDns[r.tenant] = None
    /\ tenantDns' = [tenantDns EXCEPT ![r.tenant] =
          [sites |-> EmptySites, active |-> FALSE, namespaces |-> r.namespaces,
           domainName |-> NoDomain, tenantName |-> r.tenantName,
           serviceName |-> NoName]]
    /\ accepted' = accepted \ {r.tenant}
    /\ Answer("RegisterTenant", r.tenant, TRUE, tenantDns'[r.tenant])
    /\ Unmoved

\* DELETE /routes/{id}
DeleteRoutes(t) ==
    /\ answer = None
    /\ tenantDns[t] # None
    /\ tenantDns' = [tenantDns EXCEPT ![t].sites = EmptySites]
    /\ Answer("DeleteRoutes", t, TRUE, tenantDns'[t])
    /\ Unmoved /\ UNCHANGED accepted

\* FindByTenantId with generateDefault: a scheme of the routes listed for the
\* tenant, a host for each.
DefaultSchemes(row) ==
    UNION {{[row EXCEPT !.sites = [site \in {DefaultSite} |->
                                     [s \in DOMAIN view |-> <<Plain(host[s])>>]]] :
              host \in {h \in [DOMAIN view -> Hosts] :
                          \A s \in DOMAIN view : h[s] \in view[s]}} :
             view \in AnnotatedHosts(row, DefaultSite, generalRoutes)}

\* POST restore-tenant-alias and create-os-tenant-alias-routes for a tenant
\* without sites: Upsert of the default scheme, then ChangeTenantStatus.
RestoreTenantAlias(t) ==
    LET op == "RestoreTenantAlias" IN
    /\ answer = None
    /\ tenantDns[t] # None
    /\ IF DOMAIN tenantDns[t].sites # {}
       THEN UpsertAs(op, t, [tenantDns[t] EXCEPT !.active = TRUE])
       ELSE \E d \in DefaultSchemes(tenantDns[t]) :
            \E ok \in HierarchyOutcomes(d.namespaces, parentOf) :
              IF ~ok
              THEN /\ Answer(op, t, FALSE, d)
                   /\ UNCHANGED <<tenantDns, accepted>>
              ELSE \E row \in UpsertRows(t, d, tenantDns) :
                   LET rows == [tenantDns EXCEPT ![t] = row]
                       data == [row EXCEPT !.active = TRUE] IN
                   /\ accepted' = accepted \union {t}
                   /\ \/ Failed(t) /\ tenantDns' = rows
                      \/ \E again \in HierarchyOutcomes(data.namespaces, parentOf) :
                           /\ Answer(op, t, again, d)
                           /\ IF again
                              THEN \E r \in UpsertRows(t, data, rows) :
                                     tenantDns' = [rows EXCEPT ![t] = r]
                              ELSE tenantDns' = rows
    /\ Unmoved

\* The owner of a general route creates or deletes it.
ChangeGeneralRoute(r) ==
    /\ answer = None
    /\ generalRoutes' = IF r \in generalRoutes THEN generalRoutes \ {r}
                        ELSE generalRoutes \union {r}
    /\ UNCHANGED <<tenantDns, parentOf, accepted, answer>>

\* The owner of a namespace writes or deletes its config map, and the event
\* changes the cache.
ChangeConfigMap(n) ==
    /\ answer = None
    /\ \E parent \in Namespaces \union {NoParent, None} :
          parentOf' = [parentOf EXCEPT ![n] = parent]
    /\ parentOf' \in ParentMaps \ {parentOf}
    /\ accepted' = {t \in accepted : n \notin ToSet(tenantDns[t].namespaces)}
    /\ UNCHANGED <<tenantDns, generalRoutes, answer>>

\* The answer has been sent; the next request may come.
Reply ==
    /\ answer # None
    /\ answer' = None
    /\ Unmoved /\ UNCHANGED <<tenantDns, accepted>>

Init ==
    /\ tenantDns = [t \in Tenants |-> None]
    /\ generalRoutes = CloudRoutes
    /\ parentOf \in ParentMaps
    /\ accepted = {}
    /\ answer = None

Next ==
    \/ \E p \in Payloads : Upsert(p)
    \/ \E t \in Tenants, active \in BOOLEAN : ChangeTenantStatus(t, active)
    \/ \E r \in Registrations : RegisterTenant(r)
    \/ \E t \in Tenants : UpsertFails(t) \/ DeleteRoutes(t) \/ RestoreTenantAlias(t)
    \/ \E r \in CloudRoutes : ChangeGeneralRoute(r)
    \/ \E n \in Namespaces : ChangeConfigMap(n)
    \/ Reply

Spec == Init /\ [][Next]_vars

-----------------------------------------------------------------------------
(* Properties *)

After == tenantDns[answer.tenant]

\* Rows and answers have their types.
TypeOK ==
    /\ DOMAIN tenantDns = Tenants
    /\ \A t \in Tenants : tenantDns[t] # None => IsRow(tenantDns[t])
    /\ generalRoutes \subseteq CloudRoutes
    /\ parentOf \in ParentMaps
    /\ accepted \subseteq Tenants
    /\ answer # None => /\ answer.tenant \in Tenants /\ answer.ok \in BOOLEAN
                        /\ answer.ok => IsRow(After) /\ IsRow(answer.data)

Answered(op) == answer # None /\ answer.op = op

\* The namespaces are a chain from the master namespace down.
IsChain(set) ==
    \E order \in SetToSeqs(set) :
        \A i \in DOMAIN order :
            parentOf[order[i]] = IF i = 1 THEN Master ELSE order[i - 1]

\* Upsert accepts a scheme exactly when its namespaces besides the master one
\* are a single one or a chain from it, in whatever order the config maps are
\* looked at and wherever the list names the master namespace, if it does so once
\* at most: of a list that names it twice, the cut leaves one behind.
AcceptedIffChain ==
    Answered("Upsert") \/ Answered("ChangeTenantStatus") =>
        LET list == answer.data.namespaces
            others == {i \in DOMAIN list : list[i] # Master} IN
        Cardinality(DOMAIN list \ others) <= 1 =>
            (answer.ok <=> \/ Cardinality(others) <= 1
                           \/ IsChain({list[i] : i \in others}))

RoutesOf(row) == GeneralRoutesOf(row.namespaces, generalRoutes)
IsGeneral(row, h) == HostBelongsToRoutes(h, RoutesOf(row))
GeneralsIn(row, list) == {i \in DOMAIN list : IsGeneral(row, list[i].host)}

\* The addresses of a list of the scheme whose host no general route has, if at
\* most one of the list has one; of lists with more the filter loses some.
OwnAddresses(row, list) ==
    IF Cardinality(GeneralsIn(row, list)) > 1 THEN {}
    ELSE {a \in ToSet(list) : ~IsGeneral(row, a.host)}

\* The shopping frontend and the service named after the tenant are one.
Renamed(row, service) == service \in {Shopping, row.serviceName}

\* The renaming of the shopping frontend puts its list in the place of that of a
\* service which has the tenant's name for it already.
Overwritten(sites, site, service) ==
    service = After.serviceName /\ Shopping \in DOMAIN sites[site]

\* The request made Upsert generate hosts for the scheme.
NewUrls == UrlsChange(answer.tenant, answer.data,
                      [tenantDns EXCEPT ![answer.tenant] = answer.before])

\* A scheme that was accepted is served: each host of its own is found by
\* Search and GetSite, and an active tenant's list of routes has it for the
\* service, although the filter of general routes, the renaming of the shopping
\* frontend and the merge with general routes came between.  Not so, if a service
\* is called what the shopping frontend is renamed to.
UpsertedHostServed ==
    Answered("Upsert") /\ answer.ok /\ ~NewUrls =>
        \A site \in DOMAIN answer.data.sites :
        \A service \in DOMAIN answer.data.sites[site] :
            LET list == answer.data.sites[site][service]
                own == OwnAddresses(After, list) IN
            /\ ~Overwritten(answer.data.sites, site, service) =>
                  \A a \in own : \A general \in GeneralServices(RoutesOf(After)) :
                      SitesByHost(Merge(After.sites, general), a.host) # {}
            /\ After.active /\ own # {} /\ ~Renamed(After, service) =>
                  \A view \in AnnotatedHosts(After, site, generalRoutes) :
                      /\ service \in DOMAIN view
                      /\ view[service] \subseteq HostsOf(list)
                      /\ \A a \in own : a.host \in view[service]

\* Activating or deactivating a tenant leaves its scheme alone, although the
\* whole row passes through Upsert again: no own address is lost but those that the
\* renaming overwrites, none is added, and the names of the tenant stay.
StatusChangeKeepsScheme ==
    Answered("ChangeTenantStatus") /\ answer.ok =>
        LET before == answer.before IN
        /\ After.active = answer.data.active
        /\ After.domainName = before.domainName
        /\ After.tenantName = before.tenantName
        /\ before.serviceName # NoName => After.serviceName = before.serviceName
        /\ \A e \in Entries(After.sites) : \E f \in Entries(before.sites) :
              /\ e[1] = f[1] /\ e[3] = f[3]
              /\ \/ e[2] = f[2]
                 \/ Renamed(After, e[2]) /\ f[2] = Shopping
        /\ \A site \in DOMAIN before.sites :
           \A service \in {s \in DOMAIN before.sites[site] :
                           ~Overwritten(before.sites, site, s)} :
           \A a \in OwnAddresses(before, before.sites[site][service]) :
              \E e \in Entries(After.sites) :
                  /\ e[1] = site /\ e[3] = a
                  /\ \/ e[2] = service
                     \/ service = Shopping /\ Renamed(After, e[2])

\* A tenant whose scheme was accepted can be activated and deactivated later,
\* whatever other requests and general routes have done to the row since: it is
\* refused only if a config map of its own namespaces has changed or gone since,
\* or if taking the master namespace out of its list left a namespace twice.
StatusChangeAccepted ==
    Answered("ChangeTenantStatus") /\ ~answer.ok =>
        \/ answer.tenant \notin accepted
        \/ Cardinality(ToSet(answer.before.namespaces))
              < Len(answer.before.namespaces)

\* The scheme that restore-tenant-alias generates holds hosts of the tenant
\* only, and serves every public service of its namespaces: by a host of its
\* own, by a general route, or not at all if the tenant has no domain name and
\* the service no general route.
RestoredSchemeServes ==
    Answered("RestoreTenantAlias") /\ answer.ok
    /\ answer.before.sites = EmptySites =>
        /\ \A e \in Entries(After.sites) : ~IsGeneral(After, e[3].host)
        /\ ~answer.before.active =>
             \A service \in PublicServicesOf(After.namespaces) :
                \/ Renamed(After, service)
                \/ \E e \in Entries(After.sites) :
                      /\ e[2] = service
                      /\ e[3].host # NoHost \/ After.domainName = NoDomain
                \/ \E e \in Entries(answer.data.sites) :
                      e[2] = service /\ IsGeneral(After, e[3].host)

\* A scheme the validator finds nothing wrong with is stored without a host
\* that leads to two services, in the tenant or across tenants, if it is sent as
\* hosts, with "http://" or without.  The in-tenant check takes "https://h" and
\* "h/x" for others than "h", which are stored as the same; no check finds a
\* stored URL, which Upsert generates and compares with nothing (NewUrls).
ValidatedSchemeUnique ==
    Answered("Upsert") /\ answer.ok /\ ~NewUrls =>
        \A p \in Payloads :
            /\ p.tenant = answer.tenant /\ Payload(p) = answer.data
            /\ InvalidServices(p.tenant, p.row.sites, tenantDns) = {}
            /\ \A e \in Entries(p.row.sites) :
                  e[3].proto # "https" /\ e[3].path = NoPath
            => \A e \in Entries(After.sites), t \in Tenants :
                  tenantDns[t] # None =>
                    \A f \in Entries(tenantDns[t].sites) :
                       f[3].host = e[3].host =>
                           \/ f[2] = e[2] \/ Renamed(After, e[2])
                           \/ f[3] = Url(f[3].host)
===============================================================================
