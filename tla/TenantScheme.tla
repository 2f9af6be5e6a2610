----------------------------- MODULE TenantScheme -----------------------------
(***************************************************************************)
(* What the service computes from a tenant scheme: domain/domain.go, the   *)
(* validator in domain/validator, and the functions of                     *)
(* synchronizer/synchronizer.go that derive one scheme from another.       *)
(*                                                                         *)
(* A scheme maps sites to services to lists of addresses.  An address is a *)
(* text: a host, before it a protocol or nothing, behind it a path or      *)
(* nothing.  Routes are made of its host; the validator compares texts.    *)
(* Of a Go slice that is cut in place the whole array matters, as the map  *)
(* still holds the slice at its old length.                                *)
(***************************************************************************)
EXTENDS Integers, FiniteSets, Sequences, SequencesExt

CONSTANTS
    Tenants, Sites, Services, Namespaces, Domains, TenantNames,
    Hosts, Lower,           \* hosts; Lower[h] is strings.ToLower(h)
    Paths, NoPath, Root,    \* what may follow a host: a path, "", "/"
    Protocol,               \* of the URLs the service generates
    ValidHosts,             \* the hosts that pass the syntax check of a URL
    Master,                 \* the namespace of the service itself
    DefaultSite, Shopping,  \* "default", "shopping-frontend"
    PublicServices,         \* namespace -> services annotated as public
    DomainHost,             \* <<service, domain>> -> generated host
    ShoppingHost,           \* <<domain, tenant name>> -> generated host
    NameCandidates,         \* tenant name -> service names in order of trial
    TakenNames,             \* names of services that exist in the cloud
    NoHost, NoDomain, NoName, NoParent, \* the empty strings
    None                    \* "no row", "no config map"

Address == [proto : {"", "http", "https"}, host : Hosts, path : Paths]

\* The address that is a host, and the URL of a host; no others are stored.
Plain(h) == [proto |-> "", host |-> h, path |-> NoPath]
Url(h) == [proto |-> Protocol, host |-> h, path |-> Root]
StoredAddress == {Plain(h) : h \in Hosts} \union {Url(h) : h \in Hosts}

ASSUME SchemeAssumption ==
    /\ Lower \in [Hosts -> Hosts] /\ ValidHosts \subseteq Hosts
    /\ {NoPath, Root} \subseteq Paths /\ Protocol \in {"http", "https"}
    /\ IsFiniteSet(Namespaces) /\ Master \in Namespaces
    /\ NoParent \notin Namespaces /\ None \notin Namespaces \union Seq(StoredAddress)
    /\ DefaultSite \in Sites /\ Shopping \in Services
    /\ PublicServices \in [Namespaces -> SUBSET Services]
    /\ DomainHost \in [Services \X Domains -> Hosts \ {NoHost}]
    /\ ShoppingHost \in [Domains \X TenantNames -> Hosts]
    /\ NameCandidates \in [TenantNames -> Seq(Services)]
    /\ NoHost \in Hosts \ ValidHosts
    /\ NoDomain \in Domains /\ NoName \notin Services
    /\ \A n \in TenantNames : \E i \in DOMAIN NameCandidates[n] :
          NameCandidates[n][i] \in Services \ TakenNames

\* A general route of the cloud: its namespace, service and host.
GeneralRoute == [ns : Namespaces, service : Services, host : Hosts]

HostsOf(list) == {a.host : a \in ToSet(list)}

\* FlattenAddressesToHosts
FlattenAddressesToHosts(sites) ==
    [site \in DOMAIN sites |-> [service \in DOMAIN sites[site] |->
        [i \in DOMAIN sites[site][service] |->
            Plain(sites[site][service][i].host)]]]

\* All <<site, service, address>> of a scheme.
Entries(sites) ==
    UNION {UNION {{<<site, service, a>> : a \in ToSet(sites[site][service])} :
                     service \in DOMAIN sites[site]} : site \in DOMAIN sites}

-----------------------------------------------------------------------------
(* Slices cut in place *)

Slice(list) == [array |-> list, len |-> Len(list), deleted |-> FALSE]

\* append(s[:i], s[i+1:]...) for an element before the last of the slice, and
\* s[:i] otherwise.
CutAt(s, i) ==
    IF i < s.len
    THEN [s EXCEPT !.array = [j \in DOMAIN s.array |->
                                IF j \in i..(s.len - 1) THEN s.array[j + 1]
                                ELSE s.array[j]],
                   !.len = @ - 1]
    ELSE [s EXCEPT !.len = i - 1]

\* Iteration i of a loop over the slice that cuts the elements it hits; a hit in a
\* slice of one of the lengths deletesAt deletes the slice.
CutStep(s, i, hits, deletesAt) ==
    IF s.array[i] \notin hits THEN s
    ELSE IF s.len \in deletesAt THEN [s EXCEPT !.deleted = TRUE]
    ELSE CutAt(s, i)

\* What the loop over the whole list leaves.
CutHits(list, hits, deletesAt) ==
    LET cut[i \in 0..Len(list)] ==
          IF i = 0 THEN Slice(list) ELSE CutStep(cut[i - 1], i, hits, deletesAt)
    IN cut[Len(list)]

-----------------------------------------------------------------------------
(* Composite namespaces *)

\* getCompositeNamespaceForTenant takes the master namespace out of the list.
WithoutMaster(namespaces) == CutHits(namespaces, {Master}, {})

\* Mutant: the search ends at the first namespace with another parent.
ResolveChildAtFirst(parentOf) ==
    LET Resolve[left \in SUBSET Namespaces] == [parent \in Namespaces |->
          UNION {IF parentOf[n] # parent THEN {FALSE}
                 ELSE IF left = {n} THEN {TRUE}
                 ELSE Resolve[left \ {n}][n] : n \in left}]
    IN Resolve

\* resolveChildForNamespace, over the namespaces whose config map is left: the
\* outcomes of its iterations over the map, which come in any order.
ResolveChildForNamespace(parentOf) ==
    LET Resolve[left \in SUBSET Namespaces] == [parent \in Namespaces |->
          LET hits == {n \in left : parentOf[n] \in {parent, NoParent}} IN
          IF hits = {} THEN {FALSE}
          ELSE UNION {IF parentOf[n] = NoParent THEN {FALSE}
                      ELSE IF left = {n} THEN {TRUE}
                      ELSE Resolve[left \ {n}][n] : n \in hits}]
    IN Resolve

\* Whether the hierarchy of the list of namespaces can be built.
HierarchyOutcomes(namespaces, parentOf) ==
    LET s == WithoutMaster(namespaces)
        others == ToSet(SubSeq(s.array, 1, s.len)) IN
    IF s.len <= 1 THEN {TRUE}
    ELSE IF \E n \in others : parentOf[n] = None THEN {FALSE}
    ELSE ResolveChildForNamespace(parentOf)[others][Master]

-----------------------------------------------------------------------------
(* General routes *)

\* The general routes of the namespaces of a tenant and of the master one.
GeneralRoutesOf(namespaces, general) ==
    {r \in general : r.ns \in ToSet(namespaces) \union {Master}}

HostBelongsToRoutes(h, routes) == \E r \in routes : Lower[r.host] = Lower[h]

\* Mutant: an address is cut from the front of the slice, whichever it was.
FilterListFront(list, routes) ==
    IF \E h \in HostsOf(list) : HostBelongsToRoutes(h, routes)
    THEN IF Len(list) = 1 THEN None ELSE Append(Tail(list), list[Len(list)])
    ELSE list

\* filterGeneralRoutes on one list; None means that the service is deleted.
FilterList(list, routes) ==
    LET hits == {a \in ToSet(list) : HostBelongsToRoutes(a.host, routes)}
        end == CutHits(list, hits, {1})
    IN IF end.deleted THEN None ELSE end.array

\* Mutant: the service whose list has become empty stays.
FilterGeneralRoutesKeeps(sites, routes) ==
    [site \in DOMAIN sites |-> [service \in DOMAIN sites[site] |->
        FilterList(sites[site][service], routes)]]

\* filterGeneralRoutes
FilterGeneralRoutes(sites, routes) ==
    [site \in DOMAIN sites |->
        LET kept == {service \in DOMAIN sites[site] :
                        FilterList(sites[site][service], routes) # None} IN
        [service \in kept |-> FilterList(sites[site][service], routes)]]

\* routesToServices: of several routes of a service the last one stays.
GeneralServices(routes) ==
    {s \in [{r.service : r \in routes} -> Hosts] :
        \A service \in DOMAIN s :
            [service |-> service, host |-> s[service]]
                \in {[service |-> r.service, host |-> r.host] : r \in routes}}

\* MergeDatabaseSchemeWithGeneralRoutes: every site of the scheme gets the
\* general services it has no list of its own for.
Merge(sites, services) ==
    [site \in DOMAIN sites |->
        [service \in DOMAIN sites[site] \union DOMAIN services |->
            IF service \in DOMAIN sites[site] THEN sites[site][service]
            ELSE <<Plain(services[service])>>]]

-----------------------------------------------------------------------------
(* Generated routes *)

\* generateRoutesForServices, on the public services of the namespaces.
GeneratedHosts(service, domain, routes) ==
    IF domain # NoDomain THEN {DomainHost[<<service, domain>>]}
    ELSE LET hosts == {r.host : r \in {g \in routes : g.service = service}} IN
         IF hosts = {} THEN {NoHost} ELSE hosts

PublicServicesOf(namespaces) ==
    UNION {PublicServices[n] : n \in ToSet(namespaces) \union {Master}}

\* Nothing is stored without its protocol but the host that could not be found.
GeneratedUrl(h) == IF h = NoHost THEN Plain(NoHost) ELSE Url(h)

GenerateRoutesForServices(domain, namespaces, routes) ==
    {[service \in PublicServicesOf(namespaces) |->
        <<GeneratedUrl(hosts[service])>>] :
        hosts \in {h \in [PublicServicesOf(namespaces) -> Hosts] :
            \A service \in DOMAIN h :
                h[service] \in GeneratedHosts(service, domain, routes)}}

\* Mutant: a site the scheme does not have stays empty.
MergeIntoPresentSite(sites, site, services) ==
    IF site \notin DOMAIN sites THEN <<>>
    ELSE [service \in DOMAIN sites[site] \union DOMAIN services |->
            IF service \in DOMAIN sites[site] THEN sites[site][service]
            ELSE services[service]]

\* mergeDatabaseRoutesWithGenerated: missed services are added to the site.
MergeDatabaseRoutesWithGenerated(sites, site, services) ==
    LET own == IF site \in DOMAIN sites THEN sites[site] ELSE <<>> IN
    [service \in DOMAIN own \union DOMAIN services |->
        IF service \in DOMAIN own THEN own[service] ELSE services[service]]

\* generateUniqueServiceName: the first name no service of the cloud has.
GenerateUniqueServiceName(tenantName) ==
    LET names == NameCandidates[tenantName]
        free == {i \in DOMAIN names : names[i] \notin TakenNames} IN
    names[CHOOSE i \in free : \A j \in free : i <= j]

-----------------------------------------------------------------------------
(* Views of a scheme *)

\* extractSiteByHost: the default site is preferred.
SitesByHost(sites, h) ==
    LET found == {e[1] : e \in {f \in Entries(sites) : f[3].host = h}} IN
    IF DefaultSite \in found THEN {DefaultSite} ELSE found

\* AppendToRoutes: the routes of a tenant's site join the general ones.
AppendToRoutes(services, routes) ==
    {[service |-> r.service, host |-> r.host, priority |-> -1] : r \in routes}
    \union {r \in [service : DOMAIN services, host : Hosts, priority : {0}] :
               r.host \in HostsOf(services[r.service])}

\* filterRoutes: of each service a route of the highest priority; which one, the
\* sort leaves open.
FilterRoutes(routes) ==
    [service \in {r.service : r \in routes} |->
        LET same == {r \in routes : r.service = service} IN
        {r.host : r \in {q \in same : \A o \in same : o.priority <= q.priority}}]

\* GetAnnotatedRoutes: the hosts each service may be listed with for a site; the
\* service named after the tenant is left out.
AnnotatedHosts(row, site, general) ==
    LET routes == GeneralRoutesOf(row.namespaces, general)
        Listed(own) ==
          FilterRoutes(AppendToRoutes(
              Restrict(own, DOMAIN own \ {row.serviceName}), routes))
    IN IF row.active
       THEN {Listed(IF site \in DOMAIN row.sites THEN row.sites[site] ELSE <<>>)}
       ELSE {Listed(MergeDatabaseRoutesWithGenerated(row.sites, site, services)) :
                services \in GenerateRoutesForServices(row.domainName,
                                                       row.namespaces, routes)}

-----------------------------------------------------------------------------
(* SchemeValidator *)

\* The in-tenant checker strips "http://" only.
InTenantForm(a) == IF a.proto = "http" THEN [a EXCEPT !.proto = ""] ELSE a

\* validateTenantDuplications
DuplicatedInTenant(service, a, sites) ==
    \E site \in DOMAIN sites : \E other \in DOMAIN sites[site] \ {service} :
        \E i \in DOMAIN sites[site][other] :
            InTenantForm(sites[site][other][i]) = InTenantForm(a)

\* The in-scheme checker strips either protocol of the address, and nothing of
\* those that are stored.
InSchemeForm(a) == [a EXCEPT !.proto = ""]

StoredByOthers(t, rows) ==
    UNION {Entries(rows[u].sites) : u \in {v \in Tenants \ {t} : rows[v] # None}}

\* Mutant: the test for the other service is the wrong way round.
DuplicatedInSameService(t, service, a, rows) ==
    \E e \in StoredByOthers(t, rows) : e[2] = service /\ e[3] = InSchemeForm(a)

\* validateSchemeDuplications
DuplicatedInScheme(t, service, a, rows) ==
    \E e \in StoredByOthers(t, rows) : e[2] # service /\ e[3] = InSchemeForm(a)

\* Check: a service is invalid once one of its addresses fails one checker.
InvalidServices(t, sites, rows) ==
    {x \in Sites \X Services :
        /\ x[1] \in DOMAIN sites /\ x[2] \in DOMAIN sites[x[1]]
        /\ \E a \in ToSet(sites[x[1]][x[2]]) :
              \/ a.host \notin ValidHosts
              \/ DuplicatedInTenant(x[2], a, sites)
              \/ DuplicatedInScheme(t, x[2], a, rows)}
===============================================================================
