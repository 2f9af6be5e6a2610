# Verification of site-management

site-management keeps the routes of tenants: a table of tenant schemes in
PostgreSQL says which hosts each tenant has, and the service makes the cloud
(OpenShift or Kubernetes behind paas-mediation) hold a route for each host of
each active tenant and for no other.  It also follows the tenants of
tenant-manager, reports the hosts to the identity provider as redirect URIs and
keeps caches of what the cloud holds.  This directory has TLA+ models of the
parts where goroutines, remote calls and failures meet and of the algorithms on
schemes, the TLC runs that check them on small instances, and proofs, checked by
TLAPS, of what holds for every instance.

Paths below are relative to `src/site-management-service/` unless they start
with `src/`.

## Inventory

| part | state | operations | what it works with |
|---|---|---|---|
| synchronizer (`synchronizer/synchronizer.go`) | channel `bus` of 16 events, the worker goroutine with its snapshot, the timer | Upsert, ChangeTenantStatus, DeleteTenant, DeleteRoutes, GetServiceName, RegisterTenant, FindByTenantId; Sync, processSynchronization, StartAutoSyncTimer; SendRoutesToIDP; AwaitAction; composite mode: syncAllTenantsFromTM, SyncTenantsWithTM; buildSchemeIfRequired | called by the controller; calls the dao, the paas-mediation client, the tenant-manager client, the IDP facade |
| dao (`dao/pg/dao.go`) | tables `tenant_dns`, `inits` | FindAll, FindByTenantId, Upsert (SELECT, then INSERT or UPDATE, no transaction), Delete, DeleteIfRemoved, the init marker | PostgreSQL |
| controller (`controller/api.go`) | none | one handler per endpoint; synchronous mode waits for the caches | synchronizer |
| caches (`paasMediationClient/`) | three maps per namespace with a lock each, three channels of 50 messages, one syncing goroutine each, websocket clients that are never stopped, callbacks, update times | GetRoutes, CreateRoute, DeleteRoute, updateRoutesCache, INIT, syncingCacheInternal | paas-mediation over HTTP and websocket; the callback is SendRoutesToIDP |
| idp (`idp/`) | `hash` and `cancel` of the last request, sender goroutines | PostURI, Reset | identity provider; called from four goroutines |
| tenant-manager client (`tm/`, `http/websocket`) | active tenants, the websocket, callbacks | StartWatching, Update/DeleteFromActiveTenantsCache, GetTenantByObjectId | tenant-manager |
| domain and validator (`domain/`) | none | flattening and merging of schemes, unique route names, collisions | pure |
| start-up (`lib/`, `migration/`) | tables `bun_migrations`, `bun_migration_locks`, the old migrator's table | RunService, RunMigration, three migrations, the forced first sync | PostgreSQL |
| composite, messaging, utils, exceptions | none that changes at run time | one request, one mail, small helpers | outside |

What is hard in this system:

* handlers rewrite rows while a pass works from a snapshot, and the only signal
  between them is a channel that drops an event when it is full;
* the pass looks at the cloud through a cache that the watch updates late;
* whole rows are read, changed and written back without a transaction;
* a failed step of a pass is logged and skipped, and only a later pass repairs
  it; the process may stop at any point;
* the callback of the syncing goroutine reads through the cache it maintains;
* redirect URIs go out from detached goroutines that a cancel stops only
  between two attempts;
* events of tenant-manager are lost with a connection, and a loader rewrites the
  same rows from a list it read earlier;
* two instances may start on one database at once, and die between a change and
  the record of it;
* one field holds the update time of three caches, and a panic of one syncing
  goroutine may end the process;
* schemes pass through filters that cut slices in place while they range over
  them.

What makes each part right: no wake-up is lost, a restored tenant is not purged,
a quiet system agrees with its table, and the cloud settles on the table after
failures (synchronizer, dao); a quiet cache agrees with the cloud, and nobody
waits for ever (caches); what the hash stands for has been or will be delivered
(idp); a watcher that has caught up has the active tenants, and the rows, as
tenant-manager has them (tm); tables are complete before they are used, and the
first scheme loses neither routes nor edits (start-up); a call is told of a
timeout only if nothing happened, and every call is answered (controller); a
scheme that was accepted is served, and stays what it is when its tenant is
activated or deactivated (domain).  `PROJECT.json` lists every hazard at its
line.

## Modules

| module | is | run by |
|---|---|---|
| `RouteTable` | abstract specification of the synchronisation | through RouteSync |
| `RouteSync` | requests, table, sync pass, cloud | `MCRouteSync` |
| `RouteSyncProofs` | theorems on RouteSync, and that it implements RouteTable | tlapm |
| `RouteCache` | websocket clients, channel, syncing goroutine, GetRoutes | `MCRouteCache` |
| `QueueLemmas` | facts about queues: what one has, what is followed by what | tlapm |
| `RedirectUris` | SendRoutesToIDP, PostURI and its senders | `MCRedirectUris` |
| `TenantFeed` | the watch of tenant-manager and the loader | `MCTenantFeed` |
| `Startup` | migrations and the first scheme | `MCStartup` |
| `SyncCall` | handlers that wait, update times, panics | `MCSyncCall` |
| `RouteCacheProofs`, `RedirectUrisProofs`, `TenantFeedProofs`, `StartupProofs`, `SyncCallProofs`, `SchemeRequestsProofs` | theorems on the module each is named after | tlapm |
| `TenantScheme` | operators on schemes | extended by SchemeRequests |
| `SchemeRequests` | the requests that write schemes, one at a time | `MCSchemeRequests` |

RouteSync is where the parts meet; the other modules take apart what it has as
one step: a cache that is late (RouteCache), a row that a request writes
(SchemeRequests), the start (Startup), the answer of a request (SyncCall), the
rows that tenant-manager asks for (TenantFeed).  The operators whose comment
begins with "Mutant" are no part of the models: each is what a plausible mistake
would make of the definition below it, and shows that a property can fail.

### RouteSync: table, sync pass, cloud

| variable | code |
|---|---|
| `tenantDns` | the rows of `tenant_dns`: whether a row is there, its addresses, `active`, `removed` |
| `routes`, `routesCache` | the tenant routes of the cloud; the worker's cache of them |
| `watch` | route events of the worker's own calls that have not reached the cache |
| `bus` | the number of events in the channel (they are all alike) |
| `worker` | where processSynchronization is, its `allSettings`, and what is left of the loop it is in |
| `request` | where each handler goroutine is and the row it is going to write |
| `disturbed` | history, see below |

One action per handler up to its `dao.Upsert` (`Upsert`, `ChangeTenantStatus`,
`DeleteTenant`, `DeleteRoutes`, `GetServiceName`, `RestoreTenantAlias`,
`DeleteMissing`); `DaoSelect`, `DaoUpdate`, `DaoInsert`, `DaoDelete` are the
database statements, each on its own, and `SyncAfterWrite` the `Sync` that
follows.  The worker goes `ReceiveEvent`, `ReadSettings`, one `DeleteRoute` per
orphan route, `DeletionDone`, one `DeleteRemovedTenants` per marked row,
`RefreshSettings`, one `CreateRoute` per address, `CreationDone`; every one that
can fail has an action of its own for the failure.  A create or delete that
fails may have reached the cloud or not.  `AutoSyncTick` is the timer and
`Restart` a crash followed by a start.

Abstractions.  A route is its tenant and its address: its name is made of the
two (`GenerateUniqueNameForRoute`).  `Lower` gives the spelling in lower case,
since the delete loop ignores case, the create loop does not, and CreateRoute
lowers it.  Services, domains, mails, namespaces and the routes without a tenant
are left out; whether a service name is empty is left open.  FindAll and the
listing of the cache are one step, and so are an HTTP call and the local update
of the cache that follows (`RouteCache` takes the latter apart).  The cloud
refuses a second route of one name and answers 404 to the deletion of one it
does not have.  One replica runs, the default of the chart.

`disturbed` records that, since a pass last read the table, a step failed, a
late event made the cache differ from the cloud, or a row changed with no Sync
to follow (GetServiceName writes back the row it read first and sends none;
getTenantById deletes a row and sends none; a row that RestoreTenantAlias gives
addresses while it is marked for removal is purged with them).  The next pass
that starts from an exact cache clears it.  Safety is stated outside such
disturbances, since only the timer repairs them; `EventuallyConverged` has no
such excuse.

### RouteTable: what the synchronisation promises

A table of rows that anybody may change one at a time, and passes, each going
by a `basis`: one reading of the table for what it deletes, and the same or a
later one for what it creates.  A route goes only if no active tenant of the
basis has its host, and comes only if one calls for it; all deletions of a pass
come before its creations.  RouteSync implements it by
`Abstract == INSTANCE RouteTable WITH phase <- Phase, basis <- worker.settings`:
`Phase` forgets the purge, which is one of the changes of rows that run against
the pass, and the cache, the work lists, the channel, the handlers, the watch
and the failures disappear.  This holds of disturbed passes as well: whatever
the cache had, no pass takes the route of an owner it has read of.

### RouteCache: websocket clients, syncing goroutine, GetRoutes

`cloud` and `cache` map namespaces to the keys of their routes, `Absent` being
"no map".  `client` is the pool of websocket clients (dialling, about to signal
INIT, reading a stream), `bus` the channel, `syncer` the syncing goroutine
(idle, listing, storing, in the callback, polling in the callback), `reader` the
goroutines inside GetRoutes, `writer` an own CreateRoute or DeleteRoute, cloud
first and map second.  A lost connection loses its stream.  `doubtful` is
history: entries that a failed list, or an own update that comes after a later
change was processed, may have made wrong.  The adapters of Gateway API routes
are left out; ADDED and MODIFIED do what CREATED does.  The caches of services
and config maps have the same machinery; where their handlers differ, in what
they do with a namespace they do not know, SyncCall has the difference.

### RedirectUris: SendRoutesToIDP and PostURI

`caller` goes through PostURI statement by statement, since four goroutines run
it without a lock; `sender` is the pool of sender goroutines (sending, landed,
waiting for the retry).  A request may fail before or after it has landed.  A
request is a bag of hosts, as a host is listed once per route that has it, and
`HashOf` is the exclusive or that the code computes: the set of the hosts that
occur an odd number of times, so that equal hosts cancel and different requests
may have one hash.  `overtaken` says that what the identity provider holds came
from a cancelled sender, `raced` that two calls have been between the comparison
and the start of the sender at once.  `server.go` registers a client that does
nothing; ClientWithRetry is what the library offers a product that links
`lib.RunService`.

### TenantFeed: tenant-manager, its watch, the loader

`manager` is what tenant-manager knows, `open` and `frames` the subscription and
what it has sent, `watcher` the goroutine that connects, reads and runs the
callbacks on an event in order (SyncTenantsWithTM on the rows, in a satellite
only, then ActualizeActiveTenantsCache), `loader` is syncAllTenantsFromTM: a
list, one write per listed tenant, one deletion per row that is not in the list.
`writing` has the write that each of the two is in the middle of: dao.Upsert asks
whether the row is there (`Select`) and then updates or inserts (`SyncWrites`,
`LoaderWrites`), with no transaction around them, so that the writes of the other
and `PurgeRemoved`, the pass, come in between.  An UPDATE of a row that has been
purged touches nothing and reports success; an INSERT of a row that is there by
now is refused.  A connection may be lost at any time, its frames with it; a new
subscription sends the tenants there are.  Of a row the flags are modelled, its
addresses are not.  Two histories: `gone`, tenants whose deletion nobody was told
of, and `behind`, tenants whose row a lost event, a failed write, a late step of
the loader or a write that did not land has left wrong.

### Startup: migrations and the first scheme

One action per database statement of RunMigration: marking what the old migrator
had done (before the lock is taken, and on any read error not at all), lock,
selection, a migration and its record apart, unlock; then listing the cloud,
looking for the record of an earlier first scheme, one write per tenant, the
record, serving.  The listing is one per namespace, and one that fails until the
last attempt is stored as empty and the start goes on
(`paasMediationClient.go:1018`, the finding of `failed_list`): so
`InitCompositeCacheFails` stores any part of the cloud.  An instance may thus
build too few rows and record that the first scheme is there, and the first pass
with a whole listing removes the routes; `blind` says that an instance which had
listed less than the cloud has written a row or the record, and is the one excuse
of RoutesSurviveStart besides an edit.  `Edit` is the API of an instance that serves, `Synchronize`
its pass.  An instance may die at any point and is started again; its lock is
released with it.  Several run on one database, as in a rolling update.  Of the
SQL of a migration only that it may run twice is modelled.  `lost`, `excused` and
`blind` are history.

### SyncCall: who is told what, and when

`syncer` are the three syncing goroutines with the attempts they have left after
a panic, `keeper` the three goroutines that store an update time in the one
field `lastUpdate`, `call` the handlers: read the time, run the function, wait
for a later time unless the query says async.  A handler may do so twice in one
request.  Which query parameter decides, and which handlers never wait, differs
from endpoint to endpoint and is modelled for each.  Updates are well formed, no
JSON, or without a known namespace; the last kind makes the handler of config
maps panic (`paasMediationClient.go:287` misses a `return`).  `past` and
`panics` are history.

### TenantScheme and SchemeRequests: the algorithms

An address is a text, which is a protocol or none, a host, and a path or none.
Requests bring any; FlattenAddressesToHosts stores the host alone (`Plain`), while
the addresses that Upsert generates are stored as URLs with the protocol of the
service and the path "/" (`Url`), so a stored list has both.  `Address.Host` takes
the host out of either wherever routes are made or compared; the validator does
not, its checkers compare whole texts, each after stripping the protocols it
knows (`InTenantForm`, `InSchemeForm`).

TenantScheme has the pure functions: flattening to hosts, the hierarchy of
composite namespaces, the filter of general routes, merging with general and
generated routes, unique service names, the listing of annotated hosts, the
validator.  Slices that the code cuts in place are a pair of array and length,
as other variables still see the array; `CutHits` is the loop that both
filterGeneralRoutes and getCompositeNamespaceForTenant have, a function of the
number of iterations, and `ResolveChildForNamespace` a function of the namespaces
that are left, so that both can be reasoned about.  Where Go ranges over a map, the
operator gives the set of outcomes.  SchemeRequests has the requests that write
schemes as single steps (their interleavings are in RouteSync) with all that Upsert
does to the data.  Between them general routes come and go, and config maps are
written and deleted (`ChangeConfigMap`, the events that updateConfigmapsCache
takes in).  Upsert may end with an error at each of its other steps (`Failed`): a
read, the search for a name, the write.  `answer` is the last request with what it
was given and what the row was before; `accepted` is history, the tenants whose
list of namespaces was accepted by the config maps as they are now.  The
properties are reference definitions: what the result should be said without the
algorithm.

What the code does not make good is excluded from the properties by name.
`OwnAddresses` leaves out lists with two general hosts or more, of which the filter
loses own hosts.  `Overwritten` is a service that has the name to which the
shopping frontend of its site is renamed: it loses its list to the shopping
frontend (`synchronizer.go:1958`).  `Renamed` are the two services that the
renaming makes one; the listing of routes omits them.  `NewUrls`: the URLs that Upsert
generates, when domain or name of an inactive tenant have changed, replace what
the request came with, after the validator has seen that; nobody compares them
with other addresses (`synchronizer.go:872`).  ValidatedSchemeUnique leaves out
schemes sent with https or a path, as "https://h" and "h/x" pass the in-tenant
check as different from "h" and are stored as the same, and hosts that another
tenant has as a stored URL, since "https://h/" is not the text "h"
(`schemevalidator.go:202`).  StatusChangeAccepted excuses a tenant of whose
namespaces a config map has changed since its scheme was accepted: each Upsert
judges the hierarchy anew, and the activation of a tenant that was served may be
refused (`synchronizer.go:972`).  TLC finds a violation if any of these excuses is
dropped.  A list of namespaces that names the
master one twice keeps one of them, or loses a namespace, since the loop goes by
the indices of the uncut list (`synchronizer.go:890`).  Proving the properties
brought up most of these; the payloads of the run had none of them,
and have them now.

Remarks that came out of this translation, and that no text of the repository
denies: GetPriority (`paasMediationClient/domain/route.go:47`) tests `err != nil`
where `== nil` must be meant, so that a route's order annotation has no effect;
Upsert throws away the result of CheckCollisions (`synchronizer.go:839`); the
counter of generateUniqueServiceName (`synchronizer.go:1722`) is declared in the
loop and never gets beyond 1.

## Runs

| run | checks | bounds |
|---|---|---|
| `safety` | types, the inductive invariant, convergence of a quiet system, restored rows | one tenant, two hosts, two handlers, 2 calls, 1 failure, channel of 2 |
| `hosts` | coverage of hosts and of orphan routes; RouteSync implements RouteTable | two tenants that share one host in two spellings, 3 calls, channel of 1 |
| `liveness` | the cloud settles on the table; marked tenants go | one tenant, one host, two handlers, 2 calls, 1 failure |
| `lost_restore` | finds an acknowledged write that is lost | one call |
| `cache` | a quiet map is exact; maps appear, maps settle | two namespaces, one route key, three clients, one reader, 2 changes, 1 lost connection, 1 failed list, channel of 1 |
| `failed_list` | finds a failed list that is stored | one list |
| `idp_senders` | the hash is honoured; the identity provider becomes current | one host with up to two routes, two callers, two senders, 2 changes, 1 failure, 1 reset |
| `idp_skipped` | finds a skipped request that nobody sends | one caller, 1 change, three senders |
| `tenant_feed` | active tenants, rows, and that the watcher catches up | two tenants, an empty, a stale and a partly marked table, 2 changes, 1 lost connection, 1 failed database call, satellite |
| `startup` | schema before use, routes and edits survive, instances serve in the end | two instances, two tenants, two hosts, three migrations of which the old migrator did 0 or 2, 2 faults (a crash, a failed call, a failed listing), 1 edit |
| `scheme` | acceptance, service of hosts, status changes, restored and validated schemes | two tenants, two sites, three namespaces, the payloads and the four states of the config maps of `MCSchemeRequests`; requests without a bound |
| `api` | timeouts, answers, panics, progress of the caches | one handler, 1 request, 4 messages, channels of 2, 2 attempts, 2 polls |

Why the bounds are enough to be of use.  A lost wake-up needs a full channel, a
write after the worker's read and no later event, which two calls and a channel
of one or two give; a stale row needs two handlers on one row; a takeover of a
host needs two tenants; the case rules need two spellings of one host.  In the
cache, a duplicate or late event needs two clients for one namespace and the
poll in the callback a second namespace; one route key suffices, as entries do
not depend on each other.  Two changes take a key there and back.  For PostURI,
two senders let an older request come after a newer one, and two routes of one
host let hashes collide.  In the feed, an event that holds two tenants is what
SyncTenantsWithTM handles wrongly, and two changes delete a tenant and bring
another, or take one from unknown to active; a table with a row that is marked
lets the purge come between the two halves of the write that restores it.  This
run has some 1.2 million states.  At the start, two instances and two faults
let one die inside a migration, or inside the first scheme, or list less than there is, while
the other goes on.  The payloads of `scheme` are chosen for the branches: no, one and two general
hosts in a list in each order, the shopping frontend on a site of its own and
with a service that has the name it is given, the master namespace in each place
of a list and twice, each protocol, a path, a general host in two spellings,
generated hosts that another service has, and a host that another tenant has as a
stored URL; the config maps are a chain, no chain, without a parent and partly
missing.  This run has some 1.3 million states.  In `api` the three keepers suffice
to put times in a wrong order, and two panics in a row use up the attempts.

`MaxOps`, `MaxFaults`, `MaxChanges`, `MaxBreaks`, `MaxFetchFails`, `MaxFailures`,
`MaxResets`, `MaxCopies`, `MaxEdits`, `MaxMessages`, `MaxCalls` and the pools
`Clients` and `Senders` are bounds of the instances; the program has none of
them.  The capacities, attempts and polls are those of the code in small.
`SYMMETRY` on the handlers is used where no liveness is checked.  RouteCache,
TenantFeed and SyncCall have CHECK_DEADLOCK FALSE: once the changes, messages and
calls are used up and all has been processed, they have nothing more to do.

Fairness.  RouteSync: the goroutines of the worker and of the handlers run, the
watch delivers, the timer ticks (its goroutine also waits for SendRoutesToIDP,
which gives up after a bounded number of polls).  No fairness is put on calls
or failures.  RouteCache: goroutines run and a dial succeeds in the end; readers
start calls as they like.  RedirectUris: goroutines run, a request ends one way
or the other and failures are not for ever; the timer calls again and again.
TenantFeed: watcher and loader run, a connection succeeds in the end; nothing is
asked of the purge.  Startup: each instance takes its next step or is started
again, as the platform does; nobody has to edit or to crash.  SyncCall: syncing
goroutines, keepers and calls run, sleeps end; messages need not come.

## Findings

* `lost_restore`: RouteManagerDao.Upsert (`dao/pg/dao.go:128`) updates a row it
  has selected before.  If the pass purges the row in between, the update
  touches nothing, the caller is told all is well, and a restored scheme is gone.
  TenantFeed has the same gap in the writes of the watch and of the loader
  (`behind`).
* `failed_list`: performRequestWithRetry (`paasMediationClient.go:1018`) returns
  the outer `err`, which the loop shadows, so twelve failures count as success
  and the empty list replaces the map of the namespace, until the next INIT.
  Startup has what follows from it at a start (`blind`).
  RouteSync has no such step: there, a cache that has missed something is one
  the late events of the watch have spoiled.
* `idp_skipped`: PostURI (`idp/retry.go:52`) cancels a sender without waiting
  for the request it has under way.  If that arrives last, the identity provider
  keeps the older data, and calls with the newer are skipped as already sent.

The passing runs name what else the code does not make good, as excuses in the
properties: tenants that are deleted while the watch is down stay active
(`gone`), events with several tenants write the first only, a list that is out of
date undoes a registration and a row is purged under its UPDATE (`behind`), a
failed read of `inits` or two first starts at once rebuild rows the API has written
(`excused`), a first scheme built from a failed listing costs the routes it did
not see (`blind`), a keeper that is late hides an update (`overtaken` of SyncCall),
a config map that changes refuses later activations (`accepted`), addresses with a
path, https or a stored URL escape the validator, lists with two general hosts
lose own ones (`OwnAddresses`).

## Proofs

Proved, for any tenants, addresses, hosts, handlers, namespaces, clients, callers,
senders, instances, schemes, payloads, start states, failures, capacities and
bounds (the tenants of TenantFeed and the namespaces of TenantScheme are finitely
many; nothing else has to be finite):

| module | theorem | says |
|---|---|---|
| `RouteSyncProofs` | `TypeCorrect` | `Spec => []TypeOK`; the channel never exceeds its capacity |
| | `RestoredRowIsKept` | no step of a pass changes a row that is not marked for removal at that moment |
| | `SyncInvariant` | `Spec => []SyncInv` |
| | `QuiescentIsConverged` | a quiet, undisturbed system has exactly the hosts of the active tenants |
| | `ActiveHostIsCovered` | `Spec => []ActiveHostCovered` |
| | `OrphanRouteIsCovered` | `Spec => []OrphanRouteCovered` |
| | `RouteSyncImplementsRouteTable` | `Spec => Abstract!Spec`: no route goes that has an owner in what the pass has read, none comes that nobody there calls for |
| `RouteCacheProofs` | `CacheTypeCorrect` | types; the channel never exceeds its capacity |
| | `QuietCacheIsExact` | `Spec => []ExactWhenQuiet` |
| `RedirectUrisProofs` | `RedirectTypeCorrect` | types; a caller has a request exactly while it needs one |
| | `HashIsAlwaysHonoured` | `Spec => []HashIsHonoured` |
| `TenantFeedProofs` | `FeedTypeCorrect` | types; the watcher has an event exactly while it runs the callbacks on it |
| | `ActiveTenantsAreKnown` | `Spec => []ActiveTenantsFollow` |
| | `RowsAgreeInTheEnd` | `Spec => []RowsFollow` |
| `StartupProofs` | `StartupTypeCorrect` | types; who migrates holds the lock, so there is one at most |
| | `SchemaIsReady` | `Spec => []SchemaReady` |
| | `EditsOutliveStarts` | `Spec => []EditsSurviveStart` |
| | `RoutesOutliveStarts` | `Spec => RoutesSurviveStart`: until the API changes a tenant, or an instance that listed less than the cloud writes, no start and no pass takes a route |
| `SyncCallProofs` | `CallTypeCorrect` | types; noted times come from the clock |
| | `DoneIsDone` | `Spec => []DoneOnlyIfDone` |
| | `TimeoutIsUnnoted` | `Spec => []TimeoutOnlyIfUnnoted` |
| | `PanicsAreSurvived` | `Spec => SurvivesPanics`: only as many panics in a row as there are attempts end the process |
| `SchemeRequestsProofs` | `SchemeTypeCorrect` | types of rows and answers, through all that Upsert does to a scheme |
| | `HierarchyDecides` | `Spec => []AcceptedIffChain`: what the recursion over the config maps accepts are the chains |
| | `AcceptedSchemesAreServed` | `Spec => []UpsertedHostServed` |
| | `SwitchingKeepsSchemes` | `Spec => []StatusChangeKeepsScheme` |
| | `AcceptedSchemesAreSwitched` | `Spec => []StatusChangeAccepted` |
| | `RestoredSchemesServe` | `Spec => []RestoredSchemeServes` |
| | `ValidSchemesAreUnique` | `Spec => []ValidatedSchemeUnique` |

### The synchronisation

The assumptions are `LowerAssumption` (`Lower` maps addresses to addresses and
is idempotent), `NoneAssumption` and `BoundAssumption` (capacity at least one,
bounds are naturals, start states have the right types).

The argument.  That a quiet system is converged is not inductive: nothing in it
speaks of a pass under way.  `SyncInv` adds what each point of a pass owes.
`CacheExact`: an undisturbed pass works on a cache equal to the cloud.
`SettingsCurrent`: if no other pass is certain, the snapshot and the work list
agree with the table on the routes it calls for; this is where a dropped event
is harmless, as the channel was full and so a pass was certain.
`ActiveHostCovered` and `OrphanRouteCovered`: a host without a route is before
the create loop, an orphan route before the delete loop.  A delete step cannot
take a host of an active tenant, because the snapshot it was computed from is
current; a create step cannot add an orphan route, because its list is.  Every
write that changes what the table calls for leaves its handler at the Sync,
which makes a pass certain.  When the worker is idle and nothing is due, the two
coverages leave equality.  The proof has one step per action; the lemmas give
the types of the parts and what each group of actions leaves alone.

### RouteTable

The refinement needs less and holds without the excuse of `disturbed`.  Its
invariant is `BasisInv`: no route left to be deleted has an owner in
`worker.settings`, every route left to be created is called for by it, and
between two passes it is empty.  With the types this makes each step of the
delete loop a `Delete` of RouteTable or a stutter, each of the create loop a
`Create` or a stutter, `ReadSettings` a `Begin`, either RefreshSettings a
`Turn`, the end of a pass or a restart in the midst of one an `End`, and every
write of a request and every purge a `Change`; all else leaves the mapped state
alone.

### The cache of routes

That a quiet map is exact says nothing of a map that is not quiet, so the
invariant `ExactInv` says of every entry, at any time, who will put it right.
A message is `About` an entry if it is one of its events, and `Wrong` if the
cloud says otherwise by now.  An entry has a fix under way (`Fix`) if a client
of its namespace is dialling, has yet to signal INIT or holds an event of it, or
if the channel has an INIT of the namespace or an event of the entry.
`StreamsRight`: on a connection, a wrong event is followed by another of the same
entry, as the cloud sends one for every change.  `BusRight`: in the channel, a
wrong event is followed by something that touches the entry, or a client still
has it to send.  This holds although several clients of one namespace push
their copies of one event in any order: a client that pushes a wrong one is
itself the fix, since it has a later one, and the last client that has no more
to push has pushed a right one.  `SnapshotRight` and `CacheRight`: what was
listed, and what the map says of an entry that is not doubtful, is true, has a
fix under way, or is about to be replaced by a list.  A change of the cloud makes
every entry it touches one with a fix, as each client of the namespace has the
event on its stream or is going to signal INIT; this needs `ServedInv`, that only
namespaces with a client are ever cached, listed or spoken of.  A quiet namespace
has no fix under way and no list, so the map is right.  The assumption is
`CacheAssumption` (the first client watches the namespace of the process; Absent
is no namespace and no key; capacity at least one).

### Redirect URIs

`HashInv` holds as long as no two calls have met in PostURI, which `raced`
records.  One sender at most is live (busy and not cancelled), and it is
`cancel`; after the cancel none is, until the next is started; from then on the
hash is that of the caller's request; and with nobody in PostURI the live sender
has data of the hash, which the identity provider holds or is going to get, or
what it holds came from a cancelled sender.  That last part is what
`HashIsHonoured` says; the others are needed when a sender lands (it is then the
one with the hash, or a cancelled one, which sets `overtaken`) and when a call
starts the next.  The assumption is `UrisAssumption` (None is no request and no
sender; bounds are naturals).

### The tenant feed

Both invariants argue with the order of the frames.  `ActiveInv`, of a tenant:
if it is active, then while the subscription is open the callback under way will
leave it in the cache or an event that enters it is under way, and every event
that takes it out is followed by one that puts it in; the other way about if it
is suspended, and also without a subscription if it is deleted and somebody was
told.  The cache is taken as
what it will be when the running callback has ended (`Cached`), since rows are
written before the cache and a deletion may come while the rows are written.
`RowInv` asks who has the last word on a row: the last frame that writes it,
else the event the watcher is writing from, else what the loader still owes,
else the row as it is; whoever has it says what tenant-manager says
(`FeedRight`, `HeldRight`, `RowRight`), but for the tenants in `behind`.  A write
of two steps keeps the word until its second step, whatever the other writer and
the purge do meanwhile: an UPDATE that lands writes what it was going to, and one
that does not leaves a tenant in `behind` unless its row agrees all the same.  The
assumption is `FeedAssumption`: finitely many tenants, so that a snapshot is a
sequence, and None neither a row nor an event.

### The schema

`StartInv` adds to SchemaReady what each point of a start owes.  What is left to
mark is in the schema, since the old migrator had done it; under the lock, what
is left to run is, with what is recorded, all there is; and between a migration
and its record the next to record is in the schema.  So nothing is left when the
lock is released only if all is recorded, and then all is in the schema.  Schema
and records only grow, so no instance takes from another what it relies on: the
lock is not needed for this property, only for the types.  The assumption is
`StartupAssumption` (the old migrator knew no other migrations; None is no
instance).

### The first scheme

`EditInv`: there is no edit without a record of the first scheme, because only an
instance that serves has edits and it serves only with the record; so an
instance that builds while there is a record has misread it or builds against
another, which `excused` says, and a loss needs such an instance.  `BuiltInv`,
as long as nobody has edited and no instance has written blindly: a row is either
missing or what is built from the routes of the cloud, the record means that none
is missing, and an instance that builds and has listed the whole cloud has written
the rows of all tenants it is past.  One that has listed less may be there as long
as it has not written.  A serving instance has found the record, so its rows are
complete and its passes call for all routes there are, and the cloud stays as it
was when others listed it.

### Calls and panics

`AnswerInv`: a call under way has no answer yet, and one that runs has no failed
function behind it; so `done` is given to those without.  `TimeInv`: unless a
keeper has stored an earlier time over a later one, the noted time has not gone
back since the call read it and is a later one as soon as one was stored; so
the poll that would miss it does not.  `PanicInv`: the panics in a row are the
attempts used up, and one more while the goroutine sleeps before it is started
again; it dies only when no attempt is left.

### Schemes

These properties are about what one request computes, so the work is in lemmas
on the operators; only `AcceptedSchemesAreSwitched` needs an inductive invariant.

Loops.  The induction theorems of the library take a predicate, which the
provers cannot instantiate, but a set will do as well: `SetInduction` and
`LoopInduction` follow from the least-number principle, `TypedLoop` says that a
loop function such as that of CutHits exists and has values of its type.  On them
rest `CutLoopKeeps` (the array keeps its length; every element of it is one of
the list, and one that is no hit is still there), `CutLoopCutsOne` (a list with
one hit loses it and nothing else: what is left up to the length is the list
without it), `CutLoopCutsNone`, and `CutLoopRepeats` (a list that was cut has a
repetition).  For the filter this gives `FilterListLosesNone`, for the namespaces
`OthersRemain`.

The hierarchy.  `ResolveUnfolds` shows, by induction on the number of namespaces
left, that the recursion has a solution.  `ResolveIsChain`, by the same induction,
that its outcomes are one: TRUE if the namespaces left are a chain from the
parent, FALSE if not, whichever namespace an iteration takes, as a chain has only
one first member and what follows is a chain from it (`ChainStarts`,
`ChainGrows`).  `HierarchyIsChain` puts both together.

Upsert.  `UpsertRowsGive` says what a row is that Upsert may write (`WrittenRow`):
the sites of the payload or with generated URLs, filtered, with one site's
shopping frontend renamed.  `WrittenAddresses` follows an address of the row back
to the payload, `OwnAddressesKept` an own address of the payload into the row; `AnnotatedShow`
says what the listing of routes shows of a row (own hosts first, else
those of general routes).  With these, `AcceptedSchemesAreServed`,
`SwitchingKeepsSchemes` and `ValidSchemesAreUnique` are about one row each, before
and after; `PayloadAddress` says of a payload sent as hosts that both checkers see
what is stored, which is where https and paths have to be left out.  For
`RestoredSchemesServe` the generated scheme goes through Upsert
twice: its lists have one host each, and such a list is either deleted or kept
as it is (`SingleStays`).

`AcceptedRows`: of each tenant in `accepted`, the stored list of namespaces has a
repetition, or the hierarchy check cannot refuse it by the config maps as they
are.  A row is stored only if the check accepted its list; storing changes the list
to the array that the cut left behind, which is the list itself or has a repetition
(`WrittenAcceptable`); the outcome of the check is the same whenever it is asked,
since `HierarchyIsChain` leaves one outcome; and it depends on the config maps of
the listed namespaces only (`AcceptedWithOtherMap`), so those of others may change.
The first of the two calls of a restore may be accepted and the second be refused or
fail: the row then is that of the first (`RestoredAcceptable`).

The assumptions are `SchemeAssumption` and `RequestAssumption`: types of the
constants; stored addresses are hosts or generated URLs; finitely many namespaces; a
generated host is not empty; a free name for a service is found among the
candidates; the empty strings are no names.

### What is only model-checked

* All liveness: it rests on fairness, which the provers do not handle.
* The three runs that find a violation.

The invariants above were model-checked on the instances of the runs before they
were proved.

## Not modelled

* The virtual services of the synchronizer and their dao functions, which no
  endpoint of `lib/runner.go` reaches; read-only listings and their formatting.
* The conversion of Gateway API routes, and maps of their own for services and
  config maps (the machinery is that of RouteCache).
* What a row holds besides its flags where tenant-manager writes it
  (`synchronizer.go:1280` may replace the stored scheme by an empty one after a
  failed read); TenantFeed keeps the flags.
* CheckPostURIFeature, which nothing reachable calls.
* The composite request to the baseline, mail, configuration, generated docs,
  deployment, integration tests: they are run once, delegated or generated.

## Plan

Every invariant and every action property of the passing runs is proved, the
refinement included.  What is left to prove:

1. That the histories of RedirectUris, SyncCall and TenantFeed are set only by
   what they are named after (`overtaken`, `raced`, `gone`, `behind`), as action
   properties.
2. An abstract specification of the cache of routes, a map that is replaced by
   what the cloud was at some time since the last request, with RouteCache shown
   to implement it.
