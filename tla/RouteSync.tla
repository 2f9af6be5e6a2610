------------------------------ MODULE RouteSync ------------------------------
(***************************************************************************)
(* The synchronisation of tenant schemes with the routes of the cloud:     *)
(* synchronizer/synchronizer.go on dao/pg/dao.go and the route operations  *)
(* of paasMediationClient/paasMediationClient.go.                          *)
(*                                                                         *)
(* API handlers (requests) write tenant rows and ask for a pass on the     *)
(* buffered channel `bus'; one worker goroutine takes an event from it and *)
(* runs processSynchronization: it deletes the routes no active tenant     *)
(* owns, purges the removed tenants, re-reads the table and creates the    *)
(* missing routes.  It sees the cloud through routesCache, which its own   *)
(* calls update at once and the websocket watch updates late.              *)
(***************************************************************************)
EXTENDS Integers, FiniteSets, Sequences

CONSTANTS
    Tenants,        \* primary keys of the tenant table
    Addrs,          \* addresses a scheme may hold, as spelled in it
    Lower,          \* Lower[a]: the address in lower case (strings.ToLower)
    Payloads,       \* the sets of addresses a request may put in a scheme
    Requests,       \* handler goroutines
    Tables, Clouds, \* what the process may find in table and cloud at start
    Ops,            \* which API operations are issued
    Faults,         \* which failures happen: "paas", "db", "service", "crash"
    WatchEcho,      \* whether the watch delivers the events of our own calls
    BusCap,         \* capacity of the channel `bus' (16 in New)
    MaxOps,         \* bound: API operations issued in a behaviour
    MaxFaults,      \* bound: failures in a behaviour
    None            \* "no row in the table", "no tenant"

AllOps == {"Upsert", "ChangeTenantStatus", "DeleteTenant", "DeleteRoutes",
           "RegisterTenant", "GetServiceName", "RestoreTenantAlias",
           "DeleteMissing", "Sync"}

\* TenantDns: the fields the synchronisation depends on.
Row == [sites : SUBSET Addrs, active : BOOLEAN, removed : BOOLEAN]

\* A route of the cloud.  GenerateUniqueNameForRoute names it after its tenant
\* and the checksum of the address; CreateRoute puts its host in lower case.
Route == Tenants \X Addrs
Host(r) == Lower[r[2]]

\* The two route events of the watch the worker's own calls cause.
WatchEvent == {"CREATED", "DELETED"} \X Route

ASSUME LowerAssumption ==
    /\ Lower \in [Addrs -> Addrs]
    /\ \A a \in Addrs : Lower[Lower[a]] = Lower[a]
ASSUME NoneAssumption == None \notin Row /\ None \notin Tenants
ASSUME BoundAssumption ==
    /\ BusCap \in Nat \ {0} /\ MaxOps \in Nat /\ MaxFaults \in Nat
    /\ Payloads \subseteq SUBSET Addrs
    /\ WatchEcho \in BOOLEAN
    /\ Tables \subseteq [Tenants -> Row \union {None}]
    /\ Clouds \subseteq SUBSET Route

VARIABLES
    tenantDns,      \* the table: tenant -> row or None
    routes,         \* the tenant routes that exist in the cloud
    routesCache,    \* the worker's copy of them
    watch,          \* route events on their way from the cloud to the cache
    bus,            \* events in the channel
    worker,         \* [pc, settings, routesTodo, rowsTodo] of the sync pass
    request,        \* request -> [pc, op, tenant, row, kept]
    ops,            \* API operations issued so far
    faults,         \* failures so far
    disturbed       \* history: since the last FindAll of a pass, a failure, a
                    \* stale cache entry or a write nobody signals happened

vars == <<tenantDns, routes, routesCache, watch, bus, worker, request, ops,
          faults, disturbed>>

-----------------------------------------------------------------------------
(* Tables and hosts *)

Exists(rows, t) == rows[t] # None
IsActive(rows, t) == Exists(rows, t) /\ rows[t].active
IsRemoved(rows, t) == Exists(rows, t) /\ rows[t].removed

\* The routes the active tenants of a table call for.
WantedRoutes(rows) ==
    {r \in Route : IsActive(rows, r[1]) /\ r[2] \in rows[r[1]].sites}

\* hostBelongsToActiveTenant, over all hosts: the comparison ignores case.
ActiveHosts(rows) == {Host(r) : r \in WantedRoutes(rows)}
\* Mutant: the spelling of the scheme is compared as it is.
HostBelongsToActiveTenantExact(r, rows) ==
    \E w \in WantedRoutes(rows) : w[2] = Host(r)

HostBelongsToActiveTenant(r, rows) == Host(r) \in ActiveHosts(rows)

\* isHostPresentInOpenshiftRoutes: the spelling of the scheme against the
\* lower-case hosts of the routes, of whatever service and tenant.
IsHostPresent(a, cached) == \E r \in cached : Host(r) = a

IdleRequest == [pc |-> "idle", op |-> None, tenant |-> None, row |-> None,
                kept |-> None]
IdleWorker == [pc |-> "idle", settings |-> [t \in Tenants |-> None],
               routesTodo |-> {}, rowsTodo |-> {}]

\* The worker is between its FindAll and the end of the pass.
InPass == worker.pc \notin {"idle", "start"}

Disturb(b) == disturbed' = (disturbed \/ b)

\* A step that changes what should be in the cloud and that no Sync follows.
WantedChanges == WantedRoutes(tenantDns') # WantedRoutes(tenantDns)

-----------------------------------------------------------------------------
(* Sync: the non-blocking send on the channel *)

\* Mutant: the channel takes every event, whatever its capacity.
BusAfterSyncUnbounded == bus + 1

\* Mutant: no event is sent while a pass is running.
BusAfterSyncWhenIdle ==
    IF bus < BusCap /\ worker.pc = "idle" THEN bus + 1 ELSE bus

BusAfterSync == IF bus < BusCap THEN bus + 1 ELSE bus

-----------------------------------------------------------------------------
(* API handlers.  Begin is the part of a handler up to its dao.Upsert: it   *)
(* has its answer from the database, and `row' is what it will write.      *)

Issue(op) == op \in Ops /\ ops < MaxOps /\ ops' = ops + 1

Goto(c, pc, op, t, row, kept) ==
    request' = [request EXCEPT ![c] =
        [pc |-> pc, op |-> op, tenant |-> t, row |-> row, kept |-> kept]]

Begin(c, op, t, row) == Goto(c, "select", op, t, row, None)

Return(c) == request' = [request EXCEPT ![c] = IdleRequest]

HandlerUnchanged ==
    UNCHANGED <<tenantDns, routes, routesCache, watch, bus, worker, faults,
                disturbed>>

\* POST/PUT /routes: the scheme of the payload, whose `removed' is false.
Upsert(c) ==
    /\ request[c].pc = "idle"
    /\ Issue("Upsert")
    /\ \E t \in Tenants, s \in Payloads, a \in BOOLEAN :
          Begin(c, "Upsert", t, [sites |-> s, active |-> a, removed |-> FALSE])
    /\ HandlerUnchanged

\* POST /routes/{id}/activate and /deactivate: the whole row, as read.
ChangeTenantStatus(c) ==
    /\ request[c].pc = "idle"
    /\ Issue("ChangeTenantStatus")
    /\ \E t \in Tenants, a \in BOOLEAN :
          /\ Exists(tenantDns, t)
          /\ Begin(c, "ChangeTenantStatus", t,
                   [tenantDns[t] EXCEPT !.active = a])
    /\ HandlerUnchanged

\* DELETE /tenants/{id}: the row is marked, the next pass purges it.
DeleteTenant(c) ==
    /\ request[c].pc = "idle"
    /\ Issue("DeleteTenant")
    /\ \E t \in Tenants :
          /\ Exists(tenantDns, t)
          /\ Begin(c, "DeleteTenant", t,
                   [tenantDns[t] EXCEPT !.sites = {}, !.removed = TRUE])
    /\ HandlerUnchanged

\* DELETE /routes/{id}: the scheme is emptied, `active' and `removed' stay.
DeleteRoutes(c) ==
    /\ request[c].pc = "idle"
    /\ Issue("DeleteRoutes")
    /\ \E t \in Tenants :
          /\ Exists(tenantDns, t)
          /\ Begin(c, "DeleteRoutes", t, [tenantDns[t] EXCEPT !.sites = {}])
    /\ HandlerUnchanged

\* GET /tenants/current/service/name: the row is read once; if the status the
\* tenant-manager reports differs, ChangeTenantStatus reads and writes the row
\* anew; then, if the row read at first has no service name, that first row is
\* written (`kept'), with the new status and name, and no Sync follows.
GetServiceName(c) ==
    /\ request[c].pc = "idle"
    /\ Issue("GetServiceName")
    /\ \E t \in Tenants, status \in BOOLEAN, named \in BOOLEAN :
          LET first == [tenantDns[t] EXCEPT !.active = status] IN
          /\ Exists(tenantDns, t)
          /\ IF tenantDns[t].active = status
             THEN ~named /\ Begin(c, "GetServiceName", t, first)
             ELSE Goto(c, IF status THEN "activate" ELSE "deactivate",
                       "GetServiceName", t, None,
                       IF named THEN None ELSE first)
    /\ HandlerUnchanged

\* POST /routes/{id}/restore-tenant-alias and create-os-tenant-alias-routes:
\* an empty scheme is first given the default routes, `removed' kept as read;
\* then the tenant is activated.
RestoreTenantAlias(c) ==
    /\ request[c].pc = "idle"
    /\ Issue("RestoreTenantAlias")
    /\ \E t \in Tenants, s \in Payloads :
          /\ Exists(tenantDns, t)
          /\ IF tenantDns[t].sites = {}
             THEN Begin(c, "RestoreTenantAlias", t,
                        [tenantDns[t] EXCEPT !.sites = s])
             ELSE Goto(c, "activate", "RestoreTenantAlias", t, None, None)
    /\ HandlerUnchanged

\* The tenant-manager answers 404, and getTenantById deletes the row.  It is
\* asked for an empty scheme without a tenant name (GET /routes/{id} that
\* generates a default site) and for every tenant that has a route (getRealms,
\* for GET /trusted-hosts, a tick of the timer or a route event).
DeleteMissing(c) ==
    /\ request[c].pc = "idle"
    /\ Issue("DeleteMissing")
    /\ \E t \in Tenants :
          /\ Exists(tenantDns, t)
          /\ tenantDns[t].sites = {} \/ \E r \in routesCache : r[1] = t
          /\ Goto(c, "delete", "DeleteMissing", t, None, None)
    /\ HandlerUnchanged

\* POST /tenants: a plain INSERT of an inactive row; a duplicate key fails.
RegisterTenant ==
    /\ Issue("RegisterTenant")
    /\ \E t \in Tenants :
          /\ ~Exists(tenantDns, t)
          /\ tenantDns' = [tenantDns EXCEPT ![t] =
               [sites |-> {}, active |-> FALSE, removed |-> FALSE]]
    /\ UNCHANGED <<routes, routesCache, watch, bus, worker, request, faults,
                   disturbed>>

\* POST /sync.
ForceSync ==
    /\ Issue("Sync")
    /\ bus' = BusAfterSync
    /\ UNCHANGED <<tenantDns, routes, routesCache, watch, worker, request,
                   faults, disturbed>>

-----------------------------------------------------------------------------
(* RouteManagerDao.Upsert: a SELECT, then an UPDATE or an INSERT, in no     *)
(* transaction; then the caller's Sync, if it makes one.                   *)

DaoSelect(c) ==
    /\ request[c].pc = "select"
    /\ request' = [request EXCEPT ![c].pc =
         IF Exists(tenantDns, request[c].tenant) THEN "update" ELSE "insert"]
    /\ UNCHANGED <<tenantDns, routes, routesCache, watch, bus, worker, ops,
                   faults, disturbed>>

\* GetServiceName writes the name without a Sync; all others go on to one.
Signals(c) == request[c].op # "GetServiceName"

\* Mutant: the Sync after the write is forgotten.
AfterWriteNoSync(c) == Return(c)

AfterWrite(c) ==
    IF Signals(c)
    THEN request' = [request EXCEPT ![c].pc = "sync"]
    ELSE Return(c)

\* An UPDATE of a row that is gone changes no row and is no error.
DaoUpdate(c) ==
    LET t == request[c].tenant IN
    /\ request[c].pc = "update"
    /\ tenantDns' = IF Exists(tenantDns, t)
                    THEN [tenantDns EXCEPT ![t] = request[c].row]
                    ELSE tenantDns
    /\ AfterWrite(c)
    /\ Disturb(WantedChanges /\ ~Signals(c))
    /\ UNCHANGED <<routes, routesCache, watch, bus, worker, ops, faults>>

\* An INSERT of a key that is there by now fails: no write, no Sync.
DaoInsert(c) ==
    LET t == request[c].tenant IN
    /\ request[c].pc = "insert"
    /\ IF Exists(tenantDns, t)
       THEN Return(c) /\ UNCHANGED tenantDns
       ELSE /\ tenantDns' = [tenantDns EXCEPT ![t] = request[c].row]
            /\ AfterWrite(c)
    /\ Disturb(WantedChanges /\ ~Signals(c))
    /\ UNCHANGED <<routes, routesCache, watch, bus, worker, ops, faults>>

\* Sync, and what the handler does after it.
SyncAfterWrite(c) ==
    LET t == request[c].tenant
        kept == request[c].kept IN
    /\ request[c].pc = "sync"
    /\ bus' = BusAfterSync
    /\ IF request[c].op = "RestoreTenantAlias"
       THEN Goto(c, "activate", "ChangeTenantStatus", t, None, None)
       ELSE IF kept # None
       THEN Begin(c, "GetServiceName", t, kept)
       ELSE Return(c)
    /\ UNCHANGED <<tenantDns, routes, routesCache, watch, worker, ops, faults,
                   disturbed>>

\* ChangeTenantStatus as a step of another handler: the row is read again.
ChangeStatusOfRow(c) ==
    LET t == request[c].tenant
        active == request[c].pc = "activate" IN
    /\ request[c].pc \in {"activate", "deactivate"}
    /\ IF Exists(tenantDns, t)
       THEN Goto(c, "select", "ChangeTenantStatus", t,
                 [tenantDns[t] EXCEPT !.active = active], request[c].kept)
       ELSE Return(c)
    /\ UNCHANGED <<tenantDns, routes, routesCache, watch, bus, worker, ops,
                   faults, disturbed>>

\* RouteManagerDao.Delete, whatever the row has become since it was read.
DaoDelete(c) ==
    /\ request[c].pc = "delete"
    /\ tenantDns' = [tenantDns EXCEPT ![request[c].tenant] = None]
    /\ Return(c)
    /\ Disturb(WantedChanges)
    /\ UNCHANGED <<routes, routesCache, watch, bus, worker, ops, faults>>

RequestStep(c) ==
    \/ DaoSelect(c) \/ DaoUpdate(c) \/ DaoInsert(c) \/ DaoDelete(c)
    \/ SyncAfterWrite(c) \/ ChangeStatusOfRow(c)

-----------------------------------------------------------------------------
(* The worker goroutine                                                    *)

Fail(kind) == kind \in Faults /\ faults < MaxFaults /\ faults' = faults + 1

\* The echo of a change of the cloud by the worker's own call.
Emit(type, r) ==
    watch' = IF WatchEcho THEN Append(watch, <<type, r>>) ELSE watch

ReceiveEvent ==
    /\ worker.pc = "idle"
    /\ bus > 0
    /\ bus' = bus - 1
    /\ worker' = [worker EXCEPT !.pc = "start"]
    /\ UNCHANGED <<tenantDns, routes, routesCache, watch, request, ops, faults,
                   disturbed>>

\* FindAll, and the manageable routes of the cache that no active tenant owns.
ReadSettings ==
    /\ worker.pc = "start"
    /\ worker' = [pc |-> "deleting", settings |-> tenantDns,
                  routesTodo |-> {r \in routesCache :
                                    ~HostBelongsToActiveTenant(r, tenantDns)},
                  rowsTodo |-> {}]
    /\ disturbed' = (routesCache # routes)
    /\ UNCHANGED <<tenantDns, routes, routesCache, watch, bus, request, ops,
                   faults>>

\* Either read fails: the event is gone and nothing asks for another pass.
ReadSettingsFails ==
    /\ worker.pc = "start"
    /\ Fail("db")
    /\ worker' = IdleWorker
    /\ Disturb(TRUE)
    /\ UNCHANGED <<tenantDns, routes, routesCache, watch, bus, request, ops>>

\* DeleteRoute of the pmClient: the cloud first, then the local cache, which is
\* left alone when the cloud answers that it has no such route.
DeleteRoute ==
    /\ worker.pc = "deleting"
    /\ \E r \in worker.routesTodo :
          /\ worker' = [worker EXCEPT !.routesTodo = @ \ {r}]
          /\ IF r \in routes
             THEN /\ routes' = routes \ {r}
                  /\ routesCache' = routesCache \ {r}
                  /\ Emit("DELETED", r)
             ELSE UNCHANGED <<routes, routesCache, watch>>
    /\ UNCHANGED <<tenantDns, bus, request, ops, faults, disturbed>>

\* The request fails, before or after the cloud has acted on it; the cache is
\* left alone, the error is logged, the loop goes on.
DeleteRouteFails ==
    /\ worker.pc = "deleting"
    /\ Fail("paas")
    /\ \E r \in worker.routesTodo :
          /\ worker' = [worker EXCEPT !.routesTodo = @ \ {r}]
          /\ \/ UNCHANGED <<routes, watch>>
             \/ /\ r \in routes
                /\ routes' = routes \ {r}
                /\ Emit("DELETED", r)
    /\ Disturb(TRUE)
    /\ UNCHANGED <<tenantDns, routesCache, bus, request, ops>>

\* Mutant: only the removed tenants that are not active are purged.
DeletionDoneInactiveOnly ==
    /\ worker.pc = "deleting"
    /\ worker.routesTodo = {}
    /\ worker' = [worker EXCEPT
         !.pc = "purging",
         !.rowsTodo = {t \in Tenants : IsRemoved(worker.settings, t)
                                          /\ ~IsActive(worker.settings, t)}]
    /\ UNCHANGED <<tenantDns, routes, routesCache, watch, bus, request, ops,
                   faults, disturbed>>

DeletionDone ==
    /\ worker.pc = "deleting"
    /\ worker.routesTodo = {}
    /\ worker' = [worker EXCEPT
         !.pc = "purging",
         !.rowsTodo = {t \in Tenants : IsRemoved(worker.settings, t)}]
    /\ UNCHANGED <<tenantDns, routes, routesCache, watch, bus, request, ops,
                   faults, disturbed>>

\* Mutant: the row goes by what the snapshot showed.
DeleteBySnapshot(t) == tenantDns' = [tenantDns EXCEPT ![t] = None]

\* DeleteIfRemoved: the row the snapshot shows as removed goes only if the
\* database still has it so.
DeleteIfRemoved(t) ==
    tenantDns' = IF IsRemoved(tenantDns, t)
                 THEN [tenantDns EXCEPT ![t] = None]
                 ELSE tenantDns

DeleteRemovedTenants ==
    /\ worker.pc = "purging"
    /\ \E t \in worker.rowsTodo :
          /\ DeleteIfRemoved(t)
          /\ worker' = [worker EXCEPT !.rowsTodo = @ \ {t}]
    /\ Disturb(WantedChanges)
    /\ UNCHANGED <<routes, routesCache, watch, bus, request, ops, faults>>

DeleteRemovedTenantsFails ==
    /\ worker.pc = "purging"
    /\ Fail("db")
    /\ \E t \in worker.rowsTodo :
          worker' = [worker EXCEPT !.rowsTodo = @ \ {t}]
    /\ UNCHANGED <<tenantDns, routes, routesCache, watch, bus, request, ops,
                   disturbed>>

StartCreating(settings) ==
    worker' = [pc |-> "creating", settings |-> settings,
               routesTodo |-> WantedRoutes(settings), rowsTodo |-> {}]

RefreshSettings ==
    /\ worker.pc = "purging"
    /\ worker.rowsTodo = {}
    /\ StartCreating(tenantDns)
    /\ UNCHANGED <<tenantDns, routes, routesCache, watch, bus, request, ops,
                   faults, disturbed>>

\* The re-read fails: the pass goes on with the snapshot of its start.
RefreshSettingsFails ==
    /\ worker.pc = "purging"
    /\ worker.rowsTodo = {}
    /\ Fail("db")
    /\ StartCreating(worker.settings)
    /\ UNCHANGED <<tenantDns, routes, routesCache, watch, bus, request, ops,
                   disturbed>>

\* One address of an active tenant: GetRoutes, and CreateRoute if the host is
\* not there.  The cloud refuses a name it already has.
CreateRoute ==
    /\ worker.pc = "creating"
    /\ \E r \in worker.routesTodo :
          /\ worker' = [worker EXCEPT !.routesTodo = @ \ {r}]
          /\ IF IsHostPresent(r[2], routesCache) \/ r \in routes
             THEN UNCHANGED <<routes, routesCache, watch>>
             ELSE /\ routes' = routes \union {r}
                  /\ routesCache' = routesCache \union {r}
                  /\ Emit("CREATED", r)
    /\ UNCHANGED <<tenantDns, bus, request, ops, faults, disturbed>>

\* The service of the address is not found in ten tries, the request fails, or
\* only its answer does: the address is skipped until the next pass.
CreateRouteFails ==
    /\ worker.pc = "creating"
    /\ \E r \in worker.routesTodo :
          /\ worker' = [worker EXCEPT !.routesTodo = @ \ {r}]
          /\ \/ Fail("service") /\ UNCHANGED <<routes, watch>>
             \/ /\ ~IsHostPresent(r[2], routesCache)
                /\ Fail("paas")
                /\ \/ UNCHANGED <<routes, watch>>
                   \/ /\ r \notin routes
                      /\ routes' = routes \union {r}
                      /\ Emit("CREATED", r)
    /\ Disturb(TRUE)
    /\ UNCHANGED <<tenantDns, routesCache, bus, request, ops>>

\* Mutant: the pass drains the channel when it ends.
CreationDoneDrains ==
    /\ worker.pc = "creating"
    /\ worker.routesTodo = {}
    /\ worker' = IdleWorker
    /\ bus' = 0
    /\ UNCHANGED <<tenantDns, routes, routesCache, watch, request, ops, faults,
                   disturbed>>

CreationDone ==
    /\ worker.pc = "creating"
    /\ worker.routesTodo = {}
    /\ worker' = IdleWorker
    /\ UNCHANGED <<tenantDns, routes, routesCache, watch, bus, request, ops,
                   faults, disturbed>>

WorkerStep ==
    \/ ReceiveEvent \/ ReadSettings \/ DeleteRoute \/ DeletionDone
    \/ DeleteRemovedTenants \/ RefreshSettings \/ CreateRoute \/ CreationDone

WorkerFailure ==
    \/ ReadSettingsFails \/ DeleteRouteFails \/ DeleteRemovedTenantsFails
    \/ RefreshSettingsFails \/ CreateRouteFails

-----------------------------------------------------------------------------
(* The watch, the timer, a restart                                         *)

\* updateRoutesCache for an event of the watch; a late one can contradict what
\* the worker has done since.
DeliverRouteEvent ==
    /\ watch # <<>>
    /\ watch' = Tail(watch)
    /\ LET event == Head(watch) IN
         routesCache' = IF event[1] = "CREATED"
                        THEN routesCache \union {event[2]}
                        ELSE routesCache \ {event[2]}
    /\ Disturb(InPass /\ routesCache' # routes)
    /\ UNCHANGED <<tenantDns, routes, bus, worker, request, ops, faults>>

\* Mutant: the timer never fires.
AutoSyncTickNever == UNCHANGED vars

AutoSyncTick ==
    /\ bus' = BusAfterSync
    /\ UNCHANGED <<tenantDns, routes, routesCache, watch, worker, request, ops,
                   faults, disturbed>>

\* The process dies and comes back: goroutines and channel are lost, the cache
\* is loaded again, and the runner forces the initial sync.
Restart ==
    /\ Fail("crash")
    /\ request' = [c \in Requests |-> IdleRequest]
    /\ worker' = IdleWorker
    /\ bus' = 1
    /\ watch' = <<>>
    /\ routesCache' = routes
    /\ UNCHANGED <<tenantDns, routes, ops, disturbed>>

\* The process starts on whatever table and routes its last run, or somebody
\* else, left behind; the cache is loaded and the runner forces a first sync.
Init ==
    /\ tenantDns \in Tables
    /\ routes \in Clouds
    /\ routesCache = routes
    /\ watch = <<>>
    /\ bus = 1
    /\ worker = IdleWorker
    /\ request = [c \in Requests |-> IdleRequest]
    /\ ops = 0
    /\ faults = 0
    /\ disturbed = FALSE

Call(c) ==
    \/ Upsert(c) \/ ChangeTenantStatus(c) \/ DeleteTenant(c) \/ DeleteRoutes(c)
    \/ GetServiceName(c) \/ RestoreTenantAlias(c) \/ DeleteMissing(c)

Next ==
    \/ \E c \in Requests : Call(c) \/ RequestStep(c)
    \/ RegisterTenant \/ ForceSync
    \/ WorkerStep \/ WorkerFailure
    \/ DeliverRouteEvent \/ AutoSyncTick \/ Restart

Spec == Init /\ [][Next]_vars

\* Goroutines are scheduled, the watch delivers, the timer ticks.  Calls and
\* failures need not happen.
Fairness ==
    /\ WF_vars(WorkerStep)
    /\ WF_vars(DeliverRouteEvent)
    /\ WF_vars(AutoSyncTick)
    /\ \A c \in Requests : WF_vars(RequestStep(c))

FairSpec == Spec /\ Fairness

-----------------------------------------------------------------------------
(* Properties                                                              *)

RequestState ==
    [pc : {"idle", "select", "update", "insert", "sync", "activate",
           "deactivate", "delete"},
     op : AllOps \union {None}, tenant : Tenants \union {None},
     row : Row \union {None}, kept : Row \union {None}]

WorkerState ==
    [pc : {"idle", "start", "deleting", "purging", "creating"},
     settings : [Tenants -> Row \union {None}],
     routesTodo : SUBSET Route, rowsTodo : SUBSET Tenants]

\* The types; in particular the channel never holds more than its capacity, and
\* a request about to write has a row to write.
TypeOK ==
    /\ tenantDns \in [Tenants -> Row \union {None}]
    /\ routes \subseteq Route
    /\ routesCache \subseteq Route
    /\ watch \in Seq(WatchEvent)
    /\ bus \in 0..BusCap
    /\ worker \in WorkerState
    /\ request \in [Requests -> RequestState]
    /\ \A c \in Requests :
         /\ request[c].pc # "idle" => request[c].tenant \in Tenants
         /\ request[c].pc \in {"select", "update", "insert", "sync"}
              => request[c].row \in Row
    /\ ops \in 0..MaxOps
    /\ faults \in 0..MaxFaults
    /\ disturbed \in BOOLEAN

\* A pass that has not read the table yet is certain to come.
PassPending ==
    \/ bus > 0
    \/ worker.pc = "start"
    \/ \E c \in Requests : request[c].pc = "sync"

\* All there is to read has been read, and nothing went wrong since.
Settled == ~disturbed /\ ~PassPending

\* Every host of an active tenant has its route, or will get it with no further
\* help: from a pass that is still to read the table, or from the one at work,
\* which has the address before it.  The only excuses are in `disturbed'.
ActiveHostCovered ==
    Settled => \A r \in WantedRoutes(tenantDns) :
        \/ \E q \in routes : Host(q) = Host(r)
        \/ worker.pc \in {"deleting", "purging"}
        \/ worker.pc = "creating" /\ r \in worker.routesTodo

\* Every route whose host no active tenant has is about to be deleted by the
\* pass at work or is left to a pass still to come.
OrphanRouteCovered ==
    Settled => \A q \in routes :
        \/ HostBelongsToActiveTenant(q, tenantDns)
        \/ worker.pc = "deleting" /\ q \in worker.routesTodo

\* A pass nothing disturbs works on a cache equal to the cloud.
CacheExact == InPass /\ ~disturbed => routesCache = routes

\* What the worker has read of the table agrees with the table on the routes
\* that should exist, unless another pass is certain: so neither its snapshot,
\* used again when the re-read fails, nor its work list is out of date.
SettingsCurrent ==
    Settled =>
        /\ worker.pc \in {"deleting", "purging"}
             => WantedRoutes(worker.settings) = WantedRoutes(tenantDns)
        /\ worker.pc = "creating"
             => worker.routesTodo \subseteq WantedRoutes(tenantDns)

\* The inductive invariant: at every point of a pass, what is missing in the
\* cloud and what is too much there is accounted for.
SyncInv ==
    CacheExact /\ SettingsCurrent /\ ActiveHostCovered /\ OrphanRouteCovered

\* The hosts of the cloud are those of the active tenants.
Converged == {Host(r) : r \in routes} = ActiveHosts(tenantDns)

\* Whenever the worker has nothing to do and nobody is about to wake it, the
\* cloud is what the table says, whatever requests ran against the pass: no
\* wake-up is lost by the non-blocking send or by the worker's two reads.
QuiescentConverged ==
    worker.pc = "idle" /\ Settled => Converged

\* No step of a sync pass takes the row of a tenant that is not marked for
\* removal at that moment, even if it was when the pass began (the row of a
\* tenant restored during the pass stays, synchronizer_process_test.go).
RestoredRowKept ==
    [][\A t \in Tenants :
         WorkerStep /\ Exists(tenantDns, t) /\ ~IsRemoved(tenantDns, t)
           => tenantDns'[t] = tenantDns[t]]_vars

\* With calls and failures at an end, the cloud settles on the table: the timer
\* makes good every failure, stale cache entry and write without a Sync.
EventuallyConverged == <>[]Converged

\* A tenant marked for removal does not stay in the table as such.
RemovedTenantGoes ==
    \A t \in Tenants : IsRemoved(tenantDns, t) ~> ~IsRemoved(tenantDns, t)

\* synchronizer_process_test.go:27: a tenant restored while the pass runs keeps
\* its row: an update that reports success is in the table.
AcknowledgedWriteStored ==
    [][\A c \in Requests :
         request[c].pc = "update" /\ request'[c].pc = "sync"
           => tenantDns'[request[c].tenant] = request[c].row]_vars

\* The pass in the words of RouteTable: a purge is one of the changes of rows
\* that run against it.
Phase ==
    CASE worker.pc \in {"idle", "start"} -> "idle"
      [] worker.pc \in {"deleting", "purging"} -> "deleting"
      [] worker.pc = "creating" -> "creating"

Abstract == INSTANCE RouteTable WITH phase <- Phase, basis <- worker.settings

\* The synchronisation implements RouteTable: whatever the cache, the requests
\* and the failures do, each route that a pass deletes or creates is one that
\* the table it read, in that pass, has no owner for or calls for.
ImplementsRouteTable == Abstract!Spec
=============================================================================
