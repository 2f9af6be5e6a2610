--------------------------- MODULE RouteSyncProofs ---------------------------
(* Theorems about RouteSync, for every set of tenants, addresses, requests, *)
(* operations and failures, every channel capacity and every bound.        *)
EXTENDS RouteSync, TLAPS

-----------------------------------------------------------------------------
(* Type correctness                                                        *)

\* A worker and a request with nothing to do are well-typed.
LEMMA IdleTypes ==
    /\ IdleWorker \in WorkerState
    /\ IdleRequest \in RequestState
    /\ IdleRequest.pc = "idle"
<1>1. IdleWorker \in WorkerState
  BY DEF IdleWorker, WorkerState
<1>2. IdleRequest \in RequestState /\ IdleRequest.pc = "idle"
  BY DEF IdleRequest, RequestState
<1> QED
  BY <1>1, <1>2

\* What Sync does to the channel: it keeps to the capacity and is not empty.
LEMMA BusAfterSyncType ==
    ASSUME TypeOK
    PROVE  BusAfterSync \in 1..BusCap
  BY BoundAssumption DEF TypeOK, BusAfterSync

\* The requests part of TypeOK, which concerns one request at a time.
RequestOK(q) ==
    /\ q \in RequestState
    /\ q.pc # "idle" => q.tenant \in Tenants
    /\ q.pc \in {"select", "update", "insert", "sync"} => q.row \in Row

LEMMA RequestsTypeOK ==
    ASSUME TypeOK, NEW c \in Requests, NEW q, RequestOK(q),
           request' = [request EXCEPT ![c] = q]
    PROVE  /\ request' \in [Requests -> RequestState]
           /\ \A d \in Requests : RequestOK(request'[d])
  BY DEF TypeOK, RequestOK

LEMMA InitTypeOK == Init => TypeOK
<1> SUFFICES ASSUME Init PROVE TypeOK
  OBVIOUS
<1>1. /\ request \in [Requests -> RequestState]
      /\ \A c \in Requests : request[c].pc = "idle"
  BY IdleTypes DEF Init
<1>2. worker \in WorkerState
  BY IdleTypes DEF Init
<1>3. watch \in Seq(WatchEvent)
  BY DEF Init
<1>4. bus \in 0..BusCap /\ ops \in 0..MaxOps /\ faults \in 0..MaxFaults
  BY BoundAssumption DEF Init
<1>5. /\ tenantDns \in [Tenants -> Row \union {None}]
      /\ routes \subseteq Route
      /\ routesCache \subseteq Route
      /\ disturbed \in BOOLEAN
  BY BoundAssumption DEF Init
<1> QED
  BY <1>1, <1>2, <1>3, <1>4, <1>5 DEF TypeOK

\* A handler's jump leaves every request well-typed.
LEMMA GotoTypeOK ==
    ASSUME TypeOK, NEW c \in Requests, NEW pc, NEW op \in AllOps,
           NEW t \in Tenants, NEW row \in Row \union {None},
           NEW kept \in Row \union {None},
           pc \in {"select", "update", "insert", "sync", "activate",
                   "deactivate", "delete"},
           pc \in {"select", "update", "insert", "sync"} => row \in Row,
           Goto(c, pc, op, t, row, kept)
    PROVE  /\ request' \in [Requests -> RequestState]
           /\ \A d \in Requests : RequestOK(request'[d])
<1> DEFINE q == [pc |-> pc, op |-> op, tenant |-> t, row |-> row,
                 kept |-> kept]
<1>1. RequestOK(q)
  BY DEF RequestOK, RequestState
<1>2. request' = [request EXCEPT ![c] = q]
  BY DEF Goto
<1> QED
  BY <1>1, <1>2, RequestsTypeOK

LEMMA BeginTypeOK ==
    ASSUME TypeOK, NEW c \in Requests, NEW op \in AllOps, NEW t \in Tenants,
           NEW row \in Row, Begin(c, op, t, row)
    PROVE  /\ request' \in [Requests -> RequestState]
           /\ \A d \in Requests : RequestOK(request'[d])
  BY GotoTypeOK DEF Begin

LEMMA ReturnTypeOK ==
    ASSUME TypeOK, NEW c \in Requests, Return(c)
    PROVE  /\ request' \in [Requests -> RequestState]
           /\ \A d \in Requests : RequestOK(request'[d])
  BY IdleTypes, RequestsTypeOK DEF Return, RequestOK

\* A handler that only starts: everything but request and ops stays.
LEMMA HandlerTypeOK ==
    ASSUME TypeOK, HandlerUnchanged, ops < MaxOps, ops' = ops + 1,
           request' \in [Requests -> RequestState],
           \A d \in Requests : RequestOK(request'[d])
    PROVE  TypeOK'
<1>1. ops' \in 0..MaxOps
  BY BoundAssumption DEF TypeOK
<1> QED
  BY <1>1 DEF TypeOK, HandlerUnchanged, RequestOK

LEMMA RowUpdates ==
    ASSUME NEW row \in Row, NEW a \in BOOLEAN, NEW s \in SUBSET Addrs
    PROVE  /\ [row EXCEPT !.active = a] \in Row
           /\ [row EXCEPT !.sites = s] \in Row
           /\ [row EXCEPT !.sites = s, !.removed = TRUE] \in Row
  BY DEF Row

LEMMA TableRows ==
    ASSUME TypeOK, NEW t \in Tenants, Exists(tenantDns, t)
    PROVE  tenantDns[t] \in Row
  BY DEF TypeOK, Exists

LEMMA CallTypeOK ==
    ASSUME TypeOK, NEW c \in Requests, Call(c)
    PROVE  TypeOK'
<1> USE DEF Issue, AllOps
<1>1. CASE Upsert(c)
  <2>1. PICK t \in Tenants, s \in Payloads, a \in BOOLEAN :
          Begin(c, "Upsert", t, [sites |-> s, active |-> a, removed |-> FALSE])
    BY <1>1 DEF Upsert
  <2>2. [sites |-> s, active |-> a, removed |-> FALSE] \in Row
    BY BoundAssumption DEF Row
  <2> QED
    BY <1>1, <2>1, <2>2, BeginTypeOK, HandlerTypeOK DEF Upsert
<1>2. CASE ChangeTenantStatus(c)
  <2>1. PICK t \in Tenants, a \in BOOLEAN :
          /\ Exists(tenantDns, t)
          /\ Begin(c, "ChangeTenantStatus", t, [tenantDns[t] EXCEPT !.active = a])
    BY <1>2 DEF ChangeTenantStatus
  <2>2. [tenantDns[t] EXCEPT !.active = a] \in Row
    BY <2>1, TableRows, RowUpdates
  <2> QED
    BY <1>2, <2>1, <2>2, BeginTypeOK, HandlerTypeOK DEF ChangeTenantStatus
<1>3. CASE DeleteTenant(c)
  <2>1. PICK t \in Tenants :
          /\ Exists(tenantDns, t)
          /\ Begin(c, "DeleteTenant", t,
                   [tenantDns[t] EXCEPT !.sites = {}, !.removed = TRUE])
    BY <1>3 DEF DeleteTenant
  <2>2. [tenantDns[t] EXCEPT !.sites = {}, !.removed = TRUE] \in Row
    BY <2>1, TableRows, RowUpdates
  <2> QED
    BY <1>3, <2>1, <2>2, BeginTypeOK, HandlerTypeOK DEF DeleteTenant
<1>4. CASE DeleteRoutes(c)
  <2>1. PICK t \in Tenants :
          /\ Exists(tenantDns, t)
          /\ Begin(c, "DeleteRoutes", t, [tenantDns[t] EXCEPT !.sites = {}])
    BY <1>4 DEF DeleteRoutes
  <2>2. [tenantDns[t] EXCEPT !.sites = {}] \in Row
    BY <2>1, TableRows, RowUpdates
  <2> QED
    BY <1>4, <2>1, <2>2, BeginTypeOK, HandlerTypeOK DEF DeleteRoutes
<1>5. CASE GetServiceName(c)
  <2>1. PICK t \in Tenants, status \in BOOLEAN, named \in BOOLEAN :
          LET first == [tenantDns[t] EXCEPT !.active = status] IN
          /\ Exists(tenantDns, t)
          /\ IF tenantDns[t].active = status
             THEN ~named /\ Begin(c, "GetServiceName", t, first)
             ELSE Goto(c, IF status THEN "activate" ELSE "deactivate",
                       "GetServiceName", t, None,
                       IF named THEN None ELSE first)
    BY <1>5 DEF GetServiceName
  <2> DEFINE first == [tenantDns[t] EXCEPT !.active = status]
  <2>2. first \in Row
    BY <2>1, TableRows, RowUpdates
  <2>3. CASE tenantDns[t].active = status
    BY <1>5, <2>1, <2>2, <2>3, BeginTypeOK, HandlerTypeOK DEF GetServiceName
  <2>4. CASE tenantDns[t].active # status
    <3> DEFINE pc == IF status THEN "activate" ELSE "deactivate"
               kept == IF named THEN None ELSE first
    <3>1. Goto(c, pc, "GetServiceName", t, None, kept)
      BY <2>1, <2>4
    <3>2. kept \in Row \union {None} /\ pc \in {"activate", "deactivate"}
      BY <2>2
    <3> HIDE DEF pc, kept
    <3>3. /\ request' \in [Requests -> RequestState]
          /\ \A d \in Requests : RequestOK(request'[d])
      BY <3>1, <3>2, GotoTypeOK
    <3> QED
      BY <1>5, <3>3, HandlerTypeOK DEF GetServiceName
  <2> QED
    BY <2>3, <2>4
<1>6. CASE RestoreTenantAlias(c)
  <2>1. PICK t \in Tenants, s \in Payloads :
          /\ Exists(tenantDns, t)
          /\ IF tenantDns[t].sites = {}
             THEN Begin(c, "RestoreTenantAlias", t,
                        [tenantDns[t] EXCEPT !.sites = s])
             ELSE Goto(c, "activate", "RestoreTenantAlias", t, None, None)
    BY <1>6 DEF RestoreTenantAlias
  <2>2. [tenantDns[t] EXCEPT !.sites = s] \in Row
    BY <2>1, TableRows, RowUpdates, BoundAssumption
  <2>3. /\ request' \in [Requests -> RequestState]
        /\ \A d \in Requests : RequestOK(request'[d])
    BY <2>1, <2>2, BeginTypeOK, GotoTypeOK
  <2> QED
    BY <1>6, <2>3, HandlerTypeOK DEF RestoreTenantAlias
<1>7. CASE DeleteMissing(c)
  <2>1. PICK t \in Tenants : Goto(c, "delete", "DeleteMissing", t, None, None)
    BY <1>7 DEF DeleteMissing
  <2> QED
    BY <1>7, <2>1, GotoTypeOK, HandlerTypeOK DEF DeleteMissing
<1> QED
  BY <1>1, <1>2, <1>3, <1>4, <1>5, <1>6, <1>7 DEF Call

\* A request in the middle of a handler has its tenant, and its row if the
\* handler is on its way through dao.Upsert.
LEMMA RequestFields ==
    ASSUME TypeOK, NEW c \in Requests, request[c].pc # "idle"
    PROVE  /\ request[c].tenant \in Tenants
           /\ request[c].pc \in {"select", "update", "insert", "sync"}
                => request[c].row \in Row
           /\ request[c].kept \in Row \union {None}
           /\ request[c].op \in AllOps \union {None}
  BY DEF TypeOK, RequestState

LEMMA AfterWriteTypeOK ==
    ASSUME TypeOK, NEW c \in Requests, request[c].pc \in {"update", "insert"},
           AfterWrite(c)
    PROVE  /\ request' \in [Requests -> RequestState]
           /\ \A d \in Requests : RequestOK(request'[d])
<1>1. CASE Signals(c)
  <2> DEFINE q == [request[c] EXCEPT !.pc = "sync"]
  <2>1. RequestOK(q)
    BY DEF TypeOK, RequestOK, RequestState
  <2>2. request' = [request EXCEPT ![c] = q]
    BY <1>1 DEF AfterWrite, TypeOK
  <2> QED
    BY <2>1, <2>2, RequestsTypeOK
<1>2. CASE ~Signals(c)
  BY <1>2, ReturnTypeOK DEF AfterWrite
<1> QED
  BY <1>1, <1>2

LEMMA RequestStepTypeOK ==
    ASSUME TypeOK, NEW c \in Requests, RequestStep(c)
    PROVE  TypeOK'
<1> DEFINE Ok == /\ request' \in [Requests -> RequestState]
                 /\ \A d \in Requests : RequestOK(request'[d])
           t == request[c].tenant
<1>1. CASE DaoSelect(c)
  <2> DEFINE q == [request[c] EXCEPT !.pc =
                     IF Exists(tenantDns, t) THEN "update" ELSE "insert"]
  <2>1. RequestOK(q)
    BY <1>1 DEF DaoSelect, TypeOK, RequestOK, RequestState
  <2>2. request' = [request EXCEPT ![c] = q]
    BY <1>1 DEF DaoSelect, TypeOK
  <2>3. Ok
    BY <2>1, <2>2, RequestsTypeOK
  <2> QED
    BY <1>1, <2>3 DEF DaoSelect, TypeOK, RequestOK
<1>2. CASE DaoUpdate(c)
  <2>1. t \in Tenants /\ request[c].row \in Row
    BY <1>2, RequestFields DEF DaoUpdate
  <2>2. Ok
    BY <1>2, AfterWriteTypeOK DEF DaoUpdate
  <2>3. tenantDns' \in [Tenants -> Row \union {None}]
    BY <1>2, <2>1 DEF DaoUpdate, TypeOK
  <2>4. disturbed' \in BOOLEAN
    BY <1>2 DEF DaoUpdate, Disturb, TypeOK
  <2> QED
    BY <1>2, <2>2, <2>3, <2>4 DEF DaoUpdate, TypeOK, RequestOK
<1>3. CASE DaoInsert(c)
  <2>1. t \in Tenants /\ request[c].row \in Row
    BY <1>3, RequestFields DEF DaoInsert
  <2>2. Ok
    BY <1>3, AfterWriteTypeOK, ReturnTypeOK DEF DaoInsert
  <2>3. tenantDns' \in [Tenants -> Row \union {None}]
    BY <1>3, <2>1 DEF DaoInsert, TypeOK
  <2>4. disturbed' \in BOOLEAN
    BY <1>3 DEF DaoInsert, Disturb, TypeOK
  <2> QED
    BY <1>3, <2>2, <2>3, <2>4 DEF DaoInsert, TypeOK, RequestOK
<1>4. CASE DaoDelete(c)
  <2>1. t \in Tenants
    BY <1>4, RequestFields DEF DaoDelete
  <2>2. Ok
    BY <1>4, ReturnTypeOK DEF DaoDelete
  <2>3. tenantDns' \in [Tenants -> Row \union {None}]
    BY <1>4, <2>1 DEF DaoDelete, TypeOK
  <2>4. disturbed' \in BOOLEAN
    BY <1>4 DEF DaoDelete, Disturb, TypeOK
  <2> QED
    BY <1>4, <2>2, <2>3, <2>4 DEF DaoDelete, TypeOK, RequestOK
<1>5. CASE SyncAfterWrite(c)
  <2>1. /\ t \in Tenants
        /\ request[c].kept \in Row \union {None}
    BY <1>5, RequestFields DEF SyncAfterWrite
  <2>2. CASE request[c].op = "RestoreTenantAlias"
    <3>1. Goto(c, "activate", "ChangeTenantStatus", t, None, None)
      BY <1>5, <2>2 DEF SyncAfterWrite
    <3>2. Ok
      BY <2>1, <3>1, GotoTypeOK DEF AllOps
    <3> QED
      BY <3>2, <1>5, BusAfterSyncType DEF SyncAfterWrite, TypeOK, RequestOK
  <2>3. CASE request[c].op # "RestoreTenantAlias" /\ request[c].kept # None
    <3>1. Begin(c, "GetServiceName", t, request[c].kept)
      BY <1>5, <2>3 DEF SyncAfterWrite
    <3>2. Ok
      BY <2>1, <2>3, <3>1, BeginTypeOK DEF AllOps
    <3> QED
      BY <3>2, <1>5, BusAfterSyncType DEF SyncAfterWrite, TypeOK, RequestOK
  <2>4. CASE request[c].op # "RestoreTenantAlias" /\ request[c].kept = None
    <3>1. Return(c)
      BY <1>5, <2>4 DEF SyncAfterWrite
    <3>2. Ok
      BY <3>1, ReturnTypeOK
    <3> QED
      BY <3>2, <1>5, BusAfterSyncType DEF SyncAfterWrite, TypeOK, RequestOK
  <2> QED
    BY <2>2, <2>3, <2>4
<1>6. CASE ChangeStatusOfRow(c)
  <2>1. /\ t \in Tenants
        /\ request[c].kept \in Row \union {None}
    BY <1>6, RequestFields DEF ChangeStatusOfRow
  <2>2. CASE Exists(tenantDns, t)
    <3> DEFINE row == [tenantDns[t] EXCEPT !.active =
                         request[c].pc = "activate"]
    <3>1. Goto(c, "select", "ChangeTenantStatus", t, row, request[c].kept)
      BY <1>6, <2>2 DEF ChangeStatusOfRow
    <3>2. row \in Row
      BY <2>1, <2>2, TableRows, RowUpdates
    <3> HIDE DEF row
    <3>3. Ok
      BY <2>1, <3>1, <3>2, GotoTypeOK DEF AllOps
    <3> QED
      BY <1>6, <3>3 DEF ChangeStatusOfRow, TypeOK, RequestOK
  <2>3. CASE ~Exists(tenantDns, t)
    <3>1. Ok
      BY <1>6, <2>3, ReturnTypeOK DEF ChangeStatusOfRow
    <3> QED
      BY <1>6, <3>1 DEF ChangeStatusOfRow, TypeOK, RequestOK
  <2> QED
    BY <2>2, <2>3
<1> QED
  BY <1>1, <1>2, <1>3, <1>4, <1>5, <1>6 DEF RequestStep

\* A failure stays within its bound.
LEMMA FailTypeOK ==
    ASSUME TypeOK, NEW kind, Fail(kind)
    PROVE  faults' \in 0..MaxFaults
  BY BoundAssumption DEF TypeOK, Fail

LEMMA EmitTypeOK ==
    ASSUME TypeOK, NEW type \in {"CREATED", "DELETED"}, NEW r \in Route,
           Emit(type, r)
    PROVE  watch' \in Seq(WatchEvent)
<1>1. <<type, r>> \in WatchEvent
  BY DEF WatchEvent
<1> QED
  BY <1>1 DEF TypeOK, Emit

LEMMA WorkerFields ==
    ASSUME TypeOK
    PROVE  /\ worker.settings \in [Tenants -> Row \union {None}]
           /\ worker.routesTodo \subseteq Route
           /\ worker.rowsTodo \subseteq Tenants
  BY DEF TypeOK, WorkerState

LEMMA WantedRoutesType ==
    ASSUME NEW rows
    PROVE  WantedRoutes(rows) \subseteq Route
  BY DEF WantedRoutes

\* What a step of the worker may do to its own state.
LEMMA WorkerUpdates ==
    ASSUME TypeOK
    PROVE  /\ [worker EXCEPT !.pc = "start"] \in WorkerState
           /\ \A r : [worker EXCEPT !.routesTodo = @ \ {r}] \in WorkerState
           /\ \A t : [worker EXCEPT !.rowsTodo = @ \ {t}] \in WorkerState
           /\ \A T \in SUBSET Tenants :
                [worker EXCEPT !.pc = "purging", !.rowsTodo = T] \in WorkerState
  BY DEF TypeOK, WorkerState

LEMMA StartCreatingTypeOK ==
    ASSUME NEW rows \in [Tenants -> Row \union {None}], StartCreating(rows)
    PROVE  worker' \in WorkerState
  BY WantedRoutesType DEF StartCreating, WorkerState

LEMMA WorkerStepTypeOK ==
    ASSUME TypeOK, WorkerStep
    PROVE  TypeOK'
<1>1. CASE ReceiveEvent
  <2>1. bus' \in 0..BusCap
    BY <1>1, BoundAssumption DEF ReceiveEvent, TypeOK
  <2> QED
    BY <1>1, <2>1, WorkerUpdates DEF ReceiveEvent, TypeOK
<1>2. CASE ReadSettings
  <2>1. worker' \in WorkerState
    BY <1>2 DEF ReadSettings, TypeOK, WorkerState
  <2> QED
    BY <1>2, <2>1 DEF ReadSettings, TypeOK
<1>3. CASE DeleteRoute
  <2>1. PICK r \in worker.routesTodo :
          /\ worker' = [worker EXCEPT !.routesTodo = @ \ {r}]
          /\ IF r \in routes
             THEN /\ routes' = routes \ {r}
                  /\ routesCache' = routesCache \ {r}
                  /\ Emit("DELETED", r)
             ELSE UNCHANGED <<routes, routesCache, watch>>
    BY <1>3 DEF DeleteRoute
  <2>2. watch' \in Seq(WatchEvent)
    BY <2>1, EmitTypeOK, WorkerFields DEF TypeOK
  <2>3. worker' \in WorkerState
    BY <2>1, WorkerUpdates
  <2> QED
    BY <1>3, <2>1, <2>2, <2>3 DEF DeleteRoute, TypeOK
<1>4. CASE DeletionDone
  <2>1. worker' \in WorkerState
    BY <1>4, WorkerUpdates DEF DeletionDone
  <2> QED
    BY <1>4, <2>1 DEF DeletionDone, TypeOK
<1>5. CASE DeleteRemovedTenants
  <2>1. PICK t \in worker.rowsTodo :
          /\ DeleteIfRemoved(t)
          /\ worker' = [worker EXCEPT !.rowsTodo = @ \ {t}]
    BY <1>5 DEF DeleteRemovedTenants
  <2>2. tenantDns' \in [Tenants -> Row \union {None}]
    BY <2>1, WorkerFields DEF DeleteIfRemoved, TypeOK
  <2>3. worker' \in WorkerState
    BY <2>1, WorkerUpdates
  <2>4. disturbed' \in BOOLEAN
    BY <1>5 DEF DeleteRemovedTenants, Disturb, TypeOK
  <2> QED
    BY <1>5, <2>2, <2>3, <2>4 DEF DeleteRemovedTenants, TypeOK
<1>6. CASE RefreshSettings
  <2>1. worker' \in WorkerState
    BY <1>6, StartCreatingTypeOK DEF RefreshSettings, TypeOK
  <2> QED
    BY <1>6, <2>1 DEF RefreshSettings, TypeOK
<1>7. CASE CreateRoute
  <2>1. PICK r \in worker.routesTodo :
          /\ worker' = [worker EXCEPT !.routesTodo = @ \ {r}]
          /\ IF IsHostPresent(r[2], routesCache) \/ r \in routes
             THEN UNCHANGED <<routes, routesCache, watch>>
             ELSE /\ routes' = routes \union {r}
                  /\ routesCache' = routesCache \union {r}
                  /\ Emit("CREATED", r)
    BY <1>7 DEF CreateRoute
  <2>2. watch' \in Seq(WatchEvent)
    BY <2>1, EmitTypeOK, WorkerFields DEF TypeOK
  <2>3. worker' \in WorkerState
    BY <2>1, WorkerUpdates
  <2>4. routes' \subseteq Route /\ routesCache' \subseteq Route
    BY <2>1, WorkerFields DEF TypeOK
  <2> QED
    BY <1>7, <2>2, <2>3, <2>4 DEF CreateRoute, TypeOK
<1>8. CASE CreationDone
  BY <1>8, IdleTypes DEF CreationDone, TypeOK
<1> QED
  BY <1>1, <1>2, <1>3, <1>4, <1>5, <1>6, <1>7, <1>8 DEF WorkerStep

LEMMA WorkerFailureTypeOK ==
    ASSUME TypeOK, WorkerFailure
    PROVE  TypeOK'
<1>1. CASE ReadSettingsFails
  BY <1>1, FailTypeOK, IdleTypes DEF ReadSettingsFails, Disturb, TypeOK
<1>2. CASE DeleteRouteFails
  <2>1. PICK r \in worker.routesTodo :
          /\ worker' = [worker EXCEPT !.routesTodo = @ \ {r}]
          /\ \/ UNCHANGED <<routes, watch>>
             \/ /\ r \in routes
                /\ routes' = routes \ {r}
                /\ Emit("DELETED", r)
    BY <1>2 DEF DeleteRouteFails
  <2>2. watch' \in Seq(WatchEvent) /\ routes' \subseteq Route
    BY <2>1, EmitTypeOK, WorkerFields DEF TypeOK
  <2>3. worker' \in WorkerState
    BY <2>1, WorkerUpdates
  <2> QED
    BY <1>2, <2>2, <2>3, FailTypeOK DEF DeleteRouteFails, Disturb, TypeOK
<1>3. CASE DeleteRemovedTenantsFails
  <2>1. worker' \in WorkerState
    BY <1>3, WorkerUpdates DEF DeleteRemovedTenantsFails
  <2> QED
    BY <1>3, <2>1, FailTypeOK DEF DeleteRemovedTenantsFails, TypeOK
<1>4. CASE RefreshSettingsFails
  <2>1. worker' \in WorkerState
    BY <1>4, StartCreatingTypeOK, WorkerFields DEF RefreshSettingsFails
  <2> QED
    BY <1>4, <2>1, FailTypeOK DEF RefreshSettingsFails, TypeOK
<1>5. CASE CreateRouteFails
  <2>1. PICK r \in worker.routesTodo :
          /\ worker' = [worker EXCEPT !.routesTodo = @ \ {r}]
          /\ \/ Fail("service") /\ UNCHANGED <<routes, watch>>
             \/ /\ ~IsHostPresent(r[2], routesCache)
                /\ Fail("paas")
                /\ \/ UNCHANGED <<routes, watch>>
                   \/ /\ r \notin routes
                      /\ routes' = routes \union {r}
                      /\ Emit("CREATED", r)
    BY <1>5 DEF CreateRouteFails
  <2>2. watch' \in Seq(WatchEvent) /\ routes' \subseteq Route
    BY <2>1, EmitTypeOK, WorkerFields DEF TypeOK
  <2>3. worker' \in WorkerState
    BY <2>1, WorkerUpdates
  <2>4. faults' \in 0..MaxFaults
    BY <2>1, FailTypeOK
  <2> QED
    BY <1>5, <2>2, <2>3, <2>4 DEF CreateRouteFails, Disturb, TypeOK
<1> QED
  BY <1>1, <1>2, <1>3, <1>4, <1>5 DEF WorkerFailure

LEMMA EnvironmentTypeOK ==
    ASSUME TypeOK,
           RegisterTenant \/ ForceSync \/ DeliverRouteEvent \/ AutoSyncTick
             \/ Restart
    PROVE  TypeOK'
<1>1. CASE RegisterTenant
  <2>1. [sites |-> {}, active |-> FALSE, removed |-> FALSE] \in Row
    BY DEF Row
  <2>2. tenantDns' \in [Tenants -> Row \union {None}]
    BY <1>1, <2>1 DEF RegisterTenant, TypeOK
  <2>3. ops' \in 0..MaxOps
    BY <1>1, BoundAssumption DEF RegisterTenant, Issue, TypeOK
  <2> QED
    BY <1>1, <2>2, <2>3 DEF RegisterTenant, TypeOK
<1>2. CASE ForceSync
  <2>1. ops' \in 0..MaxOps
    BY <1>2, BoundAssumption DEF ForceSync, Issue, TypeOK
  <2>2. bus' \in 0..BusCap
    BY <1>2, BusAfterSyncType DEF ForceSync
  <2> QED
    BY <1>2, <2>1, <2>2 DEF ForceSync, TypeOK
<1>3. CASE DeliverRouteEvent
  <2>1. Head(watch) \in WatchEvent /\ watch' \in Seq(WatchEvent)
    BY <1>3 DEF DeliverRouteEvent, TypeOK
  <2>2. Head(watch)[2] \in Route
    BY <2>1 DEF WatchEvent
  <2>3. routesCache' \subseteq Route
    BY <1>3, <2>2 DEF DeliverRouteEvent, TypeOK
  <2> QED
    BY <1>3, <2>1, <2>3 DEF DeliverRouteEvent, Disturb, TypeOK
<1>4. CASE AutoSyncTick
  <2>1. bus' \in 0..BusCap
    BY <1>4, BusAfterSyncType DEF AutoSyncTick
  <2> QED
    BY <1>4, <2>1 DEF AutoSyncTick, TypeOK
<1>5. CASE Restart
  <2>1. /\ request' \in [Requests -> RequestState]
        /\ \A c \in Requests : request'[c].pc = "idle"
    BY <1>5, IdleTypes DEF Restart
  <2>2. bus' \in 0..BusCap /\ watch' \in Seq(WatchEvent)
    BY <1>5, BoundAssumption DEF Restart
  <2> QED
    BY <1>5, <2>1, <2>2, IdleTypes, FailTypeOK DEF Restart, TypeOK
<1> QED
  BY <1>1, <1>2, <1>3, <1>4, <1>5

\* Every reachable state is well-typed: the channel keeps to its capacity, and a
\* request on its way through dao.Upsert has a tenant and a row to write.
THEOREM TypeCorrect == Spec => []TypeOK
<1>1. TypeOK /\ [Next]_vars => TypeOK'
  <2> SUFFICES ASSUME TypeOK, [Next]_vars PROVE TypeOK'
    OBVIOUS
  <2>1. CASE \E c \in Requests : Call(c) \/ RequestStep(c)
    BY <2>1, CallTypeOK, RequestStepTypeOK
  <2>2. CASE WorkerStep \/ WorkerFailure
    BY <2>2, WorkerStepTypeOK, WorkerFailureTypeOK
  <2>3. CASE RegisterTenant \/ ForceSync \/ DeliverRouteEvent \/ AutoSyncTick
               \/ Restart
    BY <2>3, EnvironmentTypeOK
  <2>4. CASE UNCHANGED vars
    BY <2>4 DEF vars, TypeOK
  <2> QED
    BY <2>1, <2>2, <2>3, <2>4 DEF Next
<1> QED
  BY <1>1, InitTypeOK, PTL DEF Spec

-----------------------------------------------------------------------------
(* The row of a restored tenant                                            *)

\* No sync pass ever takes the row of a tenant that is not marked for removal
\* at that moment: DeleteIfRemoved looks at the row, not at the snapshot.
THEOREM RestoredRowIsKept == Spec => RestoredRowKept
<1> DEFINE Kept == \A t \in Tenants :
             WorkerStep /\ Exists(tenantDns, t) /\ ~IsRemoved(tenantDns, t)
               => tenantDns'[t] = tenantDns[t]
<1>1. TypeOK => Kept
  <2> SUFFICES ASSUME TypeOK, NEW t \in Tenants, WorkerStep,
                      ~IsRemoved(tenantDns, t)
               PROVE  tenantDns'[t] = tenantDns[t]
    OBVIOUS
  <2>1. CASE DeleteRemovedTenants
    <3>1. PICK u \in worker.rowsTodo : DeleteIfRemoved(u)
      BY <2>1 DEF DeleteRemovedTenants
    <3>2. CASE IsRemoved(tenantDns, u)
      BY <3>1, <3>2 DEF DeleteIfRemoved, TypeOK
    <3>3. CASE ~IsRemoved(tenantDns, u)
      BY <3>1, <3>3 DEF DeleteIfRemoved
    <3> QED
      BY <3>2, <3>3
  <2>2. CASE ~DeleteRemovedTenants
    BY <2>2 DEF WorkerStep, ReceiveEvent, ReadSettings, DeleteRoute,
                DeletionDone, RefreshSettings, CreateRoute, CreationDone
  <2> QED
    BY <2>1, <2>2
<1>2. TypeOK /\ [Next]_vars => [Kept]_vars
  BY <1>1
<1> QED
  BY <1>2, TypeCorrect, PTL DEF Spec, RestoredRowKept

-----------------------------------------------------------------------------
(* The synchronisation invariant                                           *)

\* The parts of SyncInv are about the cloud and the hosts the active tenants
\* call for.  A step that leaves these, and what the worker has read and still
\* has to do, as they are keeps them, provided it does not settle anything.
LEMMA QuietStep ==
    ASSUME SyncInv, disturbed \in BOOLEAN,
           routes' = routes, routesCache' = routesCache,
           worker'.pc = worker.pc, worker'.settings = worker.settings,
           worker'.routesTodo = worker.routesTodo,
           ~disturbed' => ~disturbed,
           Settled' => /\ Settled
                       /\ WantedRoutes(tenantDns') = WantedRoutes(tenantDns)
    PROVE  SyncInv'
<1>1. CacheExact'
  BY DEF SyncInv, CacheExact, InPass
<1>2. SettingsCurrent'
  BY DEF SyncInv, SettingsCurrent
<1>3. ActiveHostCovered'
  BY DEF SyncInv, ActiveHostCovered
<1>4. OrphanRouteCovered'
  BY DEF SyncInv, OrphanRouteCovered, HostBelongsToActiveTenant, ActiveHosts
<1> QED
  BY <1>1, <1>2, <1>3, <1>4 DEF SyncInv

\* A request that is not about to signal does not settle anything by moving.
LEMMA RequestMove ==
    ASSUME TypeOK, NEW c \in Requests, NEW q,
           request' = [request EXCEPT ![c] = q], request[c].pc # "sync",
           bus' = bus, worker' = worker, ~disturbed' => ~disturbed
    PROVE  Settled' => Settled
  BY DEF TypeOK, Settled, PassPending

\* With a write behind it and the Sync before it, a request keeps a pass
\* pending.
LEMMA SignalPending ==
    ASSUME TypeOK, NEW c \in Requests, Signals(c), AfterWrite(c)
    PROVE  ~Settled'
<1>1. request'[c].pc = "sync"
  BY DEF TypeOK, AfterWrite, RequestState
<1> QED
  BY <1>1 DEF Settled, PassPending

\* After a Sync the channel is not empty, whether the send went through or not.
LEMMA SyncPending ==
    ASSUME TypeOK, bus' = BusAfterSync
    PROVE  ~Settled'
  BY BusAfterSyncType DEF Settled, PassPending

LEMMA CallSyncInv ==
    ASSUME TypeOK, SyncInv, NEW c \in Requests, Call(c)
    PROVE  SyncInv'
<1>1. HandlerUnchanged /\ request[c].pc = "idle"
  BY DEF Call, Upsert, ChangeTenantStatus, DeleteTenant, DeleteRoutes,
         GetServiceName, RestoreTenantAlias, DeleteMissing
<1>2. \E q : request' = [request EXCEPT ![c] = q]
  BY DEF Call, Upsert, ChangeTenantStatus, DeleteTenant, DeleteRoutes,
         GetServiceName, RestoreTenantAlias, DeleteMissing, Begin, Goto
<1>3. Settled' => Settled
  BY <1>1, <1>2, RequestMove DEF HandlerUnchanged
<1> QED
  BY <1>1, <1>3, QuietStep DEF HandlerUnchanged, TypeOK

LEMMA RequestStepSyncInv ==
    ASSUME TypeOK, SyncInv, NEW c \in Requests, RequestStep(c)
    PROVE  SyncInv'
<1>0. disturbed \in BOOLEAN
  BY DEF TypeOK
<1>1. CASE DaoSelect(c)
  <2>1. \E q : request' = [request EXCEPT ![c] = q]
    BY <1>1 DEF DaoSelect, TypeOK
  <2>2. Settled' => Settled
    BY <1>1, <2>1, RequestMove DEF DaoSelect
  <2> QED
    BY <1>0, <1>1, <2>2, QuietStep DEF DaoSelect
<1>2. CASE DaoUpdate(c) \/ DaoInsert(c)
  <2>1. /\ UNCHANGED <<routes, routesCache, worker, bus>>
        /\ request[c].pc # "sync"
        /\ disturbed' = (disturbed \/ (WantedChanges /\ ~Signals(c)))
    BY <1>2 DEF DaoUpdate, DaoInsert, Disturb
  <2>2. CASE AfterWrite(c) /\ Signals(c)
    BY <1>0, <2>1, <2>2, SignalPending, QuietStep
  <2>3. CASE ~(AfterWrite(c) /\ Signals(c))
    <3>1. Return(c)
      BY <1>2, <2>3 DEF DaoUpdate, DaoInsert, AfterWrite
    <3>2. Settled' => Settled
      BY <2>1, <3>1, RequestMove DEF Return
    <3>3. Settled' => ~WantedChanges
      <4>1. CASE Signals(c)
        BY <1>2, <2>3, <4>1 DEF DaoUpdate, DaoInsert, WantedChanges
      <4>2. CASE ~Signals(c)
        BY <2>1, <4>2 DEF Settled
      <4> QED
        BY <4>1, <4>2
    <3> QED
      BY <1>0, <2>1, <3>2, <3>3, QuietStep DEF WantedChanges
  <2> QED
    BY <2>2, <2>3
<1>3. CASE DaoDelete(c)
  <2>1. Settled' => Settled
    BY <1>3, RequestMove DEF DaoDelete, Disturb, Return
  <2>2. Settled' => ~WantedChanges
    BY <1>3 DEF DaoDelete, Disturb, Settled
  <2> QED
    BY <1>0, <1>3, <2>1, <2>2, QuietStep DEF DaoDelete, Disturb, WantedChanges
<1>4. CASE SyncAfterWrite(c)
  BY <1>0, <1>4, SyncPending, QuietStep DEF SyncAfterWrite
<1>5. CASE ChangeStatusOfRow(c)
  <2>1. \E q : request' = [request EXCEPT ![c] = q]
    BY <1>5 DEF ChangeStatusOfRow, Goto, Return
  <2>2. Settled' => Settled
    BY <1>5, <2>1, RequestMove DEF ChangeStatusOfRow
  <2> QED
    BY <1>0, <1>5, <2>2, QuietStep DEF ChangeStatusOfRow
<1> QED
  BY <1>1, <1>2, <1>3, <1>4, <1>5 DEF RequestStep

\* A route's host in lower case is the host itself.
LEMMA HostLower ==
    ASSUME NEW q \in Route, NEW a \in Addrs, Host(q) = a
    PROVE  Lower[a] = Host(q)
  BY LowerAssumption DEF Host, Route

LEMMA WorkerStepSyncInv ==
    ASSUME TypeOK, SyncInv, WorkerStep
    PROVE  SyncInv'
<1>0. disturbed \in BOOLEAN
  BY DEF TypeOK
<1>1. CASE ReceiveEvent
  <2>1. worker'.pc = "start" /\ ~InPass'
    BY <1>1 DEF ReceiveEvent, TypeOK, WorkerState, InPass
  <2>2. ~Settled'
    BY <2>1 DEF Settled, PassPending
  <2> QED
    BY <2>1, <2>2 DEF SyncInv, CacheExact, SettingsCurrent, ActiveHostCovered,
                      OrphanRouteCovered
<1>2. CASE ReadSettings
  <2>1. /\ worker'.pc = "deleting" /\ worker'.settings = tenantDns
        /\ tenantDns' = tenantDns
        /\ worker'.routesTodo =
             {r \in routesCache : ~HostBelongsToActiveTenant(r, tenantDns)}
    BY <1>2 DEF ReadSettings
  <2>2. ~disturbed' => routesCache' = routes' /\ routesCache = routes
    BY <1>2 DEF ReadSettings
  <2>3. CacheExact'
    BY <2>2 DEF CacheExact
  <2>4. SettingsCurrent'
    BY <2>1 DEF SettingsCurrent
  <2>5. ActiveHostCovered'
    BY <2>1 DEF ActiveHostCovered
  <2>6. OrphanRouteCovered'
    BY <1>2, <2>1, <2>2
       DEF ReadSettings, OrphanRouteCovered, Settled,
           HostBelongsToActiveTenant, ActiveHosts
  <2> QED
    BY <2>3, <2>4, <2>5, <2>6 DEF SyncInv
<1>3. CASE DeleteRoute
  <2>1. PICK r \in worker.routesTodo :
          /\ worker' = [worker EXCEPT !.routesTodo = @ \ {r}]
          /\ \/ /\ r \in routes
                /\ routes' = routes \ {r}
                /\ routesCache' = routesCache \ {r}
             \/ /\ r \notin routes
                /\ routes' = routes
                /\ routesCache' = routesCache
    BY <1>3 DEF DeleteRoute
  <2>2. /\ worker.pc = "deleting" /\ worker'.pc = "deleting"
        /\ worker'.settings = worker.settings
        /\ worker'.routesTodo = worker.routesTodo \ {r}
    BY <1>3, <2>1 DEF DeleteRoute, TypeOK, WorkerState
  <2>3. /\ tenantDns' = tenantDns
        /\ disturbed' = disturbed
        /\ Settled' => Settled
    BY <1>3, <2>2 DEF DeleteRoute, Settled, PassPending
  <2>4. CacheExact'
    BY <2>1, <2>2, <2>3 DEF SyncInv, CacheExact, InPass
  <2>5. SettingsCurrent'
    BY <2>2, <2>3 DEF SyncInv, SettingsCurrent
  <2>6. ActiveHostCovered'
    BY <2>2 DEF ActiveHostCovered
  <2>7. OrphanRouteCovered'
    BY <2>1, <2>2, <2>3
       DEF SyncInv, OrphanRouteCovered, HostBelongsToActiveTenant, ActiveHosts
  <2> QED
    BY <2>4, <2>5, <2>6, <2>7 DEF SyncInv
<1>4. CASE DeletionDone
  <2>1. /\ worker.pc = "deleting" /\ worker.routesTodo = {}
        /\ worker'.pc = "purging" /\ worker'.settings = worker.settings
    BY <1>4 DEF DeletionDone, TypeOK, WorkerState
  <2>2. /\ UNCHANGED <<tenantDns, routes, routesCache, disturbed>>
        /\ Settled' => Settled
    BY <1>4, <2>1 DEF DeletionDone, Settled, PassPending
  <2>3. CacheExact'
    BY <2>1, <2>2 DEF SyncInv, CacheExact, InPass
  <2>4. SettingsCurrent'
    BY <2>1, <2>2 DEF SyncInv, SettingsCurrent
  <2>5. ActiveHostCovered'
    BY <2>1 DEF ActiveHostCovered
  <2>6. OrphanRouteCovered'
    BY <2>1, <2>2
       DEF SyncInv, OrphanRouteCovered, HostBelongsToActiveTenant, ActiveHosts
  <2> QED
    BY <2>3, <2>4, <2>5, <2>6 DEF SyncInv
<1>5. CASE DeleteRemovedTenants
  <2>1. /\ worker'.pc = worker.pc /\ worker'.settings = worker.settings
        /\ worker'.routesTodo = worker.routesTodo
    BY <1>5 DEF DeleteRemovedTenants, TypeOK, WorkerState
  <2>2. Settled' => Settled /\ ~WantedChanges
    BY <1>5, <2>1
       DEF DeleteRemovedTenants, Disturb, Settled, PassPending
  <2> QED
    BY <1>0, <1>5, <2>1, <2>2, QuietStep
       DEF DeleteRemovedTenants, Disturb, WantedChanges
<1>6. CASE RefreshSettings
  <2>1. /\ worker.pc = "purging" /\ worker'.pc = "creating"
        /\ worker'.routesTodo = WantedRoutes(tenantDns)
    BY <1>6 DEF RefreshSettings, StartCreating
  <2>2. /\ UNCHANGED <<tenantDns, routes, routesCache, disturbed>>
        /\ Settled' => Settled
    BY <1>6, <2>1 DEF RefreshSettings, Settled, PassPending
  <2>3. CacheExact'
    BY <2>1, <2>2 DEF SyncInv, CacheExact, InPass
  <2>4. SettingsCurrent'
    BY <2>1, <2>2 DEF SettingsCurrent
  <2>5. ActiveHostCovered'
    BY <2>1, <2>2 DEF ActiveHostCovered
  <2>6. OrphanRouteCovered'
    BY <2>1, <2>2
       DEF SyncInv, OrphanRouteCovered, HostBelongsToActiveTenant, ActiveHosts
  <2> QED
    BY <2>3, <2>4, <2>5, <2>6 DEF SyncInv
<1>7. CASE CreateRoute
  <2>1. PICK r \in worker.routesTodo :
          /\ worker' = [worker EXCEPT !.routesTodo = @ \ {r}]
          /\ IF IsHostPresent(r[2], routesCache) \/ r \in routes
             THEN UNCHANGED <<routes, routesCache>>
             ELSE /\ routes' = routes \union {r}
                  /\ routesCache' = routesCache \union {r}
    BY <1>7 DEF CreateRoute
  <2>2. /\ worker.pc = "creating" /\ worker'.pc = "creating"
        /\ worker'.routesTodo = worker.routesTodo \ {r}
        /\ r \in Route
    BY <1>7, <2>1 DEF CreateRoute, TypeOK, WorkerState
  <2>3. /\ tenantDns' = tenantDns
        /\ disturbed' = disturbed
        /\ Settled' => Settled
    BY <1>7, <2>2 DEF CreateRoute, Settled, PassPending
  <2>4. CacheExact'
    BY <2>1, <2>2, <2>3 DEF SyncInv, CacheExact, InPass
  <2>5. SettingsCurrent'
    BY <2>2, <2>3 DEF SyncInv, SettingsCurrent
  <2>6. Settled => \E q \in routes' : Host(q) = Host(r)
    <3>1. CASE IsHostPresent(r[2], routesCache)
      <4>1. PICK q \in routesCache : Host(q) = r[2]
        BY <3>1 DEF IsHostPresent
      <4>2. q \in Route /\ r[2] \in Addrs
        BY <2>2 DEF TypeOK, Route
      <4>3. Host(q) = Host(r)
        BY <4>1, <4>2, HostLower DEF Host
      <4>4. Settled => routesCache = routes
        BY <2>2 DEF SyncInv, CacheExact, InPass, Settled
      <4> QED
        BY <2>1, <3>1, <4>3, <4>4
    <3>2. CASE ~IsHostPresent(r[2], routesCache)
      BY <2>1, <3>2
    <3> QED
      BY <3>1, <3>2
  <2>7. ActiveHostCovered'
    BY <2>1, <2>2, <2>3, <2>6 DEF SyncInv, ActiveHostCovered
  <2>8. OrphanRouteCovered'
    <3>1. Settled => r \in WantedRoutes(tenantDns)
      BY <2>2 DEF SyncInv, SettingsCurrent
    <3> QED
      BY <2>1, <2>2, <2>3, <3>1
         DEF SyncInv, OrphanRouteCovered, HostBelongsToActiveTenant, ActiveHosts
  <2> QED
    BY <2>4, <2>5, <2>7, <2>8 DEF SyncInv
<1>8. CASE CreationDone
  <2>1. /\ worker.pc = "creating" /\ worker.routesTodo = {}
        /\ worker'.pc = "idle"
    BY <1>8 DEF CreationDone, IdleWorker
  <2>2. /\ UNCHANGED <<tenantDns, routes, routesCache, disturbed>>
        /\ Settled' => Settled
    BY <1>8, <2>1 DEF CreationDone, Settled, PassPending
  <2> QED
    BY <2>1, <2>2
       DEF SyncInv, CacheExact, SettingsCurrent, ActiveHostCovered, InPass,
           OrphanRouteCovered, HostBelongsToActiveTenant, ActiveHosts
<1> QED
  BY <1>1, <1>2, <1>3, <1>4, <1>5, <1>6, <1>7, <1>8 DEF WorkerStep

LEMMA WorkerFailureSyncInv ==
    ASSUME TypeOK, SyncInv, WorkerFailure
    PROVE  SyncInv'
<1>0. disturbed \in BOOLEAN
  BY DEF TypeOK
<1>1. CASE ReadSettingsFails \/ DeleteRouteFails \/ CreateRouteFails
  <2>1. disturbed'
    BY <1>1 DEF ReadSettingsFails, DeleteRouteFails, CreateRouteFails, Disturb
  <2> QED
    BY <2>1 DEF SyncInv, CacheExact, SettingsCurrent, ActiveHostCovered,
                OrphanRouteCovered, Settled
<1>2. CASE DeleteRemovedTenantsFails
  <2>1. /\ worker'.pc = worker.pc /\ worker'.settings = worker.settings
        /\ worker'.routesTodo = worker.routesTodo
    BY <1>2 DEF DeleteRemovedTenantsFails, TypeOK, WorkerState
  <2>2. Settled' => Settled
    BY <1>2, <2>1 DEF DeleteRemovedTenantsFails, Settled, PassPending
  <2> QED
    BY <1>0, <1>2, <2>1, <2>2, QuietStep DEF DeleteRemovedTenantsFails
<1>3. CASE RefreshSettingsFails
  <2>1. /\ worker.pc = "purging" /\ worker'.pc = "creating"
        /\ worker'.routesTodo = WantedRoutes(worker.settings)
    BY <1>3 DEF RefreshSettingsFails, StartCreating
  <2>2. /\ UNCHANGED <<tenantDns, routes, routesCache, disturbed>>
        /\ Settled' => Settled
    BY <1>3, <2>1 DEF RefreshSettingsFails, Settled, PassPending
  <2>3. Settled => WantedRoutes(worker.settings) = WantedRoutes(tenantDns)
    BY <2>1 DEF SyncInv, SettingsCurrent
  <2>4. CacheExact'
    BY <2>1, <2>2 DEF SyncInv, CacheExact, InPass
  <2>5. SettingsCurrent'
    BY <2>1, <2>2, <2>3 DEF SettingsCurrent
  <2>6. ActiveHostCovered'
    BY <2>1, <2>2, <2>3 DEF ActiveHostCovered
  <2>7. OrphanRouteCovered'
    BY <2>1, <2>2
       DEF SyncInv, OrphanRouteCovered, HostBelongsToActiveTenant, ActiveHosts
  <2> QED
    BY <2>4, <2>5, <2>6, <2>7 DEF SyncInv
<1> QED
  BY <1>1, <1>2, <1>3 DEF WorkerFailure

LEMMA EnvironmentSyncInv ==
    ASSUME TypeOK, SyncInv,
           RegisterTenant \/ ForceSync \/ DeliverRouteEvent \/ AutoSyncTick
             \/ Restart
    PROVE  SyncInv'
<1>0. disturbed \in BOOLEAN
  BY DEF TypeOK
<1>1. CASE RegisterTenant
  <2>1. WantedRoutes(tenantDns') = WantedRoutes(tenantDns)
    <3>1. PICK t \in Tenants :
            /\ ~Exists(tenantDns, t)
            /\ tenantDns' = [tenantDns EXCEPT ![t] =
                 [sites |-> {}, active |-> FALSE, removed |-> FALSE]]
      BY <1>1 DEF RegisterTenant
    <3>2. ~IsActive(tenantDns', t) /\ ~IsActive(tenantDns, t)
      BY <3>1 DEF IsActive, TypeOK
    <3>3. \A u \in Tenants \ {t} : tenantDns'[u] = tenantDns[u]
      BY <3>1 DEF TypeOK
    <3>4. \A r \in Route : r[1] \in Tenants
      BY DEF Route
    <3> QED
      BY <3>2, <3>3, <3>4 DEF WantedRoutes, IsActive, Exists
  <2>2. Settled' => Settled
    BY <1>1 DEF RegisterTenant, Settled, PassPending
  <2> QED
    BY <1>0, <1>1, <2>1, <2>2, QuietStep DEF RegisterTenant
<1>2. CASE ForceSync \/ AutoSyncTick
  <2>1. ~Settled'
    BY <1>2, SyncPending DEF ForceSync, AutoSyncTick
  <2> QED
    BY <1>0, <1>2, <2>1, QuietStep DEF ForceSync, AutoSyncTick
<1>3. CASE DeliverRouteEvent
  <2>1. /\ UNCHANGED <<tenantDns, routes, worker, bus, request>>
        /\ disturbed' = (disturbed \/ (InPass /\ routesCache' # routes))
    BY <1>3 DEF DeliverRouteEvent, Disturb
  <2>2. Settled' => Settled
    BY <2>1 DEF Settled, PassPending
  <2>3. CacheExact'
    BY <2>1 DEF CacheExact, InPass
  <2> QED
    BY <2>1, <2>2, <2>3
       DEF SyncInv, SettingsCurrent, ActiveHostCovered, OrphanRouteCovered,
           HostBelongsToActiveTenant, ActiveHosts
<1>4. CASE Restart
  <2>1. ~Settled' /\ ~InPass'
    BY <1>4 DEF Restart, IdleWorker, Settled, PassPending, InPass
  <2> QED
    BY <2>1 DEF SyncInv, CacheExact, SettingsCurrent, ActiveHostCovered,
                OrphanRouteCovered
<1> QED
  BY <1>1, <1>2, <1>3, <1>4

\* At every point of every behaviour what is missing in the cloud and what is
\* too much there is accounted for by a pass at work or still to come, unless a
\* failure, a stale cache or an unsignalled write came since the last FindAll.
THEOREM SyncInvariant == Spec => []SyncInv
<1>1. Init => SyncInv
  <2> SUFFICES ASSUME Init PROVE SyncInv
    OBVIOUS
  <2>1. ~Settled /\ ~InPass
    BY DEF Init, Settled, PassPending, InPass, IdleWorker
  <2> QED
    BY <2>1 DEF SyncInv, CacheExact, SettingsCurrent, ActiveHostCovered,
                OrphanRouteCovered
<1>2. TypeOK /\ SyncInv /\ [Next]_vars => SyncInv'
  <2> SUFFICES ASSUME TypeOK, SyncInv, [Next]_vars PROVE SyncInv'
    OBVIOUS
  <2>1. CASE \E c \in Requests : Call(c) \/ RequestStep(c)
    BY <2>1, CallSyncInv, RequestStepSyncInv
  <2>2. CASE WorkerStep \/ WorkerFailure
    BY <2>2, WorkerStepSyncInv, WorkerFailureSyncInv
  <2>3. CASE RegisterTenant \/ ForceSync \/ DeliverRouteEvent \/ AutoSyncTick
               \/ Restart
    BY <2>3, EnvironmentSyncInv
  <2>4. CASE UNCHANGED vars
    <3>1. UNCHANGED <<routes, routesCache, worker, disturbed, tenantDns>>
          /\ Settled' = Settled
      BY <2>4 DEF vars, Settled, PassPending
    <3> QED
      BY <3>1, QuietStep DEF TypeOK
  <2> QED
    BY <2>1, <2>2, <2>3, <2>4 DEF Next
<1> QED
  BY <1>1, <1>2, TypeCorrect, PTL DEF Spec

\* Outside the recorded disturbances, a host of an active tenant that has no
\* route never goes unnoticed: the pass at work has still to come to it, or a
\* pass is certain that will.
THEOREM ActiveHostIsCovered == Spec => []ActiveHostCovered
  BY SyncInvariant, PTL DEF SyncInv

\* Outside the recorded disturbances, a route that no active tenant calls for
\* never stays unnoticed: the delete loop at work has still to come to it, or a
\* pass is certain that will.
THEOREM OrphanRouteIsCovered == Spec => []OrphanRouteCovered
  BY SyncInvariant, PTL DEF SyncInv

\* With an idle worker and nobody about to wake it, the hosts of the cloud are
\* those of the active tenants: no interleaving of requests with a pass loses a
\* wake-up or leaves a route too many.
THEOREM QuiescentIsConverged == Spec => []QuiescentConverged
<1>1. TypeOK /\ SyncInv => QuiescentConverged
  <2> SUFFICES ASSUME TypeOK, SyncInv, worker.pc = "idle", Settled
               PROVE  {Host(r) : r \in routes} = ActiveHosts(tenantDns)
    BY DEF QuiescentConverged, Converged
  <2>1. \A r \in WantedRoutes(tenantDns) : \E q \in routes : Host(q) = Host(r)
    BY DEF SyncInv, ActiveHostCovered
  <2>2. \A q \in routes : Host(q) \in ActiveHosts(tenantDns)
    BY DEF SyncInv, OrphanRouteCovered, HostBelongsToActiveTenant
  <2> QED
    BY <2>1, <2>2 DEF ActiveHosts
<1> QED
  BY <1>1, TypeCorrect, SyncInvariant, PTL

-----------------------------------------------------------------------------
(* RouteSync implements RouteTable, for all tables, clouds, requests and    *)
(* failures: Init maps to Init, every step to a step or to none.            *)

\* What each point of a pass owes to the reading of the table it goes by: no
\* route that is left to be deleted has an owner in it, every route that is left
\* to be created is called for, and between two passes there is no reading.
BasisInv ==
    /\ worker.pc \in {"idle", "start"}
         => worker.settings = [t \in Tenants |-> None]
    /\ worker.pc = "deleting"
         => \A r \in worker.routesTodo :
               ~HostBelongsToActiveTenant(r, worker.settings)
    /\ worker.pc = "creating"
         => worker.routesTodo \subseteq WantedRoutes(worker.settings)

-----------------------------------------------------------------------------
(* The invariant                                                           *)

\* A worker with nothing to do has read nothing.
LEMMA IdleBasis ==
    ASSUME worker' = IdleWorker
    PROVE  BasisInv'
  BY DEF IdleWorker, BasisInv

\* The create loop starts with what its reading calls for.
LEMMA StartCreatingBasis ==
    ASSUME NEW rows, StartCreating(rows)
    PROVE  BasisInv'
  BY DEF StartCreating, BasisInv

\* One route less to do.
LEMMA RouteDoneBasis ==
    ASSUME TypeOK, BasisInv, NEW r,
           worker' = [worker EXCEPT !.routesTodo = @ \ {r}]
    PROVE  BasisInv'
<1>1. /\ worker'.pc = worker.pc /\ worker'.settings = worker.settings
      /\ worker'.routesTodo = worker.routesTodo \ {r}
  BY DEF TypeOK, WorkerState
<1> QED
  BY <1>1 DEF BasisInv, HostBelongsToActiveTenant, ActiveHosts

LEMMA BasisStep == TypeOK /\ BasisInv /\ [Next]_vars => BasisInv'
<1> SUFFICES ASSUME TypeOK, BasisInv, [Next]_vars PROVE BasisInv'
  OBVIOUS
<1>0. worker \in WorkerState
  BY DEF TypeOK
<1>1. CASE UNCHANGED worker
  BY <1>1 DEF BasisInv, HostBelongsToActiveTenant, ActiveHosts
<1>2. CASE ReceiveEvent
  BY <1>0, <1>2 DEF ReceiveEvent, BasisInv, WorkerState
<1>3. CASE ReadSettings
  BY <1>3 DEF ReadSettings, BasisInv, HostBelongsToActiveTenant, ActiveHosts
<1>4. CASE DeleteRoute \/ DeleteRouteFails \/ CreateRoute \/ CreateRouteFails
  BY <1>4, RouteDoneBasis
     DEF DeleteRoute, DeleteRouteFails, CreateRoute, CreateRouteFails
<1>5. CASE DeletionDone \/ DeleteRemovedTenants \/ DeleteRemovedTenantsFails
  <2>1. worker'.pc = "purging"
    BY <1>0, <1>5 DEF DeletionDone, DeleteRemovedTenants,
                      DeleteRemovedTenantsFails, WorkerState
  <2> QED
    BY <2>1 DEF BasisInv
<1>6. CASE RefreshSettings \/ RefreshSettingsFails
  BY <1>6, StartCreatingBasis DEF RefreshSettings, RefreshSettingsFails
<1>7. CASE CreationDone \/ ReadSettingsFails \/ Restart
  BY <1>7, IdleBasis DEF CreationDone, ReadSettingsFails, Restart
<1>8. CASE \E c \in Requests : Call(c) \/ RequestStep(c)
  <2>1. PICK c \in Requests : Call(c) \/ RequestStep(c)
    BY <1>8
  <2>2. Call(c) => UNCHANGED worker
    BY DEF Call, Upsert, ChangeTenantStatus, DeleteTenant, DeleteRoutes,
           GetServiceName, RestoreTenantAlias, DeleteMissing, HandlerUnchanged
  <2>3. RequestStep(c) => UNCHANGED worker
    BY DEF RequestStep, DaoSelect, DaoUpdate, DaoInsert, DaoDelete,
           SyncAfterWrite, ChangeStatusOfRow
  <2> QED
    BY <1>1, <2>1, <2>2, <2>3
<1>9. CASE RegisterTenant \/ ForceSync \/ DeliverRouteEvent \/ AutoSyncTick
             \/ UNCHANGED vars
  BY <1>1, <1>9 DEF RegisterTenant, ForceSync, DeliverRouteEvent, AutoSyncTick,
                    vars
<1> QED
  BY <1>2, <1>3, <1>4, <1>5, <1>6, <1>7, <1>8, <1>9
     DEF Next, WorkerStep, WorkerFailure

LEMMA BasisIsKept == Spec => []BasisInv
<1>1. Init => BasisInv
  BY DEF Init, IdleWorker, BasisInv
<1> QED
  BY <1>1, BasisStep, TypeCorrect, PTL DEF Spec

-----------------------------------------------------------------------------
(* The mapping of a step                                                   *)

\* The two modules speak of the same routes and hosts.
LEMMA SameRoutes ==
    ASSUME NEW rows, NEW r \in Route
    PROVE  /\ r \in WantedRoutes(rows) => Abstract!CalledFor(r, rows)
           /\ Abstract!Owned(r, rows) => HostBelongsToActiveTenant(r, rows)
<1>1. r \in WantedRoutes(rows) => Abstract!CalledFor(r, rows)
  BY DEF WantedRoutes, IsActive, Exists, Abstract!CalledFor
<1>2. ASSUME Abstract!Owned(r, rows)
      PROVE  HostBelongsToActiveTenant(r, rows)
  <2>1. PICK t \in Tenants, a \in Addrs :
               Abstract!CalledFor(<<t, a>>, rows) /\ Lower[a] = Lower[r[2]]
    BY <1>2 DEF Abstract!Owned
  <2>2. <<t, a>> \in WantedRoutes(rows)
    BY <2>1 DEF WantedRoutes, Route, IsActive, Exists, Abstract!CalledFor
  <2>3. Host(<<t, a>>) = Host(r)
    BY <2>1 DEF Host
  <2> QED
    BY <2>2, <2>3 DEF HostBelongsToActiveTenant, ActiveHosts
<1> QED
  BY <1>1, <1>2

\* A step that leaves cloud and worker alone and writes one row, or none.
LEMMA WriteRefines ==
    ASSUME UNCHANGED <<routes, worker>>,
           \/ UNCHANGED tenantDns
           \/ \E t \in Tenants, row \in Row \union {None} :
                 tenantDns' = [tenantDns EXCEPT ![t] = row]
    PROVE  [Abstract!Next]_(Abstract!vars)
<1>1. UNCHANGED <<routes, Phase, worker.settings>>
  BY DEF Phase
<1>2. CASE UNCHANGED tenantDns
  BY <1>1, <1>2 DEF Abstract!vars
<1>3. CASE \E t \in Tenants, row \in Row \union {None} :
              tenantDns' = [tenantDns EXCEPT ![t] = row]
  BY <1>1, <1>3 DEF Abstract!Next, Abstract!Change
<1> QED
  BY <1>2, <1>3

\* Requests write one row at most.
LEMMA RequestRefines ==
    ASSUME TypeOK, NEW c \in Requests, Call(c) \/ RequestStep(c)
    PROVE  [Abstract!Next]_(Abstract!vars)
<1>1. CASE Call(c)
  <2>1. UNCHANGED <<tenantDns, routes, worker>>
    BY <1>1 DEF Call, Upsert, ChangeTenantStatus, DeleteTenant, DeleteRoutes,
                GetServiceName, RestoreTenantAlias, DeleteMissing,
                HandlerUnchanged
  <2> QED
    BY <2>1, WriteRefines
<1>2. CASE DaoUpdate(c) \/ DaoInsert(c)
  <2>1. request[c].tenant \in Tenants /\ request[c].row \in Row
    BY <1>2 DEF DaoUpdate, DaoInsert, TypeOK
  <2>2. UNCHANGED <<routes, worker>>
    BY <1>2 DEF DaoUpdate, DaoInsert
  <2>3. \/ UNCHANGED tenantDns
        \/ tenantDns' = [tenantDns EXCEPT ![request[c].tenant] = request[c].row]
    BY <1>2 DEF DaoUpdate, DaoInsert
  <2> QED
    BY <2>1, <2>2, <2>3, WriteRefines
<1>3. CASE DaoDelete(c)
  <2>1. request[c].tenant \in Tenants
    BY <1>3 DEF DaoDelete, TypeOK
  <2>2. /\ UNCHANGED <<routes, worker>>
        /\ tenantDns' = [tenantDns EXCEPT ![request[c].tenant] = None]
    BY <1>3 DEF DaoDelete
  <2> QED
    BY <2>1, <2>2, WriteRefines
<1>4. CASE DaoSelect(c) \/ SyncAfterWrite(c) \/ ChangeStatusOfRow(c)
  <2>1. UNCHANGED <<tenantDns, routes, worker>>
    BY <1>4 DEF DaoSelect, SyncAfterWrite, ChangeStatusOfRow
  <2> QED
    BY <2>1, WriteRefines
<1> QED
  BY <1>1, <1>2, <1>3, <1>4 DEF RequestStep

\* The loops: a route that goes has no owner in the basis, one that comes is
\* called for by it; a step that leaves the cloud alone is a stutter.
LEMMA RouteStepRefines ==
    ASSUME TypeOK, BasisInv,
           DeleteRoute \/ DeleteRouteFails \/ CreateRoute \/ CreateRouteFails
    PROVE  [Abstract!Next]_(Abstract!vars)
<1>1. PICK r \in worker.routesTodo :
             /\ worker' = [worker EXCEPT !.routesTodo = @ \ {r}]
             /\ UNCHANGED tenantDns
             /\ \/ UNCHANGED routes
                \/ /\ worker.pc = "deleting"
                   /\ r \in routes /\ routes' = routes \ {r}
                \/ /\ worker.pc = "creating"
                   /\ r \notin routes /\ routes' = routes \union {r}
  <2>1. CASE DeleteRoute
    BY <2>1 DEF DeleteRoute
  <2>2. CASE DeleteRouteFails
    BY <2>2 DEF DeleteRouteFails
  <2>3. CASE CreateRoute
    BY <2>3 DEF CreateRoute
  <2>4. CASE CreateRouteFails
    BY <2>4 DEF CreateRouteFails
  <2> QED
    BY <2>1, <2>2, <2>3, <2>4
<1>2. r \in Route /\ r \in Tenants \X Addrs
  BY WorkerFields DEF Route
<1>3. /\ worker'.pc = worker.pc /\ worker'.settings = worker.settings
  BY <1>1 DEF TypeOK, WorkerState
<1>4. Phase' = Phase
  BY <1>3 DEF Phase
<1>5. CASE UNCHANGED routes
  BY <1>1, <1>3, <1>4, <1>5 DEF Abstract!vars
<1>6. CASE worker.pc = "deleting" /\ r \in routes /\ routes' = routes \ {r}
  <2>1. ~Abstract!Owned(r, worker.settings)
    BY <1>2, <1>6, SameRoutes DEF BasisInv
  <2>2. Phase = "deleting"
    BY <1>6 DEF Phase
  <2>3. Abstract!Delete(r)
    BY <1>1, <1>3, <1>4, <1>6, <2>1, <2>2 DEF Abstract!Delete
  <2> QED
    BY <1>2, <2>3 DEF Abstract!Next
<1>7. CASE worker.pc = "creating" /\ r \notin routes
             /\ routes' = routes \union {r}
  <2>1. Abstract!CalledFor(r, worker.settings)
    BY <1>2, <1>7, SameRoutes DEF BasisInv
  <2>2. Phase = "creating"
    BY <1>7 DEF Phase
  <2>3. Abstract!Create(r)
    BY <1>1, <1>3, <1>4, <1>7, <2>1, <2>2 DEF Abstract!Create
  <2> QED
    BY <1>2, <2>3 DEF Abstract!Next
<1> QED
  BY <1>1, <1>5, <1>6, <1>7

\* The beginning, the turn and the end of a pass, and a restart in the midst of
\* one; the worker that gives up before it has read, or waits, has not moved.
LEMMA PhaseStepRefines ==
    ASSUME TypeOK, BasisInv,
           \/ ReceiveEvent \/ ReadSettings \/ ReadSettingsFails
           \/ DeletionDone \/ RefreshSettings \/ RefreshSettingsFails
           \/ CreationDone \/ Restart
    PROVE  [Abstract!Next]_(Abstract!vars)
<1>0. worker \in WorkerState /\ UNCHANGED <<tenantDns, routes>>
  BY DEF TypeOK, ReceiveEvent, ReadSettings, ReadSettingsFails, DeletionDone,
         RefreshSettings, RefreshSettingsFails, CreationDone, Restart
<1>1. CASE ReceiveEvent \/ DeletionDone
  <2>1. worker'.settings = worker.settings /\ Phase' = Phase
    BY <1>0, <1>1 DEF ReceiveEvent, DeletionDone, Phase, WorkerState
  <2> QED
    BY <1>0, <2>1 DEF Abstract!vars
<1>2. CASE ReadSettings
  <2>1. Phase = "idle" /\ Phase' = "deleting" /\ worker'.settings = tenantDns
    BY <1>2 DEF ReadSettings, Phase
  <2> QED
    BY <1>0, <2>1 DEF Abstract!Next, Abstract!Begin
<1>3. CASE RefreshSettings \/ RefreshSettingsFails
  <2>1. /\ Phase = "deleting" /\ Phase' = "creating"
        /\ worker'.settings \in {worker.settings, tenantDns}
    BY <1>3 DEF RefreshSettings, RefreshSettingsFails, StartCreating, Phase
  <2> QED
    BY <1>0, <2>1 DEF Abstract!Next, Abstract!Turn
<1>4. CASE ReadSettingsFails \/ CreationDone \/ Restart
  <2>1. worker' = IdleWorker
    BY <1>4 DEF ReadSettingsFails, CreationDone, Restart
  <2>2. Phase' = "idle" /\ worker'.settings = [t \in Tenants |-> None]
    BY <2>1 DEF IdleWorker, Phase
  <2>3. CASE worker.pc \in {"idle", "start"}
    <3>1. Phase = "idle" /\ worker.settings = [t \in Tenants |-> None]
      BY <2>3 DEF Phase, BasisInv
    <3> QED
      BY <1>0, <2>2, <3>1 DEF Abstract!vars
  <2>4. CASE worker.pc \notin {"idle", "start"}
    <3>1. Phase # "idle"
      BY <1>0, <2>4 DEF Phase, WorkerState
    <3> QED
      BY <1>0, <2>2, <3>1 DEF Abstract!Next, Abstract!End, Abstract!NoRows
  <2> QED
    BY <2>3, <2>4
<1> QED
  BY <1>1, <1>2, <1>3, <1>4

\* The purge, in the words of RouteTable a change of a row.
LEMMA PurgeRefines ==
    ASSUME TypeOK, DeleteRemovedTenants \/ DeleteRemovedTenantsFails
    PROVE  [Abstract!Next]_(Abstract!vars)
<1>1. PICK t \in worker.rowsTodo :
             /\ worker' = [worker EXCEPT !.rowsTodo = @ \ {t}]
             /\ \/ UNCHANGED tenantDns
                \/ tenantDns' = [tenantDns EXCEPT ![t] = None]
  BY DEF DeleteRemovedTenants, DeleteRemovedTenantsFails, DeleteIfRemoved
<1>2. t \in Tenants
  BY WorkerFields
<1>3. UNCHANGED <<routes, worker.pc, worker.settings>>
  BY <1>1 DEF TypeOK, WorkerState, DeleteRemovedTenants,
              DeleteRemovedTenantsFails
<1>4. UNCHANGED <<routes, Phase, worker.settings>>
  BY <1>3 DEF Phase
<1> QED
  BY <1>1, <1>2, <1>4 DEF Abstract!vars, Abstract!Next, Abstract!Change

\* The synchronisation implements RouteTable: whatever the cache, the requests
\* and the failures do, each route that a pass deletes or creates is one that
\* the table it read, in that pass, has no owner for or calls for.
THEOREM RouteSyncImplementsRouteTable == Spec => ImplementsRouteTable
<1>1. Init => Abstract!Init
  <2> SUFFICES ASSUME Init PROVE Abstract!Init
    OBVIOUS
  <2>1. /\ tenantDns \in [Tenants -> Row \union {None}]
        /\ routes \subseteq Tenants \X Addrs
    BY BoundAssumption DEF Init, Route
  <2>2. Phase = "idle" /\ worker.settings = [t \in Tenants |-> None]
    BY DEF Init, IdleWorker, Phase
  <2> QED
    BY <2>1, <2>2 DEF Abstract!Init, Abstract!NoRows
<1>2. TypeOK /\ BasisInv /\ [Next]_vars => [Abstract!Next]_(Abstract!vars)
  <2> SUFFICES ASSUME TypeOK, BasisInv, [Next]_vars
               PROVE  [Abstract!Next]_(Abstract!vars)
    OBVIOUS
  <2>1. CASE \E c \in Requests : Call(c) \/ RequestStep(c)
    BY <2>1, RequestRefines
  <2>2. CASE WorkerStep \/ WorkerFailure \/ Restart
    BY <2>2, RouteStepRefines, PhaseStepRefines, PurgeRefines
       DEF WorkerStep, WorkerFailure
  <2>3. CASE RegisterTenant
    <3>1. PICK t \in Tenants : tenantDns' = [tenantDns EXCEPT ![t] =
                 [sites |-> {}, active |-> FALSE, removed |-> FALSE]]
      BY <2>3 DEF RegisterTenant
    <3>2. [sites |-> {}, active |-> FALSE, removed |-> FALSE] \in Row
      BY DEF Row
    <3> QED
      BY <2>3, <3>1, <3>2, WriteRefines DEF RegisterTenant
  <2>4. CASE ForceSync \/ DeliverRouteEvent \/ AutoSyncTick \/ UNCHANGED vars
    BY <2>4, WriteRefines
       DEF ForceSync, DeliverRouteEvent, AutoSyncTick, vars
  <2> QED
    BY <2>1, <2>2, <2>3, <2>4 DEF Next
<1> QED
  BY <1>1, <1>2, TypeCorrect, BasisIsKept, PTL
     DEF Spec, ImplementsRouteTable, Abstract!Spec

=============================================================================
