------------------------------ MODULE TenantFeed ------------------------------
(***************************************************************************)
(* How the service follows tenant-manager: tm/client.go, tm/watch.go and   *)
(* the composite mode of synchronizer/synchronizer.go.                     *)
(*                                                                         *)
(* The `watcher' goroutine holds a websocket subscription, connects again  *)
(* when it is lost, and runs the callbacks on each event, in order: in a   *)
(* composite satellite SyncTenantsWithTM writes tenant rows, then          *)
(* ActualizeActiveTenantsCache keeps the active tenants.  Meanwhile the    *)
(* `loader' (syncAllTenantsFromTM, in New) brings the rows in line with a  *)
(* list of all tenants, and sync passes purge the rows marked as removed.  *)
(* A row is written by a SELECT and then an UPDATE or an INSERT, with no    *)
(* transaction around them, so that the three can come between each other. *)
(***************************************************************************)
EXTENDS Integers, FiniteSets, Sequences, SequencesExt

CONSTANTS
    Tenants,        \* tenants tenant-manager has or may get
    Satellite,      \* composite satellite mode
    Managers,       \* what tenant-manager may know when the process starts
    Tables,         \* and what the rows of its last run may be
    MaxChanges,     \* bound: changes of tenants
    MaxBreaks,      \* bound: lost connections
    MaxFaults,      \* bound: database failures
    None            \* "no row", "no event"

Status == {"CREATED", "ACTIVE", "SUSPENDED"}

\* TenantDns: what the feed decides about a row; its addresses are left out.
Row == [active : BOOLEAN, removed : BOOLEAN]

EntryType == [id : Tenants, status : Status]
EventType == [type : {"SUBSCRIBED", "CREATED", "MODIFIED", "DELETED"},
              tenants : Seq(EntryType) \ {<<>>}]

\* The two that write rows, and a write under way: has the SELECT of dao.Upsert
\* been answered, and did it find the row?
Writers == {"watcher", "loader"}
Writing == [id : Tenants, row : Row, found : {"unasked", "yes", "no"}]

ASSUME FeedAssumption ==
    /\ IsFiniteSet(Tenants)
    /\ Satellite \in BOOLEAN
    /\ MaxChanges \in Nat /\ MaxBreaks \in Nat /\ MaxFaults \in Nat
    /\ None \notin Row /\ None \notin EventType /\ None \notin Writing
    /\ Managers \subseteq [Tenants -> Status \union {"unknown"}]
    /\ Tables \subseteq [Tenants -> Row \union {None}]

VARIABLES
    manager,        \* tenant-manager: tenant -> status, "unknown" or "deleted"
    open,           \* the server has a subscription of the watcher
    frames,         \* the frames of that subscription not yet received
    watcher,        \* [pc, event, todo] of the watching goroutine
    loader,         \* [pc, list, todo] of syncAllTenantsFromTM
    activeTenants,  \* activeTenantsCache
    tenantDns,      \* the table: tenant -> row or None
    writing,        \* writer -> the write under way or None
    changes, breaks, faults,
    gone,           \* history: tenants whose DELETED event nobody received
    behind          \* history: tenants whose row a lost event, a failure, a
                    \* late step of the loader or a write that did not
                    \* land has left wrong

vars == <<manager, open, frames, watcher, loader, activeTenants, tenantDns,
          writing, changes, breaks, faults, gone, behind>>

Known(t) == manager[t] \in Status
Entry(t) == [id |-> t, status |-> manager[t]]
Event(type, tenants) == [type |-> type, tenants |-> tenants]

IdleWatcher(pc) == [pc |-> pc, event |-> None, todo |-> <<>>]
Ids(tenants) == {tenants[i].id : i \in DOMAIN tenants}

\* The row says of a tenant what tenant-manager does.
RowAgrees(rows, t) ==
    IF Known(t)
    THEN rows[t] = [active |-> manager[t] = "ACTIVE", removed |-> FALSE]
    ELSE rows[t] = None \/ rows[t].removed

Fail == faults < MaxFaults /\ faults' = faults + 1

-----------------------------------------------------------------------------
(* Tenant-manager *)

\* What a tenant becomes, and the event that tells of it.
Transition == {<<"unknown", "CREATED", "CREATED">>,
               <<"CREATED", "ACTIVE", "MODIFIED">>,
               <<"ACTIVE", "SUSPENDED", "MODIFIED">>,
               <<"SUSPENDED", "ACTIVE", "MODIFIED">>}
              \union {<<s, "deleted", "DELETED">> : s \in Status}

Change(t) ==
    /\ changes < MaxChanges
    /\ changes' = changes + 1
    /\ \E step \in Transition :
         /\ manager[t] = step[1]
         /\ manager' = [manager EXCEPT ![t] = step[2]]
         /\ LET entry == [id |-> t, status |-> IF step[2] = "deleted"
                                               THEN step[1] ELSE step[2]] IN
              frames' = IF open THEN Append(frames, Event(step[3], <<entry>>))
                        ELSE frames
         /\ gone' = IF step[3] = "DELETED" /\ ~open THEN gone \union {t}
                    ELSE gone
    /\ behind' = IF open THEN behind ELSE behind \union {t}
    /\ UNCHANGED <<open, watcher, loader, activeTenants, tenantDns, writing,
                   breaks, faults>>

\* The connection is lost with the frames on it.
Break ==
    LET lost == UNION {Ids(frames[i].tenants) : i \in DOMAIN frames}
        deleted == {i \in DOMAIN frames : frames[i].type = "DELETED"} IN
    /\ open /\ breaks < MaxBreaks
    /\ breaks' = breaks + 1
    /\ open' = FALSE
    /\ frames' = <<>>
    /\ gone' = gone \union UNION {Ids(frames[i].tenants) : i \in deleted}
    /\ behind' = behind \union lost
    /\ UNCHANGED <<manager, watcher, loader, activeTenants, tenantDns, writing,
                   changes, faults>>

-----------------------------------------------------------------------------
(* StartWatching *)

\* The timer of New fires: the callbacks are registered, the goroutine starts.
StartWatching ==
    /\ watcher.pc = "off"
    /\ watcher' = IdleWatcher("connecting")
    /\ UNCHANGED <<manager, open, frames, loader, activeTenants, tenantDns,
                   writing, changes, breaks, faults, gone, behind>>

\* A new subscription is told all tenants, in any order; an event without
\* tenants is skipped.  Attempts that fail are repeated.
ConnectAndSubscribe ==
    /\ watcher.pc = "connecting"
    /\ watcher' = IdleWatcher("reading")
    /\ open' = TRUE
    /\ LET known == {t \in Tenants : Known(t)} IN
         \E order \in SetToSeqs(known) :
            frames' = IF known = {} THEN <<>>
                      ELSE <<Event("SUBSCRIBED",
                                   [i \in DOMAIN order |-> Entry(order[i])])>>
    /\ UNCHANGED <<manager, loader, activeTenants, tenantDns, writing, changes,
                   breaks, faults, gone, behind>>

\* Mutant: a closed channel is read again and again.
NoticeCloseNever == UNCHANGED vars

\* The channel is closed: disconnect, sleep, and connect again.
NoticeClose ==
    /\ watcher.pc = "reading" /\ ~open
    /\ watcher' = IdleWatcher("connecting")
    /\ UNCHANGED <<manager, open, frames, loader, activeTenants, tenantDns,
                   writing, changes, breaks, faults, gone, behind>>

ReceiveFrame ==
    /\ watcher.pc = "reading"
    /\ frames # <<>>
    /\ frames' = Tail(frames)
    /\ watcher' = [pc |-> IF Satellite THEN "rows" ELSE "cache",
                   event |-> Head(frames), todo |-> Head(frames).tenants]
    /\ UNCHANGED <<manager, open, loader, activeTenants, tenantDns, writing,
                   changes, breaks, faults, gone, behind>>

-----------------------------------------------------------------------------
(* Writing a row: upsertTenantFromTM and DeleteTenant, down to dao.Upsert *)

Exists(t) == tenantDns[t] # None

\* dao.Upsert begins with a SELECT.
Asked(t, row) == [id |-> t, row |-> row,
                  found |-> IF Exists(t) THEN "yes" ELSE "no"]

\* upsertTenantFromTM: the row as the event or the list has the tenant.
RowOf(entry) == [active |-> entry.status = "ACTIVE", removed |-> FALSE]
UpsertTenantFromTM(writer, entry) ==
    writing' = [writing EXCEPT ![writer] = Asked(entry.id, RowOf(entry))]

\* DeleteTenant of a row that FindByTenantId found: it is to be marked.
DeleteTenant(writer, t) ==
    writing' = [writing EXCEPT ![writer] =
        [id |-> t, row |-> [tenantDns[t] EXCEPT !.removed = TRUE],
         found |-> "unasked"]]

Select(writer) ==
    LET w == writing[writer] IN
    /\ w # None /\ w.found = "unasked"
    /\ writing' = [writing EXCEPT ![writer] = Asked(w.id, w.row)]
    /\ UNCHANGED <<manager, open, frames, watcher, loader, activeTenants,
                   tenantDns, changes, breaks, faults, gone, behind>>

Due(writer) == writing[writer] # None /\ writing[writer].found # "unasked"
Ended(writer) == writing' = [writing EXCEPT ![writer] = None]

\* An INSERT of a row that has appeared since the SELECT is an error; an UPDATE
\* of a row that is gone since is none, and writes nothing.
Refused(w) == w.found = "no" /\ Exists(w.id)
Lost(w) == w.found = "yes" /\ ~Exists(w.id)
Written(w) == IF Refused(w) \/ Lost(w) THEN tenantDns
              ELSE [tenantDns EXCEPT ![w.id] = w.row]

\* The write has left the row as it should be, or the tenant is behind.
Judge(t) == behind' = IF RowAgrees(tenantDns', t) THEN behind
                      ELSE behind \union {t}

-----------------------------------------------------------------------------
(* SyncTenantsWithTM *)

CallbackDone == watcher' = [watcher EXCEPT !.pc = "cache", !.todo = <<>>]

\* Mutant: the tenants of the event are kept when the callback ends.
TenantDoneKeeps == watcher' = [watcher EXCEPT !.pc = "cache"]

\* One tenant of the event after the other, if they are deleted; of any other
\* event the loop returns with the first.
TenantDone ==
    IF watcher.event.type = "DELETED" /\ Len(watcher.todo) > 1
    THEN watcher' = [watcher EXCEPT !.todo = Tail(@)]
    ELSE CallbackDone

\* What the watcher writes repairs the row, unless tenant-manager has changed
\* the tenant since and the event of that was lost.
Repair(t) == behind' = IF RowAgrees(tenantDns', t) THEN behind \ {t} ELSE behind

SyncDeleted ==
    LET t == Head(watcher.todo).id IN
    /\ watcher.pc = "rows" /\ watcher.event.type = "DELETED"
    /\ writing["watcher"] = None /\ Exists(t)
    /\ DeleteTenant("watcher", t)
    /\ UNCHANGED <<manager, open, frames, watcher, loader, activeTenants,
                   tenantDns, changes, breaks, faults, gone, behind>>

\* There is nothing to delete.
SyncDeletedNone ==
    LET t == Head(watcher.todo).id IN
    /\ watcher.pc = "rows" /\ watcher.event.type = "DELETED"
    /\ writing["watcher"] = None /\ ~Exists(t)
    /\ TenantDone
    /\ UNCHANGED tenantDns
    /\ Repair(t)
    /\ UNCHANGED <<manager, open, frames, loader, activeTenants, writing,
                   changes, breaks, faults, gone>>

SyncFirst ==
    /\ watcher.pc = "rows" /\ watcher.event.type # "DELETED"
    /\ writing["watcher"] = None
    /\ UpsertTenantFromTM("watcher", Head(watcher.todo))
    /\ UNCHANGED <<manager, open, frames, watcher, loader, activeTenants,
                   tenantDns, changes, breaks, faults, gone, behind>>

SyncWrites ==
    LET w == writing["watcher"] IN
    /\ Due("watcher") /\ ~Refused(w)
    /\ tenantDns' = Written(w)
    /\ IF Lost(w) THEN Judge(w.id) ELSE Repair(w.id)
    /\ TenantDone
    /\ Ended("watcher")
    /\ UNCHANGED <<manager, open, frames, loader, activeTenants, changes,
                   breaks, faults, gone>>

\* A failure ends the callback and is logged.
SyncEnds ==
    /\ watcher.pc = "rows"
    /\ CallbackDone
    /\ Ended("watcher")
    /\ behind' = behind \union Ids(watcher.todo)
    /\ UNCHANGED <<manager, open, frames, loader, activeTenants, tenantDns,
                   changes, breaks, gone>>

SyncRefused ==
    /\ Due("watcher") /\ Refused(writing["watcher"])
    /\ SyncEnds
    /\ UNCHANGED faults

SyncFails == Fail /\ SyncEnds

-----------------------------------------------------------------------------
(* ActualizeActiveTenantsCache *)

\* Mutant: a suspended tenant stays in the cache.
UpdatedActiveTenantsKeep(tenants) ==
    activeTenants \union {e.id : e \in {f \in ToSet(tenants) :
                                          f.status = "ACTIVE"}}

\* UpdateActiveTenantsCache: other statuses than these two are passed over.
UpdatedActiveTenants(tenants) ==
    {t \in Tenants :
        \/ \E e \in ToSet(tenants) : e = [id |-> t, status |-> "ACTIVE"]
        \/ /\ t \in activeTenants
           /\ [id |-> t, status |-> "SUSPENDED"] \notin ToSet(tenants)}

ActualizeActiveTenantsCache ==
    LET event == watcher.event IN
    /\ watcher.pc = "cache"
    /\ activeTenants' =
         CASE event.type \in {"MODIFIED", "SUBSCRIBED"} ->
                UpdatedActiveTenants(event.tenants)
           [] event.type = "DELETED" -> activeTenants \ Ids(event.tenants)
           [] event.type = "CREATED" -> activeTenants
    /\ watcher' = IdleWatcher("reading")
    /\ UNCHANGED <<manager, open, frames, loader, tenantDns, writing, changes,
                   breaks, faults, gone, behind>>

WatcherStep ==
    \/ StartWatching \/ ConnectAndSubscribe \/ NoticeClose \/ ReceiveFrame
    \/ SyncDeleted \/ SyncDeletedNone \/ SyncFirst \/ Select("watcher")
    \/ SyncWrites \/ SyncRefused \/ ActualizeActiveTenantsCache

-----------------------------------------------------------------------------
(* syncAllTenantsFromTM *)

\* GetAllTenantsByStatus; an error only repeats it.
ListTenants ==
    /\ loader.pc = "list"
    /\ LET list == {Entry(t) : t \in {u \in Tenants : Known(u)}} IN
         loader' = [pc |-> "upsert", list |-> list, todo |-> list]
    /\ UNCHANGED <<manager, open, frames, watcher, activeTenants, tenantDns,
                   writing, changes, breaks, faults, gone, behind>>

\* One tenant after the other, in any order.
UpsertListed ==
    /\ loader.pc = "upsert" /\ writing["loader"] = None
    /\ \E entry \in loader.todo : UpsertTenantFromTM("loader", entry)
    /\ UNCHANGED <<manager, open, frames, watcher, loader, activeTenants,
                   tenantDns, changes, breaks, faults, gone, behind>>

\* What is left to do without a tenant.
Without(t) == IF loader.pc = "upsert" THEN {e \in loader.todo : e.id # t}
              ELSE loader.todo \ {t}

\* What the loader writes may be older than what the watcher wrote; an error is
\* logged, and the next tenant taken.
LoaderWrites ==
    LET w == writing["loader"] IN
    /\ Due("loader")
    /\ tenantDns' = Written(w)
    /\ Judge(w.id)
    /\ loader' = [loader EXCEPT !.todo = Without(w.id)]
    /\ Ended("loader")
    /\ UNCHANGED <<manager, open, frames, watcher, activeTenants, changes,
                   breaks, faults, gone>>

\* A failure, whether the write has begun or not: the `continue' of the inner
\* loop passes the tenant over.
WriteFails(t) ==
    /\ writing["loader"] # None => writing["loader"].id = t
    /\ behind' = behind \union {t}
    /\ loader' = [loader EXCEPT !.todo = Without(t)]
    /\ Ended("loader")
    /\ UNCHANGED <<manager, open, frames, watcher, activeTenants, tenantDns,
                   changes, breaks, gone>>

UpsertListedFails ==
    /\ loader.pc = "upsert"
    /\ Fail
    /\ \E entry \in loader.todo : WriteFails(entry.id)

Listed(t) == \E entry \in loader.list : entry.id = t

\* Mutant: the rows that are not in the list stay.
FindAllNone ==
    /\ loader.pc = "upsert" /\ loader.todo = {}
    /\ loader' = [loader EXCEPT !.pc = "delete", !.todo = {}]
    /\ UNCHANGED <<manager, open, frames, watcher, activeTenants, tenantDns,
                   writing, changes, breaks, faults, gone, behind>>

\* FindAll: the rows to delete are those whose tenant was not in the list.
FindAll ==
    /\ loader.pc = "upsert" /\ loader.todo = {}
    /\ loader' = [loader EXCEPT !.pc = "delete",
                    !.todo = {t \in Tenants : Exists(t) /\ ~Listed(t)}]
    /\ UNCHANGED <<manager, open, frames, watcher, activeTenants, tenantDns,
                   writing, changes, breaks, faults, gone, behind>>

\* The `continue' of the outer loop starts all over.
FindAllFails ==
    /\ loader.pc = "upsert" /\ loader.todo = {}
    /\ Fail
    /\ loader' = [pc |-> "list", list |-> {}, todo |-> {}]
    /\ UNCHANGED <<manager, open, frames, watcher, activeTenants, tenantDns,
                   writing, changes, breaks, gone, behind>>

DeleteUnlisted ==
    /\ loader.pc = "delete" /\ writing["loader"] = None
    /\ \E t \in loader.todo : Exists(t) /\ DeleteTenant("loader", t)
    /\ UNCHANGED <<manager, open, frames, watcher, loader, activeTenants,
                   tenantDns, changes, breaks, faults, gone, behind>>

\* The row is gone since FindAll.
DeleteUnlistedNone ==
    /\ loader.pc = "delete" /\ writing["loader"] = None
    /\ \E t \in loader.todo :
         /\ ~Exists(t)
         /\ loader' = [loader EXCEPT !.todo = Without(t)]
         /\ UNCHANGED tenantDns
         /\ Judge(t)
    /\ UNCHANGED <<manager, open, frames, watcher, activeTenants, writing,
                   changes, breaks, faults, gone>>

DeleteUnlistedFails ==
    /\ loader.pc = "delete"
    /\ Fail
    /\ \E t \in loader.todo : WriteFails(t)

LoadingDone ==
    /\ loader.pc = "delete" /\ loader.todo = {}
    /\ loader' = [pc |-> "done", list |-> {}, todo |-> {}]
    /\ UNCHANGED <<manager, open, frames, watcher, activeTenants, tenantDns,
                   writing, changes, breaks, faults, gone, behind>>

LoaderStep ==
    \/ ListTenants \/ UpsertListed \/ FindAll \/ DeleteUnlisted
    \/ DeleteUnlistedNone \/ Select("loader") \/ LoaderWrites \/ LoadingDone

\* A sync pass takes a row that is marked.
PurgeRemoved ==
    /\ \E t \in Tenants : /\ Exists(t) /\ tenantDns[t].removed
                          /\ tenantDns' = [tenantDns EXCEPT ![t] = None]
    /\ UNCHANGED <<manager, open, frames, watcher, loader, activeTenants,
                   writing, changes, breaks, faults, gone, behind>>

-----------------------------------------------------------------------------
\* The process starts on the rows of its last run.
Init ==
    /\ manager \in Managers
    /\ open = FALSE
    /\ frames = <<>>
    /\ watcher = IdleWatcher("off")
    /\ loader = [pc |-> IF Satellite THEN "list" ELSE "done", list |-> {},
                 todo |-> {}]
    /\ activeTenants = {}
    /\ tenantDns \in Tables
    /\ writing = [writer \in Writers |-> None]
    /\ changes = 0 /\ breaks = 0 /\ faults = 0
    /\ gone = {}
    /\ behind = {}

Next ==
    \/ \E t \in Tenants : Change(t)
    \/ Break
    \/ WatcherStep \/ SyncFails
    \/ LoaderStep \/ UpsertListedFails \/ FindAllFails \/ DeleteUnlistedFails
    \/ PurgeRemoved

\* The goroutines run, and a connection succeeds in the end.
Spec == Init /\ [][Next]_vars /\ WF_vars(WatcherStep) /\ WF_vars(LoaderStep)

-----------------------------------------------------------------------------
(* Properties *)

\* The row the watcher writes is what its event says, and the loader has the
\* tenant still to do.
WatcherWriting(w) ==
    LET entry == Head(watcher.todo) IN
    /\ watcher.pc = "rows" /\ w.id = entry.id
    /\ IF watcher.event.type = "DELETED" THEN w.row.removed
       ELSE w.row = RowOf(entry)
LoaderWriting(t) == \/ loader.pc = "upsert" /\ \E e \in loader.todo : e.id = t
                    \/ loader.pc = "delete" /\ t \in loader.todo

\* The types; frames belong to an open subscription, which a watcher that is
\* about to connect has not; the watcher has an event exactly while it runs the
\* callbacks, and tenants to write exactly while it is in SyncTenantsWithTM; a
\* write under way is of the tenant its writer is at.
TypeOK ==
    /\ manager \in [Tenants -> Status \union {"unknown", "deleted"}]
    /\ open \in BOOLEAN
    /\ frames \in Seq(EventType) /\ (~open => frames = <<>>)
    /\ watcher \in [pc : {"off", "connecting", "reading", "rows", "cache"},
                    event : EventType \union {None}, todo : Seq(EntryType)]
    /\ watcher.pc \in {"off", "connecting"} => ~open
    /\ watcher.pc \in {"rows", "cache"} <=> watcher.event \in EventType
    /\ Satellite => (watcher.pc = "rows" <=> watcher.todo # <<>>)
    /\ watcher.pc = "rows" => Satellite
    /\ loader \in [pc : {"list", "upsert", "delete", "done"},
                   list : SUBSET EntryType, todo : SUBSET (EntryType \union Tenants)]
    /\ loader.pc = "upsert" => loader.todo \subseteq EntryType
    /\ loader.pc = "delete" => loader.todo \subseteq Tenants
    /\ activeTenants \subseteq Tenants
    /\ tenantDns \in [Tenants -> Row \union {None}]
    /\ writing \in [Writers -> Writing \union {None}]
    /\ writing["watcher"] # None => WatcherWriting(writing["watcher"])
    /\ writing["loader"] # None => LoaderWriting(writing["loader"].id)
    /\ changes \in 0..MaxChanges /\ breaks \in 0..MaxBreaks
    /\ faults \in 0..MaxFaults
    /\ gone \subseteq Tenants /\ behind \subseteq Tenants

\* All tenant-manager has sent has been processed, and nothing was lost since.
CaughtUp == open /\ frames = <<>> /\ watcher.pc = "reading"

\* A watcher that has caught up knows every active tenant, whatever happened
\* while it was disconnected or not yet started; it takes for active only
\* those and the tenants that were deleted while nobody listened.
ActiveTenantsFollow ==
    CaughtUp => \A t \in Tenants :
        /\ manager[t] = "ACTIVE" => t \in activeTenants
        /\ t \in activeTenants => manager[t] = "ACTIVE" \/ t \in gone

\* When loader and watcher have no more to do, the rows say what tenant-manager
\* says, whatever the table was at the start and however their reads and writes
\* and the purge of the passes were interleaved.  The excuses: an event that was
\* lost, as a new subscription repairs one tenant at most; a write that failed;
\* a write of the loader that was out of date when it was made; a write that did
\* not land, as the row went or came between the SELECT and the write of Upsert.
RowsFollow ==
    Satellite /\ CaughtUp /\ loader.pc = "done" =>
        \A t \in Tenants \ behind : RowAgrees(tenantDns, t)

\* Lost connections do not stop the feed: in the end it has caught up for good.
EventuallyCaughtUp == <>[]CaughtUp
===============================================================================
