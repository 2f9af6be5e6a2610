-------------------------------- MODULE Startup --------------------------------
(***************************************************************************)
(* How instances of the service start on one database: RunService in       *)
(* lib/runner.go, migration/utils.go with its three migrations, and the    *)
(* part of synchronizer.New that builds the scheme from the routes of the  *)
(* cloud when the database is new.                                         *)
(*                                                                         *)
(* An instance marks the migrations of the old migrator as applied, takes  *)
(* the lock, runs what is left, lists the cloud, builds the rows of the    *)
(* tenants unless a record in `inits' says that this was done, and serves. *)
(* Several instances may start at a time: replicas, or a rolling update.   *)
(* A panic ends an instance, and the platform starts it again.             *)
(***************************************************************************)
EXTENDS Integers, FiniteSets, Sequences

CONSTANTS
    Instances, Tenants, Hosts,
    Last,           \* number of the last migration
    OldSchemas,     \* how many migrations the old migrator may have applied
    Clouds,         \* tenant routes that may exist at the first start
    MaxFaults,      \* bound: crashes, panics and failed reads
    MaxEdits,       \* bound: rows written by the API
    None            \* "no row", "nobody"

Migration == 1..Last
Route == Tenants \X Hosts

ASSUME StartupAssumption ==
    /\ Last \in Nat /\ OldSchemas \subseteq 0..Last
    /\ Clouds \subseteq SUBSET Route
    /\ MaxFaults \in Nat /\ MaxEdits \in Nat
    /\ None \notin Instances
    /\ \A hosts \in SUBSET Hosts : None # hosts

VARIABLES
    oldSchema,      \* rows of the table of the old migrator
    effects,        \* migrations whose changes are in the schema
    applied,        \* migrations recorded in bun_migrations
    lock,           \* holder of the row in bun_migration_locks
    inits,          \* rows of the table inits
    tenantDns,      \* tenant -> set of hosts of its row, or None
    cloud,          \* the tenant routes of the cloud
    instance,       \* instance -> [pc, todo, routes]
    faults, edits,
    lost,           \* history: a row the API had written was built again
    excused,        \* history: why that may be: a failed read of inits, or an
                    \* instance that read no record before there was one
    blind           \* history: a row or the record was written by an instance
                    \* that had not listed all routes

vars == <<oldSchema, effects, applied, lock, inits, tenantDns, cloud, instance,
          faults, edits, lost, excused, blind>>

Down == [pc |-> "down", todo |-> {}, routes |-> {}]
At(i, pc) == instance[i].pc = pc
Least(n, s) == n \in s /\ \A k \in s : n <= k

Goto(i, pc, todo) ==
    instance' = [instance EXCEPT ![i].pc = pc, ![i].todo = todo]

Fault == faults < MaxFaults /\ faults' = faults + 1

DatabaseUnchanged == UNCHANGED <<oldSchema, effects, applied, inits, tenantDns>>
HistoryUnchanged == UNCHANGED <<edits, lost, excused, blind>>
NoFault == UNCHANGED <<cloud, faults>> /\ HistoryUnchanged

-----------------------------------------------------------------------------
(* RunMigration *)

\* checkExistingMigrations: as many migrations as the old migrator recorded are
\* to be marked, but for those that are.  Nobody holds the lock yet.
CheckExistingMigrations(i) ==
    /\ At(i, "down")
    /\ Goto(i, "mark", 1..oldSchema \ applied)
    /\ DatabaseUnchanged /\ NoFault /\ UNCHANGED lock

\* Any error of the read is taken for a missing table (relationDoesNotExist):
\* what the old migrator did is run once more.
CheckExistingMigrationsFails(i) ==
    /\ At(i, "down")
    /\ Fault
    /\ Goto(i, "mark", {})
    /\ DatabaseUnchanged /\ HistoryUnchanged /\ UNCHANGED <<cloud, lock>>

\* markExistingMigrationsAsApplied, in their order.
MarkExisting(i) ==
    /\ At(i, "mark")
    /\ \E n \in Migration :
         /\ Least(n, instance[i].todo)
         /\ applied' = applied \union {n}
         /\ Goto(i, "mark", instance[i].todo \ {n})
    /\ NoFault
    /\ UNCHANGED <<oldSchema, effects, inits, tenantDns, lock>>

\* Mutant: the lock is not waited for.
LockMigrationsAnyway(i) ==
    /\ At(i, "mark") /\ instance[i].todo = {}
    /\ lock' = i
    /\ Goto(i, "select", {})
    /\ DatabaseUnchanged /\ NoFault

\* The insertion of the lock row waits while the transaction of another
\* instance has inserted it.
LockMigrations(i) ==
    /\ At(i, "mark") /\ instance[i].todo = {}
    /\ lock = None
    /\ lock' = i
    /\ Goto(i, "select", {})
    /\ DatabaseUnchanged /\ NoFault

\* Migrate reads what is applied under the lock.
SelectMigrations(i) ==
    /\ At(i, "select")
    /\ Goto(i, "migrate", Migration \ applied)
    /\ DatabaseUnchanged /\ NoFault /\ UNCHANGED lock

\* Mutant: the migration is recorded before it has run.
MigrateMarked(i) ==
    /\ At(i, "migrate")
    /\ \E n \in Migration : /\ Least(n, instance[i].todo)
                            /\ applied' = applied \union {n}
    /\ Goto(i, "migrated", instance[i].todo)
    /\ NoFault
    /\ UNCHANGED <<oldSchema, effects, inits, tenantDns, lock>>

\* One migration commits its changes, which are the same when it runs again, ...
Migrate(i) ==
    /\ At(i, "migrate")
    /\ \E n \in Migration : /\ Least(n, instance[i].todo)
                            /\ effects' = effects \union {n}
    /\ Goto(i, "migrated", instance[i].todo)
    /\ NoFault
    /\ UNCHANGED <<oldSchema, applied, inits, tenantDns, lock>>

\* ... and is recorded after that.
MarkApplied(i) ==
    /\ At(i, "migrated")
    /\ \E n \in Migration :
         /\ Least(n, instance[i].todo)
         /\ applied' = applied \union {n}
         /\ Goto(i, "migrate", instance[i].todo \ {n})
    /\ NoFault
    /\ UNCHANGED <<oldSchema, effects, inits, tenantDns, lock>>

\* Mutant: the transaction of the lock is left open.
UnlockNever(i) ==
    /\ At(i, "migrate") /\ instance[i].todo = {}
    /\ Goto(i, "list", {})
    /\ DatabaseUnchanged /\ NoFault /\ UNCHANGED lock

\* The deferred rollback takes the lock row away again.
Unlock(i) ==
    /\ At(i, "migrate") /\ instance[i].todo = {}
    /\ lock' = None
    /\ Goto(i, "list", {})
    /\ DatabaseUnchanged /\ NoFault

-----------------------------------------------------------------------------
(* NewClient and buildSchemeIfRequired *)

\* initCompositeCache lists the routes; nothing updates them before New is done.
InitCompositeCache(i) ==
    /\ At(i, "list")
    /\ instance' = [instance EXCEPT ![i].pc = "init", ![i].routes = cloud]
    /\ DatabaseUnchanged /\ NoFault /\ UNCHANGED lock

\* performRequestWithRetry reports no error when the attempts are used up, so
\* that the list stays empty; routes, HTTP routes and GRPC routes are listed one
\* after the other, and some of the lists may fail.  The start goes on.
InitCompositeCacheFails(i) ==
    /\ At(i, "list")
    /\ Fault
    /\ \E listed \in SUBSET cloud :
         instance' = [instance EXCEPT ![i].pc = "init", ![i].routes = listed]
    /\ DatabaseUnchanged /\ HistoryUnchanged /\ UNCHANGED <<cloud, lock>>

\* Whether what i builds is of less than all routes.
SeesLess(i) == instance[i].routes # cloud

\* FromRoutes: the tenants of the routes, and the row of each, active.
FromRoutes(routes) == {r[1] : r \in routes}
BuiltRow(routes, t) == {h \in Hosts : <<t, h>> \in routes}

\* Mutant: the record is not looked at.
FindInitInformationNone(i) ==
    /\ At(i, "init")
    /\ Goto(i, "build", FromRoutes(instance[i].routes))
    /\ DatabaseUnchanged /\ NoFault /\ UNCHANGED lock

FindInitInformation(i) ==
    /\ At(i, "init")
    /\ IF inits > 0 THEN Goto(i, "serve", {})
       ELSE Goto(i, "build", FromRoutes(instance[i].routes))
    /\ DatabaseUnchanged /\ NoFault /\ UNCHANGED lock

\* Any error of the read is taken for a missing record.
FindInitInformationFails(i) ==
    /\ At(i, "init")
    /\ Fault
    /\ Goto(i, "build", FromRoutes(instance[i].routes))
    /\ excused' = TRUE
    /\ DatabaseUnchanged
    /\ UNCHANGED <<cloud, lock, edits, lost, blind>>

\* Upsert of the tenants one by one, over whatever row there is.
UpsertBuilt(i) ==
    /\ At(i, "build")
    /\ \E t \in instance[i].todo :
         /\ tenantDns' = [tenantDns EXCEPT ![t] =
                             BuiltRow(instance[i].routes, t)]
         /\ Goto(i, "build", instance[i].todo \ {t})
         /\ lost' = (lost \/ (edits > 0 /\ tenantDns'[t] # tenantDns[t]))
    /\ blind' = (blind \/ SeesLess(i))
    /\ UNCHANGED <<oldSchema, effects, applied, inits, lock, cloud, faults,
                   edits, excused>>

\* Mutant: the record is written first.
SetInitInformationFirst(i) ==
    /\ At(i, "build")
    /\ inits' = inits + 1
    /\ Goto(i, "serve", {})
    /\ blind' = (blind \/ SeesLess(i))
    /\ UNCHANGED <<oldSchema, effects, applied, tenantDns, lock, cloud, faults,
                   edits, lost, excused>>

\* A record is inserted, by every instance that has built the scheme.
SetInitInformation(i) ==
    /\ At(i, "build") /\ instance[i].todo = {}
    /\ inits' = inits + 1
    /\ Goto(i, "serve", {})
    /\ excused' = (excused \/ \E k \in Instances \ {i} : At(k, "build"))
    /\ blind' = (blind \/ SeesLess(i))
    /\ UNCHANGED <<oldSchema, effects, applied, tenantDns, lock, cloud, faults,
                   edits, lost>>

-----------------------------------------------------------------------------
(* An instance that serves *)

\* A request writes a row, on an instance that serves.
Edit(t, hosts) ==
    /\ \E i \in Instances : At(i, "serve")
    /\ edits < MaxEdits
    /\ edits' = edits + 1
    /\ tenantDns' = [tenantDns EXCEPT ![t] = hosts]
    /\ UNCHANGED <<oldSchema, effects, applied, lock, inits, cloud, instance,
                   faults, lost, excused, blind>>

Wanted == {r \in Route : tenantDns[r[1]] # None /\ r[2] \in tenantDns[r[1]]}

\* A pass, the first one right after New: what it does not find in its cache,
\* after a failed listing or before the event comes, it does not take away.
\* RouteSync has its steps.
Synchronize(i) ==
    /\ At(i, "serve")
    /\ \E found \in SUBSET cloud : cloud' = Wanted \union (cloud \ found)
    /\ DatabaseUnchanged /\ HistoryUnchanged
    /\ UNCHANGED <<lock, instance, faults>>

\* A panic of a failed step, or the end of the process; its transaction is
\* rolled back, and the lock with it.
Crash(i) ==
    /\ ~At(i, "down")
    /\ Fault
    /\ instance' = [instance EXCEPT ![i] = Down]
    /\ lock' = IF lock = i THEN None ELSE lock
    /\ DatabaseUnchanged /\ HistoryUnchanged
    /\ UNCHANGED cloud

StartStep(i) ==
    \/ CheckExistingMigrations(i) \/ MarkExisting(i) \/ LockMigrations(i)
    \/ SelectMigrations(i) \/ Migrate(i) \/ MarkApplied(i) \/ Unlock(i)
    \/ InitCompositeCache(i) \/ FindInitInformation(i) \/ UpsertBuilt(i)
    \/ SetInitInformation(i)

Init ==
    /\ oldSchema \in OldSchemas
    /\ effects = 1..oldSchema
    /\ applied = {}
    /\ lock = None
    /\ inits = 0
    /\ tenantDns = [t \in Tenants |-> None]
    /\ cloud \in Clouds
    /\ instance = [i \in Instances |-> Down]
    /\ faults = 0 /\ edits = 0
    /\ lost = FALSE /\ excused = FALSE /\ blind = FALSE

Next ==
    \/ \E i \in Instances : \/ StartStep(i) \/ CheckExistingMigrationsFails(i)
                            \/ InitCompositeCacheFails(i)
                            \/ FindInitInformationFails(i)
                            \/ Synchronize(i) \/ Crash(i)
    \/ \E t \in Tenants, hosts \in SUBSET Hosts : Edit(t, hosts)

\* The steps of a start are taken; a crashed instance is started again.
Spec == Init /\ [][Next]_vars /\ \A i \in Instances : WF_vars(StartStep(i))

-----------------------------------------------------------------------------
(* Properties *)

StartPc == {"down", "mark", "select", "migrate", "migrated", "list", "init",
            "build", "serve"}
Migrating(i) == instance[i].pc \in {"select", "migrate", "migrated"}
Migrated(i) == instance[i].pc \in {"list", "init", "build", "serve"}

\* The types; an instance between selecting and recording migrations holds the
\* lock, so there is one at most.
TypeOK ==
    /\ oldSchema \in OldSchemas
    /\ effects \subseteq Migration /\ applied \subseteq Migration
    /\ lock \in Instances \union {None} /\ inits \in Nat
    /\ tenantDns \in [Tenants -> {None} \union SUBSET Hosts]
    /\ cloud \subseteq Route
    /\ instance \in [Instances -> [pc : StartPc,
                                   todo : SUBSET (Migration \union Tenants),
                                   routes : SUBSET Route]]
    /\ faults \in 0..MaxFaults /\ edits \in 0..MaxEdits
    /\ lost \in BOOLEAN /\ excused \in BOOLEAN /\ blind \in BOOLEAN
    /\ \A i \in Instances : Migrating(i) <=> lock = i

\* Whatever the old migrator had done, however often instances crash between a
\* migration and its record and however they overlap: what is recorded is in
\* the schema, and an instance uses the tables with all migrations in it.
SchemaReady ==
    /\ applied \subseteq effects
    /\ \A i \in Instances : Migrated(i) => effects = Migration

\* Until a tenant is changed through the API, no start and no sync pass takes a
\* route away, whoever serves and however many build at a time: the rows that
\* are built want the routes they were built from, and no instance serves before
\* all of them are written.  Only an instance whose listing of the cloud failed
\* undoes this, when it writes a row or the record of the first scheme; one that
\* fails to list and finds the record, or ends before it writes, does not.
RoutesSurviveStart ==
    [][edits = 0 /\ ~blind => cloud \subseteq cloud']_vars

\* A row that the API has written is built again from routes only after a
\* failed read of the record, or if two instances built the first scheme at
\* the same time.
EditsSurviveStart == lost => excused

\* In the end the instances serve, and keep on serving.
EventuallyServing == \A i \in Instances : <>[]At(i, "serve")
===============================================================================
