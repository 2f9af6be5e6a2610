---------------------------- MODULE StartupProofs ----------------------------
(* Theorems about Startup, for every number of instances and migrations,    *)
(* every state of the old schema, and every bound.                          *)
EXTENDS Startup, TLAPS

\* What each point of a start owes to SchemaReady.
StartInv ==
    /\ 1..oldSchema \subseteq effects
    /\ SchemaReady
    /\ \A i \in Instances :
         /\ At(i, "mark") => instance[i].todo \subseteq 1..oldSchema
         /\ instance[i].pc \in {"migrate", "migrated"}
              => /\ instance[i].todo \subseteq Migration
                 /\ Migration \subseteq applied \union instance[i].todo
         /\ At(i, "migrated")
              => \A n \in Migration : Least(n, instance[i].todo) => n \in effects

-----------------------------------------------------------------------------
(* Types                                                                   *)

State == [pc : StartPc, todo : SUBSET (Migration \union Tenants),
          routes : SUBSET Route]

\* What Goto does to the instances.
LEMMA GotoType ==
    ASSUME TypeOK, NEW i \in Instances, NEW pc \in StartPc,
           NEW todo \in SUBSET (Migration \union Tenants), Goto(i, pc, todo)
    PROVE  /\ instance' \in [Instances -> State]
           /\ instance'[i].pc = pc /\ instance'[i].todo = todo
           /\ instance'[i].routes = instance[i].routes
           /\ \A k \in Instances \ {i} : instance'[k] = instance[k]
<1>1. instance \in [Instances -> State]
  BY DEF TypeOK, State
<1>2. /\ instance[i] \in State
      /\ [instance[i] EXCEPT !.pc = pc, !.todo = todo] \in State
  BY <1>1 DEF State
<1>3. instance' = [instance EXCEPT ![i] =
                      [instance[i] EXCEPT !.pc = pc, !.todo = todo]]
  BY <1>1, <1>2 DEF Goto, State
<1> QED
  BY <1>1, <1>2, <1>3 DEF State

\* A step of one instance that moves neither it nor the lock across the border
\* of the migrations.
LEMMA MoveTypeOK ==
    ASSUME TypeOK, NEW i \in Instances, NEW pc \in StartPc,
           NEW todo \in SUBSET (Migration \union Tenants), Goto(i, pc, todo),
           UNCHANGED lock,
           pc \in {"select", "migrate", "migrated"} <=> Migrating(i),
           oldSchema' = oldSchema, effects' \subseteq Migration,
           applied' \subseteq Migration, inits' \in Nat,
           tenantDns' \in [Tenants -> {None} \union SUBSET Hosts],
           cloud' \subseteq Route, faults' \in 0..MaxFaults,
           edits' \in 0..MaxEdits, lost' \in BOOLEAN, excused' \in BOOLEAN,
           blind' \in BOOLEAN
    PROVE  TypeOK'
<1>1. /\ instance' \in [Instances -> State]
      /\ instance'[i].pc = pc
      /\ \A k \in Instances \ {i} : instance'[k] = instance[k]
  BY GotoType
<1>2. \A k \in Instances : Migrating(k)' <=> lock' = k
  <2> SUFFICES ASSUME NEW k \in Instances PROVE Migrating(k)' <=> lock' = k
    OBVIOUS
  <2>1. CASE k = i
    BY <1>1, <2>1 DEF TypeOK, Migrating
  <2>2. CASE k # i
    BY <1>1, <2>2 DEF TypeOK, Migrating
  <2> QED
    BY <2>1, <2>2
<1> QED
  BY <1>1, <1>2 DEF TypeOK, State

\* The types of what is left to do.
LEMMA TodoType ==
    ASSUME TypeOK, NEW i \in Instances
    PROVE  /\ instance[i] \in State
           /\ \A x : instance[i].todo \ {x} \in SUBSET (Migration \union Tenants)
  BY DEF TypeOK, State

\* A count within its bound, one up.
LEMMA CountType ==
    ASSUME NEW max \in Nat, NEW n \in 0..max, n < max
    PROVE  n + 1 \in 0..max
  OBVIOUS

LEMMA MigrationStepTypeOK ==
    ASSUME TypeOK, NEW i \in Instances,
           \/ CheckExistingMigrations(i) \/ CheckExistingMigrationsFails(i)
           \/ MarkExisting(i) \/ SelectMigrations(i) \/ Migrate(i)
           \/ MarkApplied(i)
    PROVE  TypeOK'
<1>1. CASE CheckExistingMigrations(i) \/ CheckExistingMigrationsFails(i)
  <2>1. 1..oldSchema \subseteq Migration
    BY StartupAssumption DEF TypeOK, Migration
  <2>2. /\ At(i, "down") /\ UNCHANGED lock
        /\ UNCHANGED <<oldSchema, effects, applied, inits, tenantDns, cloud,
                       edits, lost, excused, blind>>
        /\ \E todo \in SUBSET (Migration \union Tenants) : Goto(i, "mark", todo)
    BY <1>1, <2>1 DEF CheckExistingMigrations, CheckExistingMigrationsFails,
                      DatabaseUnchanged, NoFault, HistoryUnchanged
  <2>3. faults' \in 0..MaxFaults
    BY <1>1, CountType, StartupAssumption
       DEF CheckExistingMigrations, CheckExistingMigrationsFails, NoFault,
           Fault, TypeOK
  <2> QED
    BY <2>2, <2>3, MoveTypeOK DEF TypeOK, At, Migrating, StartPc
<1>2. CASE MarkExisting(i)
  BY <1>2, TodoType, MoveTypeOK
     DEF MarkExisting, NoFault, HistoryUnchanged, TypeOK, At, Migrating, StartPc
<1>3. CASE SelectMigrations(i)
  <2>1. Migration \ applied \in SUBSET (Migration \union Tenants)
    OBVIOUS
  <2> QED
    BY <1>3, <2>1, MoveTypeOK
       DEF SelectMigrations, DatabaseUnchanged, NoFault, HistoryUnchanged,
           TypeOK, At, Migrating, StartPc
<1>4. CASE Migrate(i)
  BY <1>4, TodoType, MoveTypeOK
     DEF Migrate, NoFault, HistoryUnchanged, TypeOK, At, Migrating, StartPc,
         State
<1>5. CASE MarkApplied(i)
  BY <1>5, TodoType, MoveTypeOK
     DEF MarkApplied, NoFault, HistoryUnchanged, TypeOK, At, Migrating, StartPc
<1> QED
  BY <1>1, <1>2, <1>3, <1>4, <1>5

\* The lock goes with the instance that migrates.
LEMMA LockStepTypeOK ==
    ASSUME TypeOK, NEW i \in Instances,
           LockMigrations(i) \/ Unlock(i) \/ Crash(i)
    PROVE  TypeOK'
<1>1. /\ UNCHANGED <<oldSchema, effects, applied, inits, tenantDns, cloud,
                     edits, lost, excused, blind>>
      /\ faults' \in 0..MaxFaults
  BY CountType, StartupAssumption
     DEF LockMigrations, Unlock, Crash, DatabaseUnchanged, NoFault,
         HistoryUnchanged, Fault, TypeOK
<1>2. \A k \in Instances : Migrating(k) <=> lock = k
  BY DEF TypeOK
<1>3. None \notin Instances
  BY StartupAssumption
<1>4. CASE LockMigrations(i) \/ Unlock(i)
  <2>1. PICK pc \in {"select", "list"} : Goto(i, pc, {})
    BY <1>4 DEF LockMigrations, Unlock
  <2>2. /\ instance' \in [Instances -> State] /\ instance'[i].pc = pc
        /\ \A k \in Instances \ {i} : instance'[k] = instance[k]
    BY <2>1, GotoType DEF StartPc
  <2>3. CASE LockMigrations(i)
    <3>1. lock = None /\ lock' = i /\ instance'[i].pc = "select"
      BY <2>3, GotoType DEF LockMigrations, StartPc
    <3>2. \A k \in Instances : Migrating(k)' <=> lock' = k
      BY <1>2, <1>3, <2>2, <3>1 DEF Migrating
    <3> QED
      BY <1>1, <2>2, <3>1, <3>2 DEF TypeOK, State
  <2>4. CASE Unlock(i)
    <3>1. lock = i /\ lock' = None /\ instance'[i].pc = "list"
      BY <1>2, <2>4, GotoType DEF Unlock, At, Migrating, StartPc
    <3>2. \A k \in Instances : Migrating(k)' <=> lock' = k
      BY <1>2, <1>3, <2>2, <3>1 DEF Migrating
    <3> QED
      BY <1>1, <2>2, <3>1, <3>2 DEF TypeOK, State
  <2> QED
    BY <1>4, <2>3, <2>4
<1>5. CASE Crash(i)
  <2>1. /\ instance' = [instance EXCEPT ![i] = Down]
        /\ lock' = IF lock = i THEN None ELSE lock
    BY <1>5 DEF Crash
  <2>2. Down \in State /\ Down.pc = "down"
    BY DEF Down, State, StartPc
  <2>3. instance \in [Instances -> State]
    BY DEF TypeOK, State
  <2>4. instance' \in [Instances -> State]
    BY <2>1, <2>2, <2>3
  <2>5. \A k \in Instances : Migrating(k)' <=> lock' = k
    BY <1>2, <1>3, <2>1, <2>2, <2>3 DEF Migrating
  <2> QED
    BY <1>1, <2>1, <2>4, <2>5 DEF TypeOK, State
<1> QED
  BY <1>4, <1>5

\* The first scheme.
LEMMA BuildStepTypeOK ==
    ASSUME TypeOK, NEW i \in Instances,
           \/ InitCompositeCache(i) \/ InitCompositeCacheFails(i)
           \/ FindInitInformation(i) \/ FindInitInformationFails(i)
           \/ UpsertBuilt(i) \/ SetInitInformation(i)
    PROVE  TypeOK'
<1>1. FromRoutes(instance[i].routes) \in SUBSET (Migration \union Tenants)
  BY DEF FromRoutes, TypeOK, Route
<1>2. CASE InitCompositeCache(i) \/ InitCompositeCacheFails(i)
  <2>1. /\ UNCHANGED <<oldSchema, effects, applied, lock, inits, tenantDns,
                       cloud, edits, lost, excused, blind>>
        /\ At(i, "list") /\ faults' \in 0..MaxFaults
    BY <1>2, CountType, StartupAssumption
       DEF InitCompositeCache, InitCompositeCacheFails, DatabaseUnchanged,
           NoFault, HistoryUnchanged, Fault, TypeOK
  <2>2. PICK listed \in SUBSET cloud :
          instance' = [instance EXCEPT ![i].pc = "init", ![i].routes = listed]
    BY <1>2 DEF InitCompositeCache, InitCompositeCacheFails
  <2>3. instance \in [Instances -> State] /\ listed \in SUBSET Route
    BY DEF TypeOK, State
  <2>4. /\ instance' \in [Instances -> State]
        /\ instance'[i].pc = "init"
        /\ \A k \in Instances \ {i} : instance'[k] = instance[k]
    BY <2>2, <2>3 DEF State, StartPc
  <2>5. \A k \in Instances : Migrating(k)' <=> lock' = k
    BY <2>1, <2>4 DEF At, Migrating, TypeOK
  <2> QED
    BY <2>1, <2>4, <2>5 DEF TypeOK, State
<1>3. CASE FindInitInformation(i)
  BY <1>1, <1>3, MoveTypeOK
     DEF FindInitInformation, DatabaseUnchanged, NoFault, HistoryUnchanged,
         TypeOK, At, Migrating, StartPc
<1>4. CASE FindInitInformationFails(i)
  <2>1. faults' \in 0..MaxFaults
    BY <1>4, CountType, StartupAssumption
       DEF FindInitInformationFails, Fault, TypeOK
  <2> QED
    BY <1>1, <1>4, <2>1, MoveTypeOK
       DEF FindInitInformationFails, DatabaseUnchanged, TypeOK, At, Migrating,
           StartPc
<1>5. CASE UpsertBuilt(i)
  <2>1. PICK t \in instance[i].todo :
               /\ tenantDns' = [tenantDns EXCEPT ![t] =
                                   BuiltRow(instance[i].routes, t)]
               /\ Goto(i, "build", instance[i].todo \ {t})
               /\ lost' \in BOOLEAN /\ blind' \in BOOLEAN
    BY <1>5 DEF UpsertBuilt, SeesLess, TypeOK
  <2>2. tenantDns' \in [Tenants -> {None} \union SUBSET Hosts]
    BY <2>1 DEF BuiltRow, TypeOK
  <2> QED
    BY <1>5, <2>1, <2>2, TodoType, MoveTypeOK
       DEF UpsertBuilt, TypeOK, At, Migrating, StartPc
<1>6. CASE SetInitInformation(i)
  BY <1>6, MoveTypeOK
     DEF SetInitInformation, SeesLess, TypeOK, At, Migrating, StartPc
<1> QED
  BY <1>2, <1>3, <1>4, <1>5, <1>6

\* Every reachable state is well-typed; in particular one instance at most is
\* between the selection of migrations and the release of the lock, however many
\* start at once and wherever they crash.
THEOREM StartupTypeCorrect == Spec => []TypeOK
<1>1. Init => TypeOK
  <2> SUFFICES ASSUME Init PROVE TypeOK
    OBVIOUS
  <2>1. 1..oldSchema \subseteq Migration
    BY StartupAssumption DEF Init, Migration
  <2>2. Down \in State /\ Down.pc = "down"
    BY DEF Down, State, StartPc
  <2>3. \A k \in Instances : instance[k] = Down /\ ~Migrating(k)
    BY <2>2 DEF Init, Migrating
  <2>4. instance \in [Instances -> State]
    BY <2>2 DEF Init
  <2>5. \A k \in Instances : Migrating(k) <=> lock = k
    BY <2>3, StartupAssumption DEF Init
  <2>6. /\ oldSchema \in OldSchemas /\ inits \in Nat
        /\ effects \subseteq Migration /\ applied \subseteq Migration
        /\ lock \in Instances \union {None} /\ cloud \subseteq Route
        /\ tenantDns \in [Tenants -> {None} \union SUBSET Hosts]
    BY <2>1, StartupAssumption DEF Init
  <2>7. faults \in 0..MaxFaults /\ edits \in 0..MaxEdits
    BY StartupAssumption DEF Init
  <2>8. lost \in BOOLEAN /\ excused \in BOOLEAN /\ blind \in BOOLEAN
    BY DEF Init
  <2> QED
    BY <2>4, <2>5, <2>6, <2>7, <2>8 DEF TypeOK, State
<1>2. TypeOK /\ [Next]_vars => TypeOK'
  <2> SUFFICES ASSUME TypeOK, [Next]_vars PROVE TypeOK'
    OBVIOUS
  <2>1. ASSUME NEW i \in Instances,
               \/ StartStep(i) \/ CheckExistingMigrationsFails(i)
               \/ InitCompositeCacheFails(i) \/ FindInitInformationFails(i)
               \/ Crash(i)
        PROVE  TypeOK'
    BY <2>1, MigrationStepTypeOK, LockStepTypeOK, BuildStepTypeOK DEF StartStep
  <2>2. ASSUME NEW i \in Instances, Synchronize(i) PROVE TypeOK'
    BY <2>2 DEF Synchronize, Wanted, DatabaseUnchanged, HistoryUnchanged, TypeOK,
                Migrating
  <2>3. ASSUME NEW t \in Tenants, NEW hosts \in SUBSET Hosts, Edit(t, hosts)
        PROVE  TypeOK'
    <3>1. edits' \in 0..MaxEdits
      BY <2>3, CountType, StartupAssumption DEF Edit, TypeOK
    <3> QED
      BY <2>3, <3>1 DEF Edit, TypeOK, Migrating
  <2>4. CASE UNCHANGED vars
    BY <2>4 DEF vars, TypeOK, Migrating
  <2> QED
    BY <2>1, <2>2, <2>3, <2>4 DEF Next
<1> QED
  BY <1>1, <1>2, PTL DEF Spec

-----------------------------------------------------------------------------
(* The schema                                                              *)

\* The part of StartInv that is about one instance.
Owes(i) ==
    /\ Migrated(i) => effects = Migration
    /\ At(i, "mark") => instance[i].todo \subseteq 1..oldSchema
    /\ instance[i].pc \in {"migrate", "migrated"}
         => /\ instance[i].todo \subseteq Migration
            /\ Migration \subseteq applied \union instance[i].todo
    /\ At(i, "migrated")
         => \A n \in Migration : Least(n, instance[i].todo) => n \in effects

LEMMA StartInvParts ==
    StartInv <=> /\ 1..oldSchema \subseteq effects /\ applied \subseteq effects
                 /\ \A i \in Instances : Owes(i)
  BY DEF StartInv, SchemaReady, Owes

\* The schema and its records only grow, so that what one instance does leaves
\* the others what they have.
LEMMA OthersOwe ==
    ASSUME TypeOK, NEW k \in Instances, Owes(k), instance'[k] = instance[k],
           oldSchema' = oldSchema, effects \subseteq effects',
           effects' \subseteq Migration, applied \subseteq applied'
    PROVE  Owes(k)'
<1>1. effects = Migration => effects' = Migration
  OBVIOUS
<1> QED
  BY <1>1 DEF Owes, Migrated, At

\* A step of instance i that only adds to schema and records.
LEMMA GrowStep ==
    ASSUME TypeOK, StartInv, TypeOK', NEW i \in Instances,
           \A k \in Instances \ {i} : instance'[k] = instance[k],
           oldSchema' = oldSchema, effects \subseteq effects',
           applied \subseteq applied', applied' \subseteq effects', Owes(i)'
    PROVE  StartInv'
<1>1. 1..oldSchema' \subseteq effects'
  BY StartInvParts
<1>2. \A k \in Instances : Owes(k)'
  BY StartInvParts, OthersOwe DEF TypeOK
<1> QED
  BY <1>1, <1>2 DEF StartInv, SchemaReady, Owes

\* Migrations: what is left to do, with what is recorded, is always all; the
\* record of a migration comes after its changes.
LEMMA MigrationStepInv ==
    ASSUME TypeOK, StartInv, TypeOK', NEW i \in Instances,
           \/ CheckExistingMigrations(i) \/ CheckExistingMigrationsFails(i)
           \/ MarkExisting(i) \/ LockMigrations(i) \/ SelectMigrations(i)
           \/ Migrate(i) \/ MarkApplied(i) \/ Unlock(i)
    PROVE  StartInv'
<1>0. /\ 1..oldSchema \subseteq effects /\ applied \subseteq effects /\ Owes(i)
      /\ applied \subseteq Migration /\ effects \subseteq Migration
  BY StartInvParts DEF TypeOK
<1>1. CASE CheckExistingMigrations(i) \/ CheckExistingMigrationsFails(i)
  <2>1. PICK todo \in SUBSET (1..oldSchema) : Goto(i, "mark", todo)
    BY <1>1 DEF CheckExistingMigrations, CheckExistingMigrationsFails
  <2>2. UNCHANGED <<oldSchema, effects, applied>>
    BY <1>1 DEF CheckExistingMigrations, CheckExistingMigrationsFails,
                DatabaseUnchanged
  <2>3. todo \in SUBSET (Migration \union Tenants)
    BY <1>0
  <2>4. /\ instance'[i].pc = "mark" /\ instance'[i].todo = todo
        /\ \A k \in Instances \ {i} : instance'[k] = instance[k]
    BY <2>1, <2>3, GotoType DEF StartPc
  <2>5. Owes(i)'
    BY <2>2, <2>4 DEF Owes, Migrated, At
  <2> QED
    BY <1>0, <2>2, <2>4, <2>5, GrowStep
<1>2. CASE MarkExisting(i)
  <2>1. PICK n \in Migration :
               /\ Least(n, instance[i].todo)
               /\ applied' = applied \union {n}
               /\ Goto(i, "mark", instance[i].todo \ {n})
    BY <1>2 DEF MarkExisting
  <2>2. UNCHANGED <<oldSchema, effects>> /\ At(i, "mark")
    BY <1>2 DEF MarkExisting
  <2>3. /\ instance'[i].pc = "mark"
        /\ instance'[i].todo = instance[i].todo \ {n}
        /\ \A k \in Instances \ {i} : instance'[k] = instance[k]
    BY <2>1, TodoType, GotoType DEF StartPc
  <2>4. Owes(i)'
    BY <1>0, <2>2, <2>3 DEF Owes, Migrated, At
  <2>5. n \in effects
    BY <1>0, <2>1, <2>2 DEF Owes, Least
  <2> QED
    BY <1>0, <2>1, <2>2, <2>3, <2>4, <2>5, GrowStep
<1>3. CASE LockMigrations(i)
  <2>1. UNCHANGED <<oldSchema, effects, applied>> /\ Goto(i, "select", {})
    BY <1>3 DEF LockMigrations, DatabaseUnchanged
  <2>2. /\ instance'[i].pc = "select"
        /\ \A k \in Instances \ {i} : instance'[k] = instance[k]
    BY <2>1, GotoType DEF StartPc
  <2>3. Owes(i)'
    BY <2>2 DEF Owes, Migrated, At
  <2> QED
    BY <1>0, <2>1, <2>2, <2>3, GrowStep
<1>4. CASE SelectMigrations(i)
  <2>1. /\ UNCHANGED <<oldSchema, effects, applied>>
        /\ Goto(i, "migrate", Migration \ applied)
    BY <1>4 DEF SelectMigrations, DatabaseUnchanged
  <2>2. /\ instance'[i].pc = "migrate"
        /\ instance'[i].todo = Migration \ applied
        /\ \A k \in Instances \ {i} : instance'[k] = instance[k]
    BY <2>1, GotoType DEF StartPc
  <2>3. Owes(i)'
    BY <2>1, <2>2 DEF Owes, Migrated, At
  <2> QED
    BY <1>0, <2>1, <2>2, <2>3, GrowStep
<1>5. CASE Migrate(i)
  <2>1. PICK n \in Migration : /\ Least(n, instance[i].todo)
                               /\ effects' = effects \union {n}
    BY <1>5 DEF Migrate
  <2>2. /\ UNCHANGED <<oldSchema, applied>> /\ At(i, "migrate")
        /\ Goto(i, "migrated", instance[i].todo)
    BY <1>5 DEF Migrate
  <2>3. /\ instance'[i].pc = "migrated"
        /\ instance'[i].todo = instance[i].todo
        /\ \A k \in Instances \ {i} : instance'[k] = instance[k]
    BY <2>2, TodoType, GotoType DEF StartPc, State
  <2>4. \A m \in Migration : Least(m, instance[i].todo) => m = n
    BY <2>1, StartupAssumption DEF Least, Migration
  <2>5. Owes(i)'
    BY <1>0, <2>1, <2>2, <2>3, <2>4 DEF Owes, Migrated, At
  <2> QED
    BY <1>0, <2>1, <2>2, <2>3, <2>5, GrowStep
<1>6. CASE MarkApplied(i)
  <2>1. PICK n \in Migration :
               /\ Least(n, instance[i].todo)
               /\ applied' = applied \union {n}
               /\ Goto(i, "migrate", instance[i].todo \ {n})
    BY <1>6 DEF MarkApplied
  <2>2. UNCHANGED <<oldSchema, effects>> /\ At(i, "migrated")
    BY <1>6 DEF MarkApplied
  <2>3. /\ instance'[i].pc = "migrate"
        /\ instance'[i].todo = instance[i].todo \ {n}
        /\ \A k \in Instances \ {i} : instance'[k] = instance[k]
    BY <2>1, TodoType, GotoType DEF StartPc
  <2>4. n \in effects
    BY <1>0, <2>1, <2>2 DEF Owes
  <2>5. Owes(i)'
    BY <1>0, <2>1, <2>2, <2>3 DEF Owes, Migrated, At
  <2> QED
    BY <1>0, <2>1, <2>2, <2>3, <2>4, <2>5, GrowStep
<1>7. CASE Unlock(i)
  <2>1. /\ UNCHANGED <<oldSchema, effects, applied>> /\ Goto(i, "list", {})
        /\ At(i, "migrate") /\ instance[i].todo = {}
    BY <1>7 DEF Unlock, DatabaseUnchanged
  <2>2. /\ instance'[i].pc = "list"
        /\ \A k \in Instances \ {i} : instance'[k] = instance[k]
    BY <2>1, GotoType DEF StartPc
  <2>3. effects = Migration
    BY <1>0, <2>1 DEF Owes, At
  <2>4. Owes(i)'
    BY <2>1, <2>2, <2>3 DEF Owes, Migrated, At
  <2> QED
    BY <1>0, <2>1, <2>2, <2>4, GrowStep
<1> QED
  BY <1>1, <1>2, <1>3, <1>4, <1>5, <1>6, <1>7

\* After the migrations the schema is complete and stays so; a crash owes
\* nothing.
LEMMA LaterStepInv ==
    ASSUME TypeOK, StartInv, TypeOK', NEW i \in Instances,
           \/ InitCompositeCache(i) \/ InitCompositeCacheFails(i)
           \/ FindInitInformation(i) \/ FindInitInformationFails(i)
           \/ UpsertBuilt(i) \/ SetInitInformation(i) \/ Crash(i)
    PROVE  StartInv'
<1>0. /\ applied \subseteq effects /\ Owes(i)
      /\ instance \in [Instances -> State]
  BY StartInvParts DEF TypeOK, State
<1>1. UNCHANGED <<oldSchema, effects, applied>>
  BY DEF InitCompositeCache, InitCompositeCacheFails, FindInitInformation,
         FindInitInformationFails, UpsertBuilt, SetInitInformation, Crash, DatabaseUnchanged
<1>2. \E x : instance' = [instance EXCEPT ![i] = x]
  BY DEF InitCompositeCache, InitCompositeCacheFails, FindInitInformation,
         FindInitInformationFails, UpsertBuilt, SetInitInformation, Crash, Goto
<1>3. \A k \in Instances \ {i} : instance'[k] = instance[k]
  BY <1>0, <1>2
<1>4. CASE Crash(i)
  <2>1. instance'[i].pc = "down"
    BY <1>0, <1>4 DEF Crash, Down
  <2>2. Owes(i)'
    BY <2>1 DEF Owes, Migrated, At
  <2> QED
    BY <1>0, <1>1, <1>3, <2>2, GrowStep
<1>5. CASE ~Crash(i)
  <2>1. Migrated(i)
    BY <1>5 DEF InitCompositeCache, InitCompositeCacheFails, FindInitInformation,
                FindInitInformationFails, UpsertBuilt, SetInitInformation, At,
                Migrated
  <2>2. instance'[i].pc \in {"init", "build", "serve"}
    BY <1>0, <1>5 DEF InitCompositeCache, InitCompositeCacheFails, FindInitInformation,
         FindInitInformationFails, UpsertBuilt, SetInitInformation, Goto, State
  <2>3. Owes(i)'
    BY <1>0, <1>1, <2>1, <2>2 DEF Owes, Migrated, At
  <2> QED
    BY <1>0, <1>1, <1>3, <2>3, GrowStep
<1> QED
  BY <1>4, <1>5

\* What is recorded is in the schema, and no instance uses the tables before
\* they have all migrations, whatever the old migrator had done, however often
\* instances crash, and however many of them start at a time.
THEOREM SchemaIsReady == Spec => []SchemaReady
<1>1. Init => StartInv
  <2> SUFFICES ASSUME Init PROVE StartInv
    OBVIOUS
  <2>1. \A k \in Instances : instance[k].pc = "down"
    BY DEF Init, Down
  <2>2. \A k \in Instances : Owes(k)
    BY <2>1 DEF Owes, Migrated, At
  <2> QED
    BY <2>2, StartInvParts DEF Init
<1>2. TypeOK /\ TypeOK' /\ StartInv /\ [Next]_vars => StartInv'
  <2> SUFFICES ASSUME TypeOK, TypeOK', StartInv, [Next]_vars PROVE StartInv'
    OBVIOUS
  <2>1. ASSUME NEW i \in Instances,
               \/ StartStep(i) \/ CheckExistingMigrationsFails(i)
               \/ InitCompositeCacheFails(i) \/ FindInitInformationFails(i)
               \/ Crash(i)
        PROVE  StartInv'
    BY <2>1, MigrationStepInv, LaterStepInv DEF StartStep
  <2>2. ASSUME UNCHANGED <<oldSchema, effects, applied, instance>>
        PROVE  StartInv'
    BY <2>2 DEF StartInv, SchemaReady, Migrated, At
  <2>3. ASSUME NEW i \in Instances, Synchronize(i) PROVE StartInv'
    BY <2>2, <2>3 DEF Synchronize, DatabaseUnchanged
  <2>4. ASSUME NEW t \in Tenants, NEW hosts \in SUBSET Hosts, Edit(t, hosts)
        PROVE  StartInv'
    BY <2>2, <2>4 DEF Edit
  <2> QED
    BY <2>1, <2>2, <2>3, <2>4 DEF Next, vars
<1>3. StartInv => SchemaReady
  BY DEF StartInv
<1> QED
  BY <1>1, <1>2, <1>3, StartupTypeCorrect, PTL DEF Spec

-----------------------------------------------------------------------------
(* The rows and the routes                                                 *)

\* Nobody serves, and so no row is edited, before a record is there; who builds
\* rows although one is there read none, or was overtaken: that is excused.
EditInv ==
    /\ lost => excused
    /\ edits > 0 => inits > 0
    /\ \A i \in Instances : /\ At(i, "serve") => inits > 0
                            /\ At(i, "build") /\ inits > 0 => excused

\* While no row is edited and no failed listing has got into rows or record, the
\* cloud stays as it was found, so that all that is built is of the same routes,
\* and a record tells that all rows are there.
BuiltInv ==
    /\ \A t \in Tenants : tenantDns[t] \in {None, BuiltRow(cloud, t)}
    /\ inits > 0 => \A t \in FromRoutes(cloud) : tenantDns[t] # None
    /\ \A i \in Instances : At(i, "build") /\ instance[i].routes = cloud
         => \A t \in FromRoutes(cloud) \ instance[i].todo : tenantDns[t] # None

RouteInv == edits = 0 /\ ~blind => BuiltInv

\* A step of a start before it comes to the routes, and a crash.
LEMMA EarlyStep ==
    ASSUME TypeOK, NEW i \in Instances,
           \/ CheckExistingMigrations(i) \/ CheckExistingMigrationsFails(i)
           \/ MarkExisting(i) \/ LockMigrations(i) \/ SelectMigrations(i)
           \/ Migrate(i) \/ MarkApplied(i) \/ Unlock(i) \/ Crash(i)
    PROVE  /\ UNCHANGED <<inits, tenantDns, cloud, edits, lost, excused, blind>>
           /\ instance'[i].pc \notin {"init", "build", "serve"}
           /\ \A k \in Instances \ {i} : instance'[k] = instance[k]
<1>1. UNCHANGED <<inits, tenantDns, cloud, edits, lost, excused, blind>>
  BY DEF CheckExistingMigrations, CheckExistingMigrationsFails, MarkExisting,
         LockMigrations, SelectMigrations, Migrate, MarkApplied, Unlock, Crash,
         DatabaseUnchanged, NoFault, HistoryUnchanged
<1>2. instance \in [Instances -> State]
  BY DEF TypeOK, State
<1>3. CASE Crash(i)
  BY <1>1, <1>2, <1>3 DEF Crash, Down
<1>4. CASE ~Crash(i)
  <2>1. \E pc \in {"mark", "select", "migrate", "migrated", "list"} :
          \E todo : Goto(i, pc, todo)
    BY <1>4 DEF CheckExistingMigrations, CheckExistingMigrationsFails,
                MarkExisting, LockMigrations, SelectMigrations, Migrate,
                MarkApplied, Unlock
  <2> QED
    BY <1>1, <1>2, <2>1 DEF Goto, State
<1> QED
  BY <1>3, <1>4

\* What Goto does to the instance it is about.
LEMMA GotoFields ==
    ASSUME TypeOK, NEW i \in Instances, NEW pc, NEW todo, Goto(i, pc, todo)
    PROVE  /\ instance'[i].pc = pc /\ instance'[i].todo = todo
           /\ instance'[i].routes = instance[i].routes
           /\ \A k \in Instances \ {i} : instance'[k] = instance[k]
  BY DEF Goto, TypeOK

\* A listing, good or failed.
LEMMA ListStep ==
    ASSUME TypeOK, NEW i \in Instances,
           InitCompositeCache(i) \/ InitCompositeCacheFails(i)
    PROVE  /\ UNCHANGED <<inits, tenantDns, cloud, edits, lost, excused, blind>>
           /\ instance'[i].pc = "init"
           /\ \A k \in Instances \ {i} : instance'[k] = instance[k]
<1>1. UNCHANGED <<inits, tenantDns, cloud, edits, lost, excused, blind>>
  BY DEF InitCompositeCache, InitCompositeCacheFails, DatabaseUnchanged, NoFault,
         HistoryUnchanged
<1>2. PICK listed :
        instance' = [instance EXCEPT ![i].pc = "init", ![i].routes = listed]
  BY DEF InitCompositeCache, InitCompositeCacheFails
<1> QED
  BY <1>1, <1>2 DEF TypeOK

LEMMA EditStep ==
    ASSUME TypeOK, EditInv, [Next]_vars
    PROVE  EditInv'
<1>1. ASSUME NEW i \in Instances,
             \/ CheckExistingMigrations(i) \/ CheckExistingMigrationsFails(i)
             \/ MarkExisting(i) \/ LockMigrations(i) \/ SelectMigrations(i)
             \/ Migrate(i) \/ MarkApplied(i) \/ Unlock(i) \/ Crash(i)
      PROVE  EditInv'
  BY <1>1, EarlyStep DEF EditInv, At
<1>2. ASSUME NEW i \in Instances,
             InitCompositeCache(i) \/ InitCompositeCacheFails(i)
      PROVE  EditInv'
  BY <1>2, ListStep DEF EditInv, At
<1>3. ASSUME NEW i \in Instances, FindInitInformation(i)
      PROVE  EditInv'
  <2>1. UNCHANGED <<inits, edits, lost, excused, blind>>
    BY <1>3 DEF FindInitInformation, DatabaseUnchanged, NoFault,
                HistoryUnchanged
  <2>2. CASE inits > 0
    BY <1>3, <2>1, <2>2, GotoFields DEF FindInitInformation, EditInv, At
  <2>3. CASE ~(inits > 0)
    BY <1>3, <2>1, <2>3, GotoFields DEF FindInitInformation, EditInv, At
  <2> QED
    BY <2>2, <2>3
<1>4. ASSUME NEW i \in Instances, FindInitInformationFails(i)
      PROVE  EditInv'
  BY <1>4, GotoFields DEF FindInitInformationFails, DatabaseUnchanged,
                          EditInv, At
<1>5. ASSUME NEW i \in Instances, UpsertBuilt(i)
      PROVE  EditInv'
  <2>1. PICK t \in instance[i].todo :
               /\ Goto(i, "build", instance[i].todo \ {t})
               /\ lost' => lost \/ edits > 0
    BY <1>5 DEF UpsertBuilt
  <2>2. At(i, "build") /\ UNCHANGED <<inits, edits, excused>>
    BY <1>5 DEF UpsertBuilt
  <2> QED
    BY <2>1, <2>2, GotoFields DEF EditInv, At
<1>6. ASSUME NEW i \in Instances, SetInitInformation(i)
      PROVE  EditInv'
  <2>1. /\ Goto(i, "serve", {}) /\ inits' > 0 /\ UNCHANGED <<edits, lost>>
        /\ excused' = (excused \/ \E k \in Instances \ {i} : At(k, "build"))
    BY <1>6 DEF SetInitInformation, TypeOK
  <2>2. /\ instance'[i].pc = "serve"
        /\ \A k \in Instances \ {i} : instance'[k] = instance[k]
    BY <2>1, GotoFields
  <2> QED
    BY <2>1, <2>2 DEF EditInv, At
<1>7. ASSUME NEW i \in Instances, Synchronize(i)
      PROVE  EditInv'
  BY <1>7 DEF Synchronize, DatabaseUnchanged, HistoryUnchanged, EditInv, At
<1>8. ASSUME NEW t \in Tenants, NEW hosts \in SUBSET Hosts, Edit(t, hosts)
      PROVE  EditInv'
  BY <1>8 DEF Edit, EditInv, At
<1>9. CASE UNCHANGED vars
  BY <1>9 DEF vars, EditInv, At
<1> QED
  BY <1>1, <1>2, <1>3, <1>4, <1>5, <1>6, <1>7, <1>8, <1>9 DEF Next, StartStep

LEMMA EditInvariant == Spec => []EditInv
<1>1. Init => EditInv
  BY DEF Init, EditInv, At, Down
<1> QED
  BY <1>1, EditStep, StartupTypeCorrect, PTL DEF Spec

\* A start writes over no row that a request has written, unless the read of the
\* record failed or two instances built the first scheme at a time.
THEOREM EditsOutliveStarts == Spec => []EditsSurviveStart
<1>1. EditInv => EditsSurviveStart
  BY DEF EditInv, EditsSurviveStart
<1> QED
  BY <1>1, EditInvariant, PTL

\* A step that neither writes a row nor changes the cloud leaves the rows with
\* the routes they are built of, if the instance that takes it does not start to
\* build of all routes with less to do than all tenants.
LEMMA BuiltStep ==
    ASSUME BuiltInv, NEW i \in Instances, UNCHANGED <<inits, tenantDns, cloud>>,
           \A k \in Instances \ {i} : instance'[k] = instance[k],
           instance'[i].pc = "build"
             => instance'[i].todo = FromRoutes(instance'[i].routes)
    PROVE  BuiltInv'
<1>1. \A k \in Instances :
         instance'[k].pc = "build" /\ instance'[k].routes = cloud
           => \A t \in FromRoutes(cloud) \ instance'[k].todo : tenantDns[t] # None
  BY DEF BuiltInv, At
<1> QED
  BY <1>1 DEF BuiltInv, At, BuiltRow, FromRoutes

\* The rows that are built are of tenants with routes, and are rows.
LEMMA RowOfRoutes ==
    ASSUME NEW routes, NEW t
    PROVE  BuiltRow(routes, t) # None
  BY StartupAssumption DEF BuiltRow

\* Writing a row, or the record after the last.
LEMMA BuiltByUpsert ==
    ASSUME TypeOK, BuiltInv, NEW i \in Instances, UpsertBuilt(i), ~blind'
    PROVE  BuiltInv'
<1>1. /\ At(i, "build") /\ UNCHANGED <<inits, cloud>>
      /\ instance[i].routes = cloud
  BY DEF UpsertBuilt, SeesLess
<1>2. PICK u \in instance[i].todo :
             /\ tenantDns' = [tenantDns EXCEPT ![u] = BuiltRow(cloud, u)]
             /\ Goto(i, "build", instance[i].todo \ {u})
  BY <1>1 DEF UpsertBuilt
<1>3. \A t \in Tenants : /\ tenantDns[t] # None => tenantDns'[t] # None
                         /\ t = u => tenantDns'[t] # None
                         /\ tenantDns'[t] \in {None, BuiltRow(cloud, t)}
  BY <1>2, RowOfRoutes DEF TypeOK, BuiltInv
<1>4. FromRoutes(cloud) \subseteq Tenants
  BY DEF FromRoutes, TypeOK, Route
<1>5. /\ instance'[i].pc = "build" /\ instance'[i].routes = cloud
      /\ instance'[i].todo = instance[i].todo \ {u}
      /\ \A k \in Instances \ {i} : instance'[k] = instance[k]
  BY <1>1, <1>2, GotoFields
<1>6. ASSUME NEW k \in Instances
      PROVE  instance'[k].pc = "build" /\ instance'[k].routes = cloud
               => \A t \in FromRoutes(cloud) \ instance'[k].todo :
                      tenantDns'[t] # None
  <2>1. CASE k = i
    BY <1>1, <1>3, <1>4, <1>5, <2>1 DEF BuiltInv, At
  <2>2. CASE k # i
    BY <1>3, <1>4, <1>5, <2>2 DEF BuiltInv, At
  <2> QED
    BY <2>1, <2>2
<1>7. inits > 0 => \A t \in FromRoutes(cloud) : tenantDns'[t] # None
  BY <1>3, <1>4 DEF BuiltInv
<1> QED
  BY <1>1, <1>3, <1>6, <1>7 DEF BuiltInv, At, BuiltRow, FromRoutes

LEMMA BuiltByRecord ==
    ASSUME TypeOK, BuiltInv, NEW i \in Instances, SetInitInformation(i),
           ~blind'
    PROVE  BuiltInv'
<1>1. /\ At(i, "build") /\ instance[i].todo = {} /\ Goto(i, "serve", {})
      /\ UNCHANGED <<tenantDns, cloud>> /\ instance[i].routes = cloud
  BY DEF SetInitInformation, SeesLess
<1>2. \A t \in FromRoutes(cloud) : tenantDns[t] # None
  BY <1>1 DEF BuiltInv
<1>3. /\ instance'[i].pc = "serve"
      /\ \A k \in Instances \ {i} : instance'[k] = instance[k]
  BY <1>1, GotoFields
<1>4. \A k \in Instances :
         instance'[k].pc = "build" /\ instance'[k].routes = cloud
           => \A t \in FromRoutes(cloud) \ instance'[k].todo : tenantDns[t] # None
  BY <1>2, <1>3 DEF BuiltInv, At
<1> QED
  BY <1>1, <1>2, <1>4 DEF BuiltInv, At, BuiltRow, FromRoutes

\* Before the first edit an instance that serves wants exactly the routes that
\* are there, so that its pass changes nothing.
LEMMA FirstPassKeeps ==
    ASSUME TypeOK, EditInv, BuiltInv, NEW i \in Instances, Synchronize(i)
    PROVE  cloud' = cloud
<1>1. inits > 0
  BY DEF Synchronize, EditInv
<1>2. \A t \in FromRoutes(cloud) : tenantDns[t] = BuiltRow(cloud, t)
  BY <1>1 DEF BuiltInv, FromRoutes, TypeOK, Route
<1>3. cloud \subseteq Route
  BY DEF TypeOK
<1>4. ASSUME NEW r \in Route
      PROVE  r \in cloud <=> /\ tenantDns[r[1]] # None
                             /\ r[2] \in tenantDns[r[1]]
  <2>1. r = <<r[1], r[2]>> /\ r[1] \in Tenants /\ r[2] \in Hosts
    BY DEF Route
  <2>2. CASE r \in cloud
    <3>1. r[1] \in FromRoutes(cloud)
      BY <2>2 DEF FromRoutes
    <3>2. tenantDns[r[1]] = BuiltRow(cloud, r[1])
      BY <1>2, <3>1
    <3>3. r[2] \in BuiltRow(cloud, r[1])
      BY <2>1, <2>2 DEF BuiltRow
    <3> QED
      BY <2>2, <3>2, <3>3, RowOfRoutes
  <2>3. CASE r \notin cloud
    <3>1. r[2] \notin BuiltRow(cloud, r[1])
      BY <2>1, <2>3 DEF BuiltRow
    <3> QED
      BY <2>1, <2>3, <3>1 DEF BuiltInv
  <2> QED
    BY <2>2, <2>3
<1>5. Wanted = cloud
  BY <1>3, <1>4 DEF Wanted
<1> QED
  BY <1>5 DEF Synchronize

LEMMA RouteStep ==
    ASSUME TypeOK, EditInv, RouteInv, [Next]_vars
    PROVE  RouteInv'
<1> SUFFICES ASSUME edits' = 0, ~blind' PROVE BuiltInv'
  BY DEF RouteInv
<1>1. edits = 0 /\ ~\E t \in Tenants, hosts \in SUBSET Hosts : Edit(t, hosts)
  <2>1. edits \in Nat
    BY StartupAssumption DEF TypeOK
  <2>2. CASE \E t \in Tenants, hosts \in SUBSET Hosts : Edit(t, hosts)
    BY <2>1, <2>2 DEF Edit
  <2>3. CASE ~\E t \in Tenants, hosts \in SUBSET Hosts : Edit(t, hosts)
    BY <2>3 DEF Next, StartStep, vars, CheckExistingMigrations, MarkExisting,
         CheckExistingMigrationsFails, LockMigrations, SelectMigrations,
         Migrate, MarkApplied, Unlock, InitCompositeCache,
         InitCompositeCacheFails, FindInitInformation, FindInitInformationFails,
         UpsertBuilt, SetInitInformation, Synchronize, Crash, NoFault,
         HistoryUnchanged
  <2> QED
    BY <2>2, <2>3
<1>2. BuiltInv
  <2>1. CASE \E i \in Instances : UpsertBuilt(i) \/ SetInitInformation(i)
    BY <1>1, <2>1 DEF UpsertBuilt, SetInitInformation, RouteInv
  <2>2. CASE ~\E i \in Instances : UpsertBuilt(i) \/ SetInitInformation(i)
    <3>1. UNCHANGED blind
      BY <1>1, <2>2 DEF Next, StartStep, vars, CheckExistingMigrations,
           MarkExisting, CheckExistingMigrationsFails, LockMigrations,
           SelectMigrations, Migrate, MarkApplied, Unlock, InitCompositeCache,
           InitCompositeCacheFails, FindInitInformation,
           FindInitInformationFails, Synchronize, Crash, NoFault,
           HistoryUnchanged
    <3> QED
      BY <1>1, <3>1 DEF RouteInv
  <2> QED
    BY <2>1, <2>2
<1>3. ASSUME NEW i \in Instances,
             \/ CheckExistingMigrations(i) \/ CheckExistingMigrationsFails(i)
             \/ MarkExisting(i) \/ LockMigrations(i) \/ SelectMigrations(i)
             \/ Migrate(i) \/ MarkApplied(i) \/ Unlock(i) \/ Crash(i)
      PROVE  BuiltInv'
  <2>1. /\ UNCHANGED <<inits, tenantDns, cloud>>
        /\ instance'[i].pc \notin {"init", "build", "serve"}
        /\ \A k \in Instances \ {i} : instance'[k] = instance[k]
    BY <1>3, EarlyStep
  <2> QED
    BY <1>2, <2>1, BuiltStep
<1>4. ASSUME NEW i \in Instances,
             InitCompositeCache(i) \/ InitCompositeCacheFails(i)
      PROVE  BuiltInv'
  <2>1. /\ UNCHANGED <<inits, tenantDns, cloud>>
        /\ instance'[i].pc = "init"
        /\ \A k \in Instances \ {i} : instance'[k] = instance[k]
    BY <1>4, ListStep
  <2> QED
    BY <1>2, <2>1, BuiltStep
<1>5. ASSUME NEW i \in Instances,
             FindInitInformation(i) \/ FindInitInformationFails(i)
      PROVE  BuiltInv'
  <2>1. /\ UNCHANGED <<inits, tenantDns, cloud>>
        /\ \/ Goto(i, "serve", {})
           \/ Goto(i, "build", FromRoutes(instance[i].routes))
    BY <1>5 DEF FindInitInformation, FindInitInformationFails,
                DatabaseUnchanged, NoFault
  <2>2. /\ \/ instance'[i].pc = "serve"
           \/ /\ instance'[i].pc = "build"
              /\ instance'[i].todo = FromRoutes(instance'[i].routes)
        /\ \A k \in Instances \ {i} : instance'[k] = instance[k]
    BY <2>1, GotoFields
  <2> QED
    BY <1>2, <2>1, <2>2, BuiltStep
<1>6. ASSUME NEW i \in Instances, Synchronize(i)
      PROVE  BuiltInv'
  <2>1. UNCHANGED <<inits, tenantDns, cloud, instance>>
    BY <1>2, <1>6, FirstPassKeeps DEF Synchronize, DatabaseUnchanged
  <2> QED
    BY <1>2, <2>1 DEF BuiltInv, At, BuiltRow, FromRoutes
<1>7. CASE UNCHANGED vars
  BY <1>2, <1>7 DEF vars, BuiltInv, At, BuiltRow, FromRoutes
<1> QED
  BY <1>1, <1>2, <1>3, <1>4, <1>5, <1>6, <1>7, BuiltByUpsert, BuiltByRecord
     DEF Next, StartStep

LEMMA RouteInvariant == Spec => []RouteInv
<1>1. Init => RouteInv
  BY DEF Init, RouteInv, BuiltInv, At, Down
<1> QED
  BY <1>1, RouteStep, EditInvariant, StartupTypeCorrect, PTL DEF Spec

\* Until the API changes a tenant, or an instance whose listing failed writes of
\* the first scheme, no start and no pass takes a route away, however many
\* instances build the rows at a time, wherever they crash, whatever the passes
\* find in their caches: who serves wants all routes that are there.
THEOREM RoutesOutliveStarts == Spec => RoutesSurviveStart
<1>1. TypeOK /\ EditInv /\ RouteInv /\ [Next]_vars
        => [edits = 0 /\ ~blind => cloud \subseteq cloud']_vars
  <2> SUFFICES ASSUME TypeOK, EditInv, RouteInv, [Next]_vars, edits = 0, ~blind
               PROVE  cloud \subseteq cloud'
    OBVIOUS
  <2>1. ASSUME NEW i \in Instances, Synchronize(i) PROVE cloud' = cloud
    BY <2>1, FirstPassKeeps DEF RouteInv
  <2>2. ASSUME ~\E i \in Instances : Synchronize(i) PROVE cloud' = cloud
    BY <2>2 DEF Next, StartStep, vars, CheckExistingMigrations, MarkExisting,
         CheckExistingMigrationsFails, LockMigrations, SelectMigrations,
         Migrate, MarkApplied, Unlock, InitCompositeCache,
         InitCompositeCacheFails, FindInitInformation, FindInitInformationFails,
         UpsertBuilt, SetInitInformation, Edit, Crash, NoFault
  <2> QED
    BY <2>1, <2>2
<1> QED
  BY <1>1, StartupTypeCorrect, EditInvariant, RouteInvariant, PTL
     DEF Spec, RoutesSurviveStart

==============================================================================
