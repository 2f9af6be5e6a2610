--------------------------- MODULE TenantFeedProofs ---------------------------
(* Theorems about TenantFeed, for every finite set of tenants, with and       *)
(* without the rows of a satellite, whatever tenant-manager and the table are *)
(* at the start, and for every bound.                                         *)
EXTENDS TenantFeed, QueueLemmas, FiniteSetTheorems

-----------------------------------------------------------------------------
(* Types                                                                   *)

WatcherState == [pc : {"off", "connecting", "reading", "rows", "cache"},
                 event : EventType \union {None}, todo : Seq(EntryType)]
LoaderState == [pc : {"list", "upsert", "delete", "done"},
                list : SUBSET EntryType, todo : SUBSET (EntryType \union Tenants)]

\* The parts of the types, by what changes them.
TenantsTyped == manager \in [Tenants -> Status \union {"unknown", "deleted"}]
WatcherTyped ==
    /\ open \in BOOLEAN
    /\ frames \in Seq(EventType) /\ (~open => frames = <<>>)
    /\ watcher \in WatcherState
    /\ watcher.pc \in {"off", "connecting"} => ~open
    /\ watcher.pc \in {"rows", "cache"} <=> watcher.event \in EventType
    /\ Satellite => (watcher.pc = "rows" <=> watcher.todo # <<>>)
    /\ watcher.pc = "rows" => Satellite
LoaderTyped ==
    /\ loader \in LoaderState
    /\ loader.pc = "upsert" => loader.todo \subseteq EntryType
    /\ loader.pc = "delete" => loader.todo \subseteq Tenants
RowsTyped == tenantDns \in [Tenants -> Row \union {None}]
WritingTyped ==
    /\ writing \in [Writers -> Writing \union {None}]
    /\ writing["watcher"] # None => WatcherWriting(writing["watcher"])
    /\ writing["loader"] # None => LoaderWriting(writing["loader"].id)
SetsTyped == activeTenants \subseteq Tenants /\ gone \subseteq Tenants
             /\ behind \subseteq Tenants
CountsTyped == /\ changes \in 0..MaxChanges /\ breaks \in 0..MaxBreaks
               /\ faults \in 0..MaxFaults

LEMMA TypeParts ==
    TypeOK <=> /\ TenantsTyped /\ WatcherTyped /\ LoaderTyped /\ RowsTyped
               /\ WritingTyped /\ SetsTyped /\ CountsTyped
  BY DEF TypeOK, TenantsTyped, WatcherTyped, LoaderTyped, RowsTyped, SetsTyped,
         WritingTyped, CountsTyped, WatcherState, LoaderState

LEMMA TypePartsNext ==
    ASSUME TenantsTyped', WatcherTyped', LoaderTyped', RowsTyped', WritingTyped',
           SetsTyped', CountsTyped'
    PROVE  TypeOK'
  BY DEF TypeOK, TenantsTyped, WatcherTyped, LoaderTyped, RowsTyped, SetsTyped,
         WritingTyped, CountsTyped, WatcherState, LoaderState

\* A step that writes no row and moves no writer that is writing one.
LEMMA WritingKept ==
    ASSUME WritingTyped, writing' = writing,
           watcher.pc = "rows" => watcher' = watcher,
           writing["loader"] # None => loader' = loader
    PROVE  WritingTyped'
<1>1. writing["watcher"] # None => watcher.pc = "rows"
  BY DEF WritingTyped, WatcherWriting
<1>2. writing["watcher"] # None => WatcherWriting(writing["watcher"])'
  BY <1>1 DEF WritingTyped, WatcherWriting
<1>3. writing["loader"] # None => LoaderWriting(writing["loader"].id)'
  BY DEF WritingTyped, LoaderWriting
<1> QED
  BY <1>2, <1>3 DEF WritingTyped

\* One writer ends its write, the other one stays where it is.
LEMMA WritingEnded ==
    ASSUME WritingTyped, NEW writer \in Writers, Ended(writer),
           writer = "watcher" => loader' = loader,
           writer = "loader" => watcher' = watcher
    PROVE  WritingTyped'
<1>1. /\ writing' \in [Writers -> Writing \union {None}]
      /\ writing'[writer] = None
      /\ \A w \in Writers \ {writer} : writing'[w] = writing[w]
  BY DEF Ended, WritingTyped
<1>2. Writers = {"watcher", "loader"}
  BY DEF Writers
<1>3. CASE writer = "watcher"
  <2>1. writing["loader"] # None => LoaderWriting(writing["loader"].id)'
    BY <1>1, <1>2, <1>3 DEF WritingTyped, LoaderWriting
  <2> QED
    BY <1>1, <1>2, <1>3, <2>1 DEF WritingTyped
<1>4. CASE writer = "loader"
  <2>1. writing["watcher"] # None => WatcherWriting(writing["watcher"])'
    BY <1>1, <1>2, <1>4 DEF WritingTyped, WatcherWriting
  <2> QED
    BY <1>1, <1>2, <1>4, <2>1 DEF WritingTyped
<1> QED
  BY <1>2, <1>3, <1>4

\* One writer begins a write or asks for the row, both stay where they are.
LEMMA WritingSet ==
    ASSUME WritingTyped, NEW writer \in Writers, NEW w \in Writing,
           writing' = [writing EXCEPT ![writer] = w],
           UNCHANGED <<watcher, loader>>,
           writer = "watcher" => WatcherWriting(w),
           writer = "loader" => LoaderWriting(w.id)
    PROVE  WritingTyped'
<1>1. /\ writing' \in [Writers -> Writing \union {None}]
      /\ writing'[writer] = w
      /\ \A v \in Writers \ {writer} : writing'[v] = writing[v]
  BY DEF WritingTyped
<1>2. Writers = {"watcher", "loader"}
  BY DEF Writers
<1>3. CASE writer = "watcher"
  <2>1. WatcherWriting(w)' /\ writing'["watcher"] = w
    BY <1>1, <1>3 DEF WatcherWriting
  <2>2. writing["loader"] # None => LoaderWriting(writing["loader"].id)'
    BY DEF WritingTyped, LoaderWriting
  <2> QED
    BY <1>1, <1>2, <1>3, <2>1, <2>2 DEF WritingTyped
<1>4. CASE writer = "loader"
  <2>1. LoaderWriting(w.id)' /\ writing'["loader"] = w
    BY <1>1, <1>4 DEF LoaderWriting
  <2>2. writing["watcher"] # None => WatcherWriting(writing["watcher"])'
    BY DEF WritingTyped, WatcherWriting
  <2> QED
    BY <1>1, <1>2, <1>4, <2>1, <2>2 DEF WritingTyped
<1> QED
  BY <1>2, <1>3, <1>4

\* A count within its bound, one up.
LEMMA CountType ==
    ASSUME NEW max \in Nat, NEW n \in 0..max, n < max
    PROVE  n + 1 \in 0..max
  OBVIOUS

\* The order in which a new subscription tells of the tenants leaves none out.
LEMMA OrderListsAll ==
    ASSUME NEW S, IsFiniteSet(S), NEW order \in SetToSeqs(S)
    PROVE  /\ DOMAIN order = 1..Cardinality(S) /\ Cardinality(S) \in Nat
           /\ \A i \in DOMAIN order : order[i] \in S
           /\ \A t \in S : \E i \in DOMAIN order : order[i] = t
<1> DEFINE D == 1..Cardinality(S)
<1>1. Cardinality(S) \in Nat
  BY FS_CardinalityType
<1>2. order \in [D -> S] /\ \A i, j \in D : i # j => order[i] # order[j]
  BY DEF SetToSeqs
<1>3. order \in Injection(D, S)
  BY <1>2 DEF Injection, IsInjective
<1>4. IsFiniteSet(D) /\ Cardinality(D) = Cardinality(S)
  BY <1>1, FS_Interval
<1>5. order \in Surjection(D, S)
  BY <1>3, <1>4, FS_Injection
<1> QED
  BY <1>1, <1>2, <1>5 DEF Surjection

\* The event of a new subscription: every known tenant as it is now.
LEMMA SubscribedType ==
    ASSUME NEW known \in SUBSET Tenants, \A t \in known : Known(t),
           known # {}, NEW order \in SetToSeqs(known),
           NEW e, e = Event("SUBSCRIBED",
                            [i \in DOMAIN order |-> Entry(order[i])])
    PROVE  /\ e \in EventType /\ e.type = "SUBSCRIBED"
           /\ 1 \in DOMAIN e.tenants
           /\ \A t \in known : \E i \in DOMAIN e.tenants :
                e.tenants[i] = Entry(t)
           /\ \A i \in DOMAIN e.tenants : \E t \in known :
                e.tenants[i] = Entry(t)
<1> DEFINE s == [i \in DOMAIN order |-> Entry(order[i])]
           n == Cardinality(known)
<1>1. IsFiniteSet(known)
  BY FS_Subset, FeedAssumption
<1>2. /\ DOMAIN order = 1..Cardinality(known) /\ Cardinality(known) \in Nat
      /\ \A i \in DOMAIN order : order[i] \in known
      /\ \A t \in known : \E i \in DOMAIN order : order[i] = t
  BY <1>1, OrderListsAll
<1>3. n \in Nat /\ n # 0 /\ DOMAIN s = 1..n
  BY <1>1, <1>2, FS_EmptySet
<1>4. \A t \in known : Entry(t) \in EntryType
  BY DEF Entry, EntryType, Known
<1>5. s \in [1..n -> EntryType]
  BY <1>2, <1>4
<1>6. /\ \A t \in known : \E i \in DOMAIN s : s[i] = Entry(t)
      /\ \A i \in DOMAIN s : \E t \in known : s[i] = Entry(t)
  BY <1>2
<1>7. e = [type |-> "SUBSCRIBED", tenants |-> s]
  BY DEF Event
<1> HIDE DEF s, n
<1>8. s \in Seq(EntryType) /\ s # <<>> /\ 1 \in DOMAIN s
  <2>1. s \in Seq(EntryType)
    BY <1>3, <1>5
  <2>2. 1 \in DOMAIN s
    BY <1>3
  <2>3. s # <<>>
    BY <2>1, <2>2, EmptySeq, LenProperties
  <2> QED
    BY <2>1, <2>2, <2>3
<1>9. e \in EventType
  BY <1>7, <1>8 DEF EventType
<1>10. e.type = "SUBSCRIBED" /\ e.tenants = s
  BY <1>7
<1> QED
  BY <1>6, <1>8, <1>9, <1>10

LEMMA EventParts ==
    ASSUME NEW e \in EventType
    PROVE  /\ e.type \in {"SUBSCRIBED", "CREATED", "MODIFIED", "DELETED"}
           /\ e.tenants \in Seq(EntryType) /\ e.tenants # <<>>
           /\ Ids(e.tenants) \subseteq Tenants
<1>1. /\ e.type \in {"SUBSCRIBED", "CREATED", "MODIFIED", "DELETED"}
      /\ e.tenants \in Seq(EntryType) /\ e.tenants # <<>>
  BY DEF EventType
<1>2. \A i \in DOMAIN e.tenants : e.tenants[i] \in EntryType
  BY <1>1, LenProperties
<1>3. \A x \in EntryType : x.id \in Tenants
  BY DEF EntryType
<1> QED
  BY <1>1, <1>2, <1>3 DEF Ids

LEMMA FramesTail ==
    ASSUME NEW s \in Seq(EventType), s # <<>>
    PROVE  /\ Tail(s) \in Seq(EventType) /\ Head(s) \in EventType
           /\ Head(s).tenants \in Seq(EntryType) /\ Head(s).tenants # <<>>
<1>1. Tail(s) \in Seq(EventType) /\ Head(s) \in EventType
  BY HeadTailProperties
<1> QED
  BY <1>1, EventParts

\* A watcher without an event.
LEMMA IdleType ==
    ASSUME NEW pc \in {"connecting", "reading"}, watcher' = IdleWatcher(pc),
           open' \in BOOLEAN, frames' \in Seq(EventType),
           ~open' => frames' = <<>>, pc = "connecting" => ~open'
    PROVE  WatcherTyped'
<1>1. watcher'.pc = pc /\ watcher'.event = None /\ watcher'.todo = <<>>
  BY DEF IdleWatcher
<1>2. watcher' \in WatcherState
  BY DEF IdleWatcher, WatcherState
<1>3. None \notin EventType
  BY FeedAssumption
<1> QED
  BY <1>1, <1>2, <1>3 DEF WatcherTyped

\* A watcher that runs the callbacks.
LEMMA BusyType ==
    ASSUME NEW pc \in {"rows", "cache"}, NEW event \in EventType,
           NEW todo \in Seq(EntryType),
           watcher' = [pc |-> pc, event |-> event, todo |-> todo],
           pc = "rows" => Satellite, Satellite => (pc = "rows" <=> todo # <<>>),
           open' \in BOOLEAN, frames' \in Seq(EventType),
           ~open' => frames' = <<>>
    PROVE  WatcherTyped'
<1>1. watcher'.pc = pc /\ watcher'.event = event /\ watcher'.todo = todo
  OBVIOUS
<1>2. watcher' \in WatcherState
  BY DEF WatcherState
<1> QED
  BY <1>1, <1>2 DEF WatcherTyped

LEMMA ChangeTypeOK ==
    ASSUME TypeOK, NEW t \in Tenants, Change(t)
    PROVE  TypeOK'
<1>1. PICK step \in Transition :
        /\ manager' = [manager EXCEPT ![t] = step[2]]
        /\ frames' = IF open
             THEN Append(frames, Event(step[3],
                    <<[id |-> t, status |-> IF step[2] = "deleted"
                                            THEN step[1] ELSE step[2]]>>))
             ELSE frames
        /\ gone' = IF step[3] = "DELETED" /\ ~open THEN gone \union {t}
                   ELSE gone
  BY DEF Change
<1>2. /\ UNCHANGED <<open, watcher, loader, activeTenants, tenantDns, writing,
                     breaks, faults>>
      /\ behind' = IF open THEN behind ELSE behind \union {t}
      /\ changes < MaxChanges /\ changes' = changes + 1
  BY DEF Change
<1>3. /\ step[1] \in Status \union {"unknown"}
      /\ step[2] \in Status \union {"deleted"}
      /\ step[3] \in {"CREATED", "MODIFIED", "DELETED"}
      /\ step[2] = "deleted" => step[1] \in Status
  BY DEF Transition, Status
<1>4. TenantsTyped' /\ SetsTyped' /\ RowsTyped' /\ LoaderTyped'
  BY <1>1, <1>2, <1>3, TypeParts
     DEF TenantsTyped, SetsTyped, RowsTyped, LoaderTyped
<1>5. CountsTyped'
  BY <1>2, CountType, FeedAssumption, TypeParts DEF CountsTyped
<1>6. frames' \in Seq(EventType) /\ (~open => frames' = <<>>)
  <2> DEFINE entry == [id |-> t, status |-> IF step[2] = "deleted"
                                           THEN step[1] ELSE step[2]]
  <2>1. entry \in EntryType
    BY <1>3 DEF EntryType, Status
  <2>2. <<entry>> \in Seq(EntryType) /\ <<entry>> # <<>>
    BY <2>1
  <2>3. Event(step[3], <<entry>>) \in EventType
    BY <1>3, <2>2 DEF Event, EventType
  <2>4. frames \in Seq(EventType) /\ (~open => frames = <<>>)
    BY DEF TypeOK
  <2> QED
    BY <1>1, <2>3, <2>4, AppendProperties
<1>7. WatcherTyped'
  <2>1. watcher' = watcher /\ open' = open /\ WatcherTyped
    BY <1>2, TypeParts
  <2> QED
    BY <1>6, <2>1 DEF WatcherTyped
<1>8. WritingTyped'
  BY <1>2, WritingKept, TypeParts
<1> QED
  BY <1>4, <1>5, <1>7, <1>8, TypePartsNext

LEMMA WatcherTypeOK ==
    ASSUME TypeOK,
           \/ Break \/ StartWatching \/ ConnectAndSubscribe \/ NoticeClose
           \/ ReceiveFrame \/ ActualizeActiveTenantsCache
    PROVE  TypeOK'
<1>0. /\ TenantsTyped /\ WatcherTyped /\ LoaderTyped /\ RowsTyped
      /\ WritingTyped /\ SetsTyped /\ CountsTyped
  BY TypeParts
<1>1. /\ open \in BOOLEAN /\ frames \in Seq(EventType) /\ (~open => frames = <<>>)
      /\ watcher.pc \in {"off", "connecting"} => ~open
      /\ watcher.pc \in {"rows", "cache"} => watcher.event \in EventType
  BY <1>0 DEF WatcherTyped
<1>2. /\ UNCHANGED <<manager, loader, tenantDns, writing>>
      /\ watcher' = watcher \/ watcher.pc # "rows"
  BY DEF Break, StartWatching, ConnectAndSubscribe, NoticeClose, ReceiveFrame,
         ActualizeActiveTenantsCache
<1>3. TenantsTyped' /\ LoaderTyped' /\ RowsTyped' /\ WritingTyped'
  BY <1>0, <1>2, WritingKept DEF TenantsTyped, LoaderTyped, RowsTyped
<1>4. CASE Break
  <2>1. CountsTyped'
    BY <1>0, <1>4, CountType, FeedAssumption DEF Break, CountsTyped
  <2>2. watcher' = watcher /\ ~open' /\ open' \in BOOLEAN /\ frames' = <<>>
    BY <1>4 DEF Break
  <2>3. WatcherTyped'
    BY <1>0, <2>2, EmptySeq DEF WatcherTyped
  <2>4. \A i \in DOMAIN frames : Ids(frames[i].tenants) \subseteq Tenants
    <3>1. \A i \in DOMAIN frames : frames[i] \in EventType
      BY <1>1, LenProperties
    <3> QED
      BY <3>1, EventParts
  <2>5. SetsTyped'
    BY <1>0, <1>4, <2>4 DEF Break, SetsTyped
  <2> QED
    BY <1>3, <2>1, <2>3, <2>5, TypePartsNext
<1>5. CASE StartWatching \/ NoticeClose
  <2>1. /\ UNCHANGED <<open, frames, activeTenants, changes, breaks, faults,
                       gone, behind>>
        /\ watcher' = IdleWatcher("connecting") /\ ~open
    BY <1>1, <1>5 DEF StartWatching, NoticeClose
  <2>2. WatcherTyped'
    BY <1>1, <2>1, IdleType
  <2>3. SetsTyped' /\ CountsTyped'
    BY <1>0, <2>1 DEF SetsTyped, CountsTyped
  <2> QED
    BY <1>3, <2>2, <2>3, TypePartsNext
<1>6. CASE ConnectAndSubscribe
  <2> DEFINE known == {t \in Tenants : Known(t)}
  <2>1. /\ UNCHANGED <<activeTenants, changes, breaks, faults, gone, behind>>
        /\ watcher' = IdleWatcher("reading") /\ open' = TRUE
    BY <1>6 DEF ConnectAndSubscribe
  <2>2. PICK order \in SetToSeqs(known) :
           frames' = IF known = {} THEN <<>>
                     ELSE <<Event("SUBSCRIBED",
                                  [i \in DOMAIN order |-> Entry(order[i])])>>
    BY <1>6 DEF ConnectAndSubscribe
  <2>3. known \in SUBSET Tenants /\ \A t \in known : Known(t)
    OBVIOUS
  <2> DEFINE e == Event("SUBSCRIBED", [i \in DOMAIN order |-> Entry(order[i])])
  <2> HIDE DEF known
  <2>4. known # {} => e \in EventType
    BY <2>3, SubscribedType
  <2>5. frames' = IF known = {} THEN <<>> ELSE <<e>>
    BY <2>2
  <2> HIDE DEF e
  <2>6. frames' \in Seq(EventType)
    BY <2>4, <2>5
  <2>7. WatcherTyped'
    BY <2>1, <2>6, IdleType
  <2>8. SetsTyped' /\ CountsTyped'
    BY <1>0, <2>1 DEF SetsTyped, CountsTyped
  <2> QED
    BY <1>3, <2>7, <2>8, TypePartsNext
<1>7. CASE ReceiveFrame
  <2>1. /\ UNCHANGED <<open, activeTenants, changes, breaks, faults, gone,
                       behind>>
        /\ frames # <<>> /\ frames' = Tail(frames)
        /\ watcher' = [pc |-> IF Satellite THEN "rows" ELSE "cache",
                       event |-> Head(frames), todo |-> Head(frames).tenants]
    BY <1>7 DEF ReceiveFrame
  <2>2. /\ Tail(frames) \in Seq(EventType) /\ Head(frames) \in EventType
        /\ Head(frames).tenants \in Seq(EntryType)
        /\ Head(frames).tenants # <<>> /\ (~open' => frames' = <<>>)
        /\ open' \in BOOLEAN
    BY <1>1, <2>1, FramesTail
  <2> DEFINE pc == IF Satellite THEN "rows" ELSE "cache"
             h == Head(frames)
  <2>3. /\ pc \in {"rows", "cache"}
        /\ (pc = "rows" <=> Satellite)
    BY FeedAssumption
  <2>4. watcher' = [pc |-> pc, event |-> h, todo |-> h.tenants]
    BY <2>1
  <2>5. h \in EventType /\ h.tenants \in Seq(EntryType) /\ h.tenants # <<>>
    BY <2>2
  <2> HIDE DEF pc, h
  <2>6. WatcherTyped'
    BY <2>1, <2>2, <2>3, <2>4, <2>5, BusyType
  <2>7. SetsTyped' /\ CountsTyped'
    BY <1>0, <2>1 DEF SetsTyped, CountsTyped
  <2> QED
    BY <1>3, <2>6, <2>7, TypePartsNext
<1>8. CASE ActualizeActiveTenantsCache
  <2>1. /\ UNCHANGED <<open, frames, changes, breaks, faults, gone, behind>>
        /\ watcher' = IdleWatcher("reading") /\ watcher.pc = "cache"
    BY <1>8 DEF ActualizeActiveTenantsCache
  <2>2. watcher.event.type \in {"SUBSCRIBED", "CREATED", "MODIFIED", "DELETED"}
    BY <1>1, <2>1, EventParts
  <2>3. activeTenants' \subseteq Tenants
    BY <1>0, <1>8, <2>2
       DEF ActualizeActiveTenantsCache, SetsTyped, UpdatedActiveTenants
  <2>4. WatcherTyped'
    BY <1>1, <2>1, IdleType
  <2>5. SetsTyped' /\ CountsTyped'
    BY <1>0, <2>1, <2>3 DEF SetsTyped, CountsTyped
  <2> QED
    BY <1>3, <2>4, <2>5, TypePartsNext
<1> QED
  BY <1>4, <1>5, <1>6, <1>7, <1>8

\* The rows that a write leaves.
LEMMA RowWritten ==
    ASSUME RowsTyped, NEW w \in Writing, tenantDns' = Written(w)
    PROVE  /\ RowsTyped'
           /\ \A t \in Tenants \ {w.id} : tenantDns'[t] = tenantDns[t]
           /\ tenantDns'[w.id] = IF Refused(w) \/ Lost(w) THEN tenantDns[w.id]
                                 ELSE w.row
<1>1. w.id \in Tenants /\ w.row \in Row
  BY DEF Writing
<1> QED
  BY <1>1 DEF Written, RowsTyped

\* A row that is there can be marked, and asking for it changes nothing of the
\* write.
LEMMA WritingType ==
    ASSUME RowsTyped, NEW t \in Tenants
    PROVE  /\ \A row \in Row : /\ Asked(t, row) \in Writing
                               /\ Asked(t, row).id = t /\ Asked(t, row).row = row
                               /\ Asked(t, row).found # "unasked"
           /\ Exists(t) =>
                LET w == [id |-> t, row |-> [tenantDns[t] EXCEPT !.removed = TRUE],
                          found |-> "unasked"] IN
                w \in Writing /\ w.id = t /\ w.row.removed
           /\ \A entry \in EntryType : RowOf(entry) \in Row
<1>1. Exists(t) => tenantDns[t] \in Row
  BY DEF Exists, RowsTyped
<1>2. Exists(t) => /\ [tenantDns[t] EXCEPT !.removed = TRUE] \in Row
                   /\ [tenantDns[t] EXCEPT !.removed = TRUE].removed
  BY <1>1 DEF Row
<1>3. \A row \in Row : /\ Asked(t, row) \in Writing
                       /\ Asked(t, row).id = t /\ Asked(t, row).row = row
                       /\ Asked(t, row).found # "unasked"
  BY DEF Asked, Writing
<1>4. \A entry \in EntryType : RowOf(entry) \in Row
  BY DEF RowOf, Row
<1> QED
  BY <1>2, <1>3, <1>4 DEF Writing

\* A writer asks for the row of its write.
LEMMA SelectTypeOK ==
    ASSUME TypeOK, NEW writer \in Writers, Select(writer)
    PROVE  TypeOK'
<1>0. /\ TenantsTyped /\ WatcherTyped /\ LoaderTyped /\ RowsTyped
      /\ WritingTyped /\ SetsTyped /\ CountsTyped
  BY TypeParts
<1> DEFINE w == writing[writer]
           asked == Asked(w.id, w.row)
<1>1. /\ w # None /\ writing' = [writing EXCEPT ![writer] = asked]
      /\ UNCHANGED <<manager, open, frames, watcher, loader, activeTenants,
                     tenantDns, changes, breaks, faults, gone, behind>>
  BY DEF Select
<1>2. w \in Writing
  BY <1>0, <1>1 DEF WritingTyped
<1>3. w.id \in Tenants /\ w.row \in Row
  BY <1>2 DEF Writing
<1>4. asked \in Writing /\ asked.id = w.id /\ asked.row = w.row
  BY <1>0, <1>3, WritingType
<1>5. /\ writer = "watcher" => WatcherWriting(w)
      /\ writer = "loader" => LoaderWriting(w.id)
  BY <1>0, <1>1 DEF WritingTyped
<1> HIDE DEF w, asked
<1>6. /\ writer = "watcher" => WatcherWriting(asked)
      /\ writer = "loader" => LoaderWriting(asked.id)
  BY <1>4, <1>5 DEF WatcherWriting
<1>7. WritingTyped'
  BY <1>0, <1>1, <1>4, <1>6, WritingSet
<1>8. /\ TenantsTyped' /\ LoaderTyped' /\ RowsTyped' /\ SetsTyped'
      /\ CountsTyped'
  BY <1>0, <1>1 DEF TenantsTyped, LoaderTyped, RowsTyped, SetsTyped, CountsTyped
<1>9. WatcherTyped'
  BY <1>0, <1>1 DEF WatcherTyped
<1> QED
  BY <1>7, <1>8, <1>9, TypePartsNext

\* A callback that ends leaves the event for the next one.
LEMMA DoneType ==
    ASSUME WatcherTyped, watcher.pc = "rows", CallbackDone,
           UNCHANGED <<open, frames>>
    PROVE  WatcherTyped'
<1>1. /\ open \in BOOLEAN /\ frames \in Seq(EventType) /\ (~open => frames = <<>>)
      /\ watcher.event \in EventType /\ watcher \in WatcherState
  BY DEF WatcherTyped
<1>2. watcher' = [pc |-> "cache", event |-> watcher.event, todo |-> <<>>]
  BY <1>1 DEF CallbackDone, WatcherState
<1> DEFINE e == watcher.event
           done == <<>>
<1>3. done \in Seq(EntryType) /\ done = <<>>
  OBVIOUS
<1>4. watcher' = [pc |-> "cache", event |-> e, todo |-> done] /\ e \in EventType
  BY <1>1, <1>2
<1> HIDE DEF e, done
<1> QED
  BY <1>1, <1>3, <1>4, BusyType

\* The tenant of the event is done: the next one, or the next callback.
LEMMA TenantDoneType ==
    ASSUME WatcherTyped, watcher.pc = "rows", TenantDone,
           UNCHANGED <<open, frames>>
    PROVE  WatcherTyped'
<1>1. /\ open \in BOOLEAN /\ frames \in Seq(EventType) /\ (~open => frames = <<>>)
      /\ watcher.event \in EventType /\ watcher \in WatcherState
      /\ watcher.todo \in Seq(EntryType) /\ watcher.todo # <<>>
      /\ watcher.pc = "rows" /\ Satellite
  BY DEF WatcherTyped, WatcherState
<1>2. /\ Tail(watcher.todo) \in Seq(EntryType)
      /\ Len(Tail(watcher.todo)) = Len(watcher.todo) - 1
      /\ Len(watcher.todo) \in Nat \ {0}
  BY <1>1, HeadTailProperties, EmptySeq
<1>3. CASE CallbackDone
  BY <1>1, <1>3, DoneType
<1>4. CASE /\ Len(watcher.todo) > 1
           /\ watcher' = [watcher EXCEPT !.todo = Tail(@)]
  <2> DEFINE todo == Tail(watcher.todo)
             e == watcher.event
  <2>1. watcher' = [pc |-> "rows", event |-> e, todo |-> todo]
    BY <1>1, <1>4 DEF WatcherState
  <2>2. todo # <<>>
    <3>1. Len(todo) # 0
      <4> DEFINE n == Len(watcher.todo)
      <4>1. n \in Nat /\ n > 1 /\ Len(todo) = n - 1
        BY <1>2, <1>4
      <4> HIDE DEF n, todo
      <4> QED
        BY <4>1
    <3> HIDE DEF todo
    <3> QED
      BY <3>1
  <2>3. todo \in Seq(EntryType) /\ e \in EventType
    BY <1>1, <1>2
  <2> HIDE DEF todo, e
  <2> QED
    BY <1>1, <2>1, <2>2, <2>3, BusyType
<1> QED
  BY <1>3, <1>4 DEF TenantDone

LEMMA SyncTypeOK ==
    ASSUME TypeOK,
           \/ SyncDeleted \/ SyncDeletedNone \/ SyncFirst \/ SyncWrites
           \/ SyncRefused \/ SyncFails
    PROVE  TypeOK'
<1>0. /\ TenantsTyped /\ WatcherTyped /\ LoaderTyped /\ RowsTyped
      /\ WritingTyped /\ SetsTyped /\ CountsTyped
  BY TypeParts
<1>1. watcher.pc = "rows"
  BY <1>0 DEF SyncDeleted, SyncDeletedNone, SyncFirst, SyncWrites, SyncRefused,
     SyncFails, SyncEnds, Due, WritingTyped, WatcherWriting
<1>2. /\ watcher \in WatcherState /\ watcher.todo \in Seq(EntryType)
      /\ watcher.todo # <<>>
  BY <1>0, <1>1 DEF WatcherTyped, WatcherState
<1>3. Head(watcher.todo) \in EntryType /\ Head(watcher.todo).id \in Tenants
  <2>1. Head(watcher.todo) \in EntryType
    BY <1>2, HeadTailProperties
  <2> QED
    BY <2>1 DEF EntryType
<1>4. UNCHANGED <<manager, loader, open, frames, activeTenants, gone, changes,
                  breaks>>
  BY DEF SyncDeleted, SyncDeletedNone, SyncFirst, SyncWrites, SyncRefused,
         SyncFails, SyncEnds
<1>5. TenantsTyped' /\ LoaderTyped'
  BY <1>0, <1>4 DEF TenantsTyped, LoaderTyped
<1>6. "watcher" \in Writers
  BY DEF Writers
<1>7. CASE SyncDeleted \/ SyncFirst
  <2>1. UNCHANGED <<watcher, loader, open, frames, tenantDns, behind, gone,
                    activeTenants, changes, breaks, faults>>
    BY <1>4, <1>7 DEF SyncDeleted, SyncFirst
  <2>2. PICK w \in Writing : /\ writing' = [writing EXCEPT !["watcher"] = w]
                             /\ WatcherWriting(w)
    <3> DEFINE entry == Head(watcher.todo)
               t == entry.id
               marked == [id |-> t, found |-> "unasked",
                          row |-> [tenantDns[t] EXCEPT !.removed = TRUE]]
               asked == Asked(t, RowOf(entry))
    <3>1. ASSUME SyncDeleted
          PROVE  /\ marked \in Writing /\ WatcherWriting(marked)
                 /\ writing' = [writing EXCEPT !["watcher"] = marked]
      <4>1. Exists(t) /\ watcher.event.type = "DELETED"
            /\ writing' = [writing EXCEPT !["watcher"] = marked]
        BY <3>1 DEF SyncDeleted, DeleteTenant
      <4>2. marked \in Writing /\ marked.id = t /\ marked.row.removed
        BY <1>0, <1>3, <4>1, WritingType
      <4> QED
        BY <1>1, <4>1, <4>2 DEF WatcherWriting
    <3>2. ASSUME SyncFirst
          PROVE  /\ asked \in Writing /\ WatcherWriting(asked)
                 /\ writing' = [writing EXCEPT !["watcher"] = asked]
      <4>1. watcher.event.type # "DELETED"
            /\ writing' = [writing EXCEPT !["watcher"] = asked]
        BY <3>2 DEF SyncFirst, UpsertTenantFromTM
      <4>2. RowOf(entry) \in Row
        BY <1>0, <1>3, WritingType
      <4>3. asked \in Writing /\ asked.id = t /\ asked.row = RowOf(entry)
        BY <1>0, <1>3, <4>2, WritingType
      <4> QED
        BY <1>1, <4>1, <4>3 DEF WatcherWriting
    <3> QED
      BY <1>7, <3>1, <3>2
  <2>3. WritingTyped'
    BY <1>0, <1>6, <2>1, <2>2, WritingSet
  <2>4. WatcherTyped'
    BY <1>0, <2>1 DEF WatcherTyped
  <2>5. RowsTyped' /\ SetsTyped' /\ CountsTyped'
    BY <1>0, <2>1 DEF RowsTyped, SetsTyped, CountsTyped
  <2> QED
    BY <1>5, <2>3, <2>4, <2>5, TypePartsNext
<1>8. CASE SyncDeletedNone \/ SyncWrites
  <2>1. TenantDone /\ faults' = faults
    BY <1>8 DEF SyncDeletedNone, SyncWrites
  <2>2. WatcherTyped'
    BY <1>0, <1>1, <1>4, <2>1, TenantDoneType
  <2>3. CASE SyncDeletedNone
    <3>1. writing["watcher"] = None /\ writing' = writing
          /\ tenantDns' = tenantDns /\ behind' \subseteq behind
      BY <2>3 DEF SyncDeletedNone, Repair
    <3>2. writing["loader"] # None => LoaderWriting(writing["loader"].id)'
      BY <1>0, <1>4, <3>1 DEF WritingTyped, LoaderWriting
    <3>3. /\ writing' \in [Writers -> Writing \union {None}]
          /\ writing'["watcher"] = None
          /\ writing'["loader"] = writing["loader"]
      BY <1>0, <3>1 DEF WritingTyped
    <3>4. WritingTyped'
      BY <3>2, <3>3 DEF WritingTyped
    <3> QED
      BY <1>0, <1>4, <1>5, <2>1, <2>2, <3>1, <3>4, TypePartsNext
         DEF RowsTyped, SetsTyped, CountsTyped
  <2>4. CASE SyncWrites
    <3> DEFINE w == writing["watcher"]
    <3>1. /\ w # None /\ tenantDns' = Written(w) /\ Ended("watcher")
          /\ behind' \subseteq behind \union {w.id}
      BY <2>4 DEF SyncWrites, Due, Judge, Repair
    <3>2. w \in Writing
      BY <1>0, <1>6, <3>1 DEF WritingTyped
    <3> HIDE DEF w
    <3>3. RowsTyped' /\ w.id \in Tenants
      BY <1>0, <3>1, <3>2, RowWritten DEF Writing
    <3>4. WritingTyped'
      BY <1>0, <1>4, <1>6, <3>1, WritingEnded
    <3>5. SetsTyped' /\ CountsTyped'
      BY <1>0, <1>4, <2>1, <3>1, <3>3 DEF SetsTyped, CountsTyped
    <3> QED
      BY <1>5, <2>2, <3>3, <3>4, <3>5, TypePartsNext
  <2> QED
    BY <1>8, <2>3, <2>4
<1>9. CASE SyncRefused \/ SyncFails
  <2>1. /\ CallbackDone /\ Ended("watcher") /\ tenantDns' = tenantDns
        /\ behind' = behind \union Ids(watcher.todo)
    BY <1>9 DEF SyncRefused, SyncFails, SyncEnds
  <2>2. Ids(watcher.todo) \subseteq Tenants
    <3>1. \A i \in DOMAIN watcher.todo : watcher.todo[i] \in EntryType
      BY <1>2, LenProperties
    <3>2. \A x \in EntryType : x.id \in Tenants
      BY DEF EntryType
    <3> QED
      BY <3>1, <3>2 DEF Ids
  <2>3. SetsTyped' /\ RowsTyped'
    BY <1>0, <1>4, <2>1, <2>2 DEF SetsTyped, RowsTyped
  <2>4. faults' = faults \/ (faults < MaxFaults /\ faults' = faults + 1)
    BY <1>9 DEF SyncRefused, SyncFails, Fail
  <2>5. CountsTyped'
    BY <1>0, <1>4, <2>4, CountType, FeedAssumption DEF CountsTyped
  <2>6. WritingTyped'
    BY <1>0, <1>4, <1>6, <2>1, WritingEnded
  <2>7. WatcherTyped'
    BY <1>0, <1>1, <1>4, <2>1, DoneType
  <2> QED
    BY <1>5, <2>3, <2>5, <2>6, <2>7, TypePartsNext
<1> QED
  BY <1>7, <1>8, <1>9

\* What the loader still has to do, less a tenant.
LEMMA WithoutType ==
    ASSUME LoaderTyped, NEW t \in Tenants, loader.pc \in {"upsert", "delete"},
           loader' = [loader EXCEPT !.todo = Without(t)]
    PROVE  /\ LoaderTyped' /\ loader'.pc = loader.pc /\ loader'.list = loader.list
           /\ loader'.todo = Without(t)
<1>1. Without(t) \subseteq loader.todo
  BY DEF Without
<1>2. /\ loader'.pc = loader.pc /\ loader'.list = loader.list
      /\ loader'.todo = Without(t) /\ loader' \in LoaderState
  BY <1>1 DEF LoaderTyped, LoaderState
<1> QED
  BY <1>1, <1>2 DEF LoaderTyped

\* A tenant is done, its write has ended or failed or was not necessary.
LEMMA LoaderDoneType ==
    ASSUME TypeOK, NEW t \in Tenants, loader.pc \in {"upsert", "delete"},
           loader' = [loader EXCEPT !.todo = Without(t)],
           behind' \subseteq behind \union {t}, RowsTyped',
           Ended("loader"),
           UNCHANGED <<manager, open, frames, watcher, activeTenants, changes,
                       breaks, gone>>,
           faults' = faults \/ (faults < MaxFaults /\ faults' = faults + 1)
    PROVE  TypeOK'
<1>0. /\ TenantsTyped /\ WatcherTyped /\ LoaderTyped /\ RowsTyped
      /\ WritingTyped /\ SetsTyped /\ CountsTyped
  BY TypeParts
<1>1. LoaderTyped'
  BY <1>0, WithoutType
<1>2. "loader" \in Writers
  BY DEF Writers
<1>3. WritingTyped'
  BY <1>0, <1>2, WritingEnded
<1>4. TenantsTyped' /\ SetsTyped'
  BY <1>0 DEF TenantsTyped, SetsTyped
<1>5. CountsTyped'
  BY <1>0, CountType, FeedAssumption DEF CountsTyped
<1>6. WatcherTyped'
  BY <1>0 DEF WatcherTyped
<1> QED
  BY <1>1, <1>3, <1>4, <1>5, <1>6, TypePartsNext

LEMMA LoaderTypeOK ==
    ASSUME TypeOK,
           \/ ListTenants \/ UpsertListed \/ FindAll \/ DeleteUnlisted
           \/ DeleteUnlistedNone \/ LoaderWrites \/ LoadingDone
           \/ UpsertListedFails \/ FindAllFails \/ DeleteUnlistedFails
           \/ PurgeRemoved
    PROVE  TypeOK'
<1>0. /\ TenantsTyped /\ WatcherTyped /\ LoaderTyped /\ RowsTyped
      /\ WritingTyped /\ SetsTyped /\ CountsTyped
  BY TypeParts
<1>1. UNCHANGED <<manager, open, frames, watcher, activeTenants, changes,
                  breaks, gone>>
  BY DEF ListTenants, UpsertListed, FindAll, DeleteUnlisted, DeleteUnlistedNone,
         LoaderWrites, LoadingDone, UpsertListedFails, FindAllFails,
         DeleteUnlistedFails, PurgeRemoved, WriteFails
<1>2. faults' = faults \/ (faults < MaxFaults /\ faults' = faults + 1)
  BY DEF ListTenants, UpsertListed, FindAll, DeleteUnlisted, DeleteUnlistedNone,
         LoaderWrites, LoadingDone, UpsertListedFails, FindAllFails,
         DeleteUnlistedFails, PurgeRemoved, Fail
<1>3. TenantsTyped' /\ CountsTyped'
  BY <1>0, <1>1, <1>2, CountType, FeedAssumption DEF TenantsTyped, CountsTyped
<1>4. WatcherTyped'
  BY <1>0, <1>1 DEF WatcherTyped
<1>5. \A x \in EntryType : x.id \in Tenants
  BY DEF EntryType
<1>6. "loader" \in Writers
  BY DEF Writers
<1>7. CASE UpsertListed
  <2>1. PICK entry \in loader.todo :
          writing' = [writing EXCEPT !["loader"] =
                        Asked(entry.id, RowOf(entry))]
    BY <1>7 DEF UpsertListed, UpsertTenantFromTM
  <2>2. loader.pc = "upsert" /\ UNCHANGED <<loader, tenantDns, behind>>
    BY <1>7 DEF UpsertListed
  <2>3. entry \in EntryType /\ entry.id \in Tenants
    BY <1>0, <1>5, <2>2 DEF LoaderTyped
  <2> DEFINE w == Asked(entry.id, RowOf(entry))
  <2>4. RowOf(entry) \in Row
    BY <1>0, <2>3, WritingType
  <2>5. w \in Writing /\ w.id = entry.id
    BY <1>0, <2>3, <2>4, WritingType
  <2>6. LoaderWriting(w.id) /\ writing' = [writing EXCEPT !["loader"] = w]
    BY <2>1, <2>2, <2>5 DEF LoaderWriting
  <2> HIDE DEF w
  <2>7. WritingTyped'
    BY <1>0, <1>1, <1>6, <2>2, <2>5, <2>6, WritingSet
  <2>8. LoaderTyped' /\ RowsTyped' /\ SetsTyped'
    BY <1>0, <1>1, <2>2 DEF LoaderTyped, RowsTyped, SetsTyped
  <2> QED
    BY <1>3, <1>4, <2>7, <2>8, TypePartsNext
<1>8. CASE DeleteUnlisted
  <2> DEFINE marked(t) == [id |-> t, found |-> "unasked",
                           row |-> [tenantDns[t] EXCEPT !.removed = TRUE]]
  <2>1. PICK t \in loader.todo :
          Exists(t) /\ writing' = [writing EXCEPT !["loader"] = marked(t)]
    BY <1>8 DEF DeleteUnlisted, DeleteTenant
  <2>2. loader.pc = "delete" /\ UNCHANGED <<loader, tenantDns, behind>>
    BY <1>8 DEF DeleteUnlisted
  <2>3. t \in Tenants
    BY <1>0, <2>2 DEF LoaderTyped
  <2>4. marked(t) \in Writing /\ marked(t).id = t
    BY <1>0, <2>1, <2>3, WritingType
  <2> DEFINE w == marked(t)
  <2>5. LoaderWriting(w.id) /\ writing' = [writing EXCEPT !["loader"] = w]
    BY <2>1, <2>2, <2>4 DEF LoaderWriting
  <2>6. w \in Writing
    BY <2>4
  <2> HIDE DEF w
  <2>7. WritingTyped'
    BY <1>0, <1>1, <1>6, <2>2, <2>5, <2>6, WritingSet
  <2>8. LoaderTyped' /\ RowsTyped' /\ SetsTyped'
    BY <1>0, <1>1, <2>2 DEF LoaderTyped, RowsTyped, SetsTyped
  <2> QED
    BY <1>3, <1>4, <2>7, <2>8, TypePartsNext
<1>9. CASE LoaderWrites
  <2> DEFINE w == writing["loader"]
  <2>1. /\ w # None /\ tenantDns' = Written(w) /\ Ended("loader")
        /\ behind' \subseteq behind \union {w.id}
        /\ loader' = [loader EXCEPT !.todo = Without(w.id)]
    BY <1>9 DEF LoaderWrites, Due, Judge
  <2>2. w \in Writing /\ LoaderWriting(w.id)
    BY <1>0, <1>6, <2>1 DEF WritingTyped
  <2> HIDE DEF w
  <2>3. RowsTyped' /\ w.id \in Tenants
    BY <1>0, <2>1, <2>2, RowWritten DEF Writing
  <2>4. loader.pc \in {"upsert", "delete"}
    BY <2>2 DEF LoaderWriting
  <2> QED
    BY <1>1, <1>2, <2>1, <2>3, <2>4, LoaderDoneType
<1>10. CASE UpsertListedFails \/ DeleteUnlistedFails
  <2>1. PICK t \in Tenants : WriteFails(t)
    BY <1>0, <1>5, <1>10
       DEF LoaderTyped, UpsertListedFails, DeleteUnlistedFails
  <2>2. loader.pc \in {"upsert", "delete"}
    BY <1>10 DEF UpsertListedFails, DeleteUnlistedFails
  <2>3. RowsTyped'
    BY <1>0, <2>1 DEF WriteFails, RowsTyped
  <2> QED
    BY <1>1, <1>2, <2>1, <2>2, <2>3, LoaderDoneType DEF WriteFails
<1>11. CASE DeleteUnlistedNone
  <2>1. PICK t \in loader.todo : /\ loader' = [loader EXCEPT !.todo = Without(t)]
                                 /\ tenantDns' = tenantDns
                                 /\ behind' \subseteq behind \union {t}
    BY <1>11 DEF DeleteUnlistedNone, Judge
  <2>2. /\ loader.pc = "delete" /\ writing' = writing
        /\ writing["loader"] = None
    BY <1>11 DEF DeleteUnlistedNone
  <2>3. t \in Tenants
    BY <1>0, <2>2 DEF LoaderTyped
  <2>4. LoaderTyped'
    BY <1>0, <2>1, <2>2, <2>3, WithoutType
  <2>5. WritingTyped'
    BY <1>0, <1>1, <2>2, WritingKept
  <2>6. RowsTyped' /\ SetsTyped'
    BY <1>0, <1>1, <2>1, <2>3 DEF RowsTyped, SetsTyped
  <2> QED
    BY <1>3, <1>4, <2>4, <2>5, <2>6, TypePartsNext
<1>12. CASE ListTenants
  <2> DEFINE list == {Entry(t) : t \in {u \in Tenants : Known(u)}}
  <2>1. list \subseteq EntryType
    BY DEF Entry, EntryType, Known
  <2>2. /\ loader' = [pc |-> "upsert", list |-> list, todo |-> list]
        /\ loader.pc = "list" /\ UNCHANGED <<behind, tenantDns, writing>>
    BY <1>12 DEF ListTenants
  <2> HIDE DEF list
  <2>3. LoaderTyped'
    BY <2>1, <2>2 DEF LoaderTyped, LoaderState
  <2>4. SetsTyped' /\ RowsTyped'
    BY <1>0, <1>1, <2>2 DEF SetsTyped, RowsTyped
  <2>5. writing["loader"] = None
    BY <1>0, <2>2 DEF WritingTyped, LoaderWriting
  <2>6. WritingTyped'
    BY <1>0, <1>1, <2>2, <2>5, WritingKept
  <2> QED
    BY <1>3, <1>4, <2>3, <2>4, <2>6, TypePartsNext
<1>13. CASE FindAll \/ FindAllFails \/ LoadingDone
  <2>1. /\ UNCHANGED <<behind, tenantDns, writing>> /\ loader.todo = {}
    BY <1>13 DEF FindAll, FindAllFails, LoadingDone
  <2>2. LoaderTyped'
    <3>1. ASSUME FindAll PROVE LoaderTyped'
      <4> DEFINE extra == {t \in Tenants : Exists(t) /\ ~Listed(t)}
      <4>1. extra \subseteq Tenants
        OBVIOUS
      <4>2. loader' = [loader EXCEPT !.pc = "delete", !.todo = extra]
        BY <3>1 DEF FindAll
      <4> HIDE DEF extra
      <4> QED
        BY <1>0, <4>1, <4>2 DEF LoaderTyped, LoaderState
    <3>2. ASSUME FindAllFails \/ LoadingDone PROVE LoaderTyped'
      BY <3>2 DEF LoaderTyped, LoaderState, FindAllFails, LoadingDone
    <3> QED
      BY <1>13, <3>1, <3>2
  <2>3. SetsTyped' /\ RowsTyped'
    BY <1>0, <1>1, <2>1 DEF SetsTyped, RowsTyped
  <2>4. writing["loader"] = None
    BY <1>0, <2>1 DEF WritingTyped, LoaderWriting
  <2>5. WritingTyped'
    BY <1>0, <1>1, <2>1, <2>4, WritingKept
  <2> QED
    BY <1>3, <1>4, <2>2, <2>3, <2>5, TypePartsNext
<1>14. CASE PurgeRemoved
  <2>1. UNCHANGED <<loader, behind, writing>>
    BY <1>14 DEF PurgeRemoved
  <2>2. RowsTyped'
    BY <1>0, <1>14 DEF RowsTyped, PurgeRemoved
  <2>3. SetsTyped' /\ LoaderTyped'
    BY <1>0, <1>1, <2>1 DEF SetsTyped, LoaderTyped
  <2>4. WritingTyped'
    BY <1>0, <1>1, <2>1, WritingKept
  <2> QED
    BY <1>3, <1>4, <2>2, <2>3, <2>4, TypePartsNext
<1> QED
  BY <1>7, <1>8, <1>9, <1>10, <1>11, <1>12, <1>13, <1>14

LEMMA InitTypeOK == Init => TypeOK
<1> SUFFICES ASSUME Init PROVE TypeOK
  OBVIOUS
<1>1. TenantsTyped /\ RowsTyped /\ SetsTyped /\ CountsTyped
  BY FeedAssumption DEF Init, TenantsTyped, RowsTyped, SetsTyped, CountsTyped
<1>2. LoaderTyped
  BY DEF Init, LoaderTyped, LoaderState
<1>3. watcher \in WatcherState
  BY DEF Init, IdleWatcher, WatcherState
<1>4. watcher.pc = "off" /\ watcher.event = None /\ watcher.todo = <<>>
      /\ open = FALSE /\ frames = <<>> /\ None \notin EventType
  BY FeedAssumption DEF Init, IdleWatcher
<1>5. frames \in Seq(EventType)
  BY <1>4
<1>6. WatcherTyped
  BY <1>3, <1>4, <1>5 DEF WatcherTyped
<1>7. WritingTyped
  BY DEF Init, WritingTyped, Writers
<1> QED
  BY <1>1, <1>2, <1>6, <1>7, TypeParts

LEMMA NextTypeOK == TypeOK /\ [Next]_vars => TypeOK'
<1> SUFFICES ASSUME TypeOK, [Next]_vars PROVE TypeOK'
  OBVIOUS
<1>1. CASE \E t \in Tenants : Change(t)
  BY <1>1, ChangeTypeOK
<1>2. CASE Break \/ WatcherStep \/ SyncFails
  BY <1>2, WatcherTypeOK, SyncTypeOK, SelectTypeOK DEF WatcherStep, Writers
<1>3. CASE \/ LoaderStep \/ UpsertListedFails \/ FindAllFails
           \/ DeleteUnlistedFails \/ PurgeRemoved
  BY <1>3, LoaderTypeOK, SelectTypeOK DEF LoaderStep, Writers
<1>4. CASE UNCHANGED vars
  <2>1. /\ TenantsTyped' /\ LoaderTyped' /\ RowsTyped' /\ SetsTyped'
        /\ CountsTyped'
    BY <1>4, TypeParts
       DEF vars, TenantsTyped, LoaderTyped, RowsTyped, SetsTyped, CountsTyped
  <2>2. WatcherTyped'
    BY <1>4, TypeParts DEF vars, WatcherTyped
  <2>3. WritingTyped'
    BY <1>4, WritingKept, TypeParts DEF vars
  <2> QED
    BY <2>1, <2>2, <2>3, TypePartsNext
<1> QED
  BY <1>1, <1>2, <1>3, <1>4 DEF Next

\* Every state of the feed is typed; the watcher has an event exactly while it
\* runs the callbacks of it (readPump, SyncTenantsWithTM,
\* ActualizeActiveTenantsCache).
THEOREM FeedTypeCorrect == Spec => []TypeOK
<1> QED
  BY InitTypeOK, NextTypeOK, PTL DEF Spec

-----------------------------------------------------------------------------
(* Active tenants                                                          *)
(*                                                                         *)
(* What the cache holds is explained by the events still to come: the      *)
(* events that enter a tenant and those that take it away are followed, in *)
(* the frames, by the one that tells of its last status, unless the cache  *)
(* is right already.                                                       *)

Enters(t) == {e \in EventType : /\ e.type \in {"MODIFIED", "SUBSCRIBED"}
                                /\ [id |-> t, status |-> "ACTIVE"] \in ToSet(e.tenants)}
Removes(t) == {e \in EventType : e.type = "DELETED" /\ t \in Ids(e.tenants)}
Leaves(t) == Removes(t) \union
             {e \in EventType : /\ e.type \in {"MODIFIED", "SUBSCRIBED"}
                                /\ [id |-> t, status |-> "SUSPENDED"]
                                     \in ToSet(e.tenants)}

\* The cache has the tenant, once the callbacks that run are done.
Busy == watcher.pc \in {"rows", "cache"}
Cached(t) == IF Busy THEN \/ watcher.event \in Enters(t)
                          \/ t \in activeTenants /\ watcher.event \notin Leaves(t)
             ELSE t \in activeTenants

ActiveWell(t) == open /\ manager[t] = "ACTIVE" =>
    (Cached(t) \/ Has(frames, Enters(t))) /\ Followed(frames, Leaves(t), Enters(t))
SuspendedWell(t) == open /\ manager[t] = "SUSPENDED" =>
    (~Cached(t) \/ Has(frames, Leaves(t))) /\ Followed(frames, Enters(t), Leaves(t))
FreshWell(t) == manager[t] \in {"CREATED", "unknown"} =>
    ~Cached(t) /\ ~Has(frames, Enters(t))
DeletedWell(t) == manager[t] = "deleted" /\ t \notin gone =>
    (~Cached(t) \/ Has(frames, Removes(t))) /\ Followed(frames, Enters(t), Removes(t))

ActiveInv == \A t \in Tenants : /\ ActiveWell(t) /\ SuspendedWell(t)
                                /\ FreshWell(t) /\ DeletedWell(t)

\* A step that leaves the feed and what the cache is about to have alone.
LEMMA ActiveKept ==
    ASSUME ActiveInv, UNCHANGED <<manager, open, frames, gone>>,
           \A t \in Tenants : Cached(t)' <=> Cached(t)
    PROVE  ActiveInv'
<1> SUFFICES ASSUME NEW t \in Tenants
             PROVE  /\ ActiveWell(t)' /\ SuspendedWell(t)'
                    /\ FreshWell(t)' /\ DeletedWell(t)'
  BY DEF ActiveInv
<1>1. Cached(t)' <=> Cached(t)
  OBVIOUS
<1>2. ActiveWell(t) /\ SuspendedWell(t) /\ FreshWell(t) /\ DeletedWell(t)
  BY DEF ActiveInv
<1> QED
  BY <1>1, <1>2 DEF ActiveWell, SuspendedWell, FreshWell, DeletedWell

\* An event of one tenant says of that one what it says, and nothing of others.
LEMMA OneEntry ==
    ASSUME NEW t \in Tenants, NEW type \in {"CREATED", "MODIFIED", "DELETED"},
           NEW status \in Status, NEW e,
           e = Event(type, <<[id |-> t, status |-> status]>>)
    PROVE  /\ e \in EventType
           /\ \A u \in Tenants :
                /\ e \in Enters(u) <=> u = t /\ type = "MODIFIED" /\ status = "ACTIVE"
                /\ e \in Removes(u) <=> u = t /\ type = "DELETED"
                /\ e \in Leaves(u) <=> u = t /\ (\/ type = "DELETED"
                                                 \/ /\ type = "MODIFIED"
                                                    /\ status = "SUSPENDED")
<1> DEFINE entry == [id |-> t, status |-> status]
<1>1. entry \in EntryType
  BY DEF EntryType
<1>2. entry.id = t /\ \A u, s : [id |-> u, status |-> s] = entry
                                 <=> u = t /\ s = status
  OBVIOUS
<1>3. e = [type |-> type, tenants |-> <<entry>>]
  BY DEF Event
<1> HIDE DEF entry
<1>4. <<entry>> \in Seq(EntryType) /\ <<entry>> # <<>>
  BY <1>1
<1>5. e.type = type /\ e.tenants = <<entry>>
  BY <1>3
<1>6. e \in EventType
  <2> DEFINE tenants == <<entry>>
  <2>1. e = [type |-> type, tenants |-> tenants] /\ tenants \in Seq(EntryType)
        /\ tenants # <<>>
    BY <1>3, <1>4
  <2> HIDE DEF tenants
  <2> QED
    BY <2>1 DEF EventType
<1>7. DOMAIN <<entry>> = {1} /\ <<entry>>[1] = entry
  OBVIOUS
<1>8. ToSet(e.tenants) = {entry} /\ Ids(e.tenants) = {t}
  BY <1>2, <1>5, <1>7 DEF ToSet, Ids
<1>9. ASSUME NEW u \in Tenants
      PROVE  /\ e \in Enters(u) <=> u = t /\ type = "MODIFIED" /\ status = "ACTIVE"
             /\ e \in Removes(u) <=> u = t /\ type = "DELETED"
  BY <1>2, <1>5, <1>6, <1>8 DEF Enters, Removes
<1>10. ASSUME NEW u \in Tenants
       PROVE  e \in Leaves(u) <=> u = t /\ (\/ type = "DELETED"
                                            \/ /\ type = "MODIFIED"
                                               /\ status = "SUSPENDED")
  BY <1>2, <1>5, <1>6, <1>8, <1>9 DEF Leaves
<1> QED
  BY <1>6, <1>9, <1>10

LEMMA ChangeActive ==
    ASSUME TypeOK, ActiveInv, NEW t \in Tenants, Change(t)
    PROVE  ActiveInv'
<1>1. PICK step \in Transition :
        /\ manager[t] = step[1]
        /\ manager' = [manager EXCEPT ![t] = step[2]]
        /\ frames' = IF open
             THEN Append(frames, Event(step[3],
                    <<[id |-> t, status |-> IF step[2] = "deleted"
                                            THEN step[1] ELSE step[2]]>>))
             ELSE frames
        /\ gone' = IF step[3] = "DELETED" /\ ~open THEN gone \union {t}
                   ELSE gone
  BY DEF Change
<1> DEFINE old == step[1]
           new == step[2]
           type == step[3]
           status == IF new = "deleted" THEN old ELSE new
           e == Event(type, <<[id |-> t, status |-> status]>>)
<1>2. UNCHANGED <<open, watcher, activeTenants>>
  BY DEF Change
<1>3. /\ type \in {"CREATED", "MODIFIED", "DELETED"}
      /\ status \in Status /\ new \in Status \union {"deleted"}
      /\ type = "DELETED" <=> new = "deleted"
      /\ type = "CREATED" <=> new = "CREATED"
      /\ new = "CREATED" => old = "unknown"
      /\ new # "deleted" => status = new
  BY DEF Transition, Status
<1>4. /\ frames' = IF open THEN Append(frames, e) ELSE frames
      /\ gone' = IF type = "DELETED" /\ ~open THEN gone \union {t} ELSE gone
      /\ manager[t] = old
      /\ manager'[t] = new /\ \A u \in Tenants \ {t} : manager'[u] = manager[u]
  BY <1>1 DEF TypeOK
<1> HIDE DEF old, new, type, status
<1>5. e \in EventType
  BY <1>3, OneEntry
<1>6. \A u \in Tenants :
        /\ e \in Enters(u) <=> u = t /\ type = "MODIFIED" /\ status = "ACTIVE"
        /\ e \in Removes(u) <=> u = t /\ type = "DELETED"
        /\ e \in Leaves(u) <=> u = t /\ (\/ type = "DELETED"
                                         \/ type = "MODIFIED" /\ status = "SUSPENDED")
  BY <1>3, OneEntry
<1> HIDE DEF e
<1>7. ASSUME NEW u \in Tenants
      PROVE  /\ ActiveWell(u)' /\ SuspendedWell(u)'
             /\ FreshWell(u)' /\ DeletedWell(u)'
  <2>1. Cached(u)' <=> Cached(u)
    BY <1>2 DEF Cached, Busy
  <2>2. ActiveWell(u) /\ SuspendedWell(u) /\ FreshWell(u) /\ DeletedWell(u)
    BY DEF ActiveInv
  <2>3. frames \in Seq(EventType) /\ open \in BOOLEAN
    BY DEF TypeOK
  <2>4. CASE ~open
    <3>1. frames' = frames /\ ~open'
      BY <1>2, <1>4, <2>4
    <3>2. CASE u = t
      BY <1>3, <1>4, <2>1, <2>2, <2>4, <3>1, <3>2
         DEF ActiveWell, SuspendedWell, FreshWell, DeletedWell, Status
    <3>3. CASE u # t
      BY <1>4, <2>1, <2>2, <3>1, <3>3
         DEF ActiveWell, SuspendedWell, FreshWell, DeletedWell
    <3> QED
      BY <3>2, <3>3
  <2>5. CASE open
    <3>1. frames' = Append(frames, e) /\ gone' = gone /\ open'
      BY <1>2, <1>4, <2>5
    <3>2. /\ Has(frames, Enters(u)) \/ e \in Enters(u) <=> Has(frames', Enters(u))
          /\ Has(frames, Leaves(u)) \/ e \in Leaves(u) <=> Has(frames', Leaves(u))
          /\ Has(frames, Removes(u)) \/ e \in Removes(u) <=> Has(frames', Removes(u))
      BY <1>5, <2>3, <3>1, HasAppend
    <3>3. e \notin Enters(u) =>
            /\ e \in Leaves(u) \/ Followed(frames, Enters(u), Leaves(u))
                 => Followed(frames', Enters(u), Leaves(u))
            /\ e \in Removes(u) \/ Followed(frames, Enters(u), Removes(u))
                 => Followed(frames', Enters(u), Removes(u))
      BY <1>5, <2>3, <3>1, FollowedAppend
    <3>4. e \notin Leaves(u) =>
            (e \in Enters(u) \/ Followed(frames, Leaves(u), Enters(u))
               => Followed(frames', Leaves(u), Enters(u)))
      BY <1>5, <2>3, <3>1, FollowedAppend
    <3>5. CASE u = t
      <4>1. CASE new = "ACTIVE"
        BY <1>3, <1>4, <1>6, <3>2, <3>4, <3>5, <4>1
           DEF ActiveWell, SuspendedWell, FreshWell, DeletedWell
      <4>2. CASE new = "SUSPENDED"
        BY <1>3, <1>4, <1>6, <3>2, <3>3, <3>5, <4>2
           DEF ActiveWell, SuspendedWell, FreshWell, DeletedWell
      <4>3. CASE new = "deleted"
        BY <1>3, <1>4, <1>6, <3>2, <3>3, <3>5, <4>3
           DEF ActiveWell, SuspendedWell, FreshWell, DeletedWell
      <4>4. CASE new = "CREATED"
        BY <1>3, <1>4, <1>6, <2>1, <2>2, <3>2, <3>5, <4>4
           DEF ActiveWell, SuspendedWell, FreshWell, DeletedWell
      <4> QED
        BY <1>3, <4>1, <4>2, <4>3, <4>4 DEF Status
    <3>6. CASE u # t
      <4>1. e \notin Enters(u) /\ e \notin Leaves(u) /\ e \notin Removes(u)
        BY <1>6, <3>6
      <4> QED
        BY <1>2, <1>4, <2>1, <2>2, <3>1, <3>2, <3>3, <3>4, <3>6, <4>1
           DEF ActiveWell, SuspendedWell, FreshWell, DeletedWell
    <3> QED
      BY <3>5, <3>6
  <2> QED
    BY <2>4, <2>5
<1> QED
  BY <1>7 DEF ActiveInv

\* A new subscription tells of every known tenant, as it is.
LEMMA SubscribedSets ==
    ASSUME NEW e \in EventType, e.type = "SUBSCRIBED",
           \A u \in Tenants : Known(u) =>
             \E i \in DOMAIN e.tenants : e.tenants[i] = Entry(u),
           \A i \in DOMAIN e.tenants : \E u \in Tenants :
             Known(u) /\ e.tenants[i] = Entry(u),
           NEW t \in Tenants
    PROVE  /\ e \in Enters(t) <=> manager[t] = "ACTIVE"
           /\ e \in Leaves(t) <=> manager[t] = "SUSPENDED"
<1>1. ASSUME NEW status \in Status
      PROVE  [id |-> t, status |-> status] \in ToSet(e.tenants)
             <=> manager[t] = status
  <2>1. ASSUME manager[t] = status
        PROVE  [id |-> t, status |-> status] \in ToSet(e.tenants)
    <3>1. Known(t)
      BY <2>1 DEF Known
    <3>2. PICK i \in DOMAIN e.tenants : e.tenants[i] = Entry(t)
      BY <3>1
    <3> QED
      BY <2>1, <3>2 DEF ToSet, Entry
  <2>2. ASSUME [id |-> t, status |-> status] \in ToSet(e.tenants)
        PROVE  manager[t] = status
    <3>1. PICK i \in DOMAIN e.tenants :
            e.tenants[i] = [id |-> t, status |-> status]
      BY <2>2 DEF ToSet
    <3>2. PICK u \in Tenants : e.tenants[i] = Entry(u)
      OBVIOUS
    <3> QED
      BY <3>1, <3>2 DEF Entry
  <2> QED
    BY <2>1, <2>2
<1>2. "ACTIVE" \in Status /\ "SUSPENDED" \in Status
  BY DEF Status
<1>3. e \notin Removes(t)
  BY DEF Removes
<1>4. e \in Enters(t) <=> manager[t] = "ACTIVE"
  BY <1>1, <1>2 DEF Enters
<1>5. e \in Leaves(t) <=> manager[t] = "SUSPENDED"
  BY <1>1, <1>2, <1>3 DEF Leaves
<1> QED
  BY <1>4, <1>5

LEMMA ConnectActive ==
    ASSUME TypeOK, ActiveInv, ConnectAndSubscribe
    PROVE  ActiveInv'
<1> DEFINE known == {t \in Tenants : Known(t)}
<1>1. /\ watcher.pc = "connecting" /\ watcher' = IdleWatcher("reading")
      /\ UNCHANGED <<manager, activeTenants, gone>>
  BY DEF ConnectAndSubscribe
<1>2. PICK order \in SetToSeqs(known) :
         frames' = IF known = {} THEN <<>>
                   ELSE <<Event("SUBSCRIBED",
                                [i \in DOMAIN order |-> Entry(order[i])])>>
  BY DEF ConnectAndSubscribe
<1> DEFINE e == Event("SUBSCRIBED", [i \in DOMAIN order |-> Entry(order[i])])
<1>3. known \in SUBSET Tenants /\ \A t \in Tenants : t \in known <=> Known(t)
  OBVIOUS
<1> HIDE DEF known
<1>4. known # {} =>
        /\ e \in EventType /\ e.type = "SUBSCRIBED"
        /\ \A t \in known : \E i \in DOMAIN e.tenants : e.tenants[i] = Entry(t)
        /\ \A i \in DOMAIN e.tenants : \E t \in known : e.tenants[i] = Entry(t)
  BY <1>3, SubscribedType
<1>5. frames' = IF known = {} THEN <<>> ELSE <<e>>
  BY <1>2
<1> HIDE DEF e
<1>6. ASSUME NEW t \in Tenants
      PROVE  /\ ActiveWell(t)' /\ SuspendedWell(t)'
             /\ FreshWell(t)' /\ DeletedWell(t)'
  <2>1. ~Busy /\ ~Busy'
    BY <1>1 DEF Busy, IdleWatcher
  <2>2. Cached(t)' <=> Cached(t)
    BY <1>1, <2>1 DEF Cached
  <2>3. frames = <<>>
    BY <1>1 DEF TypeOK
  <2>4. ~Has(frames, Removes(t))
    BY <2>3, EmptyQueue
  <2>5. SuspendedWell(t) /\ FreshWell(t) /\ DeletedWell(t)
    BY DEF ActiveInv
  <2>6. CASE known = {}
    <3>1. ~Known(t) /\ frames' = <<>>
      BY <1>3, <1>5, <2>6
    <3>2. manager'[t] # "ACTIVE" /\ manager'[t] # "SUSPENDED"
      BY <1>1, <3>1 DEF Known, Status
    <3>3. ~Has(frames', Enters(t)) /\ Followed(frames', Enters(t), Removes(t))
      BY <3>1, EmptyQueue
    <3> QED
      BY <1>1, <2>2, <2>4, <2>5, <3>2, <3>3
         DEF ActiveWell, SuspendedWell, FreshWell, DeletedWell
  <2>7. CASE known # {}
    <3>1. /\ e \in Enters(t) <=> manager[t] = "ACTIVE"
          /\ e \in Leaves(t) <=> manager[t] = "SUSPENDED"
      BY <1>3, <1>4, <2>7, SubscribedSets
    <3>2. frames' = <<e>>
      BY <1>5, <2>7
    <3>3. CASE manager[t] = "ACTIVE"
      <4>1. Has(frames', Enters(t)) /\ Followed(frames', Leaves(t), Enters(t))
        BY <3>1, <3>2, <3>3, OneInQueue
      <4> QED
        BY <1>1, <3>3, <4>1
           DEF ActiveWell, SuspendedWell, FreshWell, DeletedWell
    <3>4. CASE manager[t] = "SUSPENDED"
      <4>1. Has(frames', Leaves(t)) /\ Followed(frames', Enters(t), Leaves(t))
        BY <3>1, <3>2, <3>4, OneInQueue
      <4> QED
        BY <1>1, <3>4, <4>1
           DEF ActiveWell, SuspendedWell, FreshWell, DeletedWell
    <3>5. CASE manager[t] # "ACTIVE" /\ manager[t] # "SUSPENDED"
      <4>1. ~Has(frames', Enters(t)) /\ Followed(frames', Enters(t), Removes(t))
        BY <3>1, <3>2, <3>5, OneInQueue
      <4> QED
        BY <1>1, <2>2, <2>4, <2>5, <3>5, <4>1
           DEF ActiveWell, SuspendedWell, FreshWell, DeletedWell
    <3> QED
      BY <3>3, <3>4, <3>5
  <2> QED
    BY <2>6, <2>7
<1> QED
  BY <1>6 DEF ActiveInv

\* The lost frames take no DELETED with them but of tenants that are gone.
LEMMA BreakActive ==
    ASSUME TypeOK, ActiveInv, Break
    PROVE  ActiveInv'
<1>1. /\ UNCHANGED <<manager, watcher, activeTenants>>
      /\ ~open' /\ frames' = <<>> /\ gone \subseteq gone'
      /\ \A i \in DOMAIN frames : frames[i].type = "DELETED" =>
           Ids(frames[i].tenants) \subseteq gone'
  BY DEF Break
<1>2. ASSUME NEW t \in Tenants
      PROVE  /\ ActiveWell(t)' /\ SuspendedWell(t)'
             /\ FreshWell(t)' /\ DeletedWell(t)'
  <2>1. Cached(t)' <=> Cached(t)
    BY <1>1 DEF Cached, Busy
  <2>2. FreshWell(t) /\ DeletedWell(t)
    BY DEF ActiveInv
  <2>3. t \notin gone' => ~Has(frames, Removes(t))
    BY <1>1 DEF Has, Removes
  <2>4. ~Has(frames', Enters(t)) /\ Followed(frames', Enters(t), Removes(t))
    BY <1>1, EmptyQueue
  <2> QED
    BY <1>1, <2>1, <2>2, <2>3, <2>4
       DEF ActiveWell, SuspendedWell, FreshWell, DeletedWell
<1> QED
  BY <1>2 DEF ActiveInv

LEMMA ReceiveActive ==
    ASSUME TypeOK, ActiveInv, ReceiveFrame
    PROVE  ActiveInv'
<1>1. /\ watcher.pc = "reading" /\ frames # <<>> /\ frames' = Tail(frames)
      /\ watcher'.pc \in {"rows", "cache"} /\ watcher'.event = Head(frames)
      /\ UNCHANGED <<manager, open, activeTenants, gone>>
  BY DEF ReceiveFrame
<1>2. frames \in Seq(EventType)
  BY DEF TypeOK
<1>3. ASSUME NEW t \in Tenants
      PROVE  /\ ActiveWell(t)' /\ SuspendedWell(t)'
             /\ FreshWell(t)' /\ DeletedWell(t)'
  <2>1. ~Busy /\ Busy'
    BY <1>1 DEF Busy
  <2>2. Cached(t) <=> t \in activeTenants
    BY <2>1 DEF Cached
  <2>3. Cached(t)' <=> \/ Head(frames) \in Enters(t)
                       \/ t \in activeTenants /\ Head(frames) \notin Leaves(t)
    BY <1>1, <2>1 DEF Cached
  <2>4. ActiveWell(t) /\ SuspendedWell(t) /\ FreshWell(t) /\ DeletedWell(t)
    BY DEF ActiveInv
  <2>5. \A S : Has(frames, S) <=> Head(frames) \in S \/ Has(frames', S)
    BY <1>1, <1>2, HasTail
  <2>6. \A S, R : Followed(frames, S, R) =>
          Followed(frames', S, R) /\ (Head(frames) \in S => Has(frames', R))
    BY <1>1, <1>2, FollowedTail
  <2>7. Head(frames) \in Removes(t) => Head(frames) \in Leaves(t)
    BY DEF Leaves
  <2>8. ActiveWell(t)' /\ SuspendedWell(t)'
    BY <1>1, <2>2, <2>3, <2>4, <2>5, <2>6 DEF ActiveWell, SuspendedWell
  <2>9. FreshWell(t)' /\ DeletedWell(t)'
    BY <1>1, <2>2, <2>3, <2>4, <2>5, <2>6, <2>7 DEF FreshWell, DeletedWell
  <2> QED
    BY <2>8, <2>9
<1> QED
  BY <1>3 DEF ActiveInv

\* The cache does with an event what it was about to do.
LEMMA ActualizeActive ==
    ASSUME TypeOK, ActiveInv, ActualizeActiveTenantsCache
    PROVE  ActiveInv'
<1>1. /\ watcher.pc = "cache" /\ watcher'.pc = "reading"
      /\ UNCHANGED <<manager, open, frames, gone>>
  BY DEF ActualizeActiveTenantsCache, IdleWatcher
<1>2. watcher.event \in EventType /\ activeTenants \subseteq Tenants
  BY <1>1 DEF TypeOK
<1>3. watcher.event.type \in {"SUBSCRIBED", "CREATED", "MODIFIED", "DELETED"}
  BY <1>2, EventParts
<1> DEFINE e == watcher.event
<1>4. ASSUME NEW t \in Tenants PROVE Cached(t)' <=> Cached(t)
  <2>1. Busy /\ ~Busy'
    BY <1>1 DEF Busy
  <2>2. Cached(t)' <=> t \in activeTenants'
    BY <2>1 DEF Cached
  <2>3. Cached(t) <=> e \in Enters(t) \/ (t \in activeTenants /\ e \notin Leaves(t))
    BY <2>1 DEF Cached
  <2>4. CASE e.type \in {"MODIFIED", "SUBSCRIBED"}
    <3>1. activeTenants' = UpdatedActiveTenants(e.tenants)
      BY <2>4 DEF ActualizeActiveTenantsCache
    <3>2. t \in activeTenants' <=>
            \/ [id |-> t, status |-> "ACTIVE"] \in ToSet(e.tenants)
            \/ /\ t \in activeTenants
               /\ [id |-> t, status |-> "SUSPENDED"] \notin ToSet(e.tenants)
      BY <3>1 DEF UpdatedActiveTenants
    <3>3. /\ e \in Enters(t) <=> [id |-> t, status |-> "ACTIVE"] \in ToSet(e.tenants)
          /\ e \in Leaves(t) <=> [id |-> t, status |-> "SUSPENDED"]
                                   \in ToSet(e.tenants)
      BY <1>2, <2>4 DEF Enters, Leaves, Removes
    <3> QED
      BY <2>2, <2>3, <3>2, <3>3
  <2>5. CASE e.type = "DELETED"
    <3>1. activeTenants' = activeTenants \ Ids(e.tenants)
      BY <2>5 DEF ActualizeActiveTenantsCache
    <3>2. e \notin Enters(t) /\ (e \in Leaves(t) <=> t \in Ids(e.tenants))
      BY <1>2, <2>5 DEF Enters, Leaves, Removes
    <3> QED
      BY <2>2, <2>3, <3>1, <3>2
  <2>6. CASE e.type = "CREATED"
    <3>1. activeTenants' = activeTenants
      BY <2>6 DEF ActualizeActiveTenantsCache
    <3>2. e \notin Enters(t) /\ e \notin Leaves(t)
      BY <2>6 DEF Enters, Leaves, Removes
    <3> QED
      BY <2>2, <2>3, <3>1, <3>2
  <2> QED
    BY <1>3, <2>4, <2>5, <2>6
<1> QED
  BY <1>1, <1>4, ActiveKept

\* The steps before the cache's callback leave the event alone.
LEMMA OtherActive ==
    ASSUME TypeOK, ActiveInv,
           \/ StartWatching \/ NoticeClose \/ SyncDeleted \/ SyncDeletedNone
           \/ SyncFirst \/ Select("watcher") \/ SyncWrites \/ SyncRefused
           \/ SyncFails \/ LoaderStep \/ UpsertListedFails \/ FindAllFails
           \/ DeleteUnlistedFails \/ PurgeRemoved \/ UNCHANGED vars
    PROVE  ActiveInv'
<1>1. UNCHANGED <<manager, open, frames, gone, activeTenants>>
  BY DEF StartWatching, NoticeClose, SyncDeleted, SyncDeletedNone, SyncFirst,
         Select, SyncWrites, SyncRefused, SyncFails, SyncEnds, LoaderStep,
         ListTenants, UpsertListed, FindAll, DeleteUnlisted,
         DeleteUnlistedNone, LoaderWrites, LoadingDone, UpsertListedFails,
         FindAllFails, DeleteUnlistedFails, WriteFails, PurgeRemoved, vars
<1>2. CASE StartWatching \/ NoticeClose
  <2>1. ~Busy /\ ~Busy'
    BY <1>2 DEF StartWatching, NoticeClose, IdleWatcher, Busy
  <2> QED
    BY <1>1, <2>1, ActiveKept DEF Cached
<1>3. CASE SyncDeletedNone \/ SyncWrites \/ SyncRefused \/ SyncFails
  <2>1. watcher \in WatcherState /\ watcher.pc = "rows"
    BY <1>3 DEF TypeOK, WatcherState, SyncDeletedNone, SyncWrites, SyncRefused,
       SyncFails, SyncEnds, Due, WatcherWriting
  <2>2. TenantDone \/ CallbackDone
    BY <1>3 DEF SyncDeletedNone, SyncWrites, SyncRefused, SyncFails, SyncEnds
  <2>3. watcher'.event = watcher.event /\ watcher'.pc \in {"rows", "cache"}
    BY <2>1, <2>2 DEF TenantDone, CallbackDone, WatcherState
  <2>4. Busy /\ Busy'
    BY <2>1, <2>3 DEF Busy
  <2> QED
    BY <1>1, <2>3, <2>4, ActiveKept DEF Cached
<1>4. CASE \/ SyncDeleted \/ SyncFirst \/ Select("watcher")
           \/ LoaderStep \/ UpsertListedFails \/ FindAllFails
           \/ DeleteUnlistedFails \/ PurgeRemoved \/ UNCHANGED vars
  <2>1. watcher' = watcher
    BY <1>4 DEF SyncDeleted, SyncFirst, Select, LoaderStep, ListTenants,
       UpsertListed, FindAll, DeleteUnlisted, DeleteUnlistedNone, LoaderWrites,
       LoadingDone, UpsertListedFails, FindAllFails, DeleteUnlistedFails,
       WriteFails, PurgeRemoved, vars
  <2> QED
    BY <1>1, <2>1, ActiveKept DEF Cached, Busy
<1> QED
  BY <1>2, <1>3, <1>4

LEMMA InitActive == Init => ActiveInv
<1> SUFFICES ASSUME Init, NEW t \in Tenants
             PROVE  /\ ActiveWell(t) /\ SuspendedWell(t)
                    /\ FreshWell(t) /\ DeletedWell(t)
  BY DEF ActiveInv
<1>1. ~open /\ frames = <<>> /\ activeTenants = {} /\ watcher.pc = "off"
  BY DEF Init, IdleWatcher
<1>2. ~Cached(t)
  BY <1>1 DEF Cached, Busy
<1>3. ~Has(frames, Enters(t)) /\ Followed(frames, Enters(t), Removes(t))
  BY <1>1, EmptyQueue
<1> QED
  BY <1>1, <1>2, <1>3 DEF ActiveWell, SuspendedWell, FreshWell, DeletedWell

LEMMA ActiveInvHolds == Spec => []ActiveInv
<1>1. TypeOK /\ ActiveInv /\ [Next]_vars => ActiveInv'
  BY ChangeActive, BreakActive, ConnectActive, ReceiveActive, ActualizeActive,
     OtherActive DEF Next, WatcherStep
<1> QED
  BY <1>1, InitActive, FeedTypeCorrect, PTL DEF Spec

LEMMA ActiveInvGivesFollow == TypeOK /\ ActiveInv => ActiveTenantsFollow
<1> SUFFICES ASSUME TypeOK, ActiveInv, CaughtUp, NEW t \in Tenants
             PROVE  /\ manager[t] = "ACTIVE" => t \in activeTenants
                    /\ t \in activeTenants => manager[t] = "ACTIVE" \/ t \in gone
  BY DEF ActiveTenantsFollow
<1>1. open /\ frames = <<>> /\ (Cached(t) <=> t \in activeTenants)
  BY DEF CaughtUp, Cached, Busy
<1>2. \A S : ~Has(frames, S)
  BY <1>1, EmptyQueue
<1>3. ActiveWell(t) /\ SuspendedWell(t) /\ FreshWell(t) /\ DeletedWell(t)
  BY DEF ActiveInv
<1>4. manager[t] \in Status \union {"unknown", "deleted"}
  BY DEF TypeOK
<1>5. manager[t] = "ACTIVE" => t \in activeTenants
  BY <1>1, <1>2, <1>3 DEF ActiveWell
<1>6. t \in activeTenants => manager[t] = "ACTIVE" \/ t \in gone
  BY <1>1, <1>2, <1>3, <1>4 DEF SuspendedWell, FreshWell, DeletedWell, Status
<1> QED
  BY <1>5, <1>6

\* A watcher that has caught up knows every active tenant, and takes for active
\* only those and tenants deleted while nobody listened, however often the
\* connection was lost and whatever changed meanwhile (ActualizeActiveTenantsCache,
\* UpdateActiveTenantsCache, connectAndSubscribe).
THEOREM ActiveTenantsAreKnown == Spec => []ActiveTenantsFollow
<1> QED
  BY FeedTypeCorrect, ActiveInvHolds, ActiveInvGivesFollow, PTL

-----------------------------------------------------------------------------
(* Rows                                                                    *)
(*                                                                         *)
(* Who has the last word on a row is right: the last frame that writes it, *)
(* else the event the watcher is writing, else what the loader has still   *)
(* to write or to judge; and if none of them has, the row agrees.          *)

Writes(t) == {e \in EventType : IF e.type = "DELETED" THEN t \in Ids(e.tenants)
                                ELSE e.tenants[1].id = t}
\* ... with what tenant-manager does not say any more.
Wrong(t) == {e \in Writes(t) : IF e.type = "DELETED" THEN Known(t)
                               ELSE e.tenants[1].status # manager[t]}

Held == Event(watcher.event.type, watcher.todo)
Holds(t) == watcher.pc = "rows" /\ Held \in Writes(t)
LoaderOwes(t) ==
    \/ loader.pc = "list"
    \/ loader.pc = "upsert" /\ (\E e \in loader.todo : e.id = t)
    \/ loader.pc = "upsert" /\ ~Listed(t) /\ ~Known(t)
    \/ loader.pc = "delete" /\ t \in loader.todo

FeedRight(t) == Followed(frames, Wrong(t), Writes(t))
HeldRight(t) == Holds(t) /\ ~Has(frames, Writes(t)) => Held \notin Wrong(t)
RowRight(t) == ~Holds(t) /\ ~Has(frames, Writes(t)) /\ ~LoaderOwes(t)
               => RowAgrees(tenantDns, t)

RowInv == /\ \A t \in Tenants : FeedRight(t)
          /\ Satellite => \A t \in Tenants \ behind : HeldRight(t) /\ RowRight(t)

\* What an event writes, by its type.
LEMMA WritesByType ==
    ASSUME NEW e \in EventType, NEW t \in Tenants
    PROVE  /\ e.type = "DELETED" =>
                /\ e \in Writes(t) <=> t \in Ids(e.tenants)
                /\ e \in Wrong(t) <=> t \in Ids(e.tenants) /\ Known(t)
           /\ e.type # "DELETED" =>
                /\ e \in Writes(t) <=> e.tenants[1].id = t
                /\ e \in Wrong(t) <=> /\ e.tenants[1].id = t
                                      /\ e.tenants[1].status # manager[t]
  BY DEF Writes, Wrong

LEMMA WrongWrites ==
    ASSUME NEW t \in Tenants PROVE Wrong(t) \subseteq Writes(t)
  BY DEF Wrong

\* An event that writes the row of a tenant names the tenant.
LEMMA WritesNames ==
    ASSUME NEW e \in EventType, NEW t \in Tenants, e \in Writes(t)
    PROVE  t \in Ids(e.tenants)
<1>1. e.tenants \in Seq(EntryType) /\ e.tenants # <<>>
  BY EventParts
<1>2. 1 \in DOMAIN e.tenants
  BY <1>1, LenProperties, EmptySeq
<1> QED
  BY <1>2, WritesByType DEF Ids

\* The event the watcher is writing.
LEMMA HeldType ==
    TypeOK /\ watcher.pc = "rows" =>
        /\ Held \in EventType /\ Held.type = watcher.event.type
        /\ Held.tenants = watcher.todo
<1> SUFFICES ASSUME TypeOK, watcher.pc = "rows"
             PROVE  /\ Held \in EventType /\ Held.type = watcher.event.type
                    /\ Held.tenants = watcher.todo
  OBVIOUS
<1>1. watcher.event \in EventType /\ watcher.todo # <<>>
      /\ watcher.todo \in Seq(EntryType)
  <2>1. watcher.event \in EventType /\ watcher.todo # <<>>
    BY DEF TypeOK
  <2>2. watcher.todo \in Seq(EntryType)
    BY DEF TypeOK
  <2> QED
    BY <2>1, <2>2
<1>2. watcher.event.type \in {"SUBSCRIBED", "CREATED", "MODIFIED", "DELETED"}
  BY <1>1, EventParts
<1>3. Held = [type |-> watcher.event.type, tenants |-> watcher.todo]
  BY DEF Held, Event
<1> QED
  BY <1>1, <1>2, <1>3 DEF EventType

\* A step that is not about the tenant: no frame, no event and no row of it, and
\* the loader pays off nothing but with a row that agrees.
LEMMA RowKept ==
    ASSUME NEW t \in Tenants, HeldRight(t), RowRight(t),
           manager'[t] = manager[t], tenantDns'[t] = tenantDns[t],
           Has(frames', Writes(t)) <=> Has(frames, Writes(t)),
           Holds(t)' <=> Holds(t),
           Holds(t) => (Held' \in Wrong(t) => Held \in Wrong(t)),
           LoaderOwes(t) => LoaderOwes(t)' \/ RowAgrees(tenantDns, t)
    PROVE  HeldRight(t)' /\ RowRight(t)'
<1>1. Wrong(t)' = Wrong(t)
  BY DEF Wrong, Known
<1>2. RowAgrees(tenantDns, t)' <=> RowAgrees(tenantDns, t)
  BY DEF RowAgrees, Known
<1>3. HeldRight(t)'
  BY <1>1 DEF HeldRight
<1>4. RowRight(t)'
  BY <1>2 DEF RowRight
<1> QED
  BY <1>3, <1>4

\* A step that leaves tenant-manager and the frames alone.
LEMMA FeedKept ==
    ASSUME RowInv, UNCHANGED <<manager, frames>>, NEW t \in Tenants
    PROVE  FeedRight(t)'
<1>1. FeedRight(t)
  BY DEF RowInv
<1>2. Wrong(t)' = Wrong(t)
  BY DEF Wrong, Known
<1> QED
  BY <1>1, <1>2 DEF FeedRight

LEMMA ChangeRows ==
    ASSUME TypeOK, RowInv, NEW t \in Tenants, Change(t)
    PROVE  RowInv'
<1>1. PICK step \in Transition :
        /\ manager' = [manager EXCEPT ![t] = step[2]]
        /\ frames' = IF open
             THEN Append(frames, Event(step[3],
                    <<[id |-> t, status |-> IF step[2] = "deleted"
                                            THEN step[1] ELSE step[2]]>>))
             ELSE frames
  BY DEF Change
<1> DEFINE old == step[1]
           new == step[2]
           type == step[3]
           status == IF new = "deleted" THEN old ELSE new
           entry == [id |-> t, status |-> status]
           e == Event(type, <<entry>>)
<1>2. /\ UNCHANGED <<open, watcher, loader, tenantDns>>
      /\ behind' = IF open THEN behind ELSE behind \union {t}
  BY DEF Change
<1>3. /\ type \in {"CREATED", "MODIFIED", "DELETED"}
      /\ status \in Status /\ new \in Status \union {"deleted"}
      /\ type = "DELETED" <=> new = "deleted"
      /\ new # "deleted" => status = new
  BY DEF Transition, Status
<1>4. /\ frames' = IF open THEN Append(frames, e) ELSE frames
      /\ manager'[t] = new /\ \A u \in Tenants \ {t} : manager'[u] = manager[u]
  BY <1>1 DEF TypeOK
<1> HIDE DEF old, new, type, status
<1>5. e \in EventType
  BY <1>3, OneEntry
<1>6. entry.id = t /\ entry.status = status
  OBVIOUS
<1> HIDE DEF entry
<1>7. e.type = type /\ e.tenants = <<entry>> /\ e.tenants[1] = entry
  BY DEF Event
<1>8. Ids(e.tenants) = {t}
  <2>1. DOMAIN <<entry>> = {1} /\ <<entry>>[1] = entry
    OBVIOUS
  <2> QED
    BY <1>6, <1>7, <2>1 DEF Ids
<1> HIDE DEF e
<1>9. \A u \in Tenants : e \in Writes(u) <=> u = t
  BY <1>5, <1>6, <1>7, <1>8 DEF Writes
<1>10. e \notin Wrong(t)'
  <2>1. CASE type = "DELETED"
    <3>1. ~Known(t)'
      BY <1>3, <1>4, <2>1 DEF Known, Status
    <3> QED
      BY <1>7, <2>1, <3>1 DEF Wrong
  <2>2. CASE type # "DELETED"
    BY <1>3, <1>4, <1>6, <1>7, <2>2 DEF Wrong
  <2> QED
    BY <2>1, <2>2
<1>11. \A u \in Tenants \ {t} : Wrong(u)' = Wrong(u)
  BY <1>4 DEF Wrong, Known
<1>12. frames \in Seq(EventType) /\ open \in BOOLEAN /\ (~open => frames = <<>>)
  BY DEF TypeOK
<1>13. ASSUME NEW u \in Tenants PROVE FeedRight(u)'
  <2>1. FeedRight(u)
    BY DEF RowInv
  <2>2. CASE ~open
    BY <1>4, <1>12, <2>2, EmptyQueue DEF FeedRight
  <2>3. CASE open /\ u = t
    <3>1. Followed(Append(frames, e), Wrong(t)', Writes(t))
      BY <1>5, <1>9, <1>10, <1>12, FollowedAppend
    <3> QED
      BY <1>4, <2>3, <3>1 DEF FeedRight
  <2>4. CASE open /\ u # t
    <3>1. e \notin Wrong(u)
      BY <1>9, <2>4, WrongWrites
    <3>2. Followed(Append(frames, e), Wrong(u), Writes(u))
      BY <1>5, <1>12, <2>1, <3>1, FollowedAppend DEF FeedRight
    <3> QED
      BY <1>4, <1>11, <2>4, <3>2 DEF FeedRight
  <2> QED
    BY <1>12, <2>2, <2>3, <2>4
<1>14. ASSUME Satellite, NEW u \in Tenants \ behind'
       PROVE  HeldRight(u)' /\ RowRight(u)'
  <2>1. HeldRight(u) /\ RowRight(u) /\ (u = t => open)
    BY <1>2, <1>14 DEF RowInv
  <2>2. open => \A S : Has(frames', S) <=> Has(frames, S) \/ e \in S
    BY <1>4, <1>5, <1>12, HasAppend
  <2>3. CASE u = t
    <3>1. Has(frames', Writes(t))
      BY <1>9, <2>1, <2>2, <2>3
    <3> QED
      BY <2>3, <3>1 DEF HeldRight, RowRight
  <2>4. CASE u # t
    <3>1. Has(frames', Writes(u)) <=> Has(frames, Writes(u))
      BY <1>4, <1>9, <1>12, <2>2, <2>4
    <3>2. manager'[u] = manager[u] /\ tenantDns'[u] = tenantDns[u]
      BY <1>2, <1>4, <2>4
    <3>3. Held' = Held /\ (Holds(u)' <=> Holds(u))
      BY <1>2 DEF Held, Holds
    <3>4. LoaderOwes(u)' <=> LoaderOwes(u)
      BY <1>2, <3>2 DEF LoaderOwes, Listed, Known
    <3> QED
      BY <2>1, <3>1, <3>2, <3>3, <3>4, RowKept
  <2> QED
    BY <2>3, <2>4
<1> QED
  BY <1>13, <1>14 DEF RowInv

LEMMA BreakRows ==
    ASSUME TypeOK, RowInv, Break
    PROVE  RowInv'
<1>1. /\ UNCHANGED <<manager, watcher, loader, tenantDns>> /\ frames' = <<>>
      /\ behind \subseteq behind'
      /\ \A i \in DOMAIN frames : Ids(frames[i].tenants) \subseteq behind'
  BY DEF Break
<1>2. \A t \in Tenants : FeedRight(t)'
  BY <1>1, EmptyQueue DEF FeedRight
<1>3. ASSUME Satellite, NEW t \in Tenants \ behind'
      PROVE  HeldRight(t)' /\ RowRight(t)'
  <2>1. HeldRight(t) /\ RowRight(t)
    BY <1>1, <1>3 DEF RowInv
  <2>2. ~Has(frames, Writes(t))
    <3>1. \A i \in DOMAIN frames : frames[i] \in EventType
      BY LenProperties DEF TypeOK
    <3>2. \A i \in DOMAIN frames : frames[i] \notin Writes(t)
      BY <1>1, <1>3, <3>1, WritesNames
    <3> QED
      BY <3>2 DEF Has
  <2>3. ~Has(frames', Writes(t))
    BY <1>1, EmptyQueue
  <2>4. Held' = Held /\ (Holds(t)' <=> Holds(t))
    BY <1>1 DEF Held, Holds
  <2>5. LoaderOwes(t)' <=> LoaderOwes(t)
    BY <1>1 DEF LoaderOwes, Listed, Known
  <2> QED
    BY <1>1, <2>1, <2>2, <2>3, <2>4, <2>5, RowKept
<1> QED
  BY <1>2, <1>3 DEF RowInv

LEMMA ConnectRows ==
    ASSUME TypeOK, RowInv, ConnectAndSubscribe
    PROVE  RowInv'
<1> DEFINE known == {t \in Tenants : Known(t)}
<1>1. /\ watcher.pc = "connecting" /\ watcher'.pc = "reading"
      /\ UNCHANGED <<manager, loader, tenantDns, behind>>
  BY DEF ConnectAndSubscribe, IdleWatcher
<1>2. PICK order \in SetToSeqs(known) :
         frames' = IF known = {} THEN <<>>
                   ELSE <<Event("SUBSCRIBED",
                                [i \in DOMAIN order |-> Entry(order[i])])>>
  BY DEF ConnectAndSubscribe
<1> DEFINE e == Event("SUBSCRIBED", [i \in DOMAIN order |-> Entry(order[i])])
<1>3. known \in SUBSET Tenants /\ \A t \in known : Known(t)
  OBVIOUS
<1> HIDE DEF known
<1>4. known # {} =>
        /\ e \in EventType /\ e.type = "SUBSCRIBED" /\ 1 \in DOMAIN e.tenants
        /\ \A i \in DOMAIN e.tenants : \E t \in known : e.tenants[i] = Entry(t)
  BY <1>3, SubscribedType
<1>5. frames' = IF known = {} THEN <<>> ELSE <<e>>
  BY <1>2
<1> HIDE DEF e
<1>6. frames = <<>>
  BY <1>1 DEF TypeOK
<1>7. \A t \in Tenants : Wrong(t)' = Wrong(t)
  BY <1>1 DEF Wrong, Known
<1>8. ASSUME NEW t \in Tenants PROVE FeedRight(t)'
  <2>1. CASE known = {}
    BY <1>5, <2>1, EmptyQueue DEF FeedRight
  <2>2. CASE known # {}
    <3>1. PICK u \in known : e.tenants[1] = Entry(u)
      BY <1>4, <2>2
    <3>2. e \notin Wrong(t)
      <4>1. e.tenants[1].id = u /\ e.tenants[1].status = manager[u]
        BY <3>1 DEF Entry
      <4> QED
        BY <1>4, <2>2, <4>1, WritesByType
    <3>3. Followed(<<e>>, Wrong(t), Writes(t))
      BY <3>2, OneInQueue
    <3> QED
      BY <1>5, <1>7, <2>2, <3>3 DEF FeedRight
  <2> QED
    BY <2>1, <2>2
<1>9. ASSUME Satellite, NEW t \in Tenants \ behind'
      PROVE  HeldRight(t)' /\ RowRight(t)'
  <2>1. HeldRight(t) /\ RowRight(t)
    BY <1>1, <1>9 DEF RowInv
  <2>2. ~Holds(t) /\ ~Holds(t)'
    BY <1>1 DEF Holds
  <2>3. LoaderOwes(t)' <=> LoaderOwes(t)
    BY <1>1 DEF LoaderOwes, Listed, Known
  <2>4. ~Has(frames, Writes(t))
    BY <1>6, EmptyQueue
  <2>5. RowAgrees(tenantDns, t)' <=> RowAgrees(tenantDns, t)
    BY <1>1 DEF RowAgrees, Known
  <2> QED
    BY <2>1, <2>2, <2>3, <2>4, <2>5 DEF HeldRight, RowRight
<1> QED
  BY <1>8, <1>9 DEF RowInv

LEMMA ReceiveRows ==
    ASSUME TypeOK, TypeOK', RowInv, ReceiveFrame
    PROVE  RowInv'
<1>1. /\ watcher.pc = "reading" /\ frames # <<>> /\ frames' = Tail(frames)
      /\ watcher'.pc = (IF Satellite THEN "rows" ELSE "cache")
      /\ watcher'.event = Head(frames) /\ watcher'.todo = Head(frames).tenants
      /\ UNCHANGED <<manager, loader, tenantDns, behind>>
  BY DEF ReceiveFrame
<1>2. frames \in Seq(EventType)
  BY DEF TypeOK
<1>3. \A t \in Tenants : Wrong(t)' = Wrong(t)
  BY <1>1 DEF Wrong, Known
<1>4. ASSUME NEW t \in Tenants
      PROVE  /\ FeedRight(t)'
             /\ Head(frames) \in Wrong(t) => Has(frames', Writes(t))
             /\ Has(frames, Writes(t)) <=>
                  Head(frames) \in Writes(t) \/ Has(frames', Writes(t))
  <2>1. Followed(frames, Wrong(t), Writes(t))
    BY DEF RowInv, FeedRight
  <2>2. /\ Followed(Tail(frames), Wrong(t), Writes(t))
        /\ Head(frames) \in Wrong(t) => Has(Tail(frames), Writes(t))
    BY <1>1, <1>2, <2>1, FollowedTail
  <2>3. Has(frames, Writes(t)) <=>
          Head(frames) \in Writes(t) \/ Has(Tail(frames), Writes(t))
    BY <1>1, <1>2, HasTail
  <2> QED
    BY <1>1, <1>3, <2>2, <2>3 DEF FeedRight
<1>5. ASSUME Satellite, NEW t \in Tenants \ behind'
      PROVE  HeldRight(t)' /\ RowRight(t)'
  <2>1. HeldRight(t) /\ RowRight(t)
    BY <1>1, <1>5 DEF RowInv
  <2>2. Head(frames) \in EventType
    BY <1>1, <1>2, FramesTail
  <2>3. Held' = Head(frames)
    <3>1. Head(frames) = [type |-> Head(frames).type,
                          tenants |-> Head(frames).tenants]
      BY <2>2 DEF EventType
    <3> QED
      BY <1>1, <3>1 DEF Held, Event
  <2>4. ~Holds(t) /\ (Holds(t)' <=> Head(frames) \in Writes(t))
    BY <1>1, <1>5, <2>3 DEF Holds
  <2>5. HeldRight(t)'
    BY <1>3, <1>4, <2>3, <2>4 DEF HeldRight
  <2>6. LoaderOwes(t)' <=> LoaderOwes(t)
    BY <1>1 DEF LoaderOwes, Listed, Known
  <2>7. RowAgrees(tenantDns, t)' <=> RowAgrees(tenantDns, t)
    BY <1>1 DEF RowAgrees, Known
  <2>8. RowRight(t)'
    BY <1>4, <2>1, <2>4, <2>6, <2>7 DEF RowRight
  <2> QED
    BY <2>5, <2>8
<1> QED
  BY <1>4, <1>5 DEF RowInv

\* The tenants still to write, after the first.
LEMMA IdsTail ==
    ASSUME NEW s \in Seq(EntryType), s # <<>>
    PROVE  /\ Ids(s) = {Head(s).id} \union Ids(Tail(s))
           /\ Len(s) = 1 => Ids(s) = {Head(s).id}
           /\ Head(s) = s[1]
<1>1. /\ Len(s) \in Nat \ {0} /\ DOMAIN s = 1..Len(s) /\ Head(s) = s[1]
      /\ DOMAIN Tail(s) = 1..(Len(s) - 1)
      /\ \A i \in 1..(Len(s) - 1) : Tail(s)[i] = s[i + 1]
  BY HeadTailProperties, LenProperties, EmptySeq
<1>2. \A i \in DOMAIN s : i = 1 \/ (i - 1 \in DOMAIN Tail(s) /\ Tail(s)[i - 1] = s[i])
  BY <1>1
<1>3. \A i \in DOMAIN Tail(s) : i + 1 \in DOMAIN s /\ Tail(s)[i] = s[i + 1]
  BY <1>1
<1>4. 1 \in DOMAIN s
  BY <1>1
<1>5. ASSUME NEW i \in DOMAIN s
      PROVE  s[i].id \in {Head(s).id} \union Ids(Tail(s))
  <2>1. CASE i = 1
    BY <1>1, <2>1
  <2>2. CASE i # 1
    BY <1>2, <2>2 DEF Ids
  <2> QED
    BY <2>1, <2>2
<1>6. Head(s).id \in Ids(s) /\ Ids(Tail(s)) \subseteq Ids(s)
  BY <1>1, <1>3, <1>4 DEF Ids
<1>7. Len(s) = 1 => Ids(Tail(s)) = {}
  BY <1>1 DEF Ids
<1>8. Ids(s) \subseteq {Head(s).id} \union Ids(Tail(s))
  BY <1>5 DEF Ids
<1> QED
  BY <1>1, <1>6, <1>7, <1>8

\* A deleted tenant has a row that is marked, or none.
LEMMA DeletedRow ==
    ASSUME RowsTyped', NEW t \in Tenants,
           tenantDns'[t] = None \/ tenantDns'[t].removed
    PROVE  RowAgrees(tenantDns', t) <=> ~Known(t)
<1>1. CASE tenantDns'[t] = None
  <2>1. \A b \in BOOLEAN : [active |-> b, removed |-> FALSE] # None
    <3>1. \A b \in BOOLEAN : [active |-> b, removed |-> FALSE] \in Row
      BY DEF Row
    <3>2. None \notin Row
      BY FeedAssumption
    <3> QED
      BY <3>1, <3>2
  <2>2. (manager[t] = "ACTIVE") \in BOOLEAN
    OBVIOUS
  <2> QED
    BY <1>1, <2>1, <2>2 DEF RowAgrees
<1>2. CASE tenantDns'[t] # None /\ tenantDns'[t].removed
  BY <1>2 DEF RowAgrees
<1> QED
  BY <1>1, <1>2

\* A row that is written from an entry.
LEMMA UpsertedRow ==
    ASSUME NEW entry \in EntryType, tenantDns'[entry.id] = RowOf(entry)
    PROVE  entry.status = manager[entry.id] => RowAgrees(tenantDns', entry.id)
<1>1. entry.id \in Tenants /\ entry.status \in Status
  BY DEF EntryType
<1> QED
  BY <1>1 DEF RowAgrees, Known, RowOf

\* The watcher has done with the first tenant it had to write.
Done(d) ==
    /\ watcher.pc = "rows" /\ TenantDone /\ d = Head(watcher.todo).id
    /\ UNCHANGED <<manager, frames, loader>>
    /\ \A t \in Tenants \ {d} : tenantDns'[t] = tenantDns[t]
    /\ behind \ {d} \subseteq behind'

\* What the write of a deleted tenant leaves: no row, or one that is marked;
\* and the tenant is behind unless the row agrees or it was not before.
LEMMA SyncDeletedRows ==
    ASSUME TypeOK, TypeOK', RowInv, NEW d, Done(d),
           watcher.event.type = "DELETED",
           tenantDns'[d] = None \/ tenantDns'[d].removed,
           d \notin behind' => d \notin behind \/ RowAgrees(tenantDns', d)
    PROVE  RowInv'
<1>1. /\ watcher.pc = "rows" /\ watcher.event.type = "DELETED"
      /\ UNCHANGED <<manager, frames, loader>>
      /\ behind \ {d} \subseteq behind' /\ d = Head(watcher.todo).id
  BY DEF Done
<1>2. /\ watcher.todo \in Seq(EntryType) /\ watcher.todo # <<>>
      /\ watcher \in WatcherState /\ RowsTyped' /\ d \in Tenants
  <2>1. /\ watcher.todo \in Seq(EntryType) /\ watcher.todo # <<>>
        /\ watcher \in WatcherState /\ RowsTyped'
    BY <1>1 DEF TypeOK, WatcherState, RowsTyped
  <2>2. Head(watcher.todo) \in EntryType
    BY <2>1, HeadTailProperties
  <2> QED
    BY <1>1, <2>1, <2>2 DEF EntryType
<1>3. /\ watcher'.event = watcher.event
      /\ \/ watcher'.pc = "cache" /\ Len(watcher.todo) = 1
         \/ watcher'.pc = "rows" /\ watcher'.todo = Tail(watcher.todo)
  <2> DEFINE n == Len(watcher.todo)
  <2>1. n \in Nat \ {0}
    BY <1>2, EmptySeq, LenProperties
  <2>2. \/ n > 1 /\ watcher' = [watcher EXCEPT !.todo = Tail(@)]
        \/ ~(n > 1) /\ CallbackDone
    BY <1>1 DEF Done, TenantDone
  <2>3. n > 1 \/ n = 1
    <3> HIDE DEF n
    <3> QED
      BY <2>1
  <2>4. n = 1 => ~(n > 1)
    OBVIOUS
  <2>5. CASE n > 1
    BY <1>1, <1>2, <2>2, <2>5 DEF WatcherState
  <2>6. CASE n = 1
    BY <1>2, <2>2, <2>4, <2>6 DEF CallbackDone, WatcherState
  <2> QED
    BY <2>3, <2>5, <2>6
<1>4. /\ Ids(watcher.todo) = {d} \union Ids(Tail(watcher.todo))
      /\ Len(watcher.todo) = 1 => Ids(watcher.todo) = {d}
  BY <1>1, <1>2, IdsTail
<1>5. /\ \A t \in Tenants \ {d} : tenantDns'[t] = tenantDns[t]
      /\ RowAgrees(tenantDns', d) <=> ~Known(d)
  BY <1>2, DeletedRow DEF Done
<1>6. Held \in EventType /\ Held.type = "DELETED" /\ Held.tenants = watcher.todo
  BY <1>1, HeldType
<1>7. watcher'.pc = "rows" =>
        /\ Held' \in EventType /\ Held'.type = "DELETED"
        /\ Held'.tenants = Tail(watcher.todo)
  <2>1. (TypeOK /\ watcher.pc = "rows" =>
           /\ Held \in EventType /\ Held.type = watcher.event.type
           /\ Held.tenants = watcher.todo)'
    BY HeldType, PTL
  <2> QED
    BY <1>1, <1>3, <2>1
<1>8. ASSUME Satellite, NEW t \in Tenants \ behind'
      PROVE  HeldRight(t)' /\ RowRight(t)'
  <2>1. Wrong(t)' = Wrong(t)
    BY <1>1 DEF Wrong, Known
  <2>2. Holds(t) <=> t \in Ids(watcher.todo)
    BY <1>1, <1>6, WritesByType DEF Holds
  <2>3. Held \in Wrong(t) <=> t \in Ids(watcher.todo) /\ Known(t)
    BY <1>6, WritesByType
  <2>4. watcher'.pc = "rows" =>
          /\ Held' \in Writes(t) <=> t \in Ids(Tail(watcher.todo))
          /\ Held' \in Wrong(t) <=> t \in Ids(Tail(watcher.todo)) /\ Known(t)
    BY <1>7, WritesByType
  <2>5. RowAgrees(tenantDns, t)' <=> RowAgrees(tenantDns', t)
    BY <1>1 DEF RowAgrees, Known
  <2>6. CASE t = d
    <3>1. CASE Has(frames, Writes(d))
      BY <1>1, <2>6, <3>1 DEF HeldRight, RowRight
    <3>2. CASE ~Has(frames, Writes(d))
      <4>1. ~Known(d)
        <5>1. CASE d \in behind
          BY <1>5, <1>8, <2>6, <5>1
        <5>2. CASE d \notin behind
          <6>1. HeldRight(d)
            BY <1>2, <1>8, <5>2 DEF RowInv
          <6> QED
            BY <1>4, <2>2, <2>3, <2>6, <3>2, <6>1 DEF HeldRight
        <5> QED
          BY <5>1, <5>2
      <4> QED
        BY <1>5, <2>1, <2>4, <2>5, <2>6, <4>1 DEF HeldRight, RowRight, Holds
    <3> QED
      BY <3>1, <3>2
  <2>7. CASE t # d
    <3>1. HeldRight(t) /\ RowRight(t)
      BY <1>1, <1>8, <2>7 DEF RowInv
    <3>2. manager'[t] = manager[t] /\ tenantDns'[t] = tenantDns[t]
      BY <1>1, <1>5, <2>7
    <3>3. Holds(t)' <=> Holds(t)
      BY <1>3, <1>4, <2>2, <2>4, <2>7 DEF Holds
    <3>4. Holds(t) => (Held' \in Wrong(t) => Held \in Wrong(t))
      BY <1>3, <1>4, <2>1, <2>2, <2>3, <2>4, <2>7
    <3>5. LoaderOwes(t)' <=> LoaderOwes(t)
      BY <1>1 DEF LoaderOwes, Listed, Known
    <3> QED
      BY <1>1, <3>1, <3>2, <3>3, <3>4, <3>5, RowKept
  <2> QED
    BY <2>6, <2>7
<1>9. \A t \in Tenants : FeedRight(t)'
  BY <1>1, FeedKept
<1> QED
  BY <1>8, <1>9 DEF RowInv

\* A tenant whose row the watcher's last step did not concern.
LEMMA RestKept ==
    ASSUME TypeOK, RowInv, Satellite, NEW t \in Tenants \ behind,
           watcher.pc = "rows", CallbackDone,
           UNCHANGED <<manager, frames, loader>>,
           ~Holds(t), tenantDns'[t] = tenantDns[t]
    PROVE  HeldRight(t)' /\ RowRight(t)'
<1>1. HeldRight(t) /\ RowRight(t)
  BY DEF RowInv
<1>2. watcher'.pc # "rows"
  BY DEF CallbackDone, TypeOK
<1>3. ~Holds(t)'
  BY <1>2 DEF Holds
<1>4. LoaderOwes(t)' <=> LoaderOwes(t)
  BY DEF LoaderOwes, Listed, Known
<1> QED
  BY <1>1, <1>3, <1>4, RowKept

\* The write of any other event's tenant has landed, or the tenant is behind.
LEMMA SyncFirstRows ==
    ASSUME TypeOK, RowInv, NEW d, Done(d), watcher.event.type # "DELETED",
           \/ d \in behind' \/ RowAgrees(tenantDns', d)
           \/ tenantDns'[d] = RowOf(Head(watcher.todo)) /\ d \notin behind
    PROVE  RowInv'
<1> DEFINE entry == Head(watcher.todo)
<1>1. /\ watcher.pc = "rows" /\ CallbackDone
      /\ UNCHANGED <<manager, frames, loader>>
      /\ behind \ {d} \subseteq behind' /\ d = entry.id
      /\ \A u \in Tenants \ {d} : tenantDns'[u] = tenantDns[u]
  BY DEF Done, TenantDone
<1>2. /\ watcher.todo \in Seq(EntryType) /\ watcher.todo # <<>>
      /\ watcher \in WatcherState
  BY <1>1 DEF TypeOK, WatcherState
<1>3. watcher'.pc # "rows"
  BY <1>1, <1>2 DEF CallbackDone, WatcherState
<1>4. Held \in EventType /\ Held.tenants = watcher.todo
      /\ Held.type = watcher.event.type
  BY <1>1, HeldType
<1>5. \A t \in Tenants : FeedRight(t)'
  BY <1>1, FeedKept
<1>6. entry \in EntryType /\ entry = watcher.todo[1]
  BY <1>2, IdsTail, HeadTailProperties
<1>7. tenantDns'[d] = RowOf(entry) /\ entry.status = manager[d]
      => RowAgrees(tenantDns', d)
  BY <1>1, <1>6, UpsertedRow
<1>8. ASSUME Satellite, NEW t \in Tenants \ behind'
      PROVE  HeldRight(t)' /\ RowRight(t)'
  <2>1. Holds(t) <=> t = d
    BY <1>1, <1>4, <1>6, WritesByType DEF Holds
  <2>2. Held \in Wrong(t) <=> t = d /\ entry.status # manager[t]
    BY <1>1, <1>4, <1>6, WritesByType
  <2>3. CASE t # d
    BY <1>1, <1>8, <2>1, <2>3, RestKept
  <2>4. CASE t = d
    <3>1. ~Holds(t)'
      BY <1>3 DEF Holds
    <3>2. RowAgrees(tenantDns, t)' <=> RowAgrees(tenantDns', t)
      BY <1>1 DEF RowAgrees, Known
    <3>3. CASE RowAgrees(tenantDns', d)
      BY <2>4, <3>1, <3>2, <3>3 DEF HeldRight, RowRight
    <3>4. CASE tenantDns'[d] = RowOf(entry) /\ d \notin behind
      <4>1. HeldRight(t)
        BY <1>8, <2>4, <3>4 DEF RowInv
      <4>2. Has(frames, Writes(t)) \/ entry.status = manager[d]
        BY <2>1, <2>2, <2>4, <4>1 DEF HeldRight
      <4> QED
        BY <1>1, <1>7, <2>4, <3>1, <3>2, <3>4, <4>2 DEF HeldRight, RowRight
    <3> QED
      BY <1>8, <2>4, <3>3, <3>4
  <2> QED
    BY <2>3, <2>4
<1> QED
  BY <1>5, <1>8 DEF RowInv

\* The watcher's steps that end with a tenant or with the event.
LEMMA SyncRows ==
    ASSUME TypeOK, TypeOK', RowInv,
           SyncDeletedNone \/ SyncWrites \/ SyncRefused \/ SyncFails
    PROVE  RowInv'
<1>0. RowsTyped /\ WritingTyped
  BY TypeParts
<1>1. CASE SyncDeletedNone
  <2> DEFINE d == Head(watcher.todo).id
  <2>1. /\ watcher.event.type = "DELETED" /\ ~Exists(d) /\ tenantDns' = tenantDns
        /\ behind' = IF RowAgrees(tenantDns', d) THEN behind \ {d} ELSE behind
    BY <1>1 DEF SyncDeletedNone, Repair
  <2>2. Done(d)
    BY <1>1, <2>1 DEF SyncDeletedNone, Done
  <2>3. tenantDns'[d] = None
    BY <2>1 DEF Exists
  <2>4. d \notin behind' => d \notin behind \/ RowAgrees(tenantDns', d)
    BY <2>1
  <2> HIDE DEF d
  <2> QED
    BY <2>1, <2>2, <2>3, <2>4, SyncDeletedRows
<1>2. CASE SyncWrites
  <2> DEFINE w == writing["watcher"]
             d == w.id
  <2>1. /\ w # None /\ ~Refused(w) /\ tenantDns' = Written(w) /\ TenantDone
        /\ behind' = IF Lost(w)
                     THEN IF RowAgrees(tenantDns', d) THEN behind
                          ELSE behind \union {d}
                     ELSE IF RowAgrees(tenantDns', d) THEN behind \ {d}
                          ELSE behind
        /\ UNCHANGED <<manager, frames, loader>>
    BY <1>2 DEF SyncWrites, Due, Judge, Repair
  <2>2. w \in Writing /\ WatcherWriting(w)
    BY <1>0, <2>1 DEF WritingTyped, Writers
  <2> HIDE DEF w
  <2>3. /\ \A t \in Tenants \ {d} : tenantDns'[t] = tenantDns[t]
        /\ tenantDns'[d] = IF Lost(w) THEN tenantDns[d] ELSE w.row
    BY <1>0, <2>1, <2>2, RowWritten
  <2>4. Lost(w) => tenantDns'[d] = None
    BY <2>3 DEF Lost, Exists
  <2>5. Done(d)
    BY <2>1, <2>2, <2>3 DEF Done, WatcherWriting
  <2>6. CASE watcher.event.type = "DELETED"
    <3>1. tenantDns'[d] = None \/ tenantDns'[d].removed
      BY <2>2, <2>3, <2>4, <2>6 DEF WatcherWriting
    <3>2. d \notin behind' => d \notin behind \/ RowAgrees(tenantDns', d)
      BY <2>1
    <3> HIDE DEF d
    <3> QED
      BY <2>5, <2>6, <3>1, <3>2, SyncDeletedRows
  <2>7. CASE watcher.event.type # "DELETED"
    <3>1. w.row = RowOf(Head(watcher.todo))
      BY <2>2, <2>7 DEF WatcherWriting
    <3>2. \/ d \in behind' \/ RowAgrees(tenantDns', d)
          \/ tenantDns'[d] = RowOf(Head(watcher.todo)) /\ d \notin behind
      BY <2>1, <2>3, <3>1
    <3> HIDE DEF d
    <3> QED
      BY <2>5, <2>7, <3>2, SyncFirstRows
  <2> QED
    BY <2>6, <2>7
<1>3. CASE SyncRefused \/ SyncFails
  <2>1. /\ watcher.pc = "rows" /\ CallbackDone
        /\ UNCHANGED <<manager, frames, loader, tenantDns>>
        /\ behind' = behind \union Ids(watcher.todo)
    BY <1>3 DEF SyncRefused, SyncFails, SyncEnds
  <2>2. Held \in EventType /\ Held.tenants = watcher.todo
    BY <2>1, HeldType
  <2>3. \A t \in Tenants : FeedRight(t)'
    BY <2>1, FeedKept
  <2>4. ASSUME Satellite, NEW t \in Tenants \ behind'
        PROVE  HeldRight(t)' /\ RowRight(t)'
    <3>1. ~Holds(t)
      BY <2>1, <2>2, <2>4, WritesNames DEF Holds
    <3> QED
      BY <2>1, <2>4, <3>1, RestKept
  <2> QED
    BY <2>3, <2>4 DEF RowInv
<1> QED
  BY <1>1, <1>2, <1>3

\* A write of the loader: it is right, or the tenant is behind.
LEMMA LoaderKept ==
    ASSUME TypeOK, RowInv, NEW d \in Tenants,
           UNCHANGED <<manager, frames, watcher>>, behind \subseteq behind',
           \A t \in Tenants \ {d} : tenantDns'[t] = tenantDns[t],
           \A t \in Tenants \ {d} : LoaderOwes(t) => LoaderOwes(t)',
           d \in behind' \/ RowAgrees(tenantDns', d)
    PROVE  RowInv'
<1>1. \A t \in Tenants : FeedRight(t)'
  BY FeedKept
<1>2. ASSUME Satellite, NEW t \in Tenants \ behind'
      PROVE  HeldRight(t)' /\ RowRight(t)'
  <2>1. HeldRight(t) /\ RowRight(t)
    BY <1>2 DEF RowInv
  <2>2. Held' = Held /\ (Holds(t)' <=> Holds(t)) /\ Wrong(t)' = Wrong(t)
    BY DEF Held, Holds, Wrong, Known
  <2>3. CASE t # d
    <3>1. /\ manager'[t] = manager[t] /\ tenantDns'[t] = tenantDns[t]
          /\ LoaderOwes(t) => LoaderOwes(t)'
          /\ Has(frames', Writes(t)) <=> Has(frames, Writes(t))
      BY <1>2, <2>3
    <3> QED
      BY <2>1, <2>2, <3>1, RowKept
  <2>4. CASE t = d
    <3>1. RowAgrees(tenantDns, t)'
      BY <1>2, <2>4 DEF RowAgrees, Known
    <3> QED
      BY <2>1, <2>2, <3>1 DEF HeldRight, RowRight
  <2> QED
    BY <2>3, <2>4
<1> QED
  BY <1>1, <1>2 DEF RowInv

\* A step that is not the watcher's and writes no row, but may take over what
\* the loader has to write.
LEMMA OwesKept ==
    ASSUME TypeOK, RowInv,
           UNCHANGED <<manager, frames, watcher, tenantDns, behind>>,
           \A t \in Tenants : LoaderOwes(t) =>
             LoaderOwes(t)' \/ RowAgrees(tenantDns, t)
    PROVE  RowInv'
<1>1. \A t \in Tenants : FeedRight(t)'
  BY FeedKept
<1>2. ASSUME Satellite, NEW t \in Tenants \ behind'
      PROVE  HeldRight(t)' /\ RowRight(t)'
  <2>1. HeldRight(t) /\ RowRight(t)
    BY <1>2 DEF RowInv
  <2>2. Held' = Held /\ (Holds(t)' <=> Holds(t))
    BY DEF Held, Holds
  <2>3. /\ manager'[t] = manager[t] /\ tenantDns'[t] = tenantDns[t]
        /\ LoaderOwes(t) => LoaderOwes(t)' \/ RowAgrees(tenantDns, t)
        /\ Has(frames', Writes(t)) <=> Has(frames, Writes(t))
    OBVIOUS
  <2> QED
    BY <2>1, <2>2, <2>3, RowKept
<1> QED
  BY <1>1, <1>2 DEF RowInv

\* The loader has done with a tenant: it owes the others what it owed.
LEMMA LoaderDoneRows ==
    ASSUME TypeOK, RowInv, NEW d \in Tenants,
           loader.pc \in {"upsert", "delete"},
           loader' = [loader EXCEPT !.todo = Without(d)],
           UNCHANGED <<manager, frames, watcher>>, behind \subseteq behind',
           \A t \in Tenants \ {d} : tenantDns'[t] = tenantDns[t],
           d \in behind' \/ RowAgrees(tenantDns', d)
    PROVE  RowInv'
<1>1. LoaderTyped
  BY TypeParts
<1>2. /\ loader'.pc = loader.pc /\ loader'.list = loader.list
      /\ loader'.todo = Without(d)
  BY <1>1, WithoutType
<1>3. \A t \in Tenants : Known(t)' <=> Known(t)
  BY DEF Known
<1>4. \A t \in Tenants \ {d} : LoaderOwes(t) => LoaderOwes(t)'
  BY <1>2, <1>3 DEF LoaderOwes, Listed, Without
<1> QED
  BY <1>4, LoaderKept

LEMMA LoaderRows ==
    ASSUME TypeOK, RowInv,
           \/ ListTenants \/ FindAll \/ DeleteUnlistedNone \/ LoaderWrites
           \/ LoadingDone \/ UpsertListedFails \/ FindAllFails
           \/ DeleteUnlistedFails \/ PurgeRemoved
    PROVE  RowInv'
<1>0. RowsTyped /\ LoaderTyped /\ loader \in LoaderState /\ WritingTyped
  BY TypeParts DEF LoaderTyped
<1>1. UNCHANGED <<manager, frames, watcher>>
  BY DEF ListTenants, FindAll, DeleteUnlistedNone, LoaderWrites, LoadingDone,
         UpsertListedFails, FindAllFails, DeleteUnlistedFails, WriteFails,
         PurgeRemoved
<1>2. \A t \in Tenants : Known(t)' <=> Known(t)
  BY <1>1 DEF Known
<1>3. CASE ListTenants
  <2> DEFINE list == {Entry(t) : t \in {u \in Tenants : Known(u)}}
  <2>1. /\ loader' = [pc |-> "upsert", list |-> list, todo |-> list]
        /\ UNCHANGED <<tenantDns, behind>>
    BY <1>3 DEF ListTenants
  <2>2. ASSUME NEW t \in Tenants, Known(t) PROVE \E e \in list : e.id = t
    <3>1. Entry(t) \in list /\ Entry(t).id = t
      BY <2>2 DEF Entry
    <3> QED
      BY <3>1
  <2>3. \A t \in Tenants : ~Known(t) => ~ \E e \in list : e.id = t
    BY DEF Entry
  <2> HIDE DEF list
  <2>4. loader'.pc = "upsert" /\ loader'.list = list /\ loader'.todo = list
    BY <2>1
  <2>5. \A t \in Tenants : LoaderOwes(t)'
    BY <1>2, <2>2, <2>3, <2>4 DEF LoaderOwes, Listed
  <2> QED
    BY <1>1, <2>1, <2>5, OwesKept
<1>4. CASE LoaderWrites
  <2> DEFINE w == writing["loader"]
             d == w.id
  <2>1. /\ w # None /\ tenantDns' = Written(w)
        /\ loader' = [loader EXCEPT !.todo = Without(d)]
        /\ behind' = IF RowAgrees(tenantDns', d) THEN behind
                     ELSE behind \union {d}
    BY <1>4 DEF LoaderWrites, Due, Judge
  <2>2. w \in Writing /\ LoaderWriting(d)
    BY <1>0, <2>1 DEF WritingTyped, Writers
  <2> HIDE DEF w
  <2>3. \A t \in Tenants \ {d} : tenantDns'[t] = tenantDns[t]
    BY <1>0, <2>1, <2>2, RowWritten
  <2>4. d \in Tenants /\ loader.pc \in {"upsert", "delete"}
    BY <2>2 DEF Writing, LoaderWriting
  <2>5. behind \subseteq behind' /\ (d \in behind' \/ RowAgrees(tenantDns', d))
    BY <2>1
  <2> HIDE DEF d
  <2> QED
    BY <1>1, <2>1, <2>3, <2>4, <2>5, LoaderDoneRows
<1>5. CASE FindAll
  <2> DEFINE extra == {t \in Tenants : Exists(t) /\ ~Listed(t)}
  <2>1. /\ loader' = [loader EXCEPT !.pc = "delete", !.todo = extra]
        /\ loader.pc = "upsert" /\ loader.todo = {}
        /\ UNCHANGED <<tenantDns, behind>>
    BY <1>5 DEF FindAll
  <2>2. ASSUME NEW t \in Tenants, LoaderOwes(t)
        PROVE  LoaderOwes(t)' \/ RowAgrees(tenantDns, t)
    <3>1. ~Listed(t) /\ ~Known(t)
      BY <2>1, <2>2 DEF LoaderOwes
    <3>2. CASE tenantDns[t] = None
      BY <3>1, <3>2 DEF RowAgrees
    <3>3. CASE tenantDns[t] # None
      <4>1. t \in extra
        BY <3>1, <3>3 DEF Exists
      <4> HIDE DEF extra
      <4>2. loader'.pc = "delete" /\ loader'.todo = extra
        BY <1>0, <2>1 DEF LoaderState
      <4> QED
        BY <4>1, <4>2 DEF LoaderOwes
    <3> QED
      BY <3>2, <3>3
  <2> QED
    BY <1>1, <2>1, <2>2, OwesKept
<1>6. CASE FindAllFails
  <2>1. loader'.pc = "list" /\ UNCHANGED <<tenantDns, behind>>
    BY <1>6 DEF FindAllFails
  <2> QED
    BY <1>1, <2>1, OwesKept DEF LoaderOwes
<1>7. CASE UpsertListedFails \/ DeleteUnlistedFails \/ DeleteUnlistedNone
  <2>1. PICK d \in Tenants :
          /\ loader' = [loader EXCEPT !.todo = Without(d)]
          /\ tenantDns' = tenantDns
          /\ behind \subseteq behind'
          /\ d \in behind' \/ RowAgrees(tenantDns', d)
    <3>1. CASE UpsertListedFails
      <4>1. PICK entry \in loader.todo : WriteFails(entry.id)
        BY <3>1 DEF UpsertListedFails
      <4>2. entry.id \in Tenants
        BY <1>0, <3>1 DEF UpsertListedFails, LoaderTyped, EntryType
      <4> QED
        BY <4>1, <4>2 DEF WriteFails
    <3>2. CASE DeleteUnlistedFails
      <4>1. PICK t \in loader.todo : WriteFails(t)
        BY <3>2 DEF DeleteUnlistedFails
      <4>2. t \in Tenants
        BY <1>0, <3>2 DEF DeleteUnlistedFails, LoaderTyped
      <4> QED
        BY <4>1, <4>2 DEF WriteFails
    <3>3. CASE DeleteUnlistedNone
      <4>1. PICK t \in loader.todo :
              /\ loader' = [loader EXCEPT !.todo = Without(t)]
              /\ tenantDns' = tenantDns
              /\ behind' = IF RowAgrees(tenantDns', t) THEN behind
                           ELSE behind \union {t}
        BY <3>3 DEF DeleteUnlistedNone, Judge
      <4>2. t \in Tenants
        BY <1>0, <3>3 DEF DeleteUnlistedNone, LoaderTyped
      <4> QED
        BY <4>1, <4>2
    <3> QED
      BY <1>7, <3>1, <3>2, <3>3
  <2>2. loader.pc \in {"upsert", "delete"}
    BY <1>7 DEF UpsertListedFails, DeleteUnlistedFails, DeleteUnlistedNone
  <2> QED
    BY <1>1, <2>1, <2>2, LoaderDoneRows
<1>8. CASE LoadingDone
  <2>1. /\ loader.pc = "delete" /\ loader.todo = {}
        /\ UNCHANGED <<tenantDns, behind>>
    BY <1>8 DEF LoadingDone
  <2>2. \A t \in Tenants : ~LoaderOwes(t)
    BY <2>1 DEF LoaderOwes
  <2> QED
    BY <1>1, <2>1, <2>2, OwesKept
<1>9. CASE PurgeRemoved
  <2>1. UNCHANGED <<loader, behind>>
    BY <1>9 DEF PurgeRemoved
  <2>2. PICK d \in Tenants : /\ tenantDns[d] # None /\ tenantDns[d].removed
                             /\ tenantDns' = [tenantDns EXCEPT ![d] = None]
    BY <1>9 DEF PurgeRemoved, Exists
  <2>3. \A t \in Tenants : LoaderOwes(t)' <=> LoaderOwes(t)
    BY <1>2, <2>1 DEF LoaderOwes, Listed
  <2>4. /\ tenantDns'[d] = None
        /\ \A t \in Tenants \ {d} : tenantDns'[t] = tenantDns[t]
    BY <1>0, <2>2 DEF RowsTyped
  <2>5. CASE Known(d)
    <3>1. ~RowAgrees(tenantDns, d)
      BY <2>2, <2>5 DEF RowAgrees
    <3>2. \A t \in Tenants : FeedRight(t)'
      BY <1>1, FeedKept
    <3>3. ASSUME Satellite, NEW t \in Tenants \ behind'
          PROVE  HeldRight(t)' /\ RowRight(t)'
      <4>1. HeldRight(t) /\ RowRight(t)
        BY <2>1, <3>3 DEF RowInv
      <4>2. Held' = Held /\ (Holds(t)' <=> Holds(t)) /\ Wrong(t)' = Wrong(t)
        BY <1>1 DEF Held, Holds, Wrong, Known
      <4>3. CASE t = d
        <5>1. Holds(t) \/ Has(frames, Writes(t)) \/ LoaderOwes(t)
          BY <3>1, <4>1, <4>3 DEF RowRight
        <5> QED
          BY <1>1, <2>3, <4>1, <4>2, <5>1 DEF HeldRight, RowRight
      <4>4. CASE t # d
        <5>1. /\ manager'[t] = manager[t] /\ tenantDns'[t] = tenantDns[t]
              /\ LoaderOwes(t)' <=> LoaderOwes(t)
              /\ Has(frames', Writes(t)) <=> Has(frames, Writes(t))
          BY <1>1, <2>3, <2>4, <4>4
        <5> QED
          BY <4>1, <4>2, <5>1, RowKept
      <4> QED
        BY <4>3, <4>4
    <3> QED
      BY <3>2, <3>3 DEF RowInv
  <2>6. CASE ~Known(d)
    <3>1. RowAgrees(tenantDns', d)
      BY <2>4, <2>6 DEF RowAgrees
    <3> QED
      BY <1>1, <2>1, <2>3, <2>4, <3>1, LoaderKept
  <2> QED
    BY <2>5, <2>6
<1> QED
  BY <1>3, <1>4, <1>5, <1>6, <1>7, <1>8, <1>9

\* The steps that write no row and have done with none.
LEMMA OtherRows ==
    ASSUME TypeOK, RowInv,
           \/ StartWatching \/ NoticeClose \/ ActualizeActiveTenantsCache
           \/ SyncDeleted \/ SyncFirst \/ UpsertListed \/ DeleteUnlisted
           \/ (\E writer \in Writers : Select(writer)) \/ UNCHANGED vars
    PROVE  RowInv'
<1>1. UNCHANGED <<manager, frames, loader, tenantDns, behind>>
  BY DEF StartWatching, NoticeClose, ActualizeActiveTenantsCache, SyncDeleted,
         SyncFirst, UpsertListed, DeleteUnlisted, Select, vars
<1>2. watcher' = watcher \/ (watcher.pc # "rows" /\ watcher'.pc # "rows")
  BY DEF StartWatching, NoticeClose, ActualizeActiveTenantsCache, SyncDeleted,
         SyncFirst, UpsertListed, DeleteUnlisted, Select, vars, IdleWatcher
<1>3. \A t \in Tenants : FeedRight(t)'
  BY <1>1, FeedKept
<1>4. ASSUME Satellite, NEW t \in Tenants \ behind'
      PROVE  HeldRight(t)' /\ RowRight(t)'
  <2>1. HeldRight(t) /\ RowRight(t)
    BY <1>1, <1>4 DEF RowInv
  <2>2. /\ Holds(t)' <=> Holds(t)
        /\ Holds(t) => Held' = Held
    BY <1>2 DEF Held, Holds
  <2>3. LoaderOwes(t)' <=> LoaderOwes(t)
    BY <1>1 DEF LoaderOwes, Listed, Known
  <2> QED
    BY <1>1, <2>1, <2>2, <2>3, RowKept
<1> QED
  BY <1>3, <1>4 DEF RowInv

LEMMA InitRows == Init => RowInv
<1> SUFFICES ASSUME Init PROVE RowInv
  OBVIOUS
<1>1. \A t \in Tenants : FeedRight(t)
  BY EmptyQueue DEF Init, FeedRight
<1>2. watcher.pc # "rows" /\ (Satellite => loader.pc = "list")
  BY DEF Init, IdleWatcher
<1> QED
  BY <1>1, <1>2 DEF RowInv, HeldRight, RowRight, Holds, LoaderOwes

LEMMA RowInvHolds == Spec => []RowInv
<1>1. TypeOK /\ TypeOK' /\ RowInv /\ [Next]_vars => RowInv'
  BY ChangeRows, BreakRows, ConnectRows, ReceiveRows, SyncRows, LoaderRows,
     OtherRows DEF Next, WatcherStep, LoaderStep, Writers
<1> QED
  BY <1>1, InitRows, FeedTypeCorrect, PTL DEF Spec

LEMMA RowInvGivesFollow == RowInv => RowsFollow
<1> SUFFICES ASSUME RowInv, Satellite, CaughtUp, loader.pc = "done",
                    NEW t \in Tenants \ behind
             PROVE  RowAgrees(tenantDns, t)
  BY DEF RowsFollow
<1>1. ~Holds(t) /\ ~LoaderOwes(t)
  BY DEF CaughtUp, Holds, LoaderOwes
<1>2. ~Has(frames, Writes(t))
  BY EmptyQueue DEF CaughtUp
<1>3. RowRight(t)
  BY DEF RowInv
<1> QED
  BY <1>1, <1>2, <1>3 DEF RowRight

\* When loader and watcher have no more to do, the rows of a satellite say what
\* tenant-manager says, but for the tenants of which an event was lost, a write
\* failed or did not land between a SELECT and what others wrote, or the loader's
\* write was out of date (SyncTenantsWithTM, syncAllTenantsFromTM,
\* upsertTenantFromTM, DeleteTenant, dao.Upsert).
THEOREM RowsAgreeInTheEnd == Spec => []RowsFollow
<1> QED
  BY RowInvHolds, RowInvGivesFollow, PTL

===============================================================================
