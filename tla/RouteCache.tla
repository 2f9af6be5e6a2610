------------------------------ MODULE RouteCache ------------------------------
(***************************************************************************)
(* The cache of routes in paasMediationClient: paasMediationClient.go and  *)
(* websocketclient.go.                                                     *)
(*                                                                         *)
(* A websocket client per watched namespace pushes what it receives to the *)
(* channel `bus', after an INIT signal for each new connection.  One       *)
(* goroutine (`syncer') takes the updates: INIT lists the namespace and    *)
(* replaces its map, an event changes one entry, and after either the      *)
(* callbacks run.  The process's own calls change the cloud and then the   *)
(* map (`writer').  GetRoutes on a namespace without a map starts a client *)
(* and polls; a callback that does so polls in the syncer itself.          *)
(***************************************************************************)
EXTENDS Integers, FiniteSets, Sequences

CONSTANTS
    Namespaces,     \* namespaces of the cloud
    Home,           \* the one of this process, cached from the start
    Keys,           \* CacheKey: kind and name of a route
    Clients,        \* pool of websocket clients (bounds how many are started)
    First,          \* the client NewClient starts for Home
    Readers,        \* goroutines that call GetRoutes
    CallbackReads,  \* a namespace of a tenant, other than Home, that the
                    \* callback reads, or Absent
    BusCap,         \* capacity of `bus' (50 in initRoutesCache)
    Attempts,       \* polls of GetRoutes before it gives up (attemptsInit)
    MaxChanges,     \* bound: changes of the cloud
    MaxBreaks,      \* bound: lost connections
    MaxFetchFails,  \* bound: listings that fail all their attempts
    Absent          \* "no map for this namespace"

ASSUME CacheAssumption ==
    /\ Home \in Namespaces /\ First \in Clients
    /\ Absent \notin Namespaces \union Keys
    /\ CallbackReads \in (Namespaces \ {Home}) \union {Absent}
    /\ BusCap \in Nat \ {0} /\ Attempts \in Nat
    /\ MaxChanges \in Nat /\ MaxBreaks \in Nat /\ MaxFetchFails \in Nat

VARIABLES
    cloud,      \* namespace -> keys of its routes
    cache,      \* namespace -> keys in its map, or Absent
    client,     \* client -> [pc, ns, stream]
    bus,        \* the channel
    syncer,     \* [pc, ns, snapshot, failed, tries] of the syncing goroutine
    reader,     \* reader -> [pc, ns, tries] of a GetRoutes that polls
    writer,     \* [pc, key, type] of a CreateRoute or DeleteRoute in Home
    changes, breaks, fetchFails,
    doubtful    \* history: entries <<ns, key>> of the cache that a failed
                \* listing or an overtaken own update may have made wrong

vars == <<cloud, cache, client, bus, syncer, reader, writer, changes, breaks,
          fetchFails, doubtful>>

Init_(ns) == [type |-> "INIT", ns |-> ns, key |-> Absent]
Event(type, ns, k) == [type |-> type, ns |-> ns, key |-> k]

Cached(ns) == cache[ns] # Absent
Watching(i, ns) == client[i].ns = ns /\ client[i].pc \in {"init", "reading"}

IdleSyncer == [pc |-> "idle", ns |-> Absent, snapshot |-> {}, failed |-> FALSE,
               tries |-> 0]
IdleReader == [pc |-> "idle", ns |-> Absent, tries |-> 0]
IdleWriter == [pc |-> "idle", key |-> Absent, type |-> Absent]
Unused == [pc |-> "unused", ns |-> Absent, stream |-> <<>>]

-----------------------------------------------------------------------------
(* The cloud: a route comes or goes, and every open watch of the namespace  *)
(* is sent the event.                                                      *)

Toggle(ns, k) ==
    LET type == IF k \in cloud[ns] THEN "DELETED" ELSE "CREATED" IN
    /\ changes < MaxChanges
    /\ changes' = changes + 1
    /\ cloud' = [cloud EXCEPT ![ns] =
                    IF type = "CREATED" THEN @ \union {k} ELSE @ \ {k}]
    /\ client' = [i \in Clients |->
         IF Watching(i, ns)
         THEN [client[i] EXCEPT !.stream = Append(@, Event(type, ns, k))]
         ELSE client[i]]

Change ==
    /\ \E ns \in Namespaces, k \in Keys : Toggle(ns, k)
    /\ UNCHANGED <<cache, bus, syncer, reader, writer, breaks, fetchFails,
                   doubtful>>

-----------------------------------------------------------------------------
(* updateRoutesCache for one event, by the syncer or after an own call: a   *)
(* namespace without a map is left alone.                                  *)

Updated(e) ==
    IF ~Cached(e.ns) THEN cache
    ELSE [cache EXCEPT ![e.ns] =
            IF e.type = "DELETED" THEN @ \ {e.key} ELSE @ \union {e.key}]

\* CreateRoute and DeleteRoute: first the cloud, in one request ...
CallCloud ==
    /\ writer.pc = "idle"
    /\ \E k \in Keys :
         /\ Toggle(Home, k)
         /\ writer' = [pc |-> "cache", key |-> k,
              type |-> IF k \in cloud[Home] THEN "DELETED" ELSE "CREATED"]
    /\ UNCHANGED <<cache, bus, syncer, reader, breaks, fetchFails, doubtful>>

\* ... then the map, whatever has happened to the route in between.
UpdateOwnCache ==
    LET k == writer.key IN
    /\ writer.pc = "cache"
    /\ cache' = Updated(Event(writer.type, Home, k))
    /\ writer' = IdleWriter
    /\ doubtful' = IF (k \in cloud[Home]) = (writer.type = "CREATED")
                   THEN doubtful \ {<<Home, k>>}
                   ELSE doubtful \union {<<Home, k>>}
    /\ UNCHANGED <<cloud, client, bus, syncer, reader, changes, breaks,
                   fetchFails>>

-----------------------------------------------------------------------------
(* WebSocketClient: dial, signal INIT, forward messages, dial again         *)

Dial(i) ==
    /\ client[i].pc = "dialing"
    /\ client' = [client EXCEPT ![i].pc = "init"]
    /\ UNCHANGED <<cloud, cache, bus, syncer, reader, writer, changes, breaks,
                   fetchFails, doubtful>>

\* Mutant: the message is kept when the channel is full.
PushUnbounded(message) == bus' = Append(bus, message)

Push(message) == Len(bus) < BusCap /\ bus' = Append(bus, message)

\* Mutant: no INIT signal after a connection.
SendInitNone(i) ==
    /\ client[i].pc = "init"
    /\ client' = [client EXCEPT ![i].pc = "reading"]
    /\ UNCHANGED <<cloud, cache, bus, syncer, reader, writer, changes, breaks,
                   fetchFails, doubtful>>

SendInit(i) ==
    /\ client[i].pc = "init"
    /\ Push(Init_(client[i].ns))
    /\ client' = [client EXCEPT ![i].pc = "reading"]
    /\ UNCHANGED <<cloud, cache, syncer, reader, writer, changes, breaks,
                   fetchFails, doubtful>>

Forward(i) ==
    /\ client[i].pc = "reading"
    /\ client[i].stream # <<>>
    /\ Push(Head(client[i].stream))
    /\ client' = [client EXCEPT ![i].stream = Tail(@)]
    /\ UNCHANGED <<cloud, cache, syncer, reader, writer, changes, breaks,
                   fetchFails, doubtful>>

\* The connection is lost with the messages on it.
Break(i) ==
    /\ client[i].pc = "reading"
    /\ breaks < MaxBreaks
    /\ breaks' = breaks + 1
    /\ client' = [client EXCEPT ![i].pc = "dialing", ![i].stream = <<>>]
    /\ UNCHANGED <<cloud, cache, bus, syncer, reader, writer, changes,
                   fetchFails, doubtful>>

ClientStep(i) == Dial(i) \/ SendInit(i) \/ Forward(i)

-----------------------------------------------------------------------------
(* syncingCacheInternal                                                    *)

Take ==
    LET e == Head(bus) IN
    /\ syncer.pc = "idle"
    /\ bus # <<>>
    /\ bus' = Tail(bus)
    /\ IF e.type = "INIT"
       THEN /\ syncer' = [IdleSyncer EXCEPT !.pc = "list", !.ns = e.ns]
            /\ UNCHANGED <<cache, doubtful>>
       ELSE /\ syncer' = [IdleSyncer EXCEPT !.pc = "callback"]
            /\ cache' = Updated(e)
            /\ doubtful' = doubtful \ {<<e.ns, e.key>>}
    /\ UNCHANGED <<cloud, client, reader, writer, changes, breaks, fetchFails>>

\* getRoutesWithoutCache: the list, without a lock on the cache.
List ==
    /\ syncer.pc = "list"
    /\ syncer' = [syncer EXCEPT !.pc = "store", !.snapshot = cloud[syncer.ns]]
    /\ UNCHANGED <<cloud, cache, client, bus, reader, writer, changes, breaks,
                   fetchFails, doubtful>>

\* All attempts of performRequestWithRetry fail.  Its outer `err' is never set,
\* so it returns nil, and the list is the empty one it was called with.
ListFails ==
    /\ syncer.pc = "list"
    /\ fetchFails < MaxFetchFails
    /\ fetchFails' = fetchFails + 1
    /\ syncer' = [syncer EXCEPT !.pc = "store", !.snapshot = {},
                                !.failed = TRUE]
    /\ UNCHANGED <<cloud, cache, client, bus, reader, writer, changes, breaks,
                   doubtful>>

\* initRoutesMapInCache replaces the map, or adds the one of a new namespace.
Store ==
    LET ns == syncer.ns
        entries == {ns} \X Keys IN
    /\ syncer.pc = "store"
    /\ cache' = [cache EXCEPT ![ns] = syncer.snapshot]
    /\ doubtful' = IF syncer.failed THEN doubtful \union entries
                   ELSE doubtful \ entries
    /\ syncer' = [IdleSyncer EXCEPT !.pc = "callback"]
    /\ UNCHANGED <<cloud, client, bus, reader, writer, changes, breaks,
                   fetchFails>>

-----------------------------------------------------------------------------
(* GetRoutes on a namespace that has no map                                *)

StartClient(ns) ==
    \E i \in Clients :
        /\ client[i] = Unused
        /\ client' = [client EXCEPT ![i] = [Unused EXCEPT !.pc = "dialing",
                                                          !.ns = ns]]

GetRoutes(c) ==
    /\ reader[c].pc = "idle"
    /\ \E ns \in Namespaces :
         /\ ~Cached(ns)
         /\ StartClient(ns)
         /\ reader' = [reader EXCEPT ![c] = [pc |-> "poll", ns |-> ns,
                                             tries |-> 0]]
    /\ UNCHANGED <<cloud, cache, bus, syncer, writer, changes, breaks,
                   fetchFails, doubtful>>

\* One second later: the map is there, or this was the last attempt, or again.
Poll(c) ==
    /\ reader[c].pc = "poll"
    /\ reader' = [reader EXCEPT ![c] =
         IF Cached(reader[c].ns) \/ reader[c].tries >= Attempts
         THEN IdleReader
         ELSE [reader[c] EXCEPT !.tries = @ + 1]]
    /\ UNCHANGED <<cloud, cache, client, bus, syncer, writer, changes, breaks,
                   fetchFails, doubtful>>

\* The callbacks: SendRoutesToIDP, which reads Home and the namespaces of the
\* tenants that have any.
Callback ==
    /\ syncer.pc = "callback"
    /\ \/ /\ CallbackReads = Absent \/ Cached(CallbackReads)
          /\ syncer' = IdleSyncer
          /\ UNCHANGED client
       \/ /\ CallbackReads # Absent /\ ~Cached(CallbackReads)
          /\ StartClient(CallbackReads)
          /\ syncer' = [IdleSyncer EXCEPT !.pc = "poll",
                                          !.ns = CallbackReads]
       \/ /\ CallbackReads # Absent       \* no tenant has one at the moment
          /\ syncer' = IdleSyncer
          /\ UNCHANGED client
    /\ UNCHANGED <<cloud, cache, bus, reader, writer, changes, breaks,
                   fetchFails, doubtful>>

\* Mutant: GetRoutes polls until the map is there.
CallbackPollsForever ==
    /\ syncer.pc = "poll"
    /\ Cached(syncer.ns)
    /\ syncer' = IdleSyncer
    /\ UNCHANGED <<cloud, cache, client, bus, reader, writer, changes, breaks,
                   fetchFails, doubtful>>

\* The callback polls in the goroutine that would have to process the INIT.
CallbackPolls ==
    /\ syncer.pc = "poll"
    /\ syncer' = IF Cached(syncer.ns) \/ syncer.tries >= Attempts
                 THEN IdleSyncer
                 ELSE [syncer EXCEPT !.tries = @ + 1]
    /\ UNCHANGED <<cloud, cache, client, bus, reader, writer, changes, breaks,
                   fetchFails, doubtful>>

SyncerStep == Take \/ List \/ Store \/ Callback \/ CallbackPolls

-----------------------------------------------------------------------------
\* initRoutesCache: the list of Home, and a client that is yet to connect.
Init ==
    /\ cloud \in [Namespaces -> SUBSET Keys]
    /\ cache = [ns \in Namespaces |-> IF ns = Home THEN cloud[ns] ELSE Absent]
    /\ client = [i \in Clients |->
         IF i = First THEN [Unused EXCEPT !.pc = "dialing", !.ns = Home]
         ELSE Unused]
    /\ bus = <<>>
    /\ syncer = IdleSyncer
    /\ reader = [c \in Readers |-> IdleReader]
    /\ writer = IdleWriter
    /\ changes = 0 /\ breaks = 0 /\ fetchFails = 0
    /\ doubtful = {}

Next ==
    \/ Change
    \/ CallCloud \/ UpdateOwnCache
    \/ \E i \in Clients : ClientStep(i) \/ Break(i)
    \/ SyncerStep \/ ListFails
    \/ \E c \in Readers : GetRoutes(c) \/ Poll(c)

Spec == Init /\ [][Next]_vars

\* Goroutines are scheduled and a dial succeeds in the end.
Fairness ==
    /\ WF_vars(SyncerStep)
    /\ WF_vars(UpdateOwnCache)
    /\ \A i \in Clients : WF_vars(ClientStep(i))
    /\ \A c \in Readers : WF_vars(Poll(c))

FairSpec == Spec /\ Fairness

-----------------------------------------------------------------------------
(* Properties                                                              *)

Message == [type : {"INIT"}, ns : Namespaces, key : {Absent}]
           \union [type : {"CREATED", "DELETED"}, ns : Namespaces, key : Keys]

\* The types; the channel never holds more than its capacity.
TypeOK ==
    /\ cloud \in [Namespaces -> SUBSET Keys]
    /\ cache \in [Namespaces -> (SUBSET Keys) \union {Absent}]
    /\ client \in [Clients ->
         [pc : {"unused", "dialing", "init", "reading"},
          ns : Namespaces \union {Absent}, stream : Seq(Message)]]
    /\ bus \in Seq(Message) /\ Len(bus) <= BusCap
    /\ syncer \in [pc : {"idle", "list", "store", "callback", "poll"},
                   ns : Namespaces \union {Absent}, snapshot : SUBSET Keys,
                   failed : BOOLEAN, tries : 0..Attempts]
    /\ reader \in [Readers -> [pc : {"idle", "poll"},
                   ns : Namespaces \union {Absent}, tries : 0..Attempts]]
    /\ writer \in [pc : {"idle", "cache"}, key : Keys \union {Absent},
                   type : {"CREATED", "DELETED", Absent}]
    /\ changes \in 0..MaxChanges /\ breaks \in 0..MaxBreaks
    /\ fetchFails \in 0..MaxFetchFails
    /\ doubtful \subseteq Namespaces \X Keys

\* The map of a namespace tells the truth about every entry not in doubt.
Exact(ns) ==
    \A k \in Keys : <<ns, k>> \notin doubtful
                      => (k \in cache[ns] <=> k \in cloud[ns])

\* Nothing about the namespace is on its way to the map.
Quiet(ns) ==
    /\ \A i \in Clients : client[i].ns = ns
         => client[i].pc = "reading" /\ client[i].stream = <<>>
    /\ \A n \in DOMAIN bus : bus[n].ns # ns
    /\ syncer.ns # ns
    /\ ns = Home => writer.pc = "idle"

\* Once all that was sent has been processed, the map is what the cloud is,
\* whatever came late, twice, or was lost with a connection, and whichever own
\* calls ran against an INIT; only a listing that failed and an own update that
\* a later change has overtaken are excused.
ExactWhenQuiet ==
    \A ns \in Namespaces : Cached(ns) /\ Quiet(ns) => Exact(ns)

\* A namespace somebody asked for gets its map, even if the callback waits for
\* it in the very goroutine that has to make it.
EventuallyCached ==
    \A ns \in Namespaces :
        (\E i \in Clients : client[i].ns = ns) ~> Cached(ns)

\* When the cloud comes to rest, so does the cache, and agrees with it: no
\* goroutine of the pipeline waits for ever on another.
EventuallyExact ==
    <>[](\A ns \in Namespaces : Cached(ns) => Quiet(ns) /\ Exact(ns))

\* paasMediationClient.go:640 and :1062: a listing that fails is reported as an
\* error; so no map is made from it.
FailedListNotStored ==
    [][syncer.pc = "store" /\ syncer.failed => cache' = cache]_vars
=============================================================================
