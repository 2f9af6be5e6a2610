--------------------------- MODULE RouteCacheProofs ---------------------------
(* Theorems about RouteCache, for every set of namespaces, routes, clients    *)
(* and readers, with and without a callback that reads, for every capacity of *)
(* the channel, every number of attempts and every bound.                     *)
EXTENDS RouteCache, QueueLemmas

-----------------------------------------------------------------------------
(* Types                                                                   *)

\* A client has a namespace once it is started, and messages of that one, and
\* of no other, while it is connected.
ClientState == {q \in [pc : {"unused", "dialing", "init", "reading"},
                       ns : Namespaces \union {Absent}, stream : Seq(Message)] :
    /\ q.pc = "unused" <=> q.ns = Absent
    /\ q.pc \in {"unused", "dialing"} => q.stream = <<>>
    /\ \A n \in DOMAIN q.stream : q.stream[n].ns = q.ns}

SyncerState == {s \in [pc : {"idle", "list", "store", "callback", "poll"},
                       ns : Namespaces \union {Absent}, snapshot : SUBSET Keys,
                       failed : BOOLEAN, tries : 0..Attempts] :
    s.pc \in {"list", "store", "poll"} => s.ns \in Namespaces}

WriterState == {w \in [pc : {"idle", "cache"}, key : Keys \union {Absent},
                       type : {"CREATED", "DELETED", Absent}] :
    w.pc = "cache" => w.key \in Keys /\ w.type \in {"CREATED", "DELETED"}}

ReaderState == [pc : {"idle", "poll"}, ns : Namespaces \union {Absent},
                tries : 0..Attempts]

CloudTyped == cloud \in [Namespaces -> SUBSET Keys]
CacheTyped == cache \in [Namespaces -> (SUBSET Keys) \union {Absent}]
ClientsTyped == client \in [Clients -> ClientState]
BusTyped == bus \in Seq(Message) /\ Len(bus) <= BusCap
SyncerTyped == syncer \in SyncerState
WriterTyped == writer \in WriterState
ReadersTyped == reader \in [Readers -> ReaderState]
CountsTyped == /\ changes \in 0..MaxChanges /\ breaks \in 0..MaxBreaks
               /\ fetchFails \in 0..MaxFetchFails
DoubtsTyped == doubtful \subseteq Namespaces \X Keys

TypeInv == /\ CloudTyped /\ CacheTyped /\ ClientsTyped /\ BusTyped
           /\ SyncerTyped /\ WriterTyped /\ ReadersTyped /\ CountsTyped
           /\ DoubtsTyped

LEMMA TypeInvGivesTypeOK == TypeInv => TypeOK
<1> SUFFICES ASSUME TypeInv PROVE TypeOK
  OBVIOUS
<1>1. client \in [Clients ->
         [pc : {"unused", "dialing", "init", "reading"},
          ns : Namespaces \union {Absent}, stream : Seq(Message)]]
  BY DEF TypeInv, ClientsTyped, ClientState
<1>2. syncer \in [pc : {"idle", "list", "store", "callback", "poll"},
                  ns : Namespaces \union {Absent}, snapshot : SUBSET Keys,
                  failed : BOOLEAN, tries : 0..Attempts]
  BY DEF TypeInv, SyncerTyped, SyncerState
<1>3. writer \in [pc : {"idle", "cache"}, key : Keys \union {Absent},
                  type : {"CREATED", "DELETED", Absent}]
  BY DEF TypeInv, WriterTyped, WriterState
<1> QED
  BY <1>1, <1>2, <1>3
     DEF TypeInv, TypeOK, CloudTyped, CacheTyped, BusTyped, ReadersTyped,
         ReaderState, CountsTyped, DoubtsTyped

\* A count within its bound, one up.
LEMMA CountType ==
    ASSUME NEW max \in Nat, NEW n \in 0..max, n < max
    PROVE  n + 1 \in 0..max
  OBVIOUS

\* The messages: the signal of a new connection, and the events of a route.
LEMMA Messages ==
    /\ \A ns \in Namespaces :
         /\ Init_(ns) \in Message
         /\ Init_(ns).type = "INIT" /\ Init_(ns).ns = ns
    /\ \A type \in {"CREATED", "DELETED"}, ns \in Namespaces, k \in Keys :
         /\ Event(type, ns, k) \in Message /\ Event(type, ns, k).type = type
         /\ Event(type, ns, k).ns = ns /\ Event(type, ns, k).key = k
    /\ \A e \in Message :
         /\ e.ns \in Namespaces
         /\ e.type \in {"INIT", "CREATED", "DELETED"}
         /\ e.type # "INIT" => e.key \in Keys
<1>1. \A ns \in Namespaces : /\ Init_(ns) \in Message
                             /\ Init_(ns).type = "INIT" /\ Init_(ns).ns = ns
  BY DEF Init_, Message
<1>2. \A type \in {"CREATED", "DELETED"}, ns \in Namespaces, k \in Keys :
        /\ Event(type, ns, k) \in Message /\ Event(type, ns, k).type = type
        /\ Event(type, ns, k).ns = ns /\ Event(type, ns, k).key = k
  BY DEF Event, Message
<1>3. \A e \in Message : /\ e.ns \in Namespaces
                         /\ e.type \in {"INIT", "CREATED", "DELETED"}
                         /\ e.type # "INIT" => e.key \in Keys
  BY DEF Message
<1> QED
  BY <1>1, <1>2, <1>3

\* The states the goroutines are put in.
LEMMA FreshStates ==
    /\ IdleSyncer \in SyncerState /\ IdleReader \in ReaderState
    /\ IdleWriter \in WriterState /\ Unused \in ClientState
    /\ [IdleSyncer EXCEPT !.pc = "callback"] \in SyncerState
    /\ \A pc \in {"list", "poll"}, ns \in Namespaces :
         [IdleSyncer EXCEPT !.pc = pc, !.ns = ns] \in SyncerState
    /\ \A ns \in Namespaces :
         [Unused EXCEPT !.pc = "dialing", !.ns = ns] \in ClientState
<1>1. Attempts \in Nat /\ Absent \notin Namespaces
  BY CacheAssumption
<1>2. IdleReader \in ReaderState /\ IdleWriter \in WriterState
  BY <1>1 DEF IdleReader, ReaderState, IdleWriter, WriterState
<1>3. IdleSyncer \in SyncerState
  BY <1>1 DEF IdleSyncer, SyncerState
<1>4. [IdleSyncer EXCEPT !.pc = "callback"] \in SyncerState
  BY <1>3 DEF SyncerState
<1>5. ASSUME NEW pc \in {"list", "poll"}, NEW ns \in Namespaces
      PROVE  [IdleSyncer EXCEPT !.pc = pc, !.ns = ns] \in SyncerState
  BY <1>3 DEF SyncerState
<1>6. Unused \in ClientState
  BY DEF Unused, ClientState
<1>7. ASSUME NEW ns \in Namespaces
      PROVE  [Unused EXCEPT !.pc = "dialing", !.ns = ns] \in ClientState
  <2>1. Unused.stream = <<>>
    BY DEF Unused
  <2> DEFINE q == [Unused EXCEPT !.pc = "dialing", !.ns = ns]
  <2>2. /\ q \in [pc : {"unused", "dialing", "init", "reading"},
                  ns : Namespaces \union {Absent}, stream : Seq(Message)]
        /\ q.pc = "dialing" /\ q.ns = ns /\ q.stream = <<>>
    BY <1>6, <2>1 DEF ClientState
  <2> HIDE DEF q
  <2>3. q.ns # Absent /\ \A n \in DOMAIN q.stream : q.stream[n].ns = q.ns
    BY <1>1, <2>2
  <2>4. q \in ClientState
    BY <2>2, <2>3 DEF ClientState
  <2> QED
    BY <2>4 DEF q
<1> QED
  BY <1>2, <1>3, <1>4, <1>5, <1>6, <1>7

\* What happens to a client that is started.
LEMMA ClientMoves ==
    ASSUME NEW q \in ClientState, q.pc # "unused"
    PROVE  /\ q.ns \in Namespaces /\ q.stream \in Seq(Message)
           /\ \A pc \in {"init", "reading"} : [q EXCEPT !.pc = pc] \in ClientState
           /\ [q EXCEPT !.pc = "dialing", !.stream = <<>>] \in ClientState
           /\ q.stream # <<>> =>
                /\ Head(q.stream) \in Message /\ Head(q.stream).ns = q.ns
                /\ [q EXCEPT !.stream = Tail(@)] \in ClientState
           /\ \A m \in Message : q.pc \in {"init", "reading"} /\ m.ns = q.ns =>
                [q EXCEPT !.stream = Append(@, m)] \in ClientState
<1>1. /\ q \in [pc : {"unused", "dialing", "init", "reading"},
                ns : Namespaces \union {Absent}, stream : Seq(Message)]
      /\ q.pc = "unused" <=> q.ns = Absent
      /\ q.pc \in {"unused", "dialing"} => q.stream = <<>>
      /\ \A n \in DOMAIN q.stream : q.stream[n].ns = q.ns
  BY DEF ClientState
<1>2. q.ns \in Namespaces /\ q.ns # Absent /\ q.stream \in Seq(Message)
  BY <1>1
<1>3. ASSUME NEW pc \in {"init", "reading"}
      PROVE  [q EXCEPT !.pc = pc] \in ClientState
  BY <1>1, <1>2 DEF ClientState
<1>4. [q EXCEPT !.pc = "dialing", !.stream = <<>>] \in ClientState
  <2> DEFINE none == <<>>
             r == [q EXCEPT !.pc = "dialing", !.stream = none]
  <2>0. none \in Seq(Message) /\ none = <<>>
    OBVIOUS
  <2> HIDE DEF none
  <2>1. /\ r \in [pc : {"unused", "dialing", "init", "reading"},
                  ns : Namespaces \union {Absent}, stream : Seq(Message)]
        /\ r.pc = "dialing" /\ r.ns = q.ns /\ r.stream = <<>>
    BY <1>1, <2>0
  <2> HIDE DEF r
  <2>2. r.ns # Absent /\ \A n \in DOMAIN r.stream : r.stream[n].ns = r.ns
    BY <1>2, <2>1
  <2>3. r \in ClientState
    BY <2>1, <2>2 DEF ClientState
  <2> QED
    BY <2>3 DEF r, none
<1>5. ASSUME q.stream # <<>>
      PROVE  /\ Head(q.stream) \in Message /\ Head(q.stream).ns = q.ns
             /\ [q EXCEPT !.stream = Tail(@)] \in ClientState
  <2> DEFINE s == q.stream
             r == [q EXCEPT !.stream = Tail(@)]
  <2>1. /\ Head(s) \in Message /\ Tail(s) \in Seq(Message)
        /\ Head(s) = s[1] /\ 1 \in DOMAIN s
        /\ \A n \in DOMAIN Tail(s) : n + 1 \in DOMAIN s /\ Tail(s)[n] = s[n + 1]
    BY <1>2, <1>5, HeadTailProperties, LenProperties, EmptySeq
  <2>2. /\ r \in [pc : {"unused", "dialing", "init", "reading"},
                  ns : Namespaces \union {Absent}, stream : Seq(Message)]
        /\ r.pc = q.pc /\ r.ns = q.ns /\ r.stream = Tail(s)
    BY <1>1, <2>1
  <2>3. \A n \in DOMAIN Tail(s) : Tail(s)[n].ns = q.ns
    BY <1>1, <2>1
  <2>4. q.pc \notin {"unused", "dialing"}
    BY <1>1, <1>5
  <2> HIDE DEF r, s
  <2>5. r \in ClientState
    BY <1>2, <2>2, <2>3, <2>4 DEF ClientState
  <2> QED
    BY <1>1, <2>1, <2>5 DEF r, s
<1>6. ASSUME NEW m \in Message, q.pc \in {"init", "reading"}, m.ns = q.ns
      PROVE  [q EXCEPT !.stream = Append(@, m)] \in ClientState
  <2> DEFINE s == q.stream
             a == Append(s, m)
             r == [q EXCEPT !.stream = Append(@, m)]
  <2>1. /\ a \in Seq(Message)
        /\ \A n \in DOMAIN a : a[n] = m \/ (n \in DOMAIN s /\ a[n] = s[n])
    BY <1>2, AppendProperties, LenProperties
  <2>2. /\ r \in [pc : {"unused", "dialing", "init", "reading"},
                  ns : Namespaces \union {Absent}, stream : Seq(Message)]
        /\ r.pc = q.pc /\ r.ns = q.ns /\ r.stream = a
    BY <1>1, <2>1
  <2>3. \A n \in DOMAIN a : a[n].ns = q.ns
    BY <1>1, <1>6, <2>1
  <2> HIDE DEF r, a
  <2>4. r \in ClientState
    BY <1>2, <1>6, <2>2, <2>3 DEF ClientState
  <2> QED
    BY <2>4 DEF r
<1> QED
  BY <1>2, <1>3, <1>4, <1>5, <1>6

\* A change of the cloud and the streams it is sent to.
LEMMA ToggleTyped ==
    ASSUME TypeInv, NEW ns \in Namespaces, NEW k \in Keys, Toggle(ns, k)
    PROVE  /\ CloudTyped' /\ ClientsTyped' /\ changes' \in 0..MaxChanges
           /\ \E type \in {"CREATED", "DELETED"} :
                /\ type = "CREATED" <=> k \in cloud'[ns]
                /\ \A n \in Namespaces, l \in Keys : <<n, l>> # <<ns, k>> =>
                     (l \in cloud'[n] <=> l \in cloud[n])
                /\ \A i \in Clients : client'[i] =
                     IF Watching(i, ns)
                     THEN [client[i] EXCEPT !.stream = Append(@, Event(type, ns, k))]
                     ELSE client[i]
<1> DEFINE type == IF k \in cloud[ns] THEN "DELETED" ELSE "CREATED"
           q(i) == IF Watching(i, ns)
                   THEN [client[i] EXCEPT !.stream = Append(@, Event(type, ns, k))]
                   ELSE client[i]
<1>1. /\ changes < MaxChanges /\ changes' = changes + 1
      /\ cloud' = [cloud EXCEPT ![ns] =
                      IF type = "CREATED" THEN @ \union {k} ELSE @ \ {k}]
      /\ client' = [i \in Clients |-> q(i)]
  BY DEF Toggle
<1>2. cloud \in [Namespaces -> SUBSET Keys] /\ client \in [Clients -> ClientState]
      /\ changes \in 0..MaxChanges
  BY DEF TypeInv, CloudTyped, ClientsTyped, CountsTyped
<1>3. changes' \in 0..MaxChanges
  BY <1>1, <1>2, CountType, CacheAssumption
<1>4. CloudTyped'
  BY <1>1, <1>2 DEF CloudTyped
<1>5. type \in {"CREATED", "DELETED"} /\ (type = "CREATED" <=> k \in cloud'[ns])
  BY <1>1, <1>2
<1>6. \A n \in Namespaces, l \in Keys : <<n, l>> # <<ns, k>> =>
        (l \in cloud'[n] <=> l \in cloud[n])
  BY <1>1, <1>2
<1> HIDE DEF type
<1>7. \A i \in Clients : q(i) \in ClientState
  <2> SUFFICES ASSUME NEW i \in Clients PROVE q(i) \in ClientState
    OBVIOUS
  <2>1. CASE Watching(i, ns)
    <3>1. client[i] \in ClientState /\ client[i].ns = ns
          /\ client[i].pc \in {"init", "reading"} /\ client[i].pc # "unused"
      BY <1>2, <2>1 DEF Watching
    <3>2. Event(type, ns, k) \in Message /\ Event(type, ns, k).ns = ns
      BY <1>5, Messages
    <3> QED
      BY <2>1, <3>1, <3>2, ClientMoves
  <2>2. CASE ~Watching(i, ns)
    BY <1>2, <2>2
  <2> QED
    BY <2>1, <2>2
<1>8. \A i \in Clients : client'[i] = q(i)
  BY <1>1
<1>9. ClientsTyped'
  <2> HIDE DEF q
  <2> QED
    BY <1>1, <1>7 DEF ClientsTyped
<1> QED
  BY <1>3, <1>4, <1>5, <1>6, <1>8, <1>9

\* What an event leaves of the maps.
LEMMA UpdatedTyped ==
    ASSUME CacheTyped, NEW e, e.ns \in Namespaces, e.key \in Keys
    PROVE  /\ Updated(e) \in [Namespaces -> (SUBSET Keys) \union {Absent}]
           /\ \A ns \in Namespaces : Updated(e)[ns] # Absent => Cached(ns)
           /\ \A ns \in Namespaces, k \in Keys : <<ns, k>> # <<e.ns, e.key>> =>
                (k \in Updated(e)[ns] <=> k \in cache[ns])
           /\ Cached(e.ns) =>
                (e.key \in Updated(e)[e.ns] <=> e.type # "DELETED")
<1>1. CASE ~Cached(e.ns)
  BY <1>1 DEF Updated, CacheTyped, Cached
<1>2. CASE Cached(e.ns)
  <2> DEFINE new == IF e.type = "DELETED" THEN cache[e.ns] \ {e.key}
                    ELSE cache[e.ns] \union {e.key}
  <2>1. cache[e.ns] \in SUBSET Keys
    BY <1>2 DEF CacheTyped, Cached
  <2>2. /\ new \in SUBSET Keys
        /\ e.key \in new <=> e.type # "DELETED"
        /\ \A k \in Keys \ {e.key} : k \in new <=> k \in cache[e.ns]
    BY <2>1
  <2>3. Updated(e) = [cache EXCEPT ![e.ns] = new]
    BY <1>2 DEF Updated
  <2> HIDE DEF new
  <2>4. /\ Updated(e)[e.ns] = new
        /\ \A ns \in Namespaces \ {e.ns} : Updated(e)[ns] = cache[ns]
    BY <2>3 DEF CacheTyped
  <2> QED
    BY <1>2, <2>2, <2>3, <2>4 DEF CacheTyped, Cached
<1> QED
  BY <1>1, <1>2

\* A message more in the channel, and one less.
LEMMA PushTyped ==
    ASSUME BusTyped, NEW m \in Message, Push(m)
    PROVE  BusTyped' /\ bus' = Append(bus, m)
<1>1. /\ Len(Append(bus, m)) = Len(bus) + 1 /\ Append(bus, m) \in Seq(Message)
      /\ Len(bus) \in Nat
  BY AppendProperties, LenProperties DEF BusTyped
<1> QED
  BY <1>1, CacheAssumption DEF Push, BusTyped

LEMMA TakeTyped ==
    ASSUME BusTyped, bus # <<>>, bus' = Tail(bus)
    PROVE  BusTyped' /\ Head(bus) \in Message
<1>1. /\ Len(Tail(bus)) = Len(bus) - 1 /\ Tail(bus) \in Seq(Message)
      /\ Head(bus) \in Message /\ Len(bus) \in Nat
  BY HeadTailProperties, LenProperties DEF BusTyped
<1> QED
  BY <1>1, CacheAssumption DEF BusTyped

\* A client that is started.
LEMMA StartTyped ==
    ASSUME ClientsTyped, NEW ns \in Namespaces, StartClient(ns)
    PROVE  /\ ClientsTyped'
           /\ \E i \in Clients :
                /\ client[i].ns = Absent /\ client'[i].pc = "dialing"
                /\ client'[i].ns = ns /\ client'[i].stream = <<>>
                /\ \A j \in Clients \ {i} : client'[j] = client[j]
<1> DEFINE q == [Unused EXCEPT !.pc = "dialing", !.ns = ns]
<1>1. PICK i \in Clients : client[i] = Unused /\ client' = [client EXCEPT ![i] = q]
  BY DEF StartClient
<1>2. /\ q \in ClientState /\ q.pc = "dialing" /\ q.ns = ns /\ q.stream = <<>>
      /\ Unused.ns = Absent
  BY FreshStates DEF Unused
<1> HIDE DEF q
<1>3. ClientsTyped' /\ client'[i] = q
  BY <1>1, <1>2 DEF ClientsTyped
<1>4. \A j \in Clients \ {i} : client'[j] = client[j]
  BY <1>1 DEF ClientsTyped
<1> QED
  BY <1>1, <1>2, <1>3, <1>4

LEMMA CloudTypeInv ==
    ASSUME TypeInv, Change \/ CallCloud
    PROVE  TypeInv'
<1>1. PICK ns \in Namespaces, k \in Keys :
        /\ Toggle(ns, k)
        /\ \/ writer' = writer
           \/ writer' = [pc |-> "cache", key |-> k,
                type |-> IF k \in cloud[Home] THEN "DELETED" ELSE "CREATED"]
  BY CacheAssumption DEF Change, CallCloud
<1>2. CloudTyped' /\ ClientsTyped' /\ changes' \in 0..MaxChanges
  BY <1>1, ToggleTyped
<1>3. UNCHANGED <<cache, bus, syncer, reader, breaks, fetchFails, doubtful>>
  BY DEF Change, CallCloud
<1>4. WriterTyped'
  <2>1. CASE writer' = writer
    BY <2>1 DEF TypeInv, WriterTyped
  <2>2. CASE writer' = [pc |-> "cache", key |-> k,
               type |-> IF k \in cloud[Home] THEN "DELETED" ELSE "CREATED"]
    BY <2>2 DEF WriterTyped, WriterState
  <2> QED
    BY <1>1, <2>1, <2>2
<1>5. CacheTyped' /\ BusTyped' /\ SyncerTyped' /\ ReadersTyped' /\ DoubtsTyped'
      /\ CountsTyped'
  BY <1>2, <1>3 DEF TypeInv, CacheTyped, BusTyped, SyncerTyped, ReadersTyped,
                    DoubtsTyped, CountsTyped
<1> QED
  BY <1>2, <1>4, <1>5 DEF TypeInv

LEMMA OwnUpdateTypeInv ==
    ASSUME TypeInv, UpdateOwnCache
    PROVE  TypeInv'
<1> DEFINE k == writer.key
           e == Event(writer.type, Home, k)
<1>1. /\ writer.pc = "cache" /\ cache' = Updated(e) /\ writer' = IdleWriter
      /\ doubtful' \subseteq doubtful \union {<<Home, k>>}
      /\ UNCHANGED <<cloud, client, bus, syncer, reader, changes, breaks,
                     fetchFails>>
  BY DEF UpdateOwnCache
<1>2. k \in Keys /\ writer.type \in {"CREATED", "DELETED"}
  BY <1>1 DEF TypeInv, WriterTyped, WriterState
<1>3. e.ns = Home /\ e.key = k /\ Home \in Namespaces
  BY CacheAssumption DEF Event
<1> HIDE DEF e, k
<1>4. CacheTyped'
  BY <1>1, <1>2, <1>3, UpdatedTyped DEF TypeInv, CacheTyped
<1>5. WriterTyped'
  BY <1>1, FreshStates DEF WriterTyped
<1>6. DoubtsTyped'
  BY <1>1, <1>2, <1>3 DEF TypeInv, DoubtsTyped
<1>7. CloudTyped' /\ ClientsTyped' /\ BusTyped' /\ SyncerTyped' /\ ReadersTyped'
      /\ CountsTyped'
  BY <1>1 DEF TypeInv, CloudTyped, ClientsTyped, BusTyped, SyncerTyped,
              ReadersTyped, CountsTyped
<1> QED
  BY <1>4, <1>5, <1>6, <1>7 DEF TypeInv

LEMMA ClientTypeInv ==
    ASSUME TypeInv, NEW i \in Clients, ClientStep(i) \/ Break(i)
    PROVE  TypeInv'
<1>1. client \in [Clients -> ClientState] /\ client[i] \in ClientState /\ BusTyped
      /\ CountsTyped
  BY DEF TypeInv, ClientsTyped
<1>2. client[i].pc \in {"dialing", "init", "reading"}
      /\ UNCHANGED <<cloud, cache, syncer, reader, writer, changes, fetchFails,
                     doubtful>>
  BY DEF ClientStep, Dial, SendInit, Forward, Break
<1> DEFINE q == client[i]
<1>3. /\ q.ns \in Namespaces /\ q.stream \in Seq(Message)
      /\ \A pc \in {"init", "reading"} : [q EXCEPT !.pc = pc] \in ClientState
      /\ [q EXCEPT !.pc = "dialing", !.stream = <<>>] \in ClientState
      /\ q.stream # <<>> =>
           /\ Head(q.stream) \in Message
           /\ [q EXCEPT !.stream = Tail(@)] \in ClientState
  BY <1>1, <1>2, ClientMoves
<1>4. ClientsTyped' /\ BusTyped' /\ CountsTyped'
  <2>1. CASE Dial(i)
    <3>1. client' = [client EXCEPT ![i] = [q EXCEPT !.pc = "init"]]
          /\ bus' = bus /\ breaks' = breaks
      BY <1>1, <2>1 DEF Dial
    <3>2. [q EXCEPT !.pc = "init"] \in ClientState
      BY <1>3
    <3> QED
      BY <1>1, <1>2, <3>1, <3>2 DEF ClientsTyped, BusTyped, CountsTyped
  <2>2. CASE SendInit(i)
    <3>1. client' = [client EXCEPT ![i] = [q EXCEPT !.pc = "reading"]]
          /\ Push(Init_(q.ns)) /\ breaks' = breaks
      BY <1>1, <2>2 DEF SendInit
    <3>2. [q EXCEPT !.pc = "reading"] \in ClientState
      BY <1>3
    <3>3. BusTyped'
      BY <1>1, <1>3, <3>1, Messages, PushTyped
    <3> QED
      BY <1>1, <1>2, <3>1, <3>2, <3>3 DEF ClientsTyped, CountsTyped
  <2>3. CASE Forward(i)
    <3>1. client' = [client EXCEPT ![i] = [q EXCEPT !.stream = Tail(@)]]
          /\ q.stream # <<>> /\ Push(Head(q.stream)) /\ breaks' = breaks
      BY <1>1, <2>3 DEF Forward
    <3>2. [q EXCEPT !.stream = Tail(@)] \in ClientState
      BY <1>3, <3>1
    <3>3. BusTyped'
      BY <1>1, <1>3, <3>1, PushTyped
    <3> QED
      BY <1>1, <1>2, <3>1, <3>2, <3>3 DEF ClientsTyped, CountsTyped
  <2>4. CASE Break(i)
    <3>1. client' = [client EXCEPT ![i] =
                       [q EXCEPT !.pc = "dialing", !.stream = <<>>]]
          /\ bus' = bus /\ breaks < MaxBreaks /\ breaks' = breaks + 1
      BY <1>1, <2>4 DEF Break
    <3>2. [q EXCEPT !.pc = "dialing", !.stream = <<>>] \in ClientState
      BY <1>3
    <3>3. CountsTyped'
      BY <1>1, <1>2, <3>1, CountType, CacheAssumption DEF CountsTyped
    <3> QED
      BY <1>1, <3>1, <3>2, <3>3 DEF ClientsTyped, BusTyped
  <2> QED
    BY <2>1, <2>2, <2>3, <2>4 DEF ClientStep
<1>5. CloudTyped' /\ CacheTyped' /\ SyncerTyped' /\ WriterTyped' /\ ReadersTyped'
      /\ DoubtsTyped'
  BY <1>2 DEF TypeInv, CloudTyped, CacheTyped, SyncerTyped, WriterTyped,
              ReadersTyped, DoubtsTyped
<1> QED
  BY <1>4, <1>5 DEF TypeInv

LEMMA SyncerTypeInv ==
    ASSUME TypeInv, SyncerStep \/ ListFails
    PROVE  TypeInv'
<1>1. /\ syncer \in SyncerState /\ BusTyped /\ CacheTyped /\ DoubtsTyped
      /\ cloud \in [Namespaces -> SUBSET Keys] /\ ClientsTyped /\ CountsTyped
  BY DEF TypeInv, SyncerTyped, CloudTyped
<1>2. UNCHANGED <<cloud, reader, writer, changes, breaks>>
  BY DEF SyncerStep, Take, List, Store, Callback, CallbackPolls, ListFails
<1>3. CloudTyped' /\ WriterTyped' /\ ReadersTyped'
  BY <1>2 DEF TypeInv, CloudTyped, WriterTyped, ReadersTyped
<1>4. CASE Take
  <2> DEFINE e == Head(bus)
  <2>1. /\ bus # <<>> /\ bus' = Tail(bus) /\ UNCHANGED <<client, fetchFails>>
        /\ \/ /\ e.type = "INIT"
              /\ syncer' = [IdleSyncer EXCEPT !.pc = "list", !.ns = e.ns]
              /\ UNCHANGED <<cache, doubtful>>
           \/ /\ e.type # "INIT"
              /\ syncer' = [IdleSyncer EXCEPT !.pc = "callback"]
              /\ cache' = Updated(e)
              /\ doubtful' \subseteq doubtful
    BY <1>4 DEF Take
  <2>2. BusTyped' /\ e \in Message
    BY <1>1, <2>1, TakeTyped
  <2>3. e.ns \in Namespaces /\ (e.type # "INIT" => e.key \in Keys)
    BY <2>2, Messages
  <2> HIDE DEF e
  <2>4. SyncerTyped'
    BY <2>1, <2>3, FreshStates DEF SyncerTyped
  <2>5. CacheTyped'
    BY <1>1, <2>1, <2>3, UpdatedTyped DEF CacheTyped
  <2>6. DoubtsTyped' /\ ClientsTyped' /\ CountsTyped'
    BY <1>1, <1>2, <2>1 DEF DoubtsTyped, ClientsTyped, CountsTyped
  <2> QED
    BY <1>3, <2>2, <2>4, <2>5, <2>6 DEF TypeInv
<1>5. CASE List
  <2>1. /\ syncer' = [syncer EXCEPT !.pc = "store", !.snapshot = cloud[syncer.ns]]
        /\ UNCHANGED <<cache, client, bus, fetchFails, doubtful>>
        /\ syncer.pc = "list"
    BY <1>5 DEF List
  <2>2. syncer.ns \in Namespaces
    BY <1>1, <2>1 DEF SyncerState
  <2>3. cloud[syncer.ns] \in SUBSET Keys
    BY <1>1, <2>2
  <2>4. SyncerTyped'
    BY <1>1, <2>1, <2>2, <2>3 DEF SyncerTyped, SyncerState
  <2>5. CacheTyped' /\ BusTyped' /\ DoubtsTyped' /\ ClientsTyped' /\ CountsTyped'
    BY <1>1, <1>2, <2>1
       DEF CacheTyped, BusTyped, DoubtsTyped, ClientsTyped, CountsTyped
  <2> QED
    BY <1>3, <2>4, <2>5 DEF TypeInv
<1>6. CASE ListFails
  <2>1. /\ syncer' = [syncer EXCEPT !.pc = "store", !.snapshot = {},
                                    !.failed = TRUE]
        /\ UNCHANGED <<cache, client, bus, doubtful>>
        /\ syncer.pc = "list"
        /\ fetchFails < MaxFetchFails /\ fetchFails' = fetchFails + 1
    BY <1>6 DEF ListFails
  <2>2. syncer.ns \in Namespaces
    BY <1>1, <2>1 DEF SyncerState
  <2>3. SyncerTyped'
    BY <1>1, <2>1, <2>2 DEF SyncerTyped, SyncerState
  <2>4. CountsTyped'
    BY <1>1, <1>2, <2>1, CountType, CacheAssumption DEF CountsTyped
  <2>5. CacheTyped' /\ BusTyped' /\ DoubtsTyped' /\ ClientsTyped'
    BY <1>1, <2>1 DEF CacheTyped, BusTyped, DoubtsTyped, ClientsTyped
  <2> QED
    BY <1>3, <2>3, <2>4, <2>5 DEF TypeInv
<1>7. CASE Store
  <2>1. /\ cache' = [cache EXCEPT ![syncer.ns] = syncer.snapshot]
        /\ doubtful' \subseteq doubtful \union ({syncer.ns} \X Keys)
        /\ syncer' = [IdleSyncer EXCEPT !.pc = "callback"]
        /\ UNCHANGED <<client, bus, fetchFails>> /\ syncer.pc = "store"
    BY <1>7 DEF Store
  <2>2. syncer.ns \in Namespaces /\ syncer.snapshot \in SUBSET Keys
    BY <1>1, <2>1 DEF SyncerState
  <2>3. CacheTyped' /\ DoubtsTyped'
    BY <1>1, <2>1, <2>2 DEF CacheTyped, DoubtsTyped
  <2>4. SyncerTyped'
    BY <2>1, FreshStates DEF SyncerTyped
  <2>5. BusTyped' /\ ClientsTyped' /\ CountsTyped'
    BY <1>1, <1>2, <2>1 DEF BusTyped, ClientsTyped, CountsTyped
  <2> QED
    BY <1>3, <2>3, <2>4, <2>5 DEF TypeInv
<1>8. CASE Callback \/ CallbackPolls
  <2>1. UNCHANGED <<cache, bus, fetchFails, doubtful>>
    BY <1>8 DEF Callback, CallbackPolls
  <2>2. SyncerTyped' /\ ClientsTyped'
    <3>1. ASSUME Callback PROVE SyncerTyped' /\ ClientsTyped'
      <4>1. CASE syncer' = IdleSyncer /\ UNCHANGED client
        BY <1>1, <4>1, FreshStates DEF SyncerTyped, ClientsTyped
      <4>2. CASE /\ StartClient(CallbackReads) /\ CallbackReads # Absent
                 /\ syncer' = [IdleSyncer EXCEPT !.pc = "poll", !.ns = CallbackReads]
        <5>1. CallbackReads \in Namespaces
          BY <4>2, CacheAssumption
        <5> QED
          BY <1>1, <4>2, <5>1, FreshStates, StartTyped DEF SyncerTyped
      <4> QED
        BY <3>1, <4>1, <4>2 DEF Callback
    <3>2. ASSUME CallbackPolls PROVE SyncerTyped' /\ ClientsTyped'
      <4>1. ClientsTyped'
        BY <1>1, <3>2 DEF CallbackPolls, ClientsTyped
      <4>2. CASE syncer' = IdleSyncer
        BY <4>1, <4>2, FreshStates DEF SyncerTyped
      <4>3. CASE /\ ~(syncer.tries >= Attempts)
                 /\ syncer' = [syncer EXCEPT !.tries = @ + 1]
        <5>1. syncer.tries \in 0..Attempts /\ Attempts \in Nat
          BY <1>1, CacheAssumption DEF SyncerState
        <5>2. syncer.tries + 1 \in 0..Attempts
          BY <4>3, <5>1
        <5>3. SyncerTyped'
          BY <1>1, <4>3, <5>2 DEF SyncerTyped, SyncerState
        <5> QED
          BY <4>1, <5>3
      <4> QED
        BY <3>2, <4>2, <4>3 DEF CallbackPolls
    <3> QED
      BY <1>8, <3>1, <3>2
  <2>3. CacheTyped' /\ BusTyped' /\ DoubtsTyped' /\ CountsTyped'
    BY <1>1, <1>2, <2>1 DEF CacheTyped, BusTyped, DoubtsTyped, CountsTyped
  <2> QED
    BY <1>3, <2>2, <2>3 DEF TypeInv
<1> QED
  BY <1>4, <1>5, <1>6, <1>7, <1>8 DEF SyncerStep

LEMMA ReaderTypeInv ==
    ASSUME TypeInv, NEW c \in Readers, GetRoutes(c) \/ Poll(c)
    PROVE  TypeInv'
<1>1. reader \in [Readers -> ReaderState] /\ ClientsTyped
  BY DEF TypeInv, ReadersTyped
<1>2. /\ UNCHANGED <<cloud, cache, bus, syncer, writer, changes, breaks,
                     fetchFails, doubtful>>
  BY DEF GetRoutes, Poll
<1>3. ClientsTyped' /\ ReadersTyped'
  <2>1. CASE GetRoutes(c)
    <3>1. PICK ns \in Namespaces :
            /\ StartClient(ns)
            /\ reader' = [reader EXCEPT ![c] = [pc |-> "poll", ns |-> ns,
                                                tries |-> 0]]
      BY <2>1 DEF GetRoutes
    <3>2. [pc |-> "poll", ns |-> ns, tries |-> 0] \in ReaderState
      BY CacheAssumption DEF ReaderState
    <3>3. ReadersTyped'
      BY <1>1, <3>1, <3>2 DEF ReadersTyped
    <3> QED
      BY <1>1, <3>1, <3>3, StartTyped
  <2>2. CASE Poll(c)
    <3>1. client' = client
      BY <2>2 DEF Poll
    <3> DEFINE r == reader[c]
               q == IF Cached(r.ns) \/ r.tries >= Attempts THEN IdleReader
                    ELSE [r EXCEPT !.tries = r.tries + 1]
    <3>2. reader' = [reader EXCEPT ![c] = q]
      BY <2>2, <1>1 DEF Poll
    <3>3. q \in ReaderState
      <4>1. r \in ReaderState /\ r.tries \in 0..Attempts /\ Attempts \in Nat
        BY <1>1, CacheAssumption DEF ReaderState
      <4>2. CASE ~(r.tries >= Attempts)
        <5>1. r.tries + 1 \in 0..Attempts
          BY <4>1, <4>2
        <5>2. [r EXCEPT !.tries = r.tries + 1] \in ReaderState
          BY <4>1, <5>1 DEF ReaderState
        <5> QED
          BY <5>2, FreshStates
      <4> QED
        BY <4>2, FreshStates
    <3> HIDE DEF q
    <3> QED
      BY <1>1, <3>1, <3>2, <3>3 DEF ReadersTyped, ClientsTyped
  <2> QED
    BY <2>1, <2>2
<1>4. CloudTyped' /\ CacheTyped' /\ BusTyped' /\ SyncerTyped' /\ WriterTyped'
      /\ CountsTyped' /\ DoubtsTyped'
  BY <1>2 DEF TypeInv, CloudTyped, CacheTyped, BusTyped, SyncerTyped,
              WriterTyped, CountsTyped, DoubtsTyped
<1> QED
  BY <1>3, <1>4 DEF TypeInv

LEMMA InitTypeInv == Init => TypeInv
<1> SUFFICES ASSUME Init PROVE TypeInv
  OBVIOUS
<1>1. CloudTyped /\ CacheTyped /\ CountsTyped /\ DoubtsTyped
  BY CacheAssumption DEF Init, CloudTyped, CacheTyped, CountsTyped, DoubtsTyped
<1>2. SyncerTyped /\ WriterTyped /\ ReadersTyped
  BY FreshStates DEF Init, SyncerTyped, WriterTyped, ReadersTyped
<1>3. ClientsTyped
  <2> DEFINE q == [Unused EXCEPT !.pc = "dialing", !.ns = Home]
  <2>1. q \in ClientState /\ Unused \in ClientState
    BY FreshStates, CacheAssumption
  <2>2. client = [i \in Clients |-> IF i = First THEN q ELSE Unused]
    BY DEF Init
  <2> HIDE DEF q
  <2> QED
    BY <2>1, <2>2 DEF ClientsTyped
<1>4. BusTyped
  BY CacheAssumption DEF Init, BusTyped
<1> QED
  BY <1>1, <1>2, <1>3, <1>4 DEF TypeInv

LEMMA TypeInvHolds == Spec => []TypeInv
<1>1. TypeInv /\ [Next]_vars => TypeInv'
  <2> SUFFICES ASSUME TypeInv, [Next]_vars PROVE TypeInv'
    OBVIOUS
  <2>1. CASE Next
    BY <2>1, CloudTypeInv, OwnUpdateTypeInv, ClientTypeInv, SyncerTypeInv,
       ReaderTypeInv DEF Next
  <2>2. CASE UNCHANGED vars
    BY <2>2 DEF vars, TypeInv, CloudTyped, CacheTyped, ClientsTyped, BusTyped,
         SyncerTyped, WriterTyped, ReadersTyped, CountsTyped, DoubtsTyped
  <2> QED
    BY <2>1, <2>2
<1> QED
  BY <1>1, InitTypeInv, PTL DEF Spec

\* The cache and its goroutines are always typed, and the channel never holds
\* more than its capacity (initRoutesCache, syncingCacheInternal,
\* WebSocketClient).
THEOREM CacheTypeCorrect == Spec => []TypeOK
<1> QED
  BY TypeInvHolds, TypeInvGivesTypeOK, PTL

-----------------------------------------------------------------------------
(* The map is exact when nothing is on its way to it                       *)

\* What is said of an entry: its events, those that are not true any more, and
\* whatever makes the syncer look at the entry.
About(ns, k) == {e \in Message : e.ns = ns /\ e.type # "INIT" /\ e.key = k}
Wrong(ns, k) == {e \in About(ns, k) : ~(e.type = "CREATED" <=> k \in cloud[ns])}
Touch(ns, k) == About(ns, k) \union {Init_(ns)}

\* The entry will be looked at: a client of the namespace has to signal INIT or
\* has an event to forward, or the channel has such a message.
HasClient(ns) == \E i \in Clients : client[i].ns = ns
Pending(q, ns, k) ==
    q.ns = ns /\ (q.pc \in {"dialing", "init"} \/ Has(q.stream, About(ns, k)))
StreamFix(ns, k) == \E i \in Clients : Pending(client[i], ns, k)
BusFix(ns, k) == Has(bus, Touch(ns, k))
Fix(ns, k) == StreamFix(ns, k) \/ BusFix(ns, k)

Listing(ns) == syncer.pc \in {"list", "store"} /\ syncer.ns = ns

\* Only a namespace with a client is ever listed, spoken of or in the cache.
OfNamespace(ns) == {e \in Message : e.ns = ns}
Spoken(ns) == Has(bus, OfNamespace(ns)) \/ Cached(ns) \/ Listing(ns)
Served(ns) == Spoken(ns) => HasClient(ns)

\* An untrue event is never the last word: another comes after it on the same
\* connection; or, in the channel, is still to come from a client.
StreamsRight(ns, k) ==
    \A i \in Clients :
        Followed(client[i].stream, Wrong(ns, k), About(ns, k))
BusRight(ns, k) ==
    StreamFix(ns, k) \/ Followed(bus, Wrong(ns, k), Touch(ns, k))

\* So what the syncer has listed, and what the map says, is true, or will be
\* looked at again.
SnapshotRight(ns, k) ==
    syncer.pc = "store" /\ syncer.ns = ns /\ ~syncer.failed
        => (k \in syncer.snapshot <=> k \in cloud[ns]) \/ Fix(ns, k)
CacheRight(ns, k) ==
    Cached(ns) /\ <<ns, k>> \notin doubtful
        => \/ k \in cache[ns] <=> k \in cloud[ns]
           \/ Fix(ns, k)
           \/ Listing(ns)

EntryInv(ns, k) == /\ StreamsRight(ns, k) /\ BusRight(ns, k)
                   /\ SnapshotRight(ns, k) /\ CacheRight(ns, k)
ExactInv == \A ns \in Namespaces, k \in Keys : EntryInv(ns, k)
ServedInv == \A ns \in Namespaces : Served(ns)

\* What a websocket client does to itself and to the channel.
LEMMA ClientEffect ==
    ASSUME TypeInv, NEW i \in Clients, ClientStep(i) \/ Break(i)
    PROVE  \E q \in ClientState :
             /\ client' = [client EXCEPT ![i] = q]
             /\ q.ns = client[i].ns /\ q.ns \in Namespaces
             /\ \/ /\ client[i].pc = "dialing" /\ q.pc = "init"
                   /\ q.stream = client[i].stream /\ bus' = bus
                \/ /\ q.stream = client[i].stream
                   /\ bus' = Append(bus, Init_(q.ns))
                \/ /\ q.pc = client[i].pc
                   /\ client[i].stream # <<>>
                   /\ Head(client[i].stream) \in Message
                   /\ Head(client[i].stream).ns = q.ns
                   /\ q.stream = Tail(client[i].stream)
                   /\ bus' = Append(bus, Head(client[i].stream))
                \/ q.pc = "dialing" /\ q.stream = <<>> /\ bus' = bus
<1> DEFINE p == client[i]
<1>1. client \in [Clients -> ClientState] /\ p \in ClientState
  BY DEF TypeInv, ClientsTyped
<1>2. p.pc \in {"dialing", "init", "reading"}
  BY DEF ClientStep, Dial, SendInit, Forward, Break
<1>3. /\ p.ns \in Namespaces
      /\ \A pc \in {"init", "reading"} : [p EXCEPT !.pc = pc] \in ClientState
      /\ [p EXCEPT !.pc = "dialing", !.stream = <<>>] \in ClientState
      /\ p.stream # <<>> =>
           /\ Head(p.stream) \in Message /\ Head(p.stream).ns = p.ns
           /\ [p EXCEPT !.stream = Tail(@)] \in ClientState
  BY <1>1, <1>2, ClientMoves
<1>4. p \in [pc : {"unused", "dialing", "init", "reading"},
             ns : Namespaces \union {Absent}, stream : Seq(Message)]
  BY <1>1 DEF ClientState
<1>5. CASE Dial(i)
  <2> DEFINE q == [p EXCEPT !.pc = "init"]
  <2>1. client' = [client EXCEPT ![i] = q] /\ p.pc = "dialing" /\ bus' = bus
    BY <1>1, <1>5 DEF Dial
  <2>2. q.pc = "init" /\ q.ns = p.ns /\ q.stream = p.stream
    BY <1>4
  <2>3. q \in ClientState
    BY <1>3
  <2> HIDE DEF q
  <2> QED
    BY <1>3, <2>1, <2>2, <2>3
<1>6. CASE SendInit(i)
  <2> DEFINE q == [p EXCEPT !.pc = "reading"]
  <2>1. client' = [client EXCEPT ![i] = q] /\ bus' = Append(bus, Init_(p.ns))
    BY <1>1, <1>6 DEF SendInit, Push
  <2>2. q.ns = p.ns /\ q.stream = p.stream
    BY <1>4
  <2>3. q \in ClientState
    BY <1>3
  <2> HIDE DEF q
  <2> QED
    BY <1>3, <2>1, <2>2, <2>3
<1>7. CASE Forward(i)
  <2> DEFINE q == [p EXCEPT !.stream = Tail(@)]
  <2>1. client' = [client EXCEPT ![i] = q] /\ p.stream # <<>>
        /\ bus' = Append(bus, Head(p.stream))
    BY <1>1, <1>7 DEF Forward, Push
  <2>2. q.ns = p.ns /\ q.pc = p.pc /\ q.stream = Tail(p.stream)
    BY <1>4
  <2>3. q \in ClientState
    BY <1>3, <2>1
  <2> HIDE DEF q
  <2> QED
    BY <1>3, <2>1, <2>2, <2>3
<1>8. CASE Break(i)
  <2> DEFINE none == <<>>
             q == [p EXCEPT !.pc = "dialing", !.stream = none]
  <2>1. client' = [client EXCEPT ![i] = q] /\ bus' = bus
    BY <1>1, <1>8 DEF Break
  <2>2. q \in ClientState
    BY <1>3
  <2> HIDE DEF none
  <2>3. q.pc = "dialing" /\ q.ns = p.ns /\ q.stream = none
    BY <1>4
  <2> HIDE DEF q
  <2> QED
    BY <1>3, <2>1, <2>2, <2>3 DEF none
<1> QED
  BY <1>5, <1>6, <1>7, <1>8 DEF ClientStep

\* A client keeps its namespace.
LEMMA NamespaceKept ==
    ASSUME TypeInv, [Next]_vars, NEW ns \in Namespaces, HasClient(ns)
    PROVE  HasClient(ns)'
<1>1. PICK i \in Clients : client[i].ns = ns
  BY DEF HasClient
<1>2. /\ client \in [Clients -> ClientState] /\ ClientsTyped
      /\ ns # Absent /\ client[i] \in ClientState
  BY CacheAssumption DEF TypeInv, ClientsTyped
<1>3. ASSUME NEW n \in Namespaces, NEW k \in Keys, Toggle(n, k)
      PROVE  client'[i].ns = ns
  <2> DEFINE Sent(type, j) ==
        IF Watching(j, n)
        THEN [client[j] EXCEPT !.stream = Append(@, Event(type, n, k))]
        ELSE client[j]
  <2>1. PICK type \in {"CREATED", "DELETED"} :
          /\ type = "CREATED" <=> k \in cloud'[n]
          /\ \A m \in Namespaces, l \in Keys : <<m, l>> # <<n, k>> =>
               (l \in cloud'[m] <=> l \in cloud[m])
          /\ \A j \in Clients : client'[j] = Sent(type, j)
    BY <1>3, ToggleTyped, Zenon
  <2>2. Sent(type, i).ns = client[i].ns
    BY <1>2 DEF ClientState
  <2> QED
    BY <1>1, <2>1, <2>2
<1>4. ASSUME NEW j \in Clients, ClientStep(j) \/ Break(j)
      PROVE  client'[i].ns = ns
  <2>1. PICK q \in ClientState : client' = [client EXCEPT ![j] = q]
                                 /\ q.ns = client[j].ns
    BY <1>4, ClientEffect
  <2> QED
    BY <1>1, <1>2, <2>1
<1>5. ASSUME NEW n \in Namespaces, StartClient(n)
      PROVE  client'[i].ns = ns
  BY <1>1, <1>2, <1>5, StartTyped
<1>6. ASSUME client' = client
      PROVE  client'[i].ns = ns
  BY <1>1, <1>6
<1>7. client'[i].ns = ns
  <2>1. CASE Change \/ CallCloud
    BY <1>3, <2>1, CacheAssumption DEF Change, CallCloud
  <2>2. CASE \E j \in Clients : ClientStep(j) \/ Break(j)
    BY <1>4, <2>2
  <2>3. CASE Callback
    BY <1>5, <1>6, <2>3, CacheAssumption DEF Callback
  <2>4. ASSUME NEW c \in Readers, GetRoutes(c) \/ Poll(c)
        PROVE  client'[i].ns = ns
    BY <1>5, <1>6, <2>4 DEF GetRoutes, Poll
  <2>5. CASE UpdateOwnCache \/ Take \/ List \/ ListFails \/ Store \/ CallbackPolls
             \/ UNCHANGED vars
    BY <1>6, <2>5
       DEF UpdateOwnCache, Take, List, ListFails, Store, CallbackPolls, vars
  <2> QED
    BY <2>1, <2>2, <2>3, <2>4, <2>5 DEF Next, SyncerStep
<1> QED
  BY <1>7 DEF HasClient

\* What a step of the syncer makes of it.
LEMMA SyncerEffect ==
    ASSUME TypeInv
    PROVE  /\ Take => /\ syncer.pc = "idle"
                      /\ \/ /\ syncer'.pc = "list" /\ syncer'.ns = Head(bus).ns
                            /\ Head(bus).type = "INIT" /\ UNCHANGED <<cache, doubtful>>
                         \/ /\ syncer'.pc = "callback" /\ Head(bus).type # "INIT"
                            /\ cache' = Updated(Head(bus))
                            /\ doubtful' = doubtful \ {<<Head(bus).ns, Head(bus).key>>}
           /\ List => /\ syncer'.pc = "store" /\ syncer'.ns = syncer.ns
                      /\ syncer'.snapshot = cloud[syncer.ns]
           /\ ListFails => /\ syncer'.pc = "store" /\ syncer'.ns = syncer.ns
                           /\ syncer'.failed
           /\ Store => syncer'.pc = "callback"
           /\ Callback => syncer'.pc \in {"idle", "poll"} /\ syncer.pc = "callback"
           /\ CallbackPolls => syncer'.pc \in {"idle", "poll"} /\ syncer.pc = "poll"
<1> DEFINE fresh == IdleSyncer
           Started(pc, ns) == [fresh EXCEPT !.pc = pc, !.ns = ns]
           called == [fresh EXCEPT !.pc = "callback"]
<1>1. /\ fresh \in [pc : {"idle", "list", "store", "callback", "poll"},
                    ns : Namespaces \union {Absent}, snapshot : SUBSET Keys,
                    failed : BOOLEAN, tries : 0..Attempts]
      /\ fresh.pc = "idle"
  BY FreshStates DEF SyncerState, IdleSyncer
<1>2. /\ syncer \in [pc : {"idle", "list", "store", "callback", "poll"},
                     ns : Namespaces \union {Absent}, snapshot : SUBSET Keys,
                     failed : BOOLEAN, tries : 0..Attempts]
      /\ syncer.pc = "list" => syncer.ns \in Namespaces
  BY DEF TypeInv, SyncerTyped, SyncerState
<1> HIDE DEF fresh
<1>3. /\ called.pc = "callback"
      /\ \A pc, ns : Started(pc, ns).pc = pc /\ Started(pc, ns).ns = ns
  BY <1>1
<1> HIDE DEF called, Started
<1>4. ASSUME Take
      PROVE  /\ syncer.pc = "idle"
             /\ \/ /\ syncer'.pc = "list" /\ syncer'.ns = Head(bus).ns
                   /\ Head(bus).type = "INIT" /\ UNCHANGED <<cache, doubtful>>
                \/ /\ syncer'.pc = "callback" /\ Head(bus).type # "INIT"
                   /\ cache' = Updated(Head(bus))
                   /\ doubtful' = doubtful \ {<<Head(bus).ns, Head(bus).key>>}
  <2>1. /\ syncer.pc = "idle"
        /\ \/ /\ Head(bus).type = "INIT" /\ UNCHANGED <<cache, doubtful>>
              /\ syncer' = Started("list", Head(bus).ns)
           \/ /\ Head(bus).type # "INIT" /\ syncer' = called
              /\ cache' = Updated(Head(bus))
              /\ doubtful' = doubtful \ {<<Head(bus).ns, Head(bus).key>>}
    BY <1>4 DEF Take, Started, called, fresh
  <2>2. CASE syncer' = Started("list", Head(bus).ns)
    <3>1. syncer'.pc = "list" /\ syncer'.ns = Head(bus).ns
      BY <1>3, <2>2
    <3>2. Started("list", Head(bus).ns).pc # called.pc
      BY <1>3
    <3>3. Head(bus).type = "INIT" /\ UNCHANGED <<cache, doubtful>>
      <4>1. syncer' # called
        BY <2>2, <3>2
      <4> QED
        BY <2>1, <4>1, Zenon
    <3> QED
      BY <2>1, <3>1, <3>3
  <2>3. CASE syncer' = called
    <3>1. Started("list", Head(bus).ns).pc # called.pc /\ syncer'.pc = "callback"
      BY <1>3, <2>3
    <3> QED
      BY <2>1, <2>3, <3>1
  <2> QED
    BY <2>1, <2>2, <2>3
<1>5. ASSUME List
      PROVE  /\ syncer'.pc = "store" /\ syncer'.ns = syncer.ns
             /\ syncer'.snapshot = cloud[syncer.ns]
  BY <1>2, <1>5 DEF List
<1>6. ASSUME ListFails
      PROVE  syncer'.pc = "store" /\ syncer'.ns = syncer.ns /\ syncer'.failed
  BY <1>2, <1>6 DEF ListFails
<1>7. ASSUME Store PROVE syncer'.pc = "callback"
  BY <1>3, <1>7 DEF Store, called, fresh
<1>8. ASSUME Callback
      PROVE  syncer'.pc \in {"idle", "poll"} /\ syncer.pc = "callback"
  <2>1. /\ syncer.pc = "callback"
        /\ syncer' = fresh \/ syncer' = Started("poll", CallbackReads)
    BY <1>8 DEF Callback, Started, fresh
  <2> QED
    BY <1>1, <1>3, <2>1
<1>9. ASSUME CallbackPolls
      PROVE  syncer'.pc \in {"idle", "poll"} /\ syncer.pc = "poll"
  <2>1. /\ syncer.pc = "poll"
        /\ syncer' = fresh \/ syncer' = [syncer EXCEPT !.tries = @ + 1]
    BY <1>9 DEF CallbackPolls, fresh
  <2> QED
    BY <1>1, <1>2, <2>1
<1> QED
  BY <1>4, <1>5, <1>6, <1>7, <1>8, <1>9

\* Neither an own update nor an event makes a map.
LEMMA MapsAreListed ==
    ASSUME TypeInv, UpdateOwnCache \/ Take, NEW ns \in Namespaces, Cached(ns)'
    PROVE  Cached(ns)
<1>1. CacheTyped /\ BusTyped /\ WriterTyped
  BY DEF TypeInv
<1>2. CASE UpdateOwnCache
  <2> DEFINE e == Event(writer.type, Home, writer.key)
  <2>1. cache' = Updated(e) /\ writer.pc = "cache"
    BY <1>2 DEF UpdateOwnCache
  <2>2. e.ns \in Namespaces /\ e.key \in Keys
    BY <1>1, <2>1, CacheAssumption DEF Event, WriterTyped, WriterState
  <2> HIDE DEF e
  <2> QED
    BY <1>1, <2>1, <2>2, UpdatedTyped DEF Cached
<1>3. CASE Take
  <2> DEFINE e == Head(bus)
  <2>1. /\ bus # <<>> /\ bus' = Tail(bus)
        /\ cache' = cache \/ (cache' = Updated(e) /\ e.type # "INIT")
    BY <1>3 DEF Take
  <2>2. e \in Message
    BY <1>1, <2>1, TakeTyped
  <2>3. e.ns \in Namespaces /\ (e.type # "INIT" => e.key \in Keys)
    BY <2>2, Messages
  <2> HIDE DEF e
  <2> QED
    BY <1>1, <2>1, <2>3, UpdatedTyped DEF Cached
<1> QED
  BY <1>2, <1>3

LEMMA ServedInvStep ==
    ASSUME TypeInv, ServedInv, [Next]_vars
    PROVE  ServedInv'
<1> SUFFICES ASSUME NEW ns \in Namespaces, Spoken(ns)' PROVE HasClient(ns)'
  BY DEF ServedInv, Served
<1> SUFFICES Spoken(ns) \/ HasClient(ns)
  BY NamespaceKept DEF ServedInv, Served
<1>1. BusTyped /\ CacheTyped /\ bus \in Seq(Message)
  BY DEF TypeInv, BusTyped
<1>2. CASE UNCHANGED <<cache, bus, syncer>>
  BY <1>2 DEF Spoken, Cached, Listing
<1>3. CASE UpdateOwnCache
  BY <1>3, MapsAreListed DEF UpdateOwnCache, Spoken, Listing
<1>4. ASSUME NEW i \in Clients, ClientStep(i) \/ Break(i)
      PROVE  Spoken(ns) \/ HasClient(ns)
  <2>1. UNCHANGED <<cache, syncer>>
    BY <1>4 DEF ClientStep, Dial, SendInit, Forward, Break
  <2>2. CASE bus' = bus
    BY <1>2, <2>1, <2>2
  <2>3. ASSUME NEW m \in Message, m.ns = client[i].ns, bus' = Append(bus, m)
        PROVE  Spoken(ns) \/ HasClient(ns)
    <3>1. CASE m.ns = ns
      BY <2>3, <3>1 DEF HasClient
    <3>2. CASE m.ns # ns
      <4>1. Has(bus, OfNamespace(ns))' => Has(bus, OfNamespace(ns))
        <5>1. m \notin OfNamespace(ns)
          BY <3>2 DEF OfNamespace
        <5>2. Has(bus', OfNamespace(ns)) => Has(bus, OfNamespace(ns))
          BY <1>1, <2>3, <5>1, HasAppend
        <5> QED
          BY <5>2 DEF Has, OfNamespace
      <4> QED
        BY <2>1, <4>1 DEF Spoken, Cached, Listing
    <3> QED
      BY <3>1, <3>2
  <2>4. PICK q \in ClientState :
          /\ q.ns = client[i].ns /\ q.ns \in Namespaces
          /\ \/ bus' = bus
             \/ bus' = Append(bus, Init_(q.ns))
             \/ /\ Head(client[i].stream) \in Message
                /\ Head(client[i].stream).ns = q.ns
                /\ bus' = Append(bus, Head(client[i].stream))
    BY <1>4, ClientEffect
  <2>5. Init_(q.ns) \in Message /\ Init_(q.ns).ns = q.ns
    BY <2>4, Messages
  <2> QED
    BY <2>2, <2>3, <2>4, <2>5
<1>5. CASE Take
  <2>1. bus # <<>> /\ bus' = Tail(bus)
    BY <1>5 DEF Take
  <2>2. Head(bus) \in Message
    BY <1>1, <2>1, TakeTyped
  <2>3. CASE Has(bus, OfNamespace(ns))'
    <3>1. Has(bus', OfNamespace(ns))
      BY <2>3 DEF Has, OfNamespace
    <3> QED
      BY <1>1, <2>1, <3>1, HasTail DEF Spoken
  <2>4. CASE Cached(ns)'
    BY <1>5, <2>4, MapsAreListed DEF Spoken
  <2>5. CASE Listing(ns)'
    <3>1. Head(bus) \in OfNamespace(ns)
      BY <1>5, <2>2, <2>5, SyncerEffect DEF Listing, OfNamespace
    <3> QED
      BY <1>1, <2>1, <3>1, HasTail DEF Spoken
  <2> QED
    BY <2>3, <2>4, <2>5 DEF Spoken
<1>6. CASE List \/ ListFails
  <2>1. UNCHANGED <<cache, bus>> /\ syncer.pc = "list"
    BY <1>6 DEF List, ListFails
  <2>2. syncer'.ns = syncer.ns
    BY <1>6, SyncerEffect
  <2> QED
    BY <2>1, <2>2 DEF Spoken, Cached, Listing
<1>7. CASE Store
  <2>1. /\ cache' = [cache EXCEPT ![syncer.ns] = syncer.snapshot]
        /\ syncer.pc = "store" /\ bus' = bus
    BY <1>7 DEF Store
  <2>2. ~Listing(ns)'
    BY <1>7, SyncerEffect DEF Listing
  <2>3. Cached(ns)' => Cached(ns) \/ Listing(ns)
    BY <1>1, <2>1 DEF Cached, Listing, CacheTyped
  <2> QED
    BY <2>1, <2>2, <2>3 DEF Spoken
<1>8. CASE Callback \/ CallbackPolls
  <2>1. UNCHANGED <<cache, bus>>
    BY <1>8 DEF Callback, CallbackPolls
  <2>2. ~Listing(ns)'
    BY <1>8, SyncerEffect DEF Listing
  <2> QED
    BY <2>1, <2>2 DEF Spoken, Cached
<1>9. CASE UNCHANGED vars \/ Change \/ CallCloud
           \/ \E c \in Readers : GetRoutes(c) \/ Poll(c)
  <2>1. UNCHANGED <<cache, bus, syncer>>
    BY <1>9 DEF vars, Change, CallCloud, GetRoutes, Poll
  <2> QED
    BY <1>2, <2>1
<1> QED
  BY <1>3, <1>4, <1>5, <1>6, <1>7, <1>8, <1>9 DEF Next, SyncerStep

LEMMA ServedInvHolds == Spec => []ServedInv
<1>1. Init => ServedInv
  <2> SUFFICES ASSUME Init, NEW ns \in Namespaces, Spoken(ns)
               PROVE  HasClient(ns)
    BY DEF ServedInv, Served
  <2>1. ~Has(bus, OfNamespace(ns)) /\ ~Listing(ns)
    BY EmptyQueue DEF Init, IdleSyncer, Listing
  <2>2. ns = Home
    BY <2>1 DEF Init, Spoken, Cached
  <2>3. client[First].ns = Home
    <3> DEFINE q == [Unused EXCEPT !.pc = "dialing", !.ns = Home]
    <3>1. client[First] = q
      BY CacheAssumption DEF Init
    <3>2. q.ns = Home
      BY DEF Unused
    <3> QED
      BY <3>1, <3>2
  <2> QED
    BY <2>2, <2>3, CacheAssumption DEF HasClient
<1> QED
  BY <1>1, TypeInvHolds, ServedInvStep, PTL DEF Spec

\* The same after a step, said of the new values of the variables.
LEMMA NextValues ==
    ASSUME NEW ns, NEW k
    PROVE  /\ StreamsRight(ns, k)' <=>
                \A i \in Clients :
                   Followed(client'[i].stream, Wrong(ns, k)', About(ns, k))
           /\ StreamFix(ns, k)' <=> \E i \in Clients : Pending(client'[i], ns, k)
           /\ BusFix(ns, k)' <=> Has(bus', Touch(ns, k))
           /\ BusRight(ns, k)' <=>
                StreamFix(ns, k)' \/ Followed(bus', Wrong(ns, k)', Touch(ns, k))
           /\ Wrong(ns, k)' = {e \in About(ns, k) :
                                  ~(e.type = "CREATED" <=> k \in cloud'[ns])}
<1>1. Wrong(ns, k)' = {e \in About(ns, k) :
                         ~(e.type = "CREATED" <=> k \in cloud'[ns])}
  BY DEF Wrong, About, Message
<1>2. StreamsRight(ns, k)' <=>
         \A i \in Clients :
            Followed(client'[i].stream, Wrong(ns, k)', About(ns, k))
  BY DEF StreamsRight, Followed, About, Message
<1>3. StreamFix(ns, k)' <=> \E i \in Clients : Pending(client'[i], ns, k)
  BY DEF StreamFix, Pending, Has, About, Message
<1>4. BusFix(ns, k)' <=> Has(bus', Touch(ns, k))
  BY DEF BusFix, Has, Touch, About, Message, Init_
<1>5. BusRight(ns, k)' <=>
         StreamFix(ns, k)' \/ Followed(bus', Wrong(ns, k)', Touch(ns, k))
  BY DEF BusRight, Followed, Touch, About, Message, Init_
<1> QED
  BY <1>1, <1>2, <1>3, <1>4, <1>5

LEMMA WrongKept ==
    ASSUME NEW ns, NEW k, k \in cloud'[ns] <=> k \in cloud[ns]
    PROVE  Wrong(ns, k)' = Wrong(ns, k)
  BY NextValues DEF Wrong

\* Which messages are about an entry, and which of them are wrong.
LEMMA WhatIsSaid ==
    ASSUME NEW ns \in Namespaces, NEW k \in Keys
    PROVE  /\ Wrong(ns, k) \subseteq About(ns, k)
           /\ About(ns, k) \subseteq Touch(ns, k)
           /\ Init_(ns) \in Touch(ns, k) /\ About(ns, k) \subseteq OfNamespace(ns)
           /\ \A n \in Namespaces : Init_(n) \notin About(ns, k)
           /\ \A e \in Message :
                e \in Touch(ns, k) /\ e \notin About(ns, k) =>
                  e.type = "INIT" /\ e.ns = ns
           /\ \A e \in About(ns, k) :
                /\ e \in Message /\ e.ns = ns /\ e.key = k
                /\ e.type \in {"CREATED", "DELETED"}
                /\ e \notin Wrong(ns, k) =>
                     (e.type # "DELETED" <=> k \in cloud[ns])
           /\ \A e \in Message :
                e.type # "INIT" /\ e.ns = ns /\ e.key = k => e \in About(ns, k)
<1>1. /\ Wrong(ns, k) \subseteq About(ns, k)
      /\ About(ns, k) \subseteq Touch(ns, k)
      /\ Init_(ns) \in Touch(ns, k) /\ About(ns, k) \subseteq OfNamespace(ns)
  BY DEF Wrong, Touch, About, OfNamespace
<1>2. \A n \in Namespaces : Init_(n) \notin About(ns, k)
  BY Messages DEF About
<1>3. \A e \in Message : e \in Touch(ns, k) /\ e \notin About(ns, k) =>
                           e.type = "INIT" /\ e.ns = ns
  BY Messages DEF Touch
<1>4. ASSUME NEW e \in About(ns, k)
      PROVE  /\ e \in Message /\ e.ns = ns /\ e.key = k
             /\ e.type \in {"CREATED", "DELETED"}
             /\ e \notin Wrong(ns, k) =>
                  (e.type # "DELETED" <=> k \in cloud[ns])
  <2>1. e \in Message /\ e.ns = ns /\ e.key = k /\ e.type \in {"CREATED", "DELETED"}
    BY Messages DEF About
  <2> QED
    BY <2>1 DEF Wrong
<1>5. \A e \in Message :
         e.type # "INIT" /\ e.ns = ns /\ e.key = k => e \in About(ns, k)
  BY DEF About
<1> QED
  BY <1>1, <1>2, <1>3, <1>4, <1>5

\* A step that leaves an entry of the cloud and of the map alone, loses nothing
\* that is pending, and leaves what is listed alone or lists nothing.
LEMMA EntryKept ==
    ASSUME NEW ns, NEW k, EntryInv(ns, k),
           k \in cloud'[ns] <=> k \in cloud[ns],
           Cached(ns)' /\ <<ns, k>> \notin doubtful' =>
              /\ Cached(ns) /\ <<ns, k>> \notin doubtful
              /\ k \in cache'[ns] <=> k \in cache[ns],
           syncer' = syncer \/ (syncer.pc \notin {"list", "store"}
                                /\ syncer'.pc # "store"),
           StreamsRight(ns, k)', BusRight(ns, k)', Fix(ns, k) => Fix(ns, k)'
    PROVE  EntryInv(ns, k)'
<1>1. SnapshotRight(ns, k)'
  BY DEF EntryInv, SnapshotRight
<1>2. CacheRight(ns, k)'
  BY DEF EntryInv, CacheRight, Listing
<1> QED
  BY <1>1, <1>2 DEF EntryInv

\* A client that changes, and what is said of an entry.
LEMMA OneClient ==
    ASSUME TypeInv, NEW i \in Clients, NEW q, client' = [client EXCEPT ![i] = q],
           cloud' = cloud, NEW ns, NEW k, StreamsRight(ns, k),
           Followed(q.stream, Wrong(ns, k), About(ns, k))
    PROVE  /\ StreamsRight(ns, k)'
           /\ Pending(q, ns, k) => StreamFix(ns, k)'
           /\ StreamFix(ns, k) => Pending(client[i], ns, k) \/ StreamFix(ns, k)'
<1>1. client'[i] = q /\ \A j \in Clients \ {i} : client'[j] = client[j]
  BY DEF TypeInv, ClientsTyped
<1>2. Wrong(ns, k)' = Wrong(ns, k)
  BY WrongKept
<1>3. StreamsRight(ns, k)'
  <2> SUFFICES ASSUME NEW j \in Clients
               PROVE  Followed(client'[j].stream, Wrong(ns, k), About(ns, k))
    BY <1>2, NextValues
  <2> QED
    BY <1>1 DEF StreamsRight
<1>4. Pending(q, ns, k) => StreamFix(ns, k)'
  BY <1>1, NextValues
<1>5. StreamFix(ns, k) => Pending(client[i], ns, k) \/ StreamFix(ns, k)'
  BY <1>1, NextValues DEF StreamFix
<1> QED
  BY <1>3, <1>4, <1>5

\* A client that takes a step loses nothing that is pending: it dials, or has
\* put what it no longer holds in the channel.
LEMMA ClientExact ==
    ASSUME TypeInv, ExactInv, NEW i \in Clients, ClientStep(i) \/ Break(i)
    PROVE  ExactInv'
<1> SUFFICES ASSUME NEW ns \in Namespaces, NEW k \in Keys
             PROVE  EntryInv(ns, k)'
  BY DEF ExactInv
<1>1. /\ client[i] \in ClientState /\ bus \in Seq(Message)
      /\ client[i].stream \in Seq(Message)
      /\ client[i].pc = "dialing" => client[i].stream = <<>>
  BY DEF TypeInv, ClientsTyped, ClientState, BusTyped
<1>2. UNCHANGED <<cloud, cache, syncer, doubtful>>
  BY DEF ClientStep, Dial, SendInit, Forward, Break
<1> DEFINE w == Wrong(ns, k)
           a == About(ns, k)
           t == Touch(ns, k)
           p == client[i]
<1>3. /\ w \subseteq a /\ a \subseteq t /\ Init_(ns) \in t
      /\ \A n \in Namespaces : Init_(n) \notin a
      /\ \A e \in a : e.ns = ns
      /\ \A n \in Namespaces : Init_(n) \in Message /\ Init_(n).ns = n
  BY WhatIsSaid, Messages
<1>4. EntryInv(ns, k) /\ StreamsRight(ns, k) /\ BusRight(ns, k)
  BY DEF ExactInv, EntryInv
<1>5. Followed(p.stream, w, a)
  BY <1>4 DEF StreamsRight
<1>6. Wrong(ns, k)' = w
  BY <1>2, WrongKept
<1>7. /\ (Cached(ns)' <=> Cached(ns)) /\ cache' = cache /\ syncer' = syncer
      /\ doubtful' = doubtful /\ cloud' = cloud
  BY <1>2 DEF Cached
<1>8. PICK q \in ClientState :
        /\ client' = [client EXCEPT ![i] = q]
        /\ q.ns = p.ns /\ q.ns \in Namespaces
        /\ \/ /\ p.pc = "dialing" /\ q.pc = "init"
              /\ q.stream = p.stream /\ bus' = bus
           \/ /\ q.stream = p.stream
              /\ bus' = Append(bus, Init_(q.ns))
           \/ /\ q.pc = p.pc
              /\ p.stream # <<>>
              /\ Head(p.stream) \in Message
              /\ Head(p.stream).ns = q.ns
              /\ q.stream = Tail(p.stream)
              /\ bus' = Append(bus, Head(p.stream))
           \/ q.pc = "dialing" /\ q.stream = <<>> /\ bus' = bus
  BY ClientEffect
<1>9. ASSUME Followed(q.stream, w, a),
             Pending(p, ns, k) => Pending(q, ns, k) \/ BusFix(ns, k)',
             BusFix(ns, k) => BusFix(ns, k)',
             BusRight(ns, k)'
      PROVE  EntryInv(ns, k)'
  <2>1. StreamsRight(ns, k)' /\ (Fix(ns, k) => Fix(ns, k)')
    BY <1>4, <1>7, <1>8, <1>9, OneClient DEF Fix
  <2> QED
    BY <1>4, <1>7, <1>9, <2>1, EntryKept
<1>10. ASSUME bus' = bus, q.stream \in Seq(Message), Followed(q.stream, w, a),
              Pending(p, ns, k) => Pending(q, ns, k)
       PROVE  EntryInv(ns, k)'
  <2>1. BusFix(ns, k) => BusFix(ns, k)'
    BY <1>10, NextValues DEF BusFix
  <2>2. StreamFix(ns, k) => StreamFix(ns, k)'
    BY <1>4, <1>7, <1>8, <1>10, OneClient
  <2>3. BusRight(ns, k)'
    BY <1>4, <1>6, <1>10, <2>2, NextValues DEF BusRight
  <2> QED
    BY <1>9, <1>10, <2>1, <2>3
<1>11. CASE /\ p.pc = "dialing" /\ q.pc = "init"
            /\ q.stream = p.stream /\ bus' = bus
  BY <1>1, <1>5, <1>8, <1>10, <1>11 DEF Pending
<1>12. CASE q.pc = "dialing" /\ q.stream = <<>> /\ bus' = bus
  <2>1. Followed(q.stream, w, a) /\ q.stream \in Seq(Message)
    BY <1>12, EmptyQueue
  <2>2. Pending(p, ns, k) => Pending(q, ns, k)
    BY <1>8, <1>12 DEF Pending
  <2> QED
    BY <1>10, <1>12, <2>1, <2>2
\* A message more in the channel, from a client that held it or has dialled.
<1>13. ASSUME NEW m \in Message, m.ns = p.ns, bus' = Append(bus, m),
              Followed(q.stream, w, a),
              Pending(p, ns, k) => Pending(q, ns, k) \/ m \in t,
              m \in w => Pending(q, ns, k)
       PROVE  EntryInv(ns, k)'
  <2>1. BusFix(ns, k)' <=> BusFix(ns, k) \/ m \in t
    <3>1. Has(bus', t) <=> Has(bus, t) \/ m \in t
      BY <1>1, <1>13, HasAppend
    <3> QED
      BY <3>1, NextValues DEF BusFix
  <2>2. /\ Pending(q, ns, k) => StreamFix(ns, k)'
        /\ StreamFix(ns, k) => Pending(p, ns, k) \/ StreamFix(ns, k)'
    BY <1>4, <1>7, <1>8, <1>13, OneClient
  <2>3. BusRight(ns, k)'
    <3> SUFFICES ASSUME ~StreamFix(ns, k)'
                 PROVE  Followed(bus', w, t)
      BY <1>6, NextValues
    <3>1. m \notin w
      BY <1>13, <2>2
    <3>2. m \in t \/ Followed(bus, w, t)
      BY <1>4, <1>13, <2>2 DEF BusRight
    <3> QED
      BY <1>1, <1>13, <3>1, <3>2, FollowedAppend
  <2> QED
    BY <1>9, <1>13, <2>1, <2>3
<1>14. CASE q.stream = p.stream /\ bus' = Append(bus, Init_(q.ns))
  <2> DEFINE m == Init_(q.ns)
  <2>1. m \in Message /\ m.ns = p.ns /\ m \notin w
    BY <1>3, <1>8
  <2>2. Pending(p, ns, k) => m \in t
    BY <1>3, <1>8 DEF Pending
  <2>3. Followed(q.stream, w, a)
    BY <1>5, <1>14
  <2> HIDE DEF m
  <2>4. bus' = Append(bus, m)
    BY <1>14 DEF m
  <2> QED
    BY <1>13, <2>1, <2>2, <2>3, <2>4
<1>15. CASE /\ q.pc = p.pc
            /\ p.stream # <<>>
            /\ Head(p.stream) \in Message
            /\ Head(p.stream).ns = q.ns
            /\ q.stream = Tail(p.stream)
            /\ bus' = Append(bus, Head(p.stream))
  <2> DEFINE m == Head(p.stream)
  <2>1. m \in Message /\ m.ns = p.ns /\ bus' = Append(bus, m)
    BY <1>8, <1>15
  <2>2. Followed(q.stream, w, a) /\ (m \in w => Has(q.stream, a))
    BY <1>1, <1>5, <1>15, FollowedTail
  <2>3. m \in w => Pending(q, ns, k)
    BY <1>3, <1>8, <2>1, <2>2 DEF Pending
  <2>4. Has(p.stream, a) => m \in a \/ Has(q.stream, a)
    BY <1>1, <1>15, HasTail
  <2>5. Pending(p, ns, k) => Pending(q, ns, k) \/ m \in t
    BY <1>3, <1>8, <1>15, <2>4 DEF Pending
  <2> HIDE DEF m
  <2> QED
    BY <1>13, <2>1, <2>2, <2>3, <2>5
<1> QED
  BY <1>8, <1>11, <1>12, <1>14, <1>15

\* A change of the cloud: its event is the last on every open connection of the
\* namespace, and a client without one has yet to signal INIT.
LEMMA ToggleExact ==
    ASSUME TypeInv, ServedInv, ExactInv, NEW n \in Namespaces, NEW l \in Keys,
           Toggle(n, l), UNCHANGED <<cache, bus, syncer, doubtful>>
    PROVE  ExactInv'
<1> DEFINE Sent(type, j) ==
      IF Watching(j, n)
      THEN [client[j] EXCEPT !.stream = Append(@, Event(type, n, l))]
      ELSE client[j]
<1>1. PICK type \in {"CREATED", "DELETED"} :
        /\ type = "CREATED" <=> l \in cloud'[n]
        /\ \A m \in Namespaces, j \in Keys : <<m, j>> # <<n, l>> =>
             (j \in cloud'[m] <=> j \in cloud[m])
        /\ \A j \in Clients : client'[j] = Sent(type, j)
  BY ToggleTyped, Zenon
<1> DEFINE e == Event(type, n, l)
<1>2. e \in Message /\ e.type = type /\ e.ns = n /\ e.key = l
  BY <1>1, Messages
<1> HIDE DEF e
<1>3. ASSUME NEW i \in Clients
      PROVE  /\ client[i] \in ClientState /\ client[i].stream \in Seq(Message)
             /\ client'[i].pc = client[i].pc /\ client'[i].ns = client[i].ns
             /\ client'[i].stream = IF Watching(i, n) THEN Append(client[i].stream, e)
                                    ELSE client[i].stream
  <2>1. client[i] \in ClientState
    BY <1>3 DEF TypeInv, ClientsTyped
  <2>2. client'[i] = IF Watching(i, n)
                     THEN [client[i] EXCEPT !.stream = Append(client[i].stream, e)]
                     ELSE client[i]
    BY <1>1, <1>3 DEF e
  <2>3. client[i] \in [pc : {"unused", "dialing", "init", "reading"},
                        ns : Namespaces \union {Absent}, stream : Seq(Message)]
    BY <2>1 DEF ClientState
  <2>4. CASE Watching(i, n)
    BY <2>1, <2>2, <2>3, <2>4
  <2>5. CASE ~Watching(i, n)
    BY <2>1, <2>2, <2>3, <2>5
  <2> QED
    BY <2>4, <2>5
<1> SUFFICES ASSUME NEW ns \in Namespaces, NEW k \in Keys
             PROVE  EntryInv(ns, k)'
  BY DEF ExactInv
<1> DEFINE w == Wrong(ns, k)
           a == About(ns, k)
           t == Touch(ns, k)
<1>4. EntryInv(ns, k) /\ StreamsRight(ns, k) /\ BusRight(ns, k) /\ Served(ns)
  BY DEF ExactInv, ServedInv, EntryInv
<1>5. w \subseteq a /\ \A m \in a : m.ns = ns /\ m.key = k
  BY WhatIsSaid
<1>6. CASE ns = n /\ k = l
  <2> DEFINE v == Wrong(ns, k)'
  <2>1. v \subseteq a /\ e \in a /\ e \notin v
    <3>1. e \in a
      BY <1>1, <1>2, <1>6, WhatIsSaid
    <3>2. v = {m \in a : ~(m.type = "CREATED" <=> k \in cloud'[ns])}
      BY NextValues
    <3> QED
      BY <1>1, <1>2, <1>6, <3>1, <3>2
  <2> HIDE DEF v
  <2>2. StreamsRight(ns, k)'
    <3> SUFFICES ASSUME NEW i \in Clients
                 PROVE  Followed(client'[i].stream, v, a)
      BY NextValues DEF v
    <3>1. CASE Watching(i, n)
      BY <1>2, <1>3, <2>1, <3>1, FollowedAppend
    <3>2. CASE ~Watching(i, n)
      <4>1. \A j \in DOMAIN client[i].stream : client[i].stream[j] \notin a
        <5>1. /\ client[i].ns # n \/ client[i].stream = <<>>
              /\ \A j \in DOMAIN client[i].stream :
                   client[i].stream[j].ns = client[i].ns
          BY <1>3, <3>2 DEF Watching, ClientState
        <5>2. CASE client[i].stream = <<>>
          BY <5>2
        <5>3. CASE client[i].ns # n
          BY <1>5, <1>6, <5>1, <5>3
        <5> QED
          BY <5>1, <5>2, <5>3
      <4> QED
        BY <1>3, <2>1, <3>2, <4>1 DEF Followed
    <3> QED
      BY <3>1, <3>2
  <2>3. CASE HasClient(ns)
    <3>1. PICK i \in Clients : client[i].ns = ns
      BY <2>3 DEF HasClient
    <3>2. Pending(client'[i], ns, k)
      <4>1. client[i].pc # "unused"
        BY <1>3, <3>1, CacheAssumption DEF ClientState
      <4>2. CASE Watching(i, n)
        <5>1. Has(client'[i].stream, a)
          BY <1>2, <1>3, <2>1, <4>2, HasAppend
        <5> QED
          BY <1>3, <3>1, <5>1 DEF Pending
      <4>3. CASE ~Watching(i, n)
        <5>1. client[i].pc = "dialing"
          BY <1>3, <1>6, <3>1, <4>1, <4>3 DEF Watching, ClientState
        <5> QED
          BY <1>3, <3>1, <5>1 DEF Pending
      <4> QED
        BY <4>2, <4>3
    <3>3. StreamFix(ns, k)' /\ Fix(ns, k)'
      BY <3>2, NextValues DEF Fix
    <3> QED
      BY <2>2, <3>3 DEF EntryInv, BusRight, SnapshotRight, CacheRight
  <2>4. CASE ~HasClient(ns)
    <3>1. ~Has(bus, OfNamespace(ns)) /\ ~Cached(ns) /\ ~Listing(ns)
      BY <1>4, <2>4 DEF Served, Spoken
    <3>2. BusRight(ns, k)'
      <4>1. Followed(bus', v, t)
        BY <2>1, <3>1, WhatIsSaid DEF Has, Followed
      <4> QED
        BY <4>1, NextValues DEF v
    <3>3. SnapshotRight(ns, k)' /\ CacheRight(ns, k)'
      BY <3>1 DEF SnapshotRight, CacheRight, Listing, Cached
    <3> QED
      BY <2>2, <3>2, <3>3 DEF EntryInv
  <2> QED
    BY <2>3, <2>4
<1>7. CASE ~(ns = n /\ k = l)
  <2>1. k \in cloud'[ns] <=> k \in cloud[ns]
    BY <1>1, <1>7
  <2>2. Wrong(ns, k)' = w
    BY <2>1, WrongKept
  <2>3. e \notin a
    BY <1>2, <1>5, <1>7
  <2>4. StreamsRight(ns, k)'
    <3> SUFFICES ASSUME NEW i \in Clients
                 PROVE  Followed(client'[i].stream, w, a)
      BY <2>2, NextValues
    <3>1. Followed(client[i].stream, w, a)
      BY <1>4 DEF StreamsRight
    <3>2. CASE Watching(i, n)
      BY <1>2, <1>3, <1>5, <2>3, <3>1, <3>2, FollowedAppend
    <3>3. CASE ~Watching(i, n)
      BY <1>3, <3>1, <3>3
    <3> QED
      BY <3>2, <3>3
  <2>5. StreamFix(ns, k) => StreamFix(ns, k)'
    <3> SUFFICES ASSUME NEW i \in Clients, Pending(client[i], ns, k)
                 PROVE  Pending(client'[i], ns, k)
      BY NextValues DEF StreamFix
    <3>1. Has(client[i].stream, a) => Has(client'[i].stream, a)
      <4>1. CASE Watching(i, n)
        BY <1>2, <1>3, <4>1, HasAppend
      <4>2. CASE ~Watching(i, n)
        BY <1>3, <4>2
      <4> QED
        BY <4>1, <4>2
    <3> QED
      BY <1>3, <3>1 DEF Pending
  <2>6. BusFix(ns, k)' <=> BusFix(ns, k)
    BY NextValues DEF BusFix
  <2>7. BusRight(ns, k)'
    BY <1>4, <2>2, <2>5, NextValues DEF BusRight
  <2>8. Fix(ns, k) => Fix(ns, k)'
    BY <2>5, <2>6 DEF Fix
  <2>9. Cached(ns)' /\ <<ns, k>> \notin doubtful' =>
          /\ Cached(ns) /\ <<ns, k>> \notin doubtful
          /\ k \in cache'[ns] <=> k \in cache[ns]
    BY DEF Cached
  <2> QED
    BY <1>4, <2>1, <2>4, <2>7, <2>8, <2>9, EntryKept
<1> QED
  BY <1>6, <1>7

\* A step that changes neither the cloud nor the channel, and no client but for
\* one that is started.
LEMMA ChannelsKept ==
    ASSUME TypeInv, NEW ns \in Namespaces, NEW k \in Keys, EntryInv(ns, k),
           UNCHANGED <<cloud, bus>>,
           client' = client \/ \E n \in Namespaces : StartClient(n)
    PROVE  /\ StreamsRight(ns, k)' /\ BusRight(ns, k)'
           /\ Wrong(ns, k)' = Wrong(ns, k)
           /\ StreamFix(ns, k) => StreamFix(ns, k)'
           /\ BusFix(ns, k)' <=> BusFix(ns, k)
<1>1. Wrong(ns, k)' = Wrong(ns, k)
  BY WrongKept
<1>2. BusFix(ns, k)' <=> BusFix(ns, k)
  BY NextValues DEF BusFix
<1>3. StreamsRight(ns, k)' /\ (StreamFix(ns, k) => StreamFix(ns, k)')
  <2>1. CASE client' = client
    BY <1>1, <2>1, NextValues DEF EntryInv, StreamsRight, StreamFix
  <2>2. CASE \E n \in Namespaces : StartClient(n)
    <3>1. PICK i \in Clients :
            /\ client[i].ns = Absent /\ client'[i].stream = <<>>
            /\ \A j \in Clients \ {i} : client'[j] = client[j]
      BY <2>2, StartTyped DEF TypeInv
    <3>2. \A j \in Clients :
             Followed(client'[j].stream, Wrong(ns, k), About(ns, k))
      BY <3>1, EmptyQueue DEF EntryInv, StreamsRight
    <3>3. ~Pending(client[i], ns, k)
      BY <3>1, CacheAssumption DEF Pending
    <3> QED
      BY <1>1, <3>1, <3>2, <3>3, NextValues DEF StreamFix
  <2> QED
    BY <2>1, <2>2
<1>4. BusRight(ns, k)'
  BY <1>1, <1>3, NextValues DEF EntryInv, BusRight
<1> QED
  BY <1>1, <1>2, <1>3, <1>4

\* What GetRoutes and the callbacks do, with a client started or without.
LEMMA StartExact ==
    ASSUME TypeInv, ExactInv, UNCHANGED <<cloud, cache, bus, doubtful>>,
           client' = client \/ \E n \in Namespaces : StartClient(n),
           syncer' = syncer \/ (syncer.pc \notin {"list", "store"}
                                /\ syncer'.pc # "store")
    PROVE  ExactInv'
<1> SUFFICES ASSUME NEW ns \in Namespaces, NEW k \in Keys
             PROVE  EntryInv(ns, k)'
  BY DEF ExactInv
<1>1. EntryInv(ns, k)
  BY DEF ExactInv
<1>2. /\ StreamsRight(ns, k)' /\ BusRight(ns, k)'
      /\ Fix(ns, k) => Fix(ns, k)'
  BY <1>1, ChannelsKept DEF Fix
<1>3. Cached(ns)' /\ <<ns, k>> \notin doubtful' =>
        /\ Cached(ns) /\ <<ns, k>> \notin doubtful
        /\ k \in cache'[ns] <=> k \in cache[ns]
  BY DEF Cached
<1>4. k \in cloud'[ns] <=> k \in cloud[ns]
  OBVIOUS
<1> QED
  BY <1>1, <1>2, <1>3, <1>4, EntryKept

\* An own update makes its entry true, or is counted as doubtful.
LEMMA OwnUpdateExact ==
    ASSUME TypeInv, ExactInv, UpdateOwnCache
    PROVE  ExactInv'
<1> DEFINE l == writer.key
           e == Event(writer.type, Home, l)
<1>1. /\ writer.pc = "cache" /\ cache' = Updated(e)
      /\ doubtful' = IF (l \in cloud[Home]) = (writer.type = "CREATED")
                     THEN doubtful \ {<<Home, l>>}
                     ELSE doubtful \union {<<Home, l>>}
      /\ UNCHANGED <<cloud, client, bus, syncer>>
  BY DEF UpdateOwnCache
<1>2. l \in Keys /\ writer.type \in {"CREATED", "DELETED"} /\ CacheTyped
  BY <1>1 DEF TypeInv, WriterTyped, WriterState
<1>3. e.ns = Home /\ e.key = l /\ e.type = writer.type /\ Home \in Namespaces
  BY CacheAssumption DEF Event
<1> HIDE DEF e, l
<1>4. /\ \A m \in Namespaces : cache'[m] # Absent => Cached(m)
      /\ \A m \in Namespaces, j \in Keys : <<m, j>> # <<Home, l>> =>
           (j \in cache'[m] <=> j \in cache[m])
      /\ Cached(Home) => (l \in cache'[Home] <=> writer.type # "DELETED")
  BY <1>1, <1>2, <1>3, UpdatedTyped
<1> SUFFICES ASSUME NEW ns \in Namespaces, NEW k \in Keys
             PROVE  EntryInv(ns, k)'
  BY DEF ExactInv
<1>5. EntryInv(ns, k)
  BY DEF ExactInv
<1>6. /\ StreamsRight(ns, k)' /\ BusRight(ns, k)'
      /\ Fix(ns, k) => Fix(ns, k)'
  BY <1>1, <1>5, ChannelsKept DEF Fix
<1>7. CASE ns = Home /\ k = l
  <2>1. SnapshotRight(ns, k)'
    BY <1>1, <1>5, <1>6 DEF EntryInv, SnapshotRight
  <2>2. CacheRight(ns, k)'
    <3> SUFFICES ASSUME Cached(ns)', <<ns, k>> \notin doubtful'
                 PROVE  k \in cache'[ns] <=> k \in cloud'[ns]
      BY DEF CacheRight
    <3>1. l \in cache'[Home] <=> writer.type # "DELETED"
      BY <1>3, <1>4, <1>7 DEF Cached
    <3>2. (l \in cloud[Home]) = (writer.type = "CREATED")
      BY <1>1, <1>7
    <3> QED
      BY <1>1, <1>2, <1>7, <3>1, <3>2
  <2> QED
    BY <1>6, <2>1, <2>2 DEF EntryInv
<1>8. CASE ~(ns = Home /\ k = l)
  <2>1. Cached(ns)' /\ <<ns, k>> \notin doubtful' =>
          /\ Cached(ns) /\ <<ns, k>> \notin doubtful
          /\ k \in cache'[ns] <=> k \in cache[ns]
    BY <1>1, <1>4, <1>8 DEF Cached
  <2>2. (k \in cloud'[ns] <=> k \in cloud[ns]) /\ syncer' = syncer
    BY <1>1
  <2> QED
    BY <1>5, <1>6, <2>1, <2>2, EntryKept
<1> QED
  BY <1>7, <1>8

\* An update that the syncer takes: an event makes its entry of the map what it
\* says, and a wrong one has another after it; a signal has the namespace listed.
LEMMA TakeExact ==
    ASSUME TypeInv, ExactInv, Take
    PROVE  ExactInv'
<1> DEFINE e == Head(bus)
<1>1. /\ bus # <<>> /\ bus' = Tail(bus) /\ UNCHANGED <<cloud, client>>
      /\ bus \in Seq(Message) /\ CacheTyped /\ BusTyped
  BY DEF Take, TypeInv, BusTyped
<1>2. e \in Message /\ e.ns \in Namespaces /\ (e.type # "INIT" => e.key \in Keys)
  <2>1. e \in Message
    BY <1>1, TakeTyped
  <2> QED
    BY <2>1, Messages
<1>3. /\ syncer.pc = "idle" /\ syncer'.pc # "store"
      /\ \/ /\ syncer'.pc = "list" /\ syncer'.ns = e.ns
            /\ e.type = "INIT" /\ UNCHANGED <<cache, doubtful>>
         \/ /\ e.type # "INIT" /\ cache' = Updated(e)
            /\ doubtful' = doubtful \ {<<e.ns, e.key>>}
  BY SyncerEffect
<1> HIDE DEF e
<1> SUFFICES ASSUME NEW ns \in Namespaces, NEW k \in Keys
             PROVE  EntryInv(ns, k)'
  BY DEF ExactInv
<1> DEFINE w == Wrong(ns, k)
           a == About(ns, k)
           t == Touch(ns, k)
<1>4. EntryInv(ns, k) /\ StreamsRight(ns, k) /\ BusRight(ns, k)
      /\ CacheRight(ns, k)
  BY DEF ExactInv, EntryInv
<1>5. /\ Wrong(ns, k)' = w /\ StreamsRight(ns, k)'
      /\ StreamFix(ns, k) => StreamFix(ns, k)'
  <2>1. Wrong(ns, k)' = w
    BY <1>1, WrongKept
  <2> QED
    BY <1>1, <1>4, <2>1, NextValues DEF StreamsRight, StreamFix
<1>6. BusFix(ns, k) <=> e \in t \/ BusFix(ns, k)'
  BY <1>1, HasTail, NextValues DEF BusFix, e
<1>7. /\ BusRight(ns, k)'
      /\ e \in w => Fix(ns, k)'
  <2>1. CASE StreamFix(ns, k)
    BY <1>5, <2>1, NextValues DEF Fix
  <2>2. CASE Followed(bus, w, t)
    <3>1. Followed(bus', w, t) /\ (e \in w => Has(bus', t))
      BY <1>1, <2>2, FollowedTail DEF e
    <3> QED
      BY <1>5, <3>1, NextValues DEF Fix
  <2> QED
    BY <1>4, <2>1, <2>2 DEF BusRight
<1>8. SnapshotRight(ns, k)'
  BY <1>3 DEF SnapshotRight
<1>9. CacheRight(ns, k)'
  <2>1. CASE e.type = "INIT" /\ e.ns = ns
    BY <1>3, <2>1 DEF CacheRight, Listing
  <2>2. CASE e \in a
    <3>1. e.ns = ns /\ e.key = k /\ e.type # "INIT"
          /\ (e \notin w => (e.type # "DELETED" <=> k \in cloud[ns]))
      BY <2>2, WhatIsSaid
    <3>2. /\ Cached(ns)' => Cached(ns)
          /\ Cached(ns) => (k \in cache'[ns] <=> e.type # "DELETED")
      <4>1. cache' = Updated(e) /\ e.key \in Keys
        BY <1>2, <1>3, <3>1
      <4> QED
        BY <1>1, <1>2, <3>1, <4>1, UpdatedTyped DEF Cached
    <3> QED
      BY <1>1, <1>7, <3>1, <3>2 DEF CacheRight
  <2>3. CASE e \notin t
    <3>1. Fix(ns, k) => Fix(ns, k)'
      BY <1>5, <1>6, <2>3 DEF Fix
    <3>2. Cached(ns)' /\ <<ns, k>> \notin doubtful' =>
            /\ Cached(ns) /\ <<ns, k>> \notin doubtful
            /\ k \in cache'[ns] <=> k \in cache[ns]
      <4>1. CASE UNCHANGED <<cache, doubtful>>
        BY <4>1 DEF Cached
      <4>2. CASE /\ e.type # "INIT" /\ cache' = Updated(e)
                 /\ doubtful' = doubtful \ {<<e.ns, e.key>>}
        <5>1. e.key \in Keys /\ <<ns, k>> # <<e.ns, e.key>>
          BY <1>2, <2>3, <4>2, WhatIsSaid
        <5>2. /\ cache'[ns] # Absent => Cached(ns)
              /\ k \in cache'[ns] <=> k \in cache[ns]
          BY <1>1, <1>2, <4>2, <5>1, UpdatedTyped
        <5> QED
          BY <4>2, <5>1, <5>2 DEF Cached
      <4> QED
        BY <1>3, <4>1, <4>2
    <3>3. ~Listing(ns)
      BY <1>3 DEF Listing
    <3> QED
      BY <1>1, <1>4, <3>1, <3>2, <3>3 DEF CacheRight
  <2> QED
    BY <1>2, <2>1, <2>2, <2>3, WhatIsSaid
<1> QED
  BY <1>5, <1>7, <1>8, <1>9 DEF EntryInv

\* What is listed is true, or the listing has failed; what is stored is what was
\* listed, or has become wrong since and will be looked at.
LEMMA ListExact ==
    ASSUME TypeInv, ExactInv, List \/ ListFails \/ Store
    PROVE  ExactInv'
<1>1. UNCHANGED <<cloud, client, bus>>
  BY DEF List, ListFails, Store
<1>2. CacheTyped /\ syncer \in SyncerState
  BY DEF TypeInv, SyncerTyped
<1> SUFFICES ASSUME NEW ns \in Namespaces, NEW k \in Keys
             PROVE  EntryInv(ns, k)'
  BY DEF ExactInv
<1>3. EntryInv(ns, k)
  BY DEF ExactInv
<1>4. /\ StreamsRight(ns, k)' /\ BusRight(ns, k)'
      /\ Fix(ns, k) => Fix(ns, k)'
  BY <1>1, <1>3, ChannelsKept DEF Fix
<1>5. CASE List \/ ListFails
  <2>1. UNCHANGED <<cache, doubtful>> /\ syncer.pc = "list"
    BY <1>5 DEF List, ListFails
  <2>2. /\ syncer'.pc = "store" /\ syncer'.ns = syncer.ns
        /\ syncer'.snapshot = cloud[syncer.ns] \/ syncer'.failed
    BY <1>5, SyncerEffect
  <2>3. SnapshotRight(ns, k)'
    BY <1>1, <2>2 DEF SnapshotRight
  <2>4. CacheRight(ns, k)'
    BY <1>1, <1>3, <1>4, <2>1, <2>2 DEF EntryInv, CacheRight, Cached, Listing
  <2> QED
    BY <1>4, <2>3, <2>4 DEF EntryInv
<1>6. CASE Store
  <2>1. /\ syncer.pc = "store" /\ syncer'.pc = "callback"
        /\ cache' = [cache EXCEPT ![syncer.ns] = syncer.snapshot]
        /\ doubtful' = IF syncer.failed THEN doubtful \union ({syncer.ns} \X Keys)
                       ELSE doubtful \ ({syncer.ns} \X Keys)
    BY <1>6, SyncerEffect DEF Store
  <2>2. SnapshotRight(ns, k)'
    BY <2>1 DEF SnapshotRight
  <2>3. CASE syncer.ns = ns
    <3>1. <<ns, k>> \notin doubtful' => ~syncer.failed
      BY <2>1, <2>3
    <3>2. cache'[ns] = syncer.snapshot
      BY <1>2, <2>1, <2>3 DEF CacheTyped
    <3>3. CacheRight(ns, k)'
      BY <1>1, <1>3, <1>4, <2>1, <2>3, <3>1, <3>2
         DEF EntryInv, SnapshotRight, CacheRight
    <3> QED
      BY <1>4, <2>2, <3>3 DEF EntryInv
  <2>4. CASE syncer.ns # ns
    <3>1. cache'[ns] = cache[ns]
      BY <1>2, <2>1, <2>4 DEF CacheTyped
    <3>2. <<ns, k>> \in doubtful' <=> <<ns, k>> \in doubtful
      BY <2>1, <2>4
    <3>3. CacheRight(ns, k)'
      BY <1>1, <1>3, <1>4, <2>4, <3>1, <3>2
         DEF EntryInv, CacheRight, Cached, Listing
    <3> QED
      BY <1>4, <2>2, <3>3 DEF EntryInv
  <2> QED
    BY <2>3, <2>4
<1> QED
  BY <1>5, <1>6

LEMMA ExactInvStep ==
    ASSUME TypeInv, ServedInv, ExactInv, [Next]_vars
    PROVE  ExactInv'
<1>1. CASE Change \/ CallCloud
  <2>1. PICK n \in Namespaces, l \in Keys : Toggle(n, l)
    BY <1>1, CacheAssumption DEF Change, CallCloud
  <2>2. UNCHANGED <<cache, bus, syncer, doubtful>>
    BY <1>1 DEF Change, CallCloud
  <2> QED
    BY <2>1, <2>2, ToggleExact
<1>2. ASSUME NEW c \in Readers, GetRoutes(c) \/ Poll(c) PROVE ExactInv'
  <2>1. UNCHANGED <<cloud, cache, bus, syncer, doubtful>>
        /\ (client' = client \/ \E n \in Namespaces : StartClient(n))
    BY <1>2 DEF GetRoutes, Poll
  <2> QED
    BY <2>1, StartExact
<1>3. CASE Callback \/ CallbackPolls
  <2>1. UNCHANGED <<cloud, cache, bus, doubtful>>
        /\ (client' = client \/ \E n \in Namespaces : StartClient(n))
    BY <1>3, CacheAssumption DEF Callback, CallbackPolls
  <2>2. syncer.pc \notin {"list", "store"} /\ syncer'.pc # "store"
    BY <1>3, SyncerEffect
  <2> QED
    BY <2>1, <2>2, StartExact
<1>4. CASE UNCHANGED vars
  <2>1. UNCHANGED <<cloud, cache, client, bus, syncer, doubtful>>
    BY <1>4 DEF vars
  <2> QED
    BY <2>1, StartExact
<1> QED
  BY <1>1, <1>2, <1>3, <1>4, ClientExact, OwnUpdateExact, TakeExact, ListExact
     DEF Next, SyncerStep

LEMMA InitExactInv == Init => ExactInv
<1> SUFFICES ASSUME Init, NEW ns \in Namespaces, NEW k \in Keys
             PROVE  EntryInv(ns, k)
  BY DEF ExactInv
<1>1. BusRight(ns, k)
  BY EmptyQueue DEF Init, BusRight
<1>2. StreamsRight(ns, k)
  <2> SUFFICES ASSUME NEW i \in Clients PROVE client[i].stream = <<>>
    BY EmptyQueue DEF StreamsRight
  <2>1. client[i] \in ClientState /\ client[i].pc \in {"unused", "dialing"}
    <3> DEFINE q == [Unused EXCEPT !.pc = "dialing", !.ns = Home]
    <3>1. Unused \in ClientState /\ q \in ClientState
      BY FreshStates, CacheAssumption
    <3>2. Unused.pc = "unused" /\ q.pc = "dialing"
      BY DEF Unused
    <3>3. client[i] \in {q, Unused}
      BY DEF Init
    <3> QED
      BY <3>1, <3>2, <3>3
  <2> QED
    BY <2>1 DEF ClientState
<1>3. SnapshotRight(ns, k)
  BY DEF Init, IdleSyncer, SnapshotRight
<1>4. CacheRight(ns, k)
  BY DEF Init, CacheRight, Cached
<1> QED
  BY <1>1, <1>2, <1>3, <1>4 DEF EntryInv

LEMMA ExactInvGivesExact == TypeInv /\ ExactInv => ExactWhenQuiet
<1> SUFFICES ASSUME TypeInv, ExactInv, NEW ns \in Namespaces, Cached(ns),
                    Quiet(ns), NEW k \in Keys, <<ns, k>> \notin doubtful
             PROVE  k \in cache[ns] <=> k \in cloud[ns]
  BY DEF ExactWhenQuiet, Exact
<1>1. ~StreamFix(ns, k)
  BY EmptyQueue DEF StreamFix, Pending, Quiet
<1>2. ~BusFix(ns, k)
  BY Messages DEF Quiet, BusFix, Has, Touch, About
<1>3. ~Listing(ns)
  BY DEF Quiet, Listing
<1>4. CacheRight(ns, k)
  BY DEF ExactInv, EntryInv
<1> QED
  BY <1>1, <1>2, <1>3, <1>4 DEF CacheRight, Fix

\* Once nothing about a namespace is on its way to the map, the map is what the
\* cloud is, but for what a failed listing or an overtaken own update has left
\* (initRoutesCache, syncingCacheInternal, updateRoutesCache, WebSocketClient).
THEOREM QuietCacheIsExact == Spec => []ExactWhenQuiet
<1> QED
  BY TypeInvHolds, ServedInvHolds, InitExactInv, ExactInvStep, ExactInvGivesExact,
     PTL DEF Spec

===============================================================================
