------------------------------- MODULE SyncCall -------------------------------
(***************************************************************************)
(* Requests that wait for the caches: the handlers of controller/api.go on *)
(* AwaitAction in synchronizer.go, and the goroutines of                   *)
(* paasMediationClient.go that tell it when a cache has changed.           *)
(*                                                                         *)
(* Per kind of resource a syncing goroutine takes updates from a channel,  *)
(* survives the panics of some of them, and hands the time of each update  *)
(* over an unbuffered channel to a keeper, which stores it in the one      *)
(* lastCacheUpdateTime.  A handler reads that time, runs its function, and *)
(* if asked to, polls until the time is later or patience runs out.        *)
(***************************************************************************)
EXTENDS Integers, FiniteSets, Sequences

CONSTANTS
    Calls,          \* handler goroutines
    BusCap,         \* capacity of a channel of updates (50)
    Attempts,       \* panics in a row that end the process (attemptsWs)
    Polls,          \* polls before the timeout (timeout / step)
    MaxMessages,    \* bound: messages of the websockets
    MaxCalls        \* bound: requests

Kinds == {"routes", "services", "configmaps"}

\* An update; text that is no JSON; an object without a known namespace.
Message == {"update", "garbage", "nameless"}

ASSUME SyncCallAssumption ==
    /\ BusCap \in Nat \ {0} /\ Attempts \in Nat \ {0} /\ Polls \in Nat \ {0}
    /\ MaxMessages \in Nat /\ MaxCalls \in Nat

VARIABLES
    bus,            \* kind -> channel of updates
    syncer,         \* kind -> [pc, attempts, stamp] of syncingCacheInternal
    keeper,         \* kind -> time received, 0 if waiting for one
    now,            \* the clock, which ticks with every time taken
    lastUpdate,     \* lastCacheUpdateTime
    call,           \* call -> [pc, before, async, left, wait]
    messages, calls,
    panics,         \* history: kind -> panics since the last update
    past            \* history: call -> what happened in it, see NoPast

vars == <<bus, syncer, keeper, now, lastUpdate, call, messages, calls, panics,
          past>>

IdleCall == [pc |-> "idle", before |-> 0, async |-> TRUE, left |-> 0,
             wait |-> 0]
FreshSyncer == [pc |-> "take", attempts |-> Attempts, stamp |-> 0]

\* noted: a later time was stored during the call; missed: ... and the last
\* poll failed all the same; overtaken: an earlier time replaced a later one;
\* failed: a function failed.
NoPast == [answer |-> "none", noted |-> FALSE, missed |-> FALSE,
           overtaken |-> FALSE, failed |-> FALSE]

CallsUnchanged == UNCHANGED <<call, calls, past>>
CachesUnchanged == UNCHANGED <<bus, syncer, keeper, now, lastUpdate, messages,
                               panics>>

-----------------------------------------------------------------------------
(* The syncing goroutines                                                  *)

Receive(k) ==
    /\ messages < MaxMessages /\ Len(bus[k]) < BusCap
    /\ messages' = messages + 1
    /\ \E m \in Message : bus' = [bus EXCEPT ![k] = Append(@, m)]
    /\ UNCHANGED <<syncer, keeper, now, lastUpdate, panics>>
    /\ CallsUnchanged

\* updateConfigmapsCache goes on without the map it has not found, ...
Panics(k, m) == k = "configmaps" /\ m = "nameless"

\* ... updateRoutesCache and updateServicesCache log it and return.
Returns(k, m) == m = "update" \/ (m = "nameless" /\ k # "configmaps")

Take(k) ==
    /\ syncer[k].pc = "take" /\ bus[k] # <<>>
    /\ bus' = [bus EXCEPT ![k] = Tail(@)]
    /\ LET m == Head(bus[k]) IN
         \/ /\ m = "garbage"
            /\ UNCHANGED <<syncer, now, panics>>
         \/ /\ Panics(k, m)
            /\ syncer' = [syncer EXCEPT ![k].pc = "sleep"]
            /\ panics' = [panics EXCEPT ![k] = @ + 1]
            /\ UNCHANGED now
         \/ /\ Returns(k, m)
            /\ now' = now + 1
            /\ syncer' = [syncer EXCEPT ![k].pc = "stamp",
                                        ![k].stamp = now + 1]
            /\ UNCHANGED panics
    /\ UNCHANGED <<keeper, lastUpdate, messages>> /\ CallsUnchanged

\* Mutant: a success does not restore the attempts.
SendTimeOnly(k) ==
    /\ syncer[k].pc = "stamp" /\ keeper[k] = 0
    /\ keeper' = [keeper EXCEPT ![k] = syncer[k].stamp]
    /\ syncer' = [syncer EXCEPT ![k].pc = "take"]
    /\ panics' = [panics EXCEPT ![k] = 0]
    /\ UNCHANGED <<bus, now, lastUpdate, messages>> /\ CallsUnchanged

\* The keeper has taken the time, and all attempts are there again.
SendTime(k) ==
    /\ syncer[k].pc = "stamp" /\ keeper[k] = 0
    /\ keeper' = [keeper EXCEPT ![k] = syncer[k].stamp]
    /\ syncer' = [syncer EXCEPT ![k] = FreshSyncer]
    /\ panics' = [panics EXCEPT ![k] = 0]
    /\ UNCHANGED <<bus, now, lastUpdate, messages>> /\ CallsUnchanged

\* Mutant: one attempt too many.
WakeOnceMore(k) ==
    /\ syncer[k].pc = "sleep"
    /\ syncer' = [syncer EXCEPT ![k].pc = "take", ![k].attempts = @ - 1]
    /\ UNCHANGED <<bus, keeper, now, lastUpdate, messages, panics>>
    /\ CallsUnchanged

\* Two minutes after a panic.
Wake(k) ==
    /\ syncer[k].pc = "sleep" /\ syncer[k].attempts > 1
    /\ syncer' = [syncer EXCEPT ![k].pc = "take", ![k].attempts = @ - 1]
    /\ UNCHANGED <<bus, keeper, now, lastUpdate, messages, panics>>
    /\ CallsUnchanged

\* "Used all attempts to read channel": the process dies with all that is in
\* it, and is started again.
Die(k) ==
    /\ syncer[k].pc = "sleep" /\ syncer[k].attempts = 1
    /\ bus' = [j \in Kinds |-> <<>>]
    /\ syncer' = [j \in Kinds |-> FreshSyncer]
    /\ keeper' = [j \in Kinds |-> 0]
    /\ now' = now + 1 /\ lastUpdate' = now + 1
    /\ call' = [c \in Calls |-> IdleCall]
    /\ panics' = [j \in Kinds |-> 0]
    /\ past' = [c \in Calls |-> NoPast]
    /\ UNCHANGED <<messages, calls>>

\* Mutant: only the goroutine of the routes has its keeper.
KeepRoutesOnly(k) ==
    /\ k = "routes" /\ keeper[k] # 0
    /\ lastUpdate' = keeper[k]
    /\ keeper' = [keeper EXCEPT ![k] = 0]
    /\ past' = past
    /\ UNCHANGED <<bus, syncer, now, call, messages, calls, panics>>

\* keepActualLastUpdateTime; three of them, and nothing keeps them in order.
Keep(k) ==
    /\ keeper[k] # 0
    /\ lastUpdate' = keeper[k]
    /\ keeper' = [keeper EXCEPT ![k] = 0]
    /\ past' = [c \in Calls |->
         IF call[c].pc = "idle" THEN past[c]
         ELSE [past[c] EXCEPT !.noted = @ \/ keeper[k] > lastUpdate,
                              !.overtaken = @ \/ keeper[k] < lastUpdate]]
    /\ UNCHANGED <<bus, syncer, now, call, messages, calls, panics>>

CacheStep(k) == Take(k) \/ SendTime(k) \/ Wake(k) \/ Die(k) \/ Keep(k)

-----------------------------------------------------------------------------
(* AwaitAction                                                             *)

Answer(c, answer, h) ==
    /\ call' = [call EXCEPT ![c] = IdleCall]
    /\ past' = [past EXCEPT ![c] = [h EXCEPT !.answer = answer]]

\* The time is read before the function runs; `left' functions are to run.
Await(c, async, left) ==
    /\ call[c].pc = "idle" /\ calls < MaxCalls
    /\ calls' = calls + 1
    /\ call' = [call EXCEPT ![c] = [pc |-> "run", before |-> lastUpdate,
                                    async |-> async, left |-> left, wait |-> 0]]
    /\ past' = [past EXCEPT ![c] = NoPast]
    /\ CachesUnchanged

\* Mutant: the time is read after the function.
RunThenRead(c) ==
    /\ call[c].pc = "run"
    /\ \E failed \in BOOLEAN :
         LET h == [past[c] EXCEPT !.failed = @ \/ failed] IN
         IF ~call[c].async
         THEN /\ call' = [call EXCEPT ![c].pc = "poll", ![c].before = lastUpdate]
              /\ past' = [past EXCEPT ![c] = h]
         ELSE Answer(c, IF failed THEN "error" ELSE "done", h)
    /\ UNCHANGED calls /\ CachesUnchanged

\* The function; a handler with two of them runs the second only if the first
\* has not failed.
Run(c) ==
    /\ call[c].pc = "run"
    /\ \E failed \in BOOLEAN :
         LET h == [past[c] EXCEPT !.failed = @ \/ failed] IN
         CASE ~call[c].async ->
                /\ call' = [call EXCEPT ![c].pc = "poll"]
                /\ past' = [past EXCEPT ![c] = h]
           [] call[c].async /\ ~failed /\ call[c].left > 1 ->
                /\ call' = [call EXCEPT ![c].left = @ - 1]
                /\ past' = [past EXCEPT ![c] = h]
           [] OTHER -> Answer(c, IF failed THEN "error" ELSE "done", h)
    /\ UNCHANGED calls /\ CachesUnchanged

\* Mutant: the result of the function is forgotten.
PollSucceeds(c) ==
    /\ call[c].pc = "poll" /\ call[c].wait < Polls
    /\ IF lastUpdate > call[c].before
       THEN Answer(c, "done", past[c])
       ELSE /\ call' = [call EXCEPT ![c].wait = @ + 1]
            /\ past' = [past EXCEPT ![c].missed = past[c].noted]
    /\ UNCHANGED calls /\ CachesUnchanged

\* Any later time will do, whichever cache and whoever it is about.
Poll(c) ==
    /\ call[c].pc = "poll" /\ call[c].wait < Polls
    /\ IF lastUpdate > call[c].before
       THEN Answer(c, IF past[c].failed THEN "error" ELSE "done", past[c])
       ELSE /\ call' = [call EXCEPT ![c].wait = @ + 1]
            /\ past' = [past EXCEPT ![c].missed = past[c].noted]
    /\ UNCHANGED calls /\ CachesUnchanged

\* Mutant: the waiting does not end.
TimeOutNever(c) == FALSE /\ UNCHANGED vars

\* An error, whatever the function has returned.
TimeOut(c) ==
    /\ call[c].pc = "poll" /\ call[c].wait = Polls
    /\ Answer(c, "timeout", past[c])
    /\ UNCHANGED calls /\ CachesUnchanged

CallStep(c) == Run(c) \/ Poll(c) \/ TimeOut(c)

-----------------------------------------------------------------------------
(* The handlers; `query' are the parameters given as "false".              *)

Query == SUBSET {"async", "protocol"}

\* POST and PUT /routes: a payload that cannot be decoded is answered at once.
Upsert(c) == \E query \in Query : Await(c, "async" \notin query, 1)

\* DELETE /routes/{tenantId}
Delete(c) == \E query \in Query : Await(c, "async" \notin query, 1)

\* POST /routes/{tenantId}/activate and /deactivate
ActivateTenant(c) == \E query \in Query : Await(c, "async" \notin query, 1)
DeactivateTenant(c) == \E query \in Query : Await(c, "async" \notin query, 1)

\* DELETE /tenants/{tenantId}: told by the parameter `protocol'.
DeleteTenant(c) == \E query \in Query : Await(c, "protocol" \notin query, 1)

\* POST /routes/{tenantId}/restore-tenant-alias, and
\* /activate/create-os-tenant-alias-routes/perform/{tenantId}: never wait; an
\* empty scheme is written first.
RestoreTenantAlias(c) == \E left \in 1..2 : Await(c, TRUE, left)
CreateTenantRoute(c) == \E left \in 1..2 : Await(c, TRUE, left)

Handle(c) ==
    \/ Upsert(c) \/ Delete(c) \/ ActivateTenant(c) \/ DeactivateTenant(c)
    \/ DeleteTenant(c) \/ RestoreTenantAlias(c) \/ CreateTenantRoute(c)

Init ==
    /\ bus = [k \in Kinds |-> <<>>]
    /\ syncer = [k \in Kinds |-> FreshSyncer]
    /\ keeper = [k \in Kinds |-> 0]
    /\ now = 1 /\ lastUpdate = 1
    /\ call = [c \in Calls |-> IdleCall]
    /\ messages = 0 /\ calls = 0
    /\ panics = [k \in Kinds |-> 0]
    /\ past = [c \in Calls |-> NoPast]

Next ==
    \/ \E k \in Kinds : Receive(k) \/ CacheStep(k)
    \/ \E c \in Calls : Handle(c) \/ CallStep(c)

\* Goroutines are scheduled and sleeps end.
Spec ==
    /\ Init /\ [][Next]_vars
    /\ \A k \in Kinds : WF_vars(Take(k) \/ SendTime(k) \/ Wake(k) \/ Die(k))
    /\ \A k \in Kinds : WF_vars(Keep(k))
    /\ \A c \in Calls : WF_vars(CallStep(c))

-----------------------------------------------------------------------------
(* Properties                                                              *)

\* The types; the noted time is never ahead of the clock, and no channel holds
\* more than its capacity.
TypeOK ==
    /\ bus \in [Kinds -> Seq(Message)] /\ \A k \in Kinds : Len(bus[k]) <= BusCap
    /\ now \in Nat \ {0}
    /\ syncer \in [Kinds -> [pc : {"take", "stamp", "sleep"},
                             attempts : 1..Attempts, stamp : 0..now]]
    /\ keeper \in [Kinds -> 0..now] /\ lastUpdate \in 1..now
    /\ call \in [Calls -> [pc : {"idle", "run", "poll"}, before : 0..now,
                           async : BOOLEAN, left : 0..2, wait : 0..Polls]]
    /\ messages \in 0..MaxMessages /\ calls \in 0..MaxCalls
    /\ panics \in [Kinds -> Nat]
    /\ past \in [Calls -> [answer : {"none", "done", "error", "timeout"},
                           noted : BOOLEAN, missed : BOOLEAN,
                           overtaken : BOOLEAN, failed : BOOLEAN]]

\* A call is told that it took too long only if until its last poll no update
\* of a cache was noted that had not been noted when it began; an update of its
\* own doing, however quick, is not overlooked.  The excuse is a keeper that
\* stores its time late, over the later one of another keeper.
TimeoutOnlyIfUnnoted ==
    \A c \in Calls : past[c].answer = "timeout"
                        => ~past[c].missed \/ past[c].overtaken

\* A call is answered as done only if all its functions have succeeded.
DoneOnlyIfDone ==
    \A c \in Calls : past[c].answer = "done" => ~past[c].failed

\* Only as many panics in a row as there are attempts end the process.
SurvivesPanics ==
    [][\A k \in Kinds : Die(k) => panics[k] >= Attempts]_vars

\* Every request is answered (or its process dies under it).
EventuallyAnswered == \A c \in Calls : call[c].pc # "idle" ~> call[c].pc = "idle"

\* What a websocket has delivered is processed and its time noted: no cache
\* stops, because of another one, of a message, or of its own keeper.
EventuallyProcessed ==
    \A k \in Kinds :
        bus[k] # <<>> \/ syncer[k].pc = "stamp" \/ keeper[k] # 0
          ~> bus[k] = <<>> /\ syncer[k].pc = "take" /\ keeper[k] = 0
===============================================================================
