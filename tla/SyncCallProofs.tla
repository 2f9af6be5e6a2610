---------------------------- MODULE SyncCallProofs ----------------------------
(* Theorems about SyncCall, for every number of calls, every capacity, every *)
(* number of attempts and polls, and every bound.                            *)
EXTENDS SyncCall, SequenceTheorems, TLAPS

-----------------------------------------------------------------------------
(* Types                                                                   *)

SyncerAt(n) == [pc : {"take", "stamp", "sleep"}, attempts : 1..Attempts,
                stamp : 0..n]
CallAt(n) == [pc : {"idle", "run", "poll"}, before : 0..n, async : BOOLEAN,
              left : 0..2, wait : 0..Polls]
Answers == {"none", "done", "error", "timeout"}
Past == [answer : Answers, noted : BOOLEAN, missed : BOOLEAN,
         overtaken : BOOLEAN, failed : BOOLEAN]

\* A count within its bound, one up.
LEMMA CountType ==
    ASSUME NEW max \in Nat, NEW n \in 0..max, n < max
    PROVE  n + 1 \in 0..max
  OBVIOUS

\* What is typed by an earlier time is typed by a later one.
LEMMA Later ==
    ASSUME NEW n \in Nat, NEW m \in Nat, n <= m
    PROVE  /\ \A q \in SyncerAt(n) : q \in SyncerAt(m)
           /\ \A q \in CallAt(n) : q \in CallAt(m)
           /\ 0..n \subseteq 0..m
  BY DEF SyncerAt, CallAt

LEMMA FreshTypes ==
    ASSUME NEW n \in Nat
    PROVE  FreshSyncer \in SyncerAt(n) /\ IdleCall \in CallAt(n) /\ NoPast \in Past
  BY SyncCallAssumption
     DEF FreshSyncer, IdleCall, NoPast, SyncerAt, CallAt, Past, Answers

\* A channel when an update is taken from it.
LEMMA TailType ==
    ASSUME TypeOK, NEW k \in Kinds, bus[k] # <<>>,
           bus' = [bus EXCEPT ![k] = Tail(@)]
    PROVE  /\ bus' \in [Kinds -> Seq(Message)]
           /\ \A j \in Kinds : Len(bus'[j]) <= BusCap
<1>1. bus \in [Kinds -> Seq(Message)] /\ \A j \in Kinds : Len(bus[j]) <= BusCap
  BY DEF TypeOK
<1>2. Tail(bus[k]) \in Seq(Message) /\ Len(Tail(bus[k])) = Len(bus[k]) - 1
  BY <1>1, HeadTailProperties
<1>3. Len(bus[k]) \in Nat
  BY <1>1, LenProperties
<1>4. BusCap \in Nat
  BY SyncCallAssumption
<1> QED
  BY <1>1, <1>2, <1>3, <1>4

\* The goroutines of the caches, all but the keepers.
LEMMA SyncerTypes ==
    ASSUME TypeOK, NEW k \in Kinds,
           Receive(k) \/ Take(k) \/ SendTime(k) \/ Wake(k)
    PROVE  TypeOK'
<1>0. /\ syncer \in [Kinds -> SyncerAt(now)] /\ now \in Nat
      /\ syncer[k] \in SyncerAt(now)
  BY DEF TypeOK, SyncerAt
<1>1. CASE Receive(k)
  <2>1. PICK m \in Message : bus' = [bus EXCEPT ![k] = Append(@, m)]
    BY <1>1 DEF Receive
  <2>2. bus \in [Kinds -> Seq(Message)] /\ \A j \in Kinds : Len(bus[j]) <= BusCap
    BY DEF TypeOK
  <2>3. /\ Append(bus[k], m) \in Seq(Message)
        /\ Len(Append(bus[k], m)) = Len(bus[k]) + 1
    BY <2>2, AppendProperties
  <2>4. Len(bus[k]) \in Nat /\ Len(bus[k]) < BusCap /\ BusCap \in Nat
    BY <1>1, <2>2, LenProperties, SyncCallAssumption DEF Receive
  <2>5. /\ bus' \in [Kinds -> Seq(Message)]
        /\ \A j \in Kinds : Len(bus'[j]) <= BusCap
    BY <2>1, <2>2, <2>3, <2>4
  <2>6. messages' \in 0..MaxMessages
    BY <1>1, CountType, SyncCallAssumption DEF Receive, TypeOK
  <2> QED
    BY <1>1, <2>5, <2>6 DEF Receive, CallsUnchanged, TypeOK
<1>2. CASE Take(k)
  <2>1. /\ bus' \in [Kinds -> Seq(Message)]
        /\ \A j \in Kinds : Len(bus'[j]) <= BusCap
    BY <1>2, TailType DEF Take
  <2>2. UNCHANGED <<keeper, lastUpdate, messages, call, calls, past>>
    BY <1>2 DEF Take, CallsUnchanged
  <2>3. CASE UNCHANGED <<syncer, now, panics>>
    BY <2>1, <2>2, <2>3 DEF TypeOK
  <2>4. CASE /\ syncer' = [syncer EXCEPT ![k].pc = "sleep"]
             /\ panics' = [panics EXCEPT ![k] = @ + 1] /\ UNCHANGED now
    <3>1. syncer' \in [Kinds -> SyncerAt(now)]
      BY <1>0, <2>4 DEF SyncerAt
    <3>2. panics' \in [Kinds -> Nat]
      BY <2>4 DEF TypeOK
    <3> QED
      BY <2>1, <2>2, <2>4, <3>1, <3>2 DEF TypeOK, SyncerAt
  <2>5. CASE /\ now' = now + 1 /\ UNCHANGED panics
             /\ syncer' = [syncer EXCEPT ![k].pc = "stamp", ![k].stamp = now + 1]
    <3>1. now' \in Nat \ {0} /\ now <= now'
      BY <1>0, <2>5
    <3>2. syncer \in [Kinds -> SyncerAt(now')]
      BY <1>0, <3>1, Later
    <3>3. syncer' \in [Kinds -> SyncerAt(now')]
      <4>1. [syncer[k] EXCEPT !.pc = "stamp", !.stamp = now + 1]
              \in SyncerAt(now')
        BY <1>0, <2>5, <3>1, <3>2 DEF SyncerAt
      <4> QED
        BY <2>5, <3>2, <4>1
    <3>4. call \in [Calls -> CallAt(now)] /\ keeper \in [Kinds -> 0..now]
      BY DEF TypeOK, CallAt
    <3>5. call \in [Calls -> CallAt(now')] /\ keeper \in [Kinds -> 0..now']
      BY <1>0, <3>1, <3>4, Later
    <3>6. lastUpdate \in 1..now'
      BY <1>0, <3>1 DEF TypeOK
    <3> QED
      BY <2>1, <2>2, <2>5, <3>1, <3>3, <3>5, <3>6 DEF TypeOK, SyncerAt, CallAt
  <2> QED
    BY <1>2, <2>3, <2>4, <2>5 DEF Take
<1>3. CASE SendTime(k)
  <2>1. syncer' \in [Kinds -> SyncerAt(now)]
    BY <1>0, <1>3, FreshTypes DEF SendTime
  <2>2. keeper' \in [Kinds -> 0..now] /\ panics' \in [Kinds -> Nat]
    BY <1>0, <1>3 DEF SendTime, SyncerAt, TypeOK
  <2> QED
    BY <1>3, <2>1, <2>2 DEF SendTime, CallsUnchanged, TypeOK, SyncerAt
<1>4. CASE Wake(k)
  <2>1. syncer' \in [Kinds -> SyncerAt(now)]
    BY <1>0, <1>4, SyncCallAssumption DEF Wake, SyncerAt
  <2> QED
    BY <1>4, <2>1 DEF Wake, CallsUnchanged, TypeOK, SyncerAt
<1> QED
  BY <1>1, <1>2, <1>3, <1>4

\* The end of the process, and the keepers.
LEMMA KeeperTypes ==
    ASSUME TypeOK, NEW k \in Kinds, Die(k) \/ Keep(k)
    PROVE  TypeOK'
<1>1. CASE Die(k)
  <2>1. now' \in Nat \ {0} /\ lastUpdate' \in 1..now' /\ now' \in Nat
    BY <1>1 DEF Die, TypeOK
  <2>2. /\ syncer' \in [Kinds -> SyncerAt(now')]
        /\ call' \in [Calls -> CallAt(now')] /\ past' \in [Calls -> Past]
    BY <1>1, <2>1, FreshTypes DEF Die
  <2>3. /\ bus' \in [Kinds -> Seq(Message)]
        /\ \A j \in Kinds : Len(bus'[j]) <= BusCap
    BY <1>1, EmptySeq, SyncCallAssumption DEF Die
  <2>4. keeper' \in [Kinds -> 0..now'] /\ panics' \in [Kinds -> Nat]
    BY <1>1, <2>1 DEF Die
  <2> QED
    BY <1>1, <2>1, <2>2, <2>3, <2>4 DEF Die, TypeOK, SyncerAt, CallAt, Past, Answers
<1>2. CASE Keep(k)
  <2>1. now \in Nat /\ keeper \in [Kinds -> 0..now] /\ past \in [Calls -> Past]
    BY DEF TypeOK, Past, Answers
  <2>0. /\ keeper[k] # 0 /\ lastUpdate' = keeper[k]
        /\ keeper' = [keeper EXCEPT ![k] = 0]
    BY <1>2 DEF Keep
  <2>2. lastUpdate' \in 1..now
    BY <2>0, <2>1
  <2>3. keeper' \in [Kinds -> 0..now]
    BY <2>0, <2>1
  <2>4. past' \in [Calls -> Past]
    BY <1>2, <2>1 DEF Keep, Past, Answers
  <2> QED
    BY <1>2, <2>2, <2>3, <2>4 DEF Keep, TypeOK, Past, Answers
<1> QED
  BY <1>1, <1>2

\* What Answer leaves behind.
LEMMA AnswerType ==
    ASSUME TypeOK, NEW c \in Calls, NEW h \in Past,
           NEW answer \in Answers,
           Answer(c, answer, h), UNCHANGED calls, CachesUnchanged
    PROVE  /\ TypeOK'
           /\ call'[c] = IdleCall /\ past'[c] = [h EXCEPT !.answer = answer]
           /\ \A d \in Calls \ {c} : call'[d] = call[d] /\ past'[d] = past[d]
<1>1. /\ call \in [Calls -> CallAt(now)] /\ past \in [Calls -> Past]
      /\ now \in Nat
  BY DEF TypeOK, CallAt, Past, Answers
<1>2. [h EXCEPT !.answer = answer] \in Past /\ IdleCall \in CallAt(now)
  BY <1>1, FreshTypes DEF Past, Answers
<1>3. /\ call' \in [Calls -> CallAt(now)] /\ past' \in [Calls -> Past]
      /\ call'[c] = IdleCall /\ past'[c] = [h EXCEPT !.answer = answer]
      /\ \A d \in Calls \ {c} : call'[d] = call[d] /\ past'[d] = past[d]
  BY <1>1, <1>2 DEF Answer
<1> QED
  BY <1>3 DEF CachesUnchanged, TypeOK, CallAt, Past, Answers
\* A call that goes on, from q to what p tells of it.
LEMMA GoOnType ==
    ASSUME TypeOK, NEW c \in Calls, NEW q \in CallAt(now), NEW h \in Past,
           call' = [call EXCEPT ![c] = q], past' = [past EXCEPT ![c] = h],
           calls' \in 0..MaxCalls, CachesUnchanged
    PROVE  /\ TypeOK'
           /\ call'[c] = q /\ past'[c] = h
           /\ \A d \in Calls \ {c} : call'[d] = call[d] /\ past'[d] = past[d]
<1>1. call \in [Calls -> CallAt(now)] /\ past \in [Calls -> Past]
  BY DEF TypeOK, CallAt, Past, Answers
<1>2. /\ call' \in [Calls -> CallAt(now)] /\ past' \in [Calls -> Past]
      /\ call'[c] = q /\ past'[c] = h
      /\ \A d \in Calls \ {c} : call'[d] = call[d] /\ past'[d] = past[d]
  BY <1>1
<1> QED
  BY <1>2 DEF CachesUnchanged, TypeOK, CallAt, Past, Answers

\* Everything a step of a call may do to it and to its past.
Started(c) ==
    /\ call[c].pc = "idle"
    /\ call'[c].pc = "run" /\ call'[c].before = lastUpdate
    /\ past'[c] = NoPast

RanOn(c) ==
    /\ call[c].pc = "run" /\ call'[c].pc \in {"run", "poll"}
    /\ call'[c].before = call[c].before
    /\ \E failed \in BOOLEAN :
         /\ past'[c] = [past[c] EXCEPT !.failed = @ \/ failed]
         /\ call'[c].pc = "run" => ~failed

RanOut(c) ==
    /\ call[c].pc = "run" /\ call'[c] = IdleCall
    /\ \E failed \in BOOLEAN :
         past'[c] = [past[c] EXCEPT !.failed = @ \/ failed,
                        !.answer = IF failed THEN "error" ELSE "done"]

Waited(c) ==
    /\ call[c].pc = "poll" /\ ~(lastUpdate > call[c].before)
    /\ call'[c].pc = "poll" /\ call'[c].before = call[c].before
    /\ past'[c] = [past[c] EXCEPT !.missed = past[c].noted]

Told(c) ==
    /\ call[c].pc = "poll" /\ call'[c] = IdleCall
    /\ \E answer \in {"error", "done", "timeout"} :
         /\ past'[c] = [past[c] EXCEPT !.answer = answer]
         /\ answer = "done" => ~past[c].failed

Moved(c) ==
    /\ Started(c) \/ RanOn(c) \/ RanOut(c) \/ Waited(c) \/ Told(c)
    /\ \A d \in Calls \ {c} : call'[d] = call[d] /\ past'[d] = past[d]

LEMMA AwaitMoves ==
    ASSUME TypeOK, NEW c \in Calls, NEW async \in BOOLEAN, NEW left \in 0..2,
           Await(c, async, left)
    PROVE  TypeOK' /\ CachesUnchanged /\ Moved(c)
<1> DEFINE q == [pc |-> "run", before |-> lastUpdate, async |-> async,
                 left |-> left, wait |-> 0]
<1>1. /\ call[c].pc = "idle" /\ CachesUnchanged
      /\ call' = [call EXCEPT ![c] = q] /\ past' = [past EXCEPT ![c] = NoPast]
  BY DEF Await
<1>2. calls' \in 0..MaxCalls
  BY CountType, SyncCallAssumption DEF Await, TypeOK
<1>3. q \in CallAt(now) /\ NoPast \in Past
  BY FreshTypes, SyncCallAssumption DEF TypeOK, CallAt
<1>4. q.pc = "run" /\ q.before = lastUpdate
  OBVIOUS
<1> HIDE DEF q
<1> QED
  BY <1>1, <1>2, <1>3, <1>4, GoOnType DEF Moved, Started

LEMMA HandleMoves ==
    ASSUME TypeOK, NEW c \in Calls, Handle(c)
    PROVE  TypeOK' /\ CachesUnchanged /\ Moved(c)
<1>1. \E async \in BOOLEAN, left \in 0..2 : Await(c, async, left)
  <2>1. 1..2 \subseteq 0..2 /\ 1 \in 0..2
    OBVIOUS
  <2> QED
    BY <2>1 DEF Handle, Upsert, Delete, ActivateTenant, DeactivateTenant,
                DeleteTenant, RestoreTenantAlias, CreateTenantRoute
<1> QED
  BY <1>1, AwaitMoves

LEMMA RunMoves ==
    ASSUME TypeOK, NEW c \in Calls, Run(c)
    PROVE  TypeOK' /\ CachesUnchanged /\ Moved(c)
<1>1. PICK failed \in BOOLEAN :
        LET h == [past[c] EXCEPT !.failed = @ \/ failed] IN
        \/ /\ call' = [call EXCEPT ![c].pc = "poll"]
           /\ past' = [past EXCEPT ![c] = h]
        \/ /\ ~failed /\ call[c].left > 1
           /\ call' = [call EXCEPT ![c].left = @ - 1]
           /\ past' = [past EXCEPT ![c] = h]
        \/ Answer(c, IF failed THEN "error" ELSE "done", h)
  BY DEF Run
<1> DEFINE h == [past[c] EXCEPT !.failed = @ \/ failed]
<1>2. call[c].pc = "run" /\ UNCHANGED calls /\ CachesUnchanged
  BY DEF Run
<1>3. /\ call \in [Calls -> CallAt(now)] /\ call[c] \in CallAt(now)
      /\ past[c] \in Past /\ calls' \in 0..MaxCalls
  BY <1>2 DEF TypeOK, CallAt, Past, Answers
<1>4. h \in Past
  BY <1>3 DEF Past, Answers
<1>8. h = [past[c] EXCEPT !.failed = @ \/ failed]
  OBVIOUS
<1>5. CASE /\ call' = [call EXCEPT ![c].pc = "poll"]
           /\ past' = [past EXCEPT ![c] = h]
  <2> DEFINE q == [call[c] EXCEPT !.pc = "poll"]
  <2>1. /\ q \in CallAt(now) /\ q.pc = "poll" /\ q.before = call[c].before
        /\ call' = [call EXCEPT ![c] = q]
    BY <1>3, <1>5 DEF CallAt
  <2>a. past' = [past EXCEPT ![c] = h] /\ calls' \in 0..MaxCalls
    BY <1>3, <1>5
  <2> HIDE DEF h, q
  <2>2. /\ TypeOK' /\ call'[c] = q /\ past'[c] = h
        /\ \A d \in Calls \ {c} : call'[d] = call[d] /\ past'[d] = past[d]
    BY <1>2, <1>4, <2>1, <2>a, GoOnType
  <2>3. RanOn(c)
    BY <1>2, <1>8, <2>1, <2>2 DEF RanOn
  <2> QED
    BY <1>2, <2>2, <2>3 DEF Moved
<1>6. CASE /\ ~failed /\ call[c].left > 1
           /\ call' = [call EXCEPT ![c].left = @ - 1]
           /\ past' = [past EXCEPT ![c] = h]
  <2> DEFINE q == [call[c] EXCEPT !.left = @ - 1]
  <2>1. /\ q \in CallAt(now) /\ q.pc = "run" /\ q.before = call[c].before
        /\ call' = [call EXCEPT ![c] = q]
    BY <1>2, <1>3, <1>6 DEF CallAt
  <2>a. past' = [past EXCEPT ![c] = h] /\ calls' \in 0..MaxCalls
    BY <1>3, <1>6
  <2> HIDE DEF h, q
  <2>2. /\ TypeOK' /\ call'[c] = q /\ past'[c] = h
        /\ \A d \in Calls \ {c} : call'[d] = call[d] /\ past'[d] = past[d]
    BY <1>2, <1>4, <2>1, <2>a, GoOnType
  <2>3. RanOn(c)
    BY <1>2, <1>6, <1>8, <2>1, <2>2 DEF RanOn
  <2> QED
    BY <1>2, <2>2, <2>3 DEF Moved
<1>7. CASE Answer(c, IF failed THEN "error" ELSE "done", h)
  <2>1. (IF failed THEN "error" ELSE "done") \in Answers
    BY DEF Answers
  <2>2. [h EXCEPT !.answer = IF failed THEN "error" ELSE "done"]
          = [past[c] EXCEPT !.failed = @ \/ failed,
                            !.answer = IF failed THEN "error" ELSE "done"]
    BY <1>3 DEF Past, Answers
  <2> HIDE DEF h
  <2>3. /\ TypeOK' /\ call'[c] = IdleCall
        /\ past'[c] = [h EXCEPT !.answer = IF failed THEN "error" ELSE "done"]
        /\ \A d \in Calls \ {c} : call'[d] = call[d] /\ past'[d] = past[d]
    BY <1>2, <1>4, <1>7, <2>1, AnswerType
  <2>4. RanOut(c)
    BY <1>2, <2>2, <2>3 DEF RanOut
  <2> QED
    BY <1>2, <2>3, <2>4 DEF Moved
<1> QED
  BY <1>1, <1>5, <1>6, <1>7

LEMMA PollMoves ==
    ASSUME TypeOK, NEW c \in Calls, Poll(c) \/ TimeOut(c)
    PROVE  TypeOK' /\ CachesUnchanged /\ Moved(c)
<1>1. call[c].pc = "poll" /\ UNCHANGED calls /\ CachesUnchanged
  BY DEF Poll, TimeOut
<1>2. /\ call \in [Calls -> CallAt(now)] /\ call[c] \in CallAt(now)
      /\ past \in [Calls -> Past] /\ past[c] \in Past
      /\ calls' \in 0..MaxCalls
  BY <1>1 DEF TypeOK, CallAt, Past, Answers
<1>3. ASSUME NEW answer \in {"error", "done", "timeout"},
             Answer(c, answer, past[c]), answer = "done" => ~past[c].failed
      PROVE  TypeOK' /\ CachesUnchanged /\ Moved(c)
  <2> DEFINE h == past[c]
  <2>0. answer \in Answers /\ Answer(c, answer, h) /\ h \in Past
    BY <1>2, <1>3 DEF Answers
  <2> HIDE DEF h
  <2>1. /\ TypeOK' /\ call'[c] = IdleCall
        /\ past'[c] = [h EXCEPT !.answer = answer]
        /\ \A d \in Calls \ {c} : call'[d] = call[d] /\ past'[d] = past[d]
    BY <1>1, <2>0, AnswerType
  <2>2. Told(c)
    BY <1>1, <1>3, <2>1 DEF Told, h
  <2> QED
    BY <1>1, <2>1, <2>2 DEF Moved
<1>4. CASE TimeOut(c)
  BY <1>3, <1>4 DEF TimeOut
<1>5. CASE Poll(c) /\ lastUpdate > call[c].before
  BY <1>3, <1>5 DEF Poll
<1>6. CASE Poll(c) /\ ~(lastUpdate > call[c].before)
  <2> DEFINE q == [call[c] EXCEPT !.wait = @ + 1]
             h == [past[c] EXCEPT !.missed = past[c].noted]
  <2>1. /\ call[c].wait < Polls
        /\ call' = [call EXCEPT ![c].wait = @ + 1]
        /\ past' = [past EXCEPT ![c].missed = past[c].noted]
    BY <1>6 DEF Poll
  <2>2. call[c].wait + 1 \in 0..Polls
    BY <1>2, <2>1, SyncCallAssumption DEF CallAt
  <2>3. /\ q \in CallAt(now) /\ q.pc = "poll" /\ q.before = call[c].before
        /\ call' = [call EXCEPT ![c] = q]
    BY <1>1, <1>2, <2>1, <2>2 DEF CallAt
  <2>4. h \in Past /\ past' = [past EXCEPT ![c] = h]
    BY <1>2, <2>1 DEF Past, Answers
  <2>5. h = [past[c] EXCEPT !.missed = past[c].noted]
    OBVIOUS
  <2> HIDE DEF h, q
  <2>6. /\ TypeOK' /\ call'[c] = q /\ past'[c] = h
        /\ \A d \in Calls \ {c} : call'[d] = call[d] /\ past'[d] = past[d]
    BY <1>1, <1>2, <2>3, <2>4, GoOnType
  <2>7. Waited(c)
    BY <1>1, <1>6, <2>3, <2>5, <2>6 DEF Waited
  <2> QED
    BY <1>1, <2>6, <2>7 DEF Moved
<1> QED
  BY <1>4, <1>5, <1>6

\* Every reachable state is well-typed: the time that is noted comes from the
\* clock, and no channel of updates holds more than its capacity.
THEOREM CallTypeCorrect == Spec => []TypeOK
<1>1. Init => TypeOK
  <2> SUFFICES ASSUME Init PROVE TypeOK
    OBVIOUS
  <2>1. now \in Nat \ {0} /\ lastUpdate \in 1..now /\ now \in Nat
    BY DEF Init
  <2>2. /\ syncer \in [Kinds -> SyncerAt(now)]
        /\ call \in [Calls -> CallAt(now)] /\ past \in [Calls -> Past]
    BY <2>1, FreshTypes DEF Init
  <2>3. /\ bus \in [Kinds -> Seq(Message)]
        /\ \A j \in Kinds : Len(bus[j]) <= BusCap
    BY EmptySeq, SyncCallAssumption DEF Init
  <2>4. /\ keeper \in [Kinds -> 0..now] /\ panics \in [Kinds -> Nat]
        /\ messages \in 0..MaxMessages /\ calls \in 0..MaxCalls
    BY <2>1, SyncCallAssumption DEF Init
  <2> QED
    BY <2>1, <2>2, <2>3, <2>4 DEF TypeOK, SyncerAt, CallAt, Past, Answers
<1>2. TypeOK /\ [Next]_vars => TypeOK'
  <2> SUFFICES ASSUME TypeOK, [Next]_vars PROVE TypeOK'
    OBVIOUS
  <2>1. ASSUME NEW k \in Kinds, Receive(k) \/ CacheStep(k) PROVE TypeOK'
    BY <2>1, SyncerTypes, KeeperTypes DEF CacheStep
  <2>2. ASSUME NEW c \in Calls, Handle(c) \/ CallStep(c) PROVE TypeOK'
    BY <2>2, HandleMoves, RunMoves, PollMoves DEF CallStep
  <2>3. CASE UNCHANGED vars
    BY <2>3 DEF vars, TypeOK
  <2> QED
    BY <2>1, <2>2, <2>3 DEF Next
<1> QED
  BY <1>1, <1>2, PTL DEF Spec


-----------------------------------------------------------------------------
(* What a call is told                                                     *)

\* A call that runs has not failed yet, and has no answer before it is over.
AnswerInv ==
    \A c \in Calls : /\ past[c].answer = "done" => ~past[c].failed
                     /\ call[c].pc # "idle" => past[c].answer = "none"
                     /\ call[c].pc = "run" => ~past[c].failed

\* While no keeper has stored an earlier time over a later one, the time has
\* not gone back, and is a later one as soon as a later one was stored.
TimeInv ==
    \A c \in Calls :
        /\ past[c].answer = "timeout" => ~past[c].missed \/ past[c].overtaken
        /\ call[c].pc # "idle" =>
             /\ past[c].missed => past[c].overtaken
             /\ past[c].overtaken \/ lastUpdate >= call[c].before
             /\ past[c].noted => past[c].overtaken
                                 \/ lastUpdate > call[c].before

\* What a call has been through and is told, as far as the caches are still.
LEMMA MovedInv ==
    ASSUME TypeOK, AnswerInv, TimeInv, NEW c \in Calls, Moved(c),
           CachesUnchanged
    PROVE  AnswerInv' /\ TimeInv'
<1>0. /\ past[c] \in Past /\ call[c] \in CallAt(now)
      /\ lastUpdate \in Int /\ call[c].before \in Int
      /\ UNCHANGED lastUpdate
  BY DEF TypeOK, Past, Answers, CallAt, CachesUnchanged
<1>1. /\ past[c].answer = "done" => ~past[c].failed
      /\ call[c].pc # "idle" => past[c].answer = "none"
      /\ call[c].pc = "run" => ~past[c].failed
      /\ past[c].answer = "timeout" => ~past[c].missed \/ past[c].overtaken
      /\ call[c].pc # "idle" =>
           /\ past[c].missed => past[c].overtaken
           /\ past[c].overtaken \/ lastUpdate >= call[c].before
           /\ past[c].noted => past[c].overtaken \/ lastUpdate > call[c].before
  BY DEF AnswerInv, TimeInv
<1>2. /\ past'[c].answer = "done" => ~past'[c].failed
      /\ call'[c].pc # "idle" => past'[c].answer = "none"
      /\ call'[c].pc = "run" => ~past'[c].failed
      /\ past'[c].answer = "timeout" => ~past'[c].missed \/ past'[c].overtaken
      /\ call'[c].pc # "idle" =>
           /\ past'[c].missed => past'[c].overtaken
           /\ past'[c].overtaken \/ lastUpdate >= call'[c].before
           /\ past'[c].noted => past'[c].overtaken
                                \/ lastUpdate > call'[c].before
  <2>1. CASE Started(c)
    BY <1>0, <2>1 DEF Started, NoPast
  <2>2. CASE RanOn(c)
    <3>1. /\ past'[c].answer = past[c].answer /\ past'[c].noted = past[c].noted
          /\ past'[c].missed = past[c].missed
          /\ past'[c].overtaken = past[c].overtaken
          /\ call'[c].pc = "run" => (past'[c].failed <=> past[c].failed)
      BY <1>0, <2>2 DEF RanOn, Past
    <3>2. /\ call[c].pc = "run" /\ call'[c].before = call[c].before
          /\ call'[c].pc # "idle"
      BY <2>2 DEF RanOn
    <3> QED
      BY <1>1, <3>1, <3>2
  <2>3. CASE RanOut(c)
    <3>1. /\ past'[c].answer \in {"done", "error"}
          /\ past'[c].answer = "done" => (past'[c].failed <=> past[c].failed)
      BY <1>0, <2>3 DEF RanOut, Past
    <3>2. call[c].pc = "run" /\ call'[c].pc = "idle"
      BY <2>3 DEF RanOut, IdleCall
    <3> QED
      BY <1>1, <3>1, <3>2
  <2>4. CASE Waited(c)
    <3>1. /\ past'[c].answer = past[c].answer /\ past'[c].noted = past[c].noted
          /\ past'[c].failed = past[c].failed
          /\ past'[c].missed = past[c].noted
          /\ past'[c].overtaken = past[c].overtaken
      BY <1>0, <2>4 DEF Waited, Past
    <3>2. /\ call[c].pc = "poll" /\ call'[c].before = call[c].before
          /\ call'[c].pc = "poll" /\ ~(lastUpdate > call[c].before)
      BY <2>4 DEF Waited
    <3> QED
      BY <1>1, <3>1, <3>2
  <2>5. CASE Told(c)
    <3>1. /\ past'[c].missed = past[c].missed
          /\ past'[c].overtaken = past[c].overtaken
          /\ past'[c].failed = past[c].failed
          /\ past'[c].answer = "done" => ~past[c].failed
      BY <1>0, <2>5 DEF Told, Past
    <3>2. call[c].pc = "poll" /\ call'[c].pc = "idle"
      BY <2>5 DEF Told, IdleCall
    <3> QED
      BY <1>1, <3>1, <3>2
  <2> QED
    BY <2>1, <2>2, <2>3, <2>4, <2>5 DEF Moved
<1>3. \A d \in Calls \ {c} : call'[d] = call[d] /\ past'[d] = past[d]
  BY DEF Moved
<1>4. AnswerInv'
  BY <1>2, <1>3 DEF AnswerInv
<1>5. TimeInv'
  BY <1>0, <1>2, <1>3 DEF TimeInv
<1> QED
  BY <1>4, <1>5

\* A keeper that stores its time, seen by the calls under way.
LEMMA KeepInv ==
    ASSUME TypeOK, AnswerInv, TimeInv, NEW k \in Kinds, Keep(k)
    PROVE  AnswerInv' /\ TimeInv'
<1>1. /\ UNCHANGED call /\ lastUpdate' = keeper[k]
      /\ lastUpdate \in Int /\ keeper[k] \in Int
  <2>1. UNCHANGED call /\ lastUpdate' = keeper[k]
    BY DEF Keep
  <2>2. /\ lastUpdate \in 1..now /\ keeper \in [Kinds -> 0..now]
        /\ now \in Nat
    BY DEF TypeOK
  <2> QED
    BY <2>1, <2>2
<1>2. ASSUME NEW c \in Calls
      PROVE  /\ past'[c].answer = past[c].answer
             /\ past'[c].missed = past[c].missed
             /\ past'[c].failed = past[c].failed
             /\ past[c].overtaken => past'[c].overtaken
             /\ call[c].pc = "idle" => past'[c] = past[c]
             /\ call[c].pc # "idle" =>
                  /\ past'[c].noted => past[c].noted \/ keeper[k] > lastUpdate
                  /\ keeper[k] < lastUpdate => past'[c].overtaken
  <2>1. past[c] \in Past
    BY DEF TypeOK, Past, Answers
  <2>2. CASE call[c].pc = "idle"
    BY <2>2 DEF Keep
  <2>3. CASE call[c].pc # "idle"
    <3>1. past'[c] = [past[c] EXCEPT
                        !.noted = @ \/ keeper[k] > lastUpdate,
                        !.overtaken = @ \/ keeper[k] < lastUpdate]
      BY <2>3 DEF Keep
    <3> QED
      BY <2>1, <2>3, <3>1 DEF Past
  <2> QED
    BY <2>2, <2>3
<1>3. AnswerInv'
  BY <1>1, <1>2 DEF AnswerInv
<1>4. ASSUME NEW c \in Calls, call[c].pc # "idle"
      PROVE  /\ past'[c].missed => past'[c].overtaken
             /\ past'[c].overtaken \/ keeper[k] >= call[c].before
             /\ past'[c].noted => past'[c].overtaken
                                  \/ keeper[k] > call[c].before
  <2>1. call[c].before \in Int
    BY DEF TypeOK
  <2>2. /\ past[c].missed => past[c].overtaken
        /\ past[c].overtaken \/ lastUpdate >= call[c].before
        /\ past[c].noted => past[c].overtaken \/ lastUpdate > call[c].before
    BY <1>4 DEF TimeInv
  <2> QED
    BY <1>1, <1>2, <1>4, <2>1, <2>2
<1>5. TimeInv'
  BY <1>1, <1>2, <1>4 DEF TimeInv
<1> QED
  BY <1>3, <1>5

LEMMA CallInvariant == Spec => [](AnswerInv /\ TimeInv)
<1>1. Init => AnswerInv /\ TimeInv
  BY DEF Init, AnswerInv, TimeInv, IdleCall, NoPast
<1>2. TypeOK /\ AnswerInv /\ TimeInv /\ [Next]_vars => AnswerInv' /\ TimeInv'
  <2> SUFFICES ASSUME TypeOK, AnswerInv, TimeInv, [Next]_vars
               PROVE  AnswerInv' /\ TimeInv'
    OBVIOUS
  <2>1. ASSUME NEW c \in Calls, Handle(c) \/ CallStep(c)
        PROVE  AnswerInv' /\ TimeInv'
    BY <2>1, HandleMoves, RunMoves, PollMoves, MovedInv DEF CallStep
  <2>2. ASSUME UNCHANGED <<lastUpdate, call, past>>
        PROVE  AnswerInv' /\ TimeInv'
    BY <2>2 DEF AnswerInv, TimeInv
  <2>3. ASSUME NEW k \in Kinds, Receive(k) \/ Take(k) \/ SendTime(k) \/ Wake(k)
        PROVE  AnswerInv' /\ TimeInv'
    BY <2>2, <2>3 DEF Receive, Take, SendTime, Wake, CallsUnchanged
  <2>4. ASSUME NEW k \in Kinds, Die(k)
        PROVE  AnswerInv' /\ TimeInv'
    BY <2>4 DEF Die, AnswerInv, TimeInv, IdleCall, NoPast
  <2>5. ASSUME NEW k \in Kinds, Keep(k)
        PROVE  AnswerInv' /\ TimeInv'
    BY <2>5, KeepInv
  <2>6. CASE UNCHANGED vars
    BY <2>2, <2>6 DEF vars
  <2> QED
    BY <2>1, <2>3, <2>4, <2>5, <2>6 DEF Next, CacheStep
<1> QED
  BY <1>1, <1>2, CallTypeCorrect, PTL DEF Spec

\* A call is answered as done only if none of its functions has failed, however
\* often it polls, whatever it waits for, and though the wait and the result of
\* the function are looked at apart.
THEOREM DoneIsDone == Spec => []DoneOnlyIfDone
<1>1. AnswerInv => DoneOnlyIfDone
  BY DEF AnswerInv, DoneOnlyIfDone
<1> QED
  BY <1>1, CallInvariant, PTL

\* No call runs into its timeout although a later time than the one it began
\* with was noted before its last poll, unless the keeper of one cache has stored
\* its time over the later one of another.
THEOREM TimeoutIsUnnoted == Spec => []TimeoutOnlyIfUnnoted
<1>1. TimeInv => TimeoutOnlyIfUnnoted
  BY DEF TimeInv, TimeoutOnlyIfUnnoted
<1> QED
  BY <1>1, CallInvariant, PTL

-----------------------------------------------------------------------------
(* Panics                                                                  *)

\* The attempts that are gone and the panics since the last update are one, but
\* for the panic a syncing goroutine is still sleeping over.
PanicInv ==
    \A k \in Kinds :
        panics[k] = (Attempts - syncer[k].attempts)
                    + (IF syncer[k].pc = "sleep" THEN 1 ELSE 0)

LEMMA PanicStep ==
    ASSUME TypeOK, PanicInv, NEW k \in Kinds,
           Take(k) \/ SendTime(k) \/ Wake(k) \/ Die(k)
    PROVE  PanicInv'
<1>0. /\ syncer \in [Kinds -> SyncerAt(now)] /\ syncer[k] \in SyncerAt(now)
      /\ panics \in [Kinds -> Nat] /\ Attempts \in Nat
      /\ syncer[k].attempts \in Nat
  BY SyncCallAssumption DEF TypeOK, SyncerAt
<1>1. panics[k] = (Attempts - syncer[k].attempts)
                  + (IF syncer[k].pc = "sleep" THEN 1 ELSE 0)
  BY DEF PanicInv
<1>2. CASE Take(k)
  <2>1. syncer[k].pc = "take"
    BY <1>2 DEF Take
  <2>2. CASE UNCHANGED <<syncer, panics>>
    BY <2>2 DEF PanicInv
  <2>3. CASE /\ syncer' = [syncer EXCEPT ![k].pc = "sleep"]
             /\ panics' = [panics EXCEPT ![k] = @ + 1]
    BY <1>0, <1>1, <2>1, <2>3 DEF PanicInv, SyncerAt
  <2>4. CASE /\ syncer' = [syncer EXCEPT ![k].pc = "stamp",
                                         ![k].stamp = now + 1]
             /\ UNCHANGED panics
    BY <1>0, <1>1, <2>1, <2>4 DEF PanicInv, SyncerAt
  <2> QED
    BY <1>2, <2>2, <2>3, <2>4 DEF Take
<1>3. CASE SendTime(k)
  BY <1>0, <1>3 DEF SendTime, PanicInv, FreshSyncer
<1>4. CASE Wake(k)
  <2>1. /\ syncer[k].pc = "sleep" /\ UNCHANGED panics
        /\ syncer' = [syncer EXCEPT ![k].pc = "take", ![k].attempts = @ - 1]
    BY <1>4 DEF Wake
  <2>2. /\ syncer'[k].pc = "take"
        /\ syncer'[k].attempts = syncer[k].attempts - 1
        /\ \A j \in Kinds \ {k} : syncer'[j] = syncer[j]
    BY <1>0, <2>1 DEF SyncerAt
  <2> QED
    BY <1>0, <1>1, <2>1, <2>2 DEF PanicInv
<1>5. CASE Die(k)
  BY <1>0, <1>5 DEF Die, PanicInv, FreshSyncer
<1> QED
  BY <1>2, <1>3, <1>4, <1>5

LEMMA PanicInvariant == Spec => []PanicInv
<1>1. Init => PanicInv
  BY SyncCallAssumption DEF Init, PanicInv, FreshSyncer
<1>2. TypeOK /\ PanicInv /\ [Next]_vars => PanicInv'
  <2> SUFFICES ASSUME TypeOK, PanicInv, [Next]_vars PROVE PanicInv'
    OBVIOUS
  <2>1. ASSUME NEW k \in Kinds,
               Take(k) \/ SendTime(k) \/ Wake(k) \/ Die(k)
        PROVE  PanicInv'
    BY <2>1, PanicStep
  <2>2. ASSUME UNCHANGED <<syncer, panics>> PROVE PanicInv'
    BY <2>2 DEF PanicInv
  <2>3. ASSUME NEW k \in Kinds, Receive(k) \/ Keep(k) PROVE PanicInv'
    BY <2>2, <2>3 DEF Receive, Keep
  <2>4. ASSUME NEW c \in Calls, Handle(c) \/ CallStep(c) PROVE PanicInv'
    BY <2>2, <2>4, HandleMoves, RunMoves, PollMoves
       DEF CallStep, CachesUnchanged
  <2>5. CASE UNCHANGED vars
    BY <2>2, <2>5 DEF vars
  <2> QED
    BY <2>1, <2>3, <2>4, <2>5 DEF Next, CacheStep
<1> QED
  BY <1>1, <1>2, CallTypeCorrect, PTL DEF Spec

\* The process ends by panics of a syncing goroutine only after as many of them
\* as there are attempts, with no update in between: any update that is
\* processed gives all attempts back.
THEOREM PanicsAreSurvived == Spec => SurvivesPanics
<1>1. TypeOK /\ PanicInv => \A k \in Kinds : Die(k) => panics[k] >= Attempts
  <2> SUFFICES ASSUME TypeOK, PanicInv, NEW k \in Kinds, Die(k)
               PROVE  panics[k] >= Attempts
    OBVIOUS
  <2>1. syncer[k].pc = "sleep" /\ syncer[k].attempts = 1 /\ Attempts \in Nat
    BY SyncCallAssumption DEF Die
  <2> QED
    BY <2>1 DEF PanicInv
<1> QED
  BY <1>1, CallTypeCorrect, PanicInvariant, PTL DEF SurvivesPanics

===============================================================================
