----------------------------- MODULE RedirectUris -----------------------------
(***************************************************************************)
(* How the redirect URIs reach the identity provider: idp/retry.go behind  *)
(* SendRoutesToIDP (synchronizer/synchronizer.go).                         *)
(*                                                                         *)
(* The callback for routes, the watch of tenants, the timer and SyncIDP    *)
(* call from goroutines of their own, with no lock.  Each builds the       *)
(* request from what the caches hold; PostURI skips one whose hash is that *)
(* of the last, else it cancels the sender of the last and starts another, *)
(* which sends until it succeeds.  A cancel stops the retries, never a     *)
(* request that is already on its way.  (server.go registers a client that *)
(* does nothing; a product that links lib.RunService registers this one.)  *)
(***************************************************************************)
EXTENDS Integers, FiniteSets

CONSTANTS
    Hosts,          \* hosts that may be redirect URIs
    MaxCopies,      \* bound: routes with the same host
    FirstUris,      \* the requests there may be at the start
    Callers,        \* goroutines that call SendRoutesToIDP
    Timer,          \* the one of StartAutoSyncTimer, which calls for ever
    Senders,        \* pool of sender goroutines (bounds how many run at once)
    MaxChanges,     \* bound: changes of what the caches hold
    MaxFailures,    \* bound: requests that fail, or whose answer is lost
    MaxResets,      \* bound: calls of SyncIDP
    None            \* hash 0, no cancel function, nothing sent

\* A URIRequest: each host as often as there are routes and external routes
\* with it.
Uris == [Hosts -> 0..MaxCopies]

\* hashstructure.Hash with SlicesAsSets adds up the elements of a list by
\* exclusive or: their order does not matter, and equal ones cancel.
HashOf(uris) == IF uris = None THEN None ELSE {h \in Hosts : uris[h] % 2 = 1}

ASSUME UrisAssumption ==
    /\ Timer \in Callers
    /\ MaxCopies \in Nat /\ FirstUris \subseteq Uris
    /\ None \notin Uris \union Senders
    /\ \A hosts \in SUBSET Hosts : None # hosts
    /\ MaxChanges \in Nat /\ MaxFailures \in Nat /\ MaxResets \in Nat

VARIABLES
    wanted,     \* what SendRoutesToIDP would build now
    caller,     \* caller -> [pc, uris]
    hash,       \* ClientWithRetry.hash
    cancel,     \* ClientWithRetry.cancel: the sender it cancels
    sender,     \* sender -> [pc, uris, cancelled]
    idp,        \* what the identity provider holds
    changes, failures, resets,
    overtaken,  \* history: what it holds came from a cancelled sender
    raced       \* history: two calls have been between the comparison and the
                \* start of the sender at once

vars == <<wanted, caller, hash, cancel, sender, idp, changes, failures, resets,
          overtaken, raced>>

IdleCaller == [pc |-> "idle", uris |-> None]
IdleSender == [pc |-> "idle", uris |-> None, cancelled |-> FALSE]

\* Between the read of `hash' and the write of `cancel'.
InPostURI(c) == caller[c].pc \in {"set", "cancel", "start"}

-----------------------------------------------------------------------------
\* A route, a tenant or the config map changes in the caches.
Change ==
    /\ changes < MaxChanges
    /\ changes' = changes + 1
    /\ wanted' \in Uris \ {wanted}
    /\ UNCHANGED <<caller, hash, cancel, sender, idp, failures, resets,
                   overtaken, raced>>

\* SyncIDP: Reset of the client, then SendRoutesToIDP.
SyncIDP(c) ==
    /\ c # Timer
    /\ caller[c].pc = "idle"
    /\ resets < MaxResets
    /\ resets' = resets + 1
    /\ hash' = None
    /\ caller' = [caller EXCEPT ![c].pc = "realms"]
    /\ UNCHANGED <<wanted, cancel, sender, idp, changes, failures, overtaken,
                   raced>>

-----------------------------------------------------------------------------
(* SendRoutesToIDP and ClientWithRetry.PostURI                             *)

\* getRealms.  One that fails ends the call: nothing has been changed, and the
\* goroutine stays where a call may begin.
GetRealms(c) ==
    /\ caller[c].pc \in {"idle", "realms"}
    /\ caller' = [caller EXCEPT ![c] = [pc |-> "compare", uris |-> wanted]]
    /\ UNCHANGED <<wanted, hash, cancel, sender, idp, changes, failures,
                   resets, overtaken, raced>>

\* `if hash != c.hash'
Skip(c) ==
    /\ caller[c].pc = "compare"
    /\ HashOf(caller[c].uris) = hash
    /\ caller' = [caller EXCEPT ![c] = IdleCaller]
    /\ UNCHANGED <<wanted, hash, cancel, sender, idp, changes, failures,
                   resets, overtaken, raced>>

Differs(c) ==
    /\ caller[c].pc = "compare"
    /\ HashOf(caller[c].uris) # hash
    /\ caller' = [caller EXCEPT ![c].pc = "set"]
    /\ raced' = (raced \/ \E d \in Callers : InPostURI(d))
    /\ UNCHANGED <<wanted, hash, cancel, sender, idp, changes, failures,
                   resets, overtaken>>

SetHash(c) ==
    /\ caller[c].pc = "set"
    /\ hash' = HashOf(caller[c].uris)
    /\ caller' = [caller EXCEPT ![c].pc = "cancel"]
    /\ UNCHANGED <<wanted, cancel, sender, idp, changes, failures, resets,
                   overtaken, raced>>

\* Mutant: the last sender goes on.
CancelNone(c) ==
    /\ caller[c].pc = "cancel"
    /\ caller' = [caller EXCEPT ![c].pc = "start"]
    /\ UNCHANGED <<wanted, hash, cancel, sender, idp, changes, failures,
                   resets, overtaken, raced>>

\* The cancel function of a sender that has ended does nothing.
CancelLast(c) ==
    /\ caller[c].pc = "cancel"
    /\ sender' = IF cancel = None \/ sender[cancel].pc = "idle" THEN sender
                 ELSE [sender EXCEPT ![cancel].cancelled = TRUE]
    /\ caller' = [caller EXCEPT ![c].pc = "start"]
    /\ UNCHANGED <<wanted, hash, cancel, idp, changes, failures, resets,
                   overtaken, raced>>

\* Mutant: the request is kept after the call.
StartKeeps(c) ==
    /\ caller[c].pc = "start"
    /\ \E i \in Senders :
         /\ sender[i].pc = "idle"
         /\ cancel' = i
         /\ sender' = [sender EXCEPT ![i] =
              [IdleSender EXCEPT !.pc = "sending", !.uris = caller[c].uris]]
    /\ caller' = [caller EXCEPT ![c].pc = "idle"]
    /\ UNCHANGED <<wanted, hash, idp, changes, failures, resets, overtaken,
                   raced>>

Start(c) ==
    /\ caller[c].pc = "start"
    /\ \E i \in Senders :
         /\ sender[i].pc = "idle"
         /\ cancel' = i
         /\ sender' = [sender EXCEPT ![i] =
              [IdleSender EXCEPT !.pc = "sending", !.uris = caller[c].uris]]
    /\ caller' = [caller EXCEPT ![c] = IdleCaller]
    /\ UNCHANGED <<wanted, hash, idp, changes, failures, resets, overtaken,
                   raced>>

CallerStep(c) == \/ Skip(c) \/ Differs(c) \/ SetHash(c) \/ CancelLast(c)
                 \/ Start(c)

-----------------------------------------------------------------------------
(* The sender goroutine                                                    *)

\* The request reaches the identity provider, which replaces what it holds.
Land(i) ==
    /\ sender[i].pc = "sending"
    /\ sender' = [sender EXCEPT ![i].pc = "landed"]
    /\ idp' = sender[i].uris
    /\ overtaken' = sender[i].cancelled
    /\ UNCHANGED <<wanted, caller, hash, cancel, changes, failures, resets,
                   raced>>

Answered(i) ==
    /\ sender[i].pc = "landed"
    /\ sender' = [sender EXCEPT ![i] = IdleSender]
    /\ UNCHANGED <<wanted, caller, hash, cancel, idp, changes, failures,
                   resets, overtaken, raced>>

\* The request is lost on the way, or its answer is.
Fails(i) ==
    /\ sender[i].pc \in {"sending", "landed"}
    /\ failures < MaxFailures
    /\ failures' = failures + 1
    /\ sender' = [sender EXCEPT ![i].pc = "waiting"]
    /\ UNCHANGED <<wanted, caller, hash, cancel, idp, changes, resets,
                   overtaken, raced>>

\* Mutant: a sender whose request failed gives up.
GiveUpAtOnce(i) ==
    /\ sender[i].pc = "waiting"
    /\ sender' = [sender EXCEPT ![i] = IdleSender]
    /\ UNCHANGED <<wanted, caller, hash, cancel, idp, changes, failures,
                   resets, overtaken, raced>>

\* The select: when the five seconds and the cancel are both there, either
\* branch may be taken.
GiveUp(i) ==
    /\ sender[i].pc = "waiting"
    /\ sender[i].cancelled
    /\ sender' = [sender EXCEPT ![i] = IdleSender]
    /\ UNCHANGED <<wanted, caller, hash, cancel, idp, changes, failures,
                   resets, overtaken, raced>>

Resend(i) ==
    /\ sender[i].pc = "waiting"
    /\ sender' = [sender EXCEPT ![i].pc = "sending"]
    /\ UNCHANGED <<wanted, caller, hash, cancel, idp, changes, failures,
                   resets, overtaken, raced>>

SenderStep(i) == Land(i) \/ Answered(i) \/ GiveUp(i) \/ Resend(i)

-----------------------------------------------------------------------------
Init ==
    /\ wanted \in FirstUris
    /\ caller = [c \in Callers |-> IdleCaller]
    /\ hash = None /\ cancel = None
    /\ sender = [i \in Senders |-> IdleSender]
    /\ idp \in FirstUris \union {None}
    /\ changes = 0 /\ failures = 0 /\ resets = 0
    /\ overtaken = FALSE /\ raced = FALSE

Next ==
    \/ Change
    \/ \E c \in Callers : SyncIDP(c) \/ GetRealms(c) \/ CallerStep(c)
    \/ \E i \in Senders : SenderStep(i) \/ Fails(i)

Spec == Init /\ [][Next]_vars

\* Goroutines are scheduled, requests end, and the timer calls again and again.
Fairness ==
    /\ WF_vars(GetRealms(Timer))
    /\ \A c \in Callers : WF_vars(CallerStep(c))
    /\ \A i \in Senders : WF_vars(SenderStep(i))

FairSpec == Spec /\ Fairness

-----------------------------------------------------------------------------
(* Properties                                                              *)

TypeOK ==
    /\ wanted \in Uris /\ idp \in Uris \union {None}
    /\ caller \in [Callers ->
         [pc : {"idle", "realms", "compare", "set", "cancel", "start"},
          uris : Uris \union {None}]]
    /\ hash \in {None} \union SUBSET Hosts /\ cancel \in Senders \union {None}
    /\ sender \in [Senders ->
         [pc : {"idle", "sending", "landed", "waiting"},
          uris : Uris \union {None}, cancelled : BOOLEAN]]
    /\ changes \in 0..MaxChanges /\ failures \in 0..MaxFailures
    /\ resets \in 0..MaxResets
    /\ overtaken \in BOOLEAN /\ raced \in BOOLEAN
    /\ \A c \in Callers : caller[c].pc \in {"idle", "realms"}
                             <=> caller[c].uris = None

\* The requests that somebody is going to send and was not told to stop.
OnItsWay == {sender[i].uris : i \in
    {k \in Senders : /\ sender[k].pc \in {"sending", "waiting"}
                     /\ ~sender[k].cancelled}}

\* Data with the hash is held by the identity provider or on its way there,
\* whatever failed, was reset or was read too early; the calls that will be
\* skipped because of it may be.  Excused: a cancelled request that came late,
\* and calls that were in PostURI at once.
HashIsHonoured ==
    ~raced /\ hash # None /\ (\A c \in Callers : ~InPostURI(c))
        => hash \in {HashOf(u) : u \in {idp} \union OnItsWay} \/ overtaken

\* When the caches come to rest, the identity provider ends with what they
\* hold, as far as the hash tells (a host of two routes is as good as one of
\* none), with the same two excuses.
EventuallyIdpCurrent ==
    <>[](HashOf(idp) = HashOf(wanted) \/ overtaken \/ raced)

\* retry.go:75: `Request with the same data was already send. Skipping...'  The
\* identity provider holds the data of a call that is skipped, or is about to.
SkippedOnlyIfSent ==
    [][\A c \in Callers : Skip(c) =>
         caller[c].uris \in {idp} \union OnItsWay]_vars
=============================================================================
