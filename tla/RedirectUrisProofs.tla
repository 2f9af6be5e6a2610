-------------------------- MODULE RedirectUrisProofs --------------------------
(* Theorems about RedirectUris, for every set of hosts, callers and senders *)
(* and every bound.                                                         *)
EXTENDS RedirectUris, TLAPS

-----------------------------------------------------------------------------
(* Types                                                                   *)

CallerState ==
    [pc : {"idle", "realms", "compare", "set", "cancel", "start"},
     uris : Uris \union {None}]
SenderState ==
    [pc : {"idle", "sending", "landed", "waiting"},
     uris : Uris \union {None}, cancelled : BOOLEAN]

\* A caller has a request exactly while it has one to compare or to send.
CallerOK(q) ==
    /\ q \in CallerState
    /\ q.pc \in {"idle", "realms"} <=> q.uris = None

LEMMA ParametersType ==
    /\ None \notin Uris /\ None \notin Senders
    /\ IdleCaller \in CallerState /\ CallerOK(IdleCaller)
    /\ IdleSender \in SenderState /\ IdleSender.pc = "idle"
<1>1. None \notin Uris /\ None \notin Senders
  BY UrisAssumption
<1>2. IdleCaller \in CallerState /\ CallerOK(IdleCaller)
  BY DEF IdleCaller, CallerState, CallerOK
<1>3. IdleSender \in SenderState /\ IdleSender.pc = "idle"
  BY DEF IdleSender, SenderState
<1> QED
  BY <1>1, <1>2, <1>3

LEMMA Parts ==
    ASSUME TypeOK
    PROVE  /\ wanted \in Uris /\ idp \in Uris \union {None}
           /\ caller \in [Callers -> CallerState]
           /\ \A c \in Callers : CallerOK(caller[c])
           /\ cancel \in Senders \union {None}
           /\ sender \in [Senders -> SenderState]
           /\ overtaken \in BOOLEAN /\ raced \in BOOLEAN
  BY DEF TypeOK, CallerState, SenderState, CallerOK

LEMMA CountType ==
    ASSUME NEW max \in Nat, NEW n \in 0..max, n < max
    PROVE  n + 1 \in 0..max
  OBVIOUS

LEMMA HashType ==
    ASSUME NEW uris
    PROVE  HashOf(uris) \in {None} \union SUBSET Hosts
  BY DEF HashOf

\* A caller's jump, and what it may do to the rest.
LEMMA CallerMove ==
    ASSUME TypeOK, NEW c \in Callers, NEW q, CallerOK(q),
           caller' = [caller EXCEPT ![c] = q],
           UNCHANGED <<wanted, idp, changes, failures, overtaken>>,
           hash' \in {None} \union SUBSET Hosts,
           cancel' \in Senders \union {None},
           sender' \in [Senders -> SenderState],
           resets' \in 0..MaxResets, raced' \in BOOLEAN
    PROVE  TypeOK'
<1>1. /\ caller' \in [Callers -> CallerState]
      /\ \A d \in Callers : CallerOK(caller'[d])
  BY Parts DEF CallerOK
<1> QED
  BY <1>1 DEF TypeOK, CallerState, SenderState, CallerOK

\* A sender's.
LEMMA SenderMove ==
    ASSUME TypeOK, NEW i \in Senders, NEW q \in SenderState,
           sender' = [sender EXCEPT ![i] = q],
           UNCHANGED <<wanted, caller, hash, cancel, changes, resets, raced>>,
           idp' \in Uris \union {None}, failures' \in 0..MaxFailures,
           overtaken' \in BOOLEAN
    PROVE  TypeOK'
<1>1. sender' \in [Senders -> SenderState]
  BY Parts
<1> QED
  BY <1>1 DEF TypeOK, CallerState, SenderState, CallerOK

\* A caller that goes on in PostURI keeps its request.
LEMMA CallerGoesOn ==
    ASSUME TypeOK, NEW c \in Callers,
           NEW pc \in {"compare", "set", "cancel", "start"},
           caller[c].pc \in {"compare", "set", "cancel", "start"}
    PROVE  /\ [caller EXCEPT ![c].pc = pc]
                = [caller EXCEPT ![c] = [pc |-> pc, uris |-> caller[c].uris]]
           /\ CallerOK([pc |-> pc, uris |-> caller[c].uris])
<1>1. caller[c] \in CallerState /\ caller[c].uris # None
  BY Parts DEF CallerOK
<1>2. [caller[c] EXCEPT !.pc = pc] = [pc |-> pc, uris |-> caller[c].uris]
  BY <1>1 DEF CallerState
<1>3. [caller EXCEPT ![c].pc = pc]
         = [caller EXCEPT ![c] = [caller[c] EXCEPT !.pc = pc]]
  OBVIOUS
<1>4. CallerOK([pc |-> pc, uris |-> caller[c].uris])
  BY <1>1 DEF CallerOK, CallerState
<1> QED
  BY <1>2, <1>3, <1>4

\* And so does a sender.
LEMMA SenderGoesOn ==
    ASSUME TypeOK, NEW i \in Senders,
           NEW pc \in {"idle", "sending", "landed", "waiting"}
    PROVE  /\ [sender EXCEPT ![i].pc = pc]
                = [sender EXCEPT ![i] = [sender[i] EXCEPT !.pc = pc]]
           /\ [sender[i] EXCEPT !.pc = pc] \in SenderState
<1>1. sender[i] \in SenderState
  BY Parts
<1>2. [sender[i] EXCEPT !.pc = pc] \in SenderState
  BY <1>1 DEF SenderState
<1>3. [sender EXCEPT ![i].pc = pc]
         = [sender EXCEPT ![i] = [sender[i] EXCEPT !.pc = pc]]
  OBVIOUS
<1> QED
  BY <1>2, <1>3

LEMMA CallerTypeOK ==
    ASSUME TypeOK, NEW c \in Callers, SyncIDP(c) \/ GetRealms(c) \/ CallerStep(c)
    PROVE  TypeOK'
<1>0. /\ hash \in {None} \union SUBSET Hosts /\ resets \in 0..MaxResets
      /\ cancel \in Senders \union {None} /\ raced \in BOOLEAN
      /\ sender \in [Senders -> SenderState]
  BY DEF TypeOK, SenderState
<1>1. CASE SyncIDP(c)
  <2> DEFINE q == [pc |-> "realms", uris |-> None]
  <2>1. caller[c] \in CallerState /\ caller[c].uris = None
    BY <1>1, Parts DEF SyncIDP, CallerOK
  <2>2. [caller[c] EXCEPT !.pc = "realms"] = q
    BY <2>1 DEF CallerState
  <2>3. caller' = [caller EXCEPT ![c] = q]
    BY <1>1, <2>2 DEF SyncIDP
  <2>4. CallerOK(q)
    BY DEF CallerOK, CallerState
  <2>5. resets' \in 0..MaxResets
    BY <1>0, <1>1, CountType, UrisAssumption DEF SyncIDP
  <2> HIDE DEF q
  <2> QED
    BY <1>0, <1>1, <2>3, <2>4, <2>5, CallerMove DEF SyncIDP
<1>2. CASE GetRealms(c)
  <2> DEFINE q == [pc |-> "compare", uris |-> wanted]
  <2>1. CallerOK(q)
    BY ParametersType, Parts DEF CallerOK, CallerState
  <2>2. caller' = [caller EXCEPT ![c] = q]
    BY <1>2 DEF GetRealms
  <2> HIDE DEF q
  <2> QED
    BY <1>0, <1>2, <2>1, <2>2, CallerMove DEF GetRealms
<1>3. CASE Skip(c)
  BY <1>0, <1>3, ParametersType, CallerMove DEF Skip
<1>4. CASE Differs(c) \/ SetHash(c) \/ CancelLast(c)
  <2>1. PICK pc \in {"set", "cancel", "start"} :
               caller' = [caller EXCEPT ![c].pc = pc]
    BY <1>4 DEF Differs, SetHash, CancelLast
  <2> DEFINE q == [pc |-> pc, uris |-> caller[c].uris]
  <2>2. caller[c].pc \in {"compare", "set", "cancel", "start"}
    BY <1>4 DEF Differs, SetHash, CancelLast
  <2>3. caller' = [caller EXCEPT ![c] = q] /\ CallerOK(q)
    BY <2>1, <2>2, CallerGoesOn
  <2>4. raced' \in BOOLEAN
    BY <1>0, <1>4 DEF Differs, SetHash, CancelLast
  <2>5. hash' \in {None} \union SUBSET Hosts
    BY <1>0, <1>4, HashType DEF Differs, SetHash, CancelLast
  <2>6. sender' \in [Senders -> SenderState]
    <3>1. \/ sender' = sender
          \/ /\ cancel # None
             /\ sender' = [sender EXCEPT ![cancel].cancelled = TRUE]
      BY <1>4 DEF Differs, SetHash, CancelLast
    <3> QED
      BY <1>0, <3>1 DEF SenderState
  <2>7. UNCHANGED <<wanted, idp, changes, failures, overtaken, cancel, resets>>
    BY <1>4 DEF Differs, SetHash, CancelLast
  <2> HIDE DEF q
  <2> QED
    BY <1>0, <2>3, <2>4, <2>5, <2>6, <2>7, CallerMove
<1>5. CASE Start(c)
  <2> DEFINE q == [IdleSender EXCEPT !.pc = "sending", !.uris = caller[c].uris]
  <2>1. PICK i \in Senders : /\ cancel' = i
                             /\ sender' = [sender EXCEPT ![i] = q]
    BY <1>5 DEF Start
  <2>2. q \in SenderState
    BY Parts DEF IdleSender, SenderState, CallerState
  <2> HIDE DEF q
  <2>3. sender' \in [Senders -> SenderState]
    BY <1>0, <2>1, <2>2
  <2> QED
    BY <1>0, <1>5, <2>1, <2>3, ParametersType, CallerMove DEF Start
<1> QED
  BY <1>1, <1>2, <1>3, <1>4, <1>5 DEF CallerStep

LEMMA SenderTypeOK ==
    ASSUME TypeOK, NEW i \in Senders, SenderStep(i) \/ Fails(i)
    PROVE  TypeOK'
<1>0. /\ failures \in 0..MaxFailures /\ idp \in Uris \union {None}
      /\ overtaken \in BOOLEAN
  BY DEF TypeOK
<1>1. CASE Land(i)
  <2>1. idp' \in Uris \union {None} /\ overtaken' \in BOOLEAN
    BY <1>1, Parts DEF Land, SenderState
  <2> QED
    BY <1>0, <1>1, <2>1, SenderGoesOn, SenderMove DEF Land
<1>2. CASE Answered(i) \/ GiveUp(i)
  BY <1>0, <1>2, ParametersType, SenderMove DEF Answered, GiveUp
<1>3. CASE Resend(i)
  BY <1>0, <1>3, SenderGoesOn, SenderMove DEF Resend
<1>4. CASE Fails(i)
  <2>1. failures' \in 0..MaxFailures
    BY <1>0, <1>4, CountType, UrisAssumption DEF Fails
  <2> QED
    BY <1>0, <1>4, <2>1, SenderGoesOn, SenderMove DEF Fails
<1> QED
  BY <1>1, <1>2, <1>3, <1>4 DEF SenderStep

\* Every reachable state is well-typed; a caller has a request exactly while it
\* has one to compare or to send.
THEOREM RedirectTypeCorrect == Spec => []TypeOK
<1>1. Init => TypeOK
  <2> SUFFICES ASSUME Init PROVE TypeOK
    OBVIOUS
  <2>1. changes \in 0..MaxChanges /\ failures \in 0..MaxFailures
        /\ resets \in 0..MaxResets
    BY UrisAssumption DEF Init
  <2>2. wanted \in Uris /\ idp \in Uris \union {None}
    BY UrisAssumption DEF Init
  <2>3. /\ caller \in [Callers -> CallerState]
        /\ \A c \in Callers : CallerOK(caller[c])
    BY ParametersType DEF Init
  <2>4. sender \in [Senders -> SenderState]
    BY ParametersType DEF Init
  <2>5. overtaken \in BOOLEAN /\ raced \in BOOLEAN
    BY DEF Init
  <2>6. hash = None /\ cancel = None
    BY DEF Init
  <2> QED
    BY <2>1, <2>2, <2>3, <2>4, <2>5, <2>6
       DEF TypeOK, CallerState, SenderState, CallerOK
<1>2. TypeOK /\ [Next]_vars => TypeOK'
  <2> SUFFICES ASSUME TypeOK, [Next]_vars PROVE TypeOK'
    OBVIOUS
  <2>1. CASE Change
    <3>1. changes' \in 0..MaxChanges
      BY <2>1, CountType, UrisAssumption DEF Change, TypeOK
    <3> QED
      BY <2>1, <3>1 DEF Change, TypeOK
  <2>2. CASE \E c \in Callers : SyncIDP(c) \/ GetRealms(c) \/ CallerStep(c)
    BY <2>2, CallerTypeOK
  <2>3. CASE \E i \in Senders : SenderStep(i) \/ Fails(i)
    BY <2>3, SenderTypeOK
  <2>4. CASE UNCHANGED vars
    BY <2>4 DEF vars, TypeOK
  <2> QED
    BY <2>1, <2>2, <2>3, <2>4 DEF Next
<1> QED
  BY <1>1, <1>2, PTL DEF Spec

-----------------------------------------------------------------------------
(* What the hash stands for                                                *)

\* A sender that nobody told to stop.
Live(i) == sender[i].pc # "idle" /\ ~sender[i].cancelled

NobodyInPostURI == \A c \in Callers : ~InPostURI(c)

\* The identity provider has data of this hash, or will get it.
Honoured ==
    \/ hash = HashOf(idp)
    \/ overtaken
    \/ \E i \in Senders : /\ Live(i) /\ sender[i].pc # "landed"
                          /\ HashOf(sender[i].uris) = hash

\* What each point of PostURI owes to HashIsHonoured if no two calls have met:
\* the one sender that may go on is the last started, none may after the cancel,
\* and the hash is that of the request under way.
HashInv ==
    /\ \A c, d \in Callers : InPostURI(c) /\ InPostURI(d) => c = d
    /\ \A i \in Senders : Live(i) => i = cancel
    /\ \A c \in Callers : caller[c].pc = "start"
                            => \A i \in Senders : ~Live(i)
    /\ \A c \in Callers : caller[c].pc \in {"cancel", "start"}
                            => hash \in {None, HashOf(caller[c].uris)}
    /\ NobodyInPostURI /\ hash # None =>
         /\ \A i \in Senders : Live(i) => HashOf(sender[i].uris) = hash
         /\ Honoured

\* A caller that moves outside PostURI, even if it resets the hash.
LEMMA CallerOutside ==
    ASSUME HashInv, NEW c \in Callers, ~InPostURI(c), ~InPostURI(c)',
           \A d \in Callers \ {c} : caller'[d] = caller[d],
           UNCHANGED <<sender, cancel, idp, overtaken>>, hash' \in {hash, None}
    PROVE  HashInv'
<1>1. \A d \in Callers : InPostURI(d)' => d # c /\ InPostURI(d)
  BY DEF InPostURI
<1>2. NobodyInPostURI' => NobodyInPostURI
  BY DEF NobodyInPostURI, InPostURI
<1>3. \A d \in Callers : caller'[d].pc \in {"cancel", "start"}
                           => d # c /\ caller'[d] = caller[d]
  BY DEF InPostURI
<1> QED
  BY <1>1, <1>2, <1>3 DEF HashInv, Live, Honoured

\* The fields of a caller that goes on, and the others.
LEMMA CallerFields ==
    ASSUME TypeOK, NEW c \in Callers, NEW pc,
           caller' = [caller EXCEPT ![c].pc = pc]
    PROVE  /\ caller'[c].pc = pc /\ caller'[c].uris = caller[c].uris
           /\ \A d \in Callers \ {c} : caller'[d] = caller[d]
  BY Parts DEF CallerState

\* The fields of a sender that goes on, and the others.
LEMMA SenderFields ==
    ASSUME TypeOK, NEW i \in Senders, NEW pc,
           sender' = [sender EXCEPT ![i].pc = pc]
    PROVE  /\ sender'[i].pc = pc /\ sender'[i].uris = sender[i].uris
           /\ sender'[i].cancelled = sender[i].cancelled
           /\ \A k \in Senders \ {i} : sender'[k] = sender[k]
  BY Parts DEF SenderState

LEMMA CallerHashInv ==
    ASSUME TypeOK, HashInv, NEW c \in Callers,
           SyncIDP(c) \/ GetRealms(c) \/ CallerStep(c), ~raced'
    PROVE  HashInv'
<1>0. caller \in [Callers -> CallerState] /\ sender \in [Senders -> SenderState]
  BY Parts
<1>1. CASE SyncIDP(c)
  <2>1. caller'[c].pc = "realms"
        /\ \A d \in Callers \ {c} : caller'[d] = caller[d]
    BY <1>1, CallerFields DEF SyncIDP
  <2>2. ~InPostURI(c) /\ ~InPostURI(c)'
    BY <1>1, <2>1 DEF SyncIDP, InPostURI
  <2> QED
    BY <1>1, <2>1, <2>2, CallerOutside DEF SyncIDP
<1>2. CASE GetRealms(c) \/ Skip(c)
  <2>1. caller'[c].pc \in {"compare", "idle"}
        /\ \A d \in Callers \ {c} : caller'[d] = caller[d]
    BY <1>0, <1>2 DEF GetRealms, Skip, IdleCaller
  <2>2. ~InPostURI(c) /\ ~InPostURI(c)'
    BY <1>2, <2>1 DEF GetRealms, Skip, InPostURI
  <2>3. UNCHANGED <<sender, cancel, idp, overtaken, hash>>
    BY <1>2 DEF GetRealms, Skip
  <2> QED
    BY <2>1, <2>2, <2>3, CallerOutside
<1>3. CASE Differs(c)
  <2>1. caller'[c].pc = "set"
        /\ \A d \in Callers \ {c} : caller'[d] = caller[d]
    BY <1>3, CallerFields DEF Differs
  <2>2. NobodyInPostURI
    BY <1>3 DEF Differs, NobodyInPostURI
  <2>3. \A d \in Callers : (InPostURI(d)' <=> d = c)
    BY <2>1, <2>2 DEF InPostURI, NobodyInPostURI
  <2>4. \A d \in Callers : caller'[d].pc \notin {"cancel", "start"}
    BY <2>1, <2>2 DEF InPostURI, NobodyInPostURI
  <2>5. UNCHANGED <<sender, cancel, idp, overtaken, hash>>
    BY <1>3 DEF Differs
  <2> QED
    BY <2>3, <2>4, <2>5 DEF HashInv, NobodyInPostURI, Live
<1>4. CASE SetHash(c) \/ CancelLast(c) \/ Start(c)
  <2>1. \A d \in Callers : InPostURI(d) <=> d = c
    BY <1>4 DEF SetHash, CancelLast, Start, InPostURI, HashInv
  <2>2. CASE SetHash(c)
    <3>1. /\ caller'[c].pc = "cancel" /\ caller'[c].uris = caller[c].uris
          /\ \A d \in Callers \ {c} : caller'[d] = caller[d]
      BY <2>2, CallerFields DEF SetHash
    <3>2. \A d \in Callers : (InPostURI(d)' <=> d = c)
      BY <2>1, <3>1 DEF InPostURI
    <3>3. \A d \in Callers \ {c} : caller'[d].pc \notin {"cancel", "start"}
      BY <2>1, <3>1 DEF InPostURI
    <3>4. UNCHANGED <<sender, cancel>> /\ hash' = HashOf(caller[c].uris)
      BY <2>2 DEF SetHash
    <3> QED
      BY <3>1, <3>2, <3>3, <3>4 DEF HashInv, NobodyInPostURI, Live
  <2>3. CASE CancelLast(c)
    <3>1. /\ caller'[c].pc = "start" /\ caller'[c].uris = caller[c].uris
          /\ \A d \in Callers \ {c} : caller'[d] = caller[d]
      BY <2>3, CallerFields DEF CancelLast
    <3>2. \A d \in Callers : (InPostURI(d)' <=> d = c)
      BY <2>1, <3>1 DEF InPostURI
    <3>3. \A d \in Callers \ {c} : caller'[d].pc \notin {"cancel", "start"}
      BY <2>1, <3>1 DEF InPostURI
    <3>4. /\ UNCHANGED <<hash, cancel>> /\ caller[c].pc = "cancel"
          /\ sender' = IF cancel = None \/ sender[cancel].pc = "idle"
                       THEN sender
                       ELSE [sender EXCEPT ![cancel].cancelled = TRUE]
      BY <2>3 DEF CancelLast
    <3>5. \A i \in Senders : ~Live(i)'
      <4> SUFFICES ASSUME NEW i \in Senders PROVE ~Live(i)'
        OBVIOUS
      <4>1. CASE i # cancel
        <5>1. sender'[i] = sender[i] /\ ~Live(i)
          BY <1>0, <3>4, <4>1 DEF HashInv
        <5> QED
          BY <5>1 DEF Live
      <4>2. CASE i = cancel
        <5>1. cancel # None
          BY <4>2, ParametersType
        <5>2. sender'[i].pc = "idle" \/ sender'[i].cancelled = TRUE
          BY <1>0, <3>4, <4>2, <5>1 DEF SenderState
        <5> QED
          BY <5>2 DEF Live
      <4> QED
        BY <4>1, <4>2
    <3>6. hash' \in {None, HashOf(caller'[c].uris)}
      BY <3>1, <3>4 DEF HashInv
    <3> QED
      BY <3>1, <3>2, <3>3, <3>5, <3>6 DEF HashInv, NobodyInPostURI
  <2>4. CASE Start(c)
    <3>1. PICK i \in Senders :
                 /\ cancel' = i
                 /\ sender' = [sender EXCEPT ![i] =
                      [IdleSender EXCEPT !.pc = "sending",
                                         !.uris = caller[c].uris]]
      BY <2>4 DEF Start
    <3>2. /\ sender'[i].pc = "sending" /\ sender'[i].uris = caller[c].uris
          /\ sender'[i].cancelled = FALSE
          /\ \A k \in Senders \ {i} : sender'[k] = sender[k]
      BY <1>0, <3>1 DEF IdleSender
    <3>3. \A k \in Senders : ~Live(k)
      BY <2>4 DEF Start, HashInv
    <3>4. \A k \in Senders : Live(k)' <=> k = i
      BY <3>2, <3>3 DEF Live
    <3>5. caller' = [caller EXCEPT ![c] = IdleCaller] /\ hash' = hash
      BY <2>4 DEF Start
    <3>6. \A d \in Callers : ~InPostURI(d)'
      BY <1>0, <2>1, <3>5 DEF InPostURI, IdleCaller
    <3>7. hash \in {None, HashOf(caller[c].uris)}
      BY <2>4 DEF Start, HashInv
    <3>8. hash' # None => Honoured'
      BY <3>2, <3>4, <3>5, <3>7 DEF Honoured
    <3>9. \A d \in Callers : caller'[d].pc \notin {"cancel", "start"}
      BY <3>6 DEF InPostURI
    <3> QED
      BY <3>1, <3>2, <3>4, <3>5, <3>6, <3>7, <3>8, <3>9
         DEF HashInv, NobodyInPostURI
  <2> QED
    BY <1>4, <2>2, <2>3, <2>4
<1> QED
  BY <1>1, <1>2, <1>3, <1>4 DEF CallerStep

LEMMA SenderHashInv ==
    ASSUME TypeOK, HashInv, NEW i \in Senders, SenderStep(i) \/ Fails(i)
    PROVE  HashInv'
<1>0. UNCHANGED <<caller, hash, cancel>>
  BY DEF SenderStep, Land, Answered, GiveUp, Resend, Fails
<1>1. \A c \in Callers : InPostURI(c)' <=> InPostURI(c)
  BY <1>0 DEF InPostURI
<1>2. sender \in [Senders -> SenderState]
  BY Parts
<1>3. /\ \A k \in Senders : Live(k)' => Live(k) /\ sender'[k].uris = sender[k].uris
      /\ \A k \in Senders \ {i} : sender'[k] = sender[k]
  <2>1. CASE Answered(i) \/ GiveUp(i)
    <3>1. sender' = [sender EXCEPT ![i] = IdleSender]
      BY <2>1 DEF Answered, GiveUp
    <3>2. sender'[i].pc = "idle"
          /\ \A k \in Senders \ {i} : sender'[k] = sender[k]
      BY <1>2, <3>1 DEF IdleSender
    <3> QED
      BY <3>2 DEF Live
  <2>2. CASE Land(i) \/ Resend(i) \/ Fails(i)
    <3>1. PICK pc \in {"landed", "sending", "waiting"} :
                 sender' = [sender EXCEPT ![i].pc = pc]
      BY <2>2 DEF Land, Resend, Fails
    <3>2. sender[i].pc # "idle"
      BY <2>2 DEF Land, Resend, Fails
    <3> QED
      BY <3>1, <3>2, SenderFields DEF Live
  <2> QED
    BY <2>1, <2>2 DEF SenderStep
<1>4. ASSUME NobodyInPostURI, hash # None
      PROVE  Honoured'
  <2>1. /\ Honoured
        /\ Live(i) => HashOf(sender[i].uris) = hash
    BY <1>4 DEF HashInv
  <2>2. CASE Land(i)
    <3>1. idp' = sender[i].uris /\ overtaken' = sender[i].cancelled
          /\ sender[i].pc = "sending"
      BY <2>2 DEF Land
    <3>2. CASE Live(i)
      BY <1>0, <2>1, <3>1, <3>2 DEF Honoured
    <3>3. CASE ~Live(i)
      BY <3>1, <3>3 DEF Honoured, Live
    <3> QED
      BY <3>2, <3>3
  <2>3. CASE ~Land(i)
    <3>1. UNCHANGED <<idp, overtaken>>
      BY <2>3 DEF SenderStep, Answered, GiveUp, Resend, Fails
    <3>2. CASE hash = HashOf(idp) \/ overtaken
      BY <1>0, <3>1, <3>2 DEF Honoured
    <3>3. ASSUME NEW k \in Senders, Live(k), sender[k].pc # "landed",
                 HashOf(sender[k].uris) = hash
          PROVE  Honoured'
      <4>1. CASE k # i
        BY <1>0, <1>3, <3>3, <4>1 DEF Honoured, Live
      <4>2. CASE k = i
        <5>1. Resend(i) \/ Fails(i)
          BY <2>3, <3>3, <4>2 DEF SenderStep, Answered, GiveUp, Live
        <5>2. PICK pc \in {"sending", "waiting"} :
                     sender' = [sender EXCEPT ![i].pc = pc]
          BY <5>1 DEF Resend, Fails
        <5>3. /\ sender'[i].pc \in {"sending", "waiting"}
              /\ sender'[i].uris = sender[i].uris
              /\ sender'[i].cancelled = sender[i].cancelled
          BY <5>2, SenderFields
        <5> QED
          BY <1>0, <3>3, <4>2, <5>3 DEF Honoured, Live
      <4> QED
        BY <4>1, <4>2
    <3> QED
      BY <2>1, <3>2, <3>3 DEF Honoured
  <2> QED
    BY <2>2, <2>3
<1>5. NobodyInPostURI' => NobodyInPostURI
  BY <1>1 DEF NobodyInPostURI
<1> QED
  BY <1>0, <1>1, <1>3, <1>4, <1>5 DEF HashInv

\* Unless two calls were in PostURI at once, or what the identity provider holds
\* came from a cancelled sender, the hash is that of the data which it holds or
\* which a sender nobody cancelled is going to send.
THEOREM HashIsAlwaysHonoured == Spec => []HashIsHonoured
<1> DEFINE Inv == ~raced => HashInv
<1>1. Init => Inv
  <2> SUFFICES ASSUME Init PROVE HashInv
    OBVIOUS
  <2>1. \A c \in Callers : caller[c].pc = "idle"
    BY DEF Init, IdleCaller
  <2>2. \A i \in Senders : ~Live(i)
    BY DEF Init, IdleSender, Live
  <2> QED
    BY <2>1, <2>2 DEF Init, HashInv, InPostURI
<1>2. TypeOK /\ Inv /\ [Next]_vars => Inv'
  <2> SUFFICES ASSUME TypeOK, Inv, [Next]_vars, ~raced' PROVE HashInv'
    OBVIOUS
  <2>1. ~raced
    <3>1. ASSUME NEW c \in Callers,
                 SyncIDP(c) \/ GetRealms(c) \/ CallerStep(c)
          PROVE  ~raced
      BY <3>1 DEF SyncIDP, GetRealms, CallerStep, Skip, Differs, SetHash,
                  CancelLast, Start
    <3>2. ASSUME NEW i \in Senders, SenderStep(i) \/ Fails(i)
          PROVE  ~raced
      BY <3>2 DEF SenderStep, Land, Answered, GiveUp, Resend, Fails
    <3>3. CASE Change \/ UNCHANGED vars
      BY <3>3 DEF Change, vars
    <3> QED
      BY <3>1, <3>2, <3>3 DEF Next
  <2>2. CASE \E c \in Callers : SyncIDP(c) \/ GetRealms(c) \/ CallerStep(c)
    BY <2>1, <2>2, CallerHashInv
  <2>3. CASE \E i \in Senders : SenderStep(i) \/ Fails(i)
    BY <2>1, <2>3, SenderHashInv
  <2>4. CASE Change \/ UNCHANGED vars
    <3>1. UNCHANGED <<caller, hash, cancel, sender, idp, overtaken>>
      BY <2>4 DEF Change, vars
    <3> QED
      BY <2>1, <3>1 DEF HashInv, InPostURI, NobodyInPostURI, Live, Honoured
  <2> QED
    BY <2>2, <2>3, <2>4 DEF Next
<1>3. TypeOK /\ Inv => HashIsHonoured
  <2> SUFFICES ASSUME TypeOK, HashInv, hash # None, NobodyInPostURI
               PROVE  \/ hash \in {HashOf(u) : u \in {idp} \union OnItsWay}
                      \/ overtaken
    BY DEF HashIsHonoured, NobodyInPostURI
  <2>1. CASE hash = HashOf(idp) \/ overtaken
    BY <2>1
  <2>2. ASSUME NEW i \in Senders, Live(i), sender[i].pc # "landed",
               HashOf(sender[i].uris) = hash
        PROVE  hash \in {HashOf(u) : u \in {idp} \union OnItsWay}
    <3>1. sender[i].pc \in {"sending", "waiting"} /\ ~sender[i].cancelled
      BY <2>2, Parts DEF Live, SenderState
    <3>2. sender[i].uris \in OnItsWay
      BY <3>1 DEF OnItsWay
    <3> QED
      BY <2>2, <3>2
  <2> QED
    BY <2>1, <2>2 DEF HashInv, Honoured
<1> QED
  BY <1>1, <1>2, <1>3, RedirectTypeCorrect, PTL DEF Spec

===============================================================================
