------------------------------ MODULE QueueLemmas ------------------------------
(* Facts about queues of messages: what one has and what is followed by what, *)
(* when it grows at its end or is read at its head.  TenantFeedProofs and      *)
(* RouteCacheProofs argue with them about frames, streams and the channel.     *)
EXTENDS Integers, Sequences, SequenceTheorems, TLAPS

\* A message of S is in s; every message of S is followed by one of R.
Has(s, S) == \E i \in DOMAIN s : s[i] \in S
Followed(s, S, R) ==
    \A i \in DOMAIN s : s[i] \in S => \E j \in DOMAIN s : j > i /\ s[j] \in R

\* A queue that grows at its end.
LEMMA HasAppend ==
    ASSUME NEW T, NEW s \in Seq(T), NEW e \in T, NEW S
    PROVE  Has(Append(s, e), S) <=> Has(s, S) \/ e \in S
<1>1. /\ DOMAIN s = 1..Len(s) /\ Len(s) \in Nat
      /\ DOMAIN Append(s, e) = 1..(Len(s) + 1)
      /\ \A i \in 1..Len(s) : Append(s, e)[i] = s[i]
      /\ Append(s, e)[Len(s) + 1] = e
  BY AppendProperties, LenProperties
<1> QED
  BY <1>1 DEF Has

LEMMA FollowedAppend ==
    ASSUME NEW T, NEW s \in Seq(T), NEW e \in T, NEW S, NEW R, e \notin S
    PROVE  /\ e \in R => Followed(Append(s, e), S, R)
           /\ Followed(s, S, R) => Followed(Append(s, e), S, R)
<1>1. /\ DOMAIN s = 1..Len(s) /\ Len(s) \in Nat
      /\ DOMAIN Append(s, e) = 1..(Len(s) + 1)
      /\ \A i \in 1..Len(s) : Append(s, e)[i] = s[i]
      /\ Append(s, e)[Len(s) + 1] = e
  BY AppendProperties, LenProperties
<1> DEFINE a == Append(s, e)
           n == Len(s)
<1>2. ASSUME e \in R, NEW i \in DOMAIN a, a[i] \in S
      PROVE  \E j \in DOMAIN a : j > i /\ a[j] \in R
  <2>1. i \in 1..n
    BY <1>1, <1>2
  <2>2. n + 1 \in DOMAIN a /\ n + 1 > i /\ a[n + 1] \in R
    BY <1>1, <1>2, <2>1
  <2> QED
    BY <2>2
<1>3. ASSUME Followed(s, S, R), NEW i \in DOMAIN a, a[i] \in S
      PROVE  \E j \in DOMAIN a : j > i /\ a[j] \in R
  <2>1. i \in DOMAIN s /\ s[i] \in S
    BY <1>1, <1>3
  <2>2. PICK j \in DOMAIN s : j > i /\ s[j] \in R
    BY <1>3, <2>1 DEF Followed
  <2> QED
    BY <1>1, <2>2
<1> QED
  BY <1>2, <1>3 DEF Followed

\* A queue that is read at its head.
LEMMA HasTail ==
    ASSUME NEW T, NEW s \in Seq(T), s # <<>>, NEW S
    PROVE  Has(s, S) <=> Head(s) \in S \/ Has(Tail(s), S)
<1>1. /\ Len(s) \in Nat \ {0} /\ DOMAIN s = 1..Len(s) /\ Head(s) = s[1]
      /\ DOMAIN Tail(s) = 1..(Len(s) - 1)
      /\ \A i \in 1..(Len(s) - 1) : Tail(s)[i] = s[i + 1]
  BY HeadTailProperties, LenProperties, EmptySeq
<1>2. ASSUME NEW i \in DOMAIN s, s[i] \in S
      PROVE  Head(s) \in S \/ Has(Tail(s), S)
  <2>1. CASE i = 1
    BY <1>1, <1>2, <2>1
  <2>2. CASE i # 1
    <3>1. i - 1 \in DOMAIN Tail(s) /\ Tail(s)[i - 1] = s[i]
      BY <1>1, <2>2
    <3> QED
      BY <1>2, <3>1 DEF Has
  <2> QED
    BY <2>1, <2>2
<1>3. ASSUME NEW i \in DOMAIN Tail(s), Tail(s)[i] \in S
      PROVE  Has(s, S)
  <2>1. i + 1 \in DOMAIN s /\ s[i + 1] = Tail(s)[i]
    BY <1>1
  <2> QED
    BY <1>3, <2>1 DEF Has
<1>4. Head(s) \in S => Has(s, S)
  BY <1>1 DEF Has
<1> QED
  BY <1>2, <1>3, <1>4 DEF Has

LEMMA FollowedTail ==
    ASSUME NEW T, NEW s \in Seq(T), s # <<>>, NEW S, NEW R, Followed(s, S, R)
    PROVE  Followed(Tail(s), S, R) /\ (Head(s) \in S => Has(Tail(s), R))
<1>1. /\ Len(s) \in Nat \ {0} /\ DOMAIN s = 1..Len(s) /\ Head(s) = s[1]
      /\ DOMAIN Tail(s) = 1..(Len(s) - 1)
      /\ \A i \in 1..(Len(s) - 1) : Tail(s)[i] = s[i + 1]
  BY HeadTailProperties, LenProperties, EmptySeq
<1>2. ASSUME NEW i \in DOMAIN s, s[i] \in S
      PROVE  \E j \in DOMAIN Tail(s) : j > i - 1 /\ Tail(s)[j] \in R
  <2>1. PICK j \in DOMAIN s : j > i /\ s[j] \in R
    BY <1>2 DEF Followed
  <2>2. j - 1 \in DOMAIN Tail(s) /\ j - 1 > i - 1 /\ Tail(s)[j - 1] = s[j]
    BY <1>1, <2>1
  <2> QED
    BY <2>1, <2>2
<1>3. Head(s) \in S => Has(Tail(s), R)
  <2>1. 1 \in DOMAIN s
    BY <1>1
  <2> QED
    BY <1>1, <1>2, <2>1 DEF Has
<1>4. ASSUME NEW i \in DOMAIN Tail(s), Tail(s)[i] \in S
      PROVE  \E j \in DOMAIN Tail(s) : j > i /\ Tail(s)[j] \in R
  <2>1. i + 1 \in DOMAIN s /\ s[i + 1] \in S /\ (i + 1) - 1 = i
    BY <1>1, <1>4
  <2> QED
    BY <1>2, <2>1
<1> QED
  BY <1>3, <1>4 DEF Followed

\* The shortest queues.
LEMMA EmptyQueue ==
    ASSUME NEW S, NEW R
    PROVE  ~Has(<<>>, S) /\ Followed(<<>>, S, R)
  BY DEF Has, Followed

LEMMA OneInQueue ==
    ASSUME NEW e, NEW S, NEW R, e \notin S
    PROVE  ~Has(<<e>>, S) /\ Followed(<<e>>, S, R) /\ (e \in R => Has(<<e>>, R))
<1>1. DOMAIN <<e>> = {1} /\ <<e>>[1] = e
  OBVIOUS
<1> QED
  BY <1>1 DEF Has, Followed

================================================================================
