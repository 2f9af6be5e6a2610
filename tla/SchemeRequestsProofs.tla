------------------------- MODULE SchemeRequestsProofs -------------------------
(* Theorems about SchemeRequests, for all schemes, payloads, general routes,  *)
(* parents of namespaces, and sequences of requests.                          *)
EXTENDS SchemeRequests, FiniteSetTheorems, WellFoundedInduction, TLAPS

-----------------------------------------------------------------------------
(* Loops                                                                   *)

\* A set of naturals has a least one.
LEMMA LeastNatural ==
    ASSUME NEW S \in SUBSET Nat, S # {}
    PROVE  \E x \in S : \A y \in S : x <= y
<1> DEFINE R == OpToRel(<, Nat)
<1>1. IsWellFoundedOn(R, Nat)
  BY NatLessThanWellFounded
<1> HIDE DEF R
<1>2. PICK x \in S : \A y \in S : <<y, x>> \notin R
  BY <1>1, WFMin
<1>3. ASSUME NEW y \in S PROVE x <= y
  <2>1. y < x => <<y, x>> \in R
    BY DEF R, OpToRel
  <2> QED
    BY <1>2, <2>1
<1> QED
  BY <1>3

\* Induction over the naturals, for a set rather than a predicate.
LEMMA SetInduction ==
    ASSUME NEW T, 0 \in T, \A n \in Nat : n \in T => n + 1 \in T
    PROVE  \A n \in Nat : n \in T
<1> SUFFICES ASSUME ~(\A n \in Nat : n \in T) PROVE FALSE
  OBVIOUS
<1> DEFINE S == {n \in Nat : n \notin T}
<1>1. S \in SUBSET Nat /\ S # {}
  OBVIOUS
<1>2. PICK x \in S : \A y \in S : x <= y
  <2> HIDE DEF S
  <2> QED
    BY <1>1, LeastNatural
<1>3. x # 0 /\ x - 1 \in Nat /\ ~(x <= x - 1)
  OBVIOUS
<1>4. x - 1 \in T /\ (x - 1) + 1 = x
  BY <1>2, <1>3
<1> QED
  BY <1>3, <1>4

\* The same up to a bound.
LEMMA LoopInduction ==
    ASSUME NEW n \in Nat, NEW T, 0 \in T, \A i \in 1..n : i - 1 \in T => i \in T
    PROVE  \A i \in 0..n : i \in T
<1> DEFINE U == {i \in Nat : i \in 0..n => i \in T}
<1>1. 0 \in U
  OBVIOUS
<1>2. ASSUME NEW i \in Nat, i \in U PROVE i + 1 \in U
  <2>1. SUFFICES ASSUME i + 1 \in 0..n PROVE i + 1 \in T
    OBVIOUS
  <2>2. i + 1 \in 1..n /\ (i + 1) - 1 = i /\ i \in 0..n
    BY <2>1
  <2> QED
    BY <1>2, <2>2
<1>3. \A i \in Nat : i \in U
  <2> HIDE DEF U
  <2> QED
    BY <1>1, <1>2, SetInduction
<1> QED
  BY <1>3

\* What the first state has and every iteration keeps, all states have.
LEMMA LoopTyped ==
    ASSUME NEW n \in Nat, NEW S, NEW f, f[0] \in S,
           \A i \in 1..n : f[i - 1] \in S => f[i] \in S
    PROVE  \A i \in 0..n : f[i] \in S
<1> DEFINE T == {i \in 0..n : f[i] \in S}
<1>1. 0 \in T
  OBVIOUS
<1>2. ASSUME NEW i \in 1..n, i - 1 \in T PROVE i \in T
  <2>1. i \in 0..n
    OBVIOUS
  <2> QED
    BY <1>2, <2>1
<1>3. \A i \in 0..n : i \in T
  <2> HIDE DEF T
  <2> QED
    BY <1>1, <1>2, LoopInduction
<1> QED
  BY <1>3

\* The states of a loop that makes step[i] of the state in iteration i.
LoopStates(n, S, base, step, f) ==
    /\ f \in [0..n -> S] /\ f[0] = base
    /\ \A i \in 1..n : f[i] = step[i][f[i - 1]]

LEMMA TypedLoop ==
    ASSUME NEW n \in Nat, NEW S, NEW base \in S, NEW step \in [1..n -> [S -> S]]
    PROVE  \E f : LoopStates(n, S, base, step, f)
<1> DEFINE Loop(f, m) == /\ f \in [0..m -> S] /\ f[0] = base
                         /\ \A i \in 1..m : f[i] = step[i][f[i - 1]]
           T == {m \in 0..n : \E f : Loop(f, m)}
<1>1. 0 \in T
  <2>1. Loop([i \in 0..0 |-> base], 0)
    OBVIOUS
  <2> HIDE DEF Loop
  <2> QED
    BY <2>1
<1>2. ASSUME NEW k \in 1..n, k - 1 \in T PROVE k \in T
  <2> DEFINE m == k - 1
  <2>1. PICK f : Loop(f, m)
    BY <1>2
  <2>2. m \in Nat /\ k = m + 1 /\ k \in 0..n /\ m \in 0..m
    OBVIOUS
  <2> HIDE DEF m
  <2> DEFINE g == [i \in 0..k |-> IF i = k THEN step[k][f[m]] ELSE f[i]]
  <2>3. g \in [0..k -> S]
    <3>1. step[k] \in [S -> S] /\ f[m] \in S
      BY <2>1, <2>2
    <3>2. \A i \in 0..k : i # k => i \in 0..m
      BY <2>2
    <3> QED
      BY <2>1, <3>1, <3>2
  <2>4. g[0] = base
    BY <2>1, <2>2
  <2>5. ASSUME NEW i \in 1..k PROVE g[i] = step[i][g[i - 1]]
    <3>1. CASE i = k
      <4>1. i - 1 = m /\ i - 1 \in 0..k /\ i - 1 # k /\ i \in 0..k
        BY <2>2, <3>1
      <4>2. g[i] = step[k][f[m]] /\ g[i - 1] = f[m]
        BY <3>1, <4>1
      <4> HIDE DEF g
      <4> QED
        BY <3>1, <4>2
    <3>2. CASE i # k
      <4>1. i \in 1..m /\ i \in 0..k /\ i - 1 \in 0..k /\ i - 1 # k
        BY <2>2, <3>2
      <4>2. g[i] = f[i] /\ g[i - 1] = f[i - 1]
        BY <3>2, <4>1
      <4> HIDE DEF g
      <4> QED
        BY <2>1, <4>1, <4>2
    <3> QED
      BY <3>1, <3>2
  <2> HIDE DEF g
  <2>6. Loop(g, k)
    BY <2>3, <2>4, <2>5
  <2> HIDE DEF Loop
  <2> QED
    BY <2>2, <2>6
<1>3. n \in T
  <2> HIDE DEF T
  <2>1. \A i \in 0..n : i \in T
    BY <1>1, <1>2, LoopInduction
  <2> QED
    BY <2>1
<1>4. PICK f : Loop(f, n)
  BY <1>3
<1> QED
  BY <1>4 DEF LoopStates

-----------------------------------------------------------------------------
(* Slices                                                                  *)

SliceOf(n, Elems) == [array : [1..n -> Elems], len : 0..n, deleted : BOOLEAN]

LEMMA SliceType ==
    ASSUME NEW Elems, NEW list \in Seq(Elems)
    PROVE  /\ Slice(list) \in SliceOf(Len(list), Elems)
           /\ Slice(list).array = list /\ Slice(list).len = Len(list)
           /\ ~Slice(list).deleted
  BY DEF Slice, SliceOf

\* What a cut at i makes of a slice s over an array of length n.
IsCut(n, s, i, t) ==
    /\ t.deleted = s.deleted
    /\ t.len = IF i < s.len THEN s.len - 1 ELSE i - 1
    /\ \A j \in 1..n : t.array[j] =
          IF i < s.len /\ j \in i..(s.len - 1) THEN s.array[j + 1] ELSE s.array[j]

LEMMA CutEntry ==
    ASSUME NEW n, NEW s, NEW i, NEW t, IsCut(n, s, i, t), NEW j \in 1..n
    PROVE  t.array[j] = IF i < s.len /\ j \in i..(s.len - 1) THEN s.array[j + 1]
                        ELSE s.array[j]
  BY DEF IsCut

LEMMA CutAtType ==
    ASSUME NEW Elems, NEW n \in Nat, NEW s \in SliceOf(n, Elems), NEW i \in 1..n
    PROVE  CutAt(s, i) \in SliceOf(n, Elems) /\ IsCut(n, s, i, CutAt(s, i))
<1>0. /\ s.array \in [1..n -> Elems] /\ DOMAIN s.array = 1..n
      /\ s.len \in 0..n /\ s.deleted \in BOOLEAN
  BY DEF SliceOf
<1>1. CASE i < s.len
  <2> DEFINE cut == [j \in DOMAIN s.array |->
                       IF j \in i..(s.len - 1) THEN s.array[j + 1] ELSE s.array[j]]
  <2>1. CutAt(s, i) = [array |-> cut, len |-> s.len - 1, deleted |-> s.deleted]
    BY <1>1 DEF CutAt, SliceOf
  <2>2. cut \in [1..n -> Elems] /\ s.len - 1 \in 0..n
    BY <1>0, <1>1
  <2>3. \A j \in 1..n : cut[j] = IF j \in i..(s.len - 1) THEN s.array[j + 1]
                                 ELSE s.array[j]
    BY <1>0
  <2> HIDE DEF cut
  <2> QED
    BY <1>0, <1>1, <2>1, <2>2, <2>3 DEF SliceOf, IsCut
<1>2. CASE ~(i < s.len)
  <2>1. CutAt(s, i) = [array |-> s.array, len |-> i - 1, deleted |-> s.deleted]
    BY <1>2 DEF CutAt, SliceOf
  <2> QED
    BY <1>0, <1>2, <2>1 DEF SliceOf, IsCut
<1> QED
  BY <1>1, <1>2

-----------------------------------------------------------------------------
(* Lists whose hits are cut                                                *)

\* The states of the loop over the list.
CutLoop(list, Elems, hits, deletesAt, cut) ==
    /\ cut \in [0..Len(list) -> SliceOf(Len(list), Elems)]
    /\ cut[0] = Slice(list)
    /\ \A i \in 1..Len(list) : cut[i] = CutStep(cut[i - 1], i, hits, deletesAt)

IsCutLoop(list, hits, deletesAt, f) ==
    f = [i \in 0..Len(list) |-> IF i = 0 THEN Slice(list)
                                ELSE CutStep(f[i - 1], i, hits, deletesAt)]

\* The recursive function that the loop is written as is the sequence of states.
LEMMA CutLoopExists ==
    ASSUME NEW Elems, NEW list \in Seq(Elems), NEW hits, NEW deletesAt
    PROVE  \E cut : /\ CutLoop(list, Elems, hits, deletesAt, cut)
                    /\ CutHits(list, hits, deletesAt) = cut[Len(list)]
<1> DEFINE n == Len(list)
           S == SliceOf(n, Elems)
           step == [i \in 1..n |-> [s \in S |-> CutStep(s, i, hits, deletesAt)]]
           cut == CHOOSE f : IsCutLoop(list, hits, deletesAt, f)
<1>0. n \in Nat /\ Slice(list) \in S
  BY SliceType
<1>1. ASSUME NEW s \in S, NEW i \in 1..n PROVE CutStep(s, i, hits, deletesAt) \in S
  <2>1. CutAt(s, i) \in S
    BY <1>0, CutAtType
  <2>2. [s EXCEPT !.deleted = TRUE] \in S
    BY DEF SliceOf
  <2> HIDE DEF S
  <2> QED
    BY <2>1, <2>2 DEF CutStep
<1>2. /\ step \in [1..n -> [S -> S]]
      /\ \A s \in S, i \in 1..n : step[i][s] = CutStep(s, i, hits, deletesAt)
  <2> HIDE DEF S, n
  <2> QED
    BY <1>1
<1>3. CutHits(list, hits, deletesAt) = cut[n]
  BY DEF CutHits, IsCutLoop
<1> HIDE DEF step, S, n, cut
<1>4. PICK f : LoopStates(n, S, Slice(list), step, f)
  BY <1>0, <1>2, TypedLoop
<1>5. ASSUME NEW i \in 0..n
      PROVE  f[i] = IF i = 0 THEN Slice(list) ELSE CutStep(f[i - 1], i, hits, deletesAt)
  <2>1. CASE i = 0
    BY <1>4, <2>1 DEF LoopStates
  <2>2. CASE i # 0
    <3>1. i \in 1..n /\ f[i - 1] \in S
      BY <1>0, <1>4, <2>2 DEF LoopStates
    <3> QED
      BY <1>2, <1>4, <2>2, <3>1 DEF LoopStates
  <2> QED
    BY <2>1, <2>2
<1>6. IsCutLoop(list, hits, deletesAt, f)
  BY <1>4, <1>5 DEF IsCutLoop, LoopStates, n
<1>7. cut = [i \in 0..n |-> IF i = 0 THEN Slice(list)
                            ELSE CutStep(cut[i - 1], i, hits, deletesAt)]
  <2>1. IsCutLoop(list, hits, deletesAt, cut)
    BY <1>6 DEF cut
  <2> QED
    BY <2>1 DEF IsCutLoop, n
<1>8. /\ cut[0] = Slice(list)
      /\ \A i \in 1..n : cut[i] = CutStep(cut[i - 1], i, hits, deletesAt)
  BY <1>0, <1>7
<1>9. \A i \in 0..n : cut[i] \in S
  <2>1. \A i \in 1..n : cut[i - 1] \in S => cut[i] \in S
    BY <1>1, <1>8
  <2> QED
    BY <1>0, <1>8, <2>1, LoopTyped
<1>10. cut \in [0..n -> S]
  BY <1>7, <1>9
<1> QED
  BY <1>3, <1>8, <1>10 DEF CutLoop, S, n

\* One iteration, by what it does to the slice.
LEMMA CutLoopStep ==
    ASSUME NEW Elems, NEW list \in Seq(Elems), NEW hits, NEW deletesAt, NEW cut,
           CutLoop(list, Elems, hits, deletesAt, cut), NEW i \in 1..Len(list)
    PROVE  LET n == Len(list)
               s == cut[i - 1]
               t == cut[i] IN
           /\ s \in SliceOf(n, Elems) /\ t \in SliceOf(n, Elems)
           /\ \/ s.array[i] \notin hits /\ t = s
              \/ /\ s.array[i] \in hits /\ s.len \in deletesAt
                 /\ t.array = s.array /\ t.deleted
              \/ /\ s.array[i] \in hits /\ s.len \notin deletesAt
                 /\ IsCut(n, s, i, t)
<1>1. Len(list) \in Nat /\ i - 1 \in 0..Len(list) /\ i \in 0..Len(list)
  OBVIOUS
<1> DEFINE n == Len(list)
           s == cut[i - 1]
           t == cut[i]
<1>2. /\ s \in SliceOf(n, Elems) /\ t \in SliceOf(n, Elems)
      /\ t = CutStep(s, i, hits, deletesAt)
  BY <1>1 DEF CutLoop
<1> HIDE DEF n, s, t
<1>3. n \in Nat /\ i \in 1..n
  BY <1>1 DEF n
<1>4. IsCut(n, s, i, CutAt(s, i))
  BY <1>2, <1>3, CutAtType
<1>5. /\ [s EXCEPT !.deleted = TRUE].array = s.array
      /\ [s EXCEPT !.deleted = TRUE].deleted
  BY <1>2 DEF SliceOf
<1> QED
  BY <1>2, <1>4, <1>5 DEF n, s, t, CutStep

\* The cuts put nothing in, and take nothing out but hits.
LEMMA CutLoopKeeps ==
    ASSUME NEW Elems, NEW list \in Seq(Elems), NEW hits, NEW deletesAt, NEW cut,
           CutLoop(list, Elems, hits, deletesAt, cut)
    PROVE  LET end == cut[Len(list)] IN
           /\ end \in SliceOf(Len(list), Elems)
           /\ end.array \in Seq(Elems) /\ Len(end.array) = Len(list)
           /\ end.len \in 0..Len(list)
           /\ ToSet(end.array) \subseteq ToSet(list)
           /\ ToSet(list) \ hits \subseteq ToSet(end.array)
<1> DEFINE n == Len(list)
           S == {s \in SliceOf(n, Elems) :
                   /\ \A j \in 1..n : \E k \in 1..n : s.array[j] = list[k]
                   /\ \A k \in 1..n : \/ list[k] \in hits
                                      \/ \E j \in 1..n : s.array[j] = list[k]}
<1>0. n \in Nat /\ list \in [1..n -> Elems] /\ DOMAIN list = 1..n
  OBVIOUS
<1>2. cut[0] \in S
  <2>1. cut[0] = Slice(list)
    BY DEF CutLoop
  <2>2. Slice(list) \in SliceOf(n, Elems) /\ Slice(list).array = list
    BY SliceType
  <2> QED
    BY <2>1, <2>2
<1>3. ASSUME NEW i \in 1..n, cut[i - 1] \in S PROVE cut[i] \in S
  <2> DEFINE s == cut[i - 1]
             t == cut[i]
  <2>1. /\ s \in SliceOf(n, Elems) /\ t \in SliceOf(n, Elems)
        /\ \/ t.array = s.array
           \/ s.array[i] \in hits /\ IsCut(n, s, i, t)
    BY CutLoopStep
  <2>2. s.len \in 0..n
    BY <2>1 DEF SliceOf
  <2> HIDE DEF s, t
  <2>3. /\ \A j \in 1..n : \E k \in 1..n : s.array[j] = list[k]
        /\ \A k \in 1..n : \/ list[k] \in hits
                           \/ \E j \in 1..n : s.array[j] = list[k]
    BY <1>3 DEF s
  <2>4. CASE t.array = s.array
    BY <2>1, <2>3, <2>4 DEF t
  <2>5. CASE t.array # s.array
    <3>1. ASSUME NEW j \in 1..n PROVE \E k \in 1..n : t.array[j] = list[k]
      <4>1. j \in i..(s.len - 1) => j + 1 \in 1..n
        BY <1>0, <2>2
      <4>2. \/ t.array[j] = s.array[j]
            \/ t.array[j] = s.array[j + 1] /\ j + 1 \in 1..n
        <5>1. t.array[j] = IF i < s.len /\ j \in i..(s.len - 1)
                           THEN s.array[j + 1] ELSE s.array[j]
          BY <2>1, <2>5, CutEntry
        <5> QED
          BY <4>1, <5>1
      <4>3. PICK m \in 1..n : t.array[j] = s.array[m]
        BY <4>2
      <4>4. PICK k \in 1..n : s.array[m] = list[k]
        BY <2>3
      <4> QED
        BY <4>3, <4>4
    <3>2. ASSUME NEW k \in 1..n, list[k] \notin hits
          PROVE  \E j \in 1..n : t.array[j] = list[k]
      <4>1. PICK j \in 1..n : s.array[j] = list[k]
        BY <2>3, <3>2
      <4>2. j # i
        BY <2>1, <2>5, <3>2, <4>1
      <4>3. CASE i < s.len /\ j \in i..s.len
        <5>1. j - 1 \in 1..n /\ j - 1 \in i..(s.len - 1) /\ (j - 1) + 1 = j
          BY <2>2, <4>2, <4>3
        <5> QED
          BY <2>1, <2>5, <4>1, <4>3, <5>1, CutEntry
      <4>4. CASE ~(i < s.len /\ j \in i..s.len)
        <5>1. ~(i < s.len /\ j \in i..(s.len - 1))
          BY <2>2, <4>4
        <5> QED
          BY <2>1, <2>5, <4>1, <5>1, CutEntry
      <4> QED
        BY <4>3, <4>4
    <3> QED
      BY <2>1, <3>1, <3>2 DEF t
  <2> QED
    BY <2>4, <2>5
<1>4. cut[n] \in S
  <2> HIDE DEF S
  <2>1. \A i \in 0..n : cut[i] \in S
    BY <1>0, <1>2, <1>3, LoopTyped
  <2> QED
    BY <1>0, <2>1
<1> DEFINE array == cut[n].array
<1>5. array \in [1..n -> Elems] /\ cut[n].len \in 0..n
  BY <1>4 DEF SliceOf
<1>6. array \in Seq(Elems) /\ Len(array) = n /\ DOMAIN array = 1..n
  <2> HIDE DEF array
  <2> QED
    BY <1>0, <1>5
<1>7. /\ ToSet(array) = {array[j] : j \in 1..n}
      /\ ToSet(list) = {list[k] : k \in 1..n}
  BY <1>0, <1>6 DEF ToSet
<1>8. /\ \A j \in 1..n : \E k \in 1..n : array[j] = list[k]
      /\ \A k \in 1..n : list[k] \in hits \/ \E j \in 1..n : array[j] = list[k]
  BY <1>4
<1>9. cut[n] \in SliceOf(n, Elems)
  BY <1>4
<1> HIDE DEF array, n
<1>10. ToSet(array) \subseteq ToSet(list) /\ ToSet(list) \ hits \subseteq ToSet(array)
  BY <1>7, <1>8
<1> QED
  BY <1>5, <1>6, <1>9, <1>10 DEF array, n

\* A list that cuts change has an element twice.
LEMMA CutLoopRepeats ==
    ASSUME NEW Elems, NEW list \in Seq(Elems), NEW hits, NEW cut,
           CutLoop(list, Elems, hits, {}, cut)
    PROVE  LET array == cut[Len(list)].array IN
           \/ array = list
           \/ \E j, k \in 1..Len(list) : j # k /\ array[j] = array[k]
<1> DEFINE n == Len(list)
           S == {s \in SliceOf(n, Elems) :
                   \/ s.array = list
                   \/ \E j, k \in 1..n : j # k /\ s.array[j] = s.array[k]}
<1>0. n \in Nat /\ list \in [1..n -> Elems]
  OBVIOUS
<1>2. cut[0] \in S
  <2>1. cut[0] = Slice(list)
    BY DEF CutLoop
  <2>2. Slice(list) \in SliceOf(n, Elems) /\ Slice(list).array = list
    BY SliceType
  <2> QED
    BY <2>1, <2>2
<1>3. ASSUME NEW i \in 1..n, cut[i - 1] \in S PROVE cut[i] \in S
  <2> DEFINE s == cut[i - 1]
             t == cut[i]
  <2>1. /\ s \in SliceOf(n, Elems) /\ t \in SliceOf(n, Elems)
        /\ \/ t = s
           \/ \A j \in 1..n : t.array[j] =
                 IF i < s.len /\ j \in i..(s.len - 1) THEN s.array[j + 1]
                 ELSE s.array[j]
    BY CutLoopStep DEF IsCut
  <2>2. /\ s.len \in 0..n /\ s.array \in [1..n -> Elems]
        /\ t.array \in [1..n -> Elems]
    BY <2>1 DEF SliceOf
  <2> HIDE DEF s, t
  <2>3. CASE t = s
    BY <1>3, <2>3 DEF s, t
  <2>4. CASE t # s /\ i < s.len
    <3>1. /\ s.len \in 1..n /\ s.len - 1 \in 1..n /\ s.len # s.len - 1
          /\ s.len - 1 \in i..(s.len - 1) /\ s.len \notin i..(s.len - 1)
          /\ (s.len - 1) + 1 = s.len
      BY <2>2, <2>4
    <3>2. t.array[s.len - 1] = s.array[s.len] /\ t.array[s.len] = s.array[s.len]
      BY <2>1, <2>4, <3>1
    <3>3. \E j, k \in 1..n : j # k /\ t.array[j] = t.array[k]
      BY <3>1, <3>2
    <3> QED
      BY <2>1, <3>3 DEF t
  <2>5. CASE t # s /\ ~(i < s.len)
    <3>1. t.array = s.array
      BY <2>1, <2>2, <2>5
    <3> QED
      BY <1>3, <2>1, <3>1 DEF s, t
  <2> QED
    BY <2>3, <2>4, <2>5
<1>4. \A i \in 0..n : cut[i] \in S
  <2> HIDE DEF S
  <2> QED
    BY <1>0, <1>2, <1>3, LoopTyped
<1> QED
  BY <1>0, <1>4

\* A single hit is cut out.
LEMMA CutLoopCutsOne ==
    ASSUME NEW Elems, NEW list \in Seq(Elems), NEW hits, NEW deletesAt, NEW cut,
           CutLoop(list, Elems, hits, deletesAt, cut),
           Len(list) \notin deletesAt,
           NEW k \in 1..Len(list), list[k] \in hits,
           \A j \in 1..Len(list) : j # k => list[j] \notin hits
    PROVE  LET end == cut[Len(list)] IN
           /\ end.len = Len(list) - 1 /\ ~end.deleted
           /\ \A j \in 1..end.len :
                 end.array[j] = IF j < k THEN list[j] ELSE list[j + 1]
<1> DEFINE n == Len(list)
           Same(s) == /\ s.len = n /\ ~s.deleted
                      /\ \A j \in 1..n : s.array[j] = list[j]
           Cut(s) == /\ s.len = n - 1 /\ ~s.deleted
                     /\ \A j \in 1..n : s.array[j] = IF j \in k..(n - 1)
                                                     THEN list[j + 1] ELSE list[j]
           T == {i \in 0..n : IF i < k THEN Same(cut[i]) ELSE Cut(cut[i])}
<1>0. n \in Nat /\ list \in [1..n -> Elems]
  OBVIOUS
<1>2. 0 \in T
  <2>1. Same(cut[0])
    BY SliceType DEF CutLoop
  <2> QED
    BY <1>0, <2>1
<1>3. ASSUME NEW i \in 1..n, i - 1 \in T PROVE i \in T
  <2> DEFINE s == cut[i - 1]
             t == cut[i]
  <2>1. \/ s.array[i] \notin hits /\ t = s
        \/ s.array[i] \in hits /\ s.len \in deletesAt
        \/ /\ s.array[i] \in hits
           /\ t.deleted = s.deleted
           /\ t.len = IF i < s.len THEN s.len - 1 ELSE i - 1
           /\ \A j \in 1..n : t.array[j] =
                 IF i < s.len /\ j \in i..(s.len - 1) THEN s.array[j + 1]
                 ELSE s.array[j]
    BY CutLoopStep DEF IsCut
  <2>2. IF i - 1 < k THEN Same(s) ELSE Cut(s)
    BY <1>3
  <2> HIDE DEF s, t
  <2>3. CASE i < k
    <3>1. Same(s) /\ list[i] \notin hits
      BY <2>2, <2>3
    <3>2. t = s
      BY <2>1, <3>1
    <3> QED
      BY <1>0, <2>3, <3>1, <3>2 DEF t
  <2>4. CASE i = k
    <3>1. Same(s) /\ s.array[i] \in hits /\ s.len \notin deletesAt
      BY <1>0, <2>2, <2>4
    <3>2. t.len = n - 1 /\ ~t.deleted
      BY <1>0, <2>1, <2>4, <3>1
    <3>3. \A j \in 1..n : t.array[j] = IF i < n /\ j \in i..(n - 1) THEN s.array[j + 1]
                                     ELSE s.array[j]
      BY <2>1, <3>1
    <3>4. ASSUME NEW j \in 1..n
          PROVE  t.array[j] = IF j \in k..(n - 1) THEN list[j + 1] ELSE list[j]
      <4>1. CASE j \in k..(n - 1)
        <5>1. i < n /\ j \in i..(n - 1) /\ j + 1 \in 1..n
          BY <1>0, <2>4, <4>1
        <5> QED
          BY <3>1, <3>3, <4>1, <5>1
      <4>2. CASE j \notin k..(n - 1)
        BY <2>4, <3>1, <3>3, <4>2
      <4> QED
        BY <4>1, <4>2
    <3> QED
      BY <1>0, <2>4, <3>2, <3>4 DEF t
  <2>5. CASE k < i
    <3>1. Cut(s)
      BY <2>2, <2>5
    <3>2. s.array[i] \notin hits
      <4>1. i \in k..(n - 1) => i + 1 \in 1..n /\ i + 1 # k
        BY <1>0, <2>5
      <4> QED
        BY <2>5, <3>1, <4>1
    <3>3. t = s
      BY <2>1, <3>2
    <3> QED
      BY <1>0, <2>5, <3>1, <3>3 DEF t
  <2> QED
    BY <2>3, <2>4, <2>5
<1>4. n \in T
  <2> HIDE DEF T
  <2>1. \A i \in 0..n : i \in T
    BY <1>0, <1>2, <1>3, LoopInduction
  <2> QED
    BY <1>0, <2>1
<1>5. Cut(cut[n])
  BY <1>0, <1>4
<1>6. ASSUME NEW j \in 1..(n - 1)
      PROVE  cut[n].array[j] = IF j < k THEN list[j] ELSE list[j + 1]
  BY <1>0, <1>5
<1> QED
  BY <1>5, <1>6

\* Of a list without hits nothing is cut.
LEMMA CutLoopCutsNone ==
    ASSUME NEW Elems, NEW list \in Seq(Elems), NEW hits, NEW deletesAt, NEW cut,
           CutLoop(list, Elems, hits, deletesAt, cut),
           \A j \in 1..Len(list) : list[j] \notin hits
    PROVE  LET end == cut[Len(list)] IN
           end.len = Len(list) /\ ~end.deleted /\ end.array = list
<1> DEFINE S == {Slice(list)}
<1>2. cut[0] \in S
  BY DEF CutLoop
<1>3. ASSUME NEW i \in 1..Len(list), cut[i - 1] \in S PROVE cut[i] \in S
  <2>1. cut[i - 1].array[i] \notin hits
    BY <1>3, SliceType
  <2> QED
    BY <1>3, <2>1, CutLoopStep DEF IsCut
<1>4. \A i \in 0..Len(list) : cut[i] \in S
  <2> HIDE DEF S
  <2> QED
    BY Len(list) \in Nat, <1>2, <1>3, LoopTyped
<1> QED
  BY <1>4, SliceType

-----------------------------------------------------------------------------
(* The list of namespaces without the master one                           *)

LEMMA MasterLoop ==
    ASSUME NEW list \in Seq(Namespaces)
    PROVE  \E cut : /\ CutLoop(list, Namespaces, {Master}, {}, cut)
                    /\ WithoutMaster(list) = cut[Len(list)]
  BY CutLoopExists DEF WithoutMaster

\* The namespaces but the master one are the same.
LEMMA WithoutMasterKeeps ==
    ASSUME NEW list \in Seq(Namespaces)
    PROVE  LET s == WithoutMaster(list) IN
           /\ s.array \in Seq(Namespaces) /\ Len(s.array) = Len(list)
           /\ s.len \in 0..Len(list)
           /\ ToSet(s.array) \union {Master} = ToSet(list) \union {Master}
<1>1. PICK cut : /\ CutLoop(list, Namespaces, {Master}, {}, cut)
                 /\ WithoutMaster(list) = cut[Len(list)]
  BY MasterLoop
<1> DEFINE s == WithoutMaster(list)
<1>2. /\ s.array \in Seq(Namespaces) /\ Len(s.array) = Len(list)
      /\ s.len \in 0..Len(list)
      /\ ToSet(s.array) \subseteq ToSet(list)
      /\ ToSet(list) \ {Master} \subseteq ToSet(s.array)
  BY <1>1, CutLoopKeeps
<1> HIDE DEF s
<1> QED
  BY <1>2 DEF s

\* A list that it changes has a namespace twice afterwards.
LEMMA WithoutMasterRepeats ==
    ASSUME NEW list \in Seq(Namespaces)
    PROVE  LET array == WithoutMaster(list).array IN
           \/ array = list
           \/ \E j, k \in 1..Len(list) : j # k /\ array[j] = array[k]
  BY MasterLoop, CutLoopRepeats

\* What is left of a list that has the master namespace at most once.
LEMMA OthersRemain ==
    ASSUME NEW list \in Seq(Namespaces), NEW others,
           others = {i \in DOMAIN list : list[i] # Master},
           Cardinality(DOMAIN list \ others) <= 1
    PROVE  LET s == WithoutMaster(list) IN
           /\ IsFiniteSet(others) /\ Cardinality(others) \in Nat
           /\ s.len = Cardinality(others)
           /\ ToSet(SubSeq(s.array, 1, s.len)) = {list[i] : i \in others}
<1> DEFINE n == Len(list)
           s == WithoutMaster(list)
           masters == DOMAIN list \ others
<1>0. n \in Nat /\ list \in [1..n -> Namespaces] /\ DOMAIN list = 1..n
  OBVIOUS
<1>1. /\ IsFiniteSet(1..n) /\ Cardinality(1..n) = n
      /\ IsFiniteSet(others) /\ IsFiniteSet(masters)
      /\ Cardinality(others) \in Nat /\ Cardinality(masters) \in Nat
  <2>1. IsFiniteSet(1..n) /\ Cardinality(1..n) = n
    BY <1>0, FS_Interval
  <2>2. others \in SUBSET (1..n) /\ masters \in SUBSET (1..n)
    BY <1>0
  <2> HIDE DEF n, masters
  <2> QED
    BY <2>1, <2>2, FS_Subset, FS_CardinalityType
<1>2. s.array \in Seq(Namespaces) /\ Len(s.array) = n /\ s.len \in 0..n
  BY WithoutMasterKeeps
<1>3. /\ SubSeq(s.array, 1, s.len) \in Seq(Namespaces)
      /\ DOMAIN SubSeq(s.array, 1, s.len) = 1..s.len
      /\ \A j \in 1..s.len : SubSeq(s.array, 1, s.len)[j] = s.array[j]
  <2> HIDE DEF s
  <2> QED
    BY <1>0, <1>2
<1>4. ToSet(SubSeq(s.array, 1, s.len)) = {s.array[j] : j \in 1..s.len}
  <2> HIDE DEF s
  <2> QED
    BY <1>3 DEF ToSet
<1>7. PICK cut : /\ CutLoop(list, Namespaces, {Master}, {}, cut)
                 /\ s = cut[n]
  BY MasterLoop
<1>5. CASE masters = {}
  <2>1. others = 1..n /\ \A j \in 1..n : list[j] # Master
    BY <1>0, <1>5
  <2>2. s.len = n /\ s.array = list
    BY <1>7, <2>1, CutLoopCutsNone
  <2> QED
    BY <1>1, <1>4, <2>1, <2>2
<1>6. CASE masters # {}
  <2>1. PICK k : masters = {k}
    <3>1. Cardinality(masters) = 1
      <4>1. Cardinality(masters) # 0 /\ Cardinality(masters) <= 1
        BY <1>1, <1>6, FS_EmptySet
      <4> HIDE DEF masters
      <4> QED
        BY <1>1, <4>1
    <3> QED
      BY <1>1, <3>1, FS_Singleton
  <2>2. /\ k \in 1..n /\ list[k] = Master /\ others = (1..n) \ {k}
        /\ \A j \in 1..n : j # k => list[j] # Master
    BY <1>0, <2>1
  <2>3. Cardinality(others) = n - 1
    <3>1. Cardinality((1..n) \ {k}) = Cardinality(1..n) - 1
      <4> HIDE DEF n
      <4> QED
        BY <1>1, <2>2, FS_RemoveElement
    <3> QED
      BY <1>1, <2>2, <3>1
  <2>4. /\ s.len = n - 1
        /\ \A j \in 1..s.len : s.array[j] = IF j < k THEN list[j] ELSE list[j + 1]
    BY <1>7, <2>2, CutLoopCutsOne
  <2> HIDE DEF s
  <2>5. ASSUME NEW j \in 1..s.len PROVE s.array[j] \in {list[i] : i \in others}
    <3>1. CASE j < k
      BY <1>0, <2>2, <2>4, <3>1
    <3>2. CASE ~(j < k)
      <4>1. j + 1 \in others
        BY <1>0, <2>2, <2>4, <3>2
      <4> QED
        BY <2>4, <3>2, <4>1
    <3> QED
      BY <3>1, <3>2
  <2>6. ASSUME NEW i \in others PROVE \E j \in 1..s.len : s.array[j] = list[i]
    <3>1. CASE i < k
      BY <1>0, <2>2, <2>4, <3>1
    <3>2. CASE ~(i < k)
      <4>1. i - 1 \in 1..s.len /\ ~(i - 1 < k) /\ (i - 1) + 1 = i
        BY <1>0, <2>2, <2>4, <3>2
      <4> QED
        BY <2>4, <4>1
    <3> QED
      BY <3>1, <3>2
  <2> QED
    <3>1. {s.array[j] : j \in 1..s.len} = {list[i] : i \in others}
      BY <2>5, <2>6
    <3> QED
      BY <1>1, <1>4, <2>3, <2>4, <3>1 DEF s
<1> QED
  BY <1>5, <1>6

-----------------------------------------------------------------------------
(* The hierarchy of the namespaces                                         *)

\* One call of resolveChildForNamespace, the others being f.
ResolveBody(f, parents, left, parent) ==
    LET hits == {n \in left : parents[n] \in {parent, NoParent}} IN
    IF hits = {} THEN {FALSE}
    ELSE UNION {IF parents[n] = NoParent THEN {FALSE}
                ELSE IF left = {n} THEN {TRUE}
                ELSE f[left \ {n}][n] : n \in hits}

\* The function is defined on S by its calls with a namespace less.
Resolves(f, parents, S) ==
    f = [left \in S |-> [parent \in Namespaces |->
                            ResolveBody(f, parents, left, parent)]]

SmallerLeft(k) == {left \in SUBSET Namespaces : Cardinality(left) <= k}

\* A call looks at the sets with a namespace less only.
LEMMA BodyLooksBelow ==
    ASSUME NEW f, NEW g, NEW parents, NEW left, NEW parent,
           \A n \in left : f[left \ {n}] = g[left \ {n}]
    PROVE  ResolveBody(f, parents, left, parent) = ResolveBody(g, parents, left, parent)
<1> DEFINE hits == {n \in left : parents[n] \in {parent, NoParent}}
           Out(h) == {IF parents[n] = NoParent THEN {FALSE}
                      ELSE IF left = {n} THEN {TRUE}
                      ELSE h[left \ {n}][n] : n \in hits}
<1>1. \A n \in hits : f[left \ {n}] = g[left \ {n}]
  OBVIOUS
<1>2. Out(f) = Out(g)
  <2> HIDE DEF hits
  <2> QED
    BY <1>1
<1> QED
  BY <1>2 DEF ResolveBody

LEMMA SubsetsAreFinite ==
    ASSUME NEW left \in SUBSET Namespaces
    PROVE  /\ IsFiniteSet(left) /\ Cardinality(left) \in Nat
           /\ left = {} <=> Cardinality(left) = 0
           /\ \A n \in left : /\ left \ {n} \in SUBSET Namespaces
                              /\ Cardinality(left \ {n}) = Cardinality(left) - 1
<1>1. IsFiniteSet(left)
  BY SchemeAssumption, FS_Subset
<1> QED
  BY <1>1, FS_CardinalityType, FS_EmptySet, FS_RemoveElement

\* The recursion has an end, so that the function is what its definition says.
LEMMA ResolveUnfolds ==
    ASSUME NEW parents
    PROVE  Resolves(ResolveChildForNamespace(parents), parents, SUBSET Namespaces)
<1> DEFINE T == {k \in Nat : \E f : Resolves(f, parents, SmallerLeft(k))}
           Row(f, left) ==
             [parent \in Namespaces |-> ResolveBody(f, parents, left, parent)]
<1>1. 0 \in T
  <2> DEFINE f == [left \in SmallerLeft(0) |-> Row(left, left)]
  <2>1. ASSUME NEW left \in SmallerLeft(0) PROVE Row(left, left) = Row(f, left)
    <3>1. left = {}
      BY SubsetsAreFinite DEF SmallerLeft
    <3>2. \A parent : ResolveBody(left, parents, left, parent)
                         = ResolveBody(f, parents, left, parent)
      <4> HIDE DEF f
      <4> QED
        BY <3>1, BodyLooksBelow
    <3> QED
      BY <3>2
  <2>2. f = [left \in SmallerLeft(0) |-> Row(f, left)]
    <3>1. \A left \in SmallerLeft(0) : f[left] = Row(f, left)
      BY <2>1
    <3> QED
      BY <3>1
  <2> HIDE DEF f
  <2>3. Resolves(f, parents, SmallerLeft(0))
    BY <2>2 DEF Resolves
  <2> QED
    BY <2>3
<1>2. ASSUME NEW k \in Nat, k \in T PROVE k + 1 \in T
  <2>1. PICK f : Resolves(f, parents, SmallerLeft(k))
    BY <1>2
  <2> DEFINE g == [left \in SmallerLeft(k + 1) |-> Row(f, left)]
  <2>2. \A left \in SmallerLeft(k) : left \in SmallerLeft(k + 1) /\ f[left] = Row(f, left)
    <3>1. \A left \in SmallerLeft(k) : left \in SmallerLeft(k + 1)
      BY SubsetsAreFinite DEF SmallerLeft
    <3> QED
      BY <2>1, <3>1 DEF Resolves
  <2>3. \A left \in SmallerLeft(k) : f[left] = g[left]
    BY <2>2
  <2>4. ASSUME NEW left \in SmallerLeft(k + 1) PROVE Row(f, left) = Row(g, left)
    <3>1. \A n \in left : left \ {n} \in SmallerLeft(k)
      BY SubsetsAreFinite DEF SmallerLeft
    <3>2. \A parent : ResolveBody(f, parents, left, parent)
                         = ResolveBody(g, parents, left, parent)
      <4> HIDE DEF g
      <4> QED
        BY <2>3, <3>1, BodyLooksBelow
    <3> QED
      BY <3>2
  <2>5. g = [left \in SmallerLeft(k + 1) |-> Row(g, left)]
    <3>1. \A left \in SmallerLeft(k + 1) : g[left] = Row(g, left)
      BY <2>4
    <3> QED
      BY <3>1
  <2> HIDE DEF g
  <2>6. Resolves(g, parents, SmallerLeft(k + 1))
    BY <2>5 DEF Resolves
  <2> QED
    BY <2>6
<1>3. \A k \in Nat : k \in T
  <2> HIDE DEF T
  <2> QED
    BY <1>1, <1>2, SetInduction
<1>4. SmallerLeft(Cardinality(Namespaces)) = SUBSET Namespaces
  <2>1. ASSUME NEW left \in SUBSET Namespaces
        PROVE  Cardinality(left) <= Cardinality(Namespaces)
    BY SchemeAssumption, FS_Subset
  <2> QED
    BY <2>1 DEF SmallerLeft
<1>5. Cardinality(Namespaces) \in Nat
  BY SchemeAssumption, FS_CardinalityType
<1>6. \E f : Resolves(f, parents, SUBSET Namespaces)
  BY <1>3, <1>4, <1>5
<1> DEFINE R == CHOOSE f : Resolves(f, parents, SUBSET Namespaces)
<1>7. Resolves(R, parents, SUBSET Namespaces)
  <2> HIDE DEF Row
  <2> QED
    BY <1>6
<1>8. ResolveChildForNamespace(parents) = R
  BY Zenon DEF ResolveChildForNamespace, Resolves, ResolveBody
<1> QED
  BY <1>7, <1>8

\* The namespaces of a set are a chain from the one at the top.
ChainFrom(top, set, parents) ==
    \E order \in SetToSeqs(set) :
        \A i \in DOMAIN order :
            parents[order[i]] = IF i = 1 THEN top ELSE order[i - 1]

LEMMA SeqsOfSet ==
    ASSUME NEW S, IsFiniteSet(S), NEW order
    PROVE  order \in SetToSeqs(S) <=>
              /\ order \in [1..Cardinality(S) -> S]
              /\ \A i, j \in 1..Cardinality(S) : i # j => order[i] # order[j]
  BY FS_CardinalityType DEF SetToSeqs

LEMMA SeqsOfSetAreOnto ==
    ASSUME NEW S, IsFiniteSet(S), NEW order \in SetToSeqs(S)
    PROVE  \A t \in S : \E i \in 1..Cardinality(S) : order[i] = t
<1> DEFINE D == 1..Cardinality(S)
<1>1. order \in [D -> S] /\ \A i, j \in D : i # j => order[i] # order[j]
  BY SeqsOfSet
<1>2. order \in Injection(D, S)
  BY <1>1 DEF Injection, IsInjective
<1>3. IsFiniteSet(D) /\ Cardinality(D) = Cardinality(S)
  BY FS_CardinalityType, FS_Interval
<1>4. order \in Surjection(D, S)
  BY <1>2, <1>3, FS_Injection
<1> QED
  BY <1>4 DEF Surjection

\* A chain goes on below its first namespace.
LEMMA ChainStarts ==
    ASSUME NEW left \in SUBSET Namespaces, left # {}, NEW parents, NEW top,
           ChainFrom(top, left, parents)
    PROVE  \E m \in left :
              /\ parents[m] = top
              /\ \A n \in left \ {m} : parents[n] \in left
              /\ ChainFrom(m, left \ {m}, parents)
<1> DEFINE k == Cardinality(left)
<1>1. /\ IsFiniteSet(left) /\ k \in Nat /\ k # 0
      /\ \A n \in left : IsFiniteSet(left \ {n}) /\ Cardinality(left \ {n}) = k - 1
  BY SubsetsAreFinite
<1>2. PICK order \in SetToSeqs(left) :
        \A i \in DOMAIN order : parents[order[i]] = IF i = 1 THEN top ELSE order[i - 1]
  BY DEF ChainFrom
<1>3. /\ order \in [1..k -> left] /\ DOMAIN order = 1..k
      /\ \A i, j \in 1..k : i # j => order[i] # order[j]
      /\ \A t \in left : \E i \in 1..k : order[i] = t
  BY <1>1, <1>2, SeqsOfSet, SeqsOfSetAreOnto
<1> HIDE DEF k
<1> DEFINE m == order[1]
           rest == [i \in 1..(k - 1) |-> order[i + 1]]
<1>4. m \in left /\ parents[m] = top
  BY <1>1, <1>2, <1>3
<1>5. ASSUME NEW n \in left \ {m} PROVE parents[n] \in left
  <2>1. PICK i \in 1..k : order[i] = n
    BY <1>3
  <2>2. i # 1 /\ i - 1 \in 1..k
    BY <1>1, <2>1, <1>5
  <2> QED
    BY <1>2, <1>3, <2>1, <2>2
<1>6. ChainFrom(m, left \ {m}, parents)
  <2>1. \A i \in 1..(k - 1) : i + 1 \in 1..k /\ i + 1 # 1
    BY <1>1
  <2>2. \A i \in 1..(k - 1) : order[i + 1] \in left \ {m}
    BY <1>1, <1>3, <2>1
  <2>3. rest \in [1..(k - 1) -> left \ {m}]
    BY <2>2
  <2>4. \A i, j \in 1..(k - 1) : i # j => rest[i] # rest[j]
    BY <1>1, <1>3, <2>1
  <2>5. rest \in SetToSeqs(left \ {m})
    <3> HIDE DEF rest, m
    <3> QED
      BY <1>1, <1>4, <2>3, <2>4, SeqsOfSet
  <2>6. ASSUME NEW i \in DOMAIN rest
        PROVE  parents[rest[i]] = IF i = 1 THEN m ELSE rest[i - 1]
    <3>1. i \in 1..(k - 1) /\ rest[i] = order[i + 1]
      OBVIOUS
    <3>2. parents[order[i + 1]] = order[i]
      <4>1. i + 1 \in DOMAIN order /\ i + 1 # 1 /\ (i + 1) - 1 = i
        BY <1>1, <1>3, <3>1
      <4> QED
        BY <1>2, <4>1
    <3>3. i # 1 => i - 1 \in 1..(k - 1) /\ rest[i - 1] = order[i]
      BY <1>1, <3>1
    <3> QED
      BY <3>1, <3>2, <3>3
  <2> HIDE DEF rest
  <2> QED
    BY <2>5, <2>6 DEF ChainFrom
<1> QED
  BY <1>4, <1>5, <1>6

\* A chain may be put below another namespace.
LEMMA ChainGrows ==
    ASSUME NEW left \in SUBSET Namespaces, NEW parents, NEW m \in left,
           ChainFrom(m, left \ {m}, parents)
    PROVE  ChainFrom(parents[m], left, parents)
<1> DEFINE k == Cardinality(left)
           others == left \ {m}
<1>1. /\ IsFiniteSet(left) /\ k \in Nat /\ k # 0
      /\ IsFiniteSet(others) /\ Cardinality(others) = k - 1
  BY SubsetsAreFinite
<1>2. PICK rest \in SetToSeqs(others) :
        \A i \in DOMAIN rest : parents[rest[i]] = IF i = 1 THEN m ELSE rest[i - 1]
  BY DEF ChainFrom
<1>3. /\ rest \in [1..(k - 1) -> others] /\ DOMAIN rest = 1..(k - 1)
      /\ \A i, j \in 1..(k - 1) : i # j => rest[i] # rest[j]
  <2> HIDE DEF others, k
  <2> QED
    BY <1>1, <1>2, SeqsOfSet
<1> HIDE DEF k
<1> DEFINE order == [i \in 1..k |-> IF i = 1 THEN m ELSE rest[i - 1]]
<1>4. \A i \in 1..k : i # 1 => i - 1 \in 1..(k - 1)
  BY <1>1
<1>5. \A i \in 1..k : i # 1 => rest[i - 1] \in left /\ rest[i - 1] # m
  BY <1>3, <1>4
<1>6. order \in [1..k -> left]
  BY <1>5
<1>7. ASSUME NEW i \in 1..k, NEW j \in 1..k, i # j PROVE order[i] # order[j]
  <2>1. CASE i = 1 \/ j = 1
    BY <1>5, <1>7, <2>1
  <2>2. CASE i # 1 /\ j # 1
    <3>1. i - 1 # j - 1
      BY <1>1, <1>7
    <3> QED
      BY <1>3, <1>4, <2>2, <3>1
  <2> QED
    BY <2>1, <2>2
<1>8. order \in SetToSeqs(left)
  <2> HIDE DEF order
  <2> QED
    BY <1>1, <1>6, <1>7, SeqsOfSet DEF k
<1>9. ASSUME NEW i \in DOMAIN order
      PROVE  parents[order[i]] = IF i = 1 THEN parents[m] ELSE order[i - 1]
  <2>1. i \in 1..k
    OBVIOUS
  <2>2. CASE i = 1
    BY <2>1, <2>2
  <2>3. CASE i # 1
    <3>1. /\ order[i] = rest[i - 1] /\ i - 1 \in 1..(k - 1) /\ i - 1 \in 1..k
      BY <1>1, <2>1, <2>3
    <3>2. parents[rest[i - 1]] = IF i - 1 = 1 THEN m ELSE rest[(i - 1) - 1]
      BY <1>2, <1>3, <3>1
    <3> QED
      BY <2>3, <3>1, <3>2
  <2> QED
    BY <2>2, <2>3
<1> HIDE DEF order
<1> QED
  BY <1>8, <1>9 DEF ChainFrom

\* What comes of the search of a set from a namespace above it: the set is a chain.
ChainOutcome(top, left, parents) ==
    IF ChainFrom(top, left, parents) THEN {TRUE} ELSE {FALSE}

LEMMA ResolveIsChain ==
    ASSUME NEW parents
    PROVE  \A left \in (SUBSET Namespaces) \ {{}} : \A top \in Namespaces \ left :
              ResolveChildForNamespace(parents)[left][top] = ChainOutcome(top, left, parents)
<1> DEFINE R == ResolveChildForNamespace(parents)
           Right(left) == \A top \in Namespaces \ left :
                             R[left][top] = ChainOutcome(top, left, parents)
           T == {k \in Nat : \A left \in (SUBSET Namespaces) \ {{}} :
                                Cardinality(left) <= k => Right(left)}
<1>1. 0 \in T
  <2>1. \A left \in (SUBSET Namespaces) \ {{}} : ~(Cardinality(left) <= 0)
    BY SubsetsAreFinite
  <2> HIDE DEF Right
  <2> QED
    BY <2>1
<1>2. ASSUME NEW k \in Nat, k \in T PROVE k + 1 \in T
  <2> SUFFICES ASSUME NEW left \in (SUBSET Namespaces) \ {{}},
                      Cardinality(left) <= k + 1,
                      NEW top \in Namespaces \ left
               PROVE  R[left][top] = ChainOutcome(top, left, parents)
    OBVIOUS
  <2> DEFINE hits == {n \in left : parents[n] \in {top, NoParent}}
             Of(n) == IF parents[n] = NoParent THEN {FALSE}
                      ELSE IF left = {n} THEN {TRUE}
                      ELSE R[left \ {n}][n]
  <2>1. R[left][top] = IF hits = {} THEN {FALSE} ELSE UNION {Of(n) : n \in hits}
    <3>1. R[left][top] = ResolveBody(R, parents, left, top)
      BY ResolveUnfolds DEF Resolves
    <3> QED
      BY <3>1 DEF ResolveBody
  <2>2. ASSUME NEW n \in left, left # {n}
        PROVE  R[left \ {n}][n] = ChainOutcome(n, left \ {n}, parents)
    <3>1. left \ {n} \in (SUBSET Namespaces) \ {{}}
      BY <2>2
    <3>2. Cardinality(left \ {n}) <= k
      BY <2>2, SubsetsAreFinite
    <3>3. n \in Namespaces \ (left \ {n})
      OBVIOUS
    <3>4. Right(left \ {n})
      BY <1>2, <3>1, <3>2
    <3> QED
      BY <3>3, <3>4
  <2>3. ASSUME NEW n \in left, left = {n} PROVE ChainFrom(n, left \ {n}, parents)
    <3>1. left \ {n} = {}
      BY <2>3
    <3>2. IsFiniteSet({}) /\ Cardinality({}) = 0
      BY FS_EmptySet
    <3>3. <<>> \in [1..Cardinality({}) -> {}] /\ DOMAIN <<>> = {}
      BY <3>2
    <3>4. <<>> \in SetToSeqs({})
      BY <3>2, <3>3, SeqsOfSet
    <3> QED
      BY <3>1, <3>3, <3>4 DEF ChainFrom
  <2>4. NoParent # top
    BY SchemeAssumption
  <2> HIDE DEF R
  <2>5. CASE ChainFrom(top, left, parents)
    <3>1. PICK m \in left : /\ parents[m] = top
                            /\ \A n \in left \ {m} : parents[n] \in left
                            /\ ChainFrom(m, left \ {m}, parents)
      BY <2>5, ChainStarts
    <3>2. hits = {m}
      <4>1. \A n \in left \ {m} : parents[n] # top /\ parents[n] # NoParent
        BY <3>1, SchemeAssumption
      <4> QED
        BY <3>1, <4>1
    <3>3. Of(m) = {TRUE}
      BY <2>2, <2>4, <3>1 DEF ChainOutcome
    <3>4. UNION {Of(n) : n \in hits} = Of(m) /\ hits # {}
      <4> HIDE DEF Of, hits
      <4> QED
        BY <3>2
    <3> QED
      BY <2>1, <2>5, <3>3, <3>4 DEF ChainOutcome
  <2>6. CASE ~ChainFrom(top, left, parents)
    <3>1. ASSUME NEW n \in hits PROVE Of(n) = {FALSE}
      <4>1. CASE parents[n] = NoParent
        BY <4>1
      <4>2. CASE parents[n] # NoParent
        <5>1. n \in left /\ parents[n] = top
          BY <4>2
        <5>2. ~ChainFrom(n, left \ {n}, parents)
          BY <2>6, <5>1, ChainGrows
        <5>3. left # {n}
          BY <2>3, <5>1, <5>2
        <5>4. R[left \ {n}][n] = {FALSE}
          BY <2>2, <5>1, <5>2, <5>3 DEF ChainOutcome
        <5> QED
          BY <4>2, <5>3, <5>4
      <4> QED
        BY <4>1, <4>2
    <3>2. hits # {} => UNION {Of(n) : n \in hits} = {FALSE}
      <4> HIDE DEF Of, hits
      <4> QED
        BY <3>1
    <3> QED
      BY <2>1, <2>6, <3>2 DEF ChainOutcome
  <2> QED
    BY <2>5, <2>6
<1>3. \A k \in Nat : k \in T
  <2> HIDE DEF T
  <2> QED
    BY <1>1, <1>2, SetInduction
<1> QED
  <2> SUFFICES ASSUME NEW left \in (SUBSET Namespaces) \ {{}} PROVE Right(left)
    OBVIOUS
  <2>1. Cardinality(left) \in Nat /\ Cardinality(left) <= Cardinality(left)
    BY SubsetsAreFinite
  <2>2. Cardinality(left) \in T
    BY <1>3, <2>1
  <2> QED
    BY <2>1, <2>2

\* The hierarchy is found to be there or not, whatever the namespaces.
LEMMA HierarchyOutcomesType ==
    ASSUME NEW list \in Seq(Namespaces), NEW parents
    PROVE  HierarchyOutcomes(list, parents) \subseteq BOOLEAN
<1> DEFINE s == WithoutMaster(list)
           left == ToSet(SubSeq(s.array, 1, s.len))
           R == ResolveChildForNamespace(parents)
           hits == {n \in left : parents[n] \in {Master, NoParent}}
           Of(n) == IF parents[n] = NoParent THEN {FALSE}
                    ELSE IF left = {n} THEN {TRUE}
                    ELSE R[left \ {n}][n]
<1>1. left \in SUBSET Namespaces
  <2>1. s.array \in Seq(Namespaces) /\ s.len \in 0..Len(s.array)
    BY WithoutMasterKeeps
  <2> HIDE DEF s
  <2>2. SubSeq(s.array, 1, s.len) \in Seq(Namespaces)
    BY <2>1
  <2> QED
    BY <2>2 DEF ToSet
<1> HIDE DEF left, R
<1>2. ASSUME NEW n \in left PROVE Of(n) \subseteq BOOLEAN
  <2>1. CASE left # {n}
    <3>1. left \ {n} \in (SUBSET Namespaces) \ {{}} /\ n \in Namespaces \ (left \ {n})
      BY <1>1, <2>1
    <3>2. R[left \ {n}][n] = ChainOutcome(n, left \ {n}, parents)
      BY <3>1, ResolveIsChain DEF R
    <3> QED
      BY <3>2 DEF ChainOutcome
  <2>2. CASE left = {n}
    BY <2>2
  <2> QED
    BY <2>1, <2>2
<1>3. R[left][Master] = IF hits = {} THEN {FALSE} ELSE UNION {Of(n) : n \in hits}
  <2>1. R[left][Master] = ResolveBody(R, parents, left, Master)
    BY <1>1, ResolveUnfolds, SchemeAssumption DEF Resolves, R
  <2> QED
    BY <2>1 DEF ResolveBody
<1>4. R[left][Master] \subseteq BOOLEAN
  <2> HIDE DEF Of
  <2>1. UNION {Of(n) : n \in hits} \subseteq BOOLEAN
    BY <1>2
  <2> QED
    BY <1>3, <2>1
<1>5. HierarchyOutcomes(list, parents) \in {{TRUE}, {FALSE}, R[left][Master]}
  BY DEF HierarchyOutcomes, left, R
<1> QED
  BY <1>4, <1>5

\* The hierarchy of a list that has the master namespace at most once is there
\* exactly if the other namespaces are one at most or a chain from it.
LEMMA HierarchyIsChain ==
    ASSUME NEW list \in Seq(Namespaces), NEW parents, NEW others,
           others = {i \in DOMAIN list : list[i] # Master},
           Cardinality(DOMAIN list \ others) <= 1
    PROVE  HierarchyOutcomes(list, parents) =
              IF \/ Cardinality(others) <= 1
                 \/ ChainFrom(Master, {list[i] : i \in others}, parents)
              THEN {TRUE} ELSE {FALSE}
<1> DEFINE s == WithoutMaster(list)
           left == ToSet(SubSeq(s.array, 1, s.len))
           R == ResolveChildForNamespace(parents)
<1>1. /\ IsFiniteSet(others) /\ Cardinality(others) \in Nat
      /\ s.len = Cardinality(others)
      /\ left = {list[i] : i \in others}
  BY OthersRemain
<1>2. HierarchyOutcomes(list, parents) =
         IF s.len <= 1 THEN {TRUE}
         ELSE IF \E n \in left : parents[n] = None THEN {FALSE}
         ELSE R[left][Master]
  BY DEF HierarchyOutcomes
<1>3. left \in SUBSET Namespaces /\ Master \in Namespaces \ left
  <2>1. \A i \in DOMAIN list : list[i] \in Namespaces
    OBVIOUS
  <2> HIDE DEF left
  <2> QED
    BY <1>1, <2>1, SchemeAssumption
<1> HIDE DEF s, left, R
<1>4. CASE Cardinality(others) <= 1
  BY <1>1, <1>2, <1>4
<1>5. CASE ~(Cardinality(others) <= 1)
  <2>1. left # {}
    <3>1. others # {}
      <4>1. Cardinality({}) = 0 /\ 0 <= 1
        BY FS_EmptySet
      <4> QED
        BY <1>5, <4>1
    <3> QED
      BY <1>1, <3>1
  <2>2. R[left][Master] = ChainOutcome(Master, left, parents)
    BY <1>3, <2>1, ResolveIsChain DEF R
  <2>3. ASSUME ChainFrom(Master, left, parents), NEW n \in left
        PROVE  parents[n] # None
    <3>1. PICK m \in left : /\ parents[m] = Master
                            /\ \A o \in left \ {m} : parents[o] \in left
      BY <1>3, <2>1, <2>3, ChainStarts
    <3>2. parents[n] \in Namespaces
      BY <1>3, <3>1
    <3> QED
      BY <3>2, SchemeAssumption
  <2> QED
    BY <1>1, <1>2, <1>5, <2>2, <2>3 DEF ChainOutcome
<1> QED
  BY <1>4, <1>5

-----------------------------------------------------------------------------
(* Lists without the hosts of general routes                               *)

\* Addresses are made of hosts and have them.
LEMMA AddressesOfHosts ==
    /\ \A h \in Hosts :
          /\ Plain(h) \in StoredAddress /\ Plain(h).host = h
          /\ Url(h) \in StoredAddress /\ Url(h).host = h
          /\ GeneratedUrl(h) \in StoredAddress /\ GeneratedUrl(h).host = h
    /\ \A a \in StoredAddress : a.host \in Hosts /\ a \in {Plain(a.host), Url(a.host)}
<1>1. ASSUME NEW h \in Hosts
      PROVE  /\ Plain(h) \in StoredAddress /\ Plain(h).host = h
             /\ Url(h) \in StoredAddress /\ Url(h).host = h
  <2>1. Plain(h) \in StoredAddress /\ Url(h) \in StoredAddress
    BY DEF StoredAddress
  <2> QED
    BY <2>1 DEF Plain, Url
<1>2. ASSUME NEW a \in StoredAddress
      PROVE  a.host \in Hosts /\ a \in {Plain(a.host), Url(a.host)}
  <2>1. PICK h \in Hosts : a = Plain(h) \/ a = Url(h)
    BY DEF StoredAddress
  <2>2. a.host = h
    BY <1>1, <2>1
  <2> QED
    BY <2>1, <2>2
<1> QED
  BY <1>1, <1>2 DEF GeneratedUrl

GeneralHits(list, routes) ==
    {a \in ToSet(list) : HostBelongsToRoutes(a.host, routes)}

LEMMA FilterLoop ==
    ASSUME NEW list \in Seq(StoredAddress), NEW routes
    PROVE  \E cut : /\ CutLoop(list, StoredAddress, GeneralHits(list, routes), {1}, cut)
                    /\ FilterList(list, routes) =
                          IF cut[Len(list)].deleted THEN None
                          ELSE cut[Len(list)].array
<1>1. FilterList(list, routes) =
         LET end == CutHits(list, GeneralHits(list, routes), {1}) IN
         IF end.deleted THEN None ELSE end.array
  BY DEF FilterList, GeneralHits
<1> QED
  BY <1>1, CutLoopExists

\* A list that stays has none but hosts of the list.
LEMMA FilterListKeeps ==
    ASSUME NEW list \in Seq(StoredAddress), NEW routes, FilterList(list, routes) # None
    PROVE  /\ FilterList(list, routes) \in Seq(StoredAddress)
           /\ ToSet(FilterList(list, routes)) \subseteq ToSet(list)
  BY FilterLoop, CutLoopKeeps

\* A list with one host of a general route at most stays, if it has another host,
\* and keeps all the others.
LEMMA FilterListLosesNone ==
    ASSUME NEW list \in Seq(StoredAddress), NEW routes,
           Cardinality({i \in DOMAIN list : HostBelongsToRoutes(list[i].host, routes)}) <= 1,
           NEW h \in ToSet(list), ~HostBelongsToRoutes(h.host, routes)
    PROVE  FilterList(list, routes) # None /\ h \in ToSet(FilterList(list, routes))
<1> DEFINE n == Len(list)
           hits == GeneralHits(list, routes)
           generals == {i \in DOMAIN list : HostBelongsToRoutes(list[i].host, routes)}
<1>0. n \in Nat /\ list \in [1..n -> StoredAddress] /\ DOMAIN list = 1..n
  OBVIOUS
<1>1. PICK cut : /\ CutLoop(list, StoredAddress, hits, {1}, cut)
                 /\ FilterList(list, routes) =
                       IF cut[n].deleted THEN None ELSE cut[n].array
  BY FilterLoop
<1>2. PICK m \in 1..n : h = list[m]
  BY <1>0 DEF ToSet
<1>3. /\ \A i \in 1..n : list[i] \in hits <=> i \in generals
      /\ m \notin generals /\ h \notin hits
  BY <1>0, <1>2 DEF GeneralHits, ToSet
<1>4. /\ IsFiniteSet(generals) /\ Cardinality(generals) \in Nat
      /\ generals \subseteq 1..n
  <2>1. IsFiniteSet(1..n) /\ generals \in SUBSET (1..n)
    BY <1>0, FS_Interval
  <2> HIDE DEF n, generals
  <2> QED
    BY <2>1, FS_Subset, FS_CardinalityType
<1>5. ~cut[n].deleted
  <2>1. CASE generals = {}
    BY <1>1, <1>3, <2>1, CutLoopCutsNone
  <2>2. CASE generals # {}
    <3>1. PICK k : generals = {k}
      <4>1. Cardinality(generals) # 0 /\ Cardinality(generals) <= 1
        BY <1>4, <2>2, FS_EmptySet
      <4> HIDE DEF generals
      <4>2. Cardinality(generals) = 1
        BY <1>4, <4>1
      <4> QED
        BY <1>4, <4>2, FS_Singleton
    <3>2. /\ k \in 1..n /\ list[k] \in hits
          /\ \A j \in 1..n : j # k => list[j] \notin hits
      BY <1>3, <1>4, <3>1
    <3>3. n \notin {1}
      BY <1>0, <1>3, <3>1, <3>2
    <3> HIDE DEF generals, hits
    <3> QED
      BY <1>1, <3>2, <3>3, CutLoopCutsOne
  <2> QED
    BY <2>1, <2>2
<1>6. cut[n].array \in Seq(StoredAddress) /\ h \in ToSet(cut[n].array)
  <2> HIDE DEF hits
  <2> QED
    BY <1>1, <1>3, CutLoopKeeps
<1> QED
  BY <1>1, <1>5, <1>6, SchemeAssumption

\* A list of one address is deleted if a general route has its host.
LEMMA FilterListOfOne ==
    ASSUME NEW h \in StoredAddress, NEW routes
    PROVE  FilterList(<<h>>, routes) =
              IF HostBelongsToRoutes(h.host, routes) THEN None ELSE <<h>>
<1> DEFINE list == <<h>>
           hits == GeneralHits(list, routes)
<1>0. list \in Seq(StoredAddress) /\ Len(list) = 1 /\ list[1] = h
  OBVIOUS
<1>1. h \in hits <=> HostBelongsToRoutes(h.host, routes)
  BY <1>0 DEF GeneralHits, ToSet
<1> HIDE DEF list, hits
<1>2. PICK cut : /\ CutLoop(list, StoredAddress, hits, {1}, cut)
                 /\ FilterList(list, routes) =
                       IF cut[1].deleted THEN None ELSE cut[1].array
  BY <1>0, FilterLoop DEF hits
<1>3. CASE h \notin hits
  <2>1. \A j \in 1..Len(list) : list[j] \notin hits
    BY <1>0, <1>3
  <2> QED
    <3>1. ~cut[Len(list)].deleted /\ cut[Len(list)].array = list
      <4>1. list \in Seq(StoredAddress) /\ CutLoop(list, StoredAddress, hits, {1}, cut)
        BY <1>0, <1>2
      <4> QED
        BY <2>1, <4>1, CutLoopCutsNone
    <3>2. ~cut[1].deleted /\ cut[1].array = list
      BY <1>0, <3>1
    <3> QED
      BY <1>1, <1>2, <1>3, <3>2 DEF list
<1>4. CASE h \in hits
  <2>1. cut[0].array[1] = h /\ cut[0].len = 1
    BY <1>0, <1>2, SliceType DEF CutLoop
  <2>2. cut[1 - 1].array[1] = h /\ cut[1 - 1].len = 1
    BY <2>1
  <2>3. 1 \in 1..Len(list)
    BY <1>0
  <2>4. /\ CutLoop(list, StoredAddress, hits, {1}, cut)
        /\ list \in Seq(StoredAddress)
    BY <1>0, <1>2
  <2>5. \/ cut[1 - 1].array[1] \notin hits
        \/ cut[1].deleted
        \/ cut[1 - 1].len \notin {1}
    BY <2>3, <2>4, CutLoopStep
  <2>6. cut[1].deleted
    BY <1>4, <2>2, <2>5
  <2> QED
    BY <1>1, <1>2, <1>4, <2>6 DEF list
<1> QED
  BY <1>3, <1>4

-----------------------------------------------------------------------------
(* Types of what is computed from a scheme                                 *)

Scheme(sites) == AreSites(sites, Seq(StoredAddress))
HostLists(services) ==
    DOMAIN services \subseteq Services
    /\ \A service \in DOMAIN services : services[service] \in Seq(StoredAddress)

\* The filter takes services away, and hosts of those that stay.
LEMMA FilterGeneralRoutesGives ==
    ASSUME NEW sites, Scheme(sites), NEW routes
    PROVE  LET filtered == FilterGeneralRoutes(sites, routes) IN
           /\ Scheme(filtered)
           /\ DOMAIN filtered = DOMAIN sites
           /\ \A site \in DOMAIN sites :
                 /\ DOMAIN filtered[site] =
                       {service \in DOMAIN sites[site] :
                          FilterList(sites[site][service], routes) # None}
                 /\ \A service \in DOMAIN filtered[site] :
                       filtered[site][service] = FilterList(sites[site][service], routes)
<1> DEFINE filtered == FilterGeneralRoutes(sites, routes)
<1>1. DOMAIN filtered = DOMAIN sites
  BY DEF FilterGeneralRoutes
<1>2. ASSUME NEW site \in DOMAIN sites
      PROVE  /\ DOMAIN filtered[site] =
                   {service \in DOMAIN sites[site] :
                      FilterList(sites[site][service], routes) # None}
             /\ \A service \in DOMAIN filtered[site] :
                   filtered[site][service] = FilterList(sites[site][service], routes)
  BY DEF FilterGeneralRoutes
<1> HIDE DEF filtered
<1>3. Scheme(filtered)
  <2>1. ASSUME NEW site \in DOMAIN sites, NEW service \in DOMAIN filtered[site]
        PROVE  service \in Services /\ filtered[site][service] \in Seq(StoredAddress)
    <3>1. /\ service \in DOMAIN sites[site]
          /\ FilterList(sites[site][service], routes) # None
          /\ filtered[site][service] = FilterList(sites[site][service], routes)
      BY <1>2
    <3>2. service \in Services /\ sites[site][service] \in Seq(StoredAddress)
      BY <3>1 DEF Scheme, AreSites
    <3> QED
      BY <3>1, <3>2, FilterListKeeps
  <2>2. DOMAIN sites \subseteq Sites
    BY DEF Scheme, AreSites
  <2> QED
    BY <1>1, <2>1, <2>2 DEF Scheme, AreSites
<1> QED
  BY <1>1, <1>2, <1>3 DEF filtered

LEMMA GeneratedRoutesType ==
    ASSUME NEW domain, NEW namespaces \in Seq(Namespaces), NEW routes,
           NEW services \in GenerateRoutesForServices(domain, namespaces, routes)
    PROVE  /\ HostLists(services) /\ DOMAIN services = PublicServicesOf(namespaces)
           /\ \A service \in DOMAIN services : \E h \in Hosts :
                 /\ services[service] = <<GeneratedUrl(h)>>
                 /\ h \in GeneratedHosts(service, domain, routes)
<1> DEFINE public == PublicServicesOf(namespaces)
<1>1. public \subseteq Services
  <2>1. ToSet(namespaces) \subseteq Namespaces
    BY DEF ToSet
  <2> QED
    BY <2>1, SchemeAssumption DEF PublicServicesOf
<1> HIDE DEF public
<1>2. PICK h \in [public -> Hosts] :
         /\ \A service \in public : h[service] \in GeneratedHosts(service, domain, routes)
         /\ services = [service \in public |-> <<GeneratedUrl(h[service])>>]
  BY DEF GenerateRoutesForServices, public
<1>3. /\ DOMAIN services = public
       /\ \A service \in public :
           services[service] = <<GeneratedUrl(h[service])>> /\ h[service] \in Hosts
  BY <1>2
<1>4. \A x \in Hosts : <<GeneratedUrl(x)>> \in Seq(StoredAddress)
  BY AddressesOfHosts
<1>5. HostLists(services)
  BY <1>1, <1>3, <1>4 DEF HostLists
<1> QED
  BY <1>2, <1>3, <1>5 DEF public

LEMMA UniqueNameType ==
    ASSUME NEW tenantName \in TenantNames
    PROVE  GenerateUniqueServiceName(tenantName) \in Services
<1> DEFINE names == NameCandidates[tenantName]
           free == {i \in DOMAIN names : names[i] \notin TakenNames}
<1>1. names \in Seq(Services)
  BY SchemeAssumption
<1>2. free \in SUBSET Nat /\ free # {}
  <2>1. \E i \in DOMAIN names : names[i] \in Services \ TakenNames
    BY SchemeAssumption
  <2> QED
    BY <1>1, <2>1
<1>3. \E i \in free : \A j \in free : i <= j
  <2> HIDE DEF free
  <2> QED
    BY <1>2, LeastNatural
<1> DEFINE least == CHOOSE i \in free : \A j \in free : i <= j
<1>4. least \in free
  <2> HIDE DEF free
  <2> QED
    BY <1>3
<1>5. GenerateUniqueServiceName(tenantName) = names[least]
  BY DEF GenerateUniqueServiceName
<1> HIDE DEF least
<1>6. least \in DOMAIN names
  BY <1>4
<1> HIDE DEF names
<1> QED
  BY <1>1, <1>5, <1>6

\* Renaming the shopping frontend of a site.
LEMMA ChangeServiceNameGives ==
    ASSUME NEW services, HostLists(services), Shopping \in DOMAIN services,
           NEW to \in Services
    PROVE  LET renamed == ChangeServiceName(services, to) IN
           /\ HostLists(renamed)
           /\ DOMAIN renamed = (DOMAIN services \ {Shopping}) \union {to}
           /\ renamed[to] = services[Shopping]
           /\ \A service \in DOMAIN renamed \ {to} :
                 renamed[service] = services[service]
<1> DEFINE D == (DOMAIN services \ {Shopping}) \union {to}
           renamed == ChangeServiceName(services, to)
<1>1. renamed = [s \in D |-> IF s = to THEN services[Shopping] ELSE services[s]]
  BY DEF ChangeServiceName
<1> HIDE DEF renamed
<1>2. /\ DOMAIN renamed = D /\ to \in D
      /\ \A s \in D : renamed[s] = IF s = to THEN services[Shopping] ELSE services[s]
  BY <1>1
<1>3. HostLists(renamed)
  BY <1>2 DEF HostLists
<1> QED
  BY <1>2, <1>3 DEF renamed

-----------------------------------------------------------------------------
(* The rows that Upsert writes                                             *)

RowsTyped(rows) == \A t \in Tenants : rows[t] # None => IsRow(rows[t])
RoutesTyped == generalRoutes \subseteq GeneralRoute

\* The general routes that Upsert filters by.
RoutesFor(namespaces) == GeneralRoutesOf(namespaces, generalRoutes)

LEMMA NewUrlsType ==
    ASSUME NEW t, NEW d, IsRow(d), NEW rows,
           NEW sites \in GenerateNewUrls(t, d, rows)
    PROVE  Scheme(sites) /\ (~UrlsChange(t, d, rows) => sites = d.sites)
<1>1. CASE ~UrlsChange(t, d, rows)
  BY <1>1 DEF GenerateNewUrls, IsRow, Scheme
<1>2. CASE UrlsChange(t, d, rows)
  <2> DEFINE routes == GeneralRoutesOf(d.namespaces, generalRoutes)
             bases == IF rows[t].domainName = d.domainName THEN {d.sites}
                      ELSE {[d.sites EXCEPT ![DefaultSite] = services] : services \in
                              GenerateRoutesForServices(d.domainName, d.namespaces,
                                                        routes)}
             WithShopping(s) ==
                IF Shopping \in DOMAIN s[DefaultSite]
                THEN [s EXCEPT ![DefaultSite][Shopping] =
                         <<Url(ShoppingHost[<<d.domainName, d.tenantName>>])>>]
                ELSE s
  <2>1. PICK base \in bases : sites = WithShopping(base)
    BY <1>2 DEF GenerateNewUrls
  <2>2. Scheme(d.sites) /\ DefaultSite \in DOMAIN d.sites
    BY <1>2 DEF UrlsChange, IsRow, Scheme
  <2>3. Scheme(base) /\ DefaultSite \in DOMAIN base
    <3>1. CASE rows[t].domainName = d.domainName
      BY <2>1, <2>2, <3>1
    <3>2. CASE rows[t].domainName # d.domainName
      <4>1. PICK services \in GenerateRoutesForServices(d.domainName, d.namespaces,
                                                        routes) :
               base = [d.sites EXCEPT ![DefaultSite] = services]
        BY <2>1, <3>2
      <4>2. HostLists(services)
        <5>1. d.namespaces \in Seq(Namespaces)
          BY DEF IsRow
        <5> HIDE DEF routes
        <5> QED
          BY <4>1, <5>1, GeneratedRoutesType
      <4> QED
        BY <2>2, <4>1, <4>2 DEF Scheme, AreSites, HostLists
    <3> QED
      BY <3>1, <3>2
  <2>4. CASE Shopping \notin DOMAIN base[DefaultSite]
    BY <1>2, <2>1, <2>3, <2>4
  <2>5. CASE Shopping \in DOMAIN base[DefaultSite]
    <3> DEFINE host == ShoppingHost[<<d.domainName, d.tenantName>>]
               services == [base[DefaultSite] EXCEPT ![Shopping] = <<Url(host)>>]
    <3>1. sites = [base EXCEPT ![DefaultSite] = services]
      BY <2>1, <2>5
    <3>2. <<Url(host)>> \in Seq(StoredAddress)
      <4>1. <<d.domainName, d.tenantName>> \in Domains \X TenantNames
        BY DEF IsRow
      <4>2. host \in Hosts
        BY <4>1, SchemeAssumption
      <4> QED
        BY <4>2, AddressesOfHosts
    <3> HIDE DEF host
    <3>3. HostLists(services)
      BY <2>3, <2>5, <3>2 DEF Scheme, AreSites, HostLists
    <3> HIDE DEF services
    <3> QED
      BY <1>2, <2>3, <3>1, <3>3 DEF Scheme, AreSites, HostLists
  <2> QED
    BY <2>4, <2>5
<1> QED
  BY <1>1, <1>2

\* What a row that Upsert writes is made of: the sites it was given, or those with
\* new hosts, without general routes, and a site's shopping frontend renamed.
WrittenRow(t, data, rows, urls, row) ==
    LET namespaces == WithoutMaster(data.namespaces).array
        filtered == FilterGeneralRoutes(urls, RoutesFor(namespaces)) IN
    /\ Scheme(urls) /\ (~UrlsChange(t, data, rows) => urls = data.sites)
    /\ IsRow(row)
    /\ row.active = data.active /\ row.namespaces = namespaces
    /\ row.domainName = data.domainName /\ row.tenantName = data.tenantName
    /\ data.serviceName # NoName => row.serviceName = data.serviceName
    /\ \/ /\ \A site \in DOMAIN filtered : Shopping \notin DOMAIN filtered[site]
          /\ row.sites = filtered /\ row.serviceName = data.serviceName
       \/ \E site \in DOMAIN filtered :
             /\ Shopping \in DOMAIN filtered[site] /\ row.serviceName \in Services
             /\ row.sites = [filtered EXCEPT ![site] =
                               ChangeServiceName(@, row.serviceName)]

LEMMA UpsertRowsGive ==
    ASSUME NEW t \in Tenants, NEW data, IsRow(data), NEW rows, RowsTyped(rows),
           NEW row \in UpsertRows(t, data, rows)
    PROVE  \E urls : WrittenRow(t, data, rows, urls, row)
<1> DEFINE namespaces == WithoutMaster(data.namespaces).array
           d == [data EXCEPT !.namespaces = namespaces]
           routes == RoutesFor(namespaces)
           Filtered(sites) == FilterGeneralRoutes(sites, routes)
<1>1. namespaces \in Seq(Namespaces)
  BY WithoutMasterKeeps DEF IsRow
<1> HIDE DEF namespaces
<1>2. /\ IsRow(d) /\ d.namespaces = namespaces
      /\ d.sites = data.sites /\ d.active = data.active
      /\ d.domainName = data.domainName /\ d.tenantName = data.tenantName
      /\ d.serviceName = data.serviceName
  BY <1>1 DEF IsRow
<1>3. d = [data EXCEPT !.namespaces = WithoutMaster(@).array]
  BY DEF namespaces
<1> HIDE DEF d
<1>4. PICK urls \in GenerateNewUrls(t, d, rows) :
         row \in RenameShopping(t, d, Filtered(urls), rows)
  BY <1>2, <1>3 DEF UpsertRows, RoutesFor
<1>5. UrlsChange(t, d, rows) <=> UrlsChange(t, data, rows)
  BY <1>2 DEF UrlsChange
<1>6. Scheme(urls) /\ (~UrlsChange(t, data, rows) => urls = data.sites)
  BY <1>2, <1>4, <1>5, NewUrlsType
<1> DEFINE filtered == Filtered(urls)
           found == {site \in DOMAIN filtered : Shopping \in DOMAIN filtered[site]}
           name == IF d.serviceName # NoName THEN d.serviceName
                   ELSE IF rows[t] # None /\ rows[t].serviceName # NoName
                   THEN rows[t].serviceName
                   ELSE GenerateUniqueServiceName(d.tenantName)
<1>7. Scheme(filtered)
  BY <1>6, FilterGeneralRoutesGives
<1> HIDE DEF Filtered, filtered
<1>8. CASE found = {}
  <2>1. row = [d EXCEPT !.sites = filtered]
    BY <1>4, <1>8 DEF RenameShopping, filtered
  <2>2. IsRow(row) /\ row.sites = filtered /\ row.serviceName = data.serviceName
        /\ row.active = data.active /\ row.namespaces = namespaces
        /\ row.domainName = data.domainName /\ row.tenantName = data.tenantName
    BY <1>2, <1>7, <2>1 DEF IsRow, Scheme
  <2> QED
    BY <1>6, <1>8, <2>2 DEF WrittenRow, filtered, Filtered, namespaces
<1>9. CASE found # {}
  <2>1. PICK site \in found :
           row = [d EXCEPT !.sites = [filtered EXCEPT ![site] =
                                        ChangeServiceName(@, name)],
                           !.serviceName = name]
    BY <1>4, <1>9 DEF RenameShopping, filtered
  <2>2. name \in Services /\ (data.serviceName # NoName => name = data.serviceName)
    <3>1. /\ d.serviceName \in Services \union {NoName} /\ d.tenantName \in TenantNames
          /\ rows[t] # None => rows[t].serviceName \in Services \union {NoName}
      BY <1>2 DEF IsRow, RowsTyped
    <3> QED
      BY <1>2, <3>1, UniqueNameType
  <2> HIDE DEF name
  <2> DEFINE renamed == [filtered EXCEPT ![site] = ChangeServiceName(@, name)]
  <2>3. Scheme(renamed)
    <3>1. HostLists(filtered[site]) /\ Shopping \in DOMAIN filtered[site]
      BY <1>7, <2>1 DEF Scheme, AreSites, HostLists
    <3>2. HostLists(ChangeServiceName(filtered[site], name))
      BY <2>2, <3>1, ChangeServiceNameGives
    <3> QED
      BY <1>7, <3>2 DEF Scheme, AreSites, HostLists
  <2> HIDE DEF renamed
  <2>4. IsRow(row) /\ row.sites = renamed /\ row.serviceName = name
        /\ row.active = data.active /\ row.namespaces = namespaces
        /\ row.domainName = data.domainName /\ row.tenantName = data.tenantName
    BY <1>2, <2>1, <2>2, <2>3 DEF IsRow, Scheme, renamed
  <2>5. site \in DOMAIN filtered /\ Shopping \in DOMAIN filtered[site]
    BY <2>1
  <2> QED
    BY <1>6, <2>2, <2>4, <2>5 DEF WrittenRow, filtered, Filtered, namespaces, renamed
<1> QED
  BY <1>8, <1>9

-----------------------------------------------------------------------------
(* What becomes of the addresses of a scheme that Upsert writes            *)

\* The addresses of a list whose host no route has, as OwnAddresses has them of a
\* row.
Own(list, routes) ==
    IF Cardinality({i \in DOMAIN list :
                       HostBelongsToRoutes(list[i].host, routes)}) > 1
    THEN {}
    ELSE {a \in ToSet(list) : ~HostBelongsToRoutes(a.host, routes)}

LEMMA EntriesOf ==
    ASSUME NEW sites, NEW site, NEW service, NEW a
    PROVE  <<site, service, a>> \in Entries(sites) <=>
              /\ site \in DOMAIN sites /\ service \in DOMAIN sites[site]
              /\ a \in ToSet(sites[site][service])
  BY DEF Entries

LEMMA EntryParts ==
    ASSUME NEW sites, NEW e \in Entries(sites)
    PROVE  /\ e = <<e[1], e[2], e[3]>>
           /\ e[1] \in DOMAIN sites /\ e[2] \in DOMAIN sites[e[1]]
           /\ e[3] \in ToSet(sites[e[1]][e[2]])
  BY DEF Entries

LEMMA EntryTypes ==
    ASSUME NEW sites, Scheme(sites), NEW e \in Entries(sites)
    PROVE  /\ e[1] \in Sites /\ e[2] \in Services /\ e[3] \in StoredAddress
           /\ e[3].host \in Hosts
<1>1. sites[e[1]][e[2]] \in Seq(StoredAddress) /\ e[1] \in Sites /\ e[2] \in Services
  BY EntryParts DEF Scheme, AreSites
<1>2. e[3] \in StoredAddress
  BY <1>1, EntryParts DEF ToSet
<1> QED
  BY <1>1, <1>2, AddressesOfHosts

\* One site is as it was but for the name of the shopping frontend.
IsRenamed(filtered, site, row) ==
    /\ DOMAIN row.sites = DOMAIN filtered
    /\ \A other \in DOMAIN filtered \ {site} : row.sites[other] = filtered[other]
    /\ DOMAIN row.sites[site] =
          (DOMAIN filtered[site] \ {Shopping}) \union {row.serviceName}
    /\ row.sites[site][row.serviceName] = filtered[site][Shopping]
    /\ \A service \in DOMAIN row.sites[site] \ {row.serviceName} :
          row.sites[site][service] = filtered[site][service]

\* Which service of the filtered sites a service of the row was.
LEMMA RenamedSites ==
    ASSUME NEW filtered, Scheme(filtered), NEW row, IsRow(row),
           NEW site \in DOMAIN filtered, Shopping \in DOMAIN filtered[site],
           row.serviceName \in Services,
           row.sites = [filtered EXCEPT ![site] = ChangeServiceName(@, row.serviceName)]
    PROVE  IsRenamed(filtered, site, row)
<1>1. HostLists(filtered[site])
  BY DEF Scheme, AreSites, HostLists
<1>2. /\ row.sites[site] = ChangeServiceName(filtered[site], row.serviceName)
      /\ DOMAIN row.sites = DOMAIN filtered
      /\ \A other \in DOMAIN filtered \ {site} : row.sites[other] = filtered[other]
  OBVIOUS
<1> DEFINE services == filtered[site]
           to == row.serviceName
           renamed == ChangeServiceName(services, to)
<1>3. HostLists(services) /\ Shopping \in DOMAIN services /\ to \in Services
  BY <1>1
<1> HIDE DEF services, to
<1>4. /\ DOMAIN renamed = (DOMAIN services \ {Shopping}) \union {to}
      /\ renamed[to] = services[Shopping]
      /\ \A service \in DOMAIN renamed \ {to} : renamed[service] = services[service]
  BY <1>3, ChangeServiceNameGives
<1> QED
  BY <1>2, <1>4 DEF services, to, IsRenamed

\* A list of the row is one of the filtered sites; that of the name of the
\* shopping frontend may be its.
LEMMA RowLists ==
    ASSUME NEW t, NEW data, NEW rows, NEW urls, NEW row,
           WrittenRow(t, data, rows, urls, row),
           NEW site \in DOMAIN row.sites, NEW service \in DOMAIN row.sites[site]
    PROVE  LET filtered == FilterGeneralRoutes(urls, RoutesFor(row.namespaces)) IN
           /\ site \in DOMAIN filtered
           /\ \/ /\ service \in DOMAIN filtered[site]
                 /\ row.sites[site][service] = filtered[site][service]
              \/ /\ service = row.serviceName /\ Shopping \in DOMAIN filtered[site]
                 /\ row.sites[site][service] = filtered[site][Shopping]
<1> DEFINE filtered == FilterGeneralRoutes(urls, RoutesFor(row.namespaces))
<1>1. /\ Scheme(urls) /\ IsRow(row)
      /\ \/ row.sites = filtered
         \/ \E s \in DOMAIN filtered :
               /\ Shopping \in DOMAIN filtered[s] /\ row.serviceName \in Services
               /\ row.sites = [filtered EXCEPT ![s] =
                                 ChangeServiceName(@, row.serviceName)]
  BY DEF WrittenRow
<1>2. Scheme(filtered)
  BY <1>1, FilterGeneralRoutesGives
<1> HIDE DEF filtered
<1>3. CASE row.sites = filtered
  BY <1>3 DEF filtered
<1>4. ASSUME NEW s \in DOMAIN filtered,
             Shopping \in DOMAIN filtered[s], row.serviceName \in Services,
             row.sites = [filtered EXCEPT ![s] = ChangeServiceName(@, row.serviceName)]
      PROVE  /\ site \in DOMAIN filtered
             /\ \/ /\ service \in DOMAIN filtered[site]
                   /\ row.sites[site][service] = filtered[site][service]
                \/ /\ service = row.serviceName /\ Shopping \in DOMAIN filtered[site]
                   /\ row.sites[site][service] = filtered[site][Shopping]
  <2>1. IsRenamed(filtered, s, row)
    BY <1>1, <1>2, <1>4, RenamedSites
  <2> QED
    BY <1>4, <2>1 DEF IsRenamed
<1> QED
  BY <1>1, <1>3, <1>4 DEF filtered

\* A list of the filtered sites is in the row, under its name or, if it is the
\* shopping frontend's, that of the tenant, if it was not overwritten.
LEMMA ListsKept ==
    ASSUME NEW t, NEW data, NEW rows, NEW urls, NEW row,
           WrittenRow(t, data, rows, urls, row),
           NEW site, NEW service, NEW filtered,
           filtered = FilterGeneralRoutes(urls, RoutesFor(row.namespaces)),
           site \in DOMAIN filtered, service \in DOMAIN filtered[site],
           ~(service = row.serviceName /\ Shopping \in DOMAIN filtered[site])
    PROVE  /\ site \in DOMAIN row.sites
           /\ \E name \in DOMAIN row.sites[site] :
                 /\ row.sites[site][name] = filtered[site][service]
                 /\ name = service \/ (service = Shopping /\ name = row.serviceName)
<1>1. /\ Scheme(urls) /\ IsRow(row)
      /\ \/ row.sites = filtered
         \/ \E s \in DOMAIN filtered :
               /\ Shopping \in DOMAIN filtered[s] /\ row.serviceName \in Services
               /\ row.sites = [filtered EXCEPT ![s] =
                                 ChangeServiceName(@, row.serviceName)]
  BY DEF WrittenRow
<1>2. Scheme(filtered)
  BY <1>1, FilterGeneralRoutesGives
<1>3. CASE row.sites = filtered
  BY <1>3
<1>4. ASSUME NEW s \in DOMAIN filtered,
             Shopping \in DOMAIN filtered[s], row.serviceName \in Services,
             row.sites = [filtered EXCEPT ![s] = ChangeServiceName(@, row.serviceName)]
      PROVE  /\ site \in DOMAIN row.sites
             /\ \E name \in DOMAIN row.sites[site] :
                   /\ row.sites[site][name] = filtered[site][service]
                   /\ name = service \/ (service = Shopping /\ name = row.serviceName)
  <2>1. IsRenamed(filtered, s, row)
    BY <1>1, <1>2, <1>4, RenamedSites
  <2> QED
    BY <1>4, <2>1 DEF IsRenamed
<1> QED
  BY <1>1, <1>3, <1>4

\* Every address of the row was one of the sites Upsert was given, under the same
\* service but for the shopping frontend.
LEMMA WrittenAddresses ==
    ASSUME NEW t, NEW data, NEW rows, NEW urls, NEW row,
           WrittenRow(t, data, rows, urls, row)
    PROVE  \A e \in Entries(row.sites) : \E f \in Entries(urls) :
              /\ f[1] = e[1] /\ f[3] = e[3]
              /\ \/ f[2] = e[2]
                 \/ f[2] = Shopping /\ e[2] = row.serviceName
<1> TAKE e \in Entries(row.sites)
<1> DEFINE routes == RoutesFor(row.namespaces)
           filtered == FilterGeneralRoutes(urls, routes)
<1>1. Scheme(urls)
  BY DEF WrittenRow
<1>2. /\ e[1] \in DOMAIN row.sites /\ e[2] \in DOMAIN row.sites[e[1]]
      /\ e[3] \in ToSet(row.sites[e[1]][e[2]])
  BY EntryParts
<1>3. PICK service : /\ e[1] \in DOMAIN filtered /\ service \in DOMAIN filtered[e[1]]
                     /\ e[3] \in ToSet(filtered[e[1]][service])
                     /\ \/ service = e[2]
                        \/ service = Shopping /\ e[2] = row.serviceName
  BY <1>2, RowLists
<1>4. /\ e[1] \in DOMAIN urls /\ service \in DOMAIN urls[e[1]]
      /\ FilterList(urls[e[1]][service], routes) # None
      /\ filtered[e[1]][service] = FilterList(urls[e[1]][service], routes)
  BY <1>1, <1>3, FilterGeneralRoutesGives
<1>5. urls[e[1]][service] \in Seq(StoredAddress)
  BY <1>1, <1>4 DEF Scheme, AreSites
<1>6. e[3] \in ToSet(urls[e[1]][service])
  BY <1>3, <1>4, <1>5, FilterListKeeps
<1>7. <<e[1], service, e[3]>> \in Entries(urls)
  BY <1>4, <1>6, EntriesOf
<1> DEFINE f == <<e[1], service, e[3]>>
<1>8. f \in Entries(urls) /\ f[1] = e[1] /\ f[2] = service /\ f[3] = e[3]
  BY <1>7
<1> HIDE DEF f
<1> QED
  BY <1>3, <1>8

\* The addresses of a list that no general route has are in the row, if the list
\* was not overwritten.
LEMMA OwnAddressesKept ==
    ASSUME NEW t, NEW data, NEW rows, NEW urls, NEW row,
           WrittenRow(t, data, rows, urls, row),
           NEW site \in DOMAIN urls, NEW service \in DOMAIN urls[site],
           ~(service = row.serviceName /\ Shopping \in DOMAIN urls[site]),
           NEW a \in Own(urls[site][service], RoutesFor(row.namespaces))
    PROVE  /\ site \in DOMAIN row.sites
           /\ \E name \in DOMAIN row.sites[site] :
                 /\ name = service \/ (service = Shopping /\ name = row.serviceName)
                 /\ a \in ToSet(row.sites[site][name])
<1> DEFINE routes == RoutesFor(row.namespaces)
           filtered == FilterGeneralRoutes(urls, routes)
           list == urls[site][service]
<1>1. Scheme(urls) /\ list \in Seq(StoredAddress)
  BY DEF WrittenRow, Scheme, AreSites
<1>2. /\ Cardinality({i \in DOMAIN list : HostBelongsToRoutes(list[i].host, routes)}) <= 1
      /\ a \in ToSet(list) /\ ~HostBelongsToRoutes(a.host, routes)
  <2> DEFINE generals == {i \in DOMAIN list : HostBelongsToRoutes(list[i].host, routes)}
  <2>1. Cardinality(generals) \in Nat
    <3>1. IsFiniteSet(DOMAIN list) /\ generals \in SUBSET DOMAIN list
      BY <1>1, FS_Interval
    <3> HIDE DEF generals
    <3> QED
      BY <3>1, FS_Subset, FS_CardinalityType
  <2>2. ~(Cardinality(generals) > 1)
    BY DEF Own
  <2>3. a \in {x \in ToSet(list) : ~HostBelongsToRoutes(x.host, routes)}
    BY DEF Own
  <2> HIDE DEF routes, list
  <2> QED
    BY <2>1, <2>2, <2>3
<1>3. FilterList(list, routes) # None /\ a \in ToSet(FilterList(list, routes))
  <2> HIDE DEF routes, list
  <2> QED
    BY <1>1, <1>2, FilterListLosesNone
<1>4. /\ site \in DOMAIN filtered /\ service \in DOMAIN filtered[site]
      /\ filtered[site][service] = FilterList(list, routes)
      /\ DOMAIN filtered[site] \subseteq DOMAIN urls[site]
  BY <1>1, <1>3, FilterGeneralRoutesGives
<1>5. /\ site \in DOMAIN row.sites
      /\ \E name \in DOMAIN row.sites[site] :
            /\ row.sites[site][name] = filtered[site][service]
            /\ name = service \/ (service = Shopping /\ name = row.serviceName)
  BY <1>4, ListsKept
<1> QED
  BY <1>3, <1>4, <1>5

\* The hierarchy check leaves the namespaces that routes are filtered by alone.
LEMMA SameRoutes ==
    ASSUME NEW list \in Seq(Namespaces)
    PROVE  RoutesFor(WithoutMaster(list).array) = RoutesFor(list)
  BY WithoutMasterKeeps DEF RoutesFor, GeneralRoutesOf

\* The addresses of a row that no general route has are those that Own has.
LEMMA OwnAddressesAre ==
    ASSUME NEW row, NEW list
    PROVE  OwnAddresses(row, list) = Own(list, RoutesFor(row.namespaces))
  BY DEF OwnAddresses, Own, GeneralsIn, IsGeneral, RoutesOf, RoutesFor

-----------------------------------------------------------------------------
(* What a tenant's list of routes shows                                    *)

HasHosts(own, service) == service \in DOMAIN own /\ HostsOf(own[service]) # {}

\* The hosts of a tenant's own list come before those of general routes.
LEMMA ListedGives ==
    ASSUME NEW own, HostLists(own), NEW routes, routes \subseteq GeneralRoute
    PROVE  LET view == FilterRoutes(AppendToRoutes(own, routes)) IN
           /\ \A service : service \in DOMAIN view <=>
                 HasHosts(own, service) \/ \E r \in routes : r.service = service
           /\ \A service \in DOMAIN view :
                 view[service] = IF HasHosts(own, service) THEN HostsOf(own[service])
                                 ELSE {r.host : r \in {q \in routes : q.service = service}}
<1> DEFINE general == {[service |-> r.service, host |-> r.host, priority |-> -1] :
                          r \in routes}
           owned == {r \in [service : DOMAIN own, host : Hosts, priority : {0}] :
                        r.host \in HostsOf(own[r.service])}
           all == AppendToRoutes(own, routes)
           view == FilterRoutes(all)
<1>1. all = general \union owned
  BY DEF AppendToRoutes
<1>2. \A service \in DOMAIN own : HostsOf(own[service]) \subseteq Hosts
  <2> SUFFICES ASSUME NEW service \in DOMAIN own, NEW a \in ToSet(own[service])
               PROVE  a.host \in Hosts
    BY DEF HostsOf
  <2>1. own[service] \in Seq(StoredAddress)
    BY DEF HostLists
  <2>2. a \in StoredAddress
    BY <2>1 DEF ToSet
  <2> QED
    BY <2>2, AddressesOfHosts
<1>3. \A g \in general : g.priority = -1 /\ \E r \in routes :
         r.service = g.service /\ r.host = g.host
  OBVIOUS
<1>4. \A r \in routes : \E g \in general :
         g.service = r.service /\ g.host = r.host
  <2> SUFFICES ASSUME NEW r \in routes
               PROVE  \E g \in general : g.service = r.service /\ g.host = r.host
    OBVIOUS
  <2>1. [service |-> r.service, host |-> r.host, priority |-> -1] \in general
    OBVIOUS
  <2> QED
    BY <2>1
<1>5. \A o \in owned : /\ o.priority = 0 /\ o.service \in DOMAIN own
                       /\ o.host \in HostsOf(own[o.service])
  OBVIOUS
<1>6. \A service \in DOMAIN own : \A h \in HostsOf(own[service]) :
         \E o \in owned : o.service = service /\ o.host = h
  <2> SUFFICES ASSUME NEW service \in DOMAIN own, NEW h \in HostsOf(own[service])
               PROVE  \E o \in owned : o.service = service /\ o.host = h
    OBVIOUS
  <2>1. [service |-> service, host |-> h, priority |-> 0] \in owned
    BY <1>2
  <2> QED
    BY <2>1
<1> HIDE DEF general, owned, all
<1>7. /\ DOMAIN view = {r.service : r \in all}
      /\ \A service \in DOMAIN view : view[service] =
            LET same == {r \in all : r.service = service} IN
            {r.host : r \in {q \in same : \A o \in same : o.priority <= q.priority}}
  BY DEF FilterRoutes
<1>8. \A service : service \in DOMAIN view <=>
         HasHosts(own, service) \/ \E r \in routes : r.service = service
  <2> SUFFICES ASSUME NEW service
               PROVE  service \in DOMAIN view <=>
                        HasHosts(own, service) \/ \E r \in routes : r.service = service
    OBVIOUS
  <2>1. service \in DOMAIN view <=> \E x \in all : x.service = service
    BY <1>7
  <2>2. (\E x \in general : x.service = service) <=> \E r \in routes : r.service = service
    BY <1>3, <1>4
  <2>3. (\E x \in owned : x.service = service) <=> HasHosts(own, service)
    BY <1>5, <1>6 DEF HasHosts
  <2> HIDE DEF view
  <2> QED
    BY <1>1, <2>1, <2>2, <2>3
<1>9. ASSUME NEW service \in DOMAIN view
      PROVE  view[service] = IF HasHosts(own, service) THEN HostsOf(own[service])
                             ELSE {r.host : r \in {q \in routes : q.service = service}}
  <2> DEFINE same == {r \in all : r.service = service}
             best == {q \in same : \A o \in same : o.priority <= q.priority}
  <2>1. view[service] = {r.host : r \in best}
    BY <1>7
  <2>2. CASE HasHosts(own, service)
    <3>1. best = {o \in owned : o.service = service}
      <4>1. \E o \in owned : o.service = service
        BY <1>6, <2>2 DEF HasHosts
      <4>2. ASSUME NEW q \in best PROVE q \in owned /\ q.service = service
        BY <1>1, <1>3, <1>5, <4>1
      <4>3. ASSUME NEW q \in owned, q.service = service PROVE q \in best
        BY <1>1, <1>3, <1>5, <4>3
      <4> QED
        BY <4>2, <4>3
    <3> HIDE DEF best
    <3>2. {r.host : r \in best} = HostsOf(own[service])
      BY <1>5, <1>6, <2>2, <3>1 DEF HasHosts
    <3> QED
      BY <2>1, <2>2, <3>2
  <2>3. CASE ~HasHosts(own, service)
    <3>1. \A o \in owned : o.service # service
      BY <1>5, <2>3 DEF HasHosts
    <3>2. best = {g \in general : g.service = service}
      <4>1. ASSUME NEW q \in same PROVE q \in general /\ q.priority = -1
        BY <1>1, <1>3, <3>1
      <4>2. best = same
        BY <4>1
      <4> QED
        BY <1>1, <3>1, <4>2
    <3> HIDE DEF best
    <3>3. {r.host : r \in best} = {r.host : r \in {q \in routes : q.service = service}}
      BY <1>3, <1>4, <3>2
    <3> QED
      BY <2>1, <2>3, <3>3
  <2> QED
    BY <2>2, <2>3
<1> QED
  BY <1>8, <1>9 DEF view, all

\* What a service is listed with: the hosts of its own list, unless it is named
\* after the tenant, or else those of general routes.
Shows(row, general, own, view) ==
    LET routes == GeneralRoutesOf(row.namespaces, general) IN
    /\ \A service : service \in DOMAIN view <=>
          \/ service # row.serviceName /\ HasHosts(own, service)
          \/ \E r \in routes : r.service = service
    /\ \A service \in DOMAIN view :
          view[service] = IF service # row.serviceName /\ HasHosts(own, service)
                          THEN HostsOf(own[service])
                          ELSE {r.host : r \in {q \in routes : q.service = service}}

LEMMA RestrictedShows ==
    ASSUME NEW row, NEW general, general \subseteq GeneralRoute,
           NEW own, HostLists(own), NEW view,
           view = FilterRoutes(AppendToRoutes(
                      Restrict(own, DOMAIN own \ {row.serviceName}),
                      GeneralRoutesOf(row.namespaces, general)))
    PROVE  Shows(row, general, own, view)
<1> DEFINE D == DOMAIN own \ {row.serviceName}
           rest == Restrict(own, D)
           routes == GeneralRoutesOf(row.namespaces, general)
<1>1. routes \subseteq GeneralRoute
  BY DEF GeneralRoutesOf
<1>2. DOMAIN rest = D /\ \A s \in D : rest[s] = own[s]
  BY DEF Restrict
<1>3. D \subseteq DOMAIN own
  OBVIOUS
<1>4. HostLists(rest)
  <2> HIDE DEF rest, D
  <2> QED
    BY <1>2, <1>3 DEF HostLists
<1>5. \A s : HasHosts(rest, s) <=> s # row.serviceName /\ HasHosts(own, s)
  <2> HIDE DEF rest
  <2> QED
    BY <1>2 DEF HasHosts
<1>6. \A s : HasHosts(rest, s) => rest[s] = own[s]
  <2> HIDE DEF rest
  <2> QED
    BY <1>2 DEF HasHosts
<1>7. view = FilterRoutes(AppendToRoutes(rest, routes))
  OBVIOUS
<1> HIDE DEF rest, routes
<1>8. /\ \A s : s \in DOMAIN view <=> HasHosts(rest, s) \/ \E r \in routes : r.service = s
      /\ \A s \in DOMAIN view :
            view[s] = IF HasHosts(rest, s) THEN HostsOf(rest[s])
                      ELSE {r.host : r \in {q \in routes : q.service = s}}
  <2> DEFINE listed == FilterRoutes(AppendToRoutes(rest, routes))
  <2>1. /\ \A s : s \in DOMAIN listed <=>
              HasHosts(rest, s) \/ \E r \in routes : r.service = s
        /\ \A s \in DOMAIN listed :
              listed[s] = IF HasHosts(rest, s) THEN HostsOf(rest[s])
                          ELSE {r.host : r \in {q \in routes : q.service = s}}
    BY <1>1, <1>4, ListedGives
  <2>2. view = listed
    BY <1>7
  <2> HIDE DEF listed
  <2> QED
    BY <2>1, <2>2
<1> QED
  BY <1>5, <1>6, <1>8 DEF Shows, routes

\* The tenant's own lists of a site are those of its scheme, and of an inactive
\* tenant also generated ones for the services that have none there.
OwnLists(row, site, general, own) ==
    LET listed == IF site \in DOMAIN row.sites THEN row.sites[site] ELSE <<>> IN
    IF row.active THEN own = listed
    ELSE \E services \in GenerateRoutesForServices(row.domainName, row.namespaces,
                            GeneralRoutesOf(row.namespaces, general)) :
           /\ DOMAIN own = DOMAIN listed \union DOMAIN services
           /\ \A service \in DOMAIN own :
                 own[service] = IF service \in DOMAIN listed THEN listed[service]
                                ELSE services[service]

LEMMA AnnotatedShow ==
    ASSUME NEW row, IsRow(row), NEW general, general \subseteq GeneralRoute,
           NEW site, NEW view \in AnnotatedHosts(row, site, general)
    PROVE  \E own : /\ HostLists(own) /\ OwnLists(row, site, general, own)
                    /\ Shows(row, general, own, view)
<1> DEFINE routes == GeneralRoutesOf(row.namespaces, general)
           listed == IF site \in DOMAIN row.sites THEN row.sites[site] ELSE <<>>
           Listed(own) == FilterRoutes(AppendToRoutes(
                              Restrict(own, DOMAIN own \ {row.serviceName}), routes))
<1>1. HostLists(listed)
  BY DEF IsRow, AreSites, HostLists
<1>2. CASE row.active
  <2>1. view = Listed(listed)
    BY <1>2 DEF AnnotatedHosts
  <2>2. Shows(row, general, listed, view)
    <3> HIDE DEF listed
    <3> QED
      BY <1>1, <2>1, RestrictedShows
  <2>3. OwnLists(row, site, general, listed)
    BY <1>2 DEF OwnLists
  <2> QED
    BY <1>1, <2>2, <2>3
<1>3. CASE ~row.active
  <2>1. PICK services \in GenerateRoutesForServices(row.domainName, row.namespaces, routes) :
           view = Listed(MergeDatabaseRoutesWithGenerated(row.sites, site, services))
    BY <1>3 DEF AnnotatedHosts
  <2> DEFINE own == MergeDatabaseRoutesWithGenerated(row.sites, site, services)
  <2>2. HostLists(services)
    BY GeneratedRoutesType DEF IsRow
  <2>3. /\ DOMAIN own = DOMAIN listed \union DOMAIN services
        /\ \A service \in DOMAIN own :
              own[service] = IF service \in DOMAIN listed THEN listed[service]
                             ELSE services[service]
    BY DEF MergeDatabaseRoutesWithGenerated
  <2> HIDE DEF own, listed
  <2>4. HostLists(own)
    BY <1>1, <2>2, <2>3 DEF HostLists
  <2>5. Shows(row, general, own, view)
    <3>1. view = Listed(own)
      BY <2>1 DEF own
    <3> QED
      BY <2>4, <3>1, RestrictedShows
  <2>6. OwnLists(row, site, general, own)
    BY <1>3, <2>3 DEF OwnLists, listed
  <2> QED
    BY <2>4, <2>5, <2>6
<1> QED
  BY <1>2, <1>3

\* The default scheme has one site, with a host for each service listed.
DefaultOf(row, view, d) ==
    /\ d.active = row.active /\ d.namespaces = row.namespaces
    /\ d.domainName = row.domainName /\ d.tenantName = row.tenantName
    /\ d.serviceName = row.serviceName
    /\ DOMAIN d.sites = {DefaultSite} /\ DOMAIN d.sites[DefaultSite] = DOMAIN view
    /\ \A service \in DOMAIN view : \E h \in Hosts \intersect view[service] :
          d.sites[DefaultSite][service] = <<Plain(h)>>

LEMMA DefaultSchemesGive ==
    ASSUME RoutesTyped, NEW row, IsRow(row), NEW d \in DefaultSchemes(row)
    PROVE  /\ IsRow(d)
           /\ \E own, view : /\ HostLists(own)
                             /\ OwnLists(row, DefaultSite, generalRoutes, own)
                             /\ Shows(row, generalRoutes, own, view)
                             /\ DefaultOf(row, view, d)
<1>1. PICK view \in AnnotatedHosts(row, DefaultSite, generalRoutes) :
        \E host \in {h \in [DOMAIN view -> Hosts] :
                       \A s \in DOMAIN view : h[s] \in view[s]} :
          d = [row EXCEPT !.sites =
                  [site \in {DefaultSite} |-> [s \in DOMAIN view |-> <<Plain(host[s])>>]]]
  BY DEF DefaultSchemes
<1>2. PICK host \in [DOMAIN view -> Hosts] :
        /\ \A s \in DOMAIN view : host[s] \in view[s]
        /\ d = [row EXCEPT !.sites =
                  [site \in {DefaultSite} |-> [s \in DOMAIN view |-> <<Plain(host[s])>>]]]
  BY <1>1
<1>3. PICK own : /\ HostLists(own) /\ OwnLists(row, DefaultSite, generalRoutes, own)
                 /\ Shows(row, generalRoutes, own, view)
  BY AnnotatedShow DEF RoutesTyped
<1>4. DOMAIN view \subseteq Services
  <2>1. \A r \in GeneralRoutesOf(row.namespaces, generalRoutes) : r.service \in Services
    BY DEF GeneralRoutesOf, RoutesTyped, GeneralRoute
  <2>2. \A s : HasHosts(own, s) => s \in Services
    BY <1>3 DEF HasHosts, HostLists
  <2> QED
    BY <1>3, <2>1, <2>2 DEF Shows
<1> DEFINE services == [s \in DOMAIN view |-> <<Plain(host[s])>>]
           sites == [site \in {DefaultSite} |-> services]
<1>5. /\ DOMAIN services = DOMAIN view
      /\ \A s \in DOMAIN view : host[s] \in Hosts /\ services[s] = <<Plain(host[s])>>
  BY <1>2
<1>6. \A x \in Hosts : <<Plain(x)>> \in Seq(StoredAddress)
  BY AddressesOfHosts
<1>7. d = [row EXCEPT !.sites = sites]
  BY <1>2
<1> HIDE DEF services
<1>8. DOMAIN sites = {DefaultSite} /\ sites[DefaultSite] = services
  OBVIOUS
<1>9. AreSites(sites, Seq(StoredAddress))
  <2>1. \A site \in DOMAIN sites : site = DefaultSite /\ site \in Sites
    BY <1>8, SchemeAssumption
  <2>2. \A service \in DOMAIN services : services[service] \in Seq(StoredAddress)
    BY <1>5, <1>6
  <2> HIDE DEF sites
  <2> QED
    BY <1>4, <1>5, <1>8, <2>1, <2>2 DEF AreSites
<1> HIDE DEF sites
<1>10. /\ d.active = row.active /\ d.namespaces = row.namespaces
       /\ d.domainName = row.domainName /\ d.tenantName = row.tenantName
       /\ d.serviceName = row.serviceName /\ d.sites = sites
       /\ DOMAIN d = DOMAIN row
  BY <1>7 DEF IsRow
<1>11. IsRow(d)
  BY <1>9, <1>10 DEF IsRow
<1>12. DefaultOf(row, view, d)
  BY <1>2, <1>5, <1>8, <1>10 DEF DefaultOf
<1> QED
  BY <1>3, <1>11, <1>12

-----------------------------------------------------------------------------
(* Types                                                                   *)

LEMMA TypedRows ==
    ASSUME TypeOK
    PROVE  /\ DOMAIN tenantDns = Tenants /\ RowsTyped(tenantDns) /\ RoutesTyped
           /\ parentOf \in [Namespaces -> Namespaces \union {NoParent, None}]
  BY RequestAssumption DEF TypeOK, RowsTyped, RoutesTyped

\* A request that calls Upsert once leaves the table or writes one row.
Upserted(op, t, data) ==
    /\ answer'.op = op /\ answer'.tenant = t /\ answer'.data = data
    /\ answer'.before = tenantDns[t]
    /\ answer'.ok \in HierarchyOutcomes(data.namespaces, parentOf)
    /\ answer'.ok \in BOOLEAN
    /\ IF answer'.ok
       THEN /\ \E row, urls : /\ WrittenRow(t, data, tenantDns, urls, row)
                              /\ tenantDns' = [tenantDns EXCEPT ![t] = row]
            /\ accepted' = accepted \union {t}
       ELSE tenantDns' = tenantDns /\ accepted' = accepted

LEMMA UpsertAsGives ==
    ASSUME TypeOK, NEW op, NEW t \in Tenants, NEW data, IsRow(data),
           UpsertAs(op, t, data)
    PROVE  Upserted(op, t, data)
<1>1. PICK ok \in HierarchyOutcomes(data.namespaces, parentOf) :
        /\ Answer(op, t, ok, data)
        /\ IF ok
           THEN /\ \E row \in UpsertRows(t, data, tenantDns) :
                      tenantDns' = [tenantDns EXCEPT ![t] = row]
                /\ accepted' = accepted \union {t}
           ELSE UNCHANGED <<tenantDns, accepted>>
  BY DEF UpsertAs
<1>2. /\ answer'.op = op /\ answer'.tenant = t /\ answer'.data = data
      /\ answer'.before = tenantDns[t] /\ answer'.ok = ok
  BY <1>1 DEF Answer
<1>3. ok \in BOOLEAN
  BY HierarchyOutcomesType DEF IsRow
<1>4. ASSUME ok
      PROVE  /\ \E row, urls : /\ WrittenRow(t, data, tenantDns, urls, row)
                               /\ tenantDns' = [tenantDns EXCEPT ![t] = row]
             /\ accepted' = accepted \union {t}
  <2>1. PICK row \in UpsertRows(t, data, tenantDns) :
          tenantDns' = [tenantDns EXCEPT ![t] = row]
    BY <1>1, <1>4
  <2> QED
    BY <1>1, <1>4, <2>1, TypedRows, UpsertRowsGive
<1> QED
  BY <1>1, <1>2, <1>3, <1>4 DEF Upserted

\* Such a request keeps the types.
LEMMA UpsertedTyped ==
    ASSUME TypeOK, NEW op, NEW t \in Tenants, NEW data, IsRow(data),
           Upserted(op, t, data), Unmoved
    PROVE  TypeOK'
<1>1. CASE answer'.ok
  <2>1. PICK row, urls : /\ WrittenRow(t, data, tenantDns, urls, row)
                         /\ tenantDns' = [tenantDns EXCEPT ![t] = row]
    BY <1>1 DEF Upserted
  <2>2. IsRow(row) /\ tenantDns'[t] = row
    BY <2>1 DEF WrittenRow, TypeOK
  <2> QED
    BY <1>1, <2>1, <2>2 DEF TypeOK, Upserted, After, Unmoved
<1>2. CASE ~answer'.ok
  BY <1>2 DEF TypeOK, Upserted, After, Unmoved
<1> QED
  BY <1>1, <1>2

\* The row as ChangeTenantStatus and restore-tenant-alias pass it to Upsert.
LEMMA WithActive ==
    ASSUME NEW row, IsRow(row), NEW active \in BOOLEAN, NEW data,
           data = [row EXCEPT !.active = active]
    PROVE  /\ IsRow(data) /\ data.active = active
           /\ data.sites = row.sites /\ data.namespaces = row.namespaces
           /\ data.domainName = row.domainName /\ data.tenantName = row.tenantName
           /\ data.serviceName = row.serviceName
  BY DEF IsRow

\* What restore-tenant-alias does for a tenant without sites: an Upsert of the
\* default scheme, and another of what the first one wrote.
SecondUpsert(t, row, rows) ==
    \E data, urls, last :
        /\ TRUE \in HierarchyOutcomes(row.namespaces, parentOf)
        /\ data = [row EXCEPT !.active = TRUE]
        /\ WrittenRow(t, data, rows, urls, last)
        /\ tenantDns' = [rows EXCEPT ![t] = last]

FirstUpsert(t, d, row, urls, rows) ==
    /\ TRUE \in HierarchyOutcomes(d.namespaces, parentOf)
    /\ WrittenRow(t, d, tenantDns, urls, row)
    /\ rows = [tenantDns EXCEPT ![t] = row]
    /\ accepted' = accepted \union {t}
    /\ IF answer'.ok THEN SecondUpsert(t, row, rows) ELSE tenantDns' = rows

RestoredDefault(t, d) ==
    /\ answer'.tenant = t /\ answer'.before = tenantDns[t] /\ answer'.ok \in BOOLEAN
    /\ \/ answer'.op = "Failed" /\ ~answer'.ok
       \/ answer'.op = "RestoreTenantAlias" /\ answer'.data = d
    /\ \/ ~answer'.ok /\ tenantDns' = tenantDns /\ accepted' = accepted
       \/ \E row, urls, rows : FirstUpsert(t, d, row, urls, rows)

\* What follows the first Upsert of the two.
RestoreEnds(t, d, rows, data) ==
    \/ Failed(t) /\ tenantDns' = rows
    \/ \E again \in HierarchyOutcomes(data.namespaces, parentOf) :
         /\ Answer("RestoreTenantAlias", t, again, d)
         /\ IF again
            THEN \E r \in UpsertRows(t, data, rows) :
                   tenantDns' = [rows EXCEPT ![t] = r]
            ELSE tenantDns' = rows

RestoreGoesOn(t, d, row) ==
    /\ accepted' = accepted \union {t}
    /\ RestoreEnds(t, d, [tenantDns EXCEPT ![t] = row], [row EXCEPT !.active = TRUE])

LEMMA RestoreGives ==
    ASSUME TypeOK, NEW t \in Tenants, RestoreTenantAlias(t)
    PROVE  /\ tenantDns[t] # None /\ IsRow(tenantDns[t])
           /\ \/ /\ DOMAIN tenantDns[t].sites # {}
                 /\ \E data : /\ data = [tenantDns[t] EXCEPT !.active = TRUE]
                              /\ Upserted("RestoreTenantAlias", t, data)
              \/ /\ DOMAIN tenantDns[t].sites = {}
                 /\ \E d \in DefaultSchemes(tenantDns[t]) : RestoredDefault(t, d)
<1>1. tenantDns[t] # None /\ IsRow(tenantDns[t])
  BY DEF RestoreTenantAlias, TypeOK
<1>2. CASE DOMAIN tenantDns[t].sites # {}
  <2> DEFINE data == [tenantDns[t] EXCEPT !.active = TRUE]
  <2>1. UpsertAs("RestoreTenantAlias", t, data)
    BY <1>2 DEF RestoreTenantAlias
  <2>2. IsRow(data)
    BY <1>1, WithActive
  <2> HIDE DEF data
  <2>3. Upserted("RestoreTenantAlias", t, data)
    BY <2>1, <2>2, UpsertAsGives
  <2> QED
    BY <1>1, <1>2, <2>3 DEF data
<1>3. CASE DOMAIN tenantDns[t].sites = {}
  <2>1. PICK d \in DefaultSchemes(tenantDns[t]) :
          \E ok \in HierarchyOutcomes(d.namespaces, parentOf) :
              IF ~ok
              THEN /\ Answer("RestoreTenantAlias", t, FALSE, d)
                   /\ UNCHANGED <<tenantDns, accepted>>
              ELSE \E row \in UpsertRows(t, d, tenantDns) : RestoreGoesOn(t, d, row)
    BY <1>3 DEF RestoreTenantAlias, RestoreGoesOn, RestoreEnds
  <2>2. IsRow(d)
    BY <1>1, TypedRows, DefaultSchemesGive
  <2>3. PICK ok \in HierarchyOutcomes(d.namespaces, parentOf) :
              IF ~ok
              THEN /\ Answer("RestoreTenantAlias", t, FALSE, d)
                   /\ UNCHANGED <<tenantDns, accepted>>
              ELSE \E row \in UpsertRows(t, d, tenantDns) : RestoreGoesOn(t, d, row)
    BY <2>1
  <2>4. CASE ~ok
    <3>1. /\ Answer("RestoreTenantAlias", t, FALSE, d)
          /\ tenantDns' = tenantDns /\ accepted' = accepted
      BY <2>3, <2>4
    <3> QED
      BY <1>1, <1>3, <3>1 DEF Answer, RestoredDefault
  <2>5. CASE ok
    <3>1. TRUE \in HierarchyOutcomes(d.namespaces, parentOf)
      <4>1. ok \in BOOLEAN
        BY <2>2, HierarchyOutcomesType DEF IsRow
      <4> QED
        BY <2>5, <4>1
    <3>2. PICK row \in UpsertRows(t, d, tenantDns) : RestoreGoesOn(t, d, row)
      BY <2>3, <2>5
    <3>3. PICK urls : WrittenRow(t, d, tenantDns, urls, row)
      BY <2>2, TypedRows, UpsertRowsGive
    <3> DEFINE rows == [tenantDns EXCEPT ![t] = row]
               data == [row EXCEPT !.active = TRUE]
    <3>4. RestoreEnds(t, d, rows, data) /\ accepted' = accepted \union {t}
      BY <3>2 DEF RestoreGoesOn
    <3>5. IsRow(row) /\ IsRow(data) /\ data.namespaces = row.namespaces
      <4>1. IsRow(row)
        BY <3>3 DEF WrittenRow
      <4> QED
        BY <4>1, WithActive
    <3>7. RowsTyped(rows)
      BY <3>5, TypedRows DEF RowsTyped
    <3> HIDE DEF rows, data
    <3>8. CASE Failed(t) /\ tenantDns' = rows
      <4>1. /\ answer'.op = "Failed" /\ answer'.tenant = t /\ answer'.ok = FALSE
            /\ answer'.before = tenantDns[t]
        BY <3>8 DEF Failed
      <4>2. FirstUpsert(t, d, row, urls, rows)
        BY <3>1, <3>3, <3>4, <3>8, <4>1 DEF rows, FirstUpsert
      <4>3. RestoredDefault(t, d)
        BY <4>1, <4>2 DEF RestoredDefault
      <4> QED
        BY <1>1, <1>3, <4>3
    <3>9. ASSUME NEW again \in HierarchyOutcomes(data.namespaces, parentOf),
                 Answer("RestoreTenantAlias", t, again, d),
                 IF again
                 THEN \E r \in UpsertRows(t, data, rows) :
                        tenantDns' = [rows EXCEPT ![t] = r]
                 ELSE tenantDns' = rows
          PROVE  RestoredDefault(t, d)
      <4>1. again \in BOOLEAN
        BY <3>5, HierarchyOutcomesType DEF IsRow
      <4>2. /\ answer'.op = "RestoreTenantAlias" /\ answer'.tenant = t
            /\ answer'.data = d /\ answer'.before = tenantDns[t]
            /\ answer'.ok = again
        BY <3>9 DEF Answer
      <4>3. CASE again
        <5>1. PICK last \in UpsertRows(t, data, rows) :
                tenantDns' = [rows EXCEPT ![t] = last]
          BY <3>9, <4>3
        <5>2. PICK urls2 : WrittenRow(t, data, rows, urls2, last)
          BY <3>5, <3>7, UpsertRowsGive
        <5>3. TRUE \in HierarchyOutcomes(row.namespaces, parentOf)
          BY <3>5, <4>1, <4>3
        <5>4. SecondUpsert(t, row, rows)
          BY <5>1, <5>2, <5>3 DEF data, SecondUpsert
        <5>5. FirstUpsert(t, d, row, urls, rows)
          BY <3>1, <3>3, <3>4, <4>2, <4>3, <5>4 DEF rows, FirstUpsert
        <5> QED
          BY <4>1, <4>2, <5>5 DEF RestoredDefault
      <4>4. CASE ~again
        <5>1. tenantDns' = rows
          BY <3>9, <4>4
        <5>2. FirstUpsert(t, d, row, urls, rows)
          BY <3>1, <3>3, <3>4, <4>2, <4>4, <5>1 DEF rows, FirstUpsert
        <5> QED
          BY <4>1, <4>2, <5>2 DEF RestoredDefault
      <4> QED
        BY <4>3, <4>4
    <3> QED
      BY <1>1, <1>3, <3>4, <3>8, <3>9 DEF RestoreEnds
  <2> QED
    BY <2>4, <2>5
<1> QED
  BY <1>2, <1>3

LEMMA RestoredTyped ==
    ASSUME TypeOK, NEW t \in Tenants, RestoreTenantAlias(t)
    PROVE  TypeOK'
<1>1. Unmoved /\ IsRow(tenantDns[t])
  BY RestoreGives DEF RestoreTenantAlias
<1>2. CASE \E data : /\ data = [tenantDns[t] EXCEPT !.active = TRUE]
                     /\ Upserted("RestoreTenantAlias", t, data)
  BY <1>1, <1>2, WithActive, UpsertedTyped
<1>3. CASE \E d \in DefaultSchemes(tenantDns[t]) : RestoredDefault(t, d)
  <2>1. PICK d \in DefaultSchemes(tenantDns[t]) : RestoredDefault(t, d)
    BY <1>3
  <2>2. IsRow(d)
    BY <1>1, <2>1, TypedRows, DefaultSchemesGive
  <2>3. CASE ~answer'.ok /\ tenantDns' = tenantDns /\ accepted' = accepted
    BY <1>1, <2>1, <2>3 DEF TypeOK, RestoredDefault, Unmoved
  <2>4. CASE ~(~answer'.ok /\ tenantDns' = tenantDns /\ accepted' = accepted)
    <3>1. PICK row, urls, rows : FirstUpsert(t, d, row, urls, rows)
      BY <2>1, <2>4 DEF RestoredDefault
    <3>2. /\ DOMAIN rows = Tenants
          /\ \A u \in Tenants : rows[u] # None => IsRow(rows[u])
          /\ accepted' \subseteq Tenants
      BY <3>1 DEF FirstUpsert, WrittenRow, TypeOK
    <3>3. CASE answer'.ok
      <4>1. PICK last : IsRow(last) /\ tenantDns' = [rows EXCEPT ![t] = last]
        BY <3>1, <3>3 DEF FirstUpsert, SecondUpsert, WrittenRow
      <4>2. tenantDns'[t] = last
        BY <3>2, <4>1
      <4> QED
        BY <1>1, <2>1, <2>2, <3>2, <3>3, <4>1, <4>2
        DEF TypeOK, RestoredDefault, After, Unmoved
    <3>4. CASE ~answer'.ok
      BY <1>1, <2>1, <3>1, <3>2, <3>4
      DEF FirstUpsert, TypeOK, RestoredDefault, After, Unmoved
    <3> QED
      BY <3>3, <3>4
  <2> QED
    BY <2>3, <2>4
<1> QED
  BY <1>2, <1>3, RestoreGives

\* Rows, answers, general routes and parents are of their types, whatever requests
\* are made: Upsert stores rows only, although the table is written by an unchecked
\* update of whatever it computed.
THEOREM SchemeTypeCorrect == Spec => []TypeOK
<1>1. Init => TypeOK
  BY DEF Init, TypeOK
<1>2. TypeOK /\ [Next]_vars => TypeOK'
  <2> SUFFICES ASSUME TypeOK, [Next]_vars PROVE TypeOK'
    OBVIOUS
  <2>1. ASSUME NEW p \in Payloads, Upsert(p) PROVE TypeOK'
    <3>1. p.tenant \in Tenants /\ IsRow(Payload(p))
      BY RequestAssumption
    <3>2. /\ UpsertAs("Upsert", p.tenant, Payload(p))
          /\ Unmoved
      BY <2>1 DEF Upsert
    <3> QED
      BY <3>1, <3>2, UpsertAsGives, UpsertedTyped
  <2>2. ASSUME NEW t \in Tenants, NEW active \in BOOLEAN, ChangeTenantStatus(t, active)
        PROVE  TypeOK'
    <3> DEFINE data == [tenantDns[t] EXCEPT !.active = active]
    <3>1. /\ tenantDns[t] # None /\ Unmoved
          /\ UpsertAs("ChangeTenantStatus", t, data)
      BY <2>2 DEF ChangeTenantStatus
    <3>2. IsRow(data)
      BY <3>1, WithActive DEF TypeOK
    <3> HIDE DEF data
    <3> QED
      BY <3>1, <3>2, UpsertAsGives, UpsertedTyped
  <2>3. ASSUME NEW r \in Registrations, RegisterTenant(r) PROVE TypeOK'
    <3> DEFINE row == [sites |-> EmptySites, active |-> FALSE,
                       namespaces |-> r.namespaces, domainName |-> NoDomain,
                       tenantName |-> r.tenantName, serviceName |-> NoName]
    <3>1. IsRow(row)
      <4>1. AreSites(EmptySites, Seq(StoredAddress))
        BY DEF AreSites, EmptySites
      <4> QED
        BY <4>1, RequestAssumption, SchemeAssumption DEF IsRow
    <3>2. r.tenant \in Tenants
      BY RequestAssumption
    <3>3. /\ tenantDns' = [tenantDns EXCEPT ![r.tenant] = row]
          /\ Unmoved
          /\ accepted' = accepted \ {r.tenant}
          /\ Answer("RegisterTenant", r.tenant, TRUE, tenantDns'[r.tenant])
      BY <2>3 DEF RegisterTenant
    <3> HIDE DEF row
    <3> QED
      BY <3>1, <3>2, <3>3 DEF TypeOK, Answer, After, Unmoved
  <2>4. ASSUME NEW t \in Tenants, DeleteRoutes(t) PROVE TypeOK'
    <3> DEFINE row == [tenantDns[t] EXCEPT !.sites = EmptySites]
    <3>1. IsRow(row)
      <4>1. AreSites(EmptySites, Seq(StoredAddress))
        BY DEF AreSites, EmptySites
      <4>2. IsRow(tenantDns[t])
        BY <2>4 DEF DeleteRoutes, TypeOK
      <4> QED
        BY <4>1, <4>2 DEF IsRow
    <3>2. tenantDns' = [tenantDns EXCEPT ![t] = row]
      BY <2>4 DEF DeleteRoutes
    <3> HIDE DEF row
    <3> QED
      BY <2>4, <3>1, <3>2 DEF TypeOK, Answer, After, DeleteRoutes, Unmoved
  <2>5. ASSUME NEW t \in Tenants, RestoreTenantAlias(t) PROVE TypeOK'
    BY <2>5, RestoredTyped
  <2>6. ASSUME NEW r \in CloudRoutes, ChangeGeneralRoute(r) PROVE TypeOK'
    BY <2>6 DEF ChangeGeneralRoute, TypeOK, After
  <2>7. CASE Reply
    BY <2>7 DEF Reply, TypeOK, Unmoved
  <2>8. CASE UNCHANGED vars
    BY <2>8 DEF vars, TypeOK, After
  <2>9. ASSUME NEW t \in Tenants, UpsertFails(t) PROVE TypeOK'
    BY <2>9 DEF UpsertFails, Failed, Unmoved, TypeOK, After
  <2>10. ASSUME NEW n \in Namespaces, ChangeConfigMap(n) PROVE TypeOK'
    BY <2>10 DEF ChangeConfigMap, TypeOK, After
  <2> QED
    BY <2>1, <2>2, <2>3, <2>4, <2>5, <2>6, <2>7, <2>8, <2>9, <2>10 DEF Next
<1> QED
  BY <1>1, <1>2, PTL DEF Spec

-----------------------------------------------------------------------------
(* Accepted schemes                                                        *)

Repeats(list) == Cardinality(ToSet(list)) < Len(list)

LEMMA RepeatedOf ==
    ASSUME NEW S, NEW list \in Seq(S)
    PROVE  Repeats(list) <=> \E j, k \in 1..Len(list) : j # k /\ list[j] = list[k]
<1> DEFINE n == Len(list)
           D == 1..n
           T == ToSet(list)
<1>1. n \in Nat /\ list \in [D -> S] /\ DOMAIN list = D
  OBVIOUS
<1>2. T = {list[i] : i \in D}
  BY <1>1 DEF ToSet
<1>3. IsFiniteSet(D) /\ Cardinality(D) = n
  BY <1>1, FS_Interval
<1>4. list \in Surjection(D, T)
  <2>1. list \in [D -> T]
    BY <1>1, <1>2
  <2> HIDE DEF T
  <2> QED
    BY <1>2, <2>1 DEF Surjection
<1> HIDE DEF T, D
<1>5. /\ IsFiniteSet(T) /\ Cardinality(T) <= Cardinality(D)
      /\ Cardinality(T) = Cardinality(D) <=> list \in Injection(D, T)
  BY <1>3, <1>4, FS_Surjection
<1>6. Cardinality(T) \in Nat
  BY <1>5, FS_CardinalityType
<1>7. list \in Injection(D, T) <=> \A j, k \in D : j # k => list[j] # list[k]
  BY <1>4 DEF Injection, IsInjective, Surjection
<1>8. Repeats(list) <=> \E j, k \in D : j # k /\ list[j] = list[k]
  BY <1>1, <1>3, <1>5, <1>6, <1>7 DEF Repeats, T
<1> QED
  BY <1>8 DEF D

\* The hierarchy of a list that repeats no namespace is decided by its chain.
LEMMA DecidedByChain ==
    ASSUME NEW list \in Seq(Namespaces), ~Repeats(list), NEW parents
    PROVE  LET others == {i \in DOMAIN list : list[i] # Master} IN
           HierarchyOutcomes(list, parents) =
              IF \/ Cardinality(others) <= 1
                 \/ ChainFrom(Master, {list[i] : i \in others}, parents)
              THEN {TRUE} ELSE {FALSE}
<1> DEFINE n == Len(list)
           others == {i \in DOMAIN list : list[i] # Master}
           masters == DOMAIN list \ others
<1>1. \A j, k \in 1..n : j # k => list[j] # list[k]
  BY RepeatedOf
<1>2. /\ \A j \in masters : j \in 1..n /\ list[j] = Master
      /\ DOMAIN list = 1..n
  OBVIOUS
<1>3. Cardinality(masters) <= 1
  <2>1. CASE masters = {}
    <3>1. Cardinality({}) = 0
      BY FS_EmptySet
    <3> QED
      BY <2>1, <3>1
  <2>2. CASE masters # {}
    <3>1. PICK j \in masters : TRUE
      BY <2>2
    <3>2. \A i \in masters : i = j
      <4> HIDE DEF masters
      <4> QED
        BY <1>1, <1>2, <3>1
    <3>3. masters = {j}
      <4> HIDE DEF masters
      <4> QED
        BY <3>1, <3>2
    <3>4. Cardinality({j}) = 1
      BY FS_Singleton
    <3> HIDE DEF masters
    <3> QED
      BY <3>3, <3>4
  <2> QED
    BY <2>1, <2>2
<1> QED
  BY <1>3, HierarchyIsChain

\* What was accepted is accepted again as it was stored, or repeats a namespace.
LEMMA AcceptedStays ==
    ASSUME NEW list \in Seq(Namespaces), NEW parents,
           TRUE \in HierarchyOutcomes(list, parents)
    PROVE  LET array == WithoutMaster(list).array IN
           Repeats(array) \/ FALSE \notin HierarchyOutcomes(array, parents)
<1> DEFINE array == WithoutMaster(list).array
           n == Len(list)
<1>1. array \in Seq(Namespaces) /\ Len(array) = n
  BY WithoutMasterKeeps
<1>2. CASE array # list
  <2>1. \E j, k \in 1..n : j # k /\ array[j] = array[k]
    BY <1>2, WithoutMasterRepeats
  <2>2. Repeats(array)
    <3> HIDE DEF array
    <3> QED
      BY <1>1, <2>1, RepeatedOf
  <2> QED
    BY <2>2
<1>3. CASE array = list /\ ~Repeats(list)
  <2>1. HierarchyOutcomes(list, parents) \in {{TRUE}, {FALSE}}
    BY <1>3, DecidedByChain
  <2> QED
    BY <1>3, <2>1
<1> QED
  BY <1>2, <1>3

\* The config map of a namespace is nothing to a set of others.
LEMMA ChainOfOthers ==
    ASSUME NEW set, NEW n, n \notin set, NEW parents, NEW now,
           \A o \in set : now[o] = parents[o]
    PROVE  ChainFrom(Master, set, parents) => ChainFrom(Master, set, now)
<1> SUFFICES ASSUME ChainFrom(Master, set, parents) PROVE ChainFrom(Master, set, now)
  OBVIOUS
<1>1. PICK order \in SetToSeqs(set) :
        \A i \in DOMAIN order :
            parents[order[i]] = IF i = 1 THEN Master ELSE order[i - 1]
  BY DEF ChainFrom
<1>2. \A i \in DOMAIN order : order[i] \in set
  BY <1>1 DEF SetToSeqs, SetToSeq
<1> QED
  BY <1>1, <1>2 DEF ChainFrom

LEMMA AcceptedWithOtherMap ==
    ASSUME NEW list \in Seq(Namespaces), NEW n, n \notin ToSet(list),
           NEW parents, NEW now,
           \A o \in Namespaces \ {n} : now[o] = parents[o],
           FALSE \notin HierarchyOutcomes(list, parents)
    PROVE  Repeats(list) \/ FALSE \notin HierarchyOutcomes(list, now)
<1> SUFFICES ASSUME ~Repeats(list) PROVE FALSE \notin HierarchyOutcomes(list, now)
  OBVIOUS
<1> DEFINE others == {i \in DOMAIN list : list[i] # Master}
           set == {list[i] : i \in others}
<1>1. \A o \in set : o # n /\ now[o] = parents[o]
  <2>1. \A i \in DOMAIN list : list[i] \in Namespaces /\ list[i] \in ToSet(list)
    BY DEF ToSet
  <2> QED
    BY <2>1
<1>2. HierarchyOutcomes(list, parents) =
         IF Cardinality(others) <= 1 \/ ChainFrom(Master, set, parents)
         THEN {TRUE} ELSE {FALSE}
  BY DecidedByChain
<1>3. HierarchyOutcomes(list, now) =
         IF Cardinality(others) <= 1 \/ ChainFrom(Master, set, now)
         THEN {TRUE} ELSE {FALSE}
  BY DecidedByChain
<1> HIDE DEF others, set
<1>4. ChainFrom(Master, set, parents) => ChainFrom(Master, set, now)
  BY <1>1, ChainOfOthers
<1> QED
  BY <1>2, <1>3, <1>4

\* The row is accepted whenever it is checked, but if its namespaces repeat.
Acceptable(row) ==
    /\ IsRow(row)
    /\ \/ Repeats(row.namespaces)
       \/ FALSE \notin HierarchyOutcomes(row.namespaces, parentOf)

AcceptedRows == \A t \in accepted : Acceptable(tenantDns[t])

LEMMA WrittenAcceptable ==
    ASSUME NEW t, NEW data, IsRow(data), NEW rows, NEW urls, NEW row,
           WrittenRow(t, data, rows, urls, row),
           TRUE \in HierarchyOutcomes(data.namespaces, parentOf)
    PROVE  Acceptable(row)
<1>1. data.namespaces \in Seq(Namespaces)
  BY DEF IsRow
<1>2. row.namespaces = WithoutMaster(data.namespaces).array /\ IsRow(row)
  BY DEF WrittenRow
<1> QED
  BY <1>1, <1>2, AcceptedStays DEF Acceptable

\* A tenant gets an acceptable row, and the others keep theirs.
LEMMA AcceptableWritten ==
    ASSUME TypeOK, AcceptedRows, NEW t \in Tenants, NEW row, Acceptable(row),
           tenantDns' = [tenantDns EXCEPT ![t] = row], UNCHANGED parentOf,
           accepted' \subseteq accepted \union {t}
    PROVE  AcceptedRows'
<1>1. /\ DOMAIN tenantDns = Tenants /\ tenantDns'[t] = row
      /\ \A u \in accepted' \ {t} : u \in accepted /\ tenantDns'[u] = tenantDns[u]
  BY DEF TypeOK
<1> QED
  BY <1>1 DEF AcceptedRows, Acceptable

LEMMA UpsertedAcceptable ==
    ASSUME TypeOK, AcceptedRows, NEW op, NEW t \in Tenants, NEW data, IsRow(data),
           Upserted(op, t, data), Unmoved
    PROVE  AcceptedRows'
<1>1. CASE answer'.ok
  <2>1. PICK row, urls : /\ WrittenRow(t, data, tenantDns, urls, row)
                         /\ tenantDns' = [tenantDns EXCEPT ![t] = row]
    BY <1>1 DEF Upserted
  <2>2. TRUE \in HierarchyOutcomes(data.namespaces, parentOf)
    BY <1>1 DEF Upserted
  <2>3. Acceptable(row)
    BY <2>1, <2>2, WrittenAcceptable
  <2>4. UNCHANGED parentOf /\ accepted' \subseteq accepted \union {t}
    BY <1>1 DEF Upserted, Unmoved
  <2> QED
    BY <2>1, <2>3, <2>4, AcceptableWritten
<1>2. CASE ~answer'.ok
  BY <1>2 DEF AcceptedRows, Acceptable, Upserted, Unmoved
<1> QED
  BY <1>1, <1>2

LEMMA RestoredAcceptable ==
    ASSUME TypeOK, AcceptedRows, NEW t \in Tenants, RestoreTenantAlias(t)
    PROVE  AcceptedRows'
<1>1. Unmoved /\ UNCHANGED parentOf /\ IsRow(tenantDns[t])
  BY RestoreGives DEF RestoreTenantAlias, Unmoved
<1>2. CASE \E data : /\ data = [tenantDns[t] EXCEPT !.active = TRUE]
                     /\ Upserted("RestoreTenantAlias", t, data)
  BY <1>1, <1>2, WithActive, UpsertedAcceptable
<1>3. CASE \E d \in DefaultSchemes(tenantDns[t]) : RestoredDefault(t, d)
  <2>1. PICK d \in DefaultSchemes(tenantDns[t]) : RestoredDefault(t, d)
    BY <1>3
  <2>2. IsRow(d)
    BY <1>1, <2>1, TypedRows, DefaultSchemesGive
  <2>3. CASE ~answer'.ok /\ tenantDns' = tenantDns /\ accepted' = accepted
    BY <1>1, <2>3 DEF AcceptedRows, Acceptable
  <2>4. CASE ~(~answer'.ok /\ tenantDns' = tenantDns /\ accepted' = accepted)
    <3>1. PICK row, urls, rows : FirstUpsert(t, d, row, urls, rows)
      BY <2>1, <2>4 DEF RestoredDefault
    <3>2. IsRow(row) /\ Acceptable(row)
      <4>1. WrittenRow(t, d, tenantDns, urls, row)
        BY <3>1 DEF FirstUpsert
      <4>2. TRUE \in HierarchyOutcomes(d.namespaces, parentOf)
        BY <3>1 DEF FirstUpsert
      <4> QED
        BY <2>2, <4>1, <4>2, WrittenAcceptable DEF WrittenRow
    <3>3. /\ rows = [tenantDns EXCEPT ![t] = row]
          /\ accepted' \subseteq accepted \union {t}
      BY <3>1 DEF FirstUpsert
    <3>4. CASE answer'.ok
      <4>1. PICK data, urls2, last :
              /\ TRUE \in HierarchyOutcomes(row.namespaces, parentOf)
              /\ data = [row EXCEPT !.active = TRUE]
              /\ WrittenRow(t, data, rows, urls2, last)
              /\ tenantDns' = [rows EXCEPT ![t] = last]
        BY <3>1, <3>4 DEF FirstUpsert, SecondUpsert
      <4>2. IsRow(data) /\ data.namespaces = row.namespaces
        BY <3>2, <4>1, WithActive
      <4>3. Acceptable(last)
        BY <4>1, <4>2, WrittenAcceptable
      <4>4. tenantDns' = [tenantDns EXCEPT ![t] = last]
        BY <3>3, <4>1
      <4> QED
        BY <1>1, <3>3, <4>3, <4>4, AcceptableWritten
    <3>5. CASE ~answer'.ok
      <4>1. tenantDns' = [tenantDns EXCEPT ![t] = row]
        BY <3>1, <3>5 DEF FirstUpsert
      <4> QED
        BY <1>1, <3>2, <3>3, <4>1, AcceptableWritten
    <3> QED
      BY <3>4, <3>5
  <2> QED
    BY <2>3, <2>4
<1> QED
  BY <1>2, <1>3, RestoreGives

-----------------------------------------------------------------------------
(* Steps                                                                   *)

\* What the requests that call Upsert once do.
UpsertStep(p) ==
    /\ p.tenant \in Tenants /\ IsRow(Payload(p))
    /\ Upserted("Upsert", p.tenant, Payload(p))
    /\ Unmoved

StatusStep(t, active, data) ==
    /\ IsRow(tenantDns[t]) /\ tenantDns[t] # None
    /\ data = [tenantDns[t] EXCEPT !.active = active] /\ IsRow(data)
    /\ Upserted("ChangeTenantStatus", t, data)
    /\ Unmoved

LEMMA Steps ==
    ASSUME TypeOK, [Next]_vars
    PROVE  \/ \E p \in Payloads : UpsertStep(p)
           \/ \E t \in Tenants, active \in BOOLEAN :
                \E data : StatusStep(t, active, data)
           \/ \E t \in Tenants : RestoreTenantAlias(t)
           \/ \E r \in Registrations : RegisterTenant(r) /\ answer'.op = "RegisterTenant"
           \/ \E t \in Tenants : DeleteRoutes(t) /\ answer'.op = "DeleteRoutes"
           \/ answer'.op = "Failed" /\ UNCHANGED <<tenantDns, parentOf, accepted>>
           \/ answer' = None /\ UNCHANGED <<tenantDns, parentOf, accepted>>
           \/ \E n \in Namespaces : ChangeConfigMap(n) /\ answer' = None
           \/ UNCHANGED vars
<1>1. ASSUME NEW p \in Payloads, Upsert(p) PROVE UpsertStep(p)
  <2>1. p.tenant \in Tenants /\ IsRow(Payload(p))
    BY RequestAssumption
  <2>2. UpsertAs("Upsert", p.tenant, Payload(p)) /\ Unmoved
    BY <1>1 DEF Upsert
  <2>3. Upserted("Upsert", p.tenant, Payload(p))
    BY <2>1, <2>2, UpsertAsGives
  <2> QED
    BY <2>1, <2>2, <2>3 DEF UpsertStep
<1>2. ASSUME NEW t \in Tenants, NEW active \in BOOLEAN, ChangeTenantStatus(t, active)
      PROVE  \E data : StatusStep(t, active, data)
  <2> DEFINE data == [tenantDns[t] EXCEPT !.active = active]
  <2>1. /\ tenantDns[t] # None /\ Unmoved
        /\ UpsertAs("ChangeTenantStatus", t, data)
    BY <1>2 DEF ChangeTenantStatus
  <2>2. IsRow(tenantDns[t]) /\ IsRow(data)
    BY <2>1, WithActive DEF TypeOK
  <2>3. data = [tenantDns[t] EXCEPT !.active = active]
    OBVIOUS
  <2> HIDE DEF data
  <2>4. Upserted("ChangeTenantStatus", t, data)
    BY <2>1, <2>2, UpsertAsGives
  <2>5. StatusStep(t, active, data)
    BY <2>1, <2>2, <2>3, <2>4 DEF StatusStep
  <2> QED
    BY <2>5
<1>3. ASSUME NEW r \in Registrations, RegisterTenant(r)
      PROVE  answer'.op = "RegisterTenant"
  BY <1>3 DEF RegisterTenant, Answer
<1>4. ASSUME NEW t \in Tenants, DeleteRoutes(t) PROVE answer'.op = "DeleteRoutes"
  BY <1>4 DEF DeleteRoutes, Answer
<1>5. ASSUME NEW r \in CloudRoutes, ChangeGeneralRoute(r)
      PROVE  answer' = None /\ UNCHANGED <<tenantDns, parentOf, accepted>>
  BY <1>5 DEF ChangeGeneralRoute
<1>6. ASSUME Reply
      PROVE  answer' = None /\ UNCHANGED <<tenantDns, parentOf, accepted>>
  BY <1>6 DEF Reply, Unmoved
<1>7. ASSUME NEW t \in Tenants, UpsertFails(t)
      PROVE  answer'.op = "Failed" /\ UNCHANGED <<tenantDns, parentOf, accepted>>
  BY <1>7 DEF UpsertFails, Failed, Unmoved
<1>8. ASSUME NEW n \in Namespaces, ChangeConfigMap(n) PROVE answer' = None
  BY <1>8 DEF ChangeConfigMap
<1> QED
  BY <1>1, <1>2, <1>3, <1>4, <1>5, <1>6, <1>7, <1>8 DEF Next

LEMMA AcceptedRowsStay ==
    ASSUME TypeOK, AcceptedRows, [Next]_vars
    PROVE  AcceptedRows'
<1>1. ASSUME NEW p \in Payloads, UpsertStep(p) PROVE AcceptedRows'
  BY <1>1, UpsertedAcceptable DEF UpsertStep
<1>2. ASSUME NEW t \in Tenants, NEW active, NEW data, StatusStep(t, active, data)
      PROVE  AcceptedRows'
  BY <1>2, UpsertedAcceptable DEF StatusStep
<1>3. ASSUME NEW t \in Tenants, RestoreTenantAlias(t) PROVE AcceptedRows'
  BY <1>3, RestoredAcceptable
<1>4. ASSUME NEW r \in Registrations, RegisterTenant(r) PROVE AcceptedRows'
  <2>1. /\ parentOf' = parentOf
        /\ \A u \in accepted' : u \in accepted /\ tenantDns'[u] = tenantDns[u]
    BY <1>4 DEF RegisterTenant, Unmoved, TypeOK
  <2> QED
    BY <2>1 DEF AcceptedRows, Acceptable
<1>5. ASSUME NEW t \in Tenants, DeleteRoutes(t) PROVE AcceptedRows'
  <2>1. /\ DOMAIN tenantDns = Tenants /\ IsRow(tenantDns[t])
        /\ parentOf' = parentOf /\ accepted' = accepted
    BY <1>5 DEF TypeOK, DeleteRoutes, Unmoved
  <2> DEFINE row == [tenantDns[t] EXCEPT !.sites = EmptySites]
  <2>2. IsRow(row) /\ row.namespaces = tenantDns[t].namespaces
    BY <2>1 DEF IsRow, AreSites, EmptySites
  <2>3. tenantDns'[t] = row /\ \A u \in Tenants \ {t} : tenantDns'[u] = tenantDns[u]
    BY <1>5, <2>1 DEF DeleteRoutes
  <2> HIDE DEF row
  <2>4. ASSUME NEW u \in accepted PROVE Acceptable(tenantDns[u])'
    <3>1. CASE u = t
      BY <2>1, <2>2, <2>3, <3>1 DEF AcceptedRows, Acceptable
    <3>2. CASE u # t
      BY <2>1, <2>3, <3>2 DEF AcceptedRows, Acceptable, TypeOK
    <3> QED
      BY <3>1, <3>2
  <2> QED
    BY <2>1, <2>4 DEF AcceptedRows
<1>6. CASE UNCHANGED <<tenantDns, parentOf, accepted>>
  BY <1>6 DEF AcceptedRows, Acceptable
<1>7. CASE UNCHANGED vars
  BY <1>7, <1>6 DEF vars
<1>8. ASSUME NEW n \in Namespaces, ChangeConfigMap(n) PROVE AcceptedRows'
  <2>1. /\ tenantDns' = tenantDns
        /\ \A u \in accepted' : /\ u \in accepted
                                 /\ n \notin ToSet(tenantDns[u].namespaces)
    BY <1>8 DEF ChangeConfigMap
  <2>2. \A o \in Namespaces \ {n} : parentOf'[o] = parentOf[o]
    BY <1>8, TypedRows DEF ChangeConfigMap
  <2>3. ASSUME NEW u \in accepted' PROVE Acceptable(tenantDns[u])'
    <3>1. /\ Acceptable(tenantDns[u]) /\ tenantDns[u].namespaces \in Seq(Namespaces)
          /\ n \notin ToSet(tenantDns[u].namespaces)
      BY <2>1, <2>3 DEF AcceptedRows, Acceptable, IsRow
    <3> DEFINE list == tenantDns[u].namespaces
    <3>2. ASSUME FALSE \notin HierarchyOutcomes(list, parentOf)
          PROVE  Repeats(list) \/ FALSE \notin HierarchyOutcomes(list, parentOf')
      <4> HIDE DEF list
      <4>1. list \in Seq(Namespaces) /\ n \notin ToSet(list)
        BY <3>1 DEF list
      <4> QED
        BY <2>2, <3>2, <4>1, AcceptedWithOtherMap
    <3>3. IsRow(tenantDns[u])
          /\ (Repeats(list) \/ FALSE \notin HierarchyOutcomes(list, parentOf'))
      BY <3>1, <3>2 DEF Acceptable
    <3> QED
      BY <2>1, <3>3 DEF Acceptable
  <2> QED
    BY <2>3 DEF AcceptedRows
<1> QED
  BY <1>1, <1>2, <1>3, <1>4, <1>5, <1>6, <1>7, <1>8, Steps

\* A tenant whose scheme was accepted can be activated and deactivated, after
\* whatever requests and in whatever order the config maps are looked at, while
\* those of its namespaces stay as they are: the list of namespaces, which Upsert
\* stores as the hierarchy check left it, is accepted as the list it was made from,
\* if it repeats no namespace, and config maps of others do not matter to it.
THEOREM AcceptedSchemesAreSwitched == Spec => []StatusChangeAccepted
<1> DEFINE Inv == TypeOK /\ AcceptedRows
<1>1. Init => Inv /\ StatusChangeAccepted
  BY DEF Init, TypeOK, AcceptedRows, StatusChangeAccepted, Answered
<1>2. Inv /\ [Next]_vars => AcceptedRows'
  BY AcceptedRowsStay
<1>3. Inv /\ StatusChangeAccepted /\ [Next]_vars => StatusChangeAccepted'
  <2> SUFFICES ASSUME TypeOK, AcceptedRows, StatusChangeAccepted, [Next]_vars,
                      answer' # None, answer'.op = "ChangeTenantStatus", ~answer'.ok
               PROVE  \/ answer'.tenant \notin accepted'
                      \/ Repeats(answer'.before.namespaces)
    BY DEF StatusChangeAccepted, Answered, Repeats
  <2>1. ASSUME NEW t \in Tenants, NEW active \in BOOLEAN, NEW data,
               StatusStep(t, active, data)
        PROVE  \/ answer'.tenant \notin accepted'
               \/ Repeats(answer'.before.namespaces)
    <3>1. data.namespaces = tenantDns[t].namespaces
      BY <2>1, WithActive DEF StatusStep
    <3>2. FALSE \in HierarchyOutcomes(tenantDns[t].namespaces, parentOf)
      BY <2>1, <3>1 DEF StatusStep, Upserted
    <3>3. /\ answer'.before = tenantDns[t] /\ answer'.tenant = t
          /\ accepted' = accepted
      BY <2>1 DEF StatusStep, Upserted
    <3>4. t \in accepted => Acceptable(tenantDns[t])
      BY DEF AcceptedRows
    <3> QED
      BY <3>2, <3>3, <3>4 DEF Acceptable
  <2>2. ASSUME NEW p, UpsertStep(p) PROVE FALSE
    BY <2>2 DEF UpsertStep, Upserted
  <2>3. ASSUME NEW t \in Tenants, RestoreTenantAlias(t) PROVE FALSE
    BY <2>3, RestoreGives DEF Upserted, RestoredDefault
  <2>4. CASE UNCHANGED vars
    BY <2>4 DEF vars, StatusChangeAccepted, Answered, Repeats
  <2> QED
    BY <2>1, <2>2, <2>3, <2>4, Steps
<1> QED
  BY <1>1, <1>2, <1>3, SchemeTypeCorrect, PTL DEF Spec

\* What the answer to a list of namespaces is.
ChainDecides(data) ==
    LET list == data.namespaces
        others == {i \in DOMAIN list : list[i] # Master} IN
    Cardinality(DOMAIN list \ others) <= 1 =>
        (answer.ok <=> \/ Cardinality(others) <= 1
                       \/ IsChain({list[i] : i \in others}))

\* The set is a chain in the state where its Upsert was answered.
LEMMA AnswerOfChain ==
    ASSUME TypeOK, NEW op, NEW t, NEW data, IsRow(data), Upserted(op, t, data),
           UNCHANGED parentOf
    PROVE  ChainDecides(data)'
<1> DEFINE list == data.namespaces
           others == {i \in DOMAIN list : list[i] # Master}
           set == {list[i] : i \in others}
<1>1. list \in Seq(Namespaces) /\ answer'.ok \in HierarchyOutcomes(list, parentOf)
  BY DEF IsRow, Upserted
<1>2. IsChain(set)' <=> ChainFrom(Master, set, parentOf)
  <2> HIDE DEF set
  <2> QED
    BY DEF IsChain, ChainFrom
<1>3. ASSUME Cardinality(DOMAIN list \ others) <= 1
      PROVE  HierarchyOutcomes(list, parentOf) =
                IF \/ Cardinality(others) <= 1
                   \/ ChainFrom(Master, {list[i] : i \in others}, parentOf)
                THEN {TRUE} ELSE {FALSE}
  BY <1>1, <1>3, HierarchyIsChain
<1>4. answer'.ok \in BOOLEAN
  BY DEF Upserted
<1>5. ASSUME Cardinality(DOMAIN list \ others) <= 1
      PROVE  answer'.ok <=> \/ Cardinality(others) <= 1
                            \/ ChainFrom(Master, set, parentOf)
  <2>1. answer'.ok \in IF \/ Cardinality(others) <= 1
                          \/ ChainFrom(Master, set, parentOf)
                       THEN {TRUE} ELSE {FALSE}
    BY <1>1, <1>3, <1>5
  <2> QED
    BY <1>4, <2>1
<1>6. ChainDecides(data)'
         <=> (Cardinality(DOMAIN list \ others) <= 1 =>
                (answer'.ok <=> Cardinality(others) <= 1 \/ IsChain(set)'))
  BY DEF ChainDecides
<1> HIDE DEF list, others, set
<1> QED
  BY <1>2, <1>5, <1>6

\* Upsert accepts a scheme exactly when its namespaces besides the master one are
\* a single one or a chain from it, whatever their number: the recursion of
\* resolveChildForNamespace over the config maps, in any order of its map, and the
\* cut that takes the master namespace out of the list, decide just that.
THEOREM HierarchyDecides == Spec => []AcceptedIffChain
<1>1. Init => AcceptedIffChain
  BY DEF Init, AcceptedIffChain, Answered
<1>2. TypeOK /\ AcceptedIffChain /\ [Next]_vars => AcceptedIffChain'
  <2> SUFFICES ASSUME TypeOK, AcceptedIffChain, [Next]_vars
               PROVE  AcceptedIffChain'
    OBVIOUS
  <2>1. ASSUME NEW p, UpsertStep(p) PROVE AcceptedIffChain'
    <3> DEFINE data == Payload(p)
    <3>1. answer'.data = data /\ IsRow(data) /\ UNCHANGED parentOf
      BY <2>1 DEF UpsertStep, Upserted, Unmoved
    <3>2. Upserted("Upsert", p.tenant, data)
      BY <2>1 DEF UpsertStep
    <3> HIDE DEF data
    <3>3. ChainDecides(data)'
      BY <3>1, <3>2, AnswerOfChain
    <3> QED
      BY <3>1, <3>3 DEF AcceptedIffChain, ChainDecides
  <2>2. ASSUME NEW t, NEW active, NEW data, StatusStep(t, active, data)
        PROVE  AcceptedIffChain'
    <3>1. answer'.data = data /\ IsRow(data) /\ UNCHANGED parentOf
      BY <2>2 DEF StatusStep, Upserted, Unmoved
    <3>2. Upserted("ChangeTenantStatus", t, data)
      BY <2>2 DEF StatusStep
    <3>3. ChainDecides(data)'
      BY <3>1, <3>2, AnswerOfChain
    <3> QED
      BY <3>1, <3>3 DEF AcceptedIffChain, ChainDecides
  <2>3. ASSUME NEW t \in Tenants, RestoreTenantAlias(t) PROVE AcceptedIffChain'
    <3>1. answer'.op \in {"RestoreTenantAlias", "Failed"}
      BY <2>3, RestoreGives DEF Upserted, RestoredDefault
    <3> QED
      BY <3>1 DEF AcceptedIffChain, Answered
  <2>4. CASE UNCHANGED vars
    <3>1. answer' = answer /\ parentOf' = parentOf
      BY <2>4 DEF vars
    <3>2. AcceptedIffChain' <=> AcceptedIffChain
      BY <3>1 DEF AcceptedIffChain, Answered, IsChain
    <3> QED
      BY <3>2
  <2>5. CASE answer'.op \in {"RegisterTenant", "DeleteRoutes", "Failed"}
    BY <2>5 DEF AcceptedIffChain, Answered
  <2>6. CASE answer' = None
    BY <2>6 DEF AcceptedIffChain, Answered
  <2> QED
    BY <2>1, <2>2, <2>3, <2>4, <2>5, <2>6, Steps
<1> QED
  BY <1>1, <1>2, SchemeTypeCorrect, PTL DEF Spec

-----------------------------------------------------------------------------
(* Switching a tenant on and off                                           *)

\* The routes of the tenant are the same after the step.
LEMMA OwnAddressesAfter ==
    ASSUME NEW row, NEW list, UNCHANGED generalRoutes
    PROVE  OwnAddresses(row, list)' = Own(list, RoutesFor(row.namespaces))
  BY DEF OwnAddresses, Own, GeneralsIn, IsGeneral, RoutesOf, RoutesFor

\* The data are those of the row but for the status.
SameButActive(data, before) ==
    /\ data.sites = before.sites /\ data.namespaces = before.namespaces
    /\ data.domainName = before.domainName /\ data.tenantName = before.tenantName
    /\ data.serviceName = before.serviceName

\* The row says what the one before did, but for the status and what the renaming
\* of the shopping frontend overwrites.
KeepsScheme(before, data, row) ==
    /\ row.active = data.active
    /\ row.domainName = before.domainName /\ row.tenantName = before.tenantName
    /\ before.serviceName # NoName => row.serviceName = before.serviceName
    /\ \A e \in Entries(row.sites) : \E f \in Entries(before.sites) :
          /\ e[1] = f[1] /\ e[3] = f[3]
          /\ \/ e[2] = f[2]
             \/ Renamed(row, e[2]) /\ f[2] = Shopping
    /\ \A site \in DOMAIN before.sites : \A service \in DOMAIN before.sites[site] :
          ~(service = row.serviceName /\ Shopping \in DOMAIN before.sites[site]) =>
          \A a \in Own(before.sites[site][service], RoutesFor(before.namespaces)) :
             \E e \in Entries(row.sites) :
                 /\ e[1] = site /\ e[3] = a
                 /\ \/ e[2] = service
                    \/ service = Shopping /\ Renamed(row, e[2])

LEMMA SwitchKeeps ==
    ASSUME NEW t, NEW before, IsRow(before), NEW data, SameButActive(data, before),
           NEW rows, rows[t] = before,
           NEW urls, NEW row, WrittenRow(t, data, rows, urls, row)
    PROVE  KeepsScheme(before, data, row)
<1>2. ~UrlsChange(t, data, rows)
  BY DEF UrlsChange, SameButActive
<1>3. /\ urls = before.sites /\ Scheme(urls) /\ IsRow(row)
      /\ row.namespaces = WithoutMaster(before.namespaces).array
  BY <1>2 DEF WrittenRow, SameButActive
<1>4. RoutesFor(row.namespaces) = RoutesFor(before.namespaces)
  BY <1>3, SameRoutes DEF IsRow
<1>5. \A e \in Entries(row.sites) : \E f \in Entries(urls) :
                 /\ f[1] = e[1] /\ f[3] = e[3]
                 /\ \/ f[2] = e[2]
                    \/ f[2] = Shopping /\ e[2] = row.serviceName
  BY WrittenAddresses
<1>6. ASSUME NEW site \in DOMAIN before.sites, NEW service \in DOMAIN before.sites[site],
             ~(service = row.serviceName /\ Shopping \in DOMAIN before.sites[site]),
             NEW a \in Own(before.sites[site][service], RoutesFor(before.namespaces))
      PROVE  \E e \in Entries(row.sites) :
                 /\ e[1] = site /\ e[3] = a
                 /\ \/ e[2] = service
                    \/ service = Shopping /\ Renamed(row, e[2])
  <2>1. /\ site \in DOMAIN row.sites
        /\ \E name \in DOMAIN row.sites[site] :
              /\ name = service \/ (service = Shopping /\ name = row.serviceName)
              /\ a \in ToSet(row.sites[site][name])
    BY <1>3, <1>4, <1>6, OwnAddressesKept
  <2>2. PICK name \in DOMAIN row.sites[site] :
           /\ name = service \/ (service = Shopping /\ name = row.serviceName)
           /\ a \in ToSet(row.sites[site][name])
    BY <2>1
  <2>3. <<site, name, a>> \in Entries(row.sites)
    BY <2>1, <2>2, EntriesOf
  <2> DEFINE e == <<site, name, a>>
  <2>4. e \in Entries(row.sites) /\ e[1] = site /\ e[2] = name /\ e[3] = a
    BY <2>3
  <2> HIDE DEF e
  <2> QED
    BY <2>2, <2>4 DEF Renamed
<1> QED
  BY <1>3, <1>5, <1>6 DEF WrittenRow, SameButActive, Renamed, KeepsScheme

\* Activating or deactivating a tenant loses no address of its own, but those that the
\* renaming of the shopping frontend overwrites, and adds none, after whatever
\* requests and whatever general routes have come or gone: the row that was read
\* passes the filter of general routes and the renaming again.
THEOREM SwitchingKeepsSchemes == Spec => []StatusChangeKeepsScheme
<1>1. Init => StatusChangeKeepsScheme
  BY DEF Init, StatusChangeKeepsScheme, Answered
<1>2. TypeOK /\ StatusChangeKeepsScheme /\ [Next]_vars => StatusChangeKeepsScheme'
  <2> SUFFICES ASSUME TypeOK, StatusChangeKeepsScheme, [Next]_vars
               PROVE  StatusChangeKeepsScheme'
    OBVIOUS
  <2>1. ASSUME NEW t \in Tenants, NEW active \in BOOLEAN, NEW data,
               StatusStep(t, active, data), answer'.ok
        PROVE  StatusChangeKeepsScheme'
    <3>1. PICK before : before = tenantDns[t]
      OBVIOUS
    <3>2. PICK rows : rows = tenantDns
      OBVIOUS
    <3>3. SameButActive(data, before)
      BY <2>1, <3>1, WithActive DEF StatusStep, SameButActive
    <3>4. PICK row, urls : /\ WrittenRow(t, data, rows, urls, row)
                           /\ tenantDns' = [tenantDns EXCEPT ![t] = row]
      BY <2>1, <3>2 DEF StatusStep, Upserted
    <3>5. /\ answer'.data = data /\ answer'.before = before /\ answer'.tenant = t
          /\ IsRow(before) /\ UNCHANGED generalRoutes
      BY <2>1, <3>1 DEF StatusStep, Upserted, Unmoved
    <3>6. After' = row
      BY <3>4, <3>5 DEF After, TypeOK
    <3>7. KeepsScheme(before, data, row)
      <4>1. rows[t] = before
        BY <3>1, <3>2
      <4>2. IsRow(before) /\ WrittenRow(t, data, rows, urls, row)
        BY <3>4, <3>5
      <4> QED
        BY <3>3, <4>1, <4>2, SwitchKeeps
    <3>8. \A list : OwnAddresses(before, list)' = Own(list, RoutesFor(before.namespaces))
      BY <3>5, OwnAddressesAfter
    <3>9. \A site, service : Overwritten(before.sites, site, service)' <=>
             service = row.serviceName /\ Shopping \in DOMAIN before.sites[site]
      BY <3>6 DEF Overwritten
    <3> QED
      BY <3>5, <3>6, <3>7, <3>8, <3>9 DEF StatusChangeKeepsScheme, KeepsScheme
  <2>2. ASSUME NEW t, NEW active, NEW data, StatusStep(t, active, data), ~answer'.ok
        PROVE  StatusChangeKeepsScheme'
    BY <2>2 DEF StatusChangeKeepsScheme
  <2>3. CASE answer' = None \/ answer'.op # "ChangeTenantStatus"
    BY <2>3 DEF StatusChangeKeepsScheme, Answered
  <2>4. ASSUME NEW p, UpsertStep(p) PROVE StatusChangeKeepsScheme'
    BY <2>3, <2>4 DEF UpsertStep, Upserted
  <2>5. ASSUME NEW t \in Tenants, RestoreTenantAlias(t) PROVE StatusChangeKeepsScheme'
    BY <2>3, <2>5, RestoreGives DEF Upserted, RestoredDefault
  <2>6. CASE UNCHANGED vars
    BY <2>6 DEF vars, StatusChangeKeepsScheme, Answered, After, OwnAddresses, GeneralsIn,
                IsGeneral, RoutesOf, Overwritten, Renamed
  <2> QED
    BY <2>1, <2>2, <2>3, <2>4, <2>5, <2>6, Steps
<1> QED
  BY <1>1, <1>2, SchemeTypeCorrect, PTL DEF Spec

-----------------------------------------------------------------------------
(* Serving a scheme that was accepted                                      *)

LEMMA ServedByMerge ==
    ASSUME NEW sites, NEW general, NEW site, NEW name, NEW a,
           site \in DOMAIN sites, name \in DOMAIN sites[site],
           a \in ToSet(sites[site][name])
    PROVE  SitesByHost(Merge(sites, general), a.host) # {}
<1> DEFINE merged == Merge(sites, general)
           found == {e[1] : e \in {f \in Entries(merged) : f[3].host = a.host}}
<1>1. /\ site \in DOMAIN merged /\ name \in DOMAIN merged[site]
      /\ merged[site][name] = sites[site][name]
  BY DEF Merge
<1> HIDE DEF merged
<1> DEFINE e == <<site, name, a>>
<1>2. e \in Entries(merged) /\ e[1] = site /\ e[3] = a
  BY <1>1, EntriesOf
<1>3. site \in found
  <2> HIDE DEF e
  <2> QED
    BY <1>2
<1>4. SitesByHost(merged, a.host) =
         IF DefaultSite \in found THEN {DefaultSite} ELSE found
  BY DEF SitesByHost
<1> HIDE DEF found
<1> QED
  BY <1>3, <1>4 DEF merged

\* The own hosts of a list are found, and listed for its service.
Serves(row, urls, site, service, own) ==
    /\ ~(service = row.serviceName /\ Shopping \in DOMAIN urls[site]) =>
          \A a \in own : \A general :
              SitesByHost(Merge(row.sites, general), a.host) # {}
    /\ row.active /\ own # {} /\ ~Renamed(row, service) =>
          \A view \in AnnotatedHosts(row, site, generalRoutes) :
              /\ service \in DOMAIN view
              /\ view[service] \subseteq HostsOf(urls[site][service])
              /\ \A a \in own : a.host \in view[service]

LEMMA ServedRow ==
    ASSUME RoutesTyped, NEW t, NEW data, NEW rows, NEW urls, NEW row,
           WrittenRow(t, data, rows, urls, row),
           NEW site \in DOMAIN urls, NEW service \in DOMAIN urls[site],
           NEW own, own = Own(urls[site][service], RoutesFor(row.namespaces))
    PROVE  Serves(row, urls, site, service, own)
<1>1. Scheme(urls) /\ IsRow(row) /\ Scheme(row.sites)
  BY DEF WrittenRow, IsRow, Scheme
<1>2. ASSUME ~(service = row.serviceName /\ Shopping \in DOMAIN urls[site]),
             NEW a \in own
      PROVE  /\ site \in DOMAIN row.sites
             /\ \E name \in DOMAIN row.sites[site] :
                   /\ name = service \/ (service = Shopping /\ name = row.serviceName)
                   /\ a \in ToSet(row.sites[site][name])
  BY <1>2, OwnAddressesKept
<1>3. ASSUME ~(service = row.serviceName /\ Shopping \in DOMAIN urls[site]),
             NEW a \in own, NEW general
      PROVE  SitesByHost(Merge(row.sites, general), a.host) # {}
  BY <1>1, <1>2, <1>3, ServedByMerge
<1>4. ASSUME row.active, own # {}, ~Renamed(row, service),
             NEW view \in AnnotatedHosts(row, site, generalRoutes)
      PROVE  /\ service \in DOMAIN view
             /\ view[service] \subseteq HostsOf(urls[site][service])
             /\ \A a \in own : a.host \in view[service]
  <2>1. service # Shopping /\ service # row.serviceName
    BY <1>4 DEF Renamed
  <2>2. \A a \in own : /\ site \in DOMAIN row.sites /\ service \in DOMAIN row.sites[site]
                       /\ a \in ToSet(row.sites[site][service])
    BY <1>2, <2>1
  <2>3. PICK listed : /\ OwnLists(row, site, generalRoutes, listed)
                      /\ Shows(row, generalRoutes, listed, view)
    BY <1>1, <1>4, AnnotatedShow DEF RoutesTyped
  <2>4. listed = row.sites[site]
    BY <1>4, <2>2, <2>3 DEF OwnLists
  <2>5. HasHosts(listed, service)
    BY <1>4, <2>2, <2>4 DEF HasHosts, HostsOf
  <2>6. service \in DOMAIN view /\ view[service] = HostsOf(row.sites[site][service])
    BY <2>1, <2>3, <2>4, <2>5 DEF Shows
  <2>7. ASSUME NEW a \in ToSet(row.sites[site][service])
        PROVE  a \in ToSet(urls[site][service])
    <3> DEFINE e == <<site, service, a>>
    <3>1. e \in Entries(row.sites)
      BY <1>4, <2>2, EntriesOf
    <3>2. e[1] = site /\ e[2] = service /\ e[3] = a
      OBVIOUS
    <3> HIDE DEF e
    <3>3. PICK f \in Entries(urls) :
             /\ f[1] = e[1] /\ f[3] = e[3]
             /\ \/ f[2] = e[2]
                \/ f[2] = Shopping /\ e[2] = row.serviceName
      BY <3>1, WrittenAddresses
    <3>4. f[1] = site /\ f[2] = service /\ f[3] = a
      BY <2>1, <3>2, <3>3
    <3> QED
      BY <3>4, EntryParts
  <2> QED
    BY <2>2, <2>6, <2>7 DEF HostsOf
<1> QED
  BY <1>3, <1>4 DEF Serves

\* The request that was answered made Upsert generate new hosts.
LEMMA NewUrlsAfter ==
    ASSUME TypeOK, NEW op, NEW t \in Tenants, NEW data, NEW row,
           Upserted(op, t, data), tenantDns' = [tenantDns EXCEPT ![t] = row]
    PROVE  NewUrls' <=> UrlsChange(t, data, tenantDns)
<1>1. /\ answer'.tenant = t /\ answer'.data = data /\ answer'.before = tenantDns[t]
      /\ DOMAIN tenantDns = Tenants
  BY DEF Upserted, TypeOK
<1>2. [tenantDns' EXCEPT ![t] = tenantDns[t]][t] = tenantDns[t]
  BY <1>1
<1>3. NewUrls' <=> UrlsChange(t, data, [tenantDns' EXCEPT ![t] = tenantDns[t]])
  BY <1>1 DEF NewUrls, UrlsChange
<1> QED
  BY <1>2, <1>3 DEF UrlsChange

\* Each host of a scheme that was accepted is found by Search and GetSite, and
\* listed for its service, for schemes of any size: of the services no two are
\* confused by the filter of general routes, the renaming of the shopping frontend
\* and the merge with general routes, if none is called what the frontend becomes.
THEOREM AcceptedSchemesAreServed == Spec => []UpsertedHostServed
<1>1. Init => UpsertedHostServed
  BY DEF Init, UpsertedHostServed, Answered
<1>2. TypeOK /\ UpsertedHostServed /\ [Next]_vars => UpsertedHostServed'
  <2> SUFFICES ASSUME TypeOK, UpsertedHostServed, [Next]_vars
               PROVE  UpsertedHostServed'
    OBVIOUS
  <2>1. ASSUME NEW p \in Payloads, UpsertStep(p), answer'.ok, ~NewUrls'
        PROVE  UpsertedHostServed'
    <3> DEFINE t == p.tenant
               data == Payload(p)
    <3>1. /\ t \in Tenants /\ Upserted("Upsert", t, data) /\ UNCHANGED generalRoutes
          /\ RoutesTyped
      BY <2>1, TypedRows DEF UpsertStep, Unmoved
    <3> HIDE DEF t, data
    <3>2. PICK row, urls : /\ WrittenRow(t, data, tenantDns, urls, row)
                           /\ tenantDns' = [tenantDns EXCEPT ![t] = row]
      BY <2>1, <3>1 DEF Upserted
    <3>3. answer'.data = data /\ After' = row
      BY <3>1, <3>2 DEF Upserted, After, TypeOK
    <3>4. urls = data.sites
      BY <2>1, <3>1, <3>2, NewUrlsAfter DEF WrittenRow
    <3> SUFFICES ASSUME NEW site \in DOMAIN urls, NEW service \in DOMAIN urls[site],
                        NEW own, own = Own(urls[site][service], RoutesFor(row.namespaces))
                 PROVE  Serves(row, urls, site, service, own)
      <4>1. \A list : OwnAddresses(row, list)' = Own(list, RoutesFor(row.namespaces))
        BY <3>1, OwnAddressesAfter
      <4>2. \A site, service : Overwritten(urls, site, service)' <=>
               service = row.serviceName /\ Shopping \in DOMAIN urls[site]
        BY <3>3 DEF Overwritten
      <4> QED
        BY <3>1, <3>3, <3>4, <4>1, <4>2 DEF UpsertedHostServed, Serves
    <3> QED
      BY <3>1, <3>2, ServedRow
  <2>2. ASSUME NEW p, UpsertStep(p), ~answer'.ok \/ NewUrls' PROVE UpsertedHostServed'
    BY <2>2 DEF UpsertedHostServed
  <2>3. CASE answer' = None \/ answer'.op # "Upsert"
    BY <2>3 DEF UpsertedHostServed, Answered
  <2>4. ASSUME NEW t, NEW active, NEW data, StatusStep(t, active, data)
        PROVE  UpsertedHostServed'
    BY <2>3, <2>4 DEF StatusStep, Upserted
  <2>5. ASSUME NEW t \in Tenants, RestoreTenantAlias(t) PROVE UpsertedHostServed'
    BY <2>3, <2>5, RestoreGives DEF Upserted, RestoredDefault
  <2>6. CASE UNCHANGED vars
    BY <2>6 DEF vars, UpsertedHostServed, Answered, After, OwnAddresses, GeneralsIn,
                IsGeneral, RoutesOf, Overwritten, NewUrls, UrlsChange
  <2> QED
    BY <2>1, <2>2, <2>3, <2>4, <2>5, <2>6, Steps
<1> QED
  BY <1>1, <1>2, SchemeTypeCorrect, PTL DEF Spec

-----------------------------------------------------------------------------
(* Schemes that the validator passed                                       *)

\* The validator reads nothing of the addresses but hosts, or "http://" and hosts.
OnlyHosts(p) ==
    \A e \in Entries(p.row.sites) : e[3].proto # "https" /\ e[3].path = NoPath

\* Both checkers take "http://" and a host, or a host, for the host.
LEMMA FormsOfHost ==
    ASSUME NEW a \in Address, a.proto # "https", a.path = NoPath
    PROVE  InTenantForm(a) = Plain(a.host) /\ InSchemeForm(a) = Plain(a.host)
<1>1. PICK x \in {"", "http", "https"}, h \in Hosts, y \in Paths :
        a = [proto |-> x, host |-> h, path |-> y]
  BY DEF Address
<1>2. a.proto = x /\ a.host = h /\ a.path = y
  BY <1>1
<1>3. [a EXCEPT !.proto = ""] = [proto |-> "", host |-> h, path |-> NoPath]
  <2> DEFINE b == [a EXCEPT !.proto = ""]
  <2>1. /\ b \in [proto : {"", "http", "https"}, host : Hosts, path : Paths]
        /\ b.proto = "" /\ b.host = a.host /\ b.path = a.path
    BY DEF Address
  <2> HIDE DEF b
  <2>2. b = [proto |-> b.proto, host |-> b.host, path |-> b.path]
    BY <2>1
  <2>3. b = [proto |-> "", host |-> h, path |-> NoPath]
    BY <1>2, <2>1, <2>2
  <2> QED
    BY <2>3 DEF b
<1>4. CASE x = ""
  <2>1. a = [proto |-> "", host |-> h, path |-> NoPath]
    BY <1>1, <1>2, <1>4
  <2>2. a.proto # "http"
    BY <1>2, <1>4
  <2> QED
    BY <1>2, <1>3, <2>1, <2>2 DEF InTenantForm, InSchemeForm, Plain
<1>5. CASE x = "http"
  BY <1>2, <1>3, <1>5 DEF InTenantForm, InSchemeForm, Plain
<1> QED
  BY <1>2, <1>4, <1>5

\* An address of the scheme is the host of an address of the payload, which both
\* checkers see as it is stored.
LEMMA PayloadAddress ==
    ASSUME NEW p \in Payloads, OnlyHosts(p), NEW e \in Entries(Payload(p).sites)
    PROVE  /\ e[1] \in Sites /\ e[2] \in Services
           /\ e[1] \in DOMAIN p.row.sites /\ e[2] \in DOMAIN p.row.sites[e[1]]
           /\ \E i \in DOMAIN p.row.sites[e[1]][e[2]] :
                LET a == p.row.sites[e[1]][e[2]][i] IN
                /\ a \in ToSet(p.row.sites[e[1]][e[2]])
                /\ InTenantForm(a) = Plain(e[3].host)
                /\ InSchemeForm(a) = Plain(e[3].host)
<1> DEFINE sites == p.row.sites
           flat == FlattenAddressesToHosts(sites)
<1>1. /\ IsRow(Payload(p)) /\ AreSites(sites, Seq(Address))
  BY RequestAssumption
<1>2. Payload(p).sites = flat
  <2>1. DOMAIN Payload(p) = DOMAIN p.row
    BY DEF Payload
  <2>2. "sites" \in DOMAIN p.row
    BY <1>1, <2>1 DEF IsRow
  <2> QED
    BY <2>2 DEF Payload
<1>3. /\ e[1] \in Sites /\ e[2] \in Services
      /\ e[1] \in DOMAIN flat /\ e[2] \in DOMAIN flat[e[1]]
      /\ e[3] \in ToSet(flat[e[1]][e[2]])
  BY <1>1, <1>2, EntryParts, EntryTypes DEF IsRow, Scheme
<1> HIDE DEF sites
<1>4. /\ e[1] \in DOMAIN sites /\ e[2] \in DOMAIN sites[e[1]]
      /\ flat[e[1]][e[2]] = [i \in DOMAIN sites[e[1]][e[2]] |->
                                Plain(sites[e[1]][e[2]][i].host)]
  BY <1>3 DEF FlattenAddressesToHosts
<1> DEFINE list == sites[e[1]][e[2]]
<1>5. list \in Seq(Address)
  BY <1>1, <1>4 DEF AreSites
<1>6. PICK i \in DOMAIN list : e[3] = Plain(list[i].host)
  BY <1>3, <1>4 DEF ToSet
<1> DEFINE a == list[i]
<1>7. a \in Address /\ a \in ToSet(list)
  BY <1>5, <1>6 DEF ToSet
<1>8. a.proto # "https" /\ a.path = NoPath
  <2>1. <<e[1], e[2], a>> \in Entries(p.row.sites)
    BY <1>4, <1>7, EntriesOf DEF sites
  <2> QED
    BY <2>1 DEF OnlyHosts
<1>9. e[3].host = a.host
  <2>1. a.host \in Hosts
    BY <1>7 DEF Address
  <2> HIDE DEF a
  <2>2. e[3] = Plain(a.host)
    BY <1>6 DEF a
  <2> QED
    BY <2>1, <2>2, AddressesOfHosts
<1> HIDE DEF list, a
<1>10. InTenantForm(a) = Plain(e[3].host) /\ InSchemeForm(a) = Plain(e[3].host)
  <2>1. InTenantForm(a) = Plain(a.host) /\ InSchemeForm(a) = Plain(a.host)
    BY <1>7, <1>8, FormsOfHost
  <2> QED
    BY <1>9, <2>1
<1> QED
  <2>1. /\ i \in DOMAIN sites[e[1]][e[2]]
        /\ a = sites[e[1]][e[2]][i] /\ a \in ToSet(sites[e[1]][e[2]])
    BY <1>6, <1>7 DEF list, a
  <2>2. e[1] \in DOMAIN p.row.sites /\ e[2] \in DOMAIN p.row.sites[e[1]]
    BY <1>4 DEF sites
  <2> QED
    BY <1>3, <1>10, <2>1, <2>2 DEF sites

\* The validator lets no two services of a scheme have the same host.
LEMMA ValidInTenant ==
    ASSUME NEW p \in Payloads, NEW rows, OnlyHosts(p),
           InvalidServices(p.tenant, p.row.sites, rows) = {},
           NEW e \in Entries(Payload(p).sites), NEW f \in Entries(Payload(p).sites),
           e[3].host = f[3].host
    PROVE  e[2] = f[2]
<1> SUFFICES ASSUME e[2] # f[2] PROVE FALSE
  OBVIOUS
<1> DEFINE sites == p.row.sites
           x == <<e[1], e[2]>>
<1>1. /\ e[1] \in Sites /\ e[2] \in Services
      /\ e[1] \in DOMAIN sites /\ e[2] \in DOMAIN sites[e[1]]
  BY PayloadAddress
<1>2. PICK a \in ToSet(sites[e[1]][e[2]]) : InTenantForm(a) = Plain(e[3].host)
  BY PayloadAddress
<1>3. /\ f[1] \in DOMAIN sites /\ f[2] \in DOMAIN sites[f[1]]
      /\ \E i \in DOMAIN sites[f[1]][f[2]] :
            InTenantForm(sites[f[1]][f[2]][i]) = Plain(f[3].host)
  BY PayloadAddress
<1>4. DuplicatedInTenant(e[2], a, sites)
  <2>1. f[2] \in DOMAIN sites[f[1]] \ {e[2]}
    BY <1>3
  <2> QED
    BY <1>2, <1>3, <2>1 DEF DuplicatedInTenant
<1>5. x \in Sites \X Services /\ x[1] = e[1] /\ x[2] = e[2]
  BY <1>1
<1> HIDE DEF x, sites
<1>6. x \in InvalidServices(p.tenant, sites, rows)
  BY <1>1, <1>2, <1>4, <1>5 DEF InvalidServices
<1> QED
  BY <1>6 DEF sites

\* Nor does it let a service have a host of another service of another tenant, but
\* one that is stored as a URL.
LEMMA ValidInScheme ==
    ASSUME NEW p \in Payloads, NEW rows, OnlyHosts(p), RowsTyped(rows),
           InvalidServices(p.tenant, p.row.sites, rows) = {},
           NEW e \in Entries(Payload(p).sites),
           NEW u \in Tenants \ {p.tenant}, rows[u] # None,
           NEW f \in Entries(rows[u].sites), e[3].host = f[3].host
    PROVE  e[2] = f[2] \/ f[3] = Url(f[3].host)
<1> SUFFICES ASSUME e[2] # f[2], f[3] # Url(f[3].host) PROVE FALSE
  OBVIOUS
<1> DEFINE sites == p.row.sites
           x == <<e[1], e[2]>>
<1>1. /\ e[1] \in Sites /\ e[2] \in Services
      /\ e[1] \in DOMAIN sites /\ e[2] \in DOMAIN sites[e[1]]
  BY PayloadAddress
<1>2. PICK a \in ToSet(sites[e[1]][e[2]]) : InSchemeForm(a) = Plain(e[3].host)
  BY PayloadAddress
<1>3. f[3] = Plain(f[3].host)
  <2>1. Scheme(rows[u].sites)
    BY DEF RowsTyped, IsRow, Scheme
  <2> QED
    BY <2>1, EntryTypes, AddressesOfHosts
<1>4. DuplicatedInScheme(p.tenant, e[2], a, rows)
  <2>1. f \in StoredByOthers(p.tenant, rows)
    BY DEF StoredByOthers
  <2> QED
    BY <1>2, <1>3, <2>1 DEF DuplicatedInScheme
<1>5. x \in Sites \X Services /\ x[1] = e[1] /\ x[2] = e[2]
  BY <1>1
<1> HIDE DEF x, sites
<1>6. x \in InvalidServices(p.tenant, sites, rows)
  BY <1>1, <1>2, <1>4, <1>5 DEF InvalidServices
<1> QED
  BY <1>6 DEF sites

LEMMA ValidRow ==
    ASSUME NEW p \in Payloads, NEW data, data = Payload(p), NEW rows, NEW after,
           RowsTyped(after), OnlyHosts(p),
           InvalidServices(p.tenant, p.row.sites, after) = {},
           NEW row, WrittenRow(p.tenant, data, rows, data.sites, row),
           after[p.tenant] = row,
           NEW e \in Entries(row.sites), NEW u \in Tenants, after[u] # None,
           NEW f \in Entries(after[u].sites), f[3].host = e[3].host
    PROVE  f[2] = e[2] \/ Renamed(row, e[2]) \/ f[3] = Url(f[3].host)
<1>1. \A x \in Entries(row.sites) : \E y \in Entries(data.sites) :
         /\ y[1] = x[1] /\ y[3] = x[3]
         /\ \/ y[2] = x[2]
            \/ y[2] = Shopping /\ x[2] = row.serviceName
  BY WrittenAddresses
<1>2. PICK g \in Entries(data.sites) :
         /\ g[1] = e[1] /\ g[3] = e[3]
         /\ \/ g[2] = e[2]
            \/ g[2] = Shopping /\ e[2] = row.serviceName
  BY <1>1
<1>3. CASE u = p.tenant
  <2>1. PICK k \in Entries(data.sites) :
           /\ k[1] = f[1] /\ k[3] = f[3]
           /\ \/ k[2] = f[2]
              \/ k[2] = Shopping /\ f[2] = row.serviceName
    BY <1>1, <1>3
  <2>2. /\ g \in Entries(Payload(p).sites) /\ k \in Entries(Payload(p).sites)
        /\ g[3].host = k[3].host
    BY <1>2, <2>1
  <2>3. g[2] = k[2]
    BY <2>2, ValidInTenant
  <2> QED
    BY <1>2, <2>1, <2>3 DEF Renamed
<1>4. CASE u # p.tenant
  <2>1. /\ g \in Entries(Payload(p).sites) /\ u \in Tenants \ {p.tenant}
        /\ g[3].host = f[3].host
    BY <1>2, <1>4
  <2>2. g[2] = f[2] \/ f[3] = Url(f[3].host)
    BY <2>1, ValidInScheme
  <2> QED
    BY <1>2, <2>2 DEF Renamed
<1> QED
  BY <1>3, <1>4

\* No host of a scheme that the validator finds nothing wrong with leads to two
\* services, for any table, but through URLs that Upsert generated: the validator
\* compares the texts of the payload, and of the rows of the other tenants, and
\* Upsert stores what the cut to hosts, the filter and the renaming have made of them.
THEOREM ValidSchemesAreUnique == Spec => []ValidatedSchemeUnique
<1>1. Init => ValidatedSchemeUnique
  BY DEF Init, ValidatedSchemeUnique, Answered
<1>2. TypeOK /\ ValidatedSchemeUnique /\ [Next]_vars => ValidatedSchemeUnique'
  <2> SUFFICES ASSUME TypeOK, ValidatedSchemeUnique, [Next]_vars
               PROVE  ValidatedSchemeUnique'
    OBVIOUS
  <2>1. ASSUME NEW p0 \in Payloads, UpsertStep(p0), answer'.ok, ~NewUrls'
        PROVE  ValidatedSchemeUnique'
    <3>0. RowsTyped(tenantDns')
      BY <2>1, UpsertedTyped DEF UpsertStep, TypeOK, RowsTyped
    <3> DEFINE t == p0.tenant
               data == Payload(p0)
    <3>1. t \in Tenants /\ Upserted("Upsert", t, data)
      BY <2>1 DEF UpsertStep
    <3> HIDE DEF t, data
    <3>2. PICK row, urls : /\ WrittenRow(t, data, tenantDns, urls, row)
                           /\ tenantDns' = [tenantDns EXCEPT ![t] = row]
      BY <2>1, <3>1 DEF Upserted
    <3>3. /\ answer'.data = data /\ answer'.tenant = t /\ After' = row
          /\ tenantDns'[t] = row
      BY <3>1, <3>2 DEF Upserted, After, TypeOK
    <3>4. urls = data.sites
      BY <2>1, <3>1, <3>2, NewUrlsAfter DEF WrittenRow
    <3> SUFFICES ASSUME NEW p \in Payloads, p.tenant = t, Payload(p) = data,
                        InvalidServices(p.tenant, p.row.sites, tenantDns') = {},
                        OnlyHosts(p),
                        NEW e \in Entries(row.sites), NEW u \in Tenants,
                        tenantDns'[u] # None, NEW f \in Entries(tenantDns'[u].sites),
                        f[3].host = e[3].host
                 PROVE  f[2] = e[2] \/ Renamed(row, e[2]) \/ f[3] = Url(f[3].host)
      <4>1. \A service : Renamed(After, service)' <=> Renamed(row, service)
        BY <3>3 DEF Renamed
      <4> QED
        BY <3>3, <4>1 DEF ValidatedSchemeUnique, OnlyHosts
    <3>5. PICK after : after = tenantDns'
      OBVIOUS
    <3>6. PICK rows : rows = tenantDns
      OBVIOUS
    <3>7. /\ RowsTyped(after)
          /\ InvalidServices(p.tenant, p.row.sites, after) = {}
          /\ after[p.tenant] = row /\ after[u] # None /\ f \in Entries(after[u].sites)
          /\ data = Payload(p)
          /\ WrittenRow(p.tenant, data, rows, data.sites, row)
      BY <3>0, <3>2, <3>3, <3>4, <3>5, <3>6
    <3> QED
      BY <3>7, ValidRow
  <2>2. ASSUME NEW p, UpsertStep(p), ~answer'.ok \/ NewUrls' PROVE ValidatedSchemeUnique'
    BY <2>2 DEF ValidatedSchemeUnique
  <2>3. CASE answer' = None \/ answer'.op # "Upsert"
    BY <2>3 DEF ValidatedSchemeUnique, Answered
  <2>4. ASSUME NEW t, NEW active, NEW data, StatusStep(t, active, data)
        PROVE  ValidatedSchemeUnique'
    BY <2>3, <2>4 DEF StatusStep, Upserted
  <2>5. ASSUME NEW t \in Tenants, RestoreTenantAlias(t) PROVE ValidatedSchemeUnique'
    BY <2>3, <2>5, RestoreGives DEF Upserted, RestoredDefault
  <2>6. CASE UNCHANGED vars
    BY <2>6 DEF vars, ValidatedSchemeUnique, Answered, After, Renamed, NewUrls, UrlsChange
  <2> QED
    BY <2>1, <2>2, <2>3, <2>4, <2>5, <2>6, Steps
<1> QED
  BY <1>1, <1>2, SchemeTypeCorrect, PTL DEF Spec

-----------------------------------------------------------------------------
(* Schemes that restore-tenant-alias generates                             *)

\* Every list has one host.
Singles(sites) ==
    \A site \in DOMAIN sites : \A service \in DOMAIN sites[site] :
        \E h \in Hosts : sites[site][service] = <<Plain(h)>>

\* Of a scheme of single hosts Upsert keeps those that no general route has.
LEMMA SinglesWritten ==
    ASSUME NEW t, NEW data, NEW rows, NEW urls, NEW row,
           WrittenRow(t, data, rows, urls, row), Singles(urls)
    PROVE  /\ Singles(row.sites)
           /\ \A e \in Entries(row.sites) :
                 ~HostBelongsToRoutes(e[3].host, RoutesFor(row.namespaces))
<1> DEFINE routes == RoutesFor(row.namespaces)
           filtered == FilterGeneralRoutes(urls, routes)
<1>1. Scheme(urls)
  BY DEF WrittenRow
<1>2. ASSUME NEW site \in DOMAIN row.sites, NEW service \in DOMAIN row.sites[site]
      PROVE  \E h \in Hosts : /\ row.sites[site][service] = <<Plain(h)>>
                              /\ ~HostBelongsToRoutes(h, routes)
  <2>1. PICK name : /\ site \in DOMAIN filtered /\ name \in DOMAIN filtered[site]
                    /\ row.sites[site][service] = filtered[site][name]
    BY RowLists
  <2>2. /\ site \in DOMAIN urls /\ name \in DOMAIN urls[site]
        /\ FilterList(urls[site][name], routes) # None
        /\ filtered[site][name] = FilterList(urls[site][name], routes)
    BY <1>1, <2>1, FilterGeneralRoutesGives
  <2>3. PICK h \in Hosts : urls[site][name] = <<Plain(h)>>
    BY <2>2 DEF Singles
  <2>4. FilterList(<<Plain(h)>>, routes) =
           IF HostBelongsToRoutes(h, routes) THEN None ELSE <<Plain(h)>>
    BY AddressesOfHosts, FilterListOfOne
  <2> HIDE DEF filtered, routes
  <2>5. row.sites[site][service] = <<Plain(h)>> /\ ~HostBelongsToRoutes(h, routes)
    BY <2>1, <2>2, <2>3, <2>4
  <2> QED
    BY <2>5
<1>3. ASSUME NEW e \in Entries(row.sites)
      PROVE  ~HostBelongsToRoutes(e[3].host, routes)
  <2>1. /\ e[1] \in DOMAIN row.sites /\ e[2] \in DOMAIN row.sites[e[1]]
        /\ e[3] \in ToSet(row.sites[e[1]][e[2]])
    BY EntryParts
  <2>2. PICK h \in Hosts : /\ row.sites[e[1]][e[2]] = <<Plain(h)>>
                           /\ ~HostBelongsToRoutes(h, routes)
    BY <1>2, <2>1
  <2>3. e[3].host = h
    BY <2>1, <2>2, AddressesOfHosts DEF ToSet
  <2> QED
    BY <2>2, <2>3
<1> QED
  BY <1>2, <1>3 DEF Singles

\* Both calls of Upsert look at the same namespaces and general routes.
LEMMA SameNamespaces ==
    ASSUME NEW list \in Seq(Namespaces)
    PROVE  /\ RoutesFor(WithoutMaster(list).array) = RoutesFor(list)
           /\ PublicServicesOf(WithoutMaster(list).array) = PublicServicesOf(list)
  BY SameRoutes, WithoutMasterKeeps DEF PublicServicesOf

\* A host of its own that a service has alone is still there, if the service has not
\* to do with the renaming.
LEMMA SingleStays ==
    ASSUME NEW t, NEW data, NEW rows, NEW urls, NEW row,
           WrittenRow(t, data, rows, urls, row),
           NEW site \in DOMAIN urls, NEW service \in DOMAIN urls[site],
           ~Renamed(row, service), NEW h \in Hosts, urls[site][service] = <<Plain(h)>>,
           ~HostBelongsToRoutes(h, RoutesFor(row.namespaces))
    PROVE  /\ site \in DOMAIN row.sites /\ service \in DOMAIN row.sites[site]
           /\ Plain(h) \in ToSet(row.sites[site][service])
<1> DEFINE routes == RoutesFor(row.namespaces)
           list == urls[site][service]
           generals == {i \in DOMAIN list : HostBelongsToRoutes(list[i].host, routes)}
<1>1. \A i \in DOMAIN list : list[i] = Plain(h) /\ list[i].host = h
  BY AddressesOfHosts
<1>2. Plain(h) \in ToSet(list)
  BY DEF ToSet
<1>3. ~(Cardinality(generals) > 1)
  <2>1. generals = {}
    BY <1>1
  <2>2. Cardinality({}) = 0
    BY FS_EmptySet
  <2> HIDE DEF generals
  <2> QED
    BY <2>1, <2>2
<1>4. Plain(h) \in Own(list, routes)
  <2>1. Own(list, routes) = {x \in ToSet(list) : ~HostBelongsToRoutes(x.host, routes)}
    BY <1>3 DEF Own
  <2> HIDE DEF list
  <2> QED
    BY <1>2, <2>1, AddressesOfHosts
<1>5. service # Shopping /\ service # row.serviceName
  BY DEF Renamed
<1> HIDE DEF list, routes
<1> QED
  BY <1>4, <1>5, OwnAddressesKept DEF list, routes

\* A tenant without sites has generated lists for the public services only.
LEMMA GeneratedOwn ==
    ASSUME NEW row, IsRow(row), DOMAIN row.sites = {}, ~row.active, NEW site,
           NEW own, OwnLists(row, site, generalRoutes, own),
           NEW service \in PublicServicesOf(row.namespaces)
    PROVE  /\ service \in Services /\ service \in DOMAIN own
           /\ \E h \in Hosts : /\ own[service] = <<GeneratedUrl(h)>>
                               /\ h \in GeneratedHosts(service, row.domainName,
                                                       RoutesFor(row.namespaces))
<1> DEFINE routes == RoutesFor(row.namespaces)
<1>1. PICK services \in GenerateRoutesForServices(row.domainName, row.namespaces,
                                                  routes) :
         DOMAIN own = DOMAIN services /\ \A s \in DOMAIN own : own[s] = services[s]
  BY DEF OwnLists, RoutesFor
<1>2. row.namespaces \in Seq(Namespaces)
  BY DEF IsRow
<1> HIDE DEF routes
<1>3. /\ HostLists(services) /\ DOMAIN services = PublicServicesOf(row.namespaces)
      /\ \A s \in DOMAIN services : \E h \in Hosts :
            /\ services[s] = <<GeneratedUrl(h)>> /\ h \in GeneratedHosts(s, row.domainName, routes)
  BY <1>2, GeneratedRoutesType
<1> QED
  BY <1>1, <1>3 DEF HostLists, routes

\* The row holds hosts of the tenant only, and one for each of its services.
RestoredScheme(before, d, last) ==
    /\ \A e \in Entries(last.sites) :
          ~HostBelongsToRoutes(e[3].host, RoutesFor(last.namespaces))
    /\ ~before.active =>
          \A service \in PublicServicesOf(last.namespaces) :
             \/ Renamed(last, service)
             \/ \E e \in Entries(last.sites) :
                   /\ e[2] = service
                   /\ e[3].host # NoHost \/ last.domainName = NoDomain
             \/ \E e \in Entries(d.sites) :
                   /\ e[2] = service
                   /\ HostBelongsToRoutes(e[3].host, RoutesFor(last.namespaces))

\* What the two calls of Upsert leave of the default scheme.
LEMMA RestoredRow ==
    ASSUME RoutesTyped, NEW t, NEW before, IsRow(before), before.sites = EmptySites,
           NEW own, OwnLists(before, DefaultSite, generalRoutes, own),
           NEW view, Shows(before, generalRoutes, own, view),
           NEW d, DefaultOf(before, view, d),
           NEW rows, rows[t] = before, NEW urls, NEW row,
           WrittenRow(t, d, rows, urls, row),
           NEW data, SameButActive(data, row), NEW rows2, rows2[t] = row,
           NEW urls2, NEW last, WrittenRow(t, data, rows2, urls2, last)
    PROVE  RestoredScheme(before, d, last)
<1> DEFINE routes == RoutesFor(before.namespaces)
<1>1. ~UrlsChange(t, d, rows) /\ ~UrlsChange(t, data, rows2)
  BY DEF UrlsChange, DefaultOf, SameButActive
<1>2. /\ urls = d.sites /\ urls2 = row.sites /\ Scheme(d.sites) /\ Scheme(row.sites)
      /\ Scheme(last.sites) /\ IsRow(row)
  BY <1>1 DEF WrittenRow, SameButActive, IsRow, Scheme
<1>3. /\ RoutesFor(row.namespaces) = routes /\ RoutesFor(last.namespaces) = routes
      /\ PublicServicesOf(last.namespaces) = PublicServicesOf(before.namespaces)
  <2>1. /\ row.namespaces = WithoutMaster(before.namespaces).array
        /\ last.namespaces = WithoutMaster(row.namespaces).array
    BY DEF WrittenRow, DefaultOf, SameButActive
  <2>2. before.namespaces \in Seq(Namespaces) /\ row.namespaces \in Seq(Namespaces)
    BY <1>2 DEF IsRow
  <2> QED
    BY <2>1, <2>2, SameNamespaces
<1>4. /\ last.domainName = before.domainName
      /\ \A service \in Services :
            service = before.serviceName \/ service = row.serviceName
               => last.serviceName = service
  BY SchemeAssumption DEF WrittenRow, DefaultOf, SameButActive
<1>5. Singles(d.sites)
  BY DEF Singles, DefaultOf
<1>6. Singles(row.sites)
  BY <1>2, <1>5, SinglesWritten
<1>7. ASSUME NEW e \in Entries(last.sites) PROVE ~HostBelongsToRoutes(e[3].host, routes)
  <2>1. \A x \in Entries(last.sites) : ~HostBelongsToRoutes(x[3].host, routes)
    BY <1>2, <1>3, <1>6, SinglesWritten
  <2> QED
    BY <2>1
<1>8. ASSUME ~before.active, NEW service \in PublicServicesOf(before.namespaces),
             ~Renamed(last, service)
      PROVE  \/ \E e \in Entries(last.sites) :
                   e[2] = service /\ (e[3].host # NoHost \/ last.domainName = NoDomain)
             \/ \E e \in Entries(d.sites) :
                   e[2] = service /\ HostBelongsToRoutes(e[3].host, routes)
  <2>1. DOMAIN before.sites = {}
    BY DEF EmptySites
  <2>2. PICK h \in Hosts : /\ own[service] = <<GeneratedUrl(h)>>
                           /\ h \in GeneratedHosts(service, before.domainName, routes)
    BY <1>8, <2>1, GeneratedOwn
  <2>3. service \in Services /\ service \in DOMAIN own
    BY <1>8, <2>1, GeneratedOwn
  <2>4. HostsOf(own[service]) = {h}
    BY <2>2, AddressesOfHosts DEF HostsOf, ToSet
  <2>5. service # before.serviceName /\ service # row.serviceName /\ service # Shopping
    BY <1>4, <1>8, <2>3 DEF Renamed
  <2>6. service \in DOMAIN view /\ view[service] = {h}
    BY <2>3, <2>4, <2>5 DEF Shows, HasHosts
  <2>7. /\ DefaultSite \in DOMAIN d.sites /\ service \in DOMAIN d.sites[DefaultSite]
        /\ d.sites[DefaultSite][service] = <<Plain(h)>>
    BY <2>6 DEF DefaultOf
  <2>8. CASE HostBelongsToRoutes(h, routes)
    <3> DEFINE e == <<DefaultSite, service, Plain(h)>>
    <3>1. Plain(h) \in ToSet(d.sites[DefaultSite][service])
      BY <2>7 DEF ToSet
    <3>2. e \in Entries(d.sites)
      BY <2>7, <3>1, EntriesOf
    <3>3. e[2] = service /\ e[3].host = h
      BY AddressesOfHosts
    <3> HIDE DEF e
    <3> QED
      BY <2>8, <3>2, <3>3
  <2>9. CASE ~HostBelongsToRoutes(h, routes)
    <3>1. ~Renamed(row, service)
      BY <2>5 DEF Renamed
    <3>2. /\ DefaultSite \in DOMAIN row.sites
          /\ service \in DOMAIN row.sites[DefaultSite]
          /\ Plain(h) \in ToSet(row.sites[DefaultSite][service])
      BY <1>2, <1>3, <2>7, <2>9, <3>1, SingleStays
    <3>3. PICK k \in Hosts : row.sites[DefaultSite][service] = <<Plain(k)>>
      BY <1>6, <3>2 DEF Singles
    <3>4. k = h
      BY <3>2, <3>3, AddressesOfHosts DEF ToSet
    <3>5. /\ DefaultSite \in DOMAIN last.sites
          /\ service \in DOMAIN last.sites[DefaultSite]
          /\ Plain(h) \in ToSet(last.sites[DefaultSite][service])
      BY <1>2, <1>3, <1>8, <2>9, <3>2, <3>3, <3>4, SingleStays
    <3> DEFINE e == <<DefaultSite, service, Plain(h)>>
    <3>6. e \in Entries(last.sites)
      BY <3>5, EntriesOf
    <3>7. e[2] = service /\ e[3].host = h
      BY AddressesOfHosts
    <3>8. h # NoHost \/ before.domainName = NoDomain
      <4>1. before.domainName \in Domains
        BY DEF IsRow
      <4> QED
        BY <2>2, <2>3, <4>1, SchemeAssumption DEF GeneratedHosts
    <3> HIDE DEF e
    <3> QED
      BY <1>4, <3>6, <3>7, <3>8
  <2> QED
    BY <2>8, <2>9
<1> QED
  BY <1>3, <1>7, <1>8 DEF RestoredScheme

\* The scheme that restore-tenant-alias generates for a tenant without sites holds
\* hosts of the tenant only, and one for every public service of its namespaces that
\* no general route serves, for any namespaces, services and general routes: two
\* calls of Upsert, with their filters and renamings, have come over it.
THEOREM RestoredSchemesServe == Spec => []RestoredSchemeServes
<1>1. Init => RestoredSchemeServes
  BY DEF Init, RestoredSchemeServes, Answered
<1>2. TypeOK /\ RestoredSchemeServes /\ [Next]_vars => RestoredSchemeServes'
  <2> SUFFICES ASSUME TypeOK, RestoredSchemeServes, [Next]_vars
               PROVE  RestoredSchemeServes'
    OBVIOUS
  <2>1. ASSUME NEW t \in Tenants, RestoreTenantAlias(t), answer'.ok,
               answer'.before.sites = EmptySites
        PROVE  RestoredSchemeServes'
    <3>1. UNCHANGED generalRoutes /\ RoutesTyped
      BY <2>1, TypedRows DEF RestoreTenantAlias, Unmoved
    <3>2. PICK before : before = tenantDns[t]
      OBVIOUS
    <3>3. answer'.before = before /\ IsRow(before)
      BY <2>1, <3>2, RestoreGives DEF Upserted, RestoredDefault
    <3>4. before.sites = EmptySites /\ DOMAIN before.sites = {}
      BY <2>1, <3>3 DEF EmptySites
    <3>5. PICK d \in DefaultSchemes(before) : RestoredDefault(t, d)
      BY <2>1, <3>2, <3>4, RestoreGives
    <3>6. PICK own, view : /\ OwnLists(before, DefaultSite, generalRoutes, own)
                           /\ Shows(before, generalRoutes, own, view)
                           /\ DefaultOf(before, view, d)
      BY <3>1, <3>3, <3>5, DefaultSchemesGive
    <3>7. PICK row, urls, rows2 : FirstUpsert(t, d, row, urls, rows2)
      BY <2>1, <3>5 DEF RestoredDefault
    <3>8. PICK rows : rows = tenantDns
      OBVIOUS
    <3>9. /\ WrittenRow(t, d, rows, urls, row) /\ rows[t] = before /\ rows2[t] = row
          /\ DOMAIN rows2 = Tenants
      BY <3>2, <3>7, <3>8 DEF FirstUpsert, TypeOK
    <3>10. PICK data, urls2, last : /\ data = [row EXCEPT !.active = TRUE]
                                    /\ WrittenRow(t, data, rows2, urls2, last)
                                    /\ tenantDns' = [rows2 EXCEPT ![t] = last]
      BY <2>1, <3>7 DEF FirstUpsert, SecondUpsert
    <3>11. SameButActive(data, row)
      BY <3>9, <3>10, WithActive DEF WrittenRow, SameButActive
    <3>12. /\ answer'.data = d /\ answer'.tenant = t /\ After' = last
      BY <2>1, <3>5, <3>9, <3>10 DEF RestoredDefault, After
    <3>13. RestoredScheme(before, d, last)
      <4>1. WrittenRow(t, data, rows2, urls2, last) /\ SameButActive(data, row)
        BY <3>10, <3>11
      <4>2. RoutesTyped /\ IsRow(before) /\ before.sites = EmptySites
        BY <3>1, <3>3, <3>4
      <4>3. /\ OwnLists(before, DefaultSite, generalRoutes, own)
            /\ Shows(before, generalRoutes, own, view) /\ DefaultOf(before, view, d)
        BY <3>6
      <4>4. /\ WrittenRow(t, d, rows, urls, row) /\ rows[t] = before
            /\ rows2[t] = row
        BY <3>9
      <4> QED
        BY <4>1, <4>2, <4>3, <4>4, RestoredRow
    <3>14. \A h : IsGeneral(last, h)'
                    <=> HostBelongsToRoutes(h, RoutesFor(last.namespaces))
      BY <3>1 DEF IsGeneral, RoutesOf, RoutesFor
    <3> QED
      BY <3>3, <3>12, <3>13, <3>14 DEF RestoredSchemeServes, RestoredScheme, Renamed
  <2>2. ASSUME NEW t, RestoreTenantAlias(t),
               ~answer'.ok \/ answer'.before.sites # EmptySites
        PROVE  RestoredSchemeServes'
    BY <2>2 DEF RestoredSchemeServes, EmptySites
  <2>3. CASE answer' = None \/ answer'.op # "RestoreTenantAlias"
    BY <2>3 DEF RestoredSchemeServes, Answered
  <2>4. ASSUME NEW p, UpsertStep(p) PROVE RestoredSchemeServes'
    BY <2>3, <2>4 DEF UpsertStep, Upserted
  <2>5. ASSUME NEW t, NEW active, NEW data, StatusStep(t, active, data)
        PROVE  RestoredSchemeServes'
    BY <2>3, <2>5 DEF StatusStep, Upserted
  <2>6. CASE UNCHANGED vars
    BY <2>6 DEF vars, RestoredSchemeServes, Answered, After, IsGeneral, RoutesOf, Renamed
  <2> QED
    BY <2>1, <2>2, <2>3, <2>4, <2>5, <2>6, Steps
<1> QED
  BY <1>1, <1>2, SchemeTypeCorrect, PTL DEF Spec

=============================================================================
