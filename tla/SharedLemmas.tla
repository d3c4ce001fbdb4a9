---------------------------- MODULE SharedLemmas ----------------------------
(***************************************************************************)
(* What the proofs of several modules rest on: the kernel's list           *)
(* operations on a list modelled as a sequence without duplicates          *)
(* (list_del, list_add_tail, list_add), sequences joined and cut, the      *)
(* loops that the models write as recursive functions, and what the        *)
(* operations of ExtentTree.c compute, each loop by induction over its     *)
(* passes: Put, BatchPut, Get, the unrolling of a container and the        *)
(* reversal at the end of recovery.                                        *)
(*                                                                         *)
(* A recursive function f[i \in 0 .. n] names some function that satisfies *)
(* its equation, if there is one.  LoopExists is how a proof shows that    *)
(* there is, LoopInduction how it reasons over the passes of the loop; a   *)
(* property of the passes is given to it as the set of those that have it. *)
(***************************************************************************)
EXTENDS ExtentTree, SequenceTheorems, FiniteSetTheorems,
        WellFoundedInduction, TLAPS

\* list_del on a duplicate-free list: exactly b leaves it.
LEMMA RemoveFirstFacts ==
  ASSUME NEW S, NEW s \in Seq(S), NEW b,
         \A m, n \in DOMAIN s : s[m] = s[n] => m = n
  PROVE  LET r == RemoveFirst(s, b) IN
         /\ r \in Seq(S)
         /\ \A m, n \in DOMAIN r : r[m] = r[n] => m = n
         /\ \A e : Contains(r, e) <=> Contains(s, e) /\ e # b
         /\ Contains(s, b) => Len(r) = Len(s) - 1
<1> DEFINE i == SelectInSeq(s, LAMBDA v : v = b)
           r == RemoveFirst(s, b)
<1>1. CASE ~\E j \in 1 .. Len(s) : s[j] = b
  <2>1. r = s
    BY <1>1 DEF RemoveFirst
  <2> QED BY <2>1, <1>1 DEF Contains
<1>2. CASE \E j \in 1 .. Len(s) : s[j] = b
  <2>1. PICK j \in 1 .. Len(s) : s[j] = b
    BY <1>2
  <2>2. {k \in 1 .. Len(s) : s[k] = b} = {j}
    BY <2>1
  <2>3. i = j
    BY <2>1, <2>2 DEF SelectInSeq, Min
  <2> DEFINE front == SubSeq(s, 1, j - 1)
             back == SubSeq(s, j + 1, Len(s))
  <2>4. r = front \o back
    BY <1>2, <2>3 DEF RemoveFirst, RemoveAt
  <2>5. /\ front \in Seq(S)
        /\ Len(front) = j - 1
        /\ \A k \in 1 .. j - 1 : front[k] = s[k]
    <3>1. \A k \in 1 .. j - 1 : s[k] \in S
      BY <2>1
    <3> QED BY <2>1, <3>1, SubSeqProperties
  <2>6. /\ back \in Seq(S)
        /\ Len(back) = Len(s) - j
        /\ \A k \in 1 .. Len(s) - j : back[k] = s[j + k]
    <3>1. \A k \in j + 1 .. Len(s) : s[k] \in S
      BY <2>1
    <3>2. /\ back \in Seq(S)
          /\ Len(back) = IF j + 1 <= Len(s) THEN Len(s) - (j + 1) + 1 ELSE 0
          /\ \A k \in 1 .. Len(s) - (j + 1) + 1 : back[k] = s[(j + 1) + k - 1]
      BY <2>1, <3>1, SubSeqProperties
    <3> QED BY <2>1, <3>2
  <2>7. /\ r \in Seq(S)
        /\ Len(r) = Len(s) - 1
        /\ \A k \in 1 .. Len(s) - 1 : r[k] = IF k < j THEN s[k] ELSE s[k + 1]
    <3> HIDE DEF front, back, r
    <3>1. /\ r \in Seq(S)
          /\ Len(r) = Len(front) + Len(back)
          /\ \A k \in 1 .. Len(front) + Len(back) :
               r[k] = IF k <= Len(front) THEN front[k]
                                         ELSE back[k - Len(front)]
      <4>1. front \in Seq(S) /\ back \in Seq(S)
        BY <2>5, <2>6
      <4>2. /\ front \o back \in Seq(S)
            /\ Len(front \o back) = Len(front) + Len(back)
            /\ \A k \in 1 .. Len(front) + Len(back) :
                 (front \o back)[k] = IF k <= Len(front) THEN front[k]
                                      ELSE back[k - Len(front)]
        BY <4>1, ConcatProperties
      <4> QED BY ONLY <2>4, <4>2
    <3>2. Len(r) = Len(s) - 1
      BY <2>1, <2>5, <2>6, <3>1
    <3>3. ASSUME NEW k \in 1 .. Len(s) - 1, k < j PROVE r[k] = s[k]
      <4>1. k \in 1 .. Len(front) + Len(back) /\ k <= Len(front)
        BY <2>1, <2>5, <2>6, <3>3
      <4>2. r[k] = front[k]
        BY <3>1, <4>1
      <4> QED BY <2>1, <2>5, <3>3, <4>2
    <3>4. ASSUME NEW k \in 1 .. Len(s) - 1, ~(k < j) PROVE r[k] = s[k + 1]
      <4>1. k - (j - 1) \in 1 .. Len(s) - j /\ j + (k - (j - 1)) = k + 1
        BY <2>1, <3>4
      <4>2. back[k - (j - 1)] = s[j + (k - (j - 1))]
        BY <2>6, <4>1
      <4>3. /\ k \in 1 .. Len(front) + Len(back)
            /\ ~(k <= Len(front))
            /\ k - Len(front) = k - (j - 1)
        BY <2>1, <2>5, <2>6, <3>4
      <4>4. r[k] = back[k - (j - 1)]
        BY <3>1, <4>3
      <4> QED BY <4>1, <4>2, <4>4
    <3> QED BY <3>1, <3>2, <3>3, <3>4
  <2> HIDE DEF r
  <2>8. \A m, n \in DOMAIN r : r[m] = r[n] => m = n
    <3> SUFFICES ASSUME NEW m \in DOMAIN r, NEW n \in DOMAIN r, r[m] = r[n]
                 PROVE  m = n
      OBVIOUS
    <3> DEFINE at(k) == IF k < j THEN k ELSE k + 1
    <3>1. Len(s) \in Nat /\ DOMAIN s = 1 .. Len(s)
      OBVIOUS
    <3>2. m \in 1 .. Len(s) - 1 /\ n \in 1 .. Len(s) - 1
      BY <2>7
    <3>3. at(m) \in DOMAIN s /\ at(n) \in DOMAIN s
      BY <2>1, <3>1, <3>2
    <3>4. r[m] = s[at(m)] /\ r[n] = s[at(n)]
      BY <2>7, <3>2
    <3>5. at(m) = at(n)
      BY <3>3, <3>4
    <3> QED BY <2>1, <3>1, <3>2, <3>5
  <2>9. ASSUME NEW e PROVE Contains(r, e) <=> Contains(s, e) /\ e # b
    <3>1. ASSUME Contains(r, e) PROVE Contains(s, e) /\ e # b
      BY <2>1, <2>7, <3>1 DEF Contains
    <3>2. ASSUME Contains(s, e), e # b PROVE Contains(r, e)
      <4>1. PICK k \in 1 .. Len(s) : s[k] = e
        BY <3>2 DEF Contains
      <4>2. k # j
        BY <2>1, <3>2, <4>1
      <4>3. CASE k < j
        BY <2>1, <2>7, <4>1, <4>3 DEF Contains
      <4>4. CASE k > j
        <5>1. k - 1 \in 1 .. Len(r) /\ r[k - 1] = e
          BY <2>1, <2>7, <4>1, <4>4
        <5> QED BY <5>1 DEF Contains
      <4> QED BY <4>2, <4>3, <4>4
    <3> QED BY <3>1, <3>2
  <2> QED BY <2>7, <2>8, <2>9 DEF r
<1> QED BY <1>1, <1>2

\* list_add_tail: exactly b joins the list.
LEMMA AppendFacts ==
  ASSUME NEW S, NEW s \in Seq(S), NEW b \in S
  PROVE  LET r == Append(s, b) IN
         /\ r \in Seq(S)
         /\ ~Contains(s, b) /\ (\A m, n \in DOMAIN s : s[m] = s[n] => m = n)
              => \A m, n \in DOMAIN r : r[m] = r[n] => m = n
         /\ \A e : Contains(r, e) <=> Contains(s, e) \/ e = b
<1> DEFINE r == Append(s, b)
<1>1. /\ r \in Seq(S)
      /\ Len(r) = Len(s) + 1
      /\ \A i \in 1 .. Len(s) : r[i] = s[i]
      /\ r[Len(s) + 1] = b
  BY AppendProperties
<1> HIDE DEF r
<1>2. ASSUME ~Contains(s, b), \A m, n \in DOMAIN s : s[m] = s[n] => m = n
      PROVE  \A m, n \in DOMAIN r : r[m] = r[n] => m = n
  BY <1>1, <1>2 DEF Contains
<1>3. ASSUME NEW e PROVE Contains(r, e) <=> Contains(s, e) \/ e = b
  <2>1. Contains(r, e) => Contains(s, e) \/ e = b
    BY <1>1 DEF Contains
  <2>2. Contains(s, e) => Contains(r, e)
    BY <1>1 DEF Contains
  <2>3. e = b => Contains(r, e)
    <3>1. Len(s) + 1 \in 1 .. Len(r)
      BY <1>1
    <3> QED BY <1>1, <3>1 DEF Contains
  <2> QED BY <2>1, <2>2, <2>3
<1> QED BY <1>1, <1>2, <1>3 DEF r

\* list_add: exactly b joins the list, at its head.
LEMMA PrependFacts ==
  ASSUME NEW S, NEW s \in Seq(S), NEW b \in S
  PROVE  LET r == <<b>> \o s IN
         /\ r \in Seq(S) /\ Len(r) = Len(s) + 1
         /\ ~Contains(s, b) /\ (\A m, n \in DOMAIN s : s[m] = s[n] => m = n)
              => \A m, n \in DOMAIN r : r[m] = r[n] => m = n
         /\ \A e : Contains(r, e) <=> Contains(s, e) \/ e = b
<1> DEFINE r == <<b>> \o s
<1>1. <<b>> \in Seq(S) /\ Len(<<b>>) = 1 /\ <<b>>[1] = b
  OBVIOUS
<1>2. /\ r \in Seq(S)
      /\ Len(r) = Len(<<b>>) + Len(s)
      /\ \A k \in 1 .. Len(<<b>>) + Len(s) :
           r[k] = IF k <= Len(<<b>>) THEN <<b>>[k] ELSE s[k - Len(<<b>>)]
  BY <1>1, ConcatProperties
<1>3. /\ Len(r) = Len(s) + 1 /\ Len(s) \in Nat /\ r[1] = b
      /\ \A k \in 2 .. Len(s) + 1 : r[k] = s[k - 1]
  BY <1>1, <1>2
<1> HIDE DEF r
<1>4. \A k \in 1 .. Len(s) : r[k + 1] = s[k]
  BY <1>3
<1>5. ASSUME ~Contains(s, b), \A m, n \in DOMAIN s : s[m] = s[n] => m = n
      PROVE  \A m, n \in DOMAIN r : r[m] = r[n] => m = n
  <2> SUFFICES ASSUME NEW m \in DOMAIN r, NEW n \in DOMAIN r, r[m] = r[n]
               PROVE  m = n
    OBVIOUS
  <2>1. /\ m \in 1 .. Len(s) + 1 /\ n \in 1 .. Len(s) + 1
        /\ DOMAIN s = 1 .. Len(s)
    BY <1>2, <1>3
  <2>2. ASSUME NEW k \in 2 .. Len(s) + 1 PROVE r[k] # b /\ k - 1 \in DOMAIN s
    BY <1>3, <1>5, <2>1, <2>2 DEF Contains
  <2>3. (m = 1 => n = 1) /\ (n = 1 => m = 1)
    BY <1>3, <2>1, <2>2
  <2>4. CASE m # 1 /\ n # 1
    <3>1. /\ m \in 2 .. Len(s) + 1 /\ n \in 2 .. Len(s) + 1
          /\ r[m] = s[m - 1] /\ r[n] = s[n - 1]
      BY <1>3, <2>1, <2>4
    <3>2. m - 1 = n - 1
      BY <1>5, <2>2, <3>1
    <3> QED BY <3>1, <3>2
  <2> QED BY <2>3, <2>4
<1>6. ASSUME NEW e PROVE Contains(r, e) <=> Contains(s, e) \/ e = b
  <2>1. Contains(r, e) => Contains(s, e) \/ e = b
    BY <1>3 DEF Contains
  <2>2. Contains(s, e) => Contains(r, e)
    BY <1>3, <1>4 DEF Contains
  <2>3. e = b => Contains(r, e)
    BY <1>3 DEF Contains
  <2> QED BY <2>1, <2>2, <2>3
<1> QED BY <1>2, <1>3, <1>5, <1>6 DEF r

-----------------------------------------------------------------------------
\* Sequences as arrays.

\* A sequence without duplicates has as many elements as places.
LEMMA InjectiveCard ==
  ASSUME NEW S, NEW s \in Seq(S), IsInjective(s)
  PROVE  IsFiniteSet(ToSet(s)) /\ Cardinality(ToSet(s)) = Len(s)
<1>1. Len(s) \in Nat /\ DOMAIN s = 1 .. Len(s) /\ s \in [1 .. Len(s) -> ToSet(s)]
  BY DEF ToSet
<1>2. s \in Bijection(1 .. Len(s), ToSet(s))
  <2>1. s \in Injection(1 .. Len(s), ToSet(s))
    BY <1>1 DEF Injection, IsInjective
  <2>2. s \in Surjection(1 .. Len(s), ToSet(s))
    BY <1>1 DEF Surjection, ToSet
  <2> QED BY <2>1, <2>2 DEF Bijection
<1>3. ExistsBijection(1 .. Len(s), ToSet(s))
  BY <1>2 DEF ExistsBijection
<1>4. IsFiniteSet(ToSet(s))
  BY <1>1, <1>3, FS_NatBijection
<1> QED BY <1>1, <1>3, <1>4, FS_CountingElements

\* Two sequences one after the other.
LEMMA ConcatFacts ==
  ASSUME NEW S, NEW s \in Seq(S), NEW t \in Seq(S)
  PROVE  /\ s \o t \in Seq(S) /\ Len(s \o t) = Len(s) + Len(t)
         /\ ToSet(s \o t) = ToSet(s) \cup ToSet(t)
         /\ IsInjective(s) /\ IsInjective(t) /\ ToSet(s) \cap ToSet(t) = {}
              => IsInjective(s \o t)
<1> DEFINE r == s \o t
<1>1. /\ r \in Seq(S) /\ Len(r) = Len(s) + Len(t)
      /\ Len(s) \in Nat /\ Len(t) \in Nat
      /\ DOMAIN r = 1 .. Len(r) /\ DOMAIN s = 1 .. Len(s) /\ DOMAIN t = 1 .. Len(t)
      /\ \A i \in 1 .. Len(s) + Len(t) :
           r[i] = IF i <= Len(s) THEN s[i] ELSE t[i - Len(s)]
  BY ConcatProperties
<1> HIDE DEF r
<1>2. \A i \in 1 .. Len(s) : i \in 1 .. Len(r) /\ r[i] = s[i]
  BY <1>1
<1>3. \A i \in 1 .. Len(t) : i + Len(s) \in 1 .. Len(r) /\ r[i + Len(s)] = t[i]
  <2> TAKE i \in 1 .. Len(t)
  <2>1. /\ i + Len(s) \in 1 .. Len(s) + Len(t) /\ ~(i + Len(s) <= Len(s))
        /\ (i + Len(s)) - Len(s) = i
    BY <1>1
  <2> QED BY <1>1, <2>1
<1>4. \A i \in 1 .. Len(r) :
        \/ i \in 1 .. Len(s) /\ r[i] = s[i]
        \/ i - Len(s) \in 1 .. Len(t) /\ r[i] = t[i - Len(s)]
  BY <1>1
<1>5. ToSet(r) = ToSet(s) \cup ToSet(t)
  <2>1. /\ ToSet(r) = {r[i] : i \in 1 .. Len(r)}
        /\ ToSet(s) = {s[i] : i \in 1 .. Len(s)}
        /\ ToSet(t) = {t[i] : i \in 1 .. Len(t)}
    BY <1>1 DEF ToSet
  <2>2. \A e \in ToSet(r) : e \in ToSet(s) \cup ToSet(t)
    BY <1>4, <2>1
  <2>3. \A e \in ToSet(s) : e \in ToSet(r)
    BY <1>2, <2>1
  <2>4. \A e \in ToSet(t) : e \in ToSet(r)
    BY <1>3, <2>1
  <2> QED BY <2>2, <2>3, <2>4
<1>6. ASSUME IsInjective(s), IsInjective(t), ToSet(s) \cap ToSet(t) = {} PROVE IsInjective(r)
  <2> SUFFICES ASSUME NEW i \in 1 .. Len(r), NEW j \in 1 .. Len(r), r[i] = r[j]
               PROVE  i = j
    BY <1>1 DEF IsInjective
  <2>1. CASE i \in 1 .. Len(s) /\ r[i] = s[i] /\ j \in 1 .. Len(s) /\ r[j] = s[j]
    BY <1>1, <1>6, <2>1 DEF IsInjective
  <2>2. CASE i - Len(s) \in 1 .. Len(t) /\ r[i] = t[i - Len(s)]
             /\ j - Len(s) \in 1 .. Len(t) /\ r[j] = t[j - Len(s)]
    <3>1. i - Len(s) = j - Len(s)
      BY <1>1, <1>6, <2>2 DEF IsInjective
    <3> QED BY <1>1, <3>1
  <2>3. \A k, m : k \in 1 .. Len(s) /\ m \in 1 .. Len(t) => s[k] # t[m]
    BY <1>1, <1>6 DEF ToSet
  <2> QED BY <1>4, <2>1, <2>2, <2>3
<1> QED BY <1>1, <1>5, <1>6 DEF r

\* A sequence cut in two behind its k-th place.
CutAt(S, s, k, front, back) ==
  /\ front \in Seq(S) /\ Len(front) = k
  /\ back \in Seq(S) /\ Len(back) = Len(s) - k
  /\ ToSet(s) = ToSet(front) \cup ToSet(back)
  /\ IsInjective(s) => /\ IsInjective(front) /\ IsInjective(back)
                     /\ ToSet(front) \cap ToSet(back) = {}

\* What SubSeq makes of a sequence.
LEMMA CutFacts ==
  ASSUME NEW S, NEW s \in Seq(S), NEW k \in 0 .. Len(s)
  PROVE  CutAt(S, s, k, SubSeq(s, 1, k), SubSeq(s, k + 1, Len(s)))
<1> DEFINE front == SubSeq(s, 1, k)
           back == SubSeq(s, k + 1, Len(s))
<1>1. Len(s) \in Nat /\ DOMAIN s = 1 .. Len(s) /\ \A i \in 1 .. Len(s) : s[i] \in S
  OBVIOUS
<1>2. /\ front \in Seq(S) /\ Len(front) = k
      /\ \A i \in 1 .. k : front[i] = s[i]
  <2>1. \A i \in 1 .. k : s[i] \in S
    BY <1>1
  <2> QED BY <1>1, <2>1, SubSeqProperties
<1>3. /\ back \in Seq(S) /\ Len(back) = Len(s) - k
      /\ \A i \in 1 .. Len(s) - k : back[i] = s[k + i]
  <2>1. \A i \in k + 1 .. Len(s) : s[i] \in S
    BY <1>1
  <2>2. /\ back \in Seq(S)
        /\ Len(back) = IF k + 1 <= Len(s) THEN Len(s) - (k + 1) + 1 ELSE 0
        /\ \A i \in 1 .. Len(s) - (k + 1) + 1 : back[i] = s[(k + 1) + i - 1]
    BY <1>1, <2>1, SubSeqProperties
  <2> QED BY <1>1, <2>2
<1> HIDE DEF front, back
<1>4. DOMAIN front = 1 .. k /\ DOMAIN back = 1 .. Len(s) - k
  BY <1>1, <1>2, <1>3
<1>5. ToSet(s) = ToSet(front) \cup ToSet(back)
  <2>1. ASSUME NEW i \in 1 .. Len(s) PROVE s[i] \in ToSet(front) \cup ToSet(back)
    <3>1. CASE i <= k
      BY <1>2, <1>4, <3>1 DEF ToSet
    <3>2. CASE ~(i <= k)
      <4>1. i - k \in 1 .. Len(s) - k /\ k + (i - k) = i
        BY <1>1, <3>2
      <4>2. back[i - k] = s[i]
        BY <1>3, <4>1
      <4> QED BY <1>4, <4>1, <4>2 DEF ToSet
    <3> QED BY <3>1, <3>2
  <2>2. \A i \in 1 .. k : front[i] \in ToSet(s)
    BY <1>1, <1>2 DEF ToSet
  <2>3. \A i \in 1 .. Len(s) - k : back[i] \in ToSet(s)
    BY <1>1, <1>3 DEF ToSet
  <2>4. ToSet(s) = {s[i] : i \in 1 .. Len(s)}
    BY <1>1 DEF ToSet
  <2>5. ToSet(front) = {front[i] : i \in 1 .. k} /\ ToSet(back) = {back[i] : i \in 1 .. Len(s) - k}
    BY <1>4 DEF ToSet
  <2>6. \A e \in ToSet(s) : e \in ToSet(front) \cup ToSet(back)
    BY <2>1, <2>4
  <2>7. \A e \in ToSet(front) \cup ToSet(back) : e \in ToSet(s)
    BY <2>2, <2>3, <2>5
  <2> QED BY <2>6, <2>7
<1>6. ASSUME IsInjective(s)
      PROVE  /\ IsInjective(front) /\ IsInjective(back)
             /\ ToSet(front) \cap ToSet(back) = {}
  <2>1. \A i, j \in 1 .. Len(s) : s[i] = s[j] => i = j
    BY <1>1, <1>6 DEF IsInjective
  <2>2. \A i \in 1 .. k : i \in 1 .. Len(s) /\ front[i] = s[i]
    BY <1>1, <1>2
  <2>3. \A i \in 1 .. Len(s) - k : k + i \in 1 .. Len(s) /\ k < k + i /\ back[i] = s[k + i]
    BY <1>1, <1>3
  <2>4. IsInjective(front)
    BY <1>4, <2>1, <2>2 DEF IsInjective
  <2>5. IsInjective(back)
    <3>1. ASSUME NEW i \in 1 .. Len(s) - k, NEW j \in 1 .. Len(s) - k, back[i] = back[j]
          PROVE  i = j
      <4>1. k + i = k + j
        BY <2>1, <2>3, <3>1
      <4> QED BY <1>1, <4>1
    <3> QED BY <1>4, <3>1 DEF IsInjective
  <2>6. \A i \in 1 .. k, j \in 1 .. Len(s) - k : front[i] # back[j]
    <3> TAKE i \in 1 .. k, j \in 1 .. Len(s) - k
    <3>1. i # k + j
      BY <1>1
    <3> QED BY <2>1, <2>2, <2>3, <3>1
  <2> QED BY <1>4, <2>4, <2>5, <2>6 DEF ToSet
<1>7. CutAt(S, s, k, front, back)
  BY <1>2, <1>3, <1>5, <1>6 DEF CutAt
<1> QED BY <1>7 DEF front, back

-----------------------------------------------------------------------------
\* Loops.

\* A non-empty set of naturals has a least element.
LEMMA LeastNatural ==
  ASSUME NEW S \in SUBSET Nat, S # {}
  PROVE  \E x \in S : \A y \in S : x <= y
<1>1. PICK x \in S : \A y \in S : ~(<<y, x>> \in OpToRel(<, Nat))
  BY NatLessThanWellFounded, WFMin, Zenon
<1>2. ASSUME NEW y \in S PROVE x <= y
  <2>1. <<y, x>> \in Nat \X Nat /\ x \in Nat /\ y \in Nat
    OBVIOUS
  <2>2. ~(y < x)
    <3>1. <<y, x>> \notin OpToRel(<, Nat)
      BY <1>1, Zenon
    <3>2. OpToRel(<, Nat) = {ss \in Nat \X Nat : ss[1] < ss[2]}
      BY Zenon DEF OpToRel
    <3> QED BY <3>1, <3>2, <2>1
  <2> QED BY <2>1, <2>2
<1> QED BY <1>2

\* What is so before a loop and kept by each of its n passes is so after it.
LEMMA LoopInduction ==
  ASSUME NEW n \in Nat, NEW T, 0 \in T,
         \A i \in 0 .. n - 1 : i \in T => i + 1 \in T
  PROVE  \A i \in 0 .. n : i \in T
<1> SUFFICES ASSUME NEW j \in 0 .. n, j \notin T PROVE FALSE
  OBVIOUS
<1> DEFINE S == {i \in 0 .. n : i \notin T}
<1>1. S # {} /\ S \in SUBSET Nat
  OBVIOUS
<1>2. PICK x \in S : \A y \in S : x <= y
  BY <1>1, LeastNatural
<1>3. x - 1 \notin S /\ x # 0 /\ x - 1 \in 0 .. n - 1
  BY <1>2
<1>4. (x - 1) + 1 \in T
  BY <1>3
<1> QED BY <1>4, <1>2

\* The course f of a loop of n passes: step[i] is its i-th pass.
Course(S, n, x0, step, f) ==
  /\ f \in [0 .. n -> S]
  /\ f[0] = x0
  /\ \A i \in 1 .. n : f[i] = step[i][f[i - 1]]

\* A loop whose passes stay in a set has a course.
LEMMA LoopExists ==
  ASSUME NEW S, NEW n \in Nat, NEW x0 \in S, NEW step \in [1 .. n -> [S -> S]]
  PROVE  \E f : Course(S, n, x0, step, f)
<1> DEFINE C(f, m) == /\ f \in [0 .. m -> S]
                      /\ f[0] = x0
                      /\ \A i \in 1 .. m : f[i] = step[i][f[i - 1]]
           T == {m \in 0 .. n : \E f : C(f, m)}
<1>1. 0 \in T
  <2>1. C([i \in 0 .. 0 |-> x0], 0)
    OBVIOUS
  <2>2. \E f : C(f, 0)
    BY <2>1
  <2> HIDE DEF C
  <2> QED BY <2>2
<1>2. ASSUME NEW m \in 0 .. n - 1, m \in T PROVE m + 1 \in T
  <2>1. PICK f : C(f, m)
    BY <1>2
  <2> DEFINE g == [i \in 0 .. m + 1 |-> IF i = m + 1 THEN step[m + 1][f[m]]
                                                     ELSE f[i]]
  <2>2. step[m + 1][f[m]] \in S
    <3>1. m + 1 \in 1 .. n /\ m \in 0 .. m
      OBVIOUS
    <3> QED BY <2>1, <3>1
  <2>3. \A i \in 0 .. m : g[i] = f[i] /\ f[i] \in S
    BY <2>1
  <2>4. g[m + 1] = step[m + 1][f[m]]
    OBVIOUS
  <2>5. \A i \in 1 .. m : g[i] = step[i][g[i - 1]]
    BY <2>1, <2>3
  <2>6. g \in [0 .. m + 1 -> S] /\ g[0] = x0
    BY <2>1, <2>2, <2>3, <2>4
  <2> HIDE DEF g
  <2>7. \A i \in 1 .. m + 1 : g[i] = step[i][g[i - 1]]
    BY <2>3, <2>4, <2>5
  <2>8. C(g, m + 1)
    BY <2>6, <2>7
  <2> QED BY <2>8
<1> HIDE DEF T, C
<1>3. \A i \in 0 .. n : i \in T
  BY <1>1, <1>2, LoopInduction
<1>4. n \in T
  BY <1>3
<1> QED BY <1>4 DEF T, C, Course

-----------------------------------------------------------------------------
\* ExtentTree.c.

\* Extents of a space of n blocks.
Runs(n) == {x \in [start : 0 .. n - 1, end : 1 .. n] : x.start < x.end}

\* Two extents without a common block.
Disjoint(x, y) == x.end <= y.start \/ y.end <= x.start

\* What an extent of n blocks is.
LEMMA RunFacts ==
  ASSUME NEW n \in Nat
  PROVE  /\ \A x \in Runs(n) : /\ x.start \in Nat /\ x.end \in Nat
                               /\ x.start < x.end /\ x.end <= n
                               /\ x = Extent(x.start, x.end)
                               /\ SizeOf(x) = x.end - x.start
         /\ \A s, e \in Int : 0 <= s /\ s < e /\ e <= n => Extent(s, e) \in Runs(n)
         /\ NoExtent \notin Runs(n)
         /\ \A s, e : Extent(s, e).start = s /\ Extent(s, e).end = e
<1>1. ASSUME NEW x \in Runs(n)
      PROVE  /\ x.start \in Nat /\ x.end \in Nat /\ x.start < x.end /\ x.end <= n
             /\ x = Extent(x.start, x.end)
             /\ SizeOf(x) = x.end - x.start
  BY <1>1 DEF Runs, Extent, SizeOf
<1>2. NoExtent.start = -1
  BY DEF NoExtent, Extent
<1> QED BY <1>1, <1>2 DEF Runs, Extent

\* A number is covered by the extent around it.
LEMMA CoveredFacts ==
  ASSUME NEW n \in Nat, NEW tree_ \in SUBSET Runs(n)
  PROVE  /\ \A b : b \in Covered(tree_) <=>
                     /\ b \in Int
                     /\ \E x \in tree_ : x.start <= b /\ b < x.end
         /\ Covered(tree_) \subseteq 0 .. n - 1
         /\ IsFiniteSet(Covered(tree_)) /\ Cardinality(Covered(tree_)) \in Nat
<1>1. \A b : b \in Covered(tree_) <=>
               b \in Int /\ \E x \in tree_ : x.start <= b /\ b < x.end
  BY RunFacts DEF Covered
<1>2. Covered(tree_) \subseteq 0 .. n - 1
  BY <1>1, RunFacts
<1>3. IsFiniteSet(0 .. n - 1)
  BY FS_Interval
<1>4. IsFiniteSet(Covered(tree_))
  BY <1>2, <1>3, FS_Subset
<1>5. Cardinality(Covered(tree_)) \in Nat
  BY <1>4, FS_CardinalityType
<1> QED BY <1>1, <1>2, <1>4, <1>5

\* ExtentTreeLowerBound: the last extent that starts at addr or before it.
LEMMA LowerBoundFacts ==
  ASSUME NEW n \in Nat, NEW tr \in SUBSET Runs(n), NEW addr \in Int,
         NEW p, p = ExtentTreeLowerBound(tr, addr)
  PROVE  \/ /\ p = NoExtent
            /\ \A x \in tr : addr < x.start
         \/ /\ p \in tr /\ p.start <= addr /\ p # NoExtent
            /\ \A x \in tr : x.start <= addr => x.start <= p.start
<1> DEFINE below == {x \in tr : x.start <= addr}
           dist == {d \in Nat : \E x \in below : d = addr - x.start}
<1>T. \A x \in tr : x.start \in Nat /\ x # NoExtent
  BY RunFacts
<1>1. CASE below = {}
  BY <1>1, <1>T DEF ExtentTreeLowerBound
<1>2. CASE below # {}
  <2>1. dist # {} /\ dist \in SUBSET Nat
    BY <1>2, <1>T
  <2>2. PICK d \in dist : \A c \in dist : d <= c
    BY <2>1, LeastNatural
  <2>3. PICK x \in below : d = addr - x.start
    BY <2>2
  <2>4. \A y \in below : y.start <= x.start
    <3> TAKE y \in below
    <3>1. addr - y.start \in dist
      BY <1>T
    <3> QED BY <3>1, <2>2, <2>3, <1>T
  <2>5. p \in below /\ \A y \in below : y.start <= p.start
    BY <1>2, <2>3, <2>4 DEF ExtentTreeLowerBound
  <2> QED BY <2>5, <1>T
<1> QED BY <1>1, <1>2

\* rb_next: the first extent that starts behind another.
LEMMA NextExtentFacts ==
  ASSUME NEW n \in Nat, NEW tr \in SUBSET Runs(n), NEW prev, prev.start \in Int,
         NEW f, f = NextExtent(tr, prev)
  PROVE  \/ /\ f = NoExtent
            /\ \A x \in tr : x.start <= prev.start
         \/ /\ f \in tr /\ prev.start < f.start /\ f # NoExtent
            /\ \A x \in tr : prev.start < x.start => f.start <= x.start
<1> DEFINE above == {x \in tr : x.start > prev.start}
           starts == {d \in Nat : \E x \in above : d = x.start}
<1>T. \A x \in tr : x.start \in Nat /\ x # NoExtent
  BY RunFacts
<1>1. CASE above = {}
  BY <1>1, <1>T DEF NextExtent
<1>2. CASE above # {}
  <2>1. starts # {} /\ starts \in SUBSET Nat
    BY <1>2, <1>T
  <2>2. PICK d \in starts : \A c \in starts : d <= c
    BY <2>1, LeastNatural
  <2>3. PICK x \in above : d = x.start
    BY <2>2
  <2>4. \A y \in above : x.start <= y.start
    BY <1>T, <2>2, <2>3
  <2>5. f \in above /\ \A y \in above : f.start <= y.start
    BY <1>2, <2>3, <2>4 DEF NextExtent
  <2> QED BY <2>5, <1>T
<1> QED BY <1>1, <1>2

\* rb_first.
LEMMA FirstFacts ==
  ASSUME NEW n \in Nat, NEW tr \in SUBSET Runs(n), NEW f, f = First(tr)
  PROVE  \/ f = NoExtent /\ tr = {}
         \/ /\ f \in tr /\ f # NoExtent
            /\ \A x \in tr : f.start <= x.start
<1>1. NoExtent.start = -1
  BY DEF NoExtent, Extent
<1>2. \A x \in tr : x.start \in Nat
  BY RunFacts
<1>3. f = NextExtent(tr, NoExtent) /\ NoExtent.start \in Int
  BY <1>1 DEF First
<1>4. \/ /\ f = NoExtent
         /\ \A x \in tr : x.start <= NoExtent.start
      \/ /\ f \in tr /\ NoExtent.start < f.start /\ f # NoExtent
         /\ \A x \in tr : NoExtent.start < x.start => f.start <= x.start
  BY <1>3, NextExtentFacts
<1> QED BY <1>1, <1>2, <1>4

\* One extent [lo, hi) of [s, e), of the one before it (front) and of the one
\* behind it (back).
Joins(n, tr, s, e, front, back, lo, hi) ==
  /\ front \in SUBSET tr /\ back \in SUBSET tr /\ lo \in Int /\ hi \in Int
  /\ 0 <= lo /\ lo <= s /\ e <= hi /\ hi <= n
  /\ \/ front = {} /\ lo = s
     \/ \E x \in tr : front = {x} /\ x.end = s /\ x.start = lo
  /\ \/ back = {} /\ hi = e
     \/ \E x \in tr : back = {x} /\ x.start = e /\ x.end = hi
  /\ Canonical(tr) /\ (\A x \in tr : x.end <= s \/ e <= x.start) =>
       \A x \in tr : /\ x.end = s => x \in front
                     /\ x.start = e => x \in back

\* ExtentTreePut makes one extent of the new one and those it touches.
LEMMA PutCases ==
  ASSUME NEW n \in Nat, NEW tr \in SUBSET Runs(n),
         NEW s \in Int, NEW e \in Int, 0 <= s, s < e, e <= n
  PROVE  \E front, back, lo, hi :
           /\ ExtentTreePut(tr, s, e) = (tr \ (front \cup back)) \cup {Extent(lo, hi)}
           /\ Joins(n, tr, s, e, front, back, lo, hi)
<1> DEFINE prev == ExtentTreeLowerBound(tr, s)
           next == NextExtent(tr, prev)
           isFront == prev # NoExtent /\ prev.end = s
           isBack == next # NoExtent /\ next.start = e
           front == IF isFront THEN {prev} ELSE {}
           back == IF isBack THEN {next} ELSE {}
           lo == IF isFront THEN prev.start ELSE s
           hi == IF isBack THEN next.end ELSE e
<1>T. /\ NoExtent.start = -1
      /\ \A x \in tr : /\ x.start \in Nat /\ x.end \in Nat /\ x.start < x.end
                       /\ x.end <= n /\ x # NoExtent
  BY RunFacts DEF NoExtent, Extent
<1>1. ExtentTreePut(tr, s, e) = (tr \ (front \cup back)) \cup {Extent(lo, hi)}
  BY DEF ExtentTreePut
<1>2. \/ /\ prev = NoExtent
         /\ \A x \in tr : s < x.start
      \/ /\ prev \in tr /\ prev.start <= s /\ prev # NoExtent
         /\ \A x \in tr : x.start <= s => x.start <= prev.start
  BY LowerBoundFacts
<1> HIDE DEF prev
<1>3. prev.start \in Int /\ prev.start <= s
  BY <1>2, <1>T
<1>4. \/ /\ next = NoExtent
         /\ \A x \in tr : x.start <= prev.start
      \/ /\ next \in tr /\ prev.start < next.start /\ next # NoExtent
         /\ \A x \in tr : prev.start < x.start => next.start <= x.start
  BY <1>3, NextExtentFacts
<1> HIDE DEF next
<1>5. \/ front = {} /\ lo = s
      \/ \E x \in tr : front = {x} /\ x.end = s /\ x.start = lo
  BY <1>2
<1>6. \/ back = {} /\ hi = e
      \/ \E x \in tr : back = {x} /\ x.start = e /\ x.end = hi
  BY <1>4
<1>7. /\ front \in SUBSET tr /\ back \in SUBSET tr /\ lo \in Int /\ hi \in Int
      /\ 0 <= lo /\ lo <= s /\ e <= hi /\ hi <= n
  BY <1>2, <1>4, <1>T
<1>8. ASSUME Canonical(tr), \A x \in tr : x.end <= s \/ e <= x.start, NEW x \in tr
      PROVE  /\ x.end = s => x \in front
             /\ x.start = e => x \in back
  <2>1. \A y \in tr : x = y \/ x.end < y.start \/ y.end < x.start
    BY <1>8 DEF Canonical
  <2>2. ASSUME x.end = s PROVE x \in front
    <3>1. prev \in tr /\ x.start <= prev.start /\ prev.start <= s
      BY <1>2, <1>T, <2>2
    <3>2. x = prev
      BY <3>1, <2>1, <1>T, <2>2
    <3> QED BY <3>1, <3>2, <2>2, <1>T
  <2>3. ASSUME x.start = e PROVE x \in back
    <3>1. prev.start < x.start
      BY <1>3, <2>3
    <3>2. next \in tr /\ next.start <= e /\ prev.start < next.start
      BY <1>3, <1>4, <3>1, <2>3, <1>T
    <3>3. s < next.start
      BY <3>2, <1>2, <1>T
    <3>4. e <= next.start
      BY <3>2, <3>3, <1>8, <1>T
    <3>5. x = next
      BY <3>2, <3>4, <2>1, <2>3, <1>T
    <3> QED BY <3>2, <3>5, <2>3, <1>T
  <2> QED BY <2>2, <2>3
<1> HIDE DEF front, back, lo, hi
<1>9. Joins(n, tr, s, e, front, back, lo, hi)
  <2> HIDE DEF Canonical
  <2> QED BY <1>5, <1>6, <1>7, <1>8 DEF Joins
<1> QED BY <1>1, <1>9

\* Put keeps the tree within its space.
LEMMA PutTyped ==
  ASSUME NEW n \in Nat, NEW tr \in SUBSET Runs(n), NEW x \in Runs(n)
  PROVE  ExtentTreePut(tr, x.start, x.end) \in SUBSET Runs(n)
<1>1. x.start \in Int /\ x.end \in Int /\ 0 <= x.start /\ x.start < x.end /\ x.end <= n
  BY RunFacts
<1>2. PICK front, back, lo, hi :
        /\ ExtentTreePut(tr, x.start, x.end) = (tr \ (front \cup back)) \cup {Extent(lo, hi)}
        /\ Joins(n, tr, x.start, x.end, front, back, lo, hi)
  BY <1>1, PutCases
<1>3. Extent(lo, hi) \in Runs(n)
  <2>1. lo \in Int /\ hi \in Int /\ 0 <= lo /\ lo < hi /\ hi <= n
    BY <1>1, <1>2 DEF Joins
  <2> QED BY <2>1, RunFacts
<1> QED BY <1>2, <1>3

\* A tree has blocks of size more than the old one had; its extents neither
\* overlap nor touch.
Grown(n, old, blocks, size, new) ==
  /\ new \in SUBSET Runs(n) /\ Canonical(new)
  /\ Covered(new) = Covered(old) \cup blocks
  /\ Cardinality(Covered(new)) = Cardinality(Covered(old)) + size

\* ExtentTreePut of an extent apart from those of the tree.
LEMMA TreePutFacts ==
  ASSUME NEW n \in Nat, NEW tr \in SUBSET Runs(n), Canonical(tr), NEW x \in Runs(n),
         \A y \in tr : Disjoint(x, y)
  PROVE  Grown(n, tr, x.start .. x.end - 1, SizeOf(x),
               ExtentTreePut(tr, x.start, x.end))
<1> DEFINE s == x.start
           e == x.end
           new == ExtentTreePut(tr, s, e)
<1>1. s \in Int /\ e \in Int /\ 0 <= s /\ s < e /\ e <= n /\ SizeOf(x) = e - s
  BY RunFacts
<1>T. \A y \in tr : /\ y.start \in Nat /\ y.end \in Nat /\ y.start < y.end
                    /\ y.end <= n
  BY RunFacts
<1>2. \A y \in tr : y.end <= s \/ e <= y.start
  BY DEF Disjoint
<1>0. PICK front, back, lo, hi :
        /\ new = (tr \ (front \cup back)) \cup {Extent(lo, hi)}
        /\ Joins(n, tr, s, e, front, back, lo, hi)
  BY <1>1, PutCases
<1>3. /\ front \in SUBSET tr /\ back \in SUBSET tr /\ lo \in Int /\ hi \in Int
      /\ new = (tr \ (front \cup back)) \cup {Extent(lo, hi)}
      /\ 0 <= lo /\ lo <= s /\ e <= hi /\ hi <= n
      /\ \/ front = {} /\ lo = s
         \/ \E y \in tr : front = {y} /\ y.end = s /\ y.start = lo
      /\ \/ back = {} /\ hi = e
         \/ \E y \in tr : back = {y} /\ y.start = e /\ y.end = hi
      /\ \A y \in tr : /\ y.end = s => y \in front
                       /\ y.start = e => y \in back
  <2> HIDE DEF new
  <2> QED BY <1>0, <1>2 DEF Joins
<1>4. new \in SUBSET Runs(n)
  BY PutTyped
<1> DEFINE j == Extent(lo, hi)
<1>5. j.start = lo /\ j.end = hi /\ j \in new
  BY <1>3, RunFacts
<1>6. ASSUME NEW y \in tr, y \notin front, y \notin back
      PROVE  y.end < lo \/ hi < y.start
  <2>1. y.end < s \/ e < y.start
    BY <1>1, <1>2, <1>3, <1>6, <1>T
  <2>2. \A z \in tr : z = y \/ y.end < z.start \/ z.end < y.start
    BY DEF Canonical
  <2>3. CASE y.end < s
    <3>1. ASSUME NEW z \in tr, front = {z}, z.end = s, z.start = lo PROVE y.end < lo
      BY <3>1, <2>2, <2>3, <1>6, <1>T
    <3> QED BY <1>3, <2>3, <3>1
  <2>4. CASE e < y.start
    <3>1. ASSUME NEW z \in tr, back = {z}, z.start = e, z.end = hi PROVE hi < y.start
      BY <3>1, <2>2, <2>4, <1>6, <1>T
    <3> QED BY <1>3, <2>4, <3>1
  <2> QED BY <2>1, <2>3, <2>4
<1>7. Canonical(new)
  <2>1. \A y \in new : y = j \/ (y \in tr /\ y \notin front /\ y \notin back)
    BY <1>3
  <2>2. j.start < j.end
    BY <1>1, <1>3, <1>5
  <2>3. \A y \in new : y.start < y.end
    BY <2>1, <2>2, <1>T
  <2>4. ASSUME NEW y \in new, NEW z \in new, y # z
        PROVE  y.end < z.start \/ z.end < y.start
    BY <2>1, <2>4, <1>5, <1>6 DEF Canonical
  <2> QED BY <2>3, <2>4 DEF Canonical
<1>8. Covered(new) = Covered(tr) \cup (s .. e - 1)
  <2>1. ASSUME NEW b \in Int
        PROVE  b \in Covered(new) <=> b \in Covered(tr) \/ (s <= b /\ b < e)
    <3>1. b \in Covered(tr) <=> \E y \in tr : y.start <= b /\ b < y.end
      BY CoveredFacts
    <3>2. b \in Covered(new) <=> \E y \in new : y.start <= b /\ b < y.end
      BY <1>4, CoveredFacts
    <3>3. ASSUME NEW y \in new, y.start <= b, b < y.end
          PROVE  (\E z \in tr : z.start <= b /\ b < z.end) \/ (s <= b /\ b < e)
      <4>1. CASE y = j
        BY <4>1, <3>3, <1>1, <1>3, <1>5
      <4>2. CASE y \in tr
        BY <4>2, <3>3
      <4> QED BY <4>1, <4>2, <1>3
    <3>4. ASSUME NEW y \in tr, y.start <= b, b < y.end
          PROVE  \E z \in new : z.start <= b /\ b < z.end
      <4>1. CASE y \in front \/ y \in back
        <5>1. j.start <= b /\ b < j.end
          BY <4>1, <3>4, <1>1, <1>3, <1>5, <1>T
        <5> QED BY <5>1, <1>5
      <4>2. CASE y \notin front /\ y \notin back
        BY <4>2, <3>4, <1>3
      <4> QED BY <4>1, <4>2
    <3>5. ASSUME s <= b, b < e PROVE \E z \in new : z.start <= b /\ b < z.end
      BY <3>5, <1>1, <1>3, <1>5
    <3> QED BY <3>1, <3>2, <3>3, <3>4, <3>5
  <2>2. \A b : b \in Covered(new) \/ b \in Covered(tr) => b \in Int
    BY <1>4, CoveredFacts
  <2> HIDE DEF new
  <2> QED BY <2>1, <2>2, <1>1
<1>9. Cardinality(Covered(new)) = Cardinality(Covered(tr)) + SizeOf(x)
  <2>1. Covered(tr) \cap (s .. e - 1) = {}
    <3>1. \A b : b \in Covered(tr) =>
                   b \in Int /\ \E y \in tr : y.start <= b /\ b < y.end
      BY CoveredFacts
    <3> QED BY <3>1, <1>1, <1>2, <1>T
  <2>2. IsFiniteSet(Covered(tr)) /\ Cardinality(Covered(tr)) \in Nat
    BY CoveredFacts
  <2> HIDE DEF s, e
  <2>3. IsFiniteSet(s .. e - 1) /\ Cardinality(s .. e - 1) = e - s
    <3>1. e - 1 \in Int
      BY <1>1
    <3>2. /\ IsFiniteSet(s .. e - 1)
          /\ Cardinality(s .. e - 1) = IF s > e - 1 THEN 0 ELSE (e - 1) - s + 1
      BY <1>1, <3>1, FS_Interval
    <3> QED BY <1>1, <3>2
  <2>4. Cardinality(Covered(tr) \cup (s .. e - 1)) =
          Cardinality(Covered(tr)) + Cardinality(s .. e - 1)
            - Cardinality(Covered(tr) \cap (s .. e - 1))
    BY <2>2, <2>3, FS_Union
  <2>5. Cardinality(Covered(tr) \cap (s .. e - 1)) = 0
    BY <2>1, FS_EmptySet
  <2> QED BY <1>1, <1>8, <2>2, <2>3, <2>4, <2>5 DEF s, e
<1> HIDE DEF new
<1>10. Grown(n, tr, s .. e - 1, SizeOf(x), new)
  BY <1>4, <1>7, <1>8, <1>9 DEF Grown
<1> QED BY <1>10 DEF new

\* The loop of ExtentTreeBatchPut.
LEMMA BatchPutLoop ==
  ASSUME NEW n \in Nat, NEW tr \in SUBSET Runs(n), NEW c \in Seq(Runs(n))
  PROVE  /\ BatchPut(tr, c)[0] = tr
         /\ \A i \in 1 .. Len(c) :
              BatchPut(tr, c)[i] =
                ExtentTreePut(BatchPut(tr, c)[i - 1], c[i].start, c[i].end)
<1> DEFINE S == SUBSET Runs(n)
           Pass(i, t) == ExtentTreePut(t, c[i].start, c[i].end)
           step == [i \in 1 .. Len(c) |-> [t \in S |-> Pass(i, t)]]
           Body(f) == [i \in 0 .. Len(c) |->
                         IF i = 0 THEN tr ELSE Pass(i, f[i - 1])]
<1>1. Len(c) \in Nat /\ tr \in S
  OBVIOUS
<1>2. \A i \in 1 .. Len(c), t \in S : Pass(i, t) \in S
  <2> TAKE i \in 1 .. Len(c), t \in S
  <2>1. c[i] \in Runs(n)
    OBVIOUS
  <2> QED BY <2>1, PutTyped
<1> HIDE DEF S, Pass
<1>3. step \in [1 .. Len(c) -> [S -> S]]
  BY <1>2
<1>4. PICK f : Course(S, Len(c), tr, step, f)
  <2> HIDE DEF step
  <2> QED BY <1>1, <1>3, LoopExists
<1>5. f = Body(f)
  <2>1. \A i \in 1 .. Len(c) : f[i] = Pass(i, f[i - 1])
    BY <1>1, <1>4 DEF Course
  <2>2. \A i \in 0 .. Len(c) : i = 0 \/ i \in 1 .. Len(c)
    BY <1>1
  <2> QED BY <1>4, <2>1, <2>2 DEF Course
<1>6. BatchPut(tr, c) = CHOOSE g : g = Body(g)
  BY Zenon DEF BatchPut, Pass
<1> DEFINE g == BatchPut(tr, c)
<1>7. g = Body(g)
  <2> HIDE DEF Body
  <2> QED BY <1>5, <1>6
<1> HIDE DEF g
<1>8. g[0] = tr /\ \A i \in 1 .. Len(c) : g[i] = Pass(i, g[i - 1])
  BY <1>1, <1>7
<1> QED BY <1>8 DEF g, Pass

\* The loop of ExtentContainerAppend over a whole container.
LEMMA SizeLoop ==
  ASSUME NEW n \in Nat, NEW c \in Seq(Runs(n))
  PROVE  /\ SizeUpTo(c)[0] = 0
         /\ \A i \in 1 .. Len(c) : SizeUpTo(c)[i] = SizeUpTo(c)[i - 1] + SizeOf(c[i])
         /\ \A i \in 0 .. Len(c) : SizeUpTo(c)[i] \in Nat
<1> DEFINE step == [i \in 1 .. Len(c) |-> [m \in Nat |-> m + SizeOf(c[i])]]
           Body(f) == [i \in 0 .. Len(c) |->
                         IF i = 0 THEN 0 ELSE f[i - 1] + SizeOf(c[i])]
<1>1. Len(c) \in Nat
  OBVIOUS
<1>2. \A i \in 1 .. Len(c) : SizeOf(c[i]) \in Nat
  <2> TAKE i \in 1 .. Len(c)
  <2>1. c[i] \in Runs(n)
    OBVIOUS
  <2> QED BY <2>1, RunFacts
<1>3. step \in [1 .. Len(c) -> [Nat -> Nat]]
  BY <1>2
<1>4. PICK f : Course(Nat, Len(c), 0, step, f)
  <2> HIDE DEF step
  <2> QED BY <1>1, <1>3, LoopExists
<1>5. f = Body(f)
  <2>1. \A i \in 1 .. Len(c) : f[i] = f[i - 1] + SizeOf(c[i])
    <3> TAKE i \in 1 .. Len(c)
    <3>1. f[i - 1] \in Nat /\ f[i] = step[i][f[i - 1]]
      <4>1. i - 1 \in 0 .. Len(c)
        BY <1>1
      <4> HIDE DEF step
      <4> QED BY <1>4, <4>1 DEF Course
    <3> QED BY <3>1
  <2>2. \A i \in 0 .. Len(c) : i = 0 \/ i \in 1 .. Len(c)
    BY <1>1
  <2> QED BY <1>4, <2>1, <2>2 DEF Course
<1>6. SizeUpTo(c) = CHOOSE g : g = Body(g)
  BY Zenon DEF SizeUpTo
<1> DEFINE g == SizeUpTo(c)
<1>7. g = Body(g)
  <2> HIDE DEF Body
  <2> QED BY <1>5, <1>6
<1> HIDE DEF g
<1>8. g[0] = 0 /\ \A i \in 1 .. Len(c) : g[i] = g[i - 1] + SizeOf(c[i])
  BY <1>1, <1>7
<1> DEFINE T == {i \in 0 .. Len(c) : g[i] \in Nat}
<1>9. \A i \in 0 .. Len(c) : i \in T
  <2>1. 0 \in T
    BY <1>1, <1>8
  <2>2. \A i \in 0 .. Len(c) - 1 : i \in T => i + 1 \in T
    BY <1>1, <1>2, <1>8
  <2> HIDE DEF T
  <2> QED BY <1>1, <2>1, <2>2, LoopInduction
<1> QED BY <1>8, <1>9 DEF g

\* An extent appended to a container adds its size.
LEMMA SizeAppend ==
  ASSUME NEW n \in Nat, NEW c \in Seq(Runs(n)), NEW x \in Runs(n)
  PROVE  /\ ContainerSize(Append(c, x)) = ContainerSize(c) + SizeOf(x)
         /\ ContainerSize(c) \in Nat
<1> DEFINE d == Append(c, x)
           T == {i \in 0 .. Len(c) : SizeUpTo(d)[i] = SizeUpTo(c)[i]}
<1>1. /\ Len(c) \in Nat /\ d \in Seq(Runs(n)) /\ Len(d) = Len(c) + 1
      /\ d[Len(d)] = x /\ \A i \in 1 .. Len(c) : d[i] = c[i]
  OBVIOUS
<1> HIDE DEF d
<1>2. /\ SizeUpTo(c)[0] = 0
      /\ \A i \in 1 .. Len(c) : SizeUpTo(c)[i] = SizeUpTo(c)[i - 1] + SizeOf(c[i])
      /\ \A i \in 0 .. Len(c) : SizeUpTo(c)[i] \in Nat
  BY SizeLoop
<1>3. /\ SizeUpTo(d)[0] = 0
      /\ \A i \in 1 .. Len(d) : SizeUpTo(d)[i] = SizeUpTo(d)[i - 1] + SizeOf(d[i])
  BY <1>1, SizeLoop
<1>4. \A i \in 0 .. Len(c) : i \in T
  <2>1. 0 \in T
    BY <1>1, <1>2, <1>3
  <2>2. ASSUME NEW i \in 0 .. Len(c) - 1, i \in T PROVE i + 1 \in T
    <3>1. i + 1 \in 1 .. Len(c) /\ i + 1 \in 1 .. Len(d) /\ (i + 1) - 1 = i
      BY <1>1
    <3>2. SizeUpTo(d)[i + 1] = SizeUpTo(d)[i] + SizeOf(d[i + 1])
      BY <1>3, <3>1
    <3>3. SizeUpTo(c)[i + 1] = SizeUpTo(c)[i] + SizeOf(c[i + 1])
      BY <1>2, <3>1
    <3> QED BY <1>1, <2>2, <3>1, <3>2, <3>3
  <2> HIDE DEF T
  <2> QED BY <1>1, <2>1, <2>2, LoopInduction
<1>5. SizeUpTo(d)[Len(d)] = SizeUpTo(d)[Len(c)] + SizeOf(x)
  <2>1. Len(d) \in 1 .. Len(d) /\ Len(d) - 1 = Len(c)
    BY <1>1
  <2> QED BY <1>1, <1>3, <2>1
<1>6. SizeUpTo(d)[Len(c)] = SizeUpTo(c)[Len(c)] /\ SizeUpTo(c)[Len(c)] \in Nat
  BY <1>1, <1>2, <1>4
<1> QED BY <1>5, <1>6 DEF ContainerSize, d

\* The blocks of an extent.
Span(x) == x.start .. x.end - 1

\* An extent is apart from those of a tree when it has none of their blocks.
LEMMA ApartFacts ==
  ASSUME NEW n \in Nat, NEW tr \in SUBSET Runs(n), NEW x \in Runs(n)
  PROVE  /\ (\A y \in tr : Disjoint(x, y)) <=> Span(x) \cap Covered(tr) = {}
         /\ \A y \in Runs(n) : Disjoint(x, y) <=> Span(x) \cap Span(y) = {}
<1>T. \A y \in Runs(n) : /\ y.start \in Nat /\ y.end \in Nat /\ y.start < y.end
  BY RunFacts
<1>1. ASSUME NEW y \in Runs(n)
      PROVE  Disjoint(x, y) <=> Span(x) \cap Span(y) = {}
  <2>1. ASSUME ~Disjoint(x, y) PROVE Span(x) \cap Span(y) # {}
    <3> DEFINE b == IF x.start < y.start THEN y.start ELSE x.start
    <3>1. b \in Span(x) /\ b \in Span(y)
      BY <2>1, <1>T DEF Disjoint, Span
    <3> QED BY <3>1
  <2>2. ASSUME Disjoint(x, y), NEW b \in Span(x), b \in Span(y) PROVE FALSE
    BY <2>2, <1>T DEF Disjoint, Span
  <2> QED BY <2>1, <2>2
<1>2. \A b : b \in Covered(tr) <=> \E y \in tr : b \in Span(y)
  BY DEF Covered, Span
<1> QED BY <1>1, <1>2

\* The extents that a container has in its first i places.
FirstOf(c, i) == {c[j] : j \in 1 .. i}

\* No block is in two extents of a container.
NoOverlap(c) ==
  \A i, j \in 1 .. Len(c) : i # j => Disjoint(c[i], c[j])

\* One more place of a container covers one more extent.
LEMMA FirstOfFacts ==
  ASSUME NEW n \in Nat, NEW c \in Seq(Runs(n))
  PROVE  /\ Covered(FirstOf(c, 0)) = {}
         /\ \A i \in 0 .. Len(c) : FirstOf(c, i) \in SUBSET Runs(n)
         /\ \A i \in 1 .. Len(c) :
              Covered(FirstOf(c, i)) = Covered(FirstOf(c, i - 1)) \cup Span(c[i])
         /\ FirstOf(c, Len(c)) = ToSet(c)
         /\ NoOverlap(c) =>
              \A i \in 1 .. Len(c) : Span(c[i]) \cap Covered(FirstOf(c, i - 1)) = {}
<1>1. Len(c) \in Nat /\ DOMAIN c = 1 .. Len(c) /\ \A i \in 1 .. Len(c) : c[i] \in Runs(n)
  OBVIOUS
<1>2. \A S, b : b \in Covered(S) <=> \E x \in S : b \in Span(x)
  BY DEF Covered, Span
<1>3. Covered(FirstOf(c, 0)) = {}
  BY <1>2 DEF FirstOf
<1>4. \A i \in 0 .. Len(c) : FirstOf(c, i) \in SUBSET Runs(n)
  BY <1>1 DEF FirstOf
<1>5. ASSUME NEW i \in 1 .. Len(c)
      PROVE  Covered(FirstOf(c, i)) = Covered(FirstOf(c, i - 1)) \cup Span(c[i])
  <2>1. FirstOf(c, i) = FirstOf(c, i - 1) \cup {c[i]}
    BY <1>1 DEF FirstOf
  <2> QED BY <1>2, <2>1
<1>6. FirstOf(c, Len(c)) = ToSet(c)
  BY <1>1 DEF FirstOf, ToSet
<1>7. ASSUME NoOverlap(c), NEW i \in 1 .. Len(c)
      PROVE  Span(c[i]) \cap Covered(FirstOf(c, i - 1)) = {}
  <2>1. \A y \in FirstOf(c, i - 1) : Disjoint(c[i], y)
    BY <1>1, <1>7 DEF FirstOf, NoOverlap
  <2>2. i - 1 \in 0 .. Len(c) /\ c[i] \in Runs(n)
    BY <1>1
  <2> QED BY <1>4, <2>1, <2>2, ApartFacts
<1> QED BY <1>3, <1>4, <1>5, <1>6, <1>7

\* ExtentTreeBatchPut of extents apart from each other and from the tree.
THEOREM BatchPutFacts ==
  ASSUME NEW n \in Nat, NEW tr \in SUBSET Runs(n), Canonical(tr),
         NEW c \in Seq(Runs(n)), NoOverlap(c),
         Covered(ToSet(c)) \cap Covered(tr) = {}
  PROVE  Grown(n, tr, Covered(ToSet(c)), ContainerSize(c), ExtentTreeBatchPut(tr, c))
<1> DEFINE b == BatchPut(tr, c)
           Good(i) == Grown(n, tr, Covered(FirstOf(c, i)), SizeUpTo(c)[i], b[i])
           T == {i \in 0 .. Len(c) : Good(i)}
<1>1. /\ b[0] = tr
      /\ \A i \in 1 .. Len(c) :
           b[i] = ExtentTreePut(b[i - 1], c[i].start, c[i].end)
  BY BatchPutLoop
<1> HIDE DEF b
<1>2. Len(c) \in Nat /\ \A i \in 1 .. Len(c) : c[i] \in Runs(n)
  OBVIOUS
<1>3. /\ SizeUpTo(c)[0] = 0
      /\ \A i \in 1 .. Len(c) : SizeUpTo(c)[i] = SizeUpTo(c)[i - 1] + SizeOf(c[i])
      /\ \A i \in 0 .. Len(c) : SizeUpTo(c)[i] \in Nat
  BY SizeLoop
<1>4. /\ Covered(FirstOf(c, 0)) = {}
      /\ \A i \in 1 .. Len(c) :
           /\ Covered(FirstOf(c, i)) = Covered(FirstOf(c, i - 1)) \cup Span(c[i])
           /\ Span(c[i]) \cap Covered(FirstOf(c, i - 1)) = {}
      /\ FirstOf(c, Len(c)) = ToSet(c)
  BY FirstOfFacts
<1>5. Cardinality(Covered(tr)) \in Nat
  BY CoveredFacts
<1>6. 0 \in T
  <2>1. Good(0)
    BY <1>1, <1>3, <1>4, <1>5 DEF Grown
  <2> HIDE DEF Good
  <2> QED BY <1>2, <2>1
<1>7. ASSUME NEW i \in 0 .. Len(c) - 1, i \in T PROVE i + 1 \in T
  <2>1. i + 1 \in 1 .. Len(c) /\ (i + 1) - 1 = i /\ i \in 0 .. Len(c)
    BY <1>2
  <2>2. Good(i)
    BY <1>7
  <2> DEFINE x == c[i + 1]
  <2>3. x \in Runs(n) /\ b[i + 1] = ExtentTreePut(b[i], x.start, x.end)
    BY <1>1, <1>2, <2>1
  <2>4. Covered(FirstOf(c, i + 1)) = Covered(FirstOf(c, i)) \cup Span(x)
    BY <1>4, <2>1
  <2>5. Span(x) \cap Covered(b[i]) = {}
    <3>1. Span(x) \cap Covered(FirstOf(c, i)) = {}
      BY <1>4, <2>1
    <3>2. Span(x) \subseteq Covered(ToSet(c))
      <4>1. x \in ToSet(c)
        BY <2>1 DEF ToSet
      <4> QED BY <4>1 DEF Covered, Span
    <3> QED BY <2>2, <3>1, <3>2 DEF Grown
  <2> HIDE DEF x
  <2>6. Grown(n, b[i], x.start .. x.end - 1, SizeOf(x), b[i + 1])
    <3>1. b[i] \in SUBSET Runs(n) /\ Canonical(b[i])
      BY <2>2 DEF Grown
    <3>2. \A y \in b[i] : Disjoint(x, y)
      BY <3>1, <2>3, <2>5, ApartFacts
    <3> QED BY <2>3, <3>1, <3>2, TreePutFacts
  <2>7. SizeUpTo(c)[i + 1] = SizeUpTo(c)[i] + SizeOf(x) /\ SizeUpTo(c)[i] \in Nat
        /\ SizeOf(x) \in Nat
    <3>1. SizeOf(x) \in Nat
      BY <2>3, RunFacts
    <3> QED BY <1>3, <2>1, <3>1 DEF x
  <2>8. Good(i + 1)
    BY <1>5, <2>2, <2>4, <2>6, <2>7 DEF Span, Grown
  <2> HIDE DEF Good
  <2> QED BY <2>1, <2>8
<1>8. Len(c) \in T
  <2>1. \A i \in 0 .. Len(c) : i \in T
    <3> HIDE DEF T
    <3> QED BY <1>2, <1>6, <1>7, LoopInduction
  <2> QED BY <1>2, <2>1
<1>9. Good(Len(c))
  BY <1>8
<1> QED BY <1>4, <1>9 DEF b, ExtentTreeBatchPut, ContainerSize

\* The size of an extent is the number of its blocks.
LEMMA SpanFacts ==
  ASSUME NEW n \in Nat, NEW x \in Runs(n)
  PROVE  /\ Span(x) \subseteq 0 .. n - 1 /\ Span(x) # {}
         /\ IsFiniteSet(Span(x)) /\ Cardinality(Span(x)) = SizeOf(x)
         /\ SizeOf(x) \in Nat /\ SizeOf(x) > 0
<1>1. /\ x.start \in Nat /\ x.end \in Nat /\ x.start < x.end /\ x.end <= n
      /\ SizeOf(x) = x.end - x.start
  BY RunFacts
<1>2. /\ IsFiniteSet(x.start .. x.end - 1)
      /\ Cardinality(x.start .. x.end - 1) =
           IF x.start > x.end - 1 THEN 0 ELSE (x.end - 1) - x.start + 1
  <2>1. x.start \in Int /\ x.end - 1 \in Int
    BY <1>1
  <2> QED BY <2>1, FS_Interval
<1>3. x.start \in Span(x)
  BY <1>1 DEF Span
<1> QED BY <1>1, <1>2, <1>3 DEF Span

\* Without its extent x, or without the front of it, a tree has the rest.
Taken(n, old, y, new) ==
  /\ new \in SUBSET Runs(n) /\ Canonical(new)
  /\ Covered(new) \cap Span(y) = {}
  /\ Covered(old) = Covered(new) \cup Span(y)

\* A whole extent is taken.
LEMMA TakenWhole ==
  ASSUME NEW n \in Nat, NEW tr \in SUBSET Runs(n), Canonical(tr), NEW x \in tr
  PROVE  Taken(n, tr, x, tr \ {x})
<1>1. \A y \in tr : y = x \/ Disjoint(x, y)
  BY RunFacts DEF Canonical, Disjoint
<1>2. tr \ {x} \in SUBSET Runs(n) /\ Canonical(tr \ {x}) /\ x \in Runs(n)
  BY DEF Canonical
<1>3. Covered(tr \ {x}) \cap Span(x) = {}
  BY <1>1, <1>2, ApartFacts
<1>4. Covered(tr) = Covered(tr \ {x}) \cup Span(x)
  BY DEF Covered, Span
<1> QED BY <1>2, <1>3, <1>4 DEF Taken

\* The front of an extent is taken, the rest stays.
LEMMA TakenFront ==
  ASSUME NEW n \in Nat, NEW tr \in SUBSET Runs(n), Canonical(tr), NEW x \in tr,
         NEW k \in Nat, 0 < k, k < SizeOf(x)
  PROVE  /\ Taken(n, tr, Extent(x.start, x.start + k),
                  (tr \ {x}) \cup {Extent(x.start + k, x.end)})
         /\ Extent(x.start, x.start + k) \in Runs(n)
         /\ SizeOf(Extent(x.start, x.start + k)) = k
<1> DEFINE y == Extent(x.start, x.start + k)
           z == Extent(x.start + k, x.end)
           new == (tr \ {x}) \cup {z}
<1>T. \A v \in tr : /\ v.start \in Nat /\ v.end \in Nat /\ v.start < v.end
                    /\ v.end <= n /\ SizeOf(v) = v.end - v.start
  BY RunFacts
<1>1. /\ x.start + k \in Int /\ 0 <= x.start /\ x.start < x.start + k
      /\ x.start + k < x.end /\ x.end <= n /\ x.start \in Int /\ x.end \in Int
      /\ 0 <= x.start + k /\ x.start + k <= n
  BY <1>T
<1>2. /\ y \in Runs(n) /\ z \in Runs(n)
      /\ y.start = x.start /\ y.end = x.start + k
      /\ z.start = x.start + k /\ z.end = x.end
  BY <1>1, RunFacts
<1> HIDE DEF y, z
<1>3. SizeOf(y) = k
  BY <1>1, <1>2 DEF SizeOf
<1>4. new \in SUBSET Runs(n)
  BY <1>2
<1>5. \A v \in tr : v = x \/ x.end < v.start \/ v.end < x.start
  BY DEF Canonical
<1>6. Canonical(new)
  <2>1. \A v \in new : v = z \/ (v \in tr /\ v # x)
    OBVIOUS
  <2>2. \A v \in new : v.start < v.end
    BY <1>1, <1>2, <1>T, <2>1
  <2>3. ASSUME NEW v \in tr, v # x PROVE v.end < z.start \/ z.end < v.start
    BY <1>1, <1>2, <1>5, <1>T, <2>3
  <2>4. ASSUME NEW v \in new, NEW w \in new, v # w
        PROVE  v.end < w.start \/ w.end < v.start
    <3>1. CASE v \in tr /\ w \in tr
      BY <2>4, <3>1 DEF Canonical
    <3>2. CASE v = z
      BY <2>1, <2>3, <2>4, <3>2
    <3>3. CASE w = z
      BY <2>1, <2>3, <2>4, <3>3
    <3> QED BY <2>1, <3>1, <3>2, <3>3
  <2> QED BY <2>2, <2>4 DEF Canonical
<1>7. \A S, b : b \in Covered(S) <=> \E v \in S : b \in Span(v)
  BY DEF Covered, Span
<1>8. Span(x) = Span(y) \cup Span(z) /\ Span(y) \cap Span(z) = {}
  BY <1>1, <1>2 DEF Span
<1>9. \A v \in tr : v = x \/ Span(v) \cap Span(x) = {}
  BY <1>5, <1>T DEF Span
<1>10. Covered(new) \cap Span(y) = {}
  BY <1>7, <1>8, <1>9
<1>11. Covered(tr) = Covered(new) \cup Span(y)
  BY <1>7, <1>8
<1> HIDE DEF new
<1>12. Taken(n, tr, y, new)
  BY <1>4, <1>6, <1>10, <1>11 DEF Taken
<1> QED BY <1>2, <1>3, <1>12 DEF y, z, new

\* A container of extents apart from each other, with one more apart from them.
LEMMA ContainerAppend ==
  ASSUME NEW n \in Nat, NEW c \in Seq(Runs(n)), NEW x \in Runs(n),
         NoOverlap(c), Covered(ToSet(c)) \cap Span(x) = {}
  PROVE  /\ Append(c, x) \in Seq(Runs(n)) /\ NoOverlap(Append(c, x))
         /\ Covered(ToSet(Append(c, x))) = Covered(ToSet(c)) \cup Span(x)
         /\ ContainerSize(Append(c, x)) = ContainerSize(c) + SizeOf(x)
<1> DEFINE d == Append(c, x)
<1>1. /\ Len(c) \in Nat /\ d \in Seq(Runs(n)) /\ Len(d) = Len(c) + 1
      /\ d[Len(d)] = x /\ \A i \in 1 .. Len(c) : d[i] = c[i] /\ c[i] \in Runs(n)
      /\ DOMAIN d = 1 .. Len(d) /\ DOMAIN c = 1 .. Len(c)
  OBVIOUS
<1> HIDE DEF d
<1>2. ToSet(d) = ToSet(c) \cup {x}
  <2>1. \A i \in 1 .. Len(d) : i = Len(d) \/ i \in 1 .. Len(c)
    BY <1>1
  <2>2. Len(d) \in 1 .. Len(d) /\ \A i \in 1 .. Len(c) : i \in 1 .. Len(d)
    BY <1>1
  <2> QED BY <1>1, <2>1, <2>2 DEF ToSet
<1>3. Covered(ToSet(d)) = Covered(ToSet(c)) \cup Span(x)
  BY <1>2 DEF Covered, Span
<1>4. NoOverlap(d)
  <2>1. \A i \in 1 .. Len(c) : Disjoint(x, c[i])
    <3>1. ToSet(c) \in SUBSET Runs(n)
      BY <1>1 DEF ToSet
    <3>2. \A y \in ToSet(c) : Disjoint(x, y)
      <4>1. Span(x) \cap Covered(ToSet(c)) = {}
        OBVIOUS
      <4>2. (\A y \in ToSet(c) : Disjoint(x, y)) <=> Span(x) \cap Covered(ToSet(c)) = {}
        BY <3>1, ApartFacts
      <4> QED BY <4>1, <4>2
    <3> QED BY <1>1, <3>2 DEF ToSet
  <2>2. \A i \in 1 .. Len(d) : i = Len(d) \/ i \in 1 .. Len(c)
    BY <1>1
  <2> QED BY <1>1, <2>1, <2>2 DEF NoOverlap, Disjoint
<1>5. ContainerSize(d) = ContainerSize(c) + SizeOf(x)
  BY SizeAppend DEF d
<1> QED BY <1>1, <1>3, <1>4, <1>5 DEF d

\* While ExtentTreeGet walks: what it has taken and what is left make up the
\* tree it began with.
Walk(n) == [tree : SUBSET Runs(n), container : Seq(Runs(n)), size : Nat]
Walked(n, tr, size, st) ==
  /\ st \in Walk(n)
  /\ Canonical(st.tree) /\ NoOverlap(st.container)
  /\ Covered(st.tree) \cap Covered(ToSet(st.container)) = {}
  /\ Covered(tr) = Covered(st.tree) \cup Covered(ToSet(st.container))
  /\ size = st.size + ContainerSize(st.container)
  /\ Cardinality(Covered(tr)) =
       Cardinality(Covered(st.tree)) + ContainerSize(st.container)

\* One piece y more.
LEMMA WalkedOn ==
  ASSUME NEW n \in Nat, NEW tr \in SUBSET Runs(n), NEW size \in Nat,
         NEW st, Walked(n, tr, size, st),
         NEW y \in Runs(n), SizeOf(y) <= st.size, NEW rest, Taken(n, st.tree, y, rest),
         NEW new, new = [tree |-> rest, container |-> Append(st.container, y),
                         size |-> st.size - SizeOf(y)]
  PROVE  Walked(n, tr, size, new)
<1> DEFINE c == st.container
<1>1. /\ st.tree \in SUBSET Runs(n) /\ c \in Seq(Runs(n)) /\ st.size \in Nat
      /\ NoOverlap(c)
      /\ Covered(st.tree) \cap Covered(ToSet(c)) = {}
      /\ Covered(tr) = Covered(st.tree) \cup Covered(ToSet(c))
      /\ size = st.size + ContainerSize(c)
      /\ Cardinality(Covered(tr)) = Cardinality(Covered(st.tree)) + ContainerSize(c)
  BY DEF Walked, Walk
<1>2. /\ rest \in SUBSET Runs(n) /\ Canonical(rest)
      /\ Covered(rest) \cap Span(y) = {}
      /\ Covered(st.tree) = Covered(rest) \cup Span(y)
  BY DEF Taken
<1> HIDE DEF c
<1>3. /\ Append(c, y) \in Seq(Runs(n)) /\ NoOverlap(Append(c, y))
      /\ Covered(ToSet(Append(c, y))) = Covered(ToSet(c)) \cup Span(y)
      /\ ContainerSize(Append(c, y)) = ContainerSize(c) + SizeOf(y)
  <2>1. Covered(ToSet(c)) \cap Span(y) = {}
    BY <1>1, <1>2
  <2> QED BY <1>1, <2>1, ContainerAppend
<1>4. ContainerSize(c) \in Nat
  BY <1>1, SizeAppend
<1>5. SizeOf(y) \in Nat /\ IsFiniteSet(Span(y)) /\ Cardinality(Span(y)) = SizeOf(y)
  BY SpanFacts
<1>6. Cardinality(Covered(st.tree)) = Cardinality(Covered(rest)) + SizeOf(y)
  <2>1. IsFiniteSet(Covered(rest)) /\ Cardinality(Covered(rest)) \in Nat
    BY <1>2, CoveredFacts
  <2>2. Cardinality(Covered(rest) \cup Span(y)) =
          Cardinality(Covered(rest)) + Cardinality(Span(y))
            - Cardinality(Covered(rest) \cap Span(y))
    BY <1>5, <2>1, FS_Union
  <2>3. Cardinality(Covered(rest) \cap Span(y)) = 0
    BY <1>2, FS_EmptySet
  <2> QED BY <1>2, <1>5, <2>1, <2>2, <2>3
<1>7. /\ new.tree = rest /\ new.container = Append(c, y)
      /\ new.size = st.size - SizeOf(y) /\ new \in Walk(n)
  BY <1>1, <1>2, <1>3, <1>5 DEF c, Walk
<1>8. Cardinality(Covered(rest)) \in Nat
  BY <1>2, CoveredFacts
<1>9. Covered(new.tree) \cap Covered(ToSet(new.container)) = {}
  BY <1>1, <1>2, <1>3, <1>7
<1>10. Covered(tr) = Covered(new.tree) \cup Covered(ToSet(new.container))
  BY <1>1, <1>2, <1>3, <1>7
<1>11. ContainerSize(new.container) = ContainerSize(c) + SizeOf(y)
  BY <1>3, <1>7
<1>12. size = new.size + ContainerSize(new.container)
  <2>1. \A a, b, k \in Nat : a + b = (a - k) + (b + k)
    OBVIOUS
  <2>2. size = st.size + ContainerSize(c) /\ st.size \in Nat
    BY <1>1
  <2>3. st.size + ContainerSize(c) = (st.size - SizeOf(y)) + (ContainerSize(c) + SizeOf(y))
    BY <2>1, <2>2, <1>4, <1>5
  <2> QED BY <2>2, <2>3, <1>7, <1>11
<1>13. Cardinality(Covered(tr)) =
         Cardinality(Covered(new.tree)) + ContainerSize(new.container)
  <2>1. \A a, b, k \in Nat : (a + k) + b = a + (b + k)
    OBVIOUS
  <2>2. (Cardinality(Covered(rest)) + SizeOf(y)) + ContainerSize(c) =
          Cardinality(Covered(rest)) + (ContainerSize(c) + SizeOf(y))
    BY <2>1, <1>4, <1>5, <1>8
  <2>3. Cardinality(Covered(tr)) = Cardinality(Covered(st.tree)) + ContainerSize(c)
    BY <1>1
  <2> QED BY <2>2, <2>3, <1>6, <1>7, <1>11
<1> QED BY <1>2, <1>3, <1>7, <1>9, <1>10, <1>12, <1>13 DEF Walked

\* One pass of ExtentTreeGet.
LEMMA TakeStepFacts ==
  ASSUME NEW n \in Nat, NEW tr \in SUBSET Runs(n), NEW size \in Nat,
         NEW st, Walked(n, tr, size, st)
  PROVE  /\ Walked(n, tr, size, TakeStep(st))
         /\ st.tree = {} => TakeStep(st).tree = {}
         /\ st.size = 0 => TakeStep(st).size = 0
         /\ st.tree # {} /\ st.size # 0 => TakeStep(st).size < st.size
<1> DEFINE x == First(st.tree)
           new == TakeStep(st)
<1>1. st.tree \in SUBSET Runs(n) /\ st.size \in Nat /\ Canonical(st.tree)
  BY DEF Walked, Walk
<1>2. \/ x = NoExtent /\ st.tree = {}
      \/ x \in st.tree /\ x # NoExtent
  BY <1>1, FirstFacts
<1>3. CASE x = NoExtent \/ st.size = 0
  <2>1. new = st
    BY <1>3 DEF TakeStep
  <2> QED BY <1>2, <1>3, <2>1
<1>4. CASE x # NoExtent /\ st.size # 0
  <2>1. x \in st.tree /\ x \in Runs(n) /\ st.tree # {}
    BY <1>1, <1>2, <1>4
  <2>2. SizeOf(x) \in Nat /\ SizeOf(x) > 0
    BY <2>1, SpanFacts
  <2>3. CASE st.size >= SizeOf(x)
    <3>1. new = [tree |-> st.tree \ {x}, container |-> Append(st.container, x),
                 size |-> st.size - SizeOf(x)]
      BY <1>4, <2>3, Zenon DEF TakeStep
    <3>2. Taken(n, st.tree, x, st.tree \ {x})
      BY <1>1, <2>1, TakenWhole
    <3> HIDE DEF new, x
    <3>3. Walked(n, tr, size, new)
      BY <2>1, <2>3, <2>2, <1>1, <3>1, <3>2, WalkedOn
    <3>4. new.size < st.size
      BY <1>1, <2>2, <3>1
    <3> QED BY <2>1, <1>4, <3>3, <3>4 DEF new
  <2>4. CASE ~(st.size >= SizeOf(x))
    <3> DEFINE y == Extent(x.start, x.start + st.size)
               rest == (st.tree \ {x}) \cup {Extent(x.start + st.size, x.end)}
    <3>1. new = [tree |-> rest, container |-> Append(st.container, y), size |-> 0]
      BY <1>4, <2>4, Zenon DEF TakeStep
    <3>2. Taken(n, st.tree, y, rest) /\ y \in Runs(n) /\ SizeOf(y) = st.size
      <4> DEFINE k == st.size
                 t == st.tree
      <4>1. 0 < k /\ k < SizeOf(x) /\ k \in Nat
        BY <1>1, <1>4, <2>2, <2>4
      <4>2. t \in SUBSET Runs(n) /\ Canonical(t) /\ x \in t
        BY <1>1, <2>1
      <4> HIDE DEF k, t, x
      <4>3. /\ Taken(n, t, Extent(x.start, x.start + k),
                     (t \ {x}) \cup {Extent(x.start + k, x.end)})
            /\ Extent(x.start, x.start + k) \in Runs(n)
            /\ SizeOf(Extent(x.start, x.start + k)) = k
        BY <4>1, <4>2, TakenFront
      <4> QED BY <4>3 DEF k, t
    <3> HIDE DEF new, x, y, rest
    <3>3. new = [tree |-> rest, container |-> Append(st.container, y),
                 size |-> st.size - SizeOf(y)] /\ SizeOf(y) <= st.size
      <4>1. SizeOf(y) = st.size /\ st.size \in Nat
        BY <1>1, <3>2
      <4>2. st.size - SizeOf(y) = 0 /\ SizeOf(y) <= st.size
        BY <4>1
      <4> QED BY <3>1, <4>2
    <3>4. Walked(n, tr, size, new)
      BY <3>2, <3>3, WalkedOn
    <3>5. new.size < st.size
      BY <1>1, <1>4, <3>1
    <3> QED BY <2>1, <1>4, <3>4, <3>5 DEF new
  <2> QED BY <2>3, <2>4
<1> QED BY <1>3, <1>4

\* ExtentTreeGet before its first pass.
LEMMA WalkStarts ==
  ASSUME NEW n \in Nat, NEW tr \in SUBSET Runs(n), Canonical(tr), NEW size \in Nat
  PROVE  Walked(n, tr, size, [tree |-> tr, container |-> << >>, size |-> size])
<1> DEFINE st == [tree |-> tr, container |-> << >>, size |-> size]
           c == << >>
<1>1. c \in Seq(Runs(n)) /\ Len(c) = 0 /\ NoOverlap(c)
  BY DEF NoOverlap
<1>2. Covered(ToSet(c)) = {}
  BY DEF Covered, ToSet
<1>3. ContainerSize(c) = 0
  BY <1>1, SizeLoop DEF ContainerSize
<1>4. st.tree = tr /\ st.container = c /\ st.size = size
  OBVIOUS
<1>5. st \in Walk(n)
  BY <1>1 DEF Walk
<1>6. Cardinality(Covered(tr)) \in Nat
  BY CoveredFacts
<1> HIDE DEF c, st
<1>7. /\ size = st.size + ContainerSize(st.container)
      /\ Cardinality(Covered(tr)) =
           Cardinality(Covered(st.tree)) + ContainerSize(st.container)
  BY <1>3, <1>4, <1>6
<1>8. Walked(n, tr, size, st)
  BY <1>1, <1>2, <1>4, <1>5, <1>7 DEF Walked
<1> QED BY <1>8 DEF st, c

\* The loop of ExtentTreeGet.
LEMMA TakingLoop ==
  ASSUME NEW n \in Nat, NEW tr \in SUBSET Runs(n), Canonical(tr), NEW size \in Nat
  PROVE  /\ Taking(tr, size)[0] = [tree |-> tr, container |-> << >>, size |-> size]
         /\ \A i \in 1 .. size :
              Taking(tr, size)[i] = TakeStep(Taking(tr, size)[i - 1])
<1> DEFINE S == {st \in Walk(n) : Walked(n, tr, size, st)}
           start == [tree |-> tr, container |-> << >>, size |-> size]
           step == [i \in 1 .. size |-> [st \in S |-> TakeStep(st)]]
           Body(f) == [i \in 0 .. size |->
                         IF i = 0 THEN start ELSE TakeStep(f[i - 1])]
<1>1. \A st : st \in S <=> Walked(n, tr, size, st)
  BY DEF Walked
<1>2. start \in S
  BY <1>1, WalkStarts
<1>3. \A st \in S : TakeStep(st) \in S
  <2> TAKE st \in S
  <2>1. Walked(n, tr, size, st)
    BY <1>1
  <2>2. Walked(n, tr, size, TakeStep(st))
    BY <2>1, TakeStepFacts
  <2> QED BY <1>1, <2>2
<1> HIDE DEF S, start
<1>4. step \in [1 .. size -> [S -> S]]
  BY <1>3
<1>5. PICK f : Course(S, size, start, step, f)
  <2> HIDE DEF step
  <2> QED BY <1>2, <1>4, LoopExists
<1>6. f = Body(f)
  <2>1. \A i \in 1 .. size : f[i] = TakeStep(f[i - 1])
    <3> TAKE i \in 1 .. size
    <3>1. f[i - 1] \in S /\ f[i] = step[i][f[i - 1]]
      <4>1. i - 1 \in 0 .. size
        OBVIOUS
      <4> HIDE DEF step
      <4> QED BY <1>5, <4>1 DEF Course
    <3> QED BY <3>1
  <2>2. \A i \in 0 .. size : i = 0 \/ i \in 1 .. size
    OBVIOUS
  <2> QED BY <1>5, <2>1, <2>2 DEF Course
<1>7. Taking(tr, size) = CHOOSE g : g = Body(g)
  BY Zenon DEF Taking, start
<1> DEFINE g == Taking(tr, size)
<1>8. g = Body(g)
  <2> HIDE DEF Body
  <2> QED BY <1>6, <1>7
<1> HIDE DEF g
<1>9. g[0] = start /\ \A i \in 1 .. size : g[i] = TakeStep(g[i - 1])
  BY <1>8
<1> QED BY <1>9 DEF g, start

\* ExtentTreeGet parts a tree into what it gives and what it leaves, and
\* falls short only when it has emptied the tree.
THEOREM GetFacts ==
  ASSUME NEW n \in Nat, NEW tr \in SUBSET Runs(n), Canonical(tr), NEW size \in Nat
  PROVE  /\ Walked(n, tr, size, ExtentTreeGet(tr, size))
         /\ ExtentTreeGet(tr, size).size = 0 \/ ExtentTreeGet(tr, size).tree = {}
<1> DEFINE g == Taking(tr, size)
           Good(i) == /\ Walked(n, tr, size, g[i])
                      /\ g[i].tree = {} \/ g[i].size <= size - i
           T == {i \in 0 .. size : Good(i)}
<1>1. /\ g[0] = [tree |-> tr, container |-> << >>, size |-> size]
      /\ \A i \in 1 .. size : g[i] = TakeStep(g[i - 1])
  BY TakingLoop
<1> HIDE DEF g
<1>2. 0 \in T
  <2>1. Walked(n, tr, size, g[0])
    BY <1>1, WalkStarts
  <2>2. g[0].size = size
    BY <1>1
  <2>3. g[0].size <= size - 0
    BY <2>2
  <2> QED BY <2>1, <2>3
<1>3. ASSUME NEW i \in 0 .. size - 1, i \in T PROVE i + 1 \in T
  <2>1. Walked(n, tr, size, g[i]) /\ (g[i].tree = {} \/ g[i].size <= size - i)
    BY <1>3
  <2>2. g[i + 1] = TakeStep(g[i])
    <3>1. i + 1 \in 1 .. size /\ (i + 1) - 1 = i
      OBVIOUS
    <3> QED BY <1>1, <3>1
  <2>3. /\ Walked(n, tr, size, g[i + 1])
        /\ g[i].tree = {} => g[i + 1].tree = {}
        /\ g[i].size = 0 => g[i + 1].size = 0
        /\ g[i].tree # {} /\ g[i].size # 0 => g[i + 1].size < g[i].size
    <3> DEFINE st == g[i]
    <3>1. Walked(n, tr, size, st)
      BY <2>1
    <3> HIDE DEF st
    <3>2. /\ Walked(n, tr, size, TakeStep(st))
          /\ st.tree = {} => TakeStep(st).tree = {}
          /\ st.size = 0 => TakeStep(st).size = 0
          /\ st.tree # {} /\ st.size # 0 => TakeStep(st).size < st.size
      BY <3>1, TakeStepFacts
    <3> QED BY <2>2, <3>2 DEF st
  <2>4. g[i].size \in Nat /\ g[i + 1].size \in Nat
    BY <2>1, <2>3 DEF Walked, Walk
  <2>5. g[i + 1].tree = {} \/ g[i + 1].size <= size - (i + 1)
    BY <2>1, <2>3, <2>4
  <2>6. i + 1 \in 0 .. size
    OBVIOUS
  <2> QED BY <2>3, <2>5, <2>6
<1>4. size \in T
  <2>1. \A i \in 0 .. size : i \in T
    <3> HIDE DEF T
    <3> QED BY <1>2, <1>3, LoopInduction
  <2> QED BY <2>1
<1>5. Walked(n, tr, size, g[size]) /\ (g[size].tree = {} \/ g[size].size <= size - size)
  BY <1>4
<1>6. g[size].size \in Nat
  BY <1>5 DEF Walked, Walk
<1>7. g[size].tree = {} \/ g[size].size = 0
  BY <1>5, <1>6
<1> QED BY <1>5, <1>7 DEF g, ExtentTreeGet

\* The blocks of an extent in order.
LEMMA RunOfFacts ==
  ASSUME NEW n \in Nat, NEW x \in Runs(n)
  PROVE  /\ RunOf(x) \in Seq(0 .. n - 1) /\ Len(RunOf(x)) = SizeOf(x)
         /\ ToSet(RunOf(x)) = Span(x) /\ IsInjective(RunOf(x))
<1> DEFINE r == RunOf(x)
           m == SizeOf(x)
<1>1. /\ x.start \in Nat /\ x.end \in Nat /\ x.start < x.end /\ x.end <= n
      /\ m = x.end - x.start /\ m \in Nat
  BY RunFacts
<1> HIDE DEF m
<1>2. r = [k \in 1 .. m |-> x.start + k - 1]
  BY DEF RunOf, m
<1> HIDE DEF r
<1>3. \A k \in 1 .. m : r[k] = x.start + k - 1 /\ r[k] \in 0 .. n - 1
  BY <1>1, <1>2
<1>4. r \in Seq(0 .. n - 1) /\ Len(r) = m /\ DOMAIN r = 1 .. m
  <2>1. r \in [1 .. m -> 0 .. n - 1]
    BY <1>2, <1>3
  <2>2. DOMAIN r = 1 .. m
    BY <1>2
  <2>3. r \in Seq(0 .. n - 1)
    BY <1>1, <2>1
  <2>4. Len(r) = m
    BY <1>1, <2>2, <2>3
  <2> QED BY <2>2, <2>3, <2>4
<1>5. ToSet(r) = Span(x)
  <2>1. \A k \in 1 .. m : r[k] \in Span(x)
    BY <1>1, <1>3 DEF Span
  <2>2. ASSUME NEW b \in Span(x) PROVE \E k \in 1 .. m : r[k] = b
    <3>1. b - x.start + 1 \in 1 .. m /\ x.start + (b - x.start + 1) - 1 = b
      BY <1>1 DEF Span
    <3> QED BY <1>3, <3>1
  <2> QED BY <1>4, <2>1, <2>2 DEF ToSet
<1>6. IsInjective(r)
  BY <1>1, <1>3, <1>4 DEF IsInjective
<1> QED BY <1>4, <1>5, <1>6 DEF r, m

\* The double loop over the extents of a container.
LEMMA UnrollingLoop ==
  ASSUME NEW n \in Nat, NEW c \in Seq(Runs(n))
  PROVE  /\ Unrolling(c)[0] = << >>
         /\ \A i \in 1 .. Len(c) : Unrolling(c)[i] = Unrolling(c)[i - 1] \o RunOf(c[i])
<1> DEFINE S == Seq(0 .. n - 1)
           step == [i \in 1 .. Len(c) |-> [s \in S |-> s \o RunOf(c[i])]]
           Body(f) == [i \in 0 .. Len(c) |->
                         IF i = 0 THEN << >> ELSE f[i - 1] \o RunOf(c[i])]
<1>1. Len(c) \in Nat
  OBVIOUS
<1>2. \A i \in 1 .. Len(c) : RunOf(c[i]) \in S
  <2> TAKE i \in 1 .. Len(c)
  <2>1. c[i] \in Runs(n)
    OBVIOUS
  <2> QED BY <2>1, RunOfFacts
<1>3. << >> \in S /\ step \in [1 .. Len(c) -> [S -> S]]
  <2>1. \A s, t \in S : s \o t \in S
    OBVIOUS
  <2>2. << >> \in S
    OBVIOUS
  <2> HIDE DEF S
  <2> QED BY <1>2, <2>1, <2>2
<1> HIDE DEF S
<1>4. PICK f : Course(S, Len(c), << >>, step, f)
  <2> HIDE DEF step
  <2> QED BY <1>1, <1>3, LoopExists
<1>5. f = Body(f)
  <2>1. \A i \in 1 .. Len(c) : f[i] = f[i - 1] \o RunOf(c[i])
    <3> TAKE i \in 1 .. Len(c)
    <3>1. f[i - 1] \in S /\ f[i] = step[i][f[i - 1]]
      <4>1. i - 1 \in 0 .. Len(c)
        BY <1>1
      <4> HIDE DEF step
      <4> QED BY <1>4, <4>1 DEF Course
    <3> QED BY <3>1
  <2>2. \A i \in 0 .. Len(c) : i = 0 \/ i \in 1 .. Len(c)
    BY <1>1
  <2> QED BY <1>4, <2>1, <2>2 DEF Course
<1>6. Unrolling(c) = CHOOSE g : g = Body(g)
  BY Zenon DEF Unrolling
<1> DEFINE g == Unrolling(c)
<1>7. g = Body(g)
  <2> HIDE DEF Body
  <2> QED BY <1>5, <1>6
<1> HIDE DEF g
<1>8. g[0] = << >> /\ \A i \in 1 .. Len(c) : g[i] = g[i - 1] \o RunOf(c[i])
  BY <1>1, <1>7
<1> QED BY <1>8 DEF g

\* A sequence that names each of a set of blocks once.
Enumerates(n, s, blocks, size) ==
  /\ s \in Seq(0 .. n - 1) /\ IsInjective(s)
  /\ ToSet(s) = blocks /\ Len(s) = size

\* Unrolled names each block of a container once.
LEMMA UnrolledFacts ==
  ASSUME NEW n \in Nat, NEW c \in Seq(Runs(n)), NoOverlap(c)
  PROVE  Enumerates(n, Unrolled(c), Covered(ToSet(c)), ContainerSize(c))
<1> DEFINE g == Unrolling(c)
           Good(i) == Enumerates(n, g[i], Covered(FirstOf(c, i)), SizeUpTo(c)[i])
           T == {i \in 0 .. Len(c) : Good(i)}
<1>1. /\ g[0] = << >>
      /\ \A i \in 1 .. Len(c) : g[i] = g[i - 1] \o RunOf(c[i])
  BY UnrollingLoop
<1> HIDE DEF g
<1>2. Len(c) \in Nat /\ \A i \in 1 .. Len(c) : c[i] \in Runs(n)
  OBVIOUS
<1>3. /\ SizeUpTo(c)[0] = 0
      /\ \A i \in 1 .. Len(c) : SizeUpTo(c)[i] = SizeUpTo(c)[i - 1] + SizeOf(c[i])
  BY SizeLoop
<1>4. /\ Covered(FirstOf(c, 0)) = {}
      /\ \A i \in 1 .. Len(c) :
           /\ Covered(FirstOf(c, i)) = Covered(FirstOf(c, i - 1)) \cup Span(c[i])
           /\ Span(c[i]) \cap Covered(FirstOf(c, i - 1)) = {}
      /\ FirstOf(c, Len(c)) = ToSet(c)
  BY FirstOfFacts
<1>5. 0 \in T
  <2>1. << >> \in Seq(0 .. n - 1) /\ IsInjective(<< >>) /\ ToSet(<< >>) = {} /\ Len(<< >>) = 0
    BY DEF IsInjective, ToSet
  <2>2. Good(0)
    BY <1>1, <1>3, <1>4, <2>1 DEF Enumerates
  <2> HIDE DEF Good
  <2> QED BY <1>2, <2>2
<1>6. ASSUME NEW i \in 0 .. Len(c) - 1, i \in T PROVE i + 1 \in T
  <2>1. i + 1 \in 1 .. Len(c) /\ (i + 1) - 1 = i /\ i + 1 \in 0 .. Len(c)
    BY <1>2
  <2>2. Good(i)
    BY <1>6
  <2> DEFINE x == c[i + 1]
             s == g[i]
  <2>3. /\ s \in Seq(0 .. n - 1) /\ IsInjective(s) /\ ToSet(s) = Covered(FirstOf(c, i))
        /\ Len(s) = SizeUpTo(c)[i]
    BY <2>2 DEF Enumerates
  <2>4. /\ x \in Runs(n)
        /\ g[i + 1] = s \o RunOf(x)
        /\ SizeUpTo(c)[i + 1] = SizeUpTo(c)[i] + SizeOf(x)
        /\ Covered(FirstOf(c, i + 1)) = Covered(FirstOf(c, i)) \cup Span(x)
        /\ Span(x) \cap Covered(FirstOf(c, i)) = {}
    BY <1>1, <1>2, <1>3, <1>4, <2>1
  <2> HIDE DEF x, s
  <2>5. /\ RunOf(x) \in Seq(0 .. n - 1) /\ Len(RunOf(x)) = SizeOf(x)
        /\ ToSet(RunOf(x)) = Span(x) /\ IsInjective(RunOf(x))
    BY <2>4, RunOfFacts
  <2>6. ToSet(s) \cap ToSet(RunOf(x)) = {}
    BY <2>3, <2>4, <2>5
  <2>7. /\ s \o RunOf(x) \in Seq(0 .. n - 1)
        /\ Len(s \o RunOf(x)) = Len(s) + Len(RunOf(x))
        /\ ToSet(s \o RunOf(x)) = ToSet(s) \cup ToSet(RunOf(x))
        /\ IsInjective(s \o RunOf(x))
    <3> DEFINE r == RunOf(x)
               D == 0 .. n - 1
    <3>1. s \in Seq(D) /\ r \in Seq(D) /\ ToSet(s) \cap ToSet(r) = {}
      BY <2>3, <2>5, <2>6
    <3>2. IsInjective(s) /\ IsInjective(r)
      BY <2>3, <2>5
    <3> HIDE DEF r, D
    <3>3. /\ s \o r \in Seq(D) /\ Len(s \o r) = Len(s) + Len(r)
          /\ ToSet(s \o r) = ToSet(s) \cup ToSet(r)
          /\ IsInjective(s) /\ IsInjective(r) /\ ToSet(s) \cap ToSet(r) = {}
               => IsInjective(s \o r)
      BY <3>1, ConcatFacts
    <3> QED BY <3>1, <3>2, <3>3 DEF r, D
  <2>8. Good(i + 1)
    <3> DEFINE u == s \o RunOf(x)
    <3>1. Len(u) = SizeUpTo(c)[i + 1]
      BY <2>3, <2>4, <2>5, <2>7
    <3>2. ToSet(u) = Covered(FirstOf(c, i + 1))
      BY <2>3, <2>4, <2>5, <2>7
    <3>3. u \in Seq(0 .. n - 1) /\ IsInjective(u) /\ g[i + 1] = u
      BY <2>4, <2>7
    <3> HIDE DEF u
    <3> QED BY <3>1, <3>2, <3>3 DEF Enumerates
  <2> HIDE DEF Good
  <2> QED BY <2>1, <2>8
<1>7. Len(c) \in T
  <2>1. \A i \in 0 .. Len(c) : i \in T
    <3> HIDE DEF T
    <3> QED BY <1>2, <1>5, <1>6, LoopInduction
  <2> QED BY <1>2, <2>1
<1>8. Good(Len(c))
  BY <1>7
<1> QED BY <1>4, <1>8 DEF g, Unrolled, ContainerSize

\* While ExtentTreeReverseHolesAndExtents walks: below lastHole the new tree
\* has what the old one has not, from lastHole on nothing is done yet.
Turning(n) == [tree : SUBSET Runs(n), new : SUBSET Runs(n), lastHole : 0 .. n]
Turned(n, tr, st) ==
  /\ st \in Turning(n)
  /\ Canonical(st.tree) /\ Canonical(st.new)
  /\ Covered(st.new) = (0 .. st.lastHole - 1) \ Covered(tr)
  /\ Covered(st.tree) = Covered(tr) \ (0 .. st.lastHole - 1)

\* The hole from lastHole to an extent's start is put.
LEMMA HolePut ==
  ASSUME NEW n \in Nat, NEW new \in SUBSET Runs(n), Canonical(new),
         NEW lo \in 0 .. n, NEW hi \in 0 .. n, lo < hi,
         Covered(new) \subseteq 0 .. lo - 1
  PROVE  /\ ExtentTreePut(new, lo, hi) \in SUBSET Runs(n)
         /\ Canonical(ExtentTreePut(new, lo, hi))
         /\ Covered(ExtentTreePut(new, lo, hi)) = Covered(new) \cup (lo .. hi - 1)
<1> DEFINE h == Extent(lo, hi)
<1>1. h \in Runs(n) /\ h.start = lo /\ h.end = hi
  BY RunFacts
<1> HIDE DEF h
<1>2. Span(h) \cap Covered(new) = {}
  BY <1>1 DEF Span
<1>3. \A y \in new : Disjoint(h, y)
  BY <1>1, <1>2, ApartFacts
<1>4. Grown(n, new, h.start .. h.end - 1, SizeOf(h), ExtentTreePut(new, h.start, h.end))
  BY <1>1, <1>3, TreePutFacts
<1> QED BY <1>1, <1>4 DEF Grown

\* One pass.
LEMMA ReverseStepFacts ==
  ASSUME NEW n \in Nat, NEW tr \in SUBSET Runs(n), NEW st, Turned(n, tr, st)
  PROVE  /\ Turned(n, tr, ReverseStep(st))
         /\ st.tree = {} => ReverseStep(st).tree = {}
         /\ st.tree # {} => ReverseStep(st).lastHole > st.lastHole
<1> DEFINE x == First(st.tree)
           L == st.lastHole
           res == ReverseStep(st)
           put == IF L < x.start THEN ExtentTreePut(st.new, L, x.start) ELSE st.new
<1>1. /\ st.tree \in SUBSET Runs(n) /\ st.new \in SUBSET Runs(n) /\ L \in 0 .. n
      /\ Canonical(st.tree) /\ Canonical(st.new)
      /\ Covered(st.new) = (0 .. L - 1) \ Covered(tr)
      /\ Covered(st.tree) = Covered(tr) \ (0 .. L - 1)
  BY DEF Turned, Turning
<1>2. \/ x = NoExtent /\ st.tree = {}
      \/ /\ x \in st.tree /\ x # NoExtent
         /\ \A y \in st.tree : x.start <= y.start
  BY <1>1, FirstFacts
<1>3. CASE x = NoExtent
  <2>1. res = st
    BY <1>3 DEF ReverseStep
  <2> QED BY <1>2, <1>3, <2>1
<1>4. CASE x # NoExtent
  <2>1. /\ x \in st.tree /\ x \in Runs(n) /\ st.tree # {}
        /\ \A y \in st.tree : x.start <= y.start
    BY <1>1, <1>2, <1>4
  <2>2. res = [tree |-> st.tree \ {x}, new |-> put, lastHole |-> x.end]
    BY <1>4, Zenon DEF ReverseStep
  <2>3. x.start \in Nat /\ x.end \in Nat /\ x.start < x.end /\ x.end <= n
    BY <2>1, RunFacts
  <2> HIDE DEF x, L, res
  <2>4. \A b \in Covered(st.tree) : b \in Int /\ x.start <= b
    <3>1. \A b \in Covered(st.tree) :
            b \in Int /\ \E y \in st.tree : y.start <= b /\ b < y.end
      BY <1>1, CoveredFacts
    <3>2. \A y \in st.tree : y.start \in Nat
      BY <1>1, RunFacts
    <3> QED BY <2>1, <2>3, <3>1, <3>2
  <2>5. Span(x) \subseteq Covered(st.tree)
    BY <2>1 DEF Covered, Span
  <2>6. L <= x.start
    <3>1. x.start \in Span(x)
      BY <2>3 DEF Span
    <3> QED BY <1>1, <2>3, <2>5, <3>1
  <2>7. Taken(n, st.tree, x, st.tree \ {x})
    BY <1>1, <2>1, TakenWhole
  <2>8. \A b \in Int : /\ L <= b /\ b < x.start => b \notin Covered(tr)
                       /\ x.start <= b /\ b < x.end => b \in Covered(tr)
    BY <1>1, <2>3, <2>4, <2>5 DEF Span
  <2>9. /\ put \in SUBSET Runs(n) /\ Canonical(put)
        /\ Covered(put) = Covered(st.new) \cup (L .. x.start - 1)
    <3>1. CASE L < x.start
      <4>1. Covered(st.new) \subseteq 0 .. L - 1 /\ x.start \in 0 .. n
        BY <1>1, <2>3
      <4> DEFINE new == st.new
                 hi == x.start
      <4>2. new \in SUBSET Runs(n) /\ Canonical(new) /\ L \in 0 .. n /\ hi \in 0 .. n
            /\ L < hi /\ Covered(new) \subseteq 0 .. L - 1
        BY <1>1, <3>1, <4>1
      <4> HIDE DEF new, hi
      <4>3. /\ ExtentTreePut(new, L, hi) \in SUBSET Runs(n)
            /\ Canonical(ExtentTreePut(new, L, hi))
            /\ Covered(ExtentTreePut(new, L, hi)) = Covered(new) \cup (L .. hi - 1)
        BY <4>2, HolePut
      <4> QED BY <3>1, <4>3 DEF new, hi
    <3>2. CASE ~(L < x.start)
      <4>1. L .. x.start - 1 = {} /\ put = st.new
        BY <1>1, <2>3, <3>2
      <4> QED BY <1>1, <4>1
    <3> QED BY <3>1, <3>2
  <2> HIDE DEF put
  <2>10. res.tree = st.tree \ {x} /\ res.new = put /\ res.lastHole = x.end
    BY <2>2
  <2>11. res \in Turning(n) /\ Canonical(res.tree) /\ Canonical(res.new)
    <3>1. st.tree \ {x} \in SUBSET Runs(n) /\ Canonical(st.tree \ {x})
      BY <2>7 DEF Taken
    <3>2. x.end \in 0 .. n
      BY <2>3
    <3> QED BY <2>2, <2>9, <2>10, <3>1, <3>2 DEF Turning
  <2>12. Covered(put) = (0 .. x.end - 1) \ Covered(tr)
    <3>1. \A b \in Int : /\ b \in Covered(st.new) <=> 0 <= b /\ b < L /\ b \notin Covered(tr)
                         /\ b \in L .. x.start - 1 <=> L <= b /\ b < x.start
      BY <1>1, <2>3
    <3>2. \A b \in Int : b \in Covered(put) <=> b \in (0 .. x.end - 1) \ Covered(tr)
      BY <1>1, <2>3, <2>6, <2>8, <2>9, <3>1
    <3>3. \A b : b \in Covered(put) => b \in Int
      BY <2>9, CoveredFacts
    <3> QED BY <3>2, <3>3
  <2>13. Covered(st.tree \ {x}) = Covered(tr) \ (0 .. x.end - 1)
    <3> DEFINE R == Covered(st.tree \ {x})
    <3>1. R \cap Span(x) = {} /\ Covered(st.tree) = R \cup Span(x)
      BY <2>7 DEF Taken
    <3> HIDE DEF R
    <3>2. \A b : b \in R <=> b \in Covered(st.tree) /\ b \notin Span(x)
      BY <3>1
    <3>3. \A b \in Covered(st.tree) : b \in Span(x) <=> b < x.end
      BY <2>3, <2>4 DEF Span
    <3>4. \A b \in Covered(tr) : b \in Nat
      BY CoveredFacts
    <3>5. ASSUME NEW b \in Covered(tr) PROVE b \in R <=> b \notin 0 .. x.end - 1
      BY <1>1, <2>3, <2>4, <2>6, <3>2, <3>3, <3>4
    <3>6. R \subseteq Covered(tr)
      BY <1>1, <3>2
    <3> QED BY <3>5, <3>6 DEF R
  <2>14. Turned(n, tr, res)
    BY <2>10, <2>11, <2>12, <2>13 DEF Turned
  <2>15. res.lastHole > L
    BY <1>1, <2>3, <2>6, <2>10
  <2> QED BY <2>1, <2>14, <2>15 DEF res, L
<1> QED BY <1>3, <1>4

\* The loop of ExtentTreeReverseHolesAndExtents.
LEMMA ReversingLoop ==
  ASSUME NEW n \in Nat, NEW tr \in SUBSET Runs(n), Canonical(tr)
  PROVE  /\ Reversing(tr, n)[0] = [tree |-> tr, new |-> {}, lastHole |-> 0]
         /\ Turned(n, tr, Reversing(tr, n)[0])
         /\ \A i \in 1 .. n : Reversing(tr, n)[i] = ReverseStep(Reversing(tr, n)[i - 1])
<1> DEFINE S == {st \in Turning(n) : Turned(n, tr, st)}
           start == [tree |-> tr, new |-> {}, lastHole |-> 0]
           step == [i \in 1 .. n |-> [st \in S |-> ReverseStep(st)]]
           Body(f) == [i \in 0 .. n |->
                         IF i = 0 THEN start ELSE ReverseStep(f[i - 1])]
<1>1. \A st : st \in S <=> Turned(n, tr, st)
  BY DEF Turned
<1>2. Turned(n, tr, start)
  <2>1. Covered({}) = {} /\ Canonical({})
    BY DEF Covered, Canonical
  <2>2. 0 .. 0 - 1 = {}
    OBVIOUS
  <2>3. start \in Turning(n) /\ start.tree = tr /\ start.new = {} /\ start.lastHole = 0
    BY DEF Turning
  <2> HIDE DEF start
  <2> QED BY <2>1, <2>2, <2>3 DEF Turned
<1>3. \A st \in S : ReverseStep(st) \in S
  <2> TAKE st \in S
  <2>1. Turned(n, tr, st)
    BY <1>1
  <2>2. Turned(n, tr, ReverseStep(st))
    BY <2>1, ReverseStepFacts
  <2> QED BY <1>1, <2>2
<1>0. start \in S
  BY <1>1, <1>2
<1> HIDE DEF S, start
<1>4. step \in [1 .. n -> [S -> S]]
  BY <1>3
<1>5. PICK f : Course(S, n, start, step, f)
  <2> HIDE DEF step
  <2> QED BY <1>0, <1>4, LoopExists
<1>6. f = Body(f)
  <2>1. \A i \in 1 .. n : f[i] = ReverseStep(f[i - 1])
    <3> TAKE i \in 1 .. n
    <3>1. f[i - 1] \in S /\ f[i] = step[i][f[i - 1]]
      <4>1. i - 1 \in 0 .. n
        OBVIOUS
      <4> HIDE DEF step
      <4> QED BY <1>5, <4>1 DEF Course
    <3> QED BY <3>1
  <2>2. \A i \in 0 .. n : i = 0 \/ i \in 1 .. n
    OBVIOUS
  <2> QED BY <1>5, <2>1, <2>2 DEF Course
<1>7. Reversing(tr, n) = CHOOSE g : g = Body(g)
  BY Zenon DEF Reversing, start
<1> DEFINE g == Reversing(tr, n)
<1>8. g = Body(g)
  <2> HIDE DEF Body
  <2> QED BY <1>6, <1>7
<1> HIDE DEF g
<1>9. g[0] = start /\ \A i \in 1 .. n : g[i] = ReverseStep(g[i - 1])
  BY <1>8
<1> QED BY <1>2, <1>9 DEF g, start

\* The extents of the new tree are the holes of the old one.
THEOREM ReverseFacts ==
  ASSUME NEW n \in Nat, NEW tr \in SUBSET Runs(n), Canonical(tr)
  PROVE  LET new == ExtentTreeReverseHolesAndExtents(tr, n)
         IN  /\ new \in SUBSET Runs(n) /\ Canonical(new)
             /\ Covered(new) = (0 .. n - 1) \ Covered(tr)
<1> DEFINE g == Reversing(tr, n)
           Good(i) == /\ Turned(n, tr, g[i])
                      /\ g[i].tree = {} \/ g[i].lastHole >= i
           T == {i \in 0 .. n : Good(i)}
<1>1. /\ g[0] = [tree |-> tr, new |-> {}, lastHole |-> 0]
      /\ Turned(n, tr, g[0])
      /\ \A i \in 1 .. n : g[i] = ReverseStep(g[i - 1])
  BY ReversingLoop
<1> HIDE DEF g
<1>2. 0 \in T
  <2>1. g[0].lastHole = 0
    BY <1>1
  <2>2. g[0].lastHole >= 0
    BY <2>1
  <2> QED BY <1>1, <2>2
<1>3. ASSUME NEW i \in 0 .. n - 1, i \in T PROVE i + 1 \in T
  <2>1. Turned(n, tr, g[i]) /\ (g[i].tree = {} \/ g[i].lastHole >= i)
    BY <1>3
  <2>2. g[i + 1] = ReverseStep(g[i])
    <3>1. i + 1 \in 1 .. n /\ (i + 1) - 1 = i
      OBVIOUS
    <3> QED BY <1>1, <3>1
  <2>3. /\ Turned(n, tr, g[i + 1])
        /\ g[i].tree = {} => g[i + 1].tree = {}
        /\ g[i].tree # {} => g[i + 1].lastHole > g[i].lastHole
    <3> DEFINE st == g[i]
    <3>1. Turned(n, tr, st)
      BY <2>1
    <3> HIDE DEF st
    <3>2. /\ Turned(n, tr, ReverseStep(st))
          /\ st.tree = {} => ReverseStep(st).tree = {}
          /\ st.tree # {} => ReverseStep(st).lastHole > st.lastHole
      BY <3>1, ReverseStepFacts
    <3> QED BY <2>2, <3>2 DEF st
  <2>4. g[i].lastHole \in Nat /\ g[i + 1].lastHole \in Nat
    BY <2>1, <2>3 DEF Turned, Turning
  <2>5. g[i + 1].tree = {} \/ g[i + 1].lastHole >= i + 1
    BY <2>1, <2>3, <2>4
  <2>6. i + 1 \in 0 .. n
    OBVIOUS
  <2> QED BY <2>3, <2>5, <2>6
<1>4. n \in T
  <2>1. \A i \in 0 .. n : i \in T
    <3> HIDE DEF T
    <3> QED BY <1>2, <1>3, LoopInduction
  <2> QED BY <2>1
<1> DEFINE walk == g[n]
<1>5. Turned(n, tr, walk) /\ (walk.tree = {} \/ walk.lastHole >= n)
  BY <1>4
<1>6. ExtentTreeReverseHolesAndExtents(tr, n) =
        IF walk.lastHole # n THEN ExtentTreePut(walk.new, walk.lastHole, n) ELSE walk.new
  BY DEF ExtentTreeReverseHolesAndExtents, g
<1> DEFINE L == walk.lastHole
           new == walk.new
<1>7. /\ new \in SUBSET Runs(n) /\ Canonical(new) /\ L \in 0 .. n
      /\ Covered(new) = (0 .. L - 1) \ Covered(tr)
      /\ Covered(walk.tree) = Covered(tr) \ (0 .. L - 1)
  <2> HIDE DEF walk
  <2> QED BY <1>5 DEF Turned, Turning
<1>8. walk.tree = {} \/ L >= n
  BY <1>5
<1> HIDE DEF L, new
<1>9. Covered(tr) \subseteq 0 .. L - 1
  <2>1. CASE walk.tree = {}
    <3>1. Covered(walk.tree) = {}
      BY <2>1 DEF Covered
    <3> QED BY <1>7, <3>1
  <2>2. CASE L >= n
    <3>1. L = n
      BY <1>7, <2>2
    <3> QED BY <3>1, CoveredFacts
  <2> QED BY <1>8, <2>1, <2>2
<1>10. CASE L # n
  <2>1. L < n /\ n \in 0 .. n /\ Covered(new) \subseteq 0 .. L - 1
    BY <1>7, <1>10
  <2> DEFINE r == ExtentTreePut(new, L, n)
  <2>2. r \in SUBSET Runs(n) /\ Canonical(r) /\ Covered(r) = Covered(new) \cup (L .. n - 1)
    BY <1>7, <2>1, HolePut
  <2> HIDE DEF r
  <2>3. Covered(r) = (0 .. n - 1) \ Covered(tr)
    BY <1>7, <1>9, <2>1, <2>2
  <2> QED BY <1>6, <1>10, <2>2, <2>3 DEF r, L, new
<1>11. CASE L = n
  BY <1>6, <1>7, <1>11 DEF L, new
<1> QED BY <1>10, <1>11
=============================================================================
