-------------------------- MODULE BlockPoolProofs --------------------------
(***************************************************************************)
(* Proofs about BlockPool and the extent tree below it, for every number   *)
(* of blocks, size of the cache, sizes asked for and number of operations. *)
(*                                                                         *)
(* What the operations of ExtentTree.c compute is in SharedLemmas.  Here   *)
(* is the pool: one lemma on each operation for the state it leaves, and   *)
(* the inductive invariant IInv.                                           *)
(***************************************************************************)
EXTENDS BlockPool, SharedLemmas

-----------------------------------------------------------------------------
\* BlockPool.c.

\* Single blocks as a container of extents.
LEMMA SinglesFacts ==
  ASSUME NEW n \in Nat, NEW s \in Seq(0 .. n - 1), IsInjective(s)
  PROVE  /\ Singles(s) \in Seq(Runs(n)) /\ Len(Singles(s)) = Len(s)
         /\ NoOverlap(Singles(s))
         /\ Covered(ToSet(Singles(s))) = ToSet(s)
         /\ ContainerSize(Singles(s)) = Len(s)
         /\ ToSet(Singles(s)) = {Single(b) : b \in ToSet(s)}
<1> DEFINE c == Singles(s)
<1>1. /\ Len(s) \in Nat /\ DOMAIN s = 1 .. Len(s)
      /\ \A i \in 1 .. Len(s) : s[i] \in 0 .. n - 1
  OBVIOUS
<1>2. \A b \in 0 .. n - 1 : /\ Single(b) \in Runs(n) /\ Single(b).start = b
                            /\ Single(b).end = b + 1 /\ SizeOf(Single(b)) = 1
                            /\ Span(Single(b)) = {b}
  <2> TAKE b \in 0 .. n - 1
  <2>1. b \in Int /\ b + 1 \in Int /\ 0 <= b /\ b < b + 1 /\ b + 1 <= n
    OBVIOUS
  <2>2. Single(b) \in Runs(n) /\ Single(b).start = b /\ Single(b).end = b + 1
    BY <2>1, RunFacts DEF Single
  <2>3. SizeOf(Single(b)) = 1
    BY <2>1, <2>2 DEF SizeOf
  <2>4. Span(Single(b)) = {b}
    BY <2>1, <2>2 DEF Span
  <2> QED BY <2>2, <2>3, <2>4
<1>3. c = [i \in 1 .. Len(s) |-> Single(s[i])]
  BY <1>1 DEF Singles
<1> HIDE DEF c
<1>4. c \in Seq(Runs(n)) /\ Len(c) = Len(s) /\ DOMAIN c = 1 .. Len(s)
      /\ \A i \in 1 .. Len(s) : c[i] = Single(s[i])
  BY <1>1, <1>2, <1>3
<1>5. NoOverlap(c)
  <2> SUFFICES ASSUME NEW i \in 1 .. Len(s), NEW j \in 1 .. Len(s), i # j
               PROVE  Disjoint(c[i], c[j])
    BY <1>4 DEF NoOverlap
  <2>1. s[i] # s[j]
    BY <1>1 DEF IsInjective
  <2>2. /\ s[i] \in Int /\ c[i].start = s[i] /\ c[i].end = s[i] + 1
        /\ s[j] \in Int /\ c[j].start = s[j] /\ c[j].end = s[j] + 1
    <3>1. \A k \in 1 .. Len(s) : s[k] \in 0 .. n - 1 /\ c[k] = Single(s[k])
      BY <1>1, <1>4
    <3>2. \A k \in 1 .. Len(s) : /\ s[k] \in Int
                                 /\ c[k].start = s[k] /\ c[k].end = s[k] + 1
      <4> TAKE k \in 1 .. Len(s)
      <4> DEFINE b == s[k]
      <4>1. b \in 0 .. n - 1 /\ c[k] = Single(b)
        BY <3>1
      <4> HIDE DEF b
      <4>2. b \in Int /\ c[k].start = b /\ c[k].end = b + 1
        BY <4>1, <1>2
      <4> QED BY <4>2 DEF b
    <3> QED BY <3>2
  <2>3. s[i] + 1 <= s[j] \/ s[j] + 1 <= s[i]
    BY <2>1, <2>2
  <2> QED BY <2>2, <2>3 DEF Disjoint
<1>6. ToSet(c) = {Single(b) : b \in ToSet(s)}
  <2>1. \A i \in 1 .. Len(s) : c[i] \in {Single(b) : b \in ToSet(s)}
    BY <1>1, <1>4 DEF ToSet
  <2>2. \A i \in 1 .. Len(s) : Single(s[i]) \in ToSet(c)
    BY <1>4 DEF ToSet
  <2> QED BY <1>1, <1>4, <2>1, <2>2 DEF ToSet
<1>7. Covered(ToSet(c)) = ToSet(s)
  <2>1. \A b : b \in Covered(ToSet(c)) <=> \E x \in ToSet(c) : b \in Span(x)
    BY DEF Covered, Span
  <2>2. \A b \in ToSet(s) : Span(Single(b)) = {b}
    BY <1>1, <1>2 DEF ToSet
  <2>3. \A b \in ToSet(s) : Single(b) \in ToSet(c) /\ b \in Span(Single(b))
    BY <1>6, <2>2
  <2>4. \A x \in ToSet(c) : \E b \in ToSet(s) : x = Single(b)
    BY <1>6
  <2>5. \A x \in ToSet(c) : \A b : b \in Span(x) => b \in ToSet(s)
    BY <2>2, <2>4
  <2> QED BY <2>1, <2>3, <2>5
<1>8. ContainerSize(c) = Len(s)
  <2> DEFINE T == {i \in 0 .. Len(c) : SizeUpTo(c)[i] = i}
  <2>1. /\ SizeUpTo(c)[0] = 0
        /\ \A i \in 1 .. Len(c) : SizeUpTo(c)[i] = SizeUpTo(c)[i - 1] + SizeOf(c[i])
    BY <1>4, SizeLoop
  <2>2. 0 \in T
    BY <1>1, <1>4, <2>1
  <2>3. ASSUME NEW i \in 0 .. Len(c) - 1, i \in T PROVE i + 1 \in T
    <3>1. i + 1 \in 1 .. Len(c) /\ (i + 1) - 1 = i /\ i + 1 \in 0 .. Len(c)
      BY <1>1, <1>4
    <3>2. SizeOf(c[i + 1]) = 1
      <4> DEFINE b == s[i + 1]
      <4>1. c[i + 1] = Single(b) /\ b \in 0 .. n - 1
        BY <1>1, <1>4, <3>1
      <4> HIDE DEF b
      <4> QED BY <1>2, <4>1
    <3>3. SizeUpTo(c)[i + 1] = SizeUpTo(c)[i] + 1
      BY <2>1, <3>1, <3>2
    <3> QED BY <2>3, <3>1, <3>3
  <2>4. \A i \in 0 .. Len(c) : i \in T
    <3> HIDE DEF T
    <3> QED BY <1>1, <1>4, <2>2, <2>3, LoopInduction
  <2>5. Len(c) \in T
    BY <1>1, <1>4, <2>4
  <2> QED BY <1>4, <2>5 DEF ContainerSize
<1> QED BY <1>4, <1>5, <1>6, <1>7, <1>8 DEF c

\* No block has two owners.
Apart(S) == \A x, y \in S : x # y => Disjoint(x, y)

\* A pool at work: its tree tr, its cache c, its count k and what is owned.
Pool(tr, c, k, own) ==
  /\ tr \in SUBSET Runs(TotalBlockNum) /\ Canonical(tr)
  /\ own \in SUBSET Runs(TotalBlockNum) /\ Apart(own)
  /\ c \in Seq(Blocks) /\ Len(c) <= MAX_CACHE_BLOCK_NUM /\ IsInjective(c)
  /\ Covered(tr) \cup ToSet(c) \cup Covered(own) = Blocks
  /\ Covered(tr) \cap ToSet(c) = {} /\ Covered(tr) \cap Covered(own) = {}
  /\ ToSet(c) \cap Covered(own) = {}
  /\ k \in Nat /\ k >= Cardinality(Covered(tr)) + Len(c)

\* Extents owned, and their blocks.
Owns(n, own, blocks) ==
  own \in SUBSET Runs(n) /\ Apart(own) /\ Covered(own) = blocks

\* Extents of a container come to those owned.
LEMMA OwnedMore ==
  ASSUME NEW n \in Nat, NEW own \in SUBSET Runs(n), Apart(own),
         NEW c \in Seq(Runs(n)), NoOverlap(c), Covered(ToSet(c)) \cap Covered(own) = {}
  PROVE  Owns(n, own \cup ToSet(c), Covered(own) \cup Covered(ToSet(c)))
<1>1. /\ DOMAIN c = 1 .. Len(c) /\ \A i \in 1 .. Len(c) : c[i] \in Runs(n)
      /\ ToSet(c) = {c[i] : i \in 1 .. Len(c)}
  BY DEF ToSet
<1>2. ToSet(c) \in SUBSET Runs(n)
  BY <1>1
<1>3. Apart(ToSet(c))
  <2> SUFFICES ASSUME NEW x \in ToSet(c), NEW y \in ToSet(c), x # y
               PROVE  Disjoint(x, y)
    BY DEF Apart
  <2>1. PICK i \in 1 .. Len(c) : x = c[i]
    BY <1>1
  <2>2. PICK j \in 1 .. Len(c) : y = c[j]
    BY <1>1
  <2> QED BY <2>1, <2>2 DEF NoOverlap
<1>4. ASSUME NEW x \in ToSet(c), NEW y \in own PROVE Disjoint(x, y)
  <2>1. Span(x) \subseteq Covered(ToSet(c)) /\ x \in Runs(n)
    BY <1>2 DEF Covered, Span
  <2>2. Span(x) \cap Covered(own) = {}
    BY <2>1
  <2> QED BY <2>1, <2>2, ApartFacts
<1>5. ASSUME NEW x \in own, NEW y \in ToSet(c) PROVE Disjoint(x, y)
  BY <1>4 DEF Disjoint
<1>6. Covered(own \cup ToSet(c)) = Covered(own) \cup Covered(ToSet(c))
  BY DEF Covered
<1>7. Apart(own \cup ToSet(c))
  BY <1>3, <1>4, <1>5 DEF Apart
<1> QED BY <1>2, <1>6, <1>7 DEF Owns

\* Extents are given back.
LEMMA OwnedLess ==
  ASSUME NEW n \in Nat, NEW own \in SUBSET Runs(n), Apart(own), NEW X \in SUBSET own
  PROVE  Owns(n, own \ X, Covered(own) \ Covered(X)) /\ Covered(X) \subseteq Covered(own)
<1>1. Apart(own \ X)
  BY DEF Apart
<1>2. \A S : \A b : b \in Covered(S) <=> \E x \in S : b \in Span(x)
  BY DEF Covered, Span
<1>3. Covered(own) = Covered(own \ X) \cup Covered(X)
  BY <1>2
<1>4. ASSUME NEW x \in own \ X, NEW y \in X PROVE Span(x) \cap Span(y) = {}
  <2>1. Disjoint(x, y) /\ x \in Runs(n) /\ y \in Runs(n)
    BY DEF Apart
  <2> QED BY <2>1, ApartFacts
<1>5. Covered(own \ X) \cap Covered(X) = {}
  BY <1>2, <1>4
<1>6. Covered(own \ X) = Covered(own) \ Covered(X)
  BY <1>3, <1>5
<1> QED BY <1>1, <1>3, <1>6 DEF Owns

\* The number of blocks of a container is its size.
LEMMA ContainerCard ==
  ASSUME NEW n \in Nat, NEW c \in Seq(Runs(n)), NoOverlap(c)
  PROVE  Cardinality(Covered(ToSet(c))) = ContainerSize(c)
<1>1. Enumerates(n, Unrolled(c), Covered(ToSet(c)), ContainerSize(c))
  BY UnrolledFacts
<1> DEFINE u == Unrolled(c)
           D == 0 .. n - 1
<1>2. u \in Seq(D) /\ IsInjective(u) /\ ToSet(u) = Covered(ToSet(c)) /\ Len(u) = ContainerSize(c)
  BY <1>1 DEF Enumerates
<1> HIDE DEF u, D
<1>3. Cardinality(ToSet(u)) = Len(u)
  BY <1>2, InjectiveCard
<1> QED BY <1>2, <1>3

\* Half of the cache.
LEMMA HalfFacts == Half \in Nat /\ Half <= MAX_CACHE_BLOCK_NUM
BY PoolAssumption DEF Half

\* BlockPoolGet served by the cache.
LEMMA GetCachedFacts ==
  ASSUME NEW tr, NEW c, NEW k, NEW own, Pool(tr, c, k, own),
         NEW n \in Nat, Len(c) >= n
  PROVE  LET keep == Len(c) - n
             got == ToSet(Singles(SubSeq(c, keep + 1, Len(c))))
         IN  /\ Pool(tr, SubSeq(c, 1, keep), k, own \cup got)
             /\ Cardinality(Covered(got)) = n
<1> DEFINE keep == Len(c) - n
           front == SubSeq(c, 1, keep)
           back == SubSeq(c, keep + 1, Len(c))
           got == ToSet(Singles(back))
           N == TotalBlockNum
<1>1. /\ tr \in SUBSET Runs(N) /\ Canonical(tr)
      /\ own \in SUBSET Runs(N) /\ Apart(own)
      /\ c \in Seq(Blocks) /\ Len(c) <= MAX_CACHE_BLOCK_NUM /\ IsInjective(c)
      /\ Covered(tr) \cup ToSet(c) \cup Covered(own) = Blocks
      /\ Covered(tr) \cap ToSet(c) = {} /\ Covered(tr) \cap Covered(own) = {}
      /\ ToSet(c) \cap Covered(own) = {}
      /\ k \in Nat /\ k >= Cardinality(Covered(tr)) + Len(c)
  BY DEF Pool
<1>2. N \in Nat /\ Len(c) \in Nat /\ keep \in 0 .. Len(c) /\ Len(c) - keep = n
      /\ Blocks = 0 .. N - 1
  BY <1>1, PoolAssumption DEF Blocks
<1> HIDE DEF keep
<1>3. /\ front \in Seq(Blocks) /\ Len(front) = keep
      /\ back \in Seq(Blocks) /\ Len(back) = n
      /\ ToSet(c) = ToSet(front) \cup ToSet(back)
      /\ IsInjective(front) /\ IsInjective(back)
      /\ ToSet(front) \cap ToSet(back) = {}
  <2>1. CutAt(Blocks, c, keep, front, back)
    BY <1>1, <1>2, CutFacts
  <2> HIDE DEF front, back
  <2> QED BY <1>1, <1>2, <2>1 DEF CutAt
<1> HIDE DEF front, back
<1> DEFINE s == Singles(back)
<1>4. /\ s \in Seq(Runs(N)) /\ NoOverlap(s)
      /\ Covered(ToSet(s)) = ToSet(back)
      /\ ContainerSize(s) = n
  BY <1>2, <1>3, SinglesFacts
<1>5. Cardinality(Covered(ToSet(s))) = n
  BY <1>2, <1>4, ContainerCard
<1> HIDE DEF s
<1>6. /\ own \cup ToSet(s) \in SUBSET Runs(N) /\ Apart(own \cup ToSet(s))
      /\ Covered(own \cup ToSet(s)) = Covered(own) \cup ToSet(back)
  <2>1. Covered(ToSet(s)) \cap Covered(own) = {}
    BY <1>1, <1>3, <1>4
  <2>2. Owns(N, own \cup ToSet(s), Covered(own) \cup Covered(ToSet(s)))
    BY <1>1, <1>2, <1>4, <2>1, OwnedMore
  <2> QED BY <1>4, <2>2 DEF Owns
<1>7. Len(front) <= MAX_CACHE_BLOCK_NUM /\ k >= Cardinality(Covered(tr)) + Len(front)
  <2>1. Cardinality(Covered(tr)) \in Nat
    BY <1>1, <1>2, CoveredFacts
  <2> QED BY <1>1, <1>2, <1>3, <2>1, PoolAssumption
<1>8. Pool(tr, front, k, own \cup ToSet(s))
  <2>1. /\ Covered(tr) \cup ToSet(front) \cup Covered(own \cup ToSet(s)) = Blocks
        /\ Covered(tr) \cap ToSet(front) = {}
        /\ Covered(tr) \cap Covered(own \cup ToSet(s)) = {}
        /\ ToSet(front) \cap Covered(own \cup ToSet(s)) = {}
    BY <1>1, <1>3, <1>6
  <2> QED BY <1>1, <1>3, <1>6, <1>7, <2>1 DEF Pool
<1> QED BY <1>5, <1>8 DEF s, front, back, keep

\* A request for n blocks was given got: the pool is left as tr, c and k, the
\* owners as own.  Less is given only when nothing more is there.
Served(kind, n, got, tr, c, k, own) ==
  /\ Pool(tr, c, k, own)
  /\ Cardinality(Covered(got)) \in Nat
  /\ Cardinality(Covered(got)) < n =>
       Covered(tr) = {} /\ (kind = "get" /\ n = 1 => c = << >>)

\* What the tree gives goes to the owners.
LEMMA Moved ==
  ASSUME NEW tr, NEW c, NEW k, NEW own, Pool(tr, c, k, own),
         NEW size \in Nat, NEW st, Walked(TotalBlockNum, tr, size, st)
  PROVE  /\ Pool(st.tree, c, k - ContainerSize(st.container),
                 own \cup ToSet(st.container))
         /\ Cardinality(Covered(ToSet(st.container))) = ContainerSize(st.container)
<1> DEFINE N == TotalBlockNum
           t == st.tree
           e == st.container
<1>1. /\ tr \in SUBSET Runs(N)
      /\ own \in SUBSET Runs(N) /\ Apart(own)
      /\ c \in Seq(Blocks) /\ Len(c) <= MAX_CACHE_BLOCK_NUM /\ IsInjective(c)
      /\ Covered(tr) \cup ToSet(c) \cup Covered(own) = Blocks
      /\ Covered(tr) \cap ToSet(c) = {} /\ Covered(tr) \cap Covered(own) = {}
      /\ ToSet(c) \cap Covered(own) = {}
      /\ k \in Nat /\ k >= Cardinality(Covered(tr)) + Len(c)
  BY DEF Pool
<1>2. /\ t \in SUBSET Runs(N) /\ Canonical(t) /\ e \in Seq(Runs(N)) /\ NoOverlap(e)
      /\ Covered(t) \cap Covered(ToSet(e)) = {}
      /\ Covered(tr) = Covered(t) \cup Covered(ToSet(e))
      /\ Cardinality(Covered(tr)) = Cardinality(Covered(t)) + ContainerSize(e)
  BY DEF Walked, Walk
<1>3. N \in Nat /\ Len(c) \in Nat
  BY <1>1, PoolAssumption
<1> HIDE DEF t, e, N
<1>4. Cardinality(Covered(t)) \in Nat
  BY <1>2, <1>3, CoveredFacts
<1>5. Cardinality(Covered(ToSet(e))) = ContainerSize(e)
  BY <1>2, <1>3, ContainerCard
<1>6. ContainerSize(e) \in Nat
  <2>1. \A i \in 0 .. Len(e) : SizeUpTo(e)[i] \in Nat
    BY <1>2, <1>3, SizeLoop
  <2>2. Len(e) \in 0 .. Len(e)
    BY <1>2
  <2> QED BY <2>1, <2>2 DEF ContainerSize
<1>7. Owns(N, own \cup ToSet(e), Covered(own) \cup Covered(ToSet(e)))
  <2>1. Covered(ToSet(e)) \cap Covered(own) = {}
    BY <1>1, <1>2
  <2> QED BY <1>1, <1>2, <1>3, <2>1, OwnedMore
<1> DEFINE more == own \cup ToSet(e)
           j == k - ContainerSize(e)
<1>8. more \in SUBSET Runs(N) /\ Apart(more)
      /\ Covered(more) = Covered(own) \cup Covered(ToSet(e))
  BY <1>7 DEF Owns
<1>9. j \in Nat /\ j >= Cardinality(Covered(t)) + Len(c)
  BY <1>1, <1>2, <1>3, <1>4, <1>6
<1> HIDE DEF more, j
<1>10. /\ Covered(t) \cup ToSet(c) \cup Covered(more) = Blocks
       /\ Covered(t) \cap ToSet(c) = {}
       /\ Covered(t) \cap Covered(more) = {}
       /\ ToSet(c) \cap Covered(more) = {}
  BY <1>1, <1>2, <1>8
<1>11. Pool(t, c, j, more)
  BY <1>1, <1>2, <1>8, <1>9, <1>10 DEF Pool, N
<1> QED BY <1>5, <1>11 DEF j, more, t, e

\* BlockPoolExtentGet.
LEMMA ExtentGetFacts ==
  ASSUME NEW tr, NEW c, NEW k, NEW own, Pool(tr, c, k, own), NEW n \in Nat
  PROVE  LET got == ExtentTreeGet(tr, n)
             x == ToSet(got.container)
         IN  Served("extents", n, x, got.tree, c, k - ContainerSize(got.container),
                    own \cup x)
<1> DEFINE st == ExtentTreeGet(tr, n)
           N == TotalBlockNum
<1>1. N \in Nat /\ tr \in SUBSET Runs(N) /\ Canonical(tr)
  BY PoolAssumption DEF Pool
<1>2. Walked(N, tr, n, st) /\ (st.size = 0 \/ st.tree = {})
  BY <1>1, GetFacts
<1> HIDE DEF st
<1> DEFINE x == ToSet(st.container)
           t == st.tree
           j == k - ContainerSize(st.container)
           more == own \cup x
<1>3. Pool(t, c, j, more) /\ Cardinality(Covered(x)) = ContainerSize(st.container)
  BY <1>2, Moved
<1>4. st.size \in Nat /\ n = st.size + ContainerSize(st.container)
      /\ st.container \in Seq(Runs(N))
  BY <1>2 DEF Walked, Walk
<1>5. IsFiniteSet(Covered(x)) /\ Cardinality(Covered(x)) \in Nat
  <2>1. x \in SUBSET Runs(N)
    BY <1>4 DEF ToSet
  <2> HIDE DEF x
  <2> QED BY <1>1, <2>1, CoveredFacts
<1>6. ASSUME Cardinality(Covered(x)) < n PROVE Covered(t) = {}
  <2>1. st.size # 0
    BY <1>3, <1>4, <1>5, <1>6
  <2>2. t = {}
    BY <1>2, <2>1
  <2> HIDE DEF t
  <2> QED BY <2>2 DEF Covered
<1> HIDE DEF x, t, j, more
<1>7. Served("extents", n, x, t, c, j, more)
  BY <1>3, <1>5, <1>6 DEF Served
<1> QED BY <1>7 DEF st, x, t, j, more

\* Of all blocks in a row the first m went to the owners, the rest is the cache.
Refill(tr, all, m, k, own, got, rest) ==
  /\ Pool(tr, rest, k - m, own \cup ToSet(Singles(got)))
  /\ Cardinality(Covered(ToSet(Singles(got)))) = m
  /\ Len(got) = m /\ Len(rest) = Len(all) - m

\* The blocks of a container join the cache in front of it, and all of them
\* are cut: the front goes to the owners, the back stays.
LEMMA Refilled ==
  ASSUME NEW tr, NEW c, NEW k, NEW own, Pool(tr, c, k, own),
         NEW size \in Nat, NEW st, Walked(TotalBlockNum, tr, size, st),
         NEW all, all = c \o Unrolled(st.container),
         NEW m \in 0 .. Len(all), Len(all) - m <= MAX_CACHE_BLOCK_NUM,
         NEW got, got = SubSeq(all, 1, m),
         NEW rest, rest = SubSeq(all, m + 1, Len(all))
  PROVE  Refill(st.tree, all, m, k, own, got, rest)
<1> DEFINE N == TotalBlockNum
           t == st.tree
           e == st.container
           u == Unrolled(e)
<1>1. /\ tr \in SUBSET Runs(N)
      /\ own \in SUBSET Runs(N) /\ Apart(own)
      /\ c \in Seq(Blocks) /\ IsInjective(c)
      /\ Covered(tr) \cup ToSet(c) \cup Covered(own) = Blocks
      /\ Covered(tr) \cap ToSet(c) = {} /\ Covered(tr) \cap Covered(own) = {}
      /\ ToSet(c) \cap Covered(own) = {}
      /\ k \in Nat /\ k >= Cardinality(Covered(tr)) + Len(c)
  BY DEF Pool
<1>2. /\ t \in SUBSET Runs(N) /\ Canonical(t) /\ e \in Seq(Runs(N)) /\ NoOverlap(e)
      /\ Covered(t) \cap Covered(ToSet(e)) = {}
      /\ Covered(tr) = Covered(t) \cup Covered(ToSet(e))
      /\ Cardinality(Covered(tr)) = Cardinality(Covered(t)) + ContainerSize(e)
  BY DEF Walked, Walk
<1>3. N \in Nat /\ Len(c) \in Nat /\ Blocks = 0 .. N - 1
  BY <1>1, PoolAssumption DEF Blocks
<1> HIDE DEF t, e, N
<1>4. Cardinality(Covered(t)) \in Nat
  BY <1>2, <1>3, CoveredFacts
<1>5. /\ u \in Seq(Blocks) /\ IsInjective(u) /\ ToSet(u) = Covered(ToSet(e))
      /\ Len(u) = ContainerSize(e)
  <2>1. Enumerates(N, u, Covered(ToSet(e)), ContainerSize(e))
    BY <1>2, <1>3, UnrolledFacts
  <2> HIDE DEF u
  <2> QED BY <1>3, <2>1 DEF Enumerates
<1>6. all = c \o u
  BY DEF u, e
<1> HIDE DEF u
<1>7. /\ all \in Seq(Blocks) /\ Len(all) = Len(c) + Len(u) /\ IsInjective(all)
      /\ ToSet(all) = ToSet(c) \cup ToSet(u)
  <2>1. ToSet(c) \cap ToSet(u) = {}
    BY <1>1, <1>2, <1>5
  <2>2. /\ c \o u \in Seq(Blocks) /\ Len(c \o u) = Len(c) + Len(u)
        /\ ToSet(c \o u) = ToSet(c) \cup ToSet(u)
        /\ IsInjective(c) /\ IsInjective(u) /\ ToSet(c) \cap ToSet(u) = {}
             => IsInjective(c \o u)
    <3>1. c \in Seq(Blocks) /\ u \in Seq(Blocks)
      BY <1>1, <1>5
    <3> QED BY <3>1, ConcatFacts
  <2> QED BY <1>1, <1>5, <1>6, <2>1, <2>2
<1>8. CutAt(Blocks, all, m, got, rest)
  <2>1. all \in Seq(Blocks) /\ m \in 0 .. Len(all)
    BY <1>7
  <2>2. CutAt(Blocks, all, m, SubSeq(all, 1, m), SubSeq(all, m + 1, Len(all)))
    BY ONLY <2>1, CutFacts
  <2> QED BY <2>2
<1>9. /\ got \in Seq(Blocks) /\ Len(got) = m /\ IsInjective(got)
      /\ rest \in Seq(Blocks) /\ Len(rest) = Len(all) - m /\ IsInjective(rest)
      /\ ToSet(all) = ToSet(got) \cup ToSet(rest)
      /\ ToSet(got) \cap ToSet(rest) = {}
  BY ONLY <1>7, <1>8 DEF CutAt
<1> DEFINE s == Singles(got)
<1>10. /\ s \in Seq(Runs(N)) /\ NoOverlap(s) /\ Covered(ToSet(s)) = ToSet(got)
       /\ ContainerSize(s) = m
  BY <1>3, <1>9, SinglesFacts
<1> HIDE DEF s
<1>11. Cardinality(Covered(ToSet(s))) = m
  BY <1>3, <1>10, ContainerCard
<1> DEFINE more == own \cup ToSet(s)
           j == k - m
<1>12. more \in SUBSET Runs(N) /\ Apart(more) /\ Covered(more) = Covered(own) \cup ToSet(got)
  <2>1. Covered(ToSet(s)) \cap Covered(own) = {}
    BY <1>1, <1>2, <1>5, <1>7, <1>9, <1>10
  <2>2. Owns(N, own \cup ToSet(s), Covered(own) \cup Covered(ToSet(s)))
    BY <1>1, <1>3, <1>10, <2>1, OwnedMore
  <2> QED BY <1>10, <2>2 DEF Owns
<1>13. j \in Nat /\ j >= Cardinality(Covered(t)) + Len(rest)
  <2>1. k >= Cardinality(Covered(t)) + Len(u) + Len(c) /\ Len(u) \in Nat
    BY <1>1, <1>2, <1>3, <1>4, <1>5
  <2> QED BY <1>1, <1>3, <1>4, <1>7, <1>9, <2>1
<1> HIDE DEF more, j
<1>14. /\ Covered(t) \cup ToSet(rest) \cup Covered(more) = Blocks
       /\ Covered(t) \cap ToSet(rest) = {}
       /\ Covered(t) \cap Covered(more) = {}
       /\ ToSet(rest) \cap Covered(more) = {}
  BY ONLY <1>1, <1>2, <1>5, <1>7, <1>9, <1>12
<1>15. Len(rest) <= MAX_CACHE_BLOCK_NUM
  BY <1>9
<1>16. Pool(t, rest, j, more)
  BY <1>2, <1>9, <1>12, <1>13, <1>14, <1>15 DEF Pool, N
<1> QED BY <1>9, <1>11, <1>16 DEF Refill, j, more, s, t

\* BlockPoolGet that pulls a batch from the tree.
LEMMA GetPulledFacts ==
  ASSUME NEW tr, NEW c, NEW k, NEW own, Pool(tr, c, k, own),
         NEW n \in Nat, Len(c) < n,
         NEW pull, pull = ExtentTreeGet(tr, Half + n - Len(c)),
         NEW all, all = c \o Unrolled(pull.container),
         NEW got, got = IF pull.container = << >> THEN << >>
                        ELSE SubSeq(all, 1, IF n <= Len(all) THEN n ELSE Len(all)),
         NEW left, left = IF pull.container = << >> THEN c
                          ELSE SubSeq(all, Len(got) + 1, Len(all))
  PROVE  Served("get", n, ToSet(Singles(got)), pull.tree, left, k - Len(got),
                own \cup ToSet(Singles(got)))
<1> DEFINE N == TotalBlockNum
           size == Half + n - Len(c)
           x == ToSet(Singles(got))
<1>1. N \in Nat /\ tr \in SUBSET Runs(N) /\ Canonical(tr) /\ c \in Seq(Blocks)
      /\ k \in Nat /\ Len(c) \in Nat
  BY PoolAssumption DEF Pool
<1>2. size \in Nat /\ size > 0 /\ size >= n - Len(c) /\ Half \in Nat
  BY <1>1, HalfFacts
<1>3. pull = ExtentTreeGet(tr, size)
  OBVIOUS
<1> HIDE DEF size
<1>4. Walked(N, tr, size, pull) /\ (pull.size = 0 \/ pull.tree = {})
  BY <1>1, <1>2, <1>3, GetFacts
<1>5. pull.size \in Nat /\ size = pull.size + ContainerSize(pull.container)
      /\ pull.container \in Seq(Runs(N)) /\ NoOverlap(pull.container)
  BY <1>4 DEF Walked, Walk
<1>6. Covered({}) = {} /\ Cardinality({}) = 0
  BY FS_EmptySet DEF Covered
<1>7. CASE pull.container = << >>
  <2>1. << >> \in Seq(Runs(N)) /\ Len(<< >>) = 0 /\ ToSet(<< >>) = {}
    BY DEF ToSet
  <2>2. ContainerSize(<< >>) = 0
    BY <1>1, <2>1, SizeLoop DEF ContainerSize
  <2>3. pull.tree = {}
    BY <1>2, <1>4, <1>5, <1>7, <2>2
  <2>4. Pool(pull.tree, c, k - ContainerSize(pull.container), own \cup ToSet(pull.container))
    BY <1>2, <1>4, Moved
  <2>5. k - ContainerSize(pull.container) = k /\ own \cup ToSet(pull.container) = own
    BY <1>1, <1>7, <2>1, <2>2
  <2>6. got = << >> /\ left = c
    BY <1>7
  <2>7. x = {} /\ k - Len(got) = k /\ own \cup x = own
    <3>1. ToSet(Singles(<< >>)) = {}
      BY DEF ToSet, Singles
    <3>2. x = {}
      BY <2>6, <3>1
    <3> QED BY <1>1, <2>1, <2>6, <3>2
  <2>8. Pool(pull.tree, left, k - Len(got), own \cup x)
    BY <2>4, <2>5, <2>6, <2>7
  <2>9. n = 1 => left = << >>
    <3>1. n = 1 => Len(c) = 0
      BY <1>1
    <3> QED BY <1>1, <2>6, <3>1, EmptySeq
  <2> HIDE DEF x
  <2>10. Served("get", n, x, pull.tree, left, k - Len(got), own \cup x)
    <3>1. Cardinality(Covered(x)) = 0 /\ Covered(pull.tree) = {}
      BY <1>6, <2>3, <2>7
    <3>2. Cardinality(Covered(x)) \in Nat
      BY <3>1
    <3> QED BY <2>8, <2>9, <3>1, <3>2 DEF Served
  <2> QED BY <2>10 DEF x
<1>8. CASE pull.container # << >>
  <2> DEFINE e == pull.container
             m == IF n <= Len(all) THEN n ELSE Len(all)
  <2>1. Len(all) = Len(c) + ContainerSize(e) /\ ContainerSize(e) \in Nat /\ all \in Seq(Blocks)
    <3>1. Enumerates(N, Unrolled(e), Covered(ToSet(e)), ContainerSize(e))
      BY <1>1, <1>5, UnrolledFacts
    <3>2. Unrolled(e) \in Seq(Blocks) /\ Len(Unrolled(e)) = ContainerSize(e)
      BY <3>1 DEF Enumerates, Blocks
    <3>3. Len(Unrolled(e)) \in Nat
      BY <3>2
    <3>4. Len(c \o Unrolled(e)) = Len(c) + Len(Unrolled(e)) /\ c \o Unrolled(e) \in Seq(Blocks)
      BY <1>1, <3>2, ConcatProperties
    <3> QED BY <3>2, <3>3, <3>4
  <2>2. /\ m \in 0 .. Len(all) /\ Len(all) - m <= MAX_CACHE_BLOCK_NUM
        /\ m \in Nat /\ (m < n => Len(all) = m /\ pull.size # 0)
    <3>1. ContainerSize(e) <= Half + n - Len(c)
      BY <1>2, <1>5, <2>1 DEF size
    <3>2. Len(all) <= Half + n
      BY <1>1, <1>2, <2>1, <3>1
    <3>3. Len(all) < n => pull.size # 0
      BY <1>1, <1>2, <1>5, <2>1
    <3> QED BY <1>1, <1>2, <2>1, <3>2, <3>3, HalfFacts, PoolAssumption
  <2> HIDE DEF m
  <2>3. got = SubSeq(all, 1, m)
    BY <1>8 DEF m
  <2> DEFINE rest == SubSeq(all, m + 1, Len(all))
  <2>4. /\ Pool(pull.tree, rest, k - m, own \cup x)
        /\ Cardinality(Covered(x)) = m
        /\ Len(got) = m /\ Len(rest) = Len(all) - m
    <3>1. rest = SubSeq(all, m + 1, Len(all))
      OBVIOUS
    <3> HIDE DEF rest
    <3>2. m \in 0 .. Len(all) /\ Len(all) - m <= MAX_CACHE_BLOCK_NUM
      BY <2>2
    <3>3. all = c \o Unrolled(pull.container) /\ Pool(tr, c, k, own)
      OBVIOUS
    <3>4. size \in Nat /\ Walked(TotalBlockNum, tr, size, pull)
      BY <1>2, <1>4
    <3>5. Refill(pull.tree, all, m, k, own, got, rest)
      BY ONLY <2>3, <3>1, <3>2, <3>3, <3>4, Refilled
    <3> QED BY <3>5 DEF Refill
  <2>5. left = rest
    BY <1>8, <2>4
  <2> HIDE DEF rest
  <2>6. Pool(pull.tree, left, k - Len(got), own \cup x)
    BY <2>4, <2>5
  <2>7. ASSUME m < n PROVE Covered(pull.tree) = {} /\ left = << >>
    <3>1. pull.tree = {}
      BY <1>4, <2>2, <2>7
    <3>2. left \in Seq(Blocks)
      BY <2>6 DEF Pool
    <3>3. Len(left) = 0
      <4>1. Len(all) = m /\ m \in Nat
        BY <2>2, <2>7
      <4>2. Len(left) = Len(all) - m
        BY <2>4, <2>5
      <4> QED BY ONLY <4>1, <4>2
    <3>4. left = << >>
      BY <3>2, <3>3, EmptySeq
    <3> QED BY <1>6, <3>1, <3>4
  <2> HIDE DEF x
  <2>8. Served("get", n, x, pull.tree, left, k - Len(got), own \cup x)
    <3>1. Cardinality(Covered(x)) \in Nat
      BY <2>2, <2>4
    <3>2. Cardinality(Covered(x)) < n => Covered(pull.tree) = {} /\ left = << >>
      BY <2>4, <2>7
    <3> QED BY ONLY <2>6, <3>1, <3>2 DEF Served
  <2> QED BY <2>8 DEF x
<1> QED BY <1>7, <1>8

\* Single blocks s that go back are the owners' no more and follow those of
\* the cache.
Returned(c, own, s, all, less) ==
  /\ less \in SUBSET Runs(TotalBlockNum) /\ Apart(less)
  /\ Covered(less) = Covered(own) \ ToSet(s) /\ ToSet(s) \subseteq Covered(own)
  /\ all \in Seq(Blocks) /\ Len(all) = Len(c) + Len(s)
  /\ ToSet(all) = ToSet(c) \cup ToSet(s) /\ IsInjective(all)

\* BlockPoolPut takes its blocks from the owners.
LEMMA SinglesBack ==
  ASSUME NEW tr, NEW c, NEW k, NEW own, Pool(tr, c, k, own),
         NEW s \in Seq(Blocks), IsInjective(s), ToSet(Singles(s)) \subseteq own
  PROVE  Returned(c, own, s, c \o s, own \ ToSet(Singles(s)))
<1> DEFINE N == TotalBlockNum
           X == ToSet(Singles(s))
<1>1. N \in Nat /\ Blocks = 0 .. N - 1 /\ own \in SUBSET Runs(N) /\ Apart(own)
      /\ c \in Seq(Blocks) /\ IsInjective(c) /\ ToSet(c) \cap Covered(own) = {}
  BY PoolAssumption DEF Pool, Blocks
<1>2. Covered(X) = ToSet(s)
  BY <1>1, SinglesFacts
<1> HIDE DEF X
<1>3. Owns(N, own \ X, Covered(own) \ Covered(X)) /\ Covered(X) \subseteq Covered(own)
  <2>1. X \in SUBSET own
    BY DEF X
  <2> QED BY <1>1, <2>1, OwnedLess
<1>4. /\ c \o s \in Seq(Blocks) /\ Len(c \o s) = Len(c) + Len(s)
      /\ ToSet(c \o s) = ToSet(c) \cup ToSet(s)
      /\ IsInjective(c) /\ IsInjective(s) /\ ToSet(c) \cap ToSet(s) = {}
           => IsInjective(c \o s)
  <2>1. c \in Seq(Blocks)
    BY <1>1
  <2> QED BY <2>1, ConcatFacts
<1>5. ToSet(c) \cap ToSet(s) = {}
  BY <1>1, <1>2, <1>3
<1>6. Returned(c, own, s, c \o s, own \ X)
  BY <1>1, <1>2, <1>3, <1>4, <1>5 DEF Returned, Owns
<1> QED BY <1>6 DEF X

\* BlockPoolPut into the cache.
LEMMA CachePutFacts ==
  ASSUME NEW tr, NEW c, NEW k, NEW own, Pool(tr, c, k, own),
         NEW s \in Seq(Blocks), IsInjective(s), ToSet(Singles(s)) \subseteq own,
         Len(s) + Len(c) <= MAX_CACHE_BLOCK_NUM
  PROVE  Pool(tr, c \o s, k + Len(s), own \ ToSet(Singles(s)))
<1> DEFINE all == c \o s
           less == own \ ToSet(Singles(s))
           N == TotalBlockNum
<1>1. /\ less \in SUBSET Runs(N) /\ Apart(less) /\ Covered(less) = Covered(own) \ ToSet(s)
      /\ ToSet(s) \subseteq Covered(own)
      /\ all \in Seq(Blocks) /\ Len(all) = Len(c) + Len(s)
      /\ ToSet(all) = ToSet(c) \cup ToSet(s) /\ IsInjective(all)
  <2>1. Returned(c, own, s, all, less)
    BY SinglesBack
  <2> QED BY <2>1 DEF Returned
<1> HIDE DEF all, less
<1>2. /\ tr \in SUBSET Runs(N) /\ Canonical(tr) /\ c \in Seq(Blocks)
      /\ Covered(tr) \cup ToSet(c) \cup Covered(own) = Blocks
      /\ Covered(tr) \cap ToSet(c) = {} /\ Covered(tr) \cap Covered(own) = {}
      /\ ToSet(c) \cap Covered(own) = {}
      /\ k \in Nat /\ k >= Cardinality(Covered(tr)) + Len(c) /\ N \in Nat
  BY PoolAssumption DEF Pool
<1>3. /\ Covered(tr) \cup ToSet(all) \cup Covered(less) = Blocks
      /\ Covered(tr) \cap ToSet(all) = {} /\ Covered(tr) \cap Covered(less) = {}
      /\ ToSet(all) \cap Covered(less) = {}
  BY <1>1, <1>2
<1>4. k + Len(s) \in Nat /\ k + Len(s) >= Cardinality(Covered(tr)) + Len(all)
      /\ Len(all) <= MAX_CACHE_BLOCK_NUM
  <2>1. Cardinality(Covered(tr)) \in Nat
    BY <1>2, CoveredFacts
  <2>2. Len(c) \in Nat /\ Len(s) \in Nat
    BY <1>2
  <2> QED BY <1>1, <1>2, <2>1, <2>2, PoolAssumption
<1>5. Pool(tr, all, k + Len(s), less)
  BY <1>1, <1>2, <1>3, <1>4 DEF Pool
<1> QED BY <1>5 DEF all, less

\* BlockPoolPut that puts blocks out to the tree.
LEMMA PutOutFacts ==
  ASSUME NEW tr, NEW c, NEW k, NEW own, Pool(tr, c, k, own),
         NEW s \in Seq(Blocks), IsInjective(s), ToSet(Singles(s)) \subseteq own,
         ~(Len(s) + Len(c) <= MAX_CACHE_BLOCK_NUM),
         NEW all, all = c \o s, NEW out, out = Len(c) + Len(s) - Half
  PROVE  Pool(ExtentTreeBatchPut(tr, Singles(SubSeq(all, 1, out))),
              SubSeq(all, out + 1, Len(all)), k + Len(s), own \ ToSet(Singles(s)))
<1> DEFINE less == own \ ToSet(Singles(s))
           N == TotalBlockNum
           front == SubSeq(all, 1, out)
           back == SubSeq(all, out + 1, Len(all))
           e == Singles(front)
           t == ExtentTreeBatchPut(tr, e)
           j == k + Len(s)
<1>1. /\ less \in SUBSET Runs(N) /\ Apart(less) /\ Covered(less) = Covered(own) \ ToSet(s)
      /\ ToSet(s) \subseteq Covered(own)
      /\ all \in Seq(Blocks) /\ Len(all) = Len(c) + Len(s)
      /\ ToSet(all) = ToSet(c) \cup ToSet(s) /\ IsInjective(all)
  <2>1. Returned(c, own, s, c \o s, own \ ToSet(Singles(s)))
    BY SinglesBack
  <2>2. Returned(c, own, s, all, less)
    BY <2>1
  <2> QED BY <2>2 DEF Returned
<1> HIDE DEF less
<1>2. /\ tr \in SUBSET Runs(N) /\ Canonical(tr) /\ c \in Seq(Blocks)
      /\ Covered(tr) \cup ToSet(c) \cup Covered(own) = Blocks
      /\ Covered(tr) \cap ToSet(c) = {} /\ Covered(tr) \cap Covered(own) = {}
      /\ ToSet(c) \cap Covered(own) = {}
      /\ k \in Nat /\ k >= Cardinality(Covered(tr)) + Len(c)
      /\ N \in Nat /\ Blocks = 0 .. N - 1
  BY PoolAssumption DEF Pool, Blocks
<1>3. Len(c) \in Nat /\ Len(s) \in Nat /\ Len(all) \in Nat
      /\ out \in 0 .. Len(all) /\ Len(all) - out = Half /\ Len(all) = Len(c) + Len(s)
  <2>1. Len(c) \in Nat /\ Len(s) \in Nat
    BY <1>2
  <2> QED BY <1>1, <2>1, HalfFacts, PoolAssumption
<1>4. CutAt(Blocks, all, out, front, back)
  BY <1>1, <1>3, CutFacts
<1> HIDE DEF front, back
<1>5. /\ front \in Seq(Blocks) /\ Len(front) = out /\ IsInjective(front)
      /\ back \in Seq(Blocks) /\ Len(back) = Len(all) - out /\ IsInjective(back)
      /\ ToSet(all) = ToSet(front) \cup ToSet(back)
      /\ ToSet(front) \cap ToSet(back) = {}
  BY <1>1, <1>4 DEF CutAt
<1>6. /\ e \in Seq(Runs(N)) /\ NoOverlap(e) /\ Covered(ToSet(e)) = ToSet(front)
      /\ ContainerSize(e) = out
  BY <1>2, <1>5, SinglesFacts
<1> HIDE DEF e
<1>7. Grown(N, tr, Covered(ToSet(e)), ContainerSize(e), t)
  <2>1. Covered(ToSet(e)) \cap Covered(tr) = {}
    BY <1>1, <1>2, <1>5, <1>6
  <2> QED BY <1>2, <1>6, <2>1, BatchPutFacts
<1> HIDE DEF t
<1>8. /\ t \in SUBSET Runs(N) /\ Canonical(t) /\ Covered(t) = Covered(tr) \cup ToSet(front)
      /\ Cardinality(Covered(t)) = Cardinality(Covered(tr)) + out
  BY <1>6, <1>7 DEF Grown
<1>9. /\ Covered(t) \cup ToSet(back) \cup Covered(less) = Blocks
      /\ Covered(t) \cap ToSet(back) = {} /\ Covered(t) \cap Covered(less) = {}
      /\ ToSet(back) \cap Covered(less) = {}
  BY <1>1, <1>2, <1>5, <1>8
<1>10. j \in Nat /\ j >= Cardinality(Covered(t)) + Len(back)
       /\ Len(back) <= MAX_CACHE_BLOCK_NUM
  <2>1. Cardinality(Covered(tr)) \in Nat
    BY <1>2, CoveredFacts
  <2>2. Cardinality(Covered(t)) + Len(back) = Cardinality(Covered(tr)) + Len(c) + Len(s)
    BY <1>3, <1>5, <1>8, <2>1
  <2> QED BY <1>2, <1>3, <1>5, <2>1, <2>2, HalfFacts
<1> HIDE DEF j
<1>11. Pool(t, back, j, less)
  BY <1>1, <1>5, <1>8, <1>9, <1>10 DEF Pool
<1> QED BY <1>11 DEF t, e, front, back, j, less

\* BlockPoolExtentPut.
LEMMA ExtentPutFacts ==
  ASSUME NEW tr, NEW c, NEW k, NEW own, Pool(tr, c, k, own),
         NEW e \in Seq(Runs(TotalBlockNum)), NoOverlap(e), ToSet(e) \subseteq own
  PROVE  Pool(ExtentTreeBatchPut(tr, e), c, k + ContainerSize(e), own \ ToSet(e))
<1> DEFINE less == own \ ToSet(e)
           N == TotalBlockNum
           t == ExtentTreeBatchPut(tr, e)
           j == k + ContainerSize(e)
<1>1. /\ tr \in SUBSET Runs(N) /\ Canonical(tr) /\ c \in Seq(Blocks) /\ IsInjective(c)
      /\ own \in SUBSET Runs(N) /\ Apart(own) /\ Len(c) <= MAX_CACHE_BLOCK_NUM
      /\ Covered(tr) \cup ToSet(c) \cup Covered(own) = Blocks
      /\ Covered(tr) \cap ToSet(c) = {} /\ Covered(tr) \cap Covered(own) = {}
      /\ ToSet(c) \cap Covered(own) = {}
      /\ k \in Nat /\ k >= Cardinality(Covered(tr)) + Len(c)
      /\ N \in Nat
  BY PoolAssumption DEF Pool
<1>2. Owns(N, less, Covered(own) \ Covered(ToSet(e))) /\ Covered(ToSet(e)) \subseteq Covered(own)
  BY <1>1, OwnedLess
<1> HIDE DEF less
<1>3. /\ less \in SUBSET Runs(N) /\ Apart(less)
      /\ Covered(less) = Covered(own) \ Covered(ToSet(e))
  BY <1>2 DEF Owns
<1>4. Grown(N, tr, Covered(ToSet(e)), ContainerSize(e), t)
  <2>1. Covered(ToSet(e)) \cap Covered(tr) = {}
    BY <1>1, <1>2
  <2> QED BY <1>1, <2>1, BatchPutFacts
<1> HIDE DEF t
<1>5. /\ t \in SUBSET Runs(N) /\ Canonical(t)
      /\ Covered(t) = Covered(tr) \cup Covered(ToSet(e))
      /\ Cardinality(Covered(t)) = Cardinality(Covered(tr)) + ContainerSize(e)
  BY <1>4 DEF Grown
<1>6. /\ Covered(t) \cup ToSet(c) \cup Covered(less) = Blocks
      /\ Covered(t) \cap ToSet(c) = {} /\ Covered(t) \cap Covered(less) = {}
      /\ ToSet(c) \cap Covered(less) = {}
  BY <1>1, <1>2, <1>3, <1>5
<1>7. j \in Nat /\ j >= Cardinality(Covered(t)) + Len(c)
  <2>1. Cardinality(Covered(tr)) \in Nat
    BY <1>1, CoveredFacts
  <2>2. ContainerSize(e) \in Nat
    <3>1. \A i \in 0 .. Len(e) : SizeUpTo(e)[i] \in Nat
      BY <1>1, SizeLoop
    <3> QED BY <3>1 DEF ContainerSize
  <2>3. Len(c) \in Nat
    BY <1>1
  <2> QED BY <1>1, <1>5, <2>1, <2>2, <2>3
<1> HIDE DEF j
<1>8. Pool(t, c, j, less)
  BY <1>1, <1>3, <1>5, <1>6, <1>7 DEF Pool
<1> QED BY <1>8 DEF t, j, less

-----------------------------------------------------------------------------
\* The inductive invariant.

\* The pool while it is rebuilt: the tree has the blocks told so far.
Rebuilding ==
  /\ tree \in SUBSET Runs(TotalBlockNum) /\ Canonical(tree)
  /\ owned \in SUBSET Runs(TotalBlockNum) /\ Apart(owned)
  /\ told \subseteq owned /\ Covered(tree) = Covered(told)
  /\ blocksCache = << >> /\ blockNum = 0 /\ last = NoRequest

\* The inductive invariant.
IInv ==
  /\ Running => Pool(tree, blocksCache, blockNum, owned)
  /\ ~Running => Rebuilding
  /\ ops \in 0 .. MaxOps
  /\ RefusedOnlyWhenEmpty

\* NvmfsInfoFormat: all blocks are in the tree.
LEMMA InitIInv == Init => IInv
<1> SUFFICES ASSUME Init PROVE IInv
  OBVIOUS
<1> DEFINE N == TotalBlockNum
           x == Extent(0, N)
<1>1. N \in Nat /\ N > 0 /\ MAX_CACHE_BLOCK_NUM \in Nat /\ MaxOps \in Nat
  BY PoolAssumption
<1>2. x \in Runs(N) /\ x.start = 0 /\ x.end = N
  BY <1>1, RunFacts
<1> HIDE DEF x
<1>3. Span(x) = Blocks /\ Cardinality(Span(x)) = N
  <2>1. Cardinality(Span(x)) = SizeOf(x) /\ SizeOf(x) = x.end - x.start
    BY <1>1, <1>2, SpanFacts, RunFacts
  <2> QED BY <1>1, <1>2, <2>1 DEF Span, Blocks
<1>4. Covered({x}) = Span(x) /\ Covered({}) = {}
  BY DEF Covered, Span
<1>5. Canonical({x})
  BY <1>1, <1>2 DEF Canonical
<1>6. << >> \in Seq(Blocks) /\ Len(<< >>) = 0 /\ ToSet(<< >>) = {} /\ IsInjective(<< >>)
  BY DEF ToSet, IsInjective
<1>7. N >= Cardinality(Covered({x})) + Len(<< >>)
  BY <1>1, <1>3, <1>4, <1>6
<1>8. Pool({x}, << >>, N, {})
  <2>1. Apart({}) /\ Len(<< >>) <= MAX_CACHE_BLOCK_NUM
    BY <1>1, <1>6 DEF Apart
  <2>2. Covered({x}) = Blocks /\ Covered({x}) \cup ToSet(<< >>) \cup Covered({}) = Blocks
    BY <1>3, <1>4, <1>6
  <2>3. /\ Covered({x}) \cap ToSet(<< >>) = {} /\ Covered({x}) \cap Covered({}) = {}
        /\ ToSet(<< >>) \cap Covered({}) = {}
    BY <1>4, <1>6
  <2> QED BY <1>1, <1>2, <1>5, <1>6, <1>7, <2>1, <2>2, <2>3 DEF Pool
<1>9. tree = {x} /\ blocksCache = << >> /\ blockNum = N /\ owned = {} /\ Running
  BY DEF Init, x, Running
<1>10. RefusedOnlyWhenEmpty
  <2>1. ~(last.got < last.size)
    BY DEF Init, NoRequest
  <2> QED BY <2>1 DEF RefusedOnlyWhenEmpty
<1>11. ops \in 0 .. MaxOps
  BY <1>1 DEF Init
<1> QED BY <1>8, <1>9, <1>10, <1>11 DEF IInv

\* A pool at work after a step that asks for nothing.
LEMMA Undemanding ==
  ASSUME Running', Pool(tree, blocksCache, blockNum, owned)', ops' \in 0 .. MaxOps,
         last' = NoRequest
  PROVE  IInv'
<1>1. ~(last'.got < last'.size)
  BY DEF NoRequest
<1>2. RefusedOnlyWhenEmpty'
  BY <1>1 DEF RefusedOnlyWhenEmpty
<1> QED BY <1>2 DEF IInv

\* A pool at work after a request.
LEMMA Demanding ==
  ASSUME NEW kind, NEW n, NEW got, Running', ops' \in 0 .. MaxOps,
         Served(kind, n, got, tree', blocksCache', blockNum', owned'),
         last' = [kind |-> kind, size |-> n, got |-> Cardinality(Covered(got))]
  PROVE  IInv'
<1>1. last'.got = Cardinality(Covered(got)) /\ last'.size = n /\ last'.kind = kind
  OBVIOUS
<1>2. /\ Pool(tree', blocksCache', blockNum', owned')
      /\ Cardinality(Covered(got)) < n =>
           Covered(tree') = {} /\ (kind = "get" /\ n = 1 => blocksCache' = << >>)
  BY DEF Served
<1>3. RefusedOnlyWhenEmpty'
  BY <1>1, <1>2 DEF RefusedOnlyWhenEmpty
<1> QED BY <1>2, <1>3 DEF IInv

\* One operation more.
LEMMA StepFacts ==
  ASSUME ops \in 0 .. MaxOps, Step
  PROVE  ops' \in 0 .. MaxOps
BY PoolAssumption DEF Step

\* BlockPoolGet keeps the inductive invariant.
LEMMA GetIInv ==
  ASSUME IInv, NEW n \in Sizes, BlockPoolGet(n)
  PROVE  IInv'
<1>1. /\ n \in Nat /\ Running /\ Running' /\ ops' \in 0 .. MaxOps
      /\ Pool(tree, blocksCache, blockNum, owned)
  BY StepFacts, PoolAssumption DEF IInv, BlockPoolGet, Running
<1>2. CASE GetCached(n)
  <2> DEFINE keep == Len(blocksCache) - n
             got == ToSet(Singles(SubSeq(blocksCache, keep + 1, Len(blocksCache))))
  <2>1. /\ Len(blocksCache) >= n /\ blocksCache' = SubSeq(blocksCache, 1, keep)
        /\ owned' = owned \cup got /\ tree' = tree /\ blockNum' = blockNum
        /\ last' = [kind |-> "get", size |-> n, got |-> Cardinality(Covered(got))]
    BY <1>2 DEF GetCached, HandOut
  <2>2. /\ Pool(tree, SubSeq(blocksCache, 1, keep), blockNum, owned \cup got)
        /\ Cardinality(Covered(got)) = n
    BY <1>1, <2>1, GetCachedFacts
  <2> HIDE DEF keep, got
  <2>3. Pool(tree', blocksCache', blockNum', owned')
    BY <2>1, <2>2
  <2>4. Cardinality(Covered(got)) \in Nat /\ ~(Cardinality(Covered(got)) < n)
    BY <1>1, <2>2
  <2>5. Served("get", n, got, tree', blocksCache', blockNum', owned')
    BY <2>3, <2>4 DEF Served
  <2> QED BY <1>1, <2>1, <2>5, Demanding
<1>3. CASE GetPulled(n)
  <2>1. PICK pull : pull = ExtentTreeGet(tree, Half + n - Len(blocksCache))
    OBVIOUS
  <2>2. PICK all : all = blocksCache \o Unrolled(pull.container)
    OBVIOUS
  <2>3. PICK got : got = IF pull.container = << >> THEN << >>
                         ELSE SubSeq(all, 1, IF n <= Len(all) THEN n ELSE Len(all))
    OBVIOUS
  <2>4. /\ Len(blocksCache) < n
        /\ tree' = pull.tree
        /\ HandOut("get", n, ToSet(Singles(got)))
        /\ blocksCache' = IF pull.container = << >> THEN blocksCache
                          ELSE SubSeq(all, Len(got) + 1, Len(all))
        /\ blockNum' = blockNum - Len(got)
    BY <1>3, <2>1, <2>2, <2>3, Zenon DEF GetPulled
  <2>5. Served("get", n, ToSet(Singles(got)), pull.tree, blocksCache',
               blockNum - Len(got), owned \cup ToSet(Singles(got)))
    BY ONLY <1>1, <2>1, <2>2, <2>3, <2>4, GetPulledFacts
  <2> DEFINE x == ToSet(Singles(got))
  <2>6. /\ owned' = owned \cup x
        /\ last' = [kind |-> "get", size |-> n, got |-> Cardinality(Covered(x))]
    BY <2>4 DEF HandOut
  <2> HIDE DEF x
  <2>7. Served("get", n, x, tree', blocksCache', blockNum', owned')
    BY ONLY <2>4, <2>5, <2>6 DEF x
  <2> QED BY ONLY <1>1, <2>6, <2>7, Demanding
<1> QED BY <1>2, <1>3 DEF BlockPoolGet

\* BlockPoolExtentGet keeps it.
LEMMA ExtentGetIInv ==
  ASSUME IInv, NEW n \in Sizes, BlockPoolExtentGet(n)
  PROVE  IInv'
<1>1. /\ n \in Nat /\ Running /\ Running' /\ ops' \in 0 .. MaxOps
      /\ Pool(tree, blocksCache, blockNum, owned)
  BY StepFacts, PoolAssumption DEF IInv, BlockPoolExtentGet, Running
<1>2. PICK got : got = ExtentTreeGet(tree, n)
  OBVIOUS
<1> DEFINE x == ToSet(got.container)
<1>3. /\ tree' = got.tree /\ blocksCache' = blocksCache
      /\ blockNum' = blockNum - ContainerSize(got.container)
      /\ owned' = owned \cup x
      /\ last' = [kind |-> "extents", size |-> n, got |-> Cardinality(Covered(x))]
  BY <1>2 DEF BlockPoolExtentGet, HandOut
<1>4. Served("extents", n, x, got.tree, blocksCache,
             blockNum - ContainerSize(got.container), owned \cup x)
  BY <1>1, <1>2, ExtentGetFacts
<1> HIDE DEF x
<1>5. Served("extents", n, x, tree', blocksCache', blockNum', owned')
  BY <1>3, <1>4
<1> QED BY <1>1, <1>3, <1>5, Demanding

\* BlockPoolPut keeps it.
LEMMA PutIInv ==
  ASSUME IInv, NEW n \in Sizes, NEW s \in Arrays(OwnedSingles, n), BlockPoolPut(s)
  PROVE  IInv'
<1> DEFINE N == TotalBlockNum
<1>1. /\ n \in Nat /\ Running /\ Running' /\ ops' \in 0 .. MaxOps
      /\ Pool(tree, blocksCache, blockNum, owned)
  BY StepFacts, PoolAssumption DEF IInv, BlockPoolPut, Running
<1>2. s \in Seq(Blocks) /\ IsInjective(s)
  <2>1. \A x \in owned : x.start \in Blocks
    BY <1>1, RunFacts, PoolAssumption DEF Pool, Blocks
  <2>2. OwnedSingles \subseteq Blocks
    BY <2>1 DEF OwnedSingles
  <2>3. s \in [1 .. n -> Blocks] /\ \A i, j \in 1 .. n : s[i] = s[j] => i = j
    BY <2>2 DEF Arrays
  <2>4. DOMAIN s = 1 .. n
    BY <2>3
  <2> QED BY <1>1, <2>3, <2>4 DEF IsInjective
<1>3. /\ ToSet(Singles(s)) \subseteq owned /\ owned' = owned \ ToSet(Singles(s))
      /\ last' = NoRequest /\ blockNum' = blockNum + Len(s)
  BY DEF BlockPoolPut, TakeBack
<1>4. CASE Len(s) + Len(blocksCache) <= MAX_CACHE_BLOCK_NUM
  <2>1. blocksCache' = blocksCache \o s /\ tree' = tree
    BY <1>4 DEF BlockPoolPut
  <2>2. Pool(tree, blocksCache \o s, blockNum + Len(s), owned \ ToSet(Singles(s)))
    BY <1>1, <1>2, <1>3, <1>4, CachePutFacts
  <2>3. Pool(tree', blocksCache', blockNum', owned')
    BY <1>3, <2>1, <2>2
  <2> QED BY <1>1, <1>3, <2>3, Undemanding
<1>5. CASE ~(Len(s) + Len(blocksCache) <= MAX_CACHE_BLOCK_NUM)
  <2>1. PICK all : all = blocksCache \o s
    OBVIOUS
  <2>2. PICK out : out = Len(blocksCache) + Len(s) - Half
    OBVIOUS
  <2>3. PutOut(s)
    BY <1>5 DEF BlockPoolPut
  <2>4. /\ tree' = ExtentTreeBatchPut(tree, Singles(SubSeq(all, 1, out)))
        /\ blocksCache' = SubSeq(all, out + 1, Len(all))
    BY <2>1, <2>2, <2>3, Zenon DEF PutOut
  <2>5. Pool(ExtentTreeBatchPut(tree, Singles(SubSeq(all, 1, out))),
             SubSeq(all, out + 1, Len(all)), blockNum + Len(s),
             owned \ ToSet(Singles(s)))
    BY ONLY <1>1, <1>2, <1>3, <1>5, <2>1, <2>2, PutOutFacts
  <2>6. Pool(tree', blocksCache', blockNum', owned')
    BY <1>3, <2>4, <2>5
  <2> QED BY <1>1, <1>3, <2>6, Undemanding
<1> QED BY <1>4, <1>5

\* BlockPoolExtentPut keeps it.
LEMMA ExtentPutIInv ==
  ASSUME IInv, NEW n \in Sizes, NEW c \in Arrays(owned, n), BlockPoolExtentPut(c)
  PROVE  IInv'
<1> DEFINE N == TotalBlockNum
<1>1. /\ n \in Nat /\ Running /\ Running' /\ ops' \in 0 .. MaxOps
      /\ Pool(tree, blocksCache, blockNum, owned)
  BY StepFacts, PoolAssumption DEF IInv, BlockPoolExtentPut, Running
<1>2. c \in Seq(Runs(N)) /\ NoOverlap(c)
  <2>1. owned \in SUBSET Runs(N) /\ Apart(owned)
    BY <1>1 DEF Pool
  <2>2. c \in [1 .. n -> owned] /\ \A i, j \in 1 .. n : c[i] = c[j] => i = j
    BY DEF Arrays
  <2>3. c \in Seq(Runs(N)) /\ Len(c) = n
    BY <1>1, <2>1, <2>2
  <2>4. ASSUME NEW i \in 1 .. n, NEW j \in 1 .. n, i # j PROVE Disjoint(c[i], c[j])
    BY <2>1, <2>2, <2>4 DEF Apart
  <2> QED BY <2>3, <2>4 DEF NoOverlap
<1>3. /\ ToSet(c) \subseteq owned /\ owned' = owned \ ToSet(c) /\ last' = NoRequest
      /\ blockNum' = blockNum + ContainerSize(c) /\ blocksCache' = blocksCache
      /\ tree' = ExtentTreeBatchPut(tree, c)
  BY DEF BlockPoolExtentPut, TakeBack
<1>4. Pool(ExtentTreeBatchPut(tree, c), blocksCache, blockNum + ContainerSize(c),
           owned \ ToSet(c))
  BY <1>1, <1>2, <1>3, ExtentPutFacts
<1>5. Pool(tree', blocksCache', blockNum', owned')
  BY <1>3, <1>4
<1> QED BY <1>1, <1>3, <1>5, Undemanding

\* No recovery tells the mark of a pool at work.
LEMMA NotRunning ==
  ASSUME NEW S \in SUBSET Runs(TotalBlockNum)
  PROVE  S # NotRecovering
<1>1. NoExtent \notin Runs(TotalBlockNum)
  BY RunFacts, PoolAssumption
<1> QED BY <1>1 DEF NotRecovering

\* A pool that is rebuilt.
LEMMA Recovering ==
  ASSUME Rebuilding', ops' \in 0 .. MaxOps
  PROVE  IInv'
<1>1. told' \in SUBSET Runs(TotalBlockNum)
  BY DEF Rebuilding
<1>2. ~Running'
  BY <1>1, NotRunning DEF Running
<1> QED BY <1>2 DEF IInv, RefusedOnlyWhenEmpty

\* A crash and BlockPoolRecoveryInit keep it.
LEMMA RecoveryInitIInv ==
  ASSUME IInv, NEW lost \in SUBSET owned, BlockPoolRecoveryInit(lost)
  PROVE  IInv'
<1>1. /\ Running /\ ops' \in 0 .. MaxOps
      /\ owned \in SUBSET Runs(TotalBlockNum) /\ Apart(owned)
  BY StepFacts DEF IInv, BlockPoolRecoveryInit, Pool
<1>2. /\ tree' = {} /\ blocksCache' = << >> /\ blockNum' = 0 /\ told' = {}
      /\ last' = NoRequest /\ owned' = owned \ lost
  BY DEF BlockPoolRecoveryInit
<1>3. Canonical({}) /\ Apart(owned \ lost)
  BY <1>1 DEF Canonical, Apart
<1>4. Rebuilding'
  BY <1>1, <1>2, <1>3 DEF Rebuilding
<1> QED BY <1>1, <1>4, Recovering

\* BlockPoolRecoveryNotifyBlockBusy keeps it.
LEMMA NotifyIInv ==
  ASSUME IInv, NEW x \in owned, BlockPoolRecoveryNotifyBlockBusy(x)
  PROVE  IInv'
<1> DEFINE N == TotalBlockNum
           new == ExtentTreePut(tree, x.start, x.end)
<1>1. /\ Rebuilding /\ ops' \in 0 .. MaxOps /\ x \in owned \ told
      /\ tree' = new /\ told' = told \cup {x}
      /\ blocksCache' = blocksCache /\ blockNum' = blockNum /\ owned' = owned
      /\ last' = last
  BY DEF IInv, BlockPoolRecoveryNotifyBlockBusy
<1>2. /\ N \in Nat /\ tree \in SUBSET Runs(N) /\ Canonical(tree)
      /\ owned \in SUBSET Runs(N) /\ Apart(owned)
      /\ told \subseteq owned /\ Covered(tree) = Covered(told)
      /\ blocksCache = << >> /\ blockNum = 0 /\ last = NoRequest
  BY <1>1, PoolAssumption DEF Rebuilding
<1>3. \A y \in tree : Disjoint(x, y)
  <2>1. \A y \in told : Disjoint(x, y)
    BY <1>1, <1>2 DEF Apart
  <2>2. told \in SUBSET Runs(N) /\ x \in Runs(N)
    BY <1>2
  <2>3. Span(x) \cap Covered(told) = {}
    BY <1>2, <2>1, <2>2, ApartFacts
  <2>4. Span(x) \cap Covered(tree) = {}
    BY <1>2, <2>3
  <2> QED BY <1>2, <2>2, <2>4, ApartFacts
<1>4. Grown(N, tree, x.start .. x.end - 1, SizeOf(x), new)
  BY <1>2, <1>3, TreePutFacts
<1> HIDE DEF new
<1>5. new \in SUBSET Runs(N) /\ Canonical(new) /\ Covered(new) = Covered(tree) \cup Span(x)
  BY <1>4 DEF Grown, Span
<1>6. Covered(told \cup {x}) = Covered(told) \cup Span(x)
  BY DEF Covered, Span
<1>7. Rebuilding'
  BY <1>1, <1>2, <1>5, <1>6 DEF Rebuilding
<1> QED BY <1>1, <1>7, Recovering

\* BlockPoolRecoveryEnd keeps it.
LEMMA RecoveryEndIInv ==
  ASSUME IInv, BlockPoolRecoveryEnd
  PROVE  IInv'
<1> DEFINE N == TotalBlockNum
           new == ExtentTreeReverseHolesAndExtents(tree, N)
<1>1. /\ Rebuilding /\ ops' \in 0 .. MaxOps /\ told = owned
      /\ tree' = new /\ Running' /\ blockNum' = N - blockNum
      /\ blocksCache' = blocksCache /\ owned' = owned /\ last' = last
  BY DEF IInv, BlockPoolRecoveryEnd, Running
<1>2. /\ N \in Nat /\ tree \in SUBSET Runs(N) /\ Canonical(tree)
      /\ owned \in SUBSET Runs(N) /\ Apart(owned)
      /\ Covered(tree) = Covered(owned)
      /\ blocksCache = << >> /\ blockNum = 0 /\ last = NoRequest
      /\ Blocks = 0 .. N - 1 /\ MAX_CACHE_BLOCK_NUM \in Nat
  BY <1>1, PoolAssumption DEF Rebuilding, Blocks
<1>3. new \in SUBSET Runs(N) /\ Canonical(new) /\ Covered(new) = Blocks \ Covered(owned)
  BY <1>2, ReverseFacts
<1> HIDE DEF new
<1>4. N \in Nat /\ N >= Cardinality(Covered(new))
  <2>1. IsFiniteSet(0 .. N - 1) /\ Cardinality(0 .. N - 1) = N
    <3>1. 0 \in Int /\ N - 1 \in Int
      BY <1>2
    <3>2. /\ IsFiniteSet(0 .. N - 1)
          /\ Cardinality(0 .. N - 1) = IF 0 > N - 1 THEN 0 ELSE (N - 1) - 0 + 1
      BY <3>1, FS_Interval
    <3> QED BY <1>2, <3>2
  <2>2. Covered(new) \in SUBSET (0 .. N - 1)
    BY <1>2, <1>3
  <2>3. Cardinality(Covered(new)) <= Cardinality(0 .. N - 1)
    BY <2>1, <2>2, FS_Subset
  <2>4. Cardinality(Covered(new)) \in Nat
    BY <1>2, <1>3, CoveredFacts
  <2> QED BY <1>2, <2>1, <2>3, <2>4
<1>5. << >> \in Seq(Blocks) /\ Len(<< >>) = 0 /\ ToSet(<< >>) = {} /\ IsInjective(<< >>)
  BY DEF ToSet, IsInjective
<1>6. /\ Covered(new) \cup ToSet(<< >>) \cup Covered(owned) = Blocks
      /\ Covered(new) \cap ToSet(<< >>) = {} /\ Covered(new) \cap Covered(owned) = {}
      /\ ToSet(<< >>) \cap Covered(owned) = {}
  <2>1. Covered(owned) \subseteq Blocks
    BY <1>2, CoveredFacts
  <2> QED BY <1>3, <1>5, <2>1
<1>7. N >= Cardinality(Covered(new)) + Len(<< >>)
  <2>1. Cardinality(Covered(new)) \in Nat
    BY <1>2, <1>3, CoveredFacts
  <2> QED BY <1>4, <1>5, <2>1
<1>8. Pool(new, << >>, N, owned)
  <2>1. Len(<< >>) <= MAX_CACHE_BLOCK_NUM
    BY <1>2, <1>5
  <2> QED BY <1>2, <1>3, <1>5, <1>6, <1>7, <2>1 DEF Pool
<1>9. Pool(tree', blocksCache', blockNum', owned')
  <2>1. blockNum' = N /\ blocksCache' = << >>
    BY <1>1, <1>2
  <2> QED BY <1>1, <1>8, <2>1
<1> QED BY <1>1, <1>2, <1>9, Undemanding

\* Every step keeps the inductive invariant.
LEMMA NextIInv == IInv /\ [Next]_vars => IInv'
<1> SUFFICES ASSUME IInv, [Next]_vars PROVE IInv'
  OBVIOUS
<1>1. CASE \E n \in Sizes : BlockPoolGet(n)
  BY <1>1, GetIInv
<1>2. CASE \E n \in Sizes : BlockPoolExtentGet(n)
  BY <1>2, ExtentGetIInv
<1>3. CASE \E n \in Sizes : \E s \in Arrays(OwnedSingles, n) : BlockPoolPut(s)
  BY <1>3, PutIInv
<1>4. CASE \E n \in Sizes : \E c \in Arrays(owned, n) : BlockPoolExtentPut(c)
  BY <1>4, ExtentPutIInv
<1>5. CASE \E lost \in SUBSET owned : BlockPoolRecoveryInit(lost)
  BY <1>5, RecoveryInitIInv
<1>6. CASE \E x \in owned : BlockPoolRecoveryNotifyBlockBusy(x)
  BY <1>6, NotifyIInv
<1>7. CASE BlockPoolRecoveryEnd
  BY <1>7, RecoveryEndIInv
<1>8. CASE UNCHANGED vars
  BY <1>8 DEF vars, IInv, Running, Rebuilding, RefusedOnlyWhenEmpty
<1> QED BY <1>1, <1>2, <1>3, <1>4, <1>5, <1>6, <1>7, <1>8 DEF Next

\* The inductive invariant holds throughout.
THEOREM Invariance == Spec => []IInv
<1> QED BY InitIInv, NextIInv, PTL DEF Spec

\* The inductive invariant has all that PoolInv asks.
LEMMA IInvPool == IInv => PoolInv
<1> SUFFICES ASSUME IInv PROVE PoolInv
  OBVIOUS
<1> DEFINE N == TotalBlockNum
<1>1. N \in Nat /\ MAX_CACHE_BLOCK_NUM \in Nat /\ Blocks = 0 .. N - 1
  BY PoolAssumption DEF Blocks
<1>2. Runs(N) \subseteq Extents /\ NoExtent \in Extents
  <2>1. ASSUME NEW y \in Runs(N) PROVE y \in Extents
    BY <1>1 DEF Runs, Extents
  <2> QED BY <1>1, <2>1 DEF NoExtent, Extent, Extents
<1>3. CASE Running
  <2>1. Pool(tree, blocksCache, blockNum, owned) /\ ops \in 0 .. MaxOps
    BY <1>3 DEF IInv
  <2>2. told \subseteq Extents
    BY <1>2, <1>3 DEF Running, NotRecovering
  <2>3. TypeOK
    BY <1>2, <2>1, <2>2 DEF TypeOK, Pool
  <2>4. BlocksPartitioned
    BY <2>1 DEF BlocksPartitioned, Pool, Cached
  <2>5. TreeMerged
    BY <2>1 DEF TreeMerged, Pool
  <2> QED BY <2>3, <2>4, <2>5 DEF PoolInv
<1>4. CASE ~Running
  <2>1. Rebuilding /\ ops \in 0 .. MaxOps
    BY <1>4 DEF IInv
  <2>2. << >> \in Seq(Blocks) /\ Len(<< >>) <= MAX_CACHE_BLOCK_NUM
    BY <1>1
  <2>3. TypeOK
    BY <1>2, <2>1, <2>2 DEF TypeOK, Rebuilding
  <2>4. BlocksPartitioned /\ TreeMerged
    BY <1>4, <2>1 DEF BlocksPartitioned, TreeMerged, Rebuilding
  <2> QED BY <2>3, <2>4 DEF PoolInv
<1> QED BY <1>3, <1>4

\* However many blocks there are, whatever is asked for and however often the
\* pool is rebuilt after a crash: every block is free in the tree, free in the
\* cache or owned by one caller, the cache keeps within its array and the free
\* runs of the tree are joined.
THEOREM PoolSafe == Spec => []PoolInv
<1> QED BY Invariance, IInvPool, PTL

\* blockNum never understates the free blocks.
THEOREM CountSafe == Spec => []CountNeverShort
<1>1. IInv => CountNeverShort
  BY DEF IInv, CountNeverShort, Pool
<1> QED BY <1>1, Invariance, PTL

\* A request falls short only when nothing more is there.
THEOREM RefusalSafe == Spec => []RefusedOnlyWhenEmpty
<1>1. IInv => RefusedOnlyWhenEmpty
  BY DEF IInv
<1> QED BY <1>1, Invariance, PTL
=============================================================================
