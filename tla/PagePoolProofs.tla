--------------------------- MODULE PagePoolProofs ---------------------------
(***************************************************************************)
(* TLAPS proofs about PagePool, for every number of threads, blocks and    *)
(* pages of a block: whatever the interleaving, a page is in one place.    *)
(***************************************************************************)
EXTENDS PagePool, SharedLemmas, FiniteSetTheorems

Labels == {"idle", "get", "split", "add", "count", "new", "insert", "merge",
           "put", "clear"}

InSub(subs, s, p) == s \in DOMAIN subs /\ p \in subs[s].free

\* Page p is with holder n of kind k.
Holds(k, n, p) ==
  \/ k = "user" /\ n = p /\ handed[p] > 0
  \/ k = "thread" /\ n \in Threads /\ page[n] = p
  \/ k = "sub" /\ InSub(sub, n, p)
  \/ k = "block" /\ n \in Threads /\ BlockInHand(n, p[1])
  \/ k = "pool" /\ n = p[1] /\ p[1] \in blockPool

\* It is with that holder only; it has one holder.
IsAt(p, k, n) == \A j, m : Holds(j, m, p) <=> j = k /\ m = n
OnePlace(p) == handed[p] <= 1 /\ \E k, n : IsAt(p, k, n)

\* Sub-pools, list, tree and counter of a pool fit together.  Two sub-pools may
\* be of one block: the tree knows the younger one at most.
Fit(subs, list, trie, num) ==
  /\ DOMAIN subs \subseteq SubPools
  /\ subs \in [DOMAIN subs ->
                 [block : Blocks, free : SUBSET Pages, count : Nat]]
  /\ \A s \in DOMAIN subs :
       /\ subs[s].free \subseteq PagesOf(subs[s].block)
       /\ subs[s].count = Cardinality(subs[s].free)
       /\ Contains(list, s)
  /\ list \in Seq(DOMAIN subs) /\ num = Len(list)
  /\ \A m, n \in DOMAIN list : list[m] = list[n] => m = n
  /\ trie \in [Blocks -> DOMAIN subs \cup {NoSub}]
  /\ \A b \in Blocks : trie[b] # NoSub => subs[trie[b]].block = b

\* What is out of the block pool is split, and its tree slot has nodes, from
\* the split to the merge.
Grain ==
  /\ blockPool \cap fineGrain = {} /\ fineGrain \subseteq nodes
  /\ \A p \in Pages : handed[p] > 0 => p[1] \in fineGrain
  /\ \A s \in DOMAIN sub : sub[s].block \in fineGrain
  /\ \A t \in Threads :
       /\ page[t] # NoPage => page[t][1] \in fineGrain
       /\ pc[t] \in {"split", "put"} => block[t] \notin fineGrain
       /\ pc[t] \in {"add", "merge"} => block[t] \in fineGrain
       /\ pc[t] \in {"put", "clear"} => block[t] \in nodes

\* What a thread has in its hands.
Hands(t) ==
  /\ pc[t] \in {"split", "add", "merge", "put", "clear"} => block[t] \in Blocks
  /\ pc[t] \in {"count", "new", "insert"} => page[t] # NoPage
  /\ page[t] # NoPage => pc[t] \in {"count", "new", "insert", "merge", "put"}

Types ==
  /\ blockPool \subseteq Blocks
  /\ fineGrain \subseteq Blocks
  /\ nodes \subseteq Blocks
  /\ pageNum \in Int
  /\ handed \in [Pages -> Nat]
  /\ pc \in [Threads -> Labels]
  /\ page \in [Threads -> Pages \cup {NoPage}]
  /\ block \in [Threads -> Blocks \cup {NoBlock}]
  /\ ops \in 0 .. MaxOps /\ alone \in BOOLEAN

IInv ==
  /\ Types
  /\ Fit(sub, nonFull, tree, subPoolNum)
  /\ \A s \in DOMAIN sub : sub[s].free # {}
  /\ Grain
  /\ \A t \in Threads : Hands(t)
  /\ \A p \in Pages : OnePlace(p)

-----------------------------------------------------------------------------
\* The pages of a block, and the page that is none.
LEMMA PageFacts ==
  /\ NoPage \notin Pages
  /\ \A p \in Pages : p[1] \in Blocks /\ p \in PagesOf(p[1])
  /\ \A b \in Blocks :
       /\ PagesOf(b) \subseteq Pages /\ \A p \in PagesOf(b) : p[1] = b
       /\ IsFiniteSet(PagesOf(b)) /\ Cardinality(PagesOf(b)) = PAGES
       /\ PagesOf(b) # {}
<1>1. NoPage \notin Pages
  BY PoolAssumption DEF Pages, NoPage
<1>2. \A p \in Pages : p[1] \in Blocks /\ p \in PagesOf(p[1])
  BY DEF Pages, PagesOf
<1>3. ASSUME NEW b \in Blocks
      PROVE  /\ PagesOf(b) \subseteq Pages /\ \A p \in PagesOf(b) : p[1] = b
             /\ IsFiniteSet(PagesOf(b)) /\ Cardinality(PagesOf(b)) = PAGES
             /\ PagesOf(b) # {}
  <2>1. PagesOf(b) \subseteq Pages /\ \A p \in PagesOf(b) : p[1] = b
    BY DEF Pages, PagesOf
  <2>2. IsFiniteSet({b}) /\ Cardinality({b}) = 1
    BY FS_Singleton
  <2>3. IsFiniteSet(1 .. PAGES) /\ Cardinality(1 .. PAGES) = PAGES
    BY PoolAssumption, FS_Interval
  <2>4. IsFiniteSet(PagesOf(b)) /\ Cardinality(PagesOf(b)) = 1 * PAGES
    <3>1. /\ IsFiniteSet({b} \X (1 .. PAGES))
          /\ Cardinality({b} \X (1 .. PAGES)) =
               Cardinality({b}) * Cardinality(1 .. PAGES)
      BY <2>2, <2>3, FS_Product
    <3> QED BY <2>2, <2>3, <3>1 DEF PagesOf
  <2>5. <<b, 1>> \in PagesOf(b)
    BY PoolAssumption DEF PagesOf
  <2> QED BY <2>1, <2>4, <2>5, PoolAssumption
<1> QED BY <1>1, <1>2, <1>3

\* A sub-pool that leaves the pool takes only itself along.
LEMMA DropFacts ==
  ASSUME NEW subs, NEW list, NEW trie, NEW num, NEW s \in DOMAIN subs,
         Fit(subs, list, trie, num)
  PROVE  /\ Fit([x \in DOMAIN subs \ {s} |-> subs[x]], RemoveFirst(list, s),
                RadixTreeSet(trie, subs[s].block, NoSub), num - 1)
         /\ num \in Nat \ {0}
<1> DEFINE rest == [x \in DOMAIN subs \ {s} |-> subs[x]]
           slot == RadixTreeSet(trie, subs[s].block, NoSub)
           short == RemoveFirst(list, s)
<1>1. /\ short \in Seq(DOMAIN subs)
      /\ \A m, n \in DOMAIN short : short[m] = short[n] => m = n
      /\ \A e : Contains(short, e) <=> Contains(list, e) /\ e # s
      /\ Len(short) = Len(list) - 1
  BY RemoveFirstFacts DEF Fit
<1> HIDE DEF short
<1>2. short \in Seq(DOMAIN rest)
  <2>1. \A i \in 1 .. Len(short) : short[i] \in DOMAIN subs \ {s}
    <3> TAKE i \in 1 .. Len(short)
    <3>1. Contains(short, short[i])
      BY DEF Contains
    <3>2. short[i] # s
      BY <1>1, <3>1
    <3> QED BY <1>1, <3>2
  <2>2. short \in Seq(DOMAIN subs \ {s})
    BY <1>1, <2>1, SeqDef
  <2> QED BY <2>2
<1>3. num \in Nat \ {0}
  <2>1. list \in Seq(DOMAIN subs) /\ Contains(list, s) /\ num = Len(list)
    BY DEF Fit
  <2> QED BY <2>1 DEF Contains
<1>4. slot \in [Blocks -> DOMAIN rest \cup {NoSub}]
      /\ \A b \in Blocks : slot[b] # NoSub => rest[slot[b]].block = b
  <2>1. trie \in [Blocks -> DOMAIN subs \cup {NoSub}] /\ subs[s].block \in Blocks
        /\ \A b \in Blocks : trie[b] # NoSub => subs[trie[b]].block = b
    BY DEF Fit
  <2>2. \A b \in Blocks : slot[b] = IF b = subs[s].block THEN NoSub ELSE trie[b]
    BY <2>1 DEF RadixTreeSet
  <2>3. \A b \in Blocks : slot[b] # NoSub => slot[b] = trie[b] /\ slot[b] # s
    BY <2>1, <2>2
  <2>4. slot \in [Blocks -> DOMAIN subs \cup {NoSub}]
    BY <2>1 DEF RadixTreeSet
  <2> HIDE DEF slot
  <2>5. \A b \in Blocks : slot[b] # NoSub => slot[b] \in DOMAIN rest
    BY <2>1, <2>3
  <2> QED BY <2>1, <2>3, <2>4, <2>5
<1> HIDE DEF slot
<1>5. /\ DOMAIN rest \subseteq SubPools
      /\ rest \in [DOMAIN rest -> [block : Blocks, free : SUBSET Pages,
                                   count : Nat]]
      /\ \A x \in DOMAIN rest : rest[x] = subs[x] /\ x \in DOMAIN subs /\ x # s
  BY DEF Fit
<1> HIDE DEF rest
<1>6. \A x \in DOMAIN rest : /\ rest[x].free \subseteq PagesOf(rest[x].block)
                             /\ rest[x].count = Cardinality(rest[x].free)
                             /\ Contains(short, x)
  BY <1>1, <1>5 DEF Fit
<1>7. num - 1 = Len(short)
  BY <1>1 DEF Fit
<1>8. Fit(rest, short, slot, num - 1)
  BY <1>1, <1>2, <1>4, <1>5, <1>6, <1>7 DEF Fit
<1> QED BY <1>3, <1>8 DEF rest, slot, short

SubRec == [block : Blocks, free : SUBSET Pages, count : Nat]

\* A change of one bitmap, counted.
LEMMA BitmapFacts ==
  ASSUME NEW subs, NEW list, NEW trie, NEW num, NEW s \in DOMAIN subs,
         Fit(subs, list, trie, num), NEW F \in SUBSET PagesOf(subs[s].block),
         NEW c, c = Cardinality(F),
         NEW new \in [DOMAIN subs -> SubRec],
         new[s].block = subs[s].block, new[s].free = F, new[s].count = c,
         \A x \in DOMAIN subs \ {s} : new[x] = subs[x]
  PROVE  Fit(new, list, trie, num)
<1>1. \A x \in DOMAIN subs : new[x].block = subs[x].block
  OBVIOUS
<1>2. \A x \in DOMAIN new : /\ new[x].free \subseteq PagesOf(new[x].block)
                            /\ new[x].count = Cardinality(new[x].free)
                            /\ Contains(list, x)
  BY <1>1 DEF Fit
<1>3. \A b \in Blocks : trie[b] # NoSub => new[trie[b]].block = b
  BY <1>1 DEF Fit
<1> QED BY <1>2, <1>3 DEF Fit, SubRec

\* The size of a bitmap's set of free pages.
LEMMA CountFacts ==
  ASSUME NEW b \in Blocks, NEW F \in SUBSET PagesOf(b)
  PROVE  LET c == Cardinality(F)
         IN /\ IsFiniteSet(F) /\ F \in SUBSET Pages
            /\ c \in Nat /\ c <= PAGES /\ (c = 0 <=> F = {})
            /\ c = PAGES => F = PagesOf(b)
<1>1. IsFiniteSet(F) /\ Cardinality(F) <= PAGES
      /\ (Cardinality(F) = PAGES => F = PagesOf(b))
  BY PageFacts, FS_Subset
<1>2. Cardinality(F) \in Nat /\ (Cardinality(F) = 0 <=> F = {})
  BY <1>1, FS_CardinalityType, FS_EmptySet
<1>3. F \in SUBSET Pages
  BY PageFacts
<1> QED BY <1>1, <1>2, <1>3

\* AllocFrom takes one free page out of sub-pool s, and a sub-pool it has
\* emptied out of the pool.
LEMMA AllocFacts ==
  ASSUME NEW t, NEW subs, NEW list, NEW trie, NEW num, NEW s \in DOMAIN subs,
         Fit(subs, list, trie, num), \A x \in DOMAIN subs : subs[x].free # {},
         AllocFrom(t, s, subs, list, trie, num)
  PROVE  /\ Fit(sub', nonFull', tree', subPoolNum')
         /\ \A x \in DOMAIN sub' : /\ sub'[x].free # {}
                                   /\ x \in DOMAIN subs
                                   /\ sub'[x].block = subs[x].block
         /\ \E p \in subs[s].free :
              /\ page' = [page EXCEPT ![t] = p]
              /\ \A x, q : InSub(sub', x, q) <=>
                             InSub(subs, x, q) /\ ~(x = s /\ q = p)
<1>1. PICK p \in subs[s].free :
        LET left == [subs EXCEPT ![s].free = @ \ {p}, ![s].count = @ - 1]
        IN /\ page' = [page EXCEPT ![t] = p]
           /\ IF left[s].count = 0
              THEN /\ sub' = [x \in DOMAIN left \ {s} |-> left[x]]
                   /\ nonFull' = RemoveFirst(list, s)
                   /\ tree' = RadixTreeSet(trie, subs[s].block, NoSub)
                   /\ subPoolNum' = num - 1
              ELSE /\ sub' = left
                   /\ nonFull' = list
                   /\ tree' = trie
                   /\ subPoolNum' = num
  BY DEF AllocFrom
<1> DEFINE F == subs[s].free \ {p}
           c == subs[s].count - 1
           left == [subs EXCEPT ![s].free = F, ![s].count = c]
<1>2. /\ subs[s].free \subseteq PagesOf(subs[s].block)
      /\ subs[s].count = Cardinality(subs[s].free)
      /\ subs[s].block \in Blocks
  BY DEF Fit
<1>3. F \in SUBSET PagesOf(subs[s].block) /\ c = Cardinality(F)
  <2>1. IsFiniteSet(subs[s].free)
    BY <1>2, CountFacts
  <2>2. Cardinality(subs[s].free \ {p}) = Cardinality(subs[s].free) - 1
    BY <2>1, FS_RemoveElement
  <2> QED BY <1>2, <2>2
<1>4. left = [subs EXCEPT ![s].free = @ \ {p}, ![s].count = @ - 1]
  OBVIOUS
<1> HIDE DEF F, c
<1>C. c \in Nat /\ (c = 0 <=> F = {}) /\ F \in SUBSET Pages
  BY <1>2, <1>3, CountFacts
<1>D. subs \in [DOMAIN subs -> SubRec]
  BY DEF Fit, SubRec
<1>E. /\ left \in [DOMAIN subs -> SubRec] /\ left[s].block = subs[s].block
      /\ left[s].free = F /\ left[s].count = c
      /\ \A x \in DOMAIN subs \ {s} : left[x] = subs[x]
  BY <1>C, <1>D DEF SubRec
<1> HIDE DEF left
<1>F. Fit(left, list, trie, num)
  BY <1>3, <1>E, BitmapFacts
<1>5. /\ Fit(left, list, trie, num) /\ DOMAIN left = DOMAIN subs
      /\ c \in Nat /\ (c = 0 <=> F = {})
      /\ left[s].free = F /\ left[s].count = c
      /\ \A x \in DOMAIN subs : /\ left[x].block = subs[x].block
                                /\ x # s => left[x] = subs[x]
  BY <1>C, <1>E, <1>F
<1>6. page' = [page EXCEPT ![t] = p]
  BY <1>1
<1>7. /\ left[s].count = 0 =>
           /\ sub' = [x \in DOMAIN left \ {s} |-> left[x]]
           /\ nonFull' = RemoveFirst(list, s)
           /\ tree' = RadixTreeSet(trie, subs[s].block, NoSub)
           /\ subPoolNum' = num - 1
      /\ left[s].count # 0 => /\ sub' = left
                              /\ nonFull' = list
                              /\ tree' = trie
                              /\ subPoolNum' = num
  BY <1>1, <1>4
<1>8. \A x, q : InSub(left, x, q) <=> InSub(subs, x, q) /\ ~(x = s /\ q = p)
  BY <1>5 DEF InSub, F
<1>9. CASE c = 0
  <2>1. Fit(sub', nonFull', tree', subPoolNum')
    <3>1. left[s].block = subs[s].block /\ s \in DOMAIN left
      BY <1>5
    <3>2. Fit([x \in DOMAIN left \ {s} |-> left[x]], RemoveFirst(list, s),
              RadixTreeSet(trie, left[s].block, NoSub), num - 1)
      BY <1>5, <3>1, DropFacts
    <3> QED BY <1>5, <1>7, <1>9, <3>1, <3>2
  <2>2. \A x : x \in DOMAIN sub' <=> x \in DOMAIN subs /\ x # s
    BY <1>5, <1>7, <1>9
  <2>3. \A x \in DOMAIN sub' : sub'[x] = subs[x]
    BY <1>5, <1>7, <1>9
  <2>4. \A x, q : InSub(sub', x, q) <=> InSub(subs, x, q) /\ x # s
    BY <2>2, <2>3 DEF InSub
  <2>5. \A q : ~InSub(left, s, q)
    BY <1>5, <1>9 DEF InSub
  <2>6. \A x, q : InSub(sub', x, q) <=>
                    InSub(subs, x, q) /\ ~(x = s /\ q = p)
    BY <1>8, <2>4, <2>5
  <2> QED BY <1>6, <2>1, <2>2, <2>3, <2>6
<1>10. CASE c # 0
  <2>1. sub' = left /\ Fit(sub', nonFull', tree', subPoolNum')
    BY <1>5, <1>7, <1>10
  <2>2. \A x \in DOMAIN sub' : /\ sub'[x].free # {}
                               /\ x \in DOMAIN subs
                               /\ sub'[x].block = subs[x].block
    BY <1>5, <1>10, <2>1
  <2> QED BY <1>6, <1>8, <2>1, <2>2
<1> QED BY <1>9, <1>10

\* What FreeInto does to the pool: the page stays in sub-pool s, or with it the
\* block is whole and leaves the pool for the thread.
PageStored(t, p, s, subs) ==
  /\ Goto(t, "idle") /\ block' = block /\ pageNum' = pageNum + 1
  /\ \A x, q : InSub(sub', x, q) <=> InSub(subs, x, q) \/ (x = s /\ q = p)

BlockLeaves(t, p, s, subs) ==
  /\ Goto(t, "merge") /\ block' = [block EXCEPT ![t] = subs[s].block]
  /\ pageNum' = pageNum + 1 - PAGES
  /\ subs[s].free \cup {p} = PagesOf(subs[s].block)
  /\ \A x, q : InSub(sub', x, q) <=> InSub(subs, x, q) /\ x # s

\* FreeInto puts a page into sub-pool s; a whole block may leave the pool.
LEMMA FreeFacts ==
  ASSUME NEW t, NEW subs, NEW list, NEW trie, NEW num, NEW s \in DOMAIN subs,
         Fit(subs, list, trie, num),
         \A x \in DOMAIN subs \ {s} : subs[x].free # {},
         NEW p \in PagesOf(subs[s].block) \ subs[s].free,
         FreeInto(t, p, s, subs, list, trie, num), pageNum \in Int
  PROVE  /\ Fit(sub', nonFull', tree', subPoolNum') /\ pageNum' \in Int
         /\ \A x \in DOMAIN sub' : /\ sub'[x].free # {}
                                   /\ x \in DOMAIN subs
                                   /\ sub'[x].block = subs[x].block
         /\ page' = [page EXCEPT ![t] = NoPage]
         /\ PageStored(t, p, s, subs) \/ BlockLeaves(t, p, s, subs)
<1> DEFINE F == subs[s].free \cup {p}
           c == subs[s].count + 1
           more == [subs EXCEPT ![s].free = F, ![s].count = c]
           b == subs[s].block
           gone == c = PAGES /\ num >= KEEP
<1>1. /\ subs[s].free \subseteq PagesOf(b)
      /\ subs[s].count = Cardinality(subs[s].free)
      /\ b \in Blocks
  BY DEF Fit
<1>2. F \in SUBSET PagesOf(b) /\ c = Cardinality(F)
  <2>1. IsFiniteSet(subs[s].free)
    BY <1>1, CountFacts
  <2>2. Cardinality(subs[s].free \cup {p}) = Cardinality(subs[s].free) + 1
    BY <2>1, FS_AddElement
  <2> QED BY <1>1, <2>2
<1>3. more = [subs EXCEPT ![s].free = @ \cup {p}, ![s].count = @ + 1]
  OBVIOUS
<1> HIDE DEF F, c
<1>C. c \in Nat /\ (c = PAGES => F = PagesOf(b)) /\ F \in SUBSET Pages
  BY <1>1, <1>2, CountFacts
<1>D. subs \in [DOMAIN subs -> SubRec]
  BY DEF Fit, SubRec
<1>E. /\ more \in [DOMAIN subs -> SubRec] /\ more[s].block = subs[s].block
      /\ more[s].free = F /\ more[s].count = c
      /\ \A x \in DOMAIN subs \ {s} : more[x] = subs[x]
  BY <1>C, <1>D DEF SubRec
<1> HIDE DEF more
<1>F. Fit(more, list, trie, num)
  BY <1>2, <1>E, BitmapFacts
<1>4. /\ Fit(more, list, trie, num) /\ DOMAIN more = DOMAIN subs
      /\ c \in Nat /\ (c = PAGES => F = PagesOf(b))
      /\ more[s].free = F /\ more[s].count = c
      /\ \A x \in DOMAIN subs : /\ more[x].block = subs[x].block
                                /\ x # s => more[x] = subs[x]
  BY <1>C, <1>E, <1>F
<1>5. page' = [page EXCEPT ![t] = NoPage]
  BY DEF FreeInto
<1>6. gone => /\ sub' = [x \in DOMAIN more \ {s} |-> more[x]]
              /\ nonFull' = RemoveFirst(list, s)
              /\ tree' = RadixTreeSet(trie, b, NoSub)
              /\ subPoolNum' = num - 1
              /\ pageNum' = pageNum + 1 - PAGES
              /\ block' = [block EXCEPT ![t] = b]
              /\ Goto(t, "merge")
  BY <1>3, <1>4 DEF FreeInto
<1>7. ~gone => /\ sub' = more
               /\ nonFull' = list
               /\ tree' = trie
               /\ subPoolNum' = num
               /\ pageNum' = pageNum + 1
               /\ Goto(t, "idle")
               /\ block' = block
  BY <1>3, <1>4 DEF FreeInto
<1>8. pageNum' \in Int
  BY <1>6, <1>7, PoolAssumption
<1>9. \A x, q : InSub(more, x, q) <=> InSub(subs, x, q) \/ (x = s /\ q = p)
  BY <1>4 DEF InSub, F
<1>10. CASE gone
  <2>1. Fit(sub', nonFull', tree', subPoolNum')
    <3>1. more[s].block = b /\ s \in DOMAIN more
      BY <1>4
    <3>2. Fit([x \in DOMAIN more \ {s} |-> more[x]], RemoveFirst(list, s),
              RadixTreeSet(trie, more[s].block, NoSub), num - 1)
      BY <1>4, <3>1, DropFacts
    <3> QED BY <1>6, <1>10, <3>1, <3>2
  <2>2. \A x : x \in DOMAIN sub' <=> x \in DOMAIN subs /\ x # s
    BY <1>4, <1>6, <1>10
  <2>3. \A x \in DOMAIN sub' : sub'[x] = subs[x]
    BY <1>4, <1>6, <1>10
  <2>4. \A x, q : InSub(sub', x, q) <=> InSub(subs, x, q) /\ x # s
    BY <2>2, <2>3 DEF InSub
  <2>5. subs[s].free \cup {p} = PagesOf(b)
    BY <1>4, <1>10 DEF F
  <2>6. BlockLeaves(t, p, s, subs)
    BY <1>6, <1>10, <2>4, <2>5 DEF BlockLeaves
  <2> QED BY <1>5, <1>8, <2>1, <2>2, <2>3, <2>6
<1>11. CASE ~gone
  <2>1. sub' = more /\ Fit(sub', nonFull', tree', subPoolNum')
    BY <1>4, <1>7, <1>11
  <2>2. \A x \in DOMAIN sub' : /\ sub'[x].free # {}
                               /\ x \in DOMAIN subs
                               /\ sub'[x].block = subs[x].block
    BY <1>4, <2>1 DEF F
  <2>3. PageStored(t, p, s, subs)
    BY <1>7, <1>9, <1>11, <2>1 DEF PageStored
  <2> QED BY <1>5, <1>8, <2>1, <2>2, <2>3
<1> QED BY <1>10, <1>11

\* A sub-pool that joins the pool at the head of the list.
LEMMA AddFacts ==
  ASSUME Fit(sub, nonFull, tree, subPoolNum), NEW s \in SubPools \ DOMAIN sub,
         NEW b \in Blocks, NEW F \in SUBSET PagesOf(b)
  PROVE  LET subs == WithSub(s, PageSubPool(b, F))
         IN /\ Fit(subs, <<s>> \o nonFull, RadixTreeSet(tree, b, s),
                   subPoolNum + 1)
            /\ DOMAIN subs = DOMAIN sub \cup {s}
            /\ subs[s].block = b /\ subs[s].free = F
            /\ \A x \in DOMAIN sub : subs[x] = sub[x]
            /\ \A x, q : InSub(subs, x, q) <=> InSub(sub, x, q) \/ (x = s /\ q \in F)
<1> DEFINE subs == WithSub(s, PageSubPool(b, F))
           list == <<s>> \o nonFull
           trie == RadixTreeSet(tree, b, s)
<1>1. /\ DOMAIN subs = DOMAIN sub \cup {s} /\ \A x \in DOMAIN sub : subs[x] = sub[x]
      /\ subs[s] = [block |-> b, free |-> F, count |-> Cardinality(F)]
      /\ subs = [x \in DOMAIN sub \cup {s} |-> subs[x]]
  BY DEF WithSub, PageSubPool
<1>2. Cardinality(F) \in Nat /\ F \in SUBSET Pages
  BY CountFacts
<1>3. /\ DOMAIN sub \subseteq SubPools /\ sub \in [DOMAIN sub -> SubRec]
      /\ \A x \in DOMAIN sub :
           /\ sub[x].free \subseteq PagesOf(sub[x].block)
           /\ sub[x].count = Cardinality(sub[x].free)
           /\ Contains(nonFull, x)
      /\ nonFull \in Seq(DOMAIN sub) /\ subPoolNum = Len(nonFull)
      /\ \A m, n \in DOMAIN nonFull : nonFull[m] = nonFull[n] => m = n
      /\ tree \in [Blocks -> DOMAIN sub \cup {NoSub}]
      /\ \A a \in Blocks : tree[a] # NoSub => sub[tree[a]].block = a
  BY DEF Fit, SubRec
<1> HIDE DEF subs
<1>4. subs \in [DOMAIN subs -> SubRec]
  BY <1>1, <1>2, <1>3 DEF SubRec
<1>5. nonFull \in Seq(DOMAIN subs) /\ s \in DOMAIN subs
  BY <1>1, <1>3, SeqMonotonic
<1>6. ~Contains(nonFull, s)
  BY <1>3 DEF Contains
<1>7. /\ list \in Seq(DOMAIN subs) /\ Len(list) = Len(nonFull) + 1
      /\ \A m, n \in DOMAIN list : list[m] = list[n] => m = n
      /\ \A e : Contains(list, e) <=> Contains(nonFull, e) \/ e = s
  BY <1>3, <1>5, <1>6, PrependFacts
<1> HIDE DEF list
<1>8. trie \in [Blocks -> DOMAIN subs \cup {NoSub}]
      /\ \A a \in Blocks : trie[a] # NoSub => subs[trie[a]].block = a
  BY <1>1, <1>3 DEF RadixTreeSet
<1> HIDE DEF trie
<1>9. \A x \in DOMAIN subs :
        /\ subs[x].free \subseteq PagesOf(subs[x].block)
        /\ subs[x].count = Cardinality(subs[x].free)
        /\ Contains(list, x)
  BY <1>1, <1>3, <1>7
<1>10. DOMAIN subs \subseteq SubPools /\ subPoolNum + 1 = Len(list)
  BY <1>1, <1>3, <1>7
<1>11. Fit(subs, list, trie, subPoolNum + 1)
  BY <1>4, <1>7, <1>8, <1>9, <1>10 DEF Fit, SubRec
<1>12. \A x, q : InSub(subs, x, q) <=> InSub(sub, x, q) \/ (x = s /\ q \in F)
  BY <1>1 DEF InSub
<1> QED BY <1>1, <1>11, <1>12 DEF subs, list, trie

\* A page that stays where it is.
LEMMA PageStays ==
  ASSUME NEW q, OnePlace(q), handed'[q] = handed[q],
         \A j, m : Holds(j, m, q)' <=> Holds(j, m, q)
  PROVE  OnePlace(q)'
<1>1. PICK k, n : IsAt(q, k, n)
  BY DEF OnePlace
<1>2. IsAt(q, k, n)'
  BY <1>1 DEF IsAt
<1> QED BY <1>2 DEF OnePlace

\* A holder of a page is its only one.
LEMMA OnlyHolder ==
  ASSUME NEW q, OnePlace(q), NEW k, NEW n, Holds(k, n, q)
  PROVE  IsAt(q, k, n)
BY DEF OnePlace, IsAt

LEMMA OneHolder ==
  ASSUME NEW q, OnePlace(q), NEW k, NEW n, NEW k1, NEW n1,
         Holds(k, n, q), Holds(k1, n1, q)
  PROVE  k = k1 /\ n = n1
BY DEF OnePlace, IsAt

\* A block in a thread's hands is in no other's, not in the pool, in no
\* sub-pool, and no page of it is with a user or a thread.
LEMMA BlockAlone ==
  ASSUME IInv, NEW t \in Threads, NEW b \in Blocks, BlockInHand(t, b)
  PROVE  /\ b \notin blockPool
         /\ \A u \in Threads \ {t} : ~BlockInHand(u, b)
         /\ \A s \in DOMAIN sub : sub[s].block # b
         /\ \A p \in PagesOf(b) : handed[p] = 0 /\ \A u \in Threads : page[u] # p
<1>1. ASSUME NEW p \in PagesOf(b), NEW k, NEW n, Holds(k, n, p)
      PROVE  k = "block" /\ n = t
  <2>1. p \in Pages /\ p[1] = b
    BY PageFacts
  <2>2. Holds("block", t, p)
    BY <2>1 DEF Holds
  <2>3. OnePlace(p)
    BY <2>1 DEF IInv
  <2> QED BY <1>1, <2>2, <2>3, OneHolder
<1>2. PICK p \in PagesOf(b) : p \in Pages /\ p[1] = b
  BY PageFacts
<1>3. b \notin blockPool
  BY <1>1, <1>2 DEF Holds
<1>4. \A u \in Threads \ {t} : ~BlockInHand(u, b)
  BY <1>1, <1>2 DEF Holds
<1>5. ASSUME NEW s \in DOMAIN sub, sub[s].block = b PROVE FALSE
  <2>1. PICK q \in sub[s].free : q \in PagesOf(b)
    BY <1>5 DEF IInv, Fit
  <2>2. Holds("sub", s, q)
    BY <2>1 DEF Holds, InSub
  <2> QED BY <1>1, <2>1, <2>2
<1>6. ASSUME NEW q \in PagesOf(b)
      PROVE  handed[q] = 0 /\ \A u \in Threads : page[u] # q
  <2>1. q \in Pages /\ handed[q] \in Nat
    BY PageFacts DEF IInv, Types
  <2>2. ~Holds("user", q, q) /\ \A u \in Threads : ~Holds("thread", u, q)
    BY <1>1
  <2> QED BY <2>1, <2>2 DEF Holds
<1> QED BY <1>3, <1>4, <1>5, <1>6

-----------------------------------------------------------------------------
\* Every action keeps IInv.

\* Whatever happens to the tree and the locals, a thread's hands hold a page
\* or a block as before.
LEMMA SamePlaces ==
  ASSUME IInv, UNCHANGED <<handed, page, blockPool>>,
         \A x, q : InSub(sub', x, q) <=> InSub(sub, x, q),
         \A u \in Threads, b \in Blocks : BlockInHand(u, b)' <=> BlockInHand(u, b)
  PROVE  \A q \in Pages : OnePlace(q)'
<1> TAKE q \in Pages
<1>1. OnePlace(q) /\ q[1] \in Blocks
  BY PageFacts DEF IInv
<1>2. \A j, m : Holds(j, m, q)' <=> Holds(j, m, q)
  BY <1>1 DEF Holds
<1> QED BY <1>1, <1>2, PageStays

LEMMA StepBlockPoolGet ==
  ASSUME IInv, NEW t \in Threads, BlockPoolGet(t)
  PROVE  IInv'
<1>T. Types /\ Grain /\ Hands(t) /\ \A u \in Threads : Hands(u)
  BY DEF IInv
<1>1. PICK b \in blockPool : /\ blockPool' = blockPool \ {b}
                             /\ block' = [block EXCEPT ![t] = b]
  BY DEF BlockPoolGet
<1>2. /\ pc[t] = "get" /\ pc' = [pc EXCEPT ![t] = "split"]
      /\ UNCHANGED <<fineGrain, sub, nonFull, tree, subPoolNum, pageNum, handed,
                     page, ops, alone, nodes>>
  BY DEF BlockPoolGet, Goto
<1>3. /\ b \in Blocks /\ pc'[t] = "split" /\ block'[t] = b
      /\ \A u \in Threads \ {t} : pc'[u] = pc[u] /\ block'[u] = block[u]
  BY <1>1, <1>2, <1>T DEF Types
<1>4. Types'
  BY <1>1, <1>2, <1>3, <1>T DEF Types, Labels
<1>5. Grain'
  BY <1>1, <1>2, <1>3, <1>T DEF Grain
<1>6. \A u \in Threads : Hands(u)'
  BY <1>2, <1>3, <1>T DEF Hands
<1>7. ASSUME NEW q \in Pages PROVE OnePlace(q)'
  <2>1. OnePlace(q) /\ UNCHANGED <<handed, page, sub>> /\ handed[q] <= 1
    BY <1>2 DEF IInv, OnePlace
  <2>2. \A u \in Threads : BlockInHand(u, q[1])' <=>
                             BlockInHand(u, q[1]) \/ (u = t /\ q[1] = b)
    BY <1>2, <1>3 DEF BlockInHand
  <2>3. CASE q[1] = b
    <3>1. Holds("pool", b, q)
      BY <2>3 DEF Holds
    <3>2. IsAt(q, "pool", b)
      BY <2>1, <3>1, OnlyHolder
    <3>3. IsAt(q, "block", t)'
      BY <1>1, <2>1, <2>2, <2>3, <3>2 DEF IsAt, Holds
    <3>4. handed'[q] <= 1
      BY <2>1
    <3> QED BY <3>3, <3>4 DEF OnePlace
  <2>4. CASE q[1] # b
    <3>1. \A j, m : Holds(j, m, q)' <=> Holds(j, m, q)
      BY <1>1, <2>1, <2>2, <2>4 DEF Holds
    <3> QED BY <2>1, <3>1, PageStays
  <2> QED BY <2>3, <2>4
<1> QED BY <1>2, <1>4, <1>5, <1>6, <1>7 DEF IInv

LEMMA StepAllocFails ==
  ASSUME IInv, NEW t \in Threads, AllocFails(t)
  PROVE  IInv'
<1>T. Types /\ Grain /\ \A u \in Threads : Hands(u)
  BY DEF IInv
<1>2. /\ pc[t] = "get" /\ pc' = [pc EXCEPT ![t] = "idle"]
      /\ UNCHANGED <<blockPool, fineGrain, sub, nonFull, tree, subPoolNum,
                     pageNum, handed, page, block, ops, alone, nodes>>
  BY DEF AllocFails, Goto
<1>3. /\ pc'[t] = "idle" /\ \A u \in Threads \ {t} : pc'[u] = pc[u]
  BY <1>2, <1>T DEF Types
<1>4. Types' /\ Grain' /\ \A u \in Threads : Hands(u)'
  BY <1>2, <1>3, <1>T DEF Types, Labels, Grain, Hands
<1>5. \A q \in Pages : OnePlace(q)'
  BY <1>2, <1>3, SamePlaces DEF BlockInHand
<1> QED BY <1>2, <1>4, <1>5 DEF IInv

\* CreatePageSubPool may put its block where a freed sub-pool was.
LEMMA CreateFacts ==
  ASSUME Types, NEW b \in Blocks, Create(b)
  PROVE  /\ block' \in [Threads -> Blocks \cup {NoBlock}]
         /\ \A u \in Threads : \/ block'[u] = block[u]
                               \/ pc[u] = "clear" /\ block'[u] = b
BY DEF Create, Types

LEMMA StepSplit ==
  ASSUME IInv, NEW t \in Threads, Split(t)
  PROVE  IInv'
<1>T. Types /\ Grain /\ \A u \in Threads : Hands(u)
  BY DEF IInv
<1> DEFINE b == block[t]
<1>1. /\ pc[t] = "split" /\ pc' = [pc EXCEPT ![t] = "add"]
      /\ fineGrain' = fineGrain \cup {b} /\ nodes' = nodes \cup {b} /\ Create(b)
      /\ UNCHANGED <<blockPool, sub, nonFull, tree, subPoolNum, pageNum, handed,
                     page, ops, alone>>
  BY DEF Split, Goto, RadixTreeSetPrepare
<1>2. /\ b \in Blocks /\ pc'[t] = "add" /\ BlockInHand(t, b)
      /\ \A u \in Threads \ {t} : pc'[u] = pc[u]
  BY <1>1, <1>T DEF Types, Hands, BlockInHand
<1>3. /\ block' \in [Threads -> Blocks \cup {NoBlock}]
      /\ \A u \in Threads : \/ block'[u] = block[u]
                            \/ pc[u] = "clear" /\ block'[u] = b
  BY <1>1, <1>2, <1>T, CreateFacts
<1>4. b \notin blockPool /\ \A u \in Threads \ {t} : ~BlockInHand(u, b)
  BY <1>2, BlockAlone
<1> HIDE DEF b
<1>5. block'[t] = b
  BY <1>1, <1>3 DEF b
<1>6. Types'
  BY <1>1, <1>2, <1>3, <1>T DEF Types, Labels
<1>7. Grain'
  <2>1. blockPool' \cap fineGrain' = {} /\ fineGrain' \subseteq nodes'
    BY <1>1, <1>4, <1>T DEF Grain
  <2>2. ASSUME NEW u \in Threads
        PROVE  /\ pc'[u] \in {"split", "put"} => block'[u] \notin fineGrain'
               /\ pc'[u] \in {"add", "merge"} => block'[u] \in fineGrain'
               /\ pc'[u] \in {"put", "clear"} => block'[u] \in nodes'
    <3>1. CASE u = t
      BY <1>1, <1>2, <1>5, <3>1
    <3>2. CASE u # t
      BY <1>1, <1>2, <1>3, <1>4, <1>T, <3>2 DEF Grain, BlockInHand
    <3> QED BY <3>1, <3>2
  <2> QED BY <1>1, <1>T, <2>1, <2>2 DEF Grain
<1>8. \A u \in Threads : Hands(u)'
  <2> TAKE u \in Threads
  <2>1. CASE u = t
    BY <1>1, <1>2, <1>5, <1>T, <2>1 DEF Hands
  <2>2. CASE u # t
    BY <1>1, <1>2, <1>3, <1>T, <2>2 DEF Hands
  <2> QED BY <2>1, <2>2
<1>9. ASSUME NEW u \in Threads, NEW a
      PROVE  BlockInHand(u, a)' <=> BlockInHand(u, a)
  <2>1. CASE u = t
    BY <1>1, <1>2, <1>5, <2>1 DEF BlockInHand, b
  <2>2. CASE u # t
    BY <1>2, <1>3, <2>2 DEF BlockInHand
  <2> QED BY <2>1, <2>2
<1>10. \A q \in Pages : OnePlace(q)'
  BY <1>1, <1>9, SamePlaces
<1> QED BY <1>1, <1>6, <1>7, <1>8, <1>10 DEF IInv

LEMMA StepCreateFull ==
  ASSUME IInv, NEW t \in Threads, CreateFull(t)
  PROVE  IInv'
<1>T. Types /\ Grain /\ \A u \in Threads : Hands(u)
  BY DEF IInv
<1> DEFINE b == page[t][1]
<1>1. /\ pc[t] = "new" /\ pc' = [pc EXCEPT ![t] = "insert"] /\ Create(b)
      /\ UNCHANGED <<blockPool, fineGrain, sub, nonFull, tree, subPoolNum,
                     pageNum, handed, page, ops, alone, nodes>>
  BY DEF CreateFull, Goto
<1>2. /\ b \in Blocks /\ b \in nodes /\ pc'[t] = "insert"
      /\ \A u \in Threads \ {t} : pc'[u] = pc[u]
  BY <1>1, <1>T, PageFacts DEF Types, Hands, Grain
<1>3. /\ block' \in [Threads -> Blocks \cup {NoBlock}]
      /\ \A u \in Threads : \/ block'[u] = block[u]
                            \/ pc[u] = "clear" /\ block'[u] = b
  BY <1>1, <1>2, <1>T, CreateFacts
<1> HIDE DEF b
<1>4. Types'
  BY <1>1, <1>2, <1>3, <1>T DEF Types, Labels
<1>5. Grain'
  <2>1. ASSUME NEW u \in Threads
        PROVE  /\ pc'[u] \in {"split", "put"} => block'[u] \notin fineGrain'
               /\ pc'[u] \in {"add", "merge"} => block'[u] \in fineGrain'
               /\ pc'[u] \in {"put", "clear"} => block'[u] \in nodes'
    <3>1. CASE u = t
      BY <1>2, <3>1
    <3>2. CASE u # t
      BY <1>1, <1>2, <1>3, <1>T, <3>2 DEF Grain
    <3> QED BY <3>1, <3>2
  <2> QED BY <1>1, <1>T, <2>1 DEF Grain
<1>6. \A u \in Threads : Hands(u)'
  <2> TAKE u \in Threads
  <2>1. CASE u = t
    BY <1>1, <1>2, <1>T, <2>1 DEF Hands
  <2>2. CASE u # t
    BY <1>1, <1>2, <1>3, <1>T, <2>2 DEF Hands
  <2> QED BY <2>1, <2>2
<1>7. ASSUME NEW u \in Threads, NEW a
      PROVE  BlockInHand(u, a)' <=> BlockInHand(u, a)
  <2>1. CASE u = t
    BY <1>1, <1>2, <2>1 DEF BlockInHand
  <2>2. CASE u # t
    BY <1>2, <1>3, <2>2 DEF BlockInHand
  <2> QED BY <2>1, <2>2
<1>8. \A q \in Pages : OnePlace(q)'
  BY <1>1, <1>7, SamePlaces
<1> QED BY <1>1, <1>4, <1>5, <1>6, <1>8 DEF IInv

LEMMA StepMerge ==
  ASSUME IInv, NEW t \in Threads, Merge(t)
  PROVE  IInv'
<1>T. Types /\ Grain /\ \A u \in Threads : Hands(u)
  BY DEF IInv
<1> DEFINE b == block[t]
<1>1. /\ pc[t] = "merge" /\ pc' = [pc EXCEPT ![t] = "put"]
      /\ fineGrain' = fineGrain \ {b}
      /\ UNCHANGED <<blockPool, sub, nonFull, tree, subPoolNum, pageNum, handed,
                     page, block, ops, alone, nodes>>
  BY DEF Merge, Goto
<1>2. /\ b \in Blocks /\ b \in nodes /\ pc'[t] = "put" /\ BlockInHand(t, b)
      /\ \A u \in Threads \ {t} : pc'[u] = pc[u]
  BY <1>1, <1>T DEF Types, Hands, Grain, BlockInHand
<1>3. /\ \A u \in Threads \ {t} : ~BlockInHand(u, b)
      /\ \A s \in DOMAIN sub : sub[s].block # b
      /\ \A p \in PagesOf(b) : handed[p] = 0 /\ \A u \in Threads : page[u] # p
  BY <1>2, BlockAlone
<1>4. Types' /\ \A u \in Threads : Hands(u)'
  BY <1>1, <1>2, <1>T DEF Types, Labels, Hands
<1>5. Grain'
  <2>1. ASSUME NEW p \in Pages, handed'[p] > 0 PROVE p[1] \in fineGrain'
    <3>1. p \in PagesOf(p[1]) /\ handed[p] > 0
      BY <1>1, <2>1, PageFacts
    <3>2. p[1] # b
      BY <1>3, <3>1
    <3> QED BY <1>1, <1>T, <2>1, <3>2 DEF Grain
  <2>2. ASSUME NEW u \in Threads, page'[u] # NoPage PROVE page'[u][1] \in fineGrain'
    <3>1. page[u] \in Pages /\ page[u] \in PagesOf(page[u][1])
      BY <1>1, <1>T, <2>2, PageFacts DEF Types
    <3>2. page[u][1] # b
      BY <1>3, <3>1
    <3> QED BY <1>1, <1>T, <2>2, <3>2 DEF Grain
  <2>3. ASSUME NEW u \in Threads
        PROVE  /\ pc'[u] \in {"split", "put"} => block'[u] \notin fineGrain'
               /\ pc'[u] \in {"add", "merge"} => block'[u] \in fineGrain'
               /\ pc'[u] \in {"put", "clear"} => block'[u] \in nodes'
    <3>1. CASE u = t
      BY <1>1, <1>2, <3>1
    <3>2. CASE u # t
      BY <1>1, <1>2, <1>3, <1>T, <3>2 DEF Grain, BlockInHand
    <3> QED BY <3>1, <3>2
  <2>4. \A s \in DOMAIN sub' : sub'[s].block \in fineGrain'
    BY <1>1, <1>3, <1>T DEF Grain
  <2>5. blockPool' \cap fineGrain' = {} /\ fineGrain' \subseteq nodes'
    BY <1>1, <1>T DEF Grain
  <2> QED BY <2>1, <2>2, <2>3, <2>4, <2>5 DEF Grain
<1>6. \A q \in Pages : OnePlace(q)'
  BY <1>1, <1>2, SamePlaces DEF BlockInHand
<1> QED BY <1>1, <1>4, <1>5, <1>6 DEF IInv

LEMMA StepBlockPoolPut ==
  ASSUME IInv, NEW t \in Threads, BlockPoolPut(t)
  PROVE  IInv'
<1>T. Types /\ Grain /\ \A u \in Threads : Hands(u)
  BY DEF IInv
<1> DEFINE b == block[t]
<1>1. /\ pc[t] = "put" /\ blockPool' = blockPool \cup {b}
      /\ pc' = [pc EXCEPT ![t] = IF page[t] = NoPage THEN "clear" ELSE "count"]
      /\ UNCHANGED <<fineGrain, sub, nonFull, tree, subPoolNum, pageNum, handed,
                     page, block, ops, alone, nodes>>
  BY DEF BlockPoolPut, Goto
<1>2. /\ b \in Blocks /\ b \in nodes /\ b \notin fineGrain /\ BlockInHand(t, b)
      /\ pc'[t] = IF page[t] = NoPage THEN "clear" ELSE "count"
      /\ \A u \in Threads \ {t} : pc'[u] = pc[u]
  BY <1>1, <1>T DEF Types, Hands, Grain, BlockInHand
<1>3. b \notin blockPool /\ \A u \in Threads \ {t} : ~BlockInHand(u, b)
  BY <1>2, BlockAlone
<1>4. Types' /\ \A u \in Threads : Hands(u)'
  BY <1>1, <1>2, <1>T DEF Types, Labels, Hands
<1>5. Grain'
  BY <1>1, <1>2, <1>T DEF Grain
<1>6. ASSUME NEW q \in Pages PROVE OnePlace(q)'
  <2>1. OnePlace(q) /\ UNCHANGED <<handed, page, sub>> /\ handed[q] <= 1
    BY <1>1 DEF IInv, OnePlace
  <2>2. \A u \in Threads : BlockInHand(u, q[1])' <=>
                             BlockInHand(u, q[1]) /\ ~(u = t /\ q[1] = b)
    BY <1>1, <1>2 DEF BlockInHand
  <2>3. CASE q[1] = b
    <3>1. Holds("block", t, q)
      BY <1>2, <2>3 DEF Holds
    <3>2. IsAt(q, "block", t)
      BY <2>1, <3>1, OnlyHolder
    <3>3. IsAt(q, "pool", b)'
      BY <1>1, <1>3, <2>1, <2>2, <2>3, <3>2 DEF IsAt, Holds
    <3>4. handed'[q] <= 1
      BY <2>1
    <3> QED BY <3>3, <3>4 DEF OnePlace
  <2>4. CASE q[1] # b
    <3>1. \A j, m : Holds(j, m, q)' <=> Holds(j, m, q)
      BY <1>1, <2>1, <2>2, <2>4 DEF Holds
    <3> QED BY <2>1, <3>1, PageStays
  <2> QED BY <2>3, <2>4
<1> QED BY <1>1, <1>4, <1>5, <1>6 DEF IInv

LEMMA StepClearTree ==
  ASSUME IInv, NEW t \in Threads, ClearTree(t)
  PROVE  IInv'
<1>T. Types /\ Grain /\ \A u \in Threads : Hands(u)
  BY DEF IInv
<1>1. /\ pc[t] = "clear" /\ pc' = [pc EXCEPT ![t] = "idle"]
      /\ block' = [block EXCEPT ![t] = NoBlock]
      /\ tree' = [tree EXCEPT ![block[t]] = NoSub]
      /\ UNCHANGED <<blockPool, fineGrain, sub, nonFull, subPoolNum, pageNum,
                     handed, page, ops, alone, nodes>>
  BY DEF ClearTree, Goto, RadixTreeSet
<1>2. /\ pc'[t] = "idle" /\ block[t] \in Blocks
      /\ \A u \in Threads \ {t} : pc'[u] = pc[u] /\ block'[u] = block[u]
  BY <1>1, <1>T DEF Types, Hands
<1>3. Types'
  BY <1>1, <1>2, <1>T DEF Types, Labels
<1>4. Grain' /\ \A u \in Threads : Hands(u)'
  BY <1>1, <1>2, <1>T DEF Grain, Hands
<1>5. Fit(sub', nonFull', tree', subPoolNum')
  <2>1. Fit(sub, nonFull, tree, subPoolNum)
    BY DEF IInv
  <2>2. tree \in [Blocks -> DOMAIN sub \cup {NoSub}]
        /\ \A b \in Blocks : tree[b] # NoSub => sub[tree[b]].block = b
    BY <2>1 DEF Fit
  <2>3. tree' \in [Blocks -> DOMAIN sub \cup {NoSub}]
        /\ \A b \in Blocks : tree'[b] # NoSub => sub[tree'[b]].block = b
    BY <1>1, <1>2, <2>2
  <2> QED BY <1>1, <2>1, <2>3 DEF Fit
<1>6. \A q \in Pages : OnePlace(q)'
  BY <1>1, <1>2, SamePlaces DEF BlockInHand
<1> QED BY <1>1, <1>3, <1>4, <1>5, <1>6 DEF IInv

LEMMA StepAllocReturn ==
  ASSUME IInv, NEW t \in Threads, AllocReturn(t)
  PROVE  IInv'
<1>T. Types /\ Grain /\ \A u \in Threads : Hands(u)
  BY DEF IInv
<1> DEFINE p == page[t]
<1>1. /\ pc[t] = "count" /\ pc' = [pc EXCEPT ![t] = "idle"]
      /\ block' = [block EXCEPT ![t] = NoBlock]
      /\ page' = [page EXCEPT ![t] = NoPage]
      /\ handed' = [handed EXCEPT ![p] = @ + 1] /\ pageNum' = pageNum - 1
      /\ UNCHANGED <<blockPool, fineGrain, sub, nonFull, tree, subPoolNum, ops,
                     alone, nodes>>
  BY DEF AllocReturn, Goto
<1>2. /\ pc'[t] = "idle" /\ p \in Pages /\ page'[t] = NoPage
      /\ \A u \in Threads \ {t} : /\ pc'[u] = pc[u] /\ block'[u] = block[u]
                                  /\ page'[u] = page[u]
  BY <1>1, <1>T DEF Types, Hands
<1>3. NoPage \notin Pages /\ p[1] \in fineGrain
  BY <1>2, <1>T, PageFacts DEF Grain
<1>4. handed[p] = 0
  <2>1. OnePlace(p) /\ handed[p] \in Nat
    BY <1>2, <1>T DEF IInv, Types
  <2>2. Holds("thread", t, p)
    BY DEF Holds
  <2>3. ~Holds("user", p, p)
    BY <2>1, <2>2, OneHolder
  <2> QED BY <2>1, <2>3 DEF Holds
<1> HIDE DEF p
<1>5. \A q \in Pages : handed'[q] = IF q = p THEN 1 ELSE handed[q]
  BY <1>1, <1>2, <1>4, <1>T DEF Types
<1>6. Types'
  BY <1>1, <1>2, <1>5, <1>T DEF Types, Labels
<1>7. Grain' /\ \A u \in Threads : Hands(u)'
  BY <1>1, <1>2, <1>3, <1>5, <1>T DEF Grain, Hands
<1>8. ASSUME NEW q \in Pages PROVE OnePlace(q)'
  <2>1. OnePlace(q) /\ UNCHANGED <<blockPool, sub>> /\ handed[q] <= 1
    BY <1>1 DEF IInv, OnePlace
  <2>2. \A u \in Threads : BlockInHand(u, q[1])' <=> BlockInHand(u, q[1])
    BY <1>1, <1>2 DEF BlockInHand
  <2>3. \A u \in Threads : page'[u] = q <=> page[u] = q /\ u # t
    BY <1>2, <1>3
  <2>4. CASE q = p
    <3>1. Holds("thread", t, q)
      BY <2>4 DEF Holds, p
    <3>2. handed'[q] = 1 /\ ~(handed[q] > 0)
      BY <1>4, <1>5, <2>4
    <3>3. IsAt(q, "thread", t)
      BY <2>1, <3>1, OnlyHolder
    <3>4. IsAt(q, "user", q)'
      BY <2>1, <2>2, <2>3, <3>2, <3>3 DEF IsAt, Holds
    <3>5. handed'[q] <= 1
      BY <3>2
    <3> QED BY <3>4, <3>5 DEF OnePlace
  <2>5. CASE q # p
    <3>1. handed'[q] = handed[q] /\ page[t] # q
      BY <1>5, <2>5 DEF p
    <3>2. \A j, m : Holds(j, m, q)' <=> Holds(j, m, q)
      BY <2>1, <2>2, <2>3, <3>1 DEF Holds
    <3> QED BY <2>1, <3>1, <3>2, PageStays
  <2> QED BY <2>4, <2>5
<1> QED BY <1>1, <1>6, <1>7, <1>8 DEF IInv

\* There is always a name left: every sub-pool has a page of its own.
LEMMA NewNameFacts ==
  ASSUME IInv
  PROVE  NewName \in SubPools \ DOMAIN sub
<1>1. IsFiniteSet(Pages)
  <2>1. IsFiniteSet(1 .. PAGES)
    BY PoolAssumption, FS_Interval
  <2> QED BY SpaceAssumption, <2>1, FS_Product DEF Pages
<1> DEFINE f == [s \in DOMAIN sub |-> CHOOSE q \in sub[s].free : TRUE]
<1>2. \A s \in DOMAIN sub : f[s] \in sub[s].free /\ f[s] \in Pages
  BY DEF IInv, Fit
<1>3. ASSUME NEW r \in DOMAIN sub, NEW s \in DOMAIN sub, f[r] = f[s]
      PROVE  r = s
  <2>1. Holds("sub", r, f[r]) /\ Holds("sub", s, f[r])
    BY <1>2, <1>3 DEF Holds, InSub
  <2>2. OnePlace(f[r])
    BY <1>2 DEF IInv
  <2> QED BY <2>1, <2>2, OneHolder
<1>4. f \in Injection(DOMAIN sub, Pages)
  BY <1>2, <1>3 DEF Injection, IsInjective
<1>5. IsFiniteSet(DOMAIN sub) /\ Cardinality(DOMAIN sub) <= Cardinality(Pages)
  BY <1>1, <1>4, FS_Injection
<1>6. DOMAIN sub \subseteq SubPools
  BY DEF IInv, Fit
<1>7. DOMAIN sub # SubPools
  <2>1. Cardinality(DOMAIN sub) \in Nat /\ Cardinality(Pages) \in Nat
    BY <1>1, <1>5, FS_CardinalityType
  <2>2. Cardinality(SubPools) \in Nat
    BY SpaceAssumption, FS_CardinalityType
  <2> QED BY <1>5, <2>1, <2>2, SpaceAssumption
<1>8. \E s \in SubPools : s \notin DOMAIN sub
  BY <1>6, <1>7
<1> QED BY <1>8 DEF NewName

\* The page an allocation found goes from its sub-pool to the thread.
LEMMA AllocPlaces ==
  ASSUME IInv, NEW t \in Threads, page[t] = NoPage, NEW s, NEW p \in Pages,
         InSub(sub, s, p), page' = [page EXCEPT ![t] = p],
         \A x, q : InSub(sub', x, q) <=> InSub(sub, x, q) /\ ~(x = s /\ q = p),
         UNCHANGED <<handed, blockPool>>,
         \A u \in Threads, b \in Blocks : BlockInHand(u, b)' <=> BlockInHand(u, b)
  PROVE  \A q \in Pages : OnePlace(q)'
<1> TAKE q \in Pages
<1>1. OnePlace(q) /\ handed'[q] = handed[q] /\ handed[q] <= 1
  BY DEF IInv, OnePlace
<1>2. \A u \in Threads : BlockInHand(u, q[1])' <=> BlockInHand(u, q[1])
  BY PageFacts
<1>3. \A u \in Threads : page'[u] = q <=> page[u] = q \/ (u = t /\ q = p)
  BY PageFacts DEF IInv, Types
<1>4. CASE q = p
  <2>1. IsAt(q, "sub", s)
    BY <1>1, <1>4, OnlyHolder DEF Holds
  <2>2. IsAt(q, "thread", t)'
    BY <1>1, <1>2, <1>3, <1>4, <2>1 DEF IsAt, Holds
  <2> QED BY <1>1, <2>2 DEF OnePlace
<1>5. CASE q # p
  <2>1. \A j, m : Holds(j, m, q)' <=> Holds(j, m, q)
    BY <1>1, <1>2, <1>3, <1>5 DEF Holds
  <2> QED BY <1>1, <2>1, PageStays
<1> QED BY <1>4, <1>5

\* A freed page goes from a user or a thread to a sub-pool.
LEMMA FreePlaces ==
  ASSUME IInv, NEW t \in Threads, NEW p \in Pages, NEW k \in {"user", "thread"},
         NEW n, Holds(k, n, p), NEW s, UNCHANGED blockPool,
         \A q \in Pages : q # p => handed'[q] = handed[q],
         handed'[p] = 0,
         \A u \in Threads, q \in Pages :
           page'[u] = q <=> page[u] = q /\ ~(k = "thread" /\ q = p),
         \A x, q : InSub(sub', x, q) <=> InSub(sub, x, q) \/ (x = s /\ q = p),
         \A u \in Threads, a \in Blocks : BlockInHand(u, a)' <=> BlockInHand(u, a)
  PROVE  \A q \in Pages : OnePlace(q)'
<1> TAKE q \in Pages
<1>1. OnePlace(q) /\ handed[q] <= 1 /\ q[1] \in Blocks /\ p[1] \in Blocks
  BY PageFacts DEF IInv, OnePlace
<1>2. q = p => IsAt(q, k, n)
  BY <1>1, OnlyHolder
<1>3. handed'[q] <= 1
  BY <1>1
<1>4. CASE q = p
  <2>1. ~(handed'[q] > 0)
    BY <1>4
  <2>2. IsAt(q, "sub", s)'
    BY <1>1, <1>2, <1>4, <2>1 DEF IsAt, Holds
  <2> QED BY <1>3, <2>2 DEF OnePlace
<1>5. CASE q # p
  <2>1. handed'[q] = handed[q]
    BY <1>5
  <2>2. \A j, m : Holds(j, m, q)' <=> Holds(j, m, q)
    BY <1>1, <1>5, <2>1 DEF Holds
  <2> QED BY <1>1, <2>1, <2>2, PageStays
<1> QED BY <1>4, <1>5

\* A freed page completes a block, which goes to the thread.
LEMMA WholePlaces ==
  ASSUME IInv, NEW t \in Threads, NEW p \in Pages, NEW k \in {"user", "thread"},
         NEW n, Holds(k, n, p), NEW s, UNCHANGED blockPool,
         \A q \in Pages : q # p => handed'[q] = handed[q],
         handed'[p] = 0,
         \A u \in Threads, q \in Pages :
           page'[u] = q <=> page[u] = q /\ ~(k = "thread" /\ q = p),
         \A x, q : InSub(sub', x, q) <=> InSub(sub, x, q) /\ x # s,
         \A q \in Pages : InSub(sub, s, q) <=> q[1] = p[1] /\ q # p,
         \A u \in Threads, a \in Blocks :
           BlockInHand(u, a)' <=> BlockInHand(u, a) \/ (u = t /\ a = p[1])
  PROVE  \A q \in Pages : OnePlace(q)'
<1> TAKE q \in Pages
<1>1. OnePlace(q) /\ handed[q] <= 1 /\ q[1] \in Blocks /\ p[1] \in Blocks
  BY PageFacts DEF IInv, OnePlace
<1>2. q = p => IsAt(q, k, n)
  BY <1>1, OnlyHolder
<1>3. handed'[q] <= 1
  BY <1>1
<1>4. CASE q = p
  <2>1. ~(handed'[q] > 0) /\ ~InSub(sub, s, q)
    BY <1>4
  <2>2. IsAt(q, "block", t)'
    BY <1>1, <1>2, <1>4, <2>1 DEF IsAt, Holds
  <2> QED BY <1>3, <2>2 DEF OnePlace
<1>5. CASE q # p /\ q[1] = p[1]
  <2>1. handed'[q] = handed[q] /\ InSub(sub, s, q)
    BY <1>5
  <2>2. IsAt(q, "sub", s)
    BY <1>1, <2>1, OnlyHolder DEF Holds
  <2>3. IsAt(q, "block", t)'
    BY <1>1, <1>5, <2>1, <2>2 DEF IsAt, Holds
  <2> QED BY <1>3, <2>3 DEF OnePlace
<1>6. CASE q[1] # p[1]
  <2>1. handed'[q] = handed[q] /\ ~InSub(sub, s, q) /\ q # p
    BY <1>6
  <2>2. \A j, m : Holds(j, m, q)' <=> Holds(j, m, q)
    BY <1>1, <1>6, <2>1 DEF Holds
  <2> QED BY <1>1, <2>1, <2>2, PageStays
<1> QED BY <1>4, <1>5, <1>6

\* What the slots say about pages: a sub-pool's pages are pages of its block,
\* and the sub-pool a slot names is of that block.
LEMMA SubFacts ==
  ASSUME IInv, NEW s \in DOMAIN sub
  PROVE  /\ sub[s].free \subseteq Pages /\ sub[s].free # {}
         /\ sub[s].block \in Blocks /\ sub[s].block \in fineGrain
         /\ \A q \in sub[s].free : q[1] = sub[s].block
<1>1. /\ sub[s].free \subseteq PagesOf(sub[s].block) /\ sub[s].block \in Blocks
      /\ sub[s].free # {} /\ sub[s].block \in fineGrain
  BY DEF IInv, Fit, Grain
<1> QED BY <1>1, PageFacts

\* The sub-pool PagePoolAlloc goes to is in the pool.
LEMMA ChosenFacts ==
  ASSUME IInv, NEW hint \in Pages \cup {NoPage}
  PROVE  /\ ChosenSub(hint) \in DOMAIN sub \cup {NoSub}
         /\ nonFull # << >> => Head(nonFull) \in DOMAIN sub
<1>1. nonFull \in Seq(DOMAIN sub) /\ tree \in [Blocks -> DOMAIN sub \cup {NoSub}]
  BY DEF IInv, Fit
<1>2. nonFull # << >> => Head(nonFull) \in DOMAIN sub
  BY <1>1
<1>3. FirstSub \in DOMAIN sub \cup {NoSub}
  BY <1>2 DEF FirstSub
<1>4. HintedSub(hint) \in DOMAIN sub \cup {NoSub}
  BY <1>1, PageFacts DEF HintedSub, RadixTreeGet
<1> QED BY <1>2, <1>3, <1>4 DEF ChosenSub

\* An allocation from a sub-pool of the pool, whatever the label it goes to.
LEMMA AllocStep ==
  ASSUME IInv, NEW t \in Threads, page[t] = NoPage, NEW s \in DOMAIN sub,
         AllocFrom(t, s, sub, nonFull, tree, subPoolNum),
         \/ pc[t] = "idle" /\ pc' = [pc EXCEPT ![t] = "count"]
         \/ pc[t] = "add" /\ pc' = [pc EXCEPT ![t] = "merge"],
         ops' \in 0 .. MaxOps, alone' \in BOOLEAN,
         UNCHANGED <<blockPool, fineGrain, nodes, pageNum, handed, block>>
  PROVE  IInv'
<1>T. Types /\ Grain /\ Fit(sub, nonFull, tree, subPoolNum)
      /\ (\A u \in Threads : Hands(u)) /\ \A x \in DOMAIN sub : sub[x].free # {}
  BY DEF IInv
<1>1. /\ Fit(sub', nonFull', tree', subPoolNum')
      /\ \A x \in DOMAIN sub' : /\ sub'[x].free # {}
                                /\ x \in DOMAIN sub
                                /\ sub'[x].block = sub[x].block
      /\ \E p \in sub[s].free :
           /\ page' = [page EXCEPT ![t] = p]
           /\ \A x, q : InSub(sub', x, q) <=> InSub(sub, x, q) /\ ~(x = s /\ q = p)
  BY <1>T, AllocFacts
<1>2. PICK p \in sub[s].free :
        /\ page' = [page EXCEPT ![t] = p]
        /\ \A x, q : InSub(sub', x, q) <=> InSub(sub, x, q) /\ ~(x = s /\ q = p)
  BY <1>1
<1>3. p \in Pages /\ p[1] \in fineGrain /\ InSub(sub, s, p) /\ p # NoPage
  BY SubFacts, PageFacts DEF InSub
<1>4. /\ \A u \in Threads \ {t} : pc'[u] = pc[u] /\ page'[u] = page[u]
      /\ pc'[t] \in {"count", "merge"} /\ page'[t] = p
      /\ pc'[t] = "merge" <=> pc[t] = "add"
  BY <1>2, <1>T DEF Types
<1>5. Types'
  BY <1>2, <1>3, <1>T DEF Types, Labels
<1>6. Grain'
  BY <1>1, <1>3, <1>4, <1>T DEF Grain
<1>7. \A u \in Threads : Hands(u)'
  BY <1>3, <1>4, <1>T DEF Hands
<1>8. \A u \in Threads, b \in Blocks : BlockInHand(u, b)' <=> BlockInHand(u, b)
  BY <1>4 DEF BlockInHand
<1>9. \A q \in Pages : OnePlace(q)'
  BY <1>2, <1>3, <1>8, AllocPlaces
<1> QED BY <1>1, <1>5, <1>6, <1>7, <1>9 DEF IInv

LEMMA StepPagePoolAlloc ==
  ASSUME IInv, NEW t \in Threads, NEW hint \in Pages \cup {NoPage},
         PagePoolAlloc(t, hint)
  PROVE  IInv'
<1>T. Types /\ Grain /\ \A u \in Threads : Hands(u)
  BY DEF IInv
<1>1. /\ pc[t] = "idle" /\ ops < MaxOps /\ ops' = ops + 1
      /\ alone' = (alone /\ Quiet)
      /\ UNCHANGED <<blockPool, fineGrain, nodes, pageNum, handed, block>>
  BY DEF PagePoolAlloc, Begin
<1>2. ops' \in 0 .. MaxOps /\ alone' \in BOOLEAN /\ page[t] = NoPage
  BY <1>1, <1>T, PoolAssumption DEF Types, Hands, Quiet
<1>3. CASE ChosenSub(hint) = NoSub
  <2>1. /\ pc' = [pc EXCEPT ![t] = "get"]
        /\ UNCHANGED <<page, sub, nonFull, tree, subPoolNum>>
    BY <1>3 DEF PagePoolAlloc, Goto
  <2>2. pc'[t] = "get" /\ \A u \in Threads \ {t} : pc'[u] = pc[u]
    BY <2>1, <1>T DEF Types
  <2>3. Types'
    BY <1>1, <1>2, <1>T, <2>1 DEF Types, Labels
  <2>4. Grain' /\ \A u \in Threads : Hands(u)'
    BY <1>1, <1>2, <1>T, <2>1, <2>2 DEF Grain, Hands
  <2>5. \A u \in Threads, b \in Blocks : BlockInHand(u, b)' <=> BlockInHand(u, b)
    BY <1>1, <2>2 DEF BlockInHand
  <2>6. \A q \in Pages : OnePlace(q)'
    BY <1>1, <2>1, <2>5, SamePlaces
  <2> QED BY <2>1, <2>3, <2>4, <2>6 DEF IInv
<1>4. CASE ChosenSub(hint) # NoSub
  <2>1. /\ AllocFrom(t, ChosenSub(hint), sub, nonFull, tree, subPoolNum)
        /\ pc' = [pc EXCEPT ![t] = "count"]
    BY <1>4 DEF PagePoolAlloc, Goto
  <2>2. ChosenSub(hint) \in DOMAIN sub
    BY <1>4, ChosenFacts
  <2> QED BY <1>1, <1>2, <2>1, <2>2, AllocStep
<1> QED BY <1>3, <1>4

LEMMA StepAllocFromOther ==
  ASSUME IInv, NEW t \in Threads, AllocFromOther(t)
  PROVE  IInv'
<1>1. /\ pc[t] = "add" /\ nonFull # << >> /\ pc' = [pc EXCEPT ![t] = "merge"]
      /\ AllocFrom(t, Head(nonFull), sub, nonFull, tree, subPoolNum)
      /\ UNCHANGED <<blockPool, fineGrain, pageNum, handed, block, ops, alone,
                     nodes>>
  BY DEF AllocFromOther, Goto
<1>2. ops' \in 0 .. MaxOps /\ alone' \in BOOLEAN /\ page[t] = NoPage
  BY <1>1 DEF IInv, Types, Hands
<1>3. Head(nonFull) \in DOMAIN sub
  BY <1>1, ChosenFacts
<1> QED BY <1>1, <1>2, <1>3, AllocStep

LEMMA StepAddPageSubPool ==
  ASSUME IInv, NEW t \in Threads, AddPageSubPool(t)
  PROVE  IInv'
<1>T. Types /\ Grain /\ Fit(sub, nonFull, tree, subPoolNum)
      /\ (\A u \in Threads : Hands(u)) /\ \A x \in DOMAIN sub : sub[x].free # {}
  BY DEF IInv
<1>N. PICK n \in SubPools \ DOMAIN sub : n = NewName
  BY NewNameFacts
<1> DEFINE b == block[t]
           subs == WithSub(n, PageSubPool(b, PagesOf(b)))
           list == <<n>> \o nonFull
           trie == RadixTreeSet(tree, b, n)
<1>1. /\ pc[t] = "add" /\ nonFull = << >> /\ pageNum' = pageNum + PAGES
      /\ pc' = [pc EXCEPT ![t] = "count"]
      /\ AllocFrom(t, n, subs, <<n>>, trie, subPoolNum + 1)
      /\ UNCHANGED <<blockPool, fineGrain, handed, block, ops, alone, nodes>>
  BY <1>N DEF AddPageSubPool, Goto
<1>2. /\ b \in Blocks /\ b \in fineGrain /\ BlockInHand(t, b) /\ page[t] = NoPage
      /\ n \in SubPools \ DOMAIN sub
  BY <1>1, <1>T DEF Hands, Grain, BlockInHand
<1>3. /\ Fit(subs, list, trie, subPoolNum + 1) /\ DOMAIN subs = DOMAIN sub \cup {n}
      /\ subs[n].block = b /\ subs[n].free = PagesOf(b)
      /\ \A x \in DOMAIN sub : subs[x] = sub[x]
      /\ \A x, q : InSub(subs, x, q) <=>
                     InSub(sub, x, q) \/ (x = n /\ q \in PagesOf(b))
  BY <1>2, <1>T, AddFacts
<1>4. list = <<n>>
  BY <1>1
<1>5. \A x \in DOMAIN subs : subs[x].free # {}
  BY <1>2, <1>3, <1>T, PageFacts
<1> HIDE DEF b, subs, list, trie
<1>6. /\ Fit(sub', nonFull', tree', subPoolNum')
      /\ \A x \in DOMAIN sub' : /\ sub'[x].free # {}
                                /\ x \in DOMAIN subs
                                /\ sub'[x].block = subs[x].block
      /\ \E p \in subs[n].free :
           /\ page' = [page EXCEPT ![t] = p]
           /\ \A x, q : InSub(sub', x, q) <=> InSub(subs, x, q) /\ ~(x = n /\ q = p)
  <2>1. Fit(subs, <<n>>, trie, subPoolNum + 1) /\ n \in DOMAIN subs
    BY <1>3, <1>4
  <2>2. AllocFrom(t, n, subs, <<n>>, trie, subPoolNum + 1)
    BY <1>1
  <2> QED BY <1>5, <2>1, <2>2, AllocFacts
<1>7. PICK p \in subs[n].free :
        /\ page' = [page EXCEPT ![t] = p]
        /\ \A x, q : InSub(sub', x, q) <=> InSub(subs, x, q) /\ ~(x = n /\ q = p)
  BY <1>6
<1>8. p \in Pages /\ p[1] = b /\ p \in PagesOf(b) /\ p # NoPage
  BY <1>2, <1>3, PageFacts
<1>9. /\ \A u \in Threads \ {t} : pc'[u] = pc[u] /\ page'[u] = page[u]
      /\ pc'[t] = "count" /\ page'[t] = p
  BY <1>1, <1>7, <1>T DEF Types
<1>10. Types'
  BY <1>1, <1>7, <1>8, <1>T, PoolAssumption DEF Types, Labels
<1>11. Grain'
  <2>1. \A x \in DOMAIN sub' : sub'[x].block \in fineGrain
    BY <1>2, <1>3, <1>6, <1>T DEF Grain
  <2> QED BY <1>1, <1>2, <1>8, <1>9, <1>T, <2>1 DEF Grain
<1>12. \A u \in Threads : Hands(u)'
  BY <1>1, <1>8, <1>9, <1>T DEF Hands
<1>13. \A u \in Threads, a \in Blocks :
         BlockInHand(u, a)' <=> BlockInHand(u, a) /\ ~(u = t /\ a = b)
  BY <1>1, <1>9 DEF BlockInHand, b
<1>14. ASSUME NEW q \in Pages PROVE OnePlace(q)'
  <2>1. /\ OnePlace(q) /\ handed'[q] = handed[q] /\ handed[q] <= 1
        /\ q[1] \in Blocks /\ blockPool' = blockPool
    BY <1>1, PageFacts DEF IInv, OnePlace
  <2>2. handed'[q] <= 1
    BY <2>1
  <2>3. \A u \in Threads : page'[u] = q <=> page[u] = q \/ (u = t /\ q = p)
    BY <1>2, <1>9, PageFacts
  <2>4. \A x : InSub(sub', x, q) <=>
          /\ InSub(sub, x, q) \/ (x = n /\ q[1] = b)
          /\ ~(x = n /\ q = p)
    BY <1>2, <1>3, <1>7, PageFacts
  <2>5. ~InSub(sub, n, q)
    BY <1>2 DEF InSub
  <2>6. CASE q = p
    <3>1. IsAt(q, "block", t)
      BY <1>2, <1>8, <2>1, <2>6, OnlyHolder DEF Holds
    <3>2. IsAt(q, "thread", t)'
      BY <1>8, <1>13, <2>1, <2>3, <2>4, <2>6, <3>1 DEF IsAt, Holds
    <3> QED BY <2>2, <3>2 DEF OnePlace
  <2>7. CASE q # p /\ q[1] = b
    <3>1. IsAt(q, "block", t)
      BY <1>2, <2>1, <2>7, OnlyHolder DEF Holds
    <3>2. IsAt(q, "sub", n)'
      BY <1>13, <2>1, <2>3, <2>4, <2>7, <3>1 DEF IsAt, Holds
    <3> QED BY <2>2, <3>2 DEF OnePlace
  <2>8. CASE q[1] # b
    <3>1. \A j, m : Holds(j, m, q)' <=> Holds(j, m, q)
      BY <1>8, <1>13, <2>1, <2>3, <2>4, <2>5, <2>8 DEF Holds
    <3> QED BY <2>1, <3>1, PageStays
  <2> QED BY <2>6, <2>7, <2>8
<1>15. \A x \in DOMAIN sub' : sub'[x].free # {}
  BY <1>6
<1> QED BY <1>6, <1>10, <1>11, <1>12, <1>14, <1>15 DEF IInv

\* The end of a free: page p of the thread or the user into sub-pool s of a pool
\* that is the one there was, or has one empty sub-pool s more.
LEMMA FreeStep ==
  ASSUME IInv, NEW t \in Threads, NEW p \in Pages, NEW k \in {"user", "thread"},
         NEW n, Holds(k, n, p), NEW s, NEW subs, NEW list, NEW trie, NEW num,
         Fit(subs, list, trie, num), s \in DOMAIN subs, subs[s].block = p[1],
         \A x \in DOMAIN subs \ {s} : subs[x].free # {},
         \A x, q : InSub(subs, x, q) <=> InSub(sub, x, q),
         \A x \in DOMAIN subs : subs[x].block \in fineGrain,
         FreeInto(t, p, s, subs, list, trie, num),
         pc[t] \in {"idle", "insert"},
         \A q \in Pages : q # p => handed'[q] = handed[q],
         handed'[p] = 0, handed' \in [Pages -> Nat],
         \A u \in Threads : page[u] = p <=> (u = t /\ k = "thread"),
         k = "user" => page[t] = NoPage,
         ops' \in 0 .. MaxOps, alone' \in BOOLEAN,
         UNCHANGED <<blockPool, fineGrain, nodes>>
  PROVE  IInv'
<1>T. Types /\ Grain /\ \A u \in Threads : Hands(u)
  BY DEF IInv
<1>1. p \in PagesOf(subs[s].block) \ subs[s].free
  <2>1. OnePlace(p) /\ p \in PagesOf(p[1])
    BY PageFacts DEF IInv
  <2>2. ~InSub(sub, s, p)
    BY <2>1, OneHolder DEF Holds
  <2>3. ~InSub(subs, s, p)
    BY <2>2
  <2> QED BY <2>1, <2>3 DEF InSub
<1>2. pageNum \in Int
  BY <1>T DEF Types
<1>3. /\ Fit(sub', nonFull', tree', subPoolNum') /\ pageNum' \in Int
      /\ \A x \in DOMAIN sub' : /\ sub'[x].free # {}
                                /\ x \in DOMAIN subs
                                /\ sub'[x].block = subs[x].block
      /\ page' = [page EXCEPT ![t] = NoPage]
      /\ PageStored(t, p, s, subs) \/ BlockLeaves(t, p, s, subs)
  BY <1>1, <1>2, FreeFacts
<1>4. p[1] \in Blocks /\ p[1] \in fineGrain /\ NoPage \notin Pages
  BY PageFacts
<1>5. page'[t] = NoPage /\ \A u \in Threads \ {t} : page'[u] = page[u]
  BY <1>3, <1>T DEF Types
<1>6. \A u \in Threads, q \in Pages :
        page'[u] = q <=> page[u] = q /\ ~(k = "thread" /\ q = p)
  BY <1>4, <1>5
<1>7. \A x \in DOMAIN sub' : sub'[x].free # {} /\ sub'[x].block \in fineGrain
  BY <1>3
<1>8. \A q \in Pages : handed'[q] > 0 => q[1] \in fineGrain
  BY <1>T DEF Grain
<1>9. CASE PageStored(t, p, s, subs)
  <2>1. pc'[t] = "idle" /\ \A u \in Threads \ {t} : pc'[u] = pc[u]
    BY <1>9, <1>T DEF Types, Goto, PageStored
  <2>2. Types'
    BY <1>3, <1>9, <1>T DEF Types, Labels, Goto, PageStored
  <2>3. Grain'
    BY <1>5, <1>7, <1>8, <1>9, <1>T, <2>1 DEF Grain, PageStored
  <2>4. \A u \in Threads : Hands(u)'
    BY <1>5, <1>9, <1>T, <2>1 DEF Hands, PageStored
  <2>5. \A u \in Threads, a \in Blocks : BlockInHand(u, a)' <=> BlockInHand(u, a)
    BY <1>9, <2>1 DEF BlockInHand, PageStored
  <2>6. \A x, q : InSub(sub', x, q) <=> InSub(sub, x, q) \/ (x = s /\ q = p)
    BY <1>9 DEF PageStored
  <2>7. \A q \in Pages : OnePlace(q)'
    BY <1>6, <2>5, <2>6, FreePlaces
  <2> QED BY <1>3, <1>7, <2>2, <2>3, <2>4, <2>7 DEF IInv
<1>10. CASE BlockLeaves(t, p, s, subs)
  <2>1. /\ pc'[t] = "merge" /\ block'[t] = p[1]
        /\ \A u \in Threads \ {t} : pc'[u] = pc[u] /\ block'[u] = block[u]
    BY <1>10, <1>T DEF Types, Goto, BlockLeaves
  <2>2. Types'
    BY <1>3, <1>4, <1>10, <1>T DEF Types, Labels, Goto, BlockLeaves
  <2>3. Grain'
    BY <1>4, <1>5, <1>7, <1>8, <1>T, <2>1 DEF Grain
  <2>4. \A u \in Threads : Hands(u)'
    BY <1>4, <1>5, <1>T, <2>1 DEF Hands
  <2>5. \A u \in Threads, a \in Blocks :
          BlockInHand(u, a)' <=> BlockInHand(u, a) \/ (u = t /\ a = p[1])
    BY <2>1 DEF BlockInHand
  <2>6. \A x, q : InSub(sub', x, q) <=> InSub(sub, x, q) /\ x # s
    BY <1>10 DEF BlockLeaves
  <2>7. \A q \in Pages : InSub(sub, s, q) <=> q[1] = p[1] /\ q # p
    <3>1. \A q \in Pages : InSub(sub, s, q) <=> q \in PagesOf(p[1]) /\ q # p
      BY <1>1, <1>10 DEF InSub, BlockLeaves
    <3> QED BY <1>4, <3>1, PageFacts
  <2>8. \A q \in Pages : OnePlace(q)'
    BY <1>6, <2>5, <2>6, <2>7, WholePlaces
  <2> QED BY <1>3, <1>7, <2>2, <2>3, <2>4, <2>8 DEF IInv
<1> QED BY <1>3, <1>9, <1>10

LEMMA StepPagePoolFree ==
  ASSUME IInv, NEW t \in Threads, NEW p \in Pages, PagePoolFree(t, p)
  PROVE  IInv'
<1>T. Types /\ Grain /\ Fit(sub, nonFull, tree, subPoolNum)
      /\ (\A u \in Threads : Hands(u)) /\ \A x \in DOMAIN sub : sub[x].free # {}
  BY DEF IInv
<1>1. /\ pc[t] = "idle" /\ ops < MaxOps /\ ops' = ops + 1
      /\ alone' = (alone /\ Quiet) /\ handed[p] > 0
      /\ handed' = [handed EXCEPT ![p] = @ - 1]
      /\ UNCHANGED <<blockPool, fineGrain, nodes>>
  BY DEF PagePoolFree, Begin
<1>2. ops' \in 0 .. MaxOps /\ alone' \in BOOLEAN /\ page[t] = NoPage
  BY <1>1, <1>T, PoolAssumption DEF Types, Hands, Quiet
<1>3. /\ Holds("user", p, p) /\ OnePlace(p) /\ handed[p] <= 1 /\ handed[p] \in Nat
      /\ p[1] \in fineGrain /\ p[1] \in Blocks /\ NoPage \notin Pages
  BY <1>1, <1>T, PageFacts DEF Holds, IInv, OnePlace, Types, Grain
<1>4. handed[p] = 1
  BY <1>1, <1>3
<1>5. /\ handed' \in [Pages -> Nat] /\ handed'[p] = 0
      /\ \A q \in Pages : q # p => handed'[q] = handed[q]
  BY <1>1, <1>4, <1>T DEF Types
<1>6. \A u \in Threads : page[u] # p
  BY <1>3, OneHolder DEF Holds
<1>7. CASE tree[p[1]] = NoSub
  <2>1. /\ page' = [page EXCEPT ![t] = p] /\ pc' = [pc EXCEPT ![t] = "new"]
        /\ UNCHANGED <<sub, nonFull, tree, subPoolNum, pageNum, block>>
    BY <1>7 DEF PagePoolFree, RadixTreeGet, Goto
  <2>2. /\ pc'[t] = "new" /\ page'[t] = p
        /\ \A u \in Threads \ {t} : pc'[u] = pc[u] /\ page'[u] = page[u]
    BY <1>T, <2>1 DEF Types
  <2>3. Types'
    BY <1>1, <1>2, <1>5, <1>T, <2>1 DEF Types, Labels
  <2>4. Grain'
    BY <1>1, <1>3, <1>5, <1>T, <2>1, <2>2 DEF Grain
  <2>5. \A u \in Threads : Hands(u)'
    BY <1>1, <1>3, <1>T, <2>1, <2>2 DEF Hands
  <2>6. \A u \in Threads, a \in Blocks : BlockInHand(u, a)' <=> BlockInHand(u, a)
    BY <1>1, <2>1, <2>2 DEF BlockInHand
  <2>7. ASSUME NEW q \in Pages PROVE OnePlace(q)'
    <3>1. OnePlace(q) /\ handed[q] <= 1 /\ q[1] \in Blocks
      BY PageFacts DEF IInv, OnePlace
    <3>2. \A u \in Threads : page'[u] = q <=> page[u] = q \/ (u = t /\ q = p)
      BY <1>2, <1>3, <2>2
    <3>3. handed'[q] <= 1
      BY <1>5, <3>1
    <3>4. CASE q = p
      <4>1. IsAt(q, "user", p) /\ ~(handed'[q] > 0)
        BY <1>3, <1>5, <3>4, OnlyHolder
      <4>2. IsAt(q, "thread", t)'
        BY <1>1, <2>1, <2>6, <3>1, <3>2, <3>4, <4>1 DEF IsAt, Holds
      <4> QED BY <3>3, <4>2 DEF OnePlace
    <3>5. CASE q # p
      <4>1. handed'[q] = handed[q]
        BY <1>5, <3>5
      <4>2. \A j, m : Holds(j, m, q)' <=> Holds(j, m, q)
        BY <1>1, <2>1, <2>6, <3>1, <3>2, <3>5, <4>1 DEF Holds
      <4> QED BY <3>1, <4>1, <4>2, PageStays
    <3> QED BY <3>4, <3>5
  <2> QED BY <1>T, <2>1, <2>3, <2>4, <2>5, <2>7 DEF IInv
<1>8. CASE tree[p[1]] # NoSub
  <2> DEFINE s == tree[p[1]]
  <2>1. FreeInto(t, p, s, sub, nonFull, tree, subPoolNum)
    BY <1>8 DEF PagePoolFree, RadixTreeGet
  <2>2. s \in DOMAIN sub /\ sub[s].block = p[1]
    BY <1>3, <1>8, <1>T DEF Fit
  <2>3. \A x \in DOMAIN sub : sub[x].block \in fineGrain
    BY <1>T DEF Grain
  <2>4. \A u \in Threads : page[u] = p <=> (u = t /\ "user" = "thread")
    BY <1>6
  <2>5. /\ Fit(sub, nonFull, tree, subPoolNum) /\ pc[t] \in {"idle", "insert"}
        /\ \A x \in DOMAIN sub \ {s} : sub[x].free # {}
        /\ UNCHANGED <<blockPool, fineGrain, nodes>> /\ Holds("user", p, p)
    BY <1>1, <1>3, <1>T
  <2> HIDE DEF s
  <2> QED BY <1>2, <1>5, <2>1, <2>2, <2>3, <2>4, <2>5, FreeStep
<1> QED BY <1>7, <1>8

LEMMA StepFreeSecond ==
  ASSUME IInv, NEW t \in Threads, FreeSecond(t)
  PROVE  IInv'
<1>T. Types /\ Grain /\ Fit(sub, nonFull, tree, subPoolNum)
      /\ (\A u \in Threads : Hands(u)) /\ \A x \in DOMAIN sub : sub[x].free # {}
  BY DEF IInv
<1>1. /\ pc[t] = "insert"
      /\ UNCHANGED <<blockPool, fineGrain, handed, ops, alone, nodes>>
  BY DEF FreeSecond
<1>P. PICK p \in Pages : p = page[t]
  BY <1>1, <1>T DEF Types, Hands
<1>2. ops' \in 0 .. MaxOps /\ alone' \in BOOLEAN /\ handed' \in [Pages -> Nat]
  BY <1>1, <1>T DEF Types
<1>3. /\ Holds("thread", t, p) /\ OnePlace(p) /\ handed[p] \in Nat
      /\ p[1] \in fineGrain /\ p[1] \in Blocks /\ p # NoPage
  BY <1>P, <1>T, PageFacts DEF Holds, IInv, Types, Grain
<1>4. \A u \in Threads : page[u] = p <=> (u = t /\ "thread" = "thread")
  BY <1>3, <1>P, OneHolder DEF Holds
<1>5. handed'[p] = 0 /\ \A q \in Pages : q # p => handed'[q] = handed[q]
  <2>1. ~Holds("user", p, p)
    BY <1>3, OneHolder
  <2>2. handed[p] = 0
    BY <1>3, <2>1 DEF Holds
  <2> QED BY <1>1, <2>2
<1>6. CASE tree[p[1]] # NoSub
  <2> DEFINE s == tree[p[1]]
  <2>1. FreeInto(t, p, s, sub, nonFull, tree, subPoolNum)
    BY <1>6, <1>P DEF FreeSecond, RadixTreeGet
  <2>2. s \in DOMAIN sub /\ sub[s].block = p[1]
    BY <1>3, <1>6, <1>T DEF Fit
  <2>3. \A x \in DOMAIN sub : sub[x].block \in fineGrain
    BY <1>T DEF Grain
  <2>4. /\ Fit(sub, nonFull, tree, subPoolNum) /\ pc[t] \in {"idle", "insert"}
        /\ \A x \in DOMAIN sub \ {s} : sub[x].free # {}
        /\ UNCHANGED <<blockPool, fineGrain, nodes>> /\ Holds("thread", t, p)
    BY <1>1, <1>3, <1>T
  <2> HIDE DEF s
  <2> QED BY <1>2, <1>4, <1>5, <2>1, <2>2, <2>3, <2>4, FreeStep
<1>7. CASE tree[p[1]] = NoSub
  <2>N. PICK s \in SubPools \ DOMAIN sub : s = NewName
    BY NewNameFacts
  <2> DEFINE subs == WithSub(s, PageSubPool(p[1], {}))
             list == <<s>> \o nonFull
             trie == RadixTreeSet(tree, p[1], s)
             num == subPoolNum + 1
  <2>1. FreeInto(t, p, s, subs, list, trie, num)
    BY <1>7, <1>P, <2>N DEF FreeSecond, RadixTreeGet
  <2>2. {} \in SUBSET PagesOf(p[1])
    OBVIOUS
  <2>3. /\ Fit(subs, list, trie, num) /\ DOMAIN subs = DOMAIN sub \cup {s}
        /\ subs[s].block = p[1]
        /\ \A x \in DOMAIN sub : subs[x] = sub[x]
        /\ \A x, q : InSub(subs, x, q) <=> InSub(sub, x, q) \/ (x = s /\ q \in {})
    BY <1>3, <1>T, <2>2, AddFacts
  <2> HIDE DEF subs, list, trie, num
  <2>4. \A x \in DOMAIN subs \ {s} : subs[x].free # {}
    BY <1>T, <2>3
  <2>5. \A x, q : InSub(subs, x, q) <=> InSub(sub, x, q)
    BY <2>3
  <2>6. \A x \in DOMAIN subs : subs[x].block \in fineGrain
    BY <1>3, <1>T, <2>3 DEF Grain
  <2>7. s \in DOMAIN subs
    BY <2>3
  <2> QED BY <1>1, <1>2, <1>3, <1>4, <1>5, <2>1, <2>3, <2>4, <2>5, <2>6, <2>7,
             FreeStep
<1> QED BY <1>6, <1>7

LEMMA InitIInv == Init => IInv
<1> SUFFICES ASSUME Init PROVE IInv
  OBVIOUS
<1>1. /\ blockPool = Blocks /\ fineGrain = {} /\ nodes = {} /\ sub = << >>
      /\ nonFull = << >> /\ tree = [b \in Blocks |-> NoSub] /\ subPoolNum = 0
      /\ handed = [p \in Pages |-> 0] /\ pc = [t \in Threads |-> "idle"]
      /\ page = [t \in Threads |-> NoPage] /\ block = [t \in Threads |-> NoBlock]
  BY DEF Init
<1>2. Types
  BY <1>1, PoolAssumption DEF Init, Types, Labels
<1>3. DOMAIN sub = {} /\ sub = [x \in {} |-> sub[x]]
  BY <1>1
<1>4. Fit(sub, nonFull, tree, subPoolNum)
  <2>1. /\ DOMAIN sub \subseteq SubPools
        /\ sub \in [DOMAIN sub -> [block : Blocks, free : SUBSET Pages, count : Nat]]
    BY <1>3
  <2>2. nonFull \in Seq(DOMAIN sub) /\ Len(nonFull) = 0 /\ DOMAIN nonFull = {}
    BY <1>1
  <2>3. /\ tree \in [Blocks -> DOMAIN sub \cup {NoSub}]
        /\ \A b \in Blocks : tree[b] = NoSub
    BY <1>1
  <2> QED BY <1>1, <1>3, <2>1, <2>2, <2>3 DEF Fit
<1>5. Grain /\ \A t \in Threads : Hands(t)
  BY <1>1, <1>3 DEF Grain, Hands
<1>6. ASSUME NEW q \in Pages PROVE OnePlace(q)
  <2>1. /\ q[1] \in blockPool /\ handed[q] = 0 /\ ~(handed[q] > 0)
        /\ \A t \in Threads : page[t] # q /\ ~BlockInHand(t, q[1])
        /\ \A s : ~InSub(sub, s, q)
    BY <1>1, <1>3, PageFacts DEF BlockInHand, InSub
  <2>2. IsAt(q, "pool", q[1])
    BY <2>1 DEF IsAt, Holds
  <2>3. handed[q] <= 1
    BY <2>1
  <2> QED BY <2>2, <2>3 DEF OnePlace
<1> QED BY <1>2, <1>3, <1>4, <1>5, <1>6 DEF IInv

LEMMA NextIInv == IInv /\ [Next]_vars => IInv'
<1> SUFFICES ASSUME IInv, [Next]_vars PROVE IInv'
  OBVIOUS
<1>1. CASE UNCHANGED vars
  <2>1. /\ UNCHANGED <<blockPool, fineGrain, sub, nonFull, tree, subPoolNum,
                       pageNum, handed, pc, page, block, ops, alone, nodes>>
    BY <1>1 DEF vars
  <2>2. Types' /\ Grain' /\ \A u \in Threads : Hands(u)'
    BY <2>1 DEF IInv, Types, Grain, Hands
  <2>3. \A q \in Pages : OnePlace(q)'
    BY <2>1, SamePlaces DEF BlockInHand
  <2> QED BY <2>1, <2>2, <2>3 DEF IInv
<1>2. ASSUME NEW t \in Threads, Alloc(t) PROVE IInv'
  BY <1>2, StepPagePoolAlloc, StepBlockPoolGet, StepAllocFails, StepSplit,
     StepAddPageSubPool, StepAllocFromOther, StepAllocReturn DEF Alloc
<1>3. ASSUME NEW t \in Threads, Free(t) PROVE IInv'
  BY <1>3, StepPagePoolFree, StepCreateFull, StepFreeSecond, StepMerge,
     StepBlockPoolPut, StepClearTree DEF Free
<1> QED BY <1>1, <1>2, <1>3 DEF Next

\* IInv holds in every state of the pool.
THEOREM PoolStructure == Spec => []IInv
BY InitIInv, NextIInv, PTL DEF Spec

\* One place of the five is a sum of one.
LEMMA PlacesFacts ==
  ASSUME IInv, NEW p \in Pages
  PROVE  Places(p) = 1
<1> DEFINE A == {t \in Threads : page[t] = p}
           B == {s \in DOMAIN sub : p \in sub[s].free}
           C == {t \in Threads : BlockInHand(t, p[1])}
           d == IF p[1] \in blockPool THEN 1 ELSE 0
<1>1. OnePlace(p) /\ handed[p] <= 1 /\ handed[p] \in Nat
  BY DEF IInv, OnePlace, Types
<1>2. PICK k, n : IsAt(p, k, n)
  BY <1>1 DEF OnePlace
<1>3. /\ handed[p] > 0 <=> k = "user" /\ n = p
      /\ \A t \in Threads : t \in A <=> k = "thread" /\ n = t
      /\ \A s \in DOMAIN sub : s \in B <=> k = "sub" /\ n = s
      /\ \A t \in Threads : t \in C <=> k = "block" /\ n = t
      /\ p[1] \in blockPool <=> k = "pool" /\ n = p[1]
  BY <1>2 DEF IsAt, Holds, InSub
<1>4. Holds(k, n, p)
  BY <1>2 DEF IsAt
<1>5. Cardinality({}) = 0 /\ Cardinality({n}) = 1
  BY FS_EmptySet, FS_Singleton
<1>6. Places(p) = handed[p] + Cardinality(A) + Cardinality(B) + Cardinality(C) + d
  BY DEF Places
<1>7. CASE k = "user"
  <2>1. handed[p] = 1 /\ A = {} /\ B = {} /\ C = {} /\ d = 0
    BY <1>1, <1>3, <1>4, <1>7 DEF Holds
  <2> HIDE DEF A, B, C, d
  <2> QED BY <1>5, <1>6, <2>1
<1>8. CASE k = "thread"
  <2>1. handed[p] = 0 /\ A = {n} /\ B = {} /\ C = {} /\ d = 0
    BY <1>1, <1>3, <1>4, <1>8 DEF Holds
  <2> HIDE DEF A, B, C, d
  <2> QED BY <1>5, <1>6, <2>1
<1>9. CASE k = "sub"
  <2>1. handed[p] = 0 /\ A = {} /\ B = {n} /\ C = {} /\ d = 0
    BY <1>1, <1>3, <1>4, <1>9 DEF Holds, InSub
  <2> HIDE DEF A, B, C, d
  <2> QED BY <1>5, <1>6, <2>1
<1>10. CASE k = "block"
  <2>1. handed[p] = 0 /\ A = {} /\ B = {} /\ C = {n} /\ d = 0
    BY <1>1, <1>3, <1>4, <1>10 DEF Holds
  <2> HIDE DEF A, B, C, d
  <2> QED BY <1>5, <1>6, <2>1
<1>11. CASE k = "pool"
  <2>1. handed[p] = 0 /\ A = {} /\ B = {} /\ C = {} /\ d = 1
    BY <1>1, <1>3, <1>4, <1>11 DEF Holds
  <2> HIDE DEF A, B, C, d
  <2> QED BY <1>5, <1>6, <2>1
<1> QED BY <1>4, <1>7, <1>8, <1>9, <1>10, <1>11 DEF Holds

\* The structures fit together, and a sub-pool's slot has its nodes.
LEMMA TypeFacts == IInv => TypeOK
<1> SUFFICES ASSUME IInv PROVE TypeOK
  OBVIOUS
<1>T. Types /\ Grain /\ Fit(sub, nonFull, tree, subPoolNum)
      /\ \A t \in Threads : Hands(t)
  BY DEF IInv
<1>1. ASSUME NEW s \in DOMAIN sub PROVE sub[s] \in SubPool
  <2>1. /\ sub[s] \in [block : Blocks, free : SUBSET Pages, count : Nat]
        /\ sub[s].free \in SUBSET PagesOf(sub[s].block) /\ sub[s].free # {}
        /\ sub[s].count = Cardinality(sub[s].free) /\ sub[s].block \in Blocks
    BY DEF IInv, Fit
  <2>2. sub[s].count \in 1 .. PAGES
    BY <2>1, CountFacts, PoolAssumption
  <2> QED BY <2>1, <2>2 DEF SubPool
<1>2. {b \in Blocks : tree[b] # NoSub} \subseteq nodes
  BY <1>T DEF Fit, Grain
<1>3. \A t \in Threads : pc[t] \in {"add", "merge", "clear"} => block[t] \in nodes
  BY <1>T DEF Grain
<1>4. /\ DOMAIN sub \subseteq SubPools /\ nonFull \in Seq(DOMAIN sub)
      /\ tree \in [Blocks -> DOMAIN sub \cup {NoSub}] /\ subPoolNum \in Nat
  BY <1>T DEF Fit
<1> QED BY <1>1, <1>2, <1>3, <1>4, <1>T DEF TypeOK, Types

\* Whatever threads do in the page pool, its structures fit together, every page
\* is in one place and every block has the grain its place asks for: no page is
\* given twice or lost, no block goes back with a page in use (PagePoolAlloc,
\* PagePoolFree and PageSubPoolDeprecate with the lock dropped in between).
THEOREM PagesStayPartitioned == Spec => []PoolInv
<1>1. ASSUME IInv PROVE PoolInv
  <2>1. PagesPartitioned
    BY <1>1, PlacesFacts DEF PagesPartitioned
  <2>2. GrainRight
    BY <1>1 DEF IInv, Grain, GrainRight
  <2> QED BY <1>1, <2>1, <2>2, TypeFacts DEF PoolInv
<1> QED BY <1>1, PoolStructure, PTL

-----------------------------------------------------------------------------
\* The counters.  pageNum is lowered only after the section that took the page:
\* a thread between the two still owes one.
Owing == {t \in Threads : page[t] # NoPage /\ pc[t] \in {"count", "merge", "put"}}

CountInv == pageNum = Cardinality(FreePages) + Cardinality(Owing)

FreeOf(subs) == UNION {subs[s].free : s \in DOMAIN subs}

\* The free pages of a pool are a finite set.
LEMMA FreeOfFacts ==
  ASSUME NEW subs, NEW list, NEW trie, NEW num, Fit(subs, list, trie, num)
  PROVE  /\ \A q : q \in FreeOf(subs) <=> \E x : InSub(subs, x, q)
         /\ FreeOf(subs) \subseteq Pages /\ IsFiniteSet(FreeOf(subs))
         /\ Cardinality(FreeOf(subs)) \in Nat
<1>1. \A q : q \in FreeOf(subs) <=> \E x : InSub(subs, x, q)
  BY DEF FreeOf, InSub
<1>2. FreeOf(subs) \subseteq Pages
  BY <1>1 DEF Fit, InSub
<1>3. IsFiniteSet(Pages)
  <2>1. IsFiniteSet(1 .. PAGES)
    BY PoolAssumption, FS_Interval
  <2> QED BY SpaceAssumption, <2>1, FS_Product DEF Pages
<1>4. IsFiniteSet(FreeOf(subs))
  BY <1>2, <1>3, FS_Subset
<1> QED BY <1>1, <1>2, <1>4, FS_CardinalityType

\* Owing is finite, and one thread more or less is one more or less.
LEMMA OwingFacts ==
  ASSUME NEW S \in SUBSET Threads, NEW t \in Threads
  PROVE  /\ IsFiniteSet(S) /\ Cardinality(S) \in Nat
         /\ t \notin S => Cardinality(S \cup {t}) = Cardinality(S) + 1
         /\ t \in S => Cardinality(S \ {t}) = Cardinality(S) - 1
<1>1. IsFiniteSet(S)
  BY SpaceAssumption, FS_Subset
<1> QED BY <1>1, FS_CardinalityType, FS_AddElement, FS_RemoveElement

\* A step that moves no free page and settles no debt.
LEMMA SameCount ==
  ASSUME CountInv, pageNum' = pageNum, sub' = sub,
         \A u \in Threads :
           /\ page'[u] # NoPage /\ pc'[u] \in {"count", "merge", "put"}
           <=> page[u] # NoPage /\ pc[u] \in {"count", "merge", "put"}
  PROVE  CountInv'
<1>1. Owing' = Owing
  BY DEF Owing
<1>2. FreePages' = FreePages
  BY DEF FreePages
<1> QED BY <1>1, <1>2 DEF CountInv

\* An allocation from a sub-pool of the pool takes a page and owes one.
LEMMA CountAllocFrom ==
  ASSUME IInv, CountInv, NEW t \in Threads, page[t] = NoPage, NEW s \in DOMAIN sub,
         AllocFrom(t, s, sub, nonFull, tree, subPoolNum), pageNum' = pageNum,
         \A u \in Threads \ {t} : pc'[u] = pc[u], pc'[t] \in {"count", "merge"}
  PROVE  CountInv'
<1>T. Types /\ Fit(sub, nonFull, tree, subPoolNum)
      /\ \A x \in DOMAIN sub : sub[x].free # {}
  BY DEF IInv
<1>1. /\ Fit(sub', nonFull', tree', subPoolNum')
      /\ \E p \in sub[s].free :
           /\ page' = [page EXCEPT ![t] = p]
           /\ \A x, q : InSub(sub', x, q) <=> InSub(sub, x, q) /\ ~(x = s /\ q = p)
  BY <1>T, AllocFacts
<1>2. PICK p \in sub[s].free :
        /\ page' = [page EXCEPT ![t] = p]
        /\ \A x, q : InSub(sub', x, q) <=> InSub(sub, x, q) /\ ~(x = s /\ q = p)
  BY <1>1
<1>3. p \in Pages /\ p # NoPage /\ InSub(sub, s, p)
  BY SubFacts, PageFacts DEF InSub
<1>4. \A x : InSub(sub, x, p) => x = s
  <2>1. OnePlace(p)
    BY <1>3 DEF IInv
  <2> QED BY <1>3, <2>1, OneHolder DEF Holds
<1>5. FreeOf(sub') = FreeOf(sub) \ {p} /\ p \in FreeOf(sub)
  BY <1>1, <1>2, <1>3, <1>4, <1>T, FreeOfFacts
<1>6. /\ IsFiniteSet(FreeOf(sub)) /\ Cardinality(FreeOf(sub)) \in Nat
  BY <1>T, FreeOfFacts
<1>7. Cardinality(FreeOf(sub')) = Cardinality(FreeOf(sub)) - 1
  BY <1>5, <1>6, FS_RemoveElement
<1>8. Owing' = Owing \cup {t} /\ t \notin Owing /\ Owing \in SUBSET Threads
  <2>1. page'[t] = p /\ \A u \in Threads \ {t} : page'[u] = page[u]
    BY <1>2, <1>T DEF Types
  <2> QED BY <1>3, <2>1 DEF Owing
<1>9. /\ Cardinality(Owing') = Cardinality(Owing) + 1 /\ Cardinality(Owing) \in Nat
  BY <1>8, OwingFacts
<1> QED BY <1>6, <1>7, <1>9 DEF CountInv, FreePages, FreeOf

\* A new sub-pool brings the pages of a block, all but the one it is made for.
LEMMA CountAdd ==
  ASSUME IInv, CountInv, NEW t \in Threads, AddPageSubPool(t)
  PROVE  CountInv'
<1>T. Types /\ Fit(sub, nonFull, tree, subPoolNum)
      /\ (\A u \in Threads : Hands(u)) /\ \A x \in DOMAIN sub : sub[x].free # {}
  BY DEF IInv
<1>N. PICK n \in SubPools \ DOMAIN sub : n = NewName
  BY NewNameFacts
<1> DEFINE b == block[t]
           subs == WithSub(n, PageSubPool(b, PagesOf(b)))
           list == <<n>> \o nonFull
           trie == RadixTreeSet(tree, b, n)
<1>1. /\ pc[t] = "add" /\ nonFull = << >> /\ pageNum' = pageNum + PAGES
      /\ pc' = [pc EXCEPT ![t] = "count"]
      /\ AllocFrom(t, n, subs, <<n>>, trie, subPoolNum + 1)
  BY <1>N DEF AddPageSubPool, Goto
<1>2. b \in Blocks /\ BlockInHand(t, b) /\ page[t] = NoPage
  BY <1>1, <1>T DEF Hands, BlockInHand
<1>3. /\ Fit(subs, list, trie, subPoolNum + 1) /\ DOMAIN subs = DOMAIN sub \cup {n}
      /\ subs[n].block = b /\ subs[n].free = PagesOf(b)
      /\ \A x \in DOMAIN sub : subs[x] = sub[x]
      /\ \A x, q : InSub(subs, x, q) <=>
                     InSub(sub, x, q) \/ (x = n /\ q \in PagesOf(b))
  BY <1>2, <1>T, AddFacts
<1>4. list = <<n>>
  BY <1>1
<1>5. \A x \in DOMAIN subs : subs[x].free # {}
  BY <1>2, <1>3, <1>T, PageFacts
<1> HIDE DEF b, subs, list, trie
<1>6. /\ Fit(sub', nonFull', tree', subPoolNum')
      /\ \E p \in subs[n].free :
           /\ page' = [page EXCEPT ![t] = p]
           /\ \A x, q : InSub(sub', x, q) <=> InSub(subs, x, q) /\ ~(x = n /\ q = p)
  <2>1. Fit(subs, <<n>>, trie, subPoolNum + 1) /\ n \in DOMAIN subs
    BY <1>3, <1>4
  <2>2. AllocFrom(t, n, subs, <<n>>, trie, subPoolNum + 1)
    BY <1>1
  <2> QED BY <1>5, <2>1, <2>2, AllocFacts
<1>7. PICK p \in subs[n].free :
        /\ page' = [page EXCEPT ![t] = p]
        /\ \A x, q : InSub(sub', x, q) <=> InSub(subs, x, q) /\ ~(x = n /\ q = p)
  BY <1>6
<1>8. p \in PagesOf(b) /\ p # NoPage
  BY <1>2, <1>3, PageFacts
<1>9. FreeOf(sub) \cap PagesOf(b) = {}
  <2>1. \A x \in DOMAIN sub : sub[x].block # b
    BY <1>2, BlockAlone
  <2>2. \A x, q : InSub(sub, x, q) => q[1] = sub[x].block /\ x \in DOMAIN sub
    BY SubFacts DEF InSub
  <2>3. \A q \in PagesOf(b) : q[1] = b
    BY <1>2, PageFacts
  <2>4. \A q : q \in FreeOf(sub) <=> \E x : InSub(sub, x, q)
    BY <1>T, FreeOfFacts
  <2> QED BY <2>1, <2>2, <2>3, <2>4
<1>10. FreeOf(sub') = (FreeOf(sub) \cup PagesOf(b)) \ {p}
  <2>1. \A q : q \in FreeOf(sub) <=> \E x : InSub(sub, x, q)
    BY <1>T, FreeOfFacts
  <2>2. \A q : q \in FreeOf(sub') <=> \E x : InSub(sub', x, q)
    BY <1>6, FreeOfFacts
  <2>3. p \notin FreeOf(sub)
    BY <1>8, <1>9
  <2> QED BY <1>3, <1>7, <2>1, <2>2, <2>3
<1>11. IsFiniteSet(FreeOf(sub)) /\ Cardinality(FreeOf(sub)) \in Nat
  BY <1>T, FreeOfFacts
<1>12. IsFiniteSet(PagesOf(b)) /\ Cardinality(PagesOf(b)) = PAGES
  BY <1>2, PageFacts
<1>13. /\ IsFiniteSet(FreeOf(sub) \cup PagesOf(b))
       /\ Cardinality(FreeOf(sub) \cup PagesOf(b)) = Cardinality(FreeOf(sub)) + PAGES
  <2>1. /\ IsFiniteSet(FreeOf(sub) \cup PagesOf(b))
        /\ Cardinality(FreeOf(sub) \cup PagesOf(b)) =
             Cardinality(FreeOf(sub)) + Cardinality(PagesOf(b))
             - Cardinality(FreeOf(sub) \cap PagesOf(b))
    BY <1>11, <1>12, FS_Union
  <2>2. Cardinality(FreeOf(sub) \cap PagesOf(b)) = 0
    BY <1>9, FS_EmptySet
  <2> QED BY <1>11, <1>12, <2>1, <2>2, PoolAssumption
<1>14. Cardinality(FreeOf(sub')) = Cardinality(FreeOf(sub)) + PAGES - 1
  <2> DEFINE G == FreeOf(sub) \cup PagesOf(b)
  <2>1. IsFiniteSet(G) /\ p \in G
    BY <1>8, <1>13
  <2>2. Cardinality(G \ {p}) = Cardinality(G) - 1
    BY <2>1, FS_RemoveElement
  <2>3. Cardinality(G) = Cardinality(FreeOf(sub)) + PAGES /\ FreeOf(sub') = G \ {p}
    BY <1>10, <1>13
  <2> HIDE DEF G
  <2> QED BY <1>11, <2>2, <2>3, PoolAssumption
<1>15. Owing' = Owing \cup {t} /\ t \notin Owing /\ Owing \in SUBSET Threads
  <2>1. /\ page'[t] = p /\ \A u \in Threads \ {t} : page'[u] = page[u]
        /\ pc'[t] = "count" /\ \A u \in Threads \ {t} : pc'[u] = pc[u]
    BY <1>1, <1>7, <1>T DEF Types
  <2> QED BY <1>1, <1>8, <2>1 DEF Owing
<1>16. Cardinality(Owing') = Cardinality(Owing) + 1 /\ Cardinality(Owing) \in Nat
  BY <1>15, OwingFacts
<1> QED BY <1>1, <1>11, <1>14, <1>16, PoolAssumption DEF CountInv, FreePages, FreeOf

\* A free adds a page, or takes the others of its block along.
LEMMA CountFreeInto ==
  ASSUME IInv, CountInv, NEW t \in Threads, NEW p \in Pages,
         NEW k \in {"user", "thread"}, NEW n, Holds(k, n, p), NEW s, NEW subs,
         NEW list, NEW trie, NEW num,
         Fit(subs, list, trie, num), s \in DOMAIN subs, subs[s].block = p[1],
         \A x \in DOMAIN subs \ {s} : subs[x].free # {},
         \A x, q : InSub(subs, x, q) <=> InSub(sub, x, q),
         FreeInto(t, p, s, subs, list, trie, num),
         pc[t] \in {"idle", "insert"}
  PROVE  CountInv'
<1>T. Types /\ Fit(sub, nonFull, tree, subPoolNum) /\ pageNum \in Int
  BY DEF IInv, Types
<1>1. ~\E x : InSub(sub, x, p)
  <2>1. OnePlace(p)
    BY DEF IInv
  <2> QED BY <2>1, OneHolder DEF Holds
<1>2. p \in PagesOf(subs[s].block) \ subs[s].free
  <2>1. p \in PagesOf(p[1]) /\ ~InSub(subs, s, p)
    BY <1>1, PageFacts
  <2> QED BY <2>1 DEF InSub
<1>3. /\ Fit(sub', nonFull', tree', subPoolNum')
      /\ page' = [page EXCEPT ![t] = NoPage]
      /\ PageStored(t, p, s, subs) \/ BlockLeaves(t, p, s, subs)
  BY <1>2, <1>T, FreeFacts
<1>4. Owing' = Owing
  <2>1. /\ page'[t] = NoPage /\ \A u \in Threads \ {t} : page'[u] = page[u]
        /\ \A u \in Threads \ {t} : pc'[u] = pc[u]
    BY <1>3, <1>T DEF Types, PageStored, BlockLeaves, Goto
  <2> QED BY <2>1 DEF Owing
<1>5. Cardinality(Owing) \in Nat
  BY OwingFacts DEF Owing
<1>6. /\ IsFiniteSet(FreeOf(sub)) /\ Cardinality(FreeOf(sub)) \in Nat
      /\ \A q : q \in FreeOf(sub) <=> \E x : InSub(sub, x, q)
  BY <1>T, FreeOfFacts
<1>7. \A q : q \in FreeOf(sub') <=> \E x : InSub(sub', x, q)
  BY <1>3, FreeOfFacts
<1>8. CASE PageStored(t, p, s, subs)
  <2>1. FreeOf(sub') = FreeOf(sub) \cup {p} /\ p \notin FreeOf(sub)
    BY <1>1, <1>6, <1>7, <1>8 DEF PageStored
  <2>2. Cardinality(FreeOf(sub')) = Cardinality(FreeOf(sub)) + 1
    <3>1. Cardinality(FreeOf(sub) \cup {p}) = Cardinality(FreeOf(sub)) + 1
      BY <1>6, <2>1, FS_AddElement
    <3> QED BY <2>1, <3>1
  <2>3. pageNum' = pageNum + 1
    BY <1>8 DEF PageStored
  <2> QED BY <1>4, <1>5, <1>6, <1>T, <2>2, <2>3 DEF CountInv, FreePages, FreeOf
<1>9. CASE BlockLeaves(t, p, s, subs)
  <2> DEFINE D == PagesOf(p[1]) \ {p}
  <2>1. \A q \in D : q \in Pages /\ InSub(sub, s, q)
    <3>1. \A q \in D : InSub(subs, s, q)
      BY <1>9 DEF BlockLeaves, InSub
    <3>2. D \subseteq Pages
      BY PageFacts
    <3> QED BY <3>1, <3>2
  <2>2. ASSUME NEW q \in D, NEW x, InSub(sub, x, q) PROVE x = s
    <3>1. OnePlace(q) /\ Holds("sub", s, q)
      BY <2>1 DEF IInv, Holds
    <3> QED BY <2>2, <3>1, OneHolder DEF Holds
  <2>3. \A q : InSub(sub, s, q) => q \in D
    <3>1. \A q : InSub(subs, s, q) => q \in D
      BY <1>2, <1>9 DEF BlockLeaves, InSub
    <3> QED BY <3>1
  <2>4. \A x, q : InSub(sub', x, q) <=> InSub(sub, x, q) /\ x # s
    BY <1>9 DEF BlockLeaves
  <2>5. D \subseteq FreeOf(sub)
    BY <1>6, <2>1
  <2> HIDE DEF D
  <2>6. FreeOf(sub') = FreeOf(sub) \ D /\ FreeOf(sub) \cap D = D
    BY <1>6, <1>7, <2>2, <2>3, <2>4, <2>5
  <2>7. Cardinality(D) = PAGES - 1
    <3>1. p \in PagesOf(p[1]) /\ IsFiniteSet(PagesOf(p[1]))
          /\ Cardinality(PagesOf(p[1])) = PAGES
      BY PageFacts
    <3> QED BY <3>1, FS_RemoveElement DEF D
  <2>8. Cardinality(FreeOf(sub')) = Cardinality(FreeOf(sub)) - (PAGES - 1)
    <3>1. Cardinality(FreeOf(sub) \ D) =
            Cardinality(FreeOf(sub)) - Cardinality(FreeOf(sub) \cap D)
      BY <1>6, FS_Difference
    <3> QED BY <2>6, <2>7, <3>1
  <2>9. pageNum' = pageNum + 1 - PAGES
    BY <1>9 DEF BlockLeaves
  <2> QED BY <1>4, <1>5, <1>6, <1>T, <2>8, <2>9, PoolAssumption
          DEF CountInv, FreePages, FreeOf
<1> QED BY <1>3, <1>8, <1>9

\* Every action keeps the count.
LEMMA StepCount ==
  ASSUME IInv, CountInv, NEW t \in Threads, Alloc(t) \/ Free(t)
  PROVE  CountInv'
<1>T. Types /\ Grain /\ Fit(sub, nonFull, tree, subPoolNum)
      /\ (\A u \in Threads : Hands(u)) /\ \A x \in DOMAIN sub : sub[x].free # {}
  BY DEF IInv
<1>P. pc \in [Threads -> Labels] /\ page \in [Threads -> Pages \cup {NoPage}]
      /\ Hands(t)
  BY <1>T DEF Types
<1>1. ASSUME NEW hint \in Pages \cup {NoPage}, PagePoolAlloc(t, hint)
      PROVE  CountInv'
  <2>1. pc[t] = "idle" /\ page[t] = NoPage /\ pageNum' = pageNum
    BY <1>1, <1>P DEF PagePoolAlloc, Begin, Hands
  <2>2. CASE ChosenSub(hint) = NoSub
    <3>1. pc' = [pc EXCEPT ![t] = "get"] /\ UNCHANGED <<page, sub>>
      BY <1>1, <2>2 DEF PagePoolAlloc, Goto
    <3> QED BY <1>P, <2>1, <3>1, SameCount
  <2>3. CASE ChosenSub(hint) # NoSub
    <3>1. /\ AllocFrom(t, ChosenSub(hint), sub, nonFull, tree, subPoolNum)
          /\ pc' = [pc EXCEPT ![t] = "count"]
      BY <1>1, <2>3 DEF PagePoolAlloc, Goto
    <3>2. ChosenSub(hint) \in DOMAIN sub
      BY <2>3, ChosenFacts
    <3>3. pc'[t] \in {"count", "merge"} /\ \A u \in Threads \ {t} : pc'[u] = pc[u]
      BY <1>P, <3>1
    <3> QED BY <2>1, <3>1, <3>2, <3>3, CountAllocFrom
  <2> QED BY <2>2, <2>3
<1>2. CASE BlockPoolGet(t) \/ AllocFails(t)
  <2>1. /\ pc[t] = "get" /\ UNCHANGED <<page, sub, pageNum>>
        /\ pc'[t] \in {"split", "idle"} /\ \A u \in Threads \ {t} : pc'[u] = pc[u]
    BY <1>2, <1>P DEF BlockPoolGet, AllocFails, Goto
  <2> QED BY <2>1, SameCount
<1>3. CASE Split(t) \/ CreateFull(t) \/ ClearTree(t)
  <2>1. /\ pc[t] \in {"split", "new", "clear"} /\ UNCHANGED <<page, sub, pageNum>>
        /\ pc'[t] \in {"add", "insert", "idle"}
        /\ \A u \in Threads \ {t} : pc'[u] = pc[u]
    BY <1>3, <1>P DEF Split, CreateFull, ClearTree, Goto
  <2> QED BY <2>1, SameCount
<1>4. CASE Merge(t) \/ BlockPoolPut(t)
  <2>1. /\ pc[t] \in {"merge", "put"} /\ UNCHANGED <<page, sub, pageNum>>
        /\ page[t] # NoPage => pc'[t] \in {"put", "count"}
        /\ \A u \in Threads \ {t} : pc'[u] = pc[u]
    BY <1>4, <1>P DEF Merge, BlockPoolPut, Goto
  <2> QED BY <2>1, SameCount
<1>5. CASE AddPageSubPool(t)
  BY <1>5, CountAdd
<1>6. CASE AllocFromOther(t)
  <2>1. /\ pc[t] = "add" /\ nonFull # << >> /\ pc' = [pc EXCEPT ![t] = "merge"]
        /\ AllocFrom(t, Head(nonFull), sub, nonFull, tree, subPoolNum)
        /\ pageNum' = pageNum
    BY <1>6 DEF AllocFromOther, Goto
  <2>2. page[t] = NoPage /\ pc'[t] = "merge"
        /\ \A u \in Threads \ {t} : pc'[u] = pc[u]
    BY <1>P, <2>1 DEF Hands
  <2>3. Head(nonFull) \in DOMAIN sub
    BY <2>1, ChosenFacts
  <2> QED BY <2>1, <2>2, <2>3, CountAllocFrom
<1>7. CASE AllocReturn(t)
  <2>1. /\ pc[t] = "count" /\ pc' = [pc EXCEPT ![t] = "idle"]
        /\ page' = [page EXCEPT ![t] = NoPage] /\ pageNum' = pageNum - 1
        /\ sub' = sub
    BY <1>7 DEF AllocReturn, Goto
  <2>2. /\ page'[t] = NoPage /\ page[t] # NoPage
        /\ \A u \in Threads \ {t} : pc'[u] = pc[u] /\ page'[u] = page[u]
    BY <1>P, <2>1 DEF Hands
  <2>3. Owing' = Owing \ {t} /\ t \in Owing /\ Owing \in SUBSET Threads
    BY <2>1, <2>2 DEF Owing
  <2>4. Cardinality(Owing') = Cardinality(Owing) - 1 /\ Cardinality(Owing) \in Nat
    BY <2>3, OwingFacts
  <2>5. FreePages' = FreePages
    BY <2>1 DEF FreePages
  <2>6. Cardinality(FreePages) \in Nat
    BY <1>T, FreeOfFacts DEF FreePages, FreeOf
  <2> QED BY <2>1, <2>4, <2>5, <2>6 DEF CountInv
<1>8. ASSUME NEW p \in Pages, PagePoolFree(t, p) PROVE CountInv'
  <2>1. pc[t] = "idle" /\ handed[p] > 0
    BY <1>8 DEF PagePoolFree, Begin
  <2>2. CASE tree[p[1]] = NoSub
    <3>1. /\ page' = [page EXCEPT ![t] = p] /\ pc' = [pc EXCEPT ![t] = "new"]
          /\ UNCHANGED <<sub, pageNum>>
      BY <1>8, <2>2 DEF PagePoolFree, RadixTreeGet, Goto
    <3>2. /\ pc'[t] = "new"
          /\ \A u \in Threads \ {t} : pc'[u] = pc[u] /\ page'[u] = page[u]
      BY <1>P, <3>1
    <3> QED BY <2>1, <3>1, <3>2, SameCount
  <2>3. CASE tree[p[1]] # NoSub
    <3> DEFINE s == tree[p[1]]
    <3>1. FreeInto(t, p, s, sub, nonFull, tree, subPoolNum)
      BY <1>8, <2>3 DEF PagePoolFree, RadixTreeGet
    <3>2. s \in DOMAIN sub /\ sub[s].block = p[1] /\ Holds("user", p, p)
      BY <1>T, <2>1, <2>3, PageFacts DEF Fit, Holds
    <3> HIDE DEF s
    <3> QED BY <1>T, <2>1, <3>1, <3>2, CountFreeInto
  <2> QED BY <2>2, <2>3
<1>9. CASE FreeSecond(t)
  <2>1. pc[t] = "insert"
    BY <1>9 DEF FreeSecond
  <2>2. PICK p \in Pages : p = page[t]
    BY <1>P, <2>1 DEF Hands
  <2>3. Holds("thread", t, p) /\ p[1] \in Blocks
    BY <2>2, PageFacts DEF Holds
  <2>4. CASE tree[p[1]] # NoSub
    <3> DEFINE s == tree[p[1]]
    <3>1. FreeInto(t, p, s, sub, nonFull, tree, subPoolNum)
      BY <1>9, <2>2, <2>4 DEF FreeSecond, RadixTreeGet
    <3>2. s \in DOMAIN sub /\ sub[s].block = p[1]
      BY <1>T, <2>3, <2>4 DEF Fit
    <3> HIDE DEF s
    <3> QED BY <1>T, <2>1, <2>3, <3>1, <3>2, CountFreeInto
  <2>5. CASE tree[p[1]] = NoSub
    <3>N. PICK s \in SubPools \ DOMAIN sub : s = NewName
      BY NewNameFacts
    <3> DEFINE subs == WithSub(s, PageSubPool(p[1], {}))
               list == <<s>> \o nonFull
               trie == RadixTreeSet(tree, p[1], s)
               num == subPoolNum + 1
    <3>1. FreeInto(t, p, s, subs, list, trie, num)
      BY <1>9, <2>2, <2>5, <3>N DEF FreeSecond, RadixTreeGet
    <3>2. {} \in SUBSET PagesOf(p[1])
      OBVIOUS
    <3>3. /\ Fit(subs, list, trie, num) /\ DOMAIN subs = DOMAIN sub \cup {s}
          /\ subs[s].block = p[1]
          /\ \A x \in DOMAIN sub : subs[x] = sub[x]
          /\ \A x, q : InSub(subs, x, q) <=> InSub(sub, x, q) \/ (x = s /\ q \in {})
      BY <1>T, <2>3, <3>2, AddFacts
    <3> HIDE DEF subs, list, trie, num
    <3>4. \A x \in DOMAIN subs \ {s} : subs[x].free # {}
      BY <1>T, <3>3
    <3>5. \A x, q : InSub(subs, x, q) <=> InSub(sub, x, q)
      BY <3>3
    <3>6. s \in DOMAIN subs
      BY <3>3
    <3> QED BY <2>1, <2>3, <3>1, <3>3, <3>4, <3>5, <3>6, CountFreeInto
  <2> QED BY <2>4, <2>5
<1> QED BY <1>1, <1>2, <1>3, <1>4, <1>5, <1>6, <1>7, <1>8, <1>9 DEF Alloc, Free

\* pageNum is right up to what the threads owe.
THEOREM PageNumIsRight == Spec => []CountInv
<1>1. Init => CountInv
  <2> SUFFICES ASSUME Init PROVE CountInv
    OBVIOUS
  <2>1. pageNum = 0 /\ sub = << >> /\ page = [t \in Threads |-> NoPage]
    BY DEF Init
  <2>2. FreePages = {} /\ Owing = {}
    BY <2>1 DEF FreePages, Owing
  <2> QED BY <2>1, <2>2, FS_EmptySet DEF CountInv
<1>2. IInv /\ CountInv /\ [Next]_vars => CountInv'
  <2> SUFFICES ASSUME IInv, CountInv, [Next]_vars PROVE CountInv'
    OBVIOUS
  <2>1. CASE UNCHANGED vars
    BY <2>1 DEF vars, CountInv, FreePages, Owing
  <2>2. CASE Next
    BY <2>2, StepCount DEF Next
  <2> QED BY <2>1, <2>2
<1> QED BY <1>1, <1>2, PoolStructure, PTL DEF Spec

\* When no operation runs the counters are right: pageNum, moved by fetch-and-add
\* outside the lock, each sub-pool's count, and subPoolNum with the list.
THEOREM CountersAreRight == Spec => []CountsRight
<1>1. ASSUME IInv, CountInv PROVE CountsRight
  <2> SUFFICES ASSUME Quiet
               PROVE  /\ pageNum = Cardinality(FreePages)
                      /\ \A s \in DOMAIN sub : sub[s].count = Cardinality(sub[s].free)
                      /\ subPoolNum = Len(nonFull)
                      /\ Range(nonFull) = DOMAIN sub
    BY DEF CountsRight
  <2>1. Fit(sub, nonFull, tree, subPoolNum)
    BY <1>1 DEF IInv
  <2>2. Cardinality(Owing) = 0
    <3>1. Owing = {}
      BY DEF Owing, Quiet
    <3> QED BY <3>1, FS_EmptySet
  <2>3. Cardinality(FreePages) \in Nat
    BY <2>1, FreeOfFacts DEF FreePages, FreeOf
  <2>4. pageNum = Cardinality(FreePages)
    BY <1>1, <2>2, <2>3 DEF CountInv
  <2>5. Range(nonFull) = DOMAIN sub
    <3>1. /\ nonFull \in Seq(DOMAIN sub)
          /\ \A s \in DOMAIN sub : \E i \in 1 .. Len(nonFull) : nonFull[i] = s
      BY <2>1 DEF Fit, Contains
    <3>2. \A e : e \in Range(nonFull) <=> \E i \in DOMAIN nonFull : e = nonFull[i]
      BY DEF Range
    <3>3. \A e \in Range(nonFull) : e \in DOMAIN sub
      BY <3>1, <3>2
    <3>4. \A e \in DOMAIN sub : e \in Range(nonFull)
      BY <3>1, <3>2
    <3> QED BY <3>3, <3>4
  <2> QED BY <2>1, <2>4, <2>5 DEF Fit
<1> QED BY <1>1, PoolStructure, PageNumIsRight, PTL

-----------------------------------------------------------------------------
\* While operations have not overlapped.
TreeRight(subs, trie) == \A x \in DOMAIN subs : trie[subs[x].block] = x

\* Then one thread at most is in the pool, the tree knows every sub-pool, who
\* asks the block pool has found no sub-pool, and the slot that
\* PageSubPoolDeprecate clears is of a block that is back in the block pool.
AloneInv ==
  alone =>
    /\ \A t, u \in Threads : pc[t] # "idle" /\ pc[u] # "idle" => t = u
    /\ TreeRight(sub, tree)
    /\ \A t \in Threads :
         /\ pc[t] \in {"get", "split", "add"} => nonFull = << >>
         /\ pc[t] = "clear" => block[t] \in blockPool

\* A step of a thread alone in the pool leaves it alone there.
LEMMA AloneStep ==
  ASSUME NEW t \in Threads, pc \in [Threads -> Labels],
         \A u \in Threads \ {t} : pc[u] = "idle" /\ pc'[u] = pc[u],
         TreeRight(sub', tree'),
         pc'[t] \in {"get", "split", "add"} => nonFull' = << >>,
         pc'[t] = "clear" => block'[t] \in blockPool'
  PROVE  AloneInv'
BY DEF AloneInv

\* A section that empties a sub-pool clears its slot and no other's.
LEMMA AllocTree ==
  ASSUME NEW t, NEW subs, NEW list, NEW trie, NEW num, NEW s \in DOMAIN subs,
         Fit(subs, list, trie, num), TreeRight(subs, trie),
         AllocFrom(t, s, subs, list, trie, num)
  PROVE  TreeRight(sub', tree')
<1>1. PICK p \in subs[s].free :
        LET left == [subs EXCEPT ![s].free = @ \ {p}, ![s].count = @ - 1]
        IN /\ page' = [page EXCEPT ![t] = p]
           /\ IF left[s].count = 0
              THEN /\ sub' = [x \in DOMAIN left \ {s} |-> left[x]]
                   /\ nonFull' = RemoveFirst(list, s)
                   /\ tree' = RadixTreeSet(trie, subs[s].block, NoSub)
                   /\ subPoolNum' = num - 1
              ELSE /\ sub' = left
                   /\ nonFull' = list
                   /\ tree' = trie
                   /\ subPoolNum' = num
  BY DEF AllocFrom
<1> DEFINE left == [subs EXCEPT ![s].free = @ \ {p}, ![s].count = @ - 1]
<1>2. DOMAIN left = DOMAIN subs /\ \A x \in DOMAIN subs : left[x].block = subs[x].block
  BY DEF Fit
<1>3. \/ sub' = [x \in DOMAIN left \ {s} |-> left[x]]
         /\ tree' = [trie EXCEPT ![subs[s].block] = NoSub]
      \/ sub' = left /\ tree' = trie
  BY <1>1 DEF RadixTreeSet
<1> HIDE DEF left
<1>4. trie \in [Blocks -> DOMAIN subs \cup {NoSub}]
      /\ \A x \in DOMAIN subs : subs[x].block \in Blocks /\ trie[subs[x].block] = x
  BY DEF Fit, TreeRight
<1>5. CASE sub' = left /\ tree' = trie
  BY <1>2, <1>4, <1>5 DEF TreeRight
<1>6. CASE sub' = [x \in DOMAIN left \ {s} |-> left[x]]
           /\ tree' = [trie EXCEPT ![subs[s].block] = NoSub]
  <2>1. \A x \in DOMAIN sub' : x \in DOMAIN subs /\ x # s
                               /\ sub'[x].block = subs[x].block
    BY <1>2, <1>6
  <2>2. \A x \in DOMAIN subs : x # s => subs[x].block # subs[s].block
    BY <1>4
  <2> QED BY <1>4, <1>6, <2>1, <2>2 DEF TreeRight
<1> QED BY <1>3, <1>5, <1>6

\* So does one that fills a sub-pool whose block goes back.
LEMMA FreeTree ==
  ASSUME NEW t, NEW p, NEW subs, NEW list, NEW trie, NEW num,
         NEW s \in DOMAIN subs, Fit(subs, list, trie, num), TreeRight(subs, trie),
         FreeInto(t, p, s, subs, list, trie, num)
  PROVE  TreeRight(sub', tree') /\ (Goto(t, "idle") \/ Goto(t, "merge"))
<1> DEFINE more == [subs EXCEPT ![s].free = @ \cup {p}, ![s].count = @ + 1]
<1>2. DOMAIN more = DOMAIN subs /\ \A x \in DOMAIN subs : more[x].block = subs[x].block
  BY DEF Fit
<1>3. \/ sub' = [x \in DOMAIN more \ {s} |-> more[x]]
         /\ tree' = [trie EXCEPT ![subs[s].block] = NoSub] /\ Goto(t, "merge")
      \/ sub' = more /\ tree' = trie /\ Goto(t, "idle")
  BY DEF FreeInto, RadixTreeSet
<1> HIDE DEF more
<1>4. trie \in [Blocks -> DOMAIN subs \cup {NoSub}]
      /\ \A x \in DOMAIN subs : subs[x].block \in Blocks /\ trie[subs[x].block] = x
  BY DEF Fit, TreeRight
<1>5. CASE sub' = more /\ tree' = trie
  BY <1>2, <1>3, <1>4, <1>5 DEF TreeRight
<1>6. CASE sub' = [x \in DOMAIN more \ {s} |-> more[x]]
           /\ tree' = [trie EXCEPT ![subs[s].block] = NoSub]
  <2>1. \A x \in DOMAIN sub' : x \in DOMAIN subs /\ x # s
                               /\ sub'[x].block = subs[x].block
    BY <1>2, <1>6
  <2>2. \A x \in DOMAIN subs : x # s => subs[x].block # subs[s].block
    BY <1>4
  <2>3. TreeRight(sub', tree')
    BY <1>4, <1>6, <2>1, <2>2 DEF TreeRight
  <2> QED BY <1>3, <2>3
<1> QED BY <1>3, <1>5, <1>6

\* A sub-pool made for a block that has none is the one its slot names.
LEMMA AddTree ==
  ASSUME NEW s, s \notin DOMAIN sub, NEW b \in Blocks, NEW F,
         Fit(sub, nonFull, tree, subPoolNum), TreeRight(sub, tree), tree[b] = NoSub
  PROVE  TreeRight(WithSub(s, PageSubPool(b, F)), RadixTreeSet(tree, b, s))
<1> DEFINE subs == WithSub(s, PageSubPool(b, F))
           trie == RadixTreeSet(tree, b, s)
<1>1. /\ DOMAIN subs = DOMAIN sub \cup {s} /\ subs[s].block = b
      /\ \A x \in DOMAIN sub : subs[x] = sub[x]
  BY DEF WithSub, PageSubPool
<1>2. /\ tree \in [Blocks -> DOMAIN sub \cup {NoSub}]
      /\ \A x \in DOMAIN sub : sub[x].block \in Blocks /\ tree[sub[x].block] = x
      /\ NoSub \notin DOMAIN sub
  BY PoolAssumption DEF Fit, TreeRight
<1>3. trie[b] = s /\ \A a \in Blocks : a # b => trie[a] = tree[a]
  BY <1>2 DEF RadixTreeSet
<1> HIDE DEF subs, trie
<1>4. TreeRight(subs, trie)
  BY <1>1, <1>2, <1>3 DEF TreeRight
<1> QED BY <1>4 DEF subs, trie

\* Every action keeps AloneInv.
LEMMA StepAlone ==
  ASSUME IInv, AloneInv, NEW t \in Threads, Alloc(t) \/ Free(t)
  PROVE  AloneInv'
<1> SUFFICES ASSUME alone' PROVE AloneInv'
  BY DEF AloneInv
<1>T. Types /\ Fit(sub, nonFull, tree, subPoolNum) /\ Hands(t)
      /\ \A x \in DOMAIN sub : sub[x].free # {}
  BY DEF IInv
<1>P. /\ pc \in [Threads -> Labels] /\ block \in [Threads -> Blocks \cup {NoBlock}]
      /\ page \in [Threads -> Pages \cup {NoPage}]
      /\ tree \in [Blocks -> DOMAIN sub \cup {NoSub}]
      /\ \A x \in DOMAIN sub : sub[x].block \in Blocks
      /\ nonFull \in Seq(DOMAIN sub)
      /\ \A x \in DOMAIN sub : Contains(nonFull, x)
  BY <1>T DEF Types, Fit
<1>A. ASSUME pc[t] # "idle", alone' = alone
      PROVE  /\ \A u \in Threads \ {t} : pc[u] = "idle"
             /\ TreeRight(sub, tree)
             /\ pc[t] \in {"get", "split", "add"} => nonFull = << >>
             /\ pc[t] = "clear" => block[t] \in blockPool
  BY <1>A DEF AloneInv
<1>B. ASSUME Begin(t)
      PROVE  /\ pc[t] = "idle" /\ \A u \in Threads \ {t} : pc[u] = "idle"
             /\ TreeRight(sub, tree)
  BY <1>B DEF AloneInv, Begin, Quiet
<1>1. ASSUME NEW hint \in Pages \cup {NoPage}, PagePoolAlloc(t, hint)
      PROVE  AloneInv'
  <2>1. Begin(t)
    BY <1>1 DEF PagePoolAlloc
  <2>2. CASE ChosenSub(hint) = NoSub
    <3>1. pc' = [pc EXCEPT ![t] = "get"] /\ UNCHANGED <<sub, nonFull, tree>>
      BY <1>1, <2>2 DEF PagePoolAlloc, Goto
    <3>2. nonFull = << >>
      <4>1. nonFull # << >> => Head(nonFull) \in DOMAIN sub /\ NoSub \notin DOMAIN sub
        BY <1>T, ChosenFacts, PoolAssumption DEF Fit
      <4> QED BY <2>2, <4>1 DEF ChosenSub, FirstSub
    <3>3. /\ pc'[t] = "get" /\ nonFull' = << >> /\ TreeRight(sub', tree')
          /\ \A u \in Threads \ {t} : pc[u] = "idle" /\ pc'[u] = pc[u]
      BY <1>B, <1>P, <2>1, <3>1, <3>2
    <3> QED BY <1>P, <3>3, AloneStep
  <2>3. CASE ChosenSub(hint) # NoSub
    <3>1. /\ AllocFrom(t, ChosenSub(hint), sub, nonFull, tree, subPoolNum)
          /\ pc' = [pc EXCEPT ![t] = "count"]
      BY <1>1, <2>3 DEF PagePoolAlloc, Goto
    <3>2. ChosenSub(hint) \in DOMAIN sub
      BY <2>3, ChosenFacts
    <3>3. TreeRight(sub', tree')
      BY <1>B, <1>T, <2>1, <3>1, <3>2, AllocTree
    <3>4. /\ pc'[t] = "count"
          /\ \A u \in Threads \ {t} : pc[u] = "idle" /\ pc'[u] = pc[u]
      BY <1>B, <1>P, <2>1, <3>1
    <3> QED BY <1>P, <3>3, <3>4, AloneStep
  <2> QED BY <2>2, <2>3
<1>2. CASE BlockPoolGet(t) \/ AllocFails(t) \/ Split(t)
  <2>1. /\ pc[t] \in {"get", "split"} /\ alone' = alone
        /\ UNCHANGED <<sub, nonFull, tree>>
        /\ pc'[t] \in {"split", "idle", "add"}
        /\ \A u \in Threads \ {t} : pc'[u] = pc[u]
    BY <1>2, <1>P DEF BlockPoolGet, AllocFails, Split, Goto
  <2>2. /\ \A u \in Threads \ {t} : pc[u] = "idle" /\ pc'[u] = pc[u]
        /\ TreeRight(sub', tree') /\ nonFull' = << >>
    BY <1>A, <2>1
  <2> QED BY <1>P, <2>1, <2>2, AloneStep
<1>3. CASE Merge(t) \/ CreateFull(t) \/ AllocReturn(t)
  <2>1. /\ pc[t] \in {"merge", "new", "count"} /\ alone' = alone
        /\ UNCHANGED <<sub, tree>>
        /\ pc'[t] \in {"put", "insert", "idle"}
        /\ \A u \in Threads \ {t} : pc'[u] = pc[u]
    BY <1>3, <1>P DEF Merge, CreateFull, AllocReturn, Goto
  <2>2. /\ \A u \in Threads \ {t} : pc[u] = "idle" /\ pc'[u] = pc[u]
        /\ TreeRight(sub', tree')
    BY <1>A, <2>1
  <2> QED BY <1>P, <2>1, <2>2, AloneStep
<1>4. CASE BlockPoolPut(t)
  <2>1. /\ pc[t] = "put" /\ alone' = alone /\ UNCHANGED <<sub, tree, block>>
        /\ pc'[t] \in {"clear", "count"} /\ blockPool' = blockPool \cup {block[t]}
        /\ \A u \in Threads \ {t} : pc'[u] = pc[u]
    BY <1>4, <1>P DEF BlockPoolPut, Goto
  <2>2. /\ \A u \in Threads \ {t} : pc[u] = "idle" /\ pc'[u] = pc[u]
        /\ TreeRight(sub', tree')
    BY <1>A, <2>1
  <2>3. block'[t] \in blockPool'
    BY <2>1
  <2> QED BY <1>P, <2>1, <2>2, <2>3, AloneStep
<1>5. CASE ClearTree(t)
  <2>1. /\ pc[t] = "clear" /\ alone' = alone /\ sub' = sub
        /\ tree' = [tree EXCEPT ![block[t]] = NoSub]
        /\ pc'[t] = "idle" /\ \A u \in Threads \ {t} : pc'[u] = pc[u]
    BY <1>5, <1>P DEF ClearTree, Goto, RadixTreeSet
  <2>2. /\ \A u \in Threads \ {t} : pc[u] = "idle" /\ pc'[u] = pc[u]
        /\ TreeRight(sub, tree) /\ block[t] \in blockPool
    BY <1>A, <2>1
  <2>3. \A x \in DOMAIN sub : sub[x].block # block[t]
    BY <2>2 DEF IInv, Grain
  <2>4. TreeRight(sub', tree')
    BY <1>P, <2>1, <2>2, <2>3 DEF TreeRight
  <2> QED BY <1>P, <2>1, <2>2, <2>4, AloneStep
<1>6. CASE AddPageSubPool(t)
  <2>N. PICK n \in SubPools \ DOMAIN sub : n = NewName
    BY NewNameFacts
  <2> DEFINE b == block[t]
             subs == WithSub(n, PageSubPool(b, PagesOf(b)))
             list == <<n>> \o nonFull
             trie == RadixTreeSet(tree, b, n)
  <2>1. /\ pc[t] = "add" /\ nonFull = << >> /\ alone' = alone
        /\ pc' = [pc EXCEPT ![t] = "count"]
        /\ AllocFrom(t, n, subs, <<n>>, trie, subPoolNum + 1)
    BY <1>6, <2>N DEF AddPageSubPool, Goto
  <2>2. b \in Blocks /\ list = <<n>> /\ DOMAIN sub = {}
    <3>1. b \in Blocks /\ list = <<n>>
      BY <1>T, <2>1 DEF Hands
    <3>2. \A x : ~Contains(nonFull, x)
      BY <2>1 DEF Contains
    <3> QED BY <1>P, <3>1, <3>2
  <2>3. tree[b] = NoSub /\ PagesOf(b) \in SUBSET PagesOf(b)
    BY <1>P, <2>2
  <2>4. /\ Fit(subs, list, trie, subPoolNum + 1) /\ DOMAIN subs = DOMAIN sub \cup {n}
        /\ subs[n].block = b /\ subs[n].free = PagesOf(b)
        /\ \A x \in DOMAIN sub : subs[x] = sub[x]
        /\ \A x, q : InSub(subs, x, q) <=>
                       InSub(sub, x, q) \/ (x = n /\ q \in PagesOf(b))
    <3>1. b \in Blocks /\ Fit(sub, nonFull, tree, subPoolNum)
      BY <1>T, <2>2
    <3> HIDE DEF b
    <3> QED BY <2>3, <3>1, AddFacts
  <2>5. /\ \A u \in Threads \ {t} : pc[u] = "idle"
        /\ TreeRight(sub, tree)
    BY <1>A, <2>1
  <2>6. TreeRight(subs, trie)
    BY <1>T, <2>2, <2>3, <2>5, AddTree
  <2>7. TreeRight(sub', tree')
    <3> HIDE DEF subs, trie, list
    <3> QED BY <2>1, <2>2, <2>4, <2>6, AllocTree
  <2>8. pc'[t] = "count" /\ \A u \in Threads \ {t} : pc'[u] = pc[u]
    BY <1>P, <2>1
  <2> QED BY <1>P, <2>5, <2>7, <2>8, AloneStep
<1>7. CASE AllocFromOther(t)
  <2>1. pc[t] = "add" /\ nonFull # << >> /\ alone' = alone
    BY <1>7 DEF AllocFromOther
  <2> QED BY <1>A, <2>1
<1>8. ASSUME NEW p \in Pages, PagePoolFree(t, p) PROVE AloneInv'
  <2>1. Begin(t)
    BY <1>8 DEF PagePoolFree
  <2>2. /\ \A u \in Threads \ {t} : pc[u] = "idle"
        /\ TreeRight(sub, tree)
    BY <1>B, <2>1
  <2>3. CASE tree[p[1]] = NoSub
    <3>1. pc' = [pc EXCEPT ![t] = "new"] /\ UNCHANGED <<sub, tree>>
      BY <1>8, <2>3 DEF PagePoolFree, RadixTreeGet, Goto
    <3>2. /\ pc'[t] = "new" /\ TreeRight(sub', tree')
          /\ \A u \in Threads \ {t} : pc'[u] = pc[u]
      BY <1>P, <2>2, <3>1
    <3> QED BY <1>P, <2>2, <3>2, AloneStep
  <2>4. CASE tree[p[1]] # NoSub
    <3> DEFINE s == tree[p[1]]
    <3>1. FreeInto(t, p, s, sub, nonFull, tree, subPoolNum)
      BY <1>8, <2>4 DEF PagePoolFree, RadixTreeGet
    <3>2. s \in DOMAIN sub
      BY <1>P, <2>4, PageFacts
    <3> HIDE DEF s
    <3>3. TreeRight(sub', tree') /\ (Goto(t, "idle") \/ Goto(t, "merge"))
      BY <1>T, <2>2, <3>1, <3>2, FreeTree
    <3>4. pc'[t] \in {"idle", "merge"} /\ \A u \in Threads \ {t} : pc'[u] = pc[u]
      BY <1>P, <3>3 DEF Goto
    <3> QED BY <1>P, <2>2, <3>3, <3>4, AloneStep
  <2> QED BY <2>3, <2>4
<1>9. CASE FreeSecond(t)
  <2>1. pc[t] = "insert" /\ alone' = alone
    BY <1>9 DEF FreeSecond
  <2>2. PICK p \in Pages : p = page[t]
    BY <1>P, <1>T, <2>1 DEF Hands
  <2>3. p[1] \in Blocks
    BY PageFacts
  <2>4. /\ \A u \in Threads \ {t} : pc[u] = "idle"
        /\ TreeRight(sub, tree)
    BY <1>A, <2>1
  <2>5. TreeRight(sub', tree') /\ (Goto(t, "idle") \/ Goto(t, "merge"))
    <3>1. CASE tree[p[1]] # NoSub
      <4> DEFINE s == tree[p[1]]
      <4>1. FreeInto(t, p, s, sub, nonFull, tree, subPoolNum)
        BY <1>9, <2>2, <3>1 DEF FreeSecond, RadixTreeGet
      <4>2. s \in DOMAIN sub
        BY <1>P, <2>3, <3>1
      <4> HIDE DEF s
      <4> QED BY <1>T, <2>4, <4>1, <4>2, FreeTree
    <3>2. CASE tree[p[1]] = NoSub
      <4>N. PICK s \in SubPools \ DOMAIN sub : s = NewName
        BY NewNameFacts
      <4> DEFINE subs == WithSub(s, PageSubPool(p[1], {}))
                 list == <<s>> \o nonFull
                 trie == RadixTreeSet(tree, p[1], s)
                 num == subPoolNum + 1
      <4>1. FreeInto(t, p, s, subs, list, trie, num)
        BY <1>9, <2>2, <3>2, <4>N DEF FreeSecond, RadixTreeGet
      <4>2. {} \in SUBSET PagesOf(p[1])
        OBVIOUS
      <4>3. Fit(subs, list, trie, num) /\ DOMAIN subs = DOMAIN sub \cup {s}
        BY <1>T, <2>3, <4>2, AddFacts
      <4>4. TreeRight(subs, trie)
        BY <1>T, <2>3, <2>4, <3>2, AddTree
      <4> HIDE DEF subs, list, trie, num
      <4> QED BY <4>1, <4>3, <4>4, FreeTree
    <3> QED BY <3>1, <3>2
  <2>6. pc'[t] \in {"idle", "merge"} /\ \A u \in Threads \ {t} : pc'[u] = pc[u]
    BY <1>P, <2>5 DEF Goto
  <2> QED BY <1>P, <2>4, <2>5, <2>6, AloneStep
<1> QED BY <1>1, <1>2, <1>3, <1>4, <1>5, <1>6, <1>7, <1>8, <1>9 DEF Alloc, Free

\* AloneInv holds in every state of the pool.
THEOREM AloneStructure == Spec => []AloneInv
<1>1. Init => AloneInv
  <2> SUFFICES ASSUME Init PROVE AloneInv
    OBVIOUS
  <2>1. /\ \A t \in Threads : pc[t] = "idle"
        /\ DOMAIN sub = {}
    BY DEF Init
  <2> QED BY <2>1 DEF AloneInv, TreeRight
<1>2. IInv /\ AloneInv /\ [Next]_vars => AloneInv'
  <2> SUFFICES ASSUME IInv, AloneInv, [Next]_vars PROVE AloneInv'
    OBVIOUS
  <2>1. CASE UNCHANGED vars
    BY <2>1 DEF vars, AloneInv, TreeRight
  <2>2. CASE Next
    BY <2>2, StepAlone DEF Next
  <2> QED BY <2>1, <2>2
<1> QED BY <1>1, <1>2, PoolStructure, PTL DEF Spec

\* As long as operations have not overlapped, the pool serves what it can:
\* PagePoolAlloc fails only with no page free anywhere, and PagePoolAllocWithHint
\* gives a page of the hint's block as long as that has one.
THEOREM PoolServesWhenAlone == Spec => ServedWhenAlone
<1>1. ASSUME IInv, AloneInv, [Next]_vars
      PROVE  [FailsOnlyWhenEmpty /\ HintHonoured]_vars
  <2>T. /\ nonFull \in Seq(DOMAIN sub) /\ tree \in [Blocks -> DOMAIN sub \cup {NoSub}]
        /\ \A x \in DOMAIN sub : Contains(nonFull, x) /\ sub[x].block \in Blocks
        /\ NoSub \notin DOMAIN sub /\ Fit(sub, nonFull, tree, subPoolNum)
    BY <1>1, PoolAssumption DEF IInv, Fit
  <2>1. FailsOnlyWhenEmpty
    <3> SUFFICES ASSUME alone, NEW t \in Threads, AllocFails(t)
                 PROVE  FreePages = {} /\ blockPool = {}
      BY DEF FailsOnlyWhenEmpty
    <3>1. nonFull = << >> /\ blockPool = {}
      BY <1>1 DEF AloneInv, AllocFails
    <3>2. \A x : ~Contains(nonFull, x)
      BY <3>1 DEF Contains
    <3>3. DOMAIN sub = {}
      BY <2>T, <3>2
    <3> QED BY <3>1, <3>3 DEF FreePages
  <2>2. HintHonoured
    <3> SUFFICES ASSUME alone', NEW t \in Threads, NEW hint \in Pages,
                        PagePoolAlloc(t, hint),
                        FreePages \cap PagesOf(hint[1]) # {}
                 PROVE  page'[t][1] = hint[1]
      BY DEF HintHonoured
    <3>1. PICK q \in FreePages : q \in PagesOf(hint[1])
      OBVIOUS
    <3>2. PICK s \in DOMAIN sub : q \in sub[s].free
      BY DEF FreePages
    <3>3. hint[1] \in Blocks /\ q[1] = hint[1] /\ hint # NoPage
      BY <3>1, PageFacts
    <3>4. sub[s].block = hint[1]
      BY <1>1, <3>2, <3>3, SubFacts
    <3>5. tree[hint[1]] = s
      BY <1>1, <3>4 DEF PagePoolAlloc, Begin, AloneInv, TreeRight
    <3>6. ChosenSub(hint) = s /\ s # NoSub
      BY <2>T, <3>3, <3>5 DEF ChosenSub, HintedSub, RadixTreeGet
    <3>7. PICK p \in sub[s].free : page' = [page EXCEPT ![t] = p]
      BY <3>6 DEF PagePoolAlloc, AllocFrom
    <3>8. p[1] = hint[1]
      BY <1>1, <3>4, SubFacts
    <3>9. page'[t] = p
      BY <1>1, <3>7 DEF IInv, Types
    <3> QED BY <3>8, <3>9
  <2> QED BY <2>1, <2>2
<1> QED BY <1>1, PoolStructure, AloneStructure, PTL DEF Spec, ServedWhenAlone
=============================================================================
