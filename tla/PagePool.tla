------------------------------ MODULE PagePool ------------------------------
(***************************************************************************)
(* The page pool (src/src/fs/PagePool.c with src/src/fs/RadixTree.c) used  *)
(* by several threads, above the block pool and the wear leveler.          *)
(*                                                                         *)
(* A sub-pool holds the free pages of one split block.  Sub-pools with a   *)
(* free page are on the list nonFull and in the radix tree; a full one is  *)
(* forgotten and made again when one of its pages is freed.  A section     *)
(* under the spin lock is one step.  Everything outside it is a step of    *)
(* its own: the block pool, split and merge, the counters, and the last    *)
(* RadixTreeSet of PageSubPoolDeprecate, which takes no lock (it writes    *)
(* one slot, and no section reads a slot again after writing it).          *)
(*                                                                         *)
(* The block pool is the set blockPool behind its own mutex; which free    *)
(* page or block is chosen is left open (the code takes the first from     *)
(* nextIndex on).  Users free any page that was handed out, from any       *)
(* thread.                                                                 *)
(***************************************************************************)
EXTENDS Integers, FiniteSetsExt, SequencesExt

CONSTANTS
  Threads,
  Blocks,        \* blocks the block pool starts with
  NoBlock,
  PAGES,         \* pages of a block: 512 in the code
  KEEP,          \* empty sub-pools go back when there are this many: 3
  SubPools,      \* names (addresses) of sub-pools, as many as are ever needed
  NoSub,
  MaxOps         \* bound: operations started

Pages == Blocks \X (1 .. PAGES)
NoPage == <<NoBlock, 0>>

ASSUME PoolAssumption ==
  /\ PAGES \in Nat \ {0}
  /\ KEEP \in Nat
  /\ MaxOps \in Nat
  /\ NoBlock \notin Blocks
  /\ NoSub \notin SubPools
\* There is memory for one more sub-pool than pages: every sub-pool in use has
\* a free page of its own.
ASSUME SpaceAssumption ==
  /\ IsFiniteSet(Threads) /\ IsFiniteSet(Blocks) /\ IsFiniteSet(SubPools)
  /\ Cardinality(SubPools) > Cardinality(Pages)

VARIABLES
  blockPool,     \* blocks in the block pool
  fineGrain,     \* blocks the wear leveler has split
  sub,           \* sub-pool in use -> its block, bitmap zeros and count
  nonFull,       \* the list
  tree,          \* the radix tree: block -> sub-pool or NoSub
  nodes,         \* blocks whose slot has its two nodes above it
  subPoolNum,
  pageNum,
  handed,        \* page -> how many users were given it
  pc,
  page,          \* thread -> the page it was given or is freeing
  block,         \* thread -> block of newSp or emptySp
  ops,
  alone          \* ghost: no operation has yet begun while another ran

vars == <<blockPool, fineGrain, sub, nonFull, tree, subPoolNum, pageNum,
          handed, pc, page, block, ops, alone, nodes>>

-----------------------------------------------------------------------------
Init ==
  /\ blockPool = Blocks
  /\ fineGrain = {}
  /\ sub = << >>
  /\ nonFull = << >>
  /\ tree = [b \in Blocks |-> NoSub]
  /\ nodes = {}
  /\ subPoolNum = 0
  /\ pageNum = 0
  /\ handed = [p \in Pages |-> 0]
  /\ pc = [t \in Threads |-> "idle"]
  /\ page = [t \in Threads |-> NoPage]
  /\ block = [t \in Threads |-> NoBlock]
  /\ ops = 0
  /\ alone = TRUE

Goto(t, label) == pc' = [pc EXCEPT ![t] = label]
Quiet == \A t \in Threads : pc[t] = "idle"
Begin(t) ==
  /\ pc[t] = "idle" /\ ops < MaxOps
  /\ ops' = ops + 1
  /\ alone' = (alone /\ Quiet)

\* RadixTree.c: three layers of 512 slots are a map from blocks.  The nodes on
\* the way to a slot are made outside the lock, by compare-and-swap, and stay;
\* RadixTreeSet asserts that they are there.
RadixTreeGet(trie, b) == trie[b]
RadixTreeSetPrepare(b) == nodes' = nodes \cup {b}
RadixTreeSet(trie, b, s) == [trie EXCEPT ![b] = s]

NewName == CHOOSE s \in SubPools : s \notin DOMAIN sub
PageSubPool(b, free) == [block |-> b, free |-> free, count |-> Cardinality(free)]
PagesOf(b) == {b} \X (1 .. PAGES)
WithSub(s, sp) == [x \in DOMAIN sub \cup {s} |-> IF x = s THEN sp ELSE sub[x]]

\* CreatePageSubPool for block b.  Its memory may be that of a sub-pool that a
\* thread has freed and will read once more (see ClearTree).
Create(b) ==
  \/ UNCHANGED block
  \/ \E u \in Threads : pc[u] = "clear" /\ block' = [block EXCEPT ![u] = b]

-----------------------------------------------------------------------------
\* PagePoolAlloc and PagePoolAllocWithHint; hint NoPage is no hint.

\* AllocPageFromPageSubPool and PageSubPoolAllocated on sub-pool s of the
\* given pool state, which the section has changed already or not.
AllocFrom(t, s, subs, list, trie, num) ==
  \E p \in subs[s].free :
    LET left == [subs EXCEPT ![s].free = @ \ {p}, ![s].count = @ - 1]
    IN /\ page' = [page EXCEPT ![t] = p]
       /\ IF left[s].count = 0
          THEN /\ sub' = [x \in DOMAIN left \ {s} |-> left[x]]
               /\ nonFull' = RemoveFirst(list, s)
               /\ tree' = RadixTreeSet(trie, subs[s].block, NoSub)
               /\ subPoolNum' = num - 1
          ELSE /\ sub' = left
               /\ nonFull' = list
               /\ tree' = trie
               /\ subPoolNum' = num

HintedSub(hint) == IF hint = NoPage THEN NoSub ELSE RadixTreeGet(tree, hint[1])
FirstSub == IF nonFull = << >> THEN NoSub ELSE Head(nonFull)

ChosenSub(hint) == IF HintedSub(hint) = NoSub THEN FirstSub ELSE HintedSub(hint)

\* The first section finds a sub-pool, or leaves the lock to make one.
PagePoolAlloc(t, hint) ==
  /\ Begin(t)
  /\ LET s == ChosenSub(hint)
     IN IF s = NoSub
        THEN /\ Goto(t, "get")
             /\ UNCHANGED <<page, sub, nonFull, tree, subPoolNum>>
        ELSE /\ AllocFrom(t, s, sub, nonFull, tree, subPoolNum)
             /\ Goto(t, "count")
  /\ UNCHANGED <<blockPool, fineGrain, nodes, pageNum, handed, block>>

\* PageSubPoolPrepare: the block pool gives a block or has none.
BlockPoolGet(t) ==
  /\ pc[t] = "get"
  /\ \E b \in blockPool :
       /\ blockPool' = blockPool \ {b}
       /\ block' = [block EXCEPT ![t] = b]
  /\ Goto(t, "split")
  /\ UNCHANGED <<fineGrain, sub, nonFull, tree, subPoolNum, pageNum, handed,
                 page, ops, alone, nodes>>

AllocFails(t) ==
  /\ pc[t] = "get"
  /\ blockPool = {}
  /\ Goto(t, "idle")
  /\ UNCHANGED <<blockPool, fineGrain, sub, nonFull, tree, subPoolNum, pageNum,
                 handed, page, block, ops, alone, nodes>>

\* NVMAccesserSplit, CreatePageSubPool and RadixTreeSetPrepare for the block.
Split(t) ==
  /\ pc[t] = "split"
  /\ fineGrain' = fineGrain \cup {block[t]}
  /\ Create(block[t])
  /\ RadixTreeSetPrepare(block[t])
  /\ Goto(t, "add")
  /\ UNCHANGED <<blockPool, sub, nonFull, tree, subPoolNum, pageNum, handed,
                 page, ops, alone>>

\* The second section: the new sub-pool is added unless the list has one now,
\* and then goes back.
AddPageSubPool(t) ==
  /\ pc[t] = "add"
  /\ nonFull = << >>
  /\ LET b == block[t]
     IN AllocFrom(t, NewName, WithSub(NewName, PageSubPool(b, PagesOf(b))),
                  <<NewName>>, RadixTreeSet(tree, b, NewName), subPoolNum + 1)
  /\ pageNum' = pageNum + PAGES
  /\ Goto(t, "count")
  /\ UNCHANGED <<blockPool, fineGrain, handed, block, ops, alone, nodes>>

AllocFromOther(t) ==
  /\ pc[t] = "add"
  /\ nonFull # << >>
  /\ AllocFrom(t, Head(nonFull), sub, nonFull, tree, subPoolNum)
  /\ Goto(t, "merge")
  /\ UNCHANGED <<blockPool, fineGrain, pageNum, handed, block, ops, alone, nodes>>

\* Mutant: pageNum is only lowered in the section that adds a sub-pool.
ReturnUncounted(t) ==
  /\ pc[t] = "count"
  /\ handed' = [handed EXCEPT ![page[t]] = @ + 1]
  /\ page' = [page EXCEPT ![t] = NoPage]
  /\ block' = [block EXCEPT ![t] = NoBlock]
  /\ Goto(t, "idle")
  /\ UNCHANGED <<blockPool, fineGrain, sub, nonFull, tree, subPoolNum, pageNum,
                 ops, alone, nodes>>

\* FETCH_AND_ADD after the section, then the page is the caller's.
AllocReturn(t) ==
  /\ pc[t] = "count"
  /\ pageNum' = pageNum - 1
  /\ handed' = [handed EXCEPT ![page[t]] = @ + 1]
  /\ page' = [page EXCEPT ![t] = NoPage]
  /\ block' = [block EXCEPT ![t] = NoBlock]
  /\ Goto(t, "idle")
  /\ UNCHANGED <<blockPool, fineGrain, sub, nonFull, tree, subPoolNum, ops, alone, nodes>>

-----------------------------------------------------------------------------
\* PagePoolFree.

\* Mutant: one page too early.
FreeReturnsEarly(t, p, s, subs, list, trie, num) ==
  LET more == [subs EXCEPT ![s].free = @ \cup {p}, ![s].count = @ + 1]
      b == subs[s].block
  IN /\ page' = [page EXCEPT ![t] = NoPage]
     /\ IF more[s].count >= PAGES - 1 /\ num >= KEEP
        THEN /\ sub' = [x \in DOMAIN more \ {s} |-> more[x]]
             /\ nonFull' = RemoveFirst(list, s)
             /\ tree' = RadixTreeSet(trie, b, NoSub)
             /\ subPoolNum' = num - 1
             /\ pageNum' = pageNum + 1 - PAGES
             /\ block' = [block EXCEPT ![t] = b]
             /\ Goto(t, "merge")
        ELSE /\ sub' = more
             /\ nonFull' = list
             /\ tree' = trie
             /\ subPoolNum' = num
             /\ pageNum' = pageNum + 1
             /\ Goto(t, "idle")
             /\ UNCHANGED block

\* The end of the section: the page goes to sub-pool s of the given state, and
\* an empty sub-pool leaves the pool when there are enough.
FreeInto(t, p, s, subs, list, trie, num) ==
  LET more == [subs EXCEPT ![s].free = @ \cup {p}, ![s].count = @ + 1]
      b == subs[s].block
  IN /\ page' = [page EXCEPT ![t] = NoPage]
     /\ IF more[s].count = PAGES /\ num >= KEEP
        THEN /\ sub' = [x \in DOMAIN more \ {s} |-> more[x]]
             /\ nonFull' = RemoveFirst(list, s)
             /\ tree' = RadixTreeSet(trie, b, NoSub)
             /\ subPoolNum' = num - 1
             /\ pageNum' = pageNum + 1 - PAGES
             /\ block' = [block EXCEPT ![t] = b]
             /\ Goto(t, "merge")
        ELSE /\ sub' = more
             /\ nonFull' = list
             /\ tree' = trie
             /\ subPoolNum' = num
             /\ pageNum' = pageNum + 1
             /\ Goto(t, "idle")
             /\ UNCHANGED block

\* The first section finds the page's sub-pool or leaves the lock to make one.
PagePoolFree(t, p) ==
  /\ Begin(t)
  /\ handed[p] > 0
  /\ handed' = [handed EXCEPT ![p] = @ - 1]
  /\ IF RadixTreeGet(tree, p[1]) = NoSub
     THEN /\ page' = [page EXCEPT ![t] = p]
          /\ Goto(t, "new")
          /\ UNCHANGED <<sub, nonFull, tree, subPoolNum, pageNum, block>>
     ELSE FreeInto(t, p, RadixTreeGet(tree, p[1]), sub, nonFull, tree, subPoolNum)
  /\ UNCHANGED <<blockPool, fineGrain, nodes>>

CreateFull(t) ==
  /\ pc[t] = "new"
  /\ Create(page[t][1])
  /\ Goto(t, "insert")
  /\ UNCHANGED <<blockPool, fineGrain, sub, nonFull, tree, subPoolNum, pageNum,
                 handed, page, ops, alone, nodes>>

\* Mutant: the new sub-pool is on the list but not in the tree.
FreeOutsideTree(t) ==
  /\ pc[t] = "insert"
  /\ LET p == page[t]
         s == NewName
     IN IF RadixTreeGet(tree, p[1]) # NoSub
        THEN FreeInto(t, p, RadixTreeGet(tree, p[1]), sub, nonFull, tree, subPoolNum)
        ELSE FreeInto(t, p, s, WithSub(s, PageSubPool(p[1], {})),
                      <<s>> \o nonFull, tree, subPoolNum + 1)
  /\ UNCHANGED <<blockPool, fineGrain, handed, ops, alone, nodes>>

\* The second section: another thread may have made the sub-pool meanwhile.
FreeSecond(t) ==
  /\ pc[t] = "insert"
  /\ LET p == page[t]
         s == NewName
     IN IF RadixTreeGet(tree, p[1]) # NoSub
        THEN FreeInto(t, p, RadixTreeGet(tree, p[1]), sub, nonFull, tree, subPoolNum)
        ELSE FreeInto(t, p, s, WithSub(s, PageSubPool(p[1], {})),
                      <<s>> \o nonFull, RadixTreeSet(tree, p[1], s),
                      subPoolNum + 1)
  /\ UNCHANGED <<blockPool, fineGrain, handed, ops, alone, nodes>>

-----------------------------------------------------------------------------
\* PageSubPoolDeprecate, after either operation.

\* NVMAccesserMerge and NVMAccesserTrim.
Merge(t) ==
  /\ pc[t] = "merge"
  /\ fineGrain' = fineGrain \ {block[t]}
  /\ Goto(t, "put")
  /\ UNCHANGED <<blockPool, sub, nonFull, tree, subPoolNum, pageNum, handed,
                 page, block, ops, alone, nodes>>

\* An allocation goes on with its page, a free clears the tree.
BlockPoolPut(t) ==
  /\ pc[t] = "put"
  /\ blockPool' = blockPool \cup {block[t]}
  /\ Goto(t, IF page[t] = NoPage THEN "clear" ELSE "count")
  /\ UNCHANGED <<fineGrain, sub, nonFull, tree, subPoolNum, pageNum, handed,
                 page, block, ops, alone, nodes>>

\* Without the lock, and with sp->block read after kfree(sp): block[t] is what
\* that memory holds now.
ClearTree(t) ==
  /\ pc[t] = "clear"
  /\ tree' = RadixTreeSet(tree, block[t], NoSub)
  /\ block' = [block EXCEPT ![t] = NoBlock]
  /\ Goto(t, "idle")
  /\ UNCHANGED <<blockPool, fineGrain, sub, nonFull, subPoolNum, pageNum,
                 handed, page, ops, alone, nodes>>

-----------------------------------------------------------------------------
Alloc(t) ==
  \/ \E hint \in Pages \cup {NoPage} : PagePoolAlloc(t, hint)
  \/ BlockPoolGet(t)
  \/ AllocFails(t)
  \/ Split(t)
  \/ AddPageSubPool(t)
  \/ AllocFromOther(t)
  \/ AllocReturn(t)

Free(t) ==
  \/ \E p \in Pages : PagePoolFree(t, p)
  \/ CreateFull(t)
  \/ FreeSecond(t)
  \/ Merge(t)
  \/ BlockPoolPut(t)
  \/ ClearTree(t)

Next == \E t \in Threads : Alloc(t) \/ Free(t)

Spec == Init /\ [][Next]_vars

-----------------------------------------------------------------------------
\* Properties.

SubPool == [block : Blocks, free : SUBSET Pages, count : 1 .. PAGES]

\* Tables, list and counters stay in their ranges; a sub-pool in use has a
\* free page; every slot that is or will be written has its nodes (the ASSERT
\* of RadixTreeSet).
TypeOK ==
  /\ blockPool \subseteq Blocks
  /\ fineGrain \subseteq Blocks
  /\ DOMAIN sub \subseteq SubPools
  /\ \A s \in DOMAIN sub : sub[s] \in SubPool
  /\ nonFull \in Seq(DOMAIN sub)
  /\ tree \in [Blocks -> DOMAIN sub \cup {NoSub}]
  /\ nodes \subseteq Blocks /\ {b \in Blocks : tree[b] # NoSub} \subseteq nodes
  /\ \A t \in Threads : pc[t] \in {"add", "merge", "clear"} => block[t] \in nodes
  /\ subPoolNum \in Nat
  /\ pageNum \in Int
  /\ handed \in [Pages -> Nat]
  /\ page \in [Threads -> Pages \cup {NoPage}]
  /\ block \in [Threads -> Blocks \cup {NoBlock}]
  /\ ops \in 0 .. MaxOps /\ alone \in BOOLEAN

BlockInHand(t, b) == block[t] = b /\ pc[t] \in {"split", "add", "merge", "put"}

Places(p) ==
  handed[p]
  + Cardinality({t \in Threads : page[t] = p})
  + Cardinality({s \in DOMAIN sub : p \in sub[s].free})
  + Cardinality({t \in Threads : BlockInHand(t, p[1])})
  + (IF p[1] \in blockPool THEN 1 ELSE 0)

\* Whatever the interleaving, a page is in one place: given to one user, in the
\* hands of one thread, free in one sub-pool, or part of a block that is in the
\* block pool or on its way.  So no page is handed out twice, none is lost, and
\* no block goes back while a page of it is in use.
PagesPartitioned == \A p \in Pages : Places(p) = 1

\* A block in the block pool is whole, and one with a page in use is split:
\* merge comes before BlockPoolPut and split before AddPageSubPool.
GrainRight ==
  /\ blockPool \cap fineGrain = {}
  /\ \A p \in Pages : handed[p] > 0 => p[1] \in fineGrain

\* The pool's invariant: its structures fit together, every page is in one
\* place (PagePoolAlloc, PagePoolFree, PageSubPoolDeprecate in any interleaving)
\* and every block has the grain its place asks for.
PoolInv == TypeOK /\ PagesPartitioned /\ GrainRight

FreePages == UNION {sub[s].free : s \in DOMAIN sub}

\* When no operation runs, pageNum is the number of free pages in sub-pools,
\* each sub-pool's count the number of its own, and subPoolNum the length of the
\* list, which has every sub-pool: all are changed piecemeal.
CountsRight ==
  Quiet =>
    /\ pageNum = Cardinality(FreePages)
    /\ \A s \in DOMAIN sub : sub[s].count = Cardinality(sub[s].free)
    /\ subPoolNum = Len(nonFull)
    /\ Range(nonFull) = DOMAIN sub

\* While operations have not overlapped, a page is refused only when none is
\* free anywhere.
FailsOnlyWhenEmpty ==
  alone => \A t \in Threads :
    AllocFails(t) => FreePages = {} /\ blockPool = {}

\* While operations have not overlapped, PagePoolAllocWithHint gives a page of
\* the hint's block as long as one is free.  (After an overlap the unlocked
\* RadixTreeSet of PageSubPoolDeprecate may have dropped a live sub-pool.)
HintHonoured ==
  alone' /\ ops' # ops => \A t \in Threads, hint \in Pages :
    PagePoolAlloc(t, hint) /\ FreePages \cap PagesOf(hint[1]) # {}
      => page'[t][1] = hint[1]

\* As long as operations have not overlapped, PagePoolAllocWithHint serves what
\* the pool can serve: no page is refused that is free, no hint passed over.
ServedWhenAlone == [][FailsOnlyWhenEmpty /\ HintHonoured]_vars
=============================================================================
