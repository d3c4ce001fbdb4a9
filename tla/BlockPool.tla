------------------------------ MODULE BlockPool ------------------------------
(***************************************************************************)
(* src/src/fs/BlockPool.c: the pool of free 2M blocks.  Free blocks are in *)
(* an extent tree, a few of them in an array in front of it (the cache),   *)
(* single blocks are got and put through the cache, extents past it.       *)
(* Every operation runs under pool->lock, so each is one action; the       *)
(* blocks given back are trimmed in the wear leveler before the lock is    *)
(* taken, which leaves the pool alone.                                     *)
(*                                                                         *)
(* After a crash the pool is rebuilt: every extent that a log names is put *)
(* into the tree, in the order the inodes are found, and the tree is       *)
(* reversed at the end.  Extents a caller had got and not yet logged are   *)
(* lost to it and free again.                                              *)
(***************************************************************************)
EXTENDS ExtentTree

CONSTANTS
  TotalBlockNum,         \* blocks of the logical space
  MAX_CACHE_BLOCK_NUM,   \* BlockPool.c: 5
  Sizes,                 \* numbers of blocks asked for and put at a time
  MaxOps                 \* bound: operations in one behaviour

ASSUME PoolAssumption ==
  /\ TotalBlockNum \in Nat \ {0}
  /\ MAX_CACHE_BLOCK_NUM \in Nat \ {0}
  /\ Sizes \subseteq Nat \ {0}
  /\ MaxOps \in Nat

VARIABLES
  tree,         \* BlockPool.tree; the blocks in use while recovering
  blocksCache,  \* BlockPool.blocksCache and cachedBlockNum
  blockNum,     \* BlockPool.blockNum
  owned,        \* extents handed out: what a caller keeps, and its log names
  told,         \* while recovering, the extents already told; else NotRecovering
  last,         \* the last request: its size and what it gave
  ops           \* operations so far

vars == <<tree, blocksCache, blockNum, owned, told, last, ops>>

Blocks == 0 .. TotalBlockNum - 1
NotRecovering == {NoExtent}
Running == told = NotRecovering
Half == MAX_CACHE_BLOCK_NUM \div 2
Cached == ToSet(blocksCache)
NoRequest == [kind |-> "none", size |-> 0, got |-> 0]
Single(b) == Extent(b, b + 1)
Singles(s) == [i \in DOMAIN s |-> Single(s[i])]
Step == ops < MaxOps /\ ops' = ops + 1

\* NvmfsInfoFormat: BlockPoolInit and one BlockPoolExtentPut of everything.
Init ==
  /\ tree = {Extent(0, TotalBlockNum)}
  /\ blocksCache = << >>
  /\ blockNum = TotalBlockNum
  /\ owned = {}
  /\ told = NotRecovering
  /\ last = NoRequest
  /\ ops = 0

HandOut(kind, n, extents) ==
  /\ owned' = owned \cup extents
  /\ last' = [kind |-> kind, size |-> n, got |-> Cardinality(Covered(extents))]

\* BlockPoolGet served by the cache alone: its tail.  blockNum stays.
GetCached(n) ==
  LET keep == Len(blocksCache) - n IN
  /\ Len(blocksCache) >= n
  /\ HandOut("get", n, ToSet(Singles(SubSeq(blocksCache, keep + 1,
                                            Len(blocksCache)))))
  /\ blocksCache' = SubSeq(blocksCache, 1, keep)
  /\ UNCHANGED <<tree, blockNum>>

\* BlockPoolGet that pulls a batch from the tree: first the whole cache is
\* given, then the batch; what is left of it refills the cache.  When the
\* tree gives nothing, nothing is got and the cache stays.
GetPulled(n) ==
  LET pull == ExtentTreeGet(tree, Half + n - Len(blocksCache))
      all == blocksCache \o Unrolled(pull.container)
      got == IF pull.container = << >> THEN << >>
             ELSE SubSeq(all, 1, IF n <= Len(all) THEN n ELSE Len(all))
  IN
  /\ Len(blocksCache) < n
  /\ tree' = pull.tree
  /\ HandOut("get", n, ToSet(Singles(got)))
  /\ blocksCache' = IF pull.container = << >> THEN blocksCache
                    ELSE SubSeq(all, Len(got) + 1, Len(all))
  /\ blockNum' = blockNum - Len(got)

BlockPoolGet(n) ==
  /\ Running
  /\ Step
  /\ GetCached(n) \/ GetPulled(n)
  /\ UNCHANGED told

\* BlockPoolExtentGet: from the tree only.
BlockPoolExtentGet(n) ==
  LET got == ExtentTreeGet(tree, n) IN
  /\ Running
  /\ Step
  /\ tree' = got.tree
  /\ blockNum' = blockNum - ContainerSize(got.container)
  /\ HandOut("extents", n, ToSet(got.container))
  /\ UNCHANGED <<blocksCache, told>>

\* What a caller gives back is trimmed first and no longer the caller's.
TakeBack(extents) ==
  /\ extents \subseteq owned
  /\ owned' = owned \ extents
  /\ last' = NoRequest

\* The cache is too small: put blocks out to the tree, the cached ones
\* first, until Half are left in the cache.
PutOut(s) ==
  LET out == Len(blocksCache) + Len(s) - Half
      all == blocksCache \o s
  IN /\ tree' = ExtentTreeBatchPut(tree, Singles(SubSeq(all, 1, out)))
     /\ blocksCache' = SubSeq(all, out + 1, Len(all))

BlockPoolPut(s) ==
  /\ Running
  /\ Step
  /\ TakeBack(ToSet(Singles(s)))
  /\ blockNum' = blockNum + Len(s)
  /\ IF Len(s) + Len(blocksCache) <= MAX_CACHE_BLOCK_NUM
     THEN blocksCache' = blocksCache \o s /\ UNCHANGED tree
     ELSE PutOut(s)
  /\ UNCHANGED told

BlockPoolExtentPut(container) ==
  /\ Running
  /\ Step
  /\ TakeBack(ToSet(container))
  /\ blockNum' = blockNum + ContainerSize(container)
  /\ tree' = ExtentTreeBatchPut(tree, container)
  /\ UNCHANGED <<blocksCache, told>>

-----------------------------------------------------------------------------
\* Crash and recovery.  Callers' logs survive, the pool does not.

BlockPoolRecoveryInit(lost) ==
  /\ Running
  /\ owned' = owned \ lost
  /\ Step
  /\ tree' = {}
  /\ blocksCache' = << >>
  /\ blockNum' = 0
  /\ told' = {}
  /\ last' = NoRequest

BlockPoolRecoveryNotifyBlockBusy(x) ==
  /\ ~Running
  /\ x \in owned \ told
  /\ tree' = ExtentTreePut(tree, x.start, x.end)
  /\ told' = told \cup {x}
  /\ UNCHANGED <<blocksCache, blockNum, owned, last, ops>>

\* Mutant: the blocks are not counted again.
RecoveryEndUncounted ==
  /\ ~Running
  /\ told = owned
  /\ tree' = ExtentTreeReverseHolesAndExtents(tree, TotalBlockNum)
  /\ told' = NotRecovering
  /\ UNCHANGED <<blocksCache, blockNum, owned, last, ops>>

BlockPoolRecoveryEnd ==
  /\ ~Running
  /\ told = owned
  /\ tree' = ExtentTreeReverseHolesAndExtents(tree, TotalBlockNum)
  /\ blockNum' = TotalBlockNum - blockNum
  /\ told' = NotRecovering
  /\ UNCHANGED <<blocksCache, owned, last, ops>>

-----------------------------------------------------------------------------
\* Sequences of n distinct members of S: the arrays a caller may pass.
Arrays(S, n) == {s \in [1 .. n -> S] : \A i, j \in 1 .. n : s[i] = s[j] => i = j}

OwnedSingles == {x.start : x \in {y \in owned : SizeOf(y) = 1}}

Next ==
  \/ \E n \in Sizes :
       \/ BlockPoolGet(n)
       \/ BlockPoolExtentGet(n)
       \/ \E s \in Arrays(OwnedSingles, n) : BlockPoolPut(s)
       \/ \E c \in Arrays(owned, n) : BlockPoolExtentPut(c)
  \/ \E lost \in SUBSET owned : BlockPoolRecoveryInit(lost)
  \/ \E x \in owned : BlockPoolRecoveryNotifyBlockBusy(x)
  \/ BlockPoolRecoveryEnd

Spec == Init /\ [][Next]_vars

-----------------------------------------------------------------------------
\* Properties.

Extents == [start : -1 .. TotalBlockNum, end : -1 .. TotalBlockNum]

\* Every variable keeps its type; the cache never outgrows its array.
TypeOK ==
  /\ tree \subseteq Extents
  /\ blocksCache \in Seq(Blocks) /\ Len(blocksCache) <= MAX_CACHE_BLOCK_NUM
  /\ blockNum \in Nat
  /\ owned \subseteq Extents
  /\ told \subseteq Extents
  /\ ops \in 0 .. MaxOps

\* Whatever was got, put, cut and merged, and however often the pool was
\* rebuilt after a crash: each block is free in the tree, free in the cache
\* or owned by one caller, never two of these and never none.
BlocksPartitioned ==
  Running =>
    /\ Covered(tree) \cup Cached \cup Covered(owned) = Blocks
    /\ Covered(tree) \cap (Cached \cup Covered(owned)) = {}
    /\ Cached \cap Covered(owned) = {}
    /\ IsInjective(blocksCache)

\* Neighbouring free blocks are always one extent, whatever the order they
\* came back in: a large file gets the largest runs there are.  This holds
\* while recovery collects the busy extents too.
TreeMerged == Canonical(tree)

\* The pool's invariant: every block in one place, the cache within its array
\* and the tree's runs joined, after any gets, puts and recoveries.
PoolInv == TypeOK /\ BlocksPartitioned /\ TreeMerged

\* blockNum may overstate the free blocks (a get from the cache and recovery
\* do not count) but never understates them, so that "blockNum -= got" never
\* runs below zero.
CountNeverShort ==
  Running => blockNum >= Cardinality(Covered(tree)) + Len(blocksCache)

\* A request that is not met says so only when nothing more is there: one
\* block is refused only when neither cache nor tree holds one, and extents
\* fall short only when the tree is empty.
RefusedOnlyWhenEmpty ==
  last.got < last.size /\ Running =>
    /\ Covered(tree) = {}
    /\ last.kind = "get" /\ last.size = 1 => blocksCache = << >>
=============================================================================
