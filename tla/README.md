# nvmfs: a TLA+ verification project

nvmfs is a Linux file system for byte-addressable non-volatile memory (NVM). It
keeps its own wear leveler below the file system: logical blocks of 2M (or, once
split, logical pages of 4K) are mapped to physical ones, and hot physical blocks
are exchanged with cold ones while the file system runs. Metadata of a file or
directory is an append-only log in linked 4K areas, replayed after a restart.

This directory holds TLA+ models of that code, the TLC configurations that check
them and TLAPS proofs of the most important invariants. Source paths below are
relative to the repository (`src/src/...` in `PROJECT.json`).

## 1. Inventory of the system

| Component | State | Operations | Who calls it, what it shares | Hard behaviour | What makes it correct |
|---|---|---|---|---|---|
| `BlockManager` (wearlevel-refactor) | threshold and its NVM copy | Read, Write, Memset, Trim, Split, Merge; wear accounting; fast and slow swap | `WearLeveler` from any thread; shares map, unmap, wear table, coldness lists, swap log | swaps run while other threads read, write and swap; list operations have no lock; crash inside a swap | a read is atomic; locks exclude and are taken in order; map and unmap are inverse; a block has one owner; a swap can be redone from its log |
| `MapTable` | per logical block: physical block, 22-bit sequence lock, busy, fineGrain, page entries | query, busy/trim, split/merge, read/write/swap locks, swap | block and page manager | optimistic readers, compare-and-swap writers | as above |
| `BlockUnmapTable`, `BlockWearTable` | physical block -> logical block and grain; wear counts (NVM) | get, set | block manager | several entries change one after the other | inverse of the map outside swaps |
| `BlockColdnessManager` | doubly linked lists per wear step, free and busy | remove, put, get free, get busy | block manager, no lock | two calls that overlap give one block to two threads or break the lists | while calls do not overlap, a block is on one list or in one hand; when they do, the tables above still agree |
| `BlockSwapLog` | ring of entries on NVM, volatile index | begin, step mark, end | block manager | crash between NVM writes; two swappers share the index | every crash point of a swap redoes to its final state |
| `PageManager` and its tables (`PageColdnessManager`, `PageSwapLog`, `PageSwapArea`, `PageUnmapTable`, `PageWearTable`) | 512 pages per split block, spare swap pages | the page versions of the above | `WearLeveler`; shares the block entry's lock | page operations against a block swap, split or merge of the same block; a page write stores to the block's entry without its lock | same promises, per page; a block swap waits for page locks |
| `WearLeveler`, `NVMAccesser`, `Layouter` | layout | format; dispatch by the fineGrain flag; repeated transfers | file system layer | flag tested without a lock; transfers over the end of a block; table sizes for every NVM size | the right path for the block's grain; no table runs into another or into data |
| `ContinousSpace`, `Log` | linked 4K areas on NVM; first area, area count, rest size, write position | format, write, step write, destroy, replay, rebuild | inode layer, under the inode's lock | crash between NVM writes; stale words in reused pages; no space left | replay gives the committed entries; the rebuilt log equals the one in memory |
| `ExtentTree`, `BlockPool` | free extents; cache of up to 5 blocks; counter | get, put (blocks or extents), recovery | page pool, file data; one mutex | cache limits, partial gets, recovery by complement | a block is free or owned, never both; counter right |
| `PagePool`, `RadixTree` | sub-pools of 512 pages, list of non-full ones | alloc (with hint), free, recovery | logs, file data; spin lock dropped around the block pool | two threads prepare a sub-pool; an empty sub-pool goes back while another thread frees | no page handed out twice, none lost |
| `InodeTable` | inode addresses on NVM, free list | get, put, update, recovery | inode layer, no lock | concurrent create and remove; recovery | an inode number is free or used |
| `FileExtentTree`, `FileDataManager`, `FileInodeInfo` | file extents over blocks and pages | read, write, truncate, rebuild | VFS (open, read, write, llseek, stat) | no space half way; holes; effective size; crash between data, log entry and tree | reads give the last write; after a crash a prefix of the write underway; no space lost or shared |
| `DirInodeInfo`, `DirFileDentryCache` | dentries, name addresses in the log | add, remove, lookup, iterate, rebuild | VFS (create, mkdir, unlink, rmdir, lookup, readdir) | crash between creating a child and its dentry; reuse of inos and pages; eviction | the cache equals the replayed log; a call is done or not done |
| `FsConstructor`, `CircularBuffer`, `FsInfo` | queue of inodes | breadth-first recovery | nothing in the module: `NvmfsFillSuperBlock` always formats | everything reachable is marked busy once | free space is the complement of what is reachable |
| VFS glue | VFS inodes with copies of size and blocks | the call-backs of the kernel | kernel | copies out of date, errors not looked at | stat tells the truth |
| emulator, old `src/wearlevel`, DemoFS | - | - | - | - | not built, or no logic of their own |

## 2. Plan

Written, from the bottom of the system to its top; each module uses the promise
that the one below was checked for, as an abstraction:

1. `Layouter`, `LayouterProofs`: where the tables and the data are on the NVM.
2. `BlockManager`, `MCBlockManager`, `BlockManagerProofs`: the
   block half of the wear leveler, with locks, swaps, lists and log.
3. `PageManager`, `MCPageManager`, `PageManagerProofs`: the page half, for one split
   block, against the block swaps, splits and merges of module 2.
4. `CommittedLog`, `Log`, `MCLog`, `LogProofs`: the append-only log of an inode, with
   crashes, implementing an abstract log.
5. `ExtentTree`, `BlockPool`, `MCBlockPool`, `BlockPoolProofs`: free blocks.
6. `PagePool`, `MCPagePool`, `PagePoolProofs`: free pages, above an abstract block
   pool.
7. `FileData`, `MCFileData`, `FileDataProofs`: a regular file on the abstract log of 4, the extent
   tree of 5 and sets for the page pool of 6.
8. `Nvmfs`, `MCNvmfs`: the tree of files and directories, the inode table and
   recovery, on the abstract log of 4.

`SharedLemmas` has the facts that the proofs of 2 and 4 to 7 share: about lists (`RemoveFirst`,
`Append`, a new head), about arrays that are joined and cut, about loops (a recursive
function over `0 .. n` exists when its passes stay in a set, and what each pass keeps
holds at the end), and what the functions of `ExtentTree.c` compute.

Still to do: proofs about 8; two calls on one file at the same time, once the code says how they are
ordered.

## 3. BlockManager

### State and actions

One module models `BlockManager.c` with the five tables it drives, because every
interesting behaviour crosses them. Each thread has a program counter `pc`; a
label names the next shared access. What runs under a write lock and touches
nothing that others may touch is one step; a 2M transfer is two steps (halves), so
that readers can meet half-done writes and copies.

| Code | Model |
|---|---|
| `WearLevelerFormat` and the Format functions | `Init` |
| dispatch in `WearLeveler.c` (flag tested without the lock) | `BeginWrite`, `BeginOther` |
| `BlockManagerRead` | `MapTableLockBlockForRead`, `ReadQuery`, `ReadHalf` (twice), `MapTableUnlockBlockForRead` |
| `BlockManagerWrite` | `MapTableLockBlockForWrite`, `WriteHalf` (twice), `MapTableUnlockBlockForWrite` |
| `BlockManagerTrim` | lock, `TrimRead`, `TrimRemove` (list_del), `TrimPut` (list_add_tail), unlock |
| `BlockManagerSplit`, `BlockManagerMerge` | lock, `Split` or `Merge` (`SetGrain`), unlock |
| `IncreaseBlockWearCount` | `ReadThreshold`, `ReadWear`, `ChargeWear` or `RemoveHot`, `GetFree`, `GetBusy`, `GetWorn`, `PutBack` |
| every call of `BlockColdnessManager.c` | `EnterLists` (its first access), then its last: `Get`, `BlockColdnessManagerRemove`, `BlockColdnessManagerPut` in the actions that call them, or `ListFault` |
| `IncreaseThreshold` | `RaiseThreshold` (compare-and-swap), `PersistThreshold` (NVM) |
| `LockOneBlock`, `MapTableLockBlockForSwap` | `GetUnmap`, `LockMap`, in ascending order of physical block |
| `LogBlockSwapBegin` | `LogBegin` (entry with type 0), `LogType` (index, then type) |
| `BlockSwapFast`, `BlockSwapSlow` | `CopyBtoC`, `CopyAtoB` with step marks, `SetUnmapA/B/C`, `MapSwap`, `LogBlockSwapEnd`, `Account`, `PutA/B/C`, `UnlockSwap` |

Abstractions and their limits:

- The coldness lists have no lock in the code, and a call on them is a row of loads and
  stores (`list_empty`, `head.next`, then the four of `list_del`). The model has two steps
  for it, the first access and the last. While no two calls have overlapped, the last step
  has the effect of the whole call; list_del of a node that is on no list dereferences
  `LIST_POISON`, and the thread stops at `oops`. When two calls overlap, both may read the
  same `next` and take the same block, or leave pointers to nodes that are not there.
  From then on (`mixed`) the model keeps nothing of the lists: a call may return any block
  or none, also one that another thread or the caller itself has in hand. That is more
  than damaged pointers can do, so what holds here holds in the code. A call that follows
  a wild pointer, or takes the list's head for a node and computes a block number from it,
  goes `stray`; nothing is followed after that.
- A failed `ASSERT` stops the thread at `assert`.
- Pages of a split block, and the wear their merge adds (`PageWearTableSumGet`), are the
  input `MergeWear`.
- `MapTablePageBusy`, the page write's store to the block's entry, is in `PageManager`
  (section 8). What is said here supposes that it took back no lock or remap.
- Wear counts are 32-bit: additions are modulo `MAX_WEAR_COUNT`. The sequence
  lock is modulo `LOCK_RANGE` (2^22 in the code).
- `infoC` is uninitialised in `BlockSwapFast`; it is only stored in the log, and
  no code reads it. The model stores `NoInfo`.
- The swap of the log's own block (`BlockManager.c:219-326`) is unreachable: its
  wear count never grows, and the threshold is at least `STEP_WEAR_COUNT`.
- `content` is a history variable: the value of the last finished write.

### Runs

`MCBlockManager` adds a stuttering step for the end of a bounded behaviour (`Rest`).
`MaxOps` bounds the operations started; `Increases = {2}` with `STEP_WEAR_COUNT = 2` makes
every first write of a block reach the threshold, so swaps begin at once. Four blocks are
enough for two fast swaps side by side, or for a slow swap (three blocks) and a second
swapper, reader or writer of one of its blocks. Threads are symmetric. `WEAR_STEP_NUMS` (4,
or 8 with one thread) and `LOCK_RANGE = 64` are never exhausted by so few operations, so no
value wraps that would not wrap in the code. A two-entry log makes the index wrap.
`MixedBriefly` follows mixed lists through two operations: two swappers, or a swapper and
another operation, which is all that the properties relate.

| Run | Properties | What it shows |
|---|---|---|
| `bm_swaps` | `WriteLockExclusive`, `UnmapInverse`, `ReadAtomic`, `LocksAscend` | two threads, four blocks, three operations of all five kinds, overlapping list calls included: locks exclude, the tables stay inverse, a read that returns saw one state, in both halves, of the block mapped at that moment, and a swapper that waits for another one wants the lower block of the two |
| | `ColdnessOwned`, `LockOneBlockDirect` | until two list calls overlap, every block has one owner, and `LockOneBlock` finds the unmap entry it read still valid, because a swapper owns its blocks before it locks them |
| `bm_live` | `OperationsEnd` | two threads, four blocks, two operations: as long as list calls do not overlap, every operation ends |
| `bm_seq` | `TypeOK`, `SwapRedoable`, `HotBlockKeepsData` | with one thread, at each crash point the log entry's redo gives the same unmap table and data, namely those the swap ends with; a single hot block never loses data |
| `bm_readback` | `WrittenDataReadsBack` (violated) | a fast swap may overwrite a written block that a free list still names |

Threads that fault keep their locks, and a swap of blocks that are not different (which
mixed lists can ask for) waits for a lock it holds itself; so deadlock is not checked in
`bm_swaps`, and `LocksAscend` says what the order of `SortBlocks` is for. Two swappers want
the same block only after an overlap: without one they own different blocks, and wait at most
for a writer, trim, split or merge, which waits for nobody. `OperationsEnd` is about that part. It
is checked of the behaviours in which list calls do not overlap (`UnmixedSpec`); it
promises nothing of others.

Fairness: `bm_live` assumes weak fairness of `Run(t)`, the steps of a thread inside
an operation. The kernel's scheduler gives every runnable thread time, and no step
waits for anything but a lock. Starting operations is not fair. A writer whose
compare-and-swap meets an odd lock again and again could starve under weak
fairness if others kept taking the lock; operations are bounded by `MaxOps`, so the
run shows absence of circular waits and of retries without a cause, not fairness
of the spin lock.

The violated property is a finding (`PROJECT.json`): written blocks are never moved
from the free to the busy lists, since `BlockManagerWrite` does not notify the
coldness manager. `HotBlockKeepsData` is what remains true of `bm_readback`. From the
same cause the `ASSERT` of `BlockManager.c:211` can fail: three blocks and five writes
lead a thread to the label `assert`.

### Proofs

`BlockManagerProofs` proves, for every number of threads, blocks, lists, slots and
operations, from the assumptions on the constants in `BlockManager` (positive
sizes, an even lock range, at least two wear steps):

- `BlockInvariant`: `Spec => []BlockInv`;
- `TypeCorrect`, `LocksExclude`, `BlocksOwned`, `TablesInverse`, `LocksTakenInOrder`: the
  properties `TypeOK`, `WriteLockExclusive`, `ColdnessOwned`, `UnmapInverse`, `LocksAscend`.

None of these is inductive alone. That map and unmap agree after a swap needs that
nobody else changed the entries of the swapped blocks; that needs their locks
(`WriteLockExclusive`, `LocksHeld`), that the locks belong to the right logical
blocks (`SwapPinned`: a locked block, its physical block and `infoA/B/C` name each
other) and that the blocks of a swap are distinct once they are locked (`BlocksChosen`). All
of that also holds on mixed lists, because `LockMap` looks at the map entry again under its
lock: that two swappers were given one block does no harm, the second one waits. What
needs the lists to be whole is `ColdnessOwned`, and it is claimed until the first overlap.
`LocksAscend` follows from `BlocksChosen` (what is locked already is not above what is still
to be locked) and `LocksHeld`. `BlockInv` is the conjunction; TLC checked it on the instance of
`bm_swaps` before it was proved. The proof
has one lemma per part (`TypeStep`, `LockStep`, `ChosenStep`, `ColdStep`,
`PinStep`, `OthersStep` for the other threads), each with one case per action;
lemmas about sequences (`RemoveFirstFacts` and `AppendFacts` of `SharedLemmas`,
`UnlinkFacts`, `AddTailFacts`) carry the list reasoning.

The second half of the module builds on `BlockInv`:

- `LockOneBlockNeverRetries`: `Spec => []LockOneBlockDirect`. Until two list calls overlap, a
  swapper owns its blocks (`ColdnessOwned`) before it reads their unmap entries, and only an
  owner changes the map entry of a block, so what it read is still so when it has the lock.
- `ReadIsAtomic`: `Spec /\ [][NoLockWraps]_vars => ReadAtomic`. The invariant `ReadInv`
  says that a physical block is whole unless a lock holder has written its
  first half (`DataWhole`, `HalfKnown`), and that what a reader has in hand is right
  while the lock value is the one it saw (`ReaderKnows`). The second needs that the
  value never comes back: `NoLockWraps` says that no step makes a lock value smaller.
  The code has 22 bits for it, so the hypothesis excludes the behaviours with 2^21
  writes or swaps of one block. It is needed: a reader that sleeps through exactly
  that many cannot tell, and the property fails. `bm_swaps` checks `ReadAtomic` without
  the hypothesis, with too few operations for a wrap.

- `SwapRedoes`: `Spec => SwapRedoable` for one thread. The invariant `SwapLogged` says that
  only the running swap has an armed entry, that the entry names its blocks and their
  old unmap entries, and that its step marks are the copies that are complete. From it
  follows (`RedoGivesTarget`) that a redo gives `TargetUnmap` and `TargetData`, what the
  swap is on its way to; a step of the swap changes neither (`TargetKept`). The data
  half needs `DataWhole`: a half-written copy is copied again, so its source must be whole.
- `HotBlockKept`: `Spec => HotBlockKeepsData` for one thread. The invariant `HotKept` follows
  the one written block from the write to the swap that moves it: `blockA` is where the map
  has it until the map is swapped, and by then `blockB` has its data. That `blockB` and
  `blockC` are not the hot block's comes from `BlockInv` (`BlocksChosen`); one thread never
  mixes the lists.

Both take `OneThread`, as `bm_seq` does. With two swappers the first fails: they take the
log index without a lock and can fill one slot (`BlockSwapLog.c:33`). The second also takes that
the content `Blank` of a block nobody wrote is not among `Values`.

Only model-checked: the liveness property `OperationsEnd`, which is outside the prover's reach.

## 4. Log

### State and actions

`Log` models one inode's log with the areas below it, in words of 8 bytes: `nvm`
maps a page to its words, word 0 links to the next area. `log` is `struct Log`
with its `struct ContinousSpace`. The callers hold the inode's lock, so one
operation runs at a time, and `pc` says where it is; the difficulty is the crash
that may come before every word written, and pages that come back from the pool
with the words of an older log. `linked` is what a restart finds: the inode table
entry together with the parent's dentry (`InodeFormat`, then `DirInodeInfoAddDentry`;
`DirInodeInfoRemoveDentry`, then `InodeDestroy`).

| Code | Model |
|---|---|
| `LogFormat`, `LogWriteReserveData`, `InodeFormat`, the dentry | `LogFormat`, `FormatFoot`, `LogWriteReserveData`, `Publish` or `PublishFails` |
| `ContinousSpaceEssureEnoughSpace`, `AllocAreas`, `LinkAreas` | `EssureEnoughSpace` or `NoSpace`, `LinkArea` per area |
| `LogWrite` | those, `NotifyUsedSpace`, `WriteData` per word, `WriteFoot`, `WriteHead`, `Return` |
| `LogStepWriteBegin`, `Continue`, `End` | the same with `stepped`: foot first, then data, then head |
| `LogDestroy`, `ContinousSpaceDestroy` | `LogDestroy`, `FreeArea` per area, `Destroyed` |
| `LogForEachEntryImpl` | `Visiting`, `LogForEachEntry`, `LastReadAddr` |
| `ContinousSpaceCalculateNextAddr`, `ContinousSpaceRebuildEnd` | `Advancing`, `Following`: loops as recursive functions |
| `LogRebuildBegin`, `LogRebuild`, `LogRebuildEnd` | `Rebuilt`, used by `Reload` and `Restart` |
| `LogRecovery`, `ContinousSpaceRecovery` | `Restart`, `ContinousSpaceRecovery` |

Abstractions and their limits:

- A head is one 8-byte store and atomic. It is never zero: every log type of the
  file system is at least 1. Stores reach NVM in program order.
- The page pool is the set `free`, which gives out any pages in any order.
- The byte length of an entry is rounded up to words; its last word is whole.
- An address made from a word that is no link stops the behaviour (`pc = "wild"`).
- `LogRecoveryInit` leaves `reserveSize` unset. `Restart(r)` starts the walk at any
  `r` of `RecoveryReserves`; the runs give it the right value only, so what they
  show of recovery holds once that field is set. With all values, `LogInv` fails.
- Two history variables limit what is claimed after a write that failed (see the
  finding). `failed`: a write has failed since the log came into memory; `restSize` is
  then wrong, and `SameAsRebuilt` is claimed again only after a reload or restart.
  `spoiled`: such a log has been written to. That write may think it has room that is
  not there, and from then on nothing is claimed. Within six operations TLC sees no
  harm in it, but it does within eight: the writes run over a link of an old chain.
  A failed write alone harms nothing on NVM, which the properties do state.

### Runs

Areas have three words beside the link and one is reserved, so that entries of 0, 1
and 3 words start, end and cross at every position of an area and the largest spans
three areas. Four pages and six operations or crashes (`MaxOps`) are enough for a
log to be created, grown, destroyed, created again on its old pages, grown and
crashed. The pool runs dry at the third large entry, and `INLINE_ARRAY = 1` lets the
`kmalloc` of two areas fail. Pages are symmetric. `MCLog` adds a stuttering step at
the end of a bounded behaviour.

| Run | Properties | What it shows |
|---|---|---|
| `log_crash` | `OnlyWholeEntries` | `Log` implements `CommittedLog` with `entries` mapped to what a walk over NVM finds: in no step, crash or restart is an entry torn, lost, or read from an old page |
| | `LogInv` (`TypeOK`, no wild address), `AckedSurvive`, `SameAsRebuilt`, `AreasOwned` | acknowledged entries stay, in order; `restSize`, `areaNum` and `writeStart` in memory are those a rebuild computes (the `EXPECT`s of LogTest rebuildTest1); the log owns exactly its areas; only written links are followed |
| `log_rebuild` | `RebuildEqual` (violated) | without the condition on `failed`, `SameAsRebuilt` is false: `LogWrite` deducts the space before it looks at the error, and the unsigned `restSize` wraps |

There is no fairness and no liveness property here: one operation runs alone and
each loop is bounded by the size of the entry or by `areaNum`.

### Proofs

`LogProofs` proves all five properties of `log_crash` for any number of pages, any size of
areas and reserved data, and any entry sizes that a `UINT32` holds beside an area
(`AreaAssumption`). Their one hypothesis is `RecoveryKnowsReserve`: `LogRecovery` finds in
`reserveSize` what the log was formatted with. The code does not see to that (the hazard
at `Log.c:170`), and with another value they are false.

A word of a log is named by its *position*, counted from 0 along the areas without the
links. `Chain(m, d)` says that the areas `d` are linked one behind the other; then position
`x` has the address `At(d, x)`, different for every `x` (`AtInjective`), and
`ContinousSpaceCalculateNextAddr` adds positions (`AdvanceOn`). `Holds(m, first, d, ents, st)`
says that the chain holds the entries `ents` at the positions `st` and a zero behind the
last. From that follow, by induction along the loops: what the walk finds (`WalkOn`), the
areas it reaches (`FollowingOn`) and what a rebuild makes of it (`RebuiltOn`). Three lemmas
say how a log changes: a word behind its foot leaves it alone whatever stood there before
(`HoldsPut`), so does a link behind its last area (`LinkedOn`), and the head of an entry whose
data and foot are written appends the entry in one step (`HeadCommits`).

The properties speak of idle states and of walks; what makes them inductive is `IInv`, with
a clause for each phase of an operation:

- `Idle(d, st)`: NVM holds `acked`; the pages not free are `d`; the foot is in the last area;
  `restSize` is the room from the foot on, unless a write failed.
- `Linking(d, st)`: the areas taken but not linked are apart from `d` and from the pool, and
  there are just as many as the new foot needs (`NeededAreas`: the rounded-up division of
  `EssureEnoughSpace` is exact).
- `Busy(d, st)`: so much of the data is written; the new foot is there before the head is,
  whichever of the two orders is used.
- `Returning(d, st)`: NVM holds one entry more than `acked`, the only phase where it does.
- `Leaving(d)`: the areas still to be freed are linked and `areaNum` counts them.
- after a crash, NVM holds some entries of which `acked` is a prefix.

`PhaseStep` goes through the actions. `LogRefines` then takes the abstract log to be what a
walk finds: `WriteHead` is `Commit`, `Publish` is `Create`, `LogDestroy` is `Destroy`, every other
step, a crash or a restart among them, leaves the abstract log as it is (`CommittedStep`).

## 5. PagePool

### State and actions

`PagePool` models `PagePool.c` with any number of threads. `sub` holds the
sub-pools in use, `nonFull` the list, `tree` the radix tree (a map; `nodes` are the blocks whose
inner nodes `RadixTreeSetPrepare` has made with compare-and-swap before they are needed). A section under
`pool->lock` is one step; the block pool (a set behind its own mutex), split, merge,
`kmalloc` and the counter updates outside the lock are steps of their own.

| Code | Model |
|---|---|
| `PagePoolAlloc`, `PagePoolAllocWithHint` | `PagePoolAlloc` (first section, with `AllocFrom`), `AllocReturn` |
| no sub-pool: `PageSubPoolPrepare`, second section | `BlockPoolGet` or `AllocFails`, `Split`, then `AddPageSubPool`, or `AllocFromOther` when another thread was faster |
| `PagePoolFree` | `PagePoolFree` (first section), `CreateFull`, `FreeSecond`, both with `FreeInto` |
| `PageSubPoolDeprecate` | `Merge`, `BlockPoolPut`, and for `PagePoolFree` `ClearTree` |

`ClearTree` is the `RadixTreeSet` after `DestroyPageSubPool`: it takes no lock and
reads `sp->block` from freed memory. That memory is `block[t]`, which `Create` of
another thread may have overwritten with its own block. It can be a step between
sections because a section never reads a slot of the tree again after writing it.
`handed` counts the users of a page, so that a double allocation would show. Which
free page or block is taken is left open.

### Runs

Blocks have `PAGES = 2` pages, so that a sub-pool is full, partly free and empty
within a few operations. `KEEP` (3 in the code) is 2, so that sub-pools go back
to the block pool early. `MaxOps = 10` bounds the operations. `SubPools` is never
used up (`SpaceAssumption`: more names than pages, since each sub-pool in use has a free
page of its own). Threads and blocks are symmetric.

| Run | Properties | What it shows |
|---|---|---|
| `pp_threads` | `PoolInv` (`TypeOK`, `PagesPartitioned`, `GrainRight`), `CountsRight` | three threads, three blocks: no page is handed out twice or lost, no block goes back with a page in use or still split; when nothing runs `pageNum`, the counts of the sub-pools and `subPoolNum` are exact and the list names every sub-pool. This holds in spite of `ClearTree`: two sub-pools of one block never share a page |
| | `ServedWhenAlone` (`FailsOnlyWhenEmpty`, `HintHonoured`) | as long as no two calls have overlapped (the history variable `alone`), an allocation fails only when nothing is free, and a hint is followed while its block has a free page |

Both halves of `ServedWhenAlone` fail once calls overlap. A thread that finds neither list nor block
while another has the last block in hand gets nothing. And the late `ClearTree` takes
a live sub-pool out of the tree: no page is lost, but the freed pages of its block
collect in a second sub-pool, neither reaches 512, and the block does not go back.

Recovery (`PagePoolRecoveryNotifyPageBusy`) is not modelled. It calls `RadixTreeSet`
for a block whose nodes were never prepared, which fails the `ASSERT` of
`RadixTree.c:33`; `TypeOK` has the fact that the modelled operations never do. It also
tells the block pool `logical_addr_to_block(page)` of a page number.

### Proofs

`PagePoolProofs` proves the three properties of the run for every number of threads,
blocks, pages per block and operations, from `PoolAssumption` and `SpaceAssumption`:

- `PagesStayPartitioned`: `Spec => []PoolInv`. `PagesPartitioned` counts the places of a
  page; the inductive `IInv` says the same with one holder per page (`OnePlace`: a user, a
  thread, a sub-pool, a thread with the whole block, or the block pool), and adds what
  keeps it so: list, tree, counters and sub-pools fit together (`Fit`), a sub-pool in use
  is never empty, blocks outside the pool are split and have their tree nodes
  (`Grain`), and what a thread holds at which label (`Hands`). `Fit` does not say that
  the tree knows every sub-pool: that is false after a late `ClearTree`, and the
  theorem shows that the partition does not need it. A new sub-pool's name exists
  because sub-pools in use have disjoint, non-empty sets of free pages (`NewNameFacts`).
- `PageNumIsRight`: `Spec => []CountInv`, where `CountInv` is `pageNum` = free pages + `Owing`, the
  threads between the section that took a page and the `FETCH_AND_ADD`. With `IInv`
  it gives `CountersAreRight`: `Spec => []CountsRight`.
- `PoolServesWhenAlone`: `Spec => ServedWhenAlone`, an action property. It rests on `AloneInv`:
  while calls have not overlapped one thread at most is inside, the tree knows every
  sub-pool, and a thread on its way to the block pool has found the list empty.

TLC checked `IInv`, `CountInv` and `AloneInv` on the instance of `pp_threads` before they
were proved.

## 6. BlockPool and ExtentTree

`ExtentTree` has the functions of `ExtentTree.c` as operators on a set of runs
`[start, end)`: the red-black tree is the set in ascending order. `BlockPool` is the
pool that uses them. Every call holds `pool->lock` from the first access to the last,
so a call is one action.

| Code | Model |
|---|---|
| `BlockPoolGet` | `BlockPoolGet`: `GetCached` (the cache has enough) or `GetPulled` (a batch from the tree refills it) |
| `BlockPoolPut` | `BlockPoolPut`, with `PutOut` when the cache is full |
| `BlockPoolExtentGet`, `BlockPoolExtentPut` | the same names |
| `BlockPoolRecoveryInit`, `NotifyBlockBusy`, `NotifyExtentBusy`, `End` | `BlockPoolRecoveryInit(lost)`, `BlockPoolRecoveryNotifyBlockBusy` for each extent in any order, `BlockPoolRecoveryEnd` |

A crash forgets tree and cache; `lost` are the extents a caller had got and not yet
logged. `ExtentTree.c:111` reads an extent after `kfree`; the model takes the value it
had. `owned` is a history variable: who has what.

| Run | Properties | What it shows |
|---|---|---|
| `bp_space` | `PoolInv` (`TypeOK`, `BlocksPartitioned`, `TreeMerged`), `CountNeverShort`, `RefusedOnlyWhenEmpty` | with requests and returns of 1 to 3 blocks, in any order and after any crash, every block is free once or owned once; adjoining runs are joined; `blockNum` never falls short of the free blocks; a request falls short only when the tree is empty |

Six blocks and a cache of three (`TotalBlockNum`, `MAX_CACHE_BLOCK_NUM`, 5 in the code)
with six calls let the cache run over, run dry, and be passed by, and leave holes
that requests of three have to collect from several runs. What one might expect and
is not so: `blockNum` is not exact (a get from the cache does not lower it), and a get
of several blocks may return none while the cache has some.

### Proofs

`BlockPoolProofs` proves all three properties of `bp_space` for every `TotalBlockNum`,
`MAX_CACHE_BLOCK_NUM`, `Sizes` and `MaxOps` (`PoolSafe`, `CountSafe`, `RefusalSafe`),
in two layers.

What the functions of `ExtentTree.c` compute, for every tree of joined runs; it is in
`SharedLemmas`, because `FileDataProofs` needs it too. Each loop is a
recursive function, its value after `i` passes; a lemma on one pass gives the theorem on the
loop by induction over the passes:

- `BatchPutFacts`: the tree after `ExtentTreeBatchPut` is again one of joined runs, covers
  what it covered and what was put, and has grown by the container's size. The case split
  (a run joined in front, behind, on both sides or on none) is in `PutCases`, `PutFacts`.
- `GetFacts`: `ExtentTreeGet` parts the tree into the container and what is left, and
  gives less than was asked only when it has emptied the tree. The loop needs one pass
  per block asked for, so "as many passes as `size`" is part of the induction.
- `ReverseFacts`: `ExtentTreeReverseHolesAndExtents` covers exactly the complement. Its
  loop invariant: what is done lies below `lastHole`, what is left lies above.

The pool. `BlocksPartitioned` alone is not inductive: it does not say that two owned
extents have no block in common, without which a `BlockPoolPut` could free a block that
stays owned, and it says nothing while the pool is rebuilt. `IInv` is: `Pool` while it runs
(the partition, owned extents apart, joined runs, the cache within its array and without
repetition, the count at least the free blocks); `Rebuilding` while it recovers (the tree
covers exactly the extents told so far, `blockNum` is 0); and `RefusedOnlyWhenEmpty`. TLC
checked `IInv` on the instance of `bp_space` first.

## 7. Layouter

`Layouter` has no state: it is the arithmetic of `LayouterInit` and `Layouter.h`, and the
addresses that the block and page tables compute without any check. `LayoutAssumption`
says that tables, reserve and the ten reserved blocks fit the NVM; `MCPageManager`
extends the module, so that TLC evaluates the assumption for the 1G NVM (512 blocks)
and the reserve of 2M.

`LayouterProofs` proves for every size: `LayoutTablesApart` (no table's access leaves its
own area), `LayoutDataInside` (addresses and numbers convert back and forth and data
lies inside the NVM), `LayoutReservedApart` (the blocks of the swap logs and of the swap
area are three blocks the file system never gets). The argument: `AlignUpBlock`
and `GroupsOfNvm` bound the rounded sizes from below, `Ascending` orders the areas,
`Counts` bounds the number of data blocks and pages by that of the whole NVM. The sizes
of the tables are computed from the whole NVM, not from the data part; that is what
makes them large enough.

## 8. PageManager

`PageManager` models the pages of one logical block that has been split, with
the page half of `MapTable.c` and the five page tables. `th[t]` is what thread `t` is at.
The block swap that moves this block to another physical block is `mover`: what
`BlockManager` has in full, reduced to what pages notice. Split and merge are those
the page pool asks for, at moments when nobody uses a page.

| Code | Model |
|---|---|
| `PageManagerWrite`, `PageManagerMemset` | `WearLevelerWrite`, `LockForWrite`, `QueryForWrite`, `NVMWrite`, `LoadBlockEntry` and `MapTablePageBusy` (load and store of the block's word), `UnlockPage`, `PageManagerIncreaseWearCount` |
| `PageManagerTrim` | `WearLevelerTrim`, `LockForTrim`, `MapTablePageTrim`, `UnlockPage` |
| `PageManagerRead` | `WearLevelerRead`, `LockPageForRead`, `ReadPageLock`, `QueryForRead`, `NVMRead`, `UnlockPageForRead` (with `SameLocks`), `ReadReturns` |
| `SwapPage`: `PageColdnessManagerSwapPrepare` | the same name; `IncreaseThreshold` when all pages are marked |
| `LockPageForSwap` | `LockOneBlock`, `LockLower`, `LockUpper` |
| `SwapPageFast`, `SwapPageSlow` | `LogPageSwapBegin`, `SwapCopy` and `LogPageSwapCommitStepx` for each step, `FinishSwap`, `UnlockPageForSwap`, `PageColdnessManagerSwapPut` |
| `BlockManager.c` on a split block | `LockBlockForSwap`, `WaitForAllPagesUnlock` page by page, `BlockSwapCopy` (a slow swap, a fast one with this block as the worn one, a fast one with this block as the free one), `MapTableBlockSwap`, `UnlockBlockForSwap` |
| `NVMPagesMerge`, `NVMBlockSplit`, eviction of a coldness group | `NVMPagesMerge`, `NVMBlockSplit`, `PageGroupEvicted` |

What strikes of the hazards of the code is noted in `mishaps`, and each property names
those up to which it is claimed:

- `late`: a store made behind the copy of a block swap (`WaitForAllPagesUnlock` looks at
  each page once, and `MapTableLockPageForWrite` does not look at the block);
- `overwritten`: a fast block swap that takes this block for a free one, as in
  `bm_readback`, and copies the worn block over its pages;
- `undone`: `MapTablePageBusy` sets the block's busy bit (`be->busy = 1`) under the page's
  lock only. It loads the word that also has the block's lock and `physBlockIndex`, and
  stores it (or, depending on the build, the bytes of it that the compiler chose); what
  another thread stored in between is taken back. With a lock taken back, nothing is
  excluded any more: the model stops there. The busy bit itself is left out here: nothing
  on the page side reads it, and `BlockManager` has it;
- `lapped`: the lock bit-fields have 22 bits. The model keeps counting, to know the
  rounds, and compares modulo `LOCK_RANGE` as the code does; a reader during whose read a
  counter made a full round is let through wrongly;
- `misformatted`: a split of a moved block (`PageUnmapTableBatchFormat` formats the group of
  the physical block, `PageUnmapTableGet` reads that of the logical one).

The first three are the ways a page write is lost (`Lost`). A page swap for a block that has
moved away ends at `fault`: the lookup goes through a null pointer.

| Run | Properties | What it shows |
|---|---|---|
| `pm_pages` | `TypeOK`, `PageDataKept`, `UnmapInverse` | two threads and block swaps, splits and merges: pages keep what was written until a write is lost in one of three ways, map and unmap table stay inverse until a split formatted the wrong group or a lock was taken back |
| | `PageReadAtomic` | a read that returns gives a value its page had during the call, until a write is lost or a lock has come round under a read |
| | `SwapRecoverable` | at every step of a page swap the log entry tells where both pages are, until a write is lost |

A block has two pages (`PageNum`) in one partly filled unmap entry of seven slots, each
write swaps (`STEP_WEAR_COUNT = 1`), log and area have two slots, so that the third of
three calls (`MaxOps`) wraps; `MaxMoves = 2` allows a block to move there and back, or
to move and be split again. `LOCK_RANGE = 4` lets a lock come round within two swaps or
writes. Deadlock is checked: `MCPageManager` lets a behaviour end
only when no call is underway, when `misformatted` has struck (then
`LockOnePage` may retry for ever with the block lock held, `PageManager.c:63`), or when a
lock was taken back. After a lost write the behaviour is followed as long as a call is left
(`LostBriefly`), since the properties about data say nothing of it any more. With three
calls and two block swaps begun, the second swap is followed until it has waited for all
pages (`LastSwap`); without that bound the run has 8.9 million states instead of 3.1, and
the same result. Threads are symmetric.

### Proofs

`PageManagerProofs` proves the five properties of the run, for every number of threads,
pages, log and swap area slots, calls and block moves, as parts or corollaries of one
inductive invariant, `PageInv` (in `PageManager`; TLC checked it on the instance of
`pm_pages`): the types, and unless a lock was taken back (`Undone`) `Consistent`, which is

- `BlockLockExclusive`, `PageLockExclusive`: an odd lock value has one holder, an even
  one none; at most one thread is inside a page swap, since it holds the block's lock;
- `MapKept`: the page map is a permutation, and a thread's copy of an entry is right
  while it holds the lock;
- `LogOwned`: a log entry belongs to the one swap underway and names its pages;
- `DataKept`: the data of a page is at its place, or, for the two pages of a swap,
  where the log entry says and after a copy also where its next step will say;
- `ReadersSafe`: what a reader has is right while both lock values are what it saw.

`PageDataIsKept` needs all of them: without `MapKept` two pages could share a place,
without `LogOwned` the entry could be of another swap. `PageSwapIsRecoverable`,
`PageUnmapIsInverse` and `PageTypes` are conjuncts, `PageReadIsAtomic` follows from
`ReadersSafe`. The conditions on `mishaps` are those of the properties, `lapped` instead of the
hypothesis `NoLockWraps` of section 3. The proof has
one lemma per group of actions (`QuietActions`, `LockActions`, `UserActions`, `MarkActions`,
`SwapActions`, `MoverActions`), and one case per action below. `MarkActions` is about the two
steps of `MapTablePageBusy`: a store that changes nothing of the word is quiet, one that does
makes `Undone` true.

## 9. FileData

A regular file, from `NvmfsFileWrite` and `NvmfsFileRead` down to the extent tree of the
file. A word stands for a run of bytes that is written and cut as a whole. The log is
the abstract one that `Log` implements: an append is atomic, needs a page when the last
area is full, and may fail. `call` is the write underway: the spaces to add and the parts
to write, in the order of `WriteDataSmall` and `WriteDataLarge`. `FileAssumption` has the
constants: pages lie in blocks that are not in the block pool, and writes end within
`FileLen`.

| Code | Model |
|---|---|
| `FileInodeInfoFormat`, `FileInodeInfoDestroy` | the same names |
| `FileInodeInfoWriteData` with its three ways to find room | `FileInodeInfoWriteData`, with `WriteDataWithoutNewSpace`, `WriteDataSmall`, `WriteDataLarge` |
| `WriteDataToArea` | `WriteData`, then `WriteDataLogged` (entry and tree) |
| `AddNewSpace` | `AddNewSpace` |
| `NvmfsFileOpen` with `O_TRUNC`, `InodeTruncate` | `NvmfsFileOpen` |
| `FileInodeInfoRebuild` | `Reload`, `Crash`, and the operator of that name |
| `FileInodeInfoRecovery` | `RecoveredPages`, `RecoveredBlocks` |
| `FileExtentTree.c`, reads, `NvmfsLlseek`, getattr | operators, used by the actions and by the properties |

History variables: `acked`, the file as returned calls left it; `unlogged`, an append
failed and nobody noticed; `spanned`, a store ran over the end of a block
(`NVMAccesserWrite` does not cut it). What follows in the last two cases is not
claimed. Recovery of the page pool is taken as it is meant.

| Run | Properties | What it shows |
|---|---|---|
| `file_crash` | `FileInv` (`TypeOK`, `ExtentsApart`, `EffectiveNeverShort`) | extents never share a word of the file or of the NVM, whatever is overwritten; `effectiveSize` is never too small |
| | `CrashLeavesPrefix`, `RebuildSame` | after a crash at any moment: what was acknowledged and a leading part of the write underway; between calls memory equals the rebuilt file |
| | `SpacePartitioned` | no page or block is lost or shared by the file, its log and the pools |
| | `ReadsWritten`, `StatTrue` | reads from any seek give what was written; stat gives the length |
| `file_hole` | `HolesReadZero` (violated) | the `memset` for a hole goes to the place of the extent behind it, so the hole reads as whatever the buffer held |

Pages have two words and blocks four; writes of 1, 3 and 6 words at offsets 0, 1 and 2
stay within an area, spill over into a page, and need one or two runs of blocks, the
pool having a run of two and one of one with a gap. Log areas have three entries, so
that the log competes for the four pages. Five calls or crashes. Behaviours end at that
bound and when nothing fits, so deadlock is not checked: one call runs at a time.

### Proofs

`FileDataProofs` proves all six properties of `file_crash`, for every size of pages and
blocks, every page pool and block pool that `FileAssumption` allows, all areas of the log,
lengths of writes and numbers of calls. The walks of the module (the replay of a log, a read)
are recursive functions over `0 .. n`, so that `SharedLemmas` has the induction over them.
TLC checked both invariants below on the instance of `file_crash` with four calls (50195
states) before they were proved.

`Struct` (theorem `Structure`) is about who has what. The properties are not inductive by
themselves: `RebuildSame` speaks of idle states only, and none of them says that the space a
call has got is enough for what it has yet to write. `Struct` has

- `LogStands`: *every* log that can be on the NVM rebuilds to a `GoodManager` (`LogGood`):
  the extents lie apart in the file and on the NVM, each in one space; none lies behind the
  place to write at within the current area; `effectiveSize` covers them. The manager in memory is the
  one its log rebuilds to, not only between calls but in every step: `WriteDataToArea` and
  `AddNewSpace` change it as `RebuildEntry` would, up to the write position, which
  `RebuildEnd` puts right. The exception is an append that failed, after which every other
  append fails as well, or nothing further is followed.
- `CallFits`: the spaces still to add are just enough for what is left to write
  (`JustEnough`): the last of them is reached, and none before it is left with room. So a part
  never ends beyond its area, which the code nowhere tests.
- `SpacesOwned`: each page and block has one holder out of the log's spaces, the spaces of the
  call, the log's own pages and the two pools, and without a failed append each has one
  (`Owned`, `NoneLost`, by pages and blocks; `SpacePartitioned` follows for words).

`ManagerRebuilt` (`RebuildSame`), `WordsPartitioned` (`SpacePartitioned`) and `FileSound`
(`FileInv`) follow from it. The block pool's part rests on `GetFacts` and `BatchPutFacts`: the
container of a get parts the tree, and what a deletion puts back is apart from it.

`Content` (theorem `Contents`, together with `Struct`) is about data:

- `FileMatches`: what the extents show is `acked` with the part of the call that has reached
  the tree over it. A store changes no word that an extent has, since it goes behind the place
  to write at (`GoodManager`), and a new extent takes from the others exactly the words it
  covers (`ExtentTreeErase`).
- `StoredAhead`: between its two steps `WriteDataToArea` has its data stored, so that the entry
  which makes it visible shows the new value.
- `StatTold`: what the VFS inode was told.

`CrashSafe` (`CrashLeavesPrefix`) takes as the leading part what had reached the tree, since
the manager in memory is the rebuilt one; `StatSafe` is `StatTrue`. `ReadsSafe` (`ReadsWritten`)
needs an argument about the walk of `FileExtentTreeRead` besides: its loop invariant `Passed`
says that the buffer is right up to `lastRead` for all words that an extent has, and that the
extents left all lie behind. The `memset` of a hole starts at the extent instead of at the hole
(the finding); it may run over words that extents behind it have, but those are copied later.
`end - start` passes are enough, because each takes an extent with a word in the range.

The conditions on `unlogged` and `spanned` are those of the properties. `HolesReadZero` is false
and stays with TLC.

## 10. Nvmfs

The tree of files and directories over the inode table, with the recovery walk. Each
NVM write that recovery can see is a step of its own, and a crash may come after any.

| Code | Model |
|---|---|
| `VfsInodeCreateImpl` (create, mkdir) | `InodeFormat`, `InodeFormatEnds` (table entry), `DirInodeInfoAddDentry`, `...Fails` or `...Astray`, `CreateReturns` |
| `VfsInodeUnlink`, `VfsInodeRmdir` | `DirInodeInfoRemoveDentry`, `...Fails` or `...Astray`, `RemoveReturns` |
| `VfsInodeLookup`, eviction, readdir | the actions on `info`, `DirFileDentryCacheIterate` |
| `InodeTable.c` | operators on the list `listTable`, `head`, `tail`; the NVM part is `inodeTable` |
| `FsConstructorRun`, `CircularBuffer.c` | the steps on `rec`, `CircularBufferAdd`, `CircularBufferDelete` |

The code takes no notice of some errors. `mishaps` has `unformatted` (a dentry for an
inode that got no ino or no page; no further call is followed) and `orphans` (a
directory removed with its contents: `VfsInodeRmdir` does not look). An entry that finds no
page leaves the directory `spoiled` in memory: `LogWrite` and `LogStepWriteBegin` deduct the
space before they look at the error (the finding of `log_rebuild`), so `restSize` is wrong and
as a rule wrapped. NVM is not touched by that, so a directory that is evicted and looked up
again, or recovered, is sound. The next entry written to a spoiled directory goes behind the
last area through a link nobody wrote: `astray`, where the model stops (`corrupt`) and no
crash is followed. A circular buffer
that grows while its oldest element is not in slot 0 sets `overrun`; a destruction of an
inode without a log ends the behaviour at `corrupt`.

| Run | Properties | What it shows |
|---|---|---|
| `fs_crash` | `CrashConsistent`, `CacheIsReplay` | what recovery finds is the tree of the returned calls, with the call underway done or not done, also after calls that found no page; each loaded cache is the replay of its log |
| | `TreeInv` (`TypeOK`, `DentriesResolve`), `ReaddirLists` | each dentry leads to its own inode whose log names the same parent; readdir lists each dentry once |
| | `SpaceAccounted`, `FreeListSound` | no page or ino is lost or shared, but below a directory removed with its contents; the free list names each free ino once |
| | `RecoveredOnce` | recovery ends, even on a tree with a loop |

Four inos, four pages, two names and areas of two entries make table, pool and log run
full within six calls: creation without an ino and without a page for the child, an
entry to add or to remove that finds no page, with the child destroyed again, and after that
an eviction and a call that succeeds all occur (1.15 million states). Two crashes allow one during
the use of what the first recovery made, also inside the recovery of a tree with a dentry
of an inode without a log. The circular buffer of three never has to grow with
four inos, so `overrun` is modelled and not reached. Pages and names are symmetric. The module
uses recursive operators and therefore has no theorems.

## 11. What is proved and what is only model-checked

Proved, for every value of the constants: the theorems of sections 3 to 9, that is all
properties of `bm_swaps` (`ReadAtomic` while no lock wraps), `bm_seq` (two of them for one
thread), `log_crash` (the refinement of `CommittedLog` among them), `pm_pages`, `pp_threads`,
`bp_space` and `file_crash`, and the layout.

Model-checked only: everything about `Nvmfs`, and `OperationsEnd`, the one property with
fairness. Liveness and `ENABLED` are outside the prover's reach. A loop written as a recursive
function over `0 .. n` is within it, as sections 4, 6 and 9 show; a `RECURSIVE` operator or a
fold over a `LAMBDA` is not, and the walks of `Nvmfs` down a tree of directories are written
with those. The three findings are counterexamples, which TLC gives.
The model-checked results hold up to the bounds named in each section: numbers of
threads, blocks, pages and calls.

The hazards the properties are for are listed in `PROJECT.json`, those without a property
with the reason. Smaller ones met while modelling, which no property speaks of: two swappers can take one slot of
the block swap log (`BlockSwapLog.c:33`); a later threshold can be overwritten by an
earlier one on NVM (`BlockManager.c:306`); racing wear counts (`BlockManager.c:193`,
`PageWearTable.c:57`); `fineGrain` tested without a lock (`WearLeveler.c:67`); a node read
after it was freed (`ExtentTree.c:111`); an empty first write (`FileExtentTree.c:145`); the
inode table's list without a lock (`InodeTable.c:88`); removal of an open file
(`VfsInode.c:210`); an NVM too small for its tables (`Layouter.c:52`).

## 12. Not modelled

- `src/wearlevel`: superseded by `wearlevel-refactor` and not built.
- The NVM emulator, DemoFS, the test tools, module registration, the debug ioctl and
  all printing: no logic of the file system.
- The page pool's recovery, and its choice among free pages (`nextIndex`).
- The swap of the blocks that hold the swap logs and the swap area
  (`BlockManagerIncreaseSpecialBlockWearCount`).
- `BlockManagerMemset` (`BlockManager.c:372`, hands a logical address to `NVMemset`),
  `WearLevelerMemcpy`, `NVMAccesserMemset` and `Memcpy`, the Rebuild and Notify functions of
  `BlockColdnessManager`, `FileDataManagerMergeData`: no caller in
  the file system.
- Wear counts as a measure: lost increases of racing writers change when a block
  is swapped, not what it holds.
- Two VFS calls at the same time, and open files of a removed inode: the code below
  `VfsInode.c` has no rule for them that a property could state.
- Times and ownership of inodes; names as strings and their hashes.
- The order in which stores reach the NVM: a write is durable when it is made, as the
  code assumes.
