----------------------------- MODULE PageManager -----------------------------
(***************************************************************************)
(* src/src/wearlevel-refactor/PageManager.c with the page half of          *)
(* MapTable.c, PageUnmapTable.c, PageWearTable.c, PageColdnessManager.c,   *)
(* PageSwapLog.c and PageSwapArea.c: the pages of one logical block that   *)
(* has been split, used by several threads.                                *)
(*                                                                         *)
(* A page write takes the sequence lock of its page only.  A page swap     *)
(* takes the lock of the block and then of both pages; a block swap (what  *)
(* BlockManager.tla has in full, here the Mover that BlockManagerWrite and *)
(* its callers are to this block) takes the block lock and waits once for  *)
(* each page.  Readers take no lock: they look at both counters before and *)
(* after.  Wear counts and the coldness bitmap belong to physical pages    *)
(* and are used without any lock.                                          *)
(*                                                                         *)
(* The logical block is number 0 and starts on physical block 0; another   *)
(* block swap brings it to the other physical block and back.              *)
(*                                                                         *)
(* The map's entry of the block is one word of bit-fields: fineGrain, busy *)
(* (which nothing here depends on and BlockManager.tla has), lock and      *)
(* physBlockIndex.  MapTablePageBusy stores to it under the page's lock,   *)
(* so the word is loaded and stored in two steps there.  A store of a word *)
(* that has changed in between takes back a lock or a remap: the block's   *)
(* lock then protects nothing, and the model goes no further.              *)
(***************************************************************************)
EXTENDS Integers, FiniteSets

CONSTANTS
  Threads,
  PageNum,           \* pages of a block (512)
  EntryPages,        \* pages of an entry of the unmap table (7)
  STEP_WEAR_COUNT,   \* wear at which a page is swapped
  LOCK_RANGE,        \* 2^22: values of the bit-fields "lock"
  MaxEntries,        \* slots of the swap log, pages of the swap area
  MaxOps, MaxMoves   \* bounds: page calls, and block swaps with splits

ASSUME PageAssumption ==
  /\ PageNum \in Nat \ {0} /\ STEP_WEAR_COUNT \in Nat \ {0}
  /\ EntryPages \in Nat \ {0} /\ PageNum % EntryPages # 0
  /\ LOCK_RANGE \in Nat \ {0} /\ LOCK_RANGE % 2 = 0
  /\ MaxEntries \in Nat \ {0} /\ MaxOps \in Nat /\ MaxMoves \in Nat

VARIABLES
  nvm,          \* the pages of both physical blocks
  tmpArea,      \* PageSwapArea: the page in use
  physBlock,    \* BlockEntry.physBlockIndex
  blockLock,    \* BlockEntry.lock, with the rounds it has made
  fineGrain,    \* BlockEntry.fineGrain: split
  relativeIndex, pageLock, busy,   \* PageEntry
  unmap,        \* PageUnmapTable: groups of entries, physical -> logical page
  wear,         \* PageWearTable, by physical block and page
  bitmap,       \* PageColdnessManager: the group of a physical block
  logEntry,     \* PageSwapLog: the entry of the swap underway
  logIndex, areaIndex,
  th,           \* what each thread is at
  mover,        \* the block swap underway
  content,      \* ghost: what each logical page holds for its user
  mishaps,      \* ghost: which of the known hazards have struck
  ops, moves

page == <<relativeIndex, pageLock, busy>>
swap == <<tmpArea, logEntry, logIndex, areaIndex>>
vars == <<nvm, physBlock, blockLock, fineGrain, page, unmap, wear, bitmap, swap,
          th, mover, content, mishaps, ops, moves>>
----------------------------------------------------------------------------
Pages == 0 .. PageNum - 1
Blocks == {0, 1}
LogicBlock == 0
Unlocked(lock) == lock % 2 = 0
Identity == [p \in Pages |-> p]
Trimmed == -1                     \* a page nobody has written since its trim
NoGroup == {-1}                   \* hashTable[block] is NULL
NoEntry == [step |-> 0]
Wrap == 2 ^ 20                    \* stands for the 2^32 of a UINT32 wear count
Least(S) == CHOOSE x \in S : \A y \in S : x <= y

\* PageUnmapTable.c packs the pages of a group into entries, the last of which
\* is not full.
Entries == 0 .. (PageNum - 1) \div EntryPages
Slots == 0 .. EntryPages - 1
GetUnmapPageRelativeIndexFromEntry(entry, j) == entry[j]
SetUnmapPageRelativeIndexOfEntry(entry, j, p) == [entry EXCEPT ![j] = p]

\* The slots behind the last page hold what the loop left; nobody reads them.
PageUnmapTableBatchFormat ==
  [e \in Entries |-> [j \in Slots |-> LET i == e * EntryPages + j
                                     IN IF i < PageNum THEN i ELSE 0]]

PageUnmapTableSet(group, i, p) ==
  [group EXCEPT ![i \div EntryPages] =
     SetUnmapPageRelativeIndexOfEntry(@, i % EntryPages, p)]

\* The group is that of the logical block.
PageUnmapTableGet(i) ==
  GetUnmapPageRelativeIndexFromEntry(unmap[LogicBlock][i \div EntryPages],
                                     i % EntryPages)

Nothing == [pc |-> "idle", page |-> 0, phys |-> <<0, 0>>, value |-> 0,
            new |-> 0, v1 |-> 0, v2 |-> 0, word |-> <<0, 0>>, seen |-> {}]
To(t, pc) == th' = [th EXCEPT ![t].pc = pc]
At(t, pc) == th[t].pc = pc

PageWearTableBatchFormat == [p \in Pages |-> 0]
PageWearTableFormat == wear = [b \in Blocks |-> PageWearTableBatchFormat]
PageColdnessManagerFormat == bitmap = [b \in Blocks |-> NoGroup]
PageSwapLogFormat == logEntry = NoEntry /\ logIndex = 0
PageSwapAreaFormat == tmpArea = 0 /\ areaIndex = 0

Init ==
  /\ nvm = [x \in Blocks \X Pages |-> 0]
  /\ physBlock = LogicBlock /\ blockLock = 0 /\ fineGrain = TRUE
  /\ relativeIndex = Identity
  /\ pageLock = [p \in Pages |-> 0] /\ busy = [p \in Pages |-> FALSE]
  /\ unmap = [g \in Blocks |-> PageUnmapTableBatchFormat]
  /\ PageWearTableFormat /\ PageColdnessManagerFormat
  /\ PageSwapLogFormat /\ PageSwapAreaFormat
  /\ th = [t \in Threads |-> Nothing]
  /\ mover = [pc |-> "idle", next |-> 0]
  /\ content = [p \in Pages |-> Trimmed]
  /\ mishaps = {}
  /\ ops = 0 /\ moves = 0
----------------------------------------------------------------------------
(* PageManagerWrite, PageManagerMemset, PageManagerTrim                    *)

PageOp(t, pc, p) ==
  /\ At(t, "idle") /\ fineGrain /\ ops < MaxOps
  /\ ops' = ops + 1
  /\ th' = [th EXCEPT ![t] =
              [Nothing EXCEPT !.pc = pc, !.page = p, !.value = ops + 1,
                              !.seen = {content[p]}]]
  /\ UNCHANGED <<nvm, physBlock, blockLock, fineGrain, page, unmap, wear,
                 bitmap, swap, mover, content, mishaps, moves>>

\* The wear leveler sends a call to the page manager when the block is split.
WearLevelerRead(t, p) == PageOp(t, "read", p)
WearLevelerWrite(t, p) == PageOp(t, "write", p)
WearLevelerTrim(t, p) == PageOp(t, "trim", p)

\* Mutant: a page is taken whether or not somebody has it.
PageWriteLockBlindly(p) ==
  pageLock' = [pageLock EXCEPT ![p] = @ + 1]

\* MapTablePageWriteLock: the page's counter from even to odd.
MapTablePageWriteLock(p) ==
  /\ Unlocked(pageLock[p])
  /\ pageLock' = [pageLock EXCEPT ![p] = @ + 1]

LockPage(t, from, to) ==
  /\ At(t, from)
  /\ MapTablePageWriteLock(th[t].page)
  /\ To(t, to)
  /\ UNCHANGED <<nvm, physBlock, blockLock, fineGrain, relativeIndex, busy,
                 unmap, wear, bitmap, swap, mover, content, mishaps, ops, moves>>
LockForWrite(t) == LockPage(t, "write", "query")
LockForTrim(t) == LockPage(t, "trim", "untake")

\* MapTableQuery reads the block's place and the page's without a block lock.
MapTableQuery(t, from, to) ==
  /\ At(t, from)
  /\ th' = [th EXCEPT ![t].pc = to,
                      ![t].phys = <<physBlock, relativeIndex[th[t].page]>>]
  /\ UNCHANGED <<nvm, physBlock, blockLock, fineGrain, page, unmap, wear,
                 bitmap, swap, mover, content, mishaps, ops, moves>>
QueryForWrite(t) == MapTableQuery(t, "query", "store")
QueryForRead(t) == MapTableQuery(t, "readquery", "load")

\* NVMWrite or NVMemset.  A store behind the copy of a block swap goes to the
\* place the block has left.
StoreIsLate(t) ==
  \/ th[t].phys[1] # physBlock
  \/ mover.pc = "map"
NVMWrite(t) ==
  LET p == th[t].page IN
  /\ At(t, "store")
  /\ nvm' = [nvm EXCEPT ![th[t].phys] = th[t].value]
  /\ content' = [content EXCEPT ![p] = th[t].value]
  /\ mishaps' = IF StoreIsLate(t) THEN mishaps \cup {"late"} ELSE mishaps
  /\ th' = [u \in Threads |->
              IF u = t THEN [th[t] EXCEPT !.pc = "mark"]
              ELSE IF th[u].page = p
                   THEN [th[u] EXCEPT !.seen = @ \cup {th[t].value}] ELSE th[u]]
  /\ UNCHANGED <<physBlock, blockLock, fineGrain, page, unmap, wear, bitmap, swap,
                 mover, ops, moves>>

\* MapTablePageBusy, "be->busy = 1": the load of the block's word ...
LoadBlockEntry(t) ==
  /\ At(t, "mark")
  /\ th' = [th EXCEPT ![t].pc = "markstore", ![t].word = <<physBlock, blockLock>>]
  /\ UNCHANGED <<nvm, physBlock, blockLock, fineGrain, page, unmap, wear, bitmap,
                 swap, mover, content, mishaps, ops, moves>>

\* ... and its store, of the whole word or of the byte with the lock's low bits,
\* as the build has it; then the page's own busy bit, which its lock protects.
MapTablePageBusy(t) ==
  /\ At(t, "markstore")
  /\ busy' = [busy EXCEPT ![th[t].page] = TRUE]
  /\ blockLock' = th[t].word[2]
  /\ physBlock' \in {physBlock, th[t].word[1]}
  /\ mishaps' = IF blockLock' = blockLock /\ physBlock' = physBlock THEN mishaps
                ELSE mishaps \cup {"undone"}
  /\ th' = [th EXCEPT ![t].pc = "unlock", ![t].word = <<0, 0>>]
  /\ UNCHANGED <<nvm, fineGrain, relativeIndex, pageLock, unmap, wear, bitmap, swap,
                 mover, content, ops, moves>>

MapTablePageTrim(t) ==
  LET p == th[t].page IN
  /\ At(t, "untake")
  /\ busy' = [busy EXCEPT ![p] = FALSE]
  /\ content' = [content EXCEPT ![p] = Trimmed]
  /\ th' = [u \in Threads |->
              IF u = t THEN [th[t] EXCEPT !.pc = "trimmed"]
              ELSE IF th[u].page = p
                   THEN [th[u] EXCEPT !.seen = @ \cup {Trimmed}] ELSE th[u]]
  /\ UNCHANGED <<nvm, physBlock, blockLock, fineGrain, relativeIndex, pageLock,
                 unmap, wear, bitmap, swap, mover, mishaps, ops, moves>>

\* MapTableUnlockPageForWrite; a trim is done then, a write charges wear.
UnlockPage(t) ==
  /\ th[t].pc \in {"unlock", "trimmed"}
  /\ pageLock' = [pageLock EXCEPT ![th[t].page] = @ + 1]
  /\ To(t, IF At(t, "unlock") THEN "wear" ELSE "idle")
  /\ UNCHANGED <<nvm, physBlock, blockLock, fineGrain, relativeIndex, busy,
                 unmap, wear, bitmap, swap, mover, content, mishaps, ops, moves>>

\* The page table's entry belongs to the physical page that was written, also
\* when the data has moved on since.
PageManagerIncreaseWearCount(t) ==
  LET b == th[t].phys[1]
      i == th[t].phys[2] IN
  /\ At(t, "wear")
  /\ wear' = [wear EXCEPT ![b][i] = (@ + 1) % Wrap]
  /\ To(t, IF wear'[b][i] >= STEP_WEAR_COUNT THEN "prepare" ELSE "idle")
  /\ UNCHANGED <<nvm, physBlock, blockLock, fineGrain, page, unmap, bitmap, swap,
                 mover, content, mishaps, ops, moves>>
----------------------------------------------------------------------------
(* SwapPage                                                                *)

PageGroupInit(b) == {i \in Pages : wear[b][i] > STEP_WEAR_COUNT}

\* A group that is not in memory is made from the wear counts.
PageGroupGet(b) ==
  IF bitmap[b] # NoGroup THEN bitmap[b] ELSE PageGroupInit(b)

BitmapZeroGet(marked) ==
  IF Pages \subseteq marked THEN -1 ELSE Least(Pages \ marked)

\* The worn page is marked, the first page that is not marked is the partner.
PageColdnessManagerSwapPrepare(t) ==
  LET b == th[t].phys[1]
      marked == PageGroupGet(b) \cup {th[t].phys[2]}
      new == BitmapZeroGet(marked) IN
  /\ At(t, "prepare")
  /\ \/ /\ new = -1
        /\ bitmap' = [bitmap EXCEPT ![b] = marked]
        /\ To(t, "charge")
     \/ /\ new # -1
        /\ bitmap' = [bitmap EXCEPT ![b] = marked \cup {new}]
        /\ th' = [th EXCEPT ![t].pc = "lockblock", ![t].new = new]
  /\ UNCHANGED <<nvm, physBlock, blockLock, fineGrain, page, unmap, wear, swap,
                 mover, content, mishaps, ops, moves>>

\* The counts are unsigned.
PageWearTableBatchIncreaseThreshold(counts) ==
  [i \in Pages |-> (counts[i] - STEP_WEAR_COUNT) % Wrap]

\* All pages are marked: the block is charged, the pages begin anew and
\* PageColdnessManagerIncreaseThreshold clears every mark.
IncreaseThreshold(t) ==
  LET b == th[t].phys[1] IN
  /\ At(t, "charge")
  /\ wear' = [wear EXCEPT ![b] = PageWearTableBatchIncreaseThreshold(@)]
  /\ bitmap' = [bitmap EXCEPT ![b] = IF @ = NoGroup THEN @ ELSE {}]
  /\ To(t, "idle")
  /\ UNCHANGED <<nvm, physBlock, blockLock, fineGrain, page, unmap, swap, mover,
                 content, mishaps, ops, moves>>

\* LockOneBlock: the logical block that has the physical one now.  When this
\* block has moved away that is another one, which is not split, and the page
\* lookup that follows goes through a null pointer.
LockOneBlock(t) ==
  /\ At(t, "lockblock")
  /\ \/ /\ th[t].phys[1] = physBlock /\ fineGrain
        /\ Unlocked(blockLock)
        /\ blockLock' = blockLock + 1
        /\ To(t, "lockpages")
     \/ /\ th[t].phys[1] # physBlock \/ ~fineGrain
        /\ To(t, "fault")
        /\ UNCHANGED blockLock
  /\ UNCHANGED <<nvm, physBlock, fineGrain, page, unmap, wear, bitmap, swap,
                 mover, content, mishaps, ops, moves>>

PageA(t) == th[t].phys[2]
PageB(t) == th[t].new

\* The lock is kept only if the logical page still maps there.
MapTableLockPageForSwap(p, i) == MapTablePageWriteLock(p) /\ relativeIndex[p] = i

\* LockOnePage, for the lower page and then for the other, until it has it.
LockOnePage(t, from, to, i) ==
  LET p == PageUnmapTableGet(i) IN
  /\ At(t, from)
  /\ MapTableLockPageForSwap(p, i)
  /\ To(t, to)
  /\ UNCHANGED <<nvm, physBlock, blockLock, fineGrain, relativeIndex, busy,
                 unmap, wear, bitmap, swap, mover, content, mishaps, ops, moves>>
LockLower(t) == LockOnePage(t, "lockpages", "lockupper", Least({PageA(t), PageB(t)}))
LockUpper(t) ==
  LET i == IF PageA(t) < PageB(t) THEN PageB(t) ELSE PageA(t)
  IN LockOnePage(t, "lockupper", "begin", i)

\* Mutant: the index runs past the last slot.
NextSlotUnwrapped(i) == i + 1

\* PageSwapLog and PageSwapArea use their slots in turn.
NextSlot(i) == (i + 1) % MaxEntries

MapTableIsPageBusy(p) == busy[p]

\* SwapPageFast when nobody uses the partner, SwapPageSlow with a page of the
\* swap area otherwise; both write a log entry first.
LogPageSwapBegin(t) ==
  LET lB == PageUnmapTableGet(PageB(t)) IN
  /\ At(t, "begin")
  /\ logEntry' = [step |-> 1, fast |-> ~MapTableIsPageBusy(lB),
                  pageA |-> PageA(t), pageB |-> PageB(t),
                  logicA |-> PageUnmapTableGet(PageA(t)), logicB |-> lB]
  /\ logIndex' = NextSlot(logIndex)
  /\ areaIndex' = IF MapTableIsPageBusy(lB) THEN NextSlot(areaIndex) ELSE areaIndex
  /\ To(t, "copy")
  /\ UNCHANGED <<nvm, tmpArea, physBlock, blockLock, fineGrain, page, unmap, wear,
                 bitmap, mover, content, mishaps, ops, moves>>

PlaceA == <<physBlock, logEntry.pageA>>
PlaceB == <<physBlock, logEntry.pageB>>
LastStep == IF logEntry.fast THEN 2 ELSE 4

\* Mutant: page A goes over page B before B is in the swap area.
CopyInWrongOrder ==
  \/ /\ logEntry.fast \/ logEntry.step = 1
     /\ nvm' = [nvm EXCEPT ![PlaceB] = nvm[PlaceA]] /\ UNCHANGED tmpArea
  \/ /\ ~logEntry.fast /\ logEntry.step = 2
     /\ tmpArea' = nvm[PlaceB] /\ UNCHANGED nvm
  \/ /\ ~logEntry.fast /\ logEntry.step = 3
     /\ nvm' = [nvm EXCEPT ![PlaceA] = tmpArea] /\ UNCHANGED tmpArea

\* The NVMemcpy of each step.
CopyOfStep ==
  \/ /\ ~logEntry.fast /\ logEntry.step = 1
     /\ tmpArea' = nvm[PlaceB] /\ UNCHANGED nvm
  \/ /\ logEntry.fast \/ logEntry.step = 2
     /\ nvm' = [nvm EXCEPT ![PlaceB] = nvm[PlaceA]] /\ UNCHANGED tmpArea
  \/ /\ ~logEntry.fast /\ logEntry.step = 3
     /\ nvm' = [nvm EXCEPT ![PlaceA] = tmpArea] /\ UNCHANGED tmpArea

SwapCopy(t) ==
  /\ At(t, "copy")
  /\ CopyOfStep
  /\ To(t, "commit")
  /\ UNCHANGED <<physBlock, blockLock, fineGrain, page, unmap, wear, bitmap,
                 logEntry, logIndex, areaIndex, mover, content, mishaps, ops,
                 moves>>

LogPageSwapCommitStepx(t) ==
  /\ At(t, "commit")
  /\ logEntry' = [logEntry EXCEPT !.step = @ + 1]
  /\ To(t, IF logEntry'.step = LastStep THEN "tables" ELSE "copy")
  /\ UNCHANGED <<nvm, physBlock, blockLock, fineGrain, page, unmap, wear, bitmap,
                 tmpArea, logIndex, areaIndex, mover, content, mishaps, ops, moves>>

\* Mutant: only one direction of the unmap table is changed.
SwapTablesHalf(t) ==
  LET lA == logEntry.logicA  lB == logEntry.logicB IN
  /\ unmap' = [unmap EXCEPT ![LogicBlock] = PageUnmapTableSet(@, PageB(t), lA)]
  /\ relativeIndex' = [relativeIndex EXCEPT ![lA] = relativeIndex[lB],
                                            ![lB] = relativeIndex[lA]]

\* PageUnmapTableSet twice and MapTablePageSwap.
SwapTables(t) ==
  LET lA == logEntry.logicA  lB == logEntry.logicB IN
  /\ unmap' = [unmap EXCEPT ![LogicBlock] =
       PageUnmapTableSet(PageUnmapTableSet(@, PageA(t), lB), PageB(t), lA)]
  /\ relativeIndex' = [relativeIndex EXCEPT ![lA] = relativeIndex[lB],
                                            ![lB] = relativeIndex[lA]]

LogPageSwapEnd == logEntry' = NoEntry

\* The end of both swaps, the wear of the copies and PageColdnessManagerSwapPut
\* for a partner that is not worn.
FinishSwap(t) ==
  LET b == physBlock IN
  /\ At(t, "tables")
  /\ SwapTables(t) /\ LogPageSwapEnd
  /\ wear' = [wear EXCEPT ![b][PageA(t)] = (@ + 1) % Wrap,
                          ![b][PageB(t)] = (@ + 1) % Wrap]
  /\ bitmap' = IF wear'[b][PageB(t)] < STEP_WEAR_COUNT
               THEN [bitmap EXCEPT ![b] = @ \ {PageB(t)}] ELSE bitmap
  /\ To(t, "release")
  /\ UNCHANGED <<nvm, physBlock, blockLock, fineGrain, pageLock, busy, tmpArea,
                 logIndex, areaIndex, mover, content, mishaps, ops, moves>>

\* UnlockPageForSwap: the pages, then the block.
UnlockPageForSwap(t) ==
  /\ At(t, "release")
  /\ pageLock' = [p \in Pages |->
                    IF p \in {PageUnmapTableGet(PageA(t)),
                              PageUnmapTableGet(PageB(t))}
                    THEN pageLock[p] + 1 ELSE pageLock[p]]
  /\ blockLock' = blockLock + 1
  /\ To(t, "put")
  /\ UNCHANGED <<nvm, physBlock, fineGrain, relativeIndex, busy, unmap, wear,
                 bitmap, swap, mover, content, mishaps, ops, moves>>

\* PageColdnessManagerSwapPut again, whatever the partner's wear.  A full log
\* or area has its block charged (BlockManager.tla), which is not followed.
PageColdnessManagerSwapPut(t) ==
  LET b == th[t].phys[1] IN
  /\ At(t, "put")
  /\ bitmap' = [bitmap EXCEPT ![b] = @ \ {PageB(t)}]
  /\ To(t, "idle")
  /\ UNCHANGED <<nvm, physBlock, blockLock, fineGrain, page, unmap, wear, swap,
                 mover, content, mishaps, ops, moves>>
----------------------------------------------------------------------------
(* PageManagerRead                                                         *)

LockPageForRead(t) ==
  /\ At(t, "read")
  /\ Unlocked(blockLock) /\ th' = [th EXCEPT ![t].pc = "readpage", ![t].v1 = blockLock]
  /\ UNCHANGED <<nvm, physBlock, blockLock, fineGrain, page, unmap, wear, bitmap,
                 swap, mover, content, mishaps, ops, moves>>

ReadPageLock(t) ==
  /\ At(t, "readpage")
  /\ Unlocked(pageLock[th[t].page])
  /\ th' = [th EXCEPT ![t].pc = "readquery", ![t].v2 = pageLock[th[t].page]]
  /\ UNCHANGED <<nvm, physBlock, blockLock, fineGrain, page, unmap, wear, bitmap,
                 swap, mover, content, mishaps, ops, moves>>

NVMRead(t) ==
  /\ At(t, "load")
  /\ th' = [th EXCEPT ![t].pc = "check", ![t].value = nvm[th[t].phys]]
  /\ UNCHANGED <<nvm, physBlock, blockLock, fineGrain, page, unmap, wear, bitmap,
                 swap, mover, content, mishaps, ops, moves>>

\* Mutant: only the page's counter is compared.
SameLocksPageOnly(t) == th[t].v2 % LOCK_RANGE = pageLock[th[t].page] % LOCK_RANGE

\* MapTableUnlockPageForRead: 0 when neither counter shows another value.
SameLocks(t) ==
  /\ th[t].v1 % LOCK_RANGE = blockLock % LOCK_RANGE
  /\ th[t].v2 % LOCK_RANGE = pageLock[th[t].page] % LOCK_RANGE

\* A counter has made a full round during the read and shows the old value again.
Rounded(old, now) == now # old /\ now % LOCK_RANGE = old % LOCK_RANGE
Lapped(t) ==
  Rounded(th[t].v1, blockLock) \/ Rounded(th[t].v2, pageLock[th[t].page])

UnlockPageForRead(t) ==
  /\ At(t, "check")
  /\ To(t, IF SameLocks(t) THEN "returned" ELSE "read")
  /\ mishaps' = IF SameLocks(t) /\ Lapped(t) THEN mishaps \cup {"lapped"}
                ELSE mishaps
  /\ UNCHANGED <<nvm, physBlock, blockLock, fineGrain, page, unmap, wear, bitmap,
                 swap, mover, content, ops, moves>>

ReadReturns(t) ==
  /\ At(t, "returned")
  /\ th' = [th EXCEPT ![t] = Nothing]
  /\ UNCHANGED <<nvm, physBlock, blockLock, fineGrain, page, unmap, wear, bitmap,
                 swap, mover, content, mishaps, ops, moves>>
----------------------------------------------------------------------------
(* A block swap of this block, as BlockManager.c makes it, and the split   *)
(* and merge the page pool asks for when no page is in use.                *)

MoveTo(pc) == mover' = [mover EXCEPT !.pc = pc]

LockBlockForSwap ==
  /\ mover.pc = "idle" /\ moves < MaxMoves /\ Unlocked(blockLock)
  /\ moves' = moves + 1
  /\ blockLock' = blockLock + 1
  /\ mover' = [pc |-> IF fineGrain THEN "wait" ELSE "copy", next |-> 0]
  /\ UNCHANGED <<nvm, physBlock, fineGrain, page, unmap, wear, bitmap, swap, th,
                 content, mishaps, ops>>

MapTablePageWaitUntilUnlock(p) == Unlocked(pageLock[p])

\* Each page is waited for once, in turn.
WaitForAllPagesUnlock ==
  /\ mover.pc = "wait" /\ MapTablePageWaitUntilUnlock(mover.next)
  /\ mover' = IF mover.next = PageNum - 1 THEN [mover EXCEPT !.pc = "copy"]
              ELSE [mover EXCEPT !.next = @ + 1]
  /\ UNCHANGED <<nvm, physBlock, blockLock, fineGrain, page, unmap, wear, bitmap,
                 swap, th, content, mishaps, ops, moves>>

\* The copies of the swap.  SwapBlockSlow brings the partner's pages to where
\* this block was; SwapBlockFast leaves both physical blocks with the pages of
\* the one that is worn.  The partner is a block of the free list, where a block
\* stays when it is split or written to (BlockManager.tla): this block may be the
\* partner, and what its pages held is gone.
BlockSwapCopy ==
  LET other == 1 - physBlock IN
  /\ mover.pc = "copy"
  /\ \/ /\ nvm' = [x \in Blocks \X Pages |-> nvm[<<1 - x[1], x[2]>>]]
        /\ UNCHANGED mishaps
     \/ /\ nvm' = [x \in Blocks \X Pages |-> nvm[<<physBlock, x[2]>>]]
        /\ UNCHANGED mishaps
     \/ /\ nvm' = [x \in Blocks \X Pages |-> nvm[<<other, x[2]>>]]
        /\ mishaps' = IF \A p \in Pages : content[p] = Trimmed THEN mishaps
                      ELSE mishaps \cup {"overwritten"}
  /\ MoveTo("map")
  /\ UNCHANGED <<physBlock, blockLock, fineGrain, page, unmap, wear, bitmap,
                 swap, th, content, ops, moves>>

MapTableBlockSwap ==
  /\ mover.pc = "map"
  /\ physBlock' = 1 - physBlock
  /\ MoveTo("unlock")
  /\ UNCHANGED <<nvm, blockLock, fineGrain, page, unmap, wear, bitmap, swap, th,
                 content, mishaps, ops, moves>>

UnlockBlockForSwap ==
  /\ mover.pc = "unlock"
  /\ blockLock' = blockLock + 1
  /\ MoveTo("idle")
  /\ UNCHANGED <<nvm, physBlock, fineGrain, page, unmap, wear, bitmap, swap, th,
                 content, mishaps, ops, moves>>

\* The page pool merges a block when it has all its pages back, and splits it
\* before it hands out the first: nobody is at a page then.  Freed pages are
\* not trimmed, so a page may still be busy.
PagesUnused ==
  /\ \A t \in Threads : At(t, "idle")
  /\ Unlocked(blockLock)

NVMPagesMerge ==
  /\ fineGrain /\ PagesUnused /\ ops > 0 /\ moves < MaxMoves
  /\ fineGrain' = FALSE
  /\ content' = [p \in Pages |-> Trimmed]
  /\ blockLock' = blockLock + 2
  /\ moves' = moves + 1
  /\ UNCHANGED <<nvm, physBlock, page, unmap, wear, bitmap, swap, th, mover,
                 mishaps, ops>>

\* MapTableSplit, PageUnmapTableBatchFormat of the PHYSICAL block's group,
\* PageWearTableBatchFormat; the coldness bitmap is left as it was.
NVMBlockSplit ==
  /\ ~fineGrain /\ PagesUnused
  /\ fineGrain' = TRUE
  /\ relativeIndex' = Identity /\ pageLock' = [p \in Pages |-> 0]
  /\ busy' = [p \in Pages |-> FALSE]
  /\ unmap' = [unmap EXCEPT ![physBlock] = PageUnmapTableBatchFormat]
  /\ wear' = [wear EXCEPT ![physBlock] = PageWearTableBatchFormat]
  /\ blockLock' = blockLock + 2
  /\ mishaps' = IF unmap'[LogicBlock] = PageUnmapTableBatchFormat THEN mishaps
                ELSE mishaps \cup {"misformatted"}
  /\ UNCHANGED <<nvm, physBlock, bitmap, swap, th, mover, content, ops, moves>>

\* PageGroupGet for some other block throws the least recently used group out.
PageGroupEvicted(b) ==
  /\ bitmap[b] # NoGroup /\ moves < MaxMoves
  /\ bitmap' = [bitmap EXCEPT ![b] = NoGroup]
  /\ moves' = moves + 1
  /\ UNCHANGED <<nvm, physBlock, blockLock, fineGrain, page, unmap, wear, swap,
                 th, mover, content, mishaps, ops>>

ThreadNext(t) ==
  \/ \E p \in Pages :
       WearLevelerRead(t, p) \/ WearLevelerWrite(t, p) \/ WearLevelerTrim(t, p)
  \/ LockForWrite(t) \/ LockForTrim(t) \/ QueryForWrite(t) \/ NVMWrite(t)
  \/ LoadBlockEntry(t) \/ MapTablePageBusy(t)
  \/ MapTablePageTrim(t) \/ UnlockPage(t) \/ PageManagerIncreaseWearCount(t)
  \/ PageColdnessManagerSwapPrepare(t) \/ IncreaseThreshold(t)
  \/ LockOneBlock(t) \/ LockLower(t) \/ LockUpper(t)
  \/ LogPageSwapBegin(t) \/ SwapCopy(t) \/ LogPageSwapCommitStepx(t)
  \/ FinishSwap(t) \/ UnlockPageForSwap(t) \/ PageColdnessManagerSwapPut(t)
  \/ LockPageForRead(t) \/ ReadPageLock(t) \/ QueryForRead(t) \/ NVMRead(t)
  \/ UnlockPageForRead(t) \/ ReadReturns(t)

MoverNext ==
  \/ LockBlockForSwap \/ WaitForAllPagesUnlock \/ BlockSwapCopy
  \/ MapTableBlockSwap \/ UnlockBlockForSwap
  \/ NVMPagesMerge \/ NVMBlockSplit
  \/ \E b \in Blocks : PageGroupEvicted(b)

Undone == "undone" \in mishaps
Next == ~Undone /\ ((\E t \in Threads : ThreadNext(t)) \/ MoverNext)

Spec == Init /\ [][Next]_vars
----------------------------------------------------------------------------
\* Every table and index stays in its range, the slots of log and area too.
SwapPcs == {"lockpages", "lockupper", "begin", "copy", "commit", "tables", "release"}
ReadPcs == {"read", "readpage", "readquery", "load", "check", "returned"}
OwnPcs == {"query", "store", "mark", "markstore", "unlock", "untake", "trimmed"}
Pcs == SwapPcs \cup ReadPcs \cup OwnPcs \cup
       {"idle", "write", "trim", "wear", "prepare", "charge", "lockblock", "put",
        "fault"}
ThreadStates ==
  [pc : Pcs, page : Pages, phys : Blocks \X Pages, value : 0 .. MaxOps,
   new : Pages, v1 : Nat, v2 : Nat, word : Blocks \X Nat,
   seen : SUBSET (Trimmed .. MaxOps)]
SwapEntries ==
  [step : 1 .. 4, fast : BOOLEAN, pageA : Pages, pageB : Pages, logicA : Pages,
   logicB : Pages]
Mishaps == {"late", "overwritten", "undone", "lapped", "misformatted"}
TypeOK ==
  /\ nvm \in [Blocks \X Pages -> 0 .. MaxOps] /\ tmpArea \in 0 .. MaxOps
  /\ physBlock \in Blocks /\ blockLock \in Nat /\ fineGrain \in BOOLEAN
  /\ relativeIndex \in [Pages -> Pages] /\ pageLock \in [Pages -> Nat]
  /\ busy \in [Pages -> BOOLEAN]
  /\ unmap \in [Blocks -> [Entries -> [Slots -> Pages]]]
  /\ wear \in [Blocks -> [Pages -> 0 .. Wrap - 1]]
  /\ bitmap \in [Blocks -> {NoGroup} \cup SUBSET Pages]
  /\ logEntry \in {NoEntry} \cup SwapEntries
  /\ logIndex \in 0 .. MaxEntries - 1 /\ areaIndex \in 0 .. MaxEntries - 1
  /\ th \in [Threads -> ThreadStates]
  /\ mover \in [pc : {"idle", "wait", "copy", "map", "unlock"}, next : Pages]
  /\ content \in [Pages -> Trimmed .. MaxOps]
  /\ mishaps \subseteq Mishaps
  /\ ops \in 0 .. MaxOps /\ moves \in Nat

\* Where the data of a page is while nobody has the page locked: from the copy
\* of a block swap until the map follows, in the other block.
PlaceOf(p) == <<IF mover.pc = "map" THEN 1 - physBlock ELSE physBlock,
                relativeIndex[p]>>

\* The three ways a page write is known to be lost: it overtakes a block swap's
\* wait (WaitForAllPagesUnlock looks at each page once, MapTableLockPageForWrite
\* not at the block), a fast block swap takes the block for a free one, or the
\* store to the block's word in MapTablePageBusy takes back a lock or a remap.
Lost == "late" \in mishaps \/ "overwritten" \in mishaps \/ Undone

\* What was written to a page is what its mapping leads to, through page swaps
\* by several threads, block swaps, splits and merges (SwapPageFast,
\* SwapPageSlow), until a write is lost in one of the three ways.
PageDataKept ==
  ~Lost =>
    \A p \in Pages : fineGrain /\ content[p] # Trimmed /\ Unlocked(pageLock[p])
      => nvm[PlaceOf(p)] = content[p]

\* The unmap table is the inverse of the map, whoever swaps pages, as long as
\* every split formatted the group that is read (PageUnmapTableBatchFormat
\* takes the physical block's, PageUnmapTableGet the logical one's) and no store
\* to the block's word took a lock back.
UnmapInverse ==
  "misformatted" \notin mishaps /\ ~Undone /\ fineGrain =>
    \A p \in Pages : PageUnmapTableGet(relativeIndex[p]) = p

\* A read that returns gives a value the page had during the call
\* (MapTableUnlockPageForRead sends it back otherwise), until a write is lost or
\* a counter makes a full round during one read.
PageReadAtomic ==
  \A t \in Threads :
    At(t, "returned") /\ Trimmed \notin th[t].seen /\ ~Lost /\ "lapped" \notin mishaps
      => th[t].value \in th[t].seen

\* At every step of a page swap its log entry says where both pages are: a
\* recovery could finish or undo it (LogPageSwapBegin, LogPageSwapCommitStepx).
\* A write that is lost is lost before the swap begins.
Holds(place, p) == content[p] = Trimmed \/ nvm[place] = content[p]
TmpHolds(p) == content[p] = Trimmed \/ tmpArea = content[p]
SwapRecoverable ==
  logEntry # NoEntry /\ ~Lost =>
    LET a == logEntry.logicA  b == logEntry.logicB IN
    IF logEntry.fast
    THEN Holds(IF logEntry.step = 1 THEN PlaceA ELSE PlaceB, a)
    ELSE /\ logEntry.step = 1 => Holds(PlaceA, a) /\ Holds(PlaceB, b)
         /\ logEntry.step = 2 => Holds(PlaceA, a) /\ TmpHolds(b)
         /\ logEntry.step = 3 => Holds(PlaceB, a) /\ TmpHolds(b)
         /\ logEntry.step = 4 => Holds(PlaceB, a) /\ Holds(PlaceA, b)

----------------------------------------------------------------------------
(* The invariant that carries the properties above from step to step.      *)

\* Who is between a lock and its unlock: of the block, and of a page, which a
\* swap comes to through the unmap table.
LowerPage(t) == IF PageA(t) < PageB(t) THEN PageA(t) ELSE PageB(t)
UpperPage(t) == IF PageA(t) < PageB(t) THEN PageB(t) ELSE PageA(t)
HasLower(t) == th[t].pc \in SwapPcs \ {"lockpages"}
HasUpper(t) == th[t].pc \in SwapPcs \ {"lockpages", "lockupper"}
HasPage(t, p) ==
  \/ th[t].pc \in OwnPcs /\ p = th[t].page
  \/ HasLower(t) /\ p = PageUnmapTableGet(LowerPage(t))
  \/ HasUpper(t) /\ p = PageUnmapTableGet(UpperPage(t))

\* The block's counter is odd for one page swap or one block swap.
BlockLockExclusive ==
  /\ mover.pc # "idle" => ~Unlocked(blockLock)
  /\ \A t \in Threads : th[t].pc \in SwapPcs =>
       /\ ~Unlocked(blockLock) /\ mover.pc = "idle"
       /\ \A u \in Threads : th[u].pc \in SwapPcs => u = t

\* A page's counter is odd for one thread, and a split block is not merged
\* under anybody.
PageLockExclusive ==
  /\ \A t \in Threads : ~At(t, "idle") => fineGrain
  /\ \A t \in Threads, p \in Pages : HasPage(t, p) =>
       /\ ~Unlocked(pageLock[p])
       /\ \A u \in Threads : HasPage(u, p) => u = t

\* The map stays a permutation, and what a thread has locked stays where the
\* thread found it, also when the unmap entries of the block are wrong.
Placed(t) ==
  /\ At(t, "store") => th[t].phys[2] = relativeIndex[th[t].page]
  /\ th[t].pc \in SwapPcs \cup {"lockblock"} => PageA(t) # PageB(t)
  /\ HasLower(t) => relativeIndex[PageUnmapTableGet(LowerPage(t))] = LowerPage(t)
  /\ HasUpper(t) => relativeIndex[PageUnmapTableGet(UpperPage(t))] = UpperPage(t)
MapKept ==
  /\ \A p, q \in Pages : relativeIndex[p] = relativeIndex[q] => p = q
  /\ \A t \in Threads : Placed(t)

\* The log entry is that of the thread that swaps pages.
LoggedPcs == {"copy", "commit", "tables"}
LogOf(t) ==
  th[t].pc \in LoggedPcs =>
    /\ logEntry # NoEntry
    /\ logEntry.pageA = PageA(t) /\ logEntry.pageB = PageB(t)
    /\ logEntry.logicA = PageUnmapTableGet(PageA(t))
    /\ logEntry.logicB = PageUnmapTableGet(PageB(t))
    /\ logEntry.fast => content[logEntry.logicB] = Trimmed
    /\ IF At(t, "tables") THEN logEntry.step = LastStep
                           ELSE logEntry.step < LastStep
LogOwned ==
  /\ logEntry # NoEntry => \E t \in Threads : th[t].pc \in LoggedPcs
  /\ \A t \in Threads : LogOf(t)

\* The data of every page is at its place, save for the two pages of a swap,
\* which are where the log entry says, and after the copy also where the next
\* one will say.
AfterCopy ==
  LET a == logEntry.logicA  b == logEntry.logicB IN
  IF logEntry.fast THEN Holds(PlaceB, a)
  ELSE /\ logEntry.step = 1 => TmpHolds(b)
       /\ logEntry.step = 2 => Holds(PlaceB, a)
       /\ logEntry.step = 3 => Holds(PlaceA, b)
Swapped(p) == logEntry # NoEntry /\ p \in {logEntry.logicA, logEntry.logicB}
Marking(t, p) == th[t].pc \in {"mark", "markstore"} /\ th[t].page = p
DataKept ==
  /\ \A p \in Pages : ~fineGrain \/ ~busy[p] =>
       content[p] = Trimmed \/ \E t \in Threads : Marking(t, p)
  /\ ~Lost =>
       /\ \A p \in Pages : ~Swapped(p) => Holds(PlaceOf(p), p)
       /\ (\E t \in Threads : At(t, "commit")) => AfterCopy

\* What a reader has is true of its page while both counters are what it saw.
ReadUnchanged(t) ==
  th[t].v1 = blockLock /\ th[t].v2 = pageLock[th[t].page]
ReaderSafe(t) ==
  /\ th[t].pc \in ReadPcs => content[th[t].page] \in th[t].seen
  /\ th[t].pc \in ReadPcs \ {"read", "returned"} =>
       Unlocked(th[t].v1) /\ th[t].v1 <= blockLock
  /\ th[t].pc \in {"readquery", "load", "check"} =>
       Unlocked(th[t].v2) /\ th[t].v2 <= pageLock[th[t].page]
  /\ At(t, "load") /\ ReadUnchanged(t) =>
       th[t].phys = <<physBlock, relativeIndex[th[t].page]>>
  /\ (At(t, "check") /\ ReadUnchanged(t)) \/ At(t, "returned") =>
       \/ Trimmed \in th[t].seen \/ Lost \/ "lapped" \in mishaps
       \/ th[t].value \in th[t].seen
ReadersSafe == \A t \in Threads : ReaderSafe(t)

\* The locks of block and pages are exclusive, the map is a permutation that
\* holds still under a lock, the swap log tells where the data is and readers
\* notice every change, until a store to the block's word takes a lock or a remap
\* back: with the properties above, inductive.
Consistent ==
  /\ BlockLockExclusive
  /\ PageLockExclusive
  /\ MapKept
  /\ LogOwned
  /\ DataKept
  /\ ReadersSafe
  /\ UnmapInverse
  /\ SwapRecoverable
PageInv == TypeOK /\ (Undone \/ Consistent)

=============================================================================
