------------------------------- MODULE FileData -------------------------------
(***************************************************************************)
(* A regular file: FileInodeInfo.c on FileDataManager.c on                 *)
(* FileExtentTree.c, as NvmfsFileRead, NvmfsFileWrite and NvmfsFileOpen of *)
(* VfsFile.c use it.                                                       *)
(*                                                                         *)
(* A file keeps spaces (4K pages, or runs of 2M blocks) and writes into    *)
(* them front to back, never in place: new data goes to curWriteStart, a   *)
(* log entry says which part of the file it is, and the extent tree in     *)
(* memory is changed last.  A write that needs more room than the current  *)
(* space has first takes all of it from the pools.  A crash loses the tree *)
(* and the pools; both come back from the log.                             *)
(*                                                                         *)
(* A word stands for a run of bytes that is written or cut as a whole; a   *)
(* page has PAGE words and a block BLOCK.  The log is what Log.tla shows   *)
(* it to be: a sequence of entries, appended atomically, that a crash      *)
(* keeps.  Its entries fill 4K areas and a full area takes a page from the *)
(* same pool, so an append can fail.                                       *)
(***************************************************************************)
EXTENDS ExtentTree

CONSTANTS
  PAGE, BLOCK,      \* words of a 4K page (SIZE_4K) and of a 2M block (SIZE_2M)
  PagePool,         \* page numbers the page pool has
  TotalBlockNum,    \* blocks of the logical space
  BlockPool,        \* the block pool: its tree of free blocks
  LogArea,          \* entries a log area holds
  Starts, Sizes,    \* where in the file, and how many words, a call writes
  FileLen,          \* bound: words a file may get
  MaxOps            \* bound: calls and crashes in one behaviour

\* The page pool's pages lie in blocks that it got from the block pool.
ASSUME FileAssumption ==
  /\ PAGE \in Nat \ {0} /\ BLOCK \in Nat /\ PAGE < BLOCK
  /\ LogArea \in Nat \ {0} /\ MaxOps \in Nat
  /\ PagePool \subseteq Nat /\ IsFiniteSet(PagePool)
  /\ TotalBlockNum \in Nat /\ Canonical(BlockPool)
  /\ BlockPool \subseteq [start : 0 .. TotalBlockNum, end : 0 .. TotalBlockNum]
  /\ \A p \in PagePool, x \in BlockPool :
       (p + 1) * PAGE <= x.start * BLOCK \/ x.end * BLOCK <= p * PAGE
  /\ Starts \subseteq Nat /\ Sizes \subseteq Nat \ {0} /\ FileLen \in Nat
  /\ \A s \in Starts, n \in Sizes : s + n <= FileLen

VARIABLES
  exists,      \* the inode is there: formatted and not destroyed
  nvm,         \* the words of all pages and blocks
  log,         \* the entries in the inode's log
  logPages,    \* pages the log has taken
  manager,     \* struct FileDataManager
  vfsInode,    \* struct inode of the VFS: what stat shows of the file
  freePages, freeBlocks,   \* the pools: a set of pages, a tree of blocks
  call,        \* the write underway: what is still to do, and for whom
  acked,       \* ghost: the file as the calls that returned left it
  unlogged,    \* ghost: an append to the log failed and nobody noticed
  spanned,     \* ghost: a store went over the end of a block
  ops

vars == <<exists, nvm, log, logPages, manager, vfsInode, freePages,
          freeBlocks, call, acked, unlogged, spanned, ops>>
----------------------------------------------------------------------------
Invalid == -1                            \* invalid_nvm_addr
Hole == 0                                \* what was never written reads as zero
PageAddr(p) == p * PAGE
BlockWords(x) == x.start * BLOCK .. x.end * BLOCK - 1
Words == (UNION {PageAddr(p) .. PageAddr(p) + PAGE - 1 : p \in PagePool})
         \cup UNION {BlockWords(x) : x \in BlockPool}
Offsets == 0 .. FileLen - 1
Least(a, b) == IF a <= b THEN a ELSE b
Most(a, b) == IF a >= b THEN a ELSE b
EmptyFile == [words |-> [o \in Offsets |-> Hole], len |-> 0]

\* struct FileSpaceNode and struct FileExtentNode.
Space(addr, n) == [start |-> addr, size |-> n]
FileExtent(addr, n, at) == [start |-> addr, size |-> n, fileStart |-> at]
SpaceWords(s) == s.start .. s.start + s.size - 1
FileEnd(x) == x.fileStart + x.size
FileWords(x) == x.fileStart .. FileEnd(x) - 1
Mapped(extents) == {o \in Offsets : \E x \in extents : o \in FileWords(x)}

\* struct InodeLogAddNewSpaceEntry, InodeLogWriteDataEntry and no entry.
SpaceEntry(s) == [type |-> "space", space |-> s]
DataEntry(x) == [type |-> "data", extent |-> x]
TruncateEntry == [type |-> "truncate"]
----------------------------------------------------------------------------
(* FileExtentTree.c.  Both trees are sets; the walks go by file offset.    *)

FileExtentTreeInit ==
  [extents |-> {}, spaces |-> {}, effectiveSize |-> 0, spaceSize |-> 0]

FileExtentTreeAddSpace(tree, s) ==
  [tree EXCEPT !.spaces = @ \cup {s}, !.spaceSize = @ + s.size]

\* LookupFileSpaceNode(tree, addr) # NULL, the ASSERT of InsertExtentNode.
InSpace(tree, addr) == \E s \in tree.spaces : addr \in SpaceWords(s)

Overlaps(x, from, to) == x.fileStart < to /\ FileEnd(x) > from

\* What ExtentTreeErase leaves of an extent before and behind the range.
FrontOf(x, from) ==
  IF x.fileStart < from
  THEN {FileExtent(x.start, from - x.fileStart, x.fileStart)} ELSE {}
BackOf(x, to) ==
  IF FileEnd(x) > to
  THEN {FileExtent(x.start + (to - x.fileStart), FileEnd(x) - to, to)} ELSE {}

DeleteExtentNodes(tree, hit) == tree.extents \ hit

\* A back part goes in through InsertExtentNode, which adds its size to
\* effectiveSize again; only the overlap is taken off.  The extents that are
\* hit lie apart, so what they hold together is a set of words.
ExtentTreeErase(tree, from, to) ==
  LET hit == {x \in tree.extents : Overlaps(x, from, to)}
      front == UNION {FrontOf(x, from) : x \in hit}
      back == UNION {BackOf(x, to) : x \in hit}
  IN [tree EXCEPT
        !.extents = DeleteExtentNodes(tree, hit) \cup front \cup back,
        !.effectiveSize =
           (@ + Cardinality({o \in Mapped(hit) : o >= to}))
             - Cardinality({o \in Mapped(hit) : from <= o /\ o < to})]

InsertExtentNode(tree, x) ==
  [tree EXCEPT !.extents = @ \cup {x}, !.effectiveSize = @ + x.size]

FileExtentTreeAddExtent(tree, x) ==
  InsertExtentNode(ExtentTreeErase(tree, x.fileStart, FileEnd(x)), x)

FileExtentTreeTruncate(tree) ==
  [tree EXCEPT !.extents = {}, !.effectiveSize = 0]

\* The two sizes are not compared.
FileExtentTreeIsSame(tree1, tree2) ==
  tree1.extents = tree2.extents /\ tree1.spaces = tree2.spaces

Zeroed(buffer, at, n) ==
  [i \in DOMAIN buffer |-> IF i \in at .. at + n - 1 THEN Hole ELSE buffer[i]]
NVMAccesserRead(mem, addr, n, buffer, at) ==
  [i \in DOMAIN buffer |->
     IF i \in at .. at + n - 1 THEN mem[addr + (i - at)] ELSE buffer[i]]

\* Mutant: the hole is zeroed after the extent is copied.
ReadStepZeroesLate(mem, start, end, st, x) ==
  LET from == Most(start, x.fileStart)
      to == Least(end, FileEnd(x))
      copied == NVMAccesserRead(mem, x.start + (from - x.fileStart), to - from,
                                st.buffer, from - start)
  IN [buffer |-> Zeroed(copied, from - start, from - st.lastRead),
      lastRead |-> to, extents |-> st.extents \ {x}]

\* One extent of the walk in FileExtentTreeRead: the hole before it is
\* zeroed, but from where the extent goes and not from where the hole starts;
\* then the extent is copied.
ReadStep(mem, start, end, st, x) ==
  LET from == Most(start, x.fileStart)
      to == Least(end, FileEnd(x))
      zeroed == Zeroed(st.buffer, from - start, from - st.lastRead)
  IN [buffer |-> NVMAccesserRead(mem, x.start + (from - x.fileStart), to - from,
                                 zeroed, from - start),
      lastRead |-> to, extents |-> st.extents \ {x}]

\* The walk goes by file offset; each extent has a word of the range at
\* least, so end - start passes do.
Lowest(extents) == CHOOSE x \in extents : \A y \in extents : x.fileStart <= y.fileStart
Walking(tree, mem, start, end, buffer) ==
  LET st[i \in 0 .. end - start] ==
        IF i = 0
        THEN [buffer |-> buffer, lastRead |-> start,
              extents |-> {x \in tree.extents : Overlaps(x, start, end)}]
        ELSE IF st[i - 1].extents = {} THEN st[i - 1]
        ELSE ReadStep(mem, start, end, st[i - 1], Lowest(st[i - 1].extents))
  IN st

FileExtentTreeRead(tree, mem, start, end, buffer) ==
  LET walk == Walking(tree, mem, start, end, buffer)[end - start]
  IN Zeroed(walk.buffer, walk.lastRead - start, end - walk.lastRead)
----------------------------------------------------------------------------
(* FileDataManager.c                                                       *)

FileDataManagerInit ==
  [tree |-> FileExtentTreeInit, curArea |-> Invalid, curWriteStart |-> Invalid,
   curSize |-> 0, lastUsedPage |-> Invalid, fileMaxLen |-> 0]

RestSizeOfCurrentArea(m) == m.curSize - (m.curWriteStart - m.curArea)

\* The part of AddNewSpace behind its LogWrite.
TakeSpace(m, s) ==
  [m EXCEPT !.tree = FileExtentTreeAddSpace(@, s), !.curArea = s.start,
            !.curWriteStart = s.start, !.curSize = s.size,
            !.lastUsedPage = IF s.size = PAGE THEN s.start ELSE @]

\* The part of WriteDataToArea behind its LogWrite, UpdateFileMaxLen too.
TakeExtent(m, x) ==
  [m EXCEPT !.tree = FileExtentTreeAddExtent(@, x),
            !.curWriteStart = x.start + x.size,
            !.fileMaxLen = Most(@, FileEnd(x))]

\* FileDataManagerTruncate: the spaces stay, and the place to write at.
TruncateManager(m) ==
  [m EXCEPT !.tree = FileExtentTreeTruncate(@), !.fileMaxLen = 0]

\* How much is read, and the buffer.
FileDataManagerReadData(m, mem, start, n, buffer) ==
  LET end == Least(start + n, m.fileMaxLen) IN
  IF start >= m.fileMaxLen THEN [size |-> 0, buffer |-> buffer]
  ELSE [size |-> end - start,
        buffer |-> FileExtentTreeRead(m.tree, mem, start, end, buffer)]

\* MergeFileInodeData, which comes first, is empty.
FileInodeInfoReadData(m, mem, start, n, buffer) ==
  FileDataManagerReadData(m, mem, start, n, buffer)

\* The offset of the open file moves by what was read.
NvmfsFileRead(m, mem, offset, n, buffer) ==
  LET r == FileInodeInfoReadData(m, mem, offset, n, buffer)
  IN [size |-> r.size, buffer |-> r.buffer, offset |-> offset + r.size]

\* Where a file is after a seek; an offset from the end counts backwards.
NvmfsLlseek(m, pos, offset, whence) ==
  CASE whence = "SEEK_SET" -> Least(offset, m.fileMaxLen)
    [] whence = "SEEK_CUR" -> Most(0, pos + offset)
    [] whence = "SEEK_END" -> Most(0, m.fileMaxLen - offset)

\* Mutant: the size of a file that is looked up is not set.
InodeInfoGetSizeZero(m) == 0

InodeInfoGetSize(m) == m.fileMaxLen
InodeInfoGetPageNum(m, pages) == m.tree.spaceSize \div PAGE + Cardinality(pages)

\* Mutant: the hint for the next page is not rebuilt.
RebuildAddSpaceNoHint(m, s) ==
  [m EXCEPT !.tree = FileExtentTreeAddSpace(@, s), !.curArea = s.start,
            !.curSize = s.size]

\* FileDataManagerRebuildAddSpace leaves curWriteStart where it was.
RebuildAddSpace(m, s) ==
  [TakeSpace(m, s) EXCEPT !.curWriteStart = m.curWriteStart]

RebuildAddExtent(m, x) ==
  [m EXCEPT !.tree = FileExtentTreeAddExtent(@, x),
            !.curWriteStart = x.start + x.size,
            !.fileMaxLen = Most(@, FileEnd(x))]

\* Mutant: a truncate entry is skipped.
RebuildSkipsTruncate(m) == m

RebuildTruncate(m) ==
  [m EXCEPT !.tree = FileExtentTreeTruncate(@), !.fileMaxLen = 0]

RebuildEntry(m, e) ==
  CASE e.type = "space" -> RebuildAddSpace(m, e.space)
    [] e.type = "data" -> RebuildAddExtent(m, e.extent)
    [] e.type = "truncate" -> RebuildTruncate(m)

\* Mutant: the write position is taken as the entries left it.
RebuildEndOmitted(m) == m

\* A crash between AddNewSpace and the first write into the space leaves
\* curWriteStart outside of it.
RebuildEnd(m) ==
  IF m.curWriteStart >= m.curArea /\ m.curWriteStart <= m.curArea + m.curSize
  THEN m ELSE [m EXCEPT !.curWriteStart = m.curArea]

FileDataManagerRebuildBegin == FileDataManagerInit

\* FileInodeInfoRebuild: the manager a log stands for.
Rebuilding(entries) ==
  LET m[i \in 0 .. Len(entries)] ==
        IF i = 0 THEN FileDataManagerRebuildBegin
        ELSE RebuildEntry(m[i - 1], entries[i])
  IN m
FileInodeInfoRebuild(entries) == RebuildEnd(Rebuilding(entries)[Len(entries)])

\* VfsInodeRebuild's part of the VFS inode.
VfsInodeOf(m, pages) ==
  [i_size |-> InodeInfoGetSize(m), i_blocks |-> InodeInfoGetPageNum(m, pages)]

FileDataManagerIsSame(m1, m2) ==
  /\ m1.curArea = m2.curArea /\ m1.curWriteStart = m2.curWriteStart
  /\ m1.curSize = m2.curSize /\ m1.lastUsedPage = m2.lastUsedPage
  /\ FileExtentTreeIsSame(m1.tree, m2.tree)
----------------------------------------------------------------------------
(* Where a call is: between two stores of WriteDataToArea ("write" before  *)
(* the data, "log" before the entry) or before an AddNewSpace ("space"),   *)
(* with the spaces it got, the next of them to add and what is left to     *)
(* write.                                                                  *)

Idle == [stage |-> "idle", spaces |-> << >>, next |-> 1, left |-> 0,
         start |-> 0, size |-> 0, value |-> Hole]
IsIdle == call.stage = "idle"
NextSpace == call.spaces[call.next]

\* What the next WriteDataToArea writes, and where in the file: first the rest
\* of the current area, then each space in turn, the last one in part.
PartSize == Least(RestSizeOfCurrentArea(manager), call.left)
PartStart == call.start + (call.size - call.left)
PartExtent == FileExtent(manager.curWriteStart, PartSize, PartStart)

\* A log append, and the page it takes when the last area is full: [ok] is
\* FALSE when there is none, and nothing was written then.
LogHasRoom == Len(log) < LogArea * Cardinality(logPages)
LogWrite(e) ==
  \/ /\ LogHasRoom
     /\ log' = Append(log, e)
     /\ UNCHANGED <<logPages, freePages>>
  \/ /\ ~LogHasRoom
     /\ \E p \in freePages : /\ freePages' = freePages \ {p}
                             /\ logPages' = logPages \cup {p}
     /\ log' = Append(log, e)
LogWriteFails == ~LogHasRoom /\ freePages = {}

Step == ops < MaxOps /\ ops' = ops + 1
----------------------------------------------------------------------------
Overlay(file, c, k) ==
  [words |-> [o \in Offsets |-> IF o \in c.start .. c.start + k - 1
                                THEN c.value ELSE file.words[o]],
   len |-> IF k = 0 THEN file.len ELSE Most(file.len, c.start + k)]

\* The word of the file at an offset, as a tree has it.
WordAt(tree, o) ==
  LET hit == {x \in tree.extents : o \in x.fileStart .. FileEnd(x) - 1}
  IN IF hit = {} THEN Hole
     ELSE LET x == CHOOSE x \in hit : TRUE IN nvm[x.start + (o - x.fileStart)]
FileOf(m) == [words |-> [o \in Offsets |-> WordAt(m.tree, o)],
              len |-> m.fileMaxLen]

Init ==
  /\ exists = FALSE
  /\ nvm = [w \in Words |-> Hole]
  /\ log = << >> /\ logPages = {}
  /\ manager = FileDataManagerInit
  /\ vfsInode = VfsInodeOf(FileDataManagerInit, {})
  /\ freePages = PagePool /\ freeBlocks = BlockPool
  /\ call = Idle
  /\ acked = EmptyFile
  /\ unlogged = FALSE /\ spanned = FALSE
  /\ ops = 0

\* LogFormat takes the first area; without a page there is no inode.
FileInodeInfoFormat ==
  /\ ~exists /\ Step
  /\ \E p \in freePages : logPages' = {p} /\ freePages' = freePages \ {p}
  /\ exists' = TRUE /\ log' = << >> /\ manager' = FileDataManagerInit
  /\ vfsInode' = [i_size |-> 0, i_blocks |-> InodeInfoGetPageNum(manager', logPages')]
  /\ acked' = EmptyFile
  /\ UNCHANGED <<nvm, freeBlocks, call, unlogged, spanned>>

\* The spaces that are runs of blocks.
BlockRuns(m) == {s \in m.tree.spaces : s.size # PAGE}

\* The spaces of one page go to the page pool, the others to the block pool,
\* whose tree does not depend on the order.
FileDataManagerDestroy(m) ==
  [pages |-> {p \in PagePool : Space(PageAddr(p), PAGE) \in m.tree.spaces},
   container |-> SetToSeq({Extent(s.start \div BLOCK, (s.start + s.size) \div BLOCK) :
                             s \in BlockRuns(m)})]

FileInodeInfoDestroy ==
  LET freed == FileDataManagerDestroy(manager) IN
  /\ exists /\ IsIdle /\ Step
  /\ exists' = FALSE
  /\ freePages' = freePages \cup logPages \cup freed.pages
  /\ freeBlocks' = ExtentTreeBatchPut(freeBlocks, freed.container)
  /\ logPages' = {} /\ log' = << >> /\ manager' = FileDataManagerInit
  /\ acked' = EmptyFile
  /\ UNCHANGED <<nvm, vfsInode, call, unlogged, spanned>>

\* The rest of the current area comes first, if there is any.
Begin(spaces, start, n) ==
  call' = [stage |-> IF RestSizeOfCurrentArea(manager) # 0 THEN "write" ELSE "space",
           spaces |-> spaces, next |-> 1, left |-> n,
           start |-> start, size |-> n, value |-> ops + 1]

WriteDataWithoutNewSpace(start, n) ==
  /\ n <= RestSizeOfCurrentArea(manager)
  /\ Begin(<< >>, start, n)
  /\ UNCHANGED <<freePages, freeBlocks>>

\* PagePoolAllocWithHint gives any free page here; the hint is PagePool.tla's.
WriteDataSmall(start, n) ==
  LET rest == RestSizeOfCurrentArea(manager) IN
  /\ n > rest /\ n - rest <= PAGE
  /\ \E p \in freePages : /\ freePages' = freePages \ {p}
                          /\ Begin(<<Space(PageAddr(p), PAGE)>>, start, n)
  /\ UNCHANGED freeBlocks

\* The blocks of a size, and the space that an extent of blocks is.
BlocksFor(n) == (n + (BLOCK - 1)) \div BLOCK
RunSpace(x) == Space(x.start * BLOCK, SizeOf(x) * BLOCK)

\* PrepareExtentSpace gets all the blocks or puts back what it got.
WriteDataLarge(start, n) ==
  LET rest == RestSizeOfCurrentArea(manager)
      blockNum == BlocksFor(n - rest)
      got == ExtentTreeGet(freeBlocks, blockNum)
  IN
  /\ n > rest /\ n - rest > PAGE
  /\ ContainerSize(got.container) >= blockNum
  /\ freeBlocks' = got.tree
  /\ Begin([i \in DOMAIN got.container |-> RunSpace(got.container[i])], start, n)
  /\ UNCHANGED freePages

\* NvmfsFileWrite up to its first store.  A write that gets -ENOSPC changes
\* nothing and is no step.
FileInodeInfoWriteData(start, n) ==
  /\ exists /\ IsIdle /\ Step
  /\ \/ WriteDataWithoutNewSpace(start, n)
     \/ WriteDataSmall(start, n)
     \/ WriteDataLarge(start, n)
  /\ UNCHANGED <<exists, nvm, log, logPages, manager, vfsInode, acked, unlogged,
                 spanned>>

\* NVMAccesserWrite hands the whole rest to WearLevelerWrite, which does not
\* cut it at the end of the block, and never moves the buffer: a store over
\* the end of a block runs into whatever block lies behind it physically, and
\* the next block gets the buffer's first words.
CrossesBlock(addr, n) == addr \div BLOCK # (addr + n - 1) \div BLOCK
NVMAccesserWrite(mem, addr, n, value) ==
  [w \in Words |-> IF w \in addr .. addr + n - 1 THEN value ELSE mem[w]]

\* WriteDataToArea, first the data.
WriteData ==
  /\ call.stage = "write"
  /\ nvm' = NVMAccesserWrite(nvm, manager.curWriteStart, PartSize, call.value)
  /\ spanned' = (spanned \/ CrossesBlock(manager.curWriteStart, PartSize))
  /\ call' = [call EXCEPT !.stage = "log"]
  /\ UNCHANGED <<exists, log, logPages, manager, vfsInode, freePages, freeBlocks,
                 acked, unlogged, ops>>

\* The write goes on with its next space; without one it returns, and
\* NvmfsFileWrite brings the VFS inode up to date.
Advance ==
  IF call.next > Len(call.spaces)
  THEN /\ call' = Idle
       /\ acked' = Overlay(acked, call, call.size)
       /\ vfsInode' = VfsInodeOf(manager', logPages')
  ELSE /\ call' = [call EXCEPT !.stage = "space", !.left = @ - PartSize]
       /\ UNCHANGED <<acked, vfsInode>>

\* WriteDataToArea, then its log entry and the tree.  A failed append goes
\* unnoticed: the tree has the extent and the log has not.
WriteDataLogged ==
  /\ call.stage = "log"
  /\ \/ LogWrite(DataEntry(PartExtent)) /\ UNCHANGED unlogged
     \/ /\ LogWriteFails
        /\ unlogged' = TRUE
        /\ UNCHANGED <<log, logPages, freePages>>
  /\ manager' = TakeExtent(manager, PartExtent)
  /\ Advance
  /\ UNCHANGED <<exists, nvm, freeBlocks, spanned, ops>>

\* AddNewSpace.  Its callers ignore that it failed and write on behind the
\* end of the old area; what that overwrites is not followed, the behaviour
\* ends here.
AddNewSpace ==
  /\ call.stage = "space"
  /\ \/ /\ LogWrite(SpaceEntry(NextSpace))
        /\ manager' = TakeSpace(manager, NextSpace)
        /\ call' = [call EXCEPT !.stage = "write", !.next = @ + 1]
        /\ UNCHANGED <<unlogged, ops>>
     \/ /\ LogWriteFails
        /\ unlogged' = TRUE /\ ops' = MaxOps /\ call' = Idle
        /\ UNCHANGED <<log, logPages, freePages, manager>>
  /\ UNCHANGED <<exists, nvm, vfsInode, acked, freeBlocks, spanned>>

\* The entry, then the tree; an append that gets -ENOSPC changes nothing.
InodeTruncate ==
  /\ LogWrite(TruncateEntry)
  /\ manager' = TruncateManager(manager)

\* NvmfsFileOpen with O_TRUNC.  The VFS sets i_size itself; nobody sets i_blocks.
NvmfsFileOpen ==
  /\ exists /\ IsIdle /\ Step
  /\ InodeTruncate
  /\ vfsInode' = [vfsInode EXCEPT !.i_size = 0]
  /\ acked' = EmptyFile
  /\ UNCHANGED <<exists, nvm, freeBlocks, call, unlogged, spanned>>

\* FileInodeInfoUninit, and InodeRebuild when the file is looked up again.
Reload ==
  /\ exists /\ IsIdle /\ Step
  /\ manager' = FileInodeInfoRebuild(log)
  /\ vfsInode' = VfsInodeOf(manager', logPages)
  /\ UNCHANGED <<exists, nvm, log, logPages, freePages, freeBlocks, call, acked,
                 unlogged, spanned>>

\* FileInodeInfoRecovery: busy are the log's pages and every space the log
\* names, a space of one page in the page pool and the others as blocks.
SpacesIn(entries) ==
  {e.space : e \in {f \in ToSet(entries) : f.type = "space"}}

\* The blocks of a space.
BlocksIn(s) ==
  IF s.size = PAGE THEN {}
  ELSE s.start \div BLOCK .. (s.start + s.size) \div BLOCK - 1

\* Mutant: the spaces of several blocks are told busy by their first block.
RecoveredBlocksFirstOnly(entries) ==
  {b \in Covered(BlockPool) :
     ~ \E s \in SpacesIn(entries) : s.size # PAGE /\ b = s.start \div BLOCK}

RecoveredBlocks(entries) ==
  {b \in Covered(BlockPool) : ~ \E s \in SpacesIn(entries) : b \in BlocksIn(s)}

\* Free blocks as the tree of their runs, which the recovery of the block pool
\* makes of them (BlockPool.tla).
RunsOf(blocks) ==
  {x \in [start : blocks, end : {b + 1 : b \in blocks}] :
     /\ x.start < x.end /\ x.start .. x.end - 1 \subseteq blocks
     /\ x.start - 1 \notin blocks /\ x.end \notin blocks}

\* PagePoolRecoveryNotifyPageBusy would go through nodes of its radix tree that
\* were never made (PagePool.tla); here the page pool does what it is told.
RecoveredPages(entries) ==
  {p \in PagePool \ logPages : Space(PageAddr(p), PAGE) \notin SpacesIn(entries)}

\* A crash at any point.  What the file is afterwards is what the log says.
Crash ==
  LET m == FileInodeInfoRebuild(log) IN
  /\ exists /\ Step
  /\ manager' = m
  /\ vfsInode' = VfsInodeOf(m, logPages)
  /\ freePages' = RecoveredPages(log)
  /\ freeBlocks' = RunsOf(RecoveredBlocks(log))
  /\ call' = Idle
  /\ acked' = FileOf(m)
  /\ UNCHANGED <<exists, nvm, log, logPages, unlogged, spanned>>

Next ==
  \/ FileInodeInfoFormat \/ FileInodeInfoDestroy
  \/ \E s \in Starts, n \in Sizes : FileInodeInfoWriteData(s, n)
  \/ WriteData \/ WriteDataLogged \/ AddNewSpace
  \/ NvmfsFileOpen \/ Reload \/ Crash

Spec == Init /\ [][Next]_vars
----------------------------------------------------------------------------
\* What stat tells.
VfsInodeGetattr == [size |-> vfsInode.i_size, blocks |-> vfsInode.i_blocks]

\* Every variable keeps its type; the block tree keeps its runs apart and
\* inside the pool (ExtentTreeBatchPut takes only the runs of blocks).
TypeOK ==
  /\ spanned \in BOOLEAN
  /\ exists \in BOOLEAN /\ unlogged \in BOOLEAN /\ ops \in 0 .. MaxOps
  /\ nvm \in [Words -> 0 .. MaxOps]
  /\ logPages \subseteq PagePool /\ freePages \subseteq PagePool
  /\ manager.curSize \in Nat /\ manager.tree.effectiveSize \in Int
  /\ Canonical(freeBlocks) /\ Covered(freeBlocks) \subseteq Covered(BlockPool)
  /\ acked.words \in [Offsets -> 0 .. MaxOps] /\ acked.len \in 0 .. FileLen
  /\ call.stage \in {"idle", "write", "log", "space"}
  /\ call.left \in 0 .. call.size /\ call.value \in 0 .. MaxOps

\* After a crash at any moment the file is what the calls that returned left,
\* with a leading part of the call underway and nothing else
\* (WriteDataToArea stores the data, then the entry, then the tree).
CrashLeavesPrefix ==
  exists /\ ~unlogged /\ ~spanned =>
    \E k \in 0 .. call.size :
      FileOf(FileInodeInfoRebuild(log)) = Overlay(acked, call, k)

\* Between calls the manager in memory is the one its log would rebuild
\* (FileInodeTest.c, rebuildTest: FileInodeIsInfoSame(&info, &rebuildInfo)).
RebuildSame ==
  exists /\ IsIdle /\ ~unlogged =>
    FileDataManagerIsSame(manager, FileInodeInfoRebuild(log))

\* Words of the file's spaces, of the pools, of the log and of spaces got and
\* not yet added: no word has two owners, and none is lost, after a crash
\* neither.
PendingSpaces == {call.spaces[i] : i \in call.next .. Len(call.spaces)}
PageWords(p) == SpaceWords(Space(PageAddr(p), PAGE))
Holdings ==
  {[owner |-> "file", words |-> SpaceWords(s)] : s \in manager.tree.spaces}
  \cup {[owner |-> "call", words |-> SpaceWords(s)] : s \in PendingSpaces}
  \cup {[owner |-> "log", words |-> PageWords(p)] : p \in logPages}
  \cup {[owner |-> "pages", words |-> PageWords(p)] : p \in freePages}
  \cup {[owner |-> "blocks", words |-> BlockWords(x)] : x \in freeBlocks}
SpacePartitioned ==
  /\ \A g, h \in Holdings : g # h => g.words \cap h.words = {}
  /\ ~unlogged => UNION {h.words : h \in Holdings} = Words

\* No two extents share a word of the file or of the NVM, and every extent
\* lies within one space, behind no word that is still to be written.
ExtentsApart ==
  LET tree == manager.tree IN
  /\ \A x \in tree.extents :
       \E s \in tree.spaces : x.start .. x.start + x.size - 1 \subseteq SpaceWords(s)
  /\ \A x, y \in tree.extents : x # y =>
       /\ ~Overlaps(x, y.fileStart, FileEnd(y))
       /\ x.start + x.size <= y.start \/ y.start + y.size <= x.start

\* effectiveSize never falls below what the extents hold (it may be larger,
\* the back part of a cut extent is counted twice).
EffectiveNeverShort ==
  manager.tree.effectiveSize >= Cardinality(Mapped(manager.tree.extents))

\* The file's invariant: its extents lie apart inside its spaces, and its
\* counts cover them, through every write, erasure, rebuild and crash
\* (FileExtentTree.c and the place to write at of FileDataManager.c).
FileInv == TypeOK /\ ExtentsApart /\ EffectiveNeverShort

\* Between calls stat tells the length the calls have left, after a rebuild or
\* a crash too (NvmfsFileWrite, VfsInodeRebuild), and never more blocks than
\* the file has (after O_TRUNC it may tell fewer).
StatTrue ==
  exists /\ IsIdle /\ ~unlogged =>
    /\ VfsInodeGetattr.size = acked.len
    /\ VfsInodeGetattr.blocks <= InodeInfoGetPageNum(manager, logPages)

\* A read at any place a seek leads to gives every word that was written and
\* lies in the range, whatever the buffer held, and moves the offset no
\* further than the end (FileExtentTreeRead copies an extent after zeroing).
Garbage == MaxOps + 1
Buffer == [i \in 0 .. 2 * FileLen |-> Garbage]
Seeks == {"SEEK_SET", "SEEK_CUR", "SEEK_END"}
Places == {NvmfsLlseek(manager, 0, s, whence) : s \in Starts, whence \in Seeks}
ReadsWritten ==
  exists /\ IsIdle /\ ~unlogged /\ ~spanned =>
    \A pos \in Places, n \in Sizes :
      LET r == NvmfsFileRead(manager, nvm, pos, n, Buffer) IN
      /\ r.size = Most(0, Least(pos + n, acked.len) - pos)
      /\ r.offset <= Most(pos, acked.len)
      /\ \A i \in 0 .. r.size - 1 :
           acked.words[pos + i] # Hole => r.buffer[i] = acked.words[pos + i]

\* A hole inside the file reads as zeros
\* (FileInodeTest.c, readTest3: ExpectBufferIs(buffer, 512, 1024, 0)).
HolesReadZero ==
  exists /\ IsIdle /\ ~unlogged /\ ~spanned =>
    \A pos \in Places, n \in Sizes :
      LET r == NvmfsFileRead(manager, nvm, pos, n, Buffer) IN
      \A i \in 0 .. r.size - 1 :
        acked.words[pos + i] = Hole => r.buffer[i] = Hole
=============================================================================
