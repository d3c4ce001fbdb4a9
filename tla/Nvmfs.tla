-------------------------------- MODULE Nvmfs --------------------------------
(***************************************************************************)
(* The tree of directories and files: src/src/vfs/VfsInode.c over Inode.c, *)
(* DirInodeInfo.c, DirFileDentryCache.c and InodeTable.c, and the recovery *)
(* of FsConstructor.c with its CircularBuffer.c.                           *)
(*                                                                         *)
(* On NVM are the inode table (ino -> first log area) and the log of each  *)
(* inode: its reserved data (ino, parent, type) and, for a directory, the  *)
(* entries that add and remove dentries.  In memory are the free list of   *)
(* the inode table, the page pool and the inodes the VFS has loaded.  A    *)
(* call writes NVM in several steps and a crash may come between any two;  *)
(* recovery walks the tree from the root and takes what it does not meet   *)
(* as free.                                                                *)
(*                                                                         *)
(* A log entry is one step: Log.tla shows that its head makes it so.  What *)
(* the files hold is FileData.tla.  One call runs at a time.               *)
(*                                                                         *)
(* A directory whose log found no page is spoiled in memory (Log.c deducts *)
(* the entry all the same); the next entry that goes there goes astray,    *)
(* and the model stops.  Read again from NVM the directory is sound.       *)
(***************************************************************************)
EXTENDS Integers, FiniteSets, SequencesExt

CONSTANTS
  maxInodeNum,          \* entries of the inode table, the root's included
  Pages,                \* the pages of the pool
  Names,
  AreaEntries,          \* directory entries that fit a log area
  DEFAULT_SIZE,         \* CIRCULAR_BUFFER_DEFAULT_SIZE (64)
  MaxCalls, MaxCrashes  \* bounds

ASSUME NvmfsAssumption ==
  /\ maxInodeNum \in Nat /\ maxInodeNum > 1
  /\ AreaEntries \in Nat \ {0} /\ DEFAULT_SIZE \in Nat /\ DEFAULT_SIZE > 1
  /\ MaxCalls \in Nat /\ MaxCrashes \in Nat

VARIABLES
  inodeTable,   \* NVM: ino -> first area
  log,          \* NVM: first area -> the inode's log
  listTable, head, tail,   \* struct InodeTable: the list of free inos
  freePages,    \* PagePool
  info,         \* ino -> the inode loaded in memory
  call,         \* the VFS call underway
  rec,          \* recovery: its queue, and what it was told is in use
  acked,        \* ghost: the dentries of the calls that have returned
  mishaps, calls, crashes

nvm == <<inodeTable, log>>
list == <<listTable, head, tail>>
ghost == <<acked, mishaps, calls, crashes>>
vars == <<nvm, list, freePages, info, call, rec, ghost>>
----------------------------------------------------------------------------
Inos == 0 .. maxInodeNum - 1
Root == 0
NULL == -1
NoAddr == -1                              \* all bits set, as memset(-1) leaves
Types == {"file", "dir"}

\* struct InodeTableEntry is a union of the list's next and the inode's address.
NextFree(i) == <<"next", i>>
Inode(a) == <<"inode", a>>

NoLog == [type |-> "none"]
NotLoaded == [first |-> NoAddr]
Idle == [pc |-> "idle"]
Dentry(ino, name, type) == [ino |-> ino, name |-> name, type |-> type]
AddEntry(d) == [op |-> "add", dentry |-> d]
RemoveEntry(i) == [op |-> "remove", ino |-> i]
----------------------------------------------------------------------------
(* DirFileDentryCache.c                                                    *)

DirFileDentryCacheJustAppendDentry(cache, d) == cache \cup {d}

\* Mutant: the dentry stays in the cache.
DentryStays(cache, ino) == cache

DirFileDentryCacheRemoveDentry(cache, ino) == {d \in cache : d.ino # ino}

DirFileDentryCacheAppendDentryCheck(cache, d) ==
  \A e \in cache : e.ino # d.ino /\ e.name # d.name

\* DirInodeInfoLookupDentryByName: the ino, or none for -ENOENT.  The VFS
\* itself answers for "." and "..".
DirInodeInfoLookupDentryByName(cache, name) ==
  {d.ino : d \in {e \in cache : e.name = name}}

\* DirFileDentryCacheIterate: the dentries from an index on, in the order of
\* the hash table, here of the inos.
DirFileDentryCacheIterate(cache, index) ==
  LET order == SetToSortSeq(cache, LAMBDA d, e : d.ino < e.ino)
  IN IF index >= Cardinality(cache) THEN << >>
     ELSE SubSeq(order, index + 1, Len(order))

\* DirInodeInfoRebuild: the cache the log's entries lead to.
DirInodeInfoRebuild(entries) ==
  LET Replay(cache, e) ==
        IF e.op = "add" THEN cache \cup {e.dentry}
        ELSE {d \in cache : d.ino # e.ino}
  IN FoldLeft(Replay, {}, entries)

\* Mutant: the entries that remove a dentry have no handler.
RecoveryIgnoresRemove(entries) ==
  {entries[n].dentry.ino : n \in {m \in 1 .. Len(entries) : entries[m].op = "add"}}

\* DirInodeInfoRecovery: the recovery cache, a tree of inos.
DirInodeInfoRecovery(entries) ==
  LET Replay(inos, e) ==
        IF e.op = "add" THEN inos \cup {e.dentry.ino} ELSE inos \ {e.ino}
  IN FoldLeft(Replay, {}, entries)
----------------------------------------------------------------------------
(* CircularBuffer.c                                                        *)

CircularBufferInit ==
  [buffer |-> [n \in 0 .. DEFAULT_SIZE - 1 |-> 0], head |-> 0, tail |-> 0,
   size |-> DEFAULT_SIZE, overrun |-> FALSE]

\* Growth copies right only while the oldest element is in slot 0; otherwise
\* the sizes of both copies are wrong and they run over the new buffer.
Grown(cb) ==
  [cb EXCEPT !.size = 2 * @, !.overrun = @ \/ cb.tail # 0,
             !.buffer = [n \in 0 .. 2 * cb.size - 1 |->
                           IF n < cb.size - 1 THEN cb.buffer[n] ELSE 0]]

CircularBufferAdd(cb, ino) ==
  LET roomy == IF (cb.head + 1) % cb.size = cb.tail THEN Grown(cb) ELSE cb
  IN [roomy EXCEPT !.buffer[cb.head] = ino, !.head = (@ + 1) % roomy.size]

CircularBufferDelete(cb) == [cb EXCEPT !.tail = (@ + 1) % cb.size]

CircularBufferIsEmpty(cb) == cb.head = cb.tail

\* DirFileDentryRecoveryCacheUninit: all inos of the tree, in order.
DirFileDentryRecoveryCacheUninit(cb, inos) ==
  FoldLeft(CircularBufferAdd, cb, SetToSortSeq(inos, <))
----------------------------------------------------------------------------
(* InodeTable.c                                                            *)

TableOf(entries, h, t) == [entries |-> entries, head |-> h, tail |-> t]
Table == TableOf(listTable, head, tail)
SetTable(tb) == listTable' = tb.entries /\ head' = tb.head /\ tail' = tb.tail

InodeTableFormat ==
  TableOf([i \in Inos |-> NextFree(IF i = maxInodeNum - 1 THEN NULL ELSE i + 1)],
          1, maxInodeNum - 1)

InodeTableGetIno(tb) ==
  IF tb.head = tb.tail THEN [tb EXCEPT !.head = NULL, !.tail = NULL]
  ELSE [tb EXCEPT !.head = tb.entries[tb.head][2]]

\* Mutant: the tail is not moved to the ino appended.
AppendKeepsTail(tb, ino) ==
  IF tb.head = NULL THEN [tb EXCEPT !.head = ino, !.tail = ino]
  ELSE [tb EXCEPT !.entries[tb.tail] = NextFree(ino)]

AppendToList(tb, ino) ==
  IF tb.head = NULL THEN [tb EXCEPT !.head = ino, !.tail = ino]
  ELSE [tb EXCEPT !.entries[tb.tail] = NextFree(ino), !.tail = ino]

InodeTablePutIno(tb, ino) == IF ino # Root THEN AppendToList(tb, ino) ELSE tb

\* Mutant: the address is set in memory only.
UpdateInMemory(ino, first) ==
  /\ listTable' = [listTable EXCEPT ![ino] = Inode(first)]
  /\ UNCHANGED inodeTable

InodeTableUpdateInodeAddr(ino, first) ==
  /\ listTable' = [listTable EXCEPT ![ino] = Inode(first)]
  /\ inodeTable' = [inodeTable EXCEPT ![ino] = first]

InodeTableRecoveryPreinit == TableOf([i \in Inos |-> Inode(NoAddr)], NULL, NULL)

\* Mutant: every ino is told for the first time.
NeverNotified(ino) == FALSE

\* InodeTableRecoveryNotifyInodeInuse's *hasNotified.
HasNotified(ino) == listTable[ino] # Inode(NoAddr)

\* The inos nobody told about, in order.
InodeTableRecoveryEnd(tb) ==
  FoldLeft(AppendToList, tb,
           SetToSortSeq({i \in Inos \ {Root} : tb.entries[i] = Inode(NoAddr)}, <))
----------------------------------------------------------------------------
(* Logs and pages, from Log.c and PagePool.c                               *)

\* struct BaseInodeInfo as BaseInodeInfoFormat and InodeFormatImpl fill it in.
BaseInodeInfoFormat(ino, parent, type) ==
  [thisIno |-> ino, parentIno |-> parent, type |-> type]

\* DirInodeInfoFormat and FileInodeInfoFormat: LogFormat, LogWriteReserveData.
NewLog(base, first) ==
  [thisIno |-> base.thisIno, parentIno |-> base.parentIno, type |-> base.type,
   entries |-> <<>>, areas |-> {first}]

\* A directory in memory: its first area, its cache, and whether restSize is
\* still what its areas have left.
Directory(first, cache) == [first |-> first, cache |-> cache, spoiled |-> FALSE]

\* Whether the next entry needs another area, and the log with the entry.
AreaFull(lg) == Len(lg.entries) = AreaEntries * Cardinality(lg.areas)

\* Mutant: the entry for which an area is added is lost.
LogWriteLosesAtEnd(first, entry) ==
  IF AreaFull(log[first])
  THEN \E area \in freePages :
         /\ freePages' = freePages \ {area}
         /\ log' = [log EXCEPT ![first].areas = @ \cup {area}]
  ELSE /\ log' = [log EXCEPT ![first].entries = Append(@, entry)]
       /\ UNCHANGED freePages

LogWrite(first, entry) ==
  IF AreaFull(log[first])
  THEN \E area \in freePages :
         /\ freePages' = freePages \ {area}
         /\ log' = [log EXCEPT ![first].entries = Append(@, entry),
                               ![first].areas = @ \cup {area}]
  ELSE /\ log' = [log EXCEPT ![first].entries = Append(@, entry)]
       /\ UNCHANGED freePages

\* No page for the entry.  restSize is lowered before the error is looked at:
\* it wraps (or, if but the foot had no room, is an entry short).
LogWriteFails(dir) ==
  /\ ~info[dir].spoiled /\ AreaFull(log[info[dir].first]) /\ freePages = {}
  /\ info' = [info EXCEPT ![dir].spoiled = TRUE]

\* An entry for a spoiled log finds room that is not there, and is written on
\* through the link of the last area, which nobody has written.
LogWriteAstray(dir) ==
  /\ info[dir].spoiled
  /\ call' = [pc |-> "corrupt"]
  /\ mishaps' = mishaps \cup {"astray"}

\* LogDestroy puts back every area.
LogDestroy(first) == log[first].areas
----------------------------------------------------------------------------
\* VfsRootInodeFormat: the log of the root, its own parent.
VfsRootInodeFormat(first) == NewLog(BaseInodeInfoFormat(Root, Root, "dir"), first)

Init ==   \* NvmfsFillSuperBlock, which formats at every mount
  \E first \in Pages :
    /\ inodeTable = [i \in Inos |-> IF i = Root THEN first ELSE NoAddr]
    /\ log = [p \in Pages |-> IF p = first THEN VfsRootInodeFormat(first)
                              ELSE NoLog]
    /\ listTable = [InodeTableFormat.entries EXCEPT ![Root] = Inode(first)]
    /\ head = InodeTableFormat.head /\ tail = InodeTableFormat.tail
    /\ freePages = Pages \ {first}
    /\ info = [i \in Inos |-> IF i = Root THEN Directory(first, {})
                              ELSE NotLoaded]
    /\ call = Idle
    /\ rec = [pc |-> "mounted"]
    /\ acked = {} /\ mishaps = {} /\ calls = 0 /\ crashes = 0

IsLoaded(i) == info[i] # NotLoaded
IsDir(i) == IsLoaded(i) /\ log[info[i].first].type = "dir"

\* A new call; what follows an inode without a log, or an entry astray, is not
\* followed further.
CallStarts ==
  /\ rec.pc = "mounted" /\ call = Idle /\ calls < MaxCalls
  /\ "unformatted" \notin mishaps
  /\ calls' = calls + 1

\* VfsInodeCreateImpl up to InodeFormatImpl.  Its error is not looked at: with
\* no ino left thisIno is never set, with no page left it is free again, and
\* either way a dentry is made of it.
InodeFormat(dir, name, type) ==
  /\ CallStarts
  /\ IsDir(dir) /\ \A d \in info[dir].cache : d.name # name
  /\ \/ /\ head = NULL
        /\ \E i \in Inos : call' = [pc |-> "dentry", dir |-> dir, first |-> NoAddr,
                                    dentry |-> Dentry(i, name, type)]
        /\ mishaps' = mishaps \cup {"unformatted"}
        /\ UNCHANGED <<list, freePages, log>>
     \/ /\ head # NULL /\ freePages = {}
        /\ SetTable(InodeTablePutIno(InodeTableGetIno(Table), head))
        /\ call' = [pc |-> "dentry", dir |-> dir, first |-> NoAddr,
                    dentry |-> Dentry(head, name, type)]
        /\ mishaps' = mishaps \cup {"unformatted"}
        /\ UNCHANGED <<freePages, log>>
     \/ /\ head # NULL
        /\ SetTable(InodeTableGetIno(Table))
        /\ \E first \in freePages :
             /\ freePages' = freePages \ {first}
             /\ log' = [log EXCEPT ![first] =
                  NewLog(BaseInodeInfoFormat(head, dir, type), first)]
             /\ call' = [pc |-> "table", dir |-> dir, first |-> first,
                         dentry |-> Dentry(head, name, type)]
        /\ UNCHANGED mishaps
  /\ UNCHANGED <<inodeTable, info, rec, acked, crashes>>

InodeFormatEnds ==
  /\ call.pc = "table"
  /\ InodeTableUpdateInodeAddr(call.dentry.ino, call.first)
  /\ call' = [call EXCEPT !.pc = "dentry"]
  /\ UNCHANGED <<log, head, tail, freePages, info, rec, ghost>>

\* InodeDestroy of an inode with a log.
InodeDestroy(ino, first) ==
  /\ SetTable(InodeTablePutIno(Table, ino))
  /\ freePages' = freePages \cup LogDestroy(first)

CheckFails(dir) ==
  ~DirFileDentryCacheAppendDentryCheck(info[dir].cache, call.dentry)

DirInodeInfoAddDentry ==
  LET first == info[call.dir].first IN
  /\ call.pc = "dentry"
  /\ ~CheckFails(call.dir) /\ ~info[call.dir].spoiled
  /\ LogWrite(first, AddEntry(call.dentry))
  /\ call' = [call EXCEPT !.pc = "instantiate"]
  /\ UNCHANGED <<inodeTable, list, info, rec, ghost>>

\* The inode is destroyed again; one that has no log is destroyed with what
\* lies in its memory.
DirInodeInfoAddDentryFails ==
  /\ call.pc = "dentry"
  /\ \/ CheckFails(call.dir) /\ UNCHANGED info
     \/ ~CheckFails(call.dir) /\ LogWriteFails(call.dir)
  /\ IF call.first = NoAddr
     THEN call' = [pc |-> "corrupt"] /\ UNCHANGED <<list, freePages>>
     ELSE InodeDestroy(call.dentry.ino, call.first) /\ call' = Idle
  /\ UNCHANGED <<nvm, rec, ghost>>

DirInodeInfoAddDentryAstray ==
  /\ call.pc = "dentry"
  /\ ~CheckFails(call.dir) /\ LogWriteAstray(call.dir)
  /\ UNCHANGED <<nvm, list, freePages, info, rec, acked, calls, crashes>>

\* DirFileDentryCacheJustAppendDentry and d_instantiate: the call returns.
CreateReturns ==
  LET d == call.dentry IN
  /\ call.pc = "instantiate"
  /\ info' = [info EXCEPT
       ![call.dir].cache = DirFileDentryCacheJustAppendDentry(@, d),
       ![d.ino] = IF call.first = NoAddr THEN @
                  ELSE Directory(call.first, {})]
  /\ acked' = acked \cup {<<call.dir, d>>}
  /\ call' = Idle
  /\ UNCHANGED <<nvm, list, freePages, rec, mishaps, calls, crashes>>

\* VfsInodeUnlink and VfsInodeRmdir are one: nobody asks whether a directory
\* is empty.  DirInodeInfoRemoveDentry's log entry.
DirInodeInfoRemoveDentry(dir, d) ==
  /\ CallStarts
  /\ IsDir(dir) /\ d \in info[dir].cache /\ IsLoaded(d.ino)
  /\ ~info[dir].spoiled /\ LogWrite(info[dir].first, RemoveEntry(d.ino))
  /\ call' = [pc |-> "destroy", dir |-> dir, dentry |-> d]
  /\ UNCHANGED <<inodeTable, list, info, rec, acked, mishaps, crashes>>

DirInodeInfoRemoveDentryFails(dir, d) ==
  /\ CallStarts
  /\ IsDir(dir) /\ d \in info[dir].cache /\ IsLoaded(d.ino)
  /\ LogWriteFails(dir)
  /\ UNCHANGED <<nvm, list, freePages, call, rec, acked, mishaps, crashes>>

DirInodeInfoRemoveDentryAstray(dir, d) ==
  /\ CallStarts
  /\ IsDir(dir) /\ d \in info[dir].cache /\ IsLoaded(d.ino)
  /\ LogWriteAstray(dir)
  /\ UNCHANGED <<nvm, list, freePages, info, rec, acked, crashes>>

\* The inos below one, as the calls that returned have made them.
RECURSIVE Below(_, _)
Below(tree, inos) ==
  LET more == inos \cup {x[2].ino : x \in {y \in tree : y[1] \in inos}}
  IN IF more = inos THEN inos ELSE Below(tree, more)

\* The cache, InodeDestroy, and the dentries below leave the VFS with it.
RemoveReturns ==
  LET ino == call.dentry.ino
      gone == Below(acked, {ino}) IN
  /\ call.pc = "destroy"
  /\ InodeDestroy(ino, info[ino].first)
  /\ info' = [i \in Inos |->
       IF i \in gone THEN NotLoaded
       ELSE IF i = call.dir
       THEN [info[i] EXCEPT !.cache = DirFileDentryCacheRemoveDentry(@, ino)]
       ELSE info[i]]
  /\ acked' = {x \in acked : x[2].ino \notin gone}
  /\ mishaps' = IF gone = {ino} THEN mishaps ELSE mishaps \cup {"orphans"}
  /\ call' = Idle
  /\ UNCHANGED <<nvm, rec, calls, crashes>>

\* InodeRebuild: an inode from the log its table entry names.
InodeRebuild(ino) ==
  LET first == listTable[ino][2]
  IN Directory(first, DirInodeInfoRebuild(log[first].entries))

\* VfsInodeRebuild: the VFS inode gets the ino that the log says.
VfsInodeRebuild(ino) ==
  /\ listTable[ino] # Inode(NoAddr)
  /\ info' = [info EXCEPT ![log[listTable[ino][2]].thisIno] = InodeRebuild(ino)]

\* VfsInodeLookup of a name whose inode is not in memory.
VfsInodeLookup(dir, name) ==
  /\ rec.pc = "mounted" /\ call = Idle /\ "unformatted" \notin mishaps
  /\ IsDir(dir)
  /\ \E ino \in DirInodeInfoLookupDentryByName(info[dir].cache, name) :
       ~IsLoaded(ino) /\ VfsInodeRebuild(ino)
  /\ UNCHANGED <<nvm, list, freePages, call, rec, ghost>>

\* The VFS drops an inode whose last user is gone (generic_delete_inode); a
\* directory is used by the inodes below it.
Evict(i) ==
  /\ rec.pc = "mounted" /\ call = Idle
  /\ i # Root /\ IsLoaded(i) /\ \A d \in info[i].cache : ~IsLoaded(d.ino)
  /\ info' = [info EXCEPT ![i] = NotLoaded]
  /\ UNCHANGED <<nvm, list, freePages, call, rec, ghost>>
----------------------------------------------------------------------------
(* FsConstructor.c                                                         *)

\* The dentries a recovery finds now, from the root on.
DentriesOf(i) ==
  LET first == inodeTable[i] IN
  IF first = NoAddr \/ log[first] = NoLog THEN {}
  ELSE {<<i, d>> : d \in DirInodeInfoRebuild(log[first].entries)}
DurableInos == LET all == UNION {DentriesOf(i) : i \in Inos} IN Below(all, {Root})
DurableTree == UNION {DentriesOf(i) : i \in DurableInos}

\* Power is lost; FsConstructorBegin, and FsConstructorRun puts the root in the
\* queue.  What of the call underway is on NVM is there from now on.
Crash ==
  /\ "astray" \notin mishaps
  /\ crashes < MaxCrashes /\ crashes' = crashes + 1
  /\ SetTable(InodeTableRecoveryPreinit)
  /\ freePages' = {}
  /\ info' = [i \in Inos |-> NotLoaded]
  /\ call' = Idle
  /\ rec' = [pc |-> "run", queue |-> CircularBufferAdd(CircularBufferInit, Root),
             busy |-> {}, visits |-> 0]
  /\ acked' = DurableTree
  /\ mishaps' = mishaps \ {"orphans"}
  /\ UNCHANGED <<nvm, calls>>

\* InodeRecovery of a directory queues its inos; a file has none.
InodeRecovery(first, queue) ==
  IF log[first].type = "dir"
  THEN DirFileDentryRecoveryCacheUninit(queue, DirInodeInfoRecovery(log[first].entries))
  ELSE queue

\* One round of FsConstructorRun; the log's pages are told busy.  (The page pool
\* would fail at the first of them, see PagePool.tla; here it takes note.)
FsConstructorRun ==
  LET ino == rec.queue.buffer[rec.queue.tail]
      rest == CircularBufferDelete(rec.queue)
      first == inodeTable[ino] IN
  /\ rec.pc = "run" /\ ~CircularBufferIsEmpty(rec.queue) /\ ~rec.queue.overrun
  /\ IF HasNotified(ino)
     THEN rec' = [rec EXCEPT !.queue = rest] /\ UNCHANGED listTable
     ELSE /\ listTable' = [listTable EXCEPT ![ino] = Inode(first)]
          /\ rec' = [rec EXCEPT !.visits = @ + 1,
               !.busy = IF first = NoAddr THEN @ ELSE @ \cup log[first].areas,
               !.queue = IF first = NoAddr THEN rest
                         ELSE InodeRecovery(first, rest)]
  /\ UNCHANGED <<nvm, head, tail, freePages, info, call, ghost>>

\* FsConstructorEnd, and the root inode is loaded.
FsConstructorEnd ==
  /\ rec.pc = "run" /\ CircularBufferIsEmpty(rec.queue) /\ ~rec.queue.overrun
  /\ SetTable(InodeTableRecoveryEnd(Table))
  /\ freePages' = Pages \ rec.busy
  /\ info' = [info EXCEPT ![Root] = InodeRebuild(Root)]
  /\ rec' = [pc |-> "mounted"]
  /\ UNCHANGED <<nvm, call, ghost>>

Calls ==
  \E dir \in Inos :
    \/ \E name \in Names, type \in Types : InodeFormat(dir, name, type)
    \/ \E name \in Names : VfsInodeLookup(dir, name)
    \/ \E d \in IF IsLoaded(dir) THEN info[dir].cache ELSE {} :
         \/ DirInodeInfoRemoveDentry(dir, d)
         \/ DirInodeInfoRemoveDentryFails(dir, d)
         \/ DirInodeInfoRemoveDentryAstray(dir, d)
    \/ Evict(dir)

Next ==
  \/ Calls
  \/ InodeFormatEnds \/ DirInodeInfoAddDentry \/ DirInodeInfoAddDentryFails
  \/ DirInodeInfoAddDentryAstray \/ CreateReturns \/ RemoveReturns
  \/ Crash \/ FsConstructorRun \/ FsConstructorEnd

Spec == Init /\ [][Next]_vars
----------------------------------------------------------------------------
Mounted == rec.pc = "mounted" /\ call.pc # "corrupt"
\* No dentry was made of an inode without a log and no entry has gone astray.
Regular == mishaps \cap {"unformatted", "astray"} = {}

\* Tables, list ends and queue indices stay in their ranges; a log's first
\* area is its own.
TypeOK ==
  /\ \A i \in Inos : inodeTable[i] \in Pages \cup {NoAddr}
  /\ \A p \in Pages : log[p] # NoLog => p \in log[p].areas /\ log[p].areas \subseteq Pages
  /\ head \in Inos \cup {NULL} /\ tail \in Inos \cup {NULL}
  /\ \A i \in Inos : listTable[i][1] \in {"next", "inode"}
  /\ freePages \subseteq Pages
  /\ \A i \in Inos : info[i].first \in Pages \cup {NoAddr}
  /\ rec.pc = "run" => /\ rec.queue.head \in 0 .. rec.queue.size - 1
                       /\ rec.queue.tail \in 0 .. rec.queue.size - 1

\* Whenever the power goes, what a recovery finds on NVM is the tree of the
\* calls that have returned, with the one underway done or not done at all:
\* through reuse of inos and pages whose old table entries and logs stay on
\* NVM (InodeFormat writes the log and the table before the dentry,
\* VfsInodeRemoveImpl the dentry before it frees), and through calls that find
\* no page for their entry, up to the first entry written after one of those.
CrashConsistent ==
  Regular /\ rec.pc = "mounted" =>
    DurableTree \in {acked} \cup
      (IF call.pc = "instantiate" THEN {acked \cup {<<call.dir, call.dentry>>}}
       ELSE IF call.pc = "destroy"
       THEN {{x \in acked : x[2].ino \notin Below(acked, {call.dentry.ino})}}
       ELSE {})

\* The dentries a loaded directory answers from are those its log gives, so
\* that it comes back the same when it is evicted and looked up again, also
\* after calls whose entry found no page; until an entry goes astray.
CacheIsReplay ==
  Mounted /\ call.pc \notin {"instantiate", "destroy"} =>
    \A i \in Inos : IsLoaded(i) =>
      info[i].cache = DirInodeInfoRebuild(log[info[i].first].entries)

\* Reading a directory: NvmfsIterate goes on at the position of the open file
\* and NvmfsIterateFunc moves it past the dentry for which dir_emit found no
\* room, too.
Dot(i) == Dentry(i, ".", "dir")
DotDot(i) == Dentry(log[info[i].first].parentIno, "..", "dir")

\* Mutant: the position counts only one entry before the first dentry.
IterateFromOneLess(i, index) ==
  CASE index = 0 -> <<Dot(i), DotDot(i)>> \o DirFileDentryCacheIterate(info[i].cache, 0)
    [] index = 1 -> <<DotDot(i)>> \o DirFileDentryCacheIterate(info[i].cache, 0)
    [] OTHER -> DirFileDentryCacheIterate(info[i].cache, index - 1)

DirInodeInfoIterateDentry(i, index) ==
  CASE index = 0 -> <<Dot(i), DotDot(i)>> \o DirFileDentryCacheIterate(info[i].cache, 0)
    [] index = 1 -> <<DotDot(i)>> \o DirFileDentryCacheIterate(info[i].cache, 0)
    [] OTHER -> DirFileDentryCacheIterate(info[i].cache, index - 2)

NvmfsIterate(i, file, room) ==
  LET rest == DirInodeInfoIterateDentry(i, file.pos) IN
  IF Len(rest) <= room
  THEN [file EXCEPT !.pos = @ + Len(rest), !.listed = @ \o rest]
  ELSE [file EXCEPT !.pos = @ + room + 1,
                    !.listed = @ \o SubSeq(rest, 1, room),
                    !.lost = @ \cup {rest[room + 1]}]

\* Read to its end with a buffer of any size, a directory gives each of its
\* dentries once or loses it to a full buffer, one for each time the buffer
\* was full; with room for all it loses none.
Listing(i, room) ==
  LET rounds == 1 .. Cardinality(info[i].cache) + 2
  IN FoldSet(LAMBDA n, file : NvmfsIterate(i, file, room),
             [pos |-> 0, listed |-> << >>, lost |-> {}], rounds)
ReaddirLists ==
  Mounted =>
    \A i \in Inos : IsDir(i) =>
      LET all == {Dot(i), DotDot(i)} \cup info[i].cache IN
      \A room \in 1 .. Cardinality(all) :
        LET file == Listing(i, room) IN
        /\ IsInjective(file.listed)
        /\ ToSet(file.listed) \cup file.lost = all
        /\ ToSet(file.listed) \cap file.lost = {}
        /\ Cardinality(file.lost) = Cardinality(all) \div (room + 1)

\* The free list, walked from head to tail, has each ino once, none of them
\* with a dentry or taken by the call underway, and it never meets an entry
\* that holds an inode's address (the two share a union).
RECURSIVE Walk(_, _)
Walk(i, seen) ==
  IF i = tail THEN Append(seen, i)
  ELSE IF i \notin Inos \/ Len(seen) > maxInodeNum \/ listTable[i][1] # "next"
  THEN Append(seen, NULL)
  ELSE Walk(listTable[i][2], Append(seen, i))
FreeList == IF head = NULL THEN <<>> ELSE Walk(head, <<>>)
InUse == {x[2].ino : x \in acked} \cup {Root}
         \cup (IF call.pc \in {"table", "dentry", "instantiate"} THEN {call.dentry.ino} ELSE {})
FreeListSound ==
  Mounted /\ Regular =>
    /\ NULL \notin ToSet(FreeList) /\ IsInjective(FreeList)
    /\ ToSet(FreeList) \cap InUse = {}
    /\ "orphans" \notin mishaps => ToSet(FreeList) \cup InUse = Inos

\* Each page is free or belongs to one inode of the tree (or of the call
\* underway), and a call that fails for want of a page gives back those it
\* took.  None is ever handed out twice; only those below a directory removed
\* with its contents are lost, until the next recovery.
PagesOf(i) == log[listTable[i][2]].areas
SpaceAccounted ==
  Mounted /\ Regular =>
    LET owners == {i \in InUse : call.pc # "table" \/ i # call.dentry.ino}
        new == IF call.pc = "table" THEN {call.first} ELSE {}
        used == new \cup UNION {PagesOf(i) : i \in owners}
    IN /\ freePages \cap used = {}
       /\ \A i, j \in owners : i # j => PagesOf(i) \cap PagesOf(j) = {}
       /\ "orphans" \notin mishaps => freePages \cup used = Pages

\* Every dentry of the tree leads to an inode of its own, whose log says the
\* same ino, type and parent, after any reuse of the ino.
DentriesResolve ==
  Regular =>
    \A x, y \in acked :
      /\ x[2].ino = y[2].ino => x = y
      /\ x[2].ino # Root
      /\ inodeTable[x[2].ino] # NoAddr
      /\ LET lg == log[inodeTable[x[2].ino]] IN
           lg.thisIno = x[2].ino /\ lg.parentIno = x[1] /\ lg.type = x[2].type

\* The tree's invariant: tables and queue are sound and every dentry leads to
\* its inode (InodeTableUpdateInodeAddr comes before the dentry's log entry).
TreeInv == TypeOK /\ DentriesResolve

\* Recovery reads each inode once and so ends, also when a dentry leads back
\* to a directory above (an ino that was never set): FsConstructorRun asks
\* hasNotified before it goes on.
RecoveredOnce == rec.pc = "run" => rec.visits <= maxInodeNum
=============================================================================
