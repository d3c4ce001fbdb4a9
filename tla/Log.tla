-------------------------------- MODULE Log ---------------------------------
(***************************************************************************)
(* The log of one inode (src/src/fs/Log.c) in its chain of 4K areas        *)
(* (src/src/fs/ContinousSpace.c), with crashes.                            *)
(*                                                                         *)
(* NVM is modelled in 8-byte words, the unit the code aligns to: word 0 of *)
(* an area links to the next area, words 1 .. AREA_WORDS hold the log: the *)
(* reserved inode data, then head, data, head, data, ..., foot.  A head is *)
(* never zero, the foot is; an entry's head is written over the old foot   *)
(* last.  A page that was never written holds Junk; a freed page keeps its *)
(* old words.  Every NVM word written is a step, and a crash may come      *)
(* before each.                                                            *)
(*                                                                         *)
(* The callers hold the inode's lock, so one operation runs at a time.     *)
(* The page pool is the set free; it gives out any of its pages.  linked   *)
(* stands for the inode table entry and the dentry through which the log   *)
(* is found after a restart: set after the format, cleared before the      *)
(* destruction (src/src/vfs/VfsInode.c, src/src/fs/Inode.c).               *)
(***************************************************************************)
EXTENDS Integers, FiniteSets, SequencesExt

CONSTANTS
  Pages,         \* pages the pool may give to this log
  NoPage,        \* invalid_nvm_addr
  AREA_WORDS,    \* words of an area besides the link: 511 in the code
  RESERVE,       \* reserveSize, in words
  SIZE_RANGE,    \* 2^61 in the code: UINT64 byte counts, in words
  Types,         \* entry types
  Sizes,         \* data sizes of entries, in words
  INLINE_ARRAY,  \* more new areas than this need a kmalloc: 3 in the code
  RecoveryReserves, \* what LogRecovery may find in reserveSize (see Restart)
  MaxOps         \* bound: operations and crashes in one behaviour

ASSUME PageAssumption == NoPage \notin Pages /\ IsFiniteSet(Pages)
ASSUME AreaAssumption ==
  /\ AREA_WORDS \in Nat \ {0}
  /\ RESERVE \in 0 .. AREA_WORDS - 1
  /\ Sizes \subseteq Nat
  /\ SIZE_RANGE \in Nat /\ SIZE_RANGE > AREA_WORDS + 1
  /\ \A n \in Sizes : n + AREA_WORDS + 2 < SIZE_RANGE   \* a UINT32 in the code
  /\ INLINE_ARRAY \in Nat
  /\ RecoveryReserves \subseteq 0 .. AREA_WORDS
  /\ MaxOps \in Nat

Junk == <<"junk">>
Zero == <<"zero">>
Reserved == <<"reserved">>
HeadWord(e) == <<"head", e.type, Len(e.data)>>
DataWord(type, k) == <<"data", type, k>>
LinkWord(p) == <<"link", p>>
MakeEntry(type, n) ==
  [type |-> type, data |-> [k \in 1 .. n |-> DataWord(type, k)]]
Entries == {MakeEntry(type, n) : type \in Types, n \in Sizes}
NoEntry == [type |-> "none", data |-> << >>]
NoLog == [firstArea |-> NoPage, areaNum |-> 0, restSize |-> 0,
          writeStart |-> <<NoPage, 0>>]

VARIABLES
  nvm,       \* page -> its words
  linked,    \* first area of the log a restart finds, or NoPage
  free,      \* the page pool
  log,       \* struct Log with its struct ContinousSpace
  pc,        \* next step of the operation that runs
  entry,     \* the entry being written
  stepped,   \* it is written with LogStepWriteBegin/Continue/End
  areas,     \* AllocAreas: the pages still to be linked
  cur,       \* LinkAreas, ContinousSpaceDestroy: the area at hand
  head,      \* headAddr; footAddr and entryAddr follow from it
  pos,       \* words of data written
  acked,     \* entries whose write returned, or that a restart showed
  failed,    \* a write has returned an error since the log is in memory
  spoiled,   \* such a log has been written to
  ops        \* operations and crashes so far

vars == <<nvm, linked, free, log, pc, entry, stepped, areas, cur, head, pos,
          acked, failed, spoiled, ops>>
failures == <<failed, spoiled>>

-----------------------------------------------------------------------------
\* Addresses and the walk along the chain.

Wild == <<NoPage, 0>>    \* an address made from a word that is no link
Addresses == (Pages \X (1 .. AREA_WORDS)) \cup {Wild}

WordAt(m, a) == IF a = Wild THEN Junk ELSE m[a[1]][a[2]]
Put(m, a, w) == [m EXCEPT ![a[1]][a[2]] = w]

RestSizeOfCurrentArea(a) == AREA_WORDS + 1 - a[2]

NextArea(m, p) == IF p # NoPage /\ m[p][0] \in {LinkWord(q) : q \in Pages}
                  THEN m[p][0][2] ELSE NoPage

\* ContinousSpaceCalculateNextAddr: n words on; at the end of an area the
\* link is followed at once.
NextWord(m) ==
  [a \in Addresses |->
     CASE a = Wild -> Wild
       [] a # Wild /\ a[2] < AREA_WORDS -> <<a[1], a[2] + 1>>
       [] OTHER -> LET q == NextArea(m, a[1])
                   IN IF q = NoPage THEN Wild ELSE <<q, 1>>]
Advancing(m, a, n) ==
  LET addr[i \in 0 .. n] == IF i = 0 THEN a ELSE NextWord(m)[addr[i - 1]]
  IN addr
CalculateNextAddr(m, a, n) == Advancing(m, a, n)[n]

\* LogForEachEntryImpl: from head to head until a word that is none (in the
\* code the zero of a foot), which is then repeated.
IsHead(m, a) == WordAt(m, a)[1] = "head"
NextHead(m) ==
  [a \in Addresses |->
     IF IsHead(m, a) THEN CalculateNextAddr(m, a, WordAt(m, a)[3] + 1) ELSE a]

\* Each round passes one word at least: as many rounds as there are words do.
MaxVisits == Cardinality(Pages) * AREA_WORDS
Visiting(m, first, reserve) ==
  LET addr[i \in 0 .. MaxVisits] ==
        IF i = 0 THEN CalculateNextAddr(m, <<first, 1>>, reserve)
        ELSE NextHead(m)[addr[i - 1]]
  IN addr
LastReadAddr(m, first, reserve) == Visiting(m, first, reserve)[MaxVisits]

\* What the call-backs are shown: an entry for each head visited.
EntryAt(m) ==
  [a \in Addresses |->
     [type |-> WordAt(m, a)[2],
      data |-> [k \in 1 .. WordAt(m, a)[3] |->
                  WordAt(m, CalculateNextAddr(m, a, k))]]]
LogForEachEntry(m, first, reserve) ==
  LET addr == Visiting(m, first, reserve)
      heads == {i \in 0 .. MaxVisits : IsHead(m, addr[i])}
  IN [i \in 1 .. Cardinality(heads) |-> EntryAt(m)[addr[i - 1]]]
EndsAtFoot(m, first, reserve) ==
  WordAt(m, LastReadAddr(m, first, reserve)) = Zero

\* The areas from the first to the one of address a.
Following(m, first, a) ==
  LET area[i \in 0 .. Cardinality(Pages)] ==
        IF i = 0 THEN first
        ELSE IF area[i - 1] = a[1] THEN a[1] ELSE NextArea(m, area[i - 1])
  IN area
AreasUpTo(m, first, a) == Range(Following(m, first, a))

\* Mutant: the area where the loop ends is not marked.
RecoveryAllButLast(m, first, last) == AreasUpTo(m, first, last) \ {last[1]}

\* The pages ContinousSpaceRecovery marks busy.
ContinousSpaceRecovery(m, first, last) == AreasUpTo(m, first, last)

\* LogRebuildBegin, LogRebuild, LogRebuildEnd.
Rebuilt(m, first) ==
  LET last == LastReadAddr(m, first, RESERVE)
  IN [firstArea |-> first,
      areaNum |-> Cardinality(AreasUpTo(m, first, last)),
      restSize |-> RestSizeOfCurrentArea(last),
      writeStart |-> last]

-----------------------------------------------------------------------------
Init ==
  /\ nvm = [p \in Pages |-> [i \in 0 .. AREA_WORDS |-> Junk]]
  /\ linked = NoPage
  /\ free = Pages
  /\ log = NoLog
  /\ pc = "none"
  /\ entry = NoEntry
  /\ stepped = FALSE
  /\ areas = << >>
  /\ cur = NoPage
  /\ head = Wild
  /\ pos = 0
  /\ acked = << >>
  /\ failed = FALSE
  /\ spoiled = FALSE
  /\ ops = 0

Begin(label) == pc = label /\ ops < MaxOps /\ ops' = ops + 1

\* UINT64 arithmetic on restSize.
Less(rest, n) == (rest - n) % SIZE_RANGE

-----------------------------------------------------------------------------
\* LogFormat with the inode format around it.

\* One area, of which all but the link is to be used.
ContinousSpaceFormat(p) ==
  [firstArea |-> p, areaNum |-> 1, restSize |-> AREA_WORDS]

LogFormat(p) ==
  LET cs == ContinousSpaceFormat(p) IN
  /\ Begin("none")
  /\ p \in free
  /\ free' = free \ {p}
  /\ log' = [firstArea |-> p, areaNum |-> cs.areaNum,
             restSize |-> Less(cs.restSize, RESERVE),
             writeStart |-> CalculateNextAddr(nvm, <<p, 1>>, RESERVE)]
  /\ pc' = "format"
  /\ failed' = FALSE
  /\ UNCHANGED <<nvm, linked, entry, stepped, areas, cur, head, pos, acked,
                 spoiled>>

FormatFoot ==
  /\ pc = "format"
  /\ nvm' = Put(nvm, log.writeStart, Zero)
  /\ pc' = "reserve"
  /\ UNCHANGED <<linked, free, log, entry, stepped, areas, cur, head, pos,
                 acked, failures, ops>>

\* Nothing finds the log yet, so the reserved words are one step.
LogWriteReserveData ==
  /\ pc = "reserve"
  /\ nvm' = [nvm EXCEPT ![log.firstArea] =
                [i \in 0 .. AREA_WORDS |-> IF i \in 1 .. RESERVE
                                           THEN Reserved ELSE @[i]]]
  /\ pc' = "publish"
  /\ UNCHANGED <<linked, free, log, entry, stepped, areas, cur, head, pos,
                 acked, failures, ops>>

\* InodeTableUpdateInodeAddr and the parent's dentry; when the dentry cannot
\* be added the inode is destroyed.
Publish ==
  /\ pc = "publish"
  /\ linked' = log.firstArea
  /\ acked' = << >>
  /\ pc' = "idle"
  /\ UNCHANGED <<nvm, free, log, entry, stepped, areas, cur, head, pos,
                 failures, ops>>

StartDestroy ==
  /\ linked' = NoPage
  /\ cur' = log.firstArea
  /\ pc' = "destroy"
  /\ UNCHANGED <<nvm, free, log, entry, stepped, areas, head, pos, acked,
                 failures>>

PublishFails == pc = "publish" /\ StartDestroy /\ UNCHANGED ops

-----------------------------------------------------------------------------
\* LogWrite, and LogStepWriteBegin/Continue/End.

\* Mutant: the foot is not counted.
PagesNeededNoFoot(e) ==
  LET need == Len(e.data) + 1
  IN IF log.restSize >= need THEN 0
     ELSE (need - log.restSize + AREA_WORDS - 1) \div AREA_WORDS

\* ContinousSpaceEssureEnoughSpace: pages to allocate for head, data and foot.
PagesNeeded(e) ==
  LET need == Len(e.data) + 2
  IN IF log.restSize >= need THEN 0
     ELSE (need - log.restSize + AREA_WORDS - 1) \div AREA_WORDS

\* AllocAreas succeeds: any pages of the pool, in any order.
EssureEnoughSpace(e, s) ==
  /\ Begin("idle")
  /\ PagesNeeded(e) <= Cardinality(free)
  /\ \E ps \in [1 .. PagesNeeded(e) -> free] :
       /\ IsInjective(ps)
       /\ areas' = ps
       /\ free' = free \ Range(ps)
  /\ entry' = e
  /\ stepped' = s
  /\ cur' = log.writeStart[1]
  /\ head' = log.writeStart
  /\ pos' = 0
  /\ pc' = "link"
  /\ spoiled' = (spoiled \/ failed)
  /\ UNCHANGED <<nvm, linked, log, acked, failed>>

\* AllocAreas fails, for want of pages (it gives back those it got) or of
\* memory; the space is still deducted.
NoSpace(e) ==
  /\ Begin("idle")
  /\ PagesNeeded(e) > Min({Cardinality(free), INLINE_ARRAY})
  /\ log' = [log EXCEPT !.restSize = Less(@, Len(e.data) + 1)]
  /\ failed' = TRUE
  /\ UNCHANGED <<nvm, linked, free, pc, entry, stepped, areas, cur, head, pos,
                 acked, spoiled>>

\* One iteration of LinkAreas, with its share of the counts.
LinkArea ==
  /\ pc = "link"
  /\ areas # << >>
  /\ nvm' = [nvm EXCEPT ![cur][0] = LinkWord(Head(areas))]
  /\ cur' = Head(areas)
  /\ areas' = Tail(areas)
  /\ log' = [log EXCEPT !.areaNum = @ + 1,
                         !.restSize = (@ + AREA_WORDS) % SIZE_RANGE]
  /\ UNCHANGED <<linked, free, pc, entry, stepped, head, pos, acked, failures,
                 ops>>

footAddr == CalculateNextAddr(nvm, head, Len(entry.data) + 1)
DataOr(label) == IF entry.data = << >> THEN label ELSE "data"

\* Mutant: the foot is deducted too, though the next head takes its place.
NotifyUsedSpaceWithFoot ==
  /\ pc = "link"
  /\ areas = << >>
  /\ log' = [log EXCEPT !.restSize = Less(@, Len(entry.data) + 2)]
  /\ pc' = IF stepped THEN "foot" ELSE DataOr("foot")
  /\ UNCHANGED <<nvm, linked, free, entry, stepped, areas, cur, head, pos,
                 acked, failures, ops>>

\* ContinousSpaceNotifyUsedSpace and the three addresses.
NotifyUsedSpace ==
  /\ pc = "link"
  /\ areas = << >>
  /\ log' = [log EXCEPT !.restSize = Less(@, Len(entry.data) + 1)]
  /\ pc' = CASE footAddr = Wild -> "wild"
             [] footAddr # Wild /\ stepped -> "foot"
             [] OTHER -> DataOr("foot")
  /\ UNCHANGED <<nvm, linked, free, entry, stepped, areas, cur, head, pos,
                 acked, failures, ops>>

\* ContinousSpaceWrite of the data, word by word.
WriteData ==
  /\ pc = "data"
  /\ nvm' = Put(nvm, CalculateNextAddr(nvm, head, pos + 1),
                entry.data[pos + 1])
  /\ pos' = pos + 1
  /\ pc' = IF pos + 1 < Len(entry.data) THEN "data"
           ELSE IF stepped THEN "head" ELSE "foot"
  /\ UNCHANGED <<linked, free, log, entry, stepped, areas, cur, head, acked,
                 failures, ops>>

\* Mutant: no foot, the page is taken to be zero.
WriteFootNone ==
  /\ pc = "foot"
  /\ log' = IF stepped THEN [log EXCEPT !.writeStart = footAddr] ELSE log
  /\ pc' = IF stepped THEN DataOr("head") ELSE "head"
  /\ UNCHANGED <<nvm, linked, free, entry, stepped, areas, cur, head, pos,
                 acked, failures, ops>>

\* The foot; LogStepWriteBegin already moves writeStart on.
WriteFoot ==
  /\ pc = "foot"
  /\ nvm' = Put(nvm, footAddr, Zero)
  /\ log' = IF stepped THEN [log EXCEPT !.writeStart = footAddr] ELSE log
  /\ pc' = IF stepped THEN DataOr("head") ELSE "head"
  /\ UNCHANGED <<linked, free, entry, stepped, areas, cur, head, pos, acked,
                 failures, ops>>

\* Mutant: LogStepWriteEnd is left out.
WriteHeadNone ==
  /\ pc = "head"
  /\ nvm' = IF stepped THEN nvm ELSE Put(nvm, head, HeadWord(entry))
  /\ pc' = "return"
  /\ UNCHANGED <<linked, free, log, entry, stepped, areas, cur, head, pos,
                 acked, failures, ops>>

WriteHead ==
  /\ pc = "head"
  /\ nvm' = Put(nvm, head, HeadWord(entry))
  /\ pc' = "return"
  /\ UNCHANGED <<linked, free, log, entry, stepped, areas, cur, head, pos,
                 acked, failures, ops>>

Return ==
  /\ pc = "return"
  /\ log' = [log EXCEPT !.writeStart = footAddr]
  /\ acked' = Append(acked, entry)
  /\ pc' = "idle"
  /\ UNCHANGED <<nvm, linked, free, entry, stepped, areas, cur, head, pos,
                 failures, ops>>

-----------------------------------------------------------------------------
\* LogDestroy: areaNum pages along the chain, after the dentry is gone.

LogDestroy == Begin("idle") /\ StartDestroy

FreeArea ==
  /\ pc = "destroy"
  /\ log.areaNum > 0
  /\ free' = free \cup {cur}
  /\ cur' = NextArea(nvm, cur)
  /\ log' = [log EXCEPT !.areaNum = @ - 1]
  /\ UNCHANGED <<nvm, linked, pc, entry, stepped, areas, head, pos, acked,
                 failures, ops>>

Destroyed ==
  /\ pc = "destroy"
  /\ log.areaNum = 0
  /\ log' = NoLog
  /\ pc' = "none"
  /\ UNCHANGED <<nvm, linked, free, entry, stepped, areas, cur, head, pos,
                 acked, failures, ops>>

-----------------------------------------------------------------------------
\* The inode leaves memory and is looked up again (LogUninit, LogRebuild).
Reload ==
  /\ Begin("idle")
  /\ log' = Rebuilt(nvm, linked)
  /\ pc' = IF EndsAtFoot(nvm, linked, RESERVE) THEN "idle" ELSE "wild"
  /\ failed' = FALSE
  /\ UNCHANGED <<nvm, linked, free, entry, stepped, areas, cur, head, pos,
                 acked, spoiled>>

\* A crash keeps nvm and linked only.
Crash ==
  /\ pc \notin {"down", "wild"}
  /\ ops < MaxOps
  /\ ops' = ops + 1
  /\ pc' = "down"
  /\ free' = {}
  /\ log' = NoLog
  /\ entry' = NoEntry
  /\ stepped' = FALSE
  /\ areas' = << >>
  /\ cur' = NoPage
  /\ head' = Wild
  /\ pos' = 0
  /\ UNCHANGED <<nvm, linked, acked, failures>>

\* LogRecovery walks the log and marks its areas up to the last entry busy, all
\* other pages are free; the log is rebuilt when its inode is looked up.  The
\* reserve size LogRecovery uses is never set: r is the value found there.
Restart(r) ==
  /\ pc = "down"
  /\ IF linked = NoPage
     THEN /\ free' = Pages
          /\ pc' = "none"
          /\ UNCHANGED <<log, acked>>
     ELSE /\ free' = Pages \ ContinousSpaceRecovery(nvm, linked,
                                                LastReadAddr(nvm, linked, r))
          /\ log' = Rebuilt(nvm, linked)
          /\ acked' = LogForEachEntry(nvm, linked, RESERVE)
          /\ pc' = IF EndsAtFoot(nvm, linked, r) THEN "idle" ELSE "wild"
  /\ failed' = FALSE
  /\ UNCHANGED <<nvm, linked, entry, stepped, areas, cur, head, pos, spoiled,
                 ops>>

-----------------------------------------------------------------------------
Write == NotifyUsedSpace \/ LinkArea \/ WriteData \/ WriteFoot \/ WriteHead
           \/ Return
Format == FormatFoot \/ LogWriteReserveData \/ Publish \/ PublishFails
Destroy == LogDestroy \/ FreeArea \/ Destroyed

Next ==
  \/ \E p \in Pages : LogFormat(p)
  \/ \E e \in Entries, s \in BOOLEAN : EssureEnoughSpace(e, s)
  \/ \E e \in Entries : NoSpace(e)
  \/ Format
  \/ Write
  \/ Destroy
  \/ Reload
  \/ Crash
  \/ \E r \in RecoveryReserves : Restart(r)

Spec == Init /\ [][Next]_vars

-----------------------------------------------------------------------------
\* Properties.

Words == {Junk, Zero, Reserved} \cup {HeadWord(e) : e \in Entries}
           \cup (UNION {Range(e.data) : e \in Entries})
           \cup {LinkWord(p) : p \in Pages}

\* Words, addresses and the UINT64 counts of struct Log stay in their ranges.
TypeOK ==
  /\ nvm \in [Pages -> [0 .. AREA_WORDS -> Words]]
  /\ linked \in Pages \cup {NoPage}
  /\ free \subseteq Pages
  /\ log \in [firstArea : Pages \cup {NoPage}, areaNum : Nat,
              restSize : 0 .. SIZE_RANGE - 1, writeStart : Addresses]
  /\ entry \in Entries \cup {NoEntry}
  /\ stepped \in BOOLEAN
  /\ areas \in Seq(Pages)
  /\ cur \in Pages \cup {NoPage}
  /\ head \in Addresses
  /\ pos \in Nat
  /\ acked \in Seq(Entries)
  /\ failed \in BOOLEAN /\ spoiled \in BOOLEAN
  /\ ops \in 0 .. MaxOps

\* What a walk over NVM finds now; a walk that does not end at a zero word
\* finds whatever the junk there is taken for.
committed == IF linked = NoPage THEN << >>
             ELSE LogForEachEntry(nvm, linked, RESERVE)
                    \o IF EndsAtFoot(nvm, linked, RESERVE)
                       THEN << >> ELSE <<Junk>>
Abstract == INSTANCE CommittedLog WITH live <- linked # NoPage,
                                       entries <- committed,
                                       void <- spoiled

\* Whatever step runs, fails or crashes, the entries found on NVM change only
\* by one whole entry that is appended (or by the creation and removal of the
\* log): no torn entry, no entry read from the old words of a reused page.
\* This is void once a log whose write failed is written to again.
OnlyWholeEntries == Abstract!Spec

\* An entry whose LogWrite or LogStepWriteEnd returned, or that a restart has
\* shown, stays in the log in its place; an idle log holds nothing else.
AckedSurvive ==
  linked # NoPage /\ ~spoiled =>
    /\ IsPrefix(acked, committed)
    /\ pc = "idle" => committed = acked

\* LogIsSame: between operations, the log in memory is the one LogRebuild
\* would make from NVM, as long as no write has failed.
SameAsRebuilt ==
  pc = "idle" /\ ~failed /\ ~spoiled => log = Rebuilt(nvm, linked)

\* Pages are neither leaked nor shared with the pool: between operations the
\* log owns exactly the areas of its chain, areaNum of them, and a destroyed
\* log owns none.  A write that fails gives back what it took.
AreasOwned ==
  ~spoiled =>
    /\ pc = "idle" =>
         LET chain == AreasUpTo(nvm, linked, log.writeStart)
         IN Pages \ free = chain /\ Cardinality(chain) = log.areaNum
    /\ pc = "none" => free = Pages

\* The log's invariant: words, addresses and counts stay in their ranges, and
\* no address is ever made from a word that is not a link (the walks of
\* ContinousSpace.c over the areas check nothing).
LogInv == ~spoiled => TypeOK /\ pc # "wild"

\* LogTest rebuildTest1: the rebuilt log equals the one in memory, always.
RebuildEqual == pc = "idle" => log = Rebuilt(nvm, linked)
=============================================================================
