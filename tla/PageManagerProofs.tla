-------------------------- MODULE PageManagerProofs --------------------------
(***************************************************************************)
(* TLAPS proofs about PageManager, for every number of threads, pages and  *)
(* page swaps: PageInv is inductive, and the properties of PageManager.tla *)
(* follow from it.                                                         *)
(***************************************************************************)
EXTENDS PageManager, WellFoundedInduction, TLAPS

\* A wear count stays in its width.
LEMMA WrapFacts == Wrap \in Nat \ {0} /\ \A n \in Int : n % Wrap \in 0 .. Wrap - 1
BY DEF Wrap

\* A non-empty set of indices has a least one.
LEMMA LeastFacts ==
  ASSUME NEW S \in SUBSET Nat, S # {}
  PROVE  Least(S) \in S
<1>1. PICK x \in S : \A y \in S : ~(<<y, x>> \in OpToRel(<, Nat))
  BY NatLessThanWellFounded, WFMin, Zenon
<1>2. ASSUME NEW y \in S PROVE x <= y
  <2>1. <<y, x>> \in Nat \X Nat /\ x \in Nat /\ y \in Nat
    OBVIOUS
  <2>2. ~(y < x)
    <3>1. <<y, x>> \notin OpToRel(<, Nat)
      BY <1>1, Zenon
    <3>2. OpToRel(<, Nat) = {ss \in Nat \X Nat : ss[1] < ss[2]}
      BY Zenon DEF OpToRel
    <3> QED BY <3>1, <3>2, <2>1
  <2> QED BY <2>1, <2>2
<1> QED BY <1>2 DEF Least

\* LockOnePage goes by the lower of two pages.
LEMMA LeastOfTwo ==
  ASSUME NEW a \in Nat, NEW b \in Nat
  PROVE  Least({a, b}) = IF a < b THEN a ELSE b
<1>1. \A x \in {a, b} : (\A y \in {a, b} : x <= y) <=> x = IF a < b THEN a ELSE b
  OBVIOUS
<1> QED BY <1>1 DEF Least

\* BitmapZeroGet finds an unmarked page, if it finds one.
LEMMA SwapPartner ==
  ASSUME NEW marked \in SUBSET Pages, Pages \subseteq Nat,
         BitmapZeroGet(marked) # -1
  PROVE  BitmapZeroGet(marked) \in Pages \ marked
<1>1. Pages \ marked # {} /\ Pages \ marked \in SUBSET Nat
  BY DEF BitmapZeroGet
<1> QED BY <1>1, LeastFacts DEF BitmapZeroGet

\* Entry and slot of a page in PageUnmapTable.c, and back.
LEMMA DivModFacts ==
  ASSUME NEW i \in Pages
  PROVE  /\ i \div EntryPages \in Entries
         /\ i % EntryPages \in Slots
         /\ (i \div EntryPages) * EntryPages + (i % EntryPages) = i
<1>1. EntryPages \in Nat \ {0} /\ PageNum \in Nat \ {0}
  BY PageAssumption
<1>2. i \in Nat /\ i <= PageNum - 1
  BY <1>1 DEF Pages
<1>3. i % EntryPages \in 0 .. EntryPages - 1
  BY <1>1, <1>2
<1>4. /\ i \div EntryPages \in Nat
      /\ (i \div EntryPages) * EntryPages + (i % EntryPages) = i
  BY <1>1, <1>2
<1>5. /\ (PageNum - 1) \div EntryPages \in Nat
      /\ (PageNum - 1) % EntryPages \in 0 .. EntryPages - 1
      /\ ((PageNum - 1) \div EntryPages) * EntryPages + ((PageNum - 1) % EntryPages)
           = PageNum - 1
  BY <1>1, <1>2
<1>6. i \div EntryPages <= (PageNum - 1) \div EntryPages
  BY <1>1, <1>2, <1>3, <1>4, <1>5
<1> QED BY <1>1, <1>3, <1>4, <1>5, <1>6 DEF Entries, Slots

Groups == [Entries -> [Slots -> Pages]]
GroupGet(g, i) == g[i \div EntryPages][i % EntryPages]

\* PageUnmapTableSet changes the slot of its page and no other.
LEMMA GroupSetFacts ==
  ASSUME NEW g \in Groups, NEW i \in Pages, NEW p \in Pages
  PROVE  /\ PageUnmapTableSet(g, i, p) \in Groups
         /\ \A k \in Pages : GroupGet(PageUnmapTableSet(g, i, p), k) =
              IF k = i THEN p ELSE GroupGet(g, k)
<1> DEFINE e == i \div EntryPages
           j == i % EntryPages
<1>1. e \in Entries /\ j \in Slots
  BY DivModFacts
<1>2. PageUnmapTableSet(g, i, p) = [g EXCEPT ![e] = [g[e] EXCEPT ![j] = p]]
  BY DEF PageUnmapTableSet, SetUnmapPageRelativeIndexOfEntry
<1>3. ASSUME NEW k \in Pages
      PROVE  GroupGet(PageUnmapTableSet(g, i, p), k) =
               IF k = i THEN p ELSE GroupGet(g, k)
  <2> DEFINE f == k \div EntryPages
             m == k % EntryPages
  <2>1. f \in Entries /\ m \in Slots
    BY DivModFacts
  <2>2. f = e /\ m = j => k = i
    <3>1. (e * EntryPages) + j = i /\ (f * EntryPages) + m = k
      BY DivModFacts
    <3> HIDE DEF e, j, f, m
    <3> QED BY <3>1
  <2>3. k = i => f = e /\ m = j
    OBVIOUS
  <2> HIDE DEF e, j, f, m
  <2>4. [g EXCEPT ![e] = [g[e] EXCEPT ![j] = p]][f][m] =
          IF f = e /\ m = j THEN p ELSE g[f][m]
    BY <1>1, <2>1 DEF Groups
  <2>5. /\ GroupGet(g, k) = g[f][m]
        /\ GroupGet(PageUnmapTableSet(g, i, p), k) =
             [g EXCEPT ![e] = [g[e] EXCEPT ![j] = p]][f][m]
    BY <1>2 DEF GroupGet, f, m
  <2> QED BY <2>2, <2>3, <2>4, <2>5
<1> HIDE DEF e, j
<1>4. PageUnmapTableSet(g, i, p) \in Groups
  BY <1>1, <1>2 DEF Groups
<1> QED BY <1>3, <1>4

\* A formatted group is the identity.
LEMMA FormatFacts ==
  /\ PageUnmapTableBatchFormat \in Groups
  /\ \A k \in Pages : GroupGet(PageUnmapTableBatchFormat, k) = k
<1>1. PageNum \in Nat \ {0} /\ EntryPages \in Nat \ {0}
  BY PageAssumption
<1>2. (PageNum - 1) \div EntryPages \in Int
  BY <1>1
<1>3. ASSUME NEW e \in Entries, NEW j \in Slots
      PROVE  (e * EntryPages) + j \in Nat
  BY <1>1, <1>2 DEF Entries, Slots
<1>4. PageUnmapTableBatchFormat \in Groups
  BY <1>1, <1>3 DEF PageUnmapTableBatchFormat, Groups, Pages
<1>5. ASSUME NEW k \in Pages PROVE GroupGet(PageUnmapTableBatchFormat, k) = k
  <2>1. /\ k \div EntryPages \in Entries /\ k % EntryPages \in Slots
        /\ ((k \div EntryPages) * EntryPages) + (k % EntryPages) = k
    BY DivModFacts
  <2>2. k < PageNum
    BY <1>1 DEF Pages
  <2> QED BY <2>1, <2>2 DEF GroupGet, PageUnmapTableBatchFormat
<1> QED BY <1>4, <1>5

\* PageUnmapTableGet reads the slot of its page.
LEMMA GetFacts ==
  ASSUME TypeOK, NEW i \in Pages
  PROVE  /\ PageUnmapTableGet(i) = GroupGet(unmap[LogicBlock], i)
         /\ PageUnmapTableGet(i) \in Pages
         /\ unmap[LogicBlock] \in Groups
<1>1. unmap[LogicBlock] \in Groups
  BY DEF TypeOK, Groups, Blocks, LogicBlock
<1>2. i \div EntryPages \in Entries /\ i % EntryPages \in Slots
  BY DivModFacts
<1>3. PageUnmapTableGet(i) = GroupGet(unmap[LogicBlock], i)
  BY DEF PageUnmapTableGet, GetUnmapPageRelativeIndexFromEntry, GroupGet
<1> QED BY <1>1, <1>2, <1>3 DEF GroupGet, Groups

\* To changes the pc of one thread.
LEMMA ToFacts ==
  ASSUME TypeOK, NEW t \in Threads, NEW pc \in Pcs, To(t, pc)
  PROVE  /\ th' \in [Threads -> ThreadStates]
         /\ th'[t].pc = pc /\ th'[t].page = th[t].page
         /\ th'[t].phys = th[t].phys /\ th'[t].value = th[t].value
         /\ th'[t].new = th[t].new /\ th'[t].v1 = th[t].v1
         /\ th'[t].v2 = th[t].v2 /\ th'[t].seen = th[t].seen
         /\ th'[t].word = th[t].word
         /\ \A u \in Threads : u # t => th'[u] = th[u]
BY DEF TypeOK, To, ThreadStates

\* The fields of a thread that TypeOK gives.
LEMMA ThreadFacts ==
  ASSUME TypeOK, NEW t \in Threads
  PROVE  /\ th[t].pc \in Pcs /\ th[t].page \in Pages
         /\ th[t].phys \in Blocks \X Pages /\ th[t].value \in 0 .. MaxOps
         /\ th[t].phys[1] \in Blocks /\ PageA(t) \in Pages /\ PageB(t) \in Pages
         /\ th[t].new \in Pages /\ th[t].v1 \in Nat /\ th[t].v2 \in Nat
         /\ th[t].seen \subseteq Trimmed .. MaxOps
         /\ th[t].word[1] \in Blocks /\ th[t].word[2] \in Nat
<1>1. th[t] \in ThreadStates
  BY DEF TypeOK
<1>2. /\ th[t].pc \in Pcs /\ th[t].page \in Pages
      /\ th[t].phys \in Blocks \X Pages /\ th[t].value \in 0 .. MaxOps
      /\ th[t].new \in Pages /\ th[t].v1 \in Nat /\ th[t].v2 \in Nat
      /\ th[t].seen \subseteq Trimmed .. MaxOps /\ th[t].word \in Blocks \X Nat
  BY <1>1 DEF ThreadStates
<1>3. /\ th[t].phys[1] \in Blocks /\ th[t].phys[2] \in Pages
      /\ th[t].word[1] \in Blocks /\ th[t].word[2] \in Nat
  BY <1>2
<1> QED BY <1>2, <1>3 DEF PageA, PageB

\* What the format routines leave is well typed.
LEMMA TypeInit == Init => TypeOK
<1> SUFFICES ASSUME Init PROVE TypeOK
  OBVIOUS
<1>1. 0 \in Pages /\ MaxOps \in Nat /\ MaxEntries \in Nat \ {0}
  BY PageAssumption DEF Pages
<1>2. unmap \in [Blocks -> Groups]
  BY FormatFacts DEF Init
<1>3. wear \in [Blocks -> [Pages -> 0 .. Wrap - 1]]
  BY WrapFacts DEF Init, PageWearTableFormat, PageWearTableBatchFormat
<1>4. th \in [Threads -> ThreadStates]
  BY <1>1 DEF Init, Nothing, ThreadStates, Pcs, Blocks
<1>5. nvm \in [Blocks \X Pages -> 0 .. MaxOps]
  BY <1>1 DEF Init
<1>6. bitmap \in [Blocks -> {NoGroup} \cup SUBSET Pages]
  BY DEF Init, PageColdnessManagerFormat
<1>7. content \in [Pages -> Trimmed .. MaxOps]
  BY <1>1 DEF Init, Trimmed
<1>8. /\ tmpArea \in 0 .. MaxOps /\ physBlock \in Blocks /\ blockLock \in Nat
      /\ fineGrain \in BOOLEAN /\ relativeIndex \in [Pages -> Pages]
      /\ pageLock \in [Pages -> Nat] /\ busy \in [Pages -> BOOLEAN]
  BY <1>1 DEF Init, PageSwapAreaFormat, Blocks, LogicBlock, Identity
<1>9. /\ logEntry \in {NoEntry} \cup SwapEntries
      /\ logIndex \in 0 .. MaxEntries - 1 /\ areaIndex \in 0 .. MaxEntries - 1
      /\ mover \in [pc : {"idle", "wait", "copy", "map", "unlock"}, next : Pages]
      /\ mishaps \subseteq Mishaps
      /\ ops \in 0 .. MaxOps /\ moves \in Nat
  BY <1>1 DEF Init, PageSwapLogFormat, PageSwapAreaFormat
<1> QED BY <1>2, <1>3, <1>4, <1>5, <1>6, <1>7, <1>8, <1>9 DEF TypeOK, Groups

\* Steps of a thread keep every table in its range.
LEMMA TypeThread ==
  ASSUME TypeOK, LogOwned, NEW t \in Threads, ThreadNext(t)
  PROVE  TypeOK'
<1> USE DEF page, swap
<1>T. TypeOK
  OBVIOUS
<1>F. /\ th[t] \in ThreadStates /\ th[t].page \in Pages
      /\ th[t].phys \in Blocks \X Pages /\ th[t].value \in 0 .. MaxOps
      /\ th[t].phys[1] \in Blocks /\ th[t].phys[2] \in Pages
      /\ PageA(t) \in Pages /\ PageB(t) \in Pages
      /\ th[t].seen \subseteq Trimmed .. MaxOps
  BY <1>T, ThreadFacts DEF PageA, TypeOK
<1>P. /\ MaxOps \in Nat /\ MaxEntries \in Nat \ {0} /\ 0 \in Pages
      /\ Pages \subseteq Nat
  BY PageAssumption DEF Pages
<1>L. {"mark", "markstore", "query", "untake", "store", "load", "unlock", "trimmed", "wear", "idle",
       "prepare", "charge", "lockblock", "lockpages", "fault", "lockupper",
       "begin", "copy", "commit", "tables", "release", "put", "readpage",
       "readquery", "check", "returned", "read", "write", "trim"} \subseteq Pcs
  BY DEF Pcs, SwapPcs, ReadPcs, OwnPcs
<1>1. ASSUME NEW pc \in {"read", "write", "trim"}, NEW p \in Pages,
             PageOp(t, pc, p)
      PROVE  TypeOK'
  <2>1. ops + 1 \in 0 .. MaxOps
    BY <1>T, <1>1, <1>P DEF PageOp, TypeOK
  <2>2. {content[p]} \subseteq Trimmed .. MaxOps
    BY <1>T DEF TypeOK
  <2>3. [Nothing EXCEPT !.pc = pc, !.page = p, !.value = ops + 1,
                        !.seen = {content[p]}] \in ThreadStates
    BY <1>L, <1>P, <2>1, <2>2 DEF Nothing, ThreadStates, Blocks
  <2> QED BY <1>T, <1>1, <2>1, <2>3 DEF PageOp, TypeOK
<1>2. ASSUME NEW from, NEW to \in Pcs, LockPage(t, from, to) PROVE TypeOK'
  BY <1>T, <1>2, <1>F, ToFacts DEF LockPage, MapTablePageWriteLock, TypeOK
<1>3. ASSUME NEW from, NEW to \in Pcs, MapTableQuery(t, from, to) PROVE TypeOK'
  <2>1. <<physBlock, relativeIndex[th[t].page]>> \in Blocks \X Pages
    BY <1>T, <1>F DEF TypeOK
  <2>2. th' \in [Threads -> ThreadStates]
    <3> DEFINE r == [th[t] EXCEPT !.pc = to,
                       !.phys = <<physBlock, relativeIndex[th[t].page]>>]
    <3>1. r \in ThreadStates
      BY <1>F, <2>1 DEF ThreadStates
    <3>2. th' = [th EXCEPT ![t] = r]
      BY <1>T, <1>3 DEF MapTableQuery, TypeOK
    <3> QED BY <1>T, <3>1, <3>2 DEF TypeOK
  <2> QED BY <1>T, <1>3, <2>2 DEF MapTableQuery, TypeOK
<1>4. CASE NVMWrite(t)
  <2>1. th' \in [Threads -> ThreadStates]
    <3>1. [th[t] EXCEPT !.pc = "mark"] \in ThreadStates
      BY <1>F, <1>L DEF ThreadStates
    <3>2. ASSUME NEW u \in Threads
          PROVE  [th[u] EXCEPT !.seen = @ \cup {th[t].value}] \in ThreadStates
      <4>1. th[u] \in ThreadStates
        BY <1>T DEF TypeOK
      <4>2. th[t].value \in Trimmed .. MaxOps
        BY <1>F, <1>P DEF Trimmed
      <4> HIDE DEF Trimmed
      <4> QED BY <4>1, <4>2 DEF ThreadStates
    <3> QED BY <1>T, <1>4, <3>1, <3>2 DEF NVMWrite, TypeOK
  <2>2. mishaps' \subseteq Mishaps
    BY <1>T, <1>4 DEF NVMWrite, TypeOK, Mishaps
  <2>3. /\ nvm' \in [Blocks \X Pages -> 0 .. MaxOps]
        /\ content' \in [Pages -> Trimmed .. MaxOps]
    BY <1>T, <1>4, <1>F, <1>P DEF NVMWrite, TypeOK, Trimmed
  <2> QED BY <1>T, <1>4, <2>1, <2>2, <2>3 DEF NVMWrite, TypeOK
<1>5. CASE MapTablePageTrim(t)
  <2>1. th' \in [Threads -> ThreadStates]
    <3>1. [th[t] EXCEPT !.pc = "trimmed"] \in ThreadStates
      BY <1>F, <1>L DEF ThreadStates
    <3>2. ASSUME NEW u \in Threads
          PROVE  [th[u] EXCEPT !.seen = @ \cup {Trimmed}] \in ThreadStates
      <4>1. th[u] \in ThreadStates
        BY <1>T DEF TypeOK
      <4>2. Trimmed \in Trimmed .. MaxOps
        BY <1>F, <1>P DEF Trimmed
      <4> HIDE DEF Trimmed
      <4> QED BY <4>1, <4>2 DEF ThreadStates
    <3> QED BY <1>T, <1>5, <3>1, <3>2 DEF MapTablePageTrim, TypeOK
  <2>2. /\ busy' \in [Pages -> BOOLEAN]
        /\ content' \in [Pages -> Trimmed .. MaxOps]
    BY <1>T, <1>5, <1>F, <1>P DEF MapTablePageTrim, TypeOK, Trimmed
  <2> QED BY <1>T, <1>5, <2>1, <2>2 DEF MapTablePageTrim, TypeOK
<1>6. CASE UnlockPage(t)
  <2>1. th' \in [Threads -> ThreadStates]
    BY <1>T, <1>6, <1>L, ToFacts DEF UnlockPage
  <2> QED BY <1>T, <1>6, <1>F, <2>1 DEF UnlockPage, TypeOK
<1>7. CASE PageManagerIncreaseWearCount(t)
  <2>1. th' \in [Threads -> ThreadStates]
    <3>1. \E pc \in Pcs : To(t, pc)
      BY <1>7, <1>L DEF PageManagerIncreaseWearCount
    <3> QED BY <1>T, <3>1, ToFacts
  <2>2. wear' \in [Blocks -> [Pages -> 0 .. Wrap - 1]]
    <3> DEFINE b == th[t].phys[1]
               i == th[t].phys[2]
               n == (wear[b][i] + 1) % Wrap
    <3>1. wear' = [wear EXCEPT ![b] = [wear[b] EXCEPT ![i] = n]]
      BY <1>7 DEF PageManagerIncreaseWearCount
    <3>2. /\ wear \in [Blocks -> [Pages -> 0 .. Wrap - 1]]
          /\ b \in Blocks /\ i \in Pages
      BY <1>T, <1>F DEF TypeOK
    <3>3. wear[b][i] \in Int
      <4> HIDE DEF b, i
      <4> QED BY <3>2, WrapFacts
    <3>4. n \in 0 .. Wrap - 1
      BY <3>3, WrapFacts
    <3> HIDE DEF b, i, n
    <3> QED BY <3>1, <3>2, <3>4
  <2> QED BY <1>T, <1>7, <2>1, <2>2 DEF PageManagerIncreaseWearCount, TypeOK
<1>8. CASE PageColdnessManagerSwapPrepare(t)
  <2> DEFINE b == th[t].phys[1]
             marked == PageGroupGet(b) \cup {th[t].phys[2]}
             new == BitmapZeroGet(marked)
  <2>1. bitmap[b] \in {NoGroup} \cup SUBSET Pages
    BY <1>T, <1>F DEF TypeOK
  <2>2. marked \in SUBSET Pages
    BY <1>F, <2>1 DEF PageGroupGet, PageGroupInit
  <2>3. new # -1 => new \in Pages
    BY <2>2, <1>P, SwapPartner
  <2> HIDE DEF marked, new
  <2>4. bitmap' \in [Blocks -> {NoGroup} \cup SUBSET Pages]
    <3>1. \/ bitmap' = [bitmap EXCEPT ![b] = marked]
          \/ new # -1 /\ bitmap' = [bitmap EXCEPT ![b] = marked \cup {new}]
      BY <1>8 DEF PageColdnessManagerSwapPrepare, marked, new
    <3>2. bitmap \in [Blocks -> {NoGroup} \cup SUBSET Pages]
      BY <1>T DEF TypeOK
    <3> QED BY <2>2, <2>3, <3>1, <3>2
  <2>5. th' \in [Threads -> ThreadStates]
    <3>1. CASE new = -1
      BY <1>T, <1>8, <1>L, <3>1, ToFacts
         DEF PageColdnessManagerSwapPrepare, marked, new
    <3>2. CASE new # -1
      <4>1. th' = [th EXCEPT ![t].pc = "lockblock", ![t].new = new]
        BY <1>8, <3>2 DEF PageColdnessManagerSwapPrepare, marked, new
      <4> DEFINE r == [th[t] EXCEPT !.pc = "lockblock", !.new = new]
      <4>2. r \in ThreadStates
        BY <1>F, <1>L, <2>3, <3>2 DEF ThreadStates
      <4>3. th' = [th EXCEPT ![t] = r]
        BY <1>T, <4>1 DEF TypeOK
      <4> QED BY <1>T, <4>2, <4>3 DEF TypeOK
    <3> QED BY <3>1, <3>2
  <2> QED BY <1>T, <1>8, <2>4, <2>5 DEF PageColdnessManagerSwapPrepare, TypeOK
<1>9. CASE IncreaseThreshold(t)
  <2>1. th' \in [Threads -> ThreadStates]
    BY <1>T, <1>9, <1>L, ToFacts DEF IncreaseThreshold
  <2>2. ASSUME NEW b \in Blocks
        PROVE  PageWearTableBatchIncreaseThreshold(wear[b])
                 \in [Pages -> 0 .. Wrap - 1]
    <3>1. \A i \in Pages : wear[b][i] - STEP_WEAR_COUNT \in Int
      BY <1>T, WrapFacts, PageAssumption DEF TypeOK
    <3> QED BY <3>1, WrapFacts DEF PageWearTableBatchIncreaseThreshold
  <2>3. wear' \in [Blocks -> [Pages -> 0 .. Wrap - 1]]
    BY <1>T, <1>9, <1>F, <2>2 DEF IncreaseThreshold, TypeOK
  <2>4. bitmap' \in [Blocks -> {NoGroup} \cup SUBSET Pages]
    BY <1>T, <1>9, <1>F DEF IncreaseThreshold, TypeOK
  <2> QED BY <1>T, <1>9, <2>1, <2>3, <2>4 DEF IncreaseThreshold, TypeOK
<1>10. CASE LockOneBlock(t)
  <2>1. th' \in [Threads -> ThreadStates]
    BY <1>T, <1>10, <1>L, ToFacts DEF LockOneBlock
  <2> QED BY <1>T, <1>10, <2>1 DEF LockOneBlock, TypeOK
<1>11. ASSUME NEW from, NEW to \in Pcs, NEW i \in Pages, LockOnePage(t, from, to, i)
       PROVE  TypeOK'
  <2>1. th' \in [Threads -> ThreadStates]
    BY <1>T, <1>11, ToFacts DEF LockOnePage
  <2>2. pageLock' \in [Pages -> Nat]
    BY <1>T, <1>11, GetFacts
       DEF LockOnePage, MapTableLockPageForSwap, MapTablePageWriteLock, TypeOK
  <2> QED BY <1>T, <1>11, <2>1, <2>2 DEF LockOnePage, TypeOK
<1>12. CASE LogPageSwapBegin(t)
  <2>1. th' \in [Threads -> ThreadStates]
    BY <1>T, <1>12, <1>L, ToFacts DEF LogPageSwapBegin
  <2>2. \A i \in 0 .. MaxEntries - 1 : NextSlot(i) \in 0 .. MaxEntries - 1
    BY <1>P DEF NextSlot
  <2>3. /\ PageUnmapTableGet(PageA(t)) \in Pages
        /\ PageUnmapTableGet(PageB(t)) \in Pages
    BY <1>T, <1>F, GetFacts
  <2>4. busy[PageUnmapTableGet(PageB(t))] \in BOOLEAN
    BY <1>T, <2>3 DEF TypeOK
  <2>5. logEntry' \in SwapEntries
    BY <1>12, <1>F, <2>3, <2>4
       DEF LogPageSwapBegin, SwapEntries, MapTableIsPageBusy
  <2>6. /\ logIndex' \in 0 .. MaxEntries - 1 /\ areaIndex' \in 0 .. MaxEntries - 1
    BY <1>T, <1>12, <2>2 DEF LogPageSwapBegin, TypeOK
  <2> QED BY <1>T, <1>12, <2>1, <2>5, <2>6 DEF LogPageSwapBegin, TypeOK
<1>13. CASE SwapCopy(t)
  <2>1. th' \in [Threads -> ThreadStates]
    BY <1>T, <1>13, <1>L, ToFacts DEF SwapCopy
  <2>2. logEntry \in SwapEntries
    BY <1>T, <1>13 DEF SwapCopy, LogOwned, LogOf, LoggedPcs, TypeOK,
                         At
  <2>3. PlaceA \in Blocks \X Pages /\ PlaceB \in Blocks \X Pages
    BY <1>T, <2>2 DEF PlaceA, PlaceB, SwapEntries, TypeOK
  <2>4. logEntry.fast \in BOOLEAN /\ logEntry.step \in 1 .. 4
    BY <2>2 DEF SwapEntries
  <2>5. logEntry.step < LastStep
    BY <1>13 DEF SwapCopy, LogOwned, LogOf, LoggedPcs, At
  <2>6. \/ nvm' = [nvm EXCEPT ![PlaceB] = nvm[PlaceA]] /\ UNCHANGED tmpArea
        \/ tmpArea' = nvm[PlaceB] /\ UNCHANGED nvm
        \/ nvm' = [nvm EXCEPT ![PlaceA] = tmpArea] /\ UNCHANGED tmpArea
    <3>1. CopyOfStep
      BY <1>13 DEF SwapCopy
    <3>2. ~logEntry.fast => logEntry.step \in {1, 2, 3}
      BY <2>4, <2>5 DEF LastStep
    <3> QED BY <2>4, <3>1, <3>2 DEF CopyOfStep
  <2>7. nvm' \in [Blocks \X Pages -> 0 .. MaxOps] /\ tmpArea' \in 0 .. MaxOps
    <3>1. nvm[PlaceA] \in 0 .. MaxOps /\ nvm[PlaceB] \in 0 .. MaxOps
      BY <1>T, <2>3 DEF TypeOK
    <3>2. ASSUME NEW x \in Blocks \X Pages, NEW v \in 0 .. MaxOps
          PROVE  [nvm EXCEPT ![x] = v] \in [Blocks \X Pages -> 0 .. MaxOps]
      BY <1>T DEF TypeOK
    <3>3. tmpArea \in 0 .. MaxOps /\ nvm \in [Blocks \X Pages -> 0 .. MaxOps]
      BY <1>T DEF TypeOK
    <3> QED BY <2>3, <2>6, <3>1, <3>2, <3>3, Zenon
  <2>8. UNCHANGED <<physBlock, blockLock, fineGrain, relativeIndex, pageLock, busy,
                    unmap, wear, bitmap, logEntry, logIndex, areaIndex, mover,
                    content, mishaps, ops, moves>>
    BY <1>13 DEF SwapCopy
  <2> QED BY <1>T, <2>1, <2>7, <2>8 DEF TypeOK
<1>14. CASE LogPageSwapCommitStepx(t)
  <2>1. th' \in [Threads -> ThreadStates]
    <3>1. \E pc \in Pcs : To(t, pc)
      BY <1>14, <1>L DEF LogPageSwapCommitStepx
    <3> QED BY <1>T, <3>1, ToFacts
  <2>2. logEntry \in SwapEntries /\ logEntry.step < LastStep
    BY <1>T, <1>14 DEF LogPageSwapCommitStepx, LogOwned, LogOf, LoggedPcs, TypeOK,
                         At
  <2>3. logEntry.step + 1 \in 1 .. 4
    BY <2>2 DEF SwapEntries, LastStep
  <2>4. logEntry' \in SwapEntries
    BY <1>14, <2>2, <2>3 DEF LogPageSwapCommitStepx, SwapEntries
  <2> QED BY <1>T, <1>14, <2>1, <2>4 DEF LogPageSwapCommitStepx, TypeOK
<1>15. CASE FinishSwap(t)
  <2>1. th' \in [Threads -> ThreadStates]
    BY <1>T, <1>15, <1>L, ToFacts DEF FinishSwap
  <2>2. logEntry \in SwapEntries
    BY <1>T, <1>15 DEF FinishSwap, LogOwned, LogOf, LoggedPcs, TypeOK,
                         At
  <2>3. logEntry.logicA \in Pages /\ logEntry.logicB \in Pages
    BY <2>2 DEF SwapEntries
  <2>4. unmap[LogicBlock] \in Groups
    BY <1>T, <1>F, GetFacts
  <2>5. PageUnmapTableSet(PageUnmapTableSet(unmap[LogicBlock], PageA(t),
          logEntry.logicB), PageB(t), logEntry.logicA) \in Groups
    BY <1>F, <2>3, <2>4, GroupSetFacts
  <2>6. unmap' \in [Blocks -> [Entries -> [Slots -> Pages]]]
    BY <1>T, <1>15, <2>5 DEF FinishSwap, SwapTables, TypeOK, Groups
  <2>7. relativeIndex' \in [Pages -> Pages]
    BY <1>T, <1>15, <2>3 DEF FinishSwap, SwapTables, TypeOK
  <2>8. wear' \in [Blocks -> [Pages -> 0 .. Wrap - 1]]
    BY <1>T, <1>15, <1>F, WrapFacts DEF FinishSwap, TypeOK
  <2>9. bitmap' \in [Blocks -> {NoGroup} \cup SUBSET Pages]
    <3>1. ASSUME NEW g \in {NoGroup} \cup SUBSET Pages
          PROVE  g \ {PageB(t)} \in {NoGroup} \cup SUBSET Pages
      BY <1>F, <1>P DEF NoGroup
    <3> QED BY <1>T, <1>15, <3>1 DEF FinishSwap, TypeOK
  <2> QED BY <1>T, <1>15, <2>1, <2>6, <2>7, <2>8, <2>9
          DEF FinishSwap, LogPageSwapEnd, TypeOK
<1>16. CASE UnlockPageForSwap(t)
  <2>1. th' \in [Threads -> ThreadStates]
    BY <1>T, <1>16, <1>L, ToFacts DEF UnlockPageForSwap
  <2>2. pageLock' \in [Pages -> Nat]
    BY <1>T, <1>16 DEF UnlockPageForSwap, TypeOK
  <2> QED BY <1>T, <1>16, <2>1, <2>2 DEF UnlockPageForSwap, TypeOK
<1>17. CASE PageColdnessManagerSwapPut(t)
  <2>1. th' \in [Threads -> ThreadStates]
    BY <1>T, <1>17, <1>L, ToFacts DEF PageColdnessManagerSwapPut
  <2>2. ASSUME NEW g \in {NoGroup} \cup SUBSET Pages
        PROVE  g \ {PageB(t)} \in {NoGroup} \cup SUBSET Pages
    BY <1>F, <1>P DEF NoGroup
  <2>3. bitmap' \in [Blocks -> {NoGroup} \cup SUBSET Pages]
    BY <1>T, <1>17, <2>2 DEF PageColdnessManagerSwapPut, TypeOK
  <2> QED BY <1>T, <1>17, <2>1, <2>3 DEF PageColdnessManagerSwapPut, TypeOK
<1>18. CASE LockPageForRead(t)
  <2>1. th' \in [Threads -> ThreadStates]
    <3> DEFINE r == [th[t] EXCEPT !.pc = "readpage", !.v1 = blockLock]
    <3>1. r \in ThreadStates
      BY <1>T, <1>F, <1>L DEF ThreadStates, TypeOK
    <3>2. th' = [th EXCEPT ![t] = r]
      BY <1>T, <1>18 DEF LockPageForRead, TypeOK
    <3> QED BY <1>T, <3>1, <3>2 DEF TypeOK
  <2> QED BY <1>T, <1>18, <2>1 DEF LockPageForRead, TypeOK
<1>19. CASE ReadPageLock(t)
  <2>1. th' \in [Threads -> ThreadStates]
    <3> DEFINE r == [th[t] EXCEPT !.pc = "readquery",
                                  !.v2 = pageLock[th[t].page]]
    <3>1. r \in ThreadStates
      BY <1>T, <1>F, <1>L DEF ThreadStates, TypeOK
    <3>2. th' = [th EXCEPT ![t] = r]
      BY <1>T, <1>19 DEF ReadPageLock, TypeOK
    <3> QED BY <1>T, <3>1, <3>2 DEF TypeOK
  <2> QED BY <1>T, <1>19, <2>1 DEF ReadPageLock, TypeOK
<1>20. CASE NVMRead(t)
  <2>1. th' \in [Threads -> ThreadStates]
    <3> DEFINE r == [th[t] EXCEPT !.pc = "check", !.value = nvm[th[t].phys]]
    <3>1. r \in ThreadStates
      BY <1>T, <1>F, <1>L DEF ThreadStates, TypeOK
    <3>2. th' = [th EXCEPT ![t] = r]
      BY <1>T, <1>20 DEF NVMRead, TypeOK
    <3> QED BY <1>T, <3>1, <3>2 DEF TypeOK
  <2> QED BY <1>T, <1>20, <2>1 DEF NVMRead, TypeOK
<1>21. CASE UnlockPageForRead(t)
  <2>1. th' \in [Threads -> ThreadStates]
    <3>1. \E pc \in Pcs : To(t, pc)
      BY <1>21, <1>L DEF UnlockPageForRead
    <3> QED BY <1>T, <3>1, ToFacts
  <2>2. mishaps' \subseteq Mishaps
    BY <1>T, <1>21 DEF UnlockPageForRead, TypeOK, Mishaps
  <2> QED BY <1>T, <1>21, <2>1, <2>2 DEF UnlockPageForRead, TypeOK
<1>22. CASE ReadReturns(t)
  <2>1. Nothing \in ThreadStates
    BY <1>P, <1>L DEF Nothing, ThreadStates, Blocks
  <2> QED BY <1>T, <1>22, <2>1 DEF ReadReturns, TypeOK
<1>24. CASE LoadBlockEntry(t)
  <2>1. th' \in [Threads -> ThreadStates]
    <3> DEFINE r == [th[t] EXCEPT !.pc = "markstore",
                                  !.word = <<physBlock, blockLock>>]
    <3>1. <<physBlock, blockLock>> \in Blocks \X Nat
      BY <1>T DEF TypeOK
    <3>2. r \in ThreadStates
      BY <1>F, <1>L, <3>1 DEF ThreadStates
    <3>3. th' = [th EXCEPT ![t] = r]
      BY <1>T, <1>24 DEF LoadBlockEntry, TypeOK
    <3> QED BY <1>T, <3>2, <3>3 DEF TypeOK
  <2> QED BY <1>T, <1>24, <2>1 DEF LoadBlockEntry, TypeOK
<1>25. CASE MapTablePageBusy(t)
  <2>1. th' \in [Threads -> ThreadStates]
    <3> DEFINE r == [th[t] EXCEPT !.pc = "unlock", !.word = <<0, 0>>]
    <3>1. r \in ThreadStates
      BY <1>F, <1>L DEF ThreadStates, Blocks
    <3>2. th' = [th EXCEPT ![t] = r]
      BY <1>T, <1>25 DEF MapTablePageBusy, TypeOK
    <3> QED BY <1>T, <3>1, <3>2 DEF TypeOK
  <2>2. mishaps' \subseteq Mishaps
    BY <1>T, <1>25 DEF MapTablePageBusy, TypeOK, Mishaps
  <2>3. blockLock' \in Nat /\ physBlock' \in Blocks
    BY <1>T, <1>25, ThreadFacts DEF MapTablePageBusy, TypeOK
  <2>4. busy' \in [Pages -> BOOLEAN]
    BY <1>T, <1>25, <1>F DEF MapTablePageBusy, TypeOK
  <2> QED BY <1>T, <1>25, <2>1, <2>2, <2>3, <2>4 DEF MapTablePageBusy, TypeOK
<1>23. /\ Least({PageA(t), PageB(t)}) \in Pages
       /\ (IF PageA(t) < PageB(t) THEN PageB(t) ELSE PageA(t)) \in Pages
  BY <1>F, <1>P, LeastFacts
<1> QED
  BY <1>1, <1>2, <1>3, <1>4, <1>5, <1>6, <1>7, <1>8, <1>9, <1>10, <1>11, <1>12,
     <1>13, <1>14, <1>15, <1>16, <1>17, <1>18, <1>19, <1>20, <1>21, <1>22, <1>23,
     <1>24, <1>25, <1>L
     DEF ThreadNext, WearLevelerRead, WearLevelerWrite, WearLevelerTrim,
         LockForWrite, LockForTrim, QueryForWrite, QueryForRead, LockLower,
         LockUpper

\* Steps of the block swap, of split and of merge do too.
LEMMA TypeMover ==
  ASSUME TypeOK, MoverNext
  PROVE  TypeOK'
<1> USE DEF page, swap
<1>T. TypeOK
  OBVIOUS
<1>P. /\ MaxOps \in Nat /\ PageNum \in Nat \ {0} /\ 0 \in Pages
      /\ Pages \subseteq Nat
  BY PageAssumption DEF Pages
<1>M. /\ mover.pc \in {"idle", "wait", "copy", "map", "unlock"}
      /\ mover.next \in Pages
  BY <1>T DEF TypeOK
<1>1. ASSUME NEW pc \in {"idle", "wait", "copy", "map", "unlock"}, MoveTo(pc)
      PROVE  mover' \in [pc : {"idle", "wait", "copy", "map", "unlock"},
                         next : Pages]
  BY <1>T, <1>1 DEF MoveTo, TypeOK
<1>2. CASE LockBlockForSwap
  <2>1. mover' \in [pc : {"idle", "wait", "copy", "map", "unlock"}, next : Pages]
    BY <1>2, <1>P DEF LockBlockForSwap
  <2> QED BY <1>T, <1>2, <2>1 DEF LockBlockForSwap, TypeOK
<1>3. CASE WaitForAllPagesUnlock
  <2>1. mover' \in [pc : {"idle", "wait", "copy", "map", "unlock"}, next : Pages]
    <3>1. mover.next # PageNum - 1 => mover.next + 1 \in Pages
      BY <1>M, <1>P DEF Pages
    <3> QED BY <1>T, <1>3, <3>1 DEF WaitForAllPagesUnlock, TypeOK
  <2> QED BY <1>T, <1>3, <2>1 DEF WaitForAllPagesUnlock, TypeOK
<1>4. CASE BlockSwapCopy
  <2>1. \A x \in Blocks \X Pages :
          /\ <<1 - x[1], x[2]>> \in Blocks \X Pages
          /\ <<physBlock, x[2]>> \in Blocks \X Pages
          /\ <<1 - physBlock, x[2]>> \in Blocks \X Pages
    BY <1>T DEF Blocks, TypeOK
  <2>2. nvm' \in [Blocks \X Pages -> 0 .. MaxOps]
    BY <1>T, <1>4, <2>1 DEF BlockSwapCopy, TypeOK
  <2>4. mishaps' \subseteq Mishaps
    BY <1>T, <1>4 DEF BlockSwapCopy, TypeOK, Mishaps
  <2>3. mover' \in [pc : {"idle", "wait", "copy", "map", "unlock"}, next : Pages]
    BY <1>1, <1>4 DEF BlockSwapCopy
  <2> QED BY <1>T, <1>4, <2>2, <2>3, <2>4 DEF BlockSwapCopy, TypeOK
<1>5. CASE MapTableBlockSwap
  <2>1. physBlock' \in Blocks
    BY <1>T, <1>5 DEF MapTableBlockSwap, TypeOK, Blocks
  <2>2. mover' \in [pc : {"idle", "wait", "copy", "map", "unlock"}, next : Pages]
    BY <1>1, <1>5 DEF MapTableBlockSwap
  <2> QED BY <1>T, <1>5, <2>1, <2>2 DEF MapTableBlockSwap, TypeOK
<1>6. CASE UnlockBlockForSwap
  <2>1. mover' \in [pc : {"idle", "wait", "copy", "map", "unlock"}, next : Pages]
    BY <1>1, <1>6 DEF UnlockBlockForSwap
  <2> QED BY <1>T, <1>6, <2>1 DEF UnlockBlockForSwap, TypeOK
<1>7. CASE NVMPagesMerge
  <2>1. content' \in [Pages -> Trimmed .. MaxOps]
    BY <1>7, <1>P DEF NVMPagesMerge, Trimmed
  <2>2. fineGrain' \in BOOLEAN
    BY <1>7, Zenon DEF NVMPagesMerge
  <2>3. blockLock' \in Nat /\ moves' \in Nat
    BY <1>T, <1>7 DEF NVMPagesMerge, TypeOK
  <2> QED BY <1>T, <1>7, <2>1, <2>2, <2>3 DEF NVMPagesMerge, TypeOK
<1>8. CASE NVMBlockSplit
  <2>1. unmap' \in [Blocks -> [Entries -> [Slots -> Pages]]]
    BY <1>T, <1>8, FormatFacts DEF NVMBlockSplit, TypeOK, Groups
  <2>2. PageWearTableBatchFormat \in [Pages -> 0 .. Wrap - 1]
    BY WrapFacts DEF PageWearTableBatchFormat
  <2>3. wear' \in [Blocks -> [Pages -> 0 .. Wrap - 1]]
    BY <1>T, <1>8, <2>2 DEF NVMBlockSplit, TypeOK
  <2>4. mishaps' \subseteq Mishaps
    BY <1>T, <1>8 DEF NVMBlockSplit, TypeOK, Mishaps
  <2>5. /\ relativeIndex' \in [Pages -> Pages] /\ pageLock' \in [Pages -> Nat]
        /\ busy' \in [Pages -> BOOLEAN]
    BY <1>8 DEF NVMBlockSplit, Identity
  <2> QED BY <1>T, <1>8, <2>1, <2>3, <2>4, <2>5 DEF NVMBlockSplit, TypeOK
<1>9. ASSUME NEW b \in Blocks, PageGroupEvicted(b) PROVE TypeOK'
  <2>1. bitmap' \in [Blocks -> {NoGroup} \cup SUBSET Pages]
    BY <1>T, <1>9 DEF PageGroupEvicted, TypeOK
  <2> QED BY <1>T, <1>9, <2>1 DEF PageGroupEvicted, TypeOK
<1> QED BY <1>2, <1>3, <1>4, <1>5, <1>6, <1>7, <1>8, <1>9 DEF MoverNext
----------------------------------------------------------------------------
(* Frames: what a step that leaves something alone keeps.                  *)

\* A thread that takes no step keeps its state, but for what it has seen.
Alike(u) ==
  /\ th'[u].pc = th[u].pc /\ th'[u].page = th[u].page
  /\ th'[u].phys = th[u].phys /\ th'[u].value = th[u].value
  /\ th'[u].new = th[u].new /\ th'[u].v1 = th[u].v1 /\ th'[u].v2 = th[u].v2
  /\ th[u].seen \subseteq th'[u].seen

\* One increment locks or unlocks a sequence counter.
LEMMA OddNext ==
  ASSUME NEW n \in Nat
  PROVE  Unlocked(n + 1) <=> ~Unlocked(n)
BY DEF Unlocked

\* Whoever takes no step has the pages it had.
LEMMA HasPageAlike ==
  ASSUME NEW u \in Threads, Alike(u), unmap' = unmap, NEW p
  PROVE  HasPage(u, p)' <=> HasPage(u, p)
BY DEF Alike, HasPage, HasLower, HasUpper, PageUnmapTableGet, LowerPage, UpperPage,
       PageA, PageB

\* A step that takes neither block lock nor swap keeps its exclusion.
LEMMA BlockLockFrame ==
  ASSUME BlockLockExclusive, NEW t \in Threads, blockLock' = blockLock,
         mover' = mover, \A u \in Threads : u # t => Alike(u),
         th'[t].pc \in SwapPcs => th[t].pc \in SwapPcs
  PROVE  BlockLockExclusive'
BY DEF BlockLockExclusive, Alike

\* A page's counter moves for a thread that finds it unlocked or that has it.
LEMMA PageLockFrame ==
  ASSUME TypeOK, PageLockExclusive, NEW t \in Threads,
         \A u \in Threads : u # t => Alike(u),
         \A u \in Threads, p \in Pages : u # t => (HasPage(u, p)' <=> HasPage(u, p)),
         fineGrain' = fineGrain, th'[t].pc = "idle" \/ fineGrain,
         \A p \in Pages :
           \/ pageLock'[p] = pageLock[p] /\ (HasPage(t, p)' => HasPage(t, p))
           \/ pageLock'[p] = pageLock[p] + 1 /\ Unlocked(pageLock[p])
           \/ pageLock'[p] = pageLock[p] + 1 /\ HasPage(t, p) /\ ~HasPage(t, p)'
  PROVE  PageLockExclusive'
<1>1. ASSUME NEW u \in Threads, ~At(u, "idle")' PROVE fineGrain'
  BY <1>1 DEF PageLockExclusive, At, Alike
<1>2. ASSUME NEW u \in Threads, NEW p \in Pages, HasPage(u, p)'
      PROVE  ~Unlocked(pageLock'[p])
  <2>1. pageLock[p] \in Nat
    BY DEF TypeOK
  <2>2. CASE u = t
    BY <1>2, <2>1, <2>2, OddNext DEF PageLockExclusive
  <2>3. CASE u # t
    BY <1>2, <2>1, <2>3, OddNext DEF PageLockExclusive
  <2> QED BY <2>2, <2>3
<1>3. ASSUME NEW u \in Threads, NEW v \in Threads, NEW p \in Pages,
             HasPage(u, p)', HasPage(v, p)'
      PROVE  u = v
  <2>1. CASE u # t /\ v # t
    BY <1>3, <2>1 DEF PageLockExclusive
  <2>2. CASE u = t /\ v # t
    BY <1>3, <2>2 DEF PageLockExclusive
  <2>3. CASE u # t /\ v = t
    BY <1>3, <2>3 DEF PageLockExclusive
  <2> QED BY <2>1, <2>2, <2>3
<1> QED BY <1>1, <1>2, <1>3 DEF PageLockExclusive

\* Whoever takes no step finds its pages where they were.
LEMMA PlacedAlike ==
  ASSUME NEW u \in Threads, Alike(u), unmap' = unmap,
         relativeIndex' = relativeIndex, Placed(u)
  PROVE  Placed(u)'
BY DEF Alike, Placed, HasLower, HasUpper, PageUnmapTableGet, LowerPage, UpperPage,
       PageA, PageB, At

\* The log entry says what it said to whoever takes no step.
LEMMA LogAlike ==
  ASSUME NEW u \in Threads, Alike(u), unmap' = unmap, logEntry' = logEntry,
         logEntry # NoEntry => content'[logEntry.logicB] = content[logEntry.logicB],
         LogOf(u)
  PROVE  LogOf(u)'
BY DEF Alike, LogOf, PageUnmapTableGet, PageA, PageB, At, LastStep

\* Whoever is at no lock step: only its own state and the wear tables change.
StepIsQuiet ==
  /\ UNCHANGED <<nvm, tmpArea, physBlock, blockLock, fineGrain, page, unmap, logEntry,
                 mover, content>>
  /\ mishaps \subseteq mishaps'

\* The invariant, as long as no store has taken back a lock or a remap.
Core == TypeOK /\ Consistent

\* Counters only grow: a reader that takes no step stays safe when the page
\* does not change under counters it has seen.
LEMMA ReaderAlike ==
  ASSUME TypeOK, ReadersSafe, NEW u \in Threads, Alike(u),
         blockLock' \in Nat, blockLock <= blockLock',
         pageLock' \in [Pages -> Nat],
         \A p \in Pages : pageLock[p] <= pageLock'[p],
         \/ physBlock' = physBlock
         \/ blockLock' = blockLock /\ ~Unlocked(blockLock),
         \A p \in Pages :
           \/ relativeIndex'[p] = relativeIndex[p]
           \/ pageLock'[p] = pageLock[p] /\ ~Unlocked(pageLock[p]),
         content'[th[u].page] = content[th[u].page]
           \/ content'[th[u].page] \in th'[u].seen,
         mishaps \subseteq mishaps'
  PROVE  ReaderSafe(u)'
<1>1. /\ th[u].page \in Pages /\ th[u].v1 \in Nat /\ th[u].v2 \in Nat
      /\ pageLock[th[u].page] \in Nat /\ pageLock'[th[u].page] \in Nat
      /\ blockLock \in Nat
  BY ThreadFacts DEF TypeOK
<1>2. ReaderSafe(u)
  BY DEF ReadersSafe
<1>3. th[u].pc \in ReadPcs => content'[th[u].page] \in th'[u].seen
  BY <1>2 DEF ReaderSafe, Alike
<1>4. th[u].pc \in ReadPcs \ {"read", "returned"} /\ th[u].v1 = blockLock'
        => blockLock' = blockLock /\ physBlock' = physBlock
  BY <1>1, <1>2 DEF ReaderSafe
<1>5. th[u].pc \in {"readquery", "load", "check"}
        /\ th[u].v2 = pageLock'[th[u].page]
        => /\ pageLock'[th[u].page] = pageLock[th[u].page]
           /\ relativeIndex'[th[u].page] = relativeIndex[th[u].page]
  BY <1>1, <1>2 DEF ReaderSafe
<1>6. th[u].pc \in {"load", "check"} /\ ReadUnchanged(u)' =>
        /\ ReadUnchanged(u) /\ physBlock' = physBlock
        /\ relativeIndex'[th[u].page] = relativeIndex[th[u].page]
  BY <1>4, <1>5 DEF ReadUnchanged, Alike, ReadPcs
<1>7. /\ th[u].pc \in ReadPcs \ {"read", "returned"} => th[u].v1 <= blockLock'
      /\ th[u].pc \in {"readquery", "load", "check"} =>
           th[u].v2 <= pageLock'[th[u].page]
  BY <1>1, <1>2 DEF ReaderSafe
<1> QED BY <1>2, <1>3, <1>6, <1>7 DEF ReaderSafe, Alike, At, Lost, Undone

\* A step that touches no lock, map or data keeps the invariant when its own
\* thread stays safe as a reader.
LEMMA QuietStep ==
  ASSUME Core, TypeOK', NEW t \in Threads, StepIsQuiet,
         \A u \in Threads : u # t => Alike(u),
         th[t].pc \notin SwapPcs \cup OwnPcs, th'[t].pc \notin SwapPcs \cup OwnPcs,
         th'[t].pc = "idle" \/ fineGrain,
         th'[t].pc = "lockblock" => th'[t].phys[2] # th'[t].new,
         ReaderSafe(t)'
  PROVE  Core'
<1> USE DEF StepIsQuiet, page, Lost, Undone
<1>1. BlockLockExclusive'
  BY BlockLockFrame DEF Core, Consistent
<1>2. PageLockExclusive'
  <2>1. \A u \in Threads, p \in Pages : u # t => (HasPage(u, p)' <=> HasPage(u, p))
    BY HasPageAlike
  <2>2. \A p \in Pages : ~HasPage(t, p)'
    BY DEF HasPage, HasLower, HasUpper
  <2> QED BY <2>1, <2>2, PageLockFrame DEF Core, Consistent
<1>3. MapKept'
  <2>1. Placed(t)'
    BY DEF Placed, HasLower, HasUpper, At, OwnPcs, SwapPcs, PageA, PageB
  <2>2. \A u \in Threads : u # t => Placed(u)'
    BY PlacedAlike DEF Core, Consistent, MapKept
  <2> QED BY <2>1, <2>2 DEF Core, Consistent, MapKept
<1>4. LogOwned'
  <2>1. th[t].pc \notin LoggedPcs /\ th'[t].pc \notin LoggedPcs
    BY DEF LoggedPcs, SwapPcs
  <2>2. LogOf(t)'
    BY <2>1 DEF LogOf
  <2>3. \A u \in Threads : u # t => LogOf(u)'
    BY LogAlike DEF Core, Consistent, LogOwned
  <2>4. logEntry' # NoEntry => \E u \in Threads : th'[u].pc \in LoggedPcs
    BY <2>1 DEF Core, Consistent, LogOwned, Alike
  <2> QED BY <2>2, <2>3, <2>4 DEF LogOwned
<1>5. DataKept'
  <2>1. (\E u \in Threads : At(u, "commit"))' => \E u \in Threads : At(u, "commit")
    BY DEF At, Alike, SwapPcs
  <2>2. AfterCopy' = AfterCopy
    BY DEF AfterCopy, Holds, TmpHolds, PlaceA, PlaceB
  <2>3. \A p \in Pages : /\ Holds(PlaceOf(p), p)' = Holds(PlaceOf(p), p)
                         /\ Swapped(p)' = Swapped(p)
    BY DEF Holds, PlaceOf, Swapped
  <2>4. \A u \in Threads, p \in Pages : Marking(u, p) => Marking(u, p)'
    BY DEF Marking, Alike, OwnPcs
  <2>5. \A p \in Pages : ~fineGrain' \/ ~busy'[p] =>
          content'[p] = Trimmed \/ \E u \in Threads : Marking(u, p)'
    BY <2>4 DEF Core, Consistent, DataKept
  <2> QED BY <2>1, <2>2, <2>3, <2>5 DEF Core, Consistent, DataKept
<1>6. ReadersSafe'
  <2>1. /\ TypeOK /\ ReadersSafe
        /\ blockLock' \in Nat /\ blockLock <= blockLock'
        /\ pageLock' \in [Pages -> Nat]
        /\ \A p \in Pages : pageLock[p] <= pageLock'[p]
    BY DEF Core, Consistent, TypeOK
  <2>2. ASSUME NEW u \in Threads, u # t PROVE ReaderSafe(u)'
    <3>1. /\ Alike(u) /\ physBlock' = physBlock
          /\ \A p \in Pages : relativeIndex'[p] = relativeIndex[p]
          /\ content'[th[u].page] = content[th[u].page] /\ mishaps \subseteq mishaps'
      BY <2>2
    <3> QED BY ONLY <2>1, <3>1, ReaderAlike, u \in Threads
  <2> QED BY <2>2 DEF ReadersSafe
<1>7. UnmapInverse'
  BY DEF Core, Consistent, UnmapInverse, PageUnmapTableGet
<1>8. SwapRecoverable'
  BY DEF Core, Consistent, SwapRecoverable, Holds, TmpHolds, PlaceA, PlaceB
<1> QED BY <1>1, <1>2, <1>3, <1>4, <1>5, <1>6, <1>7, <1>8 DEF Core, Consistent

\* The wear counts, the coldness bitmap, the start of a call and every step of
\* PageManagerRead are such steps.
LEMMA QuietActions ==
  ASSUME Core, TypeOK', NEW t \in Threads,
         \/ \E p \in Pages :
              WearLevelerRead(t, p) \/ WearLevelerWrite(t, p) \/ WearLevelerTrim(t, p)
         \/ PageManagerIncreaseWearCount(t) \/ PageColdnessManagerSwapPrepare(t)
         \/ IncreaseThreshold(t) \/ PageColdnessManagerSwapPut(t)
         \/ LockPageForRead(t) \/ ReadPageLock(t) \/ QueryForRead(t) \/ NVMRead(t)
         \/ UnlockPageForRead(t) \/ ReadReturns(t)
  PROVE  Core'
<1> USE DEF page, swap, StepIsQuiet, SwapPcs, OwnPcs
<1>T. TypeOK /\ th \in [Threads -> ThreadStates] /\ th[t] \in ThreadStates
  BY DEF Core, Consistent, TypeOK
<1>F. /\ th[t].page \in Pages /\ th[t].v1 \in Nat /\ th[t].v2 \in Nat
      /\ th[t].phys \in Blocks \X Pages
      /\ blockLock \in Nat /\ pageLock[th[t].page] \in Nat
  BY <1>T, ThreadFacts DEF TypeOK
<1>R. ReaderSafe(t)
  BY DEF Core, Consistent, ReadersSafe
<1>G. ~At(t, "idle") => fineGrain
  BY DEF Core, Consistent, PageLockExclusive
<1>1. ASSUME NEW pc \in {"read", "write", "trim"}, NEW p \in Pages,
             PageOp(t, pc, p)
      PROVE  Core'
  <2> DEFINE r == [Nothing EXCEPT !.pc = pc, !.page = p, !.value = ops + 1,
                                  !.seen = {content[p]}]
  <2>1. th'[t] = r /\ \A u \in Threads : u # t => Alike(u)
    BY <1>T, <1>1 DEF PageOp, Alike
  <2>2. /\ th'[t].pc = pc /\ th'[t].page = p /\ th'[t].seen = {content[p]}
    BY <2>1 DEF Nothing
  <2>3. StepIsQuiet /\ th[t].pc = "idle" /\ fineGrain
    BY <1>1 DEF PageOp, At
  <2>4. ReaderSafe(t)'
    BY <1>1, <2>2, <2>3 DEF ReaderSafe, ReadPcs, At
  <2> QED BY <2>1, <2>2, <2>3, <2>4, QuietStep
<1>2. ASSUME NEW from \in {"wear", "prepare", "charge", "put"}, th[t].pc = from,
             NEW pc \in {"idle", "prepare", "charge"}, To(t, pc), StepIsQuiet
      PROVE  Core'
  <2>1. pc \in Pcs
    BY DEF Pcs
  <2>2. th'[t].pc = pc /\ \A u \in Threads : u # t => Alike(u)
    BY <1>T, <1>2, <2>1, ToFacts DEF Alike
  <2>3. ReaderSafe(t)'
    BY <2>2 DEF ReaderSafe, ReadPcs, At
  <2> QED BY <1>2, <1>G, <2>2, <2>3, QuietStep DEF At
<1>3. CASE PageManagerIncreaseWearCount(t)
  BY <1>2, <1>3 DEF PageManagerIncreaseWearCount, At
<1>4. CASE IncreaseThreshold(t)
  BY <1>2, <1>4 DEF IncreaseThreshold, At
<1>5. CASE PageColdnessManagerSwapPut(t)
  BY <1>2, <1>5 DEF PageColdnessManagerSwapPut, At
<1>6. CASE PageColdnessManagerSwapPrepare(t)
  <2> DEFINE b == th[t].phys[1]
             marked == PageGroupGet(b) \cup {th[t].phys[2]}
             new == BitmapZeroGet(marked)
  <2>1. CASE new = -1
    BY <1>2, <1>6, <2>1 DEF PageColdnessManagerSwapPrepare, At
  <2>2. CASE new # -1
    <3>1. b \in Blocks /\ th[t].phys[2] \in Pages
      BY <1>F
    <3>2. bitmap[b] \in {NoGroup} \cup SUBSET Pages
      BY <1>T, <3>1 DEF TypeOK
    <3>3. marked \in SUBSET Pages
      BY <3>1, <3>2 DEF PageGroupGet, PageGroupInit
    <3>4. Pages \subseteq Nat
      BY PageAssumption DEF Pages
    <3>5. new \in Pages \ marked
      BY <2>2, <3>3, <3>4, SwapPartner
    <3>6. new # th[t].phys[2]
      BY <3>5
    <3>7. th' = [th EXCEPT ![t].pc = "lockblock", ![t].new = new]
      BY <1>6, <2>2 DEF PageColdnessManagerSwapPrepare
    <3> HIDE DEF new, marked
    <3>8. /\ th'[t].pc = "lockblock" /\ th'[t].new = new
          /\ th'[t].phys = th[t].phys
      BY <1>T, <3>7 DEF ThreadStates
    <3>9. \A u \in Threads : u # t => Alike(u)
      BY <1>T, <3>7 DEF Alike
    <3>10. ReaderSafe(t)'
      BY <3>8 DEF ReaderSafe, ReadPcs, At
    <3>11. StepIsQuiet /\ th[t].pc = "prepare"
      BY <1>6 DEF PageColdnessManagerSwapPrepare, At
    <3>12. fineGrain
      BY <1>G, <3>11 DEF At
    <3> QED BY <3>6, <3>8, <3>9, <3>10, <3>11, <3>12, QuietStep
  <2> QED BY <2>1, <2>2
<1>7. ASSUME th[t].pc \in ReadPcs, StepIsQuiet, ReaderSafe(t)',
             th'[t].pc \in ReadPcs \cup {"idle"},
             \A u \in Threads : u # t => th'[u] = th[u]
      PROVE  Core'
  <2>1. \A u \in Threads : u # t => Alike(u)
    BY <1>7 DEF Alike
  <2>2. fineGrain
    BY <1>7, <1>G DEF At, ReadPcs
  <2>3. /\ th[t].pc \notin SwapPcs \cup OwnPcs
        /\ th'[t].pc \notin SwapPcs \cup OwnPcs \cup {"lockblock"}
    BY <1>7 DEF ReadPcs
  <2> QED BY <1>7, <2>1, <2>2, <2>3, QuietStep
<1>8. CASE LockPageForRead(t)
  <2>1. /\ th[t].pc = "read" /\ Unlocked(blockLock) /\ StepIsQuiet
        /\ th' = [th EXCEPT ![t].pc = "readpage", ![t].v1 = blockLock]
    BY <1>8 DEF LockPageForRead, At
  <2>2. /\ th'[t].pc = "readpage" /\ th'[t].v1 = blockLock
        /\ th'[t].page = th[t].page /\ th'[t].seen = th[t].seen
        /\ \A u \in Threads : u # t => th'[u] = th[u]
    BY <1>T, <2>1 DEF ThreadStates
  <2>3. ReaderSafe(t)'
    BY <1>F, <1>R, <2>1, <2>2 DEF ReaderSafe, ReadPcs, At
  <2> QED BY <1>7, <2>1, <2>2, <2>3 DEF ReadPcs
<1>9. CASE ReadPageLock(t)
  <2>1. /\ th[t].pc = "readpage" /\ Unlocked(pageLock[th[t].page])
        /\ StepIsQuiet
        /\ th' = [th EXCEPT ![t].pc = "readquery", ![t].v2 = pageLock[th[t].page]]
    BY <1>9 DEF ReadPageLock, At
  <2>2. /\ th'[t].pc = "readquery" /\ th'[t].v2 = pageLock[th[t].page]
        /\ th'[t].v1 = th[t].v1
        /\ th'[t].page = th[t].page /\ th'[t].seen = th[t].seen
        /\ \A u \in Threads : u # t => th'[u] = th[u]
    BY <1>T, <2>1 DEF ThreadStates
  <2>3. ReaderSafe(t)'
    BY <1>F, <1>R, <2>1, <2>2 DEF ReaderSafe, ReadPcs, At
  <2> QED BY <1>7, <2>1, <2>2, <2>3 DEF ReadPcs
<1>10. CASE QueryForRead(t)
  <2> DEFINE place == <<physBlock, relativeIndex[th[t].page]>>
  <2>1. /\ th[t].pc = "readquery" /\ StepIsQuiet
        /\ th' = [th EXCEPT ![t].pc = "load", ![t].phys = place]
    BY <1>10 DEF QueryForRead, MapTableQuery, At
  <2>2. /\ th'[t].pc = "load" /\ th'[t].phys = place
        /\ th'[t].v1 = th[t].v1 /\ th'[t].v2 = th[t].v2
        /\ th'[t].page = th[t].page /\ th'[t].seen = th[t].seen
        /\ \A u \in Threads : u # t => th'[u] = th[u]
    BY <1>T, <2>1 DEF ThreadStates
  <2>3. ReaderSafe(t)'
    BY <1>F, <1>R, <2>1, <2>2 DEF ReaderSafe, ReadPcs, At
  <2> QED BY <1>7, <2>1, <2>2, <2>3 DEF ReadPcs
<1>11. CASE NVMRead(t)
  <2> DEFINE p == th[t].page
  <2>1. /\ th[t].pc = "load" /\ StepIsQuiet
        /\ th' = [th EXCEPT ![t].pc = "check", ![t].value = nvm[th[t].phys]]
    BY <1>11 DEF NVMRead, At
  <2>2. /\ th'[t].pc = "check" /\ th'[t].value = nvm[th[t].phys]
        /\ th'[t].v1 = th[t].v1 /\ th'[t].v2 = th[t].v2
        /\ th'[t].page = p /\ th'[t].seen = th[t].seen
        /\ \A u \in Threads : u # t => th'[u] = th[u]
    BY <1>T, <2>1 DEF ThreadStates
  <2>3. /\ Unlocked(th[t].v1) /\ Unlocked(th[t].v2) /\ content[p] \in th[t].seen
        /\ th[t].v1 <= blockLock /\ th[t].v2 <= pageLock[p]
        /\ ReadUnchanged(t) => th[t].phys = <<physBlock, relativeIndex[p]>>
    BY <1>R, <2>1 DEF ReaderSafe, ReadPcs, At
  <2>4. ASSUME ReadUnchanged(t), ~Lost
        PROVE  content[p] = Trimmed \/ nvm[th[t].phys] = content[p]
    <3>1. Unlocked(blockLock) /\ Unlocked(pageLock[p])
      BY <2>3, <2>4 DEF ReadUnchanged
    <3>2. mover.pc # "map"
      BY <3>1 DEF Core, Consistent, BlockLockExclusive
    <3>3. ~Swapped(p)
      BY <3>1 DEF Core, Consistent, BlockLockExclusive, LogOwned, LoggedPcs, Swapped
    <3>4. Holds(PlaceOf(p), p)
      BY <1>F, <2>4, <3>3 DEF Core, Consistent, DataKept
    <3> QED BY <2>3, <2>4, <3>2, <3>4 DEF Holds, PlaceOf
  <2>5. ReadUnchanged(t)' => ReadUnchanged(t)
    BY <2>1, <2>2 DEF ReadUnchanged
  <2>6. ReaderSafe(t)'
    <3>1. Lost => Lost'
      BY <2>1 DEF Lost, Undone
    <3> QED BY <1>F, <2>1, <2>2, <2>3, <2>4, <2>5, <3>1 DEF ReaderSafe, ReadPcs, At
  <2> QED BY <1>7, <2>1, <2>2, <2>6 DEF ReadPcs
<1>12. CASE UnlockPageForRead(t)
  <2>1. /\ th[t].pc = "check" /\ StepIsQuiet
        /\ To(t, IF SameLocks(t) THEN "returned" ELSE "read")
        /\ SameLocks(t) /\ Lapped(t) => "lapped" \in mishaps'
    BY <1>12 DEF UnlockPageForRead, At
  <2>2. {"returned", "read"} \subseteq Pcs
    BY DEF Pcs, ReadPcs
  <2>3. /\ th'[t].pc = IF SameLocks(t) THEN "returned" ELSE "read"
        /\ th'[t].page = th[t].page /\ th'[t].seen = th[t].seen
        /\ th'[t].value = th[t].value
        /\ \A u \in Threads : u # t => th'[u] = th[u]
    BY <1>T, <2>1, <2>2, ToFacts
  <2>4. content' = content /\ content[th[t].page] \in th[t].seen
    BY <1>R, <2>1 DEF ReaderSafe, ReadPcs
  <2>5. CASE SameLocks(t)
    <3>1. ~Lapped(t) => ReadUnchanged(t)
      BY <2>5 DEF SameLocks, Lapped, Rounded, ReadUnchanged
    <3>2. \/ Trimmed \in th[t].seen \/ Lost \/ "lapped" \in mishaps'
          \/ th[t].value \in th[t].seen
      BY <1>R, <2>1, <2>5, <3>1 DEF ReaderSafe, At
    <3>3. Lost => Lost'
      BY <2>1 DEF Lost, Undone
    <3>4. ReaderSafe(t)'
      BY <2>3, <2>4, <2>5, <3>2, <3>3 DEF ReaderSafe, ReadPcs, At
    <3> QED BY <1>7, <2>1, <2>3, <3>4 DEF ReadPcs
  <2>6. CASE ~SameLocks(t)
    <3>1. ReaderSafe(t)'
      BY <2>3, <2>4, <2>6 DEF ReaderSafe, ReadPcs, At
    <3> QED BY <1>7, <2>1, <2>3, <3>1 DEF ReadPcs
  <2> QED BY <2>5, <2>6
<1>13. CASE ReadReturns(t)
  <2>1. /\ th[t].pc = "returned" /\ StepIsQuiet /\ th'[t] = Nothing
        /\ \A u \in Threads : u # t => th'[u] = th[u]
    BY <1>13, <1>T DEF ReadReturns, At
  <2>2. th'[t].pc = "idle"
    BY <2>1 DEF Nothing
  <2>3. ReaderSafe(t)'
    BY <2>2 DEF ReaderSafe, ReadPcs, At
  <2> QED BY <1>7, <2>1, <2>2, <2>3 DEF ReadPcs
<1> QED
  BY <1>1, <1>3, <1>4, <1>5, <1>6, <1>8, <1>9, <1>10, <1>11, <1>12, <1>13
     DEF WearLevelerRead, WearLevelerWrite, WearLevelerTrim

\* Whoever only takes or leaves a lock.
Unmoved == <<nvm, tmpArea, physBlock, fineGrain, relativeIndex, unmap, logEntry,
             mover, content, mishaps>>

\* A step that only takes or gives back locks keeps where the data is.
LEMMA LockStep ==
  ASSUME Core, TypeOK', NEW t \in Threads, UNCHANGED Unmoved,
         \A u \in Threads : u # t => Alike(u),
         th[t].pc \notin LoggedPcs, th'[t].pc \notin ReadPcs \cup LoggedPcs,
         blockLock <= blockLock', \A p \in Pages : pageLock[p] <= pageLock'[p],
         \A p \in Pages : ~busy'[p] => ~busy[p] /\ (Marking(t, p) => Marking(t, p)'),
         BlockLockExclusive', PageLockExclusive', Placed(t)'
  PROVE  Core'
<1> USE DEF Unmoved, Lost, Undone
<1>3. MapKept'
  <2>2. \A u \in Threads : u # t => Placed(u)'
    BY PlacedAlike DEF Core, Consistent, MapKept
  <2> QED BY <2>2 DEF Core, Consistent, MapKept
<1>4. LogOwned'
  <2>2. LogOf(t)'
    BY DEF LogOf
  <2>3. \A u \in Threads : u # t => LogOf(u)'
    BY LogAlike DEF Core, Consistent, LogOwned
  <2>4. logEntry' # NoEntry => \E u \in Threads : th'[u].pc \in LoggedPcs
    BY DEF Core, Consistent, LogOwned, Alike
  <2> QED BY <2>2, <2>3, <2>4 DEF LogOwned
<1>5. DataKept'
  <2>1. (\E u \in Threads : At(u, "commit"))' => \E u \in Threads : At(u, "commit")
    BY DEF At, Alike, LoggedPcs
  <2>2. AfterCopy' = AfterCopy
    BY DEF AfterCopy, Holds, TmpHolds, PlaceA, PlaceB
  <2>3. \A p \in Pages : /\ Holds(PlaceOf(p), p)' = Holds(PlaceOf(p), p)
                         /\ Swapped(p)' = Swapped(p)
    BY DEF Holds, PlaceOf, Swapped
  <2>4. \A p \in Pages : ~fineGrain' \/ ~busy'[p] =>
          content'[p] = Trimmed \/ \E u \in Threads : Marking(u, p)'
    <3>1. \A u \in Threads, p \in Pages :
            ~busy'[p] => (Marking(u, p) => Marking(u, p)')
      BY DEF Marking, Alike
    <3>2. ASSUME NEW p \in Pages, ~fineGrain' \/ ~busy'[p]
          PROVE  content[p] = Trimmed \/ \E u \in Threads : Marking(u, p)'
      <4>1. CASE ~fineGrain
        BY <4>1 DEF Core, Consistent, DataKept, PageLockExclusive, Marking, At
      <4>2. CASE ~busy'[p]
        BY <3>1, <4>2 DEF Core, Consistent, DataKept
      <4> QED BY <3>2, <4>1, <4>2
    <3> QED BY <3>2
  <2> QED BY <2>1, <2>2, <2>3, <2>4 DEF Core, Consistent, DataKept
<1>6. ReadersSafe'
  <2>1. TypeOK /\ ReadersSafe /\ blockLock' \in Nat /\ pageLock' \in [Pages -> Nat]
    BY DEF Core, Consistent, TypeOK
  <2>2. ASSUME NEW u \in Threads, u # t PROVE ReaderSafe(u)'
    <3>1. /\ Alike(u) /\ physBlock' = physBlock
          /\ \A p \in Pages : relativeIndex'[p] = relativeIndex[p]
          /\ content'[th[u].page] = content[th[u].page] /\ mishaps \subseteq mishaps'
      BY <2>2
    <3> QED BY <2>1, <3>1, ReaderAlike
  <2>3. ReaderSafe(t)'
    BY DEF ReaderSafe, ReadPcs, At
  <2> QED BY <2>2, <2>3 DEF ReadersSafe
<1>7. UnmapInverse'
  BY DEF Core, Consistent, UnmapInverse, PageUnmapTableGet
<1>8. SwapRecoverable'
  BY DEF Core, Consistent, SwapRecoverable, Holds, TmpHolds, PlaceA, PlaceB
<1> QED BY <1>3, <1>4, <1>5, <1>6, <1>7, <1>8 DEF Core, Consistent

\* What a thread that has both its pages knows.
LEMMA SwapperFacts ==
  ASSUME Core, NEW t \in Threads, HasUpper(t),
         NEW a, a = PageUnmapTableGet(PageA(t)),
         NEW b, b = PageUnmapTableGet(PageB(t))
  PROVE  /\ a \in Pages /\ b \in Pages /\ a # b
         /\ PageA(t) \in Pages /\ PageB(t) \in Pages /\ PageA(t) # PageB(t)
         /\ relativeIndex[a] = PageA(t) /\ relativeIndex[b] = PageB(t)
         /\ \A p : HasPage(t, p) <=> p \in {a, b}
         /\ fineGrain /\ mover.pc = "idle" /\ ~Unlocked(blockLock)
         /\ \A u \in Threads : u # t => th[u].pc \notin SwapPcs
         /\ \A p \in Pages : p \notin {a, b} =>
              relativeIndex[p] \notin {PageA(t), PageB(t)}
<1>1. TypeOK /\ Placed(t) /\ th[t].pc \in SwapPcs /\ HasLower(t)
      /\ th[t].pc \notin OwnPcs /\ th[t].pc # "idle"
  BY DEF Core, Consistent, MapKept, HasUpper, HasLower, SwapPcs, OwnPcs
<1>2. PageA(t) \in Pages /\ PageB(t) \in Pages
  BY <1>1, ThreadFacts
<1>3. PageA(t) # PageB(t)
  BY <1>1 DEF Placed
<1>4. a \in Pages /\ b \in Pages
  BY <1>1, <1>2, GetFacts
<1>5. relativeIndex[a] = PageA(t) /\ relativeIndex[b] = PageB(t)
  BY <1>1, HasUpper(t) DEF Placed, LowerPage, UpperPage
<1>6. \A p : HasPage(t, p) <=> p \in {a, b}
  BY <1>1, HasUpper(t) DEF HasPage, LowerPage, UpperPage
<1>7. fineGrain
  BY <1>1 DEF Core, Consistent, PageLockExclusive, At
<1>8. /\ mover.pc = "idle" /\ ~Unlocked(blockLock)
      /\ \A u \in Threads : u # t => th[u].pc \notin SwapPcs
  BY <1>1 DEF Core, Consistent, BlockLockExclusive
<1>9. \A p \in Pages : p \notin {a, b} =>
        relativeIndex[p] \notin {PageA(t), PageB(t)}
  BY <1>4, <1>5 DEF Core, Consistent, MapKept
<1> QED BY <1>2, <1>3, <1>4, <1>5, <1>6, <1>7, <1>8, <1>9

\* The steps that lock and unlock the block and its pages.
LEMMA LockActions ==
  ASSUME Core, TypeOK', NEW t \in Threads,
         \/ LockForWrite(t) \/ LockForTrim(t) \/ QueryForWrite(t) \/ UnlockPage(t)
         \/ LockOneBlock(t) \/ LockLower(t) \/ LockUpper(t) \/ UnlockPageForSwap(t)
  PROVE  Core'
<1> USE DEF page, swap, Unmoved
<1>T. TypeOK /\ th \in [Threads -> ThreadStates] /\ th[t] \in ThreadStates
  BY DEF Core, Consistent, TypeOK
<1>F. /\ th[t].page \in Pages /\ PageA(t) \in Pages /\ PageB(t) \in Pages
      /\ blockLock \in Nat /\ pageLock \in [Pages -> Nat]
  BY <1>T, ThreadFacts DEF TypeOK
<1>G. ~At(t, "idle") => fineGrain
  BY DEF Core, Consistent, PageLockExclusive
<1>B. busy' = busy
  BY DEF LockForWrite, LockForTrim, LockPage, QueryForWrite, MapTableQuery,
         UnlockPage, LockOneBlock, LockLower, LockUpper, LockOnePage,
         UnlockPageForSwap
<1>I. BlockLockExclusive /\ PageLockExclusive /\ Placed(t)
  BY DEF Core, Consistent, MapKept
<1>L. {"query", "untake", "store", "unlock", "trimmed", "wear", "idle", "lockpages",
       "fault", "lockupper", "begin", "release", "put"} \subseteq Pcs
  BY DEF Pcs, SwapPcs, ReadPcs, OwnPcs
<1>1. ASSUME NEW from \in {"write", "trim"}, NEW to \in {"query", "untake"},
             LockPage(t, from, to)
      PROVE  Core'
  <2>1. /\ th[t].pc = from /\ Unlocked(pageLock[th[t].page])
        /\ pageLock' = [pageLock EXCEPT ![th[t].page] = @ + 1] /\ To(t, to)
        /\ UNCHANGED Unmoved /\ UNCHANGED blockLock
    BY <1>1 DEF LockPage, MapTablePageWriteLock, At
  <2>2. th'[t].pc = to /\ \A u \in Threads : u # t => Alike(u)
    BY <1>T, <1>L, <2>1, ToFacts DEF Alike
  <2>3. fineGrain
    BY <1>G, <2>1 DEF At
  <2>4. \A p \in Pages : pageLock[p] \in Nat /\
          pageLock'[p] = IF p = th[t].page THEN pageLock[p] + 1 ELSE pageLock[p]
    BY <1>F, <2>1
  <2>5. ASSUME NEW p \in Pages, HasPage(t, p)' PROVE p = th[t].page
    <3>1. th'[t].page = th[t].page
      BY <1>T, <1>L, <2>1, ToFacts
    <3> QED BY <2>2, <2>5, <3>1 DEF HasPage, HasLower, HasUpper, SwapPcs
  <2>6. PageLockExclusive'
    <3>1. \A u \in Threads, p \in Pages :
            u # t => (HasPage(u, p)' <=> HasPage(u, p))
      BY <2>1, <2>2, HasPageAlike
    <3>2. \A p \in Pages :
           \/ pageLock'[p] = pageLock[p] /\ (HasPage(t, p)' => HasPage(t, p))
           \/ pageLock'[p] = pageLock[p] + 1 /\ Unlocked(pageLock[p])
      BY <2>1, <2>4, <2>5
    <3> QED BY <1>T, <1>I, <2>1, <2>2, <2>3, <3>1, <3>2, PageLockFrame
  <2>7. BlockLockExclusive'
    BY <1>I, <2>1, <2>2, BlockLockFrame DEF SwapPcs
  <2>8. Placed(t)'
    BY <2>2 DEF Placed, HasLower, HasUpper, At, SwapPcs
  <2>9. /\ th[t].pc \notin LoggedPcs /\ th'[t].pc \notin ReadPcs \cup LoggedPcs
        /\ blockLock <= blockLock' /\ \A p \in Pages : pageLock[p] <= pageLock'[p]
        /\ busy' = busy /\ \A p \in Pages : ~Marking(t, p)
    BY <1>F, <2>1, <2>2, <2>4, <1>B DEF LoggedPcs, ReadPcs, Marking
  <2> QED BY <2>1, <2>2, <2>6, <2>7, <2>8, <2>9, LockStep
<1>2. CASE QueryForWrite(t)
  <2> DEFINE place == <<physBlock, relativeIndex[th[t].page]>>
  <2>1. /\ th[t].pc = "query" /\ UNCHANGED Unmoved /\ UNCHANGED <<blockLock, pageLock>>
        /\ th' = [th EXCEPT ![t].pc = "store", ![t].phys = place]
    BY <1>2 DEF QueryForWrite, MapTableQuery, At
  <2>2. /\ th'[t].pc = "store" /\ th'[t].phys = place
        /\ th'[t].page = th[t].page
        /\ \A u \in Threads : u # t => Alike(u)
    BY <1>T, <2>1 DEF ThreadStates, Alike
  <2>3. fineGrain
    BY <1>G, <2>1 DEF At
  <2>4. PageLockExclusive'
    <3>1. \A u \in Threads, p \in Pages :
            u # t => (HasPage(u, p)' <=> HasPage(u, p))
      BY <2>1, <2>2, HasPageAlike
    <3>2. \A p \in Pages : HasPage(t, p)' => HasPage(t, p)
      BY <2>1, <2>2 DEF HasPage, HasLower, HasUpper, SwapPcs, OwnPcs
    <3> QED BY <1>T, <1>I, <2>1, <2>2, <2>3, <3>1, <3>2, PageLockFrame
  <2>5. BlockLockExclusive'
    BY <1>I, <2>1, <2>2, BlockLockFrame DEF SwapPcs
  <2>6. Placed(t)'
    <3>1. th'[t].phys[2] = relativeIndex'[th'[t].page]
      <4>1. relativeIndex' = relativeIndex
        BY <2>1
      <4>2. place[2] = relativeIndex[th[t].page]
        OBVIOUS
      <4> HIDE DEF place
      <4> QED BY ONLY <2>2, <4>1, <4>2
    <3> QED BY <2>2, <3>1 DEF Placed, HasLower, HasUpper, At, SwapPcs
  <2>7. /\ th[t].pc \notin LoggedPcs /\ th'[t].pc \notin ReadPcs \cup LoggedPcs
        /\ blockLock <= blockLock' /\ \A p \in Pages : pageLock[p] <= pageLock'[p]
        /\ busy' = busy /\ \A p \in Pages : ~Marking(t, p)
    BY <1>F, <2>1, <2>2, <1>B DEF LoggedPcs, ReadPcs, Marking
  <2> QED BY <2>1, <2>2, <2>4, <2>5, <2>6, <2>7, LockStep
<1>3. CASE UnlockPage(t)
  <2>1. /\ th[t].pc \in {"unlock", "trimmed"} /\ UNCHANGED Unmoved
        /\ UNCHANGED blockLock
        /\ pageLock' = [pageLock EXCEPT ![th[t].page] = @ + 1]
        /\ To(t, IF At(t, "unlock") THEN "wear" ELSE "idle")
    BY <1>3 DEF UnlockPage
  <2>2. th'[t].pc \in {"wear", "idle"} /\ \A u \in Threads : u # t => Alike(u)
    BY <1>T, <1>L, <2>1, ToFacts DEF Alike
  <2>3. fineGrain
    BY <1>G, <2>1 DEF At
  <2>4. \A p \in Pages : pageLock[p] \in Nat /\
          pageLock'[p] = IF p = th[t].page THEN pageLock[p] + 1 ELSE pageLock[p]
    BY <1>F, <2>1
  <2>5. HasPage(t, th[t].page) /\ \A p \in Pages : ~HasPage(t, p)'
    BY <2>1, <2>2 DEF HasPage, HasLower, HasUpper, SwapPcs, OwnPcs
  <2>6. PageLockExclusive'
    <3>1. \A u \in Threads, p \in Pages :
            u # t => (HasPage(u, p)' <=> HasPage(u, p))
      BY <2>1, <2>2, HasPageAlike
    <3>2. \A p \in Pages :
           \/ pageLock'[p] = pageLock[p] /\ (HasPage(t, p)' => HasPage(t, p))
           \/ pageLock'[p] = pageLock[p] + 1 /\ HasPage(t, p) /\ ~HasPage(t, p)'
      BY <2>4, <2>5
    <3> QED BY <1>T, <1>I, <2>1, <2>2, <2>3, <3>1, <3>2, PageLockFrame
  <2>7. BlockLockExclusive'
    BY <1>I, <2>1, <2>2, BlockLockFrame DEF SwapPcs
  <2>8. Placed(t)'
    BY <2>2 DEF Placed, HasLower, HasUpper, At, SwapPcs
  <2>9. /\ th[t].pc \notin LoggedPcs /\ th'[t].pc \notin ReadPcs \cup LoggedPcs
        /\ blockLock <= blockLock' /\ \A p \in Pages : pageLock[p] <= pageLock'[p]
        /\ busy' = busy /\ \A p \in Pages : ~Marking(t, p)
    BY <1>F, <2>1, <2>2, <2>4, <1>B DEF LoggedPcs, ReadPcs, Marking
  <2> QED BY <2>1, <2>2, <2>6, <2>7, <2>8, <2>9, LockStep
<1>4. CASE LockOneBlock(t)
  <2>1. /\ th[t].pc = "lockblock" /\ UNCHANGED Unmoved /\ UNCHANGED pageLock
        /\ \/ Unlocked(blockLock) /\ blockLock' = blockLock + 1 /\ To(t, "lockpages")
           \/ To(t, "fault") /\ blockLock' = blockLock
    BY <1>4 DEF LockOneBlock, At
  <2>2. /\ th'[t].pc \in {"lockpages", "fault"}
        /\ th'[t].phys = th[t].phys /\ th'[t].new = th[t].new
        /\ th'[t].pc = "lockpages" =>
             Unlocked(blockLock) /\ blockLock' = blockLock + 1
        /\ th'[t].pc = "fault" => blockLock' = blockLock
        /\ \A u \in Threads : u # t => Alike(u)
    BY <1>T, <1>L, <2>1, ToFacts DEF Alike
  <2>3. fineGrain
    BY <1>G, <2>1 DEF At
  <2>4. PageLockExclusive'
    <3>1. \A u \in Threads, p \in Pages :
            u # t => (HasPage(u, p)' <=> HasPage(u, p))
      BY <2>1, <2>2, HasPageAlike
    <3>2. \A p \in Pages : ~HasPage(t, p)'
      BY <2>2 DEF HasPage, HasLower, HasUpper, SwapPcs, OwnPcs
    <3> QED BY <1>T, <1>I, <2>1, <2>2, <2>3, <3>1, <3>2, PageLockFrame
  <2>5. BlockLockExclusive'
    <3>1. CASE th'[t].pc = "fault"
      BY <1>I, <2>1, <2>2, <3>1, BlockLockFrame DEF SwapPcs
    <3>2. CASE th'[t].pc = "lockpages"
      <4>1. /\ mover.pc = "idle" /\ mover' = mover
            /\ \A u \in Threads : th[u].pc \notin SwapPcs
        BY <1>I, <2>1, <2>2, <3>2 DEF BlockLockExclusive
      <4>2. ~Unlocked(blockLock')
        BY <1>F, <2>2, <3>2, OddNext
      <4> QED BY <2>2, <4>1, <4>2 DEF BlockLockExclusive, Alike
    <3> QED BY <2>2, <3>1, <3>2
  <2>6. Placed(t)'
    BY <1>I, <2>1, <2>2 DEF Placed, HasLower, HasUpper, At, SwapPcs, PageA, PageB
  <2>7. /\ th[t].pc \notin LoggedPcs /\ th'[t].pc \notin ReadPcs \cup LoggedPcs
        /\ blockLock <= blockLock' /\ \A p \in Pages : pageLock[p] <= pageLock'[p]
        /\ busy' = busy /\ \A p \in Pages : ~Marking(t, p)
    BY <1>F, <2>1, <2>2, <1>B DEF LoggedPcs, ReadPcs, Marking
  <2> QED BY <2>1, <2>2, <2>4, <2>5, <2>6, <2>7, LockStep
<1>5. ASSUME NEW i \in Pages, NEW from \in {"lockpages", "lockupper"},
             NEW to \in {"lockupper", "begin"}, LockOnePage(t, from, to, i),
             from = "lockpages" => to = "lockupper" /\ i = LowerPage(t),
             from = "lockupper" => to = "begin" /\ i = UpperPage(t)
      PROVE  Core'
  <2> DEFINE q == PageUnmapTableGet(i)
  <2>1. /\ th[t].pc = from /\ Unlocked(pageLock[q]) /\ relativeIndex[q] = i
        /\ pageLock' = [pageLock EXCEPT ![q] = @ + 1] /\ To(t, to)
        /\ UNCHANGED Unmoved /\ UNCHANGED blockLock
    BY <1>5 DEF LockOnePage, MapTableLockPageForSwap, MapTablePageWriteLock, At
  <2>2. /\ th'[t].pc = to /\ \A u \in Threads : u # t => Alike(u)
        /\ th'[t].phys = th[t].phys /\ th'[t].new = th[t].new
    BY <1>T, <1>L, <2>1, ToFacts DEF Alike
  <2>3. fineGrain /\ q \in Pages
    BY <1>T, <1>G, <2>1, GetFacts DEF At
  <2>4. \A p \in Pages : pageLock[p] \in Nat /\
          pageLock'[p] = IF p = q THEN pageLock[p] + 1 ELSE pageLock[p]
    BY <1>F, <2>1, <2>3
  <2>5. /\ LowerPage(t)' = LowerPage(t) /\ UpperPage(t)' = UpperPage(t)
        /\ \A k : PageUnmapTableGet(k)' = PageUnmapTableGet(k)
    BY <2>1, <2>2 DEF LowerPage, UpperPage, PageA, PageB, PageUnmapTableGet
  <2>6. ASSUME NEW p, HasPage(t, p)' PROVE p = q \/ HasPage(t, p)
    <3>1. CASE from = "lockpages"
      BY <1>5, <2>2, <2>5, <2>6, <3>1 DEF HasPage, HasLower, HasUpper, SwapPcs, OwnPcs
    <3>2. CASE from = "lockupper"
      BY <1>5, <2>1, <2>2, <2>5, <2>6, <3>2
         DEF HasPage, HasLower, HasUpper, SwapPcs, OwnPcs
    <3> QED BY <3>1, <3>2
  <2>7. PageLockExclusive'
    <3>1. \A u \in Threads, p \in Pages :
            u # t => (HasPage(u, p)' <=> HasPage(u, p))
      BY <2>1, <2>2, HasPageAlike
    <3>2. \A p \in Pages :
           \/ pageLock'[p] = pageLock[p] /\ (HasPage(t, p)' => HasPage(t, p))
           \/ pageLock'[p] = pageLock[p] + 1 /\ Unlocked(pageLock[p])
      BY <2>1, <2>4, <2>6
    <3> QED BY <1>T, <1>I, <2>1, <2>2, <2>3, <3>1, <3>2, PageLockFrame
  <2>8. BlockLockExclusive'
    BY <1>I, <2>1, <2>2, BlockLockFrame DEF SwapPcs
  <2>9. Placed(t)'
    <3>1. PageA(t)' = PageA(t) /\ PageB(t)' = PageB(t) /\ PageA(t) # PageB(t)
      BY <1>I, <2>1, <2>2 DEF PageA, PageB, Placed, SwapPcs
    <3>2. relativeIndex' = relativeIndex
      BY <2>1
    <3>3. CASE from = "lockpages"
      BY <1>5, <2>1, <2>2, <2>5, <3>1, <3>2, <3>3
         DEF Placed, HasLower, HasUpper, At, SwapPcs
    <3>4. CASE from = "lockupper"
      <4>1. relativeIndex[PageUnmapTableGet(LowerPage(t))] = LowerPage(t)
        BY <1>I, <2>1, <3>4 DEF Placed, HasLower, SwapPcs
      <4> QED BY <1>5, <2>1, <2>2, <2>5, <3>1, <3>2, <3>4, <4>1
              DEF Placed, HasLower, HasUpper, At, SwapPcs
    <3> QED BY <3>3, <3>4
  <2>10. /\ th[t].pc \notin LoggedPcs /\ th'[t].pc \notin ReadPcs \cup LoggedPcs
         /\ blockLock <= blockLock' /\ \A p \in Pages : pageLock[p] <= pageLock'[p]
         /\ busy' = busy /\ \A p \in Pages : ~Marking(t, p)
    BY <1>F, <2>1, <2>2, <2>4, <1>B DEF LoggedPcs, ReadPcs, Marking
  <2> QED BY <2>1, <2>2, <2>7, <2>8, <2>9, <2>10, LockStep
<1>6. PageA(t) \in Nat /\ PageB(t) \in Nat
  BY <1>F, PageAssumption DEF Pages
<1>7. CASE LockLower(t)
  <2>1. Least({PageA(t), PageB(t)}) = LowerPage(t) /\ LowerPage(t) \in Pages
    BY <1>F, <1>6, LeastOfTwo DEF LowerPage
  <2> QED BY <1>5, <1>7, <2>1 DEF LockLower
<1>8. CASE LockUpper(t)
  <2>1. UpperPage(t) \in Pages
    BY <1>F DEF UpperPage
  <2> QED BY <1>5, <1>8, <2>1 DEF LockUpper, UpperPage
<1>9. CASE UnlockPageForSwap(t)
  <2> DEFINE a == PageUnmapTableGet(PageA(t))
             b == PageUnmapTableGet(PageB(t))
  <2>1. /\ th[t].pc = "release" /\ UNCHANGED Unmoved
        /\ pageLock' = [p \in Pages |-> IF p \in {a, b} THEN pageLock[p] + 1
                                        ELSE pageLock[p]]
        /\ blockLock' = blockLock + 1 /\ To(t, "put")
    BY <1>9 DEF UnlockPageForSwap, At
  <2>2. th'[t].pc = "put" /\ \A u \in Threads : u # t => Alike(u)
    BY <1>T, <1>L, <2>1, ToFacts DEF Alike
  <2>3. HasUpper(t)
    BY <2>1 DEF HasUpper, SwapPcs
  <2>4. /\ \A p : HasPage(t, p) <=> p \in {a, b}
        /\ fineGrain /\ mover.pc = "idle" /\ ~Unlocked(blockLock)
        /\ \A u \in Threads : u # t => th[u].pc \notin SwapPcs
    BY <2>3, SwapperFacts
  <2> HIDE DEF a, b
  <2>5. \A p \in Pages : pageLock[p] \in Nat /\
          pageLock'[p] = IF p \in {a, b} THEN pageLock[p] + 1 ELSE pageLock[p]
    BY <1>F, <2>1
  <2>6. \A p \in Pages : ~HasPage(t, p)'
    BY <2>2 DEF HasPage, HasLower, HasUpper, SwapPcs, OwnPcs
  <2>7. PageLockExclusive'
    <3>1. \A u \in Threads, p \in Pages :
            u # t => (HasPage(u, p)' <=> HasPage(u, p))
      BY <2>1, <2>2, HasPageAlike
    <3>2. \A p \in Pages :
           \/ pageLock'[p] = pageLock[p] /\ (HasPage(t, p)' => HasPage(t, p))
           \/ pageLock'[p] = pageLock[p] + 1 /\ HasPage(t, p) /\ ~HasPage(t, p)'
      BY <2>4, <2>5, <2>6
    <3> QED BY <1>T, <1>I, <2>1, <2>2, <2>4, <3>1, <3>2, PageLockFrame
  <2>8. BlockLockExclusive'
    <3>1. mover'.pc = "idle" /\ \A u \in Threads : th'[u].pc \notin SwapPcs
      BY <2>1, <2>2, <2>4 DEF Alike, SwapPcs
    <3> QED BY <3>1 DEF BlockLockExclusive
  <2>9. Placed(t)'
    BY <2>2 DEF Placed, HasLower, HasUpper, At, SwapPcs
  <2>10. /\ th[t].pc \notin LoggedPcs /\ th'[t].pc \notin ReadPcs \cup LoggedPcs
         /\ blockLock <= blockLock' /\ \A p \in Pages : pageLock[p] <= pageLock'[p]
         /\ busy' = busy /\ \A p \in Pages : ~Marking(t, p)
    BY <1>F, <2>1, <2>2, <2>5, <1>B DEF LoggedPcs, ReadPcs, Marking
  <2> QED BY <2>1, <2>2, <2>7, <2>8, <2>9, <2>10, LockStep
<1> QED BY <1>1, <1>2, <1>3, <1>4, <1>7, <1>8, <1>9 DEF LockForWrite, LockForTrim

\* The two steps by which a user changes a page that it has locked.
LEMMA UserActions ==
  ASSUME Core, TypeOK', NEW t \in Threads, NVMWrite(t) \/ MapTablePageTrim(t)
  PROVE  Core'
<1> USE DEF page, swap
<1> DEFINE p == th[t].page
<1>T. TypeOK /\ th \in [Threads -> ThreadStates] /\ th[t] \in ThreadStates
  BY DEF Core, Consistent, TypeOK
<1>F. /\ p \in Pages /\ th[t].phys \in Blocks \X Pages /\ th[t].value \in 0 .. MaxOps
      /\ content \in [Pages -> Trimmed .. MaxOps] /\ busy \in [Pages -> BOOLEAN]
      /\ nvm \in [Blocks \X Pages -> 0 .. MaxOps] /\ MaxOps \in Nat
      /\ physBlock \in Blocks /\ relativeIndex \in [Pages -> Pages]
  BY <1>T, ThreadFacts, PageAssumption DEF TypeOK
<1>I. BlockLockExclusive /\ PageLockExclusive /\ MapKept
  BY DEF Core, Consistent
<1>1. /\ UNCHANGED <<physBlock, blockLock, fineGrain, relativeIndex, pageLock, unmap,
                     logEntry, tmpArea, mover>>
      /\ \A q \in Pages : q # p => content'[q] = content[q] /\ busy'[q] = busy[q]
      /\ Lost => Lost'
      /\ mishaps \subseteq mishaps'
  BY <1>F DEF NVMWrite, MapTablePageTrim, Lost, Undone
<1>2. /\ th[t].pc \in {"store", "untake"} /\ th'[t].pc \in {"mark", "trimmed"}
      /\ th'[t].page = p
  BY <1>T DEF NVMWrite, MapTablePageTrim, At, ThreadStates
<1>3. ASSUME NEW u \in Threads, u # t
      PROVE  /\ Alike(u)
             /\ th[u].page = p => content'[p] \in th'[u].seen
  <2>1. th[u] \in ThreadStates
    BY <1>T
  <2>2. CASE NVMWrite(t)
    <3>1. content'[p] = th[t].value
      BY <1>F, <2>2 DEF NVMWrite
    <3>2. th'[u] = IF th[u].page = p
                   THEN [th[u] EXCEPT !.seen = @ \cup {th[t].value}] ELSE th[u]
      BY <1>3, <2>2 DEF NVMWrite
    <3> QED BY <2>1, <3>1, <3>2 DEF Alike, ThreadStates
  <2>3. CASE MapTablePageTrim(t)
    <3>1. content'[p] = Trimmed
      BY <1>F, <2>3 DEF MapTablePageTrim
    <3>2. th'[u] = IF th[u].page = p
                   THEN [th[u] EXCEPT !.seen = @ \cup {Trimmed}] ELSE th[u]
      BY <1>3, <2>3 DEF MapTablePageTrim
    <3> QED BY <2>1, <3>1, <3>2 DEF Alike, ThreadStates
  <2> QED BY <2>2, <2>3
<1>4. fineGrain /\ HasPage(t, p)
  BY <1>2, <1>I DEF PageLockExclusive, At, HasPage, OwnPcs
<1>5. BlockLockExclusive'
  BY <1>1, <1>2, <1>3, <1>I, BlockLockFrame DEF SwapPcs
<1>6. PageLockExclusive'
  <2>1. \A u \in Threads, q \in Pages : u # t => (HasPage(u, q)' <=> HasPage(u, q))
    BY <1>1, <1>3, HasPageAlike
  <2>2. \A q \in Pages : HasPage(t, q)' => HasPage(t, q)
    BY <1>2 DEF HasPage, HasLower, HasUpper, OwnPcs, SwapPcs
  <2> QED BY <1>T, <1>1, <1>3, <1>4, <1>I, <2>1, <2>2, PageLockFrame
<1>7. MapKept'
  <2>1. Placed(t)'
    BY <1>2 DEF Placed, HasLower, HasUpper, At, SwapPcs
  <2>2. \A u \in Threads : u # t => Placed(u)'
    BY <1>1, <1>3, <1>I, PlacedAlike DEF MapKept
  <2> QED BY <1>1, <1>I, <2>1, <2>2 DEF MapKept
\* The page is not one that another thread swaps.
<1>8. ASSUME logEntry # NoEntry
      PROVE  /\ logEntry.logicA \in Pages /\ logEntry.logicB \in Pages
             /\ p # logEntry.logicA /\ p # logEntry.logicB
             /\ relativeIndex[p] # logEntry.pageA /\ relativeIndex[p] # logEntry.pageB
  <2>1. PICK u \in Threads : th[u].pc \in LoggedPcs
    BY <1>8 DEF Core, Consistent, LogOwned
  <2>2. u # t /\ HasUpper(u)
    BY <1>2, <2>1 DEF LoggedPcs, HasUpper, SwapPcs
  <2>3. /\ logEntry.pageA = PageA(u) /\ logEntry.pageB = PageB(u)
        /\ logEntry.logicA = PageUnmapTableGet(PageA(u))
        /\ logEntry.logicB = PageUnmapTableGet(PageB(u))
    BY <2>1 DEF Core, Consistent, LogOwned, LogOf
  <2>4. /\ logEntry.logicA \in Pages /\ logEntry.logicB \in Pages
        /\ HasPage(u, logEntry.logicA) /\ HasPage(u, logEntry.logicB)
        /\ p \notin {logEntry.logicA, logEntry.logicB} =>
             relativeIndex[p] \notin {PageA(u), PageB(u)}
    BY <1>F, <2>2, <2>3, SwapperFacts
  <2>5. p # logEntry.logicA /\ p # logEntry.logicB
    BY <1>4, <1>F, <1>I, <2>2, <2>4 DEF PageLockExclusive
  <2> QED BY <2>3, <2>4, <2>5
<1>9. LogOwned'
  <2>1. LogOf(t)'
    BY <1>2 DEF LogOf, LoggedPcs
  <2>2. \A u \in Threads : u # t => LogOf(u)'
    BY <1>1, <1>3, <1>8, LogAlike DEF Core, Consistent, LogOwned
  <2>3. logEntry' # NoEntry => \E u \in Threads : th'[u].pc \in LoggedPcs
    BY <1>1, <1>2, <1>3 DEF Core, Consistent, LogOwned, Alike, LoggedPcs
  <2> QED BY <2>1, <2>2, <2>3 DEF LogOwned
<1>10. ReadersSafe'
  <2>1. /\ blockLock' \in Nat /\ blockLock <= blockLock'
        /\ pageLock' \in [Pages -> Nat]
        /\ \A q \in Pages : pageLock[q] <= pageLock'[q]
    BY <1>T, <1>1 DEF TypeOK
  <2>2. ASSUME NEW u \in Threads, u # t PROVE ReaderSafe(u)'
    <3>1. /\ content'[th[u].page] = content[th[u].page]
             \/ content'[th[u].page] \in th'[u].seen
      BY <1>T, <1>1, <1>3, <2>2, ThreadFacts
    <3> QED BY <1>T, <1>1, <1>3, <2>1, <2>2, <3>1, ReaderAlike DEF Core, Consistent
  <2>3. ReaderSafe(t)'
    BY <1>2 DEF ReaderSafe, ReadPcs, At
  <2> QED BY <2>2, <2>3 DEF ReadersSafe
<1>11. UnmapInverse'
  BY <1>1 DEF Undone, Core, Consistent, UnmapInverse, PageUnmapTableGet
\* A store in time goes where the page is.
<1>12. ASSUME ~Lost'
       PROVE  /\ ~Lost
              /\ \A q \in Pages : /\ q # p => nvm'[PlaceOf(q)] = nvm[PlaceOf(q)]
                                  /\ PlaceOf(q)' = PlaceOf(q)
              /\ logEntry # NoEntry => /\ nvm'[PlaceA] = nvm[PlaceA]
                                       /\ nvm'[PlaceB] = nvm[PlaceB]
              /\ content'[p] = Trimmed \/ nvm'[PlaceOf(p)] = content'[p]
  <2>1. ~Lost /\ \A q \in Pages : PlaceOf(q)' = PlaceOf(q)
    BY <1>1, <1>12 DEF PlaceOf
  <2>2. CASE MapTablePageTrim(t)
    BY <1>F, <2>1, <2>2 DEF MapTablePageTrim
  <2>3. CASE NVMWrite(t)
    <3>1. th[t].phys[1] = physBlock /\ mover.pc # "map"
      BY <1>12, <2>3 DEF NVMWrite, StoreIsLate, Lost
    <3>2. th[t].phys[2] = relativeIndex[p]
      BY <1>I, <2>3 DEF MapKept, Placed, NVMWrite
    <3>3. th[t].phys = <<physBlock, relativeIndex[p]>>
      BY <1>F, <3>1, <3>2
    <3>4. \A x \in Blocks \X Pages :
            nvm'[x] = IF x = th[t].phys THEN th[t].value ELSE nvm[x]
      BY <1>F, <2>3 DEF NVMWrite
    <3>5. PlaceOf(p) = th[t].phys /\ nvm'[PlaceOf(p)] = content'[p]
      BY <1>F, <2>3, <3>1, <3>3, <3>4 DEF PlaceOf, NVMWrite
    <3>6. ASSUME NEW q \in Pages, q # p PROVE nvm'[PlaceOf(q)] = nvm[PlaceOf(q)]
      <4>1. relativeIndex[q] # relativeIndex[p] /\ relativeIndex[q] \in Pages
        BY <1>F, <1>I, <3>6 DEF MapKept
      <4>2. PlaceOf(q) = <<physBlock, relativeIndex[q]>>
        BY <3>1 DEF PlaceOf
      <4> QED BY <1>F, <3>3, <3>4, <4>1, <4>2
    <3>7. ASSUME logEntry # NoEntry
          PROVE  nvm'[PlaceA] = nvm[PlaceA] /\ nvm'[PlaceB] = nvm[PlaceB]
      <4>1. logEntry.pageA \in Pages /\ logEntry.pageB \in Pages
        BY <1>T, <3>7 DEF TypeOK, SwapEntries
      <4> QED BY <1>8, <1>F, <3>3, <3>4, <3>7, <4>1 DEF PlaceA, PlaceB
    <3> QED BY <2>1, <3>5, <3>6, <3>7
  <2> QED BY <2>2, <2>3
<1>13. SwapRecoverable'
  <2> SUFFICES ASSUME logEntry # NoEntry, ~Lost'
               PROVE  SwapRecoverable'
    BY <1>1 DEF SwapRecoverable
  <2>1. /\ nvm'[PlaceA] = nvm[PlaceA] /\ nvm'[PlaceB] = nvm[PlaceB]
        /\ content'[logEntry.logicA] = content[logEntry.logicA]
        /\ content'[logEntry.logicB] = content[logEntry.logicB]
        /\ ~Lost
    BY <1>1, <1>8, <1>12
  <2>2. PlaceA' = PlaceA /\ PlaceB' = PlaceB /\ logEntry' = logEntry
        /\ tmpArea' = tmpArea
    BY <1>1 DEF PlaceA, PlaceB
  <2>3. SwapRecoverable
    BY DEF Core, Consistent
  <2> QED BY <2>1, <2>2, <2>3 DEF SwapRecoverable, Holds, TmpHolds
<1>14. DataKept'
  <2>1. \A q \in Pages : ~fineGrain' \/ ~busy'[q] =>
          content'[q] = Trimmed \/ \E u \in Threads : Marking(u, q)'
    <3>1. ASSUME NEW q \in Pages, q = p
          PROVE  content'[q] = Trimmed \/ Marking(t, q)'
      BY <1>F, <1>T, <1>2, <3>1 DEF NVMWrite, MapTablePageTrim, Marking, ThreadStates
    <3>2. ASSUME NEW q \in Pages, q # p, ~fineGrain' \/ ~busy'[q]
          PROVE  content'[q] = Trimmed \/ \E u \in Threads : Marking(u, q)'
      <4>1. content[q] = Trimmed \/ \E u \in Threads : Marking(u, q)
        BY <1>1, <3>2 DEF Core, Consistent, DataKept
      <4>2. \A u \in Threads : Marking(u, q) => Marking(u, q)'
        BY <1>2, <1>3 DEF Marking, Alike
      <4>3. content'[q] = content[q]
        BY <1>1, <3>2
      <4> QED BY <4>1, <4>2, <4>3
    <3> QED BY <3>1, <3>2
  <2>2. ASSUME ~Lost', NEW q \in Pages, ~Swapped(q)'
        PROVE  Holds(PlaceOf(q), q)'
    <3>1. ~Swapped(q)
      BY <1>1, <2>2 DEF Swapped
    <3>2. Holds(PlaceOf(q), q)
      BY <1>12, <2>2, <3>1 DEF Core, Consistent, DataKept
    <3> QED BY <1>1, <1>12, <2>2, <3>2 DEF Holds
  <2>3. ASSUME ~Lost', (\E u \in Threads : At(u, "commit"))'
        PROVE  AfterCopy'
    <3>1. \E u \in Threads : At(u, "commit")
      BY <1>2, <1>3, <2>3 DEF At, Alike
    <3>2. logEntry # NoEntry /\ AfterCopy
      BY <1>12, <2>3, <3>1 DEF Core, Consistent, DataKept, LogOwned, LogOf, LoggedPcs, At
    <3>3. /\ nvm'[PlaceA] = nvm[PlaceA] /\ nvm'[PlaceB] = nvm[PlaceB]
          /\ content'[logEntry.logicA] = content[logEntry.logicA]
          /\ content'[logEntry.logicB] = content[logEntry.logicB]
      BY <1>1, <1>8, <1>12, <2>3, <3>2
    <3>4. PlaceA' = PlaceA /\ PlaceB' = PlaceB /\ logEntry' = logEntry
          /\ tmpArea' = tmpArea
      BY <1>1 DEF PlaceA, PlaceB
    <3> QED BY <3>2, <3>3, <3>4 DEF AfterCopy, Holds, TmpHolds
  <2> QED BY <2>1, <2>2, <2>3 DEF DataKept
<1> QED BY <1>5, <1>6, <1>7, <1>9, <1>10, <1>11, <1>13, <1>14 DEF Core, Consistent

\* MapTablePageBusy, when the word it stores is the one it has loaded.
LEMMA MarkActions ==
  ASSUME Core, TypeOK', NEW t \in Threads,
         \/ LoadBlockEntry(t)
         \/ MapTablePageBusy(t) /\ blockLock' = blockLock /\ physBlock' = physBlock
  PROVE  Core'
<1> USE DEF page, swap, Unmoved
<1>T. TypeOK /\ th \in [Threads -> ThreadStates] /\ th[t] \in ThreadStates
  BY DEF Core, TypeOK
<1>I. BlockLockExclusive /\ PageLockExclusive
  BY DEF Core, Consistent
<1>1. /\ th[t].pc \in {"mark", "markstore"} /\ th'[t].pc \in {"markstore", "unlock"}
      /\ th'[t].page = th[t].page
      /\ \A u \in Threads : u # t => Alike(u)
      /\ UNCHANGED Unmoved /\ blockLock' = blockLock /\ pageLock' = pageLock
  BY <1>T DEF LoadBlockEntry, MapTablePageBusy, At, ThreadStates, Alike
<1>2. \A p \in Pages : ~busy'[p] => ~busy[p] /\ (Marking(t, p) => Marking(t, p)')
  <2>1. CASE LoadBlockEntry(t)
    <3>1. th'[t].pc = "markstore" /\ busy' = busy
      BY <1>T, <2>1 DEF LoadBlockEntry, ThreadStates
    <3> QED BY <1>1, <3>1 DEF Marking
  <2>2. CASE MapTablePageBusy(t)
    <3>1. \A p \in Pages : busy'[p] = IF p = th[t].page THEN TRUE ELSE busy[p]
      BY <1>T, <2>2 DEF MapTablePageBusy, TypeOK
    <3> QED BY <3>1 DEF Marking
  <2> QED BY <2>1, <2>2
<1>3. fineGrain
  BY <1>1, <1>I DEF PageLockExclusive, At
<1>4. BlockLockExclusive'
  BY <1>1, <1>I, BlockLockFrame DEF SwapPcs
<1>5. PageLockExclusive'
  <2>1. \A u \in Threads, p \in Pages : u # t => (HasPage(u, p)' <=> HasPage(u, p))
    BY <1>1, HasPageAlike
  <2>2. \A p \in Pages : HasPage(t, p)' => HasPage(t, p)
    BY <1>1 DEF HasPage, HasLower, HasUpper, SwapPcs, OwnPcs
  <2> QED BY <1>T, <1>I, <1>1, <1>3, <2>1, <2>2, PageLockFrame
<1>6. Placed(t)'
  BY <1>1 DEF Placed, HasLower, HasUpper, At, SwapPcs
<1>7. /\ th[t].pc \notin LoggedPcs /\ th'[t].pc \notin ReadPcs \cup LoggedPcs
      /\ blockLock <= blockLock' /\ \A p \in Pages : pageLock[p] <= pageLock'[p]
  BY <1>T, <1>1 DEF LoggedPcs, ReadPcs, TypeOK
<1> QED BY <1>1, <1>2, <1>4, <1>5, <1>6, <1>7, LockStep

\* What every step of a page swap keeps once both pages are locked: the locks,
\* the other threads, and all pages but the two.
SwapFrame == <<physBlock, blockLock, fineGrain, pageLock, busy, mover, content,
               mishaps>>

\* A step of a thread that holds both pages of a swap.
LEMMA SwapStep ==
  ASSUME Core, TypeOK', NEW t \in Threads, HasUpper(t), HasUpper(t)',
         \A u \in Threads : u # t => th'[u] = th[u],
         th'[t].phys = th[t].phys, th'[t].new = th[t].new, UNCHANGED SwapFrame,
         NEW a, a = PageUnmapTableGet(PageA(t)),
         NEW b, b = PageUnmapTableGet(PageB(t)),
         {PageUnmapTableGet(PageA(t))', PageUnmapTableGet(PageB(t))'} = {a, b},
         \A p \in Pages : p \notin {a, b} => relativeIndex'[p] = relativeIndex[p],
         \A p, q \in Pages : relativeIndex'[p] = relativeIndex'[q] => p = q,
         relativeIndex'[PageUnmapTableGet(PageA(t))'] = PageA(t),
         relativeIndex'[PageUnmapTableGet(PageB(t))'] = PageB(t),
         LogOf(t)', logEntry' = NoEntry \/ th'[t].pc \in LoggedPcs,
         ~Lost =>
           /\ \A p \in Pages : ~Swapped(p)' => Holds(PlaceOf(p), p)'
           /\ th'[t].pc = "commit" => AfterCopy',
         UnmapInverse', SwapRecoverable'
  PROVE  Core'
<1> USE DEF SwapFrame
<1>S. /\ a \in Pages /\ b \in Pages /\ a # b
      /\ PageA(t) \in Pages /\ PageB(t) \in Pages /\ PageA(t) # PageB(t)
      /\ \A p : HasPage(t, p) <=> p \in {a, b}
      /\ fineGrain
      /\ \A u \in Threads : u # t => th[u].pc \notin SwapPcs
  BY SwapperFacts
<1>T. /\ TypeOK /\ BlockLockExclusive /\ PageLockExclusive /\ MapKept /\ ReadersSafe
      /\ DataKept
  BY DEF Core, Consistent
<1>1. \A u \in Threads : u # t => Alike(u)
  BY DEF Alike
<1>2. PageA(t)' = PageA(t) /\ PageB(t)' = PageB(t)
  BY DEF PageA, PageB
<1>3. /\ th[t].pc \in SwapPcs /\ th'[t].pc \in SwapPcs /\ th'[t].pc \notin OwnPcs
      /\ HasLower(t)' /\ th'[t].pc \notin ReadPcs /\ th'[t].pc \notin {"idle", "store"}
  BY DEF HasUpper, HasLower, SwapPcs, OwnPcs, ReadPcs
<1>4. BlockLockExclusive'
  BY <1>T, <1>1, <1>3, BlockLockFrame
<1>5. \A u \in Threads, p \in Pages : u # t => (HasPage(u, p)' <=> HasPage(u, p))
  BY <1>S, <1>1 DEF HasPage, HasLower, HasUpper, Alike
<1>6. PageLockExclusive'
  <2>1. ASSUME NEW p \in Pages, HasPage(t, p)' PROVE HasPage(t, p)
    <3>1. p \in {PageUnmapTableGet(PageA(t))', PageUnmapTableGet(PageB(t))'}
      BY <1>2, <1>3, <2>1 DEF HasPage, LowerPage, UpperPage
    <3> QED BY <1>S, <3>1
  <2> QED BY <1>S, <1>T, <1>1, <1>5, <2>1, PageLockFrame
<1>7. MapKept'
  <2>1. Placed(t)'
    BY <1>S, <1>2, <1>3 DEF Placed, LowerPage, UpperPage, At
  <2>2. ASSUME NEW u \in Threads, u # t PROVE Placed(u)'
    <3>1. Placed(u) /\ th[u].pc \notin SwapPcs /\ th'[u] = th[u]
      BY <1>S, <1>T, <2>2 DEF MapKept
    <3>2. ASSUME At(u, "store")
          PROVE  relativeIndex'[th[u].page] = relativeIndex[th[u].page]
      <4>1. th[u].page \in Pages /\ HasPage(u, th[u].page)
        BY <1>T, <3>2, ThreadFacts DEF HasPage, At, OwnPcs
      <4>2. th[u].page \notin {a, b}
        BY <1>S, <1>T, <2>2, <4>1 DEF PageLockExclusive
      <4> QED BY <4>1, <4>2
    <3> QED BY <3>1, <3>2 DEF Placed, At, HasLower, HasUpper, PageA, PageB
  <2> QED BY <2>1, <2>2 DEF MapKept
<1>8. LogOwned'
  <2>1. \A u \in Threads : u # t => LogOf(u)'
    BY <1>S, <1>1 DEF LogOf, LoggedPcs, SwapPcs, Alike
  <2> QED BY <2>1 DEF LogOwned
<1>9. DataKept'
  <2>1. (\E u \in Threads : At(u, "commit"))' => th'[t].pc = "commit"
    BY <1>S DEF At, SwapPcs
  <2>2. \A u \in Threads, p \in Pages : Marking(u, p) => Marking(u, p)'
    BY <1>1, <1>3 DEF Marking, Alike, SwapPcs
  <2> QED BY <1>T, <2>1, <2>2 DEF DataKept, Lost, Undone
<1>10. ReadersSafe'
  <2>1. /\ blockLock' \in Nat /\ blockLock <= blockLock'
        /\ pageLock' \in [Pages -> Nat] /\ pageLock' = pageLock
        /\ \A q \in Pages : pageLock[q] <= pageLock'[q]
    BY <1>T DEF TypeOK
  <2>2. \A p \in Pages : \/ relativeIndex'[p] = relativeIndex[p]
                         \/ pageLock'[p] = pageLock[p] /\ ~Unlocked(pageLock[p])
    BY <1>S, <1>T, <2>1 DEF PageLockExclusive
  <2>3. ASSUME NEW u \in Threads, u # t PROVE ReaderSafe(u)'
    <3>1. /\ Alike(u) /\ physBlock' = physBlock
          /\ content'[th[u].page] = content[th[u].page] /\ mishaps \subseteq mishaps'
      BY <1>1, <2>3
    <3> QED BY <1>T, <2>1, <2>2, <3>1, ReaderAlike
  <2>4. ReaderSafe(t)'
    BY <1>3 DEF ReaderSafe, ReadPcs, At
  <2> QED BY <2>3, <2>4 DEF ReadersSafe
<1> QED BY <1>4, <1>6, <1>7, <1>8, <1>9, <1>10 DEF Core, Consistent

\* The logged steps of SwapPageFast and SwapPageSlow.
LEMMA SwapActions ==
  ASSUME Core, TypeOK', NEW t \in Threads,
         \/ LogPageSwapBegin(t) \/ SwapCopy(t) \/ LogPageSwapCommitStepx(t)
         \/ FinishSwap(t)
  PROVE  Core'
<1> USE DEF page, swap, SwapFrame
<1> DEFINE A == PageA(t)
           B == PageB(t)
           a == PageUnmapTableGet(A)
           b == PageUnmapTableGet(B)
<1>1. th[t].pc \in {"begin", "copy", "commit", "tables"} /\ HasUpper(t)
  BY DEF LogPageSwapBegin, SwapCopy, LogPageSwapCommitStepx, FinishSwap, At,
         HasUpper, SwapPcs
<1>S. /\ a \in Pages /\ b \in Pages /\ a # b
      /\ A \in Pages /\ B \in Pages /\ A # B
      /\ relativeIndex[a] = A /\ relativeIndex[b] = B
      /\ fineGrain /\ mover.pc = "idle"
      /\ \A u \in Threads : u # t => th[u].pc \notin SwapPcs
      /\ \A p \in Pages : p \notin {a, b} => relativeIndex[p] \notin {A, B}
  BY <1>1, SwapperFacts
<1>T. /\ TypeOK /\ MapKept /\ LogOwned /\ DataKept /\ UnmapInverse /\ SwapRecoverable
      /\ th[t] \in ThreadStates
  BY DEF Core, Consistent, TypeOK
<1>F. /\ nvm \in [Blocks \X Pages -> 0 .. MaxOps] /\ physBlock \in Blocks
      /\ relativeIndex \in [Pages -> Pages]
      /\ <<physBlock, A>> \in Blocks \X Pages /\ <<physBlock, B>> \in Blocks \X Pages
      /\ <<physBlock, A>> # <<physBlock, B>>
  BY <1>S, <1>T DEF TypeOK
<1>L. {"copy", "commit", "tables", "release"} \subseteq Pcs
  BY DEF Pcs, SwapPcs
<1>2. \A p \in Pages : PlaceOf(p) = <<physBlock, relativeIndex[p]>>
  BY <1>S DEF PlaceOf
<1>E. th[t].pc \in LoggedPcs =>
        /\ logEntry # NoEntry /\ logEntry \in SwapEntries
        /\ logEntry.pageA = A /\ logEntry.pageB = B
        /\ logEntry.logicA = a /\ logEntry.logicB = b
        /\ logEntry.fast => content[b] = Trimmed
        /\ PlaceA = <<physBlock, A>> /\ PlaceB = <<physBlock, B>>
  BY <1>T DEF LogOwned, LogOf, TypeOK, PlaceA, PlaceB
<1>N. th[t].pc \notin LoggedPcs => logEntry = NoEntry
  BY <1>S, <1>T DEF LogOwned, LoggedPcs, SwapPcs
<1>3. ASSUME NEW to \in {"copy", "commit", "tables", "release"}, To(t, to)
      PROVE  /\ th'[t].pc = to /\ HasUpper(t)'
             /\ \A u \in Threads : u # t => th'[u] = th[u]
             /\ th'[t].phys = th[t].phys /\ th'[t].new = th[t].new
             /\ A' = A /\ B' = B
  BY <1>T, <1>L, <1>3, ToFacts DEF HasUpper, SwapPcs, PageA, PageB
<1>M. mishaps' = mishaps /\ (Lost' <=> Lost) /\ (Undone' <=> Undone)
  BY DEF LogPageSwapBegin, SwapCopy, LogPageSwapCommitStepx, FinishSwap, Lost, Undone
\* Before the tables change, nothing about the map does.
<1>4. ASSUME UNCHANGED <<unmap, relativeIndex>>, UNCHANGED SwapFrame,
             NEW to \in {"copy", "commit", "tables"}, To(t, to),
             LogOf(t)',
             ~Lost =>
               /\ \A p \in Pages : ~Swapped(p)' => Holds(PlaceOf(p), p)'
               /\ to = "commit" => AfterCopy',
             SwapRecoverable'
      PROVE  Core'
  <2>1. a' = a /\ b' = b
    BY <1>3, <1>4 DEF PageUnmapTableGet
  <2>2. UnmapInverse'
    BY <1>T, <1>4, <1>M DEF UnmapInverse, PageUnmapTableGet
  <2>3. th'[t].pc \in LoggedPcs
    BY <1>3, <1>4 DEF LoggedPcs
  <2>4. /\ relativeIndex'[a'] = A /\ relativeIndex'[b'] = B
        /\ \A p, q \in Pages : relativeIndex'[p] = relativeIndex'[q] => p = q
    BY <1>S, <1>T, <1>4, <2>1 DEF MapKept
  <2> QED BY <1>1, <1>3, <1>4, <2>1, <2>2, <2>3, <2>4, SwapStep
<1>5. CASE LogPageSwapBegin(t)
  <2>1. /\ th[t].pc = "begin" /\ To(t, "copy") /\ UNCHANGED SwapFrame
        /\ UNCHANGED <<nvm, tmpArea, unmap, relativeIndex>>
        /\ logEntry' = [step |-> 1, fast |-> ~busy[b], pageA |-> A, pageB |-> B,
                        logicA |-> a, logicB |-> b]
    BY <1>5 DEF LogPageSwapBegin, At, MapTableIsPageBusy
  <2>2. /\ logEntry'.step = 1 /\ logEntry'.fast = ~busy[b] /\ logEntry'.pageA = A
        /\ logEntry'.pageB = B /\ logEntry'.logicA = a /\ logEntry'.logicB = b
    BY <2>1
  <2>3. logEntry = NoEntry /\ logEntry' # NoEntry
    <3>1. logEntry = NoEntry
      BY <1>N, <2>1 DEF LoggedPcs
    <3>2. logEntry' # NoEntry
      BY <2>1 DEF NoEntry
    <3> QED BY <3>1, <3>2
  <2>4. ~busy[b] => content[b] = Trimmed
    <3>1. \A u \in Threads : ~Marking(u, b)
      <4>1. HasPage(t, b)
        BY <1>1, SwapperFacts
      <4>2. \A u \in Threads : Marking(u, b) => HasPage(u, b)
        BY DEF Marking, HasPage, OwnPcs
      <4>3. \A u \in Threads : HasPage(u, b) => u = t
        BY <1>S, <4>1 DEF Core, Consistent, PageLockExclusive
      <4> QED BY <1>1, <4>2, <4>3 DEF Marking
    <3> QED BY <1>S, <1>T, <3>1 DEF DataKept
  <2>5. a' = a /\ b' = b /\ A' = A /\ B' = B /\ th'[t].pc = "copy"
    BY <1>3, <2>1 DEF PageUnmapTableGet
  <2>6. busy[b] \in BOOLEAN
    BY <1>S, <1>T DEF TypeOK
  <2>7. LogOf(t)'
    <3>1. logEntry'.step < LastStep' /\ th'[t].pc # "tables"
      BY <2>2, <2>5 DEF LastStep
    <3>2. logEntry'.fast => content'[b] = Trimmed
      BY <2>1, <2>2, <2>4
    <3> HIDE DEF A, B, a, b
    <3>3. /\ logEntry'.pageA = A' /\ logEntry'.pageB = B'
          /\ logEntry'.logicA = a' /\ logEntry'.logicB = b'
      BY <2>2, <2>5
    <3>4. logEntry'.fast => content'[logEntry'.logicB] = Trimmed
      BY <2>2, <3>2
    <3> QED BY <2>3, <3>1, <3>3, <3>4 DEF LogOf, At, A, B, a, b
  <2>8. /\ PlaceA' = <<physBlock, A>> /\ PlaceB' = <<physBlock, B>>
        /\ content' = content /\ nvm' = nvm /\ mishaps' = mishaps
    BY <2>1, <2>2 DEF PlaceA, PlaceB
  <2>9. ~Lost =>
          \A p \in Pages : content[p] = Trimmed \/ nvm[PlaceOf(p)] = content[p]
    BY <1>T, <2>3 DEF DataKept, Swapped, Holds
  <2>10. ~Lost =>
           \A p \in Pages : ~Swapped(p)' => Holds(PlaceOf(p), p)'
    <3>1. \A p \in Pages : PlaceOf(p)' = PlaceOf(p)
      BY <2>1 DEF PlaceOf
    <3> QED BY <2>8, <2>9, <3>1 DEF Holds
  <2>11. SwapRecoverable'
    <3>1. ~Lost =>
            /\ content[a] = Trimmed \/ nvm[<<physBlock, A>>] = content[a]
            /\ content[b] = Trimmed \/ nvm[<<physBlock, B>>] = content[b]
      BY <1>2, <1>S, <2>9
    <3> QED BY <2>2, <2>8, <3>1, <1>M DEF SwapRecoverable, Holds
  <2> QED BY <1>4, <2>1, <2>7, <2>10, <2>11
<1>6. CASE SwapCopy(t)
  <2>1. /\ th[t].pc = "copy" /\ To(t, "commit") /\ CopyOfStep
        /\ UNCHANGED SwapFrame /\ UNCHANGED <<unmap, relativeIndex, logEntry>>
    BY <1>6 DEF SwapCopy, At
  <2> DEFINE x == <<physBlock, A>>
             y == <<physBlock, B>>
  <2>2. /\ logEntry # NoEntry
        /\ logEntry.pageA = A /\ logEntry.pageB = B
        /\ logEntry.logicA = a /\ logEntry.logicB = b
        /\ logEntry.fast \in BOOLEAN /\ logEntry.step \in 1 .. 4
        /\ logEntry.fast => content[b] = Trimmed
        /\ PlaceA = x /\ PlaceB = y /\ logEntry.step < LastStep
    <3>1. logEntry.step < LastStep
      BY <1>T, <2>1 DEF LogOwned, LogOf, LoggedPcs, At
    <3> QED BY <1>E, <2>1, <3>1 DEF LoggedPcs, SwapEntries
  <2>3. IF logEntry.fast THEN logEntry.step = 1 ELSE logEntry.step \in {1, 2, 3}
    BY <2>2 DEF LastStep
  <2>4. a' = a /\ b' = b /\ A' = A /\ B' = B /\ th'[t].pc = "commit"
    BY <1>3, <2>1 DEF PageUnmapTableGet
  <2>5. LogOf(t)'
    <3>1. logEntry' = logEntry /\ content' = content /\ LastStep' = LastStep
      BY <2>1 DEF LastStep
    <3> HIDE DEF A, B, a, b
    <3> QED BY <2>2, <2>4, <3>1 DEF LogOf, At, A, B, a, b
  <2>6. /\ x \in Blocks \X Pages /\ y \in Blocks \X Pages /\ x # y
    BY <1>F
  <2>7. PlaceA' = x /\ PlaceB' = y /\ content' = content /\ mishaps' = mishaps
        /\ logEntry' = logEntry
    BY <2>1, <2>2 DEF PlaceA, PlaceB
  <2> HIDE DEF x, y
  <2>8. /\ logEntry.fast \/ logEntry.step = 2 =>
             /\ nvm'[x] = nvm[x] /\ nvm'[y] = nvm[x] /\ tmpArea' = tmpArea
             /\ \A z \in Blocks \X Pages : z # y => nvm'[z] = nvm[z]
        /\ ~logEntry.fast /\ logEntry.step = 1 =>
             nvm' = nvm /\ tmpArea' = nvm[y]
        /\ ~logEntry.fast /\ logEntry.step = 3 =>
             /\ nvm'[x] = tmpArea /\ nvm'[y] = nvm[y] /\ tmpArea' = tmpArea
             /\ \A z \in Blocks \X Pages : z # x => nvm'[z] = nvm[z]
    <3>0. CopyOfStep /\ logEntry.fast \in BOOLEAN
      BY <2>1, <2>2
    <3>1. CASE logEntry.fast \/ logEntry.step = 2
      <4>0. nvm' = [nvm EXCEPT ![PlaceB] = nvm[PlaceA]] /\ UNCHANGED tmpArea
        BY ONLY <3>0, <3>1 DEF CopyOfStep
      <4>1. nvm' = [nvm EXCEPT ![y] = nvm[x]] /\ tmpArea' = tmpArea
        BY <2>2, <4>0
      <4> QED BY <1>F, <2>3, <2>6, <3>1, <4>1
    <3>2. CASE ~logEntry.fast /\ logEntry.step = 1
      <4>1. tmpArea' = nvm[y] /\ nvm' = nvm
        BY <2>1, <2>2, <3>2 DEF CopyOfStep
      <4> QED BY <3>2, <4>1
    <3>3. CASE ~logEntry.fast /\ logEntry.step = 3
      <4>0. nvm' = [nvm EXCEPT ![PlaceA] = tmpArea] /\ UNCHANGED tmpArea
        BY ONLY <3>0, <3>3 DEF CopyOfStep
      <4>1. nvm' = [nvm EXCEPT ![x] = tmpArea] /\ tmpArea' = tmpArea
        BY <2>2, <4>0
      <4> QED BY <1>F, <2>6, <3>3, <4>1
    <3> QED BY <2>3, <3>1, <3>2, <3>3
  <2>9. ASSUME NEW p \in Pages, p \notin {a, b}
        PROVE  nvm'[PlaceOf(p)] = nvm[PlaceOf(p)] /\ PlaceOf(p)' = PlaceOf(p)
    <3>1. /\ PlaceOf(p) = <<physBlock, relativeIndex[p]>>
          /\ relativeIndex[p] \in Pages /\ relativeIndex[p] \notin {A, B}
      BY <1>2, <1>F, <1>S, <2>9
    <3>2. PlaceOf(p) \in Blocks \X Pages /\ PlaceOf(p) # x /\ PlaceOf(p) # y
      BY <1>F, <3>1 DEF x, y
    <3>3. nvm'[PlaceOf(p)] = nvm[PlaceOf(p)]
      BY <2>3, <2>8, <3>2
    <3>4. PlaceOf(p)' = PlaceOf(p)
      BY <2>1 DEF PlaceOf
    <3> QED BY <3>3, <3>4
  <2>10. ASSUME ~Lost, NEW p \in Pages, ~Swapped(p)'
         PROVE  Holds(PlaceOf(p), p)'
    <3>1. ~Swapped(p) /\ p \notin {a, b}
      BY <2>2, <2>7, <2>10 DEF Swapped
    <3>2. Holds(PlaceOf(p), p)
      BY <1>T, <2>10, <3>1 DEF DataKept
    <3> QED BY <2>7, <2>9, <3>1, <3>2 DEF Holds
  <2>11. ~Lost =>
           IF logEntry.fast
           THEN content[a] = Trimmed \/ nvm[x] = content[a]
           ELSE /\ logEntry.step = 1 =>
                     /\ content[a] = Trimmed \/ nvm[x] = content[a]
                     /\ content[b] = Trimmed \/ nvm[y] = content[b]
                /\ logEntry.step = 2 =>
                     /\ content[a] = Trimmed \/ nvm[x] = content[a]
                     /\ content[b] = Trimmed \/ tmpArea = content[b]
                /\ logEntry.step = 3 =>
                     /\ content[a] = Trimmed \/ nvm[y] = content[a]
                     /\ content[b] = Trimmed \/ tmpArea = content[b]
    BY <1>T, <2>2, <2>3 DEF SwapRecoverable, Holds, TmpHolds
  <2> HIDE DEF A, B, a, b
  <2>12. ~Lost => AfterCopy'
    BY <2>2, <2>3, <2>7, <2>8, <2>11 DEF AfterCopy, Holds, TmpHolds
  <2>13. SwapRecoverable'
    BY <1>M, <2>2, <2>3, <2>7, <2>8, <2>11 DEF SwapRecoverable, Holds, TmpHolds
  <2> QED BY <1>4, <2>1, <2>5, <2>10, <2>12, <2>13
<1>7. CASE LogPageSwapCommitStepx(t)
  <2> DEFINE to == IF logEntry'.step = LastStep THEN "tables" ELSE "copy"
  <2>1. /\ th[t].pc = "commit" /\ To(t, to)
        /\ logEntry' = [logEntry EXCEPT !.step = @ + 1]
        /\ UNCHANGED SwapFrame /\ UNCHANGED <<unmap, relativeIndex, nvm, tmpArea>>
    BY <1>7 DEF LogPageSwapCommitStepx, At
  <2>2. /\ logEntry # NoEntry /\ logEntry \in SwapEntries
        /\ logEntry.pageA = A /\ logEntry.pageB = B
        /\ logEntry.logicA = a /\ logEntry.logicB = b
        /\ logEntry.fast => content[b] = Trimmed
        /\ logEntry.step < LastStep
    <3>1. logEntry.step < LastStep
      BY <1>T, <2>1 DEF LogOwned, LogOf, LoggedPcs, At
    <3> QED BY <1>E, <2>1, <3>1 DEF LoggedPcs
  <2>3. /\ logEntry.fast \in BOOLEAN /\ logEntry.step \in 1 .. 4
        /\ logEntry'.step = logEntry.step + 1 /\ logEntry'.fast = logEntry.fast
        /\ logEntry'.pageA = A /\ logEntry'.pageB = B
        /\ logEntry'.logicA = a /\ logEntry'.logicB = b
    BY <2>1, <2>2 DEF SwapEntries
  <2>4. /\ IF logEntry.fast THEN logEntry.step = 1 ELSE logEntry.step \in {1, 2, 3}
        /\ LastStep' = LastStep /\ LastStep = IF logEntry.fast THEN 2 ELSE 4
    BY <2>2, <2>3 DEF LastStep
  <2>5. logEntry' # NoEntry
    BY <2>1, <2>2 DEF NoEntry, SwapEntries
  <2>6. a' = a /\ b' = b /\ A' = A /\ B' = B /\ th'[t].pc = to
    BY <1>3, <2>1 DEF PageUnmapTableGet
  <2>7. LogOf(t)'
    <3>1. content' = content
      BY <2>1
    <3>2. IF th'[t].pc = "tables" THEN logEntry'.step = LastStep'
                                  ELSE logEntry'.step < LastStep'
      BY <2>3, <2>4, <2>6
    <3> HIDE DEF A, B, a, b
    <3> QED BY <2>2, <2>3, <2>5, <2>6, <3>1, <3>2 DEF LogOf, At, A, B, a, b
  <2>8. /\ PlaceA' = PlaceA /\ PlaceB' = PlaceB /\ content' = content
        /\ mishaps' = mishaps /\ nvm' = nvm /\ tmpArea' = tmpArea
    BY <2>1, <2>2, <2>3 DEF PlaceA, PlaceB
  <2>9. ASSUME ~Lost, NEW p \in Pages, ~Swapped(p)'
        PROVE  Holds(PlaceOf(p), p)'
    <3>1. ~Swapped(p)
      BY <2>2, <2>3, <2>5, <2>9 DEF Swapped
    <3>2. Holds(PlaceOf(p), p)
      BY <1>T, <2>9, <3>1 DEF DataKept
    <3>3. PlaceOf(p)' = PlaceOf(p)
      BY <2>1 DEF PlaceOf
    <3> QED BY <2>8, <3>2, <3>3 DEF Holds
  <2>10. ~Lost => AfterCopy
    BY <1>T, <2>1 DEF DataKept, At
  <2> HIDE DEF A, B, a, b
  <2>11. SwapRecoverable'
    <3> DEFINE hasA == content[a] = Trimmed \/ nvm[PlaceA] = content[a]
               movedA == content[a] = Trimmed \/ nvm[PlaceB] = content[a]
               savedB == content[b] = Trimmed \/ tmpArea = content[b]
               movedB == content[b] = Trimmed \/ nvm[PlaceA] = content[b]
    <3>1. ~Lost =>
            IF logEntry.fast THEN movedA
            ELSE /\ logEntry.step = 1 => hasA /\ savedB
                 /\ logEntry.step = 2 => movedA /\ savedB
                 /\ logEntry.step = 3 => movedA /\ movedB
      BY <1>T, <2>2, <2>3, <2>4, <2>10 DEF AfterCopy, SwapRecoverable, Holds, TmpHolds
    <3>2. CASE logEntry.fast
      BY <1>M, <2>3, <2>4, <2>8, <3>1, <3>2 DEF SwapRecoverable, Holds, TmpHolds
    <3>3. CASE ~logEntry.fast /\ logEntry.step = 1
      BY <1>M, <2>3, <2>8, <3>1, <3>3 DEF SwapRecoverable, Holds, TmpHolds
    <3>4. CASE ~logEntry.fast /\ logEntry.step = 2
      BY <1>M, <2>3, <2>8, <3>1, <3>4 DEF SwapRecoverable, Holds, TmpHolds
    <3>5. CASE ~logEntry.fast /\ logEntry.step = 3
      BY <1>M, <2>3, <2>8, <3>1, <3>5 DEF SwapRecoverable, Holds, TmpHolds
    <3> QED BY <2>4, <3>2, <3>3, <3>4, <3>5
  <2>12. to \in {"copy", "tables"}
    OBVIOUS
  <2> HIDE DEF to
  <2> QED BY <1>4, <2>1, <2>7, <2>9, <2>11, <2>12
<1>8. CASE FinishSwap(t)
  <2> DEFINE g == unmap[LogicBlock]
             h == PageUnmapTableSet(PageUnmapTableSet(g, A, b), B, a)
  <2>1. /\ th[t].pc = "tables" /\ To(t, "release") /\ logEntry' = NoEntry
        /\ UNCHANGED SwapFrame /\ UNCHANGED <<nvm, tmpArea>>
        /\ SwapTables(t)
    BY <1>8 DEF FinishSwap, LogPageSwapEnd, At
  <2>2. /\ logEntry # NoEntry /\ logEntry \in SwapEntries
        /\ logEntry.logicA = a /\ logEntry.logicB = b
        /\ logEntry.fast => content[b] = Trimmed
        /\ PlaceA = <<physBlock, A>> /\ PlaceB = <<physBlock, B>>
        /\ logEntry.step = LastStep
    <3>1. logEntry.step = LastStep
      BY <1>T, <2>1 DEF LogOwned, LogOf, LoggedPcs, At
    <3> QED BY <1>E, <2>1, <3>1 DEF LoggedPcs
  <2>3. /\ unmap' = [unmap EXCEPT ![LogicBlock] = h]
        /\ relativeIndex' = [relativeIndex EXCEPT ![a] = relativeIndex[b],
                                                  ![b] = relativeIndex[a]]
    BY <2>1, <2>2 DEF SwapTables
  <2>4. g \in Groups /\ unmap'[LogicBlock] = h
    BY <1>S, <1>T, <2>3, GetFacts DEF TypeOK, Blocks, LogicBlock
  <2>5. /\ PageUnmapTableSet(g, A, b) \in Groups
        /\ \A k \in Pages : GroupGet(PageUnmapTableSet(g, A, b), k) =
             IF k = A THEN b ELSE GroupGet(g, k)
    <3> HIDE DEF g, A, a, b
    <3> QED BY <1>S, <2>4, GroupSetFacts
  <2>6. \A k \in Pages : GroupGet(h, k) =
          IF k = B THEN a ELSE GroupGet(PageUnmapTableSet(g, A, b), k)
    <3> DEFINE f == PageUnmapTableSet(g, A, b)
    <3>1. f \in Groups
      BY <2>5
    <3> HIDE DEF f, g, A, B, a, b
    <3>2. \A k \in Pages : GroupGet(PageUnmapTableSet(f, B, a), k) =
            IF k = B THEN a ELSE GroupGet(f, k)
      BY <1>S, <3>1, GroupSetFacts
    <3> QED BY <3>2 DEF f
  <2>7. /\ GroupGet(unmap'[LogicBlock], A) = b /\ GroupGet(unmap'[LogicBlock], B) = a
        /\ \A k \in Pages : k \notin {A, B} =>
             GroupGet(unmap'[LogicBlock], k) = GroupGet(g, k)
    <3> HIDE DEF g, h, A, B, a, b
    <3> QED BY <1>S, <2>4, <2>5, <2>6
  <2>8. /\ relativeIndex'[a] = B /\ relativeIndex'[b] = A
        /\ \A p \in Pages : p \notin {a, b} => relativeIndex'[p] = relativeIndex[p]
    BY <1>F, <1>S, <2>3
  <2>9. /\ A' = A /\ B' = B /\ th'[t].pc = "release" /\ HasUpper(t)'
        /\ th'[t].phys = th[t].phys /\ th'[t].new = th[t].new
        /\ \A u \in Threads : u # t => th'[u] = th[u]
    BY <1>3, <2>1
  <2>10. a' = b /\ b' = a
    <3>1. /\ a' = GroupGet(unmap'[LogicBlock], A')
          /\ b' = GroupGet(unmap'[LogicBlock], B')
      BY DEF PageUnmapTableGet, GetUnmapPageRelativeIndexFromEntry, GroupGet
    <3> HIDE DEF A, B, a, b
    <3> QED BY <2>7, <2>9, <3>1
  <2>11. \A p, q \in Pages : relativeIndex'[p] = relativeIndex'[q] => p = q
    BY <1>S, <1>T, <2>8 DEF MapKept
  <2>12. UnmapInverse'
    <3> SUFFICES ASSUME "misformatted" \notin mishaps, ~Undone, NEW p \in Pages
                 PROVE  PageUnmapTableGet(relativeIndex[p])' = p
      BY <1>M, <2>1 DEF UnmapInverse
    <3>1. CASE p \in {a, b}
      <4>1. PageUnmapTableGet(relativeIndex[p])'
              = GroupGet(unmap'[LogicBlock], relativeIndex'[p])
        BY DEF PageUnmapTableGet, GetUnmapPageRelativeIndexFromEntry, GroupGet
      <4> HIDE DEF A, B, a, b
      <4> QED BY <2>7, <2>8, <3>1, <4>1
    <3>2. CASE p \notin {a, b}
      <4>1. /\ relativeIndex[p] \in Pages /\ relativeIndex[p] \notin {A, B}
            /\ relativeIndex'[p] = relativeIndex[p]
        BY <1>F, <1>S, <2>8, <3>2
      <4>2. PageUnmapTableGet(relativeIndex[p]) = p
        BY <1>S, <1>T DEF UnmapInverse
      <4>3. PageUnmapTableGet(relativeIndex[p])'
              = GroupGet(unmap'[LogicBlock], relativeIndex[p])
        BY <4>1 DEF PageUnmapTableGet, GetUnmapPageRelativeIndexFromEntry, GroupGet
      <4>4. PageUnmapTableGet(relativeIndex[p]) = GroupGet(g, relativeIndex[p])
        BY <1>T, <4>1, GetFacts
      <4> HIDE DEF A, B, a, b, g, h
      <4> QED BY <2>7, <4>1, <4>2, <4>3, <4>4
    <3> QED BY <3>1, <3>2
  <2>13. ASSUME ~Lost, NEW p \in Pages PROVE Holds(PlaceOf(p), p)'
    <3>1. /\ content' = content /\ nvm' = nvm
          /\ PlaceOf(p)' = <<physBlock, relativeIndex'[p]>>
      BY <1>S, <2>1 DEF PlaceOf
    <3>2. CASE p \notin {a, b}
      <4>1. ~Swapped(p)
        BY <2>2, <3>2 DEF Swapped
      <4>2. Holds(PlaceOf(p), p)
        BY <1>T, <2>13, <4>1 DEF DataKept
      <4> QED BY <1>2, <2>8, <3>1, <3>2, <4>2 DEF Holds
    <3>3. /\ content[a] = Trimmed \/ nvm[<<physBlock, B>>] = content[a]
          /\ content[b] = Trimmed \/ nvm[<<physBlock, A>>] = content[b]
      <4>1. logEntry.fast \in BOOLEAN
        BY <2>2 DEF SwapEntries
      <4>2. CASE logEntry.fast
        BY <1>T, <2>2, <2>13, <4>2 DEF SwapRecoverable, Holds, LastStep
      <4>3. CASE ~logEntry.fast
        BY <1>T, <2>2, <2>13, <4>3 DEF SwapRecoverable, Holds, LastStep
      <4> QED BY <4>1, <4>2, <4>3
    <3> HIDE DEF A, B, a, b
    <3> QED BY <2>8, <3>1, <3>2, <3>3 DEF Holds
  <2>14. SwapRecoverable' /\ LogOf(t)'
    BY <2>1, <2>9 DEF SwapRecoverable, LogOf, LoggedPcs
  <2>15. relativeIndex'[a'] = A /\ relativeIndex'[b'] = B /\ {a', b'} = {a, b}
    BY <2>8, <2>10
  <2> QED BY <1>1, <2>1, <2>8, <2>9, <2>11, <2>12, <2>13, <2>14, <2>15, SwapStep
<1> QED BY <1>5, <1>6, <1>7, <1>8

\* A step of the block swap: the threads and the page tables are as they were.
LEMMA MoverStep ==
  ASSUME Core, TypeOK', BlockLockExclusive', blockLock <= blockLock',
         UNCHANGED <<th, fineGrain, page, unmap, swap, content>>,
         mishaps \subseteq mishaps',
         \/ physBlock' = physBlock
         \/ blockLock' = blockLock /\ ~Unlocked(blockLock),
         \/ nvm' = nvm /\ physBlock' = physBlock
         \/ \A t \in Threads : th[t].pc \notin SwapPcs,
         ~Lost' => \A p \in Pages : \/ content[p] = Trimmed
                                    \/ nvm'[PlaceOf(p)'] = nvm[PlaceOf(p)]
  PROVE  Core'
<1> USE DEF page, swap, Lost, Undone
<1>T. /\ TypeOK /\ PageLockExclusive /\ MapKept /\ LogOwned /\ DataKept /\ ReadersSafe
      /\ UnmapInverse /\ SwapRecoverable
  BY DEF Core, Consistent
<1>1. \A u \in Threads : Alike(u)
  BY DEF Alike
<1>2. PageLockExclusive'
  <2>1. \A u \in Threads, p \in Pages : HasPage(u, p)' <=> HasPage(u, p)
    BY <1>1, HasPageAlike
  <2> QED BY <1>T, <2>1 DEF PageLockExclusive, At
<1>3. MapKept'
  BY <1>T, <1>1, PlacedAlike DEF MapKept
<1>4. LogOwned'
  BY <1>T, <1>1, LogAlike DEF LogOwned
<1>5. \/ nvm' = nvm /\ physBlock' = physBlock
      \/ logEntry = NoEntry /\ \A t \in Threads : ~At(t, "commit")
  BY <1>T DEF LogOwned, LoggedPcs, SwapPcs, At
<1>6. SwapRecoverable'
  BY <1>T, <1>5 DEF SwapRecoverable, Holds, TmpHolds, PlaceA, PlaceB
<1>7. DataKept'
  <2>1. \A p \in Pages : ~Swapped(p)' => ~Swapped(p)
    BY DEF Swapped
  <2>2. ~Lost' => \A p \in Pages : Holds(PlaceOf(p), p) => Holds(PlaceOf(p), p)'
    BY DEF Holds
  <2>3. (\E t \in Threads : At(t, "commit")) /\ AfterCopy
          /\ (\E t \in Threads : At(t, "commit"))' => AfterCopy'
    BY <1>5 DEF AfterCopy, Holds, TmpHolds, PlaceA, PlaceB, At
  <2>4. (\E t \in Threads : At(t, "commit"))' => \E t \in Threads : At(t, "commit")
    BY DEF At
  <2>5. \A u \in Threads, p \in Pages : Marking(u, p)' <=> Marking(u, p)
    BY DEF Marking
  <2> QED BY <1>T, <2>1, <2>2, <2>3, <2>4, <2>5 DEF DataKept
<1>8. ReadersSafe'
  <2>1. blockLock' \in Nat /\ pageLock' \in [Pages -> Nat]
        /\ \A q \in Pages : pageLock[q] <= pageLock'[q]
    BY <1>T DEF TypeOK
  <2>2. ASSUME NEW u \in Threads PROVE ReaderSafe(u)'
    <3>1. \A p \in Pages : relativeIndex'[p] = relativeIndex[p]
      OBVIOUS
    <3>2. content'[th[u].page] = content[th[u].page] /\ mishaps \subseteq mishaps'
      OBVIOUS
    <3> QED BY <1>T, <1>1, <2>1, <3>1, <3>2, ReaderAlike
  <2> QED BY <2>2 DEF ReadersSafe
<1>9. UnmapInverse'
  BY <1>T DEF UnmapInverse, PageUnmapTableGet
<1> QED BY <1>2, <1>3, <1>4, <1>6, <1>7, <1>8, <1>9 DEF Core, Consistent

\* Split and merge, at which nobody is at a page.
LEMMA UnusedStep ==
  ASSUME Core, TypeOK', PagesUnused,
         UNCHANGED <<th, mover, logEntry>>, blockLock' = blockLock + 2,
         \A p \in Pages : content'[p] = Trimmed,
         \A p, q \in Pages : relativeIndex'[p] = relativeIndex'[q] => p = q,
         UnmapInverse'
  PROVE  Core'
<1>T. TypeOK /\ BlockLockExclusive /\ LogOwned
  BY DEF Core, Consistent
<1>1. \A t \in Threads : th'[t].pc = "idle" /\ th[t].pc = "idle"
  BY DEF PagesUnused, At
<1>2. BlockLockExclusive'
  <2>1. mover.pc = "idle" /\ mover' = mover
    BY <1>T DEF BlockLockExclusive, PagesUnused
  <2> QED BY <1>1, <2>1 DEF BlockLockExclusive, SwapPcs
<1>3. PageLockExclusive'
  BY <1>1 DEF PageLockExclusive, HasPage, HasLower, HasUpper, At, SwapPcs, OwnPcs
<1>4. MapKept'
  BY <1>1 DEF MapKept, Placed, HasLower, HasUpper, At, SwapPcs
<1>5. logEntry' = NoEntry
  BY <1>T, <1>1 DEF LogOwned, LoggedPcs
<1>6. LogOwned'
  BY <1>1, <1>5 DEF LogOwned, LogOf, LoggedPcs
<1>7. DataKept'
  BY <1>1 DEF DataKept, Holds, At
<1>8. ReadersSafe'
  BY <1>1 DEF ReadersSafe, ReaderSafe, ReadPcs, At
<1>9. SwapRecoverable'
  BY <1>5 DEF SwapRecoverable
<1> QED BY <1>2, <1>3, <1>4, <1>6, <1>7, <1>8, <1>9 DEF Core, Consistent

\* The block swap, merge, split and the eviction of a bitmap group.
LEMMA MoverActions ==
  ASSUME Core, TypeOK', MoverNext
  PROVE  Core'
<1> USE DEF page, swap
<1>T. TypeOK /\ BlockLockExclusive /\ DataKept /\ blockLock \in Nat
      /\ nvm \in [Blocks \X Pages -> 0 .. MaxOps] /\ physBlock \in Blocks
      /\ relativeIndex \in [Pages -> Pages]
  BY DEF Core, Consistent, TypeOK
<1>1. CASE LockBlockForSwap
  <2>1. /\ mover.pc = "idle" /\ Unlocked(blockLock) /\ blockLock' = blockLock + 1
        /\ mover'.pc # "map" /\ UNCHANGED <<nvm, physBlock>>
        /\ UNCHANGED <<th, fineGrain, page, unmap, swap, content, mishaps>>
    BY <1>1 DEF LockBlockForSwap
  <2>2. BlockLockExclusive'
    BY <1>T, <2>1, OddNext DEF BlockLockExclusive
  <2>3. \A p \in Pages : PlaceOf(p)' = PlaceOf(p)
    BY <2>1 DEF PlaceOf
  <2> QED BY <1>T, <2>1, <2>2, <2>3, MoverStep
<1>2. CASE WaitForAllPagesUnlock
  <2>1. /\ mover.pc = "wait" /\ mover'.pc \in {"wait", "copy"}
        /\ UNCHANGED <<nvm, physBlock, blockLock>>
        /\ UNCHANGED <<th, fineGrain, page, unmap, swap, content, mishaps>>
    BY <1>2, <1>T DEF WaitForAllPagesUnlock, TypeOK
  <2>2. BlockLockExclusive'
    BY <1>T, <2>1 DEF BlockLockExclusive
  <2>3. \A p \in Pages : PlaceOf(p)' = PlaceOf(p)
    BY <2>1 DEF PlaceOf
  <2> QED BY <1>T, <2>1, <2>2, <2>3, MoverStep
<1>3. CASE BlockSwapCopy
  <2>1. /\ mover.pc = "copy" /\ mover'.pc = "map"
        /\ UNCHANGED <<physBlock, blockLock>>
        /\ UNCHANGED <<th, fineGrain, page, unmap, swap, content>>
        /\ mishaps \subseteq mishaps'
    BY <1>3, <1>T DEF BlockSwapCopy, MoveTo, TypeOK
  <2>2. BlockLockExclusive' /\ \A t \in Threads : th[t].pc \notin SwapPcs
    BY <1>T, <2>1 DEF BlockLockExclusive
  <2>3. ASSUME NEW p \in Pages, ~Lost', content[p] # Trimmed
        PROVE  nvm'[PlaceOf(p)'] = nvm[PlaceOf(p)]
    <3> DEFINE i == relativeIndex[p]
    <3>1. /\ PlaceOf(p) = <<physBlock, i>> /\ PlaceOf(p)' = <<1 - physBlock, i>>
      BY <2>1 DEF PlaceOf
    <3>2. i \in Pages /\ 1 - physBlock \in Blocks /\ 1 - (1 - physBlock) = physBlock
      BY <1>T DEF Blocks
    <3>3. \/ nvm' = [x \in Blocks \X Pages |-> nvm[<<1 - x[1], x[2]>>]]
          \/ nvm' = [x \in Blocks \X Pages |-> nvm[<<physBlock, x[2]>>]]
      BY <1>3, <2>3 DEF BlockSwapCopy, Lost
    <3> HIDE DEF i
    <3>4. <<1 - physBlock, i>> \in Blocks \X Pages
      BY <3>2
    <3>5. nvm'[<<1 - physBlock, i>>] = nvm[<<physBlock, i>>]
      <4>1. CASE nvm' = [x \in Blocks \X Pages |-> nvm[<<1 - x[1], x[2]>>]]
        <5>1. nvm'[<<1 - physBlock, i>>] = nvm[<<1 - (1 - physBlock), i>>]
          BY <3>4, <4>1
        <5> QED BY <3>2, <5>1
      <4>2. CASE nvm' = [x \in Blocks \X Pages |-> nvm[<<physBlock, x[2]>>]]
        BY <3>4, <4>2
      <4> QED BY <3>3, <4>1, <4>2
    <3> QED BY <3>1, <3>5
  <2>4. ~Lost' => \A p \in Pages : \/ content[p] = Trimmed
                                   \/ nvm'[PlaceOf(p)'] = nvm[PlaceOf(p)]
    BY <2>3
  <2>5. blockLock <= blockLock' /\ physBlock' = physBlock
    BY <1>T, <2>1
  <2> QED BY <2>1, <2>2, <2>4, <2>5, MoverStep
<1>4. CASE MapTableBlockSwap
  <2>1. /\ mover.pc = "map" /\ mover'.pc = "unlock" /\ physBlock' = 1 - physBlock
        /\ UNCHANGED <<nvm, blockLock>>
        /\ UNCHANGED <<th, fineGrain, page, unmap, swap, content, mishaps>>
    BY <1>4, <1>T DEF MapTableBlockSwap, MoveTo, TypeOK
  <2>2. /\ BlockLockExclusive' /\ ~Unlocked(blockLock)
        /\ \A t \in Threads : th[t].pc \notin SwapPcs
    BY <1>T, <2>1 DEF BlockLockExclusive
  <2>3. \A p \in Pages : PlaceOf(p)' = PlaceOf(p)
    BY <2>1 DEF PlaceOf
  <2> QED BY <1>T, <2>1, <2>2, <2>3, MoverStep
<1>5. CASE UnlockBlockForSwap
  <2>1. /\ mover.pc = "unlock" /\ mover'.pc = "idle" /\ blockLock' = blockLock + 1
        /\ UNCHANGED <<nvm, physBlock>>
        /\ UNCHANGED <<th, fineGrain, page, unmap, swap, content, mishaps>>
    BY <1>5, <1>T DEF UnlockBlockForSwap, MoveTo, TypeOK
  <2>2. BlockLockExclusive'
    BY <1>T, <2>1 DEF BlockLockExclusive
  <2>3. \A p \in Pages : PlaceOf(p)' = PlaceOf(p)
    BY <2>1 DEF PlaceOf
  <2> QED BY <1>T, <2>1, <2>2, <2>3, MoverStep
<1>6. CASE NVMPagesMerge
  <2>1. /\ PagesUnused /\ UNCHANGED <<th, mover, logEntry>> /\ ~fineGrain'
        /\ blockLock' = blockLock + 2 /\ relativeIndex' = relativeIndex
        /\ \A p \in Pages : content'[p] = Trimmed
    BY <1>6 DEF NVMPagesMerge
  <2>2. UnmapInverse'
    BY <2>1 DEF UnmapInverse
  <2> QED BY <2>1, <2>2, UnusedStep DEF Core, Consistent, MapKept
<1>7. CASE NVMBlockSplit
  <2>1. /\ PagesUnused /\ ~fineGrain /\ UNCHANGED <<th, mover, logEntry, content>>
        /\ blockLock' = blockLock + 2 /\ relativeIndex' = Identity
        /\ mishaps' = IF unmap'[LogicBlock] = PageUnmapTableBatchFormat THEN mishaps
                      ELSE mishaps \cup {"misformatted"}
    BY <1>7 DEF NVMBlockSplit
  <2>2. \A p \in Pages : content'[p] = Trimmed
    BY <1>T, <2>1 DEF DataKept, Marking, PagesUnused, At
  <2>3. \A p, q \in Pages : relativeIndex'[p] = relativeIndex'[q] => p = q
    BY <2>1 DEF Identity
  <2>4. UnmapInverse'
    <3> SUFFICES ASSUME "misformatted" \notin mishaps', NEW p \in Pages
                 PROVE  PageUnmapTableGet(relativeIndex[p])' = p
      BY DEF UnmapInverse
    <3>1. unmap'[LogicBlock] = PageUnmapTableBatchFormat /\ relativeIndex'[p] = p
      BY <2>1 DEF Identity
    <3>2. PageUnmapTableGet(relativeIndex[p])'
            = GroupGet(unmap'[LogicBlock], relativeIndex'[p])
      BY DEF PageUnmapTableGet, GetUnmapPageRelativeIndexFromEntry, GroupGet
    <3> QED BY <3>1, <3>2, FormatFacts
  <2> QED BY <2>1, <2>2, <2>3, <2>4, UnusedStep
<1>8. ASSUME NEW b \in Blocks, PageGroupEvicted(b) PROVE Core'
  <2>1. /\ UNCHANGED <<nvm, physBlock, blockLock, mover>>
        /\ UNCHANGED <<th, fineGrain, page, unmap, swap, content, mishaps>>
    BY <1>8 DEF PageGroupEvicted
  <2>2. BlockLockExclusive'
    BY <1>T, <2>1 DEF BlockLockExclusive
  <2>3. \A p \in Pages : PlaceOf(p)' = PlaceOf(p)
    BY <2>1 DEF PlaceOf
  <2> QED BY <1>T, <2>1, <2>2, <2>3, MoverStep
<1> QED BY <1>1, <1>2, <1>3, <1>4, <1>5, <1>6, <1>7, <1>8 DEF MoverNext

(***************************************************************************)
(* The invariant, and what it says of the page manager.                    *)
(***************************************************************************)
LEMMA InvInit == Init => PageInv
<1> SUFFICES ASSUME Init PROVE PageInv
  OBVIOUS
<1>T. TypeOK
  BY TypeInit
<1>1. /\ \A t \in Threads : th[t] = Nothing /\ th[t].pc = "idle"
      /\ mover.pc = "idle" /\ logEntry = NoEntry /\ mishaps = {}
      /\ relativeIndex = Identity /\ content = [p \in Pages |-> Trimmed]
      /\ unmap[LogicBlock] = PageUnmapTableBatchFormat
  BY DEF Init, Nothing, PageSwapLogFormat, Blocks, LogicBlock
<1>2. BlockLockExclusive /\ PageLockExclusive
  BY <1>1 DEF BlockLockExclusive, PageLockExclusive, HasPage, HasLower, HasUpper,
              SwapPcs, OwnPcs, At
<1>3. MapKept
  BY <1>1 DEF MapKept, Placed, HasLower, HasUpper, SwapPcs, At, Identity
<1>4. LogOwned
  BY <1>1 DEF LogOwned, LogOf, LoggedPcs
<1>5. DataKept
  BY <1>1 DEF DataKept, Holds, At
<1>6. ReadersSafe
  BY <1>1 DEF ReadersSafe, ReaderSafe, ReadPcs, At
<1>7. UnmapInverse
  <2>1. ASSUME NEW p \in Pages PROVE PageUnmapTableGet(relativeIndex[p]) = p
    BY <1>1, <1>T, FormatFacts, GetFacts DEF Identity
  <2> QED BY <2>1 DEF UnmapInverse
<1>8. SwapRecoverable
  BY <1>1 DEF SwapRecoverable
<1> QED BY <1>T, <1>2, <1>3, <1>4, <1>5, <1>6, <1>7, <1>8 DEF PageInv, Consistent

\* Every step keeps the invariant.
LEMMA InvStep == PageInv /\ [Next]_vars => PageInv'
<1> SUFFICES ASSUME PageInv, [Next]_vars PROVE PageInv'
  OBVIOUS
<1>C. Core' => PageInv'
  BY DEF Core, PageInv
<1>D. ~Undone => Core /\ TypeOK /\ LogOwned
  BY DEF PageInv, Core, Consistent
<1>1. ASSUME ~Undone, NEW t \in Threads, ThreadNext(t) PROVE PageInv'
  <2>1. TypeOK' /\ Core
    BY <1>D, <1>1, TypeThread
  <2>2. CASE MapTablePageBusy(t)
    <3>1. CASE blockLock' = blockLock /\ physBlock' = physBlock
      BY <1>C, <2>1, <2>2, <3>1, MarkActions
    <3>2. CASE ~(blockLock' = blockLock /\ physBlock' = physBlock)
      <4>1. Undone'
        BY <2>2, <3>2 DEF MapTablePageBusy, Undone
      <4> QED BY <2>1, <4>1 DEF PageInv
    <3> QED BY <3>1, <3>2
  <2>3. CASE ~MapTablePageBusy(t)
    BY <1>C, <1>1, <2>1, <2>3, QuietActions, LockActions, UserActions, SwapActions,
       MarkActions DEF ThreadNext
  <2> QED BY <2>2, <2>3
<1>2. ASSUME ~Undone, MoverNext PROVE PageInv'
  BY <1>C, <1>D, <1>2, TypeMover, MoverActions
<1>3. CASE UNCHANGED vars
  <2>1. /\ UNCHANGED <<nvm, physBlock, blockLock, fineGrain, unmap, wear, bitmap,
                       th, mover, content, mishaps, ops, moves>>
        /\ UNCHANGED <<relativeIndex, pageLock, busy>>
        /\ UNCHANGED <<tmpArea, logEntry, logIndex, areaIndex>>
    BY <1>3 DEF vars, page, swap
  <2>2. TypeOK'
    BY <2>1 DEF PageInv, TypeOK
  <2>3. CASE Undone
    BY <2>1, <2>2, <2>3 DEF PageInv, Undone
  <2>4. CASE ~Undone
    <3>1. Core
      BY <1>D, <2>4
    <3>2. BlockLockExclusive'
      BY <2>1, <3>1 DEF Core, Consistent, BlockLockExclusive
    <3>3. \A p \in Pages : PlaceOf(p)' = PlaceOf(p)
      BY <2>1 DEF PlaceOf
    <3>4. blockLock <= blockLock'
      BY <2>1, <3>1 DEF Core, TypeOK
    <3> QED BY <1>C, <2>1, <2>2, <3>1, <3>2, <3>3, <3>4, MoverStep DEF page, swap
  <2> QED BY <2>3, <2>4
<1> QED BY <1>1, <1>2, <1>3 DEF Next

\* The locks of a block and of its pages are exclusive, the map is a
\* permutation, the log of a page swap tells where the data is and a reader
\* notices every change, whatever threads and block swap do: the invariant
\* of PageManager.c that carries the theorems below.  It lasts until the store
\* to the block's word in MapTablePageBusy takes back a lock or a remap, which
\* ends the model.  Counters are those of the code with the rounds they have
\* made (LOCK_RANGE).
THEOREM PageInvariant == Spec => []PageInv
<1>1. Init => PageInv
  BY InvInit
<1>2. PageInv /\ [Next]_vars => PageInv'
  BY InvStep
<1> QED BY <1>1, <1>2, PTL DEF Spec

\* The map, the unmap groups, the wear counts, the bitmap and the slots of
\* swap log and swap area keep their range: no step of PageManager.c indexes
\* outside its tables.
THEOREM PageTypes == Spec => []TypeOK
<1>1. PageInv => TypeOK
  BY DEF PageInv
<1> QED BY <1>1, PageInvariant, PTL

\* Every page swap changes PageUnmapTable and the map table to inverses of each
\* other, as long as every split has formatted the group that is read and
\* MapTablePageBusy has taken no lock back.
THEOREM PageUnmapIsInverse == Spec => []UnmapInverse
<1>1. PageInv => UnmapInverse
  BY DEF PageInv, Consistent, UnmapInverse
<1> QED BY <1>1, PageInvariant, PTL

\* At every step of SwapPageFast and SwapPageSlow the log entry says where both
\* pages are, until a page write is lost in one of the three ways of Lost.
THEOREM PageSwapIsRecoverable == Spec => []SwapRecoverable
<1>1. PageInv => SwapRecoverable
  BY DEF PageInv, Consistent, SwapRecoverable, Lost
<1> QED BY <1>1, PageInvariant, PTL

\* A page that nobody has locked is where its mapping leads to: page writes,
\* trims, page swaps and block swaps by any number of threads lose nothing until
\* a store overtakes the wait of a block swap, a fast block swap takes the block
\* for a free one, or MapTablePageBusy takes back a lock or a remap.
THEOREM PageDataIsKept == Spec => []PageDataKept
<1>1. ASSUME PageInv, ~Lost, fineGrain, NEW p \in Pages,
             content[p] # Trimmed, Unlocked(pageLock[p])
      PROVE  nvm[PlaceOf(p)] = content[p]
  <2>0. Core
    BY <1>1 DEF PageInv, Core, Lost
  <2>1. ~Swapped(p)
    <3> SUFFICES ASSUME Swapped(p) PROVE FALSE
      OBVIOUS
    <3>1. PICK t \in Threads : th[t].pc \in LoggedPcs
      BY <2>0 DEF Core, Consistent, LogOwned, Swapped
    <3>2. HasUpper(t)
      BY <3>1 DEF LoggedPcs, HasUpper, SwapPcs
    <3>3. \/ p = PageUnmapTableGet(PageA(t)) \/ p = PageUnmapTableGet(PageB(t))
      BY <2>0, <3>1 DEF Core, Consistent, LogOwned, LogOf, Swapped
    <3>4. HasPage(t, p)
      BY <2>0, <3>2, <3>3, SwapperFacts
    <3> QED BY <3>4, <1>1, <2>0 DEF Core, Consistent, PageLockExclusive
  <2> QED BY <1>1, <2>0, <2>1 DEF Core, Consistent, DataKept, Holds
<1>2. PageInv => PageDataKept
  BY <1>1 DEF PageDataKept
<1> QED BY <1>2, PageInvariant, PTL

\* A read that MapTableUnlockPageForRead lets through gives a value the page
\* had during the call, although it takes no lock, until a page write is lost in
\* one of the three ways of Lost or one of the two counters, of LOCK_RANGE values
\* each, has made a full round during one read.
THEOREM PageReadIsAtomic == Spec => []PageReadAtomic
<1>1. PageInv => PageReadAtomic
  BY DEF PageInv, Consistent, ReadersSafe, ReaderSafe, PageReadAtomic, Lost
<1> QED BY <1>1, PageInvariant, PTL
=============================================================================
