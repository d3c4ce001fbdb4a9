--------------------------- MODULE FileDataProofs ---------------------------
(***************************************************************************)
(* Proofs about FileData, for every size of pages and blocks, every page   *)
(* pool and block pool, all lengths of writes and numbers of calls.        *)
(*                                                                         *)
(* Two inductive invariants.  Struct is about who has what: the log always *)
(* rebuilds to a good manager (its extents apart, each in one space, the   *)
(* place to write at behind none of them), the manager in memory is that   *)
(* one, the spaces a call has yet to add are just enough for what it has   *)
(* yet to write, and each page and block has one holder.  Content is about *)
(* data: the file the extents show is that of the calls that returned with *)
(* a leading part of the call underway, and what is stored and not yet     *)
(* logged lies where no extent is.  A read is a walk over the extents; its *)
(* loop invariant is Passed.                                               *)
(***************************************************************************)
EXTENDS FileData, SharedLemmas, FunctionTheorems

-----------------------------------------------------------------------------
\* Numbers.

\* Multiples keep their order.
LEMMA TimesMono ==
  ASSUME NEW k \in Nat \ {0}, NEW a \in Int, NEW b \in Int
  PROVE  /\ a * k \in Int
         /\ a <= b <=> a * k <= b * k
         /\ a < b <=> a * k < b * k
         /\ (a + 1) * k = a * k + k
         /\ (b - a) * k = b * k - a * k
<1>1. a * k \in Int /\ b * k \in Int /\ (a + 1) * k = a * k + k
  OBVIOUS
<1>2. ASSUME NEW c \in Int, NEW d \in Int, c < d PROVE c * k + k <= d * k
  <2>1. d = c + 1 + (d - c - 1) /\ d - c - 1 \in Nat
    BY <1>2
  <2> DEFINE e == d - c - 1
  <2>2. e \in Nat /\ d = c + 1 + e
    BY <2>1
  <2> HIDE DEF e
  <2>3. e * k \in Nat
    BY <2>2
  <2>4. d * k = c * k + k + e * k
    BY <2>2
  <2> QED BY <2>2, <2>3, <2>4
<1>3. a < b => a * k + k <= b * k
  BY <1>2
<1>4. b < a => b * k + k <= a * k
  BY <1>2
<1>5. (b - a) * k = b * k - a * k
  <2> DEFINE e == b - a
  <2>1. e \in Int /\ b = a + e
    OBVIOUS
  <2> HIDE DEF e
  <2>2. b * k = a * k + e * k /\ e * k \in Int
    BY <2>1
  <2> QED BY <1>1, <2>1, <2>2 DEF e
<1> QED BY <1>1, <1>3, <1>4, <1>5

\* A number lies in the piece of size k that its quotient names.
LEMMA DivFacts ==
  ASSUME NEW k \in Nat \ {0}, NEW w \in Int
  PROVE  /\ w \div k \in Int
         /\ (w \div k) * k <= w
         /\ w < (w \div k) * k + k
<1>1. w \div k \in Int
  OBVIOUS
<1>2. k * (w \div k) <= w
  OBVIOUS
<1>3. w < k * (w \div k) + k
  OBVIOUS
<1> DEFINE q == w \div k
<1>4. q \in Int /\ k * q <= w /\ w < k * q + k
  BY <1>1, <1>2, <1>3
<1> HIDE DEF q
<1>5. q * k = k * q
  BY <1>4
<1> QED BY <1>4, <1>5 DEF q

\* Between which multiples a number lies.
LEMMA DivRange ==
  ASSUME NEW k \in Nat \ {0}, NEW w \in Int, NEW a \in Int, NEW b \in Int
  PROVE  /\ a * k <= w <=> a <= w \div k
         /\ w < b * k <=> w \div k < b
         /\ (a * k) \div k = a
<1>1. ASSUME NEW v \in Int, NEW c \in Int
      PROVE  (c * k <= v <=> c <= v \div k) /\ (v < c * k <=> v \div k < c)
  <2> DEFINE q == v \div k
  <2>1. q \in Int /\ q * k <= v /\ v < q * k + k
    BY DivFacts
  <2> HIDE DEF q
  <2>2. c * k \in Int /\ q * k \in Int
    BY <2>1
  <2>3. c <= q => c * k <= q * k
    BY <2>1, TimesMono
  <2>4. q < c => q * k + k <= c * k
    <3>1. (q + 1) * k = q * k + k
      BY <2>1, TimesMono
    <3>2. q + 1 \in Int /\ (q < c => q + 1 <= c)
      BY <2>1
    <3>3. q + 1 <= c => (q + 1) * k <= c * k
      BY <3>2, TimesMono
    <3> QED BY <3>1, <3>2, <3>3
  <2>5. (c * k <= v <=> c <= q) /\ (v < c * k <=> q < c)
    BY <2>1, <2>2, <2>3, <2>4
  <2> QED BY <2>5 DEF q
<1>2. (a * k) \div k = a
  <2>1. a * k \in Int /\ (a + 1) * k = a * k + k
    BY TimesMono
  <2>2. a <= (a * k) \div k
    BY <1>1, <2>1
  <2>3. a * k < (a + 1) * k /\ a + 1 \in Int
    BY <2>1
  <2>4. (a * k) \div k < a + 1
    BY <1>1, <2>1, <2>3
  <2>5. (a * k) \div k \in Int
    BY <2>1, DivFacts
  <2> QED BY <2>2, <2>4, <2>5
<1> QED BY <1>1, <1>2

\* Quotients keep the order.
LEMMA DivMono ==
  ASSUME NEW k \in Nat \ {0}, NEW v \in Int, NEW w \in Int, v <= w
  PROVE  v \div k <= w \div k
<1> DEFINE q == v \div k
<1>1. q \in Int /\ q * k <= v
  BY DivFacts
<1> HIDE DEF q
<1>2. q * k <= w
  <2>1. q * k \in Int
    BY <1>1
  <2> QED BY <1>1, <2>1
<1>3. q <= w \div k
  BY <1>1, <1>2, DivRange
<1> QED BY <1>3 DEF q

-----------------------------------------------------------------------------
\* The types of what a manager keeps and a log entry says.

SpaceNodes == [start : Int, size : Int]
ExtentNodes == [start : Int, size : Int, fileStart : Int]
Trees == [extents : SUBSET ExtentNodes, spaces : SUBSET SpaceNodes,
          effectiveSize : Int, spaceSize : Int]
Managers == [tree : Trees, curArea : Int, curWriteStart : Int, curSize : Int,
             lastUsedPage : Int, fileMaxLen : Int]
Entries ==
  [type : {"space"}, space : SpaceNodes] \cup [type : {"data"}, extent : ExtentNodes]
  \cup {TruncateEntry}

\* Sets of words of the file are finite.
LEMMA OffsetsFinite ==
  ASSUME NEW S \in SUBSET Offsets
  PROVE  IsFiniteSet(S) /\ Cardinality(S) \in Nat
<1>1. IsFiniteSet(Offsets)
  BY FileAssumption, FS_Interval DEF Offsets
<1>2. IsFiniteSet(S)
  BY <1>1, FS_Subset
<1> QED BY <1>2, FS_CardinalityType

\* ExtentTreeErase and what is left of an extent.
LEMMA EraseTyped ==
  ASSUME NEW tree \in Trees, NEW from \in Int, NEW to \in Int
  PROVE  ExtentTreeErase(tree, from, to) \in Trees
<1> DEFINE hit == {x \in tree.extents : Overlaps(x, from, to)}
           front == UNION {FrontOf(x, from) : x \in hit}
           back == UNION {BackOf(x, to) : x \in hit}
           behind == {o \in Mapped(hit) : o >= to}
           within == {o \in Mapped(hit) : from <= o /\ o < to}
           left == (tree.extents \ hit) \cup front \cup back
           size == (tree.effectiveSize + Cardinality(behind)) - Cardinality(within)
<1>1. \A x \in ExtentNodes : FrontOf(x, from) \in SUBSET ExtentNodes
  BY DEF FrontOf, FileExtent, ExtentNodes
<1>2. \A x \in ExtentNodes : BackOf(x, to) \in SUBSET ExtentNodes
  BY DEF BackOf, FileExtent, FileEnd, ExtentNodes
<1>3. tree.extents \in SUBSET ExtentNodes
  BY DEF Trees
<1>4. behind \in SUBSET Offsets /\ within \in SUBSET Offsets
  BY DEF Mapped
<1>5. Cardinality(behind) \in Nat /\ Cardinality(within) \in Nat
  <2> HIDE DEF behind, within
  <2> QED BY <1>4, OffsetsFinite
<1>6. ExtentTreeErase(tree, from, to) =
        [tree EXCEPT !.extents = left, !.effectiveSize = size]
  BY DEF ExtentTreeErase, DeleteExtentNodes
<1> HIDE DEF behind, within
<1>7. left \in SUBSET ExtentNodes
  <2>1. front \in SUBSET ExtentNodes
    BY <1>1, <1>3
  <2>2. back \in SUBSET ExtentNodes
    BY <1>2, <1>3
  <2> HIDE DEF front, back
  <2> QED BY <1>3, <2>1, <2>2
<1>8. size \in Int
  BY <1>5 DEF Trees
<1> HIDE DEF left, size
<1> QED BY <1>6, <1>7, <1>8 DEF Trees

\* An extent goes in behind an erasure; the tree keeps its type.
LEMMA AddExtentTyped ==
  ASSUME NEW tree \in Trees, NEW x \in ExtentNodes
  PROVE  FileExtentTreeAddExtent(tree, x) \in Trees
<1> DEFINE t == ExtentTreeErase(tree, x.fileStart, FileEnd(x))
<1>1. t \in Trees
  BY EraseTyped DEF ExtentNodes, FileEnd
<1> HIDE DEF t
<1>2. InsertExtentNode(t, x) \in Trees
  <2>1. t.effectiveSize + x.size \in Int /\ t.extents \cup {x} \in SUBSET ExtentNodes
    BY <1>1 DEF Trees, ExtentNodes
  <2> QED BY <1>1, <2>1 DEF Trees, InsertExtentNode
<1> QED BY <1>2 DEF FileExtentTreeAddExtent, t

\* What the callbacks of FileInodeInfoRebuild make of a manager.
LEMMA RebuildTyped ==
  ASSUME NEW m \in Managers, NEW e \in Entries
  PROVE  RebuildEntry(m, e) \in Managers
<1>T. /\ m.tree \in Trees /\ m.curArea \in Int /\ m.curWriteStart \in Int
      /\ m.curSize \in Int /\ m.lastUsedPage \in Int /\ m.fileMaxLen \in Int
  BY DEF Managers
<1>1. CASE e.type = "space"
  <2>1. e.space \in SpaceNodes
    BY <1>1 DEF Entries, TruncateEntry
  <2> DEFINE s == e.space
  <2>2. s \in SpaceNodes /\ s.start \in Int /\ s.size \in Int
    BY <2>1 DEF SpaceNodes
  <2>3. FileExtentTreeAddSpace(m.tree, s) \in Trees
    <3> HIDE DEF s
    <3>1. m.tree.spaceSize + s.size \in Int /\ m.tree.spaces \cup {s} \in SUBSET SpaceNodes
      BY <1>T, <2>2 DEF Trees
    <3> QED BY <1>T, <3>1 DEF FileExtentTreeAddSpace, Trees
  <2>4. RebuildEntry(m, e) = RebuildAddSpace(m, s)
    BY <1>1 DEF RebuildEntry
  <2> HIDE DEF s
  <2>5. RebuildAddSpace(m, s) =
          [m EXCEPT !.tree = FileExtentTreeAddSpace(m.tree, s), !.curArea = s.start,
                    !.curSize = s.size,
                    !.lastUsedPage = IF s.size = PAGE THEN s.start ELSE m.lastUsedPage]
    BY DEF RebuildAddSpace, TakeSpace, Managers
  <2> QED BY <1>T, <2>2, <2>3, <2>4, <2>5 DEF Managers
<1>2. CASE e.type = "data"
  <2>1. e.extent \in ExtentNodes
    BY <1>2 DEF Entries, TruncateEntry
  <2> DEFINE x == e.extent
  <2>2. x \in ExtentNodes /\ FileEnd(x) \in Int /\ x.start + x.size \in Int
    BY <2>1 DEF ExtentNodes, FileEnd
  <2>3. RebuildEntry(m, e) = RebuildAddExtent(m, x)
    BY <1>2 DEF RebuildEntry
  <2> HIDE DEF x
  <2>4. FileExtentTreeAddExtent(m.tree, x) \in Trees
    BY <1>T, <2>2, AddExtentTyped
  <2>5. Most(m.fileMaxLen, FileEnd(x)) \in Int
    BY <1>T, <2>2 DEF Most
  <2> QED BY <1>T, <2>2, <2>3, <2>4, <2>5 DEF Managers, RebuildAddExtent
<1>3. CASE e.type = "truncate"
  <2>1. RebuildEntry(m, e) = RebuildTruncate(m)
    BY <1>3 DEF RebuildEntry
  <2> DEFINE t == m.tree
             zero == 0
             u == FileExtentTreeTruncate(t)
  <2>2. t \in Trees /\ zero \in Int
    BY <1>T
  <2>3. RebuildTruncate(m) = [m EXCEPT !.tree = u, !.fileMaxLen = zero]
    BY DEF RebuildTruncate
  <2>4. u = [t EXCEPT !.extents = {}, !.effectiveSize = zero]
        /\ {} \in SUBSET ExtentNodes
    BY DEF FileExtentTreeTruncate
  <2> HIDE DEF t, zero
  <2>5. u \in Trees
    BY <2>2, <2>4 DEF Trees
  <2> HIDE DEF u
  <2> QED BY <1>T, <2>1, <2>2, <2>3, <2>5 DEF Managers
<1>4. e.type \in {"space", "data", "truncate"}
  BY DEF Entries, TruncateEntry
<1> QED BY <1>1, <1>2, <1>3, <1>4

\* A manager for a new file has no space and no extent.
LEMMA InitManager ==
  /\ FileDataManagerInit \in Managers
  /\ FileDataManagerRebuildBegin = FileDataManagerInit
  /\ FileDataManagerInit.tree.spaces = {} /\ FileDataManagerInit.tree.extents = {}
  /\ FileDataManagerInit.tree.effectiveSize = 0
  /\ FileDataManagerInit.tree.spaceSize = 0
  /\ FileDataManagerInit.curArea = -1 /\ FileDataManagerInit.curWriteStart = -1
  /\ FileDataManagerInit.curSize = 0 /\ FileDataManagerInit.fileMaxLen = 0
  BY DEF FileDataManagerInit, FileDataManagerRebuildBegin, FileExtentTreeInit, Invalid,
         Managers, Trees

\* The loop of FileInodeInfoRebuild over the entries of a log.
LEMMA RebuildingLoop ==
  ASSUME NEW l \in Seq(Entries)
  PROVE  /\ Rebuilding(l)[0] = FileDataManagerInit
         /\ \A i \in 1 .. Len(l) : Rebuilding(l)[i] = RebuildEntry(Rebuilding(l)[i - 1], l[i])
         /\ \A i \in 0 .. Len(l) : Rebuilding(l)[i] \in Managers
<1> DEFINE S == Managers
           x0 == FileDataManagerRebuildBegin
           Pass(i, m) == RebuildEntry(m, l[i])
           step == [i \in 1 .. Len(l) |-> [m \in S |-> Pass(i, m)]]
           Body(f) == [i \in 0 .. Len(l) |->
                         IF i = 0 THEN x0 ELSE Pass(i, f[i - 1])]
<1>1. Len(l) \in Nat /\ x0 \in S
  BY InitManager
<1>2. \A i \in 1 .. Len(l), m \in S : Pass(i, m) \in S
  <2> TAKE i \in 1 .. Len(l), m \in S
  <2>1. l[i] \in Entries
    OBVIOUS
  <2> QED BY <2>1, RebuildTyped
<1>3. Rebuilding(l) = CHOOSE g : g = Body(g)
  BY Zenon DEF Rebuilding
<1>0. x0 = FileDataManagerInit
  BY InitManager
<1> HIDE DEF S, Pass, x0
<1>4. step \in [1 .. Len(l) -> [S -> S]]
  BY <1>2
<1>5. PICK f : Course(S, Len(l), x0, step, f)
  <2> HIDE DEF step
  <2> QED BY <1>1, <1>4, LoopExists
<1>6. f = Body(f)
  <2>0. /\ f \in [0 .. Len(l) -> S] /\ f[0] = x0
        /\ \A i \in 1 .. Len(l) : f[i] = step[i][f[i - 1]]
    <3> HIDE DEF step
    <3> QED BY <1>5 DEF Course
  <2>1. \A i \in 1 .. Len(l) : f[i] = Pass(i, f[i - 1])
    <3> TAKE i \in 1 .. Len(l)
    <3>1. i - 1 \in 0 .. Len(l)
      BY <1>1
    <3>2. f[i - 1] \in S
      BY <2>0, <3>1
    <3> QED BY <2>0, <3>2
  <2>2. \A i \in 0 .. Len(l) : i = 0 \/ i \in 1 .. Len(l)
    BY <1>1
  <2> QED BY <1>5, <2>1, <2>2 DEF Course
<1> DEFINE g == Rebuilding(l)
<1>7. g = Body(g)
  <2> HIDE DEF Body
  <2> QED BY <1>3, <1>6
<1> HIDE DEF g
<1>8. g[0] = x0 /\ \A i \in 1 .. Len(l) : g[i] = Pass(i, g[i - 1])
  BY <1>1, <1>7
<1> DEFINE T == {i \in 0 .. Len(l) : g[i] \in S}
<1>9. 0 \in T
  BY <1>1, <1>8
<1>10. ASSUME NEW i \in 0 .. Len(l) - 1, i \in T PROVE i + 1 \in T
  <2>1. i + 1 \in 1 .. Len(l) /\ (i + 1) - 1 = i
    BY <1>1
  <2>2. g[i + 1] = Pass(i + 1, g[i]) /\ g[i] \in S
    BY <1>8, <1>10, <2>1
  <2>3. g[i + 1] \in S
    BY <1>2, <2>1, <2>2
  <2> QED BY <1>1, <2>1, <2>3
<1>11. \A i \in 0 .. Len(l) : i \in T
  <2> HIDE DEF T
  <2> QED BY <1>1, <1>9, <1>10, LoopInduction
<1> QED BY <1>0, <1>8, <1>11 DEF g, Pass, S

\* The manager that a log stands for, before FileDataManagerRebuildEnd.
Raw(l) == Rebuilding(l)[Len(l)]

\* One entry more is one pass more.
LEMMA RawAppend ==
  ASSUME NEW l \in Seq(Entries), NEW e \in Entries
  PROVE  /\ Raw(Append(l, e)) = RebuildEntry(Raw(l), e)
         /\ Raw(l) \in Managers /\ Raw(<< >>) = FileDataManagerInit
<1> DEFINE k == Append(l, e)
           f == Rebuilding(l)
           g == Rebuilding(k)
           T == {i \in 0 .. Len(l) : g[i] = f[i]}
<1>1. /\ k \in Seq(Entries) /\ Len(k) = Len(l) + 1 /\ Len(l) \in Nat
      /\ \A i \in 1 .. Len(l) : k[i] = l[i]
      /\ k[Len(l) + 1] = e
  BY AppendProperties
<1> HIDE DEF k
<1>2. /\ f[0] = FileDataManagerInit
      /\ \A i \in 1 .. Len(l) : f[i] = RebuildEntry(f[i - 1], l[i])
      /\ f[Len(l)] \in Managers
  BY <1>1, RebuildingLoop
<1>3. /\ g[0] = FileDataManagerInit
      /\ \A i \in 1 .. Len(k) : g[i] = RebuildEntry(g[i - 1], k[i])
  BY <1>1, RebuildingLoop
<1> HIDE DEF f, g
<1>4. 0 \in T
  BY <1>1, <1>2, <1>3
<1>5. ASSUME NEW i \in 0 .. Len(l) - 1, i \in T PROVE i + 1 \in T
  <2>1. i + 1 \in 1 .. Len(l) /\ i + 1 \in 1 .. Len(k) /\ (i + 1) - 1 = i
    BY <1>1
  <2>2. g[i + 1] = RebuildEntry(g[i], l[i + 1]) /\ f[i + 1] = RebuildEntry(f[i], l[i + 1])
    BY <1>1, <1>2, <1>3, <2>1
  <2> QED BY <1>1, <1>5, <2>1, <2>2
<1>6. \A i \in 0 .. Len(l) : i \in T
  <2> HIDE DEF T
  <2> QED BY <1>1, <1>4, <1>5, LoopInduction
<1>7. g[Len(l)] = f[Len(l)]
  BY <1>1, <1>6
<1>8. g[Len(k)] = RebuildEntry(f[Len(l)], e)
  <2>1. Len(l) + 1 \in 1 .. Len(k) /\ (Len(l) + 1) - 1 = Len(l)
    BY <1>1
  <2> QED BY <1>1, <1>3, <1>7, <2>1
<1>9. Raw(<< >>) = FileDataManagerInit
  <2>1. << >> \in Seq(Entries) /\ Len(<< >>) = 0
    OBVIOUS
  <2>2. Rebuilding(<< >>)[0] = FileDataManagerInit
    BY <2>1, RebuildingLoop
  <2> QED BY <2>1, <2>2 DEF Raw
<1> QED BY <1>2, <1>8, <1>9 DEF Raw, f, g, k

-----------------------------------------------------------------------------
\* FileExtentTree.c: a new extent takes the place of what it covers.

IsExtent(x) == x \in ExtentNodes /\ x.size > 0
FileApart(x, y) == FileEnd(x) <= y.fileStart \/ FileEnd(y) <= x.fileStart
NvmApart(x, y) == x.start + x.size <= y.start \/ y.start + y.size <= x.start

\* Extents that share no word of the file and none of the NVM.
Disjointed(E) ==
  /\ \A x \in E : IsExtent(x)
  /\ \A x, y \in E : x # y => FileApart(x, y) /\ NvmApart(x, y)

\* y is x or a part of it.
PartOf(y, x) ==
  /\ IsExtent(y)
  /\ x.fileStart <= y.fileStart /\ FileEnd(y) <= FileEnd(x)
  /\ y.start - y.fileStart = x.start - x.fileStart

\* What an erasure leaves of one extent.
Pieces(x, from, to) ==
  IF Overlaps(x, from, to) THEN FrontOf(x, from) \cup BackOf(x, to) ELSE {x}

\* What is left of one extent: parts of it outside the range, all of it there.
LEMMA PiecesFacts ==
  ASSUME NEW x, IsExtent(x), NEW from \in Int, NEW to \in Int, from < to
  PROVE  /\ \A y \in Pieces(x, from, to) :
              PartOf(y, x) /\ (FileEnd(y) <= from \/ to <= y.fileStart)
         /\ \A y, z \in Pieces(x, from, to) : y # z => FileApart(y, z)
         /\ \A o \in FileWords(x) \ (from .. to - 1) :
              \E y \in Pieces(x, from, to) : o \in FileWords(y)
<1>T. /\ x.start \in Int /\ x.size \in Int /\ x.fileStart \in Int /\ x.size > 0
      /\ FileEnd(x) = x.fileStart + x.size /\ FileEnd(x) \in Int
      /\ FileWords(x) = x.fileStart .. FileEnd(x) - 1
  BY DEF IsExtent, ExtentNodes, FileEnd, FileWords
<1>1. CASE ~Overlaps(x, from, to)
  <2>1. Pieces(x, from, to) = {x}
    BY <1>1 DEF Pieces
  <2>2. FileEnd(x) <= from \/ to <= x.fileStart
    BY <1>1, <1>T DEF Overlaps
  <2> QED BY <1>T, <2>1, <2>2 DEF PartOf
<1>2. CASE Overlaps(x, from, to)
  <2> DEFINE f == FileExtent(x.start, from - x.fileStart, x.fileStart)
             b == FileExtent(x.start + (to - x.fileStart), FileEnd(x) - to, to)
  <2>1. Pieces(x, from, to) = (IF x.fileStart < from THEN {f} ELSE {})
                              \cup (IF FileEnd(x) > to THEN {b} ELSE {})
    BY <1>2 DEF Pieces, FrontOf, BackOf
  <2>2. /\ f.start = x.start /\ f.size = from - x.fileStart
        /\ f.fileStart = x.fileStart /\ FileEnd(f) = from
        /\ f \in ExtentNodes
    BY <1>T DEF FileExtent, FileEnd, ExtentNodes
  <2>3. /\ b.start = x.start + (to - x.fileStart) /\ b.size = FileEnd(x) - to
        /\ b.fileStart = to /\ FileEnd(b) = FileEnd(x)
        /\ b \in ExtentNodes
    BY <1>T DEF FileExtent, FileEnd, ExtentNodes
  <2>4. x.fileStart < to /\ FileEnd(x) > from
    BY <1>2 DEF Overlaps
  <2> HIDE DEF f, b
  <2>5. x.fileStart < from => PartOf(f, x)
    BY <1>T, <2>2, <2>4 DEF PartOf, IsExtent
  <2>6. FileEnd(x) > to => PartOf(b, x)
    BY <1>T, <2>3, <2>4 DEF PartOf, IsExtent
  <2>7. \A y \in Pieces(x, from, to) :
          PartOf(y, x) /\ (FileEnd(y) <= from \/ to <= y.fileStart)
    BY <2>1, <2>2, <2>3, <2>5, <2>6
  <2>8. \A y, z \in Pieces(x, from, to) : y # z => FileApart(y, z)
    BY <2>1, <2>2, <2>3 DEF FileApart
  <2>9. ASSUME NEW o \in FileWords(x) \ (from .. to - 1)
        PROVE  \E y \in Pieces(x, from, to) : o \in FileWords(y)
    <3>1. o \in Int /\ x.fileStart <= o /\ o < FileEnd(x) /\ (o < from \/ to <= o)
      BY <1>T, <2>9
    <3>2. CASE o < from
      <4>1. f \in Pieces(x, from, to) /\ o \in FileWords(f)
        BY <1>T, <2>1, <2>2, <3>1, <3>2 DEF FileWords
      <4> QED BY <4>1
    <3>3. CASE to <= o
      <4>1. b \in Pieces(x, from, to) /\ o \in FileWords(b)
        BY <1>T, <2>1, <2>3, <3>1, <3>3 DEF FileWords
      <4> QED BY <4>1
    <3> QED BY <3>1, <3>2, <3>3
  <2> QED BY <2>7, <2>8, <2>9
<1> QED BY <1>1, <1>2

\* Parts of extents apart are apart.
LEMMA PartsApart ==
  ASSUME NEW x, IsExtent(x), NEW y, IsExtent(y), NEW p, NEW q,
         PartOf(p, x), PartOf(q, y)
  PROVE  /\ FileApart(x, y) => FileApart(p, q)
         /\ NvmApart(x, y) => NvmApart(p, q)
         /\ x = y /\ FileApart(p, q) => NvmApart(p, q)
<1>1. \A z : IsExtent(z) =>
        /\ z.start \in Int /\ z.size \in Int /\ z.fileStart \in Int /\ z.size > 0
        /\ FileEnd(z) = z.fileStart + z.size
  BY DEF IsExtent, ExtentNodes, FileEnd
<1>2. IsExtent(p) /\ IsExtent(q)
  BY DEF PartOf
<1> QED BY <1>1, <1>2 DEF PartOf, FileApart, NvmApart

\* What an erasure leaves of a tree.
LEMMA EraseFacts ==
  ASSUME NEW tree \in Trees, Disjointed(tree.extents), NEW from \in Int, NEW to \in Int,
         from < to, NEW t, t = ExtentTreeErase(tree, from, to), NEW L, L = t.extents
  PROVE  /\ \A y \in L : \E x \in tree.extents : y \in Pieces(x, from, to)
         /\ \A x \in tree.extents : Pieces(x, from, to) \subseteq L
         /\ \A y \in L : FileEnd(y) <= from \/ to <= y.fileStart
         /\ Disjointed(L)
<1> DEFINE E == tree.extents
           hit == {x \in E : Overlaps(x, from, to)}
           front == UNION {FrontOf(x, from) : x \in hit}
           back == UNION {BackOf(x, to) : x \in hit}
<1>1. L = (E \ hit) \cup front \cup back
  BY DEF ExtentTreeErase, DeleteExtentNodes, Trees
<1>2. \A x \in E : IsExtent(x)
  BY DEF Disjointed
<1>3. ASSUME NEW y \in L PROVE \E x \in E : y \in Pieces(x, from, to)
  <2>1. CASE y \in E \ hit
    BY <2>1 DEF Pieces
  <2>2. CASE y \in front
    BY <2>2 DEF Pieces
  <2>3. CASE y \in back
    BY <2>3 DEF Pieces
  <2> HIDE DEF front, back, hit
  <2> QED BY <1>1, <1>3, <2>1, <2>2, <2>3
<1>4. ASSUME NEW x \in E, NEW y \in Pieces(x, from, to) PROVE y \in L
  <2>1. CASE Overlaps(x, from, to)
    <3>1. y \in FrontOf(x, from) \/ y \in BackOf(x, to)
      BY <2>1, <1>4 DEF Pieces
    <3>2. y \in front \/ y \in back
      BY <2>1, <3>1
    <3> HIDE DEF front, back, hit
    <3> QED BY <1>1, <3>2
  <2>2. CASE ~Overlaps(x, from, to)
    <3>1. y = x /\ x \notin hit
      BY <2>2, <1>4 DEF Pieces
    <3> QED BY <1>1, <3>1
  <2> QED BY <2>1, <2>2
<1>5. ASSUME NEW x \in E, NEW y \in Pieces(x, from, to)
      PROVE  PartOf(y, x) /\ (FileEnd(y) <= from \/ to <= y.fileStart)
  BY <1>2, PiecesFacts
<1> HIDE DEF E
<1>6. \A y \in L : FileEnd(y) <= from \/ to <= y.fileStart
  BY <1>3, <1>5
<1>7. Disjointed(L)
  <2>1. \A y \in L : IsExtent(y)
    BY <1>3, <1>5 DEF PartOf
  <2>2. ASSUME NEW p \in L, NEW q \in L, p # q PROVE FileApart(p, q) /\ NvmApart(p, q)
    <3>1. PICK x \in E : p \in Pieces(x, from, to)
      BY <1>3
    <3>2. PICK y \in E : q \in Pieces(y, from, to)
      BY <1>3
    <3>3. PartOf(p, x) /\ PartOf(q, y) /\ IsExtent(x) /\ IsExtent(y)
      BY <1>2, <1>5, <3>1, <3>2
    <3>4. CASE x # y
      <4>1. FileApart(x, y) /\ NvmApart(x, y)
        BY <3>4 DEF Disjointed, E
      <4> QED BY <3>3, <4>1, PartsApart
    <3>5. CASE x = y
      <4>1. FileApart(p, q)
        BY <3>1, <3>2, <3>3, <3>5, <2>2, PiecesFacts
      <4> QED BY <3>3, <3>5, <4>1, PartsApart
    <3> QED BY <3>4, <3>5
  <2> QED BY <2>1, <2>2 DEF Disjointed
<1> QED BY <1>3, <1>4, <1>6, <1>7 DEF E

\* The words of the file that are left.
LEMMA EraseMapped ==
  ASSUME NEW tree \in Trees, Disjointed(tree.extents), NEW from \in Int, NEW to \in Int,
         from < to, NEW t, t = ExtentTreeErase(tree, from, to)
  PROVE  /\ Mapped(t.extents) = Mapped(tree.extents) \ (from .. to - 1)
         /\ tree.effectiveSize >= Cardinality(Mapped(tree.extents)) =>
              t.effectiveSize >= Cardinality(Mapped(t.extents))
         /\ t.spaces = tree.spaces /\ t.spaceSize = tree.spaceSize
<1> DEFINE E == tree.extents
           L == t.extents
           hit == {x \in E : Overlaps(x, from, to)}
           behind == {o \in Mapped(hit) : o >= to}
           within == {o \in Mapped(hit) : from <= o /\ o < to}
<1>1. /\ \A y \in L : \E x \in E : y \in Pieces(x, from, to)
      /\ \A x \in E : Pieces(x, from, to) \subseteq L
      /\ \A y \in L : FileEnd(y) <= from \/ to <= y.fileStart
  BY EraseFacts
<1>2. \A x \in E : IsExtent(x)
  BY DEF Disjointed
<1>3. /\ t.effectiveSize =
           (tree.effectiveSize + Cardinality(behind)) - Cardinality(within)
      /\ t.spaces = tree.spaces /\ t.spaceSize = tree.spaceSize
  BY DEF ExtentTreeErase, Trees
<1> HIDE DEF L
<1>4. \A x : IsExtent(x) => /\ x.fileStart \in Int /\ FileEnd(x) \in Int
                            /\ FileWords(x) = x.fileStart .. FileEnd(x) - 1
  BY DEF IsExtent, ExtentNodes, FileEnd, FileWords
<1>5. ASSUME NEW o \in Mapped(L) PROVE o \in Mapped(E) /\ o \notin from .. to - 1
  <2>1. PICK y \in L : o \in FileWords(y) /\ o \in Offsets
    BY DEF Mapped
  <2>2. PICK x \in E : y \in Pieces(x, from, to)
    BY <1>1
  <2>3. PartOf(y, x) /\ IsExtent(y) /\ IsExtent(x) /\ (FileEnd(y) <= from \/ to <= y.fileStart)
    BY <1>1, <1>2, <2>2, PiecesFacts DEF PartOf
  <2>4. o \in Int /\ y.fileStart <= o /\ o < FileEnd(y)
    BY <1>4, <2>1, <2>3
  <2>5. o \in FileWords(x) /\ o \notin from .. to - 1
    BY <1>4, <2>3, <2>4 DEF PartOf
  <2> QED BY <2>1, <2>5 DEF Mapped
<1>6. ASSUME NEW o \in Mapped(E), o \notin from .. to - 1 PROVE o \in Mapped(L)
  <2>1. PICK x \in E : o \in FileWords(x) /\ o \in Offsets
    BY DEF Mapped
  <2>2. PICK y \in Pieces(x, from, to) : o \in FileWords(y)
    BY <1>2, <1>6, <2>1, PiecesFacts
  <2> QED BY <1>1, <2>1, <2>2 DEF Mapped
<1>7. Mapped(L) = Mapped(E) \ (from .. to - 1)
  BY <1>5, <1>6
<1>8. within = Mapped(E) \cap (from .. to - 1)
  <2>1. ASSUME NEW o \in within PROVE o \in Mapped(E) /\ o \in from .. to - 1
    BY <2>1 DEF Mapped, Offsets
  <2>2. ASSUME NEW o \in Mapped(E), o \in from .. to - 1 PROVE o \in within
    <3>1. PICK x \in E : o \in FileWords(x) /\ o \in Offsets
      BY DEF Mapped
    <3>2. o \in Int /\ from <= o /\ o < to /\ x.fileStart <= o /\ o < FileEnd(x)
      BY <1>2, <1>4, <2>2, <3>1
    <3>3. Overlaps(x, from, to)
      BY <1>2, <1>4, <3>2 DEF Overlaps
    <3> QED BY <3>1, <3>2, <3>3 DEF Mapped
  <2> HIDE DEF within
  <2> QED BY <2>1, <2>2
<1>9. ASSUME tree.effectiveSize >= Cardinality(Mapped(E))
      PROVE  t.effectiveSize >= Cardinality(Mapped(L))
  <2>1. /\ Mapped(E) \in SUBSET Offsets /\ Mapped(L) \in SUBSET Offsets
        /\ behind \in SUBSET Offsets /\ within \in SUBSET Offsets
    BY DEF Mapped
  <2> HIDE DEF behind, within
  <2>2. /\ IsFiniteSet(Mapped(L)) /\ IsFiniteSet(within)
        /\ Cardinality(Mapped(E)) \in Nat /\ Cardinality(Mapped(L)) \in Nat
        /\ Cardinality(behind) \in Nat /\ Cardinality(within) \in Nat
    BY <2>1, OffsetsFinite
  <2>3. Mapped(E) = Mapped(L) \cup within /\ Mapped(L) \cap within = {}
    BY <1>7, <1>8
  <2>4. Cardinality(Mapped(E)) =
          Cardinality(Mapped(L)) + Cardinality(within) - Cardinality(Mapped(L) \cap within)
    BY <2>2, <2>3, FS_Union
  <2>5. Cardinality(Mapped(L) \cap within) = 0
    BY <2>3, FS_EmptySet
  <2>6. tree.effectiveSize \in Int
    BY DEF Trees
  <2> HIDE DEF E
  <2> QED BY <1>3, <1>9, <2>2, <2>4, <2>5, <2>6
<1> QED BY <1>3, <1>7, <1>9 DEF L

\* An extent that goes in behind an erasure.
LEMMA AddExtentFacts ==
  ASSUME NEW tree \in Trees, Disjointed(tree.extents), NEW x, IsExtent(x),
         0 <= x.fileStart, FileEnd(x) <= FileLen,
         \A y \in tree.extents : NvmApart(x, y),
         NEW t, t = FileExtentTreeAddExtent(tree, x)
  PROVE  /\ t \in Trees /\ t.spaces = tree.spaces /\ t.spaceSize = tree.spaceSize
         /\ x \in t.extents
         /\ \A y \in t.extents : y = x \/ \E z \in tree.extents : PartOf(y, z)
         /\ \A z \in tree.extents : \A o \in FileWords(z) \ FileWords(x) :
              \E y \in t.extents : o \in FileWords(y) /\ PartOf(y, z)
         /\ Disjointed(t.extents)
         /\ tree.effectiveSize >= Cardinality(Mapped(tree.extents)) =>
              t.effectiveSize >= Cardinality(Mapped(t.extents))
<1> DEFINE E == tree.extents
           from == x.fileStart
           to == FileEnd(x)
           u == ExtentTreeErase(tree, from, to)
           L == u.extents
<1>T. /\ x \in ExtentNodes /\ x.size \in Int /\ x.size > 0 /\ from \in Int /\ to \in Int
      /\ to = from + x.size /\ from < to /\ x.start \in Int
      /\ FileWords(x) = from .. to - 1
  BY DEF IsExtent, ExtentNodes, FileEnd, FileWords
<1>1. t \in Trees
  BY <1>T, AddExtentTyped
<1>2. t = [u EXCEPT !.extents = L \cup {x}, !.effectiveSize = u.effectiveSize + x.size]
  BY DEF FileExtentTreeAddExtent, InsertExtentNode
<1>3. u \in Trees
  BY <1>T, EraseTyped
<1>4. /\ \A y \in L : \E z \in E : y \in Pieces(z, from, to)
      /\ \A z \in E : Pieces(z, from, to) \subseteq L
      /\ \A y \in L : FileEnd(y) <= from \/ to <= y.fileStart
      /\ Disjointed(L)
  <2>1. L = u.extents /\ u = ExtentTreeErase(tree, from, to) /\ E = tree.extents
    OBVIOUS
  <2>2. from \in Int /\ to \in Int /\ from < to /\ Disjointed(tree.extents)
    BY <1>T
  <2> HIDE DEF E, from, to, u, L
  <2> QED BY <2>1, <2>2, EraseFacts
<1>5. /\ Mapped(L) = Mapped(E) \ (from .. to - 1)
      /\ tree.effectiveSize >= Cardinality(Mapped(E)) =>
           u.effectiveSize >= Cardinality(Mapped(L))
      /\ u.spaces = tree.spaces /\ u.spaceSize = tree.spaceSize
  <2>1. L = u.extents /\ u = ExtentTreeErase(tree, from, to) /\ E = tree.extents
    OBVIOUS
  <2>2. from \in Int /\ to \in Int /\ from < to /\ Disjointed(tree.extents)
    BY <1>T
  <2> HIDE DEF E, from, to, u, L
  <2> QED BY <2>1, <2>2, EraseMapped
<1>6. \A z \in E : IsExtent(z)
  BY DEF Disjointed
<1>7. /\ t.extents = L \cup {x} /\ t.effectiveSize = u.effectiveSize + x.size
      /\ t.spaces = u.spaces /\ t.spaceSize = u.spaceSize
  <2> HIDE DEF u, L
  <2> QED BY <1>2, <1>3 DEF Trees
<1> HIDE DEF u, L, E, from, to
<1>8. ASSUME NEW y \in L PROVE \E z \in E : PartOf(y, z)
  <2>1. PICK z \in E : y \in Pieces(z, from, to)
    BY <1>4
  <2>2. PartOf(y, z)
    BY <1>6, <1>T, <2>1, PiecesFacts
  <2> QED BY <2>2
<1>9. ASSUME NEW z \in E, NEW o \in FileWords(z) \ FileWords(x)
      PROVE  \E y \in t.extents : o \in FileWords(y) /\ PartOf(y, z)
  <2>1. PICK y \in Pieces(z, from, to) : o \in FileWords(y)
    BY <1>6, <1>T, PiecesFacts
  <2>2. PartOf(y, z) /\ y \in L
    BY <1>4, <1>6, <1>T, <2>1, PiecesFacts
  <2> QED BY <1>7, <2>1, <2>2
<1>10. ASSUME NEW y \in L PROVE FileApart(x, y) /\ NvmApart(x, y) /\ IsExtent(y)
  <2>1. PICK z \in E : PartOf(y, z)
    BY <1>8
  <2>2. NvmApart(x, z) /\ IsExtent(z) /\ IsExtent(y)
    BY <1>6, <2>1 DEF E, PartOf
  <2>3. NvmApart(x, y)
    <3>1. PartOf(x, x)
      BY <1>T DEF PartOf, from, to
    <3> QED BY <2>1, <2>2, <3>1, PartsApart
  <2>4. FileApart(x, y)
    BY <1>4 DEF FileApart, from, to
  <2> QED BY <2>2, <2>3, <2>4
<1>11. Disjointed(t.extents)
  <2>1. ASSUME NEW p \in L \cup {x}, NEW q \in L \cup {x}, p # q
        PROVE FileApart(p, q) /\ NvmApart(p, q)
    <3>1. CASE p \in L /\ q \in L
      BY <1>4, <2>1, <3>1 DEF Disjointed
    <3>2. CASE p = x /\ q \in L
      BY <1>10, <3>2
    <3>3. CASE q = x /\ p \in L
      BY <1>10, <3>3 DEF FileApart, NvmApart
    <3> QED BY <2>1, <3>1, <3>2, <3>3
  <2>2. \A p \in L \cup {x} : IsExtent(p)
    BY <1>10
  <2> QED BY <1>7, <2>1, <2>2 DEF Disjointed
<1>12. ASSUME tree.effectiveSize >= Cardinality(Mapped(tree.extents))
       PROVE  t.effectiveSize >= Cardinality(Mapped(t.extents))
  <2>1. FileWords(x) \subseteq Offsets
    BY <1>T, FileAssumption DEF Offsets, from, to
  <2>2. Mapped(t.extents) = Mapped(L) \cup FileWords(x)
    <3>1. Mapped(L \cup {x}) = Mapped(L) \cup (FileWords(x) \cap Offsets)
      BY DEF Mapped
    <3> QED BY <1>7, <2>1, <3>1
  <2>3. IsFiniteSet(FileWords(x)) /\ Cardinality(FileWords(x)) = x.size
    <3>1. IsFiniteSet(from .. to - 1)
          /\ Cardinality(from .. to - 1) = IF from > to - 1 THEN 0 ELSE (to - 1) - from + 1
      <4>1. to - 1 \in Int
        BY <1>T
      <4> QED BY <1>T, <4>1, FS_Interval
    <3> QED BY <1>T, <3>1
  <2>4. Mapped(L) \in SUBSET Offsets /\ Mapped(t.extents) \in SUBSET Offsets
    BY DEF Mapped
  <2>5. /\ IsFiniteSet(Mapped(L)) /\ Cardinality(Mapped(L)) \in Nat
        /\ Cardinality(Mapped(t.extents)) \in Nat
    BY <2>4, OffsetsFinite
  <2>6. Mapped(L) \cap FileWords(x) = {}
    BY <1>5, <1>T
  <2>7. Cardinality(Mapped(t.extents)) =
          Cardinality(Mapped(L)) + Cardinality(FileWords(x))
            - Cardinality(Mapped(L) \cap FileWords(x))
    BY <2>2, <2>3, <2>5, FS_Union
  <2>8. Cardinality(Mapped(L) \cap FileWords(x)) = 0
    BY <2>6, FS_EmptySet
  <2>9. u.effectiveSize >= Cardinality(Mapped(L)) /\ u.effectiveSize \in Int
    BY <1>3, <1>5, <1>12 DEF Trees, E
  <2> QED BY <1>7, <1>T, <2>3, <2>5, <2>7, <2>8, <2>9
<1> QED BY <1>1, <1>5, <1>7, <1>8, <1>9, <1>11, <1>12 DEF E

\* The word that a tree has at an offset.
At(mem, E, o) ==
  LET hit == {x \in E : o \in FileWords(x)}
  IN IF hit = {} THEN Hole
     ELSE LET x == CHOOSE x \in hit : TRUE IN mem[x.start + (o - x.fileStart)]

\* Among extents apart it is the word of the one that has the offset.
LEMMA AtFacts ==
  ASSUME NEW E, Disjointed(E), NEW o \in Int, NEW mem
  PROVE  /\ \A x \in E : o \in FileWords(x) =>
              At(mem, E, o) = mem[x.start + (o - x.fileStart)]
         /\ (\A x \in E : o \notin FileWords(x)) => At(mem, E, o) = Hole
<1> DEFINE hit == {x \in E : o \in FileWords(x)}
<1>1. ASSUME NEW x \in E, o \in FileWords(x), NEW y \in E, o \in FileWords(y)
      PROVE  x = y
  <2>1. IsExtent(x) /\ IsExtent(y)
    BY DEF Disjointed
  <2>2. ~FileApart(x, y)
    BY <1>1, <2>1 DEF FileApart, FileWords, FileEnd, IsExtent, ExtentNodes
  <2> QED BY <2>2 DEF Disjointed
<1>2. ASSUME NEW x \in E, o \in FileWords(x)
      PROVE  At(mem, E, o) = mem[x.start + (o - x.fileStart)]
  <2>1. hit = {x}
    BY <1>1, <1>2
  <2>2. hit # {} /\ (CHOOSE y \in hit : TRUE) = x
    BY <2>1
  <2> QED BY <2>2 DEF At
<1>3. (\A x \in E : o \notin FileWords(x)) => At(mem, E, o) = Hole
  BY DEF At
<1> QED BY <1>2, <1>3

-----------------------------------------------------------------------------
\* FileDataManager.c: a manager whose extents lie apart inside its spaces,
\* none of them behind the place to write at in the current area.

IsSpace(s) == s \in SpaceNodes /\ 0 <= s.start /\ 0 < s.size
SpacesApart(S) ==
  /\ \A s \in S : IsSpace(s)
  /\ \A s, t \in S : s # t =>
       s.start + s.size <= t.start \/ t.start + t.size <= s.start
Inside(x, s) == s.start <= x.start /\ x.start + x.size <= s.start + s.size

NoArea(m) ==
  m.tree.spaces = {} /\ m.curArea = -1 /\ m.curWriteStart = -1 /\ m.curSize = 0
InArea(m) ==
  /\ Space(m.curArea, m.curSize) \in m.tree.spaces
  /\ m.curArea <= m.curWriteStart /\ m.curWriteStart <= m.curArea + m.curSize
  /\ \A x \in m.tree.extents :
       x.start + x.size <= m.curWriteStart \/ m.curArea + m.curSize <= x.start

GoodManager(m) ==
  /\ m \in Managers
  /\ SpacesApart(m.tree.spaces) /\ Disjointed(m.tree.extents)
  /\ \A x \in m.tree.extents : /\ 0 <= x.fileStart /\ FileEnd(x) <= m.fileMaxLen
                               /\ \E s \in m.tree.spaces : Inside(x, s)
  /\ m.fileMaxLen \in 0 .. FileLen
  /\ m.tree.effectiveSize >= Cardinality(Mapped(m.tree.extents))
  /\ NoArea(m) \/ InArea(m)

\* An extent that the manager can write next.
Fits(m, x) ==
  /\ IsExtent(x) /\ x.start = m.curWriteStart /\ x.size <= RestSizeOfCurrentArea(m)
  /\ 0 <= x.fileStart /\ FileEnd(x) <= FileLen

\* The fields of a manager.
LEMMA ManagerTypes ==
  ASSUME NEW m \in Managers
  PROVE  /\ m.tree \in Trees /\ m.curArea \in Int /\ m.curWriteStart \in Int
         /\ m.curSize \in Int /\ m.lastUsedPage \in Int /\ m.fileMaxLen \in Int
         /\ m.tree.extents \in SUBSET ExtentNodes /\ m.tree.spaces \in SUBSET SpaceNodes
         /\ m.tree.effectiveSize \in Int /\ m.tree.spaceSize \in Int
  BY DEF Managers, Trees

\* No extent, no word of the file.
LEMMA NothingMapped == Mapped({}) = {} /\ Cardinality(Mapped({})) = 0
<1>1. Mapped({}) = {}
  BY DEF Mapped
<1> QED BY <1>1, FS_EmptySet

\* The manager of a new file is such a manager.
LEMMA GoodInit == GoodManager(FileDataManagerInit)
<1> DEFINE m == FileDataManagerInit
<1>1. /\ m \in Managers /\ m.tree.spaces = {} /\ m.tree.extents = {}
      /\ m.tree.effectiveSize = 0 /\ m.curArea = -1 /\ m.curWriteStart = -1
      /\ m.curSize = 0 /\ m.fileMaxLen = 0
  BY InitManager
<1> HIDE DEF m
<1>2. m.tree.effectiveSize >= Cardinality(Mapped(m.tree.extents))
  BY <1>1, NothingMapped
<1>3. m.fileMaxLen \in 0 .. FileLen
  BY <1>1, FileAssumption
<1>4. SpacesApart(m.tree.spaces) /\ Disjointed(m.tree.extents)
  BY <1>1 DEF SpacesApart, Disjointed
<1>5. NoArea(m)
  BY <1>1 DEF NoArea
<1> QED BY <1>1, <1>2, <1>3, <1>4, <1>5 DEF GoodManager, m

\* The parts of AddNewSpace, WriteDataToArea and FileDataManagerTruncate that
\* change the manager, field by field.
LEMMA TakeSpaceIs ==
  ASSUME NEW m \in Managers, NEW s \in SpaceNodes, NEW r, r = TakeSpace(m, s)
  PROVE  /\ r \in Managers
         /\ r.tree.extents = m.tree.extents /\ r.tree.spaces = m.tree.spaces \cup {s}
         /\ r.tree.effectiveSize = m.tree.effectiveSize
         /\ r.tree.spaceSize = m.tree.spaceSize + s.size
         /\ r.curArea = s.start /\ r.curWriteStart = s.start /\ r.curSize = s.size
         /\ r.fileMaxLen = m.fileMaxLen
<1> DEFINE u == FileExtentTreeAddSpace(m.tree, s)
           last == IF s.size = PAGE THEN s.start ELSE m.lastUsedPage
<1>0. s.start \in Int /\ s.size \in Int
  BY DEF SpaceNodes
<1>1. /\ m.tree \in Trees /\ m.lastUsedPage \in Int /\ m.tree.spaceSize \in Int
      /\ m.tree.spaces \in SUBSET SpaceNodes
  BY ManagerTypes
<1>2. r = [m EXCEPT !.tree = u, !.curArea = s.start, !.curWriteStart = s.start,
                    !.curSize = s.size, !.lastUsedPage = last]
  BY DEF TakeSpace
<1>3. /\ u.extents = m.tree.extents /\ u.spaces = m.tree.spaces \cup {s}
      /\ u.effectiveSize = m.tree.effectiveSize
      /\ u.spaceSize = m.tree.spaceSize + s.size /\ u \in Trees
  <2>1. m.tree.spaceSize + s.size \in Int /\ m.tree.spaces \cup {s} \in SUBSET SpaceNodes
    BY <1>0, <1>1
  <2> QED BY <1>1, <2>1 DEF FileExtentTreeAddSpace, Trees
<1>4. last \in Int
  BY <1>0, <1>1
<1> HIDE DEF u, last
<1> QED BY <1>0, <1>2, <1>3, <1>4 DEF Managers

\* The same of WriteDataToArea.
LEMMA TakeExtentIs ==
  ASSUME NEW m \in Managers, NEW x \in ExtentNodes, NEW r, r = TakeExtent(m, x)
  PROVE  /\ r \in Managers
         /\ r.tree = FileExtentTreeAddExtent(m.tree, x)
         /\ r.curArea = m.curArea /\ r.curWriteStart = x.start + x.size
         /\ r.curSize = m.curSize /\ r.fileMaxLen = Most(m.fileMaxLen, FileEnd(x))
<1> DEFINE u == FileExtentTreeAddExtent(m.tree, x)
           end == x.start + x.size
           len == Most(m.fileMaxLen, FileEnd(x))
<1>1. u \in Trees
  BY ManagerTypes, AddExtentTyped
<1>2. end \in Int /\ len \in Int
  <2>1. m.fileMaxLen \in Int
    BY ManagerTypes
  <2> QED BY <2>1 DEF ExtentNodes, FileEnd, Most
<1>3. r = [m EXCEPT !.tree = u, !.curWriteStart = end, !.fileMaxLen = len]
  BY DEF TakeExtent
<1> HIDE DEF u, end, len
<1>4. /\ r \in Managers /\ r.tree = u /\ r.curArea = m.curArea /\ r.curWriteStart = end
      /\ r.curSize = m.curSize /\ r.fileMaxLen = len
  BY <1>1, <1>2, <1>3 DEF Managers
<1> QED BY <1>4 DEF u, end, len

\* The same of FileDataManagerTruncate.
LEMMA TruncateIs ==
  ASSUME NEW m \in Managers, NEW r, r = TruncateManager(m)
  PROVE  /\ r \in Managers
         /\ r.tree.extents = {} /\ r.tree.spaces = m.tree.spaces
         /\ r.tree.effectiveSize = 0 /\ r.tree.spaceSize = m.tree.spaceSize
         /\ r.curArea = m.curArea /\ r.curWriteStart = m.curWriteStart
         /\ r.curSize = m.curSize /\ r.fileMaxLen = 0
<1> DEFINE t == m.tree
           zero == 0
           u == FileExtentTreeTruncate(t)
<1>1. t \in Trees /\ zero \in Int
  BY ManagerTypes
<1>2. r = [m EXCEPT !.tree = u, !.fileMaxLen = zero]
  BY DEF TruncateManager
<1>3. u = [t EXCEPT !.extents = {}, !.effectiveSize = zero] /\ {} \in SUBSET ExtentNodes
  BY DEF FileExtentTreeTruncate
<1> HIDE DEF zero
<1>4. /\ u \in Trees /\ u.extents = {} /\ u.spaces = t.spaces
      /\ u.effectiveSize = zero /\ u.spaceSize = t.spaceSize
  <2> HIDE DEF t, u
  <2> QED BY <1>1, <1>3 DEF Trees
<1> HIDE DEF u
<1>5. /\ r \in Managers /\ r.tree = u /\ r.curArea = m.curArea
      /\ r.curWriteStart = m.curWriteStart
      /\ r.curSize = m.curSize /\ r.fileMaxLen = zero
  BY <1>1, <1>2, <1>4 DEF Managers
<1> QED BY <1>4, <1>5 DEF zero, t

\* AddNewSpace keeps it, given a space apart from the others.
LEMMA GoodTakeSpace ==
  ASSUME NEW m, GoodManager(m), NEW s, s \notin m.tree.spaces,
         SpacesApart(m.tree.spaces \cup {s})
  PROVE  GoodManager(TakeSpace(m, s))
<1> DEFINE r == TakeSpace(m, s)
<1>1. IsSpace(s) /\ s \in SpaceNodes /\ s = Space(s.start, s.size)
      /\ s.start \in Int /\ s.size \in Int /\ s.size > 0
  BY DEF SpacesApart, IsSpace, SpaceNodes, Space
<1>2. m \in Managers
  BY DEF GoodManager
<1>3. /\ r \in Managers
      /\ r.tree.extents = m.tree.extents /\ r.tree.spaces = m.tree.spaces \cup {s}
      /\ r.tree.effectiveSize = m.tree.effectiveSize
      /\ r.curArea = s.start /\ r.curWriteStart = s.start /\ r.curSize = s.size
      /\ r.fileMaxLen = m.fileMaxLen
  BY <1>1, <1>2, TakeSpaceIs
<1> HIDE DEF r
<1>4. ASSUME NEW x \in m.tree.extents
      PROVE  x.start + x.size <= s.start \/ s.start + s.size <= x.start
  <2>1. PICK t \in m.tree.spaces : Inside(x, t)
    BY DEF GoodManager
  <2>2. t # s /\ (t.start + t.size <= s.start \/ s.start + s.size <= t.start)
    BY DEF SpacesApart
  <2>3. IsSpace(t) /\ IsExtent(x)
    BY DEF SpacesApart, GoodManager, Disjointed
  <2> QED BY <1>1, <2>1, <2>2, <2>3 DEF IsSpace, SpaceNodes, IsExtent, ExtentNodes, Inside
<1>5. InArea(r)
  BY <1>1, <1>3, <1>4 DEF InArea
<1>6. /\ SpacesApart(r.tree.spaces) /\ Disjointed(r.tree.extents)
      /\ r.fileMaxLen \in 0 .. FileLen
      /\ r.tree.effectiveSize >= Cardinality(Mapped(r.tree.extents))
  BY <1>3 DEF GoodManager
<1>7. \A x \in r.tree.extents : /\ 0 <= x.fileStart /\ FileEnd(x) <= r.fileMaxLen
                                /\ \E t \in r.tree.spaces : Inside(x, t)
  BY <1>3 DEF GoodManager
<1>8. r \in Managers
  BY <1>3
<1> QED BY <1>5, <1>6, <1>7, <1>8, Zenon DEF GoodManager, r

\* FileDataManagerTruncate keeps it.
LEMMA GoodTruncate ==
  ASSUME NEW m, GoodManager(m)
  PROVE  GoodManager(TruncateManager(m))
<1> DEFINE r == TruncateManager(m)
<1>1. m \in Managers
  BY DEF GoodManager
<1>2. /\ r \in Managers
      /\ r.tree.extents = {} /\ r.tree.spaces = m.tree.spaces
      /\ r.tree.effectiveSize = 0
      /\ r.curArea = m.curArea /\ r.curWriteStart = m.curWriteStart
      /\ r.curSize = m.curSize /\ r.fileMaxLen = 0
  BY <1>1, TruncateIs
<1> HIDE DEF r
<1>3. r.tree.effectiveSize >= Cardinality(Mapped(r.tree.extents))
  BY <1>2, NothingMapped
<1>4. r.fileMaxLen \in 0 .. FileLen
  BY <1>2, FileAssumption
<1>5. NoArea(r) \/ InArea(r)
  <2>1. NoArea(m) => NoArea(r)
    BY <1>2 DEF NoArea
  <2>2. InArea(m) => InArea(r)
    BY <1>2 DEF InArea
  <2> QED BY <2>1, <2>2 DEF GoodManager
<1>6. SpacesApart(r.tree.spaces) /\ Disjointed(r.tree.extents)
  BY <1>2 DEF GoodManager, Disjointed
<1>7. \A x \in r.tree.extents : /\ 0 <= x.fileStart /\ FileEnd(x) <= r.fileMaxLen
                                /\ \E t \in r.tree.spaces : Inside(x, t)
  BY <1>2
<1>8. r \in Managers
  BY <1>2
<1> QED BY <1>3, <1>4, <1>5, <1>6, <1>7, <1>8, Zenon DEF GoodManager, r

\* The extent goes where no other is.
LEMMA FitsApart ==
  ASSUME NEW m, GoodManager(m), NEW x, Fits(m, x)
  PROVE  /\ InArea(m)
         /\ \A y \in m.tree.extents : NvmApart(x, y)
         /\ Inside(x, Space(m.curArea, m.curSize))
         /\ m.curWriteStart + x.size <= m.curArea + m.curSize
<1>1. /\ m.curArea \in Int /\ m.curWriteStart \in Int /\ m.curSize \in Int
  BY ManagerTypes DEF GoodManager
<1>2. /\ x.size \in Int /\ x.size > 0 /\ x.start = m.curWriteStart
      /\ x.size <= m.curSize - (m.curWriteStart - m.curArea)
  BY DEF Fits, RestSizeOfCurrentArea, IsExtent, ExtentNodes
<1>3. InArea(m)
  BY <1>1, <1>2 DEF GoodManager, NoArea
<1>4. ASSUME NEW y \in m.tree.extents PROVE NvmApart(x, y)
  <2>1. IsExtent(y)
    BY DEF GoodManager, Disjointed
  <2>2. y.start + y.size <= m.curWriteStart \/ m.curArea + m.curSize <= y.start
    BY <1>3 DEF InArea
  <2> QED BY <1>1, <1>2, <2>1, <2>2 DEF NvmApart, IsExtent, ExtentNodes
<1>5. Inside(x, Space(m.curArea, m.curSize))
  BY <1>1, <1>2, <1>3 DEF Inside, Space, InArea
<1> QED BY <1>1, <1>2, <1>3, <1>4, <1>5

\* WriteDataToArea keeps it: the extent is there and hides only what it covers.
LEMMA GoodTakeExtent ==
  ASSUME NEW m, GoodManager(m), NEW x, Fits(m, x)
  PROVE  /\ GoodManager(TakeExtent(m, x))
         /\ TakeExtent(m, x).tree.spaces = m.tree.spaces
         /\ x \in TakeExtent(m, x).tree.extents
         /\ \A z \in m.tree.extents : \A o \in FileWords(z) \ FileWords(x) :
              \E y \in TakeExtent(m, x).tree.extents : o \in FileWords(y) /\ PartOf(y, z)
         /\ \A y \in TakeExtent(m, x).tree.extents :
              y = x \/ \E z \in m.tree.extents : PartOf(y, z)
<1> DEFINE r == TakeExtent(m, x)
           t == FileExtentTreeAddExtent(m.tree, x)
<1>1. /\ m \in Managers /\ m.tree \in Trees /\ m.curArea \in Int
      /\ m.curWriteStart \in Int /\ m.curSize \in Int /\ m.fileMaxLen \in Int
      /\ m.fileMaxLen <= FileLen
  BY ManagerTypes, FileAssumption DEF GoodManager
<1>2. /\ IsExtent(x) /\ x \in ExtentNodes /\ x.size \in Int /\ x.size > 0
      /\ x.start = m.curWriteStart /\ x.fileStart \in Int
      /\ FileEnd(x) = x.fileStart + x.size /\ FileEnd(x) \in Int
      /\ 0 <= x.fileStart /\ FileEnd(x) <= FileLen
  BY DEF Fits, IsExtent, ExtentNodes, FileEnd
<1>3. /\ InArea(m) /\ \A y \in m.tree.extents : NvmApart(x, y)
      /\ Inside(x, Space(m.curArea, m.curSize))
      /\ m.curWriteStart + x.size <= m.curArea + m.curSize
  BY FitsApart
<1>4. /\ r \in Managers /\ r.tree = t
      /\ r.curArea = m.curArea /\ r.curWriteStart = x.start + x.size
      /\ r.curSize = m.curSize /\ r.fileMaxLen = Most(m.fileMaxLen, FileEnd(x))
  BY <1>1, <1>2, TakeExtentIs
<1>5. /\ t \in Trees /\ t.spaces = m.tree.spaces
      /\ x \in t.extents
      /\ \A y \in t.extents : y = x \/ \E z \in m.tree.extents : PartOf(y, z)
      /\ \A z \in m.tree.extents : \A o \in FileWords(z) \ FileWords(x) :
              \E y \in t.extents : o \in FileWords(y) /\ PartOf(y, z)
      /\ Disjointed(t.extents)
      /\ t.effectiveSize >= Cardinality(Mapped(t.extents))
  <2>1. Disjointed(m.tree.extents)
        /\ m.tree.effectiveSize >= Cardinality(Mapped(m.tree.extents))
    BY DEF GoodManager
  <2> HIDE DEF t
  <2>2. t = FileExtentTreeAddExtent(m.tree, x)
    BY DEF t
  <2> QED BY <1>1, <1>2, <1>3, <2>1, <2>2, AddExtentFacts, SMTT(60)
<1> HIDE DEF r, t
<1>6. /\ r.fileMaxLen \in 0 .. FileLen /\ m.fileMaxLen <= r.fileMaxLen
      /\ FileEnd(x) <= r.fileMaxLen
  BY <1>1, <1>2, <1>4, FileAssumption DEF Most, GoodManager
<1>7. ASSUME NEW y \in t.extents
      PROVE  /\ 0 <= y.fileStart /\ FileEnd(y) <= r.fileMaxLen
             /\ \E s \in t.spaces : Inside(y, s)
             /\ y.start + y.size <= x.start + x.size \/ m.curArea + m.curSize <= y.start
  <2>1. CASE y = x
    <3>1. Inside(x, Space(m.curArea, m.curSize)) /\ Space(m.curArea, m.curSize) \in t.spaces
      BY <1>3, <1>5 DEF InArea
    <3> QED BY <1>1, <1>2, <1>6, <2>1, <3>1
  <2>2. CASE y # x
    <3>1. PICK z \in m.tree.extents : PartOf(y, z)
      BY <1>5, <2>2
    <3>2. PICK s \in m.tree.spaces : Inside(z, s)
      BY DEF GoodManager
    <3>3. /\ IsExtent(z) /\ IsExtent(y) /\ IsSpace(s)
          /\ 0 <= z.fileStart /\ FileEnd(z) <= m.fileMaxLen
          /\ z.start + z.size <= m.curWriteStart \/ m.curArea + m.curSize <= z.start
      BY <1>3, <3>1 DEF GoodManager, Disjointed, PartOf, InArea, SpacesApart
    <3>4. /\ z.start \in Int /\ z.size \in Int /\ z.fileStart \in Int
          /\ y.start \in Int /\ y.size \in Int /\ y.fileStart \in Int
          /\ FileEnd(z) = z.fileStart + z.size /\ FileEnd(y) = y.fileStart + y.size
          /\ s.start \in Int /\ s.size \in Int
      BY <3>3 DEF IsExtent, ExtentNodes, FileEnd, IsSpace, SpaceNodes
    <3>5. /\ z.fileStart <= y.fileStart /\ FileEnd(y) <= FileEnd(z)
          /\ y.start - y.fileStart = z.start - z.fileStart
      BY <3>1 DEF PartOf
    <3>6. z.start <= y.start /\ y.start + y.size <= z.start + z.size
      BY <3>4, <3>5
    <3>7. Inside(y, s)
      BY <3>2, <3>4, <3>6 DEF Inside
    <3>8. 0 <= y.fileStart /\ FileEnd(y) <= r.fileMaxLen
      BY <1>1, <1>6, <3>3, <3>4, <3>5, FileAssumption
    <3>9. y.start + y.size <= x.start + x.size \/ m.curArea + m.curSize <= y.start
      BY <1>1, <1>2, <3>3, <3>4, <3>6
    <3> QED BY <1>5, <3>7, <3>8, <3>9
  <2> QED BY <2>1, <2>2
<1>8. InArea(r)
  BY <1>1, <1>2, <1>3, <1>4, <1>5, <1>7 DEF InArea
<1>9. GoodManager(r)
  <2>1. SpacesApart(r.tree.spaces) /\ Disjointed(r.tree.extents)
    BY <1>4, <1>5 DEF GoodManager
  <2>2. \A y \in r.tree.extents : /\ 0 <= y.fileStart /\ FileEnd(y) <= r.fileMaxLen
                                  /\ \E s \in r.tree.spaces : Inside(y, s)
    BY <1>4, <1>7
  <2> QED BY <1>4, <1>5, <1>6, <1>8, <2>1, <2>2 DEF GoodManager
<1> QED BY <1>4, <1>5, <1>9 DEF r

-----------------------------------------------------------------------------
\* The log and the manager that it stands for: one entry more is what the
\* write, the new space or the truncation did to the manager in memory.

\* Where the entries leave the place to write at: behind the data they name
\* last, whichever space that is in.
RawWhere(m) ==
  \/ m.curWriteStart = -1
  \/ \E t \in m.tree.spaces : t.start < m.curWriteStart
                              /\ m.curWriteStart <= t.start + t.size

\* Managers with the same fields are the same.
LEMMA SameManager ==
  ASSUME NEW m \in Managers, NEW r \in Managers,
         m.tree = r.tree, m.curArea = r.curArea, m.curWriteStart = r.curWriteStart,
         m.curSize = r.curSize, m.lastUsedPage = r.lastUsedPage,
         m.fileMaxLen = r.fileMaxLen
  PROVE  m = r
  BY DEF Managers

\* FileDataManagerRebuildEnd moves only the place to write at.
LEMMA RebuildEndIs ==
  ASSUME NEW m \in Managers, NEW r, r = RebuildEnd(m)
  PROVE  /\ r \in Managers /\ r.tree = m.tree /\ r.curArea = m.curArea
         /\ r.curSize = m.curSize /\ r.lastUsedPage = m.lastUsedPage
         /\ r.fileMaxLen = m.fileMaxLen
         /\ r.curWriteStart = IF m.curArea <= m.curWriteStart
                                 /\ m.curWriteStart <= m.curArea + m.curSize
                              THEN m.curWriteStart ELSE m.curArea
<1>1. m.curArea \in Int /\ m.curWriteStart \in Int /\ m.curSize \in Int
  BY ManagerTypes
<1>2. CASE m.curArea <= m.curWriteStart /\ m.curWriteStart <= m.curArea + m.curSize
  <2>1. r = m
    BY <1>1, <1>2 DEF RebuildEnd
  <2> QED BY <1>2, <2>1
<1>3. CASE ~(m.curArea <= m.curWriteStart /\ m.curWriteStart <= m.curArea + m.curSize)
  <2>1. r = [m EXCEPT !.curWriteStart = m.curArea]
    BY <1>1, <1>3 DEF RebuildEnd
  <2>2. /\ r \in Managers /\ r.tree = m.tree /\ r.curArea = m.curArea
        /\ r.curSize = m.curSize /\ r.lastUsedPage = m.lastUsedPage
        /\ r.fileMaxLen = m.fileMaxLen /\ r.curWriteStart = m.curArea
    BY <1>1, <2>1 DEF Managers
  <2> QED BY <1>3, <2>2
<1> QED BY <1>2, <1>3

\* Rebuilt from one space entry more.
LEMMA RebuiltSpace ==
  ASSUME NEW m \in Managers, RawWhere(m), NEW s, s \notin m.tree.spaces,
         SpacesApart(m.tree.spaces \cup {s}),
         NEW r, r = RebuildEntry(m, SpaceEntry(s))
  PROVE  /\ RebuildEnd(r) = TakeSpace(RebuildEnd(m), s)
         /\ RawWhere(r) /\ r.tree.spaces = m.tree.spaces \cup {s}
<1>1. IsSpace(s) /\ s \in SpaceNodes /\ s.start \in Int /\ s.size \in Int /\ s.size > 0
      /\ 0 <= s.start
  BY DEF SpacesApart, IsSpace, SpaceNodes
<1> DEFINE u == TakeSpace(m, s)
           v == RebuildEnd(m)
           w == TakeSpace(v, s)
<1>2. r = [u EXCEPT !.curWriteStart = m.curWriteStart]
  BY DEF RebuildEntry, SpaceEntry, RebuildAddSpace
<1>3. /\ u \in Managers /\ u.tree.spaces = m.tree.spaces \cup {s}
      /\ u.curArea = s.start /\ u.curSize = s.size /\ u.fileMaxLen = m.fileMaxLen
  BY <1>1, TakeSpaceIs
<1>4. v \in Managers /\ v.tree = m.tree /\ v.fileMaxLen = m.fileMaxLen
      /\ v.lastUsedPage = m.lastUsedPage
  BY RebuildEndIs
<1>5. /\ w \in Managers /\ w.curArea = s.start /\ w.curSize = s.size
      /\ w.curWriteStart = s.start /\ w.fileMaxLen = v.fileMaxLen
  <2> HIDE DEF v
  <2> QED BY <1>1, <1>4, TakeSpaceIs
<1>6. u.tree = w.tree /\ u.lastUsedPage = w.lastUsedPage
  <2> HIDE DEF v
  <2> QED BY <1>4 DEF TakeSpace, Managers
<1>7. m.curWriteStart \in Int
  BY ManagerTypes
<1> HIDE DEF u, v, w
<1>8. /\ r \in Managers /\ r.tree = u.tree /\ r.curArea = s.start /\ r.curSize = s.size
      /\ r.lastUsedPage = u.lastUsedPage /\ r.fileMaxLen = m.fileMaxLen
      /\ r.curWriteStart = m.curWriteStart
  BY <1>2, <1>3, <1>7 DEF Managers
<1>9. ASSUME s.start <= m.curWriteStart, m.curWriteStart <= s.start + s.size
      PROVE  m.curWriteStart = s.start
  <2>1. PICK t \in m.tree.spaces : t.start < m.curWriteStart
                                   /\ m.curWriteStart <= t.start + t.size
    BY <1>1, <1>7, <1>9 DEF RawWhere
  <2>2. t # s /\ (t.start + t.size <= s.start \/ s.start + s.size <= t.start)
    BY DEF SpacesApart
  <2>3. t.start \in Int /\ t.size \in Int
    BY DEF SpacesApart, IsSpace, SpaceNodes
  <2> QED BY <1>1, <1>7, <1>9, <2>1, <2>2, <2>3
<1> DEFINE z == RebuildEnd(r)
<1>10. /\ z \in Managers /\ z.tree = r.tree /\ z.curArea = r.curArea
       /\ z.curSize = r.curSize /\ z.lastUsedPage = r.lastUsedPage
       /\ z.fileMaxLen = r.fileMaxLen
       /\ z.curWriteStart = IF r.curArea <= r.curWriteStart
                               /\ r.curWriteStart <= r.curArea + r.curSize
                            THEN r.curWriteStart ELSE r.curArea
  BY <1>8, RebuildEndIs
<1> HIDE DEF z
<1>11. z = w
  BY <1>4, <1>5, <1>6, <1>8, <1>9, <1>10, SameManager
<1>12. RawWhere(r)
  <2>1. r.tree.spaces = m.tree.spaces \cup {s}
    BY <1>3, <1>8
  <2> QED BY <1>8, <2>1 DEF RawWhere
<1> QED BY <1>3, <1>8, <1>11, <1>12 DEF z, w, v

\* Rebuilt from one data entry more.
LEMMA RebuiltExtent ==
  ASSUME NEW m \in Managers, RawWhere(m), GoodManager(RebuildEnd(m)), NEW x,
         Fits(RebuildEnd(m), x), NEW r, r = RebuildEntry(m, DataEntry(x))
  PROVE  /\ RebuildEnd(r) = TakeExtent(RebuildEnd(m), x)
         /\ RawWhere(r) /\ r.tree.spaces = m.tree.spaces
<1> DEFINE v == RebuildEnd(m)
           w == TakeExtent(v, x)
<1>1. v \in Managers /\ v.tree = m.tree /\ v.fileMaxLen = m.fileMaxLen
      /\ v.curArea = m.curArea /\ v.curSize = m.curSize
      /\ v.lastUsedPage = m.lastUsedPage
  BY RebuildEndIs
<1>2. r = TakeExtent(m, x)
  BY DEF RebuildEntry, DataEntry, RebuildAddExtent, TakeExtent
<1>3. /\ InArea(v) /\ Inside(x, Space(v.curArea, v.curSize))
      /\ v.curWriteStart + x.size <= v.curArea + v.curSize
  <2> HIDE DEF v
  <2>1. GoodManager(v) /\ Fits(v, x)
    BY DEF v
  <2> QED BY <2>1, FitsApart
<1>4. x \in ExtentNodes /\ x.start \in Int /\ x.size \in Int /\ x.size > 0
      /\ x.start = v.curWriteStart
  BY DEF Fits, IsExtent, ExtentNodes
<1>5. /\ r \in Managers
      /\ r.tree = FileExtentTreeAddExtent(m.tree, x)
      /\ r.curArea = m.curArea /\ r.curWriteStart = x.start + x.size
      /\ r.curSize = m.curSize /\ r.fileMaxLen = Most(m.fileMaxLen, FileEnd(x))
  BY <1>2, <1>4, TakeExtentIs
<1>6. /\ w \in Managers
      /\ w.tree = FileExtentTreeAddExtent(v.tree, x)
      /\ w.curArea = v.curArea /\ w.curWriteStart = x.start + x.size
      /\ w.curSize = v.curSize /\ w.fileMaxLen = Most(v.fileMaxLen, FileEnd(x))
  <2> HIDE DEF v
  <2> QED BY <1>1, <1>4, TakeExtentIs
<1>7. r.lastUsedPage = m.lastUsedPage /\ w.lastUsedPage = v.lastUsedPage
  <2> HIDE DEF v
  <2> QED BY <1>1, <1>2 DEF TakeExtent, Managers
<1>8. r.tree.spaces = m.tree.spaces
  <2>1. ExtentTreeErase(m.tree, x.fileStart, FileEnd(x)).spaces = m.tree.spaces
        /\ ExtentTreeErase(m.tree, x.fileStart, FileEnd(x)) \in Trees
    <3>1. m.tree \in Trees /\ x.fileStart \in Int /\ FileEnd(x) \in Int
      BY <1>4, ManagerTypes DEF ExtentNodes, FileEnd
    <3>2. ASSUME NEW t \in Trees, NEW a, NEW b PROVE ExtentTreeErase(t, a, b).spaces = t.spaces
      BY DEF ExtentTreeErase, Trees
    <3> QED BY <3>1, <3>2, EraseTyped
  <2> QED BY <1>5, <2>1 DEF FileExtentTreeAddExtent, InsertExtentNode, Trees
<1>T. v.curArea \in Int /\ v.curSize \in Int /\ v.curWriteStart \in Int
  BY <1>1, ManagerTypes
<1> HIDE DEF v, w
<1>9. RebuildEnd(r) = r
  <2>1. r.curWriteStart >= r.curArea /\ r.curWriteStart <= r.curArea + r.curSize
    BY <1>1, <1>T, <1>3, <1>4, <1>5 DEF InArea
  <2> QED BY <2>1 DEF RebuildEnd
<1>10. r = w
  BY <1>1, <1>5, <1>6, <1>7, SameManager
<1>11. RawWhere(r)
  <2> DEFINE t == Space(v.curArea, v.curSize)
  <2>1. t \in r.tree.spaces /\ t.start = v.curArea /\ t.size = v.curSize
    BY <1>1, <1>3, <1>8 DEF InArea, Space
  <2>2. t.start < r.curWriteStart /\ r.curWriteStart <= t.start + t.size
    BY <1>T, <1>3, <1>4, <1>5, <2>1 DEF InArea
  <2> QED BY <2>1, <2>2 DEF RawWhere
<1> QED BY <1>8, <1>9, <1>10, <1>11 DEF w, v

\* Rebuilt from one truncate entry more.
LEMMA RebuiltTruncate ==
  ASSUME NEW m \in Managers, RawWhere(m),
         NEW r, r = RebuildEntry(m, TruncateEntry)
  PROVE  /\ RebuildEnd(r) = TruncateManager(RebuildEnd(m))
         /\ RawWhere(r) /\ r.tree.spaces = m.tree.spaces
<1> DEFINE v == RebuildEnd(m)
           w == TruncateManager(v)
           z == RebuildEnd(r)
<1>1. /\ v \in Managers /\ v.tree = m.tree /\ v.curArea = m.curArea
      /\ v.curSize = m.curSize /\ v.lastUsedPage = m.lastUsedPage
      /\ v.fileMaxLen = m.fileMaxLen
      /\ v.curWriteStart = IF m.curArea <= m.curWriteStart
                                 /\ m.curWriteStart <= m.curArea + m.curSize
                              THEN m.curWriteStart ELSE m.curArea
  BY RebuildEndIs
<1>2. r = TruncateManager(m)
  BY DEF RebuildEntry, TruncateEntry, RebuildTruncate, TruncateManager
<1>3. /\ r \in Managers /\ r.tree.spaces = m.tree.spaces
      /\ r.curArea = m.curArea /\ r.curWriteStart = m.curWriteStart
      /\ r.curSize = m.curSize /\ r.fileMaxLen = 0
  BY <1>2, TruncateIs
<1>4. /\ w \in Managers
      /\ w.curArea = v.curArea /\ w.curWriteStart = v.curWriteStart
      /\ w.curSize = v.curSize /\ w.fileMaxLen = 0
  <2> HIDE DEF v
  <2> QED BY <1>1, TruncateIs
<1>5. r.lastUsedPage = m.lastUsedPage /\ w.lastUsedPage = v.lastUsedPage
      /\ r.tree = FileExtentTreeTruncate(m.tree) /\ w.tree = FileExtentTreeTruncate(v.tree)
  <2> HIDE DEF v
  <2> DEFINE zero == 0
  <2>1. r = [m EXCEPT !.tree = FileExtentTreeTruncate(@), !.fileMaxLen = zero]
        /\ w = [v EXCEPT !.tree = FileExtentTreeTruncate(@), !.fileMaxLen = zero]
    BY <1>2 DEF TruncateManager
  <2> HIDE DEF zero, w
  <2> QED BY <1>1, <2>1 DEF Managers
<1>6. /\ z \in Managers /\ z.tree = r.tree /\ z.curArea = r.curArea
      /\ z.curSize = r.curSize /\ z.lastUsedPage = r.lastUsedPage
      /\ z.fileMaxLen = r.fileMaxLen
      /\ z.curWriteStart = IF r.curArea <= r.curWriteStart
                                 /\ r.curWriteStart <= r.curArea + r.curSize
                              THEN r.curWriteStart ELSE r.curArea
  BY <1>3, RebuildEndIs
<1> HIDE DEF v, w, z
<1>7. z = w
  BY <1>1, <1>3, <1>4, <1>5, <1>6, SameManager
<1>8. RawWhere(r)
  BY <1>3 DEF RawWhere
<1> QED BY <1>3, <1>7, <1>8 DEF z, w, v

LogGood(l) ==
  /\ l \in Seq(Entries)
  /\ RawWhere(Raw(l))
  /\ GoodManager(FileInodeInfoRebuild(l))
  /\ FileInodeInfoRebuild(l).tree.spaces = SpacesIn(l)

\* The spaces that a log names, with one entry more.
LEMMA SpacesInAppend ==
  ASSUME NEW l \in Seq(Entries), NEW e \in Entries
  PROVE  SpacesIn(Append(l, e)) =
           SpacesIn(l) \cup (IF e.type = "space" THEN {e.space} ELSE {})
<1> DEFINE k == Append(l, e)
<1>1. /\ Len(k) = Len(l) + 1 /\ Len(l) \in Nat /\ k[Len(l) + 1] = e
      /\ \A i \in 1 .. Len(l) : k[i] = l[i]
      /\ DOMAIN k = 1 .. Len(k) /\ DOMAIN l = 1 .. Len(l)
  BY AppendProperties
<1> HIDE DEF k
<1>2. ToSet(k) = ToSet(l) \cup {e}
  <2>1. ToSet(k) = {k[i] : i \in 1 .. Len(k)} /\ ToSet(l) = {l[i] : i \in 1 .. Len(l)}
    BY <1>1 DEF ToSet
  <2>2. 1 .. Len(k) = (1 .. Len(l)) \cup {Len(l) + 1}
    BY <1>1
  <2> QED BY <1>1, <2>1, <2>2
<1>3. SpacesIn(k) = {f.space : f \in {g \in ToSet(k) : g.type = "space"}}
      /\ SpacesIn(l) = {f.space : f \in {g \in ToSet(l) : g.type = "space"}}
  BY DEF SpacesIn
<1>4. {g \in ToSet(k) : g.type = "space"} =
        {g \in ToSet(l) : g.type = "space"} \cup (IF e.type = "space" THEN {e} ELSE {})
  BY <1>2
<1>5. SpacesIn(k) = SpacesIn(l) \cup (IF e.type = "space" THEN {e.space} ELSE {})
  <2>1. CASE e.type = "space"
    <3>1. {g \in ToSet(k) : g.type = "space"} = {g \in ToSet(l) : g.type = "space"} \cup {e}
      BY <1>4, <2>1
    <3>2. SpacesIn(k) = SpacesIn(l) \cup {e.space}
      BY <1>3, <3>1
    <3> QED BY <2>1, <3>2
  <2>2. CASE e.type # "space"
    BY <1>3, <1>4, <2>2
  <2> QED BY <2>1, <2>2
<1> QED BY <1>5 DEF k

\* The log of a new inode.
LEMMA LogEmpty ==
  /\ LogGood(<< >>)
  /\ FileInodeInfoRebuild(<< >>) = FileDataManagerInit
  /\ SpacesIn(<< >>) = {}
<1> DEFINE m == FileDataManagerInit
<1>1. << >> \in Seq(Entries) /\ Raw(<< >>) = m
  <2>1. << >> \in Seq(Entries)
    OBVIOUS
  <2>2. TruncateEntry \in Entries
    BY DEF Entries
  <2> QED BY <2>1, <2>2, RawAppend
<1>2. m.curWriteStart = -1 /\ m.curArea = -1 /\ m.curSize = 0 /\ m.tree.spaces = {}
  BY InitManager
<1>3. RebuildEnd(m) = m
  BY <1>2 DEF RebuildEnd
<1>4. FileInodeInfoRebuild(<< >>) = m
  BY <1>1, <1>3 DEF FileInodeInfoRebuild, Raw
<1>5. SpacesIn(<< >>) = {}
  <2>1. ToSet(<< >>) = {}
    BY DEF ToSet
  <2> QED BY <2>1 DEF SpacesIn
<1>6. RawWhere(m)
  BY <1>2 DEF RawWhere
<1> QED BY <1>1, <1>2, <1>4, <1>5, <1>6, GoodInit DEF LogGood

\* What LogGood says of the manager before and after FileDataManagerRebuildEnd.
LEMMA LogParts ==
  ASSUME NEW l, LogGood(l)
  PROVE  /\ Raw(l) \in Managers /\ RawWhere(Raw(l))
         /\ FileInodeInfoRebuild(l) = RebuildEnd(Raw(l))
         /\ GoodManager(FileInodeInfoRebuild(l)) /\ GoodManager(RebuildEnd(Raw(l)))
         /\ Raw(l).tree.spaces = SpacesIn(l)
<1>1. l \in Seq(Entries) /\ TruncateEntry \in Entries
  BY DEF LogGood, Entries
<1>2. Raw(l) \in Managers
  BY <1>1, RawAppend
<1>3. FileInodeInfoRebuild(l) = RebuildEnd(Raw(l))
  BY DEF FileInodeInfoRebuild, Raw
<1>4. RebuildEnd(Raw(l)).tree = Raw(l).tree
  BY <1>2, RebuildEndIs
<1> QED BY <1>2, <1>3, <1>4 DEF LogGood

\* AddNewSpace appends what rebuilds to what it does.
LEMMA LogAddsSpace ==
  ASSUME NEW l, LogGood(l), NEW s, s \notin SpacesIn(l), SpacesApart(SpacesIn(l) \cup {s}),
         NEW k, k = Append(l, SpaceEntry(s))
  PROVE  /\ LogGood(k)
         /\ FileInodeInfoRebuild(k) = TakeSpace(FileInodeInfoRebuild(l), s)
         /\ SpacesIn(k) = SpacesIn(l) \cup {s}
<1> DEFINE m == Raw(l)
           e == SpaceEntry(s)
<1>1. /\ m \in Managers /\ RawWhere(m)
      /\ FileInodeInfoRebuild(l) = RebuildEnd(m)
      /\ GoodManager(RebuildEnd(m)) /\ m.tree.spaces = SpacesIn(l)
  BY LogParts
<1>2. e \in Entries /\ l \in Seq(Entries) /\ s \in SpaceNodes
      /\ e.type = "space" /\ e.space = s
  BY DEF LogGood, SpaceEntry, Entries, SpacesApart, IsSpace
<1>3. k \in Seq(Entries) /\ Raw(k) = RebuildEntry(m, e)
  <2> HIDE DEF e
  <2>1. k = Append(l, e)
    BY DEF e
  <2> QED BY <1>2, <2>1, RawAppend, AppendProperties
<1>4. SpacesIn(k) = SpacesIn(l) \cup {s}
  <2> HIDE DEF e
  <2>1. k = Append(l, e)
    BY DEF e
  <2> QED BY <1>2, <2>1, SpacesInAppend
<1> HIDE DEF m
<1>5. /\ RebuildEnd(Raw(k)) = TakeSpace(RebuildEnd(m), s)
      /\ RawWhere(Raw(k)) /\ Raw(k).tree.spaces = m.tree.spaces \cup {s}
  BY <1>1, <1>3, RebuiltSpace
<1>6. FileInodeInfoRebuild(k) = RebuildEnd(Raw(k))
  BY DEF FileInodeInfoRebuild, Raw
<1>7. GoodManager(FileInodeInfoRebuild(k))
  <2> DEFINE v == RebuildEnd(m)
  <2>1. v.tree.spaces = SpacesIn(l)
    BY <1>1, RebuildEndIs
  <2> HIDE DEF v
  <2>2. GoodManager(v)
    BY <1>1 DEF v
  <2>3. GoodManager(TakeSpace(v, s))
    BY <2>1, <2>2, GoodTakeSpace
  <2> QED BY <1>5, <1>6, <2>3 DEF v
<1>8. FileInodeInfoRebuild(k).tree.spaces = SpacesIn(k)
  <2>1. RebuildEnd(Raw(k)).tree = Raw(k).tree
    <3>1. Raw(k) \in Managers
      BY <1>2, <1>3, RawAppend
    <3> QED BY <3>1, RebuildEndIs
  <2> QED BY <1>1, <1>4, <1>5, <1>6, <2>1
<1> QED BY <1>1, <1>3, <1>4, <1>5, <1>6, <1>7, <1>8 DEF LogGood

\* WriteDataToArea appends what rebuilds to what it does.
LEMMA LogAddsExtent ==
  ASSUME NEW l, LogGood(l), NEW x, Fits(FileInodeInfoRebuild(l), x),
         NEW k, k = Append(l, DataEntry(x))
  PROVE  /\ LogGood(k)
         /\ FileInodeInfoRebuild(k) = TakeExtent(FileInodeInfoRebuild(l), x)
         /\ SpacesIn(k) = SpacesIn(l)
<1> DEFINE m == Raw(l)
           e == DataEntry(x)
<1>1. /\ m \in Managers /\ RawWhere(m)
      /\ FileInodeInfoRebuild(l) = RebuildEnd(m)
      /\ GoodManager(RebuildEnd(m)) /\ m.tree.spaces = SpacesIn(l)
  BY LogParts
<1>2. e \in Entries /\ l \in Seq(Entries) /\ e.type # "space"
  BY DEF LogGood, DataEntry, Entries, Fits, IsExtent
<1>3. k \in Seq(Entries) /\ Raw(k) = RebuildEntry(m, e)
  <2> HIDE DEF e
  <2>1. k = Append(l, e)
    BY DEF e
  <2> QED BY <1>2, <2>1, RawAppend, AppendProperties
<1>4. SpacesIn(k) = SpacesIn(l)
  <2> HIDE DEF e
  <2>1. k = Append(l, e)
    BY DEF e
  <2> QED BY <1>2, <2>1, SpacesInAppend
<1> HIDE DEF m
<1>5. /\ RebuildEnd(Raw(k)) = TakeExtent(RebuildEnd(m), x)
      /\ RawWhere(Raw(k)) /\ Raw(k).tree.spaces = m.tree.spaces
  <2>1. Fits(RebuildEnd(m), x)
    BY <1>1
  <2> QED BY <1>1, <1>3, <2>1, RebuiltExtent
<1>6. FileInodeInfoRebuild(k) = RebuildEnd(Raw(k))
  BY DEF FileInodeInfoRebuild, Raw
<1>7. GoodManager(FileInodeInfoRebuild(k))
  <2>1. Fits(RebuildEnd(m), x)
    BY <1>1
  <2>2. GoodManager(TakeExtent(RebuildEnd(m), x))
    BY <1>1, <2>1, GoodTakeExtent
  <2> QED BY <1>5, <1>6, <2>2
<1>8. FileInodeInfoRebuild(k).tree.spaces = SpacesIn(k)
  <2>1. RebuildEnd(Raw(k)).tree = Raw(k).tree
    <3>1. Raw(k) \in Managers
      BY <1>2, <1>3, RawAppend
    <3> QED BY <3>1, RebuildEndIs
  <2> QED BY <1>1, <1>4, <1>5, <1>6, <2>1
<1> QED BY <1>1, <1>3, <1>4, <1>5, <1>6, <1>7, <1>8 DEF LogGood

\* FileDataManagerTruncate appends what rebuilds to what it does.
LEMMA LogAddsTruncate ==
  ASSUME NEW l, LogGood(l), NEW k, k = Append(l, TruncateEntry)
  PROVE  /\ LogGood(k)
         /\ FileInodeInfoRebuild(k) = TruncateManager(FileInodeInfoRebuild(l))
         /\ SpacesIn(k) = SpacesIn(l)
<1> DEFINE m == Raw(l)
           e == TruncateEntry
<1>1. /\ m \in Managers /\ RawWhere(m)
      /\ FileInodeInfoRebuild(l) = RebuildEnd(m)
      /\ GoodManager(RebuildEnd(m)) /\ m.tree.spaces = SpacesIn(l)
  BY LogParts
<1>2. e \in Entries /\ l \in Seq(Entries) /\ e.type # "space"
  BY DEF LogGood, Entries, TruncateEntry
<1>3. k \in Seq(Entries) /\ Raw(k) = RebuildEntry(m, e)
  BY <1>2, RawAppend, AppendProperties
<1>4. SpacesIn(k) = SpacesIn(l)
  BY <1>2, SpacesInAppend
<1> HIDE DEF m
<1>5. /\ RebuildEnd(Raw(k)) = TruncateManager(RebuildEnd(m))
      /\ RawWhere(Raw(k)) /\ Raw(k).tree.spaces = m.tree.spaces
  BY <1>1, <1>3, RebuiltTruncate
<1>6. FileInodeInfoRebuild(k) = RebuildEnd(Raw(k))
  BY DEF FileInodeInfoRebuild, Raw
<1>7. GoodManager(FileInodeInfoRebuild(k))
  BY <1>1, <1>5, <1>6, GoodTruncate
<1>8. FileInodeInfoRebuild(k).tree.spaces = SpacesIn(k)
  <2>1. RebuildEnd(Raw(k)).tree = Raw(k).tree
    <3>1. Raw(k) \in Managers
      BY <1>2, <1>3, RawAppend
    <3> QED BY <3>1, RebuildEndIs
  <2> QED BY <1>1, <1>4, <1>5, <1>6, <2>1
<1> QED BY <1>1, <1>3, <1>4, <1>5, <1>6, <1>7, <1>8 DEF LogGood

-----------------------------------------------------------------------------
\* Who owns which page and which block.

PageSpace(p) == Space(PageAddr(p), PAGE)
IsPageSpace(s) == \E p \in PagePool : s = PageSpace(p)
IsRunSpace(s) ==
  \E x \in Runs(TotalBlockNum) : s = RunSpace(x) /\ Span(x) \subseteq Covered(BlockPool)
PagesOf(S) == {p \in PagePool : PageSpace(p) \in S}
BlocksOf(S) == UNION {BlocksIn(s) : s \in S}

\* The pages and blocks of the spaces S, of the pools and of the log are apart.
Owned(S, pages, logged, tree) ==
  /\ \A s \in S : IsPageSpace(s) \/ IsRunSpace(s)
  /\ \A s, t \in S : s # t => BlocksIn(s) \cap BlocksIn(t) = {}
  /\ pages \in SUBSET PagePool /\ logged \in SUBSET PagePool
  /\ pages \cap logged = {} /\ pages \cap PagesOf(S) = {} /\ logged \cap PagesOf(S) = {}
  /\ tree \in SUBSET Runs(TotalBlockNum) /\ Canonical(tree)
  /\ Covered(tree) \subseteq Covered(BlockPool) /\ Covered(tree) \cap BlocksOf(S) = {}

\* Together they are all there are.
NoneLost(S, pages, logged, tree) ==
  /\ PagePool \subseteq pages \cup logged \cup PagesOf(S)
  /\ Covered(BlockPool) \subseteq Covered(tree) \cup BlocksOf(S)

\* What the constants are.
LEMMA SizesTyped ==
  /\ PAGE \in Nat \ {0} /\ BLOCK \in Nat \ {0} /\ PAGE < BLOCK /\ TotalBlockNum \in Nat
  /\ PagePool \subseteq Nat /\ IsFiniteSet(PagePool)
  /\ BlockPool \in SUBSET Runs(TotalBlockNum) /\ Canonical(BlockPool)
<1>1. /\ PAGE \in Nat \ {0} /\ BLOCK \in Nat \ {0} /\ PAGE < BLOCK /\ TotalBlockNum \in Nat
      /\ PagePool \subseteq Nat /\ IsFiniteSet(PagePool) /\ Canonical(BlockPool)
      /\ BlockPool \subseteq [start : 0 .. TotalBlockNum, end : 0 .. TotalBlockNum]
  BY FileAssumption
<1>2. ASSUME NEW x \in BlockPool PROVE x \in Runs(TotalBlockNum)
  <2>1. x \in [start : 0 .. TotalBlockNum, end : 0 .. TotalBlockNum]
    BY <1>1
  <2>2. x.start < x.end
    BY <1>1 DEF Canonical
  <2> QED BY <1>1, <2>1, <2>2 DEF Runs
<1> QED BY <1>1, <1>2

\* The space of a run of blocks: its words are those of its blocks.
LEMMA RunSpaceFacts ==
  ASSUME NEW x \in Runs(TotalBlockNum), NEW s, s = RunSpace(x)
  PROVE  /\ IsSpace(s) /\ s.size # PAGE /\ s = Space(s.start, s.size)
         /\ s.start = x.start * BLOCK /\ s.start + s.size = x.end * BLOCK
         /\ s.start \div BLOCK = x.start /\ (s.start + s.size) \div BLOCK = x.end
         /\ BlocksIn(s) = Span(x) /\ Span(x) # {}
         /\ \A w \in Int : w \in SpaceWords(s) <=> w \div BLOCK \in Span(x)
         /\ SpaceWords(s) = BlockWords(x)
<1>1. /\ x.start \in Nat /\ x.end \in Nat /\ x.start < x.end
      /\ SizeOf(x) = x.end - x.start
  BY SizesTyped, RunFacts
<1>2. BLOCK \in Nat \ {0} /\ PAGE \in Nat /\ PAGE < BLOCK
  BY SizesTyped
<1> DEFINE a == x.start
           b == x.end
           aa == a * BLOCK
           bb == b * BLOCK
<1>3. a \in Int /\ b \in Int /\ a < b /\ a >= 0 /\ a + 1 <= b
  BY <1>1
<1> HIDE DEF a, b
<1>4. /\ aa \in Int /\ bb \in Int /\ (a + 1) * BLOCK = aa + BLOCK
      /\ (b - a) * BLOCK = bb - aa
  BY <1>2, <1>3, TimesMono
<1>5. (a + 1) * BLOCK <= bb
  <2>1. a + 1 \in Int
    BY <1>3
  <2> QED BY <1>2, <1>3, <2>1, TimesMono
<1>6. 0 <= aa
  <2>1. 0 * BLOCK <= a * BLOCK /\ 0 * BLOCK = 0
    BY <1>2, <1>3, TimesMono
  <2> QED BY <2>1
<1>7. aa \div BLOCK = a /\ bb \div BLOCK = b
  <2>1. aa \div BLOCK = a
    BY <1>2, <1>3, DivRange
  <2>2. bb \div BLOCK = b
    BY <1>2, <1>3, DivRange
  <2> QED BY <2>1, <2>2
<1>8. /\ s = Space(aa, (b - a) * BLOCK) /\ s.start = aa /\ s.size = bb - aa
      /\ s.start + s.size = bb
  BY <1>1, <1>4 DEF RunSpace, Space, a, b
<1>9. ASSUME NEW w \in Int
      PROVE  /\ aa <= w <=> a <= w \div BLOCK
             /\ w < bb <=> w \div BLOCK < b
             /\ w \div BLOCK \in Int
  BY <1>2, <1>3, DivRange, DivFacts
<1> HIDE DEF aa, bb
<1>10. s.size # PAGE /\ s.size > 0 /\ s \in SpaceNodes
  BY <1>2, <1>4, <1>5, <1>8 DEF Space, SpaceNodes
<1>11. SpaceWords(s) = aa .. bb - 1 /\ BlockWords(x) = aa .. bb - 1
       /\ Span(x) = a .. b - 1
  <2>1. SpaceWords(s) = aa .. bb - 1
    BY <1>4, <1>8 DEF SpaceWords
  <2>2. BlockWords(x) = aa .. bb - 1 /\ Span(x) = a .. b - 1
    BY DEF BlockWords, Span, aa, bb, a, b
  <2> QED BY <2>1, <2>2
<1>12. ASSUME NEW w \in Int
       PROVE  w \in SpaceWords(s) <=> w \div BLOCK \in Span(x)
  <2> DEFINE q == w \div BLOCK
  <2>1. (aa <= w <=> a <= q) /\ (w < bb <=> q < b) /\ q \in Int
    BY <1>9
  <2> HIDE DEF q
  <2>2. w \in aa .. bb - 1 <=> q \in a .. b - 1
    BY <1>3, <1>4, <2>1
  <2> QED BY <1>11, <2>2 DEF q
<1>13. BlocksIn(s) = Span(x)
  BY <1>7, <1>8, <1>10, <1>11 DEF BlocksIn
<1>14. a \in Span(x)
  BY <1>3, <1>11
<1> QED BY <1>6, <1>7, <1>8, <1>10, <1>11, <1>12, <1>13, <1>14
        DEF IsSpace, a, b, aa, bb, Space

\* The space of a page: its words are those of the page.
LEMMA PageSpaceFacts ==
  ASSUME NEW p \in PagePool, NEW s, s = PageSpace(p)
  PROVE  /\ IsSpace(s) /\ s.size = PAGE /\ s = Space(s.start, s.size)
         /\ s.start = p * PAGE /\ BlocksIn(s) = {}
         /\ \A w \in Int : w \in SpaceWords(s) <=> w \div PAGE = p
         /\ \A q \in PagePool : PageSpace(q) = s => q = p
<1>1. PAGE \in Nat \ {0} /\ p \in Nat /\ \A q \in PagePool : q \in Nat
  BY SizesTyped
<1> DEFINE aa == p * PAGE
<1>2. aa \in Int /\ (p + 1) * PAGE = aa + PAGE
  BY <1>1, TimesMono
<1>3. 0 <= aa
  <2>1. 0 * PAGE <= p * PAGE /\ 0 * PAGE = 0
    BY <1>1, TimesMono
  <2> QED BY <2>1
<1>4. ASSUME NEW w \in Int
      PROVE  /\ aa <= w <=> p <= w \div PAGE
             /\ w < (p + 1) * PAGE <=> w \div PAGE < p + 1
             /\ w \div PAGE \in Int
  BY <1>1, DivRange, DivFacts
<1>5. s = Space(aa, PAGE) /\ s.start = aa /\ s.size = PAGE
  BY DEF PageSpace, PageAddr, Space
<1>6. \A q \in PagePool : PageSpace(q) = s => q = p
  <2>1. ASSUME NEW q \in PagePool, PageSpace(q) = s PROVE q = p
    <3>1. q * PAGE = p * PAGE
      BY <1>5, <2>1 DEF PageSpace, PageAddr, Space
    <3>2. (q * PAGE) \div PAGE = q /\ (p * PAGE) \div PAGE = p
      BY <1>1, DivRange
    <3> QED BY <3>1, <3>2
  <2> QED BY <2>1
<1> HIDE DEF aa
<1>7. SpaceWords(s) = aa .. aa + PAGE - 1
  BY <1>5 DEF SpaceWords
<1>8. ASSUME NEW w \in Int
      PROVE  w \in SpaceWords(s) <=> w \div PAGE = p
  <2> DEFINE q == w \div PAGE
  <2>1. (aa <= w <=> p <= q) /\ (w < (p + 1) * PAGE <=> q < p + 1) /\ q \in Int
    BY <1>4
  <2> HIDE DEF q
  <2>2. w \in aa .. aa + PAGE - 1 <=> q = p
    BY <1>1, <1>2, <2>1
  <2> QED BY <1>7, <2>2 DEF q
<1>9. IsSpace(s)
  BY <1>1, <1>2, <1>3, <1>5 DEF IsSpace, SpaceNodes, Space
<1>10. BlocksIn(s) = {}
  BY <1>5 DEF BlocksIn
<1> QED BY <1>5, <1>6, <1>8, <1>9, <1>10 DEF aa

\* A word lies in a page of the page pool or in a block of the block pool,
\* never in both.
LEMMA WordsFacts ==
  /\ \A w : w \in Words <=> /\ w \in Int
                            /\ w \div PAGE \in PagePool
                               \/ w \div BLOCK \in Covered(BlockPool)
  /\ \A w \in Int : ~ (w \div PAGE \in PagePool /\ w \div BLOCK \in Covered(BlockPool))
<1>0. BlockPool \in SUBSET Runs(TotalBlockNum) /\ TotalBlockNum \in Nat
  BY SizesTyped
<1>1. \A b : b \in Covered(BlockPool) <=> \E x \in BlockPool : b \in Span(x)
  BY DEF Covered, Span
<1>2. ASSUME NEW p \in PagePool
      PROVE  /\ PageAddr(p) .. PageAddr(p) + PAGE - 1 = SpaceWords(PageSpace(p))
             /\ \A w \in Int : w \in SpaceWords(PageSpace(p)) <=> w \div PAGE = p
  <2>1. PageAddr(p) .. PageAddr(p) + PAGE - 1 = SpaceWords(PageSpace(p))
    BY DEF SpaceWords, PageSpace, Space
  <2> QED BY <2>1, PageSpaceFacts
<1>3. ASSUME NEW x \in BlockPool
      PROVE  \A w \in Int : w \in BlockWords(x) <=> w \div BLOCK \in Span(x)
  BY <1>0, RunSpaceFacts
<1>4. \A x : \A w \in BlockWords(x) : w \in Int
  BY DEF BlockWords
<1>5. \A s : \A w \in SpaceWords(s) : w \in Int
  BY DEF SpaceWords
<1>6. ASSUME NEW w
      PROVE  w \in Words <=> \/ \E p \in PagePool : w \in SpaceWords(PageSpace(p))
                             \/ \E x \in BlockPool : w \in BlockWords(x)
  <2>1. w \in Words <=> \/ \E p \in PagePool : w \in PageAddr(p) .. PageAddr(p) + PAGE - 1
                        \/ \E x \in BlockPool : w \in BlockWords(x)
    BY DEF Words
  <2>2. \A p \in PagePool : w \in PageAddr(p) .. PageAddr(p) + PAGE - 1
                              <=> w \in SpaceWords(PageSpace(p))
    BY <1>2
  <2> QED BY <2>1, <2>2, Zenon
<1>7. ASSUME NEW w
      PROVE  w \in Words <=> /\ w \in Int
                             /\ w \div PAGE \in PagePool
                                \/ w \div BLOCK \in Covered(BlockPool)
  <2>1. ASSUME w \in Int
        PROVE  /\ (\E p \in PagePool : w \in SpaceWords(PageSpace(p)))
                    <=> w \div PAGE \in PagePool
               /\ (\E x \in BlockPool : w \in BlockWords(x))
                    <=> w \div BLOCK \in Covered(BlockPool)
    <3> DEFINE p == w \div PAGE
               b == w \div BLOCK
    <3>1. (\E q \in PagePool : w \in SpaceWords(PageSpace(q))) <=> p \in PagePool
      BY <1>2, <2>1
    <3>2. \A x \in BlockPool : w \in BlockWords(x) <=> b \in Span(x)
      BY <1>3, <2>1
    <3> HIDE DEF b
    <3>3. (\E x \in BlockPool : w \in BlockWords(x)) <=> b \in Covered(BlockPool)
      BY <1>1, <3>2
    <3> QED BY <3>1, <3>3 DEF b
  <2>2. w \in Words => w \in Int
    BY <1>4, <1>5, <1>6
  <2> QED BY <1>6, <2>1, <2>2
<1>8. ASSUME NEW w \in Int, w \div PAGE \in PagePool, w \div BLOCK \in Covered(BlockPool)
      PROVE  FALSE
  <2> DEFINE p == w \div PAGE
             b == w \div BLOCK
  <2>1. w \in PageAddr(p) .. PageAddr(p) + PAGE - 1
    BY <1>2, <1>8
  <2>2. PICK x \in BlockPool : b \in Span(x)
    BY <1>1, <1>8
  <2>3. w \in BlockWords(x)
    BY <1>3, <1>8, <2>2
  <2>4. (p + 1) * PAGE <= x.start * BLOCK \/ x.end * BLOCK <= p * PAGE
    BY <1>8, FileAssumption
  <2>5. p \in Int /\ PAGE \in Nat \ {0} /\ BLOCK \in Nat \ {0} /\ x.start \in Int /\ x.end \in Int
    <3>1. p \in Nat /\ PAGE \in Nat \ {0} /\ BLOCK \in Nat \ {0}
      BY <1>8, SizesTyped
    <3> QED BY <1>0, <3>1, RunFacts
  <2> HIDE DEF p
  <2>6. (p + 1) * PAGE = p * PAGE + PAGE /\ p * PAGE \in Int
        /\ x.start * BLOCK \in Int /\ x.end * BLOCK \in Int
    BY <2>5, TimesMono
  <2> DEFINE pp == p * PAGE
             ss == x.start * BLOCK
             ee == x.end * BLOCK
  <2>7. /\ pp <= w /\ w <= pp + PAGE - 1 /\ ss <= w /\ w <= ee - 1
        /\ pp + PAGE <= ss \/ ee <= pp
    BY <1>8, <2>1, <2>3, <2>4, <2>5, <2>6 DEF PageAddr, BlockWords
  <2> HIDE DEF pp, ss, ee
  <2>8. pp \in Int /\ ss \in Int /\ ee \in Int
    BY <2>6 DEF pp, ss, ee
  <2> QED BY <2>5, <2>7, <2>8
<1> QED BY <1>7, <1>8

\* One space: the words it has, by the numbers of its page or its blocks.
LEMMA OneSpace ==
  ASSUME NEW s, IsPageSpace(s) \/ IsRunSpace(s)
  PROVE  /\ IsSpace(s) /\ s = Space(s.start, s.size)
         /\ SpaceWords(s) \subseteq Words /\ BlocksIn(s) \subseteq Covered(BlockPool)
         /\ \A w \in Int :
              w \in SpaceWords(s) <=>
                \/ \E p \in PagePool : w \div PAGE = p /\ s = PageSpace(p)
                \/ w \div BLOCK \in BlocksIn(s)
         /\ s.size = PAGE <=> IsPageSpace(s)
<1>1. CASE IsPageSpace(s)
  <2>1. PICK p \in PagePool : s = PageSpace(p)
    BY <1>1 DEF IsPageSpace
  <2>2. /\ IsSpace(s) /\ s.size = PAGE /\ s = Space(s.start, s.size)
        /\ BlocksIn(s) = {}
        /\ \A w \in Int : w \in SpaceWords(s) <=> w \div PAGE = p
        /\ \A q \in PagePool : PageSpace(q) = s => q = p
    BY <2>1, PageSpaceFacts
  <2>3. \A w \in SpaceWords(s) : w \in Int
    BY DEF SpaceWords
  <2>4. SpaceWords(s) \subseteq Words
    <3>1. ASSUME NEW w \in SpaceWords(s) PROVE w \in Words
      <4>1. w \in Int /\ w \div PAGE = p
        BY <2>2, <2>3
      <4> QED BY <4>1, WordsFacts
    <3> QED BY <3>1
  <2>5. ASSUME NEW w \in Int
        PROVE  w \in SpaceWords(s) <=>
                 \/ \E q \in PagePool : w \div PAGE = q /\ s = PageSpace(q)
                 \/ w \div BLOCK \in BlocksIn(s)
    <3>1. w \in SpaceWords(s) <=> w \div PAGE = p
      BY <2>2
    <3>2. w \div BLOCK \notin BlocksIn(s)
      BY <2>2
    <3> DEFINE v == w \div PAGE
    <3>3. v = p <=> \E q \in PagePool : v = q /\ s = PageSpace(q)
      <4> HIDE DEF v
      <4> QED BY <2>1, <2>2
    <3> QED BY <3>1, <3>2, <3>3
  <2> QED BY <1>1, <2>2, <2>4, <2>5
<1>2. CASE ~IsPageSpace(s)
  <2>1. PICK x \in Runs(TotalBlockNum) :
          s = RunSpace(x) /\ Span(x) \subseteq Covered(BlockPool)
    BY <1>2 DEF IsRunSpace
  <2>2. /\ IsSpace(s) /\ s.size # PAGE /\ s = Space(s.start, s.size)
        /\ BlocksIn(s) = Span(x)
        /\ \A w \in Int : w \in SpaceWords(s) <=> w \div BLOCK \in Span(x)
    BY <2>1, RunSpaceFacts
  <2>3. \A w \in SpaceWords(s) : w \in Int
    BY DEF SpaceWords
  <2>4. SpaceWords(s) \subseteq Words
    <3>1. ASSUME NEW w \in SpaceWords(s) PROVE w \in Words
      <4>1. w \in Int /\ w \div BLOCK \in Covered(BlockPool)
        BY <2>1, <2>2, <2>3
      <4> QED BY <4>1, WordsFacts
    <3> QED BY <3>1
  <2>5. \A q \in PagePool : s # PageSpace(q)
    BY <1>2 DEF IsPageSpace
  <2> QED BY <1>2, <2>1, <2>2, <2>4, <2>5
<1> QED BY <1>1, <1>2

\* Two spaces without a common word lie one behind the other.
LEMMA WordsApart ==
  ASSUME NEW s, IsSpace(s), NEW t, IsSpace(t), SpaceWords(s) \cap SpaceWords(t) = {}
  PROVE  s.start + s.size <= t.start \/ t.start + t.size <= s.start
<1>1. s.start \in Int /\ s.size \in Int /\ t.start \in Int /\ t.size \in Int
      /\ s.size > 0 /\ t.size > 0
  BY DEF IsSpace, SpaceNodes
<1>2. ASSUME s.start <= t.start, t.start < s.start + s.size PROVE FALSE
  <2>1. t.start \in SpaceWords(s) /\ t.start \in SpaceWords(t)
    BY <1>1, <1>2 DEF SpaceWords
  <2> QED BY <2>1
<1>3. ASSUME t.start <= s.start, s.start < t.start + t.size PROVE FALSE
  <2>1. s.start \in SpaceWords(s) /\ s.start \in SpaceWords(t)
    BY <1>1, <1>3 DEF SpaceWords
  <2> QED BY <2>1
<1> QED BY <1>1, <1>2, <1>3

\* No word has two owners among spaces.
LEMMA SpacesOwn ==
  ASSUME NEW s, IsPageSpace(s) \/ IsRunSpace(s), NEW t, IsPageSpace(t) \/ IsRunSpace(t),
         s # t, BlocksIn(s) \cap BlocksIn(t) = {}
  PROVE  SpaceWords(s) \cap SpaceWords(t) = {}
<1> SUFFICES ASSUME NEW w, w \in SpaceWords(s), w \in SpaceWords(t) PROVE FALSE
  OBVIOUS
<1>1. w \in Int
  BY DEF SpaceWords
<1> DEFINE p == w \div PAGE
           b == w \div BLOCK
<1>3. (\E q \in PagePool : p = q /\ s = PageSpace(q)) \/ b \in BlocksIn(s)
  BY <1>1, OneSpace
<1>4. (\E q \in PagePool : p = q /\ t = PageSpace(q)) \/ b \in BlocksIn(t)
  BY <1>1, OneSpace
<1>5. BlocksIn(s) \subseteq Covered(BlockPool) /\ BlocksIn(t) \subseteq Covered(BlockPool)
  BY OneSpace
<1>6. ~ (p \in PagePool /\ b \in Covered(BlockPool))
  BY <1>1, WordsFacts
<1> HIDE DEF p, b
<1> QED BY <1>3, <1>4, <1>5, <1>6

\* Owned spaces lie apart and inside the words there are.
LEMMA OwnedSpaces ==
  ASSUME NEW S, NEW pages, NEW logged, NEW tree, Owned(S, pages, logged, tree)
  PROVE  /\ SpacesApart(S)
         /\ \A s \in S : SpaceWords(s) \subseteq Words
         /\ \A s, t \in S : s # t => SpaceWords(s) \cap SpaceWords(t) = {}
<1>1. \A s \in S : IsPageSpace(s) \/ IsRunSpace(s)
  BY DEF Owned
<1>2. \A s \in S : IsSpace(s) /\ SpaceWords(s) \subseteq Words
  BY <1>1, OneSpace
<1>3. ASSUME NEW s \in S, NEW t \in S, s # t PROVE SpaceWords(s) \cap SpaceWords(t) = {}
  BY <1>1, <1>3, SpacesOwn DEF Owned
<1>4. ASSUME NEW s \in S, NEW t \in S, s # t
      PROVE  s.start + s.size <= t.start \/ t.start + t.size <= s.start
  BY <1>2, <1>3, <1>4, WordsApart
<1> QED BY <1>2, <1>3, <1>4 DEF SpacesApart

\* The runs of a set of blocks, which the recovery makes the free blocks.
LEMMA RunsOfFacts ==
  ASSUME NEW n \in Nat, NEW B \in SUBSET (0 .. n - 1)
  PROVE  /\ RunsOf(B) \in SUBSET Runs(n) /\ Canonical(RunsOf(B))
         /\ Covered(RunsOf(B)) = B
<1>1. ASSUME NEW x \in RunsOf(B)
      PROVE  /\ x.start \in B /\ x.start \in Int /\ x.end \in Int
             /\ 0 <= x.start /\ x.start < x.end /\ x.end <= n
             /\ x.start .. x.end - 1 \subseteq B
             /\ x.start - 1 \notin B /\ x.end \notin B
             /\ x = Extent(x.start, x.end)
  <2>1. /\ x \in [start : B, end : {b + 1 : b \in B}]
        /\ x.start < x.end /\ x.start .. x.end - 1 \subseteq B
        /\ x.start - 1 \notin B /\ x.end \notin B
    BY DEF RunsOf
  <2>2. PICK b \in B : x.end = b + 1
    BY <2>1
  <2>3. x = Extent(x.start, x.end) /\ x.start \in B
    BY <2>1 DEF Extent
  <2>4. x.start \in 0 .. n - 1 /\ b \in 0 .. n - 1
    BY <2>2, <2>3
  <2> QED BY <2>1, <2>2, <2>3, <2>4
<1>2. RunsOf(B) \in SUBSET Runs(n)
  <2>1. ASSUME NEW x \in RunsOf(B) PROVE x \in Runs(n)
    <3>1. /\ x.start \in Int /\ x.end \in Int
          /\ 0 <= x.start /\ x.start < x.end /\ x.end <= n
          /\ x = Extent(x.start, x.end)
      BY <1>1
    <3>2. Extent(x.start, x.end) \in Runs(n)
      BY <3>1, RunFacts
    <3> QED BY <3>1, <3>2
  <2> QED BY <2>1
<1>3. ASSUME NEW x \in RunsOf(B), NEW y \in RunsOf(B), x.start <= y.start,
             y.start <= x.end
      PROVE  x = y
  <2>1. y.start < x.end
    BY <1>1, <1>3
  <2>2. y.start = x.start
    <3>1. SUFFICES ASSUME y.start > x.start PROVE FALSE
      BY <1>1, <1>3
    <3>2. y.start - 1 \in x.start .. x.end - 1
      BY <1>1, <2>1, <3>1
    <3> QED BY <1>1, <3>2
  <2>3. ~ (x.end < y.end)
    <3>1. SUFFICES ASSUME x.end < y.end PROVE FALSE
      OBVIOUS
    <3>2. x.end \in y.start .. y.end - 1
      BY <1>1, <1>3, <3>1
    <3> QED BY <1>1, <3>2
  <2>4. ~ (y.end < x.end)
    <3>1. SUFFICES ASSUME y.end < x.end PROVE FALSE
      OBVIOUS
    <3>2. y.end \in x.start .. x.end - 1
      BY <1>1, <1>3, <2>2, <3>1
    <3> QED BY <1>1, <3>2
  <2>5. x.end = y.end
    BY <1>1, <2>3, <2>4
  <2> QED BY <1>1, <2>2, <2>5
<1>4. Canonical(RunsOf(B))
  <2>1. ASSUME NEW x \in RunsOf(B), NEW y \in RunsOf(B), x # y
        PROVE  x.end < y.start \/ y.end < x.start
    <3>1. /\ x.start \in Int /\ x.end \in Int /\ y.start \in Int /\ y.end \in Int
      BY <1>1
    <3>2. x.start <= y.start => ~ (y.start <= x.end)
      BY <1>3, <2>1
    <3>3. y.start <= x.start => ~ (x.start <= y.end)
      BY <1>3, <2>1
    <3> QED BY <3>1, <3>2, <3>3
  <2> QED BY <1>1, <2>1 DEF Canonical
<1>5. Covered(RunsOf(B)) \subseteq B
  BY <1>1 DEF Covered
<1>6. ASSUME NEW b \in B PROVE b \in Covered(RunsOf(B))
  <2>1. b \in 0 .. n - 1
    OBVIOUS
  <2> DEFINE U == {k \in Nat : b < k /\ k \notin B}
             D == {d \in Nat : b - d \notin B}
  <2>2. n \in U /\ b + 1 \in D /\ U \in SUBSET Nat /\ D \in SUBSET Nat
    <3>1. n \notin B /\ -1 \notin B
      BY DEF Nat
    <3>2. b - (b + 1) = -1 /\ b + 1 \in Nat
      BY <2>1
    <3> QED BY <2>1, <3>1, <3>2
  <2>3. PICK e \in U : \A k \in U : e <= k
    BY <2>2, LeastNatural
  <2>4. PICK d \in D : \A k \in D : d <= k
    BY <2>2, LeastNatural
  <2> DEFINE s == (b - d) + 1
             x == Extent(s, e)
  <2>5. /\ e \in Nat /\ b < e /\ e \notin B /\ d \in Nat /\ b - d \notin B /\ d # 0
        /\ e <= n /\ d <= b + 1 /\ b \in Int
    <3>1. b - 0 = b
      BY <2>1
    <3> QED BY <2>1, <2>2, <2>3, <2>4, <3>1
  <2>6. s \in Int /\ 0 <= s /\ s <= b /\ s - 1 = b - d
    BY <2>1, <2>5
  <2>7. ASSUME NEW k \in s .. e - 1 PROVE k \in B
    <3>1. CASE k > b
      <4>1. k \in Nat /\ k < e
        BY <2>1, <2>5, <2>6, <3>1
      <4>2. k \notin U
        BY <2>3, <2>5, <4>1
      <4> QED BY <3>1, <4>1, <4>2
    <3>2. CASE k <= b
      <4>1. b - k \in Nat /\ b - k < d /\ b - (b - k) = k
        BY <2>1, <2>5, <2>6, <3>2
      <4>2. b - k \in D => d <= b - k
        BY <2>4, Zenon
      <4>3. b - k \notin D
        <5> HIDE DEF D
        <5> QED BY <2>5, <4>1, <4>2
      <4>4. b - (b - k) \in B
        BY <4>1, <4>3
      <4> QED BY <4>1, <4>4
    <3> QED BY <2>1, <2>6, <3>1, <3>2
  <2>8. s \in B /\ e - 1 \in B /\ (e - 1) + 1 = e
    BY <2>5, <2>6, <2>7
  <2>9. x.start = s /\ x.end = e /\ x \in [start : B, end : {k + 1 : k \in B}]
    BY <2>8 DEF Extent
  <2> HIDE DEF x, s
  <2>10. x \in RunsOf(B)
    BY <2>5, <2>6, <2>7, <2>9 DEF RunsOf
  <2>11. b \in x.start .. x.end - 1
    BY <2>5, <2>6, <2>9
  <2> QED BY <2>10, <2>11 DEF Covered
<1> QED BY <1>2, <1>4, <1>5, <1>6

\* Extents apart as a container.
LEMMA SeqOfRuns ==
  ASSUME NEW n \in Nat, NEW S \in SUBSET Runs(n),
         \A x, y \in S : x # y => Span(x) \cap Span(y) = {},
         NEW c, c = SetToSeq(S)
  PROVE  c \in Seq(Runs(n)) /\ NoOverlap(c) /\ ToSet(c) = S
<1> DEFINE f == [x \in S |-> x.start]
           k == Cardinality(S)
           D == 1 .. k
<1>1. IsFiniteSet(S)
  <2>1. \A x \in S : x.start \in 0 .. n - 1 /\ x.start \in Span(x)
    <3>1. \A x \in S : /\ x.start \in Nat /\ x.end \in Nat /\ x.start < x.end /\ x.end <= n
      BY RunFacts
    <3> QED BY <3>1 DEF Span
  <2>2. f \in [S -> 0 .. n - 1]
    BY <2>1
  <2>3. \A x, y \in S : f[x] = f[y] => x = y
    BY <2>1
  <2>4. f \in Injection(S, 0 .. n - 1)
    BY <2>2, <2>3, Fun_IsInj
  <2>5. IsFiniteSet(0 .. n - 1)
    <3>1. 0 \in Int /\ n - 1 \in Int
      OBVIOUS
    <3> QED BY <3>1, FS_Interval
  <2> QED BY <2>4, <2>5, FS_Injection
<1>2. k \in Nat /\ ExistsBijection(1 .. k, S)
  BY <1>1, FS_CardinalityType
<1> HIDE DEF k
<1>3. IsFiniteSet(D) /\ Cardinality(D) = k
  <2>1. IsFiniteSet(1 .. k) /\ Cardinality(1 .. k) = IF 1 > k THEN 0 ELSE k - 1 + 1
    BY <1>2, FS_Interval
  <2> QED BY <1>2, <2>1
<1>4. \E g \in [D -> S] : IsInjective(g)
  <2>1. PICK g : g \in Bijection(D, S)
    BY <1>2, Fun_ExistsBij
  <2>2. g \in [D -> S] /\ \A a, b \in D : g[a] = g[b] => a = b
    <3> HIDE DEF D
    <3> QED BY <2>1 DEF Bijection, Injection, IsInjective
  <2>3. DOMAIN g = D
    BY <2>2
  <2> QED BY <2>2, <2>3 DEF IsInjective
<1>5. c \in [D -> S] /\ IsInjective(c)
  <2>1. c = CHOOSE g \in [D -> S] : IsInjective(g)
    BY DEF SetToSeq, k
  <2> HIDE DEF D
  <2> QED BY <1>4, <2>1
<1>6. DOMAIN c = D /\ \A a, b \in D : c[a] = c[b] => a = b
  <2>1. DOMAIN c = D
    BY <1>5
  <2> QED BY <1>5, <2>1 DEF IsInjective
<1>7. c \in Surjection(D, S)
  <2>1. c \in Injection(D, S)
    BY <1>5, <1>6, Fun_IsInj
  <2> QED BY <1>1, <1>3, <2>1, FS_Injection DEF k
<1>8. \A t \in S : \E i \in D : c[i] = t
  <2> HIDE DEF D
  <2> QED BY <1>7 DEF Surjection
<1>9. c \in Seq(S) /\ Len(c) = k
  BY <1>2, <1>5
<1>10. c \in Seq(Runs(n))
  BY <1>9
<1>11. ToSet(c) = S
  <2>1. \A i \in D : c[i] \in S
    BY <1>5
  <2> QED BY <1>6, <1>8, <2>1 DEF ToSet
<1>12. NoOverlap(c)
  <2>1. ASSUME NEW i \in D, NEW j \in D, i # j PROVE Disjoint(c[i], c[j])
    <3>1. c[i] \in S /\ c[j] \in S /\ c[i] # c[j]
      BY <1>5, <1>6, <2>1
    <3>2. Span(c[i]) \cap Span(c[j]) = {} /\ c[i] \in Runs(n) /\ c[j] \in Runs(n)
      BY <3>1
    <3> QED BY <3>2, ApartFacts
  <2> QED BY <1>9, <2>1 DEF NoOverlap
<1> QED BY <1>10, <1>11, <1>12

\* What is owned stays so when spaces are given up.
LEMMA OwnedFewer ==
  ASSUME NEW S, NEW pages, NEW logged, NEW tree, Owned(S, pages, logged, tree),
         NEW R \in SUBSET S
  PROVE  Owned(R, pages, logged, tree)
<1>1. PagesOf(R) \subseteq PagesOf(S) /\ BlocksOf(R) \subseteq BlocksOf(S)
  BY DEF PagesOf, BlocksOf
<1> QED BY <1>1 DEF Owned

\* LogWrite takes a page.
LEMMA OwnedLogPage ==
  ASSUME NEW S, NEW pages, NEW logged, NEW tree, Owned(S, pages, logged, tree),
         NEW p \in pages
  PROVE  /\ Owned(S, pages \ {p}, logged \cup {p}, tree)
         /\ NoneLost(S, pages, logged, tree)
              => NoneLost(S, pages \ {p}, logged \cup {p}, tree)
<1>1. Owned(S, pages \ {p}, logged \cup {p}, tree)
  BY DEF Owned
<1>2. NoneLost(S, pages, logged, tree) => NoneLost(S, pages \ {p}, logged \cup {p}, tree)
  BY DEF NoneLost
<1> QED BY <1>1, <1>2

\* WriteDataSmall takes a page.
LEMMA OwnedSmall ==
  ASSUME NEW S, NEW pages, NEW logged, NEW tree, Owned(S, pages, logged, tree),
         NEW p \in pages, NEW R, R = S \cup {PageSpace(p)}
  PROVE  /\ Owned(R, pages \ {p}, logged, tree) /\ PageSpace(p) \notin S
         /\ NoneLost(S, pages, logged, tree) => NoneLost(R, pages \ {p}, logged, tree)
<1>1. p \in PagePool
  BY DEF Owned
<1>2. BlocksIn(PageSpace(p)) = {} /\ \A q \in PagePool : PageSpace(q) = PageSpace(p) => q = p
  BY <1>1, PageSpaceFacts
<1>3. PagesOf(R) = PagesOf(S) \cup {p} /\ BlocksOf(R) = BlocksOf(S)
  <2>1. PagesOf(R) = PagesOf(S) \cup {p}
    BY <1>1, <1>2 DEF PagesOf
  <2>2. BlocksOf(R) = BlocksOf(S) \cup BlocksIn(PageSpace(p))
    BY DEF BlocksOf
  <2> QED BY <1>2, <2>1, <2>2
<1>4. p \notin PagesOf(S) /\ p \notin logged
  BY DEF Owned
<1>5. PageSpace(p) \notin S
  BY <1>1, <1>4 DEF PagesOf
<1>6. Owned(R, pages \ {p}, logged, tree)
  <2>1. \A s \in R : IsPageSpace(s) \/ IsRunSpace(s)
    BY <1>1 DEF Owned, IsPageSpace
  <2>2. ASSUME NEW s \in R, NEW t \in R, s # t PROVE BlocksIn(s) \cap BlocksIn(t) = {}
    BY <1>2, <2>2 DEF Owned
  <2> QED BY <1>3, <1>4, <2>1, <2>2 DEF Owned
<1>7. NoneLost(S, pages, logged, tree) => NoneLost(R, pages \ {p}, logged, tree)
  BY <1>3 DEF NoneLost
<1> QED BY <1>5, <1>6, <1>7

\* The spaces that an array of extents becomes.
RunSpaces(c) == {RunSpace(c[i]) : i \in 1 .. Len(c)}

\* They have the blocks of the container, each in one of them.
LEMMA RunSpacesFacts ==
  ASSUME NEW c \in Seq(Runs(TotalBlockNum)), NoOverlap(c)
  PROVE  /\ BlocksOf(RunSpaces(c)) = Covered(ToSet(c))
         /\ PagesOf(RunSpaces(c)) = {}
         /\ \A i \in 1 .. Len(c) : BlocksIn(RunSpace(c[i])) = Span(c[i])
                                   /\ Span(c[i]) # {} /\ Span(c[i]) \subseteq Covered(ToSet(c))
         /\ \A i, j \in 1 .. Len(c) :
              i # j => /\ BlocksIn(RunSpace(c[i])) \cap BlocksIn(RunSpace(c[j])) = {}
                       /\ RunSpace(c[i]) # RunSpace(c[j])
<1>1. ASSUME NEW i \in 1 .. Len(c)
      PROVE  /\ c[i] \in Runs(TotalBlockNum)
             /\ BlocksIn(RunSpace(c[i])) = Span(c[i]) /\ Span(c[i]) # {}
             /\ RunSpace(c[i]).size # PAGE
  <2>1. c[i] \in Runs(TotalBlockNum)
    OBVIOUS
  <2> QED BY <2>1, RunSpaceFacts
<1>2. Covered(ToSet(c)) = UNION {Span(c[i]) : i \in 1 .. Len(c)}
  <2>1. ToSet(c) = {c[i] : i \in 1 .. Len(c)}
    BY DEF ToSet
  <2> QED BY <2>1 DEF Covered, Span
<1>3. BlocksOf(RunSpaces(c)) = Covered(ToSet(c))
  BY <1>1, <1>2 DEF BlocksOf, RunSpaces
<1>4. PagesOf(RunSpaces(c)) = {}
  <2>1. ASSUME NEW p \in PagePool, NEW i \in 1 .. Len(c), PageSpace(p) = RunSpace(c[i])
        PROVE FALSE
    BY <1>1, <2>1, PageSpaceFacts
  <2> QED BY <2>1 DEF PagesOf, RunSpaces
<1>5. ASSUME NEW i \in 1 .. Len(c), NEW j \in 1 .. Len(c), i # j
      PROVE  /\ BlocksIn(RunSpace(c[i])) \cap BlocksIn(RunSpace(c[j])) = {}
             /\ RunSpace(c[i]) # RunSpace(c[j])
  <2>1. Disjoint(c[i], c[j])
    BY <1>5 DEF NoOverlap
  <2>2. Span(c[i]) \cap Span(c[j]) = {}
    BY <1>1, <2>1, SizesTyped, ApartFacts
  <2> QED BY <1>1, <2>2
<1> QED BY <1>1, <1>2, <1>3, <1>4, <1>5

\* PrepareExtentSpace takes runs of blocks.
LEMMA OwnedLarge ==
  ASSUME NEW S, NEW pages, NEW logged, NEW tree, Owned(S, pages, logged, tree),
         NEW rest \in SUBSET Runs(TotalBlockNum), Canonical(rest),
         NEW c \in Seq(Runs(TotalBlockNum)), NoOverlap(c),
         Covered(rest) \cap Covered(ToSet(c)) = {},
         Covered(tree) = Covered(rest) \cup Covered(ToSet(c)),
         NEW R, R = S \cup RunSpaces(c)
  PROVE  /\ Owned(R, pages, logged, rest) /\ RunSpaces(c) \cap S = {}
         /\ NoneLost(S, pages, logged, tree) => NoneLost(R, pages, logged, rest)
<1>1. /\ BlocksOf(RunSpaces(c)) = Covered(ToSet(c))
      /\ PagesOf(RunSpaces(c)) = {}
      /\ \A i \in 1 .. Len(c) : BlocksIn(RunSpace(c[i])) = Span(c[i])
                                /\ Span(c[i]) # {} /\ Span(c[i]) \subseteq Covered(ToSet(c))
      /\ \A i, j \in 1 .. Len(c) :
              i # j => BlocksIn(RunSpace(c[i])) \cap BlocksIn(RunSpace(c[j])) = {}
  BY RunSpacesFacts
<1>2. BlocksOf(R) = BlocksOf(S) \cup Covered(ToSet(c)) /\ PagesOf(R) = PagesOf(S)
  <2>1. BlocksOf(R) = BlocksOf(S) \cup BlocksOf(RunSpaces(c))
    BY DEF BlocksOf
  <2>2. PagesOf(R) = PagesOf(S) \cup PagesOf(RunSpaces(c))
    BY DEF PagesOf
  <2> QED BY <1>1, <2>1, <2>2
<1>3. Covered(ToSet(c)) \cap BlocksOf(S) = {} /\ Covered(ToSet(c)) \subseteq Covered(BlockPool)
  BY DEF Owned
<1>4. \A s \in S : BlocksIn(s) \subseteq BlocksOf(S)
  BY DEF BlocksOf
<1>5. \A s \in RunSpaces(c) : BlocksIn(s) # {} /\ BlocksIn(s) \subseteq Covered(ToSet(c))
  BY <1>1 DEF RunSpaces
<1>6. RunSpaces(c) \cap S = {}
  BY <1>3, <1>4, <1>5
<1>7. Owned(R, pages, logged, rest)
  <2>1. \A s \in R : IsPageSpace(s) \/ IsRunSpace(s)
    <3>1. ASSUME NEW i \in 1 .. Len(c) PROVE IsRunSpace(RunSpace(c[i]))
      <4>1. c[i] \in Runs(TotalBlockNum) /\ Span(c[i]) \subseteq Covered(BlockPool)
        BY <1>1, <1>3
      <4> QED BY <4>1 DEF IsRunSpace
    <3> QED BY <3>1 DEF Owned, RunSpaces
  <2>2. ASSUME NEW s \in R, NEW t \in R, s # t PROVE BlocksIn(s) \cap BlocksIn(t) = {}
    <3>1. CASE s \in S /\ t \in S
      BY <2>2, <3>1 DEF Owned
    <3>2. CASE s \in RunSpaces(c) /\ t \in RunSpaces(c)
      BY <1>1, <2>2, <3>2 DEF RunSpaces
    <3>3. CASE s \in S /\ t \in RunSpaces(c)
      BY <1>3, <1>4, <1>5, <3>3
    <3>4. CASE t \in S /\ s \in RunSpaces(c)
      BY <1>3, <1>4, <1>5, <3>4
    <3> QED BY <3>1, <3>2, <3>3, <3>4
  <2> QED BY <1>2, <2>1, <2>2 DEF Owned
<1>8. NoneLost(S, pages, logged, tree) => NoneLost(R, pages, logged, rest)
  BY <1>2 DEF NoneLost
<1> QED BY <1>6, <1>7, <1>8

\* FileInodeInfoRecovery and the recovery of the pools.
LEMMA OwnedRecovered ==
  ASSUME NEW S, NEW pages, NEW logged, NEW tree, Owned(S, pages, logged, tree),
         NEW fresh, fresh = (PagePool \ logged) \ PagesOf(S),
         NEW rest, rest = RunsOf(Covered(BlockPool) \ BlocksOf(S))
  PROVE  Owned(S, fresh, logged, rest) /\ NoneLost(S, fresh, logged, rest)
<1> DEFINE B == Covered(BlockPool) \ BlocksOf(S)
<1>1. B \in SUBSET (0 .. TotalBlockNum - 1) /\ TotalBlockNum \in Nat
  BY SizesTyped, CoveredFacts
<1>2. /\ rest \in SUBSET Runs(TotalBlockNum) /\ Canonical(rest) /\ Covered(rest) = B
  <2> HIDE DEF B
  <2>1. rest = RunsOf(B)
    BY DEF B
  <2> QED BY <1>1, <2>1, RunsOfFacts
<1>3. Owned(S, fresh, logged, rest)
  BY <1>2 DEF Owned
<1>4. NoneLost(S, fresh, logged, rest)
  BY <1>2 DEF NoneLost
<1> QED BY <1>3, <1>4

\* Extents of the runs among some spaces.
Extents(S) ==
  {Extent(s.start \div BLOCK, (s.start + s.size) \div BLOCK) : s \in {t \in S : t.size # PAGE}}

\* FileDataManagerDestroy and the log give everything back.
LEMMA OwnedFreed ==
  ASSUME NEW S, NEW pages, NEW logged, NEW tree, Owned(S, pages, logged, tree),
         NEW c, c = SetToSeq(Extents(S)),
         NEW all, all = (pages \cup logged) \cup PagesOf(S),
         NEW grown, grown = ExtentTreeBatchPut(tree, c)
  PROVE  /\ Owned({}, all, {}, grown)
         /\ NoneLost(S, pages, logged, tree) => NoneLost({}, all, {}, grown)
<1> DEFINE n == TotalBlockNum
           X == Extents(S)
<1>1. \A s \in S : IsPageSpace(s) \/ IsRunSpace(s)
  BY DEF Owned
<1>2. ASSUME NEW s \in S, s.size # PAGE
      PROVE  LET x == Extent(s.start \div BLOCK, (s.start + s.size) \div BLOCK)
             IN  x \in Runs(n) /\ Span(x) = BlocksIn(s)
  <2>1. PICK x \in Runs(TotalBlockNum) : s = RunSpace(x)
    BY <1>1, <1>2, OneSpace DEF IsRunSpace
  <2>2. s.start \div BLOCK = x.start /\ (s.start + s.size) \div BLOCK = x.end
        /\ BlocksIn(s) = Span(x)
    BY <2>1, RunSpaceFacts
  <2>3. x = Extent(x.start, x.end)
    BY SizesTyped, RunFacts
  <2> QED BY <2>2, <2>3
<1>3. ASSUME NEW x \in X
      PROVE  x \in Runs(n) /\ \E s \in S : s.size # PAGE /\ Span(x) = BlocksIn(s)
                              /\ x = Extent(s.start \div BLOCK, (s.start + s.size) \div BLOCK)
  <2>1. PICK s \in S : s.size # PAGE
                       /\ x = Extent(s.start \div BLOCK, (s.start + s.size) \div BLOCK)
    BY DEF Extents
  <2> QED BY <1>2, <2>1
<1>4. X \in SUBSET Runs(n)
  BY <1>3
<1>5. ASSUME NEW x \in X, NEW y \in X, x # y PROVE Span(x) \cap Span(y) = {}
  <2>1. PICK s \in S : Span(x) = BlocksIn(s)
                       /\ x = Extent(s.start \div BLOCK, (s.start + s.size) \div BLOCK)
    BY <1>3
  <2>2. PICK t \in S : Span(y) = BlocksIn(t)
                       /\ y = Extent(t.start \div BLOCK, (t.start + t.size) \div BLOCK)
    BY <1>3
  <2>3. s # t
    BY <1>5, <2>1, <2>2
  <2> QED BY <2>1, <2>2, <2>3 DEF Owned
<1>6. Covered(X) = BlocksOf(S)
  <2>1. Covered(X) = UNION {Span(x) : x \in X}
    BY DEF Covered, Span
  <2>2. ASSUME NEW s \in S, NEW b \in BlocksIn(s) PROVE b \in UNION {Span(x) : x \in X}
    <3>1. s.size # PAGE
      BY <2>2 DEF BlocksIn
    <3> DEFINE x == Extent(s.start \div BLOCK, (s.start + s.size) \div BLOCK)
    <3>2. x \in X /\ Span(x) = BlocksIn(s)
      BY <1>2, <3>1 DEF Extents
    <3> HIDE DEF x
    <3> QED BY <2>2, <3>2
  <2>3. ASSUME NEW x \in X, NEW b \in Span(x) PROVE b \in BlocksOf(S)
    <3>1. PICK s \in S : Span(x) = BlocksIn(s)
      BY <1>3
    <3> QED BY <2>3, <3>1 DEF BlocksOf
  <2>4. BlocksOf(S) \subseteq UNION {Span(x) : x \in X}
    <3> HIDE DEF X
    <3> QED BY <2>2 DEF BlocksOf
  <2>5. UNION {Span(x) : x \in X} \subseteq BlocksOf(S)
    <3> HIDE DEF X
    <3> QED BY <2>3
  <2> QED BY <2>1, <2>4, <2>5
<1> HIDE DEF X
<1>7. n \in Nat
  BY SizesTyped
<1>8. c = SetToSeq(X)
  BY DEF X
<1>9. c \in Seq(Runs(n)) /\ NoOverlap(c) /\ ToSet(c) = X
  <2> HIDE DEF n
  <2> QED BY <1>4, <1>5, <1>7, <1>8, SeqOfRuns
<1>10. /\ tree \in SUBSET Runs(n) /\ Canonical(tree)
       /\ Covered(tree) \subseteq Covered(BlockPool) /\ Covered(tree) \cap BlocksOf(S) = {}
  BY DEF Owned
<1>11. Grown(n, tree, Covered(ToSet(c)), ContainerSize(c), grown)
  <2>1. Covered(ToSet(c)) \cap Covered(tree) = {}
    BY <1>6, <1>9, <1>10
  <2> HIDE DEF n
  <2> QED BY <1>7, <1>9, <1>10, <2>1, BatchPutFacts
<1>12. /\ grown \in SUBSET Runs(n) /\ Canonical(grown)
       /\ Covered(grown) = Covered(tree) \cup BlocksOf(S)
  BY <1>6, <1>9, <1>11 DEF Grown
<1>13. BlocksOf(S) \subseteq Covered(BlockPool)
  BY <1>1, OneSpace DEF BlocksOf
<1>14. BlocksOf({}) = {} /\ PagesOf({}) = {} /\ PagesOf(S) \subseteq PagePool
  BY DEF BlocksOf, PagesOf
<1>15. Owned({}, all, {}, grown)
  BY <1>10, <1>12, <1>13, <1>14 DEF Owned
<1>16. NoneLost(S, pages, logged, tree) => NoneLost({}, all, {}, grown)
  BY <1>12, <1>14 DEF NoneLost
<1> QED BY <1>15, <1>16

\* At first the pools have everything.
LEMMA OwnedInit ==
  Owned({}, PagePool, {}, BlockPool) /\ NoneLost({}, PagePool, {}, BlockPool)
<1>1. BlocksOf({}) = {} /\ PagesOf({}) = {}
  BY DEF BlocksOf, PagesOf
<1> QED BY <1>1, SizesTyped DEF Owned, NoneLost

\* Every word has one owner.
Held(S, P, pages, logged, tree) ==
  {[owner |-> "file", words |-> SpaceWords(s)] : s \in S}
  \cup {[owner |-> "call", words |-> SpaceWords(s)] : s \in P}
  \cup {[owner |-> "log", words |-> PageWords(p)] : p \in logged}
  \cup {[owner |-> "pages", words |-> PageWords(p)] : p \in pages}
  \cup {[owner |-> "blocks", words |-> BlockWords(x)] : x \in tree}

\* The holding that has page p, and the one that has block b.
PageHeld(h, S, P, pages, logged, p) ==
  /\ h.words = SpaceWords(PageSpace(p))
  /\ \/ h.owner = "file" /\ PageSpace(p) \in S
     \/ h.owner = "call" /\ PageSpace(p) \in P
     \/ h.owner = "log" /\ p \in logged
     \/ h.owner = "pages" /\ p \in pages
BlockHeld(h, S, P, tree, b) ==
  \/ h.owner = "file" /\ \E s \in S : b \in BlocksIn(s) /\ h.words = SpaceWords(s)
  \/ h.owner = "call" /\ \E s \in P : b \in BlocksIn(s) /\ h.words = SpaceWords(s)
  \/ h.owner = "blocks" /\ \E x \in tree : b \in Span(x) /\ h.words = BlockWords(x)

WordHeld(h, S, P, pages, logged, tree, w) ==
  /\ w \in Int /\ w \in Words
  /\ h.owner \in {"file", "call", "log", "pages", "blocks"}
  /\ h = [owner |-> h.owner, words |-> h.words]
  /\ \/ w \div PAGE \in PagePool /\ PageHeld(h, S, P, pages, logged, w \div PAGE)
     \/ w \div BLOCK \in Covered(BlockPool) /\ BlockHeld(h, S, P, tree, w \div BLOCK)

\* A word of a holding is in a page or in a block that the holding has.
LEMMA HeldBy ==
  ASSUME NEW S, NEW P, NEW pages, NEW logged, NEW tree,
         Owned(S \cup P, pages, logged, tree),
         NEW h \in Held(S, P, pages, logged, tree), NEW w \in h.words
  PROVE  WordHeld(h, S, P, pages, logged, tree, w)
<1> DEFINE p == w \div PAGE
           b == w \div BLOCK
<1>0. /\ \A s \in S \cup P : IsPageSpace(s) \/ IsRunSpace(s)
      /\ pages \subseteq PagePool /\ logged \subseteq PagePool
      /\ tree \in SUBSET Runs(TotalBlockNum) /\ Covered(tree) \subseteq Covered(BlockPool)
  BY DEF Owned
<1>1. ASSUME NEW s \in S \cup P, w \in SpaceWords(s)
      PROVE  /\ w \in Int
             /\ (p \in PagePool /\ s = PageSpace(p))
                \/ (b \in Covered(BlockPool) /\ b \in BlocksIn(s))
  <2>1. w \in Int
    BY <1>1 DEF SpaceWords
  <2>2. BlocksIn(s) \subseteq Covered(BlockPool)
    BY <1>0, OneSpace
  <2>3. (\E q \in PagePool : p = q /\ s = PageSpace(q)) \/ b \in BlocksIn(s)
    BY <1>0, <1>1, <2>1, OneSpace
  <2> HIDE DEF p, b
  <2> QED BY <2>1, <2>2, <2>3
<1>2. ASSUME NEW q \in PagePool, w \in PageWords(q)
      PROVE  w \in Int /\ p = q /\ PageWords(q) = SpaceWords(PageSpace(q))
  <2>1. PageWords(q) = SpaceWords(PageSpace(q))
    BY DEF PageWords, PageSpace
  <2>2. w \in Int
    BY <1>2, <2>1 DEF SpaceWords
  <2> QED BY <1>2, <2>1, <2>2, PageSpaceFacts
<1>3. ASSUME NEW x \in tree, w \in BlockWords(x)
      PROVE  w \in Int /\ b \in Span(x) /\ b \in Covered(BlockPool)
  <2>1. w \in Int
    BY <1>3 DEF BlockWords
  <2>2. b \in Span(x)
    <3>1. x \in Runs(TotalBlockNum)
      BY <1>0
    <3> QED BY <1>3, <2>1, <3>1, RunSpaceFacts
  <2>3. Span(x) \subseteq Covered(tree)
    BY DEF Covered, Span
  <2> HIDE DEF b
  <2> QED BY <1>0, <2>1, <2>2, <2>3
<1> HIDE DEF p, b
<1>4. /\ w \in Int
      /\ h.owner \in {"file", "call", "log", "pages", "blocks"}
      /\ h = [owner |-> h.owner, words |-> h.words]
      /\ \/ p \in PagePool /\ PageHeld(h, S, P, pages, logged, p)
         \/ b \in Covered(BlockPool) /\ BlockHeld(h, S, P, tree, b)
  <2>1. CASE \E s \in S : h = [owner |-> "file", words |-> SpaceWords(s)]
    BY <1>1, <2>1 DEF PageHeld, BlockHeld
  <2>2. CASE \E s \in P : h = [owner |-> "call", words |-> SpaceWords(s)]
    BY <1>1, <2>2 DEF PageHeld, BlockHeld
  <2>3. CASE \E q \in logged : h = [owner |-> "log", words |-> PageWords(q)]
    BY <1>0, <1>2, <2>3 DEF PageHeld
  <2>4. CASE \E q \in pages : h = [owner |-> "pages", words |-> PageWords(q)]
    <3>1. PICK q \in pages : h = [owner |-> "pages", words |-> PageWords(q)]
      BY <2>4
    <3>2. q \in PagePool /\ w \in PageWords(q)
      BY <1>0, <3>1
    <3>3. w \in Int /\ p = q /\ PageWords(q) = SpaceWords(PageSpace(q))
      BY <1>2, <3>2
    <3>4. PageHeld(h, S, P, pages, logged, p)
      BY <3>1, <3>3 DEF PageHeld
    <3> QED BY <3>1, <3>2, <3>3, <3>4
  <2>5. CASE \E x \in tree : h = [owner |-> "blocks", words |-> BlockWords(x)]
    <3>1. PICK x \in tree : h = [owner |-> "blocks", words |-> BlockWords(x)]
      BY <2>5
    <3>2. w \in Int /\ b \in Span(x) /\ b \in Covered(BlockPool)
      BY <1>3, <3>1
    <3>3. BlockHeld(h, S, P, tree, b)
      BY <3>1, <3>2 DEF BlockHeld
    <3> QED BY <3>1, <3>2, <3>3
  <2> QED BY <2>1, <2>2, <2>3, <2>4, <2>5 DEF Held
<1>5. w \in Words
  BY <1>4, WordsFacts DEF p, b
<1> QED BY <1>4, <1>5 DEF p, b, WordHeld

\* Two holdings have no word in common.
LEMMA HeldApart ==
  ASSUME NEW S, NEW P, NEW pages, NEW logged, NEW tree, S \cap P = {},
         Owned(S \cup P, pages, logged, tree),
         NEW g \in Held(S, P, pages, logged, tree),
         NEW h \in Held(S, P, pages, logged, tree), g # h
  PROVE  g.words \cap h.words = {}
<1> SUFFICES ASSUME NEW w, w \in g.words, w \in h.words PROVE FALSE
  OBVIOUS
<1> DEFINE p == w \div PAGE
           b == w \div BLOCK
<1>0. ASSUME NEW f \in Held(S, P, pages, logged, tree), w \in f.words
      PROVE  /\ w \in Int
             /\ f.owner \in {"file", "call", "log", "pages", "blocks"}
             /\ f = [owner |-> f.owner, words |-> f.words]
             /\ \/ p \in PagePool /\ PageHeld(f, S, P, pages, logged, p)
                \/ b \in Covered(BlockPool) /\ BlockHeld(f, S, P, tree, b)
  <2>1. WordHeld(f, S, P, pages, logged, tree, w)
    BY <1>0, HeldBy
  <2> QED BY <2>1 DEF WordHeld
<1> HIDE DEF p, b
<1>1. /\ w \in Int
      /\ g.owner \in {"file", "call", "log", "pages", "blocks"}
      /\ g = [owner |-> g.owner, words |-> g.words]
      /\ \/ p \in PagePool /\ PageHeld(g, S, P, pages, logged, p)
         \/ b \in Covered(BlockPool) /\ BlockHeld(g, S, P, tree, b)
  BY <1>0
<1>2. /\ h.owner \in {"file", "call", "log", "pages", "blocks"}
      /\ h = [owner |-> h.owner, words |-> h.words]
      /\ \/ p \in PagePool /\ PageHeld(h, S, P, pages, logged, p)
         \/ b \in Covered(BlockPool) /\ BlockHeld(h, S, P, tree, b)
  BY <1>0
<1>3. ~ (p \in PagePool /\ b \in Covered(BlockPool))
  BY <1>1, WordsFacts DEF p, b
<1>4. g.owner = h.owner /\ g.words = h.words
  <2>1. CASE p \in PagePool
    <3>1. PageHeld(g, S, P, pages, logged, p) /\ PageHeld(h, S, P, pages, logged, p)
      BY <1>1, <1>2, <1>3, <2>1
    <3>2. /\ ~ (PageSpace(p) \in S /\ PageSpace(p) \in P)
          /\ ~ (PageSpace(p) \in S \cup P /\ p \in pages)
          /\ ~ (PageSpace(p) \in S \cup P /\ p \in logged)
          /\ ~ (p \in pages /\ p \in logged)
      BY <2>1 DEF Owned, PagesOf
    <3> QED BY <3>1, <3>2 DEF PageHeld
  <2>2. CASE b \in Covered(BlockPool)
    <3>1. BlockHeld(g, S, P, tree, b) /\ BlockHeld(h, S, P, tree, b)
      BY <1>1, <1>2, <1>3, <2>2
    <3>2. ASSUME NEW s \in S \cup P, NEW t \in S \cup P, b \in BlocksIn(s), b \in BlocksIn(t)
          PROVE  s = t
      BY <3>2 DEF Owned
    <3>3. ASSUME NEW s \in S \cup P, NEW x \in tree, b \in BlocksIn(s), b \in Span(x)
          PROVE  FALSE
      <4>1. b \in Covered(tree) /\ b \in BlocksOf(S \cup P)
        BY <3>3 DEF Covered, Span, BlocksOf
      <4> QED BY <4>1 DEF Owned
    <3>4. ASSUME NEW x \in tree, NEW y \in tree, b \in Span(x), b \in Span(y)
          PROVE  x = y
      <4>1. tree \in SUBSET Runs(TotalBlockNum) /\ Canonical(tree)
        BY DEF Owned
      <4>2. /\ x.start \in Nat /\ x.end \in Nat /\ y.start \in Nat /\ y.end \in Nat
        BY <4>1, SizesTyped, RunFacts
      <4>3. x.end < y.start \/ y.end < x.start \/ x = y
        BY <4>1 DEF Canonical
      <4>4. b \in x.start .. x.end - 1 /\ b \in y.start .. y.end - 1
        BY <3>4 DEF Span
      <4> QED BY <4>2, <4>3, <4>4
    <3>5. \A s : ~ (s \in S /\ s \in P)
      OBVIOUS
    <3>6. CASE g.owner = "file"
      <4>1. PICK s \in S : b \in BlocksIn(s) /\ g.words = SpaceWords(s)
        BY <3>1, <3>6 DEF BlockHeld
      <4>2. h.owner = "file" /\ \E t \in S : b \in BlocksIn(t) /\ h.words = SpaceWords(t)
        BY <3>1, <3>2, <3>3, <3>5, <4>1 DEF BlockHeld
      <4> QED BY <3>2, <3>6, <4>1, <4>2
    <3>7. CASE g.owner = "call"
      <4>1. PICK s \in P : b \in BlocksIn(s) /\ g.words = SpaceWords(s)
        BY <3>1, <3>7 DEF BlockHeld
      <4>2. h.owner = "call" /\ \E t \in P : b \in BlocksIn(t) /\ h.words = SpaceWords(t)
        BY <3>1, <3>2, <3>3, <3>5, <4>1 DEF BlockHeld
      <4> QED BY <3>2, <3>7, <4>1, <4>2
    <3>8. CASE g.owner = "blocks"
      <4>1. PICK x \in tree : b \in Span(x) /\ g.words = BlockWords(x)
        BY <3>1, <3>8 DEF BlockHeld
      <4>2. h.owner = "blocks" /\ \E y \in tree : b \in Span(y) /\ h.words = BlockWords(y)
        BY <3>1, <3>3, <4>1 DEF BlockHeld
      <4> QED BY <3>4, <3>8, <4>1, <4>2
    <3> QED BY <3>1, <3>6, <3>7, <3>8 DEF BlockHeld
  <2> QED BY <1>1, <2>1, <2>2
<1> QED BY <1>1, <1>2, <1>4

\* Every word is in a holding.
LEMMA AllHeld ==
  ASSUME NEW S, NEW P, NEW pages, NEW logged, NEW tree,
         Owned(S \cup P, pages, logged, tree), NoneLost(S \cup P, pages, logged, tree)
  PROVE  UNION {h.words : h \in Held(S, P, pages, logged, tree)} = Words
<1> DEFINE H == Held(S, P, pages, logged, tree)
<1>1. ASSUME NEW h \in H, NEW w \in h.words PROVE w \in Words
  <2>1. WordHeld(h, S, P, pages, logged, tree, w)
    BY HeldBy
  <2> QED BY <2>1 DEF WordHeld
<1>2. ASSUME NEW w \in Words PROVE \E h \in H : w \in h.words
  <2> DEFINE p == w \div PAGE
             b == w \div BLOCK
  <2>1. w \in Int /\ (p \in PagePool \/ b \in Covered(BlockPool))
    BY WordsFacts
  <2>2. ASSUME NEW s \in S \cup P, w \in SpaceWords(s) PROVE \E h \in H : w \in h.words
    <3>1. CASE s \in S
      <4>1. [owner |-> "file", words |-> SpaceWords(s)] \in H
        BY <3>1 DEF Held
      <4> QED BY <2>2, <4>1
    <3>2. CASE s \in P
      <4>1. [owner |-> "call", words |-> SpaceWords(s)] \in H
        BY <3>2 DEF Held
      <4> QED BY <2>2, <4>1
    <3> QED BY <3>1, <3>2
  <2>3. CASE p \in PagePool
    <3>1. w \in SpaceWords(PageSpace(p)) /\ PageWords(p) = SpaceWords(PageSpace(p))
      BY <2>1, <2>3, PageSpaceFacts DEF PageWords, PageSpace
    <3> HIDE DEF p
    <3>2. p \in pages \/ p \in logged \/ PageSpace(p) \in S \cup P
      BY <2>3 DEF NoneLost, PagesOf
    <3>3. CASE p \in pages
      <4>1. [owner |-> "pages", words |-> PageWords(p)] \in H
        BY <3>3 DEF Held
      <4> QED BY <3>1, <4>1
    <3>4. CASE p \in logged
      <4>1. [owner |-> "log", words |-> PageWords(p)] \in H
        BY <3>4 DEF Held
      <4> QED BY <3>1, <4>1
    <3> QED BY <2>2, <3>1, <3>2, <3>3, <3>4
  <2>4. CASE b \in Covered(BlockPool)
    <3>0. /\ \A s \in S \cup P : IsPageSpace(s) \/ IsRunSpace(s)
          /\ tree \in SUBSET Runs(TotalBlockNum)
      BY DEF Owned
    <3>1. b \in Covered(tree) \/ b \in BlocksOf(S \cup P)
      BY <2>4 DEF NoneLost
    <3>2. CASE b \in Covered(tree)
      <4>1. PICK x \in tree : b \in Span(x)
        BY <3>2 DEF Covered, Span
      <4>2. w \in BlockWords(x)
        <5>1. x \in Runs(TotalBlockNum)
          BY <3>0
        <5> QED BY <2>1, <4>1, <5>1, RunSpaceFacts
      <4>3. [owner |-> "blocks", words |-> BlockWords(x)] \in H
        BY DEF Held
      <4> QED BY <4>2, <4>3
    <3>3. CASE b \in BlocksOf(S \cup P)
      <4>1. PICK s \in S \cup P : b \in BlocksIn(s)
        BY <3>3 DEF BlocksOf
      <4>2. w \in SpaceWords(s)
        BY <2>1, <3>0, <4>1, OneSpace
      <4> QED BY <2>2, <4>2
    <3> QED BY <3>1, <3>2, <3>3
  <2> QED BY <2>1, <2>3, <2>4
<1> HIDE DEF H
<1>3. UNION {h.words : h \in H} = Words
  BY <1>1, <1>2
<1> QED BY <1>3 DEF H

-----------------------------------------------------------------------------
\* The write underway: what it still has to do and the room that it has for it.

Areas == {s \in SpaceNodes : IsSpace(s)}
Calls == [stage : {"idle", "write", "log", "space"}, spaces : Seq(Areas), next : Int,
          left : Int, start : Int, size : Int, value : 0 .. MaxOps]

\* f[i] words are in the first i spaces.
Prefix(f, spaces) ==
  /\ f \in [0 .. Len(spaces) -> Nat] /\ f[0] = 0
  /\ \A i \in 1 .. Len(spaces) : f[i] = f[i - 1] + spaces[i].size

\* The spaces that are still to add are just enough: without the last of them
\* they were not.
JustEnough(c, rest, f) ==
  LET n == Len(c.spaces) IN
  /\ c.stage = "space" =>
       /\ c.next <= n /\ c.left <= f[n] - f[c.next - 1]
       /\ f[n - 1] - f[c.next - 1] < c.left
  /\ c.stage \in {"write", "log"} =>
       /\ 0 < rest /\ c.left <= rest + (f[n] - f[c.next - 1])
       /\ c.next <= n => rest + (f[n - 1] - f[c.next - 1]) < c.left

Underway(c, rest) ==
  /\ 0 <= c.start /\ c.start + c.size <= FileLen
  /\ 1 <= c.left /\ c.left <= c.size
  /\ 1 <= c.next /\ c.next <= Len(c.spaces) + 1
  /\ \A i, j \in c.next .. Len(c.spaces) : i # j => c.spaces[i] # c.spaces[j]
  /\ \E f : Prefix(f, c.spaces) /\ JustEnough(c, rest, f)

CallGood(c, rest) ==
  /\ c \in Calls
  /\ c.stage = "idle" => c = Idle
  /\ c.stage # "idle" => Underway(c, rest)

Pending(c) == {c.spaces[i] : i \in c.next .. Len(c.spaces)}

\* More spaces have more words.
LEMMA PrefixMono ==
  ASSUME NEW spaces \in Seq(Areas), NEW f, Prefix(f, spaces)
  PROVE  /\ \A i \in 0 .. Len(spaces) : f[i] \in Nat
         /\ \A i \in 1 .. Len(spaces) : f[i] = f[i - 1] + spaces[i].size
                                        /\ spaces[i].size \in Nat /\ 0 < spaces[i].size
         /\ \A j \in 0 .. Len(spaces) : \A i \in 0 .. j : f[i] <= f[j]
<1> DEFINE T == {j \in 0 .. Len(spaces) : \A i \in 0 .. j : f[i] <= f[j]}
<1>1. Len(spaces) \in Nat /\ \A i \in 0 .. Len(spaces) : f[i] \in Nat
  BY DEF Prefix
<1>2. \A i \in 1 .. Len(spaces) : f[i] = f[i - 1] + spaces[i].size
                                  /\ spaces[i].size \in Nat /\ 0 < spaces[i].size
  <2>1. \A i \in 1 .. Len(spaces) : spaces[i] \in Areas
    OBVIOUS
  <2> QED BY <2>1 DEF Prefix, Areas, IsSpace, SpaceNodes
<1>3. 0 \in T
  BY <1>1
<1>4. ASSUME NEW j \in 0 .. Len(spaces) - 1, j \in T PROVE j + 1 \in T
  <2>1. j + 1 \in 1 .. Len(spaces) /\ (j + 1) - 1 = j
    BY <1>1
  <2>2. f[j] <= f[j + 1] /\ f[j] \in Nat /\ f[j + 1] \in Nat
    BY <1>1, <1>2, <2>1
  <2>3. ASSUME NEW i \in 0 .. j + 1 PROVE f[i] <= f[j + 1]
    <3>1. CASE i = j + 1
      BY <2>2, <3>1
    <3>2. CASE i \in 0 .. j
      <4>1. f[i] <= f[j] /\ f[i] \in Nat
        BY <1>1, <1>4, <3>2
      <4> QED BY <2>2, <4>1
    <3> QED BY <2>1, <3>1, <3>2
  <2> QED BY <1>1, <2>1, <2>3
<1>5. \A j \in 0 .. Len(spaces) : j \in T
  <2> HIDE DEF T
  <2> QED BY <1>1, <1>3, <1>4, LoopInduction
<1> QED BY <1>1, <1>2, <1>5

\* No call underway.
LEMMA IdleGood ==
  ASSUME NEW rest
  PROVE  CallGood(Idle, rest) /\ Idle.stage = "idle" /\ Pending(Idle) = {}
         /\ Idle.size = 0 /\ Idle.left = 0 /\ Idle.start = 0
<1>1. << >> \in Seq(Areas) /\ Len(<< >>) = 0
  OBVIOUS
<1>2. 0 \in 0 .. MaxOps
  BY FileAssumption
<1>3. Idle \in Calls
  BY <1>1, <1>2 DEF Idle, Calls, Hole
<1>4. Pending(Idle) = {}
  BY <1>1 DEF Idle, Pending
<1> QED BY <1>3, <1>4 DEF CallGood, Idle

\* WriteDataToArea has stored its data.
LEMMA CallStores ==
  ASSUME NEW c, NEW rest, CallGood(c, rest), c.stage = "write",
         NEW d, d = [c EXCEPT !.stage = "log"]
  PROVE  /\ CallGood(d, rest) /\ Pending(d) = Pending(c) /\ d.stage = "log"
         /\ d.left = c.left /\ d.size = c.size /\ d.start = c.start /\ d.value = c.value
<1>1. c \in Calls /\ Underway(c, rest)
  BY DEF CallGood
<1>2. /\ d \in Calls /\ d.stage = "log" /\ d.spaces = c.spaces /\ d.next = c.next
      /\ d.left = c.left /\ d.size = c.size /\ d.start = c.start /\ d.value = c.value
  BY <1>1 DEF Calls
<1>3. Underway(d, rest)
  <2>1. PICK f : Prefix(f, c.spaces) /\ JustEnough(c, rest, f)
    BY <1>1 DEF Underway
  <2>2. JustEnough(d, rest, f)
    BY <1>2, <2>1 DEF JustEnough
  <2> QED BY <1>1, <1>2, <2>1, <2>2 DEF Underway
<1>4. Pending(d) = Pending(c)
  BY <1>2 DEF Pending
<1> QED BY <1>2, <1>3, <1>4 DEF CallGood

\* How much WriteDataToArea writes.
LEMMA CallWrites ==
  ASSUME NEW c, NEW rest \in Int, CallGood(c, rest), c.stage \in {"write", "log"},
         NEW part, part = Least(rest, c.left)
  PROVE  /\ part \in Int /\ 0 < part /\ part <= rest /\ part <= c.left
         /\ c.left <= c.size /\ 0 <= c.start /\ c.start + c.size <= FileLen
         /\ c.left \in Int /\ c.size \in Int /\ c.start \in Int /\ c.next \in Int
         /\ c.next > Len(c.spaces) => part = c.left /\ Pending(c) = {}
         /\ c.next <= Len(c.spaces) => part = rest /\ rest < c.left
<1>1. c \in Calls /\ Underway(c, rest)
  BY DEF CallGood
<1>2. PICK f : Prefix(f, c.spaces) /\ JustEnough(c, rest, f)
  BY <1>1 DEF Underway
<1> DEFINE n == Len(c.spaces)
<1>3. /\ c.spaces \in Seq(Areas) /\ n \in Nat /\ c.next \in Int /\ c.left \in Int
      /\ c.size \in Int /\ c.start \in Int
  BY <1>1 DEF Calls
<1>4. 1 <= c.left /\ c.left <= c.size /\ 1 <= c.next /\ c.next <= n + 1
      /\ 0 <= c.start /\ c.start + c.size <= FileLen
  BY <1>1 DEF Underway
<1>5. /\ \A i \in 0 .. n : f[i] \in Nat
      /\ \A j \in 0 .. n : \A i \in 0 .. j : f[i] <= f[j]
  BY <1>2, <1>3, PrefixMono
<1>6. /\ 0 < rest /\ c.left <= rest + (f[n] - f[c.next - 1])
      /\ c.next <= n => rest + (f[n - 1] - f[c.next - 1]) < c.left
  BY <1>2 DEF JustEnough
<1>7. part \in Int /\ 0 < part /\ part <= rest /\ part <= c.left
  BY <1>3, <1>4, <1>6 DEF Least
<1>8. ASSUME c.next > n PROVE part = c.left /\ Pending(c) = {}
  <2>1. c.next - 1 = n /\ n \in 0 .. n
    BY <1>3, <1>4, <1>8
  <2>2. c.left <= rest
    <3>1. f[n] \in Nat /\ f[c.next - 1] = f[n]
      <4>1. n \in 0 .. n
        BY <2>1
      <4>2. f[n] \in Nat
        BY <1>5, <4>1
      <4> QED BY <2>1, <4>2
    <3> DEFINE a == f[n]
               b == f[c.next - 1]
    <3>2. a \in Nat /\ b = a /\ c.left <= rest + (a - b)
      BY <1>6, <3>1
    <3> HIDE DEF a, b
    <3> QED BY <1>3, <3>2
  <2>3. c.next .. Len(c.spaces) = {}
    BY <1>3, <1>8
  <2> QED BY <1>3, <2>2, <2>3 DEF Least, Pending
<1>9. ASSUME c.next <= n PROVE part = rest /\ rest < c.left
  <2>1. n - 1 \in 0 .. n /\ c.next - 1 \in 0 .. n - 1
    BY <1>3, <1>4, <1>9
  <2>2. f[c.next - 1] <= f[n - 1] /\ f[c.next - 1] \in Nat /\ f[n - 1] \in Nat
    <3> DEFINE k == n - 1
               j == c.next - 1
    <3>1. k \in 0 .. n /\ j \in 0 .. k /\ j \in 0 .. n
      BY <1>3, <2>1
    <3> HIDE DEF k, j
    <3>2. f[j] <= f[k] /\ f[j] \in Nat /\ f[k] \in Nat
      BY <1>5, <3>1
    <3> QED BY <3>2 DEF k, j
  <2> QED BY <1>3, <1>6, <1>9, <2>2 DEF Least
<1> QED BY <1>3, <1>4, <1>7, <1>8, <1>9

\* It goes on with the next space.
LEMMA CallGoesOn ==
  ASSUME NEW c, NEW rest \in Int, CallGood(c, rest), c.stage = "log",
         c.next <= Len(c.spaces), NEW part, part = Least(rest, c.left),
         NEW d, d = [c EXCEPT !.stage = "space", !.left = c.left - part],
         NEW other
  PROVE  /\ CallGood(d, other) /\ Pending(d) = Pending(c) /\ d.stage = "space"
         /\ d.size = c.size /\ d.start = c.start /\ d.value = c.value
         /\ d.left = c.left - part
<1>1. c \in Calls /\ Underway(c, rest)
  BY DEF CallGood
<1>2. part = rest /\ rest < c.left /\ c.left \in Int /\ 0 < rest /\ c.left <= c.size
      /\ c.size \in Int
  BY CallWrites
<1>3. PICK f : Prefix(f, c.spaces) /\ JustEnough(c, rest, f)
  BY <1>1 DEF Underway
<1>4. /\ d \in Calls /\ d.stage = "space" /\ d.spaces = c.spaces /\ d.next = c.next
      /\ d.left = c.left - part /\ d.size = c.size /\ d.start = c.start
      /\ d.value = c.value
  <2> DEFINE k == c.left - part
  <2>1. d = [c EXCEPT !.stage = "space", !.left = k] /\ k \in Int
    BY <1>2
  <2> HIDE DEF k
  <2>2. /\ d \in Calls /\ d.stage = "space" /\ d.spaces = c.spaces /\ d.next = c.next
        /\ d.left = k /\ d.size = c.size /\ d.start = c.start /\ d.value = c.value
    BY <1>1, <2>1 DEF Calls
  <2> QED BY <2>2 DEF k
<1> DEFINE n == Len(c.spaces)
<1>5. JustEnough(d, other, f)
  <2>1. c.left <= rest + (f[n] - f[c.next - 1])
        /\ rest + (f[n - 1] - f[c.next - 1]) < c.left
    BY <1>3 DEF JustEnough
  <2>2. n - 1 \in 0 .. n /\ c.next - 1 \in 0 .. n /\ n \in 0 .. n
    BY <1>1 DEF Calls, Underway
  <2>3. f[n] \in Int /\ f[n - 1] \in Int /\ f[c.next - 1] \in Int
    BY <1>3, <2>2 DEF Prefix
  <2> QED BY <1>2, <1>4, <2>1, <2>3 DEF JustEnough
<1>6. Underway(d, other)
  BY <1>1, <1>2, <1>3, <1>4, <1>5 DEF Underway
<1>7. Pending(d) = Pending(c)
  BY <1>4 DEF Pending
<1> QED BY <1>4, <1>6, <1>7 DEF CallGood

\* AddNewSpace.
AddedSpace(c) == [c EXCEPT !.stage = "write", !.next = @ + 1]

\* The next space is then one of the file and gives its room to the call.
LEMMA CallAdds ==
  ASSUME NEW c, NEW rest, CallGood(c, rest), c.stage = "space",
         NEW s, s = c.spaces[c.next], NEW d, d = AddedSpace(c)
  PROVE  /\ CallGood(d, s.size) /\ d.stage = "write"
         /\ Pending(c) = Pending(d) \cup {s} /\ s \notin Pending(d)
         /\ d.size = c.size /\ d.start = c.start /\ d.value = c.value
         /\ d.left = c.left
<1>1. c \in Calls /\ Underway(c, rest)
  BY DEF CallGood
<1>2. PICK f : Prefix(f, c.spaces) /\ JustEnough(c, rest, f)
  BY <1>1 DEF Underway
<1> DEFINE n == Len(c.spaces)
<1>3. /\ c.spaces \in Seq(Areas) /\ n \in Nat /\ c.next \in Int /\ c.left \in Int
      /\ 1 <= c.next /\ c.next <= n
  BY <1>1, <1>2 DEF Calls, Underway, JustEnough
<1>4. /\ \A i \in 0 .. n : f[i] \in Nat
      /\ f[c.next] = f[c.next - 1] + s.size /\ s.size \in Nat /\ 0 < s.size
  <2>1. c.next \in 1 .. Len(c.spaces)
    BY <1>3
  <2> QED BY <1>2, <1>3, <2>1, PrefixMono
<1>5. /\ d \in Calls /\ d.stage = "write" /\ d.spaces = c.spaces /\ d.next = c.next + 1
      /\ d.left = c.left /\ d.size = c.size /\ d.start = c.start /\ d.value = c.value
  <2> DEFINE k == c.next + 1
  <2>1. d = [c EXCEPT !.stage = "write", !.next = k] /\ k \in Int
    BY <1>3 DEF AddedSpace
  <2> HIDE DEF k
  <2>2. /\ d \in Calls /\ d.stage = "write" /\ d.spaces = c.spaces /\ d.next = k
        /\ d.left = c.left /\ d.size = c.size /\ d.start = c.start /\ d.value = c.value
    BY <1>1, <2>1 DEF Calls
  <2> QED BY <2>2 DEF k
<1>6. JustEnough(d, s.size, f)
  <2>1. c.left <= f[n] - f[c.next - 1] /\ f[n - 1] - f[c.next - 1] < c.left
    BY <1>2 DEF JustEnough
  <2>2. /\ n - 1 \in 0 .. n /\ c.next - 1 \in 0 .. n /\ n \in 0 .. n /\ c.next \in 0 .. n
        /\ (c.next + 1) - 1 = c.next
    BY <1>3
  <2>3. f[n] \in Int /\ f[n - 1] \in Int /\ f[c.next - 1] \in Int /\ f[c.next] \in Int
    <3>1. \A i \in 0 .. n : f[i] \in Int
      BY <1>4
    <3> QED BY <2>2, <3>1
  <2>4. /\ c.left <= s.size + (f[n] - f[c.next])
        /\ s.size + (f[n - 1] - f[c.next]) < c.left
    <3> DEFINE fn == f[n]
               fm == f[n - 1]
               fc == f[c.next]
               fd == f[c.next - 1]
               z == s.size
    <3>1. /\ fn \in Int /\ fm \in Int /\ fc \in Int /\ fd \in Int /\ z \in Int
          /\ fc = fd + z /\ c.left <= fn - fd /\ fm - fd < c.left /\ c.left \in Int
      BY <1>3, <1>4, <2>1, <2>3
    <3> HIDE DEF fn, fm, fc, fd, z
    <3>2. c.left <= z + (fn - fc) /\ z + (fm - fc) < c.left
      BY <3>1
    <3> QED BY <3>2 DEF fn, fm, fc, z
  <2> QED BY <1>4, <1>5, <2>2, <2>4 DEF JustEnough
<1>7. Underway(d, s.size)
  <2>1. /\ 0 <= c.start /\ c.start + c.size <= FileLen
        /\ 1 <= c.left /\ c.left <= c.size
        /\ \A i, j \in c.next .. Len(c.spaces) : i # j => c.spaces[i] # c.spaces[j]
    BY <1>1 DEF Underway
  <2>2. /\ 1 <= c.next + 1 /\ c.next + 1 <= n + 1
        /\ \A i \in c.next + 1 .. n : i \in c.next .. n
    BY <1>3
  <2>3. \A i, j \in c.next + 1 .. Len(c.spaces) : i # j => c.spaces[i] # c.spaces[j]
    BY <2>1, <2>2
  <2> QED BY <1>2, <1>5, <1>6, <2>1, <2>2, <2>3 DEF Underway
<1>8. Pending(c) = Pending(d) \cup {s} /\ s \notin Pending(d)
  <2>1. c.next .. n = {c.next} \cup (c.next + 1 .. n)
    BY <1>3
  <2>2. Pending(c) = {c.spaces[i] : i \in c.next .. n}
        /\ Pending(d) = {c.spaces[i] : i \in c.next + 1 .. n}
    BY <1>5 DEF Pending
  <2>3. Pending(c) = Pending(d) \cup {s}
    BY <2>1, <2>2
  <2>4. ASSUME NEW i \in c.next + 1 .. n, c.spaces[i] = s PROVE FALSE
    <3>1. i \in c.next .. n /\ c.next \in c.next .. n /\ i # c.next
      BY <1>3
    <3> QED BY <1>1, <2>4, <3>1 DEF Underway
  <2> QED BY <2>2, <2>3, <2>4
<1> QED BY <1>5, <1>7, <1>8 DEF CallGood

\* FileInodeInfoWriteData begins.
LEMMA CallBegins ==
  ASSUME NEW rest \in Nat, NEW spaces \in Seq(Areas), NEW start \in Nat,
         NEW n \in Nat \ {0}, start + n <= FileLen, NEW v \in 0 .. MaxOps,
         NEW f, Prefix(f, spaces), n <= rest + f[Len(spaces)],
         spaces # << >> => rest + f[Len(spaces) - 1] < n,
         \A i, j \in 1 .. Len(spaces) : i # j => spaces[i] # spaces[j],
         NEW c, c = [stage |-> IF rest # 0 THEN "write" ELSE "space",
                     spaces |-> spaces, next |-> 1, left |-> n,
                     start |-> start, size |-> n, value |-> v]
  PROVE  /\ CallGood(c, rest) /\ c.stage \in {"write", "space"}
         /\ Pending(c) = {spaces[i] : i \in 1 .. Len(spaces)}
         /\ c.size = n /\ c.left = n
<1> DEFINE k == Len(spaces)
<1>1. k \in Nat /\ (k = 0 <=> spaces = << >>) /\ f[0] = 0
      /\ \A i \in 0 .. k : f[i] \in Nat
  BY DEF Prefix
<1>2. /\ c \in Calls /\ c.spaces = spaces /\ c.next = 1 /\ c.left = n
      /\ c.start = start /\ c.size = n /\ c.value = v
      /\ c.stage = IF rest # 0 THEN "write" ELSE "space"
  BY DEF Calls
<1>3. JustEnough(c, rest, f)
  <2>1. c.next - 1 = 0
    BY <1>2
  <2>2. f[k] \in Nat /\ (k # 0 => f[k - 1] \in Nat)
    BY <1>1
  <2>3. CASE rest = 0
    <3>1. k # 0
      BY <1>1, <2>3
    <3> QED BY <1>1, <1>2, <2>1, <2>2, <2>3, <3>1 DEF JustEnough
  <2>4. CASE rest # 0
    BY <1>1, <1>2, <2>1, <2>2, <2>4 DEF JustEnough
  <2> QED BY <2>3, <2>4
<1>4. Underway(c, rest)
  BY <1>1, <1>2, <1>3 DEF Underway
<1>5. Pending(c) = {spaces[i] : i \in 1 .. Len(spaces)}
  BY <1>2 DEF Pending
<1> QED BY <1>2, <1>4, <1>5 DEF CallGood

-----------------------------------------------------------------------------
\* The inductive invariant: what a variable may hold, what the log and the
\* manager are to each other, the call underway, and who owns what.

VarsTyped ==
  /\ exists \in BOOLEAN /\ unlogged \in BOOLEAN /\ spanned \in BOOLEAN
  /\ ops \in 0 .. MaxOps
  /\ nvm \in [Words -> 0 .. MaxOps]
  /\ acked \in [words : [Offsets -> 0 .. MaxOps], len : 0 .. FileLen]
  /\ vfsInode \in [i_size : Int, i_blocks : Int]

\* Only when an append failed, and while every other must, does the log not
\* stand for the manager in memory.
LogStands ==
  /\ LogGood(log) /\ GoodManager(manager) /\ manager.tree.spaces = SpacesIn(log)
  /\ manager = FileInodeInfoRebuild(log) \/ (unlogged /\ LogWriteFails)
  /\ ~exists => log = << >> /\ logPages = {} /\ call = Idle

CallFits ==
  /\ CallGood(call, RestSizeOfCurrentArea(manager))
  /\ call.stage # "idle" => exists

SpacesOwned ==
  /\ Owned(SpacesIn(log) \cup Pending(call), freePages, logPages, freeBlocks)
  /\ SpacesIn(log) \cap Pending(call) = {}
  /\ ~unlogged =>
       NoneLost(SpacesIn(log) \cup Pending(call), freePages, logPages, freeBlocks)

Struct == VarsTyped /\ LogStands /\ CallFits /\ SpacesOwned

\* The empty file, and what stat is told.
LEMMA EmptyTyped == EmptyFile \in [words : [Offsets -> 0 .. MaxOps], len : 0 .. FileLen]
<1>1. 0 \in 0 .. MaxOps /\ 0 \in 0 .. FileLen
  BY FileAssumption
<1> QED BY <1>1 DEF EmptyFile, Hole

\* The numbers that the VFS inode is given.
LEMMA PageNumTyped ==
  ASSUME NEW m \in Managers, NEW pages \in SUBSET PagePool
  PROVE  /\ InodeInfoGetPageNum(m, pages) \in Int
         /\ VfsInodeOf(m, pages) \in [i_size : Int, i_blocks : Int]
         /\ VfsInodeOf(m, pages).i_size = m.fileMaxLen
         /\ VfsInodeOf(m, pages).i_blocks = InodeInfoGetPageNum(m, pages)
<1>1. IsFiniteSet(pages)
  BY SizesTyped, FS_Subset
<1>2. Cardinality(pages) \in Nat
  BY <1>1, FS_CardinalityType
<1>3. m.tree.spaceSize \in Int /\ m.fileMaxLen \in Int
  BY ManagerTypes
<1>4. m.tree.spaceSize \div PAGE \in Int
  BY <1>3, SizesTyped, DivFacts
<1>5. InodeInfoGetPageNum(m, pages) \in Int
  BY <1>2, <1>4 DEF InodeInfoGetPageNum
<1> QED BY <1>3, <1>5 DEF VfsInodeOf, InodeInfoGetSize

\* A log append: the entry, and perhaps a page.
LEMMA LogWriteFacts ==
  ASSUME NEW S, NEW e, LogWrite(e), Owned(S, freePages, logPages, freeBlocks)
  PROVE  /\ log' = Append(log, e) /\ ~LogWriteFails
         /\ Owned(S, freePages', logPages', freeBlocks)
         /\ NoneLost(S, freePages, logPages, freeBlocks)
              => NoneLost(S, freePages', logPages', freeBlocks)
<1>1. CASE LogHasRoom
  BY <1>1 DEF LogWrite, LogWriteFails
<1>2. CASE ~LogHasRoom
  <2>1. PICK p \in freePages : freePages' = freePages \ {p} /\ logPages' = logPages \cup {p}
    BY <1>2 DEF LogWrite
  <2>2. log' = Append(log, e) /\ freePages # {}
    BY <1>2, <2>1 DEF LogWrite
  <2> QED BY <2>1, <2>2, OwnedLogPage DEF LogWriteFails
<1> QED BY <1>1, <1>2

\* FileInodeInfoFormat.
LEMMA FormatStep == Struct /\ FileInodeInfoFormat => Struct'
<1> SUFFICES ASSUME Struct, FileInodeInfoFormat PROVE Struct'
  OBVIOUS
<1>1. PICK p \in freePages : logPages' = {p} /\ freePages' = freePages \ {p}
  BY DEF FileInodeInfoFormat
<1>2. /\ exists' = TRUE /\ log' = << >> /\ manager' = FileDataManagerInit
      /\ vfsInode' = [i_size |-> 0, i_blocks |-> InodeInfoGetPageNum(manager', logPages')]
      /\ acked' = EmptyFile /\ nvm' = nvm /\ freeBlocks' = freeBlocks /\ call' = call
      /\ unlogged' = unlogged /\ spanned' = spanned /\ ops' \in 0 .. MaxOps
  BY FileAssumption DEF FileInodeInfoFormat, Step, Struct, VarsTyped
<1>3. /\ log = << >> /\ logPages = {} /\ call = Idle
  BY DEF Struct, LogStands, FileInodeInfoFormat
<1>4. VarsTyped'
  <2>1. acked' \in [words : [Offsets -> 0 .. MaxOps], len : 0 .. FileLen]
    BY <1>2, EmptyTyped
  <2>2. vfsInode' \in [i_size : Int, i_blocks : Int]
    <3>1. freePages \in SUBSET PagePool
      BY DEF Struct, SpacesOwned, Owned
    <3>2. logPages' \in SUBSET PagePool /\ manager' \in Managers
      BY <1>1, <1>2, <3>1, InitManager
    <3>3. InodeInfoGetPageNum(manager', logPages') \in Int
      BY <3>2, PageNumTyped
    <3> QED BY <1>2, <3>3
  <2> QED BY <1>2, <2>1, <2>2 DEF VarsTyped, Struct
<1>5. LogStands'
  BY <1>2, LogEmpty, GoodInit, InitManager DEF LogStands
<1>6. CallFits'
  BY <1>2, <1>3, IdleGood DEF CallFits
<1>7. SpacesOwned'
  <2>1. SpacesIn(log) \cup Pending(call) = {}
    BY <1>3, LogEmpty, IdleGood
  <2>2. SpacesIn(log') \cup Pending(call') = {}
    BY <1>2, <1>3, LogEmpty, IdleGood
  <2>3. Owned({}, freePages, {}, freeBlocks)
        /\ (~unlogged => NoneLost({}, freePages, {}, freeBlocks))
    BY <1>3, <2>1 DEF Struct, SpacesOwned
  <2>4. Owned({}, freePages \ {p}, {} \cup {p}, freeBlocks)
        /\ (~unlogged => NoneLost({}, freePages \ {p}, {} \cup {p}, freeBlocks))
    BY <2>3, OwnedLogPage
  <2> QED BY <1>1, <1>2, <2>2, <2>4 DEF SpacesOwned
<1> QED BY <1>4, <1>5, <1>6, <1>7 DEF Struct

\* FileInodeInfoDestroy.
LEMMA DestroyStep == Struct /\ FileInodeInfoDestroy => Struct'
<1> SUFFICES ASSUME Struct, FileInodeInfoDestroy PROVE Struct'
  OBVIOUS
<1> DEFINE freed == FileDataManagerDestroy(manager)
<1>1. /\ exists' = FALSE /\ freePages' = freePages \cup logPages \cup freed.pages
      /\ freeBlocks' = ExtentTreeBatchPut(freeBlocks, freed.container)
      /\ logPages' = {} /\ log' = << >> /\ manager' = FileDataManagerInit
      /\ acked' = EmptyFile /\ nvm' = nvm /\ vfsInode' = vfsInode /\ call' = call
      /\ unlogged' = unlogged /\ spanned' = spanned /\ ops' \in 0 .. MaxOps
      /\ call.stage = "idle"
  BY FileAssumption DEF FileInodeInfoDestroy, Step, Struct, VarsTyped, IsIdle
<1>2. call = Idle
  BY <1>1 DEF Struct, CallFits, CallGood
<1>3. /\ freed.pages = PagesOf(SpacesIn(log))
      /\ freed.container = SetToSeq(Extents(SpacesIn(log)))
  BY DEF Struct, LogStands, FileDataManagerDestroy, PagesOf, PageSpace, Extents, BlockRuns
<1>4. VarsTyped'
  BY <1>1, EmptyTyped DEF VarsTyped, Struct
<1>5. LogStands'
  BY <1>1, <1>2, LogEmpty, GoodInit, InitManager DEF LogStands
<1>6. CallFits'
  BY <1>1, <1>2, IdleGood DEF CallFits
<1>7. SpacesOwned'
  <2>1. SpacesIn(log) \cup Pending(call) = SpacesIn(log)
    BY <1>2, IdleGood
  <2>2. SpacesIn(log') \cup Pending(call') = {}
    BY <1>1, <1>2, LogEmpty, IdleGood
  <2>3. Owned(SpacesIn(log), freePages, logPages, freeBlocks)
        /\ (~unlogged => NoneLost(SpacesIn(log), freePages, logPages, freeBlocks))
    BY <2>1 DEF Struct, SpacesOwned
  <2>4. /\ Owned({}, freePages', {}, freeBlocks')
        /\ ~unlogged => NoneLost({}, freePages', {}, freeBlocks')
    <3> HIDE DEF freed
    <3> QED BY <1>1, <1>3, <2>3, OwnedFreed
  <2> QED BY <1>1, <2>2, <2>4 DEF SpacesOwned
<1> QED BY <1>4, <1>5, <1>6, <1>7 DEF Struct

\* The spaces that a call takes are nobody's, and the room they make is what it
\* writes.
LEMMA BeginStep ==
  ASSUME Struct, exists, call.stage = "idle",
         UNCHANGED <<exists, nvm, log, logPages, manager, vfsInode, acked, unlogged,
                     spanned>>,
         ops' \in 0 .. MaxOps, ops + 1 \in 0 .. MaxOps,
         NEW spaces \in Seq(Areas), NEW start \in Nat, NEW n \in Nat \ {0},
         start + n <= FileLen, NEW f, Prefix(f, spaces), Begin(spaces, start, n),
         NEW rest, rest = RestSizeOfCurrentArea(manager), rest \in Nat,
         n <= rest + f[Len(spaces)],
         spaces # << >> => rest + f[Len(spaces) - 1] < n,
         \A i, j \in 1 .. Len(spaces) : i # j => spaces[i] # spaces[j],
         NEW R, R = {spaces[i] : i \in 1 .. Len(spaces)},
         SpacesIn(log) \cap R = {},
         Owned(SpacesIn(log) \cup R, freePages', logPages, freeBlocks'),
         NoneLost(SpacesIn(log), freePages, logPages, freeBlocks)
           => NoneLost(SpacesIn(log) \cup R, freePages', logPages, freeBlocks'),
         freePages' \subseteq freePages
  PROVE  Struct'
<1>1. /\ CallGood(call', rest) /\ Pending(call') = R
      /\ call'.stage \in {"write", "space"}
  BY CallBegins DEF Begin
<1>2. call = Idle /\ SpacesIn(log) \cup Pending(call) = SpacesIn(log)
  BY IdleGood DEF Struct, CallFits, CallGood
<1>3. VarsTyped'
  BY DEF VarsTyped, Struct
<1>4. LogStands'
  BY DEF LogStands, Struct, LogWriteFails, LogHasRoom
<1>5. CallFits'
  <2>1. RestSizeOfCurrentArea(manager)' = rest
    BY DEF RestSizeOfCurrentArea
  <2> QED BY <1>1, <2>1 DEF CallFits
<1>6. SpacesOwned'
  BY <1>1, <1>2 DEF SpacesOwned, Struct
<1> QED BY <1>3, <1>4, <1>5, <1>6 DEF Struct

\* RestSizeOfCurrentArea is a length.
LEMMA RestNat ==
  ASSUME NEW m, GoodManager(m)
  PROVE  RestSizeOfCurrentArea(m) \in Nat
<1>1. m.curArea \in Int /\ m.curWriteStart \in Int /\ m.curSize \in Int
  BY ManagerTypes DEF GoodManager
<1>2. CASE NoArea(m)
  BY <1>2 DEF NoArea, RestSizeOfCurrentArea
<1>3. CASE InArea(m)
  BY <1>1, <1>3 DEF InArea, RestSizeOfCurrentArea
<1> QED BY <1>2, <1>3 DEF GoodManager

\* FileInodeInfoWriteData with enough room, without and with much too little.
LEMMA WriteDataWithoutNewSpaceStep ==
  ASSUME Struct, NEW start \in Starts, NEW n \in Sizes,
         FileInodeInfoWriteData(start, n), WriteDataWithoutNewSpace(start, n)
  PROVE  Struct'
<1> DEFINE f == [i \in 0 .. 0 |-> 0]
           spaces == << >>
           R == {spaces[i] : i \in 1 .. Len(spaces)}
           rest == RestSizeOfCurrentArea(manager)
<1>1. spaces \in Seq(Areas) /\ Len(spaces) = 0 /\ R = {} /\ 1 .. Len(spaces) = {}
  OBVIOUS
<1>2. Prefix(f, spaces) /\ f[Len(spaces)] = 0
  BY <1>1 DEF Prefix
<1>3. rest \in Nat
  BY RestNat DEF Struct, LogStands
<1>4. start \in Nat /\ n \in Nat \ {0} /\ start + n <= FileLen
  BY FileAssumption
<1>5. /\ exists /\ call.stage = "idle" /\ Begin(spaces, start, n) /\ n <= rest
      /\ freePages' = freePages /\ freeBlocks' = freeBlocks
      /\ UNCHANGED <<exists, nvm, log, logPages, manager, vfsInode, acked, unlogged,
                     spanned>>
  BY DEF FileInodeInfoWriteData, WriteDataWithoutNewSpace, IsIdle
<1>6. ops' \in 0 .. MaxOps /\ ops + 1 \in 0 .. MaxOps
  BY FileAssumption DEF FileInodeInfoWriteData, Step, Struct, VarsTyped
<1>7. /\ SpacesIn(log) \cup R = SpacesIn(log) /\ SpacesIn(log) \cap R = {}
      /\ Owned(SpacesIn(log), freePages, logPages, freeBlocks)
  <2>1. Pending(call) = {}
    BY <1>5, IdleGood DEF Struct, CallFits, CallGood
  <2>2. SpacesIn(log) \cup Pending(call) = SpacesIn(log)
    BY <2>1
  <2> QED BY <1>1, <2>2 DEF Struct, SpacesOwned
<1>8. n <= rest + f[Len(spaces)]
  BY <1>2, <1>3, <1>4, <1>5
<1> HIDE DEF f, R, rest
<1> QED BY <1>1, <1>2, <1>3, <1>4, <1>5, <1>6, <1>7, <1>8, BeginStep DEF rest, R

\* The same with a page taken from the page pool.
LEMMA WriteDataSmallStep ==
  ASSUME Struct, NEW start \in Starts, NEW n \in Sizes,
         FileInodeInfoWriteData(start, n), WriteDataSmall(start, n)
  PROVE  Struct'
<1>1. PICK p \in freePages :
        freePages' = freePages \ {p} /\ Begin(<<PageSpace(p)>>, start, n)
  BY DEF WriteDataSmall, PageSpace
<1> DEFINE f == [i \in 0 .. 1 |-> IF i = 0 THEN 0 ELSE PAGE]
           spaces == <<PageSpace(p)>>
           R == {spaces[i] : i \in 1 .. Len(spaces)}
           rest == RestSizeOfCurrentArea(manager)
<1>2. rest \in Nat
  BY RestNat DEF Struct, LogStands
<1>3. start \in Nat /\ n \in Nat \ {0} /\ start + n <= FileLen
  BY FileAssumption
<1>4. /\ exists /\ call.stage = "idle" /\ n > rest /\ n - rest <= PAGE
      /\ freeBlocks' = freeBlocks
      /\ UNCHANGED <<exists, nvm, log, logPages, manager, vfsInode, acked, unlogged,
                     spanned>>
  BY DEF FileInodeInfoWriteData, WriteDataSmall, IsIdle
<1>5. ops' \in 0 .. MaxOps /\ ops + 1 \in 0 .. MaxOps
  BY FileAssumption DEF FileInodeInfoWriteData, Step, Struct, VarsTyped
<1>6. /\ SpacesIn(log) \cup Pending(call) = SpacesIn(log)
      /\ Owned(SpacesIn(log), freePages, logPages, freeBlocks)
  <2>1. Pending(call) = {}
    BY <1>4, IdleGood DEF Struct, CallFits, CallGood
  <2>2. SpacesIn(log) \cup Pending(call) = SpacesIn(log)
    BY <2>1
  <2> QED BY <2>2 DEF Struct, SpacesOwned
<1>7. p \in PagePool
  BY <1>6 DEF Owned
<1>8. PageSpace(p) \in Areas /\ PageSpace(p).size = PAGE
  BY <1>7, PageSpaceFacts DEF Areas, IsSpace
<1>9. /\ spaces \in Seq(Areas) /\ Len(spaces) = 1 /\ spaces[1] = PageSpace(p)
      /\ spaces # << >> /\ R = {PageSpace(p)}
      /\ \A i, j \in 1 .. Len(spaces) : i # j => spaces[i] # spaces[j]
  BY <1>8
<1>10. Prefix(f, spaces) /\ f[Len(spaces)] = PAGE /\ f[Len(spaces) - 1] = 0
  <2>1. PAGE \in Nat /\ 0 .. 1 = {0, 1} /\ 1 .. 1 = {1}
    BY FileAssumption
  <2>2. f \in [0 .. 1 -> Nat] /\ f[0] = 0 /\ f[1] = PAGE
    BY <2>1
  <2> HIDE DEF f, spaces
  <2> QED BY <1>8, <1>9, <2>1, <2>2 DEF Prefix
<1>11. n <= rest + f[Len(spaces)] /\ rest + f[Len(spaces) - 1] < n
  <2> HIDE DEF f, spaces, rest
  <2> QED BY <1>2, <1>3, <1>4, <1>10, FileAssumption
<1>12. /\ SpacesIn(log) \cap R = {}
       /\ Owned(SpacesIn(log) \cup R, freePages', logPages, freeBlocks')
       /\ NoneLost(SpacesIn(log), freePages, logPages, freeBlocks)
            => NoneLost(SpacesIn(log) \cup R, freePages', logPages, freeBlocks')
  BY <1>1, <1>4, <1>6, <1>9, OwnedSmall
<1>13. Begin(spaces, start, n) /\ freePages' \subseteq freePages
  BY <1>1
<1> HIDE DEF f, R, rest, spaces
<1> QED BY <1>2, <1>3, <1>4, <1>5, <1>9, <1>10, <1>11, <1>12, <1>13, BeginStep
    DEF rest, R

\* How many blocks a size needs.
LEMMA BlocksForFacts ==
  ASSUME NEW n \in Nat \ {0}, NEW k, k = BlocksFor(n)
  PROVE  k \in Nat \ {0} /\ n <= k * BLOCK /\ (k - 1) * BLOCK < n
<1> DEFINE w == n + (BLOCK - 1)
<1>1. BLOCK \in Nat \ {0} /\ w \in Int /\ 0 <= w /\ k = w \div BLOCK
  BY SizesTyped DEF BlocksFor
<1>2. /\ k \in Int /\ k * BLOCK <= w /\ w < k * BLOCK + BLOCK
  <2> HIDE DEF w
  <2> QED BY <1>1, DivFacts
<1>3. k * BLOCK \in Int /\ (k - 1) * BLOCK = k * BLOCK - 1 * BLOCK /\ 1 * BLOCK = BLOCK
  BY <1>1, <1>2, TimesMono
<1>4. n <= k * BLOCK /\ k * BLOCK - BLOCK < n
  BY <1>1, <1>2, <1>3
<1>5. 0 * BLOCK = 0 /\ (0 < k <=> 0 * BLOCK < k * BLOCK)
  BY <1>1, <1>2, TimesMono
<1> QED BY <1>1, <1>2, <1>3, <1>4, <1>5

\* The room that the runs of a container make.
LEMMA RunsPrefix ==
  ASSUME NEW c \in Seq(Runs(TotalBlockNum)),
         NEW spaces, spaces = [i \in DOMAIN c |-> RunSpace(c[i])],
         NEW f, f = [i \in 0 .. Len(c) |-> SizeUpTo(c)[i] * BLOCK]
  PROVE  /\ spaces \in Seq(Areas) /\ Len(spaces) = Len(c)
         /\ \A i \in 1 .. Len(c) : spaces[i] = RunSpace(c[i])
         /\ {spaces[i] : i \in 1 .. Len(spaces)} = RunSpaces(c)
         /\ Prefix(f, spaces) /\ f[Len(c)] = ContainerSize(c) * BLOCK
         /\ Len(c) # 0 => f[Len(c) - 1] <= (ContainerSize(c) - 1) * BLOCK
<1> DEFINE g == SizeUpTo(c)
           n == Len(c)
<1>1. n \in Nat /\ DOMAIN c = 1 .. n /\ \A i \in 1 .. n : c[i] \in Runs(TotalBlockNum)
  OBVIOUS
<1>2. \A i \in 1 .. n : /\ RunSpace(c[i]) \in Areas
                        /\ RunSpace(c[i]).size = SizeOf(c[i]) * BLOCK
                        /\ SizeOf(c[i]) \in Nat /\ 0 < SizeOf(c[i])
  <2> TAKE i \in 1 .. n
  <2>1. c[i] \in Runs(TotalBlockNum)
    BY <1>1
  <2>2. SizeOf(c[i]) \in Nat /\ 0 < SizeOf(c[i])
    BY <2>1, SizesTyped, RunFacts
  <2>3. RunSpace(c[i]) \in Areas
    BY <2>1, RunSpaceFacts DEF Areas, IsSpace
  <2> QED BY <2>2, <2>3 DEF RunSpace, Space
<1>3. /\ spaces \in Seq(Areas) /\ Len(spaces) = n
      /\ \A i \in 1 .. n : spaces[i] = RunSpace(c[i])
  <2>1. spaces \in [1 .. n -> Areas]
    BY <1>1, <1>2
  <2> QED BY <1>1, <2>1
<1>4. /\ g[0] = 0 /\ \A i \in 1 .. n : g[i] = g[i - 1] + SizeOf(c[i])
      /\ \A i \in 0 .. n : g[i] \in Nat
  BY SizesTyped, SizeLoop
<1>5. BLOCK \in Nat \ {0}
  BY SizesTyped
<1> HIDE DEF g
<1>6. f = [i \in 0 .. n |-> g[i] * BLOCK]
  BY DEF g
<1>7. f \in [0 .. n -> Nat]
  <2>1. \A i \in 0 .. n : g[i] * BLOCK \in Nat
    <3> TAKE i \in 0 .. n
    <3>1. g[i] \in Nat
      BY <1>4
    <3> DEFINE k == g[i]
    <3> HIDE DEF k
    <3>2. k \in Nat => k * BLOCK \in Nat
      BY <1>5
    <3> QED BY <3>1, <3>2 DEF k
  <2> QED BY <1>6, <2>1
<1>8. f[0] = 0
  BY <1>1, <1>4, <1>5, <1>6
<1>9. \A i \in 1 .. n : f[i] = f[i - 1] + spaces[i].size
  <2> TAKE i \in 1 .. n
  <2> DEFINE a == g[i - 1]
             b == SizeOf(c[i])
  <2>1. i \in 0 .. n /\ i - 1 \in 0 .. n
    BY <1>1
  <2>2. a \in Nat /\ b \in Nat /\ g[i] = a + b
    BY <1>2, <1>4, <2>1
  <2>3. spaces[i].size = b * BLOCK /\ f[i] = g[i] * BLOCK /\ f[i - 1] = a * BLOCK
    BY <1>2, <1>3, <1>6, <2>1
  <2> HIDE DEF a, b
  <2>4. (a + b) * BLOCK = a * BLOCK + b * BLOCK
    BY <1>5, <2>2
  <2> QED BY <2>2, <2>3, <2>4
<1>10. Prefix(f, spaces)
  BY <1>3, <1>7, <1>8, <1>9 DEF Prefix
<1>11. f[n] = ContainerSize(c) * BLOCK
  BY <1>1, <1>6 DEF ContainerSize, g
<1>12. ASSUME n # 0 PROVE f[n - 1] <= (ContainerSize(c) - 1) * BLOCK
  <2> DEFINE a == g[n - 1]
             b == g[n]
  <2>1. n \in 1 .. n /\ n - 1 \in 0 .. n /\ n \in 0 .. n
    BY <1>1, <1>12
  <2>2. a \in Nat /\ b \in Nat /\ b = a + SizeOf(c[n]) /\ SizeOf(c[n]) \in Nat
        /\ 0 < SizeOf(c[n])
    BY <1>2, <1>4, <2>1
  <2>3. f[n - 1] = a * BLOCK /\ ContainerSize(c) = b
    BY <1>6, <2>1 DEF ContainerSize, g
  <2> HIDE DEF a, b
  <2>4. a <= b - 1 /\ b - 1 \in Int
    BY <2>2
  <2>5. a * BLOCK <= (b - 1) * BLOCK
    <3> DEFINE d == b - 1
    <3>1. a \in Int /\ d \in Int /\ a <= d
      BY <2>2, <2>4
    <3> HIDE DEF d
    <3>2. a * BLOCK <= d * BLOCK
      BY <1>5, <3>1, TimesMono
    <3> QED BY <3>2 DEF d
  <2> QED BY <2>3, <2>5
<1>13. {spaces[i] : i \in 1 .. Len(spaces)} = RunSpaces(c)
  BY <1>3 DEF RunSpaces
<1> QED BY <1>3, <1>10, <1>11, <1>12, <1>13

\* The same with the runs of blocks that PrepareExtentSpace got.
LEMMA WriteDataLargeStep ==
  ASSUME Struct, NEW start \in Starts, NEW n \in Sizes,
         FileInodeInfoWriteData(start, n), WriteDataLarge(start, n)
  PROVE  Struct'
<1> DEFINE rest == RestSizeOfCurrentArea(manager)
           k == BlocksFor(n - rest)
           got == ExtentTreeGet(freeBlocks, k)
           c == got.container
           f == [i \in 0 .. Len(c) |-> SizeUpTo(c)[i] * BLOCK]
           spaces == [i \in DOMAIN c |-> RunSpace(c[i])]
           R == {spaces[i] : i \in 1 .. Len(spaces)}
<1>1. rest \in Nat
  BY RestNat DEF Struct, LogStands
<1>2. start \in Nat /\ n \in Nat \ {0} /\ start + n <= FileLen
  BY FileAssumption
<1>3. /\ exists /\ call.stage = "idle" /\ n > rest /\ ContainerSize(c) >= k
      /\ freeBlocks' = got.tree /\ freePages' = freePages /\ Begin(spaces, start, n)
      /\ UNCHANGED <<exists, nvm, log, logPages, manager, vfsInode, acked, unlogged,
                     spanned>>
  BY DEF FileInodeInfoWriteData, WriteDataLarge, IsIdle
<1>4. ops' \in 0 .. MaxOps /\ ops + 1 \in 0 .. MaxOps
  BY FileAssumption DEF FileInodeInfoWriteData, Step, Struct, VarsTyped
<1>5. /\ SpacesIn(log) \cup Pending(call) = SpacesIn(log)
      /\ Owned(SpacesIn(log), freePages, logPages, freeBlocks)
  <2>1. Pending(call) = {}
    BY <1>3, IdleGood DEF Struct, CallFits, CallGood
  <2>2. SpacesIn(log) \cup Pending(call) = SpacesIn(log)
    BY <2>1
  <2> QED BY <2>2 DEF Struct, SpacesOwned
<1>6. k \in Nat \ {0} /\ n - rest <= k * BLOCK /\ (k - 1) * BLOCK < n - rest
  <2>1. n - rest \in Nat \ {0}
    BY <1>1, <1>2, <1>3
  <2> QED BY <2>1, BlocksForFacts
<1>7. Walked(TotalBlockNum, freeBlocks, k, got)
  <2>1. freeBlocks \in SUBSET Runs(TotalBlockNum) /\ Canonical(freeBlocks)
    BY <1>5 DEF Owned
  <2> QED BY <1>6, <2>1, SizesTyped, GetFacts
<1> HIDE DEF got, k, rest
<1>8. /\ got.tree \in SUBSET Runs(TotalBlockNum) /\ Canonical(got.tree)
      /\ c \in Seq(Runs(TotalBlockNum)) /\ NoOverlap(c) /\ got.size \in Nat
      /\ Covered(got.tree) \cap Covered(ToSet(c)) = {}
      /\ Covered(freeBlocks) = Covered(got.tree) \cup Covered(ToSet(c))
      /\ k = got.size + ContainerSize(c)
  BY <1>7 DEF Walked, Walk
<1> HIDE DEF c
<1>9. /\ SizeUpTo(c)[0] = 0 /\ \A i \in 0 .. Len(c) : SizeUpTo(c)[i] \in Nat
      /\ Len(c) \in Nat
  BY <1>8, SizesTyped, SizeLoop
<1>10. ContainerSize(c) \in Nat /\ (Len(c) = 0 => ContainerSize(c) = 0)
  <2>1. Len(c) \in 0 .. Len(c)
    BY <1>9
  <2> QED BY <1>9, <2>1 DEF ContainerSize
<1>11. ContainerSize(c) = k /\ Len(c) # 0
  BY <1>3, <1>6, <1>8, <1>10
<1>12. /\ spaces \in Seq(Areas) /\ Len(spaces) = Len(c)
       /\ \A i \in 1 .. Len(c) : spaces[i] = RunSpace(c[i])
       /\ R = RunSpaces(c)
       /\ Prefix(f, spaces) /\ f[Len(c)] = k * BLOCK
       /\ f[Len(c) - 1] <= (k - 1) * BLOCK
  BY <1>8, <1>11, RunsPrefix
<1> HIDE DEF f, spaces, R
<1>13. \A i, j \in 1 .. Len(spaces) : i # j => spaces[i] # spaces[j]
  BY <1>8, <1>12, RunSpacesFacts
<1>14. n <= rest + f[Len(spaces)] /\ rest + f[Len(spaces) - 1] < n
  <2>1. f[Len(c)] \in Nat /\ f[Len(c) - 1] \in Nat
    <3>1. Len(c) \in 0 .. Len(c) /\ Len(c) - 1 \in 0 .. Len(c)
      BY <1>9, <1>11
    <3> QED BY <1>12, <3>1, PrefixMono
  <2> DEFINE a == f[Len(c)]
             b == f[Len(c) - 1]
             x == k * BLOCK
             y == (k - 1) * BLOCK
  <2>2. /\ a = x /\ b <= y /\ n - rest <= x /\ y < n - rest /\ a \in Nat /\ b \in Nat
        /\ x \in Int /\ y \in Int
    BY <1>6, <1>12, <2>1, SizesTyped
  <2> HIDE DEF a, b, x, y
  <2>3. n <= rest + a /\ rest + b < n
    BY <1>1, <1>2, <2>2
  <2> QED BY <1>12, <2>3 DEF a, b
<1>15. /\ SpacesIn(log) \cap R = {}
       /\ Owned(SpacesIn(log) \cup R, freePages', logPages, freeBlocks')
       /\ NoneLost(SpacesIn(log), freePages, logPages, freeBlocks)
            => NoneLost(SpacesIn(log) \cup R, freePages', logPages, freeBlocks')
  BY <1>3, <1>5, <1>8, <1>12, OwnedLarge
<1>16. freePages' \subseteq freePages /\ rest = RestSizeOfCurrentArea(manager)
  BY <1>3 DEF rest
<1> QED BY <1>1, <1>2, <1>3, <1>4, <1>12, <1>13, <1>14, <1>15, <1>16, BeginStep
    DEF R

\* FileInodeInfoWriteData keeps the invariant.
LEMMA WriteDataBegins ==
  ASSUME Struct, NEW start \in Starts, NEW n \in Sizes, FileInodeInfoWriteData(start, n)
  PROVE  Struct'
<1>1. CASE WriteDataWithoutNewSpace(start, n)
  BY <1>1, WriteDataWithoutNewSpaceStep
<1>2. CASE WriteDataSmall(start, n)
  BY <1>2, WriteDataSmallStep
<1>3. CASE WriteDataLarge(start, n)
  BY <1>3, WriteDataLargeStep
<1> QED BY <1>1, <1>2, <1>3 DEF FileInodeInfoWriteData

\* The store of WriteDataToArea.
LEMMA WriteDataStep == Struct /\ WriteData => Struct'
<1> SUFFICES ASSUME Struct, WriteData PROVE Struct'
  OBVIOUS
<1>1. /\ UNCHANGED <<exists, log, logPages, manager, vfsInode, freePages, freeBlocks,
                     acked, unlogged, ops>>
      /\ call.stage = "write" /\ call' = [call EXCEPT !.stage = "log"]
      /\ nvm' = NVMAccesserWrite(nvm, manager.curWriteStart, PartSize, call.value)
      /\ spanned' = (spanned \/ CrossesBlock(manager.curWriteStart, PartSize))
  BY DEF WriteData
<1> DEFINE rest == RestSizeOfCurrentArea(manager)
<1>2. CallGood(call, rest) /\ exists
  BY <1>1 DEF Struct, CallFits
<1>3. /\ CallGood(call', rest) /\ Pending(call') = Pending(call)
      /\ call'.stage = "log"
  BY <1>1, <1>2, CallStores
<1>4. VarsTyped'
  <2>1. spanned' \in BOOLEAN
    BY <1>1, Zenon DEF Struct, VarsTyped, CrossesBlock
  <2>2. call.value \in 0 .. MaxOps
    BY <1>2 DEF CallGood, Calls
  <2>3. nvm' \in [Words -> 0 .. MaxOps]
    BY <1>1, <2>2 DEF NVMAccesserWrite, Struct, VarsTyped
  <2> QED BY <1>1, <2>1, <2>3 DEF Struct, VarsTyped
<1>5. LogStands'
  BY <1>1, <1>2 DEF LogStands, Struct, LogWriteFails, LogHasRoom
<1>6. CallFits'
  <2>1. RestSizeOfCurrentArea(manager)' = rest
    BY <1>1 DEF RestSizeOfCurrentArea
  <2> HIDE DEF rest
  <2> QED BY <1>1, <1>2, <1>3, <2>1 DEF CallFits
<1>7. SpacesOwned'
  BY <1>1, <1>3 DEF SpacesOwned, Struct
<1> QED BY <1>4, <1>5, <1>6, <1>7 DEF Struct

\* What WriteDataToArea writes fits.
LEMMA PartFits ==
  ASSUME Struct, call.stage \in {"write", "log"}
  PROVE  /\ Fits(manager, PartExtent)
         /\ PartExtent.start = manager.curWriteStart /\ PartExtent.size = PartSize
         /\ PartExtent.fileStart = PartStart
         /\ PartSize \in Int /\ 0 < PartSize /\ PartSize <= call.left
         /\ PartStart = call.start + (call.size - call.left) /\ 0 <= call.start
         /\ call.left <= call.size /\ call.start + call.size <= FileLen
         /\ call.left \in Int /\ call.size \in Int /\ call.start \in Int
         /\ call.value \in 0 .. MaxOps
         /\ call.next > Len(call.spaces) => PartSize = call.left
<1> DEFINE rest == RestSizeOfCurrentArea(manager)
           x == PartExtent
<1>1. rest \in Nat /\ GoodManager(manager) /\ manager.curWriteStart \in Int
  BY RestNat, ManagerTypes DEF Struct, LogStands, GoodManager
<1>2. CallGood(call, rest) /\ PartSize = Least(rest, call.left)
  BY DEF Struct, CallFits, PartSize
<1>3. rest \in Int
  BY <1>1
<1> HIDE DEF rest
<1>4. /\ PartSize \in Int /\ 0 < PartSize /\ PartSize <= rest /\ PartSize <= call.left
      /\ call.left <= call.size /\ 0 <= call.start /\ call.start + call.size <= FileLen
      /\ call.left \in Int /\ call.size \in Int /\ call.start \in Int
      /\ call.next > Len(call.spaces) => PartSize = call.left
  BY <1>2, <1>3, CallWrites
<1>5. /\ PartStart \in Int /\ PartStart = call.start + (call.size - call.left)
      /\ 0 <= PartStart /\ PartStart + PartSize <= FileLen
  <2>1. PartStart = call.start + (call.size - call.left)
    BY DEF PartStart
  <2> QED BY <1>4, <2>1, FileAssumption
<1>6. /\ x = [start |-> manager.curWriteStart, size |-> PartSize, fileStart |-> PartStart]
      /\ x.start = manager.curWriteStart /\ x.size = PartSize /\ x.fileStart = PartStart
      /\ x \in ExtentNodes
  BY <1>1, <1>4, <1>5 DEF PartExtent, FileExtent, ExtentNodes
<1>7. Fits(manager, x)
  <2> HIDE DEF x
  <2> QED BY <1>4, <1>5, <1>6 DEF Fits, IsExtent, FileEnd, rest
<1>8. call.value \in 0 .. MaxOps
  BY <1>2 DEF CallGood, Calls
<1> QED BY <1>4, <1>5, <1>6, <1>7, <1>8

\* A file with the leading part of a call over it.
LEMMA OverlayTyped ==
  ASSUME NEW file \in [words : [Offsets -> 0 .. MaxOps], len : 0 .. FileLen],
         NEW c, c.start \in Int, 0 <= c.start, c.value \in 0 .. MaxOps,
         NEW k \in Nat, c.start + k <= FileLen
  PROVE  Overlay(file, c, k) \in [words : [Offsets -> 0 .. MaxOps], len : 0 .. FileLen]
<1>1. file.words \in [Offsets -> 0 .. MaxOps] /\ file.len \in 0 .. FileLen
  OBVIOUS
<1> DEFINE w == [o \in Offsets |-> IF o \in c.start .. c.start + k - 1
                                THEN c.value ELSE file.words[o]]
           n == IF k = 0 THEN file.len ELSE Most(file.len, c.start + k)
<1>2. w \in [Offsets -> 0 .. MaxOps]
  BY <1>1
<1>3. n \in 0 .. FileLen
  BY <1>1, FileAssumption DEF Most
<1>4. Overlay(file, c, k) = [words |-> w, len |-> n]
  BY DEF Overlay
<1> HIDE DEF w, n
<1> QED BY <1>2, <1>3, <1>4

\* The second half of WriteDataToArea.
LEMMA WriteDataLoggedStep == Struct /\ WriteDataLogged => Struct'
<1> SUFFICES ASSUME Struct, WriteDataLogged PROVE Struct'
  OBVIOUS
<1> DEFINE x == PartExtent
           rest == RestSizeOfCurrentArea(manager)
           S == SpacesIn(log) \cup Pending(call)
<1>1. /\ UNCHANGED <<exists, nvm, freeBlocks, spanned, ops>> /\ call.stage = "log"
      /\ manager' = TakeExtent(manager, x) /\ Advance
      /\ \/ LogWrite(DataEntry(x)) /\ unlogged' = unlogged
         \/ /\ LogWriteFails /\ unlogged' = TRUE
            /\ UNCHANGED <<log, logPages, freePages>>
  BY DEF WriteDataLogged
<1>2. /\ Fits(manager, x) /\ call.start \in Int /\ 0 <= call.start
      /\ call.value \in 0 .. MaxOps /\ call.size \in Int /\ call.left \in Int
      /\ call.start + call.size <= FileLen /\ call.left <= call.size
      /\ PartSize \in Int /\ 0 < PartSize /\ PartSize <= call.left
  BY <1>1, PartFits
<1> HIDE DEF x
<1>3. /\ LogGood(log) /\ GoodManager(manager) /\ manager.tree.spaces = SpacesIn(log)
      /\ manager = FileInodeInfoRebuild(log) \/ (unlogged /\ LogWriteFails)
      /\ CallGood(call, rest) /\ exists /\ unlogged \in BOOLEAN
      /\ Owned(S, freePages, logPages, freeBlocks)
      /\ SpacesIn(log) \cap Pending(call) = {}
      /\ ~unlogged => NoneLost(S, freePages, logPages, freeBlocks)
  BY <1>1 DEF Struct, LogStands, CallFits, SpacesOwned, VarsTyped
<1>4. /\ GoodManager(manager') /\ manager'.tree.spaces = SpacesIn(log)
      /\ manager' \in Managers
  BY <1>1, <1>2, <1>3, GoodTakeExtent DEF GoodManager
<1>5. /\ LogGood(log') /\ SpacesIn(log') = SpacesIn(log) /\ unlogged' \in BOOLEAN
      /\ manager' = FileInodeInfoRebuild(log') \/ (unlogged' /\ LogWriteFails')
      /\ Owned(S, freePages', logPages', freeBlocks)
      /\ ~unlogged' => NoneLost(S, freePages', logPages', freeBlocks)
  <2> HIDE DEF S
  <2>1. CASE LogWrite(DataEntry(x)) /\ unlogged' = unlogged
    <3>1. /\ log' = Append(log, DataEntry(x)) /\ ~LogWriteFails
          /\ Owned(S, freePages', logPages', freeBlocks)
          /\ NoneLost(S, freePages, logPages, freeBlocks)
               => NoneLost(S, freePages', logPages', freeBlocks)
      BY <1>3, <2>1, LogWriteFacts
    <3>2. manager = FileInodeInfoRebuild(log)
      BY <1>3, <3>1
    <3>3. Fits(FileInodeInfoRebuild(log), x)
      BY <1>2, <3>2
    <3>4. /\ LogGood(log') /\ SpacesIn(log') = SpacesIn(log)
          /\ FileInodeInfoRebuild(log') = TakeExtent(FileInodeInfoRebuild(log), x)
      BY <1>3, <3>1, <3>3, LogAddsExtent
    <3>5. FileInodeInfoRebuild(log') = manager'
      BY <1>1, <3>2, <3>4
    <3> QED BY <1>3, <2>1, <3>1, <3>4, <3>5
  <2>2. CASE /\ LogWriteFails /\ unlogged' = TRUE
             /\ UNCHANGED <<log, logPages, freePages>>
    <3>1. LogWriteFails'
      BY <2>2 DEF LogWriteFails, LogHasRoom
    <3> QED BY <1>3, <2>2, <3>1
  <2> QED BY <1>1, <2>1, <2>2
<1>6. /\ call'.stage # "idle" => exists'
      /\ CallGood(call', RestSizeOfCurrentArea(manager)')
      /\ Pending(call') = Pending(call)
      /\ acked' \in [words : [Offsets -> 0 .. MaxOps], len : 0 .. FileLen]
      /\ vfsInode' \in [i_size : Int, i_blocks : Int]
  <2>1. rest \in Int /\ call.next \in Int /\ Len(call.spaces) \in Nat
    <3>1. rest \in Nat
      BY <1>3, RestNat
    <3> QED BY <1>3, <3>1 DEF CallGood, Calls
  <2> DEFINE other == RestSizeOfCurrentArea(manager)'
  <2>2. CASE call.next > Len(call.spaces)
    <3>1. /\ call' = Idle /\ acked' = Overlay(acked, call, call.size)
          /\ vfsInode' = VfsInodeOf(manager', logPages')
      BY <1>1, <2>2 DEF Advance
    <3>2. Pending(call) = {}
      <4> HIDE DEF rest
      <4> QED BY <1>1, <1>3, <2>1, <2>2, CallWrites
    <3>3. vfsInode' \in [i_size : Int, i_blocks : Int]
      <4>1. logPages' \in SUBSET PagePool
        BY <1>5 DEF Owned
      <4>2. VfsInodeOf(manager', logPages') \in [i_size : Int, i_blocks : Int]
        BY <1>4, <4>1, PageNumTyped
      <4> QED BY <3>1, <4>2
    <3>4. acked' \in [words : [Offsets -> 0 .. MaxOps], len : 0 .. FileLen]
      <4>1. call.size \in Nat
        BY <1>2
      <4>2. acked \in [words : [Offsets -> 0 .. MaxOps], len : 0 .. FileLen]
        BY DEF Struct, VarsTyped
      <4> QED BY <1>2, <3>1, <4>1, <4>2, OverlayTyped
    <3>5. CallGood(call', other) /\ Pending(call') = {}
      <4> HIDE DEF other
      <4> QED BY <3>1, IdleGood
    <3> QED BY <1>1, <1>3, <3>2, <3>3, <3>4, <3>5
  <2>3. CASE ~(call.next > Len(call.spaces))
    <3> DEFINE d == [call EXCEPT !.stage = "space", !.left = call.left - PartSize]
    <3>1. /\ call' = d /\ acked' = acked /\ vfsInode' = vfsInode
      BY <1>1, <2>3 DEF Advance
    <3>2. PartSize = Least(rest, call.left) /\ call.next <= Len(call.spaces)
      BY <2>1, <2>3 DEF PartSize
    <3>3. CallGood(call', other) /\ Pending(call') = Pending(call)
      <4> HIDE DEF other, rest
      <4> QED BY <1>1, <1>3, <2>1, <3>1, <3>2, CallGoesOn
    <3> HIDE DEF d
    <3> QED BY <1>1, <1>3, <3>1, <3>3 DEF Struct, VarsTyped
  <2> QED BY <2>2, <2>3
<1>7. VarsTyped'
  BY <1>1, <1>5, <1>6 DEF Struct, VarsTyped
<1>8. LogStands'
  BY <1>1, <1>3, <1>4, <1>5 DEF LogStands
<1>9. CallFits'
  BY <1>6 DEF CallFits
<1>10. SpacesOwned'
  BY <1>1, <1>3, <1>5, <1>6 DEF SpacesOwned
<1> QED BY <1>7, <1>8, <1>9, <1>10 DEF Struct

\* AddNewSpace.
LEMMA AddNewSpaceStep == Struct /\ AddNewSpace => Struct'
<1> SUFFICES ASSUME Struct, AddNewSpace PROVE Struct'
  OBVIOUS
<1> DEFINE s == NextSpace
           rest == RestSizeOfCurrentArea(manager)
           L == SpacesIn(log)
           S == L \cup Pending(call)
<1>1. /\ UNCHANGED <<exists, nvm, vfsInode, acked, freeBlocks, spanned>>
      /\ call.stage = "space"
      /\ \/ /\ LogWrite(SpaceEntry(s)) /\ manager' = TakeSpace(manager, s)
            /\ call' = [call EXCEPT !.stage = "write", !.next = @ + 1]
            /\ unlogged' = unlogged /\ ops' = ops
         \/ /\ LogWriteFails /\ unlogged' = TRUE /\ ops' = MaxOps /\ call' = Idle
            /\ UNCHANGED <<log, logPages, freePages, manager>>
  BY DEF AddNewSpace
<1>2. /\ LogGood(log) /\ GoodManager(manager) /\ manager.tree.spaces = L
      /\ manager = FileInodeInfoRebuild(log) \/ (unlogged /\ LogWriteFails)
      /\ CallGood(call, rest) /\ exists /\ unlogged \in BOOLEAN
      /\ Owned(S, freePages, logPages, freeBlocks)
      /\ L \cap Pending(call) = {}
      /\ ~unlogged => NoneLost(S, freePages, logPages, freeBlocks)
  BY <1>1 DEF Struct, LogStands, CallFits, SpacesOwned, VarsTyped
<1>3. ops' \in 0 .. MaxOps /\ unlogged' \in BOOLEAN
  <2>1. MaxOps \in 0 .. MaxOps /\ ops \in 0 .. MaxOps
    BY FileAssumption DEF Struct, VarsTyped
  <2>2. ops' = ops \/ ops' = MaxOps
    BY <1>1
  <2>3. unlogged' \in BOOLEAN
    BY <1>1, <1>2, Zenon
  <2> QED BY <2>1, <2>2, <2>3
<1>4. VarsTyped'
  BY <1>1, <1>3 DEF Struct, VarsTyped
<1>5. CASE /\ LogWrite(SpaceEntry(s)) /\ manager' = TakeSpace(manager, s)
           /\ call' = [call EXCEPT !.stage = "write", !.next = @ + 1]
           /\ unlogged' = unlogged /\ ops' = ops
  <2>1. s = call.spaces[call.next]
    BY DEF NextSpace
  <2> HIDE DEF S, L, s, rest
  <2>2. /\ CallGood(call', s.size) /\ Pending(call) = Pending(call') \cup {s}
        /\ s \notin Pending(call') /\ call'.stage = "write"
    <3> DEFINE d == [call EXCEPT !.stage = "write", !.next = @ + 1]
    <3>1. call' = d /\ call.stage = "space" /\ CallGood(call, rest)
      BY <1>1, <1>2, <1>5
    <3>2. d = AddedSpace(call)
      BY DEF AddedSpace
    <3> HIDE DEF d
    <3>3. /\ CallGood(d, s.size) /\ Pending(call) = Pending(d) \cup {s}
          /\ s \notin Pending(d) /\ d.stage = "write"
      BY <2>1, <3>1, <3>2, CallAdds
    <3> QED BY <3>1, <3>3
  <2>3. /\ log' = Append(log, SpaceEntry(s)) /\ ~LogWriteFails
        /\ Owned(S, freePages', logPages', freeBlocks)
        /\ NoneLost(S, freePages, logPages, freeBlocks)
             => NoneLost(S, freePages', logPages', freeBlocks)
    BY <1>2, <1>5, LogWriteFacts
  <2>4. s \notin L /\ s \in S
    BY <1>2, <2>2 DEF S
  <2>5. SpacesApart(L \cup {s}) /\ s \in SpaceNodes
    <3>1. SpacesApart(S)
      BY <1>2, OwnedSpaces
    <3>2. L \cup {s} \subseteq S
      BY <2>4 DEF S
    <3> QED BY <2>4, <3>1, <3>2 DEF SpacesApart, IsSpace
  <2>6. manager = FileInodeInfoRebuild(log)
    BY <1>2, <2>3
  <2>7. /\ LogGood(log') /\ SpacesIn(log') = L \cup {s}
        /\ FileInodeInfoRebuild(log') = manager'
    BY <1>2, <1>5, <2>3, <2>4, <2>5, <2>6, LogAddsSpace DEF L
  <2>8. GoodManager(manager') /\ manager'.tree.spaces = L \cup {s}
    BY <1>2, <1>5, <2>4, <2>5, GoodTakeSpace, TakeSpaceIs DEF GoodManager
  <2>9. RestSizeOfCurrentArea(manager)' = s.size
    <3>1. manager \in Managers /\ s.start \in Int /\ s.size \in Int
      BY <1>2, <2>5 DEF GoodManager, SpaceNodes
    <3>2. /\ manager'.curArea = s.start /\ manager'.curWriteStart = s.start
          /\ manager'.curSize = s.size
      BY <1>5, <2>5, <3>1, TakeSpaceIs
    <3> QED BY <3>1, <3>2 DEF RestSizeOfCurrentArea
  <2>10. LogStands'
    BY <1>1, <1>2, <2>7, <2>8 DEF LogStands
  <2>11. CallFits'
    BY <1>1, <1>2, <2>2, <2>9 DEF CallFits
  <2>12. SpacesOwned'
    <3>1. SpacesIn(log') \cup Pending(call') = S /\ SpacesIn(log') \cap Pending(call') = {}
      BY <1>2, <2>2, <2>7 DEF S
    <3> QED BY <1>1, <1>2, <1>5, <2>3, <3>1 DEF SpacesOwned
  <2> QED BY <1>4, <2>10, <2>11, <2>12 DEF Struct
<1>6. CASE /\ LogWriteFails /\ unlogged' = TRUE /\ ops' = MaxOps /\ call' = Idle
           /\ UNCHANGED <<log, logPages, freePages, manager>>
  <2>1. LogWriteFails'
    BY <1>6 DEF LogWriteFails, LogHasRoom
  <2>2. LogStands'
    BY <1>1, <1>2, <1>6, <2>1 DEF LogStands
  <2>3. CallFits'
    BY <1>6, IdleGood DEF CallFits
  <2>4. SpacesOwned'
    <3>1. Owned(L, freePages, logPages, freeBlocks)
      BY <1>2, OwnedFewer
    <3>2. Pending(call') = {} /\ SpacesIn(log') = L
      BY <1>6, IdleGood
    <3>3. SpacesIn(log') \cup Pending(call') = L /\ SpacesIn(log') \cap Pending(call') = {}
      BY <3>2
    <3> QED BY <1>1, <1>6, <3>1, <3>3 DEF SpacesOwned
  <2> QED BY <1>4, <2>2, <2>3, <2>4 DEF Struct
<1> QED BY <1>1, <1>5, <1>6

\* What holds between calls.
LEMMA BetweenCalls ==
  ASSUME Struct, call.stage = "idle"
  PROVE  /\ call = Idle /\ Pending(call) = {}
         /\ SpacesIn(log) \cup Pending(call) = SpacesIn(log)
         /\ Owned(SpacesIn(log), freePages, logPages, freeBlocks)
         /\ ~unlogged => NoneLost(SpacesIn(log), freePages, logPages, freeBlocks)
<1>1. call = Idle /\ Pending(call) = {}
  BY IdleGood DEF Struct, CallFits, CallGood
<1>2. SpacesIn(log) \cup Pending(call) = SpacesIn(log)
  BY <1>1
<1> QED BY <1>1, <1>2 DEF Struct, SpacesOwned

\* NvmfsFileOpen with O_TRUNC.
LEMMA OpenStep == Struct /\ NvmfsFileOpen => Struct'
<1> SUFFICES ASSUME Struct, NvmfsFileOpen PROVE Struct'
  OBVIOUS
<1> DEFINE L == SpacesIn(log)
<1>1. /\ exists /\ call.stage = "idle" /\ LogWrite(TruncateEntry)
      /\ manager' = TruncateManager(manager) /\ ops' \in 0 .. MaxOps
      /\ vfsInode' = [vfsInode EXCEPT !.i_size = 0] /\ acked' = EmptyFile
      /\ UNCHANGED <<exists, nvm, freeBlocks, call, unlogged, spanned>>
  BY FileAssumption DEF NvmfsFileOpen, InodeTruncate, IsIdle, Step, Struct, VarsTyped
<1>2. /\ call = Idle /\ Pending(call) = {} /\ L \cup Pending(call) = L
      /\ Owned(L, freePages, logPages, freeBlocks)
      /\ ~unlogged => NoneLost(L, freePages, logPages, freeBlocks)
  BY <1>1, BetweenCalls
<1>3. /\ LogGood(log) /\ GoodManager(manager) /\ manager.tree.spaces = L
      /\ manager = FileInodeInfoRebuild(log) \/ (unlogged /\ LogWriteFails)
  BY DEF Struct, LogStands
<1>4. VarsTyped'
  <2>1. vfsInode' \in [i_size : Int, i_blocks : Int]
    <3> DEFINE zero == 0
    <3>1. vfsInode' = [vfsInode EXCEPT !.i_size = zero] /\ zero \in Int
      BY <1>1
    <3> HIDE DEF zero
    <3> QED BY <3>1 DEF Struct, VarsTyped
  <2> QED BY <1>1, <2>1, EmptyTyped DEF Struct, VarsTyped
<1>5. /\ log' = Append(log, TruncateEntry) /\ ~LogWriteFails
      /\ Owned(L, freePages', logPages', freeBlocks)
      /\ NoneLost(L, freePages, logPages, freeBlocks)
           => NoneLost(L, freePages', logPages', freeBlocks)
  <2> HIDE DEF L
  <2> QED BY <1>1, <1>2, LogWriteFacts
<1>6. manager = FileInodeInfoRebuild(log)
  BY <1>3, <1>5
<1>7. /\ LogGood(log') /\ SpacesIn(log') = L
      /\ FileInodeInfoRebuild(log') = manager'
  BY <1>1, <1>3, <1>5, <1>6, LogAddsTruncate
<1>8. GoodManager(manager') /\ manager'.tree.spaces = L
  BY <1>1, <1>3, GoodTruncate, TruncateIs DEF GoodManager
<1>9. LogStands'
  BY <1>1, <1>7, <1>8 DEF LogStands
<1>10. CallFits'
  BY <1>1, <1>2, IdleGood DEF CallFits
<1>11. SpacesOwned'
  BY <1>1, <1>2, <1>5, <1>7 DEF SpacesOwned
<1> QED BY <1>4, <1>9, <1>10, <1>11 DEF Struct

\* The file looked up again.
LEMMA ReloadStep == Struct /\ Reload => Struct'
<1> SUFFICES ASSUME Struct, Reload PROVE Struct'
  OBVIOUS
<1>1. /\ exists /\ call.stage = "idle" /\ manager' = FileInodeInfoRebuild(log)
      /\ vfsInode' = VfsInodeOf(manager', logPages) /\ ops' \in 0 .. MaxOps
      /\ UNCHANGED <<exists, nvm, log, logPages, freePages, freeBlocks, call, acked,
                     unlogged, spanned>>
  BY FileAssumption DEF Reload, IsIdle, Step, Struct, VarsTyped
<1>2. call = Idle
  BY <1>1, BetweenCalls
<1>3. GoodManager(manager') /\ manager'.tree.spaces = SpacesIn(log) /\ LogGood(log)
  BY <1>1 DEF Struct, LogStands, LogGood
<1>4. vfsInode' \in [i_size : Int, i_blocks : Int]
  <2>1. logPages \in SUBSET PagePool /\ manager' \in Managers
    BY <1>3 DEF GoodManager, Struct, SpacesOwned, Owned
  <2>2. VfsInodeOf(manager', logPages) \in [i_size : Int, i_blocks : Int]
    BY <2>1, PageNumTyped
  <2> QED BY <1>1, <2>2
<1>5. VarsTyped'
  BY <1>1, <1>4 DEF Struct, VarsTyped
<1>6. LogStands'
  BY <1>1, <1>3 DEF LogStands
<1>7. CallFits'
  BY <1>1, <1>2, IdleGood DEF CallFits
<1>8. SpacesOwned'
  BY <1>1 DEF Struct, SpacesOwned
<1> QED BY <1>5, <1>6, <1>7, <1>8 DEF Struct

\* What a file reads from its extents is what was stored.
LEMMA FileOfTyped ==
  ASSUME NEW S, NEW pages, NEW logged, NEW tree, Owned(S, pages, logged, tree),
         NEW m, GoodManager(m), m.tree.spaces = S,
         nvm \in [Words -> 0 .. MaxOps]
  PROVE  /\ FileOf(m) \in [words : [Offsets -> 0 .. MaxOps], len : 0 .. FileLen]
         /\ \A o \in Offsets : FileOf(m).words[o] = At(nvm, m.tree.extents, o)
         /\ FileOf(m).len = m.fileMaxLen
<1> DEFINE w == [o \in Offsets |-> WordAt(m.tree, o)]
<1>1. \A o \in Offsets : WordAt(m.tree, o) = At(nvm, m.tree.extents, o)
  BY DEF WordAt, At, FileWords
<1>2. ASSUME NEW o \in Offsets PROVE At(nvm, m.tree.extents, o) \in 0 .. MaxOps
  <2>1. Disjointed(m.tree.extents) /\ o \in Int
    BY DEF GoodManager, Offsets
  <2>2. CASE \E x \in m.tree.extents : o \in FileWords(x)
    <3>1. PICK x \in m.tree.extents : o \in FileWords(x)
      BY <2>2
    <3>2. At(nvm, m.tree.extents, o) = nvm[x.start + (o - x.fileStart)]
      BY <2>1, <3>1, AtFacts
    <3>3. PICK s \in m.tree.spaces : Inside(x, s)
      BY DEF GoodManager
    <3>4. x.start + (o - x.fileStart) \in SpaceWords(s)
      <4>1. x.start \in Int /\ x.size \in Int /\ x.fileStart \in Int
        BY <2>1 DEF Disjointed, IsExtent, ExtentNodes
      <4>2. s.start \in Int /\ s.size \in Int
        BY OwnedSpaces DEF SpacesApart, IsSpace, SpaceNodes
      <4> QED BY <2>1, <3>1, <3>3, <4>1, <4>2 DEF FileWords, FileEnd, SpaceWords, Inside
    <3>5. x.start + (o - x.fileStart) \in Words
      BY <3>4, OwnedSpaces
    <3> QED BY <3>2, <3>5
  <2>3. CASE ~ \E x \in m.tree.extents : o \in FileWords(x)
    <3>1. At(nvm, m.tree.extents, o) = Hole
      BY <2>1, <2>3, AtFacts
    <3> QED BY <3>1, FileAssumption DEF Hole
  <2> QED BY <2>2, <2>3
<1>3. w \in [Offsets -> 0 .. MaxOps]
  BY <1>1, <1>2
<1>4. m.fileMaxLen \in 0 .. FileLen
  BY DEF GoodManager
<1>5. FileOf(m) = [words |-> w, len |-> m.fileMaxLen]
  BY DEF FileOf
<1>6. \A o \in Offsets : w[o] = At(nvm, m.tree.extents, o)
  BY <1>1
<1> HIDE DEF w
<1> QED BY <1>3, <1>4, <1>5, <1>6

\* A crash: the pools and the manager as the log has them.
LEMMA CrashStep == Struct /\ Crash => Struct'
<1> SUFFICES ASSUME Struct, Crash PROVE Struct'
  OBVIOUS
<1> DEFINE L == SpacesIn(log)
           m == FileInodeInfoRebuild(log)
<1>1. /\ exists /\ manager' = m /\ vfsInode' = VfsInodeOf(m, logPages)
      /\ freePages' = RecoveredPages(log) /\ freeBlocks' = RunsOf(RecoveredBlocks(log))
      /\ call' = Idle /\ acked' = FileOf(m) /\ ops' \in 0 .. MaxOps
      /\ UNCHANGED <<exists, nvm, log, logPages, unlogged, spanned>>
  BY FileAssumption DEF Crash, Step, Struct, VarsTyped
<1>2. LogGood(log) /\ GoodManager(m) /\ m.tree.spaces = L
  BY DEF Struct, LogStands, LogGood
<1>3. Owned(L, freePages, logPages, freeBlocks)
  BY OwnedFewer DEF Struct, SpacesOwned
<1>4. /\ freePages' = (PagePool \ logPages) \ PagesOf(L)
      /\ freeBlocks' = RunsOf(Covered(BlockPool) \ BlocksOf(L))
  <2>1. RecoveredPages(log) = (PagePool \ logPages) \ PagesOf(L)
    BY DEF RecoveredPages, PagesOf, PageSpace
  <2>2. RecoveredBlocks(log) = Covered(BlockPool) \ BlocksOf(L)
    BY DEF RecoveredBlocks, BlocksOf
  <2> QED BY <1>1, <2>1, <2>2
<1>5. /\ Owned(L, freePages', logPages, freeBlocks')
      /\ NoneLost(L, freePages', logPages, freeBlocks')
  <2> HIDE DEF L, m
  <2> QED BY <1>3, <1>4, OwnedRecovered
<1>6. VarsTyped'
  <2>1. vfsInode' \in [i_size : Int, i_blocks : Int]
    <3>1. logPages \in SUBSET PagePool /\ m \in Managers
      BY <1>2, <1>3 DEF GoodManager, Owned
    <3>2. VfsInodeOf(m, logPages) \in [i_size : Int, i_blocks : Int]
      BY <3>1, PageNumTyped
    <3> QED BY <1>1, <3>2
  <2>2. acked' \in [words : [Offsets -> 0 .. MaxOps], len : 0 .. FileLen]
    <3>1. nvm \in [Words -> 0 .. MaxOps]
      BY DEF Struct, VarsTyped
    <3> HIDE DEF L, m
    <3>2. FileOf(m) \in [words : [Offsets -> 0 .. MaxOps], len : 0 .. FileLen]
      BY <1>2, <1>3, <3>1, FileOfTyped
    <3> QED BY <1>1, <3>2
  <2> QED BY <1>1, <2>1, <2>2 DEF Struct, VarsTyped
<1>7. LogStands'
  BY <1>1, <1>2 DEF LogStands
<1>8. CallFits'
  BY <1>1, IdleGood DEF CallFits
<1>9. SpacesOwned'
  <2>1. SpacesIn(log') = L /\ Pending(call') = {}
    BY <1>1, IdleGood
  <2>2. SpacesIn(log') \cup Pending(call') = L /\ SpacesIn(log') \cap Pending(call') = {}
    BY <2>1
  <2> QED BY <1>1, <1>5, <2>2 DEF SpacesOwned
<1> QED BY <1>6, <1>7, <1>8, <1>9 DEF Struct

\* The invariant holds at first.
LEMMA StructInit == Init => Struct
<1> SUFFICES ASSUME Init PROVE Struct
  OBVIOUS
<1>1. /\ exists = FALSE /\ nvm = [w \in Words |-> Hole] /\ log = << >> /\ logPages = {}
      /\ manager = FileDataManagerInit /\ vfsInode = VfsInodeOf(FileDataManagerInit, {})
      /\ freePages = PagePool /\ freeBlocks = BlockPool /\ call = Idle
      /\ acked = EmptyFile /\ unlogged = FALSE /\ spanned = FALSE /\ ops = 0
  BY DEF Init
<1>2. VarsTyped
  <2>1. 0 \in 0 .. MaxOps
    BY FileAssumption
  <2>2. vfsInode \in [i_size : Int, i_blocks : Int]
    <3>1. VfsInodeOf(FileDataManagerInit, {}) \in [i_size : Int, i_blocks : Int]
      BY InitManager, PageNumTyped
    <3> QED BY <1>1, <3>1
  <2> QED BY <1>1, <2>1, <2>2, EmptyTyped DEF VarsTyped, Hole
<1>3. LogStands
  BY <1>1, LogEmpty, GoodInit, InitManager DEF LogStands
<1>4. CallFits
  BY <1>1, IdleGood DEF CallFits
<1>5. SpacesOwned
  <2>1. SpacesIn(log) \cup Pending(call) = {} /\ SpacesIn(log) \cap Pending(call) = {}
    BY <1>1, LogEmpty, IdleGood
  <2> QED BY <1>1, <2>1, OwnedInit DEF SpacesOwned
<1> QED BY <1>2, <1>3, <1>4, <1>5 DEF Struct

\* Every step keeps it.
LEMMA StructStep == Struct /\ [Next]_vars => Struct'
<1> SUFFICES ASSUME Struct, [Next]_vars PROVE Struct'
  OBVIOUS
<1>1. CASE FileInodeInfoFormat
  BY <1>1, FormatStep
<1>2. CASE FileInodeInfoDestroy
  BY <1>2, DestroyStep
<1>3. ASSUME NEW s \in Starts, NEW n \in Sizes, FileInodeInfoWriteData(s, n) PROVE Struct'
  BY <1>3, WriteDataBegins
<1>4. CASE WriteData
  BY <1>4, WriteDataStep
<1>5. CASE WriteDataLogged
  BY <1>5, WriteDataLoggedStep
<1>6. CASE AddNewSpace
  BY <1>6, AddNewSpaceStep
<1>7. CASE NvmfsFileOpen
  BY <1>7, OpenStep
<1>8. CASE Reload
  BY <1>8, ReloadStep
<1>9. CASE Crash
  BY <1>9, CrashStep
<1>10. CASE UNCHANGED vars
  <2>1. /\ exists' = exists /\ nvm' = nvm /\ log' = log /\ logPages' = logPages
        /\ manager' = manager /\ vfsInode' = vfsInode /\ freePages' = freePages
        /\ freeBlocks' = freeBlocks /\ call' = call /\ acked' = acked
        /\ unlogged' = unlogged /\ spanned' = spanned /\ ops' = ops
    BY <1>10 DEF vars
  <2>2. VarsTyped'
    BY <2>1 DEF Struct, VarsTyped
  <2>3. LogStands'
    BY <2>1 DEF Struct, LogStands, LogWriteFails, LogHasRoom
  <2>4. CallFits'
    BY <2>1 DEF Struct, CallFits, RestSizeOfCurrentArea
  <2>5. SpacesOwned'
    BY <2>1 DEF Struct, SpacesOwned
  <2> QED BY <2>2, <2>3, <2>4, <2>5 DEF Struct
<1> QED BY <1>1, <1>2, <1>3, <1>4, <1>5, <1>6, <1>7, <1>8, <1>9, <1>10 DEF Next

\* The inductive invariant holds in every behaviour.
THEOREM Structure == Spec => []Struct
<1> QED BY StructInit, StructStep, PTL DEF Spec

-----------------------------------------------------------------------------
\* What follows from it.

\* Between calls the manager in memory is the one that its log would rebuild
\* (FileDataManager.c, FileInodeInfoRebuild), as long as no append failed.
THEOREM ManagerRebuilt == Spec => []RebuildSame
<1>1. Struct => RebuildSame
  BY DEF Struct, LogStands, RebuildSame, FileDataManagerIsSame, FileExtentTreeIsSame
<1> QED BY <1>1, Structure, PTL

\* No word of the NVM has two owners and none is lost, through every write,
\* truncation, deletion and crash (FileInodeInfo.c and the two pools).
LEMMA StructPartitioned == Struct => SpacePartitioned
<1> SUFFICES ASSUME Struct PROVE SpacePartitioned
  OBVIOUS
<1> DEFINE S == SpacesIn(log)
           P == Pending(call)
<1>1. Holdings = Held(S, P, freePages, logPages, freeBlocks)
  BY DEF Struct, LogStands, Holdings, Held, PendingSpaces, Pending
<1>2. /\ Owned(S \cup P, freePages, logPages, freeBlocks) /\ S \cap P = {}
      /\ ~unlogged => NoneLost(S \cup P, freePages, logPages, freeBlocks)
  BY DEF Struct, SpacesOwned
<1> HIDE DEF S, P
<1>3. \A g, h \in Holdings : g # h => g.words \cap h.words = {}
  BY <1>1, <1>2, HeldApart
<1>4. ~unlogged => UNION {h.words : h \in Holdings} = Words
  BY <1>1, <1>2, AllHeld
<1> QED BY <1>3, <1>4 DEF SpacePartitioned

\* No word is lost and none has two owners, after any sequence of writes,
\* truncations, deletions and crashes (FileInodeInfo.c and the two pools).
THEOREM WordsPartitioned == Spec => []SpacePartitioned
<1> QED BY StructPartitioned, Structure, PTL

\* The extents of the file lie apart inside its spaces and its counts cover
\* them (FileExtentTree.c, FileDataManager.c).
LEMMA StructFileInv == Struct => FileInv
<1> SUFFICES ASSUME Struct PROVE FileInv
  OBVIOUS
<1>1. /\ GoodManager(manager) /\ VarsTyped
      /\ CallGood(call, RestSizeOfCurrentArea(manager))
      /\ Owned(SpacesIn(log) \cup Pending(call), freePages, logPages, freeBlocks)
  BY DEF Struct, LogStands, CallFits, SpacesOwned
<1>2. /\ manager \in Managers /\ SpacesApart(manager.tree.spaces)
      /\ Disjointed(manager.tree.extents)
      /\ manager.tree.effectiveSize >= Cardinality(Mapped(manager.tree.extents))
      /\ \A x \in manager.tree.extents : \E s \in manager.tree.spaces : Inside(x, s)
      /\ NoArea(manager) \/ InArea(manager)
  BY <1>1 DEF GoodManager
<1>3. TypeOK
  <2>1. manager.tree.effectiveSize \in Int /\ manager.curSize \in Int
    BY <1>2, ManagerTypes
  <2>2. manager.curSize \in Nat
    <3>1. CASE NoArea(manager)
      BY <3>1 DEF NoArea
    <3>2. CASE InArea(manager)
      <4>1. IsSpace(Space(manager.curArea, manager.curSize))
        BY <1>2, <3>2 DEF InArea, SpacesApart
      <4> QED BY <2>1, <4>1 DEF IsSpace, Space
    <3> QED BY <1>2, <3>1, <3>2
  <2>3. /\ call.stage \in {"idle", "write", "log", "space"} /\ call.value \in 0 .. MaxOps
        /\ call.left \in Int /\ call.size \in Int
    BY <1>1 DEF CallGood, Calls
  <2>4. call.left \in 0 .. call.size
    <3>1. CASE call.stage = "idle"
      BY <1>1, <3>1, IdleGood DEF CallGood
    <3>2. CASE call.stage # "idle"
      BY <1>1, <2>3, <3>2 DEF CallGood, Underway
    <3> QED BY <3>1, <3>2
  <2>5. /\ spanned \in BOOLEAN /\ exists \in BOOLEAN /\ unlogged \in BOOLEAN
        /\ ops \in 0 .. MaxOps /\ nvm \in [Words -> 0 .. MaxOps]
        /\ acked.words \in [Offsets -> 0 .. MaxOps] /\ acked.len \in 0 .. FileLen
    BY <1>1 DEF VarsTyped
  <2>6. /\ logPages \subseteq PagePool /\ freePages \subseteq PagePool
        /\ Canonical(freeBlocks) /\ Covered(freeBlocks) \subseteq Covered(BlockPool)
    BY <1>1 DEF Owned
  <2> QED BY <2>1, <2>2, <2>3, <2>4, <2>5, <2>6 DEF TypeOK
<1>4. ExtentsApart
  <2>1. ASSUME NEW x \in manager.tree.extents
        PROVE  \E s \in manager.tree.spaces :
                 x.start .. x.start + x.size - 1 \subseteq SpaceWords(s)
    <3>1. PICK s \in manager.tree.spaces : Inside(x, s)
      BY <1>2
    <3>2. x.start \in Int /\ x.size \in Int /\ s.start \in Int /\ s.size \in Int
      BY <1>2 DEF Disjointed, IsExtent, ExtentNodes, SpacesApart, IsSpace, SpaceNodes
    <3>3. x.start .. x.start + x.size - 1 \subseteq SpaceWords(s)
      BY <3>1, <3>2 DEF Inside, SpaceWords
    <3> QED BY <3>3
  <2>2. ASSUME NEW x \in manager.tree.extents, NEW y \in manager.tree.extents, x # y
        PROVE  /\ ~Overlaps(x, y.fileStart, FileEnd(y))
               /\ x.start + x.size <= y.start \/ y.start + y.size <= x.start
    <3>1. FileApart(x, y) /\ NvmApart(x, y) /\ IsExtent(x) /\ IsExtent(y)
      BY <1>2, <2>2 DEF Disjointed
    <3>2. /\ x.fileStart \in Int /\ y.fileStart \in Int /\ FileEnd(x) \in Int
          /\ FileEnd(y) \in Int
      BY <3>1 DEF IsExtent, ExtentNodes, FileEnd
    <3>3. ~Overlaps(x, y.fileStart, FileEnd(y))
      BY <3>1, <3>2 DEF FileApart, Overlaps
    <3> QED BY <3>1, <3>3 DEF NvmApart
  <2> QED BY <2>1, <2>2 DEF ExtentsApart
<1>5. EffectiveNeverShort
  BY <1>2 DEF EffectiveNeverShort
<1> QED BY <1>3, <1>4, <1>5 DEF FileInv

\* The extents of a file lie apart inside its spaces and its counts cover them in
\* every state (FileExtentTree.c, FileDataManager.c).
THEOREM FileSound == Spec => []FileInv
<1> QED BY StructFileInv, Structure, PTL

-----------------------------------------------------------------------------
\* What the file holds: what the calls left, with the part of the call underway
\* that has reached the extent tree.

FileIn(mem, m) ==
  [words |-> [o \in Offsets |-> At(mem, m.tree.extents, o)], len |-> m.fileMaxLen]

Files == [words : [Offsets -> 0 .. MaxOps], len : 0 .. FileLen]

FileMatches ==
  exists /\ ~unlogged =>
    FileIn(nvm, manager) = Overlay(acked, call, call.size - call.left)

\* Between its two steps WriteDataToArea has its data stored.
StoredAhead ==
  call.stage = "log" =>
    \A w \in manager.curWriteStart .. manager.curWriteStart + PartSize - 1 :
      nvm[w] = call.value

StatTold ==
  exists /\ call.stage = "idle" /\ ~unlogged =>
    /\ vfsInode.i_size = manager.fileMaxLen
    /\ vfsInode.i_blocks <= InodeInfoGetPageNum(manager, logPages)

Content == FileMatches /\ StoredAhead /\ StatTold

\* The file in the current NVM.
LEMMA FileOfIs ==
  ASSUME NEW m
  PROVE  FileOf(m) = FileIn(nvm, m)
<1>1. \A o \in Offsets : WordAt(m.tree, o) = At(nvm, m.tree.extents, o)
  BY DEF WordAt, At, FileWords
<1> QED BY <1>1 DEF FileOf, FileIn

\* Nothing of a call over a file is the file.
LEMMA OverlayNone ==
  ASSUME NEW file \in Files, NEW c, c.start \in Int
  PROVE  Overlay(file, c, 0) = file
<1>1. c.start .. c.start + 0 - 1 = {}
  OBVIOUS
<1>2. file = [words |-> file.words, len |-> file.len]
      /\ file.words = [o \in Offsets |-> file.words[o]]
  BY DEF Files
<1>3. Overlay(file, c, 0) = [words |-> [o \in Offsets |-> file.words[o]], len |-> file.len]
  BY <1>1 DEF Overlay
<1> QED BY <1>2, <1>3

\* Two calls that write the same at the same place.
LEMMA OverlaySame ==
  ASSUME NEW file, NEW c, NEW d, c.start = d.start, c.value = d.value, NEW k
  PROVE  Overlay(file, c, k) = Overlay(file, d, k)
BY DEF Overlay

\* The words of an extent hold a value.
StoredAt(mem, x, v) == \A w \in x.start .. x.start + x.size - 1 : mem[w] = v

\* A part more of a call: the extent x, when k words came before it and j are
\* there with it.
NextPart(m, c, k, x, j) ==
  /\ c.start \in Int /\ 0 <= c.start /\ k \in Nat
  /\ Fits(m, x) /\ x.fileStart = c.start + k /\ j = k + x.size

\* With that part in the tree the file has that much more of the call.
LEMMA OverlayMore ==
  ASSUME NEW file \in Files, NEW mem, NEW m, GoodManager(m), NEW c, NEW k, NEW j,
         FileIn(mem, m) = Overlay(file, c, k),
         NEW x, NextPart(m, c, k, x, j), StoredAt(mem, x, c.value)
  PROVE  FileIn(mem, TakeExtent(m, x)) = Overlay(file, c, j)
<1> DEFINE r == TakeExtent(m, x)
           E == m.tree.extents
           F == r.tree.extents
           p == x.size
<1>0. /\ c.start \in Int /\ 0 <= c.start /\ k \in Nat /\ p \in Nat \ {0}
      /\ Fits(m, x) /\ x.fileStart = c.start + k /\ x.size = p /\ j = k + p
      /\ \A w \in x.start .. x.start + p - 1 : mem[w] = c.value
  BY DEF NextPart, StoredAt, Fits, IsExtent, ExtentNodes
<1>1. /\ GoodManager(r) /\ x \in F
      /\ \A z \in E : \A o \in FileWords(z) \ FileWords(x) :
           \E y \in F : o \in FileWords(y) /\ PartOf(y, z)
      /\ \A y \in F : y = x \/ \E z \in E : PartOf(y, z)
  BY <1>0, GoodTakeExtent
<1> HIDE DEF p
<1>2. x \in ExtentNodes /\ x.start \in Int /\ IsExtent(x)
  BY <1>0 DEF Fits, IsExtent, ExtentNodes
<1>3. r.fileMaxLen = Most(m.fileMaxLen, FileEnd(x)) /\ FileEnd(x) = c.start + (k + p)
      /\ m.fileMaxLen \in Int
  <2>1. m \in Managers
    BY DEF GoodManager
  <2>2. FileEnd(x) = c.start + (k + p)
    BY <1>0, <1>2 DEF FileEnd
  <2> QED BY <1>2, <2>1, <2>2, TakeExtentIs, ManagerTypes
<1>4. /\ m.fileMaxLen = IF k = 0 THEN file.len ELSE Most(file.len, c.start + k)
      /\ \A o \in Offsets : At(mem, E, o) =
           IF o \in c.start .. c.start + k - 1 THEN c.value ELSE file.words[o]
  <2>1. FileIn(mem, m).len = Overlay(file, c, k).len
        /\ FileIn(mem, m).words = Overlay(file, c, k).words
    OBVIOUS
  <2>2. \A o \in Offsets : FileIn(mem, m).words[o] = At(mem, E, o)
    BY DEF FileIn
  <2>3. \A o \in Offsets : Overlay(file, c, k).words[o] =
           IF o \in c.start .. c.start + k - 1 THEN c.value ELSE file.words[o]
    BY DEF Overlay
  <2>4. FileIn(mem, m).len = m.fileMaxLen
    BY DEF FileIn
  <2>5. Overlay(file, c, k).len = IF k = 0 THEN file.len ELSE Most(file.len, c.start + k)
    BY DEF Overlay
  <2> QED BY <2>1, <2>2, <2>3, <2>4, <2>5
<1>5. Disjointed(E) /\ Disjointed(F)
  BY <1>1 DEF GoodManager
<1>6. \A o : o \in FileWords(x) <=> o \in c.start + k .. c.start + (k + p) - 1
  BY <1>0, <1>2, <1>3 DEF FileWords
<1> HIDE DEF r, E, F
<1>7. ASSUME NEW o \in Offsets
      PROVE  At(mem, F, o) = IF o \in FileWords(x) THEN c.value ELSE At(mem, E, o)
  <2>1. o \in Int
    BY DEF Offsets
  <2>2. CASE o \in FileWords(x)
    <3>1. At(mem, F, o) = mem[x.start + (o - x.fileStart)]
      BY <1>1, <1>5, <2>1, <2>2, AtFacts
    <3>2. x.start + (o - x.fileStart) \in x.start .. x.start + p - 1
      BY <1>0, <1>2, <1>3, <2>1, <2>2 DEF FileWords
    <3> QED BY <1>0, <2>2, <3>1, <3>2
  <2>3. CASE o \notin FileWords(x) /\ \E z \in E : o \in FileWords(z)
    <3>1. PICK z \in E : o \in FileWords(z)
      BY <2>3
    <3>2. PICK y \in F : o \in FileWords(y) /\ PartOf(y, z)
      BY <1>1, <2>3, <3>1
    <3>3. At(mem, F, o) = mem[y.start + (o - y.fileStart)]
          /\ At(mem, E, o) = mem[z.start + (o - z.fileStart)]
      BY <1>5, <2>1, <3>1, <3>2, AtFacts
    <3>4. y.start + (o - y.fileStart) = z.start + (o - z.fileStart)
      <4>1. /\ y.start \in Int /\ y.fileStart \in Int /\ z.start \in Int
            /\ z.fileStart \in Int
        BY <1>5, <3>1, <3>2 DEF Disjointed, IsExtent, ExtentNodes
      <4>2. y.start - y.fileStart = z.start - z.fileStart
        BY <3>2 DEF PartOf
      <4> DEFINE a == y.start
                 b == y.fileStart
                 d == z.start
                 e == z.fileStart
      <4>3. a \in Int /\ b \in Int /\ d \in Int /\ e \in Int /\ a - b = d - e
        BY <4>1, <4>2
      <4> HIDE DEF a, b, d, e
      <4>4. a + (o - b) = d + (o - e)
        BY <2>1, <4>3
      <4> QED BY <4>4 DEF a, b, d, e
    <3> QED BY <2>3, <3>3, <3>4
  <2>4. CASE o \notin FileWords(x) /\ ~ \E z \in E : o \in FileWords(z)
    <3>1. \A y \in F : o \notin FileWords(y)
      <4> SUFFICES ASSUME NEW y \in F, o \in FileWords(y) PROVE FALSE
        OBVIOUS
      <4>1. PICK z \in E : PartOf(y, z)
        BY <1>1, <2>4
      <4>2. /\ y.fileStart \in Int /\ y.size \in Int /\ z.fileStart \in Int
            /\ z.size \in Int
        BY <1>5, <4>1 DEF Disjointed, IsExtent, ExtentNodes
      <4>3. o \in FileWords(z)
        BY <2>1, <4>1, <4>2 DEF PartOf, FileWords, FileEnd
      <4> QED BY <2>4, <4>3
    <3>2. At(mem, F, o) = Hole /\ At(mem, E, o) = Hole
      BY <1>5, <2>1, <2>4, <3>1, AtFacts
    <3> QED BY <2>4, <3>2
  <2> QED BY <2>2, <2>3, <2>4
<1>8. ASSUME NEW o \in Offsets
      PROVE  At(mem, F, o) =
               IF o \in c.start .. c.start + (k + p) - 1 THEN c.value ELSE file.words[o]
  <2>1. o \in Int
    BY DEF Offsets
  <2>2. o \in c.start .. c.start + (k + p) - 1
          <=> o \in c.start .. c.start + k - 1 \/ o \in c.start + k .. c.start + (k + p) - 1
    BY <1>0, <2>1
  <2> QED BY <1>4, <1>6, <1>7, <2>2
<1>9. r.fileMaxLen = IF k + p = 0 THEN file.len ELSE Most(file.len, c.start + (k + p))
  <2>1. file.len \in Int
    BY FileAssumption DEF Files
  <2> QED BY <1>0, <1>3, <1>4, <2>1 DEF Most
<1>10. [o \in Offsets |-> At(mem, F, o)] =
         [o \in Offsets |-> IF o \in c.start .. c.start + (k + p) - 1
                            THEN c.value ELSE file.words[o]]
  BY <1>8
<1>11. FileIn(mem, r) = Overlay(file, c, k + p)
  BY <1>9, <1>10 DEF FileIn, Overlay, F
<1> QED BY <1>0, <1>11 DEF r

\* The data of WriteDataToArea goes where no extent of the file is.
LEMMA StoreKeeps ==
  ASSUME NEW m, GoodManager(m), NEW x, Fits(m, x),
         \A s \in m.tree.spaces : SpaceWords(s) \subseteq Words,
         NEW mem, NEW v, NEW new, new = NVMAccesserWrite(mem, x.start, x.size, v)
  PROVE  /\ FileIn(new, m) = FileIn(mem, m)
         /\ StoredAt(new, x, v)
<1> DEFINE E == m.tree.extents
<1>1. /\ Disjointed(E) /\ \A y \in E : NvmApart(x, y)
      /\ \A y \in E : \E s \in m.tree.spaces : Inside(y, s)
      /\ \A s \in m.tree.spaces : s.start \in Int /\ s.size \in Int
      /\ x.start \in Int /\ x.size \in Int
  BY FitsApart DEF GoodManager, SpacesApart, IsSpace, SpaceNodes, Fits, IsExtent, ExtentNodes
<1>2. \A w \in Words : new[w] = IF w \in x.start .. x.start + x.size - 1 THEN v ELSE mem[w]
  BY DEF NVMAccesserWrite
<1>3. ASSUME NEW o \in Offsets PROVE At(new, E, o) = At(mem, E, o)
  <2>1. o \in Int
    BY DEF Offsets
  <2>2. CASE \E y \in E : o \in FileWords(y)
    <3>1. PICK y \in E : o \in FileWords(y)
      BY <2>2
    <3> DEFINE w == y.start + (o - y.fileStart)
    <3>2. y.start \in Int /\ y.size \in Int /\ y.fileStart \in Int
      BY <1>1 DEF Disjointed, IsExtent, ExtentNodes
    <3>3. w \in Int /\ y.start <= w /\ w < y.start + y.size
      BY <2>1, <3>1, <3>2 DEF FileWords, FileEnd
    <3>4. At(new, E, o) = new[w] /\ At(mem, E, o) = mem[w]
      BY <1>1, <2>1, <3>1, AtFacts
    <3> HIDE DEF w
    <3>5. w \in Words
      <4>1. PICK s \in m.tree.spaces : Inside(y, s)
        BY <1>1
      <4>2. s.start \in Int /\ s.size \in Int
        BY <1>1
      <4>3. w \in SpaceWords(s)
        BY <3>2, <3>3, <4>1, <4>2 DEF Inside, SpaceWords
      <4> QED BY <4>3
    <3>6. w \notin x.start .. x.start + x.size - 1
      BY <1>1, <3>2, <3>3 DEF NvmApart
    <3> QED BY <1>2, <3>4, <3>5, <3>6
  <2>3. CASE ~ \E y \in E : o \in FileWords(y)
    BY <1>1, <2>1, <2>3, AtFacts
  <2> QED BY <2>2, <2>3
<1>4. FileIn(new, m) = FileIn(mem, m)
  BY <1>3 DEF FileIn
<1>5. ASSUME NEW w \in x.start .. x.start + x.size - 1 PROVE new[w] = v
  <2> DEFINE s == Space(m.curArea, m.curSize)
  <2>1. s \in m.tree.spaces /\ Inside(x, s)
    BY FitsApart DEF InArea
  <2> HIDE DEF s
  <2>2. w \in SpaceWords(s)
    BY <1>1, <2>1 DEF Inside, SpaceWords
  <2>3. w \in Words
    BY <2>1, <2>2
  <2> QED BY <1>2, <2>3
<1> QED BY <1>4, <1>5 DEF StoredAt

\* A file without extents.
LEMMA FileEmpty ==
  ASSUME NEW mem, NEW m, m.tree.extents = {}, m.fileMaxLen = 0
  PROVE  FileIn(mem, m) = EmptyFile
<1>1. \A o \in Offsets : At(mem, m.tree.extents, o) = Hole
  BY DEF At
<1> QED BY <1>1 DEF FileIn, EmptyFile

\* Idle adds nothing to a file.
LEMMA OverlayIdle ==
  ASSUME NEW file \in Files
  PROVE  Overlay(file, Idle, Idle.size - Idle.left) = file
<1>1. Idle.start = 0 /\ Idle.size = 0 /\ Idle.left = 0
  BY IdleGood
<1>2. Idle.size - Idle.left = 0 /\ Idle.start \in Int
  BY <1>1
<1> QED BY <1>2, OverlayNone

\* The steps that leave the manager, what it holds and the call's place as they
\* are.
LEMMA ContentKept ==
  ASSUME Struct, Content, exists' => exists, ~unlogged' => ~unlogged,
         FileIn(nvm', manager') = FileIn(nvm, manager), acked' = acked,
         call'.start = call.start, call'.value = call.value,
         call'.size - call'.left = call.size - call.left
  PROVE  FileMatches'
<1> DEFINE k == call.size - call.left
           j == call'.size - call'.left
<1>1. Overlay(acked', call', j) = Overlay(acked, call, k)
  <2>1. j = k
    OBVIOUS
  <2> HIDE DEF j, k
  <2> QED BY <2>1, OverlaySame
<1>2. exists /\ ~unlogged => FileIn(nvm, manager) = Overlay(acked, call, k)
  BY DEF Content, FileMatches
<1> QED BY <1>1, <1>2 DEF FileMatches

\* FileInodeInfoFormat: a new file is empty.
LEMMA FormatContent == Struct /\ Content /\ FileInodeInfoFormat => Content'
<1> SUFFICES ASSUME Struct, Content, FileInodeInfoFormat PROVE Content'
  OBVIOUS
<1>1. /\ exists' = TRUE /\ manager' = FileDataManagerInit /\ acked' = EmptyFile
      /\ vfsInode' = [i_size |-> 0, i_blocks |-> InodeInfoGetPageNum(manager', logPages')]
      /\ call' = Idle
  BY DEF FileInodeInfoFormat, Struct, LogStands
<1>2. EmptyFile \in Files
  BY EmptyTyped DEF Files
<1>3. FileMatches'
  <2>1. FileIn(nvm', manager') = EmptyFile
    BY <1>1, InitManager, FileEmpty
  <2> QED BY <1>1, <1>2, <2>1, OverlayIdle DEF FileMatches
<1>4. StoredAhead'
  BY <1>1, IdleGood DEF StoredAhead
<1>5. StatTold'
  <2>1. /\ vfsInode'.i_size = 0
        /\ vfsInode'.i_blocks = InodeInfoGetPageNum(manager', logPages')
    BY <1>1
  <2>2. freePages \in SUBSET PagePool
    BY DEF Struct, SpacesOwned, Owned
  <2>3. logPages' \in SUBSET PagePool /\ manager' \in Managers
    BY <1>1, <2>2, InitManager DEF FileInodeInfoFormat
  <2>4. InodeInfoGetPageNum(manager', logPages') \in Int
    BY <2>3, PageNumTyped
  <2>5. manager'.fileMaxLen = 0
    BY <1>1, InitManager
  <2> QED BY <2>1, <2>4, <2>5 DEF StatTold
<1> QED BY <1>3, <1>4, <1>5 DEF Content

\* FileInodeInfoDestroy: there is no file.
LEMMA DestroyContent == Struct /\ Content /\ FileInodeInfoDestroy => Content'
<1> SUFFICES ASSUME Struct, Content, FileInodeInfoDestroy PROVE Content'
  OBVIOUS
<1>1. exists' = FALSE /\ call' = call /\ call.stage = "idle"
  BY DEF FileInodeInfoDestroy, IsIdle
<1> QED BY <1>1 DEF Content, FileMatches, StoredAhead, StatTold

\* FileInodeInfoWriteData: nothing of the call is there yet.
LEMMA BeginContent ==
  ASSUME Struct, Content, NEW start \in Starts, NEW n \in Sizes,
         FileInodeInfoWriteData(start, n)
  PROVE  Content'
<1>1. /\ exists /\ call.stage = "idle"
      /\ UNCHANGED <<exists, nvm, log, logPages, manager, vfsInode, acked, unlogged,
                     spanned>>
      /\ \E spaces : Begin(spaces, start, n)
  BY DEF FileInodeInfoWriteData, WriteDataWithoutNewSpace, WriteDataSmall, WriteDataLarge,
         IsIdle
<1>2. /\ call'.stage \in {"write", "space"} /\ call'.start = start
      /\ call'.size = n /\ call'.left = n
  BY <1>1 DEF Begin
<1>3. call = Idle
  BY <1>1, BetweenCalls
<1>4. acked \in Files
  BY DEF Struct, VarsTyped, Files
<1>5. FileMatches'
  <2>1. n \in Nat /\ start \in Nat
    BY FileAssumption
  <2>2. call'.size - call'.left = 0 /\ call'.start \in Int
    BY <1>2, <2>1
  <2>3. Overlay(acked, call', call'.size - call'.left) = acked
    BY <1>4, <2>2, OverlayNone
  <2>4. Overlay(acked, call, call.size - call.left) = acked
    BY <1>3, <1>4, OverlayIdle
  <2> QED BY <1>1, <2>3, <2>4 DEF Content, FileMatches
<1>6. StoredAhead' /\ StatTold'
  BY <1>2 DEF StoredAhead, StatTold
<1> QED BY <1>5, <1>6 DEF Content

\* The store of WriteDataToArea changes no word of the file.
LEMMA WriteDataContent == Struct /\ Content /\ WriteData => Content'
<1> SUFFICES ASSUME Struct, Content, WriteData PROVE Content'
  OBVIOUS
<1>1. /\ UNCHANGED <<exists, log, logPages, manager, vfsInode, freePages, freeBlocks,
                     acked, unlogged, ops>>
      /\ call.stage = "write" /\ call' = [call EXCEPT !.stage = "log"]
      /\ nvm' = NVMAccesserWrite(nvm, manager.curWriteStart, PartSize, call.value)
  BY DEF WriteData
<1>2. /\ call'.stage = "log" /\ call'.size = call.size /\ call'.left = call.left
      /\ call'.start = call.start /\ call'.value = call.value
  <2>1. CallGood(call, RestSizeOfCurrentArea(manager))
    BY DEF Struct, CallFits
  <2> QED BY <1>1, <2>1, CallStores
<1>3. PartSize' = PartSize
  BY <1>1, <1>2 DEF PartSize, RestSizeOfCurrentArea
<1>4. /\ Fits(manager, PartExtent) /\ PartExtent.start = manager.curWriteStart
      /\ PartExtent.size = PartSize
  BY <1>1, PartFits
<1>5. /\ GoodManager(manager)
      /\ \A s \in manager.tree.spaces : SpaceWords(s) \subseteq Words
  BY OwnedSpaces DEF Struct, LogStands, SpacesOwned
<1>6. /\ FileIn(nvm', manager) = FileIn(nvm, manager)
      /\ \A w \in manager.curWriteStart .. manager.curWriteStart + PartSize - 1 :
           nvm'[w] = call.value
  <2>1. nvm' = NVMAccesserWrite(nvm, PartExtent.start, PartExtent.size, call.value)
    BY <1>1, <1>4
  <2>2. /\ FileIn(nvm', manager) = FileIn(nvm, manager)
        /\ \A w \in PartExtent.start .. PartExtent.start + PartExtent.size - 1 :
             nvm'[w] = call.value
    <3> DEFINE x == PartExtent
               m == manager
               v == call.value
               new == nvm'
               mem == nvm
    <3>1. /\ Fits(m, x) /\ GoodManager(m) /\ new = NVMAccesserWrite(mem, x.start, x.size, v)
          /\ \A s \in m.tree.spaces : SpaceWords(s) \subseteq Words
      BY <1>4, <1>5, <2>1
    <3> HIDE DEF x, m, v, new, mem
    <3>2. FileIn(new, m) = FileIn(mem, m) /\ StoredAt(new, x, v)
      BY <3>1, StoreKeeps
    <3> QED BY <3>2 DEF x, m, v, new, mem, StoredAt
  <2> QED BY <1>4, <2>2
<1>7. FileMatches'
  <2>1. FileIn(nvm', manager') = FileIn(nvm, manager)
    BY <1>1, <1>6
  <2> QED BY <1>1, <1>2, <2>1, ContentKept
<1>8. StoredAhead'
  BY <1>1, <1>2, <1>3, <1>6 DEF StoredAhead
<1>9. StatTold'
  BY <1>2 DEF StatTold
<1> QED BY <1>7, <1>8, <1>9 DEF Content

\* The second half of WriteDataToArea adds what was stored.
LEMMA WriteDataLoggedContent == Struct /\ Content /\ WriteDataLogged => Content'
<1> SUFFICES ASSUME Struct, Content, WriteDataLogged PROVE Content'
  OBVIOUS
<1> DEFINE x == PartExtent
           k == call.size - call.left
           j == k + x.size
<1>1. /\ UNCHANGED <<exists, nvm, freeBlocks, spanned, ops>> /\ call.stage = "log"
      /\ manager' = TakeExtent(manager, x) /\ Advance
      /\ unlogged' = unlogged \/ unlogged' = TRUE
  BY DEF WriteDataLogged
<1>2. /\ Fits(manager, x) /\ x.start = manager.curWriteStart /\ x.size = PartSize
      /\ x.fileStart = PartStart
      /\ PartSize \in Int /\ 0 < PartSize /\ PartSize <= call.left
      /\ PartStart = call.start + k /\ 0 <= call.start
      /\ call.left <= call.size /\ call.start + call.size <= FileLen
      /\ call.left \in Int /\ call.size \in Int /\ call.start \in Int
      /\ call.next > Len(call.spaces) => PartSize = call.left
  BY <1>1, PartFits
<1>3. StoredAt(nvm, x, call.value)
  BY <1>1, <1>2 DEF Content, StoredAhead, StoredAt
<1> HIDE DEF x
<1>4. GoodManager(manager) /\ acked \in Files /\ (unlogged \in BOOLEAN)
  BY DEF Struct, LogStands, VarsTyped, Files
<1>5. k \in Nat /\ x.fileStart = call.start + k /\ x.size \in Nat
  BY <1>2
<1> HIDE DEF k
<1>6. NextPart(manager, call, k, x, j)
  BY <1>2, <1>5 DEF NextPart
<1> HIDE DEF j
<1>7. exists /\ ~unlogged' => FileIn(nvm', manager') = Overlay(acked, call, j)
  <2> SUFFICES ASSUME exists, ~unlogged' PROVE FileIn(nvm', manager') = Overlay(acked, call, j)
    OBVIOUS
  <2>1. ~unlogged
    BY <1>1
  <2>2. FileIn(nvm, manager) = Overlay(acked, call, k)
    BY <2>1 DEF Content, FileMatches, k
  <2>3. FileIn(nvm, TakeExtent(manager, x)) = Overlay(acked, call, j)
    BY <1>3, <1>4, <1>6, <2>2, OverlayMore
  <2> QED BY <1>1, <2>3
<1>8. CASE call.next > Len(call.spaces)
  <2>1. /\ call' = Idle /\ acked' = Overlay(acked, call, call.size)
        /\ vfsInode' = VfsInodeOf(manager', logPages')
    BY <1>1, <1>8 DEF Advance
  <2>2. j = call.size
    BY <1>2, <1>8 DEF j, k
  <2>3. acked' \in Files
    <3>1. call.size \in Nat /\ call.value \in 0 .. MaxOps
      BY <1>1, <1>2, PartFits
    <3> QED BY <1>2, <1>4, <2>1, <3>1, OverlayTyped DEF Files
  <2>4. FileMatches'
    <3>1. Overlay(acked', Idle, Idle.size - Idle.left) = acked'
      BY <2>3, OverlayIdle
    <3> QED BY <1>1, <1>7, <2>1, <2>2, <3>1 DEF FileMatches
  <2>5. StoredAhead'
    BY <2>1, IdleGood DEF StoredAhead
  <2>6. StatTold'
    <3>1. /\ GoodManager(manager') /\ logPages' \in SUBSET PagePool
      <4>1. Struct'
        BY WriteDataLoggedStep
      <4>2. GoodManager(manager') /\ logPages' \in SUBSET PagePool
        BY <4>1 DEF Struct, LogStands, SpacesOwned, Owned
      <4> QED BY <4>2
    <3>2. manager' \in Managers
      BY <3>1 DEF GoodManager
    <3>3. /\ vfsInode'.i_size = manager'.fileMaxLen
          /\ vfsInode'.i_blocks = InodeInfoGetPageNum(manager', logPages')
          /\ InodeInfoGetPageNum(manager', logPages') \in Int
      BY <2>1, <3>1, <3>2, PageNumTyped
    <3> QED BY <3>3 DEF StatTold
  <2> QED BY <2>4, <2>5, <2>6 DEF Content
<1>9. CASE ~(call.next > Len(call.spaces))
  <2> DEFINE rest == call.left - PartSize
  <2>1. call' = [call EXCEPT !.stage = "space", !.left = rest] /\ acked' = acked
    BY <1>1, <1>9 DEF Advance
  <2>2. rest \in Int /\ j = call.size - rest
    BY <1>2 DEF j, k
  <2> HIDE DEF rest
  <2>3. call \in Calls
    BY <1>1 DEF Struct, CallFits, CallGood
  <2>4. /\ call'.stage = "space" /\ call'.left = rest /\ call'.size = call.size
        /\ call'.start = call.start /\ call'.value = call.value
    BY <2>1, <2>3 DEF Calls
  <2>5. FileMatches'
    <3>1. call'.size - call'.left = j
      BY <2>2, <2>4
    <3>2. Overlay(acked, call', j) = Overlay(acked, call, j)
      BY <2>4, OverlaySame
    <3> QED BY <1>1, <1>7, <2>1, <3>1, <3>2 DEF FileMatches
  <2>6. StoredAhead' /\ StatTold'
    BY <2>4 DEF StoredAhead, StatTold
  <2> QED BY <2>5, <2>6 DEF Content
<1> QED BY <1>8, <1>9

\* AddNewSpace changes nothing that the file holds.
LEMMA AddNewSpaceContent == Struct /\ Content /\ AddNewSpace => Content'
<1> SUFFICES ASSUME Struct, Content, AddNewSpace PROVE Content'
  OBVIOUS
<1>1. UNCHANGED <<exists, nvm, vfsInode, acked, freeBlocks, spanned>> /\ call.stage = "space"
  BY DEF AddNewSpace
<1>2. CASE /\ LogWrite(SpaceEntry(NextSpace)) /\ manager' = TakeSpace(manager, NextSpace)
           /\ call' = [call EXCEPT !.stage = "write", !.next = @ + 1]
           /\ unlogged' = unlogged
  <2>1. CallGood(call, RestSizeOfCurrentArea(manager)) /\ GoodManager(manager)
    BY DEF Struct, CallFits, LogStands
  <2>2. call' = AddedSpace(call)
    BY <1>2 DEF AddedSpace
  <2>3. /\ call'.stage = "write" /\ call'.size = call.size /\ call'.left = call.left
        /\ call'.start = call.start /\ call'.value = call.value
    BY <1>1, <2>1, <2>2, CallAdds
  <2>4. NextSpace \in SpaceNodes /\ manager \in Managers
    <3>1. call \in Calls /\ Underway(call, RestSizeOfCurrentArea(manager))
      BY <1>1, <2>1 DEF CallGood
    <3>2. call.next \in 1 .. Len(call.spaces) /\ call.spaces \in Seq(Areas)
      BY <1>1, <3>1 DEF Calls, Underway, JustEnough
    <3> QED BY <2>1, <3>2 DEF NextSpace, Areas, GoodManager
  <2>5. /\ manager'.tree.extents = manager.tree.extents
        /\ manager'.fileMaxLen = manager.fileMaxLen
    BY <1>2, <2>4, TakeSpaceIs
  <2>6. FileMatches'
    <3>1. FileIn(nvm', manager') = FileIn(nvm, manager)
      BY <1>1, <2>5 DEF FileIn
    <3> QED BY <1>1, <1>2, <2>3, <3>1, ContentKept
  <2>7. StoredAhead' /\ StatTold'
    BY <2>3 DEF StoredAhead, StatTold
  <2> QED BY <2>6, <2>7 DEF Content
<1>3. CASE unlogged' = TRUE /\ call' = Idle
  BY <1>3, IdleGood DEF Content, FileMatches, StoredAhead, StatTold
<1> QED BY <1>2, <1>3 DEF AddNewSpace

\* NvmfsFileOpen with O_TRUNC empties the file.
LEMMA OpenContent == Struct /\ Content /\ NvmfsFileOpen => Content'
<1> SUFFICES ASSUME Struct, Content, NvmfsFileOpen PROVE Content'
  OBVIOUS
<1>1. /\ exists /\ call.stage = "idle" /\ LogWrite(TruncateEntry)
      /\ manager' = TruncateManager(manager)
      /\ vfsInode' = [vfsInode EXCEPT !.i_size = 0] /\ acked' = EmptyFile
      /\ UNCHANGED <<exists, nvm, freeBlocks, call, unlogged, spanned>>
  BY DEF NvmfsFileOpen, InodeTruncate, IsIdle
<1>2. call' = Idle /\ call'.stage = "idle"
  BY <1>1, BetweenCalls, IdleGood
<1>3. manager \in Managers /\ Struct'
  BY OpenStep DEF Struct, LogStands, GoodManager
<1>4. /\ manager'.tree.extents = {} /\ manager'.fileMaxLen = 0
      /\ manager'.tree.spaceSize = manager.tree.spaceSize /\ manager' \in Managers
  BY <1>1, <1>3, TruncateIs
<1>5. FileMatches'
  <2>1. FileIn(nvm', manager') = EmptyFile /\ EmptyFile \in Files
    BY <1>4, FileEmpty, EmptyTyped DEF Files
  <2> QED BY <1>1, <1>2, <2>1, OverlayIdle DEF FileMatches
<1>6. StoredAhead'
  BY <1>2 DEF StoredAhead
<1>7. StatTold'
  <2>1. vfsInode'.i_size = 0 /\ vfsInode'.i_blocks = vfsInode.i_blocks
    <3> DEFINE zero == 0
    <3>1. vfsInode' = [vfsInode EXCEPT !.i_size = zero]
      BY <1>1
    <3>2. vfsInode \in [i_size : Int, i_blocks : Int]
      BY DEF Struct, VarsTyped
    <3> HIDE DEF zero
    <3>3. vfsInode'.i_size = zero /\ vfsInode'.i_blocks = vfsInode.i_blocks
      BY <3>1, <3>2
    <3> QED BY <3>3 DEF zero
  <2>2. logPages \subseteq logPages' /\ logPages \in SUBSET PagePool
        /\ logPages' \in SUBSET PagePool
    <3>1. logPages \subseteq logPages'
      BY <1>1 DEF LogWrite
    <3>2. logPages' \in SUBSET PagePool
      BY <1>3 DEF Struct, SpacesOwned, Owned
    <3> QED BY <3>1, <3>2
  <2>3. InodeInfoGetPageNum(manager, logPages) <= InodeInfoGetPageNum(manager', logPages')
        /\ InodeInfoGetPageNum(manager, logPages) \in Int
        /\ InodeInfoGetPageNum(manager', logPages') \in Int
    <3>1. IsFiniteSet(logPages') /\ IsFiniteSet(logPages)
      BY <2>2, SizesTyped, FS_Subset
    <3>2. /\ Cardinality(logPages) <= Cardinality(logPages')
          /\ Cardinality(logPages) \in Nat /\ Cardinality(logPages') \in Nat
      BY <2>2, <3>1, FS_Subset, FS_CardinalityType
    <3>3. manager.tree.spaceSize \div PAGE \in Int
      <4>1. manager.tree.spaceSize \in Int
        BY <1>3, ManagerTypes
      <4> QED BY <4>1, SizesTyped, DivFacts
    <3> DEFINE q == manager.tree.spaceSize \div PAGE
               a == Cardinality(logPages)
               b == Cardinality(logPages')
    <3>4. /\ InodeInfoGetPageNum(manager, logPages) = q + a
          /\ InodeInfoGetPageNum(manager', logPages') = q + b
      BY <1>4 DEF InodeInfoGetPageNum
    <3>5. q \in Int /\ a \in Nat /\ b \in Nat /\ a <= b
      BY <3>2, <3>3
    <3> HIDE DEF q, a, b
    <3> QED BY <3>4, <3>5
  <2>4. ~unlogged => vfsInode.i_blocks <= InodeInfoGetPageNum(manager, logPages)
    BY <1>1 DEF Content, StatTold
  <2>5. vfsInode.i_blocks \in Int
    BY DEF Struct, VarsTyped
  <2> QED BY <1>1, <1>4, <2>1, <2>3, <2>4, <2>5 DEF StatTold
<1> QED BY <1>5, <1>6, <1>7 DEF Content

\* What stat is told when the inode is made anew.
LEMMA StatRebuilt ==
  ASSUME NEW m \in Managers, NEW pages \in SUBSET PagePool
  PROVE  /\ VfsInodeOf(m, pages).i_size = m.fileMaxLen
         /\ VfsInodeOf(m, pages).i_blocks <= InodeInfoGetPageNum(m, pages)
<1>1. /\ VfsInodeOf(m, pages).i_size = m.fileMaxLen
      /\ VfsInodeOf(m, pages).i_blocks = InodeInfoGetPageNum(m, pages)
      /\ InodeInfoGetPageNum(m, pages) \in Int
  BY PageNumTyped
<1> QED BY <1>1

\* A file looked up again holds what it held.
LEMMA ReloadContent == Struct /\ Content /\ Reload => Content'
<1> SUFFICES ASSUME Struct, Content, Reload PROVE Content'
  OBVIOUS
<1>1. /\ exists /\ call.stage = "idle" /\ manager' = FileInodeInfoRebuild(log)
      /\ vfsInode' = VfsInodeOf(manager', logPages)
      /\ UNCHANGED <<exists, nvm, log, logPages, freePages, freeBlocks, call, acked,
                     unlogged, spanned>>
  BY DEF Reload, IsIdle
<1>2. ~unlogged => manager' = manager
  BY <1>1 DEF Struct, LogStands
<1>3. FileMatches'
  BY <1>1, <1>2 DEF Content, FileMatches
<1>4. StoredAhead'
  BY <1>1 DEF StoredAhead
<1>5. StatTold'
  <2>1. manager' \in Managers /\ logPages \in SUBSET PagePool
    <3>1. GoodManager(FileInodeInfoRebuild(log))
      BY DEF Struct, LogStands, LogGood
    <3> QED BY <1>1, <3>1 DEF GoodManager, Struct, SpacesOwned, Owned
  <2>2. /\ vfsInode'.i_size = manager'.fileMaxLen
        /\ vfsInode'.i_blocks <= InodeInfoGetPageNum(manager', logPages)
    BY <1>1, <2>1, StatRebuilt
  <2> QED BY <1>1, <2>2 DEF StatTold
<1> QED BY <1>3, <1>4, <1>5 DEF Content

\* After a crash the file is what the log makes it.
LEMMA CrashContent == Struct /\ Content /\ Crash => Content'
<1> SUFFICES ASSUME Struct, Content, Crash PROVE Content'
  OBVIOUS
<1> DEFINE m == FileInodeInfoRebuild(log)
<1>1. /\ exists /\ manager' = m /\ vfsInode' = VfsInodeOf(m, logPages)
      /\ call' = Idle /\ acked' = FileOf(m) /\ logPages' = logPages /\ nvm' = nvm
  BY DEF Crash
<1>2. GoodManager(m) /\ m.tree.spaces = SpacesIn(log)
  BY DEF Struct, LogStands, LogGood
<1> HIDE DEF m
<1>3. acked' \in Files
  BY CrashStep DEF Struct, VarsTyped, Files
<1>4. FileMatches'
  <2>1. FileIn(nvm', manager') = acked'
    BY <1>1, FileOfIs
  <2>2. Overlay(acked', Idle, Idle.size - Idle.left) = acked'
    BY <1>3, OverlayIdle
  <2> QED BY <1>1, <2>1, <2>2 DEF FileMatches
<1>5. StoredAhead'
  BY <1>1, IdleGood DEF StoredAhead
<1>6. StatTold'
  <2>1. m \in Managers /\ logPages \in SUBSET PagePool
    BY <1>2 DEF GoodManager, Struct, SpacesOwned, Owned
  <2>2. /\ vfsInode'.i_size = manager'.fileMaxLen
        /\ vfsInode'.i_blocks <= InodeInfoGetPageNum(manager', logPages')
    BY <1>1, <2>1, StatRebuilt
  <2> QED BY <2>2 DEF StatTold
<1> QED BY <1>4, <1>5, <1>6 DEF Content

\* There is no file at first.
LEMMA ContentInit == Init => Content
BY IdleGood DEF Init, Content, FileMatches, StoredAhead, StatTold

\* Every step keeps what the file is to hold.
LEMMA ContentStep == Struct /\ Content /\ [Next]_vars => Content'
<1> SUFFICES ASSUME Struct, Content, [Next]_vars PROVE Content'
  OBVIOUS
<1>1. CASE FileInodeInfoFormat
  BY <1>1, FormatContent
<1>2. CASE FileInodeInfoDestroy
  BY <1>2, DestroyContent
<1>3. ASSUME NEW s \in Starts, NEW n \in Sizes, FileInodeInfoWriteData(s, n) PROVE Content'
  BY <1>3, BeginContent
<1>4. CASE WriteData
  BY <1>4, WriteDataContent
<1>5. CASE WriteDataLogged
  BY <1>5, WriteDataLoggedContent
<1>6. CASE AddNewSpace
  BY <1>6, AddNewSpaceContent
<1>7. CASE NvmfsFileOpen
  BY <1>7, OpenContent
<1>8. CASE Reload
  BY <1>8, ReloadContent
<1>9. CASE Crash
  BY <1>9, CrashContent
<1>10. CASE UNCHANGED vars
  <2>1. /\ exists' = exists /\ nvm' = nvm /\ logPages' = logPages /\ manager' = manager
        /\ vfsInode' = vfsInode /\ call' = call /\ acked' = acked /\ unlogged' = unlogged
    BY <1>10 DEF vars
  <2> QED BY <2>1 DEF Content, FileMatches, StoredAhead, StatTold, PartSize,
                      RestSizeOfCurrentArea
<1> QED BY <1>1, <1>2, <1>3, <1>4, <1>5, <1>6, <1>7, <1>8, <1>9, <1>10 DEF Next

\* Both invariants together hold in every behaviour.
THEOREM Contents == Spec => [](Struct /\ Content)
<1>1. Init => Struct /\ Content
  BY StructInit, ContentInit
<1>2. (Struct /\ Content) /\ [Next]_vars => (Struct /\ Content)'
  BY StructStep, ContentStep
<1> QED BY <1>1, <1>2, PTL DEF Spec

\* After a crash at any moment the file is what the calls that returned left,
\* with a leading part of the call underway and nothing else
\* (WriteDataToArea stores the data, then the entry, then the tree).
LEMMA PrefixKept == Struct /\ Content => CrashLeavesPrefix
<1> SUFFICES ASSUME Struct, Content, exists, ~unlogged
             PROVE  \E k \in 0 .. call.size :
                      FileOf(FileInodeInfoRebuild(log)) = Overlay(acked, call, k)
  BY DEF CrashLeavesPrefix
<1> DEFINE k == call.size - call.left
<1>1. manager = FileInodeInfoRebuild(log)
  BY DEF Struct, LogStands
<1>2. FileIn(nvm, manager) = Overlay(acked, call, k)
  BY DEF Content, FileMatches
<1>3. FileOf(FileInodeInfoRebuild(log)) = Overlay(acked, call, k)
  BY <1>1, <1>2, FileOfIs
<1>4. call.left \in Int /\ call.size \in Int /\ 0 <= call.left /\ call.left <= call.size
  <2>1. call.left \in Int /\ call.size \in Int
    BY DEF Struct, CallFits, CallGood, Calls
  <2>2. TypeOK
    BY StructFileInv DEF FileInv
  <2> QED BY <2>1, <2>2 DEF TypeOK
<1>5. k \in 0 .. call.size
  BY <1>4
<1> HIDE DEF k
<1> QED BY <1>3, <1>5

\* A crash at any point of any call leaves a leading part of that call over the
\* file that the earlier calls left (WriteDataToArea, FileInodeInfoRebuild).
THEOREM CrashSafe == Spec => []CrashLeavesPrefix
<1> QED BY PrefixKept, Contents, PTL

\* Between calls the file that the manager has is the one the calls left.
LEMMA FileAcked ==
  ASSUME Struct, Content, exists, call.stage = "idle", ~unlogged
  PROVE  /\ FileIn(nvm, manager) = acked /\ acked \in Files
         /\ manager.fileMaxLen = acked.len
<1>1. call = Idle
  BY BetweenCalls
<1>2. acked \in Files
  BY DEF Struct, VarsTyped, Files
<1>3. FileIn(nvm, manager) = acked
  BY <1>1, <1>2, OverlayIdle DEF Content, FileMatches
<1>4. FileIn(nvm, manager).len = manager.fileMaxLen
  BY DEF FileIn
<1> QED BY <1>2, <1>3, <1>4

\* Between calls stat tells the length that the calls left and never more
\* blocks than the file has (NvmfsFileWrite, VfsInodeRebuild).
LEMMA StatKept == Struct /\ Content => StatTrue
<1> SUFFICES ASSUME Struct, Content, exists, IsIdle, ~unlogged
             PROVE  /\ VfsInodeGetattr.size = acked.len
                    /\ VfsInodeGetattr.blocks <= InodeInfoGetPageNum(manager, logPages)
  BY DEF StatTrue
<1>1. call.stage = "idle"
  BY DEF IsIdle
<1>2. manager.fileMaxLen = acked.len
  BY <1>1, FileAcked
<1>3. /\ vfsInode.i_size = manager.fileMaxLen
      /\ vfsInode.i_blocks <= InodeInfoGetPageNum(manager, logPages)
  BY <1>1 DEF Content, StatTold
<1> QED BY <1>2, <1>3 DEF VfsInodeGetattr

\* stat tells the length that the calls have left, and no more blocks than the
\* file has, after rebuilds and crashes too (NvmfsFileWrite, VfsInodeRebuild).
THEOREM StatSafe == Spec => []StatTrue
<1> QED BY StatKept, Contents, PTL

-----------------------------------------------------------------------------
\* FileExtentTreeRead: the walk over the extents of a range.

Hit(E, start, end) == {x \in E : Overlaps(x, start, end)}

\* What a buffer may hold.
ReadValues(mem, buffer) ==
  {mem[w] : w \in Int} \cup {Hole} \cup {buffer[i] : i \in DOMAIN buffer}

Readable(E, start, end, buffer) ==
  /\ Disjointed(E) /\ \A x \in E : 0 <= x.fileStart
  /\ start \in Nat /\ end \in Int /\ start < end
  /\ DOMAIN buffer \subseteq Int /\ 0 .. end - start - 1 \subseteq DOMAIN buffer
  /\ buffer = [i \in DOMAIN buffer |-> buffer[i]]

\* An extent of the range is in the buffer as far as the range goes.
Copied(mem, start, end, b, x) ==
  \A o \in start .. end - 1 :
    o \in FileWords(x) => b[o - start] = mem[x.start + (o - x.fileStart)]

\* The extents passed are in the buffer, and all of them lie before those to
\* come.
Passed(mem, E, start, end, st) ==
  /\ \A x \in st.extents : st.lastRead <= Most(start, x.fileStart)
  /\ \A x \in Hit(E, start, end) \ st.extents :
       Copied(mem, start, end, st.buffer, x)
       /\ \A o \in start .. end - 1 : o \in FileWords(x) => o < st.lastRead

Walks(mem, E, start, end, buffer) ==
  {st \in [buffer : [DOMAIN buffer -> ReadValues(mem, buffer)], lastRead : start .. end,
           extents : SUBSET Hit(E, start, end)] : Passed(mem, E, start, end, st)}

\* There is a first extent in the walk.
LEMMA LowestFacts ==
  ASSUME NEW E, E # {}, \A x \in E : IsExtent(x) /\ 0 <= x.fileStart
  PROVE  Lowest(E) \in E /\ \A y \in E : Lowest(E).fileStart <= y.fileStart
<1> DEFINE S == {x.fileStart : x \in E}
<1>1. S \in SUBSET Nat /\ S # {}
  BY DEF IsExtent, ExtentNodes
<1>2. PICK n \in S : \A m \in S : n <= m
  <2> HIDE DEF S
  <2> QED BY <1>1, LeastNatural
<1>3. \E x \in E : \A y \in E : x.fileStart <= y.fileStart
  BY <1>2
<1> QED BY <1>3 DEF Lowest

\* The words that Zeroed and NVMAccesserRead leave alone, and those they do not.
LEMMA ZeroedFacts ==
  ASSUME NEW D \in SUBSET Int, NEW V, Hole \in V, NEW b \in [D -> V],
         NEW at \in Int, NEW n \in Int
  PROVE  /\ Zeroed(b, at, n) \in [D -> V]
         /\ \A i \in D : i < at => Zeroed(b, at, n)[i] = b[i]
BY DEF Zeroed

\* What NVMAccesserRead changes of the buffer.
LEMMA ReadInto ==
  ASSUME NEW D \in SUBSET Int, NEW V, NEW mem, \A w \in Int : mem[w] \in V,
         NEW b \in [D -> V], NEW addr \in Int, NEW n \in Int, NEW at \in Int
  PROVE  /\ NVMAccesserRead(mem, addr, n, b, at) \in [D -> V]
         /\ \A i \in D : i < at => NVMAccesserRead(mem, addr, n, b, at)[i] = b[i]
         /\ \A i \in D : at <= i /\ i < at + n =>
              NVMAccesserRead(mem, addr, n, b, at)[i] = mem[addr + (i - at)]
<1> DEFINE r == NVMAccesserRead(mem, addr, n, b, at)
<1>1. r = [i \in D |-> IF i \in at .. at + n - 1 THEN mem[addr + (i - at)] ELSE b[i]]
  BY DEF NVMAccesserRead
<1>2. \A i \in D : addr + (i - at) \in Int /\ b[i] \in V
  OBVIOUS
<1>3. \A i \in D : i \in at .. at + n - 1 <=> at <= i /\ i < at + n
  OBVIOUS
<1> HIDE DEF r
<1>4. r \in [D -> V]
  BY <1>1, <1>2
<1> QED BY <1>1, <1>3, <1>4 DEF r

\* A pass: the extent is in the buffer, what was there stays, and the walk moves on.
LEMMA ReadStepFacts ==
  ASSUME NEW mem, NEW E, NEW start, NEW end, NEW buffer,
         Readable(E, start, end, buffer),
         NEW st \in Walks(mem, E, start, end, buffer), st.extents # {},
         NEW x, x = Lowest(st.extents), NEW r, r = ReadStep(mem, start, end, st, x)
  PROVE  /\ r \in Walks(mem, E, start, end, buffer)
         /\ st.lastRead < r.lastRead
<1> DEFINE D == DOMAIN buffer
           V == ReadValues(mem, buffer)
           H == Hit(E, start, end)
           from == Most(start, x.fileStart)
           to == Least(end, FileEnd(x))
           zeroed == Zeroed(st.buffer, from - start, from - st.lastRead)
           addr == x.start + (from - x.fileStart)
           b == NVMAccesserRead(mem, addr, to - from, zeroed, from - start)
<1>1. /\ Disjointed(E) /\ \A y \in E : 0 <= y.fileStart
      /\ start \in Int /\ end \in Int /\ start < end
      /\ D \in SUBSET Int /\ 0 .. end - start - 1 \subseteq D
  BY DEF Readable
<1>2. /\ st.buffer \in [D -> V] /\ st.lastRead \in start .. end /\ st.extents \in SUBSET H
      /\ Passed(mem, E, start, end, st)
  BY DEF Walks
<1>3. \A y \in H : /\ y \in E /\ IsExtent(y) /\ 0 <= y.fileStart
                   /\ y.start \in Int /\ y.size \in Int /\ y.fileStart \in Int
                   /\ FileEnd(y) \in Int /\ FileEnd(y) = y.fileStart + y.size /\ 0 < y.size
                   /\ y.fileStart < end /\ start < FileEnd(y)
  BY <1>1 DEF Hit, Overlaps, Disjointed, IsExtent, ExtentNodes, FileEnd
<1>4. x \in st.extents /\ \A y \in st.extents : x.fileStart <= y.fileStart
  BY <1>2, <1>3, LowestFacts
<1>5. x \in H
  BY <1>2, <1>4
<1> HIDE DEF D, V, H
<1>6. /\ x.start \in Int /\ x.fileStart \in Int /\ FileEnd(x) \in Int /\ IsExtent(x)
      /\ x.fileStart < end /\ start < FileEnd(x) /\ x.fileStart < FileEnd(x)
  BY <1>3, <1>5
<1>7. /\ from \in Int /\ to \in Int /\ start <= from /\ from < to /\ to <= end
      /\ x.fileStart <= from /\ to <= FileEnd(x) /\ st.lastRead \in Int
      /\ \A o \in start .. end - 1 : o \in FileWords(x) <=> from <= o /\ o < to
  <2>1. from \in Int /\ to \in Int /\ start <= from /\ from < to /\ to <= end
        /\ x.fileStart <= from /\ to <= FileEnd(x)
    BY <1>1, <1>6 DEF Most, Least
  <2>2. \A o \in start .. end - 1 : o \in FileWords(x) <=> from <= o /\ o < to
    BY <1>1, <1>6 DEF Most, Least, FileWords
  <2>3. st.lastRead \in Int
    BY <1>1, <1>2
  <2> QED BY <2>1, <2>2, <2>3
<1>8. st.lastRead <= from
  BY <1>2, <1>4 DEF Passed
<1>9. r = [buffer |-> b, lastRead |-> to, extents |-> st.extents \ {x}]
  BY DEF ReadStep
<1> HIDE DEF from, to
<1>10. Hole \in V /\ \A w \in Int : mem[w] \in V
  BY DEF V, ReadValues
<1>11. /\ zeroed \in [D -> V] /\ \A i \in D : i < from - start => zeroed[i] = st.buffer[i]
  <2> DEFINE at == from - start
             n == from - st.lastRead
             c == st.buffer
  <2>1. at \in Int /\ n \in Int
    BY <1>1, <1>7
  <2>2. D \in SUBSET Int /\ c \in [D -> V]
    BY <1>1, <1>2 DEF D
  <2> HIDE DEF at, n, c
  <2>3. Zeroed(c, at, n) \in [D -> V] /\ \A i \in D : i < at => Zeroed(c, at, n)[i] = c[i]
    BY <1>10, <2>1, <2>2, ZeroedFacts
  <2> QED BY <2>3 DEF at, n, c
<1> HIDE DEF zeroed
<1>12. /\ b \in [D -> V] /\ \A i \in D : i < from - start => b[i] = zeroed[i]
       /\ \A i \in D : from - start <= i /\ i < (from - start) + (to - from) =>
            b[i] = mem[addr + (i - (from - start))]
  <2> DEFINE at == from - start
             n == to - from
  <2>1. at \in Int /\ n \in Int /\ addr \in Int
    BY <1>1, <1>6, <1>7
  <2>2. D \in SUBSET Int
    BY <1>1 DEF D
  <2> HIDE DEF at, n, addr
  <2>3. /\ NVMAccesserRead(mem, addr, n, zeroed, at) \in [D -> V]
        /\ \A i \in D : i < at => NVMAccesserRead(mem, addr, n, zeroed, at)[i] = zeroed[i]
        /\ \A i \in D : at <= i /\ i < at + n =>
             NVMAccesserRead(mem, addr, n, zeroed, at)[i] = mem[addr + (i - at)]
    BY <1>10, <1>11, <2>1, <2>2, ReadInto
  <2> QED BY <2>3 DEF at, n
<1> HIDE DEF b
<1>13. \A o \in start .. end - 1 : o - start \in D
  BY <1>1 DEF D
<1>14. ASSUME NEW o \in start .. end - 1, o \in FileWords(x)
       PROVE  b[o - start] = mem[x.start + (o - x.fileStart)] /\ o < to
  <2>1. o \in Int /\ from <= o /\ o < to /\ o - start \in D
    BY <1>1, <1>7, <1>13, <1>14
  <2>2. from - start <= o - start /\ o - start < (from - start) + (to - from)
    BY <1>1, <1>7, <2>1
  <2>3. b[o - start] = mem[addr + ((o - start) - (from - start))]
    BY <1>12, <2>1, <2>2
  <2>4. addr + ((o - start) - (from - start)) = x.start + (o - x.fileStart)
    BY <1>1, <1>6, <1>7, <2>1
  <2> HIDE DEF addr
  <2> QED BY <2>1, <2>3, <2>4
<1>15. ASSUME NEW y \in H \ st.extents, NEW o \in start .. end - 1, o \in FileWords(y)
       PROVE  b[o - start] = mem[y.start + (o - y.fileStart)] /\ o < to
  <2>1. st.buffer[o - start] = mem[y.start + (o - y.fileStart)] /\ o < st.lastRead
    BY <1>2, <1>15 DEF Passed, Copied, H
  <2>2. o \in Int /\ o < from /\ o - start < from - start /\ o < to /\ o - start \in D
    BY <1>1, <1>7, <1>8, <1>13, <2>1
  <2> QED BY <1>11, <1>12, <2>1, <2>2
<1>16. ASSUME NEW y \in st.extents \ {x} PROVE to <= Most(start, y.fileStart)
  <2>1. x.fileStart <= y.fileStart /\ y \in H /\ y # x
    BY <1>2, <1>4, <1>16 DEF H
  <2>2. FileApart(x, y)
    BY <1>1, <1>3, <1>5, <2>1 DEF Disjointed
  <2>3. y.fileStart \in Int /\ y.fileStart < FileEnd(y) /\ FileEnd(y) \in Int
    BY <1>3, <2>1
  <2>4. to <= y.fileStart
    BY <1>6, <1>7, <2>1, <2>2, <2>3 DEF FileApart
  <2> QED BY <1>1, <1>7, <2>3, <2>4 DEF Most
<1>17. /\ r.buffer = b /\ r.lastRead = to /\ r.extents = st.extents \ {x}
       /\ r \in [buffer : [D -> V], lastRead : start .. end, extents : SUBSET H]
  <2>1. to \in start .. end
    BY <1>1, <1>7
  <2>2. st.extents \ {x} \in SUBSET H
    BY <1>2 DEF H
  <2> QED BY <1>9, <1>12, <2>1, <2>2
<1>18. Passed(mem, E, start, end, r)
  <2>1. \A y \in H \ r.extents : y = x \/ y \in H \ st.extents
    BY <1>17
  <2>2. \A y \in H \ r.extents :
          /\ Copied(mem, start, end, r.buffer, y)
          /\ \A o \in start .. end - 1 : o \in FileWords(y) => o < r.lastRead
    BY <1>14, <1>15, <1>17, <2>1 DEF Copied
  <2>3. \A y \in r.extents : r.lastRead <= Most(start, y.fileStart)
    BY <1>16, <1>17
  <2> QED BY <2>2, <2>3 DEF Passed, H
<1>19. st.lastRead < r.lastRead
  BY <1>7, <1>8, <1>17
<1> QED BY <1>17, <1>18, <1>19 DEF Walks, D, V, H

\* The loop of FileExtentTreeRead.
LEMMA WalkingLoop ==
  ASSUME NEW mem, NEW tree, NEW start, NEW end, NEW buffer,
         NEW E, E = tree.extents, Readable(E, start, end, buffer),
         NEW g, g = Walking(tree, mem, start, end, buffer), NEW n, n = end - start
  PROVE  /\ n \in Nat
         /\ \A i \in 0 .. n : g[i] \in Walks(mem, E, start, end, buffer)
         /\ \A i \in 1 .. n : IF g[i - 1].extents = {} THEN g[i] = g[i - 1]
                              ELSE g[i - 1].lastRead < g[i].lastRead
<1> DEFINE S == Walks(mem, E, start, end, buffer)
           x0 == [buffer |-> buffer, lastRead |-> start,
                  extents |-> {x \in tree.extents : Overlaps(x, start, end)}]
           Pass(st) == IF st.extents = {} THEN st
                       ELSE ReadStep(mem, start, end, st, Lowest(st.extents))
           step == [i \in 1 .. n |-> [st \in S |-> Pass(st)]]
           Body(f) == [i \in 0 .. n |-> IF i = 0 THEN x0 ELSE Pass(f[i - 1])]
<1>1. n \in Nat
  BY DEF Readable
<1>2. x0 \in S
  <2>1. /\ start \in start .. end /\ \A i \in DOMAIN buffer : buffer[i] \in ReadValues(mem, buffer)
    BY DEF Readable, ReadValues
  <2>2. buffer \in [DOMAIN buffer -> ReadValues(mem, buffer)]
    BY <2>1 DEF Readable
  <2>3. x0.extents = Hit(E, start, end) /\ x0.buffer = buffer /\ x0.lastRead = start
    BY DEF Hit
  <2>4. Passed(mem, E, start, end, x0)
    <3>1. \A x \in Hit(E, start, end) : start <= Most(start, x.fileStart)
      BY DEF Hit, Most, Readable, Disjointed, IsExtent, ExtentNodes
    <3> HIDE DEF x0
    <3> QED BY <2>3, <3>1 DEF Passed
  <2>5. x0 \in [buffer : [DOMAIN buffer -> ReadValues(mem, buffer)], lastRead : start .. end,
                extents : SUBSET Hit(E, start, end)]
    BY <2>1, <2>2, <2>3
  <2> HIDE DEF x0
  <2> QED BY <2>4, <2>5 DEF Walks
<1>3. \A st \in S : /\ Pass(st) \in S
                    /\ IF st.extents = {} THEN Pass(st) = st
                       ELSE st.lastRead < Pass(st).lastRead
  <2> TAKE st \in S
  <2>1. CASE st.extents = {}
    BY <2>1
  <2>2. CASE st.extents # {}
    <3> DEFINE r == ReadStep(mem, start, end, st, Lowest(st.extents))
    <3>1. r \in S /\ st.lastRead < r.lastRead
      BY <2>2, ReadStepFacts
    <3> HIDE DEF r
    <3>2. Pass(st) = r
      BY <2>2 DEF r
    <3> HIDE DEF Pass
    <3> QED BY <2>2, <3>1, <3>2
  <2> QED BY <2>1, <2>2
<1>4. Walking(tree, mem, start, end, buffer) = CHOOSE h : h = Body(h)
  <2>1. 0 .. end - start = 0 .. n
    OBVIOUS
  <2> QED BY <2>1, Zenon DEF Walking
<1> HIDE DEF S, Pass, x0
<1>5. step \in [1 .. n -> [S -> S]]
  BY <1>3
<1>6. PICK f : Course(S, n, x0, step, f)
  <2> HIDE DEF step
  <2> QED BY <1>1, <1>2, <1>5, LoopExists
<1>7. f = Body(f)
  <2>0. /\ f \in [0 .. n -> S] /\ f[0] = x0
        /\ \A i \in 1 .. n : f[i] = step[i][f[i - 1]]
    <3> HIDE DEF step
    <3> QED BY <1>6 DEF Course
  <2>1. \A i \in 1 .. n : f[i] = Pass(f[i - 1])
    <3> TAKE i \in 1 .. n
    <3>1. i - 1 \in 0 .. n
      BY <1>1
    <3>2. f[i - 1] \in S
      BY <2>0, <3>1
    <3> QED BY <2>0, <3>2
  <2>2. \A i \in 0 .. n : i = 0 \/ i \in 1 .. n
    BY <1>1
  <2> QED BY <2>0, <2>1, <2>2
<1>8. g = Body(g)
  <2> HIDE DEF Body
  <2> QED BY <1>4, <1>7
<1>9. g[0] = x0 /\ \A i \in 1 .. n : g[i] = Pass(g[i - 1])
  BY <1>1, <1>8
<1> DEFINE T == {i \in 0 .. n : g[i] \in S}
<1>10. 0 \in T
  BY <1>1, <1>2, <1>9
<1>11. ASSUME NEW i \in 0 .. n - 1, i \in T PROVE i + 1 \in T
  <2>1. i + 1 \in 1 .. n /\ (i + 1) - 1 = i
    BY <1>1
  <2>2. g[i + 1] = Pass(g[i]) /\ g[i] \in S
    BY <1>9, <1>11, <2>1
  <2>3. g[i + 1] \in S
    BY <1>3, <2>2
  <2> QED BY <1>1, <2>1, <2>3
<1>12. \A i \in 0 .. n : i \in T
  <2> HIDE DEF T
  <2> QED BY <1>1, <1>10, <1>11, LoopInduction
<1>13. ASSUME NEW i \in 1 .. n
       PROVE  IF g[i - 1].extents = {} THEN g[i] = g[i - 1]
              ELSE g[i - 1].lastRead < g[i].lastRead
  <2>1. i - 1 \in 0 .. n
    BY <1>1
  <2>2. g[i - 1] \in S /\ g[i] = Pass(g[i - 1])
    BY <1>9, <1>12, <2>1
  <2> QED BY <1>3, <2>2
<1> QED BY <1>1, <1>12, <1>13 DEF S

\* A read copies every word of the extents in its range.
LEMMA ReadFacts ==
  ASSUME NEW mem, NEW tree, NEW start, NEW end, NEW buffer,
         NEW E, E = tree.extents, Readable(E, start, end, buffer),
         NEW r, r = FileExtentTreeRead(tree, mem, start, end, buffer)
  PROVE  \A x \in E : Copied(mem, start, end, r, x)
<1> DEFINE g == Walking(tree, mem, start, end, buffer)
           n == end - start
           D == DOMAIN buffer
           V == ReadValues(mem, buffer)
           H == Hit(E, start, end)
<1>1. /\ n \in Nat
      /\ \A i \in 0 .. n : g[i] \in Walks(mem, E, start, end, buffer)
      /\ \A i \in 1 .. n : IF g[i - 1].extents = {} THEN g[i] = g[i - 1]
                           ELSE g[i - 1].lastRead < g[i].lastRead
  <2> DEFINE h == g
  <2>1. h = Walking(tree, mem, start, end, buffer)
    OBVIOUS
  <2> HIDE DEF h
  <2> QED BY <2>1, WalkingLoop DEF h
<1>2. r = Zeroed(g[n].buffer, g[n].lastRead - start, end - g[n].lastRead)
  BY DEF FileExtentTreeRead
<1>3. /\ start \in Int /\ end \in Int /\ start < end /\ D \in SUBSET Int
      /\ 0 .. end - start - 1 \subseteq D /\ Disjointed(E)
  BY DEF Readable
<1> HIDE DEF g, D, V, H
<1>4. \A i \in 0 .. n :
        /\ g[i].buffer \in [D -> V] /\ g[i].lastRead \in start .. end
        /\ g[i].extents \in SUBSET H /\ Passed(mem, E, start, end, g[i])
  BY <1>1 DEF Walks, D, V, H
<1> DEFINE T == {i \in 0 .. n : g[i].extents = {} \/ start + i <= g[i].lastRead}
<1>5. 0 \in T
  <2>1. 0 \in 0 .. n
    BY <1>1
  <2>2. g[0].lastRead \in start .. end
    BY <1>4, <2>1
  <2> QED BY <1>3, <2>1, <2>2
<1>6. ASSUME NEW i \in 0 .. n - 1, i \in T PROVE i + 1 \in T
  <2>1. i + 1 \in 1 .. n /\ i + 1 \in 0 .. n /\ (i + 1) - 1 = i /\ i \in 0 .. n /\ i \in Int
    BY <1>1
  <2>2. IF g[i].extents = {} THEN g[i + 1] = g[i] ELSE g[i].lastRead < g[i + 1].lastRead
    BY <1>1, <2>1
  <2>3. g[i].lastRead \in Int /\ g[i + 1].lastRead \in Int
    BY <1>3, <1>4, <2>1
  <2>4. g[i].extents = {} \/ start + i <= g[i].lastRead
    BY <1>6
  <2>5. g[i + 1].extents = {} \/ start + (i + 1) <= g[i + 1].lastRead
    <3>1. CASE g[i].extents = {}
      BY <2>2, <3>1
    <3>2. CASE g[i].extents # {}
      <4> DEFINE a == g[i].lastRead
                 c == g[i + 1].lastRead
      <4>1. a \in Int /\ c \in Int /\ a < c /\ start + i <= a
        BY <2>2, <2>3, <2>4, <3>2
      <4> HIDE DEF a, c
      <4>2. start + (i + 1) <= c
        BY <1>3, <2>1, <4>1
      <4> QED BY <4>2 DEF c
    <3> QED BY <3>1, <3>2
  <2> QED BY <2>1, <2>5
<1>7. n \in T
  <2>1. \A i \in 0 .. n : i \in T
    <3> HIDE DEF T
    <3> QED BY <1>1, <1>5, <1>6, LoopInduction
  <2> QED BY <1>1, <2>1
<1> DEFINE w == g[n]
<1>8. /\ w.buffer \in [D -> V] /\ w.lastRead \in Int /\ w.lastRead <= end
      /\ w.extents \in SUBSET H /\ Passed(mem, E, start, end, w)
      /\ w.extents = {} \/ start + n <= w.lastRead
      /\ r = Zeroed(w.buffer, w.lastRead - start, end - w.lastRead)
  <2>1. n \in 0 .. n
    BY <1>1
  <2>2. w.lastRead \in start .. end
    BY <1>4, <2>1
  <2>3. w.extents = {} \/ start + n <= w.lastRead
    BY <1>7
  <2> QED BY <1>2, <1>3, <1>4, <2>1, <2>2, <2>3
<1> HIDE DEF w
<1>9. w.extents = {}
  <2> SUFFICES ASSUME NEW x \in w.extents PROVE FALSE
    OBVIOUS
  <2>1. w.lastRead = end
    BY <1>3, <1>8
  <2>2. end <= Most(start, x.fileStart)
    BY <1>8, <2>1 DEF Passed
  <2>3. x \in E /\ x.fileStart < end
    BY <1>8 DEF H, Hit, Overlaps
  <2>4. x.fileStart \in Int
    BY <1>3, <2>3 DEF Disjointed, IsExtent, ExtentNodes
  <2> QED BY <1>3, <2>2, <2>3, <2>4 DEF Most
<1>10. Hole \in V
  BY DEF V, ReadValues
<1>11. \A i \in D : i < w.lastRead - start => r[i] = w.buffer[i]
  <2> DEFINE at == w.lastRead - start
             k == end - w.lastRead
             c == w.buffer
  <2>1. at \in Int /\ k \in Int /\ c \in [D -> V] /\ r = Zeroed(c, at, k)
    BY <1>3, <1>8
  <2> HIDE DEF at, k, c
  <2>2. \A i \in D : i < at => r[i] = c[i]
    BY <1>3, <1>10, <2>1, ZeroedFacts
  <2> QED BY <2>2 DEF at, c
<1>12. ASSUME NEW x \in E, NEW o \in start .. end - 1, o \in FileWords(x)
       PROVE  r[o - start] = mem[x.start + (o - x.fileStart)]
  <2>1. x.fileStart \in Int /\ x.size \in Int /\ o \in Int
    BY <1>3 DEF Disjointed, IsExtent, ExtentNodes
  <2>2. x \in H
    BY <1>3, <1>12, <2>1 DEF H, Hit, Overlaps, FileWords, FileEnd
  <2>3. x \in H \ w.extents
    BY <1>9, <2>2
  <2>4. w.buffer[o - start] = mem[x.start + (o - x.fileStart)] /\ o < w.lastRead
    BY <1>8, <1>12, <2>3 DEF Passed, Copied, H
  <2>5. o - start \in D /\ o - start < w.lastRead - start
    BY <1>3, <1>8, <2>1, <2>4
  <2> QED BY <1>11, <2>4, <2>5
<1> QED BY <1>12 DEF Copied

\* Where a seek leads is in or behind the file, never before it.
LEMMA PlacesFacts ==
  ASSUME GoodManager(manager), NEW pos \in Places
  PROVE  pos \in Nat
<1>1. PICK s \in Starts, whence \in Seeks : pos = NvmfsLlseek(manager, 0, s, whence)
  BY DEF Places
<1>2. s \in Nat /\ manager.fileMaxLen \in Nat
  BY FileAssumption DEF GoodManager
<1>3. CASE whence = "SEEK_SET"
  <2>1. pos = Least(s, manager.fileMaxLen)
    BY <1>1, <1>3 DEF NvmfsLlseek
  <2> QED BY <1>2, <2>1 DEF Least
<1>4. CASE whence = "SEEK_CUR"
  <2>1. pos = Most(0, 0 + s)
    BY <1>1, <1>4 DEF NvmfsLlseek
  <2> QED BY <1>2, <2>1 DEF Most
<1>5. CASE whence = "SEEK_END"
  <2>1. pos = Most(0, manager.fileMaxLen - s)
    BY <1>1, <1>5 DEF NvmfsLlseek
  <2> QED BY <1>2, <2>1 DEF Most
<1> QED BY <1>3, <1>4, <1>5 DEF Seeks

\* A read gives every word that was written, whatever the buffer held
\* (FileExtentTreeRead, NvmfsFileRead, NvmfsLlseek).
LEMMA ReadsKept == Struct /\ Content => ReadsWritten
<1> SUFFICES ASSUME Struct, Content, exists, IsIdle, ~unlogged,
                    NEW pos \in Places, NEW n \in Sizes,
                    NEW r, r = NvmfsFileRead(manager, nvm, pos, n, Buffer)
             PROVE  /\ r.size = Most(0, Least(pos + n, acked.len) - pos)
                    /\ r.offset <= Most(pos, acked.len)
                    /\ \A i \in 0 .. r.size - 1 :
                         acked.words[pos + i] # Hole => r.buffer[i] = acked.words[pos + i]
  BY DEF ReadsWritten
<1> DEFINE len == manager.fileMaxLen
           end == Least(pos + n, len)
           E == manager.tree.extents
           b == FileExtentTreeRead(manager.tree, nvm, pos, end, Buffer)
<1>1. /\ FileIn(nvm, manager) = acked /\ len = acked.len
  BY FileAcked DEF IsIdle
<1>2. GoodManager(manager)
  BY DEF Struct, LogStands
<1>3. pos \in Nat /\ n \in Nat \ {0} /\ len \in Nat /\ len <= FileLen /\ FileLen \in Nat
  BY <1>2, PlacesFacts, FileAssumption DEF GoodManager
<1>4. IF pos >= len THEN r.size = 0 /\ r.offset = pos + 0
      ELSE r.size = end - pos /\ r.buffer = b /\ r.offset = pos + (end - pos)
  BY DEF NvmfsFileRead, FileInodeInfoReadData, FileDataManagerReadData
<1> HIDE DEF b, len
<1>5. CASE pos >= len
  <2>1. r.size = 0 /\ r.offset = pos /\ 0 .. r.size - 1 = {}
    BY <1>3, <1>4, <1>5
  <2>2. Most(0, Least(pos + n, len) - pos) = 0 /\ r.offset <= Most(pos, len)
    BY <1>3, <1>5, <2>1 DEF Most, Least
  <2> QED BY <1>1, <2>1, <2>2
<1>6. CASE ~(pos >= len)
  <2>1. /\ end \in Nat /\ pos < end /\ end <= len
        /\ r.size = end - pos /\ r.buffer = b /\ r.offset = end
    BY <1>3, <1>4, <1>6 DEF Least
  <2>2. /\ r.size = Most(0, Least(pos + n, len) - pos) /\ r.offset <= Most(pos, len)
    BY <1>3, <2>1 DEF Most
  <2> HIDE DEF end
  <2>3. Disjointed(E) /\ \A x \in E : 0 <= x.fileStart
    BY <1>2 DEF GoodManager
  <2>4. Readable(E, pos, end, Buffer)
    <3>1. DOMAIN Buffer = 0 .. 2 * FileLen /\ Buffer = [i \in DOMAIN Buffer |-> Buffer[i]]
      BY DEF Buffer
    <3>2. 0 .. end - pos - 1 \subseteq 0 .. 2 * FileLen
      BY <1>3, <2>1
    <3> QED BY <1>3, <2>1, <2>3, <3>1, <3>2 DEF Readable
  <2>5. \A x \in E : Copied(nvm, pos, end, b, x)
    BY <2>4, ReadFacts DEF b
  <2>6. ASSUME NEW i \in 0 .. r.size - 1, acked.words[pos + i] # Hole
        PROVE  r.buffer[i] = acked.words[pos + i]
    <3> DEFINE o == pos + i
    <3>1. o \in pos .. end - 1 /\ o \in Offsets /\ o \in Int /\ o - pos = i
      BY <1>3, <2>1 DEF Offsets
    <3>2. acked.words[o] = At(nvm, E, o)
      BY <1>1, <3>1 DEF FileIn
    <3>3. acked.words[o] # Hole
      BY <2>6
    <3> HIDE DEF o
    <3>4. PICK x \in E : o \in FileWords(x)
      BY <2>3, <3>1, <3>2, <3>3, AtFacts
    <3>5. At(nvm, E, o) = nvm[x.start + (o - x.fileStart)]
      BY <2>3, <3>1, <3>4, AtFacts
    <3>6. b[o - pos] = nvm[x.start + (o - x.fileStart)]
      BY <2>5, <3>1, <3>4 DEF Copied
    <3>7. r.buffer[i] = acked.words[o]
      BY <2>1, <3>1, <3>2, <3>5, <3>6
    <3> QED BY <3>7 DEF o
  <2> QED BY <1>1, <2>2, <2>6
<1> QED BY <1>5, <1>6

\* Reads give what was written, from any place a seek leads to and into any
\* buffer (FileExtentTreeRead, NvmfsFileRead, NvmfsLlseek).
THEOREM ReadsSafe == Spec => []ReadsWritten
<1> QED BY ReadsKept, Contents, PTL
=============================================================================
