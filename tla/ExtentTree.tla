----------------------------- MODULE ExtentTree -----------------------------
(***************************************************************************)
(* src/src/fs/ExtentTree.c as operators.  A tree of extents is a set of    *)
(* records [start, end) ordered by start: the red-black tree is a way to   *)
(* keep that order, rb_first and rb_next walk it.  An ExtentContainer is   *)
(* the sequence of extents in its array.                                   *)
(*                                                                         *)
(* ExtentTreePut reads next->extent.end after kfree(next); the value read  *)
(* is taken to be the one before the free.                                 *)
(***************************************************************************)
EXTENDS Integers, FiniteSets, SequencesExt

Extent(s, e) == [start |-> s, end |-> e]
NoExtent == Extent(-1, -1)
SizeOf(x) == x.end - x.start

\* The numbers a tree covers.
Covered(tree) == UNION {x.start .. x.end - 1 : x \in tree}

\* The extent that holds addr, or else the last one that starts below it.
ExtentTreeLowerBound(tree, addr) ==
  LET below == {x \in tree : x.start <= addr}
  IN IF below = {} THEN NoExtent
     ELSE CHOOSE x \in below : \A y \in below : y.start <= x.start

\* rb_next(prev), and rb_first where there is no prev.
NextExtent(tree, prev) ==
  LET above == {x \in tree : x.start > prev.start}
  IN IF above = {} THEN NoExtent
     ELSE CHOOSE x \in above : \A y \in above : x.start <= y.start

First(tree) == NextExtent(tree, NoExtent)

ExtentTreePut(tree, s, e) ==
  LET prev == ExtentTreeLowerBound(tree, s)
      next == NextExtent(tree, prev)
      canMergeFront == prev # NoExtent /\ prev.end = s
      canMergeNext == next # NoExtent /\ next.start = e
      joined == Extent(IF canMergeFront THEN prev.start ELSE s,
                       IF canMergeNext THEN next.end ELSE e)
  IN (tree \ ((IF canMergeFront THEN {prev} ELSE {}) \cup
              (IF canMergeNext THEN {next} ELSE {}))) \cup {joined}

\* The extents of a container are put one after the other: the tree after
\* each of them.
BatchPut(tree, container) ==
  LET put[i \in 0 .. Len(container)] ==
        IF i = 0 THEN tree
        ELSE ExtentTreePut(put[i - 1], container[i].start, container[i].end)
  IN put
ExtentTreeBatchPut(tree, container) == BatchPut(tree, container)[Len(container)]

\* Mutant: the rest of a cut extent is not put back into the tree.
TakeStepLosesRest(st) ==
  LET x == First(st.tree) IN
  IF x = NoExtent \/ st.size = 0 THEN st
  ELSE LET n == IF st.size >= SizeOf(x) THEN SizeOf(x) ELSE st.size
       IN [tree |-> st.tree \ {x}, size |-> st.size - n,
           container |-> Append(st.container, Extent(x.start, x.start + n))]

\* Extents are taken from the front; the last may be cut.
TakeStep(st) ==
  LET x == First(st.tree) IN
  CASE x = NoExtent \/ st.size = 0 -> st
    [] x # NoExtent /\ st.size # 0 /\ st.size >= SizeOf(x) ->
         [tree |-> st.tree \ {x},
          container |-> Append(st.container, x),
          size |-> st.size - SizeOf(x)]
    [] OTHER ->
         [tree |-> (st.tree \ {x}) \cup {Extent(x.start + st.size, x.end)},
          container |-> Append(st.container,
                               Extent(x.start, x.start + st.size)),
          size |-> 0]

\* Each pass takes one number at least: size passes do.
Taking(tree, size) ==
  LET st[i \in 0 .. size] ==
        IF i = 0 THEN [tree |-> tree, container |-> << >>, size |-> size]
        ELSE TakeStep(st[i - 1])
  IN st

\* Mutant: only the first extent is looked at.
GetFirstOnly(tree, size) == Taking(tree, size)[IF size = 0 THEN 0 ELSE 1]

ExtentTreeGet(tree, size) == Taking(tree, size)[size]

\* container->size, which ExtentContainerAppend adds up.
SizeUpTo(container) ==
  LET sum[i \in 0 .. Len(container)] ==
        IF i = 0 THEN 0 ELSE sum[i - 1] + SizeOf(container[i])
  IN sum
ContainerSize(container) == SizeUpTo(container)[Len(container)]

\* The numbers of a container in order: the double loop over its extents.
RunOf(x) == [k \in 1 .. SizeOf(x) |-> x.start + k - 1]
Unrolling(container) ==
  LET part[i \in 0 .. Len(container)] ==
        IF i = 0 THEN << >> ELSE part[i - 1] \o RunOf(container[i])
  IN part
Unrolled(container) == Unrolling(container)[Len(container)]

\* Holes below maxSize become the extents, extents the holes.
ReverseStep(st) ==
  LET x == First(st.tree) IN
  IF x = NoExtent THEN st
  ELSE [tree |-> st.tree \ {x},
        new |-> IF st.lastHole < x.start
                THEN ExtentTreePut(st.new, st.lastHole, x.start)
                ELSE st.new,
        lastHole |-> x.end]

Reversing(tree, maxSize) ==
  LET st[i \in 0 .. maxSize] ==
        IF i = 0 THEN [tree |-> tree, new |-> {}, lastHole |-> 0]
        ELSE ReverseStep(st[i - 1])
  IN st

ExtentTreeReverseHolesAndExtents(tree, maxSize) ==
  LET walk == Reversing(tree, maxSize)[maxSize]
  IN IF walk.lastHole # maxSize
     THEN ExtentTreePut(walk.new, walk.lastHole, maxSize)
     ELSE walk.new

\* Extents are not empty and no two of them overlap or even touch: a run of
\* free numbers is always one extent.
Canonical(tree) ==
  /\ \A x \in tree : x.start < x.end
  /\ \A x, y \in tree : x # y => x.end < y.start \/ y.end < x.start
=============================================================================
