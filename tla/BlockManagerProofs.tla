------------------------- MODULE BlockManagerProofs -------------------------
(***************************************************************************)
(* TLAPS proofs about BlockManager, for every number of threads, blocks,   *)
(* wear steps and log entries: first its inductive invariant BlockInv;     *)
(* then, on top of it, what a swap and a reader see.  Up to the first      *)
(* overlap of two list calls LockOneBlock never has to retry; swappers     *)
(* lock in ascending order; a read that returns is atomic; and, for one    *)
(* thread, a crash at any point of a swap can be redone and the hot block  *)
(* keeps its data.                                                         *)
(***************************************************************************)
EXTENDS BlockManager, SharedLemmas

\* BlockColdnessManagerRemove on all lists: only b leaves the lists.
LEMMA UnlinkFacts ==
  ASSUME NEW h \in [Lists -> Seq(Blocks)], ListedOnce(h), NEW b
  PROVE  /\ Unlink(h, b) \in [Lists -> Seq(Blocks)]
         /\ ListedOnce(Unlink(h, b))
         /\ \A e : OnList(Unlink(h, b), e) <=> OnList(h, e) /\ e # b
<1> DEFINE u == Unlink(h, b)
<1>1. ASSUME NEW x \in Lists
      PROVE  /\ u[x] \in Seq(Blocks)
             /\ \A m, n \in DOMAIN u[x] : u[x][m] = u[x][n] => m = n
             /\ \A e : Contains(u[x], e) <=> Contains(h[x], e) /\ e # b
  <2>1. h[x] \in Seq(Blocks) /\ u[x] = RemoveFirst(h[x], b)
    BY DEF Unlink
  <2>2. \A m, n \in DOMAIN h[x] : h[x][m] = h[x][n] => m = n
    BY DEF ListedOnce
  <2> QED BY <2>1, <2>2, RemoveFirstFacts
<1>2. u \in [Lists -> Seq(Blocks)]
  BY <1>1 DEF Unlink
<1> HIDE DEF u
<1>3. \A e : OnList(u, e) <=> OnList(h, e) /\ e # b
  BY <1>1 DEF OnList
<1>4. ASSUME NEW x \in Lists, NEW y \in Lists, NEW m \in DOMAIN u[x],
             NEW n \in DOMAIN u[y], u[x][m] = u[y][n]
      PROVE  x = y /\ m = n
  <2>1. Contains(u[x], u[x][m]) /\ Contains(u[y], u[x][m])
    <3>1. u[x] \in Seq(Blocks) /\ u[y] \in Seq(Blocks)
      BY <1>1
    <3>2. m \in 1 .. Len(u[x]) /\ n \in 1 .. Len(u[y])
      BY <3>1
    <3> QED BY <1>4, <3>2 DEF Contains
  <2>2. Contains(h[x], u[x][m]) /\ Contains(h[y], u[x][m])
    BY <2>1, <1>1
  <2>3. x = y
    BY <2>2 DEF Contains, ListedOnce
  <2> QED BY <1>1, <1>4, <2>3
<1> QED BY <1>2, <1>3, <1>4 DEF u, ListedOnce

\* BlockColdnessManagerPut on all lists: only b joins them, once.
LEMMA AddTailFacts ==
  ASSUME NEW h \in [Lists -> Seq(Blocks)], NEW b \in Blocks,
         NEW i \in Steps, NEW isBusy \in BOOLEAN
  PROVE  LET a == AddTail(h, b, i, isBusy) IN
         /\ a \in [Lists -> Seq(Blocks)]
         /\ ListedOnce(h) /\ ~OnList(h, b) => ListedOnce(a)
         /\ \A e : OnList(a, e) <=> OnList(h, e) \/ e = b
<1> DEFINE a == AddTail(h, b, i, isBusy)
           z == <<isBusy, i>>
<1>1. z \in Lists
  BY DEF Lists
<1>2. a = [h EXCEPT ![z] = Append(h[z], b)]
  BY <1>1 DEF AddTail
<1>3. /\ Append(h[z], b) \in Seq(Blocks)
      /\ \A e : Contains(Append(h[z], b), e) <=> Contains(h[z], e) \/ e = b
      /\ ~Contains(h[z], b) /\ (\A m, n \in DOMAIN h[z] :
                                   h[z][m] = h[z][n] => m = n)
          => \A m, n \in DOMAIN Append(h[z], b) :
                Append(h[z], b)[m] = Append(h[z], b)[n] => m = n
  <2> HIDE DEF z
  <2>1. h[z] \in Seq(Blocks)
    BY <1>1
  <2> QED BY <2>1, AppendFacts
<1> HIDE DEF z, a
<1>4. a \in [Lists -> Seq(Blocks)]
  BY <1>1, <1>2, <1>3
<1>5. \A e : OnList(a, e) <=> OnList(h, e) \/ e = b
  BY <1>1, <1>2, <1>3 DEF OnList
<1>6. ASSUME ListedOnce(h), ~OnList(h, b) PROVE ListedOnce(a)
  <2>1. ~Contains(h[z], b)
    BY <1>1, <1>6 DEF OnList
  <2>2. \A m, n \in DOMAIN h[z] : h[z][m] = h[z][n] => m = n
    BY <1>1, <1>6 DEF ListedOnce
  <2>3. \A m, n \in DOMAIN a[z] : a[z][m] = a[z][n] => m = n
    BY <1>1, <1>2, <1>3, <2>1, <2>2
  <2>4. ASSUME NEW x \in Lists, NEW m \in DOMAIN a[z], NEW n \in DOMAIN a[x],
               x # z
        PROVE  a[z][m] # a[x][n]
    <3>1. a[x] = h[x] /\ a[z] = Append(h[z], b)
      BY <1>1, <1>2, <2>4
    <3>2. Contains(h[x], a[x][n])
      BY <2>4, <3>1 DEF Contains
    <3>3. a[x][n] # b
      BY <1>6, <3>2, <2>4 DEF OnList
    <3>4. SUFFICES ASSUME a[z][m] = a[x][n] PROVE FALSE
      OBVIOUS
    <3>5. Contains(a[z], a[z][m])
      BY <1>1, <1>4 DEF Contains
    <3>6. Contains(h[z], a[x][n])
      BY <1>3, <3>1, <3>3, <3>4, <3>5
    <3> QED BY <1>1, <1>6, <2>4, <3>2, <3>6 DEF ListedOnce, Contains
  <2>5. ASSUME NEW x \in Lists, NEW y \in Lists, NEW m \in DOMAIN a[x],
               NEW n \in DOMAIN a[y], a[x][m] = a[y][n]
        PROVE  x = y /\ m = n
    <3>1. CASE x = z
      BY <2>3, <2>4, <2>5, <3>1
    <3>2. CASE y = z /\ x # z
      BY <2>4, <2>5, <3>2
    <3>3. CASE x # z /\ y # z
      BY <1>1, <1>2, <1>6, <2>5, <3>3 DEF ListedOnce
    <3> QED BY <3>1, <3>2, <3>3
  <2> QED BY <2>5 DEF ListedOnce
<1> QED BY <1>4, <1>5, <1>6 DEF a

\* UINT32 wear counts index a list, and stay in range when charged.
LEMMA WearFacts ==
  ASSUME NEW wc \in WearCounts, NEW n \in Nat
  PROVE  WearStep(wc) \in Steps /\ Charge(wc, n) \in WearCounts
<1> DEFINE T == STEP_WEAR_COUNT
           W == WEAR_STEP_NUMS
           q == wc \div T
<1>1. T \in Nat /\ T > 0 /\ W \in Nat /\ W > 0 /\ wc \in Nat /\ wc < T * W
  BY WearAssumption DEF WearCounts, MAX_WEAR_COUNT
<1>2. T * W \in Nat /\ T * W > 0
  BY <1>1
<1>3. q \in Nat /\ T * q <= wc
  BY <1>1
<1>4. q < W
  <2>1. SUFFICES ASSUME q >= W PROVE FALSE
    BY <1>1, <1>3
  <2> HIDE DEF q, T, W
  <2>2. T * q >= T * W
    BY <1>1, <1>3, <2>1
  <2> QED BY <1>1, <1>2, <1>3, <2>2
<1>5. Charge(wc, n) \in WearCounts
  BY <1>1, <1>2 DEF Charge, WearCounts, MAX_WEAR_COUNT
<1> QED BY <1>1, <1>3, <1>4, <1>5 DEF WearStep, Steps

\* One increment of a sequence lock stays in its bit-field and flips parity.
LEMMA BumpFacts ==
  ASSUME NEW n \in 0 .. LOCK_RANGE - 1
  PROVE  /\ Bump(n) \in 0 .. LOCK_RANGE - 1
         /\ Bump(n) % 2 = 1 <=> ~(n % 2 = 1)
<1>1. LOCK_RANGE \in Nat /\ LOCK_RANGE > 0 /\ LOCK_RANGE % 2 = 0
  BY LockAssumption
<1>2. Bump(n) = IF n + 1 = LOCK_RANGE THEN 0 ELSE n + 1
  BY <1>1 DEF Bump
<1> QED BY <1>1, <1>2

\* LowestTodo picks, of the two or three blocks of a swap, the lowest one that
\* is still to be locked.
LEMMA LowestTodoFacts ==
  ASSUME NEW t \in Threads, TypeOK, BlocksChosen(t), pc[t] \in Locking
  PROVE  /\ LowestTodo(t) \in todo[t]
         /\ LowestTodo(t) \in SwapRoles(t)
         /\ \A r \in SwapRoles(t) : Part(t, r) \in Blocks
         /\ Wanted(t) \in Blocks
         /\ \A r \in todo[t] : Wanted(t) <= Part(t, r)
<1>1. todo[t] # {} /\ todo[t] \subseteq SwapRoles(t)
  BY DEF BlocksChosen
<1>2. \A r \in SwapRoles(t) : Part(t, r) \in Blocks
  <2>1. blockA[t] \in Blocks /\ blockB[t] \in Blocks
    BY DEF TypeOK, BlocksChosen
  <2>2. blockC[t] \in Blocks \/ blockC[t] = invalid_block
    BY DEF TypeOK, MaybeBlock
  <2> QED BY <2>1, <2>2 DEF SwapRoles, Part, Roles
<1>3. \A q, r \in todo[t] : Part(t, q) <= Part(t, r) \/ Part(t, r) <= Part(t, q)
  BY <1>1, <1>2 DEF Blocks
<1>4. \E r \in todo[t] : \A q \in todo[t] : Part(t, r) <= Part(t, q)
  <2>1. \A r \in todo[t] : Part(t, r) \in Int
    BY <1>1, <1>2 DEF Blocks
  <2>2. todo[t] \subseteq {"A", "B", "C"}
    BY <1>1 DEF SwapRoles, Roles
  <2> QED BY <1>1, <2>1, <2>2
<1>5. /\ LowestTodo(t) \in todo[t]
      /\ \A q \in todo[t] : Part(t, LowestTodo(t)) <= Part(t, q)
  BY <1>4 DEF LowestTodo
<1> QED BY <1>1, <1>2, <1>5 DEF Wanted

\* Once they are locked, the blocks of a swap are real and different.
LEMMA PartsDiffer ==
  ASSUME NEW t \in Threads, TypeOK, BlocksChosen(t),
         pc[t] \in Swapping \cup Putting
  PROVE  /\ blockA[t] \in Blocks /\ blockB[t] \in Blocks
         /\ blockA[t] # blockB[t]
         /\ blockC[t] # invalid_block =>
              blockC[t] \in Blocks \ {blockA[t], blockB[t]}
<1>1. \A q, r \in SwapRoles(t) : Part(t, q) = Part(t, r) => q = r
  BY DEF BlocksChosen
<1>2. /\ {"A", "B"} \subseteq SwapRoles(t)
      /\ blockC[t] # invalid_block => "C" \in SwapRoles(t)
  BY DEF SwapRoles, Roles
<1>3. Part(t, "A") = blockA[t] /\ Part(t, "B") = blockB[t]
  BY DEF Part
<1>4. Part(t, "C") = blockC[t]
  BY DEF Part
<1>5. blockA[t] # blockB[t]
  BY <1>1, <1>2, <1>3
<1>6. blockC[t] # invalid_block =>
        blockC[t] # blockA[t] /\ blockC[t] # blockB[t]
  BY <1>1, <1>2, <1>3, <1>4
<1> QED BY <1>5, <1>6 DEF TypeOK, MaybeBlock, BlocksChosen

\* Every step of every thread keeps TypeOK; the swap's blocks must be known to
\* be real, which is why the whole of BlockInv is assumed.
LEMMA TypeStep ==
  BlockInv /\ [Next]_vars => TypeOK'
<1> SUFFICES ASSUME BlockInv, [Next]_vars PROVE TypeOK'
  OBVIOUS
<1> USE DEF mapVars, coldVars, wearVars, logVars, argVars, readVars, swapVars,
            Goto, At
<1>T. TypeOK
  BY DEF BlockInv
<1>1. CASE UNCHANGED vars
  BY <1>T, <1>1 DEF TypeOK, vars
<1>2. ASSUME NEW t \in Threads, Start(t) PROVE TypeOK'
  <2>1. ASSUME NEW l \in Blocks, NEW k \in OpKinds, Begin(t, k, l),
               NEW p \in Labels, pc' = [pc EXCEPT ![t] = p],
               value' \in [Threads -> Values \cup {Blank}],
               inc' \in [Threads -> Nat]
        PROVE  TypeOK'
    <3>1. ops' \in 0 .. MaxOps
      BY <1>T, <2>1, OpAssumption DEF TypeOK, Begin
    <3> QED BY <1>T, <2>1, <3>1 DEF TypeOK, Begin
  <2>2. ASSUME NEW l \in Blocks, NEW v \in Values, NEW n \in Increases,
               BeginWrite(t, l, v, n)
        PROVE  TypeOK'
    BY <1>T, <2>1, <2>2, WearAssumption
       DEF BeginWrite, TypeOK, Labels, OpKinds
  <2>3. ASSUME NEW l \in Blocks, NEW k \in Ops, BeginOther(t, k, l)
        PROVE  TypeOK'
    BY <1>T, <2>1, <2>3, OpAssumption DEF BeginOther, TypeOK, Labels
  <2> QED BY <1>2, <2>2, <2>3 DEF Start
<1>3. ASSUME NEW t \in Threads, Read(t) PROVE TypeOK'
  <2>1. CASE MapTableLockBlockForRead(t)
    BY <1>T, <2>1 DEF TypeOK, MapTableLockBlockForRead, Labels
  <2>2. CASE ReadQuery(t)
    BY <1>T, <2>2 DEF TypeOK, ReadQuery, Labels
  <2>3. CASE ReadHalf(t)
    <3>1. /\ pc' \in [Threads -> Labels]
          /\ buf' \in [Threads -> Halves]
      BY <1>T, <2>3 DEF TypeOK, ReadHalf, Labels, Halves
    <3> QED BY <1>T, <2>3, <3>1 DEF TypeOK, ReadHalf
  <2>4. CASE MapTableUnlockBlockForRead(t)
    BY <1>T, <2>4 DEF TypeOK, MapTableUnlockBlockForRead, Labels
  <2> QED BY <1>3, <2>1, <2>2, <2>3, <2>4 DEF Read
<1>L. ASSUME NEW t \in Threads, NEW h, LeaveLists(t, h),
             ~mixed => h \in [Lists -> Seq(Blocks)]
      PROVE  /\ heads' \in [Lists -> Seq(Blocks)]
             /\ listing' \in SUBSET Threads
             /\ mixed' \in BOOLEAN
  BY <1>T, <1>L DEF LeaveLists, TypeOK
<1>U. ASSUME NEW b, ~mixed PROVE Unlink(heads, b) \in [Lists -> Seq(Blocks)]
  BY <1>T, <1>U, UnlinkFacts DEF TypeOK, BlockInv, ColdnessOwned
<1>4. ASSUME NEW t \in Threads, NEW b, NEW n \in Labels,
             BlockColdnessManagerRemove(t, b, n)
      PROVE  TypeOK'
  <2>1. /\ heads' \in [Lists -> Seq(Blocks)]
        /\ listing' \in SUBSET Threads
        /\ mixed' \in BOOLEAN
    BY <1>4, <1>L, <1>U DEF BlockColdnessManagerRemove
  <2>2. pc' \in [Threads -> Labels]
    BY <1>T, <1>4 DEF BlockColdnessManagerRemove, TypeOK, Labels
  <2> QED BY <1>T, <1>4, <2>1, <2>2 DEF BlockColdnessManagerRemove, TypeOK
<1>5. ASSUME NEW t \in Threads, NEW b \in Blocks, NEW wc \in WearCounts,
             NEW isBusy \in BOOLEAN, NEW n \in Labels,
             BlockColdnessManagerPut(t, b, wc, isBusy, n)
      PROVE  TypeOK'
  <2>1. WearStep(wc) \in Steps
    BY WearFacts
  <2>2. AddTail(heads, b, WearStep(wc), isBusy) \in [Lists -> Seq(Blocks)]
    BY <1>T, <2>1, AddTailFacts DEF TypeOK
  <2>3. /\ heads' \in [Lists -> Seq(Blocks)]
        /\ listing' \in SUBSET Threads
        /\ mixed' \in BOOLEAN
    BY <1>5, <1>L, <2>2 DEF BlockColdnessManagerPut
  <2> QED BY <1>T, <1>5, <2>3 DEF BlockColdnessManagerPut, TypeOK
<1>6. ASSUME NEW t \in Threads, Update(t) PROVE TypeOK'
  <2>1. CASE MapTableLockBlockForWrite(t)
    <3>1. lock' \in [Blocks -> 0 .. LOCK_RANGE - 1]
      BY <1>T, <2>1, BumpFacts DEF TypeOK, MapTableLockBlockForWrite
    <3>2. pc' \in [Threads -> Labels] /\ held' \in [Threads -> SUBSET Blocks]
      BY <1>T, <2>1 DEF TypeOK, MapTableLockBlockForWrite, Labels
    <3> QED BY <1>T, <2>1, <3>1, <3>2 DEF TypeOK, MapTableLockBlockForWrite
  <2>2. CASE WriteHalf(t)
    BY <1>T, <2>2 DEF TypeOK, WriteHalf, Labels, Halves
  <2>3. CASE TrimRead(t)
    BY <1>T, <2>3 DEF TypeOK, TrimRead, Labels
  <2>4. CASE TrimRemove(t)
    BY <1>4, <2>4 DEF TrimRemove, Labels
  <2>5. CASE TrimPut(t)
    BY <1>T, <1>5, <2>5 DEF TrimPut, TypeOK, Labels
  <2>6. ASSUME NEW fine \in BOOLEAN, NEW n \in Nat, SetGrain(t, fine, n)
        PROVE  TypeOK'
    <3>1. wear' \in [Blocks -> WearCounts]
      BY <1>T, <2>6, WearFacts DEF SetGrain, TypeOK
    <3>2. unmap' \in [Blocks -> [unmapBlock : Blocks, fineGrain : BOOLEAN]]
      <4> DEFINE p == physBlockIndex[addr[t]]
                 i == [unmap[p] EXCEPT !.fineGrain = fine]
      <4>1. unmap[p] \in [unmapBlock : Blocks, fineGrain : BOOLEAN]
        BY <1>T DEF TypeOK
      <4>2. i \in [unmapBlock : Blocks, fineGrain : BOOLEAN]
        BY <4>1
      <4>3. unmap' = [unmap EXCEPT ![p] = i]
        BY <2>6 DEF SetGrain
      <4> QED BY <1>T, <4>2, <4>3 DEF TypeOK
    <3>3. pc' \in [Threads -> Labels]
      BY <1>T, <2>6 DEF SetGrain, TypeOK, Labels
    <3> QED BY <1>T, <2>6, <3>1, <3>2, <3>3 DEF SetGrain, TypeOK
  <2>7. CASE Split(t)
    BY <2>6, <2>7 DEF Split
  <2>8. CASE \E n \in MergeWear : Merge(t, n)
    BY <2>6, <2>8, WearAssumption DEF Merge
  <2>9. CASE MapTableUnlockBlockForWrite(t)
    BY <1>T, <2>9, BumpFacts DEF TypeOK, MapTableUnlockBlockForWrite, Labels
  <2> QED BY <1>6, <2>1, <2>2, <2>3, <2>4, <2>5, <2>7, <2>8, <2>9 DEF Update
<1>7. ASSUME NEW t \in Threads, IncreaseBlockWearCount(t) PROVE TypeOK'
  <2>1. CASE ReadThreshold(t)
    BY <1>T, <2>1 DEF TypeOK, ReadThreshold, Labels
  <2>2. CASE ReadWear(t)
    BY <1>T, <2>2 DEF TypeOK, ReadWear, Labels
  <2>3. CASE ChargeWear(t)
    <3>1. wear' \in [Blocks -> WearCounts]
      BY <1>T, <2>3, WearFacts DEF ChargeWear, TypeOK
    <3> QED BY <1>T, <2>3, <3>1 DEF TypeOK, ChargeWear, Labels
  <2>4. CASE RemoveHot(t)
    BY <1>4, <2>4 DEF RemoveHot, Labels
  <2>5. CASE \E b \in MaybeBlock : GetFree(t, b)
    <3>1. PICK b \in MaybeBlock : GetFree(t, b)
      BY <2>5
    <3>2. /\ heads' \in [Lists -> Seq(Blocks)]
          /\ listing' \in SUBSET Threads
          /\ mixed' \in BOOLEAN
      BY <1>L, <1>U, <3>1 DEF GetFree, Get
    <3>3. pc' \in [Threads -> Labels]
      BY <1>T, <3>1 DEF GetFree, TypeOK, Labels
    <3>4. /\ blockB' \in [Threads -> MaybeBlock]
          /\ blockC' \in [Threads -> MaybeBlock]
          /\ todo' \in [Threads -> SUBSET Roles]
      BY <1>T, <3>1 DEF GetFree, TypeOK, MaybeBlock, Roles
    <3> QED BY <1>T, <3>1, <3>2, <3>3, <3>4 DEF GetFree, TypeOK
  <2>6. CASE \E b \in MaybeBlock : GetBusy(t, b)
    <3>1. PICK b \in MaybeBlock : GetBusy(t, b)
      BY <2>6
    <3>2. /\ heads' \in [Lists -> Seq(Blocks)]
          /\ listing' \in SUBSET Threads
          /\ mixed' \in BOOLEAN
      BY <1>L, <1>U, <3>1 DEF GetBusy, Get
    <3>3. pc' \in [Threads -> Labels]
      BY <1>T, <3>1 DEF GetBusy, TypeOK, Labels
    <3>4. /\ blockB' \in [Threads -> MaybeBlock]
          /\ blockC' \in [Threads -> MaybeBlock]
          /\ todo' \in [Threads -> SUBSET Roles]
      BY <1>T, <3>1 DEF GetBusy, TypeOK, MaybeBlock, Roles
    <3> QED BY <1>T, <3>1, <3>2, <3>3, <3>4 DEF GetBusy, TypeOK
  <2>7. CASE \E b \in MaybeBlock : GetWorn(t, b)
    <3>1. PICK b \in MaybeBlock : GetWorn(t, b)
      BY <2>7
    <3>2. /\ heads' \in [Lists -> Seq(Blocks)]
          /\ listing' \in SUBSET Threads
          /\ mixed' \in BOOLEAN
      BY <1>L, <1>U, <3>1 DEF GetWorn, Get
    <3>3. pc' \in [Threads -> Labels]
      BY <1>T, <3>1 DEF GetWorn, TypeOK, Labels
    <3>4. /\ blockB' \in [Threads -> MaybeBlock]
          /\ blockC' \in [Threads -> MaybeBlock]
          /\ todo' \in [Threads -> SUBSET Roles]
      BY <1>T, <3>1 DEF GetWorn, TypeOK, MaybeBlock, Roles
    <3> QED BY <1>T, <3>1, <3>2, <3>3, <3>4 DEF GetWorn, TypeOK
  <2>8. CASE PutBack(t)
    BY <1>T, <1>5, <2>8 DEF PutBack, TypeOK, Labels
  <2>W. \A wc \in WearCounts : Charge(wc, STEP_WEAR_COUNT) \in WearCounts
    BY WearFacts, WearAssumption
  <2>9. CASE RaiseThreshold(t)
    <3>1. pc' \in [Threads -> Labels]
      <4>1. \/ pc' = [pc EXCEPT ![t] = "persist"]
            \/ pc' = [pc EXCEPT ![t] = "idle"]
        BY <2>9 DEF RaiseThreshold
      <4>2. {"persist", "idle"} \subseteq Labels
        BY DEF Labels
      <4>3. pc \in [Threads -> Labels]
        BY <1>T DEF TypeOK
      <4> QED BY ONLY <4>1, <4>2, <4>3, t \in Threads
    <3>2. threshold' \in WearCounts
      BY <1>T, <2>W, <2>9 DEF TypeOK, RaiseThreshold
    <3> QED BY <1>T, <2>9, <3>1, <3>2 DEF TypeOK, RaiseThreshold
  <2>10. CASE PersistThreshold(t)
    BY <1>T, <2>W, <2>10 DEF TypeOK, PersistThreshold, Labels
  <2> QED BY <1>7, <2>1, <2>2, <2>3, <2>4, <2>5, <2>6, <2>7, <2>8, <2>9,
             <2>10 DEF IncreaseBlockWearCount
<1>8. ASSUME NEW t \in Threads, BlockSwap(t) PROVE TypeOK'
  <2>C. BlocksChosen(t)
    BY DEF BlockInv
  <2>E. ASSUME NEW e \in Entries
        PROVE  /\ \A n \in {0, 1, 2} : [e EXCEPT !.type = n] \in Entries
               /\ \A n \in {2, 3} :
                    [e EXCEPT !.step = @ \cup {n}] \in Entries
    BY DEF Entries
  <2>1. CASE GetUnmap(t)
    <3>1. Wanted(t) \in Blocks
      BY <1>T, <2>C, <2>1, LowestTodoFacts DEF GetUnmap, Locking
    <3> QED BY <1>T, <2>1, <3>1 DEF TypeOK, GetUnmap, Labels
  <2>2. CASE LockMap(t)
    <3>1. \A n \in 0 .. LOCK_RANGE - 1 :
             /\ Bump(n) \in 0 .. LOCK_RANGE - 1
             /\ Bump(Bump(n)) \in 0 .. LOCK_RANGE - 1
      BY BumpFacts
    <3>2. lock' \in [Blocks -> 0 .. LOCK_RANGE - 1]
      BY <1>T, <2>2, <3>1 DEF TypeOK, LockMap
    <3>3. pc' \in [Threads -> Labels]
      BY <1>T, <2>2 DEF TypeOK, LockMap, Labels
    <3>4. /\ held' \in [Threads -> SUBSET Blocks]
          /\ todo' \in [Threads -> SUBSET Roles]
      BY <1>T, <2>2 DEF TypeOK, LockMap
    <3> QED BY <1>T, <2>2, <3>2, <3>3, <3>4 DEF TypeOK, LockMap
  <2>3. CASE LogBegin(t)
    <3> DEFINE infos == [A |-> unmap[blockA[t]],
                         B |-> unmap[blockB[t]],
                         C |-> IF blockC[t] = invalid_block THEN NoInfo
                                                   ELSE unmap[blockC[t]]]
               entry == [type |-> 0, info |-> infos, step |-> {0},
                         blocks |-> [A |-> blockA[t], B |-> blockB[t],
                                     C |-> blockC[t]]]
    <3>1. blockB[t] \in Blocks /\ blockC[t] \in Blocks \cup {invalid_block}
      BY <1>T, <2>C, <2>3
         DEF LogBegin, BlocksChosen, Swapping, TypeOK, MaybeBlock
    <3>2. infos \in Infos
      BY <1>T, <3>1 DEF TypeOK, Infos, BlockInfo, NoInfo
    <3>3. entry \in Entries
      <4> HIDE DEF infos
      <4> QED BY <1>T, <3>1, <3>2 DEF TypeOK, Entries, MaybeBlock
    <3>4. /\ info' = [info EXCEPT ![t] = infos]
          /\ log' = [log EXCEPT ![logIndex] = entry]
      BY <2>3 DEF LogBegin
    <3> HIDE DEF infos, entry
    <3>5. /\ info' \in [Threads -> Infos]
          /\ log' \in [Slots -> Entries]
      BY <1>T, <3>2, <3>3, <3>4 DEF TypeOK
    <3>6. /\ pc' \in [Threads -> Labels]
          /\ slot' \in [Threads -> Slots]
      BY <1>T, <2>3 DEF TypeOK, LogBegin, Labels
    <3>7. UNCHANGED <<mapVars, wearVars, logIndex, data, content, ops, argVars,
                      readVars, thr, wcA, wcB, wcC, blockA, blockB, blockC,
                      todo, cand, held>>
      BY <2>3 DEF LogBegin
    <3> QED BY <1>T, <3>5, <3>6, <3>7 DEF TypeOK
  <2>4. CASE LogType(t)
    <3>1. logIndex' \in Slots
      BY <1>T, <2>4, LogAssumption DEF LogType, TypeOK, Slots
    <3>2. log' \in [Slots -> Entries]
      BY <1>T, <2>4, <2>E DEF LogType, TypeOK
    <3>3. pc' \in [Threads -> Labels]
      BY <1>T, <2>4 DEF TypeOK, LogType, Labels
    <3> QED BY <1>T, <2>4, <3>1, <3>2, <3>3 DEF TypeOK, LogType
  <2>5. ASSUME NEW from \in Blocks, NEW to \in Blocks, NEW half \in {1, 2},
               NEW mark \in {2, 3}, NEW n \in Labels,
               Copy(t, from, to, half, mark, n)
        PROVE  TypeOK'
    <3>1. data' \in [Blocks -> Halves]
      BY <1>T, <2>5 DEF Copy, TypeOK, Halves
    <3>2. log' \in [Slots -> Entries]
      <4>1. log[slot[t]] \in Entries
        BY <1>T DEF TypeOK
      <4>2. [log[slot[t]] EXCEPT !.step = @ \cup {mark}] \in Entries
        BY <2>E, <4>1
      <4> QED BY <1>T, <2>5, <4>2 DEF Copy, TypeOK
    <3> QED BY <1>T, <2>5, <3>1, <3>2 DEF Copy, TypeOK
  <2>6. CASE CopyBtoC(t)
    <3>1. blockB[t] \in Blocks /\ blockC[t] \in Blocks
      BY <1>T, <2>6, <2>C
         DEF CopyBtoC, BlocksChosen, Swapping, TypeOK, MaybeBlock
    <3> QED BY <2>5, <2>6, <3>1 DEF CopyBtoC, Labels
  <2>7. CASE CopyAtoB(t)
    <3>1. blockB[t] \in Blocks /\ blockA[t] \in Blocks
      BY <1>T, <2>7, <2>C DEF CopyAtoB, BlocksChosen, Swapping, TypeOK
    <3> QED BY <2>5, <2>7, <3>1 DEF CopyAtoB, Labels
  <2>8. ASSUME NEW p \in Blocks, NEW i, NEW n \in Labels, SetUnmap(t, p, i, n),
               i.unmapBlock \in Blocks, i \in BlockInfo
        PROVE  TypeOK'
    <3>1. i \in [unmapBlock : Blocks, fineGrain : BOOLEAN]
      BY <2>8 DEF BlockInfo
    <3> QED BY <1>T, <2>8, <3>1 DEF SetUnmap, TypeOK
  <2>9. ASSUME pc[t] \in Logged
        PROVE  /\ \A i \in {info[t].A, info[t].B} :
                    i \in BlockInfo /\ i.unmapBlock \in Blocks
               /\ blockC[t] # invalid_block =>
                    info[t].C \in BlockInfo /\ info[t].C.unmapBlock \in Blocks
    BY <1>T, <2>9 DEF BlockInv, SwapPinned, Pinned, TypeOK, Infos
  <2>10. CASE SetUnmapA(t)
    BY <1>T, <2>8, <2>9, <2>10
       DEF SetUnmapA, Logged, Swapping, Labels, TypeOK
  <2>11. CASE SetUnmapB(t)
    <3>1. blockB[t] \in Blocks
      BY <2>11, <2>C DEF SetUnmapB, BlocksChosen, Swapping
    <3> QED BY <2>8, <2>9, <2>11, <3>1 DEF SetUnmapB, Logged, Swapping, Labels
  <2>12. CASE SetUnmapC(t)
    <3>1. blockC[t] \in Blocks
      BY <1>T, <2>12, <2>C DEF SetUnmapC, BlocksChosen, Swapping, TypeOK, MaybeBlock
    <3> QED BY <2>8, <2>9, <2>12, <3>1 DEF SetUnmapC, Logged, Swapping, Labels
  <2>13. CASE MapSwap(t)
    <3>1. /\ info[t].A.unmapBlock \in Blocks
          /\ info[t].B.unmapBlock \in Blocks
          /\ blockC[t] # invalid_block => info[t].C.unmapBlock \in Blocks
      BY <2>9, <2>13 DEF MapSwap, Logged, Swapping
    <3>2. physBlockIndex' \in [Blocks -> Blocks]
      <4> DEFINE a == info[t].A.unmapBlock
                 b == info[t].B.unmapBlock
                 c == info[t].C.unmapBlock
                 m == physBlockIndex
      <4>1. \/ /\ blockC[t] = invalid_block
               /\ physBlockIndex' = [m EXCEPT ![a] = m[b], ![b] = m[a]]
            \/ /\ blockC[t] # invalid_block
               /\ physBlockIndex' = [m EXCEPT ![a] = m[b], ![b] = m[c],
                                              ![c] = m[a]]
        BY <2>13 DEF MapSwap
      <4>2. a \in Blocks /\ b \in Blocks /\ m \in [Blocks -> Blocks]
        BY <1>T, <3>1 DEF TypeOK
      <4>3. blockC[t] # invalid_block => c \in Blocks
        BY <3>1
      <4> HIDE DEF a, b, c, m
      <4> QED BY <4>1, <4>2, <4>3
    <3> QED BY <1>T, <2>13, <3>2 DEF MapSwap, TypeOK, Labels
  <2>14. CASE LogBlockSwapEnd(t)
    <3>1. log' \in [Slots -> Entries]
      BY <1>T, <2>14, <2>E DEF LogBlockSwapEnd, TypeOK
    <3>2. pc' \in [Threads -> Labels]
      BY <1>T, <2>14 DEF TypeOK, LogBlockSwapEnd, Labels
    <3> QED BY <1>T, <2>14, <3>1, <3>2 DEF TypeOK, LogBlockSwapEnd
  <2>15. CASE Account(t)
    <3> DEFINE worn == Charge(wcA[t], inc[t])
               coldB == Charge(wear[blockB[t]], 1)
               coldC == IF blockC[t] = invalid_block THEN 0
                                          ELSE Charge(wear[blockC[t]], 1)
    <3>1. /\ blockB[t] \in Blocks
          /\ blockC[t] # invalid_block => blockC[t] \in Blocks
      BY <1>T, <2>15, <2>C
         DEF Account, BlocksChosen, Swapping, TypeOK, MaybeBlock
    <3>2. 0 \in WearCounts
      <4>1. MAX_WEAR_COUNT \in Int
        BY WearAssumption DEF MAX_WEAR_COUNT
      <4> QED BY <1>T, <4>1 DEF WearCounts, TypeOK
    <3>3. worn \in WearCounts /\ coldB \in WearCounts /\ coldC \in WearCounts
      BY <1>T, <3>1, <3>2, WearFacts DEF TypeOK
    <3>4. /\ wcA' = [wcA EXCEPT ![t] = worn]
          /\ wcB' = [wcB EXCEPT ![t] = coldB]
          /\ wcC' = [wcC EXCEPT ![t] = coldC]
          /\ wear' = IF blockC[t] = invalid_block
                     THEN [wear EXCEPT ![blockA[t]] = worn, ![blockB[t]] = coldB]
                     ELSE [wear EXCEPT ![blockA[t]] = worn, ![blockB[t]] = coldB,
                                       ![blockC[t]] = coldC]
      BY <2>15 DEF Account
    <3> HIDE DEF worn, coldB, coldC
    <3>5. wear' \in [Blocks -> WearCounts]
      BY <1>T, <3>3, <3>4 DEF TypeOK
    <3>6. /\ wcA' \in [Threads -> WearCounts]
          /\ wcB' \in [Threads -> WearCounts]
          /\ wcC' \in [Threads -> WearCounts]
      BY <1>T, <3>3, <3>4 DEF TypeOK
    <3>7. /\ pc' \in [Threads -> Labels]
          /\ UNCHANGED <<mapVars, threshold, nvmThreshold, coldVars, logVars,
                         data, content, ops, argVars, readVars, thr, blockA,
                         blockB, blockC, todo, cand, info, slot, held>>
      BY <1>T, <2>15 DEF Account, TypeOK, Labels
    <3> QED BY <1>T, <3>5, <3>6, <3>7 DEF TypeOK
  <2>16. CASE PutA(t)
    BY <1>T, <1>5, <2>16 DEF PutA, TypeOK, Labels
  <2>17. CASE PutB(t)
    <3>1. blockB[t] \in Blocks
      BY <2>17, <2>C DEF PutB, BlocksChosen, Putting
    <3> QED BY <1>T, <1>5, <2>17, <3>1 DEF PutB, TypeOK, Labels
  <2>18. CASE PutC(t)
    <3>1. blockC[t] \in Blocks
      BY <1>T, <2>18, <2>C DEF PutC, BlocksChosen, Putting, TypeOK, MaybeBlock
    <3> QED BY <1>T, <1>5, <2>18, <3>1 DEF PutC, TypeOK, Labels
  <2>19. CASE \E l \in Blocks : UnlockSwap(t, l)
    <3>1. PICK l \in Blocks : UnlockSwap(t, l)
      BY <2>19
    <3>2. lock' \in [Blocks -> 0 .. LOCK_RANGE - 1]
      BY <1>T, <3>1, BumpFacts DEF UnlockSwap, TypeOK
    <3>3. pc' \in [Threads -> Labels]
      BY <1>T, <3>1 DEF UnlockSwap, TypeOK, Labels
    <3>4. held' \in [Threads -> SUBSET Blocks]
      BY <1>T, <3>1 DEF UnlockSwap, TypeOK
    <3> QED BY <1>T, <3>1, <3>2, <3>3, <3>4 DEF UnlockSwap, TypeOK
  <2> QED BY <1>8, <2>1, <2>2, <2>3, <2>4, <2>6, <2>7, <2>10, <2>11, <2>12,
             <2>13, <2>14, <2>15, <2>16, <2>17, <2>18, <2>19 DEF BlockSwap
<1>9. ASSUME NEW t \in Threads, EnterLists(t) PROVE TypeOK'
  <2>1. NoLists \in [Lists -> Seq(Blocks)]
    BY DEF NoLists
  <2>2. /\ heads' \in [Lists -> Seq(Blocks)]
        /\ listing' \in SUBSET Threads
        /\ mixed' \in BOOLEAN
    BY <1>T, <1>9, <2>1 DEF EnterLists, TypeOK
  <2> QED BY <1>T, <1>9, <2>2 DEF EnterLists, TypeOK
<1>10. ASSUME NEW t \in Threads, ListFault(t) PROVE TypeOK'
  <2>1. /\ heads' \in [Lists -> Seq(Blocks)]
        /\ listing' \in SUBSET Threads
        /\ mixed' \in BOOLEAN
    BY <1>T, <1>L, <1>10 DEF ListFault, TypeOK
  <2> QED BY <1>T, <1>10, <2>1 DEF ListFault, TypeOK, Labels
<1> QED BY <1>1, <1>2, <1>3, <1>6, <1>7, <1>8, <1>9, <1>10 DEF Next, Run

-----------------------------------------------------------------------------
\* A step of one thread leaves the other threads' locals alone.
Others(t) ==
  \A u \in Threads \ {t} :
    /\ pc'[u] = pc[u] /\ addr'[u] = addr[u] /\ held'[u] = held[u]
    /\ blockA'[u] = blockA[u] /\ blockB'[u] = blockB[u]
    /\ blockC'[u] = blockC[u]
    /\ todo'[u] = todo[u] /\ cand'[u] = cand[u] /\ info'[u] = info[u]

\* Whatever a thread does, Others holds: locals are written by their owner.
\* And lists that are mixed stay so.
LEMMA OthersStep ==
  ASSUME TypeOK, NEW t \in Threads, Start(t) \/ Run(t)
  PROVE  Others(t) /\ (mixed => mixed')
<1> USE DEF mapVars, coldVars, wearVars, logVars, argVars, readVars, swapVars, Goto, At,
            Others, TypeOK, LeaveLists, Get
<1>1. CASE Start(t)
  BY <1>1 DEF Start, BeginWrite, BeginOther, Begin
<1>2. CASE Read(t)
  <2>1. CASE MapTableLockBlockForRead(t)
    BY <2>1 DEF MapTableLockBlockForRead
  <2>2. CASE ReadQuery(t)
    BY <2>2 DEF ReadQuery
  <2>3. CASE ReadHalf(t)
    BY <2>3 DEF ReadHalf
  <2>4. CASE MapTableUnlockBlockForRead(t)
    BY <2>4 DEF MapTableUnlockBlockForRead
  <2> QED BY <1>2, <2>1, <2>2, <2>3, <2>4 DEF Read
<1>3. CASE Update(t)
  <2>1. CASE MapTableLockBlockForWrite(t)
    BY <2>1 DEF MapTableLockBlockForWrite
  <2>2. CASE WriteHalf(t)
    BY <2>2 DEF WriteHalf
  <2>3. CASE TrimRead(t)
    BY <2>3 DEF TrimRead
  <2>4. CASE TrimRemove(t)
    BY <2>4 DEF TrimRemove, BlockColdnessManagerRemove
  <2>5. CASE TrimPut(t)
    BY <2>5 DEF TrimPut, BlockColdnessManagerPut
  <2>6. CASE Split(t)
    BY <2>6 DEF Split, SetGrain
  <2>7. CASE \E n \in MergeWear : Merge(t, n)
    BY <2>7 DEF Merge, SetGrain
  <2>8. CASE MapTableUnlockBlockForWrite(t)
    BY <2>8 DEF MapTableUnlockBlockForWrite
  <2> QED BY <1>3, <2>1, <2>2, <2>3, <2>4, <2>5, <2>6, <2>7, <2>8 DEF Update
<1>4. CASE IncreaseBlockWearCount(t)
  <2>1. CASE ReadThreshold(t)
    BY <2>1 DEF ReadThreshold
  <2>2. CASE ReadWear(t)
    BY <2>2 DEF ReadWear
  <2>3. CASE ChargeWear(t)
    BY <2>3 DEF ChargeWear
  <2>4. CASE RemoveHot(t)
    BY <2>4 DEF RemoveHot, BlockColdnessManagerRemove
  <2>5. CASE \E b \in MaybeBlock : GetFree(t, b)
    BY <2>5 DEF GetFree
  <2>6. CASE \E b \in MaybeBlock : GetBusy(t, b)
    BY <2>6 DEF GetBusy
  <2>7. CASE \E b \in MaybeBlock : GetWorn(t, b)
    BY <2>7 DEF GetWorn
  <2>8. CASE PutBack(t)
    BY <2>8 DEF PutBack, BlockColdnessManagerPut
  <2>9. CASE RaiseThreshold(t)
    BY <2>9 DEF RaiseThreshold
  <2>10. CASE PersistThreshold(t)
    BY <2>10 DEF PersistThreshold
  <2> QED BY <1>4, <2>1, <2>2, <2>3, <2>4, <2>5, <2>6, <2>7, <2>8, <2>9,
             <2>10 DEF IncreaseBlockWearCount
<1>5. CASE BlockSwap(t)
  <2>1. CASE GetUnmap(t)
    BY <2>1 DEF GetUnmap
  <2>2. CASE LockMap(t)
    BY <2>2 DEF LockMap
  <2>3. CASE LogBegin(t)
    BY <2>3 DEF LogBegin
  <2>4. CASE LogType(t)
    BY <2>4 DEF LogType
  <2>5. CASE CopyBtoC(t)
    BY <2>5 DEF CopyBtoC, Copy
  <2>6. CASE CopyAtoB(t)
    BY <2>6 DEF CopyAtoB, Copy
  <2>7. CASE SetUnmapA(t)
    BY <2>7 DEF SetUnmapA, SetUnmap
  <2>8. CASE SetUnmapB(t)
    BY <2>8 DEF SetUnmapB, SetUnmap
  <2>9. CASE SetUnmapC(t)
    BY <2>9 DEF SetUnmapC, SetUnmap
  <2>10. CASE MapSwap(t)
    BY <2>10 DEF MapSwap
  <2>11. CASE LogBlockSwapEnd(t)
    BY <2>11 DEF LogBlockSwapEnd
  <2>12. CASE Account(t)
    BY <2>12 DEF Account
  <2>13. CASE PutA(t)
    BY <2>13 DEF PutA, BlockColdnessManagerPut
  <2>14. CASE PutB(t)
    BY <2>14 DEF PutB, BlockColdnessManagerPut
  <2>15. CASE PutC(t)
    BY <2>15 DEF PutC, BlockColdnessManagerPut
  <2>16. CASE \E l \in Blocks : UnlockSwap(t, l)
    BY <2>16 DEF UnlockSwap
  <2> QED BY <1>5, <2>1, <2>2, <2>3, <2>4, <2>5, <2>6, <2>7, <2>8, <2>9,
             <2>10, <2>11, <2>12, <2>13, <2>14, <2>15, <2>16 DEF BlockSwap
<1>6. CASE EnterLists(t)
  BY <1>6 DEF EnterLists
<1>7. CASE ListFault(t)
  BY <1>7 DEF ListFault
<1> QED BY <1>1, <1>2, <1>3, <1>4, <1>5, <1>6, <1>7 DEF Run

\* Locks are taken, kept and given up as WriteLockExclusive and LocksHeld say.
LEMMA LockStep ==
  ASSUME BlockInv, NEW t \in Threads, Start(t) \/ Run(t)
  PROVE  WriteLockExclusive' /\ LocksHeld(t)'
<1> USE DEF mapVars, coldVars, wearVars, logVars, argVars, readVars, swapVars,
            Goto, At
<1>T. TypeOK /\ WriteLockExclusive /\ LocksHeld(t) /\ BlocksChosen(t)
  BY DEF BlockInv
<1>1. UNCHANGED <<lock, held>> => WriteLockExclusive'
  BY <1>T DEF WriteLockExclusive, Locked
<1>2. ASSUME NEW l \in Blocks, lock' = [lock EXCEPT ![l] = Bump(@)]
      PROVE  \A m \in Blocks : Locked(m)' <=> IF m = l THEN ~Locked(m)
                                                       ELSE Locked(m)
  <2>1. lock[l] \in 0 .. LOCK_RANGE - 1
    BY <1>T DEF TypeOK
  <2>2. Bump(lock[l]) % 2 = 1 <=> ~(lock[l] % 2 = 1)
    BY <2>1, BumpFacts
  <2> QED BY <1>T, <1>2, <2>2 DEF Locked, TypeOK
<1>3. ASSUME NEW l \in Blocks, ~Locked(l),
             lock' = [lock EXCEPT ![l] = Bump(@)],
             held' = [held EXCEPT ![t] = @ \cup {l}]
      PROVE  WriteLockExclusive'
  <2>1. \A u \in Threads : l \notin held[u]
    BY <1>T, <1>3 DEF WriteLockExclusive
  <2>2. \A m \in Blocks : Locked(m)' <=> m = l \/ Locked(m)
    BY <1>2, <1>3
  <2>3. \A u \in Threads : held'[u] = IF u = t THEN held[u] \cup {l}
                                               ELSE held[u]
    BY <1>T, <1>3 DEF TypeOK
  <2>4. \A m \in Blocks : Locked(m)' <=> \E u \in Threads : m \in held'[u]
    BY <1>T, <2>2, <2>3 DEF WriteLockExclusive
  <2>5. \A u, v \in Threads : u # v => held'[u] \cap held'[v] = {}
    <3> TAKE u, v \in Threads
    <3> HAVE u # v
    <3>1. held[u] \cap held[v] = {} /\ l \notin held[u] /\ l \notin held[v]
      BY <1>T, <2>1 DEF WriteLockExclusive
    <3> QED BY <2>3, <3>1
  <2> QED BY <2>4, <2>5 DEF WriteLockExclusive
<1>4. ASSUME NEW l \in held[t], lock' = [lock EXCEPT ![l] = Bump(@)],
             held' = [held EXCEPT ![t] = @ \ {l}]
      PROVE  WriteLockExclusive'
  <2>1. l \in Blocks /\ Locked(l)
    BY <1>T DEF WriteLockExclusive, TypeOK
  <2>2. \A m \in Blocks : Locked(m)' <=> IF m = l THEN ~Locked(m)
                                                  ELSE Locked(m)
    BY <1>2, <1>4, <2>1
  <2>3. \A u \in Threads : held'[u] = IF u = t THEN held[u] \ {l}
                                               ELSE held[u]
    BY <1>T, <1>4 DEF TypeOK
  <2>4. \A u \in Threads : l \in held[u] => u = t
    BY <1>T DEF WriteLockExclusive
  <2>5. \A m \in Blocks : Locked(m)' <=> \E u \in Threads : m \in held'[u]
    BY <1>T, <2>1, <2>2, <2>3, <2>4 DEF WriteLockExclusive
  <2>6. \A u, v \in Threads : u # v => held'[u] \cap held'[v] = {}
    BY <1>T, <2>3 DEF WriteLockExclusive
  <2> QED BY <2>5, <2>6 DEF WriteLockExclusive
<1> USE DEF LocksHeld, SingleLock, Locking, Swapping, Putting
<1>5. CASE Start(t)
  <2>1. LocksHeld(t)' /\ UNCHANGED <<lock, held>>
    BY <1>T, <1>5 DEF Start, BeginWrite, BeginOther, Begin, TypeOK
  <2> QED BY <1>1, <2>1
<1>6. CASE Read(t)
  <2>1. CASE MapTableLockBlockForRead(t)
    BY <1>T, <1>1, <2>1 DEF MapTableLockBlockForRead, TypeOK
  <2>2. CASE ReadQuery(t)
    BY <1>T, <1>1, <2>2 DEF ReadQuery, TypeOK
  <2>3. CASE ReadHalf(t)
    BY <1>T, <1>1, <2>3 DEF ReadHalf, TypeOK
  <2>4. CASE MapTableUnlockBlockForRead(t)
    BY <1>T, <1>1, <2>4 DEF MapTableUnlockBlockForRead, TypeOK
  <2> QED BY <1>6, <2>1, <2>2, <2>3, <2>4 DEF Read
<1>7. CASE Update(t)
  <2>1. CASE MapTableLockBlockForWrite(t)
    <3>1. held[t] = {} /\ addr[t] \in Blocks
      BY <1>T, <2>1 DEF MapTableLockBlockForWrite, TypeOK
    <3>2. LocksHeld(t)'
      BY <1>T, <2>1 DEF MapTableLockBlockForWrite, TypeOK
    <3>3. /\ ~Locked(addr[t])
          /\ lock' = [lock EXCEPT ![addr[t]] = Bump(@)]
          /\ held' = [held EXCEPT ![t] = @ \cup {addr[t]}]
      BY <1>T, <2>1, <3>1 DEF MapTableLockBlockForWrite, TypeOK
    <3> QED BY <1>3, <3>1, <3>2, <3>3
  <2>2. CASE WriteHalf(t)
    BY <1>T, <1>1, <2>2 DEF WriteHalf, TypeOK
  <2>3. CASE TrimRead(t)
    BY <1>T, <1>1, <2>3 DEF TrimRead, TypeOK
  <2>4. CASE TrimRemove(t)
    BY <1>T, <1>1, <2>4 DEF TrimRemove, BlockColdnessManagerRemove, TypeOK
  <2>5. CASE TrimPut(t)
    BY <1>T, <1>1, <2>5 DEF TrimPut, BlockColdnessManagerPut, TypeOK
  <2>6. CASE Split(t)
    BY <1>T, <1>1, <2>6 DEF Split, SetGrain, TypeOK
  <2>7. CASE \E n \in MergeWear : Merge(t, n)
    BY <1>T, <1>1, <2>7 DEF Merge, SetGrain, TypeOK
  <2>8. CASE MapTableUnlockBlockForWrite(t)
    <3>1. held[t] = {addr[t]}
      BY <1>T, <2>8 DEF MapTableUnlockBlockForWrite
    <3>2. LocksHeld(t)'
      BY <1>T, <2>8 DEF MapTableUnlockBlockForWrite, TypeOK
    <3>3. /\ lock' = [lock EXCEPT ![addr[t]] = Bump(@)]
          /\ held' = [held EXCEPT ![t] = @ \ {addr[t]}]
      BY <1>T, <2>8, <3>1 DEF MapTableUnlockBlockForWrite, TypeOK
    <3> QED BY <1>4, <3>1, <3>2, <3>3
  <2> QED BY <1>7, <2>1, <2>2, <2>3, <2>4, <2>5, <2>6, <2>7, <2>8 DEF Update
<1>8. CASE IncreaseBlockWearCount(t)
  <2>1. CASE ReadThreshold(t)
    BY <1>T, <1>1, <2>1 DEF ReadThreshold, TypeOK
  <2>2. CASE ReadWear(t)
    BY <1>T, <1>1, <2>2 DEF ReadWear, TypeOK
  <2>3. CASE ChargeWear(t)
    BY <1>T, <1>1, <2>3 DEF ChargeWear, TypeOK
  <2>4. CASE RemoveHot(t)
    BY <1>T, <1>1, <2>4 DEF RemoveHot, BlockColdnessManagerRemove, TypeOK
  <2>5. CASE \E b \in MaybeBlock : GetFree(t, b)
    BY <1>T, <1>1, <2>5 DEF GetFree, TypeOK
  <2>6. CASE \E b \in MaybeBlock : GetBusy(t, b)
    BY <1>T, <1>1, <2>6 DEF GetBusy, TypeOK
  <2>7. CASE \E b \in MaybeBlock : GetWorn(t, b)
    BY <1>T, <1>1, <2>7 DEF GetWorn, TypeOK
  <2>8. CASE PutBack(t)
    BY <1>T, <1>1, <2>8 DEF PutBack, BlockColdnessManagerPut, TypeOK
  <2>9. CASE RaiseThreshold(t)
    BY <1>T, <1>1, <2>9 DEF RaiseThreshold, TypeOK
  <2>10. CASE PersistThreshold(t)
    BY <1>T, <1>1, <2>10 DEF PersistThreshold, TypeOK
  <2> QED BY <1>8, <2>1, <2>2, <2>3, <2>4, <2>5, <2>6, <2>7, <2>8, <2>9,
             <2>10 DEF IncreaseBlockWearCount
<1>9. CASE BlockSwap(t)
  <2>1. CASE GetUnmap(t)
    <3>1. /\ UNCHANGED <<physBlockIndex, lock, held, blockA, blockB, blockC,
                         todo>>
          /\ pc[t] = "getunmap" /\ pc'[t] = "lockmap"
      BY <1>T, <2>1 DEF GetUnmap, TypeOK
    <3>2. /\ SwapRoles(t)' = SwapRoles(t)
          /\ \A r : Part(t, r)' = Part(t, r)
      BY <3>1 DEF SwapRoles, Part
    <3>3. LocksHeld(t)'
      BY <1>T, <3>1, <3>2
    <3> QED BY <1>1, <3>1, <3>3
  <2>2. CASE LockMap(t)
    <3> DEFINE l == cand[t]
               mapped == physBlockIndex[l] = Wanted(t)
    <3>2. l \in Blocks /\ ~Locked(l)
      BY <1>T, <2>2 DEF LockMap, TypeOK
    <3>1. LocksHeld(t)'
      <4>1. /\ LowestTodo(t) \in todo[t]
            /\ LowestTodo(t) \in SwapRoles(t)
        BY <1>T, <2>2, LowestTodoFacts DEF LockMap
      <4>2. /\ SwapRoles(t)' = SwapRoles(t)
            /\ \A r : Part(t, r)' = Part(t, r)
            /\ physBlockIndex' = physBlockIndex
            /\ pc[t] = "lockmap" /\ pc'[t] \in {"logbegin", "getunmap"}
        BY <1>T, <2>2 DEF LockMap, TypeOK, SwapRoles, Part
      <4>3. \A m \in held[t] : \E r \in SwapRoles(t) \ todo[t] :
               physBlockIndex[m] = Part(t, r)
        BY <1>T, <4>2
      <4>4. CASE mapped
        <5>1. /\ held'[t] = held[t] \cup {l}
              /\ todo'[t] = todo[t] \ {LowestTodo(t)}
          BY <1>T, <2>2, <4>4 DEF LockMap, TypeOK
        <5>2. physBlockIndex[l] = Part(t, LowestTodo(t))
          BY <4>4 DEF Wanted
        <5>3. \A m \in held'[t] : \E r \in SwapRoles(t) \ todo'[t] :
                 physBlockIndex[m] = Part(t, r)
          BY <4>1, <4>3, <5>1, <5>2
        <5> QED BY <4>2, <5>3
      <4>5. CASE ~mapped
        <5>1. held'[t] = held[t] /\ todo'[t] = todo[t]
          BY <1>T, <2>2, <4>5 DEF LockMap, TypeOK
        <5> QED BY <4>2, <4>3, <5>1
      <4> QED BY <4>4, <4>5
    <3>3. CASE mapped
      <4>1. /\ lock' = [lock EXCEPT ![l] = Bump(@)]
            /\ held' = [held EXCEPT ![t] = @ \cup {l}]
        BY <2>2, <3>3 DEF LockMap
      <4> QED BY <1>3, <3>1, <3>2, <4>1
    <3>4. CASE ~mapped
      <4>1. lock' = [lock EXCEPT ![l] = Bump(Bump(@))] /\ held' = held
        BY <1>T, <2>2, <3>4 DEF LockMap, TypeOK
      <4>2. lock[l] \in 0 .. LOCK_RANGE - 1
        BY <1>T, <3>2 DEF TypeOK
      <4>3. Bump(Bump(lock[l])) % 2 = 1 <=> lock[l] % 2 = 1
        BY <4>2, BumpFacts
      <4>4. \A m \in Blocks : Locked(m)' <=> Locked(m)
        BY <1>T, <4>1, <4>3 DEF Locked, TypeOK
      <4> QED BY <1>T, <3>1, <4>1, <4>4 DEF WriteLockExclusive
    <3> QED BY <3>3, <3>4
  <2>3. CASE LogBegin(t)
    BY <1>T, <1>1, <2>3 DEF LogBegin, TypeOK
  <2>4. CASE LogType(t)
    BY <1>T, <1>1, <2>4 DEF LogType, TypeOK
  <2>5. CASE CopyBtoC(t)
    BY <1>T, <1>1, <2>5 DEF CopyBtoC, Copy, TypeOK
  <2>6. CASE CopyAtoB(t)
    BY <1>T, <1>1, <2>6 DEF CopyAtoB, Copy, TypeOK
  <2>7. CASE SetUnmapA(t)
    BY <1>T, <1>1, <2>7 DEF SetUnmapA, SetUnmap, TypeOK
  <2>8. CASE SetUnmapB(t)
    BY <1>T, <1>1, <2>8 DEF SetUnmapB, SetUnmap, TypeOK
  <2>9. CASE SetUnmapC(t)
    BY <1>T, <1>1, <2>9 DEF SetUnmapC, SetUnmap, TypeOK
  <2>10. CASE MapSwap(t)
    BY <1>T, <1>1, <2>10 DEF MapSwap, TypeOK
  <2>11. CASE LogBlockSwapEnd(t)
    BY <1>T, <1>1, <2>11 DEF LogBlockSwapEnd, TypeOK
  <2>12. CASE Account(t)
    BY <1>T, <1>1, <2>12 DEF Account, TypeOK
  <2>13. CASE PutA(t)
    BY <1>T, <1>1, <2>13 DEF PutA, BlockColdnessManagerPut, TypeOK
  <2>14. CASE PutB(t)
    BY <1>T, <1>1, <2>14 DEF PutB, BlockColdnessManagerPut, TypeOK
  <2>15. CASE PutC(t)
    BY <1>T, <1>1, <2>15 DEF PutC, BlockColdnessManagerPut, TypeOK
  <2>16. CASE \E l \in Blocks : UnlockSwap(t, l)
    <3>1. PICK l \in Blocks : UnlockSwap(t, l)
      BY <2>16
    <3>2. LocksHeld(t)'
      BY <1>T, <3>1 DEF UnlockSwap, TypeOK
    <3>3. /\ l \in held[t]
          /\ lock' = [lock EXCEPT ![l] = Bump(@)]
          /\ held' = [held EXCEPT ![t] = @ \ {l}]
      BY <3>1 DEF UnlockSwap
    <3> QED BY <1>4, <3>2, <3>3
  <2> QED BY <1>9, <2>1, <2>2, <2>3, <2>4, <2>5, <2>6, <2>7, <2>8, <2>9,
             <2>10, <2>11, <2>12, <2>13, <2>14, <2>15, <2>16 DEF BlockSwap
<1>10. CASE EnterLists(t)
  BY <1>T, <1>1, <1>10 DEF EnterLists, TypeOK, ListCalls
<1>11. CASE ListFault(t)
  BY <1>T, <1>1, <1>11 DEF ListFault, TypeOK
<1> QED BY <1>5, <1>6, <1>7, <1>8, <1>9, <1>10, <1>11 DEF Run

\* The locals of a swap name distinct, real blocks at every step of it.
LEMMA ChosenStep ==
  ASSUME BlockInv, NEW t \in Threads, Start(t) \/ Run(t)
  PROVE  BlocksChosen(t)'
<1> USE DEF mapVars, coldVars, wearVars, logVars, argVars, readVars, swapVars,
            Goto, At
<1>T. TypeOK /\ BlocksChosen(t)
  BY DEF BlockInv
<1>N. invalid_block \notin Blocks
  BY BlockAssumption DEF invalid_block, Blocks
<1>P. UNCHANGED <<blockA, blockB, blockC>> =>
        /\ SwapRoles(t)' = SwapRoles(t)
        /\ \A r : Part(t, r)' = Part(t, r)
  BY DEF SwapRoles, Part
<1> USE DEF BlocksChosen, Locking, Swapping, Putting
\* Once they are locked, a swap's blocks stay what they are.
<1>K. ASSUME UNCHANGED <<blockA, blockB, blockC, todo>>,
             pc[t] \in Swapping \cup Putting,
             pc'[t] \in Swapping \cup Putting,
             pc'[t] \in {"copyC1", "copyC2", "unmapC", "putC"} =>
               blockC[t] # invalid_block
      PROVE  BlocksChosen(t)'
  BY <1>T, <1>P, <1>K
<1>1. CASE Start(t)
  BY <1>T, <1>1 DEF Start, BeginWrite, BeginOther, Begin, TypeOK
<1>2. CASE Read(t)
  <2>1. CASE MapTableLockBlockForRead(t)
    BY <1>T, <2>1 DEF MapTableLockBlockForRead, TypeOK
  <2>2. CASE ReadQuery(t)
    BY <1>T, <2>2 DEF ReadQuery, TypeOK
  <2>3. CASE ReadHalf(t)
    BY <1>T, <2>3 DEF ReadHalf, TypeOK
  <2>4. CASE MapTableUnlockBlockForRead(t)
    BY <1>T, <2>4 DEF MapTableUnlockBlockForRead, TypeOK
  <2> QED BY <1>2, <2>1, <2>2, <2>3, <2>4 DEF Read
<1>3. CASE Update(t)
  <2>1. CASE MapTableLockBlockForWrite(t)
    BY <1>T, <2>1 DEF MapTableLockBlockForWrite, TypeOK
  <2>2. CASE WriteHalf(t)
    BY <1>T, <2>2 DEF WriteHalf, TypeOK
  <2>3. CASE TrimRead(t)
    BY <1>T, <2>3 DEF TrimRead, TypeOK
  <2>4. CASE TrimRemove(t)
    BY <1>T, <2>4 DEF TrimRemove, BlockColdnessManagerRemove, TypeOK
  <2>5. CASE TrimPut(t)
    BY <1>T, <2>5 DEF TrimPut, BlockColdnessManagerPut, TypeOK
  <2>6. CASE Split(t)
    BY <1>T, <2>6 DEF Split, SetGrain, TypeOK
  <2>7. CASE \E n \in MergeWear : Merge(t, n)
    BY <1>T, <2>7 DEF Merge, SetGrain, TypeOK
  <2>8. CASE MapTableUnlockBlockForWrite(t)
    BY <1>T, <2>8 DEF MapTableUnlockBlockForWrite, TypeOK
  <2> QED BY <1>3, <2>1, <2>2, <2>3, <2>4, <2>5, <2>6, <2>7, <2>8 DEF Update
<1>4. CASE IncreaseBlockWearCount(t)
  <2>1. CASE ReadThreshold(t)
    BY <1>T, <2>1 DEF ReadThreshold, TypeOK
  <2>2. CASE ReadWear(t)
    BY <1>T, <2>2 DEF ReadWear, TypeOK
  <2>3. CASE ChargeWear(t)
    BY <1>T, <2>3 DEF ChargeWear, TypeOK
  <2>4. CASE RemoveHot(t)
    BY <1>T, <2>4 DEF RemoveHot, BlockColdnessManagerRemove, TypeOK
  <2>5. CASE \E b \in MaybeBlock : GetFree(t, b)
    BY <1>T, <1>N, <2>5
       DEF GetFree, TypeOK, MaybeBlock, SwapRoles, Part
  <2>6. CASE \E b \in MaybeBlock : GetBusy(t, b)
    BY <1>T, <1>N, <2>6
       DEF GetBusy, TypeOK, MaybeBlock, SwapRoles, Part
  <2>7. CASE \E b \in MaybeBlock : GetWorn(t, b)
    BY <1>T, <1>N, <2>7
       DEF GetWorn, TypeOK, MaybeBlock, SwapRoles, Part, Roles
  <2>8. CASE PutBack(t)
    BY <1>T, <2>8 DEF PutBack, BlockColdnessManagerPut, TypeOK
  <2>9. CASE RaiseThreshold(t)
    BY <1>T, <2>9 DEF RaiseThreshold, TypeOK
  <2>10. CASE PersistThreshold(t)
    BY <1>T, <2>10 DEF PersistThreshold, TypeOK
  <2> QED BY <1>4, <2>1, <2>2, <2>3, <2>4, <2>5, <2>6, <2>7, <2>8, <2>9,
             <2>10 DEF IncreaseBlockWearCount
<1>5. CASE BlockSwap(t)
  <2>1. CASE GetUnmap(t)
    BY <1>T, <1>P, <2>1 DEF GetUnmap, TypeOK
  <2>2. CASE LockMap(t)
    <3> DEFINE low == LowestTodo(t)
               l == cand[t]
    <3>1. /\ UNCHANGED <<physBlockIndex, blockA, blockB, blockC>>
          /\ pc[t] = "lockmap" /\ l \in Blocks /\ ~Locked(l)
      BY <1>T, <2>2 DEF LockMap, TypeOK
    <3>2. /\ SwapRoles(t)' = SwapRoles(t)
          /\ \A r : Part(t, r)' = Part(t, r)
      BY <1>P, <3>1
    <3>3. /\ low \in todo[t] /\ low \in SwapRoles(t)
          /\ \A r \in SwapRoles(t) : Part(t, r) \in Blocks
          /\ \A r \in todo[t] : Part(t, low) <= Part(t, r)
      BY <1>T, <3>1, LowestTodoFacts DEF Wanted
    <3>4. CASE physBlockIndex[l] # Wanted(t)
      <4>1. todo'[t] = todo[t] /\ pc'[t] = "getunmap"
        BY <1>T, <2>2, <3>4 DEF LockMap, TypeOK
      <4> QED BY <1>T, <3>1, <3>2, <4>1
    <3>5. CASE physBlockIndex[l] = Wanted(t)
      <4>1. /\ todo'[t] = todo[t] \ {low}
            /\ pc'[t] = IF todo[t] \ {low} = {} THEN "logbegin" ELSE "getunmap"
        BY <1>T, <2>2, <3>5 DEF LockMap, TypeOK
      <4>2. ASSUME NEW q \in SwapRoles(t) \ todo[t]
            PROVE  Part(t, q) # Part(t, low)
        <5>1. Pinned(t, Part(t, q), unmap[Part(t, q)])
          BY <3>1 DEF BlockInv, SwapPinned
        <5>2. PICK m \in held[t] : physBlockIndex[m] = Part(t, q)
          BY <5>1 DEF Pinned
        <5>3. m \in Blocks /\ l \notin held[t]
          BY <1>T, <3>1 DEF BlockInv, WriteLockExclusive, TypeOK
        <5>4. m # l
          BY <5>3
        <5> QED BY <3>1, <3>5, <5>2, <5>3, <5>4
                DEF BlockInv, TablesAgree, Wanted
      <4>3. \A q, r \in SwapRoles(t) \ (todo[t] \ {low}) :
               Part(t, q) = Part(t, r) => q = r
        BY <1>T, <3>1, <4>2
      <4>4. \A q \in SwapRoles(t) \ (todo[t] \ {low}), r \in todo[t] \ {low} :
               Part(t, q) <= Part(t, r)
        BY <1>T, <3>1, <3>3
      <4>5. blockB[t] \in Blocks
        BY <1>T, <3>1
      <4>6. todo[t] \subseteq SwapRoles(t)
        BY <1>T, <3>1
      <4> QED BY <3>1, <3>2, <4>1, <4>3, <4>4, <4>5, <4>6
    <3> QED BY <3>4, <3>5
  <2>3. CASE LogBegin(t)
    BY <1>T, <1>K, <2>3 DEF LogBegin, TypeOK
  <2>4. CASE LogType(t)
    BY <1>T, <1>K, <2>4 DEF LogType, TypeOK
  <2>5. CASE CopyBtoC(t)
    BY <1>T, <1>K, <2>5 DEF CopyBtoC, Copy, TypeOK
  <2>6. CASE CopyAtoB(t)
    BY <1>T, <1>K, <2>6 DEF CopyAtoB, Copy, TypeOK
  <2>7. CASE SetUnmapA(t)
    BY <1>T, <1>K, <2>7 DEF SetUnmapA, SetUnmap, TypeOK
  <2>8. CASE SetUnmapB(t)
    BY <1>T, <1>K, <2>8 DEF SetUnmapB, SetUnmap, TypeOK
  <2>9. CASE SetUnmapC(t)
    BY <1>T, <1>K, <2>9 DEF SetUnmapC, SetUnmap, TypeOK
  <2>10. CASE MapSwap(t)
    BY <1>T, <1>K, <2>10 DEF MapSwap, TypeOK
  <2>11. CASE LogBlockSwapEnd(t)
    BY <1>T, <1>K, <2>11 DEF LogBlockSwapEnd, TypeOK
  <2>12. CASE Account(t)
    BY <1>T, <1>K, <2>12 DEF Account, TypeOK
  <2>13. CASE PutA(t)
    BY <1>T, <1>K, <2>13 DEF PutA, BlockColdnessManagerPut, TypeOK
  <2>14. CASE PutB(t)
    BY <1>T, <1>K, <2>14 DEF PutB, BlockColdnessManagerPut, TypeOK
  <2>15. CASE PutC(t)
    BY <1>T, <2>15 DEF PutC, BlockColdnessManagerPut, TypeOK
  <2>16. CASE \E l \in Blocks : UnlockSwap(t, l)
    BY <1>T, <2>16 DEF UnlockSwap, TypeOK
  <2> QED BY <1>5, <2>1, <2>2, <2>3, <2>4, <2>5, <2>6, <2>7, <2>8, <2>9,
             <2>10, <2>11, <2>12, <2>13, <2>14, <2>15, <2>16 DEF BlockSwap
<1>6. CASE EnterLists(t)
  BY <1>T, <1>P, <1>6 DEF EnterLists
<1>7. CASE ListFault(t)
  BY <1>T, <1>7 DEF ListFault, TypeOK
<1> QED BY <1>1, <1>2, <1>3, <1>4, <1>5, <1>6, <1>7 DEF Run

\* Where a thread has blocks in hand.
Holding == {"trimput", "getfree", "getbusy", "putback", "getworn", "assert",
            "putA", "putB", "putC"} \cup Locking \cup Swapping

\* The blocks a swapper has got from the lists are different ones.
Differ(u) ==
  pc[u] \in {"getworn", "assert"} \cup Locking =>
    \A q, r \in SwapRoles(u) : Part(u, q) = Part(u, r) => q = r

\* As long as the lists are not mixed, a block changes hands only through
\* list_del and list_add_tail.
LEMMA ColdStep ==
  ASSUME BlockInv, NEW t \in Threads, Start(t) \/ Run(t)
  PROVE  ColdnessOwned'
<1> USE DEF mapVars, coldVars, wearVars, logVars, argVars, readVars, swapVars,
            Goto, At
<1>T. TypeOK /\ ColdnessOwned /\ BlocksChosen(t)
  BY DEF BlockInv
<1> SUFFICES ASSUME ~mixed' PROVE ColdnessOwned'
  BY DEF ColdnessOwned
<1>M. ~mixed
  BY <1>T, OthersStep
<1>O. /\ \A u \in Threads \ {t} : InHand(u)' = InHand(u)
      /\ \A u \in Threads \ {t} : Differ(u)' = Differ(u)
  <2> SUFFICES ASSUME NEW u \in Threads \ {t}
               PROVE  InHand(u)' = InHand(u) /\ Differ(u)' = Differ(u)
    OBVIOUS
  <2>1. /\ pc'[u] = pc[u] /\ blockA'[u] = blockA[u]
        /\ blockB'[u] = blockB[u] /\ blockC'[u] = blockC[u]
    BY <1>T, OthersStep DEF Others
  <2>2. SwapBlocks(u)' = SwapBlocks(u) /\ SwapRoles(u)' = SwapRoles(u)
    BY <2>1 DEF SwapBlocks, SwapRoles
  <2>3. \A r : Part(u, r)' = Part(u, r)
    BY <2>1 DEF Part
  <2>4. InHand(u)' = InHand(u)
    BY <2>1, <2>2 DEF InHand
  <2> QED BY <2>1, <2>2, <2>3, <2>4 DEF Differ
<1>W. \A u \in Threads : Differ(u)
  BY <1>T, <1>M DEF ColdnessOwned, Differ
<1>N. invalid_block \notin Blocks
  BY BlockAssumption DEF invalid_block, Blocks
<1>1. ASSUME heads' = heads, InHand(t)' = InHand(t), Differ(t)'
      PROVE  ColdnessOwned'
  <2>1. \A u \in Threads : InHand(u)' = InHand(u)
    BY <1>O, <1>1
  <2>2. \A u \in Threads : Differ(u)'
    BY <1>O, <1>W, <1>1
  <2> QED BY <1>T, <1>M, <1>1, <2>1, <2>2 DEF ColdnessOwned, Differ
\* Block b leaves the lists and joins t's hand.
<1>2. ASSUME NEW b \in Blocks, LeaveLists(t, Unlink(heads, b)),
             OnList(heads, b), InHand(t)' = InHand(t) \cup {b}, Differ(t)'
      PROVE  ColdnessOwned'
  <2>1. heads' = Unlink(heads, b)
    BY <1>M, <1>2 DEF LeaveLists
  <2>2. /\ ListedOnce(heads')
        /\ \A e : OnList(heads', e) <=> OnList(heads, e) /\ e # b
    BY <1>T, <1>M, <2>1, UnlinkFacts DEF TypeOK, ColdnessOwned
  <2>3. \A u \in Threads : b \notin InHand(u)
    BY <1>T, <1>M, <1>2 DEF ColdnessOwned
  <2>4. \A u \in Threads : InHand(u)' = IF u = t THEN InHand(u) \cup {b}
                                                 ELSE InHand(u)
    BY <1>2, <1>O
  <2>5. \A u, v \in Threads : u # v => InHand(u)' \cap InHand(v)' = {}
    <3> TAKE u, v \in Threads
    <3> HAVE u # v
    <3>1. InHand(u) \cap InHand(v) = {} /\ b \notin InHand(u) /\ b \notin InHand(v)
      BY <1>T, <1>M, <2>3 DEF ColdnessOwned
    <3>2. /\ InHand(u)' \subseteq InHand(u) \cup {b}
          /\ InHand(v)' \subseteq InHand(v) \cup {b}
      BY <2>4
    <3>3. b \notin InHand(u)' \/ b \notin InHand(v)'
      BY <2>4, <3>1
    <3> QED BY <3>1, <3>2, <3>3
  <2>6. \A e \in Blocks : OnList(heads', e)
                            <=> \A u \in Threads : e \notin InHand(u)'
    <3> TAKE e \in Blocks
    <3>1. OnList(heads, e) <=> \A u \in Threads : e \notin InHand(u)
      BY <1>T, <1>M DEF ColdnessOwned
    <3> QED BY <2>2, <2>4, <3>1
  <2>7. \A u \in Threads : Differ(u)'
    BY <1>O, <1>W, <1>2
  <2> QED BY <2>2, <2>5, <2>6, <2>7 DEF ColdnessOwned, OnList, Differ
\* A block that is on no list is not in the way of list_del.
<1>R. ASSUME NEW b, LeaveLists(t, Unlink(heads, b)), ~OnList(heads, b),
             InHand(t)' = InHand(t), Differ(t)'
      PROVE  ColdnessOwned'
  <2>1. heads' = Unlink(heads, b)
    BY <1>M, <1>R DEF LeaveLists
  <2>2. /\ ListedOnce(heads')
        /\ \A e : OnList(heads', e) <=> OnList(heads, e)
    BY <1>T, <1>M, <1>R, <2>1, UnlinkFacts DEF TypeOK, ColdnessOwned
  <2>3. \A u \in Threads : InHand(u)' = InHand(u)
    BY <1>O, <1>R
  <2>4. \A u \in Threads : Differ(u)'
    BY <1>O, <1>W, <1>R
  <2> QED BY <1>T, <1>M, <2>2, <2>3, <2>4 DEF ColdnessOwned, OnList, Differ
<1>3. ASSUME NEW b \in InHand(t) \cap Blocks, NEW wc \in WearCounts,
             NEW isBusy \in BOOLEAN, NEW n \in Labels,
             BlockColdnessManagerPut(t, b, wc, isBusy, n),
             InHand(t)' = InHand(t) \ {b}, Differ(t)'
      PROVE  ColdnessOwned'
  <2>1. heads' = AddTail(heads, b, WearStep(wc), isBusy)
    BY <1>M, <1>3 DEF BlockColdnessManagerPut, LeaveLists
  <2>2. WearStep(wc) \in Steps /\ ~OnList(heads, b)
    BY <1>T, <1>M, WearFacts DEF ColdnessOwned
  <2>3. /\ ListedOnce(heads')
        /\ \A e : OnList(heads', e) <=> OnList(heads, e) \/ e = b
    <3>1. heads \in [Lists -> Seq(Blocks)] /\ ListedOnce(heads)
      BY <1>T, <1>M DEF TypeOK, ColdnessOwned
    <3> QED BY <2>1, <2>2, <3>1, AddTailFacts
  <2>4. \A u \in Threads : InHand(u)' = IF u = t THEN InHand(u) \ {b}
                                                 ELSE InHand(u)
    BY <1>3, <1>O
  <2>5. \A u \in Threads : u # t => b \notin InHand(u)
    BY <1>T, <1>M DEF ColdnessOwned
  <2>6. \A u, v \in Threads : u # v => InHand(u)' \cap InHand(v)' = {}
    <3> TAKE u, v \in Threads
    <3> HAVE u # v
    <3>1. InHand(u) \cap InHand(v) = {}
      BY <1>T, <1>M DEF ColdnessOwned
    <3> QED BY <2>4, <3>1
  <2>7. \A e \in Blocks : OnList(heads', e)
                            <=> \A u \in Threads : e \notin InHand(u)'
    <3> TAKE e \in Blocks
    <3>1. OnList(heads, e) <=> \A u \in Threads : e \notin InHand(u)
      BY <1>T, <1>M DEF ColdnessOwned
    <3>2. CASE e = b
      BY <2>3, <2>4, <2>5, <3>2
    <3>3. CASE e # b
      BY <2>3, <2>4, <3>1, <3>3
    <3> QED BY <3>2, <3>3
  <2>8. \A u \in Threads : Differ(u)'
    BY <1>O, <1>W, <1>3
  <2> QED BY <2>3, <2>6, <2>7, <2>8 DEF ColdnessOwned, OnList, Differ
\* What GetFreeBlock and GetBusyBlock return is on a list.
<1>G. ASSUME NEW isBusy \in BOOLEAN, NEW i, NEW b, b = ListHead(isBusy, i)
      PROVE  \/ b = invalid_block /\ ~OnList(heads, b)
             \/ b \in Blocks /\ OnList(heads, b)
  <2> DEFINE x == <<isBusy, i>>
  <2>1. CASE ~(i \in Steps /\ heads[x] # << >>)
    <3>1. b = invalid_block
      BY <1>G, <2>1 DEF ListHead
    <3>2. ~OnList(heads, invalid_block)
      BY <1>T, <1>N DEF OnList, Contains, TypeOK
    <3> QED BY <3>1, <3>2
  <2>2. CASE i \in Steps /\ heads[x] # << >>
    <3>1. x \in Lists /\ heads[x] \in Seq(Blocks)
      BY <1>T, <2>2 DEF Lists, TypeOK
    <3>2. b = Head(heads[x])
      BY <1>G, <2>2 DEF ListHead
    <3> HIDE DEF x
    <3>3. 1 \in 1 .. Len(heads[x]) /\ Head(heads[x]) = heads[x][1]
      BY <2>2, <3>1, HeadTailProperties
    <3> QED BY <3>1, <3>2, <3>3 DEF OnList, Contains
  <2> QED BY <2>1, <2>2
\* Most steps begin and end with empty hands, or are inside a swap.
<1>E. ASSUME heads' = heads, pc[t] \notin Holding, pc'[t] \notin Holding
      PROVE  ColdnessOwned'
  <2>1. InHand(t) = {} /\ InHand(t)' = {} /\ Differ(t)'
    BY <1>E DEF InHand, Differ, Holding, Locking, Swapping
  <2> QED BY <1>1, <1>E, <2>1
<1>S. ASSUME UNCHANGED <<heads, blockA, blockB, blockC>>,
             pc[t] \in Locking \cup Swapping,
             pc'[t] \in Locking \cup Swapping \cup {"putA"},
             pc'[t] \in Locking => pc[t] \in Locking
      PROVE  ColdnessOwned'
  <2>1. SwapBlocks(t)' = SwapBlocks(t) /\ SwapRoles(t)' = SwapRoles(t)
    BY <1>S DEF SwapBlocks, SwapRoles
  <2>2. \A r : Part(t, r)' = Part(t, r)
    BY <1>S DEF Part
  <2>3. InHand(t)' = InHand(t)
    BY <1>S, <2>1 DEF InHand, Locking, Swapping
  <2>4. Differ(t)'
    BY <1>S, <1>W, <2>1, <2>2 DEF Differ, Locking, Swapping
  <2> QED BY <1>1, <1>S, <2>3, <2>4
<1> USE DEF Locking, Swapping
<1>4. CASE Start(t)
  BY <1>T, <1>E, <1>4
     DEF Start, BeginWrite, BeginOther, Begin, TypeOK, Holding
<1>5. CASE Read(t)
  <2>1. CASE MapTableLockBlockForRead(t)
    BY <1>T, <1>E, <2>1 DEF MapTableLockBlockForRead, TypeOK, Holding
  <2>2. CASE ReadQuery(t)
    BY <1>T, <1>E, <2>2 DEF ReadQuery, TypeOK, Holding
  <2>3. CASE ReadHalf(t)
    BY <1>T, <1>E, <2>3 DEF ReadHalf, TypeOK, Holding
  <2>4. CASE MapTableUnlockBlockForRead(t)
    BY <1>T, <1>E, <2>4 DEF MapTableUnlockBlockForRead, TypeOK, Holding
  <2> QED BY <1>5, <2>1, <2>2, <2>3, <2>4 DEF Read
<1>6. CASE Update(t)
  <2>1. CASE MapTableLockBlockForWrite(t)
    BY <1>T, <1>E, <2>1 DEF MapTableLockBlockForWrite, TypeOK, Holding
  <2>2. CASE WriteHalf(t)
    BY <1>T, <1>E, <2>2 DEF WriteHalf, TypeOK, Holding
  <2>3. CASE TrimRead(t)
    BY <1>T, <1>E, <2>3 DEF TrimRead, TypeOK, Holding
  <2>4. CASE TrimRemove(t)
    <3>1. /\ LeaveLists(t, Unlink(heads, blockA[t])) /\ blockA[t] \in Blocks
          /\ pc'[t] = IF OnList(heads, blockA[t]) THEN "trimput" ELSE "oops"
          /\ UNCHANGED <<blockA, blockB, blockC>>
      BY <1>T, <1>M, <2>4
         DEF TrimRemove, BlockColdnessManagerRemove, TypeOK
    <3>2. /\ InHand(t) = {} /\ Differ(t)'
          /\ InHand(t)' = IF OnList(heads, blockA[t]) THEN {blockA[t]} ELSE {}
      BY <2>4, <3>1 DEF TrimRemove, InHand, Differ
    <3> QED BY <1>2, <1>R, <3>1, <3>2
  <2>5. CASE TrimPut(t)
    <3>1. blockA[t] \in Blocks /\ wcA[t] \in WearCounts
      BY <1>T, <2>5 DEF TrimPut, TypeOK
    <3>2. BlockColdnessManagerPut(t, blockA[t], wcA[t], FALSE, "unlock")
      BY <2>5 DEF TrimPut
    <3>3. blockA[t] \in InHand(t) /\ InHand(t)' = InHand(t) \ {blockA[t]} /\ Differ(t)'
      BY <1>T, <1>N, <2>5
         DEF TrimPut, BlockColdnessManagerPut, InHand, Differ, SwapBlocks,
             TypeOK
    <3>4. ("unlock") \in Labels
      BY DEF Labels
    <3> QED BY <1>3, <3>1, <3>2, <3>3, <3>4
  <2>6. CASE Split(t)
    BY <1>T, <1>E, <2>6 DEF Split, SetGrain, TypeOK, Holding
  <2>7. CASE \E n \in MergeWear : Merge(t, n)
    BY <1>T, <1>E, <2>7 DEF Merge, SetGrain, TypeOK, Holding
  <2>8. CASE MapTableUnlockBlockForWrite(t)
    BY <1>T, <1>E, <2>8 DEF MapTableUnlockBlockForWrite, TypeOK, Holding
  <2> QED BY <1>6, <2>1, <2>2, <2>3, <2>4, <2>5, <2>6, <2>7, <2>8 DEF Update
<1>7. CASE IncreaseBlockWearCount(t)
  <2>1. CASE ReadThreshold(t)
    BY <1>T, <1>E, <2>1 DEF ReadThreshold, TypeOK, Holding
  <2>2. CASE ReadWear(t)
    BY <1>T, <1>E, <2>2 DEF ReadWear, TypeOK, Holding
  <2>3. CASE ChargeWear(t)
    BY <1>T, <1>E, <2>3 DEF ChargeWear, TypeOK, Holding
  <2>4. CASE RemoveHot(t)
    <3>1. /\ LeaveLists(t, Unlink(heads, blockA[t])) /\ blockA[t] \in Blocks
          /\ pc'[t] = IF OnList(heads, blockA[t]) THEN "getfree" ELSE "oops"
          /\ UNCHANGED <<blockA, blockB, blockC>>
      BY <1>T, <1>M, <2>4
         DEF RemoveHot, BlockColdnessManagerRemove, TypeOK
    <3>2. /\ InHand(t) = {} /\ Differ(t)'
          /\ InHand(t)' = IF OnList(heads, blockA[t]) THEN {blockA[t]} ELSE {}
      BY <2>4, <3>1 DEF RemoveHot, InHand, Differ
    <3> QED BY <1>2, <1>R, <3>1, <3>2
  <2>5. CASE \E b \in MaybeBlock : GetFree(t, b)
    <3>1. PICK b \in MaybeBlock : GetFree(t, b)
      BY <2>5
    <3>2. /\ LeaveLists(t, Unlink(heads, b))
          /\ \/ b = invalid_block /\ ~OnList(heads, b)
             \/ b \in Blocks /\ OnList(heads, b)
      BY <1>M, <1>G, <3>1 DEF GetFree, Get
    <3>3. InHand(t) = {blockA[t]} /\ blockA[t] \in Blocks
      BY <1>T, <1>W, <3>1 DEF GetFree, InHand, Differ, TypeOK
    <3>4. b \in Blocks /\ OnList(heads, b) => b \notin InHand(t)
      BY <1>T, <1>M DEF ColdnessOwned
    <3>5. CASE b = invalid_block
      <4>1. InHand(t)' = InHand(t) /\ Differ(t)'
        BY <1>T, <1>N, <3>1, <3>3, <3>5
           DEF GetFree, TypeOK, InHand, Differ, SwapBlocks, SwapRoles, Part
      <4> QED BY <1>R, <1>N, <3>2, <3>5, <4>1
    <3>6. CASE b # invalid_block
      <4>1. /\ InHand(t)' = InHand(t) \cup {b}
            /\ Differ(t)'
        BY <1>T, <1>N, <3>1, <3>2, <3>3, <3>4, <3>6
           DEF GetFree, TypeOK, InHand, Differ, SwapBlocks, SwapRoles, Part, Roles
      <4> QED BY <1>2, <3>2, <3>6, <4>1
    <3> QED BY <3>5, <3>6
  <2>6. CASE \E b \in MaybeBlock : GetBusy(t, b)
    <3>1. PICK b \in MaybeBlock : GetBusy(t, b)
      BY <2>6
    <3>2. /\ LeaveLists(t, Unlink(heads, b))
          /\ \/ b = invalid_block /\ ~OnList(heads, b)
             \/ b \in Blocks /\ OnList(heads, b)
      BY <1>M, <1>G, <3>1 DEF GetBusy, Get
    <3>3. /\ InHand(t) = {blockA[t]} /\ blockA[t] \in Blocks
          /\ blockC[t] = invalid_block
      BY <1>T, <1>W, <3>1 DEF GetBusy, InHand, Differ, BlocksChosen, TypeOK
    <3>4. b \in Blocks /\ OnList(heads, b) => b \notin InHand(t)
      BY <1>T, <1>M DEF ColdnessOwned
    <3>5. CASE b = invalid_block
      <4>1. InHand(t)' = InHand(t) /\ Differ(t)'
        BY <1>T, <1>N, <3>1, <3>3, <3>5
           DEF GetBusy, TypeOK, InHand, Differ, SwapBlocks, SwapRoles, Part
      <4> QED BY <1>R, <1>N, <3>2, <3>5, <4>1
    <3>6. CASE b # invalid_block
      <4>1. /\ InHand(t)' = InHand(t) \cup {b}
            /\ Differ(t)'
        BY <1>T, <1>N, <3>1, <3>2, <3>3, <3>4, <3>6
           DEF GetBusy, TypeOK, InHand, Differ, SwapBlocks, SwapRoles, Part, Roles
      <4> QED BY <1>2, <3>2, <3>6, <4>1
    <3> QED BY <3>5, <3>6
  <2>7. CASE \E b \in MaybeBlock : GetWorn(t, b)
    <3>1. PICK b \in MaybeBlock : GetWorn(t, b)
      BY <2>7
    <3>2. /\ LeaveLists(t, Unlink(heads, b))
          /\ \/ b = invalid_block /\ ~OnList(heads, b)
             \/ b \in Blocks /\ OnList(heads, b)
      BY <1>M, <1>G, <3>1 DEF GetWorn, Get
    <3>3. /\ InHand(t) = {blockA[t], blockB[t]}
          /\ blockA[t] \in Blocks /\ blockB[t] \in Blocks
          /\ blockA[t] # blockB[t]
      BY <1>T, <1>W, <3>1 DEF GetWorn, InHand, Differ, SwapRoles, Part, BlockInv, BlocksChosen, TypeOK, Roles
    <3>4. b \in Blocks /\ OnList(heads, b) => b \notin InHand(t)
      BY <1>T, <1>M DEF ColdnessOwned
    <3>5. CASE b = invalid_block
      <4>1. InHand(t)' = InHand(t) /\ Differ(t)'
        BY <1>T, <1>N, <3>1, <3>3, <3>5
           DEF GetWorn, TypeOK, InHand, Differ, SwapBlocks, SwapRoles, Part
      <4> QED BY <1>R, <1>N, <3>2, <3>5, <4>1
    <3>6. CASE b # invalid_block
      <4>1. /\ InHand(t)' = InHand(t) \cup {b}
            /\ Differ(t)'
        BY <1>T, <1>N, <3>1, <3>2, <3>3, <3>4, <3>6
           DEF GetWorn, TypeOK, InHand, Differ, SwapBlocks, SwapRoles, Part, Roles
      <4> QED BY <1>2, <3>2, <3>6, <4>1
    <3> QED BY <3>5, <3>6
  <2>8. CASE PutBack(t)
    <3>1. blockA[t] \in Blocks /\ wcA[t] \in WearCounts
      BY <1>T, <2>8 DEF PutBack, TypeOK
    <3>2. BlockColdnessManagerPut(t, blockA[t], wcA[t], TRUE, "raise")
      BY <2>8 DEF PutBack
    <3>3. blockA[t] \in InHand(t) /\ InHand(t)' = InHand(t) \ {blockA[t]} /\ Differ(t)'
      BY <1>T, <1>N, <2>8
         DEF PutBack, BlockColdnessManagerPut, InHand, Differ, SwapBlocks,
             TypeOK
    <3>4. ("raise") \in Labels
      BY DEF Labels
    <3> QED BY <1>3, <3>1, <3>2, <3>3, <3>4
  <2>9. CASE RaiseThreshold(t)
    BY <1>T, <1>E, <2>9 DEF RaiseThreshold, TypeOK, Holding
  <2>10. CASE PersistThreshold(t)
    BY <1>T, <1>E, <2>10 DEF PersistThreshold, TypeOK, Holding
  <2> QED BY <1>7, <2>1, <2>2, <2>3, <2>4, <2>5, <2>6, <2>7, <2>8, <2>9, <2>10
             DEF IncreaseBlockWearCount
<1>8. CASE BlockSwap(t)
  <2>1. CASE GetUnmap(t)
    BY <1>T, <1>S, <2>1 DEF GetUnmap, TypeOK
  <2>2. CASE LockMap(t)
    BY <1>T, <1>S, <2>2 DEF LockMap, TypeOK
  <2>3. CASE LogBegin(t)
    BY <1>T, <1>S, <2>3 DEF LogBegin, TypeOK
  <2>4. CASE LogType(t)
    BY <1>T, <1>S, <2>4 DEF LogType, TypeOK
  <2>5. CASE CopyBtoC(t)
    BY <1>T, <1>S, <2>5 DEF CopyBtoC, Copy, TypeOK
  <2>6. CASE CopyAtoB(t)
    BY <1>T, <1>S, <2>6 DEF CopyAtoB, Copy, TypeOK
  <2>7. CASE SetUnmapA(t)
    BY <1>T, <1>S, <2>7 DEF SetUnmapA, SetUnmap, TypeOK
  <2>8. CASE SetUnmapB(t)
    BY <1>T, <1>S, <2>8 DEF SetUnmapB, SetUnmap, TypeOK
  <2>9. CASE SetUnmapC(t)
    BY <1>T, <1>S, <2>9 DEF SetUnmapC, SetUnmap, TypeOK
  <2>10. CASE MapSwap(t)
    BY <1>T, <1>S, <2>10 DEF MapSwap, TypeOK
  <2>11. CASE LogBlockSwapEnd(t)
    BY <1>T, <1>S, <2>11 DEF LogBlockSwapEnd, TypeOK
  <2>12. CASE Account(t)
    BY <1>T, <1>S, <2>12 DEF Account, TypeOK
  <2>13. CASE PutA(t)
    <3>1. blockA[t] \in Blocks /\ wcA[t] \in WearCounts
      BY <1>T, <2>13, PartsDiffer DEF PutA, TypeOK, Putting
    <3>2. BlockColdnessManagerPut(t, blockA[t], wcA[t], FALSE, "putB")
      BY <2>13 DEF PutA
    <3>3. blockA[t] \in InHand(t) /\ InHand(t)' = InHand(t) \ {blockA[t]} /\ Differ(t)'
      BY <1>T, <1>N, <2>13, PartsDiffer
         DEF PutA, BlockColdnessManagerPut, InHand, Differ, SwapBlocks,
             TypeOK, Putting
    <3>4. ("putB") \in Labels
      BY DEF Labels
    <3> QED BY <1>3, <3>1, <3>2, <3>3, <3>4
  <2>14. CASE PutB(t)
    <3>1. blockB[t] \in Blocks /\ wcB[t] \in WearCounts
      BY <1>T, <2>14, PartsDiffer DEF PutB, TypeOK, Putting
    <3>2. BlockColdnessManagerPut(t, blockB[t], wcB[t], TRUE, IF blockC[t] = invalid_block THEN "unlockswap" ELSE "putC")
      BY <2>14 DEF PutB
    <3>3. blockB[t] \in InHand(t) /\ InHand(t)' = InHand(t) \ {blockB[t]} /\ Differ(t)'
      BY <1>T, <1>N, <2>14, PartsDiffer
         DEF PutB, BlockColdnessManagerPut, InHand, Differ, SwapBlocks,
             TypeOK, Putting
    <3>4. (IF blockC[t] = invalid_block THEN "unlockswap" ELSE "putC") \in Labels
      BY DEF Labels
    <3> QED BY <1>3, <3>1, <3>2, <3>3, <3>4
  <2>15. CASE PutC(t)
    <3>1. blockC[t] \in Blocks /\ wcC[t] \in WearCounts
      BY <1>T, <2>15, PartsDiffer DEF PutC, TypeOK, Putting, BlocksChosen
    <3>2. BlockColdnessManagerPut(t, blockC[t], wcC[t], TRUE, "unlockswap")
      BY <2>15 DEF PutC
    <3>3. blockC[t] \in InHand(t) /\ InHand(t)' = InHand(t) \ {blockC[t]} /\ Differ(t)'
      BY <1>T, <1>N, <2>15, PartsDiffer
         DEF PutC, BlockColdnessManagerPut, InHand, Differ, SwapBlocks,
             TypeOK, Putting, BlocksChosen
    <3>4. ("unlockswap") \in Labels
      BY DEF Labels
    <3> QED BY <1>3, <3>1, <3>2, <3>3, <3>4
  <2>16. CASE \E l \in Blocks : UnlockSwap(t, l)
    BY <1>T, <1>E, <2>16 DEF UnlockSwap, TypeOK, Holding
  <2> QED BY <1>8, <2>1, <2>2, <2>3, <2>4, <2>5, <2>6, <2>7, <2>8, <2>9,
             <2>10, <2>11, <2>12, <2>13, <2>14, <2>15, <2>16 DEF BlockSwap
<1>9. CASE EnterLists(t)
  <2>1. UNCHANGED <<heads, pc, blockA, blockB, blockC>>
    BY <1>9 DEF EnterLists
  <2>2. SwapBlocks(t)' = SwapBlocks(t) /\ SwapRoles(t)' = SwapRoles(t)
    BY <2>1 DEF SwapBlocks, SwapRoles
  <2>3. \A r : Part(t, r)' = Part(t, r)
    BY <2>1 DEF Part
  <2>4. InHand(t)' = InHand(t)
    BY <2>1, <2>2 DEF InHand
  <2>5. Differ(t)'
    BY <1>W, <2>1, <2>2, <2>3 DEF Differ
  <2> QED BY <1>1, <2>1, <2>4, <2>5
<1>10. CASE ListFault(t)
  BY <1>M, <1>10 DEF ListFault
<1> QED BY <1>4, <1>5, <1>6, <1>7, <1>8, <1>9, <1>10 DEF Run

\* The physical blocks a swap has logged are those of logical blocks it holds.
LEMMA LoggedHeld ==
  ASSUME BlockInv, NEW u \in Threads, pc[u] \in Logged,
         NEW p \in SwapBlocks(u)
  PROVE  \E m \in held[u] : m \in Blocks /\ physBlockIndex[m] = p
<1>1. SwapPinned(u) /\ TypeOK
  BY DEF BlockInv
<1>2. \A i : i \in held[u] => i \in Blocks
  BY <1>1 DEF TypeOK
<1>3. CASE p = blockA[u]
  BY <1>1, <1>2, <1>3 DEF SwapPinned, Pinned
<1>4. CASE p = blockB[u]
  BY <1>1, <1>2, <1>4 DEF SwapPinned, Pinned
<1>5. CASE p = blockC[u] /\ p # invalid_block
  BY <1>1, <1>2, <1>5 DEF SwapPinned, Pinned
<1> QED BY <1>3, <1>4, <1>5 DEF SwapBlocks

\* Map and unmap tables agree on a logical block that no other thread holds
\* while the thread itself is not between its unmap writes and its map write.
LEMMA AgreeAt ==
  ASSUME BlockInv, NEW l \in Blocks, NEW t \in Threads,
         \A u \in Threads \ {t} : l \notin held[u],
         pc[t] \notin Halfway
  PROVE  unmap[physBlockIndex[l]] =
           [unmapBlock |-> l, fineGrain |-> fineGrain[l]]
<1>1. ASSUME NEW u \in Threads, pc[u] \in Halfway,
             physBlockIndex[l] \in SwapBlocks(u)
      PROVE  FALSE
  <2>1. pc[u] \in Logged
    BY <1>1 DEF Halfway, Logged, Swapping
  <2>2. PICK m \in held[u] :
               m \in Blocks /\ physBlockIndex[m] = physBlockIndex[l]
    BY <1>1, <2>1, LoggedHeld
  <2>3. m = l
    BY <2>2 DEF BlockInv, TablesAgree
  <2> QED BY <1>1, <2>2, <2>3
<1> QED BY <1>1 DEF BlockInv, TablesAgree

\* A step that writes the unmap table only at p, and neither p nor the map
\* entries it writes belong to a block thread u holds, keeps what u's swap
\* knows.
LEMMA OthersPinned ==
  ASSUME BlockInv, NEW t \in Threads, Others(t), NEW u \in Threads \ {t},
         NEW p, \A q \in Blocks : q # p => unmap'[q] = unmap[q],
         \A m \in held[u] : /\ physBlockIndex[m] # p
                            /\ physBlockIndex'[m] = physBlockIndex[m]
                            /\ fineGrain'[m] = fineGrain[m]
  PROVE  SwapPinned(u)'
<1>1. /\ pc'[u] = pc[u] /\ held'[u] = held[u] /\ info'[u] = info[u]
      /\ blockA'[u] = blockA[u] /\ blockB'[u] = blockB[u]
      /\ blockC'[u] = blockC[u] /\ todo'[u] = todo[u]
  BY DEF Others
<1>2. SwapPinned(u) /\ TypeOK /\ BlocksChosen(u)
  BY DEF BlockInv
<1>3. ASSUME NEW q, NEW i, Pinned(u, q, i)
      PROVE  /\ i.unmapBlock \in held'[u]
             /\ physBlockIndex'[i.unmapBlock] = q
             /\ i.fineGrain = fineGrain'[i.unmapBlock]
             /\ q \in Blocks /\ unmap'[q] = unmap[q]
  <2>1. i.unmapBlock \in held[u] /\ i.unmapBlock \in Blocks
    BY <1>2, <1>3 DEF Pinned, TypeOK
  <2>2. q \in Blocks /\ q # p
    BY <1>2, <1>3, <2>1 DEF Pinned, TypeOK
  <2> QED BY <1>1, <1>3, <2>1, <2>2 DEF Pinned
<1>4. ASSUME pc'[u] \in Locking \cup {"logbegin"},
             NEW r \in SwapRoles(u)' \ todo'[u]
      PROVE  Pinned(u, Part(u, r), unmap[Part(u, r)])'
  <2>1. r \in SwapRoles(u) \ todo[u]
    BY <1>1, <1>4 DEF SwapRoles
  <2>2. Part(u, r)' = Part(u, r)
    BY <1>1 DEF Part
  <2>3. Pinned(u, Part(u, r), unmap[Part(u, r)])
    BY <1>1, <1>2, <1>4, <2>1 DEF SwapPinned
  <2> QED BY <1>3, <2>2, <2>3 DEF Pinned
<1>5. ASSUME pc'[u] \in Logged
      PROVE  /\ Pinned(u, blockA[u], info[u].A)
             /\ Pinned(u, blockB[u], info[u].B)
             /\ blockC[u] # invalid_block => Pinned(u, blockC[u], info[u].C)
  BY <1>1, <1>2, <1>5 DEF SwapPinned
<1>6. ASSUME pc'[u] \in Logged
      PROVE  /\ Pinned(u, blockA[u], info[u].A)'
             /\ Pinned(u, blockB[u], info[u].B)'
             /\ (blockC[u] # invalid_block => Pinned(u, blockC[u], info[u].C))'
  BY <1>1, <1>3, <1>5, <1>6 DEF Pinned
<1>7. ASSUME pc'[u] \in Halfway
      PROVE  /\ unmap'[blockA[u]] = unmap[blockA[u]]
             /\ unmap'[blockB[u]] = unmap[blockB[u]]
             /\ blockC[u] # invalid_block =>
                  unmap'[blockC[u]] = unmap[blockC[u]]
  BY <1>3, <1>5, <1>7 DEF Halfway, Logged, Swapping
<1>8. /\ (pc[u] \in Halfway =>
            unmap[blockA[u]] = IF blockC[u] = invalid_block THEN info[u].B
                                                            ELSE info[u].C)'
      /\ (pc[u] \in {"unmapC", "mapswap"} => unmap[blockB[u]] = info[u].A)'
      /\ (pc[u] = "mapswap" /\ blockC[u] # invalid_block =>
            unmap[blockC[u]] = info[u].B)'
  BY <1>1, <1>2, <1>7 DEF SwapPinned, Halfway
<1> QED BY <1>4, <1>6, <1>8 DEF SwapPinned

\* The logical blocks the other threads have locked stay where they are.
HeldStay(t) ==
  \A u \in Threads \ {t} : \A m \in held[u] :
     physBlockIndex'[m] = physBlockIndex[m]

\* Swaps keep the map and unmap tables inverse to each other.
LEMMA PinStep ==
  ASSUME BlockInv, NEW t \in Threads, Start(t) \/ Run(t)
  PROVE  TablesAgree' /\ HeldStay(t) /\ \A u \in Threads : SwapPinned(u)'
<1> USE DEF mapVars, coldVars, wearVars, logVars, argVars, readVars, swapVars,
            Goto, At
<1>T. /\ TypeOK /\ WriteLockExclusive /\ TablesAgree
      /\ BlocksChosen(t) /\ LocksHeld(t) /\ SwapPinned(t)
  BY DEF BlockInv
<1>O. Others(t) /\ \A u \in Threads \ {t} : SwapBlocks(u)' = SwapBlocks(u)
  BY <1>T, OthersStep DEF Others, SwapBlocks
<1>N. invalid_block \notin Blocks
  BY BlockAssumption DEF invalid_block, Blocks
<1>D. \A u \in Threads \ {t} : \A m \in held[u] : m \in Blocks /\ m \notin held[t]
  BY <1>T DEF WriteLockExclusive, TypeOK
\* Most steps write neither table and are not inside Halfway.
<1>F. ASSUME UNCHANGED <<physBlockIndex, unmap, fineGrain>>
      PROVE  \A u \in Threads \ {t} : SwapPinned(u)'
  <2> TAKE u \in Threads \ {t}
  <2>1. \A m \in held[u] : physBlockIndex[m] # invalid_block
    BY <1>T, <1>D, <1>N DEF TypeOK
  <2>2. \A q \in Blocks : q # invalid_block => unmap'[q] = unmap[q]
    BY <1>F
  <2> QED BY <1>F, <1>O, <2>1, <2>2, OthersPinned
<1>1. ASSUME UNCHANGED <<physBlockIndex, unmap, fineGrain>>,
             pc[t] \notin Halfway, pc'[t] \notin Halfway, SwapPinned(t)'
      PROVE  TablesAgree' /\ HeldStay(t) /\ \A u \in Threads : SwapPinned(u)'
  <2>1. ASSUME NEW l \in Blocks,
               \A u \in Threads :
                  (pc[u] \in Halfway => physBlockIndex[l] \notin SwapBlocks(u))'
        PROVE  unmap[physBlockIndex[l]] =
                 [unmapBlock |-> l, fineGrain |-> fineGrain[l]]
    <3>1. \A u \in Threads :
             pc[u] \in Halfway => physBlockIndex[l] \notin SwapBlocks(u)
      BY <1>1, <1>O, <2>1 DEF Others
    <3> QED BY <1>T, <3>1 DEF TablesAgree
  <2>2. TablesAgree'
    BY <1>T, <1>1, <2>1 DEF TablesAgree
  <2> QED BY <1>1, <1>F, <2>2 DEF HeldStay
\* Writing the unmap entry of a block of the own, halfway swap.
<1>2. ASSUME NEW p \in SwapBlocks(t), NEW i, NEW n, SetUnmap(t, p, i, n),
             pc[t] \in Logged, n \in Halfway, SwapPinned(t)'
      PROVE  TablesAgree' /\ HeldStay(t) /\ \A u \in Threads : SwapPinned(u)'
  <2>1. /\ UNCHANGED <<physBlockIndex, fineGrain, blockA, blockB, blockC>>
        /\ \A q \in Blocks : q # p => unmap'[q] = unmap[q]
        /\ pc'[t] = n
    BY <1>T, <1>2 DEF SetUnmap, TypeOK
  <2>2. PICK x \in held[t] : x \in Blocks /\ physBlockIndex[x] = p
    BY <1>2, LoggedHeld
  <2>3. ASSUME NEW u \in Threads \ {t} PROVE SwapPinned(u)'
    <3>1. \A m \in held[u] : physBlockIndex[m] # p
      BY <1>T, <1>D, <2>2 DEF TablesAgree
    <3> QED BY <1>O, <2>1, <3>1, OthersPinned
  <2>4. ASSUME NEW l \in Blocks,
               \A u \in Threads :
                  (pc[u] \in Halfway => physBlockIndex[l] \notin SwapBlocks(u))'
        PROVE  unmap'[physBlockIndex[l]] =
                 [unmapBlock |-> l, fineGrain |-> fineGrain[l]]
    <3>1. physBlockIndex[l] \notin SwapBlocks(t)
      BY <1>2, <2>1, <2>4 DEF SwapBlocks
    <3>2. \A u \in Threads :
             pc[u] \in Halfway => physBlockIndex[l] \notin SwapBlocks(u)
      BY <1>O, <2>1, <2>4, <3>1 DEF Others
    <3>3. unmap[physBlockIndex[l]] =
            [unmapBlock |-> l, fineGrain |-> fineGrain[l]]
      BY <1>T, <3>2 DEF TablesAgree
    <3> QED BY <1>T, <1>2, <2>1, <3>1, <3>3 DEF TypeOK
  <2>5. TablesAgree'
    BY <1>T, <2>1, <2>4 DEF TablesAgree
  <2> QED BY <1>2, <2>1, <2>3, <2>5 DEF HeldStay
\* Splitting or merging the block under the own lock.
<1>3. ASSUME NEW fine \in BOOLEAN, NEW n, SetGrain(t, fine, n)
      PROVE  TablesAgree' /\ HeldStay(t) /\ \A u \in Threads : SwapPinned(u)'
  <2> DEFINE x == addr[t]
             p == physBlockIndex[x]
  <2>1. x \in Blocks /\ held[t] = {x} /\ p \in Blocks
    BY <1>T, <1>3 DEF SetGrain, LocksHeld, SingleLock, TypeOK
  <2>2. unmap[p] = [unmapBlock |-> x, fineGrain |-> fineGrain[x]]
    <3>1. pc[t] \notin Halfway
      BY <1>3 DEF SetGrain, Halfway
    <3> QED BY <1>D, <2>1, <3>1, AgreeAt
  <2>3. /\ physBlockIndex' = physBlockIndex
        /\ fineGrain' = [fineGrain EXCEPT ![x] = fine]
        /\ unmap' = [unmap EXCEPT ![p] = [unmapBlock |-> x, fineGrain |-> fine]]
    <3>1. [unmap[p] EXCEPT !.fineGrain = fine] =
            [unmapBlock |-> x, fineGrain |-> fine]
      BY <2>2
    <3>2. unmap' = [unmap EXCEPT ![p] = [unmap[p] EXCEPT !.fineGrain = fine]]
      BY <1>3 DEF SetGrain
    <3> QED BY <1>3, <3>1, <3>2 DEF SetGrain
  <2>4. pc[t] = "body" /\ pc'[t] = "unlock"
    BY <1>T, <1>3 DEF SetGrain, TypeOK
  <2> HIDE DEF x, p
  <2>5. ASSUME NEW u \in Threads \ {t} PROVE SwapPinned(u)'
    <3>1. \A m \in held[u] : m \in Blocks /\ m # x /\ physBlockIndex[m] # p
      BY <1>T, <1>D, <2>1 DEF TablesAgree, p
    <3>2. \A m \in held[u] : /\ physBlockIndex'[m] = physBlockIndex[m]
                             /\ fineGrain'[m] = fineGrain[m]
      BY <1>T, <2>3, <3>1 DEF TypeOK
    <3>3. \A q \in Blocks : q # p => unmap'[q] = unmap[q]
      BY <1>T, <2>3 DEF TypeOK
    <3> QED BY <1>O, <3>1, <3>2, <3>3, OthersPinned
  <2>6. SwapPinned(t)'
    BY <2>4 DEF SwapPinned, Locking, Logged, Swapping, Halfway
  <2>7. ASSUME NEW l \in Blocks,
               \A u \in Threads :
                  (pc[u] \in Halfway => physBlockIndex[l] \notin SwapBlocks(u))'
        PROVE  unmap'[physBlockIndex[l]] =
                 [unmapBlock |-> l, fineGrain |-> fineGrain'[l]]
    <3>1. CASE l = x
      BY <1>T, <2>1, <2>3, <3>1 DEF TypeOK, p
    <3>2. CASE l # x
      <4>1. \A u \in Threads :
               pc[u] \in Halfway => physBlockIndex[l] \notin SwapBlocks(u)
        BY <1>O, <2>3, <2>4, <2>7 DEF Others, Halfway
      <4>2. unmap[physBlockIndex[l]] =
              [unmapBlock |-> l, fineGrain |-> fineGrain[l]]
        BY <1>T, <4>1 DEF TablesAgree
      <4>3. physBlockIndex[l] # p
        BY <1>T, <2>1, <3>2 DEF TablesAgree, p
      <4> QED BY <1>T, <2>3, <3>2, <4>2, <4>3 DEF TypeOK
    <3> QED BY <3>1, <3>2
  <2>8. TablesAgree'
    BY <1>T, <2>3, <2>7 DEF TablesAgree
  <2> QED BY <2>3, <2>5, <2>6, <2>8 DEF HeldStay
<1> USE DEF Locking, Swapping, Logged, Halfway
<1>4. CASE Start(t)
  <2>1. /\ UNCHANGED <<physBlockIndex, unmap, fineGrain>>
        /\ pc[t] \notin Halfway /\ pc'[t] \notin Halfway
        /\ SwapPinned(t)'
    BY <1>T, <1>4 DEF Start, BeginWrite, BeginOther, Begin, TypeOK, SwapPinned
  <2> QED BY <1>1, <2>1
<1>5. CASE Read(t)
  <2>1. CASE MapTableLockBlockForRead(t)
    BY <1>T, <1>1, <2>1 DEF MapTableLockBlockForRead, TypeOK, SwapPinned
  <2>2. CASE ReadQuery(t)
    BY <1>T, <1>1, <2>2 DEF ReadQuery, TypeOK, SwapPinned
  <2>3. CASE ReadHalf(t)
    BY <1>T, <1>1, <2>3 DEF ReadHalf, TypeOK, SwapPinned
  <2>4. CASE MapTableUnlockBlockForRead(t)
    BY <1>T, <1>1, <2>4 DEF MapTableUnlockBlockForRead, TypeOK, SwapPinned
  <2> QED BY <1>5, <2>1, <2>2, <2>3, <2>4 DEF Read
<1>6. CASE Update(t)
  <2>1. CASE MapTableLockBlockForWrite(t)
    BY <1>T, <1>1, <2>1 DEF MapTableLockBlockForWrite, TypeOK, SwapPinned
  <2>2. CASE WriteHalf(t)
    BY <1>T, <1>1, <2>2 DEF WriteHalf, TypeOK, SwapPinned
  <2>3. CASE TrimRead(t)
    BY <1>T, <1>1, <2>3 DEF TrimRead, TypeOK, SwapPinned
  <2>4. CASE TrimRemove(t)
    BY <1>T, <1>1, <2>4 DEF TrimRemove, BlockColdnessManagerRemove, TypeOK, SwapPinned
  <2>5. CASE TrimPut(t)
    BY <1>T, <1>1, <2>5 DEF TrimPut, BlockColdnessManagerPut, TypeOK, SwapPinned
  <2>6. CASE Split(t)
    BY <1>3, <2>6 DEF Split
  <2>7. CASE \E n \in MergeWear : Merge(t, n)
    BY <1>3, <2>7 DEF Merge
  <2>8. CASE MapTableUnlockBlockForWrite(t)
    BY <1>T, <1>1, <2>8 DEF MapTableUnlockBlockForWrite, TypeOK, SwapPinned
  <2> QED BY <1>6, <2>1, <2>2, <2>3, <2>4, <2>5, <2>6, <2>7, <2>8 DEF Update
<1>7. CASE IncreaseBlockWearCount(t)
  <2>1. CASE ReadThreshold(t)
    BY <1>T, <1>1, <2>1 DEF ReadThreshold, TypeOK, SwapPinned
  <2>2. CASE ReadWear(t)
    BY <1>T, <1>1, <2>2 DEF ReadWear, TypeOK, SwapPinned
  <2>3. CASE ChargeWear(t)
    BY <1>T, <1>1, <2>3 DEF ChargeWear, TypeOK, SwapPinned
  <2>4. CASE RemoveHot(t)
    BY <1>T, <1>1, <2>4 DEF RemoveHot, BlockColdnessManagerRemove, TypeOK, SwapPinned
  <2>5. CASE \E b \in MaybeBlock : GetFree(t, b)
    <3>1. /\ UNCHANGED <<physBlockIndex, unmap, fineGrain>>
          /\ pc[t] \notin Halfway /\ pc'[t] \in {"getunmap", "getbusy"}
          /\ pc'[t] = "getunmap" =>
               todo'[t] = {"A", "B"} /\ blockC'[t] = invalid_block
      BY <1>T, <2>5 DEF GetFree, TypeOK
    <3>2. SwapPinned(t)'
      BY <3>1 DEF SwapPinned, SwapRoles
    <3> QED BY <1>1, <3>1, <3>2
  <2>6. CASE \E b \in MaybeBlock : GetBusy(t, b)
    BY <1>T, <1>1, <2>6 DEF GetBusy, TypeOK, SwapPinned
  <2>7. CASE \E b \in MaybeBlock : GetWorn(t, b)
    <3>1. /\ UNCHANGED <<physBlockIndex, unmap, fineGrain>>
          /\ pc[t] \notin Halfway /\ pc'[t] \in {"getunmap", "assert"}
          /\ pc'[t] = "getunmap" => todo'[t] = Roles
      BY <1>T, <2>7 DEF GetWorn, TypeOK
    <3>2. SwapPinned(t)'
      BY <3>1 DEF SwapPinned, SwapRoles, Roles
    <3> QED BY <1>1, <3>1, <3>2
  <2>8. CASE PutBack(t)
    BY <1>T, <1>1, <2>8 DEF PutBack, BlockColdnessManagerPut, TypeOK, SwapPinned
  <2>9. CASE RaiseThreshold(t)
    BY <1>T, <1>1, <2>9 DEF RaiseThreshold, TypeOK, SwapPinned
  <2>10. CASE PersistThreshold(t)
    BY <1>T, <1>1, <2>10 DEF PersistThreshold, TypeOK, SwapPinned
  <2> QED BY <1>7, <2>1, <2>2, <2>3, <2>4, <2>5, <2>6, <2>7, <2>8, <2>9,
             <2>10 DEF IncreaseBlockWearCount
<1>8. CASE BlockSwap(t)
  <2>1. CASE GetUnmap(t)
    <3>1. /\ UNCHANGED <<physBlockIndex, unmap, fineGrain, blockA, blockB, blockC,
                         todo, held>>
          /\ pc[t] = "getunmap" /\ pc'[t] = "lockmap"
      BY <1>T, <2>1 DEF GetUnmap, TypeOK
    <3>2. /\ SwapRoles(t)' = SwapRoles(t)
          /\ \A r : Part(t, r)' = Part(t, r)
      BY <3>1 DEF SwapRoles, Part
    <3>3. SwapPinned(t)'
      BY <1>T, <3>1, <3>2 DEF SwapPinned, Pinned
    <3> QED BY <1>1, <3>1, <3>3
  <2>2. CASE LockMap(t)
    <3> DEFINE l == cand[t]
               low == LowestTodo(t)
               p == Wanted(t)
    <3>1. /\ UNCHANGED <<physBlockIndex, unmap, fineGrain, blockA, blockB, blockC>>
          /\ pc[t] = "lockmap" /\ pc'[t] \in {"logbegin", "getunmap"}
          /\ l \in Blocks /\ ~Locked(l)
      BY <1>T, <2>2 DEF LockMap, TypeOK
    <3>2. \A r \in SwapRoles(t) \ todo[t] :
             Pinned(t, Part(t, r), unmap[Part(t, r)])
      BY <1>T, <3>1 DEF SwapPinned
    <3>3. /\ held[t] \subseteq held'[t]
          /\ SwapRoles(t)' = SwapRoles(t)
          /\ \A r : Part(t, r)' = Part(t, r)
      BY <1>T, <2>2, <3>1 DEF LockMap, TypeOK, SwapRoles, Part
    <3>4. CASE physBlockIndex[l] = p
      <4>1. todo'[t] = todo[t] \ {low} /\ l \in held'[t]
        BY <1>T, <2>2, <3>4 DEF LockMap, TypeOK
      <4>2. \A u \in Threads : l \notin held[u]
        BY <1>T, <3>1 DEF WriteLockExclusive
      <4>3. unmap[p] = [unmapBlock |-> l, fineGrain |-> fineGrain[l]]
        <5>1. pc[t] \notin Halfway
          BY <3>1
        <5> QED BY <3>1, <3>4, <4>2, <5>1, AgreeAt
      <4>4. ASSUME NEW r \in SwapRoles(t)' \ todo'[t]
            PROVE  Pinned(t, Part(t, r), unmap[Part(t, r)])'
        <5>1. CASE r = low
          <6>1. Part(t, r)' = p
            BY <3>3, <5>1 DEF Wanted
          <6> QED BY <3>1, <3>4, <4>1, <4>3, <6>1 DEF Pinned
        <5>2. CASE r # low
          <6>1. Pinned(t, Part(t, r), unmap[Part(t, r)])
            BY <3>2, <3>3, <4>1, <4>4, <5>2
          <6> QED BY <3>1, <3>3, <6>1 DEF Pinned
        <5> QED BY <5>1, <5>2
      <4> QED BY <1>1, <3>1, <4>4 DEF SwapPinned
    <3>5. CASE physBlockIndex[l] # p
      <4>1. todo'[t] = todo[t]
        BY <1>T, <2>2, <3>5 DEF LockMap, TypeOK
      <4>2. ASSUME NEW r \in SwapRoles(t)' \ todo'[t]
            PROVE  Pinned(t, Part(t, r), unmap[Part(t, r)])'
        BY <3>1, <3>2, <3>3, <4>1, <4>2 DEF Pinned
      <4> QED BY <1>1, <3>1, <4>2 DEF SwapPinned
    <3> QED BY <3>4, <3>5
  <2>3. CASE LogBegin(t)
    <3>1. /\ UNCHANGED <<physBlockIndex, unmap, fineGrain, held, blockA, blockB,
                         blockC>>
          /\ pc[t] = "logbegin" /\ pc'[t] = "logtype" /\ todo[t] = {}
          /\ info'[t].A = unmap[blockA[t]] /\ info'[t].B = unmap[blockB[t]]
          /\ blockC[t] # invalid_block => info'[t].C = unmap[blockC[t]]
      BY <1>T, <2>3 DEF LogBegin, TypeOK, BlocksChosen
    <3>2. /\ {"A", "B"} \subseteq SwapRoles(t)
          /\ blockC[t] # invalid_block => "C" \in SwapRoles(t)
          /\ Part(t, "A") = blockA[t] /\ Part(t, "B") = blockB[t]
          /\ Part(t, "C") = blockC[t]
      BY DEF SwapRoles, Roles, Part
    <3>3. \A r \in SwapRoles(t) : Pinned(t, Part(t, r), unmap[Part(t, r)])
      BY <1>T, <3>1 DEF SwapPinned
    <3>4. /\ Pinned(t, blockA[t], unmap[blockA[t]])
          /\ Pinned(t, blockB[t], unmap[blockB[t]])
          /\ blockC[t] # invalid_block =>
               Pinned(t, blockC[t], unmap[blockC[t]])
      BY <3>2, <3>3
    <3>5. SwapPinned(t)'
      BY <3>1, <3>4 DEF SwapPinned, Pinned
    <3> QED BY <1>1, <3>1, <3>5
  <2>4. CASE LogType(t)
    <3>1. SwapPinned(t)'
      BY <1>T, <2>4 DEF LogType, TypeOK, SwapPinned, Pinned
    <3> QED BY <1>T, <1>1, <2>4, <3>1 DEF LogType, TypeOK
  <2>5. CASE CopyBtoC(t)
    <3>1. SwapPinned(t)'
      <4>1. /\ pc[t] \in {"copyC1", "copyC2"} /\ pc'[t] \in {"copyC2", "copyB1"}
            /\ UNCHANGED <<physBlockIndex, fineGrain, held, info, blockA,
                           blockB, blockC>>
        BY <1>T, <2>5 DEF CopyBtoC, Copy, TypeOK
      <4> QED BY <1>T, <4>1 DEF SwapPinned, Pinned
    <3> QED BY <1>T, <1>1, <2>5, <3>1 DEF CopyBtoC, Copy, TypeOK
  <2>6. CASE CopyAtoB(t)
    <3>1. SwapPinned(t)'
      <4>1. /\ pc[t] \in {"copyB1", "copyB2"} /\ pc'[t] \in {"copyB2", "unmapA"}
            /\ UNCHANGED <<physBlockIndex, fineGrain, held, info, blockA,
                           blockB, blockC>>
        BY <1>T, <2>6 DEF CopyAtoB, Copy, TypeOK
      <4> QED BY <1>T, <4>1 DEF SwapPinned, Pinned
    <3> QED BY <1>T, <1>1, <2>6, <3>1 DEF CopyAtoB, Copy, TypeOK
  <2>7. CASE SetUnmapA(t)
    <3> DEFINE i == IF blockC[t] = invalid_block THEN info[t].B ELSE info[t].C
    <3>1. SetUnmap(t, blockA[t], i, "unmapB") /\ pc[t] = "unmapA"
      BY <2>7 DEF SetUnmapA
    <3>2. blockA[t] \in SwapBlocks(t) /\ blockA[t] \in Blocks
      BY <1>T, <1>N DEF SwapBlocks, TypeOK
    <3>3. SwapPinned(t)'
      BY <1>T, <3>1, <3>2 DEF SetUnmap, TypeOK, SwapPinned, Pinned
    <3> QED BY <1>2, <3>1, <3>2, <3>3
  <2>8. CASE SetUnmapB(t)
    <3> DEFINE n == IF blockC[t] = invalid_block THEN "mapswap" ELSE "unmapC"
    <3>1. SetUnmap(t, blockB[t], info[t].A, n) /\ pc[t] = "unmapB"
      BY <2>8 DEF SetUnmapB
    <3>2. /\ blockB[t] \in SwapBlocks(t) /\ blockB[t] \in Blocks
          /\ blockB[t] # blockA[t] /\ blockA[t] \in Blocks
      BY <1>T, <1>N, <3>1, PartsDiffer DEF SwapBlocks
    <3>3. SwapPinned(t)'
      BY <1>T, <3>1, <3>2 DEF SetUnmap, TypeOK, SwapPinned, Pinned
    <3> QED BY <1>2, <3>1, <3>2, <3>3
  <2>9. CASE SetUnmapC(t)
    <3>1. SetUnmap(t, blockC[t], info[t].B, "mapswap") /\ pc[t] = "unmapC"
      BY <2>9 DEF SetUnmapC
    <3>2. /\ blockC[t] \in SwapBlocks(t) /\ blockC[t] \in Blocks
          /\ blockC[t] # blockA[t] /\ blockC[t] # blockB[t]
          /\ blockA[t] \in Blocks /\ blockB[t] \in Blocks
      BY <1>T, <1>N, <3>1, PartsDiffer DEF SwapBlocks, BlocksChosen
    <3>3. SwapPinned(t)'
      BY <1>T, <3>1, <3>2 DEF SetUnmap, TypeOK, SwapPinned, Pinned
    <3> QED BY <1>2, <3>1, <3>2, <3>3
  <2>10. CASE MapSwap(t)
    <3> DEFINE a == info[t].A.unmapBlock
               b == info[t].B.unmapBlock
               c == info[t].C.unmapBlock
               m == physBlockIndex
               slow == blockC[t] # invalid_block
    <3>1. /\ pc[t] = "mapswap" /\ pc'[t] = "logend"
          /\ m' = IF slow THEN [m EXCEPT ![a] = m[b], ![b] = m[c], ![c] = m[a]]
                          ELSE [m EXCEPT ![a] = m[b], ![b] = m[a]]
          /\ UNCHANGED <<unmap, fineGrain, blockA, blockB, blockC, held>>
      BY <1>T, <2>10 DEF MapSwap, TypeOK
    <3>2. /\ a \in held[t] /\ b \in held[t] /\ (slow => c \in held[t])
          /\ m[a] = blockA[t] /\ m[b] = blockB[t] /\ (slow => m[c] = blockC[t])
          /\ info[t].A.fineGrain = fineGrain[a]
          /\ info[t].B.fineGrain = fineGrain[b]
          /\ slow => info[t].C.fineGrain = fineGrain[c]
          /\ unmap[blockB[t]] = info[t].A
          /\ unmap[blockA[t]] = IF slow THEN info[t].C ELSE info[t].B
          /\ slow => unmap[blockC[t]] = info[t].B
      BY <1>T, <3>1 DEF SwapPinned, Pinned
    <3>3. /\ info[t].A = [unmapBlock |-> a, fineGrain |-> fineGrain[a]]
          /\ info[t].B = [unmapBlock |-> b, fineGrain |-> fineGrain[b]]
          /\ slow => info[t].C = [unmapBlock |-> c, fineGrain |-> fineGrain[c]]
      BY <1>T, <3>2 DEF TypeOK, Infos, BlockInfo
    <3>4. /\ a \in Blocks /\ b \in Blocks /\ a # b
          /\ slow => c \in Blocks /\ c # a /\ c # b
      BY <1>T, <3>1, <3>2, PartsDiffer DEF TypeOK
    <3>5. SwapBlocks(t) = IF slow THEN {m[a], m[b], m[c]} ELSE {m[a], m[b]}
      BY <1>T, <1>N, <3>1, <3>2, PartsDiffer DEF SwapBlocks
    <3>6. m \in [Blocks -> Blocks] /\ \A k, l \in Blocks : m[k] = m[l] => k = l
      BY <1>T DEF TypeOK, TablesAgree
    <3>7. /\ m'[a] = blockB[t]
          /\ m'[b] = IF slow THEN blockC[t] ELSE blockA[t]
          /\ slow => m'[c] = blockA[t]
          /\ \A l \in Blocks \ {a, b} : ~slow \/ l # c => m'[l] = m[l]
      <4> HIDE DEF a, b, c, slow
      <4> QED BY <3>1, <3>2, <3>4, <3>6
    <3> HIDE DEF a, b, c, m, slow
    <3>8. \A k, l \in Blocks : m'[k] = m'[l] => k = l
      <4>1. CASE slow
        BY <3>2, <3>4, <3>6, <3>7, <4>1
      <4>2. CASE ~slow
        BY <3>2, <3>4, <3>6, <3>7, <4>2
      <4> QED BY <4>1, <4>2
    <3>9. ASSUME NEW l \in Blocks,
                 \A u \in Threads :
                   (pc[u] \in Halfway => physBlockIndex[l] \notin SwapBlocks(u))'
          PROVE  unmap[m'[l]] = [unmapBlock |-> l, fineGrain |-> fineGrain[l]]
      <4>1. CASE l = a
        BY <3>2, <3>3, <3>7, <4>1
      <4>2. CASE l = b
        BY <3>2, <3>3, <3>7, <4>2
      <4>3. CASE slow /\ l = c
        BY <3>2, <3>3, <3>7, <4>3
      <4>4. CASE l # a /\ l # b /\ (slow => l # c)
        <5>1. m'[l] = m[l] /\ m[l] \notin SwapBlocks(t)
          BY <3>4, <3>5, <3>6, <3>7, <4>4
        <5>2. \A u \in Threads :
                 pc[u] \in Halfway => physBlockIndex[l] \notin SwapBlocks(u)
          BY <1>O, <3>9, <5>1 DEF Others, m
        <5> QED BY <1>T, <5>1, <5>2 DEF TablesAgree, m
      <4> QED BY <4>1, <4>2, <4>3, <4>4
    <3>10. TablesAgree'
      BY <3>1, <3>8, <3>9 DEF TablesAgree, m
    <3>11. SwapPinned(t)'
      BY <3>1 DEF SwapPinned
    <3>12. HeldStay(t)
      <4>1. \A u \in Threads \ {t} : \A l \in held[u] :
               l \in Blocks /\ l \notin {a, b} /\ (slow => l # c)
        BY <1>D, <3>2
      <4> QED BY <3>7, <4>1 DEF HeldStay, m
    <3>13. ASSUME NEW u \in Threads \ {t} PROVE SwapPinned(u)'
      <4>1. \A l \in held[u] : /\ physBlockIndex[l] # invalid_block
                               /\ physBlockIndex'[l] = physBlockIndex[l]
                               /\ fineGrain'[l] = fineGrain[l]
        BY <1>D, <1>N, <3>1, <3>6, <3>12 DEF m, HeldStay
      <4>2. \A q \in Blocks : q # invalid_block => unmap'[q] = unmap[q]
        BY <3>1
      <4> QED BY <1>O, <4>1, <4>2, OthersPinned
    <3> QED BY <3>10, <3>11, <3>12, <3>13
  <2>11. CASE LogBlockSwapEnd(t)
    BY <1>T, <1>1, <2>11 DEF LogBlockSwapEnd, TypeOK, SwapPinned
  <2>12. CASE Account(t)
    BY <1>T, <1>1, <2>12 DEF Account, TypeOK, SwapPinned
  <2>13. CASE PutA(t)
    BY <1>T, <1>1, <2>13 DEF PutA, BlockColdnessManagerPut, TypeOK, SwapPinned
  <2>14. CASE PutB(t)
    BY <1>T, <1>1, <2>14 DEF PutB, BlockColdnessManagerPut, TypeOK, SwapPinned
  <2>15. CASE PutC(t)
    BY <1>T, <1>1, <2>15 DEF PutC, BlockColdnessManagerPut, TypeOK, SwapPinned
  <2>16. CASE \E l \in Blocks : UnlockSwap(t, l)
    BY <1>T, <1>1, <2>16 DEF UnlockSwap, TypeOK, SwapPinned
  <2> QED BY <1>8, <2>1, <2>2, <2>3, <2>4, <2>5, <2>6, <2>7, <2>8, <2>9,
             <2>10, <2>11, <2>12, <2>13, <2>14, <2>15, <2>16 DEF BlockSwap
<1>9. CASE EnterLists(t)
  <2>1. UNCHANGED <<physBlockIndex, unmap, fineGrain, held, blockA, blockB,
                    blockC, todo, info, pc>> /\ pc[t] \in ListCalls
    BY <1>9 DEF EnterLists
  <2>2. pc[t] \notin Halfway \cup Locking \cup Swapping
    BY <2>1 DEF ListCalls
  <2> QED BY <1>1, <2>1, <2>2 DEF SwapPinned
<1>10. CASE ListFault(t)
  <2>1. /\ UNCHANGED <<physBlockIndex, unmap, fineGrain>> /\ pc'[t] = "stray"
        /\ pc[t] \notin Halfway
    BY <1>T, <1>10 DEF ListFault, ListCalls, TypeOK
  <2> QED BY <1>1, <2>1 DEF SwapPinned
<1> QED BY <1>4, <1>5, <1>6, <1>7, <1>8, <1>9, <1>10 DEF Run

\* The formatted tables satisfy the inductive invariant.
LEMMA InitInv == Init => BlockInv
<1> SUFFICES ASSUME Init PROVE BlockInv
  OBVIOUS
<1>1. 0 \in Blocks /\ invalid_block \notin Blocks /\ BlockNum \in Nat
  BY BlockAssumption DEF Blocks, invalid_block
<1>2. STEP_WEAR_COUNT \in WearCounts /\ 0 \in WearCounts
  <2> DEFINE T == STEP_WEAR_COUNT
             W == WEAR_STEP_NUMS
  <2>1. T \in Nat /\ T > 1 /\ W \in Nat /\ W > 1
    BY WearAssumption
  <2> HIDE DEF T, W
  <2>2. T * W \in Nat /\ T * W >= T * 2
    BY <2>1
  <2>3. T \in 0 .. T * W - 1 /\ 0 \in 0 .. T * W - 1
    BY <2>1, <2>2
  <2> QED BY <2>3 DEF WearCounts, MAX_WEAR_COUNT, T, W
<1>3. 0 \in Slots /\ 0 \in 0 .. LOCK_RANGE - 1 /\ 0 \in 0 .. MaxOps
  BY LogAssumption, LockAssumption, OpAssumption DEF Slots
<1> DEFINE all == [n \in 1 .. BlockNum |-> n - 1]
<1>4. /\ all \in Seq(Blocks) /\ Len(all) = BlockNum
      /\ \A n \in 1 .. BlockNum : all[n] = n - 1
  BY <1>1 DEF Blocks
<1>5. 0 \in Steps /\ <<FALSE, 0>> \in Lists
  <2>1. 0 \in Steps
    BY WearAssumption DEF Steps
  <2> QED BY <2>1 DEF Lists
<1> DEFINE z == <<FALSE, 0>>
<1>6. /\ heads = [x \in Lists |-> IF x = z THEN all ELSE << >>]
      /\ z \in Lists
  BY <1>5 DEF Init
<1> HIDE DEF all, z
<1>7. heads \in [Lists -> Seq(Blocks)]
  <2>1. << >> \in Seq(Blocks)
    OBVIOUS
  <2> QED BY <1>4, <1>6, <2>1
<1>8. NoEntry \in Entries /\ NoEntry.info \in Infos
  BY DEF NoEntry, NoInfo, Entries, Infos, MaybeBlock, BlockInfo
<1>9. TypeOK
  <2>1. /\ log \in [Slots -> Entries]
        /\ info \in [Threads -> Infos]
    BY <1>8 DEF Init
  <2> QED BY <1>1, <1>2, <1>3, <1>7, <2>1
          DEF Init, TypeOK, Halves, Labels, OpKinds, MaybeBlock
<1>10. WriteLockExclusive
  BY DEF Init, WriteLockExclusive, Locked
<1>11. \A t \in Threads : InHand(t) = {}
  BY DEF Init, InHand, Locking, Swapping
<1>12. ListedOnce(heads)
  <2>1. \A x \in Lists : DOMAIN heads[x] = IF x = z THEN 1 .. BlockNum ELSE {}
    BY <1>4, <1>6
  <2>2. heads[z] = all
    BY <1>6
  <2>3. \A m, n \in 1 .. BlockNum : all[m] = all[n] => m = n
    BY <1>1, <1>4
  <2> QED BY <2>1, <2>2, <2>3 DEF ListedOnce
<1>13. \A b \in Blocks : OnList(heads, b)
  <2> TAKE b \in Blocks
  <2>1. b + 1 \in 1 .. Len(all) /\ all[b + 1] = b
    BY <1>1, <1>4 DEF Blocks
  <2> QED BY <1>6, <2>1 DEF OnList, Contains
<1>14. ColdnessOwned
  <2>1. \A t \in Threads : pc[t] = "idle"
    BY DEF Init
  <2> QED BY <1>11, <1>12, <1>13, <2>1 DEF ColdnessOwned, Locking
<1>15. TablesAgree
  BY DEF Init, TablesAgree
<1>16. \A t \in Threads : BlocksChosen(t) /\ LocksHeld(t) /\ SwapPinned(t)
  <2> TAKE t \in Threads
  <2>1. pc[t] = "idle" /\ held[t] = {}
    BY DEF Init
  <2> QED BY <2>1 DEF BlocksChosen, LocksHeld, SwapPinned, SingleLock, Locking,
                      Swapping, Logged, Halfway, Putting
<1> QED BY <1>9, <1>10, <1>14, <1>15, <1>16 DEF BlockInv

\* No step of any thread breaks it.
LEMMA NextInv == BlockInv /\ [Next]_vars => BlockInv'
<1> SUFFICES ASSUME BlockInv, [Next]_vars PROVE BlockInv'
  OBVIOUS
<1>1. CASE UNCHANGED vars
  <2> USE DEF vars, mapVars, coldVars, wearVars, logVars, argVars, readVars, swapVars
  <2>1. \A t \in Threads : /\ SwapBlocks(t)' = SwapBlocks(t)
                           /\ InHand(t)' = InHand(t)
                           /\ SwapRoles(t)' = SwapRoles(t)
                           /\ \A r : Part(t, r)' = Part(t, r)
    BY <1>1 DEF SwapBlocks, InHand, SwapRoles, Part
  <2>2. TypeOK' /\ WriteLockExclusive' /\ TablesAgree'
    BY <1>1, <2>1, TypeStep
       DEF BlockInv, WriteLockExclusive, Locked, TablesAgree
  <2>3. ColdnessOwned'
    BY <1>1, <2>1 DEF BlockInv, ColdnessOwned
  <2>4. \A t \in Threads : BlocksChosen(t)' /\ LocksHeld(t)'
    BY <1>1, <2>1 DEF BlockInv, BlocksChosen, LocksHeld
  <2>5. \A t \in Threads : SwapPinned(t)'
    BY <1>1, <2>1 DEF BlockInv, SwapPinned, Pinned
  <2> QED BY <2>2, <2>3, <2>4, <2>5 DEF BlockInv
<1>2. ASSUME NEW t \in Threads, Start(t) \/ Run(t) PROVE BlockInv'
  <2>1. TypeOK' /\ WriteLockExclusive' /\ ColdnessOwned' /\ TablesAgree'
    BY <1>2, TypeStep, LockStep, ColdStep, PinStep
  <2>2. \A u \in Threads : SwapPinned(u)'
    BY <1>2, PinStep
  <2>3. BlocksChosen(t)' /\ LocksHeld(t)'
    BY <1>2, ChosenStep, LockStep
  <2>4. ASSUME NEW u \in Threads \ {t} PROVE BlocksChosen(u)' /\ LocksHeld(u)'
    <3>1. TypeOK /\ BlocksChosen(u) /\ LocksHeld(u)
      BY DEF BlockInv
    <3>2. /\ pc'[u] = pc[u] /\ addr'[u] = addr[u] /\ held'[u] = held[u]
          /\ blockA'[u] = blockA[u] /\ blockB'[u] = blockB[u]
          /\ blockC'[u] = blockC[u] /\ todo'[u] = todo[u]
      BY <1>2, <3>1, OthersStep DEF Others
    <3>3. /\ SwapRoles(u)' = SwapRoles(u)
          /\ \A r : Part(u, r)' = Part(u, r)
      BY <3>2 DEF SwapRoles, Part
    <3>4. \A m \in held[u] : physBlockIndex'[m] = physBlockIndex[m]
      BY <1>2, PinStep DEF HeldStay
    <3>5. BlocksChosen(u)'
      BY <3>1, <3>2, <3>3 DEF BlocksChosen
    <3>6. LocksHeld(u)'
      BY <3>1, <3>2, <3>3, <3>4 DEF LocksHeld
    <3> QED BY <3>5, <3>6
  <2> QED BY <2>1, <2>2, <2>3, <2>4 DEF BlockInv
<1> QED BY <1>1, <1>2 DEF Next

-----------------------------------------------------------------------------
\* BlockInv holds in every reachable state.
THEOREM BlockInvariant == Spec => []BlockInv
BY InitInv, NextInv, PTL DEF Spec

\* Map entries, wear counts, lists, log entries and locals keep their types,
\* for any number of threads, blocks, wear steps and log entries.
THEOREM TypeCorrect == Spec => []TypeOK
<1>1. BlockInv => TypeOK
  BY DEF BlockInv
<1> QED BY <1>1, BlockInvariant, PTL

\* MapTableBlockWriteLock excludes: a map entry is odd while exactly one
\* thread is inside a write, trim, split, merge or swap of it.
THEOREM LocksExclude == Spec => []WriteLockExclusive
<1>1. BlockInv => WriteLockExclusive
  BY DEF BlockInv
<1> QED BY <1>1, BlockInvariant, PTL

\* Up to the first time two calls on the coldness lists overlap, no two swaps
\* or trims own the same physical block, and no block drops off the lists,
\* whatever else the threads interleave.
THEOREM BlocksOwned == Spec => []ColdnessOwned
<1>1. BlockInv => ColdnessOwned
  BY DEF BlockInv
<1> QED BY <1>1, BlockInvariant, PTL

\* Outside a lock, MapTable and BlockUnmapTable are inverse to each other,
\* however swaps, splits and merges interleave.
THEOREM TablesInverse == Spec => []UnmapInverse
<1>1. BlockInv => UnmapInverse
  <2> SUFFICES ASSUME BlockInv, NEW l \in Blocks, ~Locked(l)
               PROVE  unmap[physBlockIndex[l]] =
                        [unmapBlock |-> l, fineGrain |-> fineGrain[l]]
    BY DEF UnmapInverse
  <2>1. \A u \in Threads : l \notin held[u]
    BY DEF BlockInv, WriteLockExclusive
  <2>2. ASSUME NEW u \in Threads, pc[u] \in Halfway,
               physBlockIndex[l] \in SwapBlocks(u)
        PROVE  FALSE
    <3>1. pc[u] \in Logged
      BY <2>2 DEF Halfway, Logged, Swapping
    <3>2. PICK m \in held[u] :
                 m \in Blocks /\ physBlockIndex[m] = physBlockIndex[l]
      BY <2>2, <3>1, LoggedHeld
    <3> QED BY <2>1, <3>2 DEF BlockInv, TablesAgree
  <2> QED BY <2>2 DEF BlockInv, TablesAgree
<1> QED BY <1>1, BlockInvariant, PTL

\* Every swap takes its locks in ascending order of physical blocks: a swapper
\* that waits for another one wants a lower block than that one does, also
\* where mixed lists gave both the same block.
THEOREM LocksTakenInOrder == Spec => []LocksAscend
<1>1. BlockInv => LocksAscend
  <2> SUFFICES ASSUME BlockInv, NEW t \in Threads, NEW u \in Threads,
                      pc[t] = "lockmap",
                      physBlockIndex[cand[t]] = Wanted(t),
                      pc[u] = "lockmap", cand[u] \notin held[u],
                      physBlockIndex[cand[u]] = Wanted(u),
                      cand[t] \in held[u]
               PROVE  Wanted(t) < Wanted(u)
    BY DEF LocksAscend
  <2>1. TypeOK /\ BlocksChosen(u) /\ LocksHeld(u) /\ BlocksChosen(t)
    BY DEF BlockInv
  <2>2. pc[t] \in Locking /\ pc[u] \in Locking
    BY DEF Locking
  <2>3. /\ LowestTodo(u) \in todo[u]
        /\ Wanted(t) \in Blocks /\ Wanted(u) \in Blocks
    BY <2>1, <2>2, LowestTodoFacts
  <2>4. PICK r \in SwapRoles(u) \ todo[u] : Wanted(t) = Part(u, r)
    BY <2>1, <2>2 DEF LocksHeld
  <2>5. Wanted(t) <= Wanted(u)
    BY <2>1, <2>2, <2>3, <2>4 DEF BlocksChosen, Wanted
  <2>6. Wanted(t) # Wanted(u)
    <3>1. cand[t] \in Blocks /\ cand[u] \in Blocks /\ cand[t] # cand[u]
      BY <2>1 DEF TypeOK
    <3> QED BY <3>1 DEF BlockInv, TablesAgree
  <2> QED BY <2>3, <2>5, <2>6 DEF Blocks
<1> QED BY <1>1, BlockInvariant, PTL

-----------------------------------------------------------------------------
\* What a swap and a reader see.

\* The physical block that a thread has written one half of.
HalfDone(t, p) ==
  \/ pc[t] = "body2" /\ p = physBlockIndex[addr[t]]
  \/ pc[t] = "copyC2" /\ p = blockC[t]
  \/ pc[t] = "copyB2" /\ p = blockB[t]

\* The first half is what the second half will be.
HalfKnown(t) ==
  /\ pc[t] = "body2" => data[physBlockIndex[addr[t]]][1] = value[t]
  /\ pc[t] = "copyC2" => data[blockC[t]][1] = data[blockB[t]][1]
  /\ pc[t] = "copyB2" => data[blockB[t]][1] = data[blockA[t]][1]

\* Blocks that nobody is writing are whole.
DataWhole ==
  \A p \in Blocks :
    (\A t \in Threads : ~HalfDone(t, p)) => data[p][1] = data[p][2]

\* What a reader has is true while the lock value is the one it saw.
Reading == {"rquery", "read1", "read2", "runlock"}
ReaderKnows(t) ==
  /\ pc[t] \in Reading => seq[t] % 2 = 0 /\ seq[t] <= lock[addr[t]]
  /\ lock[addr[t]] = seq[t] =>
       /\ pc[t] \in Reading \ {"rquery"} => query[t] = physBlockIndex[addr[t]]
       /\ pc[t] \in {"read2", "runlock"} => buf[t][1] = data[query[t]][1]
       /\ pc[t] = "runlock" => buf[t][2] = data[query[t]][2]

ReadInv ==
  /\ BlockInv
  /\ DataWhole
  /\ \A t \in Threads : HalfKnown(t) /\ ReaderKnows(t)

\* The 22 bits of no lock value are used up.
NoLockWraps == \A l \in Blocks : lock[l] <= lock'[l]

-----------------------------------------------------------------------------
\* Every physical block is some logical block's.
LEMMA MapOnto ==
  ASSUME BlockInv, NEW p \in Blocks
  PROVE  \E l \in Blocks : physBlockIndex[l] = p
<1>1. IsFiniteSet(Blocks)
  BY BlockAssumption, FS_Interval DEF Blocks
<1>2. physBlockIndex \in Injection(Blocks, Blocks)
  BY DEF BlockInv, TypeOK, TablesAgree, Injection, IsInjective
<1>3. physBlockIndex \in Surjection(Blocks, Blocks)
  BY <1>1, <1>2, FS_Injection
<1> QED BY <1>3 DEF Surjection

\* Most steps write neither map, locks nor data and are no reader's.
Placed == Reading \cup {"body2", "copyC2", "copyB2", "lockmap"}
Quiet(t) ==
  /\ UNCHANGED <<physBlockIndex, data, lock>>
  /\ UNCHANGED <<seq, query, buf>>
  /\ pc'[t] \notin Placed
  /\ pc[t] \notin Placed

\* No thread writes another's arguments or read buffer.
Apart(t) ==
  \A u \in Threads \ {t} :
    /\ value'[u] = value[u] /\ seq'[u] = seq[u]
    /\ query'[u] = query[u] /\ buf'[u] = buf[u]

\* Every step is of one of these kinds.
LEMMA StepKinds ==
  ASSUME TypeOK, NEW t \in Threads, Start(t) \/ Run(t)
  PROVE  /\ Apart(t)
         /\ \/ Quiet(t)
            \/ MapTableLockBlockForRead(t) \/ ReadQuery(t) \/ ReadHalf(t)
            \/ MapTableUnlockBlockForRead(t) \/ MapTableLockBlockForWrite(t)
            \/ WriteHalf(t) \/ MapTableUnlockBlockForWrite(t) \/ GetUnmap(t)
            \/ LockMap(t) \/ CopyBtoC(t) \/ CopyAtoB(t) \/ MapSwap(t)
            \/ \E l \in Blocks : UnlockSwap(t, l)
<1> USE DEF mapVars, coldVars, wearVars, logVars, argVars, readVars, swapVars, Goto, At,
            Apart, TypeOK, LeaveLists, Get
<1>1. CASE Start(t)
  <2>1. /\ pc[t] = "idle" /\ UNCHANGED <<mapVars, data, readVars>>
        /\ \E v : value' = [value EXCEPT ![t] = v] \/ value' = value
        /\ \E v \in {"wlock", "rlock"} : pc' = [pc EXCEPT ![t] = v]
    BY <1>1 DEF Start, BeginWrite, BeginOther, Begin
  <2>2. pc'[t] \in {"wlock", "rlock"}
    BY <2>1
  <2>3. Quiet(t)
    BY <2>1, <2>2 DEF Quiet, Placed, Reading
  <2> QED BY <2>1, <2>3
<1>2. CASE Read(t)
  <2>1. CASE MapTableLockBlockForRead(t)
    BY <2>1 DEF MapTableLockBlockForRead
  <2>2. CASE ReadQuery(t)
    BY <2>2 DEF ReadQuery
  <2>3. CASE ReadHalf(t)
    BY <2>3 DEF ReadHalf
  <2>4. CASE MapTableUnlockBlockForRead(t)
    BY <2>4 DEF MapTableUnlockBlockForRead
  <2> QED BY <1>2, <2>1, <2>2, <2>3, <2>4 DEF Read
<1>3. CASE Update(t)
  <2>1. CASE MapTableLockBlockForWrite(t)
    BY <2>1 DEF MapTableLockBlockForWrite
  <2>2. CASE WriteHalf(t)
    BY <2>2 DEF WriteHalf
  <2>3. CASE TrimRead(t)
    BY <2>3 DEF TrimRead, Quiet, Placed, Reading
  <2>4. CASE TrimRemove(t)
    BY <2>4 DEF TrimRemove, BlockColdnessManagerRemove, Quiet, Placed, Reading
  <2>5. CASE TrimPut(t)
    BY <2>5 DEF TrimPut, BlockColdnessManagerPut, Quiet, Placed, Reading
  <2>6. CASE Split(t)
    BY <2>6 DEF Split, SetGrain, Quiet, Placed, Reading
  <2>7. CASE \E m \in MergeWear : Merge(t, m)
    BY <2>7 DEF Merge, SetGrain, Quiet, Placed, Reading
  <2>8. CASE MapTableUnlockBlockForWrite(t)
    BY <2>8 DEF MapTableUnlockBlockForWrite
  <2> QED BY <1>3, <2>1, <2>2, <2>3, <2>4, <2>5, <2>6, <2>7, <2>8 DEF Update
<1>4. CASE IncreaseBlockWearCount(t)
  <2>1. CASE ReadThreshold(t)
    BY <2>1 DEF ReadThreshold, Quiet, Placed, Reading
  <2>2. CASE ReadWear(t)
    BY <2>2 DEF ReadWear, Quiet, Placed, Reading
  <2>3. CASE ChargeWear(t)
    BY <2>3 DEF ChargeWear, Quiet, Placed, Reading
  <2>4. CASE RemoveHot(t)
    BY <2>4 DEF RemoveHot, BlockColdnessManagerRemove, Quiet, Placed, Reading
  <2>5. CASE \E b \in MaybeBlock : GetFree(t, b)
    BY <2>5 DEF GetFree, Quiet, Placed, Reading
  <2>6. CASE \E b \in MaybeBlock : GetBusy(t, b)
    BY <2>6 DEF GetBusy, Quiet, Placed, Reading
  <2>7. CASE \E b \in MaybeBlock : GetWorn(t, b)
    BY <2>7 DEF GetWorn, Quiet, Placed, Reading
  <2>8. CASE PutBack(t)
    BY <2>8 DEF PutBack, BlockColdnessManagerPut, Quiet, Placed, Reading
  <2>9. CASE RaiseThreshold(t)
    BY <2>9 DEF RaiseThreshold, Quiet, Placed, Reading
  <2>10. CASE PersistThreshold(t)
    BY <2>10 DEF PersistThreshold, Quiet, Placed, Reading
  <2> QED BY <1>4, <2>1, <2>2, <2>3, <2>4, <2>5, <2>6, <2>7, <2>8, <2>9,
             <2>10 DEF IncreaseBlockWearCount
<1>5. CASE BlockSwap(t)
  <2>1. CASE GetUnmap(t)
    BY <2>1 DEF GetUnmap
  <2>2. CASE LockMap(t)
    BY <2>2 DEF LockMap
  <2>3. CASE LogBegin(t)
    BY <2>3 DEF LogBegin, Quiet, Placed, Reading
  <2>4. CASE LogType(t)
    BY <2>4 DEF LogType, Quiet, Placed, Reading
  <2>5. CASE CopyBtoC(t)
    BY <2>5 DEF CopyBtoC, Copy
  <2>6. CASE CopyAtoB(t)
    BY <2>6 DEF CopyAtoB, Copy
  <2>7. CASE SetUnmapA(t)
    BY <2>7 DEF SetUnmapA, SetUnmap, Quiet, Placed, Reading
  <2>8. CASE SetUnmapB(t)
    BY <2>8 DEF SetUnmapB, SetUnmap, Quiet, Placed, Reading
  <2>9. CASE SetUnmapC(t)
    BY <2>9 DEF SetUnmapC, SetUnmap, Quiet, Placed, Reading
  <2>10. CASE MapSwap(t)
    BY <2>10 DEF MapSwap
  <2>11. CASE LogBlockSwapEnd(t)
    BY <2>11 DEF LogBlockSwapEnd, Quiet, Placed, Reading
  <2>12. CASE Account(t)
    BY <2>12 DEF Account, Quiet, Placed, Reading
  <2>13. CASE PutA(t)
    BY <2>13 DEF PutA, BlockColdnessManagerPut, Quiet, Placed, Reading
  <2>14. CASE PutB(t)
    BY <2>14 DEF PutB, BlockColdnessManagerPut, Quiet, Placed, Reading
  <2>15. CASE PutC(t)
    BY <2>15 DEF PutC, BlockColdnessManagerPut, Quiet, Placed, Reading
  <2>16. CASE \E l \in Blocks : UnlockSwap(t, l)
    BY <2>16 DEF UnlockSwap
  <2> QED BY <1>5, <2>1, <2>2, <2>3, <2>4, <2>5, <2>6, <2>7, <2>8, <2>9,
             <2>10, <2>11, <2>12, <2>13, <2>14, <2>15, <2>16 DEF BlockSwap
<1>6. CASE EnterLists(t)
  BY <1>6 DEF EnterLists, Quiet, Placed, Reading, ListCalls
<1>7. CASE ListFault(t)
  BY <1>7 DEF ListFault, Quiet, Placed, Reading, ListCalls
<1> QED BY <1>1, <1>2, <1>3, <1>4, <1>5, <1>6, <1>7 DEF Run

\* Threads hold different logical blocks, which are different physical ones.
LEMMA HeldApart ==
  ASSUME BlockInv, NEW t \in Threads, NEW u \in Threads, t # u,
         NEW m \in held[t], NEW n \in held[u]
  PROVE  m \in Blocks /\ n \in Blocks /\ physBlockIndex[m] # physBlockIndex[n]
<1>1. m \in Blocks /\ n \in Blocks /\ m # n
  BY DEF BlockInv, TypeOK, WriteLockExclusive
<1> QED BY <1>1 DEF BlockInv, TablesAgree

\* Who copies has both blocks of the copy, who writes has its block.
LEMMA CopyHeld ==
  ASSUME BlockInv, NEW t \in Threads
  PROVE  /\ pc[t] \in {"body", "body2"} => held[t] = {addr[t]} /\ addr[t] \in Blocks
         /\ pc[t] \in Logged =>
              \A p \in SwapBlocks(t) :
                \E m \in held[t] : m \in Blocks /\ physBlockIndex[m] = p
         /\ pc[t] \in {"copyB1", "copyB2", "copyC1", "copyC2"} =>
              /\ pc[t] \in Logged /\ blockA[t] \in SwapBlocks(t)
              /\ blockB[t] \in SwapBlocks(t) /\ blockA[t] # blockB[t]
              /\ blockA[t] \in Blocks /\ blockB[t] \in Blocks
         /\ pc[t] \in {"copyC1", "copyC2"} =>
              blockC[t] \in SwapBlocks(t) /\ blockC[t] # blockB[t] /\ blockC[t] \in Blocks
<1>1. TypeOK /\ BlocksChosen(t) /\ LocksHeld(t)
  BY DEF BlockInv
<1>2. invalid_block \notin Blocks
  BY BlockAssumption DEF Blocks, invalid_block
<1>3. pc[t] \in {"body", "body2"} => held[t] = {addr[t]} /\ addr[t] \in Blocks
  BY <1>1 DEF LocksHeld, SingleLock, TypeOK
<1>4. pc[t] \in Logged =>
        \A p \in SwapBlocks(t) :
          \E m \in held[t] : m \in Blocks /\ physBlockIndex[m] = p
  BY LoggedHeld
<1>5. pc[t] \in {"copyB1", "copyB2", "copyC1", "copyC2"} =>
        /\ pc[t] \in Logged /\ blockA[t] \in SwapBlocks(t)
        /\ blockB[t] \in SwapBlocks(t) /\ blockA[t] # blockB[t]
        /\ blockA[t] \in Blocks /\ blockB[t] \in Blocks
  BY <1>1, <1>2, PartsDiffer DEF Logged, Swapping, SwapBlocks
<1>6. pc[t] \in {"copyC1", "copyC2"} =>
        blockC[t] \in SwapBlocks(t) /\ blockC[t] # blockB[t] /\ blockC[t] \in Blocks
  BY <1>1, <1>2, PartsDiffer DEF BlocksChosen, Swapping, SwapBlocks
<1> QED BY <1>3, <1>4, <1>5, <1>6

\* A half-done block is the block of a logical block its writer holds.
LEMMA HalfHeld ==
  ASSUME BlockInv, NEW t \in Threads, NEW p, HalfDone(t, p)
  PROVE  \E m \in held[t] : m \in Blocks /\ physBlockIndex[m] = p
<1>1. CASE pc[t] = "body2"
  BY <1>1, CopyHeld DEF HalfDone
<1>2. CASE pc[t] = "copyC2"
  BY <1>2, CopyHeld DEF HalfDone
<1>3. CASE pc[t] = "copyB2"
  BY <1>3, CopyHeld DEF HalfDone
<1> QED BY <1>1, <1>2, <1>3 DEF HalfDone

\* The lock values move by one, or by two where LockOneBlock is turned away,
\* and only what a thread holds moves or is written by it.
LEMMA Effects ==
  ASSUME BlockInv, NEW t \in Threads, Start(t) \/ Run(t)
  PROVE  /\ \A l \in Blocks : lock'[l] \in {lock[l], Bump(lock[l]),
                                          Bump(Bump(lock[l]))}
         /\ \A l \in Blocks \ held[t] : physBlockIndex'[l] = physBlockIndex[l]
         /\ \A l \in Blocks \ held[t] :
              data'[physBlockIndex[l]] = data[physBlockIndex[l]]
         /\ \A l \in Blocks :
              \/ physBlockIndex'[l] = physBlockIndex[l]
              \/ pc[t] \in Swapping /\ physBlockIndex[l] \in SwapBlocks(t)
<1> USE DEF mapVars, coldVars, wearVars, logVars, argVars, readVars, swapVars,
            Goto, At
<1>T. /\ TypeOK /\ BlocksChosen(t) /\ LocksHeld(t) /\ SwapPinned(t) /\ TablesAgree
      /\ physBlockIndex \in [Blocks -> Blocks] /\ data \in [Blocks -> Halves]
      /\ lock \in [Blocks -> 0 .. LOCK_RANGE - 1] /\ addr[t] \in Blocks
      /\ cand[t] \in Blocks
  BY DEF BlockInv, TypeOK
<1>1. CASE UNCHANGED <<physBlockIndex, data, lock>>
  BY <1>1
<1>2. CASE MapTableLockBlockForWrite(t)
  BY <1>2, <1>T DEF MapTableLockBlockForWrite
<1>3. CASE MapTableUnlockBlockForWrite(t)
  BY <1>3, <1>T DEF MapTableUnlockBlockForWrite
<1>4. CASE LockMap(t)
  <2>1. PICK n \in {Bump(lock[cand[t]]), Bump(Bump(lock[cand[t]]))} :
          lock' = [lock EXCEPT ![cand[t]] = n]
    BY <1>4 DEF LockMap
  <2>2. UNCHANGED <<physBlockIndex, data>>
    BY <1>4 DEF LockMap
  <2> QED BY <2>1, <2>2, <1>T
<1>5. CASE \E l \in Blocks : UnlockSwap(t, l)
  BY <1>5, <1>T DEF UnlockSwap
<1>6. ASSUME NEW m \in held[t] \cap Blocks, NEW half \in {1, 2}, NEW v,
             data' = [data EXCEPT ![physBlockIndex[m]][half] = v],
             UNCHANGED <<physBlockIndex, lock>>
      PROVE  \A l \in Blocks \ held[t] :
               data'[physBlockIndex[l]] = data[physBlockIndex[l]]
  <2> TAKE l \in Blocks \ held[t]
  <2>1. physBlockIndex[l] # physBlockIndex[m] /\ physBlockIndex[l] \in Blocks
    BY <1>T DEF TablesAgree
  <2> QED BY <1>6, <2>1, <1>T
<1>7. CASE WriteHalf(t)
  <2>1. addr[t] \in held[t] \cap Blocks
    BY <1>7, CopyHeld DEF WriteHalf
  <2>2. PICK half \in {1, 2} :
          data' = [data EXCEPT ![physBlockIndex[addr[t]]][half] = value[t]]
    BY <1>7 DEF WriteHalf
  <2>3. UNCHANGED <<physBlockIndex, lock>>
    BY <1>7 DEF WriteHalf
  <2> QED BY <1>6, <2>1, <2>2, <2>3
<1>8. ASSUME NEW from, NEW to \in SwapBlocks(t), NEW half \in {1, 2}, NEW mark,
             NEW next, pc[t] \in Logged, Copy(t, from, to, half, mark, next)
      PROVE  /\ \A l \in Blocks \ held[t] :
                  data'[physBlockIndex[l]] = data[physBlockIndex[l]]
             /\ UNCHANGED <<physBlockIndex, lock>>
  <2>1. PICK m \in held[t] : m \in Blocks /\ physBlockIndex[m] = to
    BY <1>8, LoggedHeld
  <2>2. data' = [data EXCEPT ![physBlockIndex[m]][half] = data[from][half]]
        /\ UNCHANGED <<physBlockIndex, lock>>
    BY <1>8, <2>1 DEF Copy
  <2> QED BY <1>6, <2>1, <2>2
<1>9. CASE CopyBtoC(t)
  <2>1. blockC[t] \in SwapBlocks(t) /\ pc[t] \in Logged
    BY <1>9, CopyHeld DEF CopyBtoC
  <2>2. \/ Copy(t, blockB[t], blockC[t], 1, 2, "copyC2")
        \/ Copy(t, blockB[t], blockC[t], 2, 2, "copyB1")
    BY <1>9 DEF CopyBtoC
  <2> QED BY <1>8, <2>1, <2>2
<1>10. CASE CopyAtoB(t)
  <2>1. blockB[t] \in SwapBlocks(t) /\ pc[t] \in Logged
    BY <1>10, CopyHeld DEF CopyAtoB
  <2>2. PICK mark : \/ Copy(t, blockA[t], blockB[t], 1, mark, "copyB2")
                    \/ Copy(t, blockA[t], blockB[t], 2, mark, "unmapA")
    BY <1>10 DEF CopyAtoB
  <2> QED BY <1>8, <2>1, <2>2
<1>11. CASE MapSwap(t)
  <2> DEFINE a == info[t].A.unmapBlock
             b == info[t].B.unmapBlock
             c == info[t].C.unmapBlock
  <2>1. /\ pc[t] \in Logged /\ pc[t] \in Swapping
        /\ blockC[t] # invalid_block => blockC[t] \in SwapBlocks(t)
        /\ blockA[t] \in SwapBlocks(t) /\ blockB[t] \in SwapBlocks(t)
    <3>1. pc[t] = "mapswap" /\ pc[t] \in Logged /\ pc[t] \in Swapping
      BY <1>11 DEF MapSwap, Logged, Swapping
    <3>2. blockA[t] \in Blocks /\ blockB[t] \in Blocks
      BY <1>T, <3>1, PartsDiffer
    <3>3. invalid_block \notin Blocks
      BY BlockAssumption DEF Blocks, invalid_block
    <3> QED BY <3>1, <3>2, <3>3 DEF SwapBlocks
  <2>2. /\ a \in held[t] /\ physBlockIndex[a] = blockA[t]
        /\ b \in held[t] /\ physBlockIndex[b] = blockB[t]
        /\ blockC[t] # invalid_block =>
             c \in held[t] /\ physBlockIndex[c] = blockC[t]
    BY <2>1, <1>T DEF SwapPinned, Pinned
  <2>3. UNCHANGED <<data, lock>>
    BY <1>11 DEF MapSwap
  <2>4. CASE blockC[t] = invalid_block
    <3>1. physBlockIndex' = [physBlockIndex EXCEPT ![a] = physBlockIndex[b],
                                                   ![b] = physBlockIndex[a]]
      BY <1>11, <2>4 DEF MapSwap
    <3> HIDE DEF a, b, c
    <3> QED BY <1>T, <2>1, <2>2, <2>3, <3>1
  <2>5. CASE blockC[t] # invalid_block
    <3>1. physBlockIndex' = [physBlockIndex EXCEPT ![a] = physBlockIndex[b],
                                                   ![b] = physBlockIndex[c],
                                                   ![c] = physBlockIndex[a]]
      BY <1>11, <2>5 DEF MapSwap
    <3> HIDE DEF a, b, c
    <3> QED BY <1>T, <2>1, <2>2, <2>3, <2>5, <3>1
  <2> QED BY <2>4, <2>5
<1>12. CASE \/ MapTableLockBlockForRead(t) \/ ReadQuery(t) \/ ReadHalf(t)
            \/ MapTableUnlockBlockForRead(t) \/ GetUnmap(t) \/ Quiet(t)
  BY <1>1, <1>12 DEF MapTableLockBlockForRead, ReadQuery, ReadHalf,
                     MapTableUnlockBlockForRead, GetUnmap, Quiet
<1>13. CASE WriteHalf(t) \/ CopyBtoC(t) \/ CopyAtoB(t)
  BY <1>7, <1>9, <1>10, <1>13 DEF WriteHalf, CopyBtoC, CopyAtoB, Copy
<1> QED BY <1>T, <1>2, <1>3, <1>4, <1>5, <1>11, <1>12, <1>13, StepKinds

-----------------------------------------------------------------------------
\* As long as the lists are not mixed, a swap's blocks stay the ones that
\* LockOneBlock goes by: only their owner's MapSwap moves what they hold.
LEMMA DirectStep ==
  ASSUME BlockInv, LockOneBlockDirect, NEW t \in Threads, Start(t) \/ Run(t)
  PROVE  LockOneBlockDirect'
<1> SUFFICES ASSUME ~mixed' PROVE LockOneBlockDirect'
  BY DEF LockOneBlockDirect
<1> USE DEF mapVars, coldVars, wearVars, logVars, argVars, readVars, swapVars,
            Goto, At
<1>T. TypeOK /\ BlocksChosen(t) /\ TablesAgree /\ ColdnessOwned
  BY DEF BlockInv
<1>O. Others(t) /\ ~mixed
  BY <1>T, OthersStep
<1>1. ASSUME NEW u \in Threads, pc[u] \in Locking
      PROVE  /\ Wanted(u) \in Blocks
             /\ \A v \in Threads \ {u} :
                  pc[v] \in Swapping => Wanted(u) \notin SwapBlocks(v)
  <2>1. BlocksChosen(u)
    BY DEF BlockInv
  <2>2. LowestTodo(u) \in SwapRoles(u) /\ Wanted(u) \in Blocks
    BY <1>1, <1>T, <2>1, LowestTodoFacts
  <2>3. Wanted(u) \in SwapBlocks(u)
    <3>1. LowestTodo(u) \in {"A", "B", "C"}
      BY <2>2 DEF SwapRoles, Roles
    <3>2. Wanted(u) \in {blockA[u], blockB[u], blockC[u]}
      BY <3>1 DEF Wanted, Part
    <3>3. Wanted(u) # invalid_block
      BY <2>2, BlockAssumption DEF Blocks, invalid_block
    <3> QED BY <3>2, <3>3 DEF SwapBlocks
  <2>4. InHand(u) = SwapBlocks(u)
    BY <1>1 DEF InHand, Locking
  <2>5. ASSUME NEW v \in Threads \ {u}, pc[v] \in Swapping
        PROVE  Wanted(u) \notin SwapBlocks(v)
    <3>1. InHand(v) = SwapBlocks(v)
      BY <2>5 DEF InHand, Swapping
    <3>2. InHand(u) \cap InHand(v) = {}
      BY <1>T, <1>O DEF ColdnessOwned
    <3> QED BY <2>3, <2>4, <3>1, <3>2
  <2> QED BY <2>2, <2>5
<1>2. ASSUME NEW u \in Threads \ {t}, pc'[u] = "lockmap"
      PROVE  physBlockIndex'[cand'[u]] = Wanted(u)'
  <2>1. /\ pc[u] = "lockmap" /\ cand'[u] = cand[u] /\ todo'[u] = todo[u]
        /\ blockA'[u] = blockA[u] /\ blockB'[u] = blockB[u]
        /\ blockC'[u] = blockC[u]
    BY <1>2, <1>O DEF Others
  <2>2. Wanted(u)' = Wanted(u)
    BY <2>1 DEF Wanted, LowestTodo, Part
  <2>3. physBlockIndex[cand[u]] = Wanted(u) /\ cand[u] \in Blocks
    BY <2>1, <1>T, <1>O DEF LockOneBlockDirect, TypeOK
  <2>4. pc[t] \in Swapping => Wanted(u) \notin SwapBlocks(t)
    BY <2>1, <1>1 DEF Locking
  <2>5. physBlockIndex'[cand[u]] = physBlockIndex[cand[u]]
    BY <2>3, <2>4, Effects
  <2> QED BY <2>1, <2>2, <2>3, <2>5
<1>3. ASSUME pc'[t] = "lockmap"
      PROVE  physBlockIndex'[cand'[t]] = Wanted(t)'
  <2>1. GetUnmap(t)
    <3>1. ~Quiet(t)
      BY <1>3 DEF Quiet, Placed
    <3>2. pc \in [Threads -> Labels]
      BY <1>T DEF TypeOK
    <3>3. ~(\/ MapTableLockBlockForRead(t) \/ ReadQuery(t) \/ ReadHalf(t)
            \/ MapTableUnlockBlockForRead(t) \/ MapTableLockBlockForWrite(t)
            \/ WriteHalf(t) \/ MapTableUnlockBlockForWrite(t))
      BY <1>3, <3>2
         DEF MapTableLockBlockForRead, ReadQuery, ReadHalf,
             MapTableUnlockBlockForRead, MapTableLockBlockForWrite,
             WriteHalf, MapTableUnlockBlockForWrite
    <3>4. ~(\/ LockMap(t) \/ CopyBtoC(t) \/ CopyAtoB(t) \/ MapSwap(t)
            \/ \E l \in Blocks : UnlockSwap(t, l))
      BY <1>3, <3>2
         DEF LockMap, CopyBtoC, CopyAtoB, Copy, MapSwap, UnlockSwap
    <3> QED BY <1>T, <3>1, <3>3, <3>4, StepKinds
  <2> DEFINE p == Wanted(t)
  <2>2. /\ pc[t] = "getunmap" /\ cand'[t] = unmap[p].unmapBlock
        /\ UNCHANGED <<todo, blockA, blockB, blockC, physBlockIndex>>
    BY <2>1, <1>T DEF GetUnmap, TypeOK
  <2>3. Wanted(t)' = p
    BY <2>2 DEF Wanted, LowestTodo, Part
  <2>4. p \in Blocks /\ \A u \in Threads \ {t} :
                           pc[u] \in Swapping => p \notin SwapBlocks(u)
    BY <1>1, <2>2 DEF Locking
  <2> HIDE DEF p
  <2>5. PICK l \in Blocks : physBlockIndex[l] = p
    BY <2>4, MapOnto
  <2>6. \A u \in Threads : pc[u] \in Halfway => p \notin SwapBlocks(u)
    BY <2>2, <2>4 DEF Halfway, Swapping
  <2>7. unmap[p] = [unmapBlock |-> l, fineGrain |-> fineGrain[l]]
    BY <2>5, <2>6, <1>T DEF TablesAgree
  <2> QED BY <2>2, <2>3, <2>5, <2>7
<1> QED BY <1>2, <1>3 DEF LockOneBlockDirect

\* As long as no two list calls have overlapped, LockOneBlock never has to
\* retry, for any number of threads and blocks: the logical block it reads
\* from the unmap table still maps to the physical one when
\* MapTableLockBlockForSwap gets the lock.
THEOREM LockOneBlockNeverRetries == Spec => []LockOneBlockDirect
<1>1. Init => LockOneBlockDirect
  BY DEF Init, LockOneBlockDirect
<1>2. BlockInv /\ LockOneBlockDirect /\ [Next]_vars => LockOneBlockDirect'
  <2> SUFFICES ASSUME BlockInv, LockOneBlockDirect, [Next]_vars
               PROVE  LockOneBlockDirect'
    OBVIOUS
  <2>1. CASE UNCHANGED vars
    <3>1. UNCHANGED <<pc, physBlockIndex, cand, todo, blockA, blockB, blockC,
                      mixed>>
      BY <2>1 DEF vars, mapVars, swapVars, wearVars, coldVars
    <3>2. \A t : Wanted(t)' = Wanted(t)
      BY <3>1 DEF Wanted, LowestTodo, Part
    <3> QED BY <3>1, <3>2 DEF LockOneBlockDirect
  <2>2. CASE Next
    BY <2>2, DirectStep DEF Next
  <2> QED BY <2>1, <2>2
<1> QED BY <1>1, <1>2, BlockInvariant, PTL DEF Spec

-----------------------------------------------------------------------------
\* Nobody else's half-done block is one that thread t holds.
LEMMA HalfElsewhere ==
  ASSUME BlockInv, NEW t \in Threads, NEW u \in Threads \ {t},
         NEW m \in held[t], NEW p, HalfDone(u, p)
  PROVE  p # physBlockIndex[m]
<1>1. PICK n \in held[u] : n \in Blocks /\ physBlockIndex[n] = p
  BY HalfHeld
<1> QED BY <1>1, HeldApart

\* What a thread does under its write locks is out of sight of the others.
LEMMA OthersHalf ==
  ASSUME BlockInv, NEW t \in Threads, Start(t) \/ Run(t),
         NEW u \in Threads \ {t}, HalfKnown(u)
  PROVE  /\ \A p : HalfDone(u, p)' <=> HalfDone(u, p)
         /\ HalfKnown(u)'
<1>T. TypeOK /\ WriteLockExclusive
  BY DEF BlockInv
<1>1. /\ pc'[u] = pc[u] /\ addr'[u] = addr[u] /\ held'[u] = held[u]
      /\ blockA'[u] = blockA[u] /\ blockB'[u] = blockB[u]
      /\ blockC'[u] = blockC[u] /\ value'[u] = value[u]
  BY <1>T, OthersStep, StepKinds DEF Others, Apart
<1>2. ASSUME NEW m \in held[u] \cap Blocks
      PROVE  /\ physBlockIndex'[m] = physBlockIndex[m]
             /\ data'[physBlockIndex[m]] = data[physBlockIndex[m]]
  <2>1. m \in Blocks \ held[t]
    BY <1>T DEF WriteLockExclusive
  <2> QED BY <2>1, Effects
<1>3. pc[u] = "body2" =>
        /\ physBlockIndex'[addr[u]] = physBlockIndex[addr[u]]
        /\ data'[physBlockIndex[addr[u]]] = data[physBlockIndex[addr[u]]]
  BY <1>2, CopyHeld
<1>4. ASSUME pc[u] \in Logged, NEW p \in SwapBlocks(u)
      PROVE  data'[p] = data[p]
  <2>1. PICK m \in held[u] : m \in Blocks /\ physBlockIndex[m] = p
    BY <1>4, LoggedHeld
  <2> QED BY <1>2, <2>1
<1>5. /\ pc[u] = "copyC2" =>
           data'[blockC[u]] = data[blockC[u]] /\ data'[blockB[u]] = data[blockB[u]]
      /\ pc[u] = "copyB2" =>
           data'[blockB[u]] = data[blockB[u]] /\ data'[blockA[u]] = data[blockA[u]]
  <2>1. CASE pc[u] = "copyC2"
    <3>1. pc[u] \in Logged /\ blockB[u] \in SwapBlocks(u) /\ blockC[u] \in SwapBlocks(u)
      BY <2>1, CopyHeld
    <3> QED BY <1>4, <2>1, <3>1
  <2>2. CASE pc[u] = "copyB2"
    <3>1. pc[u] \in Logged /\ blockA[u] \in SwapBlocks(u) /\ blockB[u] \in SwapBlocks(u)
      BY <2>2, CopyHeld
    <3> QED BY <1>4, <2>2, <3>1
  <2> QED BY <2>1, <2>2
<1>6. \A p : HalfDone(u, p)' <=> HalfDone(u, p)
  BY <1>1, <1>3 DEF HalfDone
<1>7. HalfKnown(u)'
  BY <1>1, <1>3, <1>5 DEF HalfKnown
<1> QED BY <1>6, <1>7

\* A reader that still sees its lock value has not been overtaken.
LEMMA OthersReader ==
  ASSUME BlockInv, NEW t \in Threads, Start(t) \/ Run(t),
         NoLockWraps, NEW u \in Threads \ {t}, ReaderKnows(u)
  PROVE  ReaderKnows(u)'
<1>T. TypeOK /\ WriteLockExclusive
  BY DEF BlockInv
<1> DEFINE l == addr[u]
<1>1. /\ pc'[u] = pc[u] /\ addr'[u] = l /\ seq'[u] = seq[u]
      /\ query'[u] = query[u] /\ buf'[u] = buf[u]
  BY <1>T, OthersStep, StepKinds DEF Others, Apart
<1>2. /\ l \in Blocks /\ lock[l] \in Int /\ lock'[l] \in Int /\ seq[u] \in Int
      /\ lock[l] <= lock'[l]
  <2>1. /\ l \in Blocks /\ seq[u] \in 0 .. LOCK_RANGE - 1
        /\ lock[l] \in 0 .. LOCK_RANGE - 1
    BY <1>T DEF TypeOK
  <2>2. lock'[l] \in {lock[l], Bump(lock[l]), Bump(Bump(lock[l]))}
    BY <2>1, Effects
  <2>3. lock'[l] \in 0 .. LOCK_RANGE - 1
    BY <2>1, <2>2, BumpFacts
  <2> QED BY <2>1, <2>3, LockAssumption DEF NoLockWraps
<1> HIDE DEF l
<1>3. pc[u] \in Reading => seq[u] % 2 = 0 /\ seq[u] <= lock[l]
  BY DEF ReaderKnows, l
<1>4. pc[u] \in Reading => seq[u] % 2 = 0 /\ seq[u] <= lock'[l]
  BY <1>2, <1>3
<1>5. CASE pc[u] \in Reading /\ lock'[l] = seq[u]
  <2>1. lock[l] = seq[u] /\ lock[l] % 2 = 0
    BY <1>2, <1>3, <1>5
  <2>2. l \notin held[t]
    BY <1>2, <1>T, <2>1 DEF WriteLockExclusive, Locked
  <2>3. /\ physBlockIndex'[l] = physBlockIndex[l]
        /\ data'[physBlockIndex[l]] = data[physBlockIndex[l]]
    BY <1>2, <2>2, Effects
  <2>4. /\ pc[u] \in Reading \ {"rquery"} => query[u] = physBlockIndex[l]
        /\ pc[u] \in {"read2", "runlock"} => buf[u][1] = data[query[u]][1]
        /\ pc[u] = "runlock" => buf[u][2] = data[query[u]][2]
    BY <2>1 DEF ReaderKnows, l
  <2>5. /\ pc[u] \in Reading \ {"rquery"} => query[u] = physBlockIndex'[l]
        /\ pc[u] \in {"read2", "runlock"} => buf[u][1] = data'[query[u]][1]
        /\ pc[u] = "runlock" => buf[u][2] = data'[query[u]][2]
    BY <2>3, <2>4 DEF Reading
  <2> QED BY <1>1, <1>4, <2>5 DEF ReaderKnows
<1>6. CASE ~(pc[u] \in Reading /\ lock'[l] = seq[u])
  BY <1>1, <1>4, <1>6 DEF ReaderKnows, Reading
<1> QED BY <1>5, <1>6

-----------------------------------------------------------------------------
\* A step that writes no data and ends no half.
LEMMA WholeFrame ==
  ASSUME BlockInv, NEW t \in Threads, Start(t) \/ Run(t),
         DataWhole, \A u \in Threads : HalfKnown(u),
         NEW p \in Blocks, \A u \in Threads : ~HalfDone(u, p)',
         ~HalfDone(t, p), data'[p] = data[p]
  PROVE  data'[p][1] = data'[p][2]
<1>1. \A u \in Threads \ {t} : ~HalfDone(u, p)
  BY OthersHalf
<1>2. \A u \in Threads : ~HalfDone(u, p)
  BY <1>1
<1> QED BY <1>2 DEF DataWhole

\* The source of a copy is whole.
LEMMA SourceWhole ==
  ASSUME BlockInv, DataWhole, NEW t \in Threads, pc[t] \in Logged,
         NEW p \in SwapBlocks(t) \cap Blocks, ~HalfDone(t, p)
  PROVE  data[p][1] = data[p][2]
<1>1. PICK m \in held[t] : m \in Blocks /\ physBlockIndex[m] = p
  BY LoggedHeld
<1>2. \A u \in Threads : ~HalfDone(u, p)
  BY <1>1, HalfElsewhere
<1> QED BY <1>2 DEF DataWhole

\* The first half of a write or copy leaves the block in its hands, the
\* second leaves it whole.
LEMMA OwnHalf ==
  ASSUME BlockInv, NEW t \in Threads, Start(t) \/ Run(t),
         DataWhole, \A u \in Threads : HalfKnown(u)
  PROVE  HalfKnown(t)' /\ DataWhole'
<1> USE DEF mapVars, coldVars, wearVars, logVars, argVars, readVars, swapVars,
            Goto, At
<1>T. /\ TypeOK /\ HalfKnown(t)
      /\ pc \in [Threads -> Labels] /\ data \in [Blocks -> Halves]
      /\ physBlockIndex \in [Blocks -> Blocks] /\ addr[t] \in Blocks
      /\ data \in [Blocks -> [{1, 2} -> Values \cup {Blank}]]
  BY DEF BlockInv, TypeOK, Halves
<1>1. ASSUME UNCHANGED data, pc[t] \notin {"body2", "copyC2", "copyB2"},
             pc'[t] \notin {"body2", "copyC2", "copyB2"}
      PROVE  HalfKnown(t)' /\ DataWhole'
  <2>1. HalfKnown(t)'
    BY <1>1 DEF HalfKnown
  <2>2. ASSUME NEW p \in Blocks, \A u \in Threads : ~HalfDone(u, p)'
        PROVE  data'[p][1] = data'[p][2]
    <3>1. ~HalfDone(t, p) /\ data'[p] = data[p]
      BY <1>1 DEF HalfDone
    <3> QED BY <2>2, <3>1, WholeFrame
  <2> QED BY <2>1, <2>2 DEF DataWhole
\* Half a transfer into block d: first half, or second half with the first known.
<1>2. ASSUME NEW d \in Blocks, NEW v,
             data' = [data EXCEPT ![d][1] = v],
             \A p : ~HalfDone(t, p),
             \A p : HalfDone(t, p)' <=> p = d
      PROVE  DataWhole'
  <2>1. ASSUME NEW p \in Blocks, \A u \in Threads : ~HalfDone(u, p)'
        PROVE  data'[p][1] = data'[p][2]
    <3>1. p # d
      BY <1>2, <2>1
    <3>2. ~HalfDone(t, p) /\ data'[p] = data[p]
      BY <1>2, <1>T, <3>1
    <3> QED BY <2>1, <3>2, WholeFrame
  <2> QED BY <2>1 DEF DataWhole
<1>3. ASSUME NEW d \in Blocks, NEW v,
             data' = [data EXCEPT ![d][2] = v], data[d][1] = v,
             \A p : HalfDone(t, p) <=> p = d
      PROVE  DataWhole'
  <2>1. ASSUME NEW p \in Blocks, \A u \in Threads : ~HalfDone(u, p)'
        PROVE  data'[p][1] = data'[p][2]
    <3>1. CASE p = d
      BY <1>3, <1>T, <3>1
    <3>2. CASE p # d
      <4>1. ~HalfDone(t, p) /\ data'[p] = data[p]
        BY <1>3, <1>T, <3>2
      <4> QED BY <2>1, <4>1, WholeFrame
    <3> QED BY <3>1, <3>2
  <2> QED BY <2>1 DEF DataWhole
<1>4. CASE WriteHalf(t)
  <2> DEFINE d == physBlockIndex[addr[t]]
  <2>1. d \in Blocks /\ UNCHANGED <<physBlockIndex, addr, value>>
    BY <1>4, <1>T DEF WriteHalf
  <2>2. CASE pc[t] = "body"
    <3>1. data' = [data EXCEPT ![d][1] = value[t]] /\ pc'[t] = "body2"
      BY <1>4, <1>T, <2>2 DEF WriteHalf
    <3>2. HalfKnown(t)'
      BY <1>T, <2>1, <3>1 DEF HalfKnown
    <3>3. \A p : ~HalfDone(t, p) /\ (HalfDone(t, p)' <=> p = d)
      BY <2>1, <2>2, <3>1 DEF HalfDone
    <3> HIDE DEF d
    <3> QED BY <1>2, <2>1, <3>1, <3>2, <3>3
  <2>3. CASE pc[t] = "body2"
    <3>1. data' = [data EXCEPT ![d][2] = value[t]] /\ pc'[t] = "unlock"
      BY <1>4, <1>T, <2>3 DEF WriteHalf
    <3>2. HalfKnown(t)'
      BY <3>1 DEF HalfKnown
    <3>3. (\A p : HalfDone(t, p) <=> p = d) /\ data[d][1] = value[t]
      BY <1>T, <2>3 DEF HalfDone, HalfKnown
    <3> HIDE DEF d
    <3> QED BY <1>3, <2>1, <3>1, <3>2, <3>3
  <2> QED BY <1>4, <2>2, <2>3 DEF WriteHalf
<1>5. CASE CopyBtoC(t)
  <2> DEFINE a == blockB[t]
             d == blockC[t]
  <2>1. /\ a \in Blocks /\ d \in Blocks /\ a # d /\ pc[t] \in Logged
        /\ a \in SwapBlocks(t) /\ UNCHANGED <<blockB, blockC>>
    BY <1>5, CopyHeld DEF CopyBtoC, Copy
  <2>2. CASE pc[t] = "copyC1"
    <3>1. data' = [data EXCEPT ![d][1] = data[a][1]] /\ pc'[t] = "copyC2"
      BY <1>5, <1>T, <2>2 DEF CopyBtoC, Copy
    <3>2. HalfKnown(t)'
      BY <1>T, <2>1, <3>1 DEF HalfKnown
    <3>3. \A p : ~HalfDone(t, p) /\ (HalfDone(t, p)' <=> p = d)
      BY <2>1, <2>2, <3>1 DEF HalfDone
    <3> HIDE DEF a, d
    <3> QED BY <1>2, <2>1, <3>1, <3>2, <3>3
  <2>3. CASE pc[t] = "copyC2"
    <3>1. data' = [data EXCEPT ![d][2] = data[a][2]] /\ pc'[t] = "copyB1"
      BY <1>5, <1>T, <2>3 DEF CopyBtoC, Copy
    <3>2. HalfKnown(t)'
      BY <3>1 DEF HalfKnown
    <3>3. (\A p : HalfDone(t, p) <=> p = d) /\ data[d][1] = data[a][1]
      BY <1>T, <2>3 DEF HalfDone, HalfKnown
    <3>4. data[a][1] = data[a][2]
      BY <2>1, <3>3, SourceWhole
    <3> HIDE DEF a, d
    <3> QED BY <1>3, <2>1, <3>1, <3>2, <3>3, <3>4
  <2> QED BY <1>5, <2>2, <2>3 DEF CopyBtoC
<1>6. CASE CopyAtoB(t)
  <2> DEFINE a == blockA[t]
             d == blockB[t]
  <2>1. /\ a \in Blocks /\ d \in Blocks /\ a # d /\ pc[t] \in Logged
        /\ a \in SwapBlocks(t) /\ UNCHANGED <<blockA, blockB>>
    BY <1>6, CopyHeld DEF CopyAtoB, Copy
  <2>2. CASE pc[t] = "copyB1"
    <3>1. data' = [data EXCEPT ![d][1] = data[a][1]] /\ pc'[t] = "copyB2"
      BY <1>6, <1>T, <2>2 DEF CopyAtoB, Copy
    <3>2. HalfKnown(t)'
      BY <1>T, <2>1, <3>1 DEF HalfKnown
    <3>3. \A p : ~HalfDone(t, p) /\ (HalfDone(t, p)' <=> p = d)
      BY <2>1, <2>2, <3>1 DEF HalfDone
    <3> HIDE DEF a, d
    <3> QED BY <1>2, <2>1, <3>1, <3>2, <3>3
  <2>3. CASE pc[t] = "copyB2"
    <3>1. data' = [data EXCEPT ![d][2] = data[a][2]] /\ pc'[t] = "unmapA"
      BY <1>6, <1>T, <2>3 DEF CopyAtoB, Copy
    <3>2. HalfKnown(t)'
      BY <3>1 DEF HalfKnown
    <3>3. (\A p : HalfDone(t, p) <=> p = d) /\ data[d][1] = data[a][1]
      BY <1>T, <2>3 DEF HalfDone, HalfKnown
    <3>4. data[a][1] = data[a][2]
      BY <2>1, <3>3, SourceWhole
    <3> HIDE DEF a, d
    <3> QED BY <1>3, <2>1, <3>1, <3>2, <3>3, <3>4
  <2> QED BY <1>6, <2>2, <2>3 DEF CopyAtoB
<1>7. CASE Quiet(t)
  BY <1>1, <1>7 DEF Quiet, Placed
<1>8. CASE \/ MapTableLockBlockForRead(t) \/ ReadQuery(t) \/ ReadHalf(t)
           \/ MapTableUnlockBlockForRead(t)
  BY <1>1, <1>8, <1>T DEF MapTableLockBlockForRead, ReadQuery, ReadHalf,
                          MapTableUnlockBlockForRead
<1>9. CASE MapTableLockBlockForWrite(t) \/ MapTableUnlockBlockForWrite(t)
  BY <1>1, <1>9, <1>T
     DEF MapTableLockBlockForWrite, MapTableUnlockBlockForWrite
<1>10. CASE \/ GetUnmap(t) \/ LockMap(t) \/ MapSwap(t)
            \/ \E l \in Blocks : UnlockSwap(t, l)
  BY <1>1, <1>10, <1>T DEF GetUnmap, LockMap, MapSwap, UnlockSwap
<1> QED BY <1>T, <1>4, <1>5, <1>6, <1>7, <1>8, <1>9, <1>10, StepKinds

\* A reader's own steps take what they need from a lock value that is even.
LEMMA OwnReader ==
  ASSUME BlockInv, NEW t \in Threads, Start(t) \/ Run(t), ReaderKnows(t)
  PROVE  ReaderKnows(t)'
<1> USE DEF mapVars, coldVars, wearVars, logVars, argVars, readVars, swapVars,
            Goto, At
<1>T. /\ TypeOK /\ pc \in [Threads -> Labels]
      /\ seq \in [Threads -> 0 .. LOCK_RANGE - 1]
      /\ query \in [Threads -> Blocks]
      /\ buf \in [Threads -> [{1, 2} -> Values \cup {Blank}]]
      /\ addr[t] \in Blocks /\ lock[addr[t]] \in 0 .. LOCK_RANGE - 1
  BY DEF BlockInv, TypeOK, Halves
<1>1. ASSUME pc'[t] \notin Reading PROVE ReaderKnows(t)'
  BY <1>1 DEF ReaderKnows, Reading
<1>2. CASE MapTableLockBlockForRead(t)
  <2>1. /\ pc'[t] = "rquery" /\ seq'[t] = lock[addr[t]]
        /\ UNCHANGED <<addr, lock>> /\ lock[addr[t]] % 2 # 1
    BY <1>2, <1>T DEF MapTableLockBlockForRead, Locked
  <2>2. lock[addr[t]] % 2 = 0 /\ lock[addr[t]] <= lock[addr[t]]
    <3>1. \A n \in Int : n % 2 # 1 => n % 2 = 0 /\ n <= n
      OBVIOUS
    <3>2. lock[addr[t]] \in Int
      BY <1>T, LockAssumption
    <3> QED BY <2>1, <3>1, <3>2
  <2> QED BY <2>1, <2>2 DEF ReaderKnows, Reading
<1>3. CASE ReadQuery(t)
  <2>1. /\ pc[t] = "rquery" /\ pc'[t] = "read1"
        /\ query'[t] = physBlockIndex[addr[t]]
        /\ UNCHANGED <<addr, lock, seq, physBlockIndex>>
    BY <1>3, <1>T DEF ReadQuery
  <2> QED BY <2>1 DEF ReaderKnows, Reading
<1>4. CASE ReadHalf(t)
  <2>1. UNCHANGED <<addr, lock, seq, physBlockIndex, query, data>>
    BY <1>4 DEF ReadHalf
  <2>2. CASE pc[t] = "read1"
    <3>1. pc'[t] = "read2" /\ buf'[t][1] = data[query[t]][1]
      BY <1>4, <1>T, <2>2 DEF ReadHalf
    <3> QED BY <2>1, <2>2, <3>1 DEF ReaderKnows, Reading
  <2>3. CASE pc[t] = "read2"
    <3>1. /\ pc'[t] = "runlock" /\ buf'[t][2] = data[query[t]][2]
          /\ buf'[t][1] = buf[t][1]
      BY <1>4, <1>T, <2>3 DEF ReadHalf
    <3> QED BY <2>1, <2>3, <3>1 DEF ReaderKnows, Reading
  <2> QED BY <1>4, <2>2, <2>3 DEF ReadHalf
<1>5. CASE MapTableUnlockBlockForRead(t)
  BY <1>1, <1>5, <1>T DEF MapTableUnlockBlockForRead, Reading
<1>6. CASE Quiet(t)
  BY <1>1, <1>6 DEF Quiet, Placed
<1>7. CASE \/ MapTableLockBlockForWrite(t) \/ WriteHalf(t)
           \/ MapTableUnlockBlockForWrite(t)
  BY <1>1, <1>7, <1>T DEF MapTableLockBlockForWrite, WriteHalf,
                          MapTableUnlockBlockForWrite, Reading
<1>8. CASE GetUnmap(t) \/ LockMap(t) \/ MapSwap(t)
  BY <1>1, <1>8, <1>T DEF GetUnmap, LockMap, MapSwap, Reading
<1>9. CASE \/ CopyBtoC(t) \/ CopyAtoB(t) \/ \E l \in Blocks : UnlockSwap(t, l)
  BY <1>1, <1>9, <1>T DEF CopyBtoC, CopyAtoB, Copy, UnlockSwap, Reading
<1> QED BY <1>T, <1>2, <1>3, <1>4, <1>5, <1>6, <1>7, <1>8, <1>9, StepKinds

-----------------------------------------------------------------------------
\* A formatted device satisfies ReadInv.
LEMMA InitRead == Init => ReadInv
<1> SUFFICES ASSUME Init PROVE ReadInv
  OBVIOUS
<1>1. BlockInv
  BY InitInv
<1>2. \A t \in Threads : pc[t] = "idle"
  BY DEF Init
<1>3. DataWhole
  BY DEF Init, DataWhole
<1>4. \A t \in Threads : HalfKnown(t) /\ ReaderKnows(t)
  BY <1>2 DEF HalfKnown, ReaderKnows, Reading
<1> QED BY <1>1, <1>2, <1>3, <1>4 DEF ReadInv

\* No step that does not use up a lock field breaks it.
LEMMA NextRead == ReadInv /\ [Next /\ NoLockWraps]_vars => ReadInv'
<1> SUFFICES ASSUME ReadInv, [Next /\ NoLockWraps]_vars PROVE ReadInv'
  OBVIOUS
<1>1. BlockInv /\ DataWhole
      /\ \A u \in Threads : HalfKnown(u) /\ ReaderKnows(u)
  BY DEF ReadInv
<1>2. BlockInv'
  BY <1>1, NextInv
<1>3. CASE UNCHANGED vars
  <2>1. UNCHANGED <<pc, physBlockIndex, data, lock, seq, query, buf,
                    addr, value, blockA, blockB, blockC>>
    BY <1>3 DEF vars, mapVars, swapVars, argVars, readVars
  <2>3. DataWhole'
    BY <1>1, <2>1 DEF DataWhole, HalfDone
  <2>4. \A u \in Threads : HalfKnown(u)'
    BY <1>1, <2>1 DEF HalfKnown
  <2>5. \A u \in Threads : ReaderKnows(u)'
    BY <1>1, <2>1 DEF ReaderKnows
  <2> QED BY <1>2, <2>3, <2>4, <2>5 DEF ReadInv
<1>4. ASSUME NEW t \in Threads, Start(t) \/ Run(t), NoLockWraps PROVE ReadInv'
  <2>2. DataWhole' /\ HalfKnown(t)'
    BY <1>1, <1>4, OwnHalf
  <2>3. ReaderKnows(t)'
    BY <1>1, <1>4, OwnReader
  <2>4. \A u \in Threads \ {t} : HalfKnown(u)'
    BY <1>1, <1>4, OthersHalf
  <2>5. \A u \in Threads \ {t} : ReaderKnows(u)'
    BY <1>1, <1>4, OthersReader
  <2> QED BY <1>2, <2>2, <2>3, <2>4, <2>5 DEF ReadInv
<1> QED BY <1>3, <1>4 DEF Next

\* BlockManagerRead is atomic: what a read returns is, in both halves, what
\* the physical block mapped at its return holds, whole, for any number of
\* threads, blocks and concurrent writes and swaps.  The hypothesis is that
\* the 22-bit lock field is not used up: a reader that sleeps through exactly
\* 2^21 writes of its block cannot tell.
THEOREM ReadIsAtomic == Spec /\ [][NoLockWraps]_vars => ReadAtomic
<1> DEFINE Returned == \A t \in Threads : ReadReturns(t) =>
                          /\ buf[t] = data[physBlockIndex[addr[t]]]
                          /\ buf[t][1] = buf[t][2]
<1>1. ReadInv /\ [Next]_vars => [Returned]_vars
  <2> SUFFICES ASSUME ReadInv, Next, NEW t \in Threads, ReadReturns(t)
               PROVE  /\ buf[t] = data[physBlockIndex[addr[t]]]
                      /\ buf[t][1] = buf[t][2]
    OBVIOUS
  <2>T. BlockInv /\ TypeOK /\ WriteLockExclusive /\ TablesAgree /\ DataWhole
        /\ ReaderKnows(t)
    BY DEF ReadInv, BlockInv
  <2>1. PICK u \in Threads : Start(u) \/ Run(u)
    BY DEF Next
  <2>2. u = t /\ pc[t] = "runlock" /\ pc'[t] = "idle"
    BY <2>1, <2>T, OthersStep DEF Others, ReadReturns
  <2>3. MapTableUnlockBlockForRead(t)
    <3>1. ~Quiet(t)
      BY <2>2 DEF Quiet, Placed, Reading
    <3>2. ~(\/ MapTableLockBlockForRead(t) \/ ReadQuery(t) \/ ReadHalf(t)
            \/ MapTableLockBlockForWrite(t) \/ WriteHalf(t)
            \/ MapTableUnlockBlockForWrite(t) \/ GetUnmap(t) \/ LockMap(t)
            \/ CopyBtoC(t) \/ CopyAtoB(t) \/ MapSwap(t)
            \/ \E l \in Blocks : UnlockSwap(t, l))
      BY <2>2 DEF At, MapTableLockBlockForRead, ReadQuery, ReadHalf,
                  MapTableLockBlockForWrite, WriteHalf,
                  MapTableUnlockBlockForWrite, GetUnmap, LockMap, CopyBtoC,
                  CopyAtoB, MapSwap, UnlockSwap
    <3> QED BY <2>1, <2>2, <2>T, <3>1, <3>2, StepKinds
  <2>4. lock[addr[t]] = seq[t] /\ addr[t] \in Blocks /\ pc \in [Threads -> Labels]
    BY <2>2, <2>3, <2>T DEF MapTableUnlockBlockForRead, Goto, TypeOK
  <2> DEFINE p == physBlockIndex[addr[t]]
  <2>5. /\ p \in Blocks /\ lock[addr[t]] % 2 = 0
        /\ buf[t][1] = data[p][1] /\ buf[t][2] = data[p][2]
    BY <2>2, <2>4, <2>T DEF ReaderKnows, Reading, TypeOK
  <2>6. \A v \in Threads : ~HalfDone(v, p)
    <3> SUFFICES ASSUME NEW v \in Threads, HalfDone(v, p) PROVE FALSE
      OBVIOUS
    <3>1. PICK m \in held[v] : m \in Blocks /\ physBlockIndex[m] = p
      BY <2>T, HalfHeld
    <3>2. m = addr[t]
      BY <3>1, <2>4, <2>T DEF TablesAgree
    <3>3. Locked(addr[t])
      BY <3>1, <3>2, <2>4, <2>T DEF WriteLockExclusive
    <3> QED BY <3>3, <2>5 DEF Locked
  <2>7. data[p][1] = data[p][2]
    BY <2>5, <2>6, <2>T DEF DataWhole
  <2>8. /\ data[p] \in [{1, 2} -> Values \cup {Blank}]
        /\ buf[t] \in [{1, 2} -> Values \cup {Blank}]
    BY <2>5, <2>T DEF TypeOK, Halves
  <2> HIDE DEF p
  <2>9. buf[t] = data[p] /\ buf[t][1] = buf[t][2]
    BY <2>5, <2>7, <2>8
  <2> QED BY <2>9 DEF p
<1>2. Spec /\ [][NoLockWraps]_vars => []ReadInv
  <2>1. [Next]_vars /\ [NoLockWraps]_vars => [Next /\ NoLockWraps]_vars
    OBVIOUS
  <2> QED BY InitRead, NextRead, <2>1, PTL DEF Spec
<1>3. Spec /\ [][NoLockWraps]_vars => [][Returned]_vars
  BY <1>1, <1>2, PTL DEF Spec
<1> QED BY <1>3 DEF ReadAtomic
-----------------------------------------------------------------------------
\* Whoever holds the log and the locks, data stays whole.
WholeInv ==
  /\ BlockInv
  /\ DataWhole
  /\ \A t \in Threads : HalfKnown(t)

\* A formatted device satisfies WholeInv.
LEMMA InitWhole == Init => WholeInv
BY InitRead DEF ReadInv, WholeInv

\* Every step keeps it, lock values used up or not.
LEMMA NextWhole == WholeInv /\ [Next]_vars => WholeInv'
<1> SUFFICES ASSUME WholeInv, [Next]_vars PROVE WholeInv'
  OBVIOUS
<1>1. BlockInv /\ DataWhole
      /\ \A u \in Threads : HalfKnown(u)
  BY DEF WholeInv
<1>2. BlockInv'
  BY <1>1, NextInv
<1>3. CASE UNCHANGED vars
  <2>1. UNCHANGED <<pc, physBlockIndex, data, addr, value, blockA,
                    blockB, blockC>>
    BY <1>3 DEF vars, mapVars, swapVars, argVars
  <2>3. DataWhole'
    BY <1>1, <2>1 DEF DataWhole, HalfDone
  <2>4. \A u \in Threads : HalfKnown(u)'
    BY <1>1, <2>1 DEF HalfKnown
  <2> QED BY <1>2, <2>3, <2>4 DEF WholeInv
<1>4. ASSUME NEW t \in Threads, Start(t) \/ Run(t) PROVE WholeInv'
  <2>2. DataWhole' /\ HalfKnown(t)'
    BY <1>1, <1>4, OwnHalf
  <2>3. \A u \in Threads \ {t} : HalfKnown(u)'
    BY <1>1, <1>4, OthersHalf
  <2> QED BY <1>2, <2>2, <2>3 DEF WholeInv
<1> QED BY <1>3, <1>4 DEF Next

-----------------------------------------------------------------------------
\* From here on one thread is inside the wear leveler.
OneThread == \A t, u \in Threads : t = u

\* From the moment the type arms a log entry to the moment it is cleared.
Armed == (Logged \ {"logtype"}) \cup {"logend"}
Copied == {"unmapA", "unmapB", "unmapC", "mapswap"}
BlocksCopied(t) == pc[t] \in Copied \cup {"logend"}

\* The step marks of a swap are the copies that are complete.
Marks(t) ==
  LET slow == blockC[t] # invalid_block IN
  {m \in {0, 2, 3} :
     \/ m = 0
     \/ m = 2 /\ slow /\ pc[t] \in {"copyB1", "copyB2"}
     \/ m = 2 /\ BlocksCopied(t)
     \/ m = 3 /\ slow /\ BlocksCopied(t)}

\* The tables and the data that a swap is on its way to.
TargetUnmap(t) ==
  IF blockC[t] = invalid_block
  THEN [unmap EXCEPT ![blockA[t]] = info[t].B, ![blockB[t]] = info[t].A]
  ELSE [unmap EXCEPT ![blockA[t]] = info[t].C, ![blockB[t]] = info[t].A,
                     ![blockC[t]] = info[t].B]
TargetData(t) ==
  CASE BlocksCopied(t) -> data
    [] pc[t] \in {"copyC1", "copyC2"} ->
         [data EXCEPT ![blockC[t]] = data[blockB[t]],
                      ![blockB[t]] = data[blockA[t]]]
    [] OTHER -> [data EXCEPT ![blockB[t]] = data[blockA[t]]]

\* The entry of a swap names its blocks and their old unmap entries.
EntryFits(t) ==
  LET e == log[slot[t]] IN
  /\ e.blocks = [A |-> blockA[t], B |-> blockB[t], C |-> blockC[t]]
  /\ e.info = info[t]
  /\ e.step = Marks(t)
  /\ pc[t] \in Armed => e.type = IF blockC[t] = invalid_block THEN 1 ELSE 2

\* Only the swap that runs has an armed entry, and the entry fits it.
SwapLogged(t) ==
  /\ \A i \in Slots : log[i].type # 0 => pc[t] \in Armed /\ i = slot[t]
  /\ pc[t] \in Armed \cup {"logtype"} => EntryFits(t)
  /\ pc[t] = "logend" => unmap = TargetUnmap(t)

\* Redoing a fitting entry gives what the swap is on its way to.
OnTarget ==
  \A t \in Threads :
    SwapLogged(t) /\ pc[t] \in Armed =>
      RedoState(log[slot[t]]) = <<TargetUnmap(t), TargetData(t)>>

LEMMA RedoGivesTarget == BlockInv => OnTarget
<1> SUFFICES ASSUME BlockInv, NEW t \in Threads, SwapLogged(t), pc[t] \in Armed
             PROVE  RedoState(log[slot[t]]) = <<TargetUnmap(t), TargetData(t)>>
  BY DEF OnTarget
<1> DEFINE e == log[slot[t]]
<1>1. /\ e.blocks = [A |-> blockA[t], B |-> blockB[t], C |-> blockC[t]]
      /\ e.info = info[t] /\ e.step = Marks(t)
      /\ e.type = IF blockC[t] = invalid_block THEN 1 ELSE 2
  BY DEF SwapLogged, EntryFits
<1>2. /\ pc[t] \in {"copyC1", "copyC2", "copyB1", "copyB2"} \cup Copied
                     \cup {"logend"}
      /\ pc[t] \in {"copyC1", "copyC2"} => blockC[t] # invalid_block
  BY DEF BlockInv, BlocksChosen, Armed, Logged, Swapping, Copied
<1>3. /\ 2 \in e.step <=> \/ BlocksCopied(t)
                          \/ /\ blockC[t] # invalid_block
                             /\ pc[t] \in {"copyB1", "copyB2"}
      /\ 3 \in e.step <=> BlocksCopied(t) /\ blockC[t] # invalid_block
  BY <1>1 DEF Marks
<1> HIDE DEF e
<1>4. RedoUnmap(e) = TargetUnmap(t)
  BY <1>1 DEF RedoUnmap, TargetUnmap
<1>5. RedoData(e) = TargetData(t)
  <2>1. CASE BlocksCopied(t)
    <3>1. pc[t] \notin {"copyC1", "copyC2"}
      BY <2>1 DEF BlocksCopied, Copied
    <3>2. RedoData(e) = data
      <4>1. CASE blockC[t] = invalid_block
        <5>1. e.type = 1 /\ 2 \in e.step
          BY <1>1, <1>3, <2>1, <4>1
        <5> QED BY <5>1 DEF RedoData
      <4>2. CASE blockC[t] # invalid_block
        <5>1. e.type = 2 /\ 2 \in e.step /\ 3 \in e.step
          BY <1>1, <1>3, <2>1, <4>2
        <5> QED BY <5>1 DEF RedoData
      <4> QED BY <4>1, <4>2
    <3> QED BY <2>1, <3>1, <3>2 DEF TargetData
  <2>2. CASE pc[t] \in {"copyC1", "copyC2"}
    <3>1. e.type = 2 /\ 2 \notin e.step /\ ~BlocksCopied(t)
      BY <1>1, <1>2, <1>3, <2>2 DEF BlocksCopied, Copied
    <3>2. RedoData(e) = [data EXCEPT ![blockC[t]] = data[blockB[t]],
                                     ![blockB[t]] = data[blockA[t]]]
      BY <1>1, <3>1 DEF RedoData
    <3> QED BY <2>2, <3>1, <3>2 DEF TargetData
  <2>3. CASE pc[t] \in {"copyB1", "copyB2"}
    <3>1. ~BlocksCopied(t) /\ pc[t] \notin {"copyC1", "copyC2"}
      BY <2>3 DEF BlocksCopied, Copied
    <3>2. RedoData(e) = [data EXCEPT ![blockB[t]] = data[blockA[t]]]
      <4>1. CASE blockC[t] = invalid_block
        <5>1. e.type = 1 /\ 2 \notin e.step
          BY <1>1, <1>3, <3>1, <4>1
        <5> QED BY <1>1, <5>1 DEF RedoData
      <4>2. CASE blockC[t] # invalid_block
        <5>1. e.type = 2 /\ 2 \in e.step /\ 3 \notin e.step
          BY <1>1, <1>3, <3>1, <2>3, <4>2
        <5> QED BY <1>1, <5>1 DEF RedoData
      <4> QED BY <4>1, <4>2
    <3> QED BY <3>1, <3>2 DEF TargetData
  <2> QED BY <1>2, <2>1, <2>2, <2>3 DEF BlocksCopied
<1> QED BY <1>4, <1>5 DEF RedoState, e

\* Most steps are not a logged swap's.
Unlogged(t) ==
  /\ UNCHANGED log
  /\ pc[t] \notin Armed \cup {"logtype"}
  /\ pc'[t] \notin Armed \cup {"logtype"}

\* Every step is of one of these kinds.
LEMMA LogKinds ==
  ASSUME TypeOK, NEW t \in Threads, Start(t) \/ Run(t)
  PROVE  \/ Unlogged(t)
         \/ LogBegin(t) \/ LogType(t) \/ CopyBtoC(t) \/ CopyAtoB(t)
         \/ SetUnmapA(t) \/ SetUnmapB(t) \/ SetUnmapC(t) \/ MapSwap(t)
         \/ LogBlockSwapEnd(t)
<1> USE DEF mapVars, coldVars, wearVars, logVars, argVars, readVars, swapVars,
            Goto, At
<1>T. pc \in [Threads -> Labels]
  BY DEF TypeOK
<1>S. Armed \cup {"logtype"} =
        {"logtype", "copyC1", "copyC2", "copyB1", "copyB2", "unmapA", "unmapB",
         "unmapC", "mapswap", "logend"}
  BY DEF Armed, Logged, Swapping
<1> USE <1>T, <1>S DEF Unlogged, LeaveLists, Get
<1>1. CASE Start(t)
  BY <1>1 DEF Start, BeginWrite, BeginOther, Begin
<1>2. CASE Read(t)
  BY <1>2 DEF Read, MapTableLockBlockForRead, ReadQuery, ReadHalf,
              MapTableUnlockBlockForRead
<1>3. CASE Update(t)
  <2>1. CASE MapTableLockBlockForWrite(t) \/ WriteHalf(t) \/ TrimRead(t)
    BY <2>1 DEF MapTableLockBlockForWrite, WriteHalf, TrimRead
  <2>2. CASE TrimRemove(t) \/ TrimPut(t)
    BY <2>2 DEF TrimRemove, TrimPut,
                BlockColdnessManagerRemove, BlockColdnessManagerPut
  <2>3. CASE Split(t) \/ \E m \in MergeWear : Merge(t, m)
    BY <2>3 DEF Split, Merge, SetGrain
  <2>4. CASE MapTableUnlockBlockForWrite(t)
    BY <2>4 DEF MapTableUnlockBlockForWrite
  <2> QED BY <1>3, <2>1, <2>2, <2>3, <2>4 DEF Update
<1>4. CASE IncreaseBlockWearCount(t)
  <2>1. CASE ReadThreshold(t) \/ ReadWear(t) \/ ChargeWear(t)
    BY <2>1 DEF ReadThreshold, ReadWear, ChargeWear
  <2>2. CASE RemoveHot(t)
    BY <2>2 DEF RemoveHot, BlockColdnessManagerRemove
  <2>3. CASE \E b \in MaybeBlock : GetFree(t, b) \/ GetBusy(t, b) \/ GetWorn(t, b)
    BY <2>3 DEF GetFree, GetBusy, GetWorn
  <2>4. CASE PutBack(t) \/ RaiseThreshold(t) \/ PersistThreshold(t)
    BY <2>4 DEF PutBack, BlockColdnessManagerPut, RaiseThreshold, PersistThreshold
  <2> QED BY <1>4, <2>1, <2>2, <2>3, <2>4 DEF IncreaseBlockWearCount
<1>5. CASE BlockSwap(t)
  <2>1. CASE GetUnmap(t) \/ LockMap(t)
    BY <2>1 DEF GetUnmap, LockMap
  <2>2. CASE Account(t) \/ PutA(t) \/ PutB(t) \/ PutC(t)
    BY <2>2 DEF Account, PutA, PutB, PutC, BlockColdnessManagerPut
  <2>3. CASE \E l \in Blocks : UnlockSwap(t, l)
    BY <2>3 DEF UnlockSwap
  <2> QED BY <1>5, <2>1, <2>2, <2>3 DEF BlockSwap
<1>6. CASE EnterLists(t) \/ ListFault(t)
  BY <1>6 DEF EnterLists, ListFault, ListCalls
<1> QED BY <1>1, <1>2, <1>3, <1>4, <1>5, <1>6 DEF Run

\* The step of the action property SwapRedoable.
RedoStep ==
  \A i \in Slots : log[i].type # 0 =>
    IF log'[i].type # 0 THEN RedoState(log[i])' = RedoState(log[i])
                        ELSE <<unmap, data>>' = RedoState(log[i])

\* A step inside an armed swap that keeps what the swap is on its way to.
LEMMA TargetKept ==
  ASSUME BlockInv, BlockInv', NEW t \in Threads, SwapLogged(t), SwapLogged(t)',
         pc[t] \in Armed, pc'[t] \in Armed, UNCHANGED slot,
         TargetUnmap(t)' = TargetUnmap(t), TargetData(t)' = TargetData(t)
  PROVE  RedoStep
<1>1. RedoState(log[slot[t]]) = <<TargetUnmap(t), TargetData(t)>>
  BY RedoGivesTarget DEF OnTarget
<1>2. OnTarget'
  BY RedoGivesTarget, PTL
<1>3. RedoState(log[slot[t]])' = <<TargetUnmap(t)', TargetData(t)'>>
  BY <1>2 DEF OnTarget, Armed
<1>4. \A i \in Slots : log[i].type # 0 => i = slot[t]
  BY DEF SwapLogged
<1>5. slot[t] \in Slots => log'[slot[t]].type # 0
  BY DEF SwapLogged, EntryFits
<1>6. RedoState(log[slot[t]])' = RedoState(log[slot[t]])
  BY <1>1, <1>3
<1>7. ASSUME NEW i \in Slots, log[i].type # 0
      PROVE  log'[i].type # 0 /\ RedoState(log[i])' = RedoState(log[i])
  <2>1. i = slot[t] /\ slot'[t] = slot[t]
    BY <1>4, <1>7
  <2> QED BY <1>5, <1>6, <2>1 DEF RedoState, RedoUnmap, RedoData
<1> QED BY <1>7 DEF RedoStep

\* What a swap knows of its blocks and of the labels it goes through.
LEMMA ArmedFacts ==
  ASSUME BlockInv, NEW t \in Threads, pc[t] \in Armed
  PROVE  /\ blockA[t] \in Blocks /\ blockB[t] \in Blocks /\ blockA[t] # blockB[t]
         /\ blockC[t] # invalid_block =>
              blockC[t] \in Blocks \ {blockA[t], blockB[t]}
         /\ pc[t] \in {"copyC1", "copyC2"} => blockC[t] # invalid_block
<1>1. pc[t] \in Swapping
  BY DEF Armed, Logged, Swapping
<1>2. TypeOK /\ BlocksChosen(t)
  BY DEF BlockInv
<1> QED BY <1>1, <1>2, PartsDiffer DEF BlocksChosen

\* A copy keeps the data the swap is on its way to, and marks the entry once
\* the copy is complete.
LEMMA CopyStep ==
  ASSUME WholeInv, BlockInv', OneThread, NEW t \in Threads, SwapLogged(t),
         CopyBtoC(t) \/ CopyAtoB(t)
  PROVE  SwapLogged(t)' /\ RedoStep
<1> USE DEF mapVars, coldVars, wearVars, logVars, argVars, readVars, swapVars,
            Goto, At
<1> DEFINE A == blockA[t]
           B == blockB[t]
           C == blockC[t]
           s == slot[t]
<1>T. /\ BlockInv /\ HalfKnown(t) /\ pc \in [Threads -> Labels]
      /\ data \in [Blocks -> [{1, 2} -> Values \cup {Blank}]]
      /\ log \in [Slots -> Entries] /\ s \in Slots
  BY DEF WholeInv, BlockInv, TypeOK, Halves
<1>0. /\ pc[t] \in {"copyC1", "copyC2", "copyB1", "copyB2"} /\ pc[t] \in Armed
      /\ UNCHANGED <<unmap, blockA, blockB, blockC, info, slot>>
  BY DEF CopyBtoC, CopyAtoB, Copy, Armed, Logged, Swapping
<1>1. /\ A \in Blocks /\ B \in Blocks /\ A # B
      /\ C # invalid_block => C \in Blocks \ {A, B}
      /\ pc[t] \in {"copyC1", "copyC2"} => C # invalid_block
  BY <1>0, <1>T, ArmedFacts
<1>2. EntryFits(t) /\ \A i \in Slots : log[i].type # 0 => i = s
  BY <1>0 DEF SwapLogged
<1>3. TargetUnmap(t)' = TargetUnmap(t)
  BY <1>0 DEF TargetUnmap
\* One copy of the pair: from the label, what moves and what is marked.
<1>4. ASSUME NEW marks \in SUBSET {0, 2, 3},
             \/ UNCHANGED log /\ marks = {}
             \/ log' = [log EXCEPT ![s].step = @ \cup marks],
             Marks(t)' = Marks(t) \cup marks,
             pc'[t] \in {"copyC2", "copyB1", "copyB2", "unmapA"},
             TargetData(t)' = TargetData(t)
      PROVE  SwapLogged(t)' /\ RedoStep
  <2>1. pc'[t] \in Armed /\ pc'[t] # "logend"
    BY <1>4 DEF Armed, Logged, Swapping
  <2>2. /\ \A i \in Slots : log'[i].type = log[i].type
        /\ log'[s].blocks = log[s].blocks /\ log'[s].info = log[s].info
        /\ log'[s].step = log[s].step \cup marks
    BY <1>4, <1>T DEF Entries
  <2>3. EntryFits(t)'
    BY <1>0, <1>2, <1>4, <1>T, <2>2 DEF EntryFits
  <2>4. SwapLogged(t)'
    BY <1>0, <1>2, <2>1, <2>2, <2>3 DEF SwapLogged
  <2> QED BY <1>0, <1>3, <1>4, <1>T, <2>1, <2>4, TargetKept
<1>5. CASE pc[t] = "copyC1"
  <2>1. /\ data' = [data EXCEPT ![C][1] = data[B][1]]
        /\ UNCHANGED log /\ pc'[t] = "copyC2"
    BY <1>5, <1>T DEF CopyBtoC, CopyAtoB, Copy
  <2>2. Marks(t)' = Marks(t) \cup {}
    BY <1>0, <1>5, <2>1 DEF Marks, BlocksCopied, Copied
  <2>3. TargetData(t) = [data EXCEPT ![C] = data[B], ![B] = data[A]]
    BY <1>5 DEF TargetData, BlocksCopied, Copied
  <2>4. TargetData(t)' = [data' EXCEPT ![C] = data'[B], ![B] = data'[A]]
    BY <1>0, <2>1 DEF TargetData, BlocksCopied, Copied
  <2>5. TargetData(t)' = TargetData(t)
    <3> HIDE DEF A, B, C
    <3> QED BY <1>1, <1>5, <1>T, <2>1, <2>3, <2>4
  <2> QED BY <1>4, <2>1, <2>2, <2>5
<1>6. CASE pc[t] = "copyC2"
  <2>1. /\ data' = [data EXCEPT ![C][2] = data[B][2]]
        /\ log' = [log EXCEPT ![s].step = @ \cup {2}] /\ pc'[t] = "copyB1"
    BY <1>6, <1>T DEF CopyBtoC, CopyAtoB, Copy
  <2>2. Marks(t)' = Marks(t) \cup {2}
    BY <1>0, <1>1, <1>6, <2>1 DEF Marks, BlocksCopied, Copied
  <2>3. TargetData(t) = [data EXCEPT ![C] = data[B], ![B] = data[A]]
    BY <1>6 DEF TargetData, BlocksCopied, Copied
  <2>4. TargetData(t)' = [data' EXCEPT ![B] = data'[A]]
    BY <1>0, <2>1 DEF TargetData, BlocksCopied, Copied
  <2>5. data[C][1] = data[B][1]
    BY <1>6, <1>T DEF HalfKnown
  <2>6. TargetData(t)' = TargetData(t)
    <3> HIDE DEF A, B, C
    <3>1. data' = [data EXCEPT ![C] = data[B]]
      <4>1. [data[C] EXCEPT ![2] = data[B][2]] = data[B]
        BY <1>1, <1>6, <1>T, <2>5
      <4> QED BY <1>1, <1>6, <1>T, <2>1, <4>1
    <3> QED BY <1>1, <1>6, <1>T, <2>3, <2>4, <3>1
  <2> QED BY <1>4, <2>1, <2>2, <2>6
<1>7. CASE pc[t] = "copyB1"
  <2>1. /\ data' = [data EXCEPT ![B][1] = data[A][1]]
        /\ UNCHANGED log /\ pc'[t] = "copyB2"
    BY <1>7, <1>T DEF CopyBtoC, CopyAtoB, Copy
  <2>2. Marks(t)' = Marks(t) \cup {}
    BY <1>0, <1>7, <2>1 DEF Marks, BlocksCopied, Copied
  <2>3. TargetData(t) = [data EXCEPT ![B] = data[A]]
    BY <1>7 DEF TargetData, BlocksCopied, Copied
  <2>4. TargetData(t)' = [data' EXCEPT ![B] = data'[A]]
    BY <1>0, <2>1 DEF TargetData, BlocksCopied, Copied
  <2>5. TargetData(t)' = TargetData(t)
    <3> HIDE DEF A, B, C
    <3> QED BY <1>1, <1>T, <2>1, <2>3, <2>4
  <2> QED BY <1>4, <2>1, <2>2, <2>5
<1>8. CASE pc[t] = "copyB2"
  <2> DEFINE mark == IF C = invalid_block THEN 2 ELSE 3
  <2>1. /\ data' = [data EXCEPT ![B][2] = data[A][2]]
        /\ log' = [log EXCEPT ![s].step = @ \cup {mark}] /\ pc'[t] = "unmapA"
    BY <1>8, <1>T DEF CopyBtoC, CopyAtoB, Copy
  <2>2. Marks(t)' = Marks(t) \cup {mark}
    BY <1>0, <1>8, <2>1 DEF Marks, BlocksCopied, Copied
  <2>3. TargetData(t) = [data EXCEPT ![B] = data[A]]
    BY <1>8 DEF TargetData, BlocksCopied, Copied
  <2>4. TargetData(t)' = data'
    BY <1>0, <2>1 DEF TargetData, BlocksCopied, Copied
  <2>5. data[B][1] = data[A][1]
    BY <1>8, <1>T DEF HalfKnown
  <2>6. TargetData(t)' = TargetData(t)
    <3> HIDE DEF A, B, C
    <3>1. [data[B] EXCEPT ![2] = data[A][2]] = data[A]
      BY <1>1, <1>T, <2>5
    <3> QED BY <1>1, <1>T, <2>1, <2>3, <2>4, <3>1
  <2> QED BY <1>4, <2>1, <2>2, <2>6
<1> QED BY <1>0, <1>5, <1>6, <1>7, <1>8

\* The unmap entries are written to what the swap is on its way to, and all
\* of them are when the map table is swapped.
LEMMA TablesStep ==
  ASSUME BlockInv, BlockInv', NEW t \in Threads, SwapLogged(t),
         SetUnmapA(t) \/ SetUnmapB(t) \/ SetUnmapC(t) \/ MapSwap(t)
  PROVE  SwapLogged(t)' /\ RedoStep
<1> USE DEF mapVars, coldVars, wearVars, logVars, argVars, readVars, swapVars,
            Goto, At
<1> DEFINE A == blockA[t]
           B == blockB[t]
           C == blockC[t]
<1>T. /\ pc \in [Threads -> Labels]
      /\ unmap \in [Blocks -> [unmapBlock : Blocks, fineGrain : BOOLEAN]]
      /\ SwapPinned(t)
  BY DEF BlockInv, TypeOK
<1>0. /\ pc[t] \in Copied /\ pc'[t] \in (Copied \ {"unmapA"}) \cup {"logend"}
      /\ UNCHANGED <<log, data, blockA, blockB, blockC, info, slot>>
  BY <1>T DEF SetUnmapA, SetUnmapB, SetUnmapC, SetUnmap, MapSwap, Copied
<1>1. pc[t] \in Armed /\ pc'[t] \in Armed
  BY <1>0 DEF Armed, Logged, Swapping, Copied
<1>2. /\ A \in Blocks /\ B \in Blocks /\ A # B
      /\ C # invalid_block => C \in Blocks \ {A, B}
  BY <1>1, ArmedFacts
<1>3. TargetData(t)' = TargetData(t)
  <2>1. /\ BlocksCopied(t) /\ BlocksCopied(t)'
        /\ pc[t] \notin {"copyC1", "copyC2"} /\ pc'[t] \notin {"copyC1", "copyC2"}
    BY <1>0 DEF BlocksCopied, Copied
  <2>2. TargetData(t) = data /\ TargetData(t)' = data'
    BY <2>1 DEF TargetData
  <2> QED BY <1>0, <2>2
<1>4. TargetUnmap(t)' = TargetUnmap(t)
  <2>1. CASE SetUnmapA(t)
    BY <1>0, <1>2, <1>T, <2>1 DEF SetUnmapA, SetUnmap, TargetUnmap
  <2>2. CASE SetUnmapB(t)
    BY <1>0, <1>2, <1>T, <2>2 DEF SetUnmapB, SetUnmap, TargetUnmap
  <2>3. CASE SetUnmapC(t)
    <3>1. C # invalid_block
      BY <2>3 DEF SetUnmapC, BlockInv, BlocksChosen
    <3> QED BY <1>0, <1>2, <1>T, <2>3, <3>1 DEF SetUnmapC, SetUnmap, TargetUnmap
  <2>4. CASE MapSwap(t)
    BY <1>0, <2>4 DEF MapSwap, TargetUnmap
  <2> QED BY <2>1, <2>2, <2>3, <2>4
<1>5. EntryFits(t)'
  <2>1. EntryFits(t)
    BY <1>1 DEF SwapLogged
  <2>2. Marks(t)' = Marks(t)
    BY <1>0 DEF Marks, BlocksCopied, Copied
  <2> QED BY <1>0, <1>1, <2>1, <2>2 DEF EntryFits
<1>6. pc'[t] = "logend" => unmap' = TargetUnmap(t)'
  <2> SUFFICES ASSUME pc'[t] = "logend" PROVE unmap' = TargetUnmap(t)
    BY <1>4
  <2>1. pc[t] = "mapswap" /\ unmap' = unmap
    BY <1>T DEF SetUnmapA, SetUnmapB, SetUnmapC, SetUnmap, MapSwap
  <2>2. /\ unmap[A] = IF C = invalid_block THEN info[t].B ELSE info[t].C
        /\ unmap[B] = info[t].A
        /\ C # invalid_block => unmap[C] = info[t].B
    BY <1>T, <2>1 DEF SwapPinned, Halfway
  <2> QED BY <1>2, <1>T, <2>1, <2>2 DEF TargetUnmap
<1>7. SwapLogged(t)'
  BY <1>0, <1>1, <1>5, <1>6 DEF SwapLogged
<1> QED BY <1>0, <1>1, <1>3, <1>4, <1>7, TargetKept

\* Every step of the one thread keeps the log in step with the swap, and
\* redoing an armed entry gives the same before and after it.
LEMMA SwapStep ==
  ASSUME WholeInv, WholeInv', OneThread, NEW t \in Threads, Start(t) \/ Run(t),
         SwapLogged(t)
  PROVE  SwapLogged(t)' /\ RedoStep
<1> USE DEF mapVars, coldVars, wearVars, logVars, argVars, readVars, swapVars,
            Goto, At
<1>T. /\ BlockInv /\ BlockInv' /\ TypeOK /\ pc \in [Threads -> Labels]
      /\ log \in [Slots -> Entries] /\ slot \in [Threads -> Slots]
      /\ logIndex \in Slots /\ info \in [Threads -> Infos]
  BY DEF WholeInv, BlockInv, TypeOK
<1>1. CASE Unlogged(t)
  <2>1. \A i \in Slots : log[i].type = 0
    BY <1>1 DEF Unlogged, SwapLogged
  <2>2. SwapLogged(t)'
    BY <1>1, <2>1 DEF Unlogged, SwapLogged, Armed
  <2> QED BY <2>1, <2>2 DEF RedoStep
<1>2. CASE LogBegin(t)
  <2>1. /\ pc[t] = "logbegin" /\ pc'[t] = "logtype" /\ slot'[t] = logIndex
        /\ log' = [log EXCEPT ![logIndex] =
             [type |-> 0, info |-> info'[t], step |-> {0},
              blocks |-> [A |-> blockA[t], B |-> blockB[t], C |-> blockC[t]]]]
        /\ UNCHANGED <<blockA, blockB, blockC>>
    BY <1>2, <1>T DEF LogBegin
  <2>2. pc[t] \notin Armed /\ pc'[t] \notin Armed
    BY <2>1 DEF Armed, Logged, Swapping
  <2>3. (\A i \in Slots : log[i].type = 0) /\ (\A i \in Slots : log'[i].type = 0)
    <3>1. \A i \in Slots : log[i].type = 0
      BY <2>2 DEF SwapLogged
    <3> QED BY <1>T, <2>1, <3>1
  <2>4. Marks(t)' = {0}
    BY <2>1 DEF Marks, BlocksCopied, Copied
  <2>5. EntryFits(t)'
    BY <1>T, <2>1, <2>2, <2>4 DEF EntryFits
  <2>6. SwapLogged(t)'
    BY <2>1, <2>2, <2>3, <2>5 DEF SwapLogged
  <2> QED BY <2>3, <2>6 DEF RedoStep
<1>3. CASE LogType(t)
  <2> DEFINE type == IF blockC[t] = invalid_block THEN 1 ELSE 2
             s == slot[t]
  <2>1. /\ pc[t] = "logtype" /\ pc'[t] \in {"copyB1", "copyC1"}
        /\ blockC[t] = invalid_block <=> pc'[t] = "copyB1"
        /\ log' = [log EXCEPT ![s].type = type]
        /\ UNCHANGED <<blockA, blockB, blockC, info, slot>>
    BY <1>3, <1>T DEF LogType
  <2>2. pc[t] \notin Armed /\ pc'[t] \in Armed
    BY <2>1 DEF Armed, Logged, Swapping
  <2>3. /\ \A i \in Slots : log[i].type = 0
        /\ \A i \in Slots : log'[i].type # 0 => i = s
        /\ s \in Slots /\ log'[s] = [log[s] EXCEPT !.type = type]
    <3>1. \A i \in Slots : log[i].type = 0
      BY <2>2 DEF SwapLogged
    <3>2. s \in Slots
      BY <1>T
    <3> HIDE DEF s, type
    <3> QED BY <1>T, <2>1, <3>1, <3>2
  <2>4. Marks(t)' = Marks(t)
    BY <2>1 DEF Marks, BlocksCopied, Copied
  <2>5. EntryFits(t)
    BY <2>1 DEF SwapLogged
  <2>6. EntryFits(t)'
    <3>1. log[s] \in Entries
      BY <1>T, <2>3
    <3>2. /\ log'[s].blocks = log[s].blocks /\ log'[s].info = log[s].info
          /\ log'[s].step = log[s].step /\ log'[s].type = type
      BY <2>3, <3>1 DEF Entries
    <3> QED BY <2>1, <2>2, <2>4, <2>5, <3>2 DEF EntryFits
  <2>7. SwapLogged(t)'
    BY <2>1, <2>2, <2>3, <2>6 DEF SwapLogged, Armed
  <2> QED BY <2>3, <2>7 DEF RedoStep
<1>4. CASE CopyBtoC(t) \/ CopyAtoB(t)
  BY <1>4, <1>T, CopyStep
<1>5. CASE SetUnmapA(t) \/ SetUnmapB(t) \/ SetUnmapC(t) \/ MapSwap(t)
  BY <1>5, <1>T, TablesStep
<1>6. CASE LogBlockSwapEnd(t)
  <2> DEFINE s == slot[t]
  <2>1. /\ pc[t] = "logend" /\ pc'[t] = "account"
        /\ log' = [log EXCEPT ![s].type = 0] /\ UNCHANGED <<unmap, data>>
    BY <1>6, <1>T DEF LogBlockSwapEnd
  <2>2. pc[t] \in Armed /\ pc'[t] \notin Armed \cup {"logtype", "logend"}
    BY <2>1 DEF Armed, Logged, Swapping
  <2>3. /\ \A i \in Slots : log[i].type # 0 => i = s
        /\ unmap = TargetUnmap(t)
    BY <2>1, <2>2 DEF SwapLogged
  <2>4. \A i \in Slots : log'[i].type = 0
    BY <1>T, <2>1, <2>3 DEF Entries
  <2>5. RedoState(log[s]) = <<unmap, data>>
    <3>1. RedoState(log[s]) = <<TargetUnmap(t), TargetData(t)>>
      BY <1>T, <2>2, RedoGivesTarget DEF OnTarget
    <3>2. TargetData(t) = data
      BY <2>1 DEF TargetData, BlocksCopied
    <3> QED BY <2>3, <3>1, <3>2
  <2>6. SwapLogged(t)'
    BY <2>2, <2>4 DEF SwapLogged
  <2> QED BY <2>1, <2>3, <2>4, <2>5, <2>6 DEF RedoStep
<1> QED BY <1>T, <1>1, <1>2, <1>3, <1>4, <1>5, <1>6, LogKinds

\* A crash at any point of a block swap can be redone: from the moment the
\* swap arms its log entry to the moment it clears it, redoing the entry by
\* its step marks gives one and the same unmap table and data, and that is
\* what the swap ends in.  For one thread inside the wear leveler, any number
\* of blocks, contents, wear steps and log entries.
THEOREM SwapRedoes ==
  ASSUME OneThread
  PROVE  Spec => SwapRedoable
<1> DEFINE IInv == WholeInv /\ \A t \in Threads : SwapLogged(t)
<1>1. Init => IInv
  <2> SUFFICES ASSUME Init PROVE IInv
    OBVIOUS
  <2>1. WholeInv
    BY InitWhole
  <2>2. \A i \in Slots : log[i].type = 0
    BY DEF Init, NoEntry
  <2>3. ASSUME NEW t \in Threads PROVE SwapLogged(t)
    <3>1. pc[t] \notin Armed \cup {"logtype", "logend"}
      BY DEF Init, Armed, Logged, Swapping
    <3> QED BY <2>2, <3>1 DEF SwapLogged
  <2> QED BY <2>1, <2>3
<1>2. ASSUME IInv, [Next]_vars PROVE IInv' /\ [RedoStep]_vars
  <2>1. WholeInv'
    BY <1>2, NextWhole
  <2>2. CASE UNCHANGED vars
    <3>1. UNCHANGED <<pc, blockA, blockB, blockC, info, slot, log, unmap>>
      BY <2>2 DEF vars, mapVars, logVars, swapVars
    <3>2. ASSUME NEW t \in Threads PROVE SwapLogged(t)'
      <4>1. SwapLogged(t)
        BY <1>2
      <4>2. EntryFits(t)' <=> EntryFits(t)
        BY <3>1 DEF EntryFits, Marks, BlocksCopied
      <4>3. TargetUnmap(t)' = TargetUnmap(t)
        BY <3>1 DEF TargetUnmap
      <4> QED BY <3>1, <4>1, <4>2, <4>3 DEF SwapLogged
    <3> QED BY <2>1, <2>2, <3>2
  <2>3. ASSUME NEW t \in Threads, Start(t) \/ Run(t) PROVE IInv' /\ RedoStep
    <3>1. SwapLogged(t)' /\ RedoStep
      BY <1>2, <2>1, <2>3, SwapStep
    <3>2. \A u \in Threads : u = t
      BY DEF OneThread
    <3> QED BY <2>1, <3>1, <3>2
  <2> QED BY <1>2, <2>2, <2>3 DEF Next
<1> HIDE DEF IInv
<1>3. Spec => [][RedoStep]_vars
  BY <1>1, <1>2, PTL DEF Spec
<1> QED BY <1>3 DEF SwapRedoable, RedoStep

-----------------------------------------------------------------------------
\* h is the only logical block that was ever written.
Hot(h) == {l \in Blocks : content[l] # Blank} = {h}

\* The block of h holds what was last written to h.
Holds(h) ==
  \A half \in {1, 2} : data[physBlockIndex[h]][half] = content[h]

\* A write has changed data that it has not finished writing.
Dirty(t) == kind[t] = "write" /\ pc[t] \in {"body2", "unlock"}

\* From the end of a write to the point where its block is given back or its
\* data has moved.
Charging ==
  {"threshold", "wear", "charge", "remove", "getfree", "getbusy", "getworn",
   "putback", "logbegin"}
  \cup Locking \cup Logged

\* What the operation of a thread is where only one kind of it gets.
KindFits(t) ==
  /\ kind[t] = "write" => value[t] \in Values
  /\ pc[t] = "body2" => kind[t] = "write"
  /\ pc[t] \in {"trimdel", "trimput"} => kind[t] = "trim"

\* A is the block just written until the map is swapped, and B has its data
\* before it is; a read has what the map led it to; and the hot block's data
\* is where the map says, except while a write is under way.
HotKept(t) ==
  /\ KindFits(t)
  /\ Dirty(t) => blockA[t] = physBlockIndex[addr[t]]
  /\ Dirty(t) /\ pc[t] = "unlock" =>
        \A half \in {1, 2} : data[physBlockIndex[addr[t]]][half] = value[t]
  /\ pc[t] \in Charging =>
        blockA[t] = physBlockIndex[addr[t]] /\ content[addr[t]] # Blank
  /\ pc[t] \in Copied => data[blockB[t]] = data[blockA[t]]
  /\ pc[t] \in Reading \ {"rquery"} => query[t] = physBlockIndex[addr[t]]
  /\ pc[t] \in {"read2", "runlock"} => buf[t][1] = data[query[t]][1]
  /\ pc[t] = "runlock" => buf[t][2] = data[query[t]][2]
  /\ ~Dirty(t) => \A h \in Blocks : Hot(h) => Holds(h)

\* Most steps move nothing that HotKept speaks of.
Calm(t) ==
  /\ UNCHANGED <<physBlockIndex, data, content, query, buf, kind, value, addr>>
  /\ ~Dirty(t) /\ ~Dirty(t)' /\ KindFits(t)'
  /\ pc'[t] \in Charging => pc[t] \in Charging /\ UNCHANGED blockA
  /\ pc'[t] \in Copied => pc[t] \in Copied /\ UNCHANGED blockB
  /\ pc'[t] \notin Reading \ {"rquery"}

\* Every step is of one of these kinds.
LEMMA HotKinds ==
  ASSUME TypeOK, NEW t \in Threads, KindFits(t), Start(t) \/ Run(t)
  PROVE  \/ Calm(t)
         \/ Start(t) \/ ReadQuery(t) \/ ReadHalf(t) \/ WriteHalf(t)
         \/ MapTableUnlockBlockForWrite(t)
         \/ CopyBtoC(t) \/ CopyAtoB(t) \/ MapSwap(t)
<1> USE DEF mapVars, coldVars, wearVars, logVars, argVars, readVars, swapVars,
            Goto, At
<1>T. pc \in [Threads -> Labels]
  BY DEF TypeOK
<1>S. Charging =
        {"threshold", "wear", "charge", "remove", "getfree", "getbusy",
         "getworn", "putback", "getunmap",
         "lockmap", "logbegin", "logtype", "copyC1", "copyC2", "copyB1",
         "copyB2", "unmapA", "unmapB", "unmapC", "mapswap"}
  BY DEF Charging, Locking, Logged, Swapping
<1> USE <1>T, <1>S DEF Calm, Dirty, KindFits, Copied, Reading, LeaveLists, Get
<1>2. CASE Read(t)
  BY <1>2 DEF Read, MapTableLockBlockForRead, MapTableUnlockBlockForRead
<1>3. CASE Update(t)
  <2>1. CASE MapTableLockBlockForWrite(t)
    BY <2>1 DEF MapTableLockBlockForWrite
  <2>2. CASE TrimRead(t) \/ TrimRemove(t) \/ TrimPut(t)
    BY <2>2 DEF TrimRead, TrimRemove, TrimPut,
                BlockColdnessManagerRemove, BlockColdnessManagerPut
  <2>3. CASE Split(t) \/ \E m \in MergeWear : Merge(t, m)
    BY <2>3 DEF Split, Merge, SetGrain
  <2> QED BY <1>3, <2>1, <2>2, <2>3 DEF Update
<1>4. CASE IncreaseBlockWearCount(t)
  <2>1. CASE ReadThreshold(t) \/ ReadWear(t) \/ ChargeWear(t)
    BY <2>1 DEF ReadThreshold, ReadWear, ChargeWear
  <2>2. CASE RemoveHot(t)
    BY <2>2 DEF RemoveHot, BlockColdnessManagerRemove
  <2>3. CASE \E b \in MaybeBlock : GetFree(t, b) \/ GetBusy(t, b) \/ GetWorn(t, b)
    <3>1. ASSUME NEW b, GetFree(t, b) PROVE Calm(t)
      BY <3>1 DEF GetFree
    <3>2. ASSUME NEW b, GetBusy(t, b) PROVE Calm(t)
      BY <3>2 DEF GetBusy
    <3>3. ASSUME NEW b, GetWorn(t, b) PROVE Calm(t)
      BY <3>3 DEF GetWorn
    <3> QED BY <2>3, <3>1, <3>2, <3>3
  <2>4. CASE PutBack(t) \/ RaiseThreshold(t) \/ PersistThreshold(t)
    BY <2>4 DEF PutBack, BlockColdnessManagerPut, RaiseThreshold, PersistThreshold
  <2> QED BY <1>4, <2>1, <2>2, <2>3, <2>4 DEF IncreaseBlockWearCount
<1>5. CASE BlockSwap(t)
  <2>1. CASE GetUnmap(t) \/ LockMap(t)
    BY <2>1 DEF GetUnmap, LockMap
  <2>2. CASE LogBegin(t) \/ LogType(t) \/ LogBlockSwapEnd(t)
    BY <2>2 DEF LogBegin, LogType, LogBlockSwapEnd
  <2>3. CASE SetUnmapA(t) \/ SetUnmapB(t) \/ SetUnmapC(t)
    BY <2>3 DEF SetUnmapA, SetUnmapB, SetUnmapC, SetUnmap
  <2>4. CASE Account(t) \/ PutA(t) \/ PutB(t) \/ PutC(t)
    BY <2>4 DEF Account, PutA, PutB, PutC, BlockColdnessManagerPut
  <2>5. CASE \E l \in Blocks : UnlockSwap(t, l)
    BY <2>5 DEF UnlockSwap
  <2> QED BY <1>5, <2>1, <2>2, <2>3, <2>4, <2>5 DEF BlockSwap
<1>6. CASE EnterLists(t) \/ ListFault(t)
  BY <1>6 DEF EnterLists, ListFault, ListCalls
<1> QED BY <1>2, <1>3, <1>4, <1>5, <1>6 DEF Run

\* While a write is charged and its block swapped, no other block is hot.
LEMMA HotIsCharged ==
  ASSUME NEW t \in Threads, HotKept(t), pc[t] \in Charging, TypeOK,
         NEW h \in Blocks, Hot(h)
  PROVE  h = addr[t] /\ blockA[t] = physBlockIndex[h]
<1>1. addr[t] \in {l \in Blocks : content[l] # Blank}
  BY DEF HotKept, TypeOK
<1>2. addr[t] \in {h}
  BY <1>1 DEF Hot
<1> QED BY <1>2 DEF HotKept

\* The calm steps, the start of an operation and the steps of a read.
LEMMA HotFrame ==
  ASSUME TypeOK, NEW t \in Threads, HotKept(t),
         Calm(t) \/ Start(t) \/ ReadQuery(t) \/ ReadHalf(t)
  PROVE  HotKept(t)'
<1> USE DEF mapVars, coldVars, wearVars, logVars, argVars, readVars, swapVars,
            Goto, At
<1>T. /\ pc \in [Threads -> Labels] /\ query \in [Threads -> Blocks]
      /\ buf \in [Threads -> [{1, 2} -> Values \cup {Blank}]]
      /\ kind \in [Threads -> OpKinds] /\ value \in [Threads -> Values \cup {Blank}]
  BY DEF TypeOK, Halves
<1>S. /\ Charging \cap (Reading \cup {"idle", "wlock", "rlock"}) = {}
      /\ Copied \subseteq Charging
  BY DEF Charging, Locking, Logged, Swapping, Reading, Copied
<1>1. ASSUME UNCHANGED <<physBlockIndex, data, content>>, ~Dirty(t)
      PROVE  \A h \in Blocks : Hot(h)' => Holds(h)'
  BY <1>1 DEF HotKept, Hot, Holds
<1>2. CASE Calm(t)
  <2>1. \A h \in Blocks : Hot(h)' => Holds(h)'
    BY <1>1, <1>2 DEF Calm
  <2>2. /\ pc'[t] \in Charging =>
             /\ blockA'[t] = physBlockIndex'[addr'[t]]
             /\ content'[addr'[t]] # Blank
        /\ pc'[t] \in Copied => data'[blockB'[t]] = data'[blockA'[t]]
    BY <1>2, <1>S DEF Calm, HotKept
  <2> QED BY <1>2, <2>1, <2>2 DEF Calm, HotKept, Reading
<1>3. CASE Start(t)
  <2>1. /\ pc[t] = "idle" /\ pc'[t] \in {"wlock", "rlock"}
        /\ UNCHANGED <<physBlockIndex, data, content>>
    BY <1>3, <1>T DEF Start, BeginWrite, BeginOther, Begin
  <2>2. kind'[t] = "write" => value'[t] \in Values
    <3>1. ASSUME NEW l \in Blocks, NEW v \in Values, NEW n, BeginWrite(t, l, v, n)
          PROVE  value'[t] \in Values
      BY <1>T, <3>1 DEF BeginWrite
    <3>2. ASSUME NEW l \in Blocks, NEW k \in Ops, BeginOther(t, k, l)
          PROVE  kind'[t] # "write"
      BY <1>T, <3>2 DEF BeginOther, Begin
    <3> QED BY <1>3, <3>1, <3>2 DEF Start
  <2>3. ~Dirty(t) /\ ~Dirty(t)' /\ KindFits(t)'
    BY <2>1, <2>2 DEF Dirty, KindFits
  <2>4. \A h \in Blocks : Hot(h)' => Holds(h)'
    BY <1>1, <2>1, <2>3
  <2> QED BY <1>S, <2>1, <2>3, <2>4 DEF HotKept, Reading
<1>4. CASE ReadQuery(t)
  <2>1. /\ pc[t] = "rquery" /\ pc'[t] = "read1"
        /\ query'[t] = physBlockIndex[addr[t]]
        /\ UNCHANGED <<physBlockIndex, data, content, kind, value, addr>>
    BY <1>4, <1>T DEF ReadQuery
  <2>2. ~Dirty(t) /\ ~Dirty(t)' /\ KindFits(t)'
    BY <2>1 DEF Dirty, KindFits, HotKept
  <2>3. \A h \in Blocks : Hot(h)' => Holds(h)'
    BY <1>1, <2>1, <2>2
  <2> QED BY <1>S, <2>1, <2>2, <2>3 DEF HotKept, Reading
<1>5. CASE ReadHalf(t)
  <2>1. /\ pc[t] \in {"read1", "read2"}
        /\ pc'[t] = IF pc[t] = "read1" THEN "read2" ELSE "runlock"
        /\ pc[t] = "read1" => buf'[t][1] = data[query[t]][1]
        /\ pc[t] = "read2" => /\ buf'[t][1] = buf[t][1]
                              /\ buf'[t][2] = data[query[t]][2]
        /\ UNCHANGED <<physBlockIndex, data, content, kind, value, addr, query>>
    BY <1>5, <1>T DEF ReadHalf
  <2>2. ~Dirty(t) /\ ~Dirty(t)' /\ KindFits(t)'
    BY <2>1 DEF Dirty, KindFits, HotKept
  <2>3. \A h \in Blocks : Hot(h)' => Holds(h)'
    BY <1>1, <2>1, <2>2
  <2>4. query[t] = physBlockIndex[addr[t]]
    BY <2>1 DEF HotKept, Reading
  <2>5. pc[t] = "read2" => buf'[t][1] = data[query[t]][1]
    BY <2>1 DEF HotKept
  <2> QED BY <1>S, <2>1, <2>2, <2>3, <2>4, <2>5 DEF HotKept, Reading
<1> QED BY <1>2, <1>3, <1>4, <1>5

\* A write, up to the point where its content counts.
LEMMA HotWrite ==
  ASSUME WholeInv, Blank \notin Values, NEW t \in Threads, HotKept(t),
         WriteHalf(t) \/ MapTableUnlockBlockForWrite(t)
  PROVE  HotKept(t)'
<1> USE DEF mapVars, coldVars, wearVars, logVars, argVars, readVars, swapVars,
            Goto, At
<1>T. /\ TypeOK /\ HalfKnown(t) /\ pc \in [Threads -> Labels]
      /\ data \in [Blocks -> [{1, 2} -> Values \cup {Blank}]]
      /\ physBlockIndex \in [Blocks -> Blocks] /\ addr[t] \in Blocks
      /\ blockA \in [Threads -> Blocks] /\ content \in [Blocks -> Values \cup {Blank}]
  BY DEF WholeInv, BlockInv, TypeOK, Halves
<1>S. /\ Charging \cap {"body2", "unlock", "idle"} = {}
      /\ Copied \cap {"body2", "unlock", "idle", "threshold"} = {}
  BY DEF Charging, Locking, Logged, Swapping, Copied
<1> DEFINE l == addr[t]
           p == physBlockIndex[l]
<1>1. CASE WriteHalf(t)
  <2>1. /\ pc[t] \in {"body", "body2"} /\ kind[t] = "write" /\ blockA'[t] = p
        /\ pc'[t] = IF pc[t] = "body" THEN "body2" ELSE "unlock"
        /\ UNCHANGED <<physBlockIndex, content, kind, value, addr>>
    BY <1>1, <1>T DEF WriteHalf
  <2>2. Dirty(t)' /\ KindFits(t)'
    BY <2>1 DEF Dirty, KindFits, HotKept
  <2>3. pc[t] = "body2" => data'[p][1] = value[t] /\ data'[p][2] = value[t]
    <3> SUFFICES ASSUME pc[t] = "body2"
                 PROVE  data'[p][1] = value[t] /\ data'[p][2] = value[t]
      OBVIOUS
    <3>1. data' = [data EXCEPT ![p][2] = value[t]]
      BY <1>1 DEF WriteHalf
    <3>2. data[p][1] = value[t]
      BY <1>T DEF HalfKnown
    <3>3. p \in Blocks
      BY <1>T
    <3> HIDE DEF p
    <3> QED BY <1>T, <3>1, <3>2, <3>3
  <2> QED BY <1>S, <2>1, <2>2, <2>3 DEF HotKept, Reading
<1>2. CASE MapTableUnlockBlockForWrite(t)
  <2>1. /\ pc[t] = "unlock" /\ pc'[t] \in {"threshold", "idle"}
        /\ pc'[t] = "threshold" => kind[t] = "write"
        /\ content' = IF kind[t] = "write"
                      THEN [content EXCEPT ![l] = value[t]] ELSE content
        /\ UNCHANGED <<physBlockIndex, data, kind, value, addr, blockA>>
    BY <1>2, <1>T DEF MapTableUnlockBlockForWrite
  <2>2. ~Dirty(t)' /\ KindFits(t)'
    BY <2>1 DEF Dirty, KindFits, HotKept
  <2>3. ASSUME kind[t] = "write"
        PROVE  /\ blockA[t] = p /\ content'[l] = value[t] /\ content'[l] # Blank
               /\ \A half \in {1, 2} : data[p][half] = value[t]
    <3>1. Dirty(t) /\ value[t] \in Values
      BY <2>1, <2>3 DEF Dirty, HotKept, KindFits
    <3> QED BY <1>T, <2>1, <2>3, <3>1 DEF HotKept
  <2>4. ASSUME NEW h \in Blocks, Hot(h)' PROVE Holds(h)'
    <3>1. CASE kind[t] = "write"
      <4>1. h = l
        <5>1. l \in {m \in Blocks : content'[m] # Blank}
          BY <1>T, <2>3, <3>1
        <5>2. l \in {h}
          BY <2>4, <5>1 DEF Hot
        <5> QED BY <5>2
      <4> QED BY <2>1, <2>3, <3>1, <4>1 DEF Holds
    <3>2. CASE kind[t] # "write"
      <4>1. ~Dirty(t) /\ content' = content
        BY <2>1, <3>2 DEF Dirty
      <4>2. Hot(h)
        BY <2>4, <4>1 DEF Hot
      <4> QED BY <2>1, <4>1, <4>2 DEF HotKept, Holds
    <3> QED BY <3>1, <3>2
  <2>5. pc'[t] \in Charging =>
          blockA'[t] = physBlockIndex'[addr'[t]] /\ content'[addr'[t]] # Blank
    BY <1>S, <2>1, <2>3
  <2> QED BY <1>S, <2>1, <2>2, <2>4, <2>5 DEF HotKept, Reading
<1> QED BY <1>1, <1>2

\* A swap, whose block A holds the hot block's data until the map is swapped
\* and whose block B does from then on.
LEMMA HotSwap ==
  ASSUME WholeInv, NEW t \in Threads, HotKept(t),
         CopyBtoC(t) \/ CopyAtoB(t) \/ MapSwap(t)
  PROVE  HotKept(t)'
<1> USE DEF mapVars, coldVars, wearVars, logVars, argVars, readVars, swapVars,
            Goto, At
<1> DEFINE A == blockA[t]
           B == blockB[t]
           C == blockC[t]
<1>T. /\ BlockInv /\ TypeOK /\ HalfKnown(t) /\ pc \in [Threads -> Labels]
      /\ data \in [Blocks -> [{1, 2} -> Values \cup {Blank}]]
      /\ physBlockIndex \in [Blocks -> Blocks] /\ addr[t] \in Blocks
      /\ TablesAgree /\ SwapPinned(t)
  BY DEF WholeInv, BlockInv, TypeOK, Halves
<1>0. /\ pc[t] \in {"copyC1", "copyC2", "copyB1", "copyB2", "mapswap"}
      /\ pc'[t] \in {"copyC2", "copyB1", "copyB2", "unmapA", "logend"}
      /\ UNCHANGED <<content, kind, value, addr, blockA, blockB, blockC>>
  BY <1>T DEF CopyBtoC, CopyAtoB, Copy, MapSwap
<1>1. /\ pc[t] \in Charging /\ pc[t] \in Armed /\ pc[t] \in Logged
      /\ pc'[t] \in Charging \cup {"logend"}
      /\ "logend" \notin Charging
      /\ ~Dirty(t) /\ ~Dirty(t)' /\ KindFits(t)'
      /\ pc'[t] \in Copied => pc'[t] = "unmapA"
      /\ pc'[t] \notin Reading
  BY <1>0 DEF Charging, Locking, Armed, Logged, Swapping, Dirty, KindFits,
              HotKept, Copied, Reading
<1>2. /\ A \in Blocks /\ B \in Blocks /\ A # B
      /\ C # invalid_block => C \in Blocks \ {A, B}
      /\ pc[t] \in {"copyC1", "copyC2"} => C # invalid_block
  BY <1>1, <1>T, ArmedFacts
<1>3. A = physBlockIndex[addr[t]] /\ content[addr[t]] # Blank
  BY <1>1 DEF HotKept
<1>4. \A h \in Blocks : Hot(h) => h = addr[t] /\ Holds(h)
  BY <1>1, <1>T, HotIsCharged DEF HotKept
<1>5. ASSUME UNCHANGED physBlockIndex, data'[A] = data[A],
             pc'[t] # "logend", pc'[t] = "unmapA" => data'[B] = data'[A]
      PROVE  HotKept(t)'
  <2>1. \A h \in Blocks : Hot(h)' => Holds(h)'
    BY <1>0, <1>3, <1>4, <1>5 DEF Hot, Holds
  <2> QED BY <1>0, <1>1, <1>3, <1>5, <2>1 DEF HotKept, Reading
<1>6. CASE CopyBtoC(t)
  <2>1. PICK half \in {1, 2} : data' = [data EXCEPT ![C][half] = data[B][half]]
    BY <1>6 DEF CopyBtoC, Copy
  <2>2. UNCHANGED physBlockIndex /\ pc'[t] \in {"copyC2", "copyB1"} /\ C # A
    BY <1>2, <1>6, <1>T DEF CopyBtoC, Copy
  <2>3. data'[A] = data[A]
    <3> HIDE DEF A, B, C
    <3> QED BY <1>2, <1>T, <2>1, <2>2
  <2> QED BY <1>5, <2>2, <2>3
<1>7. CASE CopyAtoB(t)
  <2>1. /\ UNCHANGED physBlockIndex /\ pc'[t] \in {"copyB2", "unmapA"}
        /\ pc'[t] = "copyB2" => data' = [data EXCEPT ![B][1] = data[A][1]]
        /\ pc'[t] = "unmapA" =>
             pc[t] = "copyB2" /\ data' = [data EXCEPT ![B][2] = data[A][2]]
    BY <1>7, <1>T DEF CopyAtoB, Copy
  <2>2. pc'[t] = "unmapA" => data[B][1] = data[A][1]
    BY <1>T, <2>1 DEF HalfKnown
  <2>3. data'[A] = data[A] /\ (pc'[t] = "unmapA" => data'[B] = data'[A])
    <3> HIDE DEF A, B, C
    <3>1. pc'[t] = "unmapA" => [data[B] EXCEPT ![2] = data[A][2]] = data[A]
      BY <1>2, <1>T, <2>2
    <3> QED BY <1>2, <1>T, <2>1, <3>1
  <2> QED BY <1>0, <1>5, <2>1, <2>3
<1>8. CASE MapSwap(t)
  <2> DEFINE a == info[t].A.unmapBlock
             b == info[t].B.unmapBlock
             c == info[t].C.unmapBlock
             m == physBlockIndex
  <2>1. /\ pc[t] = "mapswap" /\ pc'[t] = "logend" /\ UNCHANGED data
        /\ physBlockIndex' =
             IF C = invalid_block
             THEN [m EXCEPT ![a] = m[b], ![b] = m[a]]
             ELSE [m EXCEPT ![a] = m[b], ![b] = m[c], ![c] = m[a]]
    BY <1>8, <1>T DEF MapSwap
  <2>2. /\ a \in Blocks /\ m[a] = A /\ b \in Blocks /\ m[b] = B
        /\ C # invalid_block => c \in Blocks /\ m[c] = C
    BY <1>1, <1>T DEF SwapPinned, Pinned, TypeOK
  <2>3. a = addr[t] /\ a # b /\ (C # invalid_block => a # c)
    BY <1>2, <1>3, <1>T, <2>2 DEF TablesAgree
  <2>4. physBlockIndex'[addr[t]] = B
    <3> HIDE DEF a, b, c, A, B, C
    <3> QED BY <1>T, <2>1, <2>2, <2>3
  <2>5. data[B] = data[A]
    BY <2>1 DEF HotKept, Copied
  <2>6. \A h \in Blocks : Hot(h)' => Holds(h)'
    BY <1>0, <1>3, <1>4, <2>1, <2>4, <2>5 DEF Hot, Holds
  <2> QED BY <1>1, <2>1, <2>6 DEF HotKept, Reading, Copied
<1> QED BY <1>6, <1>7, <1>8

\* Every step of the one thread keeps the hot block's data.
LEMMA HotStep ==
  ASSUME WholeInv, Blank \notin Values, NEW t \in Threads, HotKept(t),
         Start(t) \/ Run(t)
  PROVE  HotKept(t)'
<1>1. TypeOK /\ KindFits(t)
  BY DEF WholeInv, BlockInv, HotKept
<1> QED BY <1>1, HotKinds, HotFrame, HotWrite, HotSwap

\* However often its data moves to a colder block, the only logical block
\* that was ever written reads back what was last written to it, whatever
\* other blocks are read, trimmed, split and merged.  For one thread inside
\* the wear leveler and any number of blocks, wear steps and writes; Blank is
\* the content of a block nobody wrote, so it is not among the written ones.
THEOREM HotBlockKept ==
  ASSUME OneThread, Blank \notin Values
  PROVE  Spec => HotBlockKeepsData
<1> DEFINE IInv == WholeInv /\ \A t \in Threads : HotKept(t)
           Returned == \A t \in Threads :
             ReadReturns(t) /\ {l \in Blocks : content[l] # Blank} = {addr[t]}
               => \A half \in {1, 2} : buf[t][half] = content[addr[t]]
<1>1. Init => IInv
  <2> SUFFICES ASSUME Init PROVE IInv
    OBVIOUS
  <2>1. WholeInv
    BY InitWhole
  <2>2. ASSUME NEW t \in Threads PROVE HotKept(t)
    <3>1. pc[t] = "idle" /\ kind[t] = "read" /\ content = [l \in Blocks |-> Blank]
      BY DEF Init
    <3>2. "idle" \notin Charging \cup Copied \cup Reading
      BY DEF Charging, Locking, Logged, Swapping, Copied, Reading
    <3>3. \A h \in Blocks : ~Hot(h)
      <4> SUFFICES ASSUME NEW h \in Blocks, Hot(h) PROVE FALSE
        OBVIOUS
      <4>1. h \in {l \in Blocks : content[l] # Blank}
        BY DEF Hot
      <4> QED BY <3>1, <4>1
    <3> QED BY <3>1, <3>2, <3>3 DEF HotKept, KindFits, Dirty, Reading
  <2> QED BY <2>1, <2>2
<1>2. ASSUME IInv, [Next]_vars PROVE IInv'
  <2>1. WholeInv'
    BY <1>2, NextWhole
  <2>2. CASE UNCHANGED vars
    <3>1. UNCHANGED <<pc, kind, value, addr, blockA, blockB, physBlockIndex,
                      content, data, query, buf>>
      BY <2>2 DEF vars, mapVars, argVars, readVars, swapVars
    <3>2. ASSUME NEW t \in Threads PROVE HotKept(t)'
      <4>1. HotKept(t)
        BY <1>2
      <4>2. (KindFits(t)' <=> KindFits(t)) /\ (Dirty(t)' <=> Dirty(t))
        BY <3>1 DEF KindFits, Dirty
      <4>3. \A h : (Hot(h)' <=> Hot(h)) /\ (Holds(h)' <=> Holds(h))
        BY <3>1 DEF Hot, Holds
      <4> QED BY <3>1, <4>1, <4>2, <4>3 DEF HotKept
    <3> QED BY <2>1, <3>2
  <2>3. ASSUME NEW t \in Threads, Start(t) \/ Run(t) PROVE IInv'
    <3>1. HotKept(t)'
      BY <1>2, <2>3, HotStep
    <3>2. \A u \in Threads : u = t
      BY DEF OneThread
    <3> QED BY <2>1, <3>1, <3>2
  <2> QED BY <1>2, <2>2, <2>3 DEF Next
<1>3. ASSUME IInv PROVE Returned
  <2> SUFFICES ASSUME NEW t \in Threads, pc[t] = "runlock",
                      {l \in Blocks : content[l] # Blank} = {addr[t]}
               PROVE  \A half \in {1, 2} : buf[t][half] = content[addr[t]]
    BY DEF ReadReturns
  <2>1. HotKept(t) /\ addr[t] \in Blocks
    BY <1>3 DEF WholeInv, BlockInv, TypeOK
  <2>2. Hot(addr[t]) /\ ~Dirty(t)
    BY DEF Hot, Dirty
  <2>3. Holds(addr[t])
    BY <2>1, <2>2 DEF HotKept
  <2>4. /\ query[t] = physBlockIndex[addr[t]]
        /\ buf[t][1] = data[query[t]][1] /\ buf[t][2] = data[query[t]][2]
    BY <2>1 DEF HotKept, Reading
  <2> QED BY <2>3, <2>4 DEF Holds
<1>4. ASSUME IInv PROVE [Returned]_vars
  BY <1>3, <1>4
<1> HIDE DEF IInv, Returned
<1>5. Spec => [][Returned]_vars
  BY <1>1, <1>2, <1>4, PTL DEF Spec
<1> QED BY <1>5 DEF HotBlockKeepsData, Returned
=============================================================================
