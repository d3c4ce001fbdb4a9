---------------------------- MODULE BlockManager ----------------------------
(***************************************************************************)
(* The 2M-block half of the wear leveler (src/src/wearlevel-refactor):     *)
(* MapTable, BlockUnmapTable, BlockWearTable, BlockColdnessManager,        *)
(* BlockSwapLog and the BlockManager that drives them.  Threads read,      *)
(* write, trim, split and merge logical blocks; a write whose physical     *)
(* block reaches the wear threshold swaps that block with a colder one     *)
(* while other threads go on.                                              *)
(*                                                                         *)
(* A map entry is guarded by a sequence lock kept in the entry itself: an  *)
(* odd value is write-locked, a reader retries when the value moved.  A    *)
(* thread's program counter names the next shared access it makes.         *)
(* Accesses made under a write lock nobody else can get past are one step; *)
(* a 2M transfer is two steps, so that a reader can meet a half-done one.  *)
(*                                                                         *)
(* The coldness lists have no lock: a call on them is a row of loads and   *)
(* stores, here its first access (EnterLists) and its last.  As long as no *)
(* two calls have overlapped the last one has the effect of the whole      *)
(* call, and a list_del of a node that is on no list (its pointers are     *)
(* LIST_POISON) faults the thread ("oops").  From the first overlap on the *)
(* lists are "mixed", and nothing is known of them: a call may give any    *)
(* block or none, a block that another thread or this one has in hand      *)
(* included.  Or it faults, or takes the list's head for a node and works  *)
(* on a block that does not exist ("stray"): neither is followed further.  *)
(*                                                                         *)
(* Abstractions: the 512 page entries of a split block, and the wear their *)
(* merge adds, are inputs (MergeWear); the unlocked store that a page      *)
(* write makes into its block's map entry (MapTable.c:113) is PageManager's*)
(* and what is said here supposes that it met no holder of the entry.      *)
(***************************************************************************)
EXTENDS Integers, FiniteSets, SequencesExt

CONSTANTS
  Threads,          \* kernel threads inside the wear leveler
  BlockNum,         \* data blocks handed to the coldness manager
  STEP_WEAR_COUNT,  \* include/Config.h
  WEAR_STEP_NUMS,   \* include/Config.h: lists per coldness manager
  LOCK_RANGE,       \* 2^22 in the code: values of the bit-field "lock"
  LOG_ENTRY_NUM,    \* BLOCK_SWAP_LOG_MAX_ENTRY_NUM
  Values,           \* contents a 2M block may be given
  Blank,            \* content of a block nobody wrote
  Increases,        \* increaseWearCount arguments of writes
  MergeWear,        \* PageWearTableSumGet(...) / 512 at a merge
  Ops,              \* operations the threads may start
  MaxOps            \* bound: operations started in one behaviour

Blocks == 0 .. BlockNum - 1      \* logical and physical block numbers alike
invalid_block == -1
MaybeBlock == Blocks \cup {invalid_block}
Steps == 0 .. WEAR_STEP_NUMS - 1
Lists == BOOLEAN \X Steps        \* <<busy, index>> names a coldness list
Slots == 0 .. LOG_ENTRY_NUM - 1
MAX_WEAR_COUNT == STEP_WEAR_COUNT * WEAR_STEP_NUMS
OpKinds == {"read", "write", "trim", "split", "merge"}
BlockInfo == [unmapBlock : Blocks \cup {invalid_block}, fineGrain : BOOLEAN]

ASSUME BlockAssumption == BlockNum \in Nat \ {0}
ASSUME WearAssumption ==
  /\ STEP_WEAR_COUNT \in Nat \ {0, 1}
  /\ WEAR_STEP_NUMS \in Nat \ {0, 1}
  /\ Increases \subseteq Nat
  /\ MergeWear \subseteq Nat
ASSUME LockAssumption == LOCK_RANGE \in Nat \ {0} /\ LOCK_RANGE % 2 = 0
ASSUME LogAssumption == LOG_ENTRY_NUM \in Nat \ {0}
ASSUME OpAssumption == Ops \subseteq OpKinds /\ MaxOps \in Nat

VARIABLES
  physBlockIndex,   \* MapTable: logical block -> physical block
  lock,             \* MapTable: the sequence lock of each logical block
  busy,             \* MapTable: the busy bit
  fineGrain,        \* MapTable: the block is split into pages
  unmap,            \* BlockUnmapTable, on NVM: physical block -> BlockInfo
  data,             \* NVM: physical block -> its two halves
  wear,             \* BlockWearTable, on NVM
  threshold,        \* BlockManager.threshold
  nvmThreshold,     \* its copy on NVM
  heads,            \* BlockColdnessManager: freeHeads and busyHeads
  listing,          \* threads between two accesses of a list call
  mixed,            \* two list calls have overlapped
  log,              \* BlockSwapLog, on NVM: slot -> entry
  logIndex,         \* BlockSwapLog.index
  content,          \* what the last finished write left in a logical block
  ops,              \* operations started so far
  pc, kind, addr, value, inc,      \* a thread's position and arguments
  seq, query, buf,                 \* a reader's lock value, address, buffer
  thr, wcA, blockA, blockB, blockC,\* IncreaseBlockWearCount's locals
  wcB, wcC,                        \* BlockSwapFast/Slow's wear counts
  todo, cand, held,                \* which of A, B, C are still to be locked;
                                   \* LockOneBlock's candidate; the handle
  info, slot                       \* infoA/B/C and the log entry's address

mapVars == <<physBlockIndex, lock, busy, fineGrain, unmap>>
coldVars == <<heads, listing, mixed>>
wearVars == <<wear, threshold, nvmThreshold, coldVars>>
logVars == <<log, logIndex>>
argVars == <<kind, addr, value, inc>>
readVars == <<seq, query, buf>>
swapVars == <<thr, wcA, wcB, wcC, blockA, blockB, blockC, todo, cand, info,
              slot>>
vars == <<mapVars, wearVars, logVars, data, content, ops, pc, argVars,
          readVars, swapVars, held>>

NoInfo == [unmapBlock |-> invalid_block, fineGrain |-> FALSE]
NoEntry == [type |-> 0, blocks |-> [A |-> invalid_block, B |-> invalid_block,
                                    C |-> invalid_block],
            info |-> [A |-> NoInfo, B |-> NoInfo, C |-> NoInfo], step |-> {}]

\* WearLevelerFormat: identity map, zero wear, every block on freeHeads[0].
Init ==
  /\ physBlockIndex = [l \in Blocks |-> l]
  /\ lock = [l \in Blocks |-> 0]
  /\ busy = [l \in Blocks |-> FALSE]
  /\ fineGrain = [l \in Blocks |-> FALSE]
  /\ unmap = [p \in Blocks |-> [unmapBlock |-> p, fineGrain |-> FALSE]]
  /\ data = [p \in Blocks |-> [half \in {1, 2} |-> Blank]]
  /\ wear = [p \in Blocks |-> 0]
  /\ threshold = STEP_WEAR_COUNT
  /\ nvmThreshold = STEP_WEAR_COUNT
  /\ heads = [x \in Lists |-> IF x = <<FALSE, 0>>
                              THEN [n \in 1 .. BlockNum |-> n - 1]
                              ELSE << >>]
  /\ listing = {}
  /\ mixed = FALSE
  /\ log = [i \in Slots |-> NoEntry]
  /\ logIndex = 0
  /\ content = [l \in Blocks |-> Blank]
  /\ ops = 0
  /\ pc = [t \in Threads |-> "idle"]
  /\ kind = [t \in Threads |-> "read"]
  /\ addr = [t \in Threads |-> 0]
  /\ value = [t \in Threads |-> Blank]
  /\ inc = [t \in Threads |-> 0]
  /\ seq = [t \in Threads |-> 0]
  /\ query = [t \in Threads |-> 0]
  /\ buf = [t \in Threads |-> [half \in {1, 2} |-> Blank]]
  /\ thr = [t \in Threads |-> 0]
  /\ wcA = [t \in Threads |-> 0]
  /\ wcB = [t \in Threads |-> 0]
  /\ wcC = [t \in Threads |-> 0]
  /\ blockA = [t \in Threads |-> 0]
  /\ blockB = [t \in Threads |-> invalid_block]
  /\ blockC = [t \in Threads |-> invalid_block]
  /\ todo = [t \in Threads |-> {}]
  /\ cand = [t \in Threads |-> 0]
  /\ held = [t \in Threads |-> {}]
  /\ info = [t \in Threads |-> NoEntry.info]
  /\ slot = [t \in Threads |-> 0]

-----------------------------------------------------------------------------
\* Helpers.

Goto(t, label) == pc' = [pc EXCEPT ![t] = label]
At(t, label) == pc[t] = label

Locked(l) == lock[l] % 2 = 1
Bump(n) == (n + 1) % LOCK_RANGE

\* BlockColdnessManager.  Remove is list_del of the block's node, whichever
\* list it is on; GetFreeBlock and GetBusyBlock take the first node, if any.
OnList(h, b) == \E x \in Lists : Contains(h[x], b)
Unlink(h, b) == [x \in Lists |-> RemoveFirst(h[x], b)]
AddTail(h, b, i, isBusy) == [h EXCEPT ![<<isBusy, i>>] = Append(@, b)]

ListHead(isBusy, i) ==
  IF i \in Steps /\ heads[<<isBusy, i>>] # << >>
  THEN Head(heads[<<isBusy, i>>])
  ELSE invalid_block

WearStep(wc) == wc \div STEP_WEAR_COUNT
Charge(wc, n) == (wc + n) % MAX_WEAR_COUNT       \* UINT32 arithmetic

\* The two or three blocks of a swap.
Roles == {"A", "B", "C"}
Part(t, r) ==
  CASE r = "A" -> blockA[t] [] r = "B" -> blockB[t] [] r = "C" -> blockC[t]
SwapRoles(t) == IF blockC[t] = invalid_block THEN {"A", "B"} ELSE Roles
SwapBlocks(t) == {blockA[t], blockB[t], blockC[t]} \ {invalid_block}

-----------------------------------------------------------------------------
\* WearLeveler.c tests fineGrain without a lock and calls the block manager.

Begin(t, k, l) ==
  /\ At(t, "idle")
  /\ k \in Ops
  /\ ops < MaxOps
  /\ ops' = ops + 1
  /\ fineGrain[l] = (k = "merge")
  /\ kind' = [kind EXCEPT ![t] = k]
  /\ addr' = [addr EXCEPT ![t] = l]
  /\ UNCHANGED <<mapVars, wearVars, logVars, data, content, readVars,
                 swapVars, held>>

BeginWrite(t, l, v, n) ==
  /\ Begin(t, "write", l)
  /\ value' = [value EXCEPT ![t] = v]
  /\ inc' = [inc EXCEPT ![t] = n]
  /\ Goto(t, "wlock")

BeginOther(t, k, l) ==
  /\ k # "write"
  /\ Begin(t, k, l)
  /\ UNCHANGED <<value, inc>>
  /\ Goto(t, IF k = "read" THEN "rlock" ELSE "wlock")

-----------------------------------------------------------------------------
\* BlockManagerRead: optimistic, retried until the lock value stood still.

MapTableLockBlockForRead(t) ==
  /\ At(t, "rlock")
  /\ ~Locked(addr[t])
  /\ seq' = [seq EXCEPT ![t] = lock[addr[t]]]
  /\ Goto(t, "rquery")
  /\ UNCHANGED <<mapVars, wearVars, logVars, data, content, ops, argVars,
                 query, buf, swapVars, held>>

ReadQuery(t) ==
  /\ At(t, "rquery")
  /\ query' = [query EXCEPT ![t] = physBlockIndex[addr[t]]]
  /\ Goto(t, "read1")
  /\ UNCHANGED <<mapVars, wearVars, logVars, data, content, ops, argVars,
                 seq, buf, swapVars, held>>

ReadHalf(t) ==
  /\ pc[t] \in {"read1", "read2"}
  /\ LET half == IF At(t, "read1") THEN 1 ELSE 2
     IN /\ buf' = [buf EXCEPT ![t][half] = data[query[t]][half]]
        /\ Goto(t, IF half = 1 THEN "read2" ELSE "runlock")
  /\ UNCHANGED <<mapVars, wearVars, logVars, data, content, ops, argVars,
                 seq, query, swapVars, held>>

\* Mutant: the read is never retried.
ReadWithoutRetry(t) ==
  /\ At(t, "runlock")
  /\ Goto(t, "idle")
  /\ UNCHANGED <<mapVars, wearVars, logVars, data, content, ops, argVars,
                 readVars, swapVars, held>>

MapTableUnlockBlockForRead(t) ==
  /\ At(t, "runlock")
  /\ Goto(t, IF lock[addr[t]] # seq[t] THEN "rlock" ELSE "idle")
  /\ UNCHANGED <<mapVars, wearVars, logVars, data, content, ops, argVars,
                 readVars, swapVars, held>>

-----------------------------------------------------------------------------
\* Calls of the coldness manager: the first access, and the last.  Of mixed
\* lists the model keeps nothing.
NoLists == [x \in Lists |-> << >>]

ListCalls == {"trimdel", "trimput", "remove", "getfree", "getbusy", "getworn",
              "putback", "putA", "putB", "putC"}

EnterLists(t) ==
  /\ pc[t] \in ListCalls
  /\ t \notin listing
  /\ listing' = listing \cup {t}
  /\ mixed' = (mixed \/ listing # {})
  /\ heads' = IF mixed' THEN NoLists ELSE heads
  /\ UNCHANGED <<mapVars, wear, threshold, nvmThreshold, logVars, data,
                 content, ops, pc, argVars, readVars, swapVars, held>>

\* The last access; h is what the call makes of the lists when it was alone.
LeaveLists(t, h) ==
  /\ t \in listing
  /\ listing' = listing \ {t}
  /\ heads' = IF mixed THEN heads ELSE h
  /\ UNCHANGED mixed

\* Mutant: the first node of a list is given out without list_del.
GetLeavesLinked(t, isBusy, i, b) ==
  /\ mixed \/ b = ListHead(isBusy, i)
  /\ LeaveLists(t, heads)

\* GetFreeBlock and GetBusyBlock, one of which returns b.
Get(t, isBusy, i, b) ==
  /\ mixed \/ b = ListHead(isBusy, i)
  /\ LeaveLists(t, Unlink(heads, b))

BlockColdnessManagerRemove(t, b, next) ==
  /\ LeaveLists(t, Unlink(heads, b))
  /\ Goto(t, IF mixed \/ OnList(heads, b) THEN next ELSE "oops")
  /\ UNCHANGED <<mapVars, wear, threshold, nvmThreshold, logVars, data,
                 content, ops, argVars, readVars, swapVars, held>>

BlockColdnessManagerPut(t, b, wc, isBusy, next) ==
  /\ LeaveLists(t, AddTail(heads, b, WearStep(wc), isBusy))
  /\ Goto(t, next)
  /\ UNCHANGED <<mapVars, wear, threshold, nvmThreshold, logVars, data,
                 content, ops, argVars, readVars, swapVars, held>>

\* On mixed lists: a pointer that is none, or a head taken for a node.
ListFault(t) ==
  /\ pc[t] \in ListCalls
  /\ mixed
  /\ LeaveLists(t, heads)
  /\ Goto(t, "stray")
  /\ UNCHANGED <<mapVars, wear, threshold, nvmThreshold, logVars, data,
                 content, ops, argVars, readVars, swapVars, held>>

-----------------------------------------------------------------------------
\* Operations under one write lock.

\* Mutant: the lock is taken over without waiting for an even value.
LockWithoutWaiting(t) ==
  LET l == addr[t] IN
  /\ At(t, "wlock")
  /\ lock' = [lock EXCEPT ![l] = Bump(@)]
  /\ held' = [held EXCEPT ![t] = {l}]
  /\ Goto(t, "body")
  /\ UNCHANGED <<physBlockIndex, busy, fineGrain, unmap, wearVars, logVars,
                 data, content, ops, argVars, readVars, swapVars>>

MapTableLockBlockForWrite(t) ==
  LET l == addr[t] IN
  /\ At(t, "wlock")
  /\ ~Locked(l)
  /\ lock' = [lock EXCEPT ![l] = Bump(@)]
  /\ held' = [held EXCEPT ![t] = {l}]
  /\ Goto(t, "body")
  /\ UNCHANGED <<physBlockIndex, busy, fineGrain, unmap, wearVars, logVars,
                 data, content, ops, argVars, readVars, swapVars>>

\* BlockManagerWrite, between lock and unlock.
WriteHalf(t) ==
  LET p == physBlockIndex[addr[t]]
      half == IF At(t, "body") THEN 1 ELSE 2
  IN
  /\ pc[t] \in {"body", "body2"}
  /\ kind[t] = "write"
  /\ busy' = [busy EXCEPT ![addr[t]] = TRUE]
  /\ blockA' = [blockA EXCEPT ![t] = p]
  /\ data' = [data EXCEPT ![p][half] = value[t]]
  /\ Goto(t, IF half = 1 THEN "body2" ELSE "unlock")
  /\ UNCHANGED <<physBlockIndex, lock, fineGrain, unmap, wearVars, logVars,
                 content, ops, argVars, readVars, thr, wcA, wcB, wcC, blockB,
                 blockC, todo, cand, info, slot, held>>

\* BlockManagerTrim: the entry and the wear count, list_del, list_add_tail.
TrimRead(t) ==
  LET p == physBlockIndex[addr[t]] IN
  /\ At(t, "body")
  /\ kind[t] = "trim"
  /\ busy' = [busy EXCEPT ![addr[t]] = FALSE]
  /\ blockA' = [blockA EXCEPT ![t] = p]
  /\ wcA' = [wcA EXCEPT ![t] = wear[p]]
  /\ Goto(t, "trimdel")
  /\ UNCHANGED <<physBlockIndex, lock, fineGrain, unmap, wearVars, logVars,
                 data, content, ops, argVars, readVars, thr, wcB, wcC, blockB,
                 blockC, todo, cand, info, slot, held>>

TrimRemove(t) ==
  At(t, "trimdel") /\ BlockColdnessManagerRemove(t, blockA[t], "trimput")

\* Mutant: a trimmed block is not put back on a list.
TrimForgetsPut(t) ==
  /\ At(t, "trimput")
  /\ LeaveLists(t, heads)
  /\ Goto(t, "unlock")
  /\ UNCHANGED <<mapVars, wear, threshold, nvmThreshold, logVars, data,
                 content, ops, argVars, readVars, swapVars, held>>

TrimPut(t) ==
  /\ At(t, "trimput")
  /\ BlockColdnessManagerPut(t, blockA[t], wcA[t], FALSE, "unlock")

\* BlockManagerSplit and BlockManagerMerge: the map entry's flag, the copy of
\* it in the unmap table and, at a merge, the pages' wear.
SetGrain(t, fine, n) ==
  LET l == addr[t]
      p == physBlockIndex[l]
  IN
  /\ At(t, "body")
  /\ fineGrain' = [fineGrain EXCEPT ![l] = fine]
  /\ unmap' = [unmap EXCEPT ![p].fineGrain = fine]
  /\ wear' = [wear EXCEPT ![p] = Charge(@, n)]
  /\ Goto(t, "unlock")
  /\ UNCHANGED <<physBlockIndex, lock, busy, threshold, nvmThreshold, coldVars,
                 logVars, data, content, ops, argVars, readVars, swapVars,
                 held>>

Split(t) == kind[t] = "split" /\ SetGrain(t, TRUE, 0)
Merge(t, n) == kind[t] = "merge" /\ SetGrain(t, FALSE, n)

\* MapTableUnlockBlockForWrite; only a write goes on to charge wear.
MapTableUnlockBlockForWrite(t) ==
  LET l == addr[t] IN
  /\ At(t, "unlock")
  /\ lock' = [lock EXCEPT ![l] = Bump(@)]
  /\ held' = [held EXCEPT ![t] = {}]
  /\ content' = IF kind[t] = "write"
                THEN [content EXCEPT ![l] = value[t]] ELSE content
  /\ Goto(t, IF kind[t] = "write" /\ inc[t] # 0
             THEN "threshold" ELSE "idle")
  /\ UNCHANGED <<physBlockIndex, busy, fineGrain, unmap, wearVars, logVars,
                 data, ops, argVars, readVars, swapVars>>

-----------------------------------------------------------------------------
\* BlockManagerIncreaseWearCount and IncreaseBlockWearCount, without a lock.

ReadThreshold(t) ==
  /\ At(t, "threshold")
  /\ thr' = [thr EXCEPT ![t] = threshold]
  /\ Goto(t, "wear")
  /\ UNCHANGED <<mapVars, wearVars, logVars, data, content, ops, argVars,
                 readVars, wcA, wcB, wcC, blockA, blockB, blockC, todo, cand,
                 info, slot, held>>

ReadWear(t) ==
  LET wc == wear[blockA[t]] IN
  /\ At(t, "wear")
  /\ wcA' = [wcA EXCEPT ![t] = wc]
  /\ Goto(t, IF Charge(wc, inc[t]) < thr[t] THEN "charge" ELSE "remove")
  /\ UNCHANGED <<mapVars, wearVars, logVars, data, content, ops, argVars,
                 readVars, thr, wcB, wcC, blockA, blockB, blockC, todo, cand,
                 info, slot, held>>

ChargeWear(t) ==
  /\ At(t, "charge")
  /\ wear' = [wear EXCEPT ![blockA[t]] = Charge(wcA[t], inc[t])]
  /\ Goto(t, "idle")
  /\ UNCHANGED <<mapVars, threshold, nvmThreshold, coldVars,
                 logVars, data, content, ops, argVars, readVars, swapVars,
                 held>>

RemoveHot(t) ==
  At(t, "remove") /\ BlockColdnessManagerRemove(t, blockA[t], "getfree")

\* A free block of the coldest step makes a fast swap...
GetFree(t, b) ==
  LET fast == b # invalid_block IN
  /\ At(t, "getfree")
  /\ Get(t, FALSE, WearStep(thr[t]) - 1, b)
  /\ blockB' = [blockB EXCEPT ![t] = b]
  /\ blockC' = [blockC EXCEPT ![t] = invalid_block]
  /\ todo' = [todo EXCEPT ![t] = IF fast THEN {"A", "B"} ELSE {}]
  /\ Goto(t, IF fast THEN "getunmap" ELSE "getbusy")
  /\ UNCHANGED <<mapVars, wear, threshold, nvmThreshold, logVars, data,
                 content, ops, argVars, readVars, thr, wcA, wcB, wcC, blockA,
                 cand, info, slot, held>>

\* ... otherwise a busy one of that step and a worn free one a slow swap.
GetBusy(t, b) ==
  /\ At(t, "getbusy")
  /\ Get(t, TRUE, WearStep(thr[t]) - 1, b)
  /\ blockB' = [blockB EXCEPT ![t] = b]
  /\ Goto(t, IF b # invalid_block THEN "getworn" ELSE "putback")
  /\ UNCHANGED <<mapVars, wear, threshold, nvmThreshold, logVars, data,
                 content, ops, argVars, readVars, thr, wcA, wcB, wcC, blockA,
                 blockC, todo, cand, info, slot, held>>

\* ASSERT(blockC != invalid_block) stops the thread when it fails.
GetWorn(t, c) ==
  LET found == c # invalid_block IN
  /\ At(t, "getworn")
  /\ Get(t, FALSE, WearStep(thr[t]), c)
  /\ blockC' = [blockC EXCEPT ![t] = c]
  /\ todo' = [todo EXCEPT ![t] = IF found THEN Roles ELSE {}]
  /\ Goto(t, IF found THEN "getunmap" ELSE "assert")
  /\ UNCHANGED <<mapVars, wear, threshold, nvmThreshold, logVars, data,
                 content, ops, argVars, readVars, thr, wcA, wcB, wcC, blockA,
                 blockB, cand, info, slot, held>>

PutBack(t) ==
  /\ At(t, "putback")
  /\ BlockColdnessManagerPut(t, blockA[t], wcA[t], TRUE, "raise")

\* IncreaseThreshold: the compare-and-swap, then the copy on NVM.
RaiseThreshold(t) ==
  /\ At(t, "raise")
  /\ IF threshold = thr[t]
     THEN /\ threshold' = Charge(threshold, STEP_WEAR_COUNT)
          /\ Goto(t, "persist")
     ELSE /\ Goto(t, "idle")
          /\ UNCHANGED threshold
  /\ UNCHANGED <<mapVars, wear, nvmThreshold, coldVars, logVars,
                 data, content, ops, argVars, readVars, swapVars, held>>

PersistThreshold(t) ==
  /\ At(t, "persist")
  /\ nvmThreshold' = Charge(thr[t], STEP_WEAR_COUNT)
  /\ Goto(t, "idle")
  /\ UNCHANGED <<mapVars, wear, threshold, coldVars, logVars,
                 data, content, ops, argVars, readVars, swapVars, held>>

-----------------------------------------------------------------------------
\* BlockSwapFast (A, B) and BlockSwapSlow (A, B, C).

\* Mutant: BlockSwapFastLock and SortBlocks keep the order A, B, C.
FirstTodo(t) ==
  LET place == [A |-> 1, B |-> 2, C |-> 3]
  IN CHOOSE r \in todo[t] : \A q \in todo[t] : place[r] <= place[q]

\* BlockSwapFastLock and SortBlocks: which block is locked next.
LowestTodo(t) ==
  CHOOSE r \in todo[t] : \A q \in todo[t] : Part(t, r) <= Part(t, q)
Wanted(t) == Part(t, LowestTodo(t))

\* LockOneBlock: which logical block?
GetUnmap(t) ==
  /\ At(t, "getunmap")
  /\ cand' = [cand EXCEPT ![t] = unmap[Wanted(t)].unmapBlock]
  /\ Goto(t, "lockmap")
  /\ UNCHANGED <<mapVars, wearVars, logVars, data, content, ops, argVars,
                 readVars, thr, wcA, wcB, wcC, blockA, blockB, blockC, todo,
                 info, slot, held>>

\* Mutant: the lock is kept wherever the entry has moved to.
LockMapUnchecked(t) ==
  LET rest == todo[t] \ {LowestTodo(t)} IN
  /\ At(t, "lockmap")
  /\ ~Locked(cand[t])
  /\ lock' = [lock EXCEPT ![cand[t]] = Bump(@)]
  /\ held' = [held EXCEPT ![t] = @ \cup {cand[t]}]
  /\ todo' = [todo EXCEPT ![t] = rest]
  /\ Goto(t, IF rest = {} THEN "logbegin" ELSE "getunmap")
  /\ UNCHANGED <<physBlockIndex, busy, fineGrain, unmap, wearVars, logVars,
                 data, content, ops, argVars, readVars, thr, wcA, wcB, wcC,
                 blockA, blockB, blockC, cand, info, slot>>

\* MapTableLockBlockForSwap: lock it, keep it only if it still maps there.
LockMap(t) ==
  LET l == cand[t]
      rest == todo[t] \ {LowestTodo(t)}
      mapped == physBlockIndex[l] = Wanted(t)
  IN
  /\ At(t, "lockmap")
  /\ ~Locked(l)
  /\ lock' = [lock EXCEPT ![l] = IF mapped THEN Bump(@) ELSE Bump(Bump(@))]
  /\ held' = [held EXCEPT ![t] = IF mapped THEN @ \cup {l} ELSE @]
  /\ todo' = [todo EXCEPT ![t] = IF mapped THEN rest ELSE @]
  /\ Goto(t, IF mapped /\ rest = {} THEN "logbegin" ELSE "getunmap")
  /\ UNCHANGED <<physBlockIndex, busy, fineGrain, unmap, wearVars, logVars,
                 data, content, ops, argVars, readVars, thr, wcA, wcB, wcC,
                 blockA, blockB, blockC, cand, info, slot>>

\* LogBlockSwapBegin: the entry with type 0 at the current index...
LogBegin(t) ==
  LET infos == [A |-> unmap[blockA[t]],
                B |-> unmap[blockB[t]],
                C |-> IF blockC[t] = invalid_block THEN NoInfo
                                                   ELSE unmap[blockC[t]]]
  IN
  /\ At(t, "logbegin")
  /\ info' = [info EXCEPT ![t] = infos]
  /\ slot' = [slot EXCEPT ![t] = logIndex]
  /\ log' = [log EXCEPT ![logIndex] =
       [type |-> 0, info |-> infos, step |-> {0},
        blocks |-> [A |-> blockA[t], B |-> blockB[t], C |-> blockC[t]]]]
  /\ Goto(t, "logtype")
  /\ UNCHANGED <<mapVars, wearVars, logIndex, data, content, ops, argVars,
                 readVars, thr, wcA, wcB, wcC, blockA, blockB, blockC, todo,
                 cand, held>>

\* Mutant: the index is not set back at the end of the area.
LogIndexRunsOver(t) ==
  LET fast == blockC[t] = invalid_block IN
  /\ At(t, "logtype")
  /\ logIndex' = logIndex + 1
  /\ log' = [log EXCEPT ![slot[t]].type = IF fast THEN 1 ELSE 2]
  /\ Goto(t, IF fast THEN "copyB1" ELSE "copyC1")
  /\ UNCHANGED <<mapVars, wearVars, data, content, ops, argVars, readVars,
                 swapVars, held>>

\* ... then the index moves on, and last the type arms the entry.
LogType(t) ==
  LET fast == blockC[t] = invalid_block IN
  /\ At(t, "logtype")
  /\ logIndex' = (logIndex + 1) % LOG_ENTRY_NUM
  /\ log' = [log EXCEPT ![slot[t]].type = IF fast THEN 1 ELSE 2]
  /\ Goto(t, IF fast THEN "copyB1" ELSE "copyC1")
  /\ UNCHANGED <<mapVars, wearVars, data, content, ops, argVars, readVars,
                 swapVars, held>>

\* Mutant: LogBlockSwapCommitStepx before the copy is complete.
CopyMarkedEarly(t, from, to, half, mark, next) ==
  /\ data' = [data EXCEPT ![to][half] = data[from][half]]
  /\ log' = [log EXCEPT ![slot[t]].step = @ \cup {mark}]
  /\ Goto(t, next)
  /\ UNCHANGED <<mapVars, wearVars, logIndex, content, ops, argVars, readVars,
                 swapVars, held>>

\* NVMemcpy of one half; the second half is followed by its step mark.
Copy(t, from, to, half, mark, next) ==
  /\ data' = [data EXCEPT ![to][half] = data[from][half]]
  /\ log' = IF half = 2 THEN [log EXCEPT ![slot[t]].step = @ \cup {mark}]
                        ELSE log
  /\ Goto(t, next)
  /\ UNCHANGED <<mapVars, wearVars, logIndex, content, ops, argVars, readVars,
                 swapVars, held>>

CopyBtoC(t) ==
  \/ At(t, "copyC1") /\ Copy(t, blockB[t], blockC[t], 1, 2, "copyC2")
  \/ At(t, "copyC2") /\ Copy(t, blockB[t], blockC[t], 2, 2, "copyB1")

\* Mutant: NVMemcpy with its arguments exchanged.
CopyBtoA(t) ==
  LET mark == IF blockC[t] = invalid_block THEN 2 ELSE 3 IN
  \/ At(t, "copyB1") /\ Copy(t, blockB[t], blockA[t], 1, mark, "copyB2")
  \/ At(t, "copyB2") /\ Copy(t, blockB[t], blockA[t], 2, mark, "unmapA")

CopyAtoB(t) ==
  LET mark == IF blockC[t] = invalid_block THEN 2 ELSE 3 IN
  \/ At(t, "copyB1") /\ Copy(t, blockA[t], blockB[t], 1, mark, "copyB2")
  \/ At(t, "copyB2") /\ Copy(t, blockA[t], blockB[t], 2, mark, "unmapA")

\* BlockUnmapTableSet of A, B and, in a slow swap, C: one NVM write each.
SetUnmap(t, p, i, next) ==
  /\ unmap' = [unmap EXCEPT ![p] = i]
  /\ Goto(t, next)
  /\ UNCHANGED <<physBlockIndex, lock, busy, fineGrain, wearVars, logVars,
                 data, content, ops, argVars, readVars, swapVars, held>>

SetUnmapA(t) ==
  /\ At(t, "unmapA")
  /\ SetUnmap(t, blockA[t],
              IF blockC[t] = invalid_block THEN info[t].B ELSE info[t].C,
              "unmapB")
SetUnmapB(t) ==
  /\ At(t, "unmapB")
  /\ SetUnmap(t, blockB[t], info[t].A,
              IF blockC[t] = invalid_block THEN "mapswap" ELSE "unmapC")
SetUnmapC(t) ==
  /\ At(t, "unmapC")
  /\ SetUnmap(t, blockC[t], info[t].B, "mapswap")

\* MapTableBlockSwapFast / MapTableBlockSwapSlow on the locked entries.
MapSwap(t) ==
  LET a == info[t].A.unmapBlock
      b == info[t].B.unmapBlock
      c == info[t].C.unmapBlock
      m == physBlockIndex
  IN
  /\ At(t, "mapswap")
  /\ physBlockIndex' = IF blockC[t] = invalid_block
                       THEN [m EXCEPT ![a] = m[b], ![b] = m[a]]
                       ELSE [m EXCEPT ![a] = m[b], ![b] = m[c], ![c] = m[a]]
  /\ Goto(t, "logend")
  /\ UNCHANGED <<lock, busy, fineGrain, unmap, wearVars, logVars, data,
                 content, ops, argVars, readVars, swapVars, held>>

LogBlockSwapEnd(t) ==
  /\ At(t, "logend")
  /\ log' = [log EXCEPT ![slot[t]].type = 0]
  /\ Goto(t, "account")
  /\ UNCHANGED <<mapVars, wearVars, logIndex, data, content, ops, argVars,
                 readVars, swapVars, held>>

\* The wear counts; A's is the one its writer saw, plus the increase.
Account(t) ==
  LET A == blockA[t]
      B == blockB[t]
      C == blockC[t]
      fast == C = invalid_block
      worn == Charge(wcA[t], inc[t])
      coldB == Charge(wear[B], 1)
      coldC == IF fast THEN 0 ELSE Charge(wear[C], 1)
  IN
  /\ At(t, "account")
  /\ wcA' = [wcA EXCEPT ![t] = worn]
  /\ wcB' = [wcB EXCEPT ![t] = coldB]
  /\ wcC' = [wcC EXCEPT ![t] = coldC]
  /\ wear' = IF fast THEN [wear EXCEPT ![A] = worn, ![B] = coldB]
                     ELSE [wear EXCEPT ![A] = worn, ![B] = coldB, ![C] = coldC]
  /\ Goto(t, "putA")
  /\ UNCHANGED <<mapVars, threshold, nvmThreshold, coldVars, logVars, data,
                 content, ops, argVars, readVars, thr, blockA, blockB, blockC,
                 todo, cand, info, slot, held>>

\* A goes to the free lists, the blocks that got its and B's data to the busy.
PutA(t) ==
  /\ At(t, "putA")
  /\ BlockColdnessManagerPut(t, blockA[t], wcA[t], FALSE, "putB")
PutB(t) ==
  /\ At(t, "putB")
  /\ BlockColdnessManagerPut(t, blockB[t], wcB[t], TRUE,
       IF blockC[t] = invalid_block THEN "unlockswap" ELSE "putC")
PutC(t) ==
  /\ At(t, "putC")
  /\ BlockColdnessManagerPut(t, blockC[t], wcC[t], TRUE, "unlockswap")

\* Mutant: BlockSwapFastUnlock and BlockSwapSlowUnlock forget an entry.
UnlockSwapOnce(t, l) ==
  /\ At(t, "unlockswap")
  /\ l \in held[t]
  /\ lock' = [lock EXCEPT ![l] = Bump(@)]
  /\ held' = [held EXCEPT ![t] = {}]
  /\ Goto(t, "idle")
  /\ UNCHANGED <<physBlockIndex, busy, fineGrain, unmap, wearVars, logVars,
                 data, content, ops, argVars, readVars, swapVars>>

\* BlockSwapFastUnlock / BlockSwapSlowUnlock, one entry after the other.
UnlockSwap(t, l) ==
  /\ At(t, "unlockswap")
  /\ l \in held[t]
  /\ lock' = [lock EXCEPT ![l] = Bump(@)]
  /\ held' = [held EXCEPT ![t] = @ \ {l}]
  /\ Goto(t, IF held[t] = {l} THEN "idle" ELSE "unlockswap")
  /\ UNCHANGED <<physBlockIndex, busy, fineGrain, unmap, wearVars, logVars,
                 data, content, ops, argVars, readVars, swapVars>>

-----------------------------------------------------------------------------
Start(t) ==
  \E l \in Blocks :
    \/ \E v \in Values, n \in Increases : BeginWrite(t, l, v, n)
    \/ \E k \in Ops : BeginOther(t, k, l)

Read(t) ==
  \/ MapTableLockBlockForRead(t)
  \/ ReadQuery(t)
  \/ ReadHalf(t)
  \/ MapTableUnlockBlockForRead(t)

Update(t) ==
  \/ MapTableLockBlockForWrite(t)
  \/ WriteHalf(t)
  \/ TrimRead(t)
  \/ TrimRemove(t)
  \/ TrimPut(t)
  \/ Split(t)
  \/ \E n \in MergeWear : Merge(t, n)
  \/ MapTableUnlockBlockForWrite(t)

IncreaseBlockWearCount(t) ==
  \/ ReadThreshold(t)
  \/ ReadWear(t)
  \/ ChargeWear(t)
  \/ RemoveHot(t)
  \/ \E b \in MaybeBlock : GetFree(t, b) \/ GetBusy(t, b) \/ GetWorn(t, b)
  \/ PutBack(t)
  \/ RaiseThreshold(t)
  \/ PersistThreshold(t)

BlockSwap(t) ==
  \/ GetUnmap(t)
  \/ LockMap(t)
  \/ LogBegin(t)
  \/ LogType(t)
  \/ CopyBtoC(t)
  \/ CopyAtoB(t)
  \/ SetUnmapA(t)
  \/ SetUnmapB(t)
  \/ SetUnmapC(t)
  \/ MapSwap(t)
  \/ LogBlockSwapEnd(t)
  \/ Account(t)
  \/ PutA(t)
  \/ PutB(t)
  \/ PutC(t)
  \/ \E l \in Blocks : UnlockSwap(t, l)

\* What a thread does once it is inside an operation.
Run(t) ==
  \/ Read(t)
  \/ Update(t)
  \/ IncreaseBlockWearCount(t)
  \/ BlockSwap(t)
  \/ EnterLists(t)
  \/ ListFault(t)

\* No list call has faulted or gone astray.  (A fault stops its thread only;
\* the others then do what they do while that thread is not scheduled.)
Followed == \A t \in Threads : pc[t] # "stray"

Next == Followed /\ \E t \in Threads : Start(t) \/ Run(t)

Spec == Init /\ [][Next]_vars

\* The scheduler lets every thread that is inside an operation go on.
FairSpec == Spec /\ \A t \in Threads : WF_vars(Run(t))

-----------------------------------------------------------------------------
\* Properties.

Labels ==
  {"idle", "oops", "stray", "assert", "rlock", "rquery", "read1", "read2",
   "runlock", "wlock", "body", "body2", "trimdel", "trimput", "unlock",
   "threshold", "wear", "charge", "remove", "getfree", "getbusy", "getworn",
   "putback", "raise", "persist", "getunmap", "lockmap", "logbegin",
   "logtype", "copyC1", "copyC2", "copyB1", "copyB2", "unmapA", "unmapB",
   "unmapC", "mapswap", "logend", "account", "putA", "putB", "putC",
   "unlockswap"}
Stopped == {"oops", "stray", "assert"}

Infos == [A : BlockInfo, B : BlockInfo, C : BlockInfo]
Entries == [type : {0, 1, 2}, step : SUBSET {0, 2, 3}, info : Infos,
            blocks : [A : MaybeBlock, B : MaybeBlock, C : MaybeBlock]]
Halves == [{1, 2} -> Values \cup {Blank}]
WearCounts == 0 .. MAX_WEAR_COUNT - 1

\* Every variable keeps its type: map and unmap tables name real blocks, wear
\* counts and thresholds stay within their UINT32, lists hold real blocks.
TypeOK ==
  /\ physBlockIndex \in [Blocks -> Blocks]
  /\ lock \in [Blocks -> 0 .. LOCK_RANGE - 1]
  /\ busy \in [Blocks -> BOOLEAN]
  /\ fineGrain \in [Blocks -> BOOLEAN]
  /\ unmap \in [Blocks -> [unmapBlock : Blocks, fineGrain : BOOLEAN]]
  /\ data \in [Blocks -> Halves]
  /\ wear \in [Blocks -> WearCounts]
  /\ threshold \in WearCounts
  /\ nvmThreshold \in WearCounts
  /\ heads \in [Lists -> Seq(Blocks)]
  /\ listing \in SUBSET Threads
  /\ mixed \in BOOLEAN
  /\ log \in [Slots -> Entries]
  /\ logIndex \in Slots
  /\ content \in [Blocks -> Values \cup {Blank}]
  /\ ops \in 0 .. MaxOps
  /\ pc \in [Threads -> Labels]
  /\ kind \in [Threads -> OpKinds]
  /\ addr \in [Threads -> Blocks]
  /\ value \in [Threads -> Values \cup {Blank}]
  /\ inc \in [Threads -> Nat]
  /\ seq \in [Threads -> 0 .. LOCK_RANGE - 1]
  /\ query \in [Threads -> Blocks]
  /\ buf \in [Threads -> Halves]
  /\ thr \in [Threads -> WearCounts]
  /\ wcA \in [Threads -> WearCounts]
  /\ wcB \in [Threads -> WearCounts]
  /\ wcC \in [Threads -> WearCounts]
  /\ blockA \in [Threads -> Blocks]
  /\ blockB \in [Threads -> MaybeBlock]
  /\ blockC \in [Threads -> MaybeBlock]
  /\ todo \in [Threads -> SUBSET Roles]
  /\ cand \in [Threads -> Blocks]
  /\ held \in [Threads -> SUBSET Blocks]
  /\ info \in [Threads -> Infos]
  /\ slot \in [Threads -> Slots]

\* A map entry's lock value is odd exactly while one thread, and only one,
\* is between MapTableBlockWriteLock and MapTableBlockWriteUnlock of it.
WriteLockExclusive ==
  /\ \A l \in Blocks : Locked(l) <=> \E t \in Threads : l \in held[t]
  /\ \A t, u \in Threads : t # u => held[t] \cap held[u] = {}

\* Whatever swaps, splits and merges have run, an unlocked logical block and
\* the physical block it maps to name each other, and MapTable and
\* BlockUnmapTable agree whether it is split: the volatile map can be rebuilt
\* from the unmap table on NVM.
UnmapInverse ==
  \A l \in Blocks : ~Locked(l) =>
     unmap[physBlockIndex[l]] = [unmapBlock |-> l, fineGrain |-> fineGrain[l]]

\* BlockManagerRead returns, in both halves, what the physical block mapped
\* at the moment of return holds: never a half-written block, never a block
\* that a concurrent swap has already given to another logical block.
ReadReturns(t) == pc[t] = "runlock" /\ pc'[t] = "idle"
ReadAtomic ==
  [][\A t \in Threads : ReadReturns(t) =>
        /\ buf[t] = data[physBlockIndex[addr[t]]]
        /\ buf[t][1] = buf[t][2]]_vars

\* Phases of a swap: taking locks; from the first log write to the wear
\* counts; with infoA/B/C valid and the map table untouched; with the unmap
\* table ahead of the map table.
Locking == {"getunmap", "lockmap"}
Swapping == {"logbegin", "logtype", "copyC1", "copyC2", "copyB1", "copyB2",
             "unmapA", "unmapB", "unmapC", "mapswap", "logend", "account"}
Logged == Swapping \ {"logbegin", "logend", "account"}
Halfway == {"unmapB", "unmapC", "mapswap"}

\* Physical blocks a thread has unlinked from the coldness lists.
InHand(t) ==
  CASE pc[t] \in {"trimput", "getfree", "getbusy", "putback"} -> {blockA[t]}
    [] pc[t] \in {"getworn", "assert"} -> {blockA[t], blockB[t]}
    [] pc[t] \in Locking \cup Swapping \cup {"putA"} -> SwapBlocks(t)
    [] pc[t] = "putB" -> SwapBlocks(t) \ {blockA[t]}
    [] pc[t] = "putC" -> {blockC[t]}
    [] OTHER -> {}
ListedOnce(h) ==
  \A x, y \in Lists : \A m \in DOMAIN h[x], n \in DOMAIN h[y] :
     h[x][m] = h[y][n] => x = y /\ m = n

\* As long as no two calls on the coldness lists have overlapped, whatever
\* else the threads do at once: a physical block is on exactly one list,
\* once, or in the hands of exactly one thread, once.  Two swaps never work
\* on the same block, and no block is lost to the wear leveler.
ColdnessOwned ==
  ~mixed =>
    /\ ListedOnce(heads)
    /\ \A t, u \in Threads : t # u => InHand(t) \cap InHand(u) = {}
    /\ \A b \in Blocks :
         OnList(heads, b) <=> \A t \in Threads : b \notin InHand(t)
    /\ \A t \in Threads : pc[t] \in {"getworn", "assert"} \cup Locking =>
         \A q, r \in SwapRoles(t) : Part(t, q) = Part(t, r) => q = r

\* As long as no two calls on the coldness lists have overlapped, LockOneBlock
\* never has to retry: the unmap entry it read still holds when it gets the
\* lock, because the swapper took the block off the lists first.  Without
\* that ownership, MapTableLockBlockForSwap has to turn it away.
LockOneBlockDirect ==
  \A t \in Threads : pc[t] = "lockmap" =>
    mixed \/ physBlockIndex[cand[t]] = Wanted(t)

\* Also when two swappers were given the same block by mixed lists, the
\* order of SortBlocks holds: a swapper that waits for an entry another
\* swapper has locked wants a block below the one which that other waits for,
\* so no circle of swappers waits for itself.  Two waits are excepted, and
\* only mixed lists lead to them: for an entry that has moved since
\* LockOneBlock read it, and for an entry the thread has locked itself.
LocksAscend ==
  \A t, u \in Threads :
    /\ pc[t] = "lockmap" /\ physBlockIndex[cand[t]] = Wanted(t)
    /\ pc[u] = "lockmap" /\ cand[u] \notin held[u]
    /\ physBlockIndex[cand[u]] = Wanted(u)
    /\ cand[t] \in held[u]
    => Wanted(t) < Wanted(u)

\* The inductive invariant behind WriteLockExclusive, UnmapInverse,
\* ColdnessOwned and LocksAscend.
SingleLock == {"body", "body2", "trimdel", "trimput", "unlock"}
Putting == {"putA", "putB", "putC"}

\* The blocks of a swap are real, and different once they are locked.
BlocksChosen(t) ==
  /\ pc[t] \in {"getworn", "assert"} \cup Locking \cup Swapping \cup Putting
       => blockB[t] \in Blocks
  /\ pc[t] \in {"copyC1", "copyC2", "unmapC", "putC"} =>
        blockC[t] # invalid_block
  /\ pc[t] \in {"getbusy", "getworn"} => blockC[t] = invalid_block
  /\ pc[t] \in Locking => todo[t] # {} /\ todo[t] \subseteq SwapRoles(t)
  /\ pc[t] \in Swapping \cup Putting => todo[t] = {}
  /\ pc[t] \in Locking \cup Swapping \cup Putting =>
        \A q, r \in SwapRoles(t) \ todo[t] : Part(t, q) = Part(t, r) => q = r
  /\ pc[t] \in Locking =>
        \A q \in SwapRoles(t) \ todo[t], r \in todo[t] :
           Part(t, q) <= Part(t, r)

\* Where a thread holds which locks.
LocksHeld(t) ==
  /\ pc[t] \in SingleLock => held[t] = {addr[t]}
  /\ pc[t] \notin SingleLock \cup Locking \cup Swapping \cup Putting
               \cup {"unlockswap", "oops", "stray"} => held[t] = {}
  /\ pc[t] \in Locking =>
        \A l \in held[t] : \E r \in SwapRoles(t) \ todo[t] :
           physBlockIndex[l] = Part(t, r)

\* Logical block l is locked by t for its physical block p, and i names it.
Pinned(t, p, i) ==
  /\ i.unmapBlock \in held[t]
  /\ physBlockIndex[i.unmapBlock] = p
  /\ i.fineGrain = fineGrain[i.unmapBlock]

\* What a swap knows of the blocks it has locked.
SwapPinned(t) ==
  /\ pc[t] \in Locking \cup {"logbegin"} =>
        \A r \in SwapRoles(t) \ todo[t] :
           Pinned(t, Part(t, r), unmap[Part(t, r)])
  /\ pc[t] \in Logged =>
        /\ Pinned(t, blockA[t], info[t].A)
        /\ Pinned(t, blockB[t], info[t].B)
        /\ blockC[t] # invalid_block => Pinned(t, blockC[t], info[t].C)
  /\ pc[t] \in Halfway =>
        unmap[blockA[t]] = IF blockC[t] = invalid_block THEN info[t].B
                                                        ELSE info[t].C
  /\ pc[t] \in {"unmapC", "mapswap"} => unmap[blockB[t]] = info[t].A
  /\ pc[t] = "mapswap" /\ blockC[t] # invalid_block =>
        unmap[blockC[t]] = info[t].B

\* Map and unmap tables are inverse wherever no swap is halfway.
TablesAgree ==
  /\ \A l, m \in Blocks : physBlockIndex[l] = physBlockIndex[m] => l = m
  /\ \A l \in Blocks :
       (\A t \in Threads :
          pc[t] \in Halfway => physBlockIndex[l] \notin SwapBlocks(t)) =>
          unmap[physBlockIndex[l]] =
            [unmapBlock |-> l, fineGrain |-> fineGrain[l]]

BlockInv ==
  /\ TypeOK
  /\ WriteLockExclusive
  /\ ColdnessOwned
  /\ TablesAgree
  /\ \A t \in Threads : BlocksChosen(t) /\ LocksHeld(t) /\ SwapPinned(t)

\* Every operation that started ends, unless a fault or the ASSERT stopped a
\* thread, perhaps with a lock, or two list calls overlapped: no lock stays
\* locked, none is waited for in a circle, no read or LockOneBlock retries for
\* ever.
OperationsEnd ==
  \A t \in Threads :
    (pc[t] # "idle") ~>
       (pc[t] = "idle" \/ mixed \/ \E u \in Threads : pc[u] \in Stopped)

\* Redoing the armed entry e by its step marks, as BlockSwapLog.c:20-25
\* intends ("redo the swaps that did not finish").
RedoUnmap(e) ==
  IF e.type = 1
  THEN [unmap EXCEPT ![e.blocks.A] = e.info.B, ![e.blocks.B] = e.info.A]
  ELSE [unmap EXCEPT ![e.blocks.A] = e.info.C, ![e.blocks.B] = e.info.A,
                     ![e.blocks.C] = e.info.B]
RedoData(e) ==
  LET A == e.blocks.A
      B == e.blocks.B
      C == e.blocks.C
  IN CASE e.type = 1 /\ 2 \notin e.step -> [data EXCEPT ![B] = data[A]]
       [] e.type = 2 /\ 2 \notin e.step -> [data EXCEPT ![C] = data[B],
                                                        ![B] = data[A]]
       [] e.type = 2 /\ 2 \in e.step /\ 3 \notin e.step ->
                                           [data EXCEPT ![B] = data[A]]
       [] OTHER -> data
RedoState(e) == <<RedoUnmap(e), RedoData(e)>>

\* From the moment a block swap arms its log entry to the moment it clears
\* it, every crash point redoes to one and the same state, and that is the
\* state the swap itself ends in (one thread in the wear leveler).
SwapRedoable ==
  [][\A i \in Slots : log[i].type # 0 =>
        IF log'[i].type # 0 THEN RedoState(log[i])' = RedoState(log[i])
                            ELSE <<unmap, data>>' = RedoState(log[i])]_vars

\* While only one logical block was ever written, reading it gives what was
\* last written, however often its data moved to a colder block.
HotBlockKeepsData ==
  [][\A t \in Threads :
       ReadReturns(t) /\ {l \in Blocks : content[l] # Blank} = {addr[t]}
         => \A half \in {1, 2} : buf[t][half] = content[addr[t]]]_vars

\* READ_AND_EXPECT of WearLevelerTest test3: a logical block reads back what
\* was last written to it.
WrittenDataReadsBack ==
  [][\A t \in Threads : ReadReturns(t) /\ content[addr[t]] # Blank
         => \A half \in {1, 2} : buf[t][half] = content[addr[t]]]_vars
=============================================================================
