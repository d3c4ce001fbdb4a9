---------------------------- MODULE MCPageManager ----------------------------
(* Instances of PageManager for TLC, with the layout of the 1G NVM that   *)
(* FsConfig.h sets up.                                                     *)
EXTENDS PageManager, Layouter, TLC

CONSTANTS t1, t2
MCThreads == {t1, t2}
Symmetry == Permutations(MCThreads)

\* The end of a bounded behaviour: nobody is underway but threads that faulted,
\* so that a deadlock is a wait for a lock. Once a split has formatted the unmap
\* entries of another block, LockOnePage may retry for ever (PageManager.c:63), and
\* nothing is followed once a lock has been taken back.
Finished ==
  /\ \/ mover.pc = "idle" /\ \A t \in Threads : th[t].pc \in {"idle", "fault"}
     \/ "misformatted" \in mishaps \/ Undone
  /\ UNCHANGED vars

\* What follows a lost write is followed as long as a call is left.
LostBriefly == Lost => ops < MaxOps /\ "misformatted" \notin mishaps

\* With all calls and block swaps begun, the last swap is followed until it has
\* looked at every page.
LastSwap == ops = MaxOps /\ moves = MaxMoves => mover.pc = "wait"
MCSpec == Init /\ [][Next \/ Finished]_vars
=============================================================================
