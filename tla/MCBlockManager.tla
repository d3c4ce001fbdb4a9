--------------------------- MODULE MCBlockManager ---------------------------
(***************************************************************************)
(* BlockManager on small instances.  A behaviour ends when every thread    *)
(* has stopped, or is idle with the bound on started operations used up;   *)
(* Rest makes that end a stuttering step, so that TLC's deadlock check     *)
(* reports only threads that wait for each other.                          *)
(***************************************************************************)
EXTENDS BlockManager, TLC

Rest ==
  /\ \A t \in Threads :
       pc[t] \in Stopped \/ (pc[t] = "idle" /\ ops = MaxOps)
  /\ UNCHANGED vars

MCNext == Next \/ Rest

MCSpec == Init /\ [][MCNext]_vars

\* OperationsEnd promises nothing once the lists are mixed: the fair
\* behaviours in which they never are.
UnmixedSpec ==
  /\ Init
  /\ [][Next /\ ~mixed']_vars
  /\ \A t \in Threads : WF_vars(Run(t))

\* Bound: mixed lists are followed through two operations.
MixedBriefly == mixed => ops <= 2

ThreadSymmetry == Permutations(Threads)
=============================================================================
