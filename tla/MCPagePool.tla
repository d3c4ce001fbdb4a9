----------------------------- MODULE MCPagePool -----------------------------
(***************************************************************************)
(* PagePool on small instances; Rest is the end of a bounded behaviour.    *)
(***************************************************************************)
EXTENDS PagePool, TLC

Rest == Quiet /\ ops = MaxOps /\ UNCHANGED vars

MCNext == Next \/ Rest

MCSpec == Init /\ [][MCNext]_vars

Symmetry == Permutations(Threads) \cup Permutations(Blocks)
=============================================================================
