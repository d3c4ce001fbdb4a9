----------------------------- MODULE MCBlockPool -----------------------------
(***************************************************************************)
(* The block pool on six blocks with a cache of three.                     *)
(***************************************************************************)
EXTENDS BlockPool

\* The check stops at the bound on operations, not in a deadlock of the code.
Done == ops = MaxOps /\ Running /\ UNCHANGED vars
MCSpec == Init /\ [][Next \/ Done]_vars
=============================================================================
