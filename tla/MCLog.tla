------------------------------- MODULE MCLog --------------------------------
(***************************************************************************)
(* Log on small instances.  A behaviour ends when its operations are used  *)
(* up or when an address went wild; Rest makes that end a stuttering step. *)
(***************************************************************************)
EXTENDS Log, TLC

Rest ==
  /\ pc = "wild" \/ (pc \in {"idle", "none"} /\ ops = MaxOps)
  /\ UNCHANGED vars

MCNext == Next \/ Rest

MCSpec == Init /\ [][MCNext]_vars

PageSymmetry == Permutations(Pages)
=============================================================================
