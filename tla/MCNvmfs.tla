------------------------------- MODULE MCNvmfs -------------------------------
(* Instances of Nvmfs for TLC. *)
EXTENDS Nvmfs

CONSTANTS p1, p2, p3, p4, a, b
MCPages == {p1, p2, p3, p4}
MCNames == {a, b}
Symmetry == Permutations(MCPages) \cup Permutations(MCNames)
=============================================================================
