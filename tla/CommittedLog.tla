---------------------------- MODULE CommittedLog ----------------------------
(***************************************************************************)
(* What the log of an inode promises: it exists or not, and while it       *)
(* exists it only grows, by one whole entry at a time.  A crash is no step *)
(* of its own: it changes nothing that was committed.  The promise is void *)
(* once the log is written to after a write that failed.                   *)
(***************************************************************************)
EXTENDS Naturals, SequencesExt

CONSTANT Entries

VARIABLES live, entries, void

Init == live = FALSE /\ entries = << >> /\ void = FALSE

Create == ~live /\ live' = TRUE /\ entries' = << >>

Commit ==
  /\ live
  /\ Len(entries') = Len(entries) + 1
  /\ IsPrefix(entries, entries')
  /\ Last(entries') \in Entries
  /\ UNCHANGED live

Destroy == live /\ live' = FALSE /\ entries' = << >>

Next ==
  \/ void' = TRUE
  \/ UNCHANGED void /\ (Create \/ Commit \/ Destroy)

Spec == Init /\ [][Next]_<<live, entries, void>>
=============================================================================
