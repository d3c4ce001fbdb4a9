----------------------------- MODULE MCFileData -----------------------------
(* Instances of FileData for TLC. *)
EXTENDS FileData

\* Four pages in the first two blocks; two free runs of blocks with a block
\* of somebody else's between them, so that a large write may get two extents.
MCPagePool == 0 .. 3
MCBlockPool == {Extent(2, 4), Extent(5, 6)}
=============================================================================
