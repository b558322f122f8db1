---- MODULE MCUnpfsFile ----
(* Model checking of reads, writes and fsyncs of one file. *)
EXTENDS UnpfsFile

TwoBlocks == {0, 1}
Symmetry == Permutations(Fids) \cup Permutations(Tasks)
====
