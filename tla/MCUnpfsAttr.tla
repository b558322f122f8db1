---- MODULE MCUnpfsAttr ----
(* Model checking of rsetattr. *)
EXTENDS UnpfsAttr, TLC

Symmetry == Permutations(Requests)

\* Every mask of at most two bits, and all bits.
SomeMasks == {valid \in SUBSET Bits : Cardinality(valid) <= 2} \cup {Bits}
====
