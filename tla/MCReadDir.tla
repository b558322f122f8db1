---- MODULE MCReadDir ----
(* Model checking of a scan of a directory. *)
EXTENDS ReadDir

\* A long name between short ones: what follows would fit where it does not.
ShortAndLong == [e \in Entries |-> IF e = 2 THEN 40 ELSE 1]
\* No room for an entry, for one, for the dots with a short one or a long one, for all.
AllCounts == {20, 64, 80, 200}
====
