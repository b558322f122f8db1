---- MODULE MCUnpfs ----
(* Model checking of the name space of unpfs: "/" holds the export. *)
EXTENDS Unpfs

CONSTANTS a, b, i, export, top

TwoNames == {a, b}
HostInos == {top, export, i}
ExportPath == <<a>>
JustTheExport == {[up |-> top, name |-> a, ino |-> export, dir |-> TRUE]}
Symmetry == Permutations(Tasks) \cup Permutations(Fids)

\* No name, one, two, each of the dots before and after a name, and above the export.
Walks == {<<>>, <<a>>, <<b>>, <<a, b>>, <<b, "..">>, <<".", b>>, <<"..", a>>, <<"..", b>>, <<"..", "..">>}
====
