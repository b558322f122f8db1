---- MODULE MCSession ----
(* Model checking of one connection. *)
EXTENDS SessionProps, TLC

TagSymmetry == Permutations(Tags)
FidSymmetry == Permutations(Fids)
Symmetry == TagSymmetry \cup FidSymmetry

CoreTypes == {"TAttach", "TWalk", "TRead", "TClunk"}
NoWalk == CoreTypes \ {"TWalk"}
AllKinds == CoreTypes \cup {"TRenameAt", "TVersion", "RMessage"}
NoReplyLost == {"ok", "err"}
AnyOutcome == AllOutcomes
ReturnsOrPanics == {"ok", "panic"}
NoAwaits == {}
ReadAwaitsWrite == {<<"TRead", "TWrite">>}
PipeTypes == {"TAttach", "TRead", "TWrite"}
====
