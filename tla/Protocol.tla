---- MODULE Protocol ----
(***************************************************************************)
(* The requests of 9P2000.L as the dispatcher sees them: the fids a        *)
(* message looks up, the fid it makes and the fid it clunks.  Everything   *)
(* else in a message only the method of the Filesystem looks at.           *)
(***************************************************************************)
CONSTANTS
  Fids,     \* fid numbers a client uses
  Types     \* message types the client sends

(* The match of dispatch_once: which fids each message type looks up.      *)

OneFid == {"TStatFs", "TlOpen", "TlCreate", "TSymlink", "TMkNod", "TReadLink",
           "TGetAttr", "TSetAttr", "TxAttrCreate", "TReadDir", "TFSync",
           "TLock", "TGetLock", "TMkDir", "TUnlinkAt", "TRead", "TWrite",
           "TClunk", "TRemove"}
TwoFids == {"TRename", "TLink", "TRenameAt"}
Walks == {"TxAttrWalk", "TWalk"}
Attaches == {"TAuth", "TAttach"}
NoFid == {"TVersion", "TFlush"}
Unsupported == {"RMessage"}     \* the `_` arm: a message no client should send

ASSUME TypesAssumption ==
  Types \subseteq OneFid \cup TwoFids \cup Walks \cup Attaches \cup NoFid \cup Unsupported

Message(typ, uses, makes) == [typ |-> typ, uses |-> uses, makes |-> makes]
NoMessage == Message("none", {}, {})

Messages ==
  {Message(t, {f}, {}) : t \in Types \cap OneFid, f \in Fids}
    \cup {Message(t, {f, g}, {}) : t \in Types \cap TwoFids, f \in Fids, g \in Fids}
    \cup {Message(t, {f}, {n}) : t \in Types \cap Walks, f \in Fids, n \in Fids}
    \cup {Message(t, {}, {n}) : t \in Types \cap Attaches, n \in Fids}
    \cup {Message(t, {}, {}) : t \in Types \cap (NoFid \cup Unsupported)}

\* The fids a request takes out of the table when it succeeds.
Drops(m) == IF m.typ = "TClunk" THEN m.uses ELSE {}
Changes(m) == Drops(m) \cup m.makes
Touches(m) == m.uses \cup m.makes
\* What a successful request makes of a set of fids.
Effect(m, table) == (table \ Drops(m)) \cup m.makes
\* A request that takes effect on this set of fids, should its method succeed.
Valid(m, table) == m.typ \notin Unsupported /\ m.uses \subseteq table
====
