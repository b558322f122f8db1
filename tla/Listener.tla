---- MODULE Listener ----
(***************************************************************************)
(* srv_async with srv_async_tcp and srv_async_unix (9P over TCP or a       *)
(* Unix socket, src/crates/rs9p/src/srv.rs:790-885): servers started one   *)
(* after the other or at once on one address, each with its accept loop    *)
(* and a dispatch per connection, as the processes unpfs makes of them     *)
(* (src/crates/unpfs/src/main.rs:443-480).                                 *)
(*                                                                         *)
(* A server here is one process, from its start to its exit; a restart is  *)
(* another server.                                                         *)
(***************************************************************************)
EXTENDS Naturals, FiniteSets

CONSTANTS
  Servers,    \* processes started on the address
  Conns,      \* connections, each made once
  NoServer    \* the socket file is not there

ASSUME ListenerAssumption == NoServer \notin Servers

VARIABLES
  proto,     \* the protocol of the address
  srv,       \* srv[p]: where process p is
  file,      \* the server whose listener the socket file belongs to
  conn,      \* conn[c]: the server of connection c and how far it is
  killed,    \* history: the processes that were killed
  refused,   \* history: the servers whose accept has failed
  kept,      \* history: the servers that could not remove the file
  meddled    \* history: was the file of a live listener removed?
vars == <<proto, srv, file, conn, killed, refused, kept, meddled>>

History == <<killed, refused, kept, meddled>>

Unmade == [at |-> NoServer, st |-> "none"]

Init ==
  /\ proto \in {"tcp", "unix", "other"}
  /\ srv = [p \in Servers |-> "none"]
  /\ file = NoServer
  /\ conn = [c \in Conns |-> Unmade]
  /\ killed = {} /\ refused = {} /\ kept = {} /\ meddled = FALSE

-----------------------------------------------------------------------------
\* A listener exists until it is dropped; connections outlive it.
Listening(p) == srv[p] \in {"serving", "closing"}
Alive(p) == srv[p] \in {"serving", "closing", "returned"}
At(c, p, st) == conn[c] = [at |-> p, st |-> st]

\* What is left of the connections of p in these stages when p drops them.
Lost(p, stages) ==
  [c \in Conns |-> IF conn[c].at = p /\ conn[c].st \in stages THEN [conn[c] EXCEPT !.st = "lost"] ELSE conn[c]]

\* Mutant: a file that is there is removed first.
TakesAddressOver(p) == proto # "other"
\* bind: a Unix listener makes its file, a stale one stands in its way too;
\* an address of TCP is free when nobody listens.  A bind that fails makes no file.
TakesAddress(p) ==
  \/ proto = "unix" /\ file = NoServer
  \/ proto = "tcp" /\ \A q \in Servers : ~Listening(q)

\* Mutant: a listener of TCP has a file too.
bind_with_file(p) ==
  /\ srv[p] = "none" /\ TakesAddress(p)
  /\ srv' = [srv EXCEPT ![p] = "serving"]
  /\ file' = p
  /\ UNCHANGED <<proto, conn, History>>
bind(p) ==
  /\ srv[p] = "none" /\ TakesAddress(p)
  /\ srv' = [srv EXCEPT ![p] = "serving"]
  /\ file' = IF proto = "unix" THEN p ELSE file
  /\ UNCHANGED <<proto, conn, History>>

\* No directory to export, a protocol not supported, an address taken: the
\* process ends, and a file that is there stays.
start_fails(p) ==
  /\ srv[p] = "none"
  /\ srv' = [srv EXCEPT ![p] = "ended"]
  /\ UNCHANGED <<proto, file, conn, History>>

\* Mutant: dispatch is awaited in the loop.
accept_inline(p) ==
  /\ srv[p] = "serving" /\ \A c \in Conns : ~At(c, p, "open")
  /\ \E c \in Conns : At(c, p, "queued") /\ conn' = [conn EXCEPT ![c].st = "open"]
  /\ UNCHANGED <<proto, srv, file, History>>
accept(p) ==
  /\ srv[p] = "serving"
  /\ \E c \in Conns : At(c, p, "queued") /\ conn' = [conn EXCEPT ![c].st = "open"]
  /\ UNCHANGED <<proto, srv, file, History>>

\* An error of accept: TCP drops the listener on the spot and returns it,
\* Unix leaves the loop and says that all went well.
accept_fails(p) ==
  /\ srv[p] = "serving"
  /\ refused' = refused \cup {p}
  /\ IF proto = "tcp"
     THEN srv' = [srv EXCEPT ![p] = "returned"] /\ conn' = Lost(p, {"queued"})
     ELSE srv' = [srv EXCEPT ![p] = "closing"] /\ UNCHANGED conn
  /\ UNCHANGED <<proto, file, killed, kept, meddled>>

\* Mutant: the file is left.
drop_keeps(p) ==
  /\ srv[p] = "closing"
  /\ srv' = [srv EXCEPT ![p] = "returned"]
  /\ conn' = Lost(p, {"queued"})
  /\ UNCHANGED <<proto, file, History>>
\* DeleteOnDrop::drop, then the listener: the file goes, whoever made it, or
\* stays with a warning when remove_file fails.
drop(p) ==
  /\ srv[p] = "closing"
  /\ srv' = [srv EXCEPT ![p] = "returned"]
  /\ \/ file' = NoServer /\ UNCHANGED kept
     \/ file # NoServer /\ kept' = kept \cup {p} /\ UNCHANGED file
  /\ conn' = Lost(p, {"queued"})
  /\ UNCHANGED <<proto, killed, refused, meddled>>

\* Mutant: the error of a dispatch ends the loop.
dispatch_ends_loop(c) ==
  /\ conn[c].st = "open"
  /\ conn' = [conn EXCEPT ![c].st = "closed"]
  /\ srv' = [srv EXCEPT ![conn[c].at] = IF @ = "serving" THEN "closing" ELSE @]
  /\ UNCHANGED <<proto, file, History>>
\* The client hangs up, or its messages do not decode.
dispatch_ends(c) ==
  /\ conn[c].st = "open"
  /\ conn' = [conn EXCEPT ![c].st = "closed"]
  /\ UNCHANGED <<proto, srv, file, History>>

\* std::process::exit, with the tasks that are running.
exit(p) ==
  /\ srv[p] = "returned"
  /\ srv' = [srv EXCEPT ![p] = "ended"]
  /\ conn' = Lost(p, {"open"})
  /\ UNCHANGED <<proto, file, History>>

-----------------------------------------------------------------------------
\* Outside of the program: a kill, an operator who clears the socket file
\* away, a client.
Kill(p) ==
  /\ Alive(p)
  /\ srv' = [srv EXCEPT ![p] = "ended"] /\ killed' = killed \cup {p}
  /\ conn' = Lost(p, {"queued", "open"})
  /\ UNCHANGED <<proto, file, refused, kept, meddled>>

RemoveFile ==
  /\ file # NoServer
  /\ meddled' = (meddled \/ Listening(file))
  /\ file' = NoServer
  /\ UNCHANGED <<proto, srv, conn, killed, refused, kept>>

Reaches(p) == Listening(p) /\ (proto = "unix" => file = p)
Connect(c) ==
  /\ conn[c] = Unmade
  /\ \E p \in Servers : Reaches(p) /\ conn' = [conn EXCEPT ![c] = [at |-> p, st |-> "queued"]]
  /\ UNCHANGED <<proto, srv, file, History>>

Finished == (\A p \in Servers : ~Alive(p) /\ srv[p] # "none") /\ UNCHANGED vars

Next ==
  \/ \E p \in Servers : bind(p) \/ start_fails(p) \/ accept(p) \/ accept_fails(p) \/ drop(p) \/ exit(p) \/ Kill(p)
  \/ \E c \in Conns : dispatch_ends(c) \/ Connect(c)
  \/ RemoveFile \/ Finished

Spec == Init /\ [][Next]_vars

\* A task that can go on does.
FairSpec == Spec /\ \A p \in Servers : WF_vars(accept(p)) /\ WF_vars(drop(p))

-----------------------------------------------------------------------------
(* The state keeps its type. *)
TypeOK ==
  /\ proto \in {"tcp", "unix", "other"}
  /\ file \in (IF proto = "unix" THEN Servers ELSE {}) \cup {NoServer}
  /\ srv \in [Servers -> {"none", "serving", "closing", "returned", "ended"}]
  /\ conn \in [Conns -> [at : Servers \cup {NoServer}, st : {"none", "queued", "open", "closed", "lost"}]]

(* A Unix server that serves can be reached: its file is there and its own *)
(* (srv.rs:818-821, 837-847), whatever servers fail to start, end or are   *)
(* killed around it, as long as nobody removes the file of a live one.     *)
ServingIsReached ==
  proto = "unix" /\ ~meddled => \A p \in Servers : srv[p] = "serving" => Reaches(p)

(* A socket file without a listener, which stops every later server from   *)
(* binding, was left by its own server (srv.rs:818-821, 837-847): killed   *)
(* before its drop, or not able to remove it, for which drop only warns.   *)
(* No server that failed to start, and no other that returns, leaves one.  *)
StaleIsDue == file # NoServer /\ ~Listening(file) => file \in killed \cup kept

(* A connection is lost only with its server (srv.rs:798-808, 853-864): by *)
(* a kill, or after an accept that failed.  How the other connections of   *)
(* the server end does not matter.                                         *)
LostWithServer ==
  \A c \in Conns : conn[c].st = "lost" => conn[c].at \in killed \cup refused

(* A connection that is waiting is accepted, or lost with its server, no   *)
(* matter how long those accepted before it last (srv.rs:799-807).         *)
QueuedIsServed == \A c \in Conns : conn[c].st = "queued" ~> conn[c].st # "queued"
====
