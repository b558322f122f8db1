---- MODULE ListenerProofs ----
(***************************************************************************)
(* Proofs about the listeners, for any number of servers and connections.  *)
(***************************************************************************)
EXTENDS Listener, TLAPS

(* The state keeps its type (srv.rs:790-885). *)
LEMMA TypeStep == TypeOK /\ [Next]_vars => TypeOK'
<1> SUFFICES ASSUME TypeOK, [Next]_vars
             PROVE  TypeOK'
  OBVIOUS
<1> USE DEF TypeOK, History
<1>1. ASSUME NEW p \in Servers, bind(p) \/ start_fails(p)
      PROVE  TypeOK'
  BY <1>1 DEF bind, start_fails, TakesAddress
<1>2. ASSUME NEW p \in Servers, accept(p) \/ accept_fails(p)
      PROVE  TypeOK'
  BY <1>2 DEF accept, accept_fails, Lost
<1>3. ASSUME NEW p \in Servers, drop(p) \/ exit(p) \/ Kill(p)
      PROVE  TypeOK'
  BY <1>3 DEF drop, exit, Kill, Lost
<1>4. ASSUME NEW c \in Conns, dispatch_ends(c) \/ Connect(c)
      PROVE  TypeOK'
  BY <1>4 DEF dispatch_ends, Connect
<1>5. CASE RemoveFile
  BY <1>5 DEF RemoveFile
<1>6. CASE UNCHANGED vars
  BY <1>6 DEF vars
<1>7. QED
  BY <1>1, <1>2, <1>3, <1>4, <1>5, <1>6 DEF Next, Finished

(* The state keeps its type, for any number of servers and connections.    *)
THEOREM Typing == Spec => []TypeOK
<1>1. Init => TypeOK
  BY DEF Init, TypeOK, Unmade
<1>2. QED
  BY <1>1, TypeStep, PTL DEF Spec

-----------------------------------------------------------------------------
(* The socket file.                                                        *)

\* Why a server that returns may remove what it finds at its path: while
\* nobody meddles, the listener there is at the path is its own.
OwnFile ==
  proto = "unix" /\ ~meddled => \A p \in Servers : Listening(p) => file = p

FileInv == TypeOK /\ OwnFile /\ StaleIsDue

(* Only bind gives the file to a server, and only when there is none; only *)
(* the owner of the file, and an operator, take it away.                   *)
LEMMA FileStep == FileInv /\ [Next]_vars => FileInv'
<1> SUFFICES ASSUME FileInv, [Next]_vars
             PROVE  OwnFile' /\ StaleIsDue'
  BY TypeStep DEF FileInv
<1> USE ListenerAssumption DEF FileInv, TypeOK, OwnFile, StaleIsDue, Listening, History
<1>1. ASSUME NEW p \in Servers, bind(p)
      PROVE  OwnFile' /\ StaleIsDue'
  BY <1>1 DEF bind, TakesAddress
<1>2. ASSUME NEW p \in Servers, start_fails(p) \/ accept(p) \/ accept_fails(p)
      PROVE  OwnFile' /\ StaleIsDue'
  BY <1>2 DEF start_fails, accept, accept_fails
<1>3. ASSUME NEW p \in Servers, drop(p)
      PROVE  OwnFile' /\ StaleIsDue'
  BY <1>3 DEF drop
<1>4. ASSUME NEW p \in Servers, exit(p) \/ Kill(p)
      PROVE  OwnFile' /\ StaleIsDue'
  BY <1>4 DEF exit, Kill, Alive
<1>5. ASSUME NEW c \in Conns, dispatch_ends(c) \/ Connect(c)
      PROVE  OwnFile' /\ StaleIsDue'
  BY <1>5 DEF dispatch_ends, Connect
<1>6. CASE RemoveFile
  BY <1>6 DEF RemoveFile
<1>7. CASE UNCHANGED vars
  BY <1>7 DEF vars
<1>8. QED
  BY <1>1, <1>2, <1>3, <1>4, <1>5, <1>6, <1>7 DEF Next, Finished

LEMMA FileInvariant == Spec => []FileInv
<1>1. Init => FileInv
  BY DEF Init, FileInv, TypeOK, OwnFile, StaleIsDue, Listening, Unmade
<1>2. QED
  BY <1>1, FileStep, PTL DEF Spec

(* A Unix server that serves can be reached (srv.rs:818-821, 837-847),     *)
(* however many others fail to start, end or are killed, as long as nobody *)
(* removes the file of a live one.                                         *)
THEOREM ServersAreReached == Spec => []ServingIsReached
<1>1. FileInv => ServingIsReached
  BY DEF FileInv, OwnFile, ServingIsReached, Reaches, Listening
<1>2. QED
  BY <1>1, FileInvariant, PTL

(* A socket file without a listener was left by its own server, killed or  *)
(* not able to remove it (srv.rs:837-847), and by no other.                *)
THEOREM StaleFilesAreDue == Spec => []StaleIsDue
<1>1. FileInv => StaleIsDue
  BY DEF FileInv
<1>2. QED
  BY <1>1, FileInvariant, PTL

-----------------------------------------------------------------------------
(* The connections.                                                        *)

\* A server gets past its loop by an accept that failed, and no other way.
LoopEnds == \A p \in Servers : srv[p] \in {"closing", "returned"} => p \in refused

ConnInv == TypeOK /\ LoopEnds /\ LostWithServer

(* No step of one connection ends the loop, or another connection.         *)
LEMMA ConnStep == ConnInv /\ [Next]_vars => ConnInv'
<1> SUFFICES ASSUME ConnInv, [Next]_vars
             PROVE  LoopEnds' /\ LostWithServer'
  BY TypeStep DEF ConnInv
<1> USE DEF ConnInv, TypeOK, LoopEnds, LostWithServer, History
<1>1. ASSUME NEW p \in Servers, bind(p) \/ start_fails(p)
      PROVE  LoopEnds' /\ LostWithServer'
  BY <1>1 DEF bind, start_fails
<1>2. ASSUME NEW p \in Servers, accept(p)
      PROVE  LoopEnds' /\ LostWithServer'
  BY <1>2 DEF accept
<1>3. ASSUME NEW p \in Servers, accept_fails(p)
      PROVE  LoopEnds' /\ LostWithServer'
  BY <1>3 DEF accept_fails, Lost
<1>4. ASSUME NEW p \in Servers, drop(p) \/ exit(p) \/ Kill(p)
      PROVE  LoopEnds' /\ LostWithServer'
  BY <1>4 DEF drop, exit, Kill, Lost
<1>5. ASSUME NEW c \in Conns, dispatch_ends(c) \/ Connect(c)
      PROVE  LoopEnds' /\ LostWithServer'
  BY <1>5 DEF dispatch_ends, Connect
<1>6. CASE RemoveFile \/ UNCHANGED vars
  BY <1>6 DEF RemoveFile, vars
<1>7. QED
  BY <1>1, <1>2, <1>3, <1>4, <1>5, <1>6 DEF Next, Finished

(* A connection is lost only with its server, after a kill or an accept    *)
(* that failed (srv.rs:798-808, 853-864), never because of another one.    *)
THEOREM ConnectionsAreIndependent == Spec => []LostWithServer
<1>1. Init => ConnInv
  BY DEF Init, ConnInv, TypeOK, LoopEnds, LostWithServer, Unmade
<1>2. ConnInv => LostWithServer
  BY DEF ConnInv
<1>3. QED
  BY <1>1, <1>2, ConnStep, PTL DEF Spec
====
