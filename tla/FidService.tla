---- MODULE FidService ----
(***************************************************************************)
(* What a connection promises a client: a table of fids on which every     *)
(* request takes effect at once, at some moment between its arrival and    *)
(* its reply, or not at all.  A client that hears of a failure may rely on *)
(* the table being as it was, and one that hears of a success may rely on  *)
(* the fids the request names having been in the table.                    *)
(***************************************************************************)
EXTENDS Protocol

CONSTANT Tags     \* one outstanding request for each

VARIABLES
  open,     \* does the service take requests?
  stage,    \* stage[t]: "idle", "asked", "done" or "lost"
  asked,    \* asked[t]: the last request of tag t
  answer,   \* answer[t]: "none", "ok", "err" or "mute"
  table,    \* the fids in the table
  view      \* the fids the answers received give the client

vars == <<open, stage, asked, answer, table, view>>

Init ==
  /\ open = TRUE
  /\ stage = [t \in Tags |-> "idle"]
  /\ asked = [t \in Tags |-> NoMessage]
  /\ answer = [t \in Tags |-> "none"]
  /\ table = {}
  /\ view = {}

Ask(t, m) ==
  /\ open
  /\ stage[t] = "idle"
  /\ stage' = [stage EXCEPT ![t] = "asked"]
  /\ asked' = [asked EXCEPT ![t] = m]
  /\ UNCHANGED <<open, answer, table, view>>

Shut == open /\ open' = FALSE /\ UNCHANGED <<stage, asked, answer, table, view>>

\* "mute" is a success the client never hears of.
Succeed(t) ==
  /\ stage[t] = "asked"
  /\ Valid(asked[t], table)
  /\ table' = Effect(asked[t], table)
  /\ \E a \in {"ok", "mute"} : answer' = [answer EXCEPT ![t] = a]
  /\ stage' = [stage EXCEPT ![t] = "done"]
  /\ UNCHANGED <<open, asked, view>>

Fail(t) ==
  /\ stage[t] = "asked"
  /\ answer' = [answer EXCEPT ![t] = "err"]
  /\ stage' = [stage EXCEPT ![t] = "done"]
  /\ UNCHANGED <<open, asked, table, view>>

Answer(t) ==
  /\ stage[t] = "done"
  /\ answer[t] # "mute"
  /\ stage' = [stage EXCEPT ![t] = "idle"]
  /\ view' = IF answer[t] = "ok" THEN Effect(asked[t], view) ELSE view
  /\ asked' = [asked EXCEPT ![t] = NoMessage]
  /\ answer' = [answer EXCEPT ![t] = "none"]
  /\ UNCHANGED <<open, table>>

\* The client hears no more of a request, be it done or never to be done.
Lose(t) ==
  /\ stage[t] \in {"asked", "done"}
  /\ stage' = [stage EXCEPT ![t] = "lost"]
  /\ UNCHANGED <<open, asked, answer, table, view>>

Next ==
  \/ Shut
  \/ \E t \in Tags :
       \/ \E m \in Messages : Ask(t, m)
       \/ Succeed(t) \/ Fail(t) \/ Answer(t) \/ Lose(t)

Spec == Init /\ [][Next]_vars
====
