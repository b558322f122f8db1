---- MODULE MCListener ----
(* Model checking of the listeners. *)
EXTENDS Listener
====
