----------------------------- MODULE MCListeners -----------------------------
(* Two threads, two readers; the channel for registrations holds one.      *)
EXTENDS Listeners

CONSTANTS c1, c2, t1, t2
=============================================================================
