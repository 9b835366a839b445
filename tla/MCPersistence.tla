--------------------------- MODULE MCPersistence ---------------------------
(* Two threads, or three, of a board with one report queue.                *)
EXTENDS Persistence, TLC

CONSTANTS s1, s2
=============================================================================
