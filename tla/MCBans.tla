-------------------------------- MODULE MCBans --------------------------------
(* One user, whose two views and one other request run at once.            *)
EXTENDS Bans, TLC

CONSTANTS u1, v1, v2, i1, page

TimesOf == page :> 1
DurationOf == page :> 0
=============================================================================
