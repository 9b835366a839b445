----------------------------- MODULE MCThreshold -----------------------------
(* One user who opens pages and posts, with a limit of each kind.          *)
EXTENDS Threshold, TLC

CONSTANTS u1, page, post

TimesOf == page :> 2 @@ post :> 3
DurationOf == page :> 2 @@ post :> 1
=============================================================================
