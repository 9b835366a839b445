------------------------------- MODULE MCMedia -------------------------------
(* An image, a video, audio of a kind that is refused, and an image there *)
(* is never room for.                                                     *)
EXTENDS Media, TLC

CONSTANTS img, big, vid, aud, u1, u2, v1

SizeOf == img :> 2 @@ big :> 5 @@ vid :> 4 @@ aud :> 2
=============================================================================
