-------------------------------- MODULE MCHive --------------------------------
(* A small board: threads with one or two labels, one of which a user may  *)
(* also call "!!_all", and staff "!?_admin".                               *)
EXTENDS Hive

CONSTANTS all, admin, a, b

ReservedTags == {<<a, b>>, <<a, all>>, <<admin>>}
=============================================================================
