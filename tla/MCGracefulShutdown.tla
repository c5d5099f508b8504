------------------------- MODULE MCGracefulShutdown -------------------------
(***************************************************************************)
(* Small instances of GracefulShutdown for TLC.                            *)
(***************************************************************************)
EXTENDS GracefulShutdown
=============================================================================
