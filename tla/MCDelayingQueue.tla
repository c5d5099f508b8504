-------------------------- MODULE MCDelayingQueue ---------------------------
(***************************************************************************)
(* A small instance of DelayingQueue for TLC.                              *)
(***************************************************************************)
EXTENDS DelayingQueue
=============================================================================
