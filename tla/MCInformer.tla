----------------------------- MODULE MCInformer -----------------------------
(***************************************************************************)
(* A small instance of Informer for TLC.  Objects are states of a pod: two *)
(* are enough to tell an old one from a new one.                           *)
(***************************************************************************)
EXTENDS Informer
=============================================================================
