----------------------------- MODULE MCPodWatch -----------------------------
(***************************************************************************)
(* Small instances of PodWatch for TLC.                                    *)
(***************************************************************************)
EXTENDS PodWatch, TLC

Symmetry == Permutations(Keys) \cup Permutations(Workers)
=============================================================================
