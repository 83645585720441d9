----------------------------- MODULE MCRouting -----------------------------
(***************************************************************************)
(* Small instances of Routing for TLC.                                     *)
(***************************************************************************)
EXTENDS Routing, TLC

Symmetry == Permutations(Requests) \cup Permutations(Policies)
=============================================================================
