----------------------------- MODULE MCAcceptance -----------------------------
(***************************************************************************)
(* Instances of Acceptance for TLC.                                        *)
(***************************************************************************)
EXTENDS Acceptance

Symmetric == Permutations(Requests) \cup Permutations(Writers)
=============================================================================
