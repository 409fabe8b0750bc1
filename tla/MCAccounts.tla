------------------------------ MODULE MCAccounts ------------------------------
(***************************************************************************)
(* An instance of Accounts for TLC.                                        *)
(***************************************************************************)
EXTENDS Accounts, TLC

Symmetric == Permutations(Starts) \cup Permutations(Verifications)
=============================================================================
