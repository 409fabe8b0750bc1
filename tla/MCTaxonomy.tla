------------------------------ MODULE MCTaxonomy ------------------------------
(***************************************************************************)
(* An instance of Taxonomy for TLC.                                        *)
(***************************************************************************)
EXTENDS Taxonomy, TLC

\* A file holds a single topic with one argument.
OneTopicFiles ==
  {[AddTopic(EmptyTree, n, Root) EXCEPT !.at[n] = {a}] : n \in Topics, a \in Arguments}

Symmetric == Permutations(Topics) \cup Permutations(Arguments)
=============================================================================
