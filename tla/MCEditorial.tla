----------------------------- MODULE MCEditorial -----------------------------
(***************************************************************************)
(* An instance of Editorial for TLC: two editors save and publish at once. *)
(***************************************************************************)
EXTENDS Editorial, TLC

CONSTANTS p1, p2, t1, t2

\* Three saves of the argument, or three publications of a tree, or one of each.
SaveOrPublish == ((0..3) \X {0}) \cup ({0} \X (0..3)) \cup {<<1, 1>>}

Symmetric == Permutations({p1, p2}) \cup Permutations({t1, t2})
=============================================================================
