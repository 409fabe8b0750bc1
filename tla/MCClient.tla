------------------------------- MODULE MCClient -------------------------------
(***************************************************************************)
(* An instance of Client for TLC: two views to stack, a comment and a      *)
(* milestone that is moved to the instant of the comment, words that can   *)
(* stand in the title or in the body, one criterion next to the duplicate, *)
(* two arguments to rate, three comments of which the list holds two, two  *)
(* hearts.                                                                 *)
(***************************************************************************)
EXTENDS Client

CONSTANTS x, z, v1, v2, c1, w1, w2, w3, k1, k2, k3

TheKind == (x :> "comments") @@ (z :> "arguments")
TheTimes == (x :> 2) @@ (z :> 1)
Titles == {<<>>, <<w1>>, <<w1, w2>>}
TheOrder == <<k2, k3, k1>>
Bodies == {<<>>, <<w3>>, <<w2, w3>>, <<w1, w2, w3>>}

\* Nothing tells the views of the stack, the arguments rated, or the
\* comments with hearts apart.
Symmetric == Permutations({v1, v2})
=============================================================================
