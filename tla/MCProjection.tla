----------------------------- MODULE MCProjection -----------------------------
(***************************************************************************)
(* An instance of Projection for TLC: u1 rates under two rkeys and         *)
(* comments, u2 has no account and rates all the same.                     *)
(***************************************************************************)
EXTENDS Projection

CONSTANTS a, r1, r2, r3, x, s, u1, u2

TheAuthor == (r1 :> u1) @@ (r2 :> u1) @@ (x :> u1) @@ (r3 :> u2)
TheSubject == s :> x
=============================================================================
