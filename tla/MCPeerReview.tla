----------------------------- MODULE MCPeerReview -----------------------------
(***************************************************************************)
(* Instances of PeerReview for TLC.                                        *)
(***************************************************************************)
EXTENDS PeerReview, TLC

CONSTANTS a1, a2, u1, u2, QuorumSize

\* Every argument is written by somebody outside the reviewers.
AuthorOutside == [a \in Arguments |-> None]
\* Two arguments whose authors review each other.
AuthorsReview == (a1 :> u1) @@ (a2 :> u2)

OneQuorum == [a \in Arguments |-> QuorumSize]

Symmetric == Permutations(Tids) \cup Permutations(Users)
TidsSymmetric == Permutations(Tids)
=============================================================================
