---------------------------- MODULE ReviewLifecycle ----------------------------
(***************************************************************************)
(* What the peer review of arguments promises, without repositories,       *)
(* queues, indexers or locks: reviewers are admitted while a review is     *)
(* open, each admitted reviewer votes at most once and for good, the       *)
(* review enters its grace window only when the votes are decisive, and    *)
(* the outcome is the majority of the votes at one moment after the close. *)
(* PeerReview implements it.                                               *)
(***************************************************************************)
EXTENDS Integers, FiniteSets

CONSTANTS Arguments, Users, AuthorOf, Quorum

VARIABLES
  phase,     \* none, open, provisional_closed, closed
  admitted,  \* the reviewers who may vote, per argument
  votes,     \* the vote of a reviewer, "none" before it
  verdict,   \* the majority the finaliser has seen and not written yet
  outcome    \* preliminary, approved, rejected

vars == <<phase, admitted, votes, verdict, outcome>>

For(a, v) == Cardinality({u \in Users : votes[a][u] = v})

\* The quorum is complete, or its majority is fixed whoever votes next.
Decisive(a) ==
  \/ For(a, "APPROVE") + For(a, "REJECT") >= Quorum[a]
  \/ 2 * For(a, "APPROVE") > Quorum[a]
  \/ 2 * For(a, "REJECT") >= Quorum[a]

Init ==
  /\ phase = [a \in Arguments |-> "none"]
  /\ admitted = [a \in Arguments |-> {}]
  /\ votes = [a \in Arguments |-> [u \in Users |-> "none"]]
  /\ verdict = [a \in Arguments |-> "none"]
  /\ outcome = [a \in Arguments |-> "preliminary"]

Open(a) ==
  /\ phase[a] = "none"
  /\ phase' = [phase EXCEPT ![a] = "open"]
  /\ UNCHANGED <<admitted, votes, verdict, outcome>>

Admit(a, u) ==
  /\ phase[a] = "open"
  /\ u # AuthorOf[a]
  /\ admitted' = [admitted EXCEPT ![a] = @ \cup {u}]
  /\ UNCHANGED <<phase, votes, verdict, outcome>>

\* A vote cast in time may be counted late, even after the close.
CastVote(a, u, v) ==
  /\ u \in admitted[a]
  /\ votes[a][u] = "none"
  /\ votes' = [votes EXCEPT ![a][u] = v]
  /\ UNCHANGED <<phase, admitted, verdict, outcome>>

StartGrace(a) ==
  /\ phase[a] = "open"
  /\ Decisive(a)
  /\ phase' = [phase EXCEPT ![a] = "provisional_closed"]
  /\ UNCHANGED <<admitted, votes, verdict, outcome>>

\* Several grace windows may end together.
Close(S) ==
  /\ \A a \in S : phase[a] = "provisional_closed"
  /\ phase' = [a \in Arguments |-> IF a \in S THEN "closed" ELSE phase[a]]
  /\ UNCHANGED <<admitted, votes, verdict, outcome>>

Judge(a) ==
  /\ phase[a] = "closed"
  /\ outcome[a] = "preliminary"
  /\ verdict' = [verdict EXCEPT ![a] =
       IF For(a, "APPROVE") > For(a, "REJECT") THEN "approved" ELSE "rejected"]
  /\ UNCHANGED <<phase, admitted, votes, outcome>>

\* The finaliser dies with its verdicts: nothing promises another one.
Forget ==
  /\ verdict' = [a \in Arguments |-> "none"]
  /\ UNCHANGED <<phase, admitted, votes, outcome>>

Announce(a) ==
  /\ verdict[a] # "none"
  /\ outcome[a] = "preliminary"
  /\ outcome' = [outcome EXCEPT ![a] = verdict[a]]
  /\ verdict' = [verdict EXCEPT ![a] = "none"]
  /\ UNCHANGED <<phase, admitted, votes>>

Next ==
  \/ \E a \in Arguments : Open(a) \/ StartGrace(a) \/ Judge(a) \/ Announce(a)
  \/ \E a \in Arguments, u \in Users :
       Admit(a, u) \/ \E v \in {"APPROVE", "REJECT"} : CastVote(a, u, v)
  \/ \E S \in SUBSET Arguments : Close(S)
  \/ Forget

Spec == Init /\ [][Next]_vars
=============================================================================
