------------------------- MODULE PeerReviewRefinement -------------------------
(***************************************************************************)
(* PeerReview implements ReviewLifecycle, for all values of its constants. *)
(* Every step either leaves what ReviewLifecycle sees alone, or is one of  *)
(* its steps.                                                              *)
(***************************************************************************)
EXTENDS PeerReviewProofs

USE DEF Idle, NoJob, Vote, Original

Votes == [a \in Arguments |-> VotesOf(a)]
Verdicts == [a \in Arguments |-> VerdictOn(a)]

\* What a published record is: a staged one of its owner.
LEMMA PublishedRecord ==
  ASSUME IInv, NEW a \in Arguments, NEW u \in Users, community[a][u] # None
  PROVE  /\ community[a][u] \in Tids
         /\ original[community[a][u]] \in Original
         /\ original[community[a][u]].user = u
         /\ original[community[a][u]].reviewer \in Users
         /\ u \in checkedIn[a]
  <1> DEFINE t == community[a][u]
  <1>1. t \in Tids /\ stage[t] \in Staged
    BY DEF IInv, TypeInv, TypeOK, RecordsAgree, RecordsStaged
  <1>2. original[t] \in Original
    BY <1>1 DEF IInv, TypeInv, TypeOK, RecordsAgree, Staged
  <1>3. original[t].reviewer \in Users
    BY <1>2
  <1> QED
    BY <1>1, <1>2, <1>3 DEF IInv, VotesAuthorised

\* A row leads to the record of its owner, and this one back to the row.
LEMMA RowOfOwner ==
  ASSUME IInv, NEW a \in Arguments, NEW r \in Users, response[a][r] # None
  PROVE  /\ original[response[a][r]].user \in Users
         /\ community[a][original[response[a][r]].user] = response[a][r]
         /\ original[response[a][r]].reviewer = r
  BY RowHasRecord DEF IInv, VotesAuthorised

\* The same of the state a step leads to.
RecordsAndRows ==
  \A a \in Arguments, u \in Users :
    /\ community[a][u] # None => /\ original[community[a][u]].user = u
                                /\ original[community[a][u]].reviewer \in Users
    /\ response[a][u] # None =>
         /\ original[response[a][u]].user \in Users
         /\ community[a][original[response[a][u]].user] = response[a][u]
         /\ original[response[a][u]].reviewer = u

LEMMA RecordsAndRowsNext == IInv' => RecordsAndRows'
  <1>1. IInv => RecordsAndRows
    BY PublishedRecord, RowOfOwner DEF RecordsAndRows
  <1> QED
    BY <1>1, PTL

\* The rows that count and the participants they come from are as many: a row
\* names one reviewer, and a participant has one published record.
LEMMA AsManyVotes ==
  ASSUME IInv, NEW a \in Arguments, NEW v \in Vote
  PROVE  Cardinality({u \in Users : Votes[a][u] = v}) = Cardinality(Counted(a, v))
  <1> DEFINE Owners == {u \in Users : Votes[a][u] = v}
             Owner == [r \in Counted(a, v) |-> original[response[a][r]].user]
  <1>1. ASSUME NEW r \in Counted(a, v)
        PROVE  /\ original[response[a][r]].user \in Owners
               /\ community[a][original[response[a][r]].user] = response[a][r]
               /\ original[response[a][r]].reviewer = r
    <2>1. r \in Users /\ response[a][r] # None /\ invitation[a][r] = "invited"
          /\ original[response[a][r]].vote = v
      BY DEF Counted
    <2>2. /\ original[response[a][r]].user \in Users
          /\ community[a][original[response[a][r]].user] = response[a][r]
          /\ original[response[a][r]].reviewer = r
      BY <2>1, RowOfOwner
    <2>3. IsCounted(a, response[a][r])
      BY <2>1, <2>2 DEF IsCounted
    <2>4. Votes[a][original[response[a][r]].user] = v
      BY <2>1, <2>2, <2>3 DEF Votes, VotesOf
    <2> QED
      BY <2>2, <2>4
  <1>2. ASSUME NEW u \in Owners
        PROVE  \E r \in Counted(a, v) : original[response[a][r]].user = u
    <2> DEFINE t == community[a][u]
               r == original[t].reviewer
    <2>1. IsCounted(a, t) /\ original[t].vote = v
      BY DEF Votes, VotesOf
    <2>2. r \in Users /\ original[t].user = u /\ response[a][r] = t
      BY <2>1, PublishedRecord DEF IsCounted
    <2>3. r \in Counted(a, v)
      BY <2>1, <2>2 DEF IsCounted, Counted
    <2> QED
      BY <2>2, <2>3
  <1>3. IsFiniteSet(Counted(a, v))
    BY FS_Subset, PeerReviewAssumption DEF Counted
  <1>4. Owner \in Bijection(Counted(a, v), Owners)
    <2>1. Owner \in [Counted(a, v) -> Owners]
      BY <1>1
    <2>2. \A r, s \in Counted(a, v) : Owner[r] = Owner[s] => r = s
      BY <1>1
    <2>3. \A u \in Owners : \E r \in Counted(a, v) : Owner[r] = u
      BY <1>2
    <2> HIDE DEF Owner, Owners
    <2> QED
      BY <2>1, <2>2, <2>3 DEF Bijection, Injection, Surjection, IsInjective
  <1> HIDE DEF Owner, Owners
  <1>5. Cardinality(Owners) = Cardinality(Counted(a, v))
    BY <1>3, <1>4, FS_Bijection DEF ExistsBijection
  <1> QED
    BY <1>5 DEF Owners

\* ReviewLifecycle brings its own copy of FiniteSets.
LEMMA SameCardinality ==
  ASSUME NEW S
  PROVE  Lifecycle!Cardinality(S) = Cardinality(S)
  BY DEF Lifecycle!Cardinality, Cardinality

LEMMA SameCounts ==
  ASSUME IInv, NEW a \in Arguments
  PROVE  /\ Lifecycle!For(a, "APPROVE") = Approvals(a)
         /\ Lifecycle!For(a, "REJECT") = Rejections(a)
  BY AsManyVotes, SameCardinality DEF Votes, Lifecycle!For, Approvals, Rejections

\* The invitations of those who have a row stay what they are.
InvitationsStand ==
  \A a \in Arguments, r \in Users : response[a][r] # None =>
    (invitation'[a][r] = "invited" <=> invitation[a][r] = "invited")

\* A record published meanwhile is no vote before its row is projected.
LEMMA SameVotesStay ==
  ASSUME IInv, IInv', VotesKept, response' = response, InvitationsStand
  PROVE  Votes' = Votes
  <1>1. ASSUME NEW a \in Arguments, NEW u \in Users, community[a][u] # None
        PROVE  VotesOf(a)[u]' = VotesOf(a)[u]
    <2>1. PICK t \in Tids : t = community[a][u]
      BY <1>1, PublishedRecord
    <2>2. /\ community'[a][u] = t /\ original'[t] = original[t]
          /\ original[t].reviewer \in Users /\ t # None
      BY <1>1, <2>1, PublishedRecord DEF VotesKept
    <2>3. IsCounted(a, t)' <=> IsCounted(a, t)
      BY <2>2 DEF IsCounted, InvitationsStand
    <2> QED
      BY <2>1, <2>2, <2>3 DEF VotesOf, IsCounted
  <1>2. ASSUME NEW a \in Arguments, NEW u \in Users, community[a][u] = None
        PROVE  VotesOf(a)[u]' = VotesOf(a)[u]
    <2>1. VotesOf(a)[u] = "none"
      BY <1>2 DEF VotesOf, IsCounted
    <2>2. ASSUME IsCounted(a, community[a][u])'
          PROVE  FALSE
      <3> DEFINE t == community'[a][u]
                 r == original'[t].reviewer
      <3>1. t # None /\ response'[a][r] = t
        BY <2>2 DEF IsCounted
      <3>2. r \in Users /\ original'[t].user = u
        BY <3>1, RecordsAndRowsNext DEF RecordsAndRows
      <3>3. response[a][r] = t
        BY <3>1
      <3>4. original'[t] = original[t]
        BY <3>1, <3>2, <3>3 DEF VotesKept
      <3>5. community[a][u] = t
        BY <3>1, <3>2, <3>3, <3>4, RowOfOwner
      <3> QED
        BY <1>2, <3>1, <3>5
    <2> QED
      BY <2>1, <2>2 DEF VotesOf
  <1>3. \A a \in Arguments : VotesOf(a)' = VotesOf(a)
    BY <1>1, <1>2 DEF VotesOf
  <1> QED
    BY <1>3 DEF Votes

\* A row begins to count, when it is projected or when its reviewer is invited:
\* its owner votes.
LEMMA OneMoreVote ==
  ASSUME IInv, IInv', UNCHANGED <<community, original>>,
         NEW a \in Arguments, NEW r \in Users, NEW t \in Tids,
         response[a][r] \in {None, t}, ~(response[a][r] = t /\ invitation[a][r] = "invited"),
         response'[a][r] = t, invitation'[a][r] = "invited",
         \A b \in Arguments, x \in Users : ~(b = a /\ x = r) =>
           /\ response'[b][x] = response[b][x]
           /\ response[b][x] # None =>
                (invitation'[b][x] = "invited" <=> invitation[b][x] = "invited")
  PROVE  LET u == original[t].user
         IN  /\ u \in Users /\ u \in checkedIn[a] /\ original[t].vote \in Vote
             /\ Votes[a][u] = "none"
             /\ Votes' = [Votes EXCEPT ![a] = [@ EXCEPT ![u] = original[t].vote]]
  <1> DEFINE u == original[t].user
             v == original[t].vote
  <1>1. t # None
    BY PeerReviewAssumption
  <1>2. u \in Users /\ community[a][u] = t /\ original[t].reviewer = r
    BY <1>1, RecordsAndRowsNext DEF RecordsAndRows
  <1>3. u \in checkedIn[a] /\ v \in Vote
    <2>1. original[t] \in Original
      BY <1>1, <1>2, PublishedRecord
    <2> QED
      BY <1>1, <1>2, <2>1, PublishedRecord
  <1> HIDE DEF u, v
  <1>4. ~IsCounted(a, t) /\ IsCounted(a, t)'
    BY <1>1, <1>2 DEF IsCounted
  <1>5. Votes[a][u] = "none" /\ VotesOf(a)'[u] = v
    BY <1>2, <1>4 DEF Votes, VotesOf, v
  <1>6. ASSUME NEW b \in Arguments, NEW x \in Users, ~(b = a /\ x = u)
        PROVE  VotesOf(b)'[x] = VotesOf(b)[x]
    <2>1. CASE community[b][x] = None
      BY <2>1 DEF VotesOf, IsCounted
    <2>2. CASE community[b][x] # None
      <3>1. PICK c \in Tids : c = community[b][x]
        BY <2>2, PublishedRecord
      <3>2. /\ original[c].reviewer \in Users /\ original[c].user = x
            /\ community'[b][x] = c /\ c # None
        BY <2>2, <3>1, PublishedRecord
      <3>3. CASE b = a /\ original[c].reviewer = r
        <4>1. c # t
          BY <1>6, <3>2, <3>3 DEF u
        <4>2. ~IsCounted(b, c) /\ ~IsCounted(b, c)'
          BY <3>2, <3>3, <4>1 DEF IsCounted
        <4> QED
          BY <3>1, <3>2, <4>2 DEF VotesOf
      <3>4. CASE ~(b = a /\ original[c].reviewer = r)
        <4>1. IsCounted(b, c)' <=> IsCounted(b, c)
          BY <3>2, <3>4 DEF IsCounted
        <4> QED
          BY <3>1, <3>2, <4>1 DEF VotesOf
      <3> QED
        BY <3>3, <3>4
    <2> QED
      BY <2>1, <2>2
  <1>7. Votes' = [Votes EXCEPT ![a] = [@ EXCEPT ![u] = v]]
    <2>1. ASSUME NEW b \in Arguments
          PROVE  VotesOf(b)' = IF b = a THEN [VotesOf(a) EXCEPT ![u] = v] ELSE VotesOf(b)
      <3> DEFINE f == VotesOf(b)
                 g == VotesOf(b)'
      <3>1. f = [x \in Users |-> f[x]] /\ g = [x \in Users |-> g[x]]
        BY DEF VotesOf
      <3>2. \A x \in Users : g[x] = IF b = a /\ x = u THEN v ELSE f[x]
        BY <1>2, <1>5, <1>6
      <3> HIDE DEF f, g
      <3>3. CASE b = a
        <4>1. g = [f EXCEPT ![u] = v]
          BY <3>1, <3>2, <3>3
        <4> QED
          BY <3>3, <4>1 DEF f, g
      <3>4. CASE b # a
        <4>1. g = f
          BY <3>1, <3>2, <3>4
        <4> QED
          BY <3>4, <4>1 DEF f, g
      <3> QED
        BY <3>3, <3>4
    <2> QED
      BY <2>1 DEF Votes
  <1> QED
    BY <1>2, <1>3, <1>5, <1>7 DEF u, v

LEMMA InitRefines == Init => Lifecycle!Init
  BY DEF Init, Lifecycle!Init, VotesOf, IsCounted, VerdictOn

(***************************************************************************)
(* Steps ReviewLifecycle does not see.                                     *)
(***************************************************************************)
Quiet == /\ UNCHANGED <<status, review, checkedIn, response, finaliser>>
         /\ InvitationsStand

LEMMA ReposQuiet == Repos => Quiet
  BY ReposFrame DEF Quiet, InvitationsStand, reviewVars, reviewerVars

LEMMA WritingQuiet == Writing => Quiet
  BY WritingFrame DEF Quiet, InvitationsStand, reviewVars, reviewerVars

\* Of the API and the assignment hook, a committed check-in is seen, and the
\* invitation of somebody who has a row.
LateInvitation(a, r) ==
  /\ Assign(a, r, "invited")
  /\ response[a][r] # None

LEMMA ApiQuiet ==
  IInv /\ Api =>
    Quiet \/ \E a \in Arguments, u \in Users : CommitCheckIn(a, u) \/ LateInvitation(a, u)
  <1> SUFFICES ASSUME IInv, Api
               PROVE  Quiet \/ \E a \in Arguments, u \in Users :
                                 CommitCheckIn(a, u) \/ LateInvitation(a, u)
    OBVIOUS
  <1>1. ASSUME NEW a \in Arguments, NEW u \in Users,
               NEW d \in {"passed_over", "invited"}, Assign(a, u, d)
        PROVE  Quiet \/ LateInvitation(a, u)
    BY <1>1, ApiFrame
       DEF Assign, LateInvitation, Quiet, InvitationsStand, IInv, TypeInv, TypeOK
  <1> QED
    BY <1>1, ApiFrame DEF Api, BeginCheckIn, AbortCheckIn, Activity, Submit,
                          WriteDirectly, Quiet, InvitationsStand, reviewerVars

LEMMA IndexingQuiet ==
  Indexing => \/ Quiet
              \/ \E i \in Indexers : \/ SeedReview(i)
                                     \/ ProvisionalClose(i)
                                     \/ \E a \in Arguments, u \in Users :
                                          IndexResponse(i, a, u)
  BY IndexingFrame DEF Indexing, IndexArgument, DeleteArgument, CountResponses,
                       IndexerFails, Quiet, InvitationsStand, reviewVars, reviewerVars

LEMMA FinalisingQuiet ==
  Finalising => \/ Quiet \/ CloseExpired \/ FinaliserFails
                \/ \E a \in Arguments : CountOutcome(a) \/ WriteOutcome(a)
  BY DEF Finalising, GraceExpires, Quiet, InvitationsStand, reviewerVars

\* Votes that stay counted do not change either.
LEMMA QuietStutters ==
  ASSUME IInv, IInv', VotesKept, Quiet
  PROVE  UNCHANGED Lifecycle!vars
  <1>1. Votes' = Votes
    BY SameVotesStay DEF Quiet
  <1>2. Verdicts' = Verdicts
    BY DEF Quiet, Verdicts, VerdictOn
  <1> QED
    BY <1>1, <1>2 DEF Quiet, Votes, Verdicts, Lifecycle!vars

(***************************************************************************)
(* Steps ReviewLifecycle sees.                                             *)
(***************************************************************************)
LEMMA CheckInRefines ==
  ASSUME IInv, IInv', VotesKept, NEW a \in Arguments, NEW u \in Users, CommitCheckIn(a, u)
  PROVE  Lifecycle!Admit(a, u) \/ UNCHANGED Lifecycle!vars
  <1>1. Votes' = Votes /\ Verdicts' = Verdicts
    BY SameVotesStay DEF InvitationsStand, reviewerVars, CommitCheckIn, Verdicts, VerdictOn
  <1>2. CASE u \in checkedIn[a]
    <2>1. checkedIn' = checkedIn
      BY <1>2 DEF CommitCheckIn, IInv, TypeInv, TypeOK
    <2> QED
      BY <1>1, <2>1 DEF CommitCheckIn, Votes, Verdicts, Lifecycle!vars
  <1>3. CASE u \notin checkedIn[a]
    <2>1. review[a] = "open"
      BY <1>3, PeerReviewAssumption DEF CommitCheckIn, IInv, CloseOrdered
    <2>2. u # AuthorOf[a]
      BY PeerReviewAssumption DEF CommitCheckIn, IInv, VotesAuthorised
    <2> QED
      BY <1>1, <2>1, <2>2 DEF CommitCheckIn, Votes, Verdicts, Lifecycle!Admit
  <1> QED
    BY <1>2, <1>3

LEMMA SeedRefines ==
  ASSUME IInv, IInv', VotesKept, NEW i \in Indexers, SeedReview(i)
  PROVE  Lifecycle!Open(indexer[i].arg) \/ UNCHANGED Lifecycle!vars
  <1>1. Votes' = Votes /\ Verdicts' = Verdicts
    BY SameVotesStay DEF InvitationsStand, reviewerVars, SeedReview, Verdicts, VerdictOn
  <1>2. CASE review[indexer[i].arg] = "none"
    BY <1>1, <1>2 DEF SeedReview, Votes, Verdicts, Lifecycle!Open, reviewerVars, IInv,
                      TypeInv, TypeOK
  <1>3. CASE review[indexer[i].arg] # "none"
    <2>1. review' = review
      BY <1>3 DEF SeedReview, IInv, TypeInv, TypeOK
    <2> QED
      BY <1>1, <2>1 DEF SeedReview, Votes, Verdicts, Lifecycle!vars, reviewerVars
  <1> QED
    BY <1>2, <1>3

\* A new row is a vote of the admitted participant whose response it is, if the
\* reviewer it names is invited; else it is no vote yet.
LEMMA ResponseRefines ==
  ASSUME IInv, IInv', VotesKept, NEW i \in Indexers, NEW a \in Arguments,
         NEW u \in Users, IndexResponse(i, a, u)
  PROVE  Lifecycle!Next \/ UNCHANGED Lifecycle!vars
  <1>1. PICK t \in Tids, r \in Users :
          /\ t = community[a][u] /\ r = original[t].reviewer
          /\ response[a][r] = None
          /\ response' = [response EXCEPT ![a][r] = t]
    BY IndexedRow DEF IInv
  <1>2. /\ UNCHANGED <<community, original, invitation>>
        /\ UNCHANGED <<status, review, checkedIn, finaliser>>
        /\ Verdicts' = Verdicts
    BY DEF IndexResponse, recordVars, reviewVars, reviewerVars, Verdicts, VerdictOn
  <1>3. /\ response'[a][r] = t
        /\ \A b \in Arguments, x \in Users :
             ~(b = a /\ x = r) => response'[b][x] = response[b][x]
    BY <1>1 DEF IInv, TypeInv, TypeOK
  <1>4. t # None
    BY PeerReviewAssumption
  <1>5. CASE invitation[a][r] = "invited"
    <2> DEFINE w == original[t].user
    <2>1. /\ w \in Users /\ w \in checkedIn[a] /\ original[t].vote \in Vote
          /\ Votes[a][w] = "none"
          /\ Votes' = [Votes EXCEPT ![a] = [@ EXCEPT ![w] = original[t].vote]]
      BY <1>1, <1>2, <1>3, <1>4, <1>5, OneMoreVote
    <2>2. Lifecycle!CastVote(a, w, original[t].vote)
      BY <1>2, <2>1 DEF Votes, Verdicts, Lifecycle!CastVote
    <2> QED
      BY <2>1, <2>2 DEF Lifecycle!Next
  <1>6. CASE invitation[a][r] # "invited"
    <2>1. ASSUME NEW b \in Arguments, NEW x \in Users
          PROVE  VotesOf(b)'[x] = VotesOf(b)[x]
      <3>1. CASE community[b][x] = None
        BY <1>2, <3>1 DEF VotesOf, IsCounted
      <3>2. CASE community[b][x] # None
        <4>1. PICK c \in Tids : c = community[b][x]
          BY <3>2, PublishedRecord
        <4>2. original[c].reviewer \in Users /\ community'[b][x] = c
          BY <1>2, <3>2, <4>1, PublishedRecord
        <4>3. IsCounted(b, c)' <=> IsCounted(b, c)
          BY <1>2, <1>3, <1>6, <4>2 DEF IsCounted
        <4> QED
          BY <1>2, <4>1, <4>2, <4>3 DEF VotesOf
      <3> QED
        BY <3>1, <3>2
    <2>2. Votes' = Votes
      BY <2>1 DEF Votes, VotesOf
    <2> QED
      BY <1>2, <2>2 DEF Votes, Verdicts, Lifecycle!vars
  <1> QED
    BY <1>5, <1>6

\* The invitation of somebody who has a row turns the row into a vote.
LEMMA InvitationRefines ==
  ASSUME IInv, IInv', VotesKept, NEW a \in Arguments, NEW r \in Users,
         LateInvitation(a, r)
  PROVE  Lifecycle!Next
  <1> DEFINE t == response[a][r]
             w == original[t].user
  <1>1. t \in Tids
    BY DEF LateInvitation, IInv, TypeInv, TypeOK
  <1>2. /\ UNCHANGED <<community, original, response>>
        /\ UNCHANGED <<status, review, checkedIn, finaliser>>
        /\ Verdicts' = Verdicts
    BY DEF LateInvitation, Assign, recordVars, reviewVars, Verdicts, VerdictOn
  <1>3. /\ invitation[a][r] # "invited" /\ invitation'[a][r] = "invited"
        /\ \A b \in Arguments, x \in Users :
             ~(b = a /\ x = r) => invitation'[b][x] = invitation[b][x]
    BY DEF LateInvitation, Assign, IInv, TypeInv, TypeOK
  <1>4. /\ w \in Users /\ w \in checkedIn[a] /\ original[t].vote \in Vote
        /\ Votes[a][w] = "none"
        /\ Votes' = [Votes EXCEPT ![a] = [@ EXCEPT ![w] = original[t].vote]]
    BY <1>1, <1>2, <1>3, OneMoreVote
  <1>5. Lifecycle!CastVote(a, w, original[t].vote)
    BY <1>2, <1>4 DEF Votes, Verdicts, Lifecycle!CastVote
  <1> QED
    BY <1>4, <1>5 DEF Lifecycle!Next

\* The votes that triggered the flip are still decisive when it happens.
LEMMA FlipRefines ==
  ASSUME IInv, IInv', VotesKept, NEW i \in Indexers, ProvisionalClose(i)
  PROVE  Lifecycle!StartGrace(indexer[i].arg) \/ UNCHANGED Lifecycle!vars
  <1> DEFINE a == indexer[i].arg
  <1>1. a \in Arguments
    BY DEF ProvisionalClose, IInv, TypeInv, TypeOK
  <1>2. Votes' = Votes /\ Verdicts' = Verdicts
    BY SameVotesStay DEF InvitationsStand, reviewerVars, ProvisionalClose, Verdicts, VerdictOn
  <1>3. Lifecycle!Decisive(a)
    <2>1. Decisive(a)
      BY DEF ProvisionalClose, IInv, ClosesDecided
    <2> QED
      BY <1>1, <2>1, SameCounts, CountsAreNat, TriggersMeansDecided,
         PeerReviewAssumption DEF Decisive, Lifecycle!Decisive
  <1>4. CASE review[a] = "open"
    BY <1>1, <1>2, <1>3, <1>4
       DEF ProvisionalClose, Votes, Verdicts, Lifecycle!StartGrace, reviewerVars, IInv,
           TypeInv, TypeOK
  <1>5. CASE review[a] # "open"
    <2>1. review' = review
      BY <1>5 DEF ProvisionalClose, IInv, TypeInv, TypeOK
    <2> QED
      BY <1>2, <2>1 DEF ProvisionalClose, Votes, Verdicts, Lifecycle!vars, reviewerVars
  <1> QED
    BY <1>4, <1>5

LEMMA CloseRefines ==
  ASSUME IInv, IInv', VotesKept, CloseExpired
  PROVE  Expirable \in SUBSET Arguments /\ Lifecycle!Close(Expirable)
  <1>1. Votes' = Votes
    BY SameVotesStay DEF InvitationsStand, reviewerVars, CloseExpired
  <1>2. Expirable \subseteq Arguments
    BY DEF Expirable, IInv, TypeInv, TypeOK
  <1>3. Verdicts' = Verdicts
    BY DEF CloseExpired, Verdicts, VerdictOn
  <1> QED
    BY <1>1, <1>2, <1>3
       DEF CloseExpired, Expirable, Votes, Verdicts, Lifecycle!Close, reviewerVars

\* The finaliser counts what ReviewLifecycle counts at this moment.
LEMMA CountRefines ==
  ASSUME IInv, IInv', VotesKept, NEW a \in Arguments, CountOutcome(a)
  PROVE  Lifecycle!Judge(a)
  <1>1. Votes' = Votes
    BY SameVotesStay DEF InvitationsStand, reviewerVars, CountOutcome
  <1>2. review[a] = "closed" /\ status[a] = "preliminary"
    BY DEF CountOutcome, IInv, CloseOrdered
  <1>3. /\ Outcome(a) = IF Lifecycle!For(a, "APPROVE") > Lifecycle!For(a, "REJECT")
                        THEN "approved" ELSE "rejected"
        /\ Outcome(a) \in {"approved", "rejected"}
    BY SameCounts DEF Outcome
  <1>4. Verdicts' = [Verdicts EXCEPT ![a] = Outcome(a)]
    BY <1>3 DEF CountOutcome, Verdicts, VerdictOn, IInv, TypeInv, TypeOK
  <1> QED
    BY <1>1, <1>2, <1>3, <1>4
       DEF CountOutcome, Votes, Verdicts, Lifecycle!Judge, reviewVars, reviewerVars

LEMMA WriteRefines ==
  ASSUME IInv, IInv', VotesKept, NEW a \in Arguments, WriteOutcome(a)
  PROVE  Lifecycle!Announce(a)
  <1>1. Votes' = Votes
    BY SameVotesStay DEF InvitationsStand, reviewerVars, WriteOutcome
  <1>2. Verdicts[a] = finaliser[a] /\ Verdicts[a] # "none" /\ status[a] = "preliminary"
    BY DEF WriteOutcome, Verdicts, VerdictOn, IInv, CloseOrdered
  <1>3. Verdicts' = [Verdicts EXCEPT ![a] = "none"]
    BY DEF WriteOutcome, Verdicts, VerdictOn, IInv, TypeInv, TypeOK
  <1>4. status' = [status EXCEPT ![a] = Verdicts[a]]
    BY <1>2 DEF WriteOutcome, IInv, TypeInv, TypeOK
  <1> QED
    BY <1>1, <1>2, <1>3, <1>4
       DEF WriteOutcome, Votes, Verdicts, Lifecycle!Announce, reviewerVars

LEMMA FailureRefines ==
  ASSUME IInv, IInv', VotesKept, FinaliserFails
  PROVE  Lifecycle!Forget
  <1>1. Votes' = Votes
    BY SameVotesStay DEF InvitationsStand, reviewerVars, FinaliserFails
  <1>2. Verdicts' = [a \in Arguments |-> "none"]
    BY DEF FinaliserFails, Verdicts, VerdictOn
  <1> QED
    BY <1>1, <1>2
       DEF FinaliserFails, Votes, Verdicts, Lifecycle!Forget, reviewVars, reviewerVars

-----------------------------------------------------------------------------
LEMMA StepRefines ==
  IInv /\ IInv' /\ [Next]_vars => [Lifecycle!Next]_(Lifecycle!vars)
  <1> SUFFICES ASSUME IInv, IInv', [Next]_vars
               PROVE  Lifecycle!Next \/ UNCHANGED Lifecycle!vars
    OBVIOUS
  <1>0. VotesKept
    BY VotesKeptStep DEF IInv
  <1>1. CASE Quiet
    BY <1>0, <1>1, QuietStutters
  <1>2. ASSUME NEW a \in Arguments, NEW u \in Users, CommitCheckIn(a, u)
        PROVE  Lifecycle!Next \/ UNCHANGED Lifecycle!vars
    BY <1>0, <1>2, CheckInRefines DEF Lifecycle!Next
  <1>3. ASSUME NEW i \in Indexers, SeedReview(i)
        PROVE  Lifecycle!Next \/ UNCHANGED Lifecycle!vars
    <2>1. indexer[i].arg \in Arguments
      BY <1>3 DEF SeedReview, IInv, TypeInv, TypeOK
    <2> QED
      BY <1>0, <1>3, <2>1, SeedRefines DEF Lifecycle!Next
  <1>4. ASSUME NEW i \in Indexers, NEW a \in Arguments, NEW u \in Users,
               IndexResponse(i, a, u)
        PROVE  Lifecycle!Next \/ UNCHANGED Lifecycle!vars
    BY <1>0, <1>4, ResponseRefines
  <1>4a. ASSUME NEW a \in Arguments, NEW u \in Users, LateInvitation(a, u)
         PROVE  Lifecycle!Next
    BY <1>0, <1>4a, InvitationRefines
  <1>5. ASSUME NEW i \in Indexers, ProvisionalClose(i)
        PROVE  Lifecycle!Next \/ UNCHANGED Lifecycle!vars
    <2>1. indexer[i].arg \in Arguments
      BY <1>5 DEF ProvisionalClose, IInv, TypeInv, TypeOK
    <2> QED
      BY <1>0, <1>5, <2>1, FlipRefines DEF Lifecycle!Next
  <1>6. CASE CloseExpired
    BY <1>0, <1>6, CloseRefines DEF Lifecycle!Next
  <1>7. CASE FinaliserFails
    BY <1>0, <1>7, FailureRefines DEF Lifecycle!Next
  <1>8. ASSUME NEW a \in Arguments, CountOutcome(a) \/ WriteOutcome(a)
        PROVE  Lifecycle!Next
    BY <1>0, <1>8, CountRefines, WriteRefines DEF Lifecycle!Next
  <1>9. CASE UNCHANGED vars
    BY <1>1, <1>9 DEF vars, Quiet, InvitationsStand
  <1> QED
    BY <1>1, <1>2, <1>3, <1>4, <1>4a, <1>5, <1>6, <1>7, <1>8, <1>9, ApiQuiet, ReposQuiet,
       WritingQuiet, IndexingQuiet, FinalisingQuiet DEF Next

\* Whatever the five programs interleave and whichever of them dies, for any
\* number of arguments, reviewers, writers, indexers and failures: PeerReview
\* does what ReviewLifecycle allows and nothing else.
THEOREM Implements == Spec => ImplementsLifecycle
  <1>1. Init => Lifecycle!Init
    BY InitRefines
  <1>2. IInv /\ IInv' /\ [Next]_vars => [Lifecycle!Next]_(Lifecycle!vars)
    BY StepRefines
  <1> QED
    BY <1>1, <1>2, Inductive, PTL DEF Spec, ImplementsLifecycle, Lifecycle!Spec
=============================================================================
