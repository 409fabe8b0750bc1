--------------------------- MODULE PeerReviewProofs ---------------------------
(***************************************************************************)
(* Proofs about PeerReview, for any number of arguments, reviewers,        *)
(* responses, writers and indexers, and any number of failures.            *)
(***************************************************************************)
EXTENDS PeerReview, FiniteSetTheorems, TLAPS

(***************************************************************************)
(* What each program leaves alone.                                         *)
(***************************************************************************)
LEMMA ApiFrame ==
  Api => UNCHANGED <<argument, status, review, writer, community, response, indexer,
                     finaliser>>
  BY DEF Api, Assign, BeginCheckIn, CommitCheckIn, AbortCheckIn, Activity, Submit,
         WriteDirectly, reviewVars, reviewerVars, recordVars

LEMMA ReposFrame ==
  Repos => UNCHANGED <<reviewVars, reviewerVars, writer, community, response,
                       uncounted, indexer, finaliser>>
  BY DEF Repos, WriteOriginal, FailOriginal, StageResponse

LEMMA WritingFrame ==
  Writing => UNCHANGED <<reviewVars, reviewerVars, original, response, uncounted,
                         indexer, finaliser>>
  BY DEF Writing, RejectResponse, GateResponse, FindResponse, PublishResponse,
         LosePublication, CommitResponse, WriterFails

LEMMA IndexingFrame ==
  Indexing => UNCHANGED <<status, expired, rowLock, reviewerVars, recordVars,
                          finaliser>>
  BY DEF Indexing, IndexArgument, DeleteArgument, IndexResponse, SeedReview,
         CountResponses, ProvisionalClose, IndexerFails, reviewVars

LEMMA FinalisingFrame ==
  Finalising => UNCHANGED <<argument, rowLock, reviewerVars, recordVars, response,
                            uncounted, indexer>>
  BY DEF Finalising, CloseExpired, FinaliserFails, GraceExpires, CountOutcome,
         WriteOutcome, reviewVars

(***************************************************************************)
(* Records.  What a queue row, a writer and the repositories say of the    *)
(* same response agrees.                                                   *)
(***************************************************************************)
Staged == {"pending", "done", "rejected"}

RecordsStaged ==
  \A a \in Arguments, u \in Users :
    /\ community[a][u] # None => stage[community[a][u]] \in Staged
    /\ response[a][u] # None => stage[response[a][u]] \in Staged

\* An original exists exactly from the moment submit clears it; a row a writer
\* works on is pending, and no other writer works on it; what is published or
\* projected has been staged.
RecordsAgree ==
  /\ \A t \in Tids : stage[t] = "unused" <=> original[t] = None
  /\ \A w \in Writers : writer[w] # NoJob => stage[writer[w].tid] = "pending"
  /\ \A w, x \in Writers :
       (writer[w] # NoJob /\ writer[w].tid = writer[x].tid) => w = x
  /\ RecordsStaged

TypeInv == TypeOK /\ RecordsAgree

USE DEF Idle, NoJob, Vote, Original

LEMMA TypeInit == Init => TypeInv
  BY PeerReviewAssumption DEF Init, TypeInv, TypeOK, RecordsAgree, RecordsStaged

\* What is staged stays staged, whatever moves its queue row on.
LEMMA StagedStay ==
  ASSUME TypeInv, UNCHANGED <<community, response>>,
         \A t \in Tids : stage[t] \in Staged => stage'[t] \in Staged
  PROVE  RecordsStaged'
  BY DEF TypeInv, TypeOK, RecordsAgree, RecordsStaged

\* What a writer that is past its gate works on.
LEMMA JobOfWriter ==
  ASSUME TypeInv, NEW w \in Writers, writer[w] # NoJob
  PROVE  /\ writer[w] \in [step : {"gated", "absent", "published"}, tid : Tids]
         /\ stage[writer[w].tid] = "pending"
         /\ original[writer[w].tid] \in Original
  BY DEF TypeInv, TypeOK, RecordsAgree

\* A writer that only takes its row a step further.
WriterSteps(w, s) ==
  /\ writer[w] # NoJob
  /\ writer' = [writer EXCEPT ![w].step = s]
  /\ stage' = stage

LEMMA WriterStepKeepsTypes ==
  ASSUME TypeInv, NEW w \in Writers, NEW s \in {"absent", "published"},
         WriterSteps(w, s)
  PROVE  /\ writer' \in [Writers -> {NoJob} \cup
                           [step : {"gated", "absent", "published"}, tid : Tids]]
         /\ \A y \in Writers : writer'[y].tid = writer[y].tid
         /\ \A y \in Writers : writer'[y] # NoJob => writer[y] # NoJob
  <1> DEFINE job == [step |-> s, tid |-> writer[w].tid]
  <1>1. writer[w] \in [step : {"gated", "absent", "published"}, tid : Tids]
    BY JobOfWriter DEF WriterSteps
  <1>2. [writer[w] EXCEPT !.step = s] = job
    BY <1>1
  <1>3. writer' = [writer EXCEPT ![w] = job]
    BY <1>2 DEF WriterSteps
  <1>4. job \in [step : {"gated", "absent", "published"}, tid : Tids]
    BY <1>1
  <1>5. job.tid = writer[w].tid
    OBVIOUS
  <1> HIDE DEF job
  <1> DEFINE Jobs == {NoJob} \cup
                     [step : {"gated", "absent", "published"}, tid : Tids]
  <1>6. writer \in [Writers -> Jobs] /\ job \in Jobs
    BY <1>4 DEF TypeInv, TypeOK
  <1> HIDE DEF Jobs
  <1>7. /\ writer' \in [Writers -> Jobs]
        /\ writer'[w] = job
        /\ \A y \in Writers : y # w => writer'[y] = writer[y]
    BY <1>3, <1>6
  <1> QED
    BY <1>5, <1>7 DEF Jobs, WriterSteps

LEMMA FindResponseSteps ==
  ASSUME NEW w \in Writers, FindResponse(w)
  PROVE  \E s \in {"absent", "published"} : WriterSteps(w, s)
  <1> DEFINE r == original[writer[w].tid]
  <1>1. CASE community[r.arg][r.user] = None
    <2>1. WriterSteps(w, "absent")
      BY <1>1 DEF FindResponse, WriterSteps
    <2> QED
      BY <2>1
  <1>2. CASE community[r.arg][r.user] # None
    <2>1. WriterSteps(w, "published")
      BY <1>2 DEF FindResponse, WriterSteps
    <2> QED
      BY <2>1
  <1> QED
    BY <1>1, <1>2

\* Failures are only counted up.
LEMMA FailuresGrow ==
  ASSUME TypeInv, [Next]_vars
  PROVE  failures' = 0 => failures = 0
  <1>1. failures \in Nat
    BY PeerReviewAssumption DEF TypeInv, TypeOK
  <1> DEFINE Counts == failures' = failures \/ failures' = failures + 1
  <1>2. Api => Counts
    BY DEF Api, Assign, BeginCheckIn, CommitCheckIn, AbortCheckIn, Activity, Submit,
           WriteDirectly
  <1>3. Repos => Counts
    BY DEF Repos, WriteOriginal, FailOriginal, StageResponse
  <1>4. Writing => Counts
    BY DEF Writing, RejectResponse, GateResponse, FindResponse, PublishResponse,
           LosePublication, CommitResponse, WriterFails
  <1>5. Indexing => Counts
    BY DEF Indexing, IndexArgument, DeleteArgument, IndexResponse, SeedReview,
           CountResponses, ProvisionalClose, IndexerFails
  <1>6. Finalising => Counts
    BY DEF Finalising, CloseExpired, FinaliserFails, GraceExpires, CountOutcome,
           WriteOutcome
  <1> HIDE DEF Counts
  <1>7. Counts
    BY <1>2, <1>3, <1>4, <1>5, <1>6 DEF Next, vars, Counts
  <1> QED
    BY <1>1, <1>7 DEF Counts

\* The row an indexer inserts goes to the participant its record names.
LEMMA IndexedRow ==
  ASSUME TypeInv, NEW i \in Indexers, NEW a \in Arguments, NEW u \in Users,
         IndexResponse(i, a, u)
  PROVE  \E t \in Tids, r \in Users :
           /\ t = community[a][u] /\ r = original[t].reviewer
           /\ response[a][r] = None
           /\ response' = [response EXCEPT ![a][r] = t]
  <1> DEFINE t == community[a][u]
  <1>1. t \in Tids /\ t # None
    BY DEF IndexResponse, TypeInv, TypeOK
  <1>1a. stage[t] # "unused"
    BY <1>1 DEF TypeInv, RecordsAgree, RecordsStaged, Staged
  <1>2. original[t] \in Original
    BY <1>1, <1>1a DEF TypeInv, TypeOK, RecordsAgree
  <1>3. original[t].reviewer \in Users
    BY <1>2
  <1> QED
    BY <1>1, <1>3 DEF IndexResponse

LEMMA TypeStep == TypeInv /\ [Next]_vars => TypeInv'
  <1> SUFFICES ASSUME TypeInv, [Next]_vars
               PROVE  TypeInv'
    OBVIOUS
  <1>1. ASSUME NEW a \in Arguments, NEW u \in Users,
               NEW d \in {"passed_over", "invited"}, Assign(a, u, d)
        PROVE  TypeInv'
    BY <1>1, PeerReviewAssumption
       DEF Assign, TypeInv, TypeOK, RecordsAgree, RecordsStaged, reviewVars, reviewerVars,
           recordVars
  <1>2. ASSUME NEW a \in Arguments, NEW u \in Users, BeginCheckIn(a, u)
        PROVE  TypeInv'
    BY <1>2, PeerReviewAssumption
       DEF BeginCheckIn, TypeInv, TypeOK, RecordsAgree, RecordsStaged, reviewVars,
           reviewerVars, recordVars
  <1>3. ASSUME NEW a \in Arguments, NEW u \in Users, CommitCheckIn(a, u)
        PROVE  TypeInv'
    BY <1>3, PeerReviewAssumption
       DEF CommitCheckIn, TypeInv, TypeOK, RecordsAgree, RecordsStaged, reviewVars,
           reviewerVars, recordVars
  <1>4. ASSUME NEW a \in Arguments, NEW u \in Users, AbortCheckIn(a, u)
        PROVE  TypeInv'
    BY <1>4, PeerReviewAssumption
       DEF AbortCheckIn, TypeInv, TypeOK, RecordsAgree, RecordsStaged, reviewVars,
           reviewerVars, recordVars
  <1>5. ASSUME NEW a \in Arguments, NEW u \in Users, Activity(a, u)
        PROVE  TypeInv'
    BY <1>5, PeerReviewAssumption
       DEF Activity, TypeInv, TypeOK, RecordsAgree, RecordsStaged, reviewVars, reviewerVars,
           recordVars
  <1>6. ASSUME NEW t \in Tids, NEW a \in Arguments, NEW u \in Users,
               NEW v \in Vote, Submit(t, a, u, v)
        PROVE  TypeInv'
    <2> DEFINE r == [arg |-> a, user |-> u, reviewer |-> u, vote |-> v]
    <2>1. r \in Original /\ r # None
      <3>1. r \in Original
        OBVIOUS
      <3> QED
        BY <3>1, PeerReviewAssumption
    <2>2. /\ stage[t] = "unused" /\ stage' = [stage EXCEPT ![t] = "cleared"]
          /\ original' = [original EXCEPT ![t] = r]
          /\ writer' = writer
      BY <1>6 DEF Submit
    <2>3. original' \in [Tids -> Original \cup {None}]
      BY <2>1, <2>2 DEF TypeInv, TypeOK
    <2> HIDE DEF r
    <2>5. TypeOK'
      BY <1>6, <2>3
         DEF Submit, TypeInv, TypeOK, reviewVars, reviewerVars, recordVars
    <2>6. RecordsStaged'
      BY <1>6, <2>2, StagedStay DEF Submit, Staged, TypeInv, TypeOK
    <2>7. RecordsAgree'
      BY <2>1, <2>2, <2>6 DEF TypeInv, TypeOK, RecordsAgree
    <2> QED
      BY <2>5, <2>7 DEF TypeInv
  <1>7. ASSUME NEW t \in Tids, NEW a \in Arguments, NEW u \in Users,
               NEW n \in Users, NEW v \in Vote, WriteDirectly(t, a, u, n, v)
        PROVE  TypeInv'
    <2> DEFINE r == [arg |-> a, user |-> u, reviewer |-> n, vote |-> v]
    <2>1. r \in Original /\ r # None
      <3>1. r \in Original
        OBVIOUS
      <3> QED
        BY <3>1, PeerReviewAssumption
    <2>2. /\ stage[t] = "unused" /\ stage' = [stage EXCEPT ![t] = "in_repo"]
          /\ original' = [original EXCEPT ![t] = r]
          /\ writer' = writer
      BY <1>7 DEF WriteDirectly
    <2>3. original' \in [Tids -> Original \cup {None}]
      BY <2>1, <2>2 DEF TypeInv, TypeOK
    <2> HIDE DEF r
    <2>5. TypeOK'
      BY <1>7, <2>3
         DEF WriteDirectly, TypeInv, TypeOK, reviewVars, reviewerVars,
             recordVars
    <2>6. RecordsStaged'
      BY <1>7, <2>2, StagedStay DEF WriteDirectly, Staged, TypeInv, TypeOK
    <2>7. RecordsAgree'
      BY <2>1, <2>2, <2>6 DEF TypeInv, TypeOK, RecordsAgree
    <2> QED
      BY <2>5, <2>7 DEF TypeInv
  <1>8. ASSUME NEW t \in Tids, WriteOriginal(t)
        PROVE  TypeInv'
    <2>1. RecordsStaged'
      BY <1>8, StagedStay DEF WriteOriginal, Staged, TypeInv, TypeOK
    <2> QED
      BY <1>8, <2>1, PeerReviewAssumption
         DEF WriteOriginal, TypeInv, TypeOK, RecordsAgree, reviewVars,
             reviewerVars
  <1>9. ASSUME NEW t \in Tids, FailOriginal(t)
        PROVE  TypeInv'
    <2>1. RecordsStaged'
      BY <1>9, StagedStay DEF FailOriginal, Staged, TypeInv, TypeOK, recordVars
    <2> QED
      BY <1>9, <2>1, PeerReviewAssumption
         DEF FailOriginal, TypeInv, TypeOK, RecordsAgree, RecordsStaged, reviewVars,
           reviewerVars, recordVars
  <1>10. ASSUME NEW t \in Tids, StageResponse(t)
        PROVE  TypeInv'
    <2>1. RecordsStaged'
      BY <1>10, StagedStay DEF StageResponse, Staged, TypeInv, TypeOK, recordVars
    <2> QED
      BY <1>10, <2>1, PeerReviewAssumption
         DEF StageResponse, TypeInv, TypeOK, RecordsAgree, RecordsStaged, reviewVars,
           reviewerVars, recordVars
  <1>11. ASSUME NEW w \in Writers, NEW t \in Tids, RejectResponse(w, t)
        PROVE  TypeInv'
    <2>1. RecordsStaged'
      BY <1>11, StagedStay DEF RejectResponse, Pending, Claimed, Staged, TypeInv, TypeOK, recordVars
    <2> QED
      BY <1>11, <2>1, PeerReviewAssumption
         DEF RejectResponse, Pending, Claimed, TypeInv, TypeOK, RecordsAgree, RecordsStaged,
           reviewVars, reviewerVars, recordVars
  <1>12. ASSUME NEW w \in Writers, NEW t \in Tids, GateResponse(w, t)
        PROVE  TypeInv'
    BY <1>12, PeerReviewAssumption
       DEF GateResponse, Pending, Claimed, TypeInv, TypeOK, RecordsAgree, RecordsStaged,
           reviewVars, reviewerVars, recordVars
  <1>13. ASSUME NEW w \in Writers, PublishResponse(w)
        PROVE  TypeInv'
    <2> DEFINE t == writer[w].tid
    <2>1. t \in Tids /\ original[t] \in Original
      BY <1>13, JobOfWriter DEF PublishResponse
    <2>2. community' = [community EXCEPT ![original[t].arg][original[t].user] = t]
      BY <1>13 DEF PublishResponse
    <2>3. community' \in [Arguments -> [Users -> Tids \cup {None}]]
      BY <2>1, <2>2 DEF TypeInv, TypeOK
    <2>4. WriterSteps(w, "published")
      BY <1>13 DEF PublishResponse, WriterSteps
    <2>5. UNCHANGED <<original, stage, response, uncounted, indexer, finaliser,
                      failures, reviewVars, reviewerVars>>
      BY <1>13 DEF PublishResponse
    <2>6. /\ writer' \in [Writers -> {NoJob} \cup
                             [step : {"gated", "absent", "published"}, tid : Tids]]
          /\ \A y \in Writers : writer'[y].tid = writer[y].tid
          /\ \A y \in Writers : writer'[y] # NoJob => writer[y] # NoJob
      BY <2>4, WriterStepKeepsTypes
    <2>7. TypeOK'
      BY <2>3, <2>5, <2>6 DEF TypeInv, TypeOK, reviewVars, reviewerVars
    <2>8. stage[t] = "pending"
      BY <1>13, JobOfWriter DEF PublishResponse
    <2> HIDE DEF t
    <2>9. \A a \in Arguments, u \in Users :
            community'[a][u] = community[a][u] \/ community'[a][u] = t
      BY <2>1, <2>2 DEF TypeInv, TypeOK
    <2>10. RecordsAgree'
      BY <2>5, <2>6, <2>8, <2>9 DEF TypeInv, RecordsAgree, RecordsStaged, Staged
    <2> QED
      BY <2>7, <2>10 DEF TypeInv
  <1>13a. ASSUME NEW w \in Writers, FindResponse(w)
        PROVE  TypeInv'
    <2>1. \E s \in {"absent", "published"} : WriterSteps(w, s)
      BY <1>13a, FindResponseSteps
    <2>2. UNCHANGED <<original, stage, community, response, uncounted, indexer,
                      finaliser, failures, reviewVars, reviewerVars>>
      BY <1>13a DEF FindResponse
    <2>3. /\ writer' \in [Writers -> {NoJob} \cup
                             [step : {"gated", "absent", "published"}, tid : Tids]]
          /\ \A y \in Writers : writer'[y].tid = writer[y].tid
          /\ \A y \in Writers : writer'[y] # NoJob => writer[y] # NoJob
      BY <2>1, WriterStepKeepsTypes
    <2>4. TypeOK'
      BY <2>2, <2>3 DEF TypeInv, TypeOK, reviewVars, reviewerVars
    <2>5. RecordsAgree'
      BY <2>2, <2>3 DEF TypeInv, RecordsAgree, RecordsStaged
    <2> QED
      BY <2>4, <2>5 DEF TypeInv
  <1>13b. ASSUME NEW w \in Writers, LosePublication(w)
        PROVE  TypeInv'
    BY <1>13b, PeerReviewAssumption
       DEF LosePublication, TypeInv, TypeOK, RecordsAgree, RecordsStaged, reviewVars,
           reviewerVars
  <1>14. ASSUME NEW w \in Writers, CommitResponse(w)
        PROVE  TypeInv'
    <2>1. RecordsStaged'
      BY <1>14, StagedStay, JobOfWriter DEF CommitResponse, Staged, TypeInv, TypeOK, recordVars
    <2> QED
      BY <1>14, <2>1, PeerReviewAssumption
         DEF CommitResponse, TypeInv, TypeOK, RecordsAgree, RecordsStaged, reviewVars,
           reviewerVars, recordVars
  <1>15. ASSUME NEW w \in Writers, WriterFails(w)
        PROVE  TypeInv'
    BY <1>15, PeerReviewAssumption
       DEF WriterFails, TypeInv, TypeOK, RecordsAgree, RecordsStaged, reviewVars, reviewerVars,
           recordVars
  <1>16. ASSUME NEW i \in Indexers, NEW a \in Arguments, IndexArgument(i, a)
        PROVE  TypeInv'
    BY <1>16, PeerReviewAssumption
       DEF IndexArgument, TypeInv, TypeOK, RecordsAgree, RecordsStaged, reviewVars,
           reviewerVars, recordVars
  <1>17. ASSUME NEW i \in Indexers, NEW a \in Arguments, DeleteArgument(i, a)
        PROVE  TypeInv'
    BY <1>17, PeerReviewAssumption
       DEF DeleteArgument, TypeInv, TypeOK, RecordsAgree, RecordsStaged, reviewVars,
           reviewerVars, recordVars
  <1>18. ASSUME NEW i \in Indexers, NEW a \in Arguments, NEW u \in Users,
                IndexResponse(i, a, u)
        PROVE  TypeInv'
    <2>1. PICK t \in Tids, r \in Users :
            /\ t = community[a][u]
            /\ response' = [response EXCEPT ![a][r] = t]
      BY <1>18, IndexedRow
    <2>2. response' \in [Arguments -> [Users -> Tids \cup {None}]]
      BY <2>1 DEF TypeInv, TypeOK
    <2>3. stage[t] \in Staged
      BY <2>1, <1>18 DEF IndexResponse, TypeInv, RecordsAgree, RecordsStaged
    <2>4. UNCHANGED <<original, stage, writer, community>>
      BY <1>18 DEF IndexResponse, recordVars
    <2>5. \A b \in Arguments, x \in Users :
            response'[b][x] = response[b][x] \/ response'[b][x] = t
      BY <2>1 DEF TypeInv, TypeOK
    <2>6. RecordsAgree'
      BY <2>3, <2>4, <2>5 DEF TypeInv, RecordsAgree, RecordsStaged
    <2>7. TypeOK'
      BY <1>18, <2>2
         DEF IndexResponse, TypeInv, TypeOK, reviewVars, reviewerVars, recordVars
    <2> QED
      BY <2>6, <2>7 DEF TypeInv
  <1>19. ASSUME NEW i \in Indexers, SeedReview(i)
        PROVE  TypeInv'
    BY <1>19, PeerReviewAssumption
       DEF SeedReview, TypeInv, TypeOK, RecordsAgree, RecordsStaged, reviewVars, reviewerVars,
           recordVars
  <1>20. ASSUME NEW i \in Indexers, CountResponses(i)
        PROVE  TypeInv'
    BY <1>20, PeerReviewAssumption
       DEF CountResponses, TypeInv, TypeOK, RecordsAgree, RecordsStaged, reviewVars,
           reviewerVars, recordVars
  <1>21. ASSUME NEW i \in Indexers, ProvisionalClose(i)
        PROVE  TypeInv'
    BY <1>21, PeerReviewAssumption
       DEF ProvisionalClose, TypeInv, TypeOK, RecordsAgree, RecordsStaged, reviewVars,
           reviewerVars, recordVars
  <1>22. ASSUME NEW i \in Indexers, IndexerFails(i)
        PROVE  TypeInv'
    BY <1>22, PeerReviewAssumption
       DEF IndexerFails, TypeInv, TypeOK, RecordsAgree, RecordsStaged, reviewVars,
           reviewerVars, recordVars
  <1>23. ASSUME CloseExpired
        PROVE  TypeInv'
    BY <1>23, PeerReviewAssumption
       DEF CloseExpired, TypeInv, TypeOK, RecordsAgree, RecordsStaged, reviewVars,
           reviewerVars, recordVars
  <1>24. ASSUME FinaliserFails
        PROVE  TypeInv'
    BY <1>24, PeerReviewAssumption
       DEF FinaliserFails, TypeInv, TypeOK, RecordsAgree, RecordsStaged, reviewVars,
           reviewerVars, recordVars
  <1>25. ASSUME NEW a \in Arguments, GraceExpires(a)
        PROVE  TypeInv'
    BY <1>25, PeerReviewAssumption
       DEF GraceExpires, TypeInv, TypeOK, RecordsAgree, RecordsStaged, reviewVars,
           reviewerVars, recordVars
  <1>26. ASSUME NEW a \in Arguments, CountOutcome(a)
        PROVE  TypeInv'
    BY <1>26, PeerReviewAssumption
       DEF CountOutcome, Outcome, TypeInv, TypeOK, RecordsAgree, RecordsStaged, reviewVars,
           reviewerVars, recordVars
  <1>27. ASSUME NEW a \in Arguments, WriteOutcome(a)
        PROVE  TypeInv'
    BY <1>27, PeerReviewAssumption
       DEF WriteOutcome, TypeInv, TypeOK, RecordsAgree, RecordsStaged, reviewVars,
           reviewerVars, recordVars
  <1>28. CASE UNCHANGED vars
    BY <1>28
       DEF vars, TypeInv, TypeOK, RecordsAgree, RecordsStaged, reviewVars, reviewerVars,
           recordVars
  <1> QED
    BY <1>1, <1>2, <1>3, <1>4, <1>5, <1>6, <1>7, <1>8, <1>9, <1>10, <1>11,
       <1>12, <1>13, <1>14, <1>15, <1>16, <1>17, <1>18, <1>19, <1>20, <1>21,
       <1>22, <1>23, <1>24, <1>25, <1>26, <1>27, <1>28, <1>13a, <1>13b
       DEF Next, Api, Repos, Writing, Indexing, Finalising
\* Every variable keeps its type.
THEOREM TypeCorrect == Spec => []TypeOK
  <1>1. TypeInv => TypeOK
    BY DEF TypeInv
  <1> QED
    BY <1>1, TypeInit, TypeStep, PTL DEF Spec

(***************************************************************************)
(* Authority.  A vote can be traced back to an invitation and a check-in   *)
(* at every place it passes.                                               *)
(***************************************************************************)
VotesAuthorised ==
  /\ \A a \in Arguments, u \in Users :
       /\ invitation[a][u] # "none" => u # AuthorOf[a]
       /\ u \in checkedIn[a] => invitation[a][u] = "invited"
       /\ rowLock[a] = u => invitation[a][u] = "invited"
  /\ \A w \in Writers : writer[w] # NoJob =>
       original[writer[w].tid].user \in checkedIn[original[writer[w].tid].arg]
  /\ \A a \in Arguments, u \in Users : community[a][u] # None =>
       /\ stage[community[a][u]] \in {"pending", "done", "rejected"}
       /\ original[community[a][u]].arg = a
       /\ original[community[a][u]].user = u
       /\ u \in checkedIn[a]
  /\ \A a \in Arguments, r \in Users : response[a][r] # None =>
       /\ original[response[a][r]].reviewer = r
       /\ community[a][original[response[a][r]].user] = response[a][r]

LEMMA VotesAuthorisedInit == Init => VotesAuthorised
  BY PeerReviewAssumption DEF Init, VotesAuthorised

\* What a row comes from is a record that has been staged.
LEMMA RowHasRecord ==
  ASSUME TypeInv, VotesAuthorised, NEW a \in Arguments, NEW r \in Users,
         response[a][r] # None
  PROVE  /\ response[a][r] \in Tids
         /\ original[response[a][r]] \in Original
         /\ original[response[a][r]].user \in Users
         /\ stage[response[a][r]] \in {"pending", "done", "rejected"}
  <1> DEFINE t == response[a][r]
  <1>1. t \in Tids /\ stage[t] \in {"pending", "done", "rejected"}
    BY DEF TypeInv, TypeOK, RecordsAgree, RecordsStaged, Staged
  <1>2. original[t] \in Original
    BY <1>1 DEF TypeInv, TypeOK, RecordsAgree
  <1> QED
    BY <1>1, <1>2

\* An original that is not staged yet is neither published nor projected.
LEMMA UnstagedIsUncounted ==
  ASSUME TypeInv, NEW t \in Tids, stage[t] \in {"unused", "cleared"}
  PROVE  /\ \A a \in Arguments, u \in Users :
              /\ response[a][u] # None => response[a][u] \in Tids \ {t}
              /\ community[a][u] # None => community[a][u] \in Tids \ {t}
         /\ \A w \in Writers : writer[w] # NoJob => writer[w].tid \in Tids \ {t}
  <1>1. stage[t] \notin Staged
    BY DEF Staged
  <1> QED
    BY <1>1, JobOfWriter DEF TypeInv, TypeOK, RecordsAgree, RecordsStaged, Staged

\* So a step on it cannot take the authority of any vote.
LEMMA UnstagedStaysOut ==
  ASSUME TypeInv, VotesAuthorised, NEW t \in Tids, stage[t] \in {"unused", "cleared"},
         \A y \in Tids \ {t} : original'[y] = original[y] /\ stage'[y] = stage[y],
         UNCHANGED <<invitation, checkedIn, rowLock, writer, community, response>>
  PROVE  VotesAuthorised'
  BY UnstagedIsUncounted DEF VotesAuthorised

LEMMA VotesAuthorisedStep ==
  TypeInv /\ TypeInv' /\ VotesAuthorised /\ [Next]_vars => VotesAuthorised'
  <1> SUFFICES ASSUME TypeInv, TypeInv', VotesAuthorised, [Next]_vars
               PROVE  VotesAuthorised'
    OBVIOUS
  <1>1. ASSUME NEW a \in Arguments, NEW u \in Users,
               NEW d \in {"passed_over", "invited"}, Assign(a, u, d)
        PROVE  VotesAuthorised'
    BY <1>1, PeerReviewAssumption
       DEF Assign, VotesAuthorised, TypeInv, TypeOK, RecordsAgree, reviewVars,
           reviewerVars, recordVars
  <1>2. ASSUME NEW a \in Arguments, NEW u \in Users, BeginCheckIn(a, u)
        PROVE  VotesAuthorised'
    BY <1>2, PeerReviewAssumption
       DEF BeginCheckIn, VotesAuthorised, TypeInv, TypeOK, RecordsAgree,
           reviewVars, reviewerVars, recordVars
  <1>3. ASSUME NEW a \in Arguments, NEW u \in Users, CommitCheckIn(a, u)
        PROVE  VotesAuthorised'
    BY <1>3, PeerReviewAssumption
       DEF CommitCheckIn, VotesAuthorised, TypeInv, TypeOK, RecordsAgree,
           reviewVars, reviewerVars, recordVars
  <1>4. ASSUME NEW a \in Arguments, NEW u \in Users, AbortCheckIn(a, u)
        PROVE  VotesAuthorised'
    BY <1>4, PeerReviewAssumption
       DEF AbortCheckIn, VotesAuthorised, TypeInv, TypeOK, RecordsAgree,
           reviewVars, reviewerVars, recordVars
  <1>5. ASSUME NEW a \in Arguments, NEW u \in Users, Activity(a, u)
        PROVE  VotesAuthorised'
    BY <1>5, PeerReviewAssumption
       DEF Activity, VotesAuthorised, TypeInv, TypeOK, RecordsAgree, reviewVars,
           reviewerVars, recordVars
  <1>6. ASSUME NEW t \in Tids, NEW a \in Arguments, NEW u \in Users,
               NEW v \in Vote, Submit(t, a, u, v)
        PROVE  VotesAuthorised'
    <2>1. /\ stage[t] \in {"unused", "cleared"}
          /\ \A y \in Tids \ {t} : original'[y] = original[y] /\ stage'[y] = stage[y]
          /\ UNCHANGED <<invitation, checkedIn, rowLock, writer, community, response>>
      BY <1>6 DEF Submit, TypeInv, TypeOK, reviewVars, reviewerVars
    <2> QED
      BY <2>1, UnstagedStaysOut
  <1>7. ASSUME NEW t \in Tids, NEW a \in Arguments, NEW u \in Users,
               NEW n \in Users, NEW v \in Vote, WriteDirectly(t, a, u, n, v)
        PROVE  VotesAuthorised'
    <2>1. /\ stage[t] \in {"unused", "cleared"}
          /\ \A y \in Tids \ {t} : original'[y] = original[y] /\ stage'[y] = stage[y]
          /\ UNCHANGED <<invitation, checkedIn, rowLock, writer, community, response>>
      BY <1>7 DEF WriteDirectly, TypeInv, TypeOK, reviewVars, reviewerVars
    <2> QED
      BY <2>1, UnstagedStaysOut
  <1>8. ASSUME NEW t \in Tids, WriteOriginal(t)
        PROVE  VotesAuthorised'
    BY <1>8, PeerReviewAssumption
       DEF WriteOriginal, VotesAuthorised, TypeInv, TypeOK, RecordsAgree,
           reviewVars, reviewerVars, recordVars
  <1>9. ASSUME NEW t \in Tids, FailOriginal(t)
        PROVE  VotesAuthorised'
    <2>1. /\ stage[t] \in {"unused", "cleared"}
          /\ \A y \in Tids \ {t} : original'[y] = original[y] /\ stage'[y] = stage[y]
          /\ UNCHANGED <<invitation, checkedIn, rowLock, writer, community, response>>
      BY <1>9 DEF FailOriginal, TypeInv, TypeOK, reviewVars, reviewerVars
    <2> QED
      BY <2>1, UnstagedStaysOut
  <1>10. ASSUME NEW t \in Tids, StageResponse(t)
        PROVE  VotesAuthorised'
    BY <1>10, PeerReviewAssumption
       DEF StageResponse, VotesAuthorised, TypeInv, TypeOK, RecordsAgree,
           reviewVars, reviewerVars, recordVars
  <1>11. ASSUME NEW w \in Writers, NEW t \in Tids, RejectResponse(w, t)
        PROVE  VotesAuthorised'
    BY <1>11, PeerReviewAssumption
       DEF RejectResponse, VotesAuthorised, TypeInv, TypeOK, RecordsAgree,
           reviewVars, reviewerVars, recordVars
  <1>12. ASSUME NEW w \in Writers, NEW t \in Tids, GateResponse(w, t)
        PROVE  VotesAuthorised'
    BY <1>12, PeerReviewAssumption
       DEF GateResponse, GateAllows, VotesAuthorised, TypeInv, TypeOK,
           RecordsAgree, reviewVars, reviewerVars, recordVars
  <1>13. ASSUME NEW w \in Writers, PublishResponse(w)
        PROVE  VotesAuthorised'
    <2> DEFINE t == writer[w].tid
                b == original[t].arg
                x == original[t].user
    <2>1. /\ t \in Tids /\ stage[t] = "pending"
          /\ b \in Arguments /\ x \in Users /\ x \in checkedIn[b]
      BY <1>13, JobOfWriter DEF PublishResponse, VotesAuthorised
    <2>2. community[b][x] = None /\ community' = [community EXCEPT ![b][x] = t]
      BY <1>13 DEF PublishResponse
    <2>3. UNCHANGED <<invitation, checkedIn, rowLock, original, stage, response>>
      BY <1>13 DEF PublishResponse, reviewVars, reviewerVars
    <2>4. \A y \in Writers : writer'[y] # NoJob =>
            writer[y] # NoJob /\ writer'[y].tid = writer[y].tid
      BY <1>13, JobOfWriter DEF PublishResponse, TypeInv, TypeOK
    <2>5. ASSUME NEW a \in Arguments, NEW u \in Users, community'[a][u] # None
          PROVE  /\ stage'[community'[a][u]] \in {"pending", "done", "rejected"}
                 /\ original'[community'[a][u]].arg = a
                 /\ original'[community'[a][u]].user = u
                 /\ u \in checkedIn'[a]
      <3>1. CASE a = b /\ u = x
        <4>1. community'[a][u] = t
          BY <2>1, <2>2, <3>1 DEF TypeInv, TypeOK
        <4> QED
          BY <2>1, <2>3, <3>1, <4>1
      <3>2. CASE ~(a = b /\ u = x)
        <4>1. community'[a][u] = community[a][u]
          BY <2>1, <2>2, <3>2 DEF TypeInv, TypeOK
        <4> QED
          BY <2>3, <2>5, <4>1 DEF VotesAuthorised
      <3> QED
        BY <3>1, <3>2
    <2>6. ASSUME NEW a \in Arguments, NEW r \in Users, response'[a][r] # None
          PROVE  /\ original'[response'[a][r]].reviewer = r
                 /\ community'[a][original'[response'[a][r]].user] = response'[a][r]
      <3> DEFINE owner == original[response[a][r]].user
      <3>1. owner \in Users
        BY <2>3, <2>6, RowHasRecord
      <3>2. original[response[a][r]].reviewer = r
        BY <2>3, <2>6 DEF VotesAuthorised
      <3>3. community[a][owner] = response[a][r] /\ response[a][r] # None
        BY <2>3, <2>6 DEF VotesAuthorised
      <3> HIDE DEF owner
      <3>4. ~(a = b /\ owner = x)
        BY <2>2, <3>3
      <3>5. community'[a][owner] = community[a][owner]
        BY <2>1, <2>2, <3>1, <3>4 DEF TypeInv, TypeOK
      <3> QED
        BY <2>3, <3>2, <3>3, <3>5 DEF owner
    <2> HIDE DEF t, b, x
    <2>7. \A y \in Writers : writer'[y] # NoJob =>
            original'[writer'[y].tid].user \in checkedIn'[original'[writer'[y].tid].arg]
      BY <2>3, <2>4 DEF VotesAuthorised
    <2>8. \A a \in Arguments, u \in Users :
            /\ invitation'[a][u] # "none" => u # AuthorOf[a]
            /\ u \in checkedIn'[a] => invitation'[a][u] = "invited"
            /\ rowLock'[a] = u => invitation'[a][u] = "invited"
      BY <2>3 DEF VotesAuthorised
    <2> QED
      BY <2>5, <2>6, <2>7, <2>8 DEF VotesAuthorised
  <1>13a. ASSUME NEW w \in Writers, FindResponse(w)
        PROVE  VotesAuthorised'
    <2>1. \E s \in {"absent", "published"} : WriterSteps(w, s)
      BY <1>13a, FindResponseSteps
    <2>2. \A y \in Writers : writer'[y] # NoJob =>
            writer[y] # NoJob /\ writer'[y].tid = writer[y].tid
      BY <2>1, WriterStepKeepsTypes
    <2>3. UNCHANGED <<invitation, checkedIn, rowLock, original, stage, community,
                      response>>
      BY <1>13a DEF FindResponse, reviewVars, reviewerVars
    <2> QED
      BY <2>2, <2>3 DEF VotesAuthorised
  <1>13b. ASSUME NEW w \in Writers, LosePublication(w)
        PROVE  VotesAuthorised'
    <2>1. \A y \in Writers : writer'[y] # NoJob => writer'[y] = writer[y]
      BY <1>13b DEF LosePublication, TypeInv, TypeOK
    <2> QED
      BY <1>13b, <2>1 DEF LosePublication, VotesAuthorised, reviewVars, reviewerVars
  <1>14. ASSUME NEW w \in Writers, CommitResponse(w)
        PROVE  VotesAuthorised'
    BY <1>14, PeerReviewAssumption
       DEF CommitResponse, VotesAuthorised, TypeInv, TypeOK, RecordsAgree,
           reviewVars, reviewerVars, recordVars
  <1>15. ASSUME NEW w \in Writers, WriterFails(w)
        PROVE  VotesAuthorised'
    BY <1>15, PeerReviewAssumption
       DEF WriterFails, VotesAuthorised, TypeInv, TypeOK, RecordsAgree,
           reviewVars, reviewerVars, recordVars
  <1>16. ASSUME NEW i \in Indexers, NEW a \in Arguments, IndexArgument(i, a)
        PROVE  VotesAuthorised'
    BY <1>16, PeerReviewAssumption
       DEF IndexArgument, VotesAuthorised, TypeInv, TypeOK, RecordsAgree,
           reviewVars, reviewerVars, recordVars
  <1>17. ASSUME NEW i \in Indexers, NEW a \in Arguments, DeleteArgument(i, a)
        PROVE  VotesAuthorised'
    BY <1>17, PeerReviewAssumption
       DEF DeleteArgument, VotesAuthorised, TypeInv, TypeOK, RecordsAgree,
           reviewVars, reviewerVars, recordVars
  <1>18. ASSUME NEW i \in Indexers, NEW a \in Arguments, NEW u \in Users,
                IndexResponse(i, a, u)
        PROVE  VotesAuthorised'
    <2>1. PICK t \in Tids, r \in Users :
            /\ t = community[a][u] /\ r = original[t].reviewer
            /\ response[a][r] = None
            /\ response' = [response EXCEPT ![a][r] = t]
      BY <1>18, IndexedRow
    <2>2. original[t].user = u
      BY <2>1, <1>18 DEF IndexResponse, VotesAuthorised
    <2>3. UNCHANGED <<invitation, checkedIn, rowLock, original, stage, writer,
                      community>>
      BY <1>18 DEF IndexResponse, reviewVars, reviewerVars, recordVars
    <2>4. \A b \in Arguments, x \in Users :
            response'[b][x] = IF b = a /\ x = r THEN t ELSE response[b][x]
      BY <2>1 DEF TypeInv, TypeOK
    <2>5. \A b \in Arguments, x \in Users : response'[b][x] # None =>
            /\ original'[response'[b][x]].reviewer = x
            /\ community'[b][original'[response'[b][x]].user] = response'[b][x]
      BY <2>1, <2>2, <2>3, <2>4 DEF VotesAuthorised
    <2> QED
      BY <2>3, <2>5 DEF VotesAuthorised
  <1>19. ASSUME NEW i \in Indexers, SeedReview(i)
        PROVE  VotesAuthorised'
    BY <1>19, PeerReviewAssumption
       DEF SeedReview, VotesAuthorised, TypeInv, TypeOK, RecordsAgree,
           reviewVars, reviewerVars, recordVars
  <1>20. ASSUME NEW i \in Indexers, CountResponses(i)
        PROVE  VotesAuthorised'
    BY <1>20, PeerReviewAssumption
       DEF CountResponses, VotesAuthorised, TypeInv, TypeOK, RecordsAgree,
           reviewVars, reviewerVars, recordVars
  <1>21. ASSUME NEW i \in Indexers, ProvisionalClose(i)
        PROVE  VotesAuthorised'
    BY <1>21, PeerReviewAssumption
       DEF ProvisionalClose, VotesAuthorised, TypeInv, TypeOK, RecordsAgree,
           reviewVars, reviewerVars, recordVars
  <1>22. ASSUME NEW i \in Indexers, IndexerFails(i)
        PROVE  VotesAuthorised'
    BY <1>22, PeerReviewAssumption
       DEF IndexerFails, VotesAuthorised, TypeInv, TypeOK, RecordsAgree,
           reviewVars, reviewerVars, recordVars
  <1>23. ASSUME CloseExpired
        PROVE  VotesAuthorised'
    BY <1>23, PeerReviewAssumption
       DEF CloseExpired, VotesAuthorised, TypeInv, TypeOK, RecordsAgree,
           reviewVars, reviewerVars, recordVars
  <1>24. ASSUME FinaliserFails
        PROVE  VotesAuthorised'
    BY <1>24, PeerReviewAssumption
       DEF FinaliserFails, VotesAuthorised, TypeInv, TypeOK, RecordsAgree,
           reviewVars, reviewerVars, recordVars
  <1>25. ASSUME NEW a \in Arguments, GraceExpires(a)
        PROVE  VotesAuthorised'
    BY <1>25, PeerReviewAssumption
       DEF GraceExpires, VotesAuthorised, TypeInv, TypeOK, RecordsAgree,
           reviewVars, reviewerVars, recordVars
  <1>26. ASSUME NEW a \in Arguments, CountOutcome(a)
        PROVE  VotesAuthorised'
    BY <1>26, PeerReviewAssumption
       DEF CountOutcome, Outcome, VotesAuthorised, TypeInv, TypeOK,
           RecordsAgree, reviewVars, reviewerVars, recordVars
  <1>27. ASSUME NEW a \in Arguments, WriteOutcome(a)
        PROVE  VotesAuthorised'
    BY <1>27, PeerReviewAssumption
       DEF WriteOutcome, VotesAuthorised, TypeInv, TypeOK, RecordsAgree,
           reviewVars, reviewerVars, recordVars
  <1>28. CASE UNCHANGED vars
    BY <1>28
       DEF vars, VotesAuthorised, TypeInv, TypeOK, RecordsAgree, reviewVars,
           reviewerVars, recordVars
  <1> QED
    BY <1>1, <1>2, <1>3, <1>4, <1>5, <1>6, <1>7, <1>8, <1>9, <1>10, <1>11,
       <1>12, <1>13, <1>14, <1>15, <1>16, <1>17, <1>18, <1>19, <1>20, <1>21,
       <1>22, <1>23, <1>24, <1>25, <1>26, <1>27, <1>28, <1>13a, <1>13b
       DEF Next, Api, Repos, Writing, Indexing, Finalising

(***************************************************************************)
(* Order.  The outcome comes after the close, the close after the flip,    *)
(* and a check-in in flight has seen the review open.                      *)
(***************************************************************************)
CloseOrdered ==
  \A a \in Arguments :
    /\ status[a] # "preliminary" => review[a] = "closed"
    /\ finaliser[a] # "idle" => review[a] = "closed" /\ status[a] = "preliminary"
    /\ rowLock[a] # None => (review[a] = "open" \/ rowLock[a] \in checkedIn[a])

LEMMA CloseOrderedInit == Init => CloseOrdered
  BY DEF Init, CloseOrdered

LEMMA CloseOrderedStep ==
  TypeInv /\ CloseOrdered /\ [Next]_vars => CloseOrdered'
  <1> SUFFICES ASSUME TypeInv, CloseOrdered, [Next]_vars
               PROVE  CloseOrdered'
    OBVIOUS
  <1>1. ASSUME UNCHANGED <<status, review, rowLock, checkedIn, finaliser>>
        PROVE  CloseOrdered'
    BY <1>1 DEF CloseOrdered
  <1>2. CASE Api
    <2>1. ASSUME NEW a \in Arguments, NEW u \in Users, BeginCheckIn(a, u)
          PROVE  CloseOrdered'
      BY <2>1 DEF BeginCheckIn, CloseOrdered, TypeInv, TypeOK, reviewerVars
    <2>2. ASSUME NEW a \in Arguments, NEW u \in Users, CommitCheckIn(a, u)
          PROVE  CloseOrdered'
      BY <2>2 DEF CommitCheckIn, CloseOrdered, TypeInv, TypeOK
    <2>3. ASSUME NEW a \in Arguments, NEW u \in Users, AbortCheckIn(a, u)
          PROVE  CloseOrdered'
      BY <2>3 DEF AbortCheckIn, CloseOrdered, TypeInv, TypeOK, reviewerVars
    <2> QED
      BY <1>1, <1>2, <2>1, <2>2, <2>3
         DEF Api, Assign, Activity, Submit, WriteDirectly, reviewVars, reviewerVars
  <1>3. CASE Repos
    BY <1>1, <1>3, ReposFrame DEF reviewVars, reviewerVars
  <1>4. CASE Writing
    BY <1>1, <1>4, WritingFrame DEF reviewVars, reviewerVars
  <1>5. CASE Indexing
    <2>1. ASSUME NEW i \in Indexers, SeedReview(i)
          PROVE  CloseOrdered'
      BY <2>1 DEF SeedReview, CloseOrdered, TypeInv, TypeOK, reviewerVars
    <2>2. ASSUME NEW i \in Indexers, ProvisionalClose(i)
          PROVE  CloseOrdered'
      BY <2>2 DEF ProvisionalClose, CloseOrdered, TypeInv, TypeOK, reviewerVars
    <2> QED
      BY <1>1, <1>5, <2>1, <2>2, IndexingFrame
         DEF Indexing, IndexArgument, DeleteArgument, IndexResponse, CountResponses,
             IndexerFails, reviewVars, reviewerVars
  <1>6. CASE Finalising
    <2>1. CASE CloseExpired
      BY <2>1 DEF CloseExpired, Expirable, CloseOrdered, TypeInv, TypeOK, reviewerVars
    <2>2. CASE FinaliserFails
      BY <2>2 DEF FinaliserFails, CloseOrdered, reviewVars, reviewerVars
    <2>3. ASSUME NEW a \in Arguments, GraceExpires(a)
          PROVE  CloseOrdered'
      BY <2>3, <1>1 DEF GraceExpires, reviewerVars
    <2>4. ASSUME NEW a \in Arguments, CountOutcome(a)
          PROVE  CloseOrdered'
      BY <2>4 DEF CountOutcome, CloseOrdered, TypeInv, TypeOK, reviewVars, reviewerVars
    <2>5. ASSUME NEW a \in Arguments, WriteOutcome(a)
          PROVE  CloseOrdered'
      BY <2>5 DEF WriteOutcome, CloseOrdered, TypeInv, TypeOK, reviewerVars
    <2> QED
      BY <1>6, <2>1, <2>2, <2>3, <2>4, <2>5 DEF Finalising
  <1>7. CASE UNCHANGED vars
    BY <1>1, <1>7 DEF vars
  <1> QED
    BY <1>2, <1>3, <1>4, <1>5, <1>6, <1>7 DEF Next

(***************************************************************************)
(* Votes.  A step keeps every published vote and every drawn invitation,   *)
(* so the counts only grow, and a decisive count stays decisive.           *)
(***************************************************************************)
VotesKept ==
  \A a \in Arguments, u \in Users :
    /\ community[a][u] # None => community'[a][u] = community[a][u]
    /\ community[a][u] # None => original'[community[a][u]] = original[community[a][u]]
    /\ response[a][u] # None =>
         /\ response'[a][u] = response[a][u]
         /\ original'[response[a][u]] = original[response[a][u]]
    /\ invitation[a][u] # "none" => invitation'[a][u] = invitation[a][u]

LEMMA VotesKeptStep == TypeInv /\ VotesAuthorised /\ [Next]_vars => VotesKept
  <1> SUFFICES ASSUME TypeInv, VotesAuthorised, [Next]_vars
               PROVE  VotesKept
    OBVIOUS
  <1>1. ASSUME UNCHANGED <<invitation, original, community, response>>
        PROVE  VotesKept
    BY <1>1 DEF VotesKept
  <1>2. ASSUME NEW t \in Tids, stage[t] \in {"unused", "cleared"},
               \A y \in Tids \ {t} : original'[y] = original[y],
               UNCHANGED <<invitation, community, response>>
        PROVE  VotesKept
    BY <1>2, UnstagedIsUncounted DEF VotesKept
  <1>3. CASE Api
    <2>1. ASSUME NEW a \in Arguments, NEW u \in Users,
                 NEW d \in {"passed_over", "invited"}, Assign(a, u, d)
          PROVE  VotesKept
      BY <2>1 DEF Assign, VotesKept, TypeInv, TypeOK, recordVars
    <2>2. ASSUME NEW t \in Tids, NEW a \in Arguments, NEW u \in Users, NEW v \in Vote,
                 Submit(t, a, u, v)
          PROVE  VotesKept
      <3>1. \A y \in Tids \ {t} : original'[y] = original[y]
        BY <2>2 DEF Submit, TypeInv, TypeOK
      <3> QED
        BY <1>2, <2>2, <3>1 DEF Submit, reviewerVars
    <2>3. ASSUME NEW t \in Tids, NEW a \in Arguments, NEW u \in Users, NEW v \in Vote,
                 NEW r \in Users, WriteDirectly(t, a, u, r, v)
          PROVE  VotesKept
      <3>1. \A y \in Tids \ {t} : original'[y] = original[y]
        BY <2>3 DEF WriteDirectly, TypeInv, TypeOK
      <3> QED
        BY <1>2, <2>3, <3>1 DEF WriteDirectly, reviewerVars
    <2> QED
      BY <1>1, <1>3, <2>1, <2>2, <2>3
         DEF Api, BeginCheckIn, CommitCheckIn, AbortCheckIn, Activity, reviewVars,
             reviewerVars, recordVars
  <1>4. CASE Repos
    <2>1. ASSUME NEW t \in Tids, WriteOriginal(t) \/ FailOriginal(t)
          PROVE  VotesKept
      <3>1. /\ stage[t] = "cleared"
            /\ \A y \in Tids \ {t} : original'[y] = original[y]
        BY <2>1 DEF WriteOriginal, FailOriginal, TypeInv, TypeOK
      <3> QED
        BY <1>2, <1>4, <3>1, ReposFrame DEF reviewerVars
    <2>2. ASSUME NEW t \in Tids, StageResponse(t)
          PROVE  VotesKept
      BY <1>1, <2>2 DEF StageResponse, reviewerVars
    <2> QED
      BY <1>4, <2>1, <2>2 DEF Repos
  <1>5. CASE Writing
    <2>1. ASSUME NEW w \in Writers, PublishResponse(w)
          PROVE  VotesKept
      BY <2>1 DEF PublishResponse, VotesKept, TypeInv, TypeOK, reviewerVars
    <2> QED
      BY <1>1, <1>5, <2>1, WritingFrame
         DEF Writing, RejectResponse, GateResponse, FindResponse, LosePublication,
             CommitResponse, WriterFails, reviewerVars
  <1>6. CASE Indexing
    <2>1. ASSUME NEW i \in Indexers, NEW a \in Arguments, NEW u \in Users,
                 IndexResponse(i, a, u)
          PROVE  VotesKept
      <3>1. PICK t \in Tids, r \in Users :
              /\ response[a][r] = None
              /\ response' = [response EXCEPT ![a][r] = t]
        BY <2>1, IndexedRow
      <3>2. \A b \in Arguments, x \in Users :
              response[b][x] # None => response'[b][x] = response[b][x]
        BY <3>1 DEF TypeInv, TypeOK
      <3> QED
        BY <2>1, <3>2 DEF IndexResponse, VotesKept, reviewerVars, recordVars
    <2> QED
      BY <1>1, <1>6, <2>1, IndexingFrame
         DEF Indexing, IndexArgument, DeleteArgument, SeedReview, CountResponses,
             ProvisionalClose, IndexerFails, reviewerVars, recordVars
  <1>7. CASE Finalising
    BY <1>1, <1>7, FinalisingFrame DEF reviewerVars, recordVars
  <1>8. CASE UNCHANGED vars
    BY <1>1, <1>8 DEF vars
  <1> QED
    BY <1>3, <1>4, <1>5, <1>6, <1>7, <1>8 DEF Next

\* The closure triggers say what they should: the quorum is complete, or one
\* side has what it takes at the quorum, whoever votes next.
LEMMA TriggersMeansDecided ==
  ASSUME NEW approvals \in Nat, NEW rejections \in Nat, NEW quorum \in Nat
  PROVE  Triggers(approvals, rejections, quorum) <=>
           \/ approvals + rejections >= quorum
           \/ 2 * approvals > quorum
           \/ 2 * rejections >= quorum
  BY DEF Triggers, LockedApprove, LockedReject, Remaining

Decisive(a) == Triggers(Approvals(a), Rejections(a), Quorum[a])

LEMMA CountsAreNat ==
  ASSUME NEW a \in Arguments
  PROVE  Approvals(a) \in Nat /\ Rejections(a) \in Nat
  <1>1. \A v : IsFiniteSet(Counted(a, v))
    BY FS_Subset, PeerReviewAssumption DEF Counted
  <1> QED
    BY <1>1, FS_CardinalityType DEF Approvals, Rejections

LEMMA DecisiveStays ==
  ASSUME TypeInv, VotesKept, NEW a \in Arguments, Decisive(a)
  PROVE  Decisive(a)'
  <1>1. ASSUME NEW v
        PROVE  /\ Cardinality(Counted(a, v)) \in Nat
               /\ Cardinality(Counted(a, v)') \in Nat
               /\ Cardinality(Counted(a, v)) <= Cardinality(Counted(a, v)')
    <2>1. Counted(a, v) \subseteq Counted(a, v)'
      BY DEF Counted, VotesKept
    <2>2. IsFiniteSet(Counted(a, v)')
      BY FS_Subset, PeerReviewAssumption DEF Counted
    <2> QED
      BY <2>1, <2>2, FS_Subset, FS_CardinalityType
  <1>2. /\ Approvals(a) \in Nat /\ Approvals(a)' \in Nat
        /\ Approvals(a) <= Approvals(a)'
    BY <1>1 DEF Approvals
  <1>3. /\ Rejections(a) \in Nat /\ Rejections(a)' \in Nat
        /\ Rejections(a) <= Rejections(a)'
    BY <1>1 DEF Rejections
  <1>4. Quorum[a] \in Nat
    BY PeerReviewAssumption
  <1> QED
    BY <1>2, <1>3, <1>4, TriggersMeansDecided DEF Decisive

(***************************************************************************)
(* Decisions.  An indexer about to flip, and a review that left 'open',    *)
(* have decisive votes.                                                    *)
(***************************************************************************)
ClosesDecided ==
  /\ \A i \in Indexers : indexer[i].step = "flip" => Decisive(indexer[i].arg)
  /\ \A a \in Arguments :
       review[a] \in {"provisional_closed", "closed"} => Decisive(a)

LEMMA ClosesDecidedInit == Init => ClosesDecided
  BY DEF Init, ClosesDecided

LEMMA ClosesDecidedStep ==
  TypeInv /\ VotesAuthorised /\ ClosesDecided /\ [Next]_vars => ClosesDecided'
  <1> SUFFICES ASSUME TypeInv, VotesAuthorised, ClosesDecided, [Next]_vars
               PROVE  ClosesDecided'
    OBVIOUS
  <1> DEFINE Stays == \A a \in Arguments : Decisive(a) => Decisive(a)'
             Left(a) == review[a] \in {"provisional_closed", "closed"}
  <1>0. Stays
    BY VotesKeptStep, DecisiveStays
  <1>1. \A j \in Indexers : indexer[j].step = "flip" => indexer[j].arg \in Arguments
    BY DEF TypeInv, TypeOK
  <1> HIDE DEF Stays
  \* Nobody decides to flip, and no review leaves 'open', without decisive votes.
  <1>2. ASSUME \A j \in Indexers : indexer'[j].step = "flip" =>
                 \/ indexer[j].step = "flip" /\ indexer'[j] = indexer[j]
                 \/ indexer'[j].arg \in Arguments /\ Decisive(indexer'[j].arg),
               \A a \in Arguments : Left(a)' => Left(a) \/ Decisive(a)
        PROVE  ClosesDecided'
    BY <1>0, <1>1, <1>2 DEF ClosesDecided, Stays
  <1>3. CASE UNCHANGED <<review, indexer>>
    BY <1>2, <1>3
  <1>4. CASE Indexing
    <2>1. ASSUME NEW i \in Indexers, NEW a \in Arguments,
                 \/ IndexArgument(i, a) \/ DeleteArgument(i, a)
                 \/ \E u \in Users : IndexResponse(i, a, u)
          PROVE  ClosesDecided'
      BY <1>2, <2>1
         DEF IndexArgument, DeleteArgument, IndexResponse, reviewVars, TypeInv, TypeOK
    <2>2. ASSUME NEW i \in Indexers, SeedReview(i)
          PROVE  ClosesDecided'
      BY <1>2, <2>2 DEF SeedReview, TypeInv, TypeOK
    <2>3. ASSUME NEW i \in Indexers, CountResponses(i)
          PROVE  ClosesDecided'
      <3>1. indexer[i].arg \in Arguments /\ review' = review
        BY <2>3 DEF CountResponses, TypeInv, TypeOK, reviewVars
      <3>2. \A j \in Indexers : indexer'[j].step = "flip" =>
              \/ indexer[j].step = "flip" /\ indexer'[j] = indexer[j]
              \/ indexer'[j].arg = indexer[i].arg /\ Decisive(indexer[i].arg)
        BY <2>3 DEF CountResponses, Decisive, TypeInv, TypeOK
      <3> QED
        BY <1>2, <3>1, <3>2
    <2>4. ASSUME NEW i \in Indexers, ProvisionalClose(i)
          PROVE  ClosesDecided'
      <3>1. Decisive(indexer[i].arg)
        BY <2>4 DEF ProvisionalClose, ClosesDecided
      <3> QED
        BY <1>2, <2>4, <3>1 DEF ProvisionalClose, TypeInv, TypeOK
    <2>5. ASSUME NEW i \in Indexers, IndexerFails(i)
          PROVE  ClosesDecided'
      BY <1>2, <2>5 DEF IndexerFails, TypeInv, TypeOK, reviewVars
    <2> QED
      BY <1>4, <2>1, <2>2, <2>3, <2>4, <2>5 DEF Indexing
  <1>5. CASE Finalising
    <2>1. CASE CloseExpired
      BY <1>2, <2>1 DEF CloseExpired, Expirable, TypeInv, TypeOK
    <2> QED
      BY <1>3, <1>5, <2>1, FinalisingFrame
         DEF Finalising, FinaliserFails, GraceExpires, CountOutcome, WriteOutcome,
             reviewVars
  <1> QED
    BY <1>3, <1>4, <1>5, ApiFrame, ReposFrame, WritingFrame
       DEF Next, vars, reviewVars

-----------------------------------------------------------------------------
(***************************************************************************)
(* The inductive invariant and what follows from it.                       *)
(***************************************************************************)
IInv == TypeInv /\ VotesAuthorised /\ CloseOrdered /\ ClosesDecided

LEMMA Inductive == Spec => []IInv
  <1>1. Init => IInv
    BY TypeInit, VotesAuthorisedInit, CloseOrderedInit, ClosesDecidedInit
       DEF IInv
  <1>2. IInv /\ [Next]_vars => IInv'
    BY TypeStep, VotesAuthorisedStep, CloseOrderedStep, ClosesDecidedStep
       DEF IInv
  <1> QED
    BY <1>1, <1>2, PTL DEF Spec

\* Whatever reviewer a record names: every row of app_peerreview_responses is the
\* published response of a participant with a check-in, and nobody has two.
THEOREM CheckedInReviewersCount == Spec => []VotesComeFromCheckedIn
  <1>1. ASSUME IInv, NEW a \in Arguments, NEW r \in Users, response[a][r] # None
        PROVE  LET owner == original[response[a][r]].user
               IN  /\ original[response[a][r]].arg = a
                   /\ invitation[a][owner] = "invited" /\ owner \in checkedIn[a]
                   /\ owner # AuthorOf[a]
                   /\ \A s \in Users \ {r} : response[a][s] # None =>
                        original[response[a][s]].user # owner
    <2> DEFINE owner == original[response[a][r]].user
    <2>1. owner \in Users /\ TypeInv /\ VotesAuthorised
      BY <1>1, RowHasRecord DEF IInv
    <2>2. community[a][owner] = response[a][r]
      BY <1>1, <2>1 DEF VotesAuthorised
    <2>3. original[response[a][r]].arg = a /\ owner \in checkedIn[a]
      BY <1>1, <2>1, <2>2 DEF VotesAuthorised
    <2>4. invitation[a][owner] = "invited" /\ owner # AuthorOf[a]
      BY <2>1, <2>3 DEF VotesAuthorised
    \* Two rows of one owner come from the same record, which names one reviewer.
    <2>5. ASSUME NEW s \in Users, response[a][s] # None,
                 original[response[a][s]].user = owner
          PROVE  s = r
      <3>1. response[a][s] = response[a][r]
        BY <2>1, <2>2, <2>5 DEF VotesAuthorised
      <3> QED
        BY <1>1, <2>1, <2>5, <3>1 DEF VotesAuthorised
    <2> QED
      BY <2>3, <2>4, <2>5
  <1>2. IInv => VotesComeFromCheckedIn
    BY <1>1 DEF VotesComeFromCheckedIn
  <1> QED
    BY <1>2, Inductive, PTL

\* checkReviewQuorum closes only what is decided, for every quorum, and no
\* later vote undoes it.
THEOREM DecidedWhenClosed == Spec => []ClosedOnlyWhenDecided
  <1>1. ASSUME IInv
        PROVE  ClosedOnlyWhenDecided
    <2>1. \A a \in Arguments : Decisive(a) =>
            \/ Approvals(a) + Rejections(a) >= Quorum[a]
            \/ 2 * Approvals(a) > Quorum[a]
            \/ 2 * Rejections(a) >= Quorum[a]
      <3> SUFFICES ASSUME NEW a \in Arguments, Decisive(a)
                   PROVE  \/ Approvals(a) + Rejections(a) >= Quorum[a]
                          \/ 2 * Approvals(a) > Quorum[a]
                          \/ 2 * Rejections(a) >= Quorum[a]
        OBVIOUS
      <3> QED
        BY CountsAreNat, TriggersMeansDecided, PeerReviewAssumption DEF Decisive
    <2> QED
      BY <1>1, <2>1 DEF IInv, ClosesDecided, ClosedOnlyWhenDecided
  <1> QED
    BY <1>1, Inductive, PTL

\* No replayed event and no failed finaliser gives an outcome to a review that
\* is not closed.
THEOREM OutcomeAfterClose == Spec => []OutcomeOnlyAfterClose
  <1>1. IInv => OutcomeOnlyAfterClose
    BY DEF IInv, CloseOrdered, OutcomeOnlyAfterClose
  <1> QED
    BY <1>1, Inductive, PTL

\* A published vote and its projection are final.
THEOREM FinalVotes == Spec => VotesAreFinal
  <1>1. IInv /\ [Next]_vars =>
          [\A a \in Arguments, u \in Users :
             /\ community[a][u] # None => community'[a][u] = community[a][u]
             /\ response[a][u] # None => response'[a][u] = response[a][u]]_vars
    BY VotesKeptStep DEF IInv, VotesKept
  <1> QED
    BY <1>1, Inductive, PTL DEF Spec, VotesAreFinal

\* No check-in crosses the flip: one in flight holds the row the flip needs.
THEOREM NoCheckInAfterFlip == Spec => NoLateCheckIn
  <1> DEFINE Kept == \A a \in Arguments :
                       review[a] \in {"provisional_closed", "closed"} =>
                         checkedIn'[a] = checkedIn[a]
  <1>1. ASSUME IInv, [Next]_vars
        PROVE  Kept
    <2>1. CASE Api
      <3>1. ASSUME NEW a \in Arguments, NEW u \in Users, CommitCheckIn(a, u)
            PROVE  Kept
        <4>1. review[a] = "open" \/ u \in checkedIn[a]
          BY <3>1, <1>1, PeerReviewAssumption
             DEF CommitCheckIn, IInv, CloseOrdered
        <4>2. checkedIn' = [checkedIn EXCEPT ![a] = checkedIn[a] \cup {u}]
          BY <3>1 DEF CommitCheckIn
        <4>3. checkedIn \in [Arguments -> SUBSET Users]
          BY <1>1 DEF IInv, TypeInv, TypeOK
        <4>4. ASSUME NEW b \in Arguments,
                     review[b] \in {"provisional_closed", "closed"}
              PROVE  checkedIn'[b] = checkedIn[b]
          <5>1. CASE b = a
            BY <4>1, <4>2, <4>3, <4>4, <5>1
          <5>2. CASE b # a
            BY <4>2, <4>3, <5>2
          <5> QED
            BY <5>1, <5>2
        <4> QED
          BY <4>4
      <3>2. ASSUME ~ \E a \in Arguments, u \in Users : CommitCheckIn(a, u)
            PROVE  checkedIn' = checkedIn
        BY <2>1, <3>2
           DEF Api, Assign, BeginCheckIn, AbortCheckIn, Activity, Submit,
               WriteDirectly,
             reviewerVars
      <3> QED
        BY <3>1, <3>2
    <2>2. CASE UNCHANGED checkedIn
      BY <2>2
    <2> QED
      BY <1>1, <2>1, <2>2, ReposFrame, WritingFrame, IndexingFrame, FinalisingFrame
         DEF Next, vars, reviewerVars
  <1>2. IInv /\ [Next]_vars => [Kept]_vars
    BY <1>1
  <1> QED
    BY <1>2, Inductive, PTL DEF Spec, NoLateCheckIn

\* The lifecycle of a review only moves forward.
THEOREM ForwardOnly == Spec => LifecycleMovesForward
  <1> DEFINE Forward ==
        \A a \in Arguments :
          /\ review[a] = "open" => review'[a] \in {"open", "provisional_closed"}
          /\ review[a] = "provisional_closed" =>
               review'[a] \in {"provisional_closed", "closed"}
          /\ review[a] = "closed" => review'[a] = "closed"
          /\ status[a] # "preliminary" => status'[a] = status[a]
  <1>1. ASSUME IInv, [Next]_vars
        PROVE  Forward
    <2>1. CASE UNCHANGED <<status, review>>
      BY <1>1, <2>1 DEF IInv, TypeInv, TypeOK
    <2>2. CASE Indexing
      BY <2>2, <1>1
         DEF Indexing, IndexArgument, DeleteArgument, IndexResponse, SeedReview,
             CountResponses, ProvisionalClose, IndexerFails, IInv, TypeInv, TypeOK,
             reviewVars
    <2>3. CASE Finalising
      BY <2>3, <1>1
         DEF Finalising, CloseExpired, FinaliserFails, GraceExpires, CountOutcome,
             WriteOutcome, Expirable, IInv, TypeInv, TypeOK, reviewVars
    <2> QED
      BY <1>1, <2>1, <2>2, <2>3, ApiFrame, ReposFrame, WritingFrame
         DEF Next, vars, reviewVars
  <1>2. IInv /\ [Next]_vars => [Forward]_vars
    BY <1>1
  <1> QED
    BY <1>2, Inductive, PTL DEF Spec, LifecycleMovesForward

-----------------------------------------------------------------------------
(***************************************************************************)
(* The acceptance queue and the community repo agree: what a queue row's   *)
(* status says of the response is so, for any number of writers.           *)
(***************************************************************************)
\* The published response at the key of an original.
Record(t) == community[original[t].arg][original[t].user]

\* A writer that has seen or created the record will find it when it commits;
\* and as long as nothing failed, only such a writer keeps a published response
\* from being done.
QueueAgrees ==
  /\ \A w \in Writers : writer[w].step = "published" => Record(writer[w].tid) # None
  /\ \A t \in Tids : stage[t] = "done" => Record(t) # None
  /\ failures = 0 => \A a \in Arguments, u \in Users : community[a][u] # None =>
       \/ stage[community[a][u]] = "done"
       \/ \E w \in Writers : /\ writer[w].step = "published"
                             /\ writer[w].tid = community[a][u]


LEMMA QueueAgreesInit == Init => QueueAgrees
  BY DEF Init, QueueAgrees

\* What a writer works on, what is done, and what is published, is staged.
LEMMA UnstagedIsUnpublished ==
  ASSUME TypeInv, VotesAuthorised, NEW t \in Tids,
         stage[t] \in {"unused", "cleared", "in_repo"}
  PROVE  /\ \A w \in Writers : writer[w] # NoJob => writer[w].tid \in Tids \ {t}
         /\ \A a \in Arguments, u \in Users : community[a][u] # None =>
              community[a][u] \in Tids \ {t}
  <1>1. \A w \in Writers : writer[w] # NoJob => writer[w].tid \in Tids \ {t}
    BY JobOfWriter
  <1>2. ASSUME NEW a \in Arguments, NEW u \in Users, community[a][u] # None
        PROVE  community[a][u] \in Tids \ {t}
    <2>1. community[a][u] \in Tids
      BY <1>2 DEF TypeInv, TypeOK
    <2>2. stage[community[a][u]] \in {"pending", "done", "rejected"}
      BY <1>2 DEF VotesAuthorised
    <2> QED
      BY <2>1, <2>2
  <1> QED
    BY <1>1, <1>2

\* The steps of submit, of the reviewer's repo and of staging.
LEMMA UnstagedStep ==
  ASSUME TypeInv, VotesAuthorised, QueueAgrees, failures' = 0 => failures = 0,
         NEW t \in Tids, stage[t] \in {"unused", "cleared", "in_repo"},
         \A y \in Tids \ {t} : original'[y] = original[y] /\ stage'[y] = stage[y],
         stage'[t] # "done",
         UNCHANGED <<writer, community>>
  PROVE  QueueAgrees'
  <1>1. ASSUME NEW w \in Writers, writer'[w].step = "published"
        PROVE  Record(writer[w].tid)' # None
    <2>1. writer[w].tid \in Tids \ {t}
      BY <1>1, UnstagedIsUnpublished
    <2> QED
      BY <1>1, <2>1 DEF QueueAgrees, Record
  <1>2. ASSUME NEW y \in Tids, stage'[y] = "done"
        PROVE  Record(y)' # None
    BY <1>2 DEF QueueAgrees, Record
  <1>3. ASSUME failures' = 0, NEW a \in Arguments, NEW u \in Users,
               community'[a][u] # None
        PROVE  \/ stage'[community'[a][u]] = "done"
               \/ \E w \in Writers : /\ writer'[w].step = "published"
                                     /\ writer'[w].tid = community'[a][u]
    <2>1. community[a][u] \in Tids \ {t}
      BY <1>3, UnstagedIsUnpublished
    <2> QED
      BY <1>3, <2>1 DEF QueueAgrees
  <1> QED
    BY <1>1, <1>2, <1>3 DEF QueueAgrees

\* A step of one writer that was not at "published" and leaves the rest alone.
LEMMA UnmovedStep ==
  ASSUME QueueAgrees, failures' = failures,
         NEW w \in Writers, writer[w].step # "published",
         writer'[w].step = "published" => Record(writer'[w].tid) # None,
         \A y \in Writers : y # w => writer'[y] = writer[y],
         UNCHANGED <<original, stage, community>>
  PROVE  QueueAgrees'
  BY DEF QueueAgrees, Record

LEMMA QueueAgreesStep ==
  TypeInv /\ TypeInv' /\ VotesAuthorised /\ QueueAgrees /\ [Next]_vars => QueueAgrees'
  <1> SUFFICES ASSUME TypeInv, TypeInv', VotesAuthorised, QueueAgrees, [Next]_vars
               PROVE  QueueAgrees'
    OBVIOUS
  <1> USE FailuresGrow
  <1>1. ASSUME UNCHANGED <<original, stage, writer, community>>
        PROVE  QueueAgrees'
    BY <1>1 DEF QueueAgrees, Record
  <1>2. ASSUME NEW t \in Tids, NEW a \in Arguments, NEW u \in Users, NEW v \in Vote,
               Submit(t, a, u, v) \/ (\E r \in Users : WriteDirectly(t, a, u, r, v))
        PROVE  QueueAgrees'
    <2>1. /\ stage[t] = "unused" /\ stage'[t] # "done"
          /\ \A y \in Tids \ {t} : original'[y] = original[y] /\ stage'[y] = stage[y]
          /\ UNCHANGED <<writer, community>>
      BY <1>2 DEF Submit, WriteDirectly, TypeInv, TypeOK
    <2> QED
      BY <2>1, UnstagedStep
  <1>3. ASSUME NEW t \in Tids, WriteOriginal(t) \/ FailOriginal(t) \/ StageResponse(t)
        PROVE  QueueAgrees'
    <2>1. /\ stage[t] \in {"cleared", "in_repo"} /\ stage'[t] # "done"
          /\ \A y \in Tids \ {t} : original'[y] = original[y] /\ stage'[y] = stage[y]
          /\ UNCHANGED <<writer, community>>
      BY <1>3 DEF WriteOriginal, FailOriginal, StageResponse, TypeInv, TypeOK
    <2> QED
      BY <2>1, UnstagedStep
  \* A row is rejected only while no writer works on it: it is not published.
  <1>4. ASSUME NEW w \in Writers, NEW t \in Tids, RejectResponse(w, t)
        PROVE  QueueAgrees'
    <2>1. /\ stage[t] = "pending" /\ ~Claimed(t)
          /\ stage' = [stage EXCEPT ![t] = "rejected"]
          /\ UNCHANGED <<original, writer, community, failures>>
      BY <1>4 DEF RejectResponse, Pending
    <2> QED
      BY <2>1 DEF QueueAgrees, Record, Claimed, TypeInv, TypeOK
  <1>5. ASSUME NEW w \in Writers, NEW t \in Tids, GateResponse(w, t)
        PROVE  QueueAgrees'
    <2>1. /\ writer[w] = NoJob
          /\ writer' = [writer EXCEPT ![w] = [step |-> "gated", tid |-> t]]
          /\ UNCHANGED <<original, stage, community, failures>>
      BY <1>5 DEF GateResponse
    <2>2. writer[w].step = "idle" /\ writer'[w].step = "gated"
      BY <2>1 DEF TypeInv, TypeOK
    <2>3. \A y \in Writers : y # w => writer'[y] = writer[y]
      BY <2>1 DEF TypeInv, TypeOK
    <2> QED
      BY <2>1, <2>2, <2>3, UnmovedStep
  <1>6. ASSUME NEW w \in Writers, FindResponse(w)
        PROVE  QueueAgrees'
    <2>1. /\ writer[w].step = "gated"
          /\ UNCHANGED <<original, stage, community, failures>>
          /\ writer' = [writer EXCEPT ![w].step =
               IF Record(writer[w].tid) = None THEN "absent" ELSE "published"]
      BY <1>6 DEF FindResponse, Record
    <2>2. writer'[w].tid = writer[w].tid
      BY <2>1, JobOfWriter DEF TypeInv, TypeOK
    <2>3. writer'[w].step = "published" => Record(writer'[w].tid) # None
      BY <2>1, <2>2, JobOfWriter DEF TypeInv, TypeOK
    <2>4. \A y \in Writers : y # w => writer'[y] = writer[y]
      BY <2>1 DEF TypeInv, TypeOK
    <2> QED
      BY <2>1, <2>3, <2>4, UnmovedStep
  <1>7. ASSUME NEW w \in Writers, PublishResponse(w)
        PROVE  QueueAgrees'
    <2> DEFINE t == writer[w].tid
               b == original[t].arg
               x == original[t].user
    <2>1. t \in Tids /\ b \in Arguments /\ x \in Users
      BY <1>7, JobOfWriter DEF PublishResponse
    <2>2. /\ writer[w].step = "absent"
          /\ community[b][x] = None /\ community' = [community EXCEPT ![b][x] = t]
          /\ UNCHANGED <<original, stage, failures>>
      BY <1>7 DEF PublishResponse
    <2>3. /\ writer'[w].tid = t /\ writer'[w].step = "published"
          /\ \A y \in Writers : y # w => writer'[y] = writer[y]
      BY <1>7, JobOfWriter DEF PublishResponse, TypeInv, TypeOK
    <2>4. community'[b][x] = t /\ t # None
      BY <2>1, <2>2, PeerReviewAssumption DEF TypeInv, TypeOK
    <2>5. \A a \in Arguments, u \in Users :
            ~(a = b /\ u = x) => community'[a][u] = community[a][u]
      BY <2>1, <2>2 DEF TypeInv, TypeOK
    <2> HIDE DEF t
    <2>6. ASSUME NEW y \in Tids, stage[y] \in {"pending", "done"}, Record(y) # None
          PROVE  Record(y)' # None
      <3>1. original[y].arg \in Arguments /\ original[y].user \in Users
        BY <2>6 DEF TypeInv, TypeOK, RecordsAgree
      <3>2. community'[original[y].arg][original[y].user] # None
        BY <2>4, <2>5, <2>6, <3>1 DEF Record
      <3> QED
        BY <2>2, <3>2 DEF Record
    <2>7. ASSUME NEW y \in Writers, writer'[y].step = "published"
          PROVE  Record(writer[y].tid)' # None
      <3>1. CASE y = w
        BY <2>2, <2>3, <2>4, <3>1 DEF Record
      <3>2. CASE y # w
        <4>1. writer[y].tid \in Tids /\ stage[writer[y].tid] = "pending"
          BY <2>3, <2>7, <3>2, JobOfWriter
        <4> QED
          BY <2>3, <2>6, <2>7, <3>2, <4>1 DEF QueueAgrees
      <3> QED
        BY <3>1, <3>2
    <2>8. \A y \in Tids : stage'[y] = "done" => Record(y)' # None
      BY <2>2, <2>6 DEF QueueAgrees
    <2>9. ASSUME failures' = 0, NEW a \in Arguments, NEW u \in Users,
                 community'[a][u] # None
          PROVE  \/ stage'[community'[a][u]] = "done"
                 \/ \E y \in Writers : /\ writer'[y].step = "published"
                                       /\ writer'[y].tid = community'[a][u]
      <3>1. CASE a = b /\ u = x
        BY <2>3, <2>4, <3>1
      <3>2. CASE ~(a = b /\ u = x)
        <4>1. community'[a][u] = community[a][u] /\ failures = 0
          BY <2>2, <2>5, <2>9, <3>2
        <4> QED
          BY <2>2, <2>3, <2>9, <4>1 DEF QueueAgrees
      <3> QED
        BY <3>1, <3>2
    <2> QED
      BY <2>7, <2>8, <2>9 DEF QueueAgrees
  <1>8. ASSUME NEW w \in Writers, LosePublication(w)
        PROVE  QueueAgrees'
    <2>1. /\ writer[w].step = "absent"
          /\ writer' = [writer EXCEPT ![w] = NoJob]
          /\ UNCHANGED <<original, stage, community, failures>>
      BY <1>8 DEF LosePublication
    <2>2. /\ writer'[w].step = "idle"
          /\ \A y \in Writers : y # w => writer'[y] = writer[y]
      BY <2>1 DEF TypeInv, TypeOK
    <2> QED
      BY <2>1, <2>2, UnmovedStep
  <1>9. ASSUME NEW w \in Writers, CommitResponse(w)
        PROVE  QueueAgrees'
    <2> DEFINE t == writer[w].tid
    <2>1. /\ writer[w].step = "published"
          /\ stage' = [stage EXCEPT ![t] = "done"]
          /\ writer' = [writer EXCEPT ![w] = NoJob]
          /\ UNCHANGED <<original, community, failures>>
      BY <1>9 DEF CommitResponse
    <2>2. /\ writer'[w].step = "idle"
          /\ \A y \in Writers : y # w => writer'[y] = writer[y]
      BY <2>1 DEF TypeInv, TypeOK
    <2>3. /\ t \in Tids /\ stage'[t] = "done"
          /\ \A y : y \in Tids \ {t} => stage'[y] = stage[y]
      BY <2>1, JobOfWriter DEF TypeInv, TypeOK
    <2>4. \A y \in Writers : writer'[y].step = "published" =>
            Record(writer[y].tid)' # None
      BY <2>1, <2>2 DEF QueueAgrees, Record
    <2>5. \A y \in Tids : stage'[y] = "done" => Record(y)' # None
      BY <2>1, <2>3 DEF QueueAgrees, Record
    <2> HIDE DEF t
    <2>6. ASSUME failures' = 0, NEW a \in Arguments, NEW u \in Users,
                 community'[a][u] # None
          PROVE  \/ stage'[community'[a][u]] = "done"
                 \/ \E y \in Writers : /\ writer'[y].step = "published"
                                       /\ writer'[y].tid = community'[a][u]
      <3>1. community'[a][u] = community[a][u] /\ community[a][u] \in Tids
        BY <2>1, <2>6 DEF TypeInv, TypeOK
      <3>2. CASE community[a][u] = t
        BY <2>3, <3>1, <3>2
      <3>3. CASE community[a][u] # t
        <4>1. stage'[community[a][u]] = stage[community[a][u]]
          BY <2>3, <3>1, <3>3
        <4>2. \A y \in Writers : writer[y].tid = community[a][u] => y # w
          BY <3>3 DEF t
        <4> QED
          BY <2>1, <2>2, <2>6, <3>1, <4>1, <4>2 DEF QueueAgrees
      <3> QED
        BY <3>2, <3>3
    <2> QED
      BY <2>4, <2>5, <2>6 DEF QueueAgrees
  \* What a crash leaves published and pending is why the third part asks for
  \* executions without failures.
  <1>10. ASSUME NEW w \in Writers, WriterFails(w)
         PROVE  QueueAgrees'
    <2>1. failures' # 0
      BY <1>10, PeerReviewAssumption DEF WriterFails, TypeInv, TypeOK
    <2>2. /\ writer' = [writer EXCEPT ![w] = NoJob]
          /\ UNCHANGED <<original, stage, community>>
      BY <1>10 DEF WriterFails
    <2>3. \A y \in Writers : writer'[y].step = "published" => writer'[y] = writer[y]
      BY <2>2 DEF TypeInv, TypeOK
    <2> QED
      BY <2>1, <2>2, <2>3 DEF QueueAgrees, Record
  <1>11. CASE Api
    BY <1>1, <1>2, <1>11
       DEF Api, Assign, BeginCheckIn, CommitCheckIn, AbortCheckIn, Activity,
           recordVars
  <1>12. CASE Repos
    BY <1>3, <1>12 DEF Repos
  <1>13. CASE Writing
    BY <1>4, <1>5, <1>6, <1>7, <1>8, <1>9, <1>10, <1>13 DEF Writing
  <1>14. CASE Indexing \/ Finalising \/ UNCHANGED vars
    BY <1>1, <1>14, IndexingFrame, FinalisingFrame DEF recordVars, vars
  <1> QED
    BY <1>11, <1>12, <1>13, <1>14 DEF Next

LEMMA QueueInductive == Spec => [](TypeInv /\ QueueAgrees)
  <1>1. Init => IInv /\ QueueAgrees
    BY TypeInit, VotesAuthorisedInit, CloseOrderedInit, ClosesDecidedInit,
       QueueAgreesInit DEF IInv
  <1>2. IInv /\ IInv' /\ QueueAgrees /\ [Next]_vars => QueueAgrees'
    BY QueueAgreesStep DEF IInv
  <1>3. IInv => TypeInv
    BY DEF IInv
  <1> QED
    BY <1>1, <1>2, <1>3, Inductive, PTL DEF Spec

\* A queue row that is done has its community record, whatever failed.
THEOREM DoneRowsArePublished == Spec => []DoneIsPublished
  <1>1. QueueAgrees => DoneIsPublished
    BY DEF QueueAgrees, DoneIsPublished, Record
  <1> QED
    BY <1>1, QueueInductive, PTL

\* A response the writer has rejected is not the published one, as long as
\* nothing failed, however many writers drain the queue.
THEOREM RejectedRowsAreUnpublished == Spec => []RejectedIsUnpublished
  <1>1. ASSUME TypeInv, QueueAgrees, failures = 0, NEW t \in Tids,
               stage[t] = "rejected"
        PROVE  community[original[t].arg][original[t].user] # t
    <2>1. original[t].arg \in Arguments /\ original[t].user \in Users /\ t # None
      BY <1>1, PeerReviewAssumption DEF TypeInv, TypeOK, RecordsAgree
    <2>2. \A w \in Writers : writer[w].step = "published" => writer[w].tid # t
      BY <1>1, JobOfWriter
    <2> QED
      BY <1>1, <2>1, <2>2 DEF QueueAgrees
  <1>2. TypeInv /\ QueueAgrees => RejectedIsUnpublished
    BY <1>1 DEF RejectedIsUnpublished
  <1> QED
    BY <1>2, QueueInductive, PTL

-----------------------------------------------------------------------------
(***************************************************************************)
(* As long as nothing fails, no decision is left lying: an open review     *)
(* whose votes suffice is about to be closed, and a closed review without  *)
(* an outcome is in the hands of the finaliser.                            *)
(***************************************************************************)
(***************************************************************************)
(* Closed reviews.                                                         *)
(***************************************************************************)
LEMMA ClosedMeansDecidedStep ==
  TypeInv /\ CloseOrdered /\ ClosedMeansDecided /\ [Next]_vars => ClosedMeansDecided'
  <1> SUFFICES ASSUME TypeInv, CloseOrdered, ClosedMeansDecided, [Next]_vars
               PROVE  ClosedMeansDecided'
    OBVIOUS
  <1>1. ASSUME UNCHANGED <<status, review, finaliser>>
        PROVE  ClosedMeansDecided'
    BY <1>1, FailuresGrow DEF ClosedMeansDecided
  <1>2. CASE Indexing
    <2>1. UNCHANGED <<status, finaliser>>
      BY <1>2, IndexingFrame
    <2>2. \A a \in Arguments : review'[a] = "closed" => review[a] = "closed"
      BY <1>2 DEF Indexing, IndexArgument, DeleteArgument, IndexResponse, SeedReview,
                  CountResponses, ProvisionalClose, IndexerFails, TypeInv, TypeOK,
                  reviewVars
    <2> QED
      BY <2>1, <2>2, FailuresGrow DEF ClosedMeansDecided
  \* The pass starts with nothing in hand: what was closed before is decided.
  <1>3. CASE CloseExpired
    BY <1>3 DEF CloseExpired, ClosedMeansDecided, TypeInv, TypeOK
  <1>4. ASSUME NEW a \in Arguments, CountOutcome(a)
        PROVE  ClosedMeansDecided'
    BY <1>4 DEF CountOutcome, Outcome, ClosedMeansDecided, TypeInv, TypeOK, reviewVars
  <1>5. ASSUME NEW a \in Arguments, WriteOutcome(a)
        PROVE  ClosedMeansDecided'
    BY <1>5 DEF WriteOutcome, ClosedMeansDecided, TypeInv, TypeOK
  <1>6. CASE FinaliserFails
    BY <1>6, PeerReviewAssumption
       DEF FinaliserFails, ClosedMeansDecided, TypeInv, TypeOK
  <1>7. ASSUME NEW a \in Arguments, GraceExpires(a)
        PROVE  ClosedMeansDecided'
    BY <1>1, <1>7 DEF GraceExpires
  <1>8. CASE Finalising
    BY <1>3, <1>4, <1>5, <1>6, <1>7, <1>8 DEF Finalising
  <1>9. CASE Api \/ Repos \/ Writing \/ UNCHANGED vars
    BY <1>1, <1>9, ApiFrame, ReposFrame, WritingFrame DEF reviewVars, vars
  <1> QED
    BY <1>2, <1>8, <1>9 DEF Next

\* Without failures every review a finaliser pass has closed is decided by it,
\* whichever reviews expired together.
THEOREM ClosedReviewsAreDecided == Spec => []ClosedMeansDecided
  <1>1. Init => ClosedMeansDecided
    BY DEF Init, ClosedMeansDecided
  <1>2. IInv /\ ClosedMeansDecided /\ [Next]_vars => ClosedMeansDecided'
    BY ClosedMeansDecidedStep DEF IInv
  <1> QED
    BY <1>1, <1>2, Inductive, PTL DEF Spec

-----------------------------------------------------------------------------
(***************************************************************************)
(* Open reviews.                                                           *)
(***************************************************************************)
\* Nobody checks in, or is about to, before the review row is seeded.
SeededBeforeCheckIn ==
  \A a \in Arguments : review[a] = "none" => checkedIn[a] = {} /\ rowLock[a] = None

LEMMA SeededBeforeCheckInStep ==
  TypeInv /\ SeededBeforeCheckIn /\ [Next]_vars => SeededBeforeCheckIn'
  <1> SUFFICES ASSUME TypeInv, SeededBeforeCheckIn, [Next]_vars
               PROVE  SeededBeforeCheckIn'
    OBVIOUS
  <1>1. CASE UNCHANGED <<review, checkedIn, rowLock>>
    BY <1>1 DEF SeededBeforeCheckIn
  <1>2. CASE Api
    BY <1>2, PeerReviewAssumption
       DEF Api, Assign, BeginCheckIn, CommitCheckIn, AbortCheckIn, Activity, Submit,
           WriteDirectly, SeededBeforeCheckIn, TypeInv, TypeOK, reviewVars,
           reviewerVars
  <1>3. CASE Indexing
    <2>1. \A a \in Arguments : review'[a] = "none" => review[a] = "none"
      BY <1>3 DEF Indexing, IndexArgument, DeleteArgument, IndexResponse, SeedReview,
                  CountResponses, ProvisionalClose, IndexerFails, TypeInv, TypeOK,
                  reviewVars
    <2> QED
      BY <1>3, <2>1, IndexingFrame DEF SeededBeforeCheckIn, reviewerVars
  <1>4. CASE Finalising
    <2>1. \A a \in Arguments : review'[a] = "none" => review[a] = "none"
      BY <1>4 DEF Finalising, CloseExpired, FinaliserFails, GraceExpires,
                  CountOutcome, WriteOutcome, TypeInv, TypeOK, reviewVars
    <2> QED
      BY <1>4, <2>1, FinalisingFrame DEF SeededBeforeCheckIn, reviewerVars
  <1> QED
    BY <1>1, <1>2, <1>3, <1>4, ReposFrame, WritingFrame
       DEF Next, vars, reviewVars, reviewerVars

\* The tally of a review changes only with its responses and with the invitation
\* of a reviewer who has one.
LEMMA TallyStands ==
  ASSUME VotesKept, NEW a \in Arguments, response'[a] = response[a],
         \A u \in Users : response[a][u] # None =>
           (invitation'[a][u] = "invited" <=> invitation[a][u] = "invited")
  PROVE  Decisive(a)' = Decisive(a)
  <1>1. ASSUME NEW v
        PROVE  Counted(a, v)' = Counted(a, v)
    <2>1. \A u \in Users : response[a][u] # None =>
            original'[response[a][u]].vote = original[response[a][u]].vote
      BY DEF VotesKept
    <2> QED
      BY <2>1 DEF Counted
  <1> QED
    BY <1>1 DEF Decisive, Approvals, Rejections

\* A review without a vote is not decisive.
LEMMA NoVotesNotDecisive ==
  ASSUME NEW a \in Arguments, \A u \in Users : response[a][u] = None
  PROVE  ~Decisive(a)
  <1>1. \A v : Counted(a, v) = {}
    BY DEF Counted
  <1>2. Approvals(a) = 0 /\ Rejections(a) = 0
    BY <1>1, FS_EmptySet DEF Approvals, Rejections
  <1> QED
    BY <1>2, PeerReviewAssumption, TriggersMeansDecided DEF Decisive

\* An indexer is about to count the votes of a, or to close it.
Attended(a) ==
  \E i \in Indexers : indexer[i].step \in {"count", "flip"} /\ indexer[i].arg = a

LEMMA OpenMeansUndecidedStep ==
  TypeInv /\ VotesAuthorised /\ SeededBeforeCheckIn /\ OpenMeansUndecided
    /\ [Next]_vars => OpenMeansUndecided'
  <1> SUFFICES ASSUME TypeInv, VotesAuthorised, SeededBeforeCheckIn,
                      OpenMeansUndecided, [Next]_vars, failures' = 0,
                      NEW a \in Arguments, a \notin uncounted',
                      review'[a] = "open", Decisive(a)'
               PROVE  Attended(a)'
    BY DEF OpenMeansUndecided, Attended, Decisive
  <1>1. ASSUME review[a] = "open", response'[a] = response[a], invitation' = invitation
        PROVE  Decisive(a)
    BY <1>1, VotesKeptStep, TallyStands
  <1>2. ASSUME review[a] = "open", response'[a] = response[a],
               UNCHANGED <<invitation, uncounted>>
        PROVE  Attended(a)
    BY <1>1, <1>2, FailuresGrow DEF OpenMeansUndecided, Attended, Decisive
  <1>3. CASE review[a] = "open" /\ UNCHANGED <<response, invitation, uncounted, indexer>>
    BY <1>2, <1>3 DEF Attended
  \* An invitation that makes a row count puts the argument among the uncounted.
  <1>3a. ASSUME NEW b \in Arguments, NEW u \in Users,
                NEW d \in {"passed_over", "invited"}, Assign(b, u, d)
         PROVE  Attended(a)'
    <2>1. /\ review[a] = "open" /\ UNCHANGED <<response, indexer>>
          /\ a \notin uncounted
      BY <1>3a DEF Assign, reviewVars
    <2>2. \A x \in Users : response[a][x] # None =>
            (invitation'[a][x] = "invited" <=> invitation[a][x] = "invited")
      BY <1>3a DEF Assign, TypeInv, TypeOK
    <2>3. Decisive(a)
      BY <2>1, <2>2, VotesKeptStep, TallyStands
    <2> QED
      BY <2>1, <2>3, FailuresGrow DEF OpenMeansUndecided, Attended, Decisive
  <1>4. ASSUME NEW i \in Indexers, NEW b \in Arguments,
               IndexArgument(i, b) \/ DeleteArgument(i, b)
        PROVE  Attended(a)'
    <2>1. /\ review' = review /\ response' = response /\ indexer[i] = Idle
          /\ UNCHANGED <<invitation, uncounted>>
          /\ \A j \in Indexers : j # i => indexer'[j] = indexer[j]
      BY <1>4 DEF IndexArgument, DeleteArgument, TypeInv, TypeOK, reviewVars, reviewerVars
    <2>2. indexer[i].step = "idle"
      BY <2>1
    <2>3. Attended(a)
      BY <1>2, <2>1
    <2> QED
      BY <2>1, <2>2, <2>3 DEF Attended
  <1>5. ASSUME NEW i \in Indexers, NEW b \in Arguments, NEW u \in Users,
               IndexResponse(i, b, u)
        PROVE  Attended(a)'
    <2>1. CASE a = b
      BY <1>5, <2>1 DEF IndexResponse, Attended, TypeInv, TypeOK
    <2>2. CASE a # b
      <3>1. /\ review[a] = "open" /\ response'[a] = response[a]
            /\ UNCHANGED <<invitation, uncounted>>
        BY <1>5, <2>2 DEF IndexResponse, TypeInv, TypeOK, reviewVars, reviewerVars
      <3> QED
        BY <1>2, <1>5, <3>1 DEF IndexResponse, Attended, TypeInv, TypeOK
    <2> QED
      BY <2>1, <2>2
  <1>6. ASSUME NEW i \in Indexers, SeedReview(i)
        PROVE  Attended(a)'
    <2>1. review[a] # "none"
      <3> SUFFICES ASSUME review[a] = "none"
                   PROVE  FALSE
        OBVIOUS
      <3>1. \A u \in Users : response[a][u] = None
        <4> SUFFICES ASSUME NEW u \in Users, response[a][u] # None
                     PROVE  FALSE
          OBVIOUS
        <4>1. original[response[a][u]].user \in checkedIn[a]
          BY RowHasRecord DEF VotesAuthorised
        <4> QED
          BY <4>1 DEF SeededBeforeCheckIn
      <3>2. response' = response
        BY <1>6 DEF SeedReview
      <3> QED
        BY <3>1, <3>2, NoVotesNotDecisive, TallyStands, VotesKeptStep
    <2>2. /\ review[a] = "open" /\ response' = response
          /\ UNCHANGED <<invitation, uncounted>>
      BY <1>6, <2>1 DEF SeedReview, TypeInv, TypeOK, reviewerVars
    <2> QED
      BY <1>2, <1>6, <2>2 DEF SeedReview, Attended, TypeInv, TypeOK
  <1>7. ASSUME NEW i \in Indexers, CountResponses(i)
        PROVE  Attended(a)'
    <2>1. /\ review[a] = "open" /\ UNCHANGED <<response, invitation>>
          /\ indexer[i].step = "count"
      BY <1>7 DEF CountResponses, reviewVars, reviewerVars
    <2>2. CASE indexer[i].arg = a
      <3>1. Decisive(a)
        BY <1>1, <2>1
      <3> QED
        BY <1>7, <2>1, <2>2, <3>1 DEF CountResponses, Attended, Decisive, TypeInv, TypeOK
    <2>3. CASE indexer[i].arg # a
      <3>1. a \notin uncounted
        BY <1>7, <2>3 DEF CountResponses
      <3>2. Attended(a)
        BY <1>1, <2>1, <3>1, FailuresGrow DEF OpenMeansUndecided, Attended, Decisive
      <3> QED
        BY <1>7, <2>3, <3>2 DEF CountResponses, Attended, TypeInv, TypeOK
    <2> QED
      BY <2>2, <2>3
  <1>8. ASSUME NEW i \in Indexers, ProvisionalClose(i)
        PROVE  Attended(a)'
    <2>1. /\ indexer[i].arg # a /\ review[a] = "open" /\ response' = response
          /\ UNCHANGED <<invitation, uncounted>>
      BY <1>8 DEF ProvisionalClose, TypeInv, TypeOK, reviewerVars
    <2> QED
      BY <1>2, <1>8, <2>1 DEF ProvisionalClose, Attended, TypeInv, TypeOK
  <1>9. ASSUME NEW i \in Indexers, IndexerFails(i)
        PROVE  FALSE
    BY <1>9, PeerReviewAssumption DEF IndexerFails, TypeInv, TypeOK
  <1>10. CASE Indexing
    BY <1>4, <1>5, <1>6, <1>7, <1>8, <1>9, <1>10 DEF Indexing
  <1>11. CASE Finalising
    <2>1. review[a] = "open"
      BY <1>11 DEF Finalising, CloseExpired, FinaliserFails, GraceExpires,
                   CountOutcome, WriteOutcome, TypeInv, TypeOK, reviewVars
    <2> QED
      BY <1>3, <1>11, <2>1, FinalisingFrame DEF reviewerVars
  <1>12. CASE Api
    <2>1. \/ UNCHANGED <<invitation, uncounted>>
          \/ \E b \in Arguments, u \in Users, d \in {"passed_over", "invited"} :
               Assign(b, u, d)
      BY <1>12 DEF Api, BeginCheckIn, CommitCheckIn, AbortCheckIn, Activity, Submit,
                   WriteDirectly, reviewerVars
    <2> QED
      BY <1>3, <1>3a, <1>12, <2>1, ApiFrame
  <1>13. CASE Repos \/ Writing \/ UNCHANGED vars
    BY <1>3, <1>13, ReposFrame, WritingFrame DEF reviewVars, reviewerVars, vars
  <1> QED
    BY <1>10, <1>11, <1>12, <1>13 DEF Next

\* Without failures no deciding vote is overlooked, however many consumers
\* project the votes at once.
THEOREM OpenReviewsAreUndecided == Spec => []OpenMeansUndecided
  <1>2. Init => SeededBeforeCheckIn /\ OpenMeansUndecided
    BY DEF Init, SeededBeforeCheckIn, OpenMeansUndecided
  <1>3. /\ IInv /\ SeededBeforeCheckIn /\ [Next]_vars => SeededBeforeCheckIn'
        /\ IInv /\ SeededBeforeCheckIn /\ OpenMeansUndecided /\ [Next]_vars =>
             OpenMeansUndecided'
    BY SeededBeforeCheckInStep, OpenMeansUndecidedStep DEF IInv
  <1> QED
    BY <1>2, <1>3, Inductive, PTL DEF Spec
=============================================================================
