------------------------------ MODULE PeerReview ------------------------------
(***************************************************************************)
(* Blind peer review of user arguments, from the check-in of a reviewer to *)
(* the terminal outcome of the argument.  Five programs share the tables:  *)
(*                                                                         *)
(*   - the appview API (reviews.py): checkIn, activity, submit;            *)
(*   - the indexer (record_handler.js, db.js): stages user responses,      *)
(*     projects community records, runs the quorum check after a response; *)
(*   - the community-writer (acceptance.py): gates a staged response and   *)
(*     publishes it in the community repo;                                 *)
(*   - the assignment hook (peer_review_assign.py): draws invitations;     *)
(*   - the per-minute finaliser (finalizeExpiredPeerReviews in db.js).     *)
(*                                                                         *)
(* One step of the model is one transaction or one autocommit statement on *)
(* Postgres, or one call to the PDS; everything between two of them can    *)
(* interleave.  Simplifications:                                           *)
(*   - time is only "grace_until is in the past", a set of arguments;      *)
(*   - a user-repo record is a member of Tids, standing for its at-uri;    *)
(*   - every reviewer is eligible, every vote is APPROVE or REJECT;        *)
(*   - the community record of a response is keyed by (argument, owner of  *)
(*     the original) as compose_review_rkey does, and stands for its copy; *)
(*   - a record names a reviewer of its own: the appview writes the owner, *)
(*     another client any of the participants.                             *)
(* Bounds: Tids caps the responses ever written, MaxFailures the crashes.  *)
(***************************************************************************)
EXTENDS Integers, FiniteSets

CONSTANTS
  Arguments,    \* user-submitted arguments of one ballot
  Users,        \* participants
  AuthorOf,     \* AuthorOf[a]: the author_did of argument a
  Quorum,       \* Quorum[a]: app_peerreviews.quorum, captured when a is seeded
  Tids,         \* at-uris of peerreview.response records in user repos
  Writers,      \* community-writer instances
  Indexers,     \* firehose consumers: the live one, and a backfill beside it
  Deletable,    \* arguments whose community record may be deleted
  MaxFailures,  \* bound on crashes and failed calls
  None          \* no record, nobody, nothing

Vote == {"APPROVE", "REJECT"}
\* A response record: the owner of its repo, and what the record says.
Original == [arg : Arguments, user : Users, reviewer : Users, vote : Vote]

ASSUME PeerReviewAssumption ==
  /\ IsFiniteSet(Users)
  /\ Quorum \in [Arguments -> Nat \ {0}]
  /\ MaxFailures \in Nat
  /\ None \notin Tids \cup Users \cup Arguments \cup Original

VARIABLES
  argument,    \* app_arguments row: absent, live or (soft-)deleted
  status,      \* app_arguments.peerreview_status
  review,      \* app_peerreviews.state, "none" before the row is seeded
  expired,     \* the arguments whose grace_until lies in the past
  rowLock,     \* holder of the FOR UPDATE lock on the app_peerreviews row
  invitation,  \* app_peerreview_invitations.invited, per argument and user
  checkedIn,   \* the users with checked_in_at set, per argument
  original,    \* the response record in a participant's own repo
  stage,       \* how far an original has come, up to its queue row's status
  writer,      \* the row a community-writer instance works on
  community,   \* community repo: the original a published response names
  response,    \* app_peerreview_responses, per argument and reviewer_did: the
               \* original a row comes from
  uncounted,   \* history: the arguments with a row that an invitation made
               \* count and no quorum check has seen since
  indexer,     \* what an indexer still has to do for the event in hand
  finaliser,   \* per argument, what the running finaliser holds for it
  failures     \* crashes and failed calls so far

reviewVars == <<argument, status, review, expired, rowLock>>
reviewerVars == <<invitation, checkedIn>>
recordVars == <<original, stage, writer, community>>
vars == <<argument, status, review, expired, rowLock, invitation, checkedIn,
          original, stage, writer, community, response, uncounted, indexer,
          finaliser, failures>>

Idle == [step |-> "idle", arg |-> None]
NoJob == [step |-> "idle", tid |-> None]

TypeOK ==
  /\ argument \in [Arguments -> {"absent", "live", "deleted"}]
  /\ status \in [Arguments -> {"preliminary", "approved", "rejected"}]
  /\ review \in [Arguments -> {"none", "open", "provisional_closed", "closed"}]
  /\ expired \in SUBSET Arguments
  /\ rowLock \in [Arguments -> Users \cup {None}]
  /\ invitation \in [Arguments -> [Users -> {"none", "passed_over", "invited"}]]
  /\ checkedIn \in [Arguments -> SUBSET Users]
  /\ original \in [Tids -> Original \cup {None}]
  /\ stage \in [Tids -> {"unused", "cleared", "in_repo", "pending", "done",
                         "rejected"}]
  /\ writer \in [Writers -> {NoJob} \cup
       [step : {"gated", "absent", "published"}, tid : Tids]]
  /\ community \in [Arguments -> [Users -> Tids \cup {None}]]
  /\ response \in [Arguments -> [Users -> Tids \cup {None}]]
  /\ uncounted \in SUBSET Arguments
  /\ indexer \in [Indexers -> {Idle} \cup [step : {"seed", "count", "flip"},
                                           arg : Arguments]]
  /\ finaliser \in [Arguments -> {"idle", "todo", "approved", "rejected"}]
  /\ failures \in 0..MaxFailures

Init ==
  /\ argument = [a \in Arguments |-> "absent"]
  /\ status = [a \in Arguments |-> "preliminary"]
  /\ review = [a \in Arguments |-> "none"]
  /\ expired = {}
  /\ rowLock = [a \in Arguments |-> None]
  /\ invitation = [a \in Arguments |-> [u \in Users |-> "none"]]
  /\ checkedIn = [a \in Arguments |-> {}]
  /\ original = [t \in Tids |-> None]
  /\ stage = [t \in Tids |-> "unused"]
  /\ writer = [w \in Writers |-> NoJob]
  /\ community = [a \in Arguments |-> [u \in Users |-> None]]
  /\ response = [a \in Arguments |-> [u \in Users |-> None]]
  /\ uncounted = {}
  /\ indexer = [i \in Indexers |-> Idle]
  /\ finaliser = [a \in Arguments |-> "idle"]
  /\ failures = 0

-----------------------------------------------------------------------------
(***************************************************************************)
(* The tally: responses joined with an issued invitation.                  *)
(***************************************************************************)
Counted(a, v) ==
  {u \in Users : /\ response[a][u] # None
                 /\ original[response[a][u]].vote = v
                 /\ invitation[a][u] = "invited"}
Approvals(a) == Cardinality(Counted(a, "APPROVE"))
Rejections(a) == Cardinality(Counted(a, "REJECT"))

Remaining(approvals, rejections, quorum) ==
  LET total == approvals + rejections
  IN  IF total >= quorum THEN 0 ELSE quorum - total
LockedApprove(approvals, rejections, quorum) ==
  approvals > rejections + Remaining(approvals, rejections, quorum)
LockedReject(approvals, rejections, quorum) ==
  rejections >= approvals + Remaining(approvals, rejections, quorum)

Triggers(approvals, rejections, quorum) ==
  \/ approvals + rejections >= quorum
  \/ LockedApprove(approvals, rejections, quorum)
  \/ LockedReject(approvals, rejections, quorum)

\* Mutant: a tie is an approval.
OutcomeOnTie(a) == IF Approvals(a) >= Rejections(a) THEN "approved" ELSE "rejected"

Outcome(a) == IF Approvals(a) > Rejections(a) THEN "approved" ELSE "rejected"

\* Mutant: the gate forgets to ask for a check-in.
GateWithoutCheckIn(a, u) ==
  /\ review[a] \in {"open", "provisional_closed"}
  /\ argument[a] = "live"
  /\ invitation[a][u] = "invited"

\* app_response_gate() returns NULL: the response may be written.
GateAllows(a, u) ==
  /\ review[a] \in {"open", "provisional_closed"}
  /\ argument[a] = "live"
  /\ invitation[a][u] = "invited"
  /\ u \in checkedIn[a]

-----------------------------------------------------------------------------
(***************************************************************************)
(* The assignment hook.  Its candidate scan saw the review open; when the  *)
(* invitation is inserted the review may have moved on.  A row that names  *)
(* the invitee may be there before; no quorum check follows.               *)
(***************************************************************************)
Assign(a, u, decision) ==
  /\ review[a] # "none"
  /\ u # AuthorOf[a]
  /\ invitation[a][u] = "none"
  /\ invitation' = [invitation EXCEPT ![a][u] = decision]
  /\ uncounted' = IF decision = "invited" /\ response[a][u] # None
                  THEN uncounted \cup {a} ELSE uncounted
  /\ UNCHANGED <<reviewVars, checkedIn, recordVars, response, indexer, finaliser,
                 failures>>

(***************************************************************************)
(* The appview API.  checkIn holds the row lock from its first SELECT to   *)
(* its commit; submit releases it before it writes to the PDS.             *)
(***************************************************************************)
BeginCheckIn(a, u) ==
  /\ rowLock[a] = None
  /\ argument[a] = "live"
  /\ \/ review[a] = "open"
     \/ review[a] = "provisional_closed" /\ u \in checkedIn[a]
  /\ invitation[a][u] = "invited"
  /\ rowLock' = [rowLock EXCEPT ![a] = u]
  /\ UNCHANGED <<argument, status, review, expired, reviewerVars, recordVars,
                 response, uncounted, indexer, finaliser, failures>>

CommitCheckIn(a, u) ==
  /\ rowLock[a] = u
  /\ checkedIn' = [checkedIn EXCEPT ![a] = @ \cup {u}]
  /\ rowLock' = [rowLock EXCEPT ![a] = None]
  /\ UNCHANGED <<argument, status, review, expired, invitation, recordVars,
                 response, uncounted, indexer, finaliser, failures>>

\* The connection breaks inside the transaction, which rolls back.
AbortCheckIn(a, u) ==
  /\ rowLock[a] = u
  /\ failures < MaxFailures
  /\ failures' = failures + 1
  /\ rowLock' = [rowLock EXCEPT ![a] = None]
  /\ UNCHANGED <<argument, status, review, expired, reviewerVars, recordVars,
                 response, uncounted, indexer, finaliser>>

\* While the review is open, activity only touches last_activity_at, which
\* nothing modelled here reads.
Activity(a, u) ==
  /\ rowLock[a] = None
  /\ argument[a] = "live"
  /\ review[a] = "provisional_closed"
  /\ u \in checkedIn[a] /\ invitation[a][u] = "invited"
  /\ expired' = expired \ {a}
  /\ UNCHANGED <<argument, status, review, rowLock, reviewerVars, recordVars,
                 response, uncounted, indexer, finaliser, failures>>

\* submit_review up to its commit: the request may now write to the PDS.
Submit(t, a, u, v) ==
  /\ stage[t] = "unused"
  /\ rowLock[a] = None
  /\ GateAllows(a, u)
  /\ response[a][u] = None
  /\ stage' = [stage EXCEPT ![t] = "cleared"]
  /\ original' = [original EXCEPT
       ![t] = [arg |-> a, user |-> u, reviewer |-> u, vote |-> v]]
  /\ UNCHANGED <<reviewVars, reviewerVars, writer, community, response,
                 uncounted, indexer, finaliser, failures>>

\* pds_create_record succeeds and the reviewer is answered 200.
WriteOriginal(t) ==
  /\ stage[t] = "cleared"
  /\ stage' = [stage EXCEPT ![t] = "in_repo"]
  /\ UNCHANGED <<reviewVars, reviewerVars, original, writer, community,
                 response, uncounted, indexer, finaliser, failures>>

\* pds_create_record raises and nothing was written.
FailOriginal(t) ==
  /\ stage[t] = "cleared"
  /\ failures < MaxFailures
  /\ failures' = failures + 1
  /\ stage' = [stage EXCEPT ![t] = "unused"]
  /\ original' = [original EXCEPT ![t] = None]
  /\ UNCHANGED <<reviewVars, reviewerVars, writer, community, response,
                 uncounted, indexer, finaliser>>

\* A response reaches the user's repo without an answer of submit: written
\* with another client, which fills the reviewer field itself, or the answer to
\* submit was lost.
WriteDirectly(t, a, u, r, v) ==
  /\ stage[t] = "unused"
  /\ stage' = [stage EXCEPT ![t] = "in_repo"]
  /\ original' = [original EXCEPT
       ![t] = [arg |-> a, user |-> u, reviewer |-> r, vote |-> v]]
  /\ UNCHANGED <<reviewVars, reviewerVars, writer, community, response,
                 uncounted, indexer, finaliser, failures>>

-----------------------------------------------------------------------------
(***************************************************************************)
(* The community-writer.  The row lock of the claim is implied by the job: *)
(* SKIP LOCKED passes over a row another instance holds.                   *)
(***************************************************************************)
Claimed(t) == \E w \in Writers : writer[w].tid = t

Pending(t) == stage[t] = "pending" /\ ~Claimed(t)

\* Mutant: a rejection gets a status the table does not know.
RejectAsError(w, t) ==
  /\ writer[w] = NoJob
  /\ Pending(t)
  /\ ~GateAllows(original[t].arg, original[t].user)
  /\ stage' = [stage EXCEPT ![t] = "error"]
  /\ UNCHANGED <<reviewVars, reviewerVars, original, writer, community,
                 response, uncounted, indexer, finaliser, failures>>

\* Mutant: only a closed review is a final no, anything else is tried again.
RejectWhenClosed(w, t) ==
  /\ writer[w] = NoJob
  /\ Pending(t)
  /\ review[original[t].arg] = "closed"
  /\ stage' = [stage EXCEPT ![t] = "rejected"]
  /\ UNCHANGED <<reviewVars, reviewerVars, original, writer, community,
                 response, uncounted, indexer, finaliser, failures>>

\* app_response_gate gives a reason, or the argument is not found.
RejectResponse(w, t) ==
  /\ writer[w] = NoJob
  /\ Pending(t)
  /\ ~GateAllows(original[t].arg, original[t].user)
  /\ stage' = [stage EXCEPT ![t] = "rejected"]
  /\ UNCHANGED <<reviewVars, reviewerVars, original, writer, community,
                 response, uncounted, indexer, finaliser, failures>>

GateResponse(w, t) ==
  /\ writer[w] = NoJob
  /\ Pending(t)
  /\ GateAllows(original[t].arg, original[t].user)
  /\ writer' = [writer EXCEPT ![w] = [step |-> "gated", tid |-> t]]
  /\ UNCHANGED <<reviewVars, reviewerVars, original, stage, community, response,
                 uncounted, indexer, finaliser, failures>>

\* get_community_record: a record of an earlier attempt, or of another original
\* of the reviewer, ends the work.
FindResponse(w) ==
  /\ writer[w].step = "gated"
  /\ LET r == original[writer[w].tid]
     IN  writer' = [writer EXCEPT ![w].step =
           IF community[r.arg][r.user] = None THEN "absent" ELSE "published"]
  /\ UNCHANGED <<reviewVars, reviewerVars, original, stage, community, response,
                 uncounted, indexer, finaliser, failures>>

\* Mutant: putRecord, an upsert, in the place of a create-only createRecord.
PutResponse(w) ==
  /\ writer[w].step = "absent"
  /\ LET r == original[writer[w].tid]
     IN  community' = [community EXCEPT ![r.arg][r.user] = writer[w].tid]
  /\ writer' = [writer EXCEPT ![w].step = "published"]
  /\ UNCHANGED <<reviewVars, reviewerVars, original, stage, response, uncounted,
                 indexer, finaliser, failures>>

\* createRecord at the composed rkey.
PublishResponse(w) ==
  /\ writer[w].step = "absent"
  /\ LET r == original[writer[w].tid]
     IN  /\ community[r.arg][r.user] = None
         /\ community' = [community EXCEPT ![r.arg][r.user] = writer[w].tid]
  /\ writer' = [writer EXCEPT ![w].step = "published"]
  /\ UNCHANGED <<reviewVars, reviewerVars, original, stage, response, uncounted,
                 indexer, finaliser, failures>>

\* createRecord is refused: another writer has created the record since the
\* lookup.  The exception rolls the transaction back and the row is retried.
LosePublication(w) ==
  /\ writer[w].step = "absent"
  /\ LET r == original[writer[w].tid]
     IN  community[r.arg][r.user] # None
  /\ writer' = [writer EXCEPT ![w] = NoJob]
  /\ UNCHANGED <<reviewVars, reviewerVars, original, stage, community, response,
                 uncounted, indexer, finaliser, failures>>

CommitResponse(w) ==
  /\ writer[w].step = "published"
  /\ stage' = [stage EXCEPT ![writer[w].tid] = "done"]
  /\ writer' = [writer EXCEPT ![w] = NoJob]
  /\ UNCHANGED <<reviewVars, reviewerVars, original, community, response,
                 uncounted, indexer, finaliser, failures>>

\* A crash or an exception: the transaction rolls back, the row stays pending,
\* and what the PDS has committed stays committed.
WriterFails(w) ==
  /\ writer[w] # NoJob
  /\ failures < MaxFailures
  /\ failures' = failures + 1
  /\ writer' = [writer EXCEPT ![w] = NoJob]
  /\ UNCHANGED <<reviewVars, reviewerVars, original, stage, community, response,
                 uncounted, indexer, finaliser>>

-----------------------------------------------------------------------------
(***************************************************************************)
(* The indexer.  Events are delivered at least once; every statement is an *)
(* autocommit query on the pool.                                           *)
(***************************************************************************)
\* Insert into app_acceptance_queue; a redelivered event finds the row.
StageResponse(t) ==
  /\ stage[t] = "in_repo"
  /\ stage' = [stage EXCEPT ![t] = "pending"]
  /\ UNCHANGED <<reviewVars, reviewerVars, original, writer, community,
                 response, uncounted, indexer, finaliser, failures>>

\* upsertArgumentDb, first statement, for a create, an update (a translation
\* was added) or a replay: a known row keeps its peerreview_status.
IndexArgument(i, a) ==
  /\ indexer[i] = Idle
  /\ argument' = [argument EXCEPT ![a] = "live"]
  /\ indexer' = [indexer EXCEPT ![i] = [step |-> "seed", arg |-> a]]
  /\ UNCHANGED <<status, review, expired, rowLock, reviewerVars, recordVars,
                 response, uncounted, finaliser, failures>>

\* upsertArgumentDb, second statement: ON CONFLICT DO NOTHING.
SeedReview(i) ==
  /\ indexer[i].step = "seed"
  /\ review' = [review EXCEPT ![indexer[i].arg] = IF @ = "none" THEN "open" ELSE @]
  /\ indexer' = [indexer EXCEPT ![i] = Idle]
  /\ UNCHANGED <<argument, status, expired, rowLock, reviewerVars, recordVars,
                 response, uncounted, finaliser, failures>>

DeleteArgument(i, a) ==
  /\ indexer[i] = Idle
  /\ a \in Deletable
  /\ argument[a] = "live"
  /\ argument' = [argument EXCEPT ![a] = "deleted"]
  /\ UNCHANGED <<status, review, expired, rowLock, reviewerVars, recordVars,
                 response, uncounted, indexer, finaliser, failures>>

\* upsertPeerreviewResponseDb for the community record of u: the row goes to the
\* reviewer the record names, unless that reviewer has one.  Only an inserted row
\* is followed by a check.
IndexResponse(i, a, u) ==
  /\ indexer[i] = Idle
  /\ community[a][u] # None
  /\ LET r == original[community[a][u]].reviewer
     IN  /\ response[a][r] = None
         /\ response' = [response EXCEPT ![a][r] = community[a][u]]
  /\ indexer' = [indexer EXCEPT ![i] = [step |-> "count", arg |-> a]]
  /\ UNCHANGED <<reviewVars, reviewerVars, recordVars, uncounted, finaliser,
                 failures>>

\* Mutant: the count of the rejections is lost.
CountApprovals(i) ==
  /\ indexer[i].step = "count"
  /\ LET a == indexer[i].arg
         closes == review[a] = "open" /\ Triggers(Approvals(a), 0, Quorum[a])
     IN  indexer' = [indexer EXCEPT ![i] =
                       IF closes THEN [step |-> "flip", arg |-> a] ELSE Idle]
  /\ uncounted' = uncounted \ {indexer[i].arg}
  /\ UNCHANGED <<reviewVars, reviewerVars, recordVars, response, finaliser,
                 failures>>

\* checkReviewQuorum up to its decision.  Its two SELECTs are one step: a review
\* another indexer closes between them only turns the guarded flip into a no-op.
CountResponses(i) ==
  /\ indexer[i].step = "count"
  /\ LET a == indexer[i].arg
         closes == /\ review[a] = "open"
                   /\ Triggers(Approvals(a), Rejections(a), Quorum[a])
     IN  indexer' = [indexer EXCEPT ![i] =
                       IF closes THEN [step |-> "flip", arg |-> a] ELSE Idle]
  /\ uncounted' = uncounted \ {indexer[i].arg}
  /\ UNCHANGED <<reviewVars, reviewerVars, recordVars, response, finaliser,
                 failures>>

\* checkReviewQuorum, the guarded UPDATE that opens the grace window.
ProvisionalClose(i) ==
  /\ indexer[i].step = "flip"
  /\ LET a == indexer[i].arg
     IN  /\ rowLock[a] = None
         /\ review' = [review EXCEPT ![a] = IF @ = "open" THEN "provisional_closed"
                                                          ELSE @]
         /\ indexer' = [indexer EXCEPT ![i] = Idle]
  /\ UNCHANGED <<argument, status, expired, rowLock, reviewerVars, recordVars,
                 response, uncounted, finaliser, failures>>

\* The handler throws or the process dies: the rest of the event is lost. A
\* replay finds the response row in place and does not check again.
IndexerFails(i) ==
  /\ indexer[i] # Idle
  /\ failures < MaxFailures
  /\ failures' = failures + 1
  /\ indexer' = [indexer EXCEPT ![i] = Idle]
  /\ UNCHANGED <<reviewVars, reviewerVars, recordVars, response, uncounted,
                 finaliser>>

-----------------------------------------------------------------------------
(***************************************************************************)
(* Time and the finaliser.                                                 *)
(***************************************************************************)
GraceExpires(a) ==
  /\ review[a] = "provisional_closed"
  /\ a \notin expired
  /\ expired' = expired \cup {a}
  /\ UNCHANGED <<argument, status, review, rowLock, reviewerVars, recordVars,
                 response, uncounted, indexer, finaliser, failures>>

Expirable ==
  {a \in expired : review[a] = "provisional_closed" /\ argument[a] = "live"}

\* One UPDATE closes every expired review and returns them.
CloseExpired ==
  /\ Expirable # {}
  /\ \A a \in Arguments : finaliser[a] = "idle"
  /\ \A a \in Expirable : rowLock[a] = None
  /\ review' = [a \in Arguments |-> IF a \in Expirable THEN "closed" ELSE review[a]]
  /\ finaliser' = [a \in Arguments |-> IF a \in Expirable THEN "todo" ELSE "idle"]
  /\ UNCHANGED <<argument, status, expired, rowLock, reviewerVars, recordVars,
                 response, uncounted, indexer, failures>>

CountOutcome(a) ==
  /\ finaliser[a] = "todo"
  /\ \A b \in Arguments : finaliser[b] \in {"idle", "todo"}
  /\ finaliser' = [finaliser EXCEPT ![a] = Outcome(a)]
  /\ UNCHANGED <<reviewVars, reviewerVars, recordVars, response, uncounted,
                 indexer, failures>>

\* Mutant: only an approval is written.
WriteApproval(a) ==
  /\ finaliser[a] \in {"approved", "rejected"}
  /\ status' = [status EXCEPT ![a] =
       IF @ = "preliminary" /\ finaliser[a] = "approved" THEN "approved" ELSE @]
  /\ finaliser' = [finaliser EXCEPT ![a] = "idle"]
  /\ UNCHANGED <<argument, review, expired, rowLock, reviewerVars, recordVars,
                 response, uncounted, indexer, failures>>

WriteOutcome(a) ==
  /\ finaliser[a] \in {"approved", "rejected"}
  /\ status' = [status EXCEPT ![a] = IF @ = "preliminary" THEN finaliser[a] ELSE @]
  /\ finaliser' = [finaliser EXCEPT ![a] = "idle"]
  /\ UNCHANGED <<argument, review, expired, rowLock, reviewerVars, recordVars,
                 response, uncounted, indexer, failures>>

\* The loop over the closed rows dies: a later tick no longer returns them.
FinaliserFails ==
  /\ \E a \in Arguments : finaliser[a] # "idle"
  /\ failures < MaxFailures
  /\ failures' = failures + 1
  /\ finaliser' = [a \in Arguments |-> "idle"]
  /\ UNCHANGED <<reviewVars, reviewerVars, recordVars, response, uncounted,
                 indexer>>

-----------------------------------------------------------------------------
Api == \E a \in Arguments, u \in Users :
         \/ \E decision \in {"passed_over", "invited"} : Assign(a, u, decision)
         \/ BeginCheckIn(a, u)
         \/ CommitCheckIn(a, u)
         \/ AbortCheckIn(a, u)
         \/ Activity(a, u)
         \/ \E t \in Tids, v \in Vote :
              \/ Submit(t, a, u, v)
              \/ \E r \in Users : WriteDirectly(t, a, u, r, v)

Repos == \E t \in Tids : WriteOriginal(t) \/ FailOriginal(t) \/ StageResponse(t)

Writing == \E w \in Writers :
             \/ \E t \in Tids : RejectResponse(w, t) \/ GateResponse(w, t)
             \/ FindResponse(w) \/ PublishResponse(w) \/ LosePublication(w)
             \/ CommitResponse(w)
             \/ WriterFails(w)

Indexing == \E i \in Indexers :
              \/ \E a \in Arguments : IndexArgument(i, a) \/ DeleteArgument(i, a)
              \/ \E a \in Arguments, u \in Users : IndexResponse(i, a, u)
              \/ SeedReview(i)
              \/ CountResponses(i)
              \/ ProvisionalClose(i)
              \/ IndexerFails(i)

Finalising == \/ CloseExpired
              \/ FinaliserFails
              \/ \E a \in Arguments :
                   GraceExpires(a) \/ CountOutcome(a) \/ WriteOutcome(a)

Next == Api \/ Repos \/ Writing \/ Indexing \/ Finalising

Spec == Init /\ [][Next]_vars

(***************************************************************************)
(* Fairness.  Loops that poll or are woken keep running (WF).  An event is *)
(* handled in the order of its repo and a waiting UPDATE gets its row lock *)
(* in the order of Postgres' lock queue: neither is passed over forever,   *)
(* although others may be served in between (SF).                          *)
(***************************************************************************)
WriterFairness ==
  /\ \A t \in Tids :
       WF_vars(\E w \in Writers : RejectResponse(w, t) \/ GateResponse(w, t))
  /\ \A w \in Writers : /\ WF_vars(FindResponse(w))
                        /\ WF_vars(PublishResponse(w) \/ LosePublication(w))
                        /\ WF_vars(CommitResponse(w))

IndexerFairness ==
  /\ \A t \in Tids : WF_vars(StageResponse(t))
  /\ \A a \in Arguments, u \in Users :
       SF_vars(\E i \in Indexers : IndexResponse(i, a, u))
  /\ \A i \in Indexers : /\ WF_vars(SeedReview(i))
                         /\ WF_vars(CountResponses(i))
                         /\ SF_vars(ProvisionalClose(i))

FinaliserFairness ==
  /\ SF_vars(CloseExpired)
  /\ \A a \in Arguments : /\ WF_vars(GraceExpires(a))
                          /\ WF_vars(CountOutcome(a))
                          /\ WF_vars(WriteOutcome(a))

FairSpec == /\ Spec
            /\ WriterFairness
            /\ IndexerFairness
            /\ FinaliserFairness
            /\ \A a \in Arguments, u \in Users : WF_vars(CommitCheckIn(a, u))

-----------------------------------------------------------------------------
(***************************************************************************)
(* Safety.                                                                 *)
(***************************************************************************)
\* Every row of app_peerreview_responses, whatever reviewer it names, is the
\* published response of a participant who was drawn by the lottery, has checked
\* in and is not the author, and nobody has two: nothing reaches the table around
\* app_response_gate, and no retry or second original is counted once more.
VotesComeFromCheckedIn ==
  \A a \in Arguments, r \in Users : response[a][r] # None =>
    LET owner == original[response[a][r]].user
    IN  /\ original[response[a][r]].arg = a
        /\ invitation[a][owner] = "invited" /\ owner \in checkedIn[a]
        /\ owner # AuthorOf[a]
        /\ \A s \in Users \ {r} : response[a][s] # None =>
             original[response[a][s]].user # owner

\* A review leaves 'open' only when the quorum is met or one side can no
\* longer lose at the quorum, and later votes cannot undo that: the reference
\* is the majority of the quorum, not the arithmetic of checkReviewQuorum.
ClosedOnlyWhenDecided ==
  \A a \in Arguments : review[a] \in {"provisional_closed", "closed"} =>
    \/ Approvals(a) + Rejections(a) >= Quorum[a]
    \/ 2 * Approvals(a) > Quorum[a]
    \/ 2 * Rejections(a) >= Quorum[a]

\* A terminal outcome exists only on a review that was closed: whatever the
\* indexer replays, and however finaliser passes fail in between.
OutcomeOnlyAfterClose ==
  \A a \in Arguments : status[a] # "preliminary" => review[a] = "closed"

\* A queue row marked done has its community record, whatever crash came
\* between the PDS write and the commit.
DoneIsPublished ==
  \A t \in Tids : stage[t] = "done" =>
    community[original[t].arg][original[t].user] # None

\* As long as nothing failed, a response the queue calls rejected was not
\* published: two writers never work on one row.
RejectedIsUnpublished ==
  failures = 0 => \A t \in Tids : stage[t] = "rejected" =>
    community[original[t].arg][original[t].user] # t

\* As long as nothing failed, an open review whose votes suffice has an indexer
\* that is about to close it, unless a vote only began to count with a later
\* invitation.
OpenMeansUndecided ==
  failures = 0 => \A a \in Arguments \ uncounted :
    (review[a] = "open" /\ Triggers(Approvals(a), Rejections(a), Quorum[a])) =>
       \E i \in Indexers : indexer[i].step \in {"count", "flip"} /\ indexer[i].arg = a

\* As long as nothing failed, a closed review without an outcome is in the
\* hands of the finaliser.
ClosedMeansDecided ==
  failures = 0 => \A a \in Arguments :
    (review[a] = "closed" /\ status[a] = "preliminary") => finaliser[a] # "idle"

(***************************************************************************)
(* What a step may never do.                                               *)
(***************************************************************************)
\* Once a review has left 'open', nobody new checks in: not even a check-in
\* that read the state before the flip.
NoLateCheckIn ==
  [][\A a \in Arguments : review[a] \in {"provisional_closed", "closed"} =>
        checkedIn'[a] = checkedIn[a]]_vars

\* A published vote and its projection never change and never disappear: a
\* second original of the same reviewer, or a retry, cannot replace the first.
VotesAreFinal ==
  [][\A a \in Arguments, u \in Users :
        /\ community[a][u] # None => community'[a][u] = community[a][u]
        /\ response[a][u] # None => response'[a][u] = response[a][u]]_vars

\* A review only moves open -> provisional_closed -> closed, and an outcome,
\* once written, stays: a replayed argument event resets neither.
LifecycleMovesForward ==
  [][\A a \in Arguments :
        /\ review[a] = "open" => review'[a] \in {"open", "provisional_closed"}
        /\ review[a] = "provisional_closed" =>
             review'[a] \in {"provisional_closed", "closed"}
        /\ review[a] = "closed" => review'[a] = "closed"
        /\ status[a] # "preliminary" => status'[a] = status[a]]_vars

(***************************************************************************)
(* Liveness, in executions without failures.                               *)
(***************************************************************************)
\* Every response that reaches a user's repo is published or rejected.
ResponsesAreResolved ==
  \A t \in Tids : stage[t] = "in_repo" ~> stage[t] \in {"done", "rejected"}

\* Votes that suffice, as a quorum check counts them, close the review.
DecidedReviewCloses ==
  \A a \in Arguments :
    (Triggers(Approvals(a), Rejections(a), Quorum[a]) /\ a \notin uncounted)
      ~> review[a] # "open"

\* A review in its grace window gets its outcome, unless reviewers keep
\* sliding the window or the argument is deleted.
ActivityStops == <>[][\A a \in expired : a \in expired']_vars
GraceEndsInOutcome ==
  ActivityStops => \A a \in Arguments :
    review[a] = "provisional_closed" ~>
      (status[a] # "preliminary" \/ argument[a] = "deleted")
-----------------------------------------------------------------------------
(***************************************************************************)
(* Refinement.  A vote of the abstract review is a response that counts:   *)
(* its row is projected and the reviewer the row names is invited.  It is  *)
(* the vote of the participant whose repo it came from.  A verdict is what *)
(* the finaliser has counted.                                              *)
(***************************************************************************)
IsCounted(a, t) ==
  /\ t # None
  /\ response[a][original[t].reviewer] = t
  /\ invitation[a][original[t].reviewer] = "invited"
VotesOf(a) == [u \in Users |-> IF IsCounted(a, community[a][u])
                               THEN original[community[a][u]].vote ELSE "none"]
VerdictOn(a) == IF finaliser[a] = "todo" \/ finaliser[a] = "idle" THEN "none"
                ELSE finaliser[a]

Lifecycle == INSTANCE ReviewLifecycle WITH
  phase <- review,
  admitted <- checkedIn,
  votes <- [a \in Arguments |-> VotesOf(a)],
  verdict <- [a \in Arguments |-> VerdictOn(a)],
  outcome <- status

\* Whatever the five programs interleave, and whichever of them dies: only
\* admitted reviewers vote, once; the grace window opens on decisive votes;
\* the outcome is the majority of the votes at a moment after the close.
ImplementsLifecycle == Lifecycle!Spec

-----------------------------------------------------------------------------
(***************************************************************************)
(* What comments of the repository say and the code does not keep.         *)
(***************************************************************************)
\* db-setup.sql on the finaliser: the SQL that closes a review also writes its
\* outcome.  So a closed review no finaliser holds has its outcome.
ClosedIsDecided ==
  \A a \in Arguments :
    (review[a] = "closed" /\ finaliser[a] = "idle") => status[a] # "preliminary"
=============================================================================
