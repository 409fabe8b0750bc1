------------------------------ MODULE Acceptance ------------------------------
(***************************************************************************)
(* Arguments on their way from a user's repo into the community repo, and  *)
(* the quota they are counted against:                                     *)
(*                                                                         *)
(*   - create_argument in the appview reserves a ledger slot, writes the   *)
(*     original into the user's repo, and names it on the slot or gives    *)
(*     the slot back;                                                      *)
(*   - the indexer stages every original it sees in the acceptance queue;  *)
(*   - each community-writer drains the queue, one transaction per row:    *)
(*     gate, quota, create-only write to the community repo, commit.       *)
(*                                                                         *)
(* All state is that of ONE (user, ballot): caps, ledger rows and advisory *)
(* lock of another key are disjoint.  A step is one statement that others  *)
(* can observe, one transaction whose statements they cannot tell apart,   *)
(* or one call to the PDS.  Simplifications:                               *)
(*   - an original is a member of Tids, standing for its at-uri;           *)
(*   - a ledger row is named after the request that reserved it, or after  *)
(*     the original a writer counted, and only knows whether it is younger *)
(*     than 24 hours;                                                      *)
(*   - Unfit originals stand for not_eligible, no_community_account and    *)
(*     no_record.                                                          *)
(* Bounds: Requests, Tids, MaxFailures (appview), MaxCrashes (writer).     *)
(***************************************************************************)
EXTENDS Integers, FiniteSets, SequencesExt

CONSTANTS
  Requests,     \* calls of create_argument by the user for the ballot
  Tids,         \* at-uris of the user's originals
  Unfit,        \* originals the gate refuses whatever the quota
  Writers,      \* community-writer instances
  DailyLimit,   \* APPVIEW_ARGUMENT_DAILY_LIMIT
  BallotLimit,  \* APPVIEW_ARGUMENT_BALLOT_LIMIT
  MaxFailures,  \* bound on failed calls and crashes of the appview
  MaxCrashes,   \* bound on failed calls and crashes of a writer
  None

ASSUME AcceptanceAssumption ==
  /\ IsFiniteSet(Requests) /\ IsFiniteSet(Tids)
  /\ Requests \cap Tids = {}
  /\ Unfit \subseteq Tids
  /\ {DailyLimit, BallotLimit, MaxFailures, MaxCrashes} \subseteq Nat
  /\ None \notin Requests \cup Tids \cup Writers

Rows == Requests \cup Tids

VARIABLES
  request,   \* a request and the original its createRecord call wrote
  row,       \* app_content_creations: none, recent or old, per row
  uri,       \* the uri column of a request's row
  stage,     \* an original: unused, in_repo, then its queue row's status
  queue,     \* the queue rows, oldest first
  writer,    \* the row a writer works on, and whether it inserted a ledger row
  lock,      \* the writer whose transaction holds the advisory lock
  community, \* the originals that have their community record
  failures,
  crashes

appview == <<request, row, uri, failures>>
vars == <<request, row, uri, stage, queue, writer, lock, community, failures,
          crashes>>

NoJob == [step |-> "idle", tid |-> None, counted |-> FALSE]

TypeOK ==
  /\ request \in [Requests ->
       [step : {"new", "reserved", "written", "failed", "answered", "refused",
                "dead"},
        tid : Tids \cup {None}]]
  /\ row \in [Rows -> {"none", "recent", "old"}]
  /\ uri \in [Requests -> Tids \cup {None}]
  /\ stage \in [Tids -> {"unused", "in_repo", "pending", "done", "rejected"}]
  /\ queue \in Seq(Tids)
  /\ writer \in [Writers -> {NoJob} \cup
       [step : {"absent", "unledgered", "locked", "cleared", "published"},
        tid : Tids, counted : BOOLEAN]]
  /\ lock \in Writers \cup {None}
  /\ community \in SUBSET Tids
  /\ failures \in 0..MaxFailures
  /\ crashes \in 0..MaxCrashes

Init ==
  /\ request = [r \in Requests |-> [step |-> "new", tid |-> None]]
  /\ row = [x \in Rows |-> "none"]
  /\ uri = [r \in Requests |-> None]
  /\ stage = [t \in Tids |-> "unused"]
  /\ queue = << >>
  /\ writer = [w \in Writers |-> NoJob]
  /\ lock = None
  /\ community = {}
  /\ failures = 0
  /\ crashes = 0

-----------------------------------------------------------------------------
(***************************************************************************)
(* The ledger.                                                             *)
(***************************************************************************)
Held == {x \in Rows : row[x] # "none"}
Recent == {x \in Rows : row[x] = "recent"}

CapReached == \/ Cardinality(Recent) >= DailyLimit
              \/ Cardinality(Held) >= BallotLimit

\* A committed row names t: SELECT 1 ... WHERE uri = t.
Named(t) == \/ row[t] # "none"
            \/ \E r \in Requests : row[r] # "none" /\ uri[r] = t

\* A transaction has inserted a row that names t and has not committed it.
BeingNamed(t) == \E w \in Writers : writer[w].tid = t /\ writer[w].counted

\* A row turns 24 hours old.
Age(x) ==
  /\ row[x] = "recent"
  /\ row' = [row EXCEPT ![x] = "old"]
  /\ UNCHANGED <<request, uri, stage, queue, writer, lock, community, failures,
                 crashes>>

-----------------------------------------------------------------------------
(***************************************************************************)
(* create_argument in the appview.                                         *)
(***************************************************************************)
\* Mutant: count and insert run without the advisory lock.
ReserveUnlocked(r) ==
  /\ request[r].step = "new"
  /\ ~CapReached
  /\ request' = [request EXCEPT ![r].step = "reserved"]
  /\ row' = [row EXCEPT ![r] = "recent"]
  /\ UNCHANGED <<uri, stage, queue, writer, lock, community, failures, crashes>>

Reserve(r) ==
  /\ request[r].step = "new"
  /\ lock = None
  /\ ~CapReached
  /\ request' = [request EXCEPT ![r].step = "reserved"]
  /\ row' = [row EXCEPT ![r] = "recent"]
  /\ UNCHANGED <<uri, stage, queue, writer, lock, community, failures, crashes>>

\* QuotaExceeded: 429.
RefuseReserve(r) ==
  /\ request[r].step = "new"
  /\ lock = None
  /\ CapReached
  /\ request' = [request EXCEPT ![r].step = "refused"]
  /\ UNCHANGED <<row, uri, stage, queue, writer, lock, community, failures, crashes>>

WriteRecord(r, t) ==
  /\ request[r].step = "reserved"
  /\ stage[t] = "unused"
  /\ stage' = [stage EXCEPT ![t] = "in_repo"]
  /\ request' = [request EXCEPT ![r] = [step |-> "written", tid |-> t]]
  /\ UNCHANGED <<row, uri, queue, writer, lock, community, failures, crashes>>

\* pds_create_record raises before anything is written.
FailWrite(r) ==
  /\ request[r].step = "reserved"
  /\ failures < MaxFailures
  /\ failures' = failures + 1
  /\ request' = [request EXCEPT ![r].step = "failed"]
  /\ UNCHANGED <<row, uri, stage, queue, writer, lock, community, crashes>>

\* pds_create_record raises, a time-out, although the record was written.
LoseAnswer(r, t) ==
  /\ request[r].step = "reserved"
  /\ stage[t] = "unused"
  /\ failures < MaxFailures
  /\ failures' = failures + 1
  /\ stage' = [stage EXCEPT ![t] = "in_repo"]
  /\ request' = [request EXCEPT ![r] = [step |-> "failed", tid |-> t]]
  /\ UNCHANGED <<row, uri, queue, writer, lock, community, crashes>>

Release(r) ==
  /\ request[r].step = "failed"
  /\ row' = [row EXCEPT ![r] = "none"]
  /\ request' = [request EXCEPT ![r].step = "refused"]
  /\ UNCHANGED <<uri, stage, queue, writer, lock, community, failures, crashes>>

\* Mutant: a name that is taken is tried again instead of logged.
SetUriRetrying(r) ==
  /\ request[r].step = "written"
  /\ ~BeingNamed(request[r].tid) /\ ~Named(request[r].tid)
  /\ uri' = [uri EXCEPT ![r] = request[r].tid]
  /\ request' = [request EXCEPT ![r].step = "answered"]
  /\ UNCHANGED <<row, stage, queue, writer, lock, community, failures, crashes>>

\* The UPDATE waits for a transaction that has inserted the same uri.  UNIQUE
\* makes it fail when that one committed: the error is logged, the row stays
\* without a name, and the answer is 200 all the same.
SetUri(r) ==
  /\ request[r].step = "written"
  /\ ~BeingNamed(request[r].tid)
  /\ uri' = [uri EXCEPT ![r] = IF Named(request[r].tid) THEN @ ELSE request[r].tid]
  /\ request' = [request EXCEPT ![r].step = "answered"]
  /\ UNCHANGED <<row, stage, queue, writer, lock, community, failures, crashes>>

\* The appview dies between two steps, or release or set_uri fail.
RequestDies(r) ==
  /\ request[r].step \in {"reserved", "written", "failed"}
  /\ failures < MaxFailures
  /\ failures' = failures + 1
  /\ request' = [request EXCEPT ![r].step = "dead"]
  /\ UNCHANGED <<row, uri, stage, queue, writer, lock, community, crashes>>

\* Around the appview, with any client of the PDS.
WriteDirectly(t) ==
  /\ stage[t] = "unused"
  /\ stage' = [stage EXCEPT ![t] = "in_repo"]
  /\ UNCHANGED <<appview, queue, writer, lock, community, crashes>>

\* stageForAcceptance; a redelivered event finds its row.
Stage(t) ==
  /\ stage[t] = "in_repo"
  /\ stage' = [stage EXCEPT ![t] = "pending"]
  /\ queue' = Append(queue, t)
  /\ UNCHANGED <<appview, writer, lock, community, crashes>>

-----------------------------------------------------------------------------
(***************************************************************************)
(* The community-writer.                                                   *)
(***************************************************************************)
Claimed(t) == \E w \in Writers : writer[w].tid = t

Free(t) == stage[t] = "pending" /\ ~Claimed(t)

\* ORDER BY created_at FOR UPDATE SKIP LOCKED LIMIT 1.
Oldest(t) ==
  \E n \in DOMAIN queue :
    /\ queue[n] = t /\ Free(t)
    /\ \A m \in 1..(n - 1) : ~Free(queue[m])

Decide(t, decision) ==
  /\ stage' = [stage EXCEPT ![t] = decision]
  /\ UNCHANGED queue

RejectUnfit(w, t) ==
  /\ writer[w] = NoJob
  /\ Oldest(t) /\ t \in Unfit
  /\ Decide(t, "rejected")
  /\ UNCHANGED <<appview, writer, lock, community, crashes>>

\* Claim, gate, and getRecord: a record that is there already, from an attempt
\* that was not committed, ends the work.
Claim(w, t) ==
  /\ writer[w] = NoJob
  /\ Oldest(t) /\ t \notin Unfit
  /\ writer' = [writer EXCEPT ![w] =
       [step |-> IF t \in community THEN "published" ELSE "absent",
        tid |-> t, counted |-> FALSE]]
  /\ UNCHANGED <<appview, stage, queue, lock, community, crashes>>

\* _enforce_argument_quota: a row that names the original was counted before.
CheckLedger(w) ==
  /\ writer[w].step = "absent"
  /\ writer' = [writer EXCEPT ![w].step =
       IF Named(writer[w].tid) THEN "cleared" ELSE "unledgered"]
  /\ UNCHANGED <<appview, stage, queue, lock, community, crashes>>

LockQuota(w) ==
  /\ writer[w].step = "unledgered"
  /\ lock = None
  /\ lock' = w
  /\ writer' = [writer EXCEPT ![w].step = "locked"]
  /\ UNCHANGED <<appview, stage, queue, community, crashes>>

RefuseQuota(w) ==
  /\ writer[w].step = "locked"
  /\ CapReached
  /\ Decide(writer[w].tid, "rejected")
  /\ writer' = [writer EXCEPT ![w] = NoJob]
  /\ lock' = None
  /\ UNCHANGED <<appview, community, crashes>>

\* INSERT ... ON CONFLICT (uri) DO NOTHING, seen by others after the commit.
CountQuota(w) ==
  /\ writer[w].step = "locked"
  /\ ~CapReached
  /\ writer' = [writer EXCEPT ![w].step = "cleared",
                              ![w].counted = ~Named(writer[w].tid)]
  /\ UNCHANGED <<appview, stage, queue, lock, community, crashes>>

\* Mutant: the row is decided before the community record is written.
PublishLater(w) ==
  /\ writer[w].step = "cleared"
  /\ writer' = [writer EXCEPT ![w].step = "published"]
  /\ UNCHANGED <<appview, stage, queue, lock, community, crashes>>

Publish(w) ==
  /\ writer[w].step = "cleared"
  /\ community' = community \cup {writer[w].tid}
  /\ writer' = [writer EXCEPT ![w].step = "published"]
  /\ UNCHANGED <<appview, stage, queue, lock, crashes>>

\* Mutant: an error status that the CHECK constraint does not know.
CommitAsAccepted(w) ==
  /\ writer[w].step = "published"
  /\ Decide(writer[w].tid, "accepted")
  /\ row' = [row EXCEPT ![writer[w].tid] = IF writer[w].counted THEN "recent" ELSE @]
  /\ writer' = [writer EXCEPT ![w] = NoJob]
  /\ lock' = IF lock = w THEN None ELSE lock
  /\ UNCHANGED <<request, uri, community, failures, crashes>>

Commit(w) ==
  /\ writer[w].step = "published"
  /\ Decide(writer[w].tid, "done")
  /\ row' = [row EXCEPT ![writer[w].tid] = IF writer[w].counted THEN "recent" ELSE @]
  /\ writer' = [writer EXCEPT ![w] = NoJob]
  /\ lock' = IF lock = w THEN None ELSE lock
  /\ UNCHANGED <<request, uri, community, failures, crashes>>

\* Mutant: a failed attempt keeps its advisory lock, taken per session.
FailKeepingLock(w) ==
  /\ writer[w] # NoJob
  /\ crashes < MaxCrashes
  /\ crashes' = crashes + 1
  /\ writer' = [writer EXCEPT ![w] = NoJob]
  /\ UNCHANGED <<appview, stage, queue, lock, community>>

\* The rollback takes back the claim, the lock and the ledger row, but not a
\* community record the PDS has committed.
WriterFails(w) ==
  /\ writer[w] # NoJob
  /\ crashes < MaxCrashes
  /\ crashes' = crashes + 1
  /\ writer' = [writer EXCEPT ![w] = NoJob]
  /\ lock' = IF lock = w THEN None ELSE lock
  /\ UNCHANGED <<appview, stage, queue, community>>

-----------------------------------------------------------------------------
Creating ==
  \/ \E r \in Requests : \/ Reserve(r) \/ RefuseReserve(r)
                         \/ FailWrite(r) \/ Release(r) \/ SetUri(r) \/ RequestDies(r)
                         \/ \E t \in Tids : WriteRecord(r, t) \/ LoseAnswer(r, t)
  \/ \E t \in Tids : WriteDirectly(t) \/ Stage(t)
  \/ \E x \in Rows : Age(x)

Draining ==
  \E w \in Writers :
    \/ \E t \in Tids : RejectUnfit(w, t) \/ Claim(w, t)
    \/ CheckLedger(w) \/ LockQuota(w) \/ RefuseQuota(w) \/ CountQuota(w)
    \/ Publish(w) \/ Commit(w) \/ WriterFails(w)

Next == Creating \/ Draining

Spec == Init /\ [][Next]_vars

(***************************************************************************)
(* Fairness.  The drain loop is woken by NOTIFY and polls besides; a       *)
(* transaction that waits for the advisory lock is queued, so it gets it   *)
(* although others may hold it in between; a request runs to its end.      *)
(***************************************************************************)
Fairness ==
  /\ \A t \in Tids : WF_vars(Stage(t))
  /\ WF_vars(\E w \in Writers, t \in Tids : RejectUnfit(w, t) \/ Claim(w, t))
  /\ \A w \in Writers : /\ WF_vars(CheckLedger(w))
                        /\ SF_vars(LockQuota(w))
                        /\ WF_vars(CountQuota(w) \/ RefuseQuota(w))
                        /\ WF_vars(Publish(w))
                        /\ WF_vars(Commit(w))
  /\ \A r \in Requests : WF_vars(Release(r)) /\ SF_vars(SetUri(r))

FairSpec == Spec /\ Fairness

-----------------------------------------------------------------------------
(***************************************************************************)
(* Safety.                                                                 *)
(***************************************************************************)
\* Rows and rows about to be committed stay within both caps, although two
\* programs insert them.
LedgerWithinCaps ==
  LET inserted == Cardinality({w \in Writers : writer[w].counted})
  IN  /\ Cardinality(Recent) + inserted <= DailyLimit
      /\ Cardinality(Held) + inserted <= BallotLimit

\* As long as no writer fails, no more arguments are published than the cap
\* allows, whichever way they came and whatever happens to the appview.
PublishedWithinCap == crashes = 0 => Cardinality(community) <= BallotLimit

\* A queue row marked done has its community record.
DoneIsPublished == \A t \in Tids : stage[t] = "done" => t \in community

\* An argument the queue calls rejected is not in the community repo, also
\* when an earlier attempt had written it and died.
RejectedIsUnpublished == \A t \in Tids : stage[t] = "rejected" => t \notin community

\* Every pending original is decided, whatever fails a bounded number of times.
OriginalsAreDecided ==
  \A t \in Tids : stage[t] = "in_repo" ~> stage[t] \in {"done", "rejected"}

\* A request whose record is written is answered, though its last statement may
\* have to wait for a writer.
WrittenIsAnswered ==
  \A r \in Requests :
    request[r].step = "written" ~> request[r].step \in {"answered", "dead"}

-----------------------------------------------------------------------------
(***************************************************************************)
(* What comments of the repository say and the code does not keep.         *)
(***************************************************************************)
\* acceptance.py on the quota: the cap holds regardless of the entry path.
CapHolds == Cardinality(community) <= BallotLimit
=============================================================================
