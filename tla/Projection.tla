----------------------------- MODULE Projection -----------------------------
(***************************************************************************)
(* The indexer's read model of one argument: its row, the ratings and      *)
(* comments users keep in their own repos, the sidecar translations of the *)
(* comments in the community repo, and what is derived from them: the like *)
(* and comment counts on the argument, the translation status of a         *)
(* comment.  A comment takes its ballot from the row of its argument: the  *)
(* columns are NOT NULL, without that row the insert is refused.           *)
(*                                                                         *)
(* Two consumers apply the same commits: the live firehose subscription    *)
(* and the backfill.  Each takes the commits of one repo in order and      *)
(* those of different repos at once; every statement of a handler commits  *)
(* by itself.  A derived value is read and written in two steps: under     *)
(* READ COMMITTED the subquery of refreshLikeCount sees the rows as they   *)
(* were when the UPDATE began, before it got the lock on the row, and      *)
(* recomputeCommentTranslationStatus is three statements.                  *)
(*                                                                         *)
(* Simplifications: a record stands for its at-uri; the sidecars of a      *)
(* comment are one per missing language; ratings of a comment are handled  *)
(* like those of the argument and left out.  A put that moves a record to  *)
(* another argument is an act of its own; that argument is there, and its  *)
(* author has not rated it.                                                *)
(* Bounds: MaxCommits of users, MaxTranslated commits of the community,     *)
(* MaxFaults (failed statements, crashes).                               *)
(***************************************************************************)
EXTENDS Integers, FiniteSets, SequencesExt

CONSTANTS
  Argument,    \* the argument's record in the community repo
  Ratings,     \* rating records; one of an author is at the appview's rkey
  Comments,
  Sidecars,    \* comment.translation records in the community repo
  Author,      \* the author of a rating or comment
  Subject,     \* the comment of a sidecar
  Canonical,   \* the ratings the appview writes: rkey derived from the subject
  Users,
  Ineligible,  \* users without an account here
  Community,
  Live, Backfill,
  MaxCommits, MaxTranslated, MaxFaults

ASSUME ProjectionAssumption ==
  /\ Author \in [Ratings \cup Comments -> Users]
  /\ Subject \in [Sidecars -> Comments]
  /\ Canonical \subseteq Ratings
  /\ Ratings \cap Comments = {} /\ Sidecars \cap (Ratings \cup Comments) = {}
  /\ Argument \notin Ratings \cup Comments \cup Sidecars
  /\ Community \notin Users
  /\ IsFiniteSet(Users) /\ IsFiniteSet(Comments)
  /\ Live # Backfill
  /\ {MaxCommits, MaxTranslated, MaxFaults} \subseteq Nat

Consumers == {Live, Backfill}
Repos == Users \cup {Community}
Records == {Argument} \cup Ratings \cup Comments \cup Sidecars
Repo(r) == IF r \in DOMAIN Author THEN Author[r] ELSE Community

VARIABLES
  log,      \* the commits of a repo, [rec, act], oldest first
  pos,      \* how many commits of a repo a consumer has handled
  job,      \* the commit after them: the next statement of its handler
  row,      \* a record's row: none, live, deleted, or moved to another argument
  status,   \* translation_status of a comment
  count,    \* like_count and comment_count of the argument's row
  backfill, \* new, running, stopped by an error, ending, or finished for good
  known,    \* whether communityDids holds the community
  spoilt,   \* history: derived values two refreshes of which overlapped, whose row
            \* was not there yet, a rating of which was stored and then ignored, or
            \* a record of which moved away
  lost,     \* history: records a commit of which was dropped, by an error or unknown
  unread,   \* history: records a commit of which the backfill left when it ended
  faults

stores == <<row, status, count, spoilt>>
vars == <<log, pos, job, row, status, count, backfill, known, spoilt, lost,
          unread, faults>>

Acts == {"put", "move", "delete"}

Statuses == {"pending", "partial", "complete"}
Idle == [step |-> "idle", seen |-> "nothing"]

TypeOK ==
  /\ log \in [Repos -> Seq([rec : Records, act : Acts])]
  /\ pos \in [Consumers -> [Repos -> Nat]]
  /\ \A c \in Consumers, d \in Repos :
       /\ pos[c][d] <= Len(log[d])
       /\ job[c][d].step \in {"idle", "store", "status", "write_status", "count",
                              "write_count"}
       /\ job[c][d].step # "idle" => pos[c][d] < Len(log[d])
  /\ row \in [Records -> {"none", "live", "moved", "deleted"}]
  /\ status \in [Comments -> Statuses]
  /\ count \in [{"likes", "comments"} -> Nat]
  /\ backfill \in {"new", "running", "stopped", "ending", "finished"}
  /\ known \in BOOLEAN
  /\ spoilt \in SUBSET {"likes", "comments", "status"}
  /\ lost \in SUBSET Records
  /\ unread \in SUBSET Records
  /\ faults \in 0..MaxFaults

\* The process starts.  When the first refreshCommunityDids fails, it starts with no
\* community, and that is one of the faults.
Unloaded(loaded) == IF loaded THEN 0 ELSE 1

Init ==
  /\ log = [d \in Repos |-> IF d = Community THEN <<[rec |-> Argument, act |-> "put"]>>
                                             ELSE << >>]
  /\ pos = [c \in Consumers |-> [d \in Repos |-> 0]]
  /\ job = [c \in Consumers |-> [d \in Repos |-> Idle]]
  /\ row = [r \in Records |-> "none"]
  /\ status = [x \in Comments |-> "pending"]
  /\ count = [k \in {"likes", "comments"} |-> 0]
  /\ backfill = "new"
  /\ known \in BOOLEAN
  /\ spoilt = {} /\ lost = {} /\ unread = {}
  /\ faults = Unloaded(known) /\ faults <= MaxFaults

-----------------------------------------------------------------------------
(***************************************************************************)
(* The repos.                                                              *)
(***************************************************************************)
\* The last commit of r's repo about r put it there, on the argument.
InRepo(r) ==
  LET about == {i \in DOMAIN log[Repo(r)] : log[Repo(r)][i].rec = r}
  IN  about # {} /\ log[Repo(r)][CHOOSE i \in about : \A j \in about : j <= i].act = "put"

Commits(r, act) ==
  /\ log' = [log EXCEPT ![Repo(r)] = Append(@, [rec |-> r, act |-> act])]
  /\ UNCHANGED <<pos, job, stores, backfill, known, lost, unread, faults>>

\* How many commits the users have made.
Written == Cardinality(UNION {{d} \X DOMAIN log[d] : d \in Users})

\* content.rating puts: rating again overwrites in place.
CreateLike(r) == r \in Canonical /\ Commits(r, "put")

\* content.unrating, and a client that deletes its comment.
Retract(r) == r \in DOMAIN Author /\ InRepo(r) /\ Commits(r, "delete")

\* comment.create: only on an argument that readers see.
CreateComment(x) ==
  /\ row[Argument] = "live"
  /\ ~InRepo(x)
  /\ Commits(x, "put")

\* Around the appview, with any client of the PDS.
WriteDirectly(r) ==
  /\ r \in (Ratings \ Canonical) \cup Comments
  /\ Commits(r, "put")

CaughtUp(c) == \A d \in Repos : job[c][d].step = "idle" /\ pos[c][d] = Len(log[d])

\* The same client points a record of its own at another argument.
MoveAway(r) == InRepo(r) /\ Commits(r, "move")

\* The translator: a comment that is not complete gets the languages it misses.
\* A pass a minute, and a model call per language: the live consumer is done with
\* what there was before.
Translate(s) ==
  /\ row[Subject[s]] = "live" /\ status[Subject[s]] # "complete"
  /\ row[s] # "live"
  /\ CaughtUp(Live) /\ Len(log[Community]) < MaxTranslated
  /\ Commits(s, "put")

-----------------------------------------------------------------------------
(***************************************************************************)
(* handleEvent.                                                            *)
(***************************************************************************)
Commit(c, d) == log[d][pos[c][d] + 1]

Done(c, d) ==
  /\ pos' = [pos EXCEPT ![c][d] = @ + 1]
  /\ job' = [job EXCEPT ![c][d] = Idle]

Then(c, d, step, seen) ==
  /\ job' = [job EXCEPT ![c][d] = [step |-> step, seen |-> seen]]
  /\ UNCHANGED pos

\* A consumer that runs begins with the next commit of a repo.
Begins(c, d) ==
  /\ c = Backfill => backfill = "running"
  /\ job[c][d].step = "idle"
  /\ pos[c][d] < Len(log[d])

Unknown(d) == d = Community /\ ~known

\* isEligibleDid, and the check for another rating of the author on the argument:
\* not for deletions.
Duplicate(r) ==
  \E q \in Ratings \ {r} : r \in Ratings /\ Author[q] = Author[r] /\ row[q] = "live"
Checked(e) == e.act # "delete" /\ e.rec \in DOMAIN Author
Skipped(e) ==
  /\ Checked(e)
  /\ Author[e.rec] \in Ineligible \/ (e.act = "put" /\ Duplicate(e.rec))

\* A commit of a community the indexer has not loaded yet is taken for a user's:
\* an argument is staged for acceptance, a sidecar ignored; neither is projected.
\* A rating that was stored before a crash can be a duplicate after it, and nobody
\* counts it.
Ignore(c, d) ==
  LET r == Commit(c, d).rec IN
  /\ Begins(c, d)
  /\ Unknown(d) \/ Skipped(Commit(c, d))
  /\ lost' = IF Unknown(d) THEN lost \cup {r} ELSE lost
  /\ spoilt' = IF ~Unknown(d) /\ row[r] = "live" THEN spoilt \cup {"likes"} ELSE spoilt
  /\ Done(c, d)
  /\ UNCHANGED <<log, row, status, count, backfill, known, unread, faults>>

\* Past the gate; upsertCommentDb looks up the ballot of the argument.
Take(c, d) ==
  /\ Begins(c, d)
  /\ Checked(Commit(c, d)) /\ ~Skipped(Commit(c, d))
  /\ Then(c, d, "store", IF row[Argument] = "live" \/ Commit(c, d).act = "move"
                         THEN "ballot" ELSE "nothing")
  /\ UNCHANGED <<log, stores, backfill, known, lost, unread, faults>>

\* Nothing is looked up before the row of a commit is written, or that is done.
Stores(c, d, act) ==
  /\ \/ job[c][d].step = "store"
     \/ Begins(c, d) /\ ~Checked(Commit(c, d)) /\ ~Unknown(d)
  /\ Commit(c, d).act = act

\* ballot_uri and ballot_rkey of a comment are NOT NULL, and its argument has no row
\* to take them from.
Refused(c, d) ==
  /\ job[c][d].step = "store" /\ job[c][d].seen = "nothing"
  /\ Commit(c, d).rec \in Comments

\* Mutant: a sidecar is stored and its comment not looked at again.
StorePutOnly(c, d) ==
  LET r == Commit(c, d).rec IN
  /\ Stores(c, d, "put")
  /\ ~Refused(c, d)
  /\ row' = [row EXCEPT ![r] = "live"]
  /\ IF r \notin DOMAIN Author THEN Done(c, d)
     ELSE Then(c, d, IF r \in Ratings THEN "count" ELSE "status", "nothing")
  /\ UNCHANGED <<log, status, count, spoilt, backfill, known, lost, unread, faults>>

\* upsertArgumentDb, upsertLikeDb, upsertCommentDb, upsertCommentTranslationDb.
StorePut(c, d) ==
  LET r == Commit(c, d).rec IN
  /\ Stores(c, d, "put")
  /\ ~Refused(c, d)
  /\ row' = [row EXCEPT ![r] = "live"]
  /\ IF r = Argument THEN Done(c, d)
     ELSE Then(c, d, IF r \in Ratings THEN "count" ELSE "status", "nothing")
  /\ UNCHANGED <<log, status, count, spoilt, backfill, known, lost, unread, faults>>

Kind(r) == IF r \in Ratings THEN "likes" ELSE "comments"

\* ON CONFLICT DO UPDATE with another subject: the row leaves the argument, and
\* only the counter of the other one is refreshed.
StoreMove(c, d) ==
  LET r == Commit(c, d).rec IN
  /\ job[c][d].step = "store" /\ Commit(c, d).act = "move"
  /\ row' = [row EXCEPT ![r] = "moved"]
  /\ spoilt' = IF row[r] \in {"live", "deleted"} THEN spoilt \cup {Kind(r)} ELSE spoilt
  /\ IF r \in Ratings THEN Done(c, d) ELSE Then(c, d, "status", "nothing")
  /\ UNCHANGED <<log, status, count, backfill, known, lost, unread, faults>>

\* Mutant: the backfill only brings back what is there.
StoreDeleteLive(c, d) ==
  LET r == Commit(c, d).rec IN
  /\ Stores(c, d, "delete")
  /\ row' = [row EXCEPT ![r] = IF @ = "none" \/ c = Backfill THEN @ ELSE "deleted"]
  /\ IF row[r] = "none" \/ r = Argument THEN Done(c, d)
     ELSE Then(c, d, IF r \in Sidecars THEN "status" ELSE "count", "nothing")
  /\ UNCHANGED <<log, status, count, spoilt, backfill, known, lost, unread, faults>>

\* Mutant: a retraction does not recount.
StoreDeleteOnly(c, d) ==
  LET r == Commit(c, d).rec IN
  /\ Stores(c, d, "delete")
  /\ row' = [row EXCEPT ![r] = IF @ = "none" THEN @ ELSE "deleted"]
  /\ Done(c, d)
  /\ UNCHANGED <<log, status, count, spoilt, backfill, known, lost, unread, faults>>

\* The mark...Deleted functions: a row that never was, or is another argument's,
\* is not this one's to recount.
StoreDelete(c, d) ==
  LET r == Commit(c, d).rec IN
  /\ Stores(c, d, "delete")
  /\ row' = [row EXCEPT ![r] = IF @ = "none" THEN @ ELSE "deleted"]
  /\ IF row[r] \in {"none", "moved"} \/ r = Argument THEN Done(c, d)
     ELSE Then(c, d, IF r \in Sidecars THEN "status" ELSE "count", "nothing")
  /\ UNCHANGED <<log, status, count, spoilt, backfill, known, lost, unread, faults>>

Overlaps(c, d, kinds, step) ==
  \E b \in Consumers, e \in Repos :
    /\ <<b, e>> # <<c, d>>
    /\ job[b][e].step = step /\ Commit(b, e).rec \in kinds

Parent(r) == IF r \in Sidecars THEN Subject[r] ELSE r

\* Mutant: a comment without sidecars has no status.
DerivedOrNone(x) ==
  LET there == {s \in Sidecars : Subject[s] = x /\ row[s] = "live"}
  IN  IF there = {} THEN "none" ELSE "complete"

Derived(x) ==
  LET wanted == {s \in Sidecars : Subject[s] = x}
      there  == {s \in wanted : row[s] = "live"}
  IN  IF there = wanted THEN "complete" ELSE IF there # {} THEN "partial" ELSE "pending"

\* recomputeCommentTranslationStatus, up to its UPDATE.  A sidecar whose comment
\* is not there yet leaves the status to the comment's own commit.
ReadStatus(c, d) ==
  LET r == Commit(c, d).rec IN
  /\ job[c][d].step = "status"
  /\ IF row[Parent(r)] = "none" THEN Done(c, d)
     ELSE Then(c, d, "write_status", Derived(Parent(r)))
  /\ spoilt' = IF Overlaps(c, d, Comments \cup Sidecars, "write_status")
               THEN spoilt \cup {"status"} ELSE spoilt
  /\ UNCHANGED <<log, row, status, count, backfill, known, lost, unread, faults>>

WriteStatus(c, d) ==
  LET r == Commit(c, d).rec IN
  /\ job[c][d].step = "write_status"
  /\ status' = [status EXCEPT ![Parent(r)] = job[c][d].seen]
  /\ IF r \in Comments /\ Commit(c, d).act = "put"
     THEN Then(c, d, "count", "nothing") ELSE Done(c, d)
  /\ UNCHANGED <<log, row, count, spoilt, backfill, known, lost, unread, faults>>

\* Mutant: count(*) without the DISTINCT.
CountedTwice(k) == Cardinality({r \in Ratings \cup Comments :
                                  row[r] = "live" /\ (r \in Ratings <=> k = "likes")})

Raters == {Author[r] : r \in {q \in Ratings : row[q] = "live"}}
Counted(k) == IF k = "likes" THEN Cardinality(Raters)
                             ELSE Cardinality({x \in Comments : row[x] = "live"})

\* refreshLikeCount, refreshCommentCount: what the subquery sees ...
ReadCount(c, d) ==
  LET k == Kind(Commit(c, d).rec) IN
  /\ job[c][d].step = "count"
  /\ Then(c, d, "write_count", Counted(k))
  /\ spoilt' = IF \/ row[Argument] = "none"
                  \/ Overlaps(c, d, {r \in Records : Kind(r) = k}, "write_count")
               THEN spoilt \cup {k} ELSE spoilt
  /\ UNCHANGED <<log, row, status, count, backfill, known, lost, unread, faults>>

\* ... and what the UPDATE writes, if the argument has a row.
WriteCount(c, d) ==
  /\ job[c][d].step = "write_count"
  /\ count' = IF row[Argument] = "none" THEN count
              ELSE [count EXCEPT ![Kind(Commit(c, d).rec)] = job[c][d].seen]
  /\ Done(c, d)
  /\ UNCHANGED <<log, row, status, spoilt, backfill, known, lost, unread, faults>>

-----------------------------------------------------------------------------
(***************************************************************************)
(* The process.                                                            *)
(***************************************************************************)
RefreshCommunityDids ==
  /\ ~known
  /\ known' = TRUE
  /\ UNCHANGED <<log, pos, job, stores, backfill, lost, unread, faults>>

\* The hourly call.  Once it has finished it never starts again.
StartBackfill ==
  /\ backfill \in {"new", "stopped"}
  /\ backfill' = "running"
  /\ UNCHANGED <<log, pos, job, stores, known, lost, unread, faults>>

\* No handler has begun for ten seconds: the stream is quiet, or slow.  Nothing is
\* begun any more, whatever is left; what has begun is waited for.
EndBackfill ==
  /\ backfill = "running"
  /\ backfill' = "ending"
  /\ UNCHANGED <<log, pos, job, stores, known, lost, unread, faults>>

\* setCursor with finished: true.
FinishBackfill ==
  /\ backfill = "ending"
  /\ \A d \in Repos : job[Backfill][d].step = "idle"
  /\ backfill' = "finished"
  /\ unread' = {r \in Records : \E i \in DOMAIN log[Repo(r)] :
                  i > pos[Backfill][Repo(r)] /\ log[Repo(r)][i].rec = r}
  /\ UNCHANGED <<log, pos, job, stores, known, lost, faults>>

\* A statement fails, or is refused.  The error is logged and the cursor moves past
\* the commit; the backfill gives up until the next call.
Fail(c, d) ==
  /\ job[c][d].step # "idle" \/ Begins(c, d)
  /\ IF Refused(c, d) THEN faults' = faults
                      ELSE faults < MaxFaults /\ faults' = faults + 1
  /\ lost' = lost \cup {Commit(c, d).rec}
  /\ Done(c, d)
  /\ backfill' = IF c = Backfill /\ backfill = "running" THEN "stopped" ELSE backfill
  /\ UNCHANGED <<log, stores, known, unread>>

\* The process dies.  The cursor is behind everything that was handled, how far
\* depends on the slowest repo: nothing handled is replayed, or all of it.
Crash ==
  /\ known' \in BOOLEAN
  /\ faults' = faults + 1 + Unloaded(known') /\ faults' <= MaxFaults
  /\ \E behind \in {{}, Repos} :
       pos' = [c \in Consumers |-> [d \in Repos |-> IF d \in behind THEN 0 ELSE pos[c][d]]]
  /\ job' = [c \in Consumers |-> [d \in Repos |-> Idle]]
  /\ backfill' = IF backfill \in {"running", "ending"} THEN "stopped" ELSE backfill
  /\ UNCHANGED <<log, stores, lost, unread>>

-----------------------------------------------------------------------------
Writing ==
  \/ /\ Written < MaxCommits
     /\ \/ \E r \in Ratings : CreateLike(r)
        \/ \E r \in Ratings \cup Comments :
             WriteDirectly(r) \/ Retract(r) \/ MoveAway(r)
        \/ \E x \in Comments : CreateComment(x)
  \/ \E s \in Sidecars : Translate(s)

Handling(c, d) ==
  \/ Ignore(c, d) \/ Take(c, d) \/ StorePut(c, d) \/ StoreMove(c, d)
  \/ StoreDelete(c, d)
  \/ ReadStatus(c, d) \/ WriteStatus(c, d) \/ ReadCount(c, d) \/ WriteCount(c, d)

Next ==
  \/ Writing
  \/ \E c \in Consumers, d \in Repos : Handling(c, d) \/ Fail(c, d)
  \/ RefreshCommunityDids \/ StartBackfill \/ EndBackfill \/ FinishBackfill
  \/ Crash

Spec == Init /\ [][Next]_vars

-----------------------------------------------------------------------------
\* The live consumer has applied everything, and a backfill that began has ended.
AtRest ==
  /\ CaughtUp(Live)
  /\ \A d \in Repos : job[Backfill][d].step = "idle"
  /\ backfill \in {"new", "finished"}

\* However often a user rates, under whatever rkeys and with two consumers that
\* both check for a duplicate before either inserts, it counts once; and a user
\* without an account not at all.
OneVotePerUser ==
  count["likes"] <= Cardinality({u \in Users \ Ineligible :
    \E i \in DOMAIN log[u] : log[u][i].rec \in Ratings /\ log[u][i].act = "put"})

\* What was retracted, or moved away, is not shown, although a replay by the
\* backfill or after a crash brings the row back to life on its way.  A backfill
\* that ends on a pause may stop half-way through what it replays.
RetractionHolds ==
  AtRest => \A r \in Records \ (lost \cup unread) : row[r] = "live" => InRepo(r)

\* No record of an eligible author is missing, except a second rating.
NothingMissing ==
  AtRest => \A r \in Records \ (lost \cup unread \cup Ratings) :
    InRepo(r) /\ Repo(r) \notin Ineligible => row[r] = "live"

\* The counts are exact, unless two refreshes overlapped, a rating was handled
\* before its argument or ignored as a duplicate when it had been stored, a record
\* moved away, or the backfill left one (after a crash it may have stored it, and
\* ended before it counted).
CountsSettle ==
  AtRest /\ lost = {} /\ row[Argument] # "none" =>
    \A k \in {"likes", "comments"} \ spoilt :
      (\A r \in unread \cap DOMAIN Author : Kind(r) # k) => count[k] = Counted(k)

\* The status is that of the sidecars there are, in whatever order a comment and
\* its sidecars are handled, unless two recomputations overlapped or the backfill
\* left one of them.
StatusSettles ==
  AtRest /\ lost = {} /\ "status" \notin spoilt =>
    \A x \in Comments : row[x] # "none" /\ (\A r \in unread : Parent(r) # x) =>
      status[x] = Derived(x)
=============================================================================
