-------------------------- MODULE ProjectionProofs --------------------------
(***************************************************************************)
(* Safety of Projection for any records, users and numbers of commits and  *)
(* failures, however two consumers interleave and replay: votes are not    *)
(* inflated, what was retracted stays hidden, nothing is missing, and the  *)
(* counts and the translation status settle on what the rows say.          *)
(***************************************************************************)
EXTENDS Projection, FiniteSetTheorems, TLAPS

(***************************************************************************)
(* Types.  Beyond TypeOK: what a handler carries from one statement to     *)
(* the next.                                                               *)
(***************************************************************************)
Steps == {"idle", "store", "status", "write_status", "count", "write_count"}
Carried == {"nothing", "ballot"} \cup Statuses \cup Nat
Jobs == [step : Steps, seen : Carried]
Entries == [rec : Records, act : Acts]

Fits(step, seen) ==
  /\ step = "write_count" => seen \in Nat
  /\ step = "write_status" => seen \in Statuses

PosOK ==
  /\ pos \in [Consumers -> [Repos -> Nat]]
  /\ \A c \in Consumers, d \in Repos :
       /\ pos[c][d] <= Len(log[d])
       /\ job[c][d].step # "idle" => pos[c][d] < Len(log[d])

JobsOK ==
  /\ job \in [Consumers -> [Repos -> Jobs]]
  /\ \A c \in Consumers, d \in Repos : Fits(job[c][d].step, job[c][d].seen)

RestOK ==
  /\ log \in [Repos -> Seq(Entries)]
  /\ row \in [Records -> {"none", "live", "moved", "deleted"}]
  /\ status \in [Comments -> Statuses]
  /\ count \in [{"likes", "comments"} -> Nat]
  /\ backfill \in {"new", "running", "stopped", "ending", "finished"}
  /\ known \in BOOLEAN
  /\ spoilt \in SUBSET {"likes", "comments", "status"}
  /\ lost \in SUBSET Records
  /\ unread \in SUBSET Records
  /\ faults \in 0..MaxFaults

TypeInv == RestOK /\ PosOK /\ JobsOK

\* A consumer that is in a handler, or begins one, has a commit to handle.
LEMMA Handled ==
  ASSUME TypeInv, NEW c \in Consumers, NEW d \in Repos,
         job[c][d].step # "idle" \/ Begins(c, d)
  PROVE  /\ pos[c][d] \in Nat /\ pos[c][d] + 1 \in 1..Len(log[d])
         /\ Commit(c, d) \in Entries
         /\ log[d] \in Seq(Entries)
  <1>1. log[d] \in Seq(Entries)
    BY DEF TypeInv, RestOK
  <1>2. pos[c][d] \in Nat /\ pos[c][d] < Len(log[d])
    BY DEF TypeInv, PosOK, Begins
  <1>3. pos[c][d] + 1 \in 1..Len(log[d])
    BY <1>1, <1>2
  <1> QED
    BY <1>1, <1>2, <1>3 DEF Commit

LEMMA DoneKeepsTypes ==
  ASSUME TypeInv, NEW c \in Consumers, NEW d \in Repos,
         job[c][d].step # "idle" \/ Begins(c, d), Done(c, d), log' = log
  PROVE  PosOK' /\ JobsOK'
  <1>1. pos[c][d] \in Nat /\ pos[c][d] + 1 <= Len(log[d]) /\ Len(log[d]) \in Nat
    BY Handled
  <1>2. /\ pos' = [pos EXCEPT ![c] = [pos[c] EXCEPT ![d] = pos[c][d] + 1]]
        /\ job' = [job EXCEPT ![c] = [job[c] EXCEPT ![d] = Idle]]
    BY DEF Done
  <1>3. Idle \in Jobs /\ Idle.step = "idle"
    BY DEF Idle, Jobs, Steps, Carried
  <1>4. pos' \in [Consumers -> [Repos -> Nat]] /\ job' \in [Consumers -> [Repos -> Jobs]]
    BY <1>1, <1>2, <1>3 DEF TypeInv, PosOK, JobsOK
  <1>5. ASSUME NEW b \in Consumers, NEW e \in Repos
        PROVE  /\ pos'[b][e] = IF b = c /\ e = d THEN pos[c][d] + 1 ELSE pos[b][e]
               /\ job'[b][e] = IF b = c /\ e = d THEN Idle ELSE job[b][e]
    BY <1>2 DEF TypeInv, PosOK, JobsOK
  <1>6. PosOK'
    BY <1>1, <1>3, <1>4, <1>5 DEF TypeInv, PosOK
  <1>7. JobsOK'
    BY <1>3, <1>4, <1>5 DEF TypeInv, JobsOK, Fits
  <1> QED
    BY <1>6, <1>7

LEMMA ThenKeepsTypes ==
  ASSUME TypeInv, NEW c \in Consumers, NEW d \in Repos,
         job[c][d].step # "idle" \/ Begins(c, d), log' = log,
         NEW step \in Steps, NEW seen \in Carried, Fits(step, seen), Then(c, d, step, seen)
  PROVE  PosOK' /\ JobsOK'
  <1>1. pos[c][d] \in Nat /\ pos[c][d] + 1 <= Len(log[d]) /\ Len(log[d]) \in Nat
    BY Handled
  <1> DEFINE new == [step |-> step, seen |-> seen]
  <1>2. new \in Jobs /\ new.step = step /\ new.seen = seen
    BY DEF Jobs
  <1>3. pos' = pos /\ job' = [job EXCEPT ![c] = [job[c] EXCEPT ![d] = new]]
    BY DEF Then
  <1> HIDE DEF new
  <1>4. job' \in [Consumers -> [Repos -> Jobs]]
    BY <1>2, <1>3 DEF TypeInv, JobsOK
  <1>5. ASSUME NEW b \in Consumers, NEW e \in Repos
        PROVE  job'[b][e] = IF b = c /\ e = d THEN new ELSE job[b][e]
    BY <1>3 DEF TypeInv, JobsOK
  <1>6. PosOK'
    BY <1>1, <1>3, <1>5 DEF TypeInv, PosOK
  <1>7. JobsOK'
    BY <1>2, <1>4, <1>5 DEF TypeInv, JobsOK, Fits
  <1> QED
    BY <1>6, <1>7

\* What is counted is a number.
LEMMA CountsAreNumbers ==
  ASSUME NEW k
  PROVE  Counted(k) \in Nat
  <1>1. IsFiniteSet(Raters) /\ IsFiniteSet({x \in Comments : row[x] = "live"})
    <2>1. Raters \subseteq Users
      BY ProjectionAssumption DEF Raters
    <2>2. {x \in Comments : row[x] = "live"} \subseteq Comments
      OBVIOUS
    <2> QED
      BY <2>1, <2>2, ProjectionAssumption, FS_Subset
  <1> QED
    BY <1>1, FS_CardinalityType DEF Counted

LEMMA TypeInvInit == Init => TypeInv
  <1> SUFFICES ASSUME Init PROVE TypeInv
    OBVIOUS
  <1>1. Argument \in Records
    BY DEF Records
  <1>2. log \in [Repos -> Seq(Entries)]
    <2>1. <<[rec |-> Argument, act |-> "put"]>> \in Seq(Entries) /\ << >> \in Seq(Entries)
      BY <1>1 DEF Entries, Acts
    <2> QED
      BY <2>1 DEF Init
  <1>3. \A d \in Repos : Len(log[d]) \in Nat
    BY <1>2
  <1>4. Idle \in Jobs /\ Idle.step = "idle"
    BY DEF Idle, Jobs, Steps, Carried
  <1>5. PosOK
    BY <1>3, <1>4 DEF Init, PosOK
  <1>6. JobsOK
    BY <1>4 DEF Init, JobsOK, Fits
  <1>7. faults \in 0..MaxFaults
    BY ProjectionAssumption DEF Init, Unloaded
  <1> QED
    BY <1>2, <1>3, <1>4, <1>5, <1>6, <1>7 DEF Init, TypeInv, RestOK, Entries, Statuses

LEMMA TypeInvStep == TypeInv /\ [Next]_vars => TypeInv'
  <1> SUFFICES ASSUME TypeInv, [Next]_vars PROVE TypeInv'
    OBVIOUS
  <1> USE ProjectionAssumption
  <1>1. ASSUME NEW r \in Records, NEW act \in Acts, Commits(r, act)
        PROVE  TypeInv'
    <2>1. [rec |-> r, act |-> act] \in Entries /\ Repo(r) \in Repos
      BY <1>1 DEF Entries, Repo, Repos
    <2>2. /\ log' \in [Repos -> Seq(Entries)]
          /\ \A d \in Repos : Len(log'[d]) \in Nat /\ Len(log'[d]) >= Len(log[d])
      <3>1. log \in [Repos -> Seq(Entries)]
        BY DEF TypeInv, RestOK
      <3>2. /\ Append(log[Repo(r)], [rec |-> r, act |-> act]) \in Seq(Entries)
            /\ Len(Append(log[Repo(r)], [rec |-> r, act |-> act])) = Len(log[Repo(r)]) + 1
        BY <2>1, <3>1
      <3> QED
        BY <1>1, <2>1, <3>1, <3>2 DEF Commits
    <2>3. \A d \in Repos : Len(log[d]) \in Nat
      BY DEF TypeInv, RestOK
    <2>4. PosOK'
      BY <1>1, <2>2, <2>3 DEF Commits, TypeInv, PosOK
    <2>5. JobsOK'
      BY <1>1 DEF Commits, TypeInv, JobsOK
    <2> QED
      BY <1>1, <2>2, <2>4, <2>5 DEF Commits, TypeInv, RestOK, Entries, stores
  <1>2. CASE Writing
    <2>1. \E r \in Records, act \in Acts : Commits(r, act)
      BY <1>2 DEF Writing, CreateLike, Retract, CreateComment, WriteDirectly, MoveAway,
       Translate, Records, Acts
    <2> QED
      BY <1>1, <2>1
  \* The statements of a handler.
  <1>3. ASSUME NEW c \in Consumers, NEW d \in Repos, Ignore(c, d) \/ Fail(c, d)
        PROVE  TypeInv'
    <2>1. PosOK' /\ JobsOK'
      BY <1>3, DoneKeepsTypes DEF Ignore, Fail
    <2>2. Commit(c, d).rec \in Records
      BY <1>3, Handled DEF Ignore, Fail, Entries
    <2>3. faults' \in 0..MaxFaults
      BY <1>3 DEF Ignore, Fail, TypeInv, RestOK
    <2>4. lost' \in SUBSET Records
      BY <1>3, <2>2 DEF Ignore, Fail, TypeInv, RestOK
    <2>5. spoilt' \in SUBSET {"likes", "comments", "status"}
      BY <1>3 DEF Ignore, Fail, TypeInv, RestOK, stores
    <2>6. backfill' \in {"new", "running", "stopped", "ending", "finished"}
      BY <1>3 DEF Ignore, Fail, TypeInv, RestOK
    <2> QED
      BY <1>3, <2>1, <2>3, <2>4, <2>5, <2>6 DEF Ignore, Fail, TypeInv, RestOK, stores
  <1>4. ASSUME NEW c \in Consumers, NEW d \in Repos, Take(c, d)
        PROVE  TypeInv'
    <2>1. PosOK' /\ JobsOK'
      <3>1. \E seen \in {"ballot", "nothing"} : Then(c, d, "store", seen)
        BY <1>4 DEF Take
      <3>2. \A seen \in {"ballot", "nothing"} : seen \in Carried /\ Fits("store", seen)
        BY DEF Carried, Fits
      <3> QED
        BY <1>4, <3>1, <3>2, ThenKeepsTypes DEF Take, Steps
    <2> QED
      BY <1>4, <2>1 DEF Take, TypeInv, RestOK, stores
  <1>5. ASSUME NEW c \in Consumers, NEW d \in Repos, StorePut(c, d) \/ StoreMove(c, d) \/ StoreDelete(c, d)
        PROVE  TypeInv'
    <2>1. job[c][d].step # "idle" \/ Begins(c, d)
      BY <1>5 DEF StorePut, StoreMove, StoreDelete, Stores
    <2>2. PosOK' /\ JobsOK'
      <3>1. Done(c, d) \/ \E step \in {"count", "status"} : Then(c, d, step, "nothing")
        BY <1>5 DEF StorePut, StoreMove, StoreDelete
      <3>2. \A step \in {"count", "status"} : step \in Steps /\ Fits(step, "nothing")
        BY DEF Steps, Fits
      <3>3. "nothing" \in Carried /\ log' = log
        BY <1>5 DEF Carried, StorePut, StoreMove, StoreDelete
      <3>4. CASE Done(c, d)
        BY <2>1, <3>3, <3>4, DoneKeepsTypes
      <3>5. CASE \E step \in {"count", "status"} : Then(c, d, step, "nothing")
        BY <2>1, <3>2, <3>3, <3>5, ThenKeepsTypes
      <3> QED
        BY <3>1, <3>4, <3>5
    <2>3. Commit(c, d).rec \in Records
      BY <2>1, Handled DEF Entries
    <2>4. row' \in [Records -> {"none", "live", "moved", "deleted"}]
      BY <1>5, <2>3 DEF StorePut, StoreMove, StoreDelete, TypeInv, RestOK
    <2>5. spoilt' \in SUBSET {"likes", "comments", "status"}
      <3>1. spoilt' = spoilt \/ spoilt' \in {spoilt \cup {"likes"}, spoilt \cup {"comments"}}
        BY <1>5 DEF StorePut, StoreMove, StoreDelete, Kind
      <3> QED
        BY <3>1 DEF TypeInv, RestOK
    <2> QED
      BY <1>5, <2>2, <2>4, <2>5 DEF StorePut, StoreMove, StoreDelete, TypeInv, RestOK
  <1>6. ASSUME NEW c \in Consumers, NEW d \in Repos, ReadStatus(c, d)
        PROVE  TypeInv'
    <2>1. PosOK' /\ JobsOK'
      <3>1. \A x : Derived(x) \in Statuses
        BY DEF Derived, Statuses
      <3>2. Done(c, d) \/ \E seen \in Statuses : Then(c, d, "write_status", seen)
        BY <1>6, <3>1 DEF ReadStatus
      <3>3. \A seen \in Statuses : seen \in Carried /\ Fits("write_status", seen)
        BY DEF Carried, Fits
      <3> QED
        BY <1>6, <3>2, <3>3, DoneKeepsTypes, ThenKeepsTypes DEF ReadStatus, Steps
    <2> QED
      BY <1>6, <2>1 DEF ReadStatus, TypeInv, RestOK
  <1>7. ASSUME NEW c \in Consumers, NEW d \in Repos, WriteStatus(c, d)
        PROVE  TypeInv'
    <2>1. PosOK' /\ JobsOK'
      <3>1. Done(c, d) \/ Then(c, d, "count", "nothing")
        BY <1>7 DEF WriteStatus
      <3>2. "count" \in Steps /\ "nothing" \in Carried /\ Fits("count", "nothing")
        BY DEF Steps, Carried, Fits
      <3> QED
        BY <1>7, <3>1, <3>2, DoneKeepsTypes, ThenKeepsTypes DEF WriteStatus
    <2>2. job[c][d].seen \in Statuses
      BY <1>7 DEF WriteStatus, TypeInv, JobsOK, Fits
    <2>3. status' \in [Comments -> Statuses]
      BY <1>7, <2>2 DEF WriteStatus, TypeInv, RestOK
    <2> QED
      BY <1>7, <2>1, <2>3 DEF WriteStatus, TypeInv, RestOK
  <1>8. ASSUME NEW c \in Consumers, NEW d \in Repos, ReadCount(c, d)
        PROVE  TypeInv'
    <2>1. PosOK' /\ JobsOK'
      <3>1. \E n \in Nat : Then(c, d, "write_count", n)
        BY <1>8, CountsAreNumbers DEF ReadCount
      <3>2. \A n \in Nat : n \in Carried /\ Fits("write_count", n)
        BY DEF Carried, Fits, Statuses
      <3> QED
        BY <1>8, <3>1, <3>2, ThenKeepsTypes DEF ReadCount, Steps
    <2>2. spoilt' \in SUBSET {"likes", "comments", "status"}
      BY <1>8 DEF ReadCount, Kind, TypeInv, RestOK
    <2> QED
      BY <1>8, <2>1, <2>2 DEF ReadCount, TypeInv, RestOK
  <1>9. ASSUME NEW c \in Consumers, NEW d \in Repos, WriteCount(c, d)
        PROVE  TypeInv'
    <2>1. PosOK' /\ JobsOK'
      BY <1>9, DoneKeepsTypes DEF WriteCount
    <2>2. job[c][d].seen \in Nat
      BY <1>9 DEF WriteCount, TypeInv, JobsOK, Fits
    <2>3. count' \in [{"likes", "comments"} -> Nat]
      BY <1>9, <2>2 DEF WriteCount, TypeInv, RestOK
    <2> QED
      BY <1>9, <2>1, <2>3 DEF WriteCount, TypeInv, RestOK
  \* The process.
  <1>10. CASE RefreshCommunityDids \/ StartBackfill \/ EndBackfill \/ FinishBackfill
    BY <1>10 DEF RefreshCommunityDids, StartBackfill, EndBackfill, FinishBackfill, TypeInv, RestOK,
       PosOK, JobsOK, stores
  <1>11. CASE Crash
    <2>1. PICK behind \in {{}, Repos} :
            pos' = [c \in Consumers |-> [d \in Repos |-> IF d \in behind THEN 0 ELSE pos[c][d]]]
      BY <1>11 DEF Crash
    <2>2. Idle \in Jobs /\ Idle.step = "idle"
      BY DEF Idle, Jobs, Steps, Carried
    <2>3. PosOK'
      <3>1. \A d \in Repos : Len(log[d]) \in Nat
        BY DEF TypeInv, RestOK
      <3> QED
        BY <1>11, <2>1, <2>2, <3>1 DEF Crash, TypeInv, PosOK
    <2>4. JobsOK'
      BY <1>11, <2>2 DEF Crash, JobsOK, Fits
    <2>5. faults' \in 0..MaxFaults
      BY <1>11 DEF Crash, Unloaded, TypeInv, RestOK
    <2> QED
      BY <1>11, <2>3, <2>4, <2>5 DEF Crash, TypeInv, RestOK, stores
  <1>12. CASE UNCHANGED vars
    BY <1>12 DEF vars, stores, TypeInv, RestOK, PosOK, JobsOK
  <1> QED
    BY <1>2, <1>3, <1>4, <1>5, <1>6, <1>7, <1>8, <1>9, <1>10, <1>11, <1>12
    DEF Next, Handling

\* Spec => []TypeOK.
THEOREM TypeCorrect == Spec => []TypeOK
  <1>1. TypeInv => TypeOK
    <2>1. JobsOK => \A c \in Consumers, d \in Repos : job[c][d].step \in Steps
      BY DEF JobsOK, Jobs
    <2> QED
      BY <2>1 DEF TypeInv, TypeOK, RestOK, PosOK, Steps, Entries
  <1> QED
    BY <1>1, TypeInvInit, TypeInvStep, PTL DEF Spec

-----------------------------------------------------------------------------
(***************************************************************************)
(* The log and the jobs: a log only grows, by records of its own repo; a   *)
(* handler that is past its gate has an eligible author's commit.          *)
(***************************************************************************)
Own == \A d \in Repos : \A i \in 1..Len(log[d]) : Repo(log[d][i].rec) = d

PastGate ==
  \A c \in Consumers, d \in Repos : job[c][d].step = "store" =>
    Checked(Commit(c, d)) /\ Author[Commit(c, d).rec] \notin Ineligible

Active == backfill \in {"running", "stopped", "ending"}
BackfillRuns == \A d \in Repos : job[Backfill][d].step # "idle" => Active

\* What an author without an account wrote is not shown; only an author moves a
\* record.
Eligible ==
  /\ \A r \in Ratings \cup Comments : row[r] = "live" => Author[r] \notin Ineligible
  /\ \A s \in Sidecars : row[s] # "moved"

LogInv == Own /\ PastGate /\ BackfillRuns /\ Eligible

\* What a commit does to the logs.
LEMMA Appended ==
  ASSUME TypeInv, NEW r \in Records, NEW act \in Acts, Commits(r, act)
  PROVE  /\ Repo(r) \in Repos
         /\ \A d \in Repos : /\ Len(log[d]) \in Nat
                             /\ Len(log'[d]) = IF d = Repo(r) THEN Len(log[d]) + 1 ELSE Len(log[d])
                             /\ \A i \in 1..Len(log[d]) : log'[d][i] = log[d][i]
         /\ log'[Repo(r)][Len(log[Repo(r)]) + 1] = [rec |-> r, act |-> act]
  <1>1. Repo(r) \in Repos
    BY ProjectionAssumption DEF Repo, Repos
  <1>2. log \in [Repos -> Seq(Entries)]
    BY DEF TypeInv, RestOK
  <1>3. [rec |-> r, act |-> act] \in Entries
    BY DEF Entries
  <1> QED
    BY <1>1, <1>2, <1>3 DEF Commits

\* What a step of a handler does to the jobs: it touches its own, and either ends
\* it or moves on within the same commit.
Advances(c, d) == Done(c, d) \/ \E step \in Steps \ {"idle"} : \E seen : Then(c, d, step, seen)

LEMMA JobsAfter ==
  ASSUME TypeInv, NEW c \in Consumers, NEW d \in Repos, Advances(c, d),
         NEW b \in Consumers, NEW e \in Repos
  PROVE  /\ b # c \/ e # d => pos'[b][e] = pos[b][e] /\ job'[b][e] = job[b][e]
         /\ b = c /\ e = d =>
              \/ pos'[b][e] = pos[b][e] + 1 /\ job'[b][e].step = "idle"
              \/ pos'[b][e] = pos[b][e] /\ job'[b][e].step # "idle"
  <1>1. CASE Done(c, d)
    <2>1. /\ pos' = [pos EXCEPT ![c] = [pos[c] EXCEPT ![d] = pos[c][d] + 1]]
          /\ job' = [job EXCEPT ![c] = [job[c] EXCEPT ![d] = Idle]]
      BY <1>1 DEF Done
    <2> QED
      BY <2>1 DEF TypeInv, PosOK, JobsOK, Idle
  <1>2. ASSUME NEW step \in Steps \ {"idle"}, NEW seen, Then(c, d, step, seen)
        PROVE  /\ pos'[b][e] = pos[b][e]
               /\ b # c \/ e # d => job'[b][e] = job[b][e]
               /\ b = c /\ e = d => job'[b][e].step = step
    <2>1. pos' = pos /\ job' = [job EXCEPT ![c] = [job[c] EXCEPT ![d] = [step |-> step, seen |-> seen]]]
      BY <1>2 DEF Then
    <2> QED
      BY <2>1 DEF TypeInv, JobsOK
  <1> QED
    BY <1>1, <1>2 DEF Advances

\* The statements of a handler, and its failure.
Handles(c, d) == Handling(c, d) \/ Fail(c, d)

LEMMA HandlesAdvances ==
  ASSUME TypeInv, LogInv, NEW c \in Consumers, NEW d \in Repos, Handles(c, d)
  PROVE  /\ job[c][d].step # "idle" \/ Begins(c, d)
         /\ Advances(c, d)
         /\ log' = log
         /\ unread' = unread
         /\ c = Backfill => Active /\ Active'
         /\ c # Backfill => backfill' = backfill
  <1>1. /\ job[c][d].step # "idle" \/ Begins(c, d)
        /\ log' = log
        /\ unread' = unread
        /\ c # Backfill => backfill' = backfill
        /\ backfill' \in {backfill, "stopped"}
    BY DEF Handles, Handling, Ignore, Take, StorePut, StoreMove, StoreDelete, Stores, ReadStatus, WriteStatus,
       ReadCount, WriteCount, Fail
  <1>2. Advances(c, d)
    BY DEF Handles, Handling, Ignore, Take, StorePut, StoreMove, StoreDelete, ReadStatus, WriteStatus,
       ReadCount, WriteCount, Fail, Advances, Steps
  <1> QED
    BY <1>1, <1>2 DEF LogInv, BackfillRuns, Begins, Active

LEMMA LogInvInit == Init => LogInv
  <1> SUFFICES ASSUME Init PROVE LogInv
    OBVIOUS
  <1>1. ASSUME NEW d \in Repos, NEW i \in 1..Len(log[d])
        PROVE  Repo(log[d][i].rec) = d
    <2>1. d = Community /\ log[d] = <<[rec |-> Argument, act |-> "put"]>>
      BY DEF Init
    <2>2. log[d][i].rec = Argument
      BY <2>1
    <2> QED
      BY <2>1, <2>2, ProjectionAssumption DEF Repo
  <1>2. \A c \in Consumers, d \in Repos : job[c][d].step = "idle"
    BY DEF Init, Idle
  <1>3. Eligible
    BY DEF Init, Eligible, Records
  <1> QED
    BY <1>1, <1>2, <1>3 DEF LogInv, Own, PastGate, BackfillRuns, Consumers

LEMMA LogInvStep == TypeInv /\ LogInv /\ [Next]_vars => LogInv'
  <1> SUFFICES ASSUME TypeInv, LogInv, [Next]_vars PROVE LogInv'
    OBVIOUS
  <1>1. ASSUME NEW r \in Records, NEW act \in Acts, Commits(r, act)
        PROVE  LogInv'
    <2>1. Own'
      <3>1. ASSUME NEW d \in Repos, NEW i \in 1..Len(log'[d])
            PROVE  Repo(log'[d][i].rec) = d
        <4>1. CASE i \in 1..Len(log[d])
          BY <1>1, <4>1, Appended DEF LogInv, Own
        <4>2. CASE i \notin 1..Len(log[d])
          <5>1. d = Repo(r) /\ i = Len(log[d]) + 1
            <6>1. /\ Len(log[d]) \in Nat
                  /\ Len(log'[d]) = IF d = Repo(r) THEN Len(log[d]) + 1 ELSE Len(log[d])
              BY <1>1, Appended
            <6> QED
              BY <4>2, <6>1
          <5>2. log'[d][i] = [rec |-> r, act |-> act]
            BY <1>1, <5>1, Appended
          <5> QED
            BY <5>1, <5>2
        <4> QED
          BY <4>1, <4>2
      <3> QED
        BY <3>1 DEF Own, Repo
    <2>2. ASSUME NEW c \in Consumers, NEW d \in Repos, job[c][d].step = "store"
          PROVE  log'[d][pos[c][d] + 1] = log[d][pos[c][d] + 1]
      BY <1>1, <2>2, Handled, Appended
    <2>3. PastGate'
      <3>1. UNCHANGED <<pos, job>>
        BY <1>1 DEF Commits
      <3> QED
        BY <2>2, <3>1 DEF LogInv, PastGate, Commit, Checked
    <2>4. Eligible'
      BY <1>1 DEF LogInv, Commits, stores, Eligible
    <2> QED
      BY <1>1, <2>1, <2>3, <2>4 DEF LogInv, Commits, BackfillRuns, Active
  <1>2. ASSUME NEW c \in Consumers, NEW d \in Repos, Handles(c, d)
        PROVE  LogInv'
    <2>1. log' = log /\ Advances(c, d)
      BY <1>2, HandlesAdvances
    <2>2. Own'
      BY <2>1 DEF LogInv, Own, Repo
    <2>3. job'[c][d].step = "store" => Take(c, d)
      BY <1>2, JobsAfter, <2>1 DEF Handles, Handling, Ignore, StorePut, StoreMove, StoreDelete, ReadStatus,
         WriteStatus, ReadCount, WriteCount, Fail, Done, Then, Idle, TypeInv, JobsOK
    <2>4. ASSUME NEW b \in Consumers, NEW e \in Repos, job'[b][e].step = "store"
          PROVE  Checked(log'[e][pos'[b][e] + 1]) /\ Author[log'[e][pos'[b][e] + 1].rec] \notin Ineligible
      <3>1. CASE b = c /\ e = d
        BY <2>1, <2>3, <2>4, <3>1 DEF Take, Then, Commit, Skipped
      <3>2. CASE b # c \/ e # d
        BY <2>1, <2>4, <3>2, JobsAfter DEF LogInv, PastGate, Commit
      <3> QED
        BY <3>1, <3>2
    <2>5. PastGate'
      BY <2>4 DEF PastGate, Commit, Checked
    <2>6. BackfillRuns'
      <3>1. Backfill \in Consumers
        BY DEF Consumers
      <3>2. CASE c = Backfill
        BY <1>2, <3>2, HandlesAdvances DEF BackfillRuns
      <3>3. CASE c # Backfill
        BY <1>2, <2>1, <3>1, <3>3, HandlesAdvances, JobsAfter DEF LogInv, BackfillRuns, Active
      <3> QED
        BY <3>2, <3>3
    <2>7. Eligible'
      <3>1. Commit(c, d).rec \in Records /\ row \in [Records -> {"none", "live", "moved", "deleted"}]
        BY <1>2, HandlesAdvances, Handled DEF Entries, TypeInv, RestOK
      <3>2. CASE StorePut(c, d)
        <4>1. Commit(c, d).rec \in DOMAIN Author => Author[Commit(c, d).rec] \notin Ineligible
          BY <3>2 DEF StorePut, Stores, Checked, LogInv, PastGate
        <4>2. /\ \A r \in Records : r # Commit(c, d).rec => row'[r] = row[r]
              /\ row'[Commit(c, d).rec] = "live"
          BY <3>1, <3>2 DEF StorePut
        <4>3. \A r \in Ratings \cup Comments : row'[r] = "live" => Author[r] \notin Ineligible
          BY <4>1, <4>2, ProjectionAssumption DEF LogInv, Eligible, Records
        <4>4. \A r \in Sidecars : row'[r] # "moved"
          BY <4>2 DEF LogInv, Eligible, Records
        <4> QED
          BY <4>3, <4>4 DEF Eligible
      <3>3. CASE StoreMove(c, d) \/ StoreDelete(c, d)
        <4>1. \A r \in Records : row'[r] = "live" => row[r] = "live"
          BY <3>1, <3>3 DEF StoreMove, StoreDelete
        <4>2. StoreMove(c, d) => Commit(c, d).rec \notin Sidecars
          BY ProjectionAssumption DEF StoreMove, LogInv, PastGate, Checked
        <4>3. \A s \in Sidecars : row'[s] # "moved"
          BY <3>1, <3>3, <4>2 DEF StoreMove, StoreDelete, LogInv, Eligible, Records
        <4> QED
          BY <4>1, <4>3 DEF LogInv, Eligible, Records
      <3>4. CASE ~(StorePut(c, d) \/ StoreMove(c, d) \/ StoreDelete(c, d))
        <4>1. row' = row
          BY <1>2, <3>4 DEF Handles, Handling, Ignore, Take, ReadStatus, WriteStatus, ReadCount,
             WriteCount, Fail, stores
        <4> QED
          BY <4>1 DEF LogInv, Eligible
      <3> QED
        BY <3>2, <3>3, <3>4
    <2> QED
      BY <2>2, <2>5, <2>6, <2>7 DEF LogInv
  <1>3. CASE RefreshCommunityDids \/ StartBackfill \/ EndBackfill \/ FinishBackfill
    <2>1. UNCHANGED <<log, pos, job, row>>
      BY <1>3 DEF RefreshCommunityDids, StartBackfill, EndBackfill, FinishBackfill, stores
    <2>2. Active => Active' \/ \A d \in Repos : job[Backfill][d].step = "idle"
      BY <1>3 DEF RefreshCommunityDids, StartBackfill, EndBackfill, FinishBackfill, Active
    <2>3. BackfillRuns'
      BY <2>1, <2>2 DEF LogInv, BackfillRuns
    <2> QED
      BY <2>1, <2>3 DEF LogInv, Own, PastGate, Commit, Checked, Repo, Eligible
  <1>4. CASE Crash
    <2>1. \A c \in Consumers, d \in Repos : job'[c][d].step = "idle"
      BY <1>4 DEF Crash, Idle
    <2> QED
      BY <1>4, <2>1 DEF Crash, stores, LogInv, Own, PastGate, BackfillRuns, Repo, Consumers, Eligible
  <1>5. CASE UNCHANGED vars
    BY <1>5 DEF vars, LogInv, Own, PastGate, BackfillRuns, Commit, Checked, Repo, Active, Eligible
  <1>6. CASE Writing
    <2>1. \E r \in Records, act \in Acts : Commits(r, act)
      BY <1>6, ProjectionAssumption
      DEF Writing, CreateLike, Retract, CreateComment, WriteDirectly, MoveAway,
       Translate, Records, Acts
    <2> QED
      BY <1>1, <2>1
  <1> QED
    BY <1>2, <1>3, <1>4, <1>5, <1>6 DEF Next, Handles

\* Only a commit changes a log.
LEMMA LogsGrow ==
  ASSUME TypeInv, LogInv, [Next]_vars
  PROVE  \/ log' = log
         \/ \E r \in Records, act \in Acts : Commits(r, act)
  <1>1. CASE Writing
    BY <1>1, ProjectionAssumption
    DEF Writing, CreateLike, Retract, CreateComment, WriteDirectly, MoveAway,
       Translate, Records, Acts
  <1>2. CASE \E c \in Consumers, d \in Repos : Handles(c, d)
    BY <1>2, HandlesAdvances
  <1>3. CASE RefreshCommunityDids \/ StartBackfill \/ EndBackfill \/ FinishBackfill \/ Crash \/ UNCHANGED vars
    BY <1>3 DEF RefreshCommunityDids, StartBackfill, EndBackfill, FinishBackfill, Crash, vars
  <1> QED
    BY <1>1, <1>2, <1>3 DEF Next, Handles

-----------------------------------------------------------------------------
(***************************************************************************)
(* Votes.  A rating that is stored is one of a user who put it; a count    *)
(* is of authors.                                                          *)
(***************************************************************************)
Voters == {u \in Users \ Ineligible :
  \E i \in DOMAIN log[u] : log[u][i].rec \in Ratings /\ log[u][i].act = "put"}

VotesCast == \A r \in Ratings : row[r] = "live" => Author[r] \in Voters

SeenBounded ==
  \A c \in Consumers, d \in Repos :
    job[c][d].step = "write_count" /\ Commit(c, d).rec \in Ratings =>
      job[c][d].seen <= Cardinality(Voters)

VoteInv == VotesCast /\ SeenBounded /\ count["likes"] <= Cardinality(Voters)

LEMMA VotersAreFinite == IsFiniteSet(Voters) /\ Cardinality(Voters) \in Nat
  <1>1. Voters \subseteq Users
    BY DEF Voters
  <1> QED
    BY <1>1, ProjectionAssumption, FS_Subset, FS_CardinalityType

LEMMA VotersStay ==
  ASSUME TypeInv, TypeInv', LogInv, [Next]_vars
  PROVE  /\ Voters \subseteq Voters'
         /\ Cardinality(Voters) \in Nat /\ Cardinality(Voters') \in Nat
         /\ Cardinality(Voters) <= Cardinality(Voters')
  <1>1. ASSUME NEW u \in Users, NEW i \in DOMAIN log[u]
        PROVE  i \in DOMAIN log'[u] /\ log'[u][i] = log[u][i]
    <2>1. u \in Repos
      BY DEF Repos
    <2>2. log[u] \in Seq(Entries) /\ log'[u] \in Seq(Entries)
      BY <2>1 DEF TypeInv, RestOK
    <2>3. ASSUME NEW r \in Records, NEW act \in Acts, Commits(r, act)
          PROVE  i \in DOMAIN log'[u] /\ log'[u][i] = log[u][i]
      <3>1. /\ Len(log[u]) \in Nat /\ Len(log'[u]) >= Len(log[u])
            /\ \A j \in 1..Len(log[u]) : log'[u][j] = log[u][j]
        <4>1. /\ Len(log[u]) \in Nat
              /\ Len(log'[u]) = IF u = Repo(r) THEN Len(log[u]) + 1 ELSE Len(log[u])
              /\ \A j \in 1..Len(log[u]) : log'[u][j] = log[u][j]
          BY <2>1, <2>3, Appended
        <4> QED
          BY <4>1
      <3> QED
        BY <2>2, <3>1
    <2> QED
      BY <2>3, LogsGrow
  <1>2. Voters \subseteq Voters'
    BY <1>1 DEF Voters
  <1>3. IsFiniteSet(Voters') /\ Cardinality(Voters') \in Nat
    <2>1. Voters' \subseteq Users
      BY DEF Voters
    <2> QED
      BY <2>1, ProjectionAssumption, FS_Subset, FS_CardinalityType
  <1> QED
    BY <1>2, <1>3, VotersAreFinite, FS_Subset

LEMMA VoteInvInit == Init => VoteInv
  <1> SUFFICES ASSUME Init PROVE VoteInv
    OBVIOUS
  <1>1. VotesCast
    BY DEF Init, VotesCast, Records
  <1>2. \A c \in Consumers, d \in Repos : job[c][d].step = "idle"
    BY DEF Init, Idle
  <1>3. count["likes"] = 0
    BY DEF Init
  <1> QED
    BY <1>1, <1>2, <1>3, VotersAreFinite DEF VoteInv, SeenBounded

\* The authors of what is stored are voters.
LEMMA RatersBounded ==
  ASSUME VotesCast
  PROVE  Cardinality(Raters) \in Nat /\ Cardinality(Raters) <= Cardinality(Voters)
  <1>1. Raters \subseteq Voters
    BY DEF Raters, VotesCast
  <1> QED
    BY <1>1, VotersAreFinite, FS_Subset, FS_CardinalityType

LEMMA VoteInvStep == TypeInv /\ TypeInv' /\ LogInv /\ VoteInv /\ [Next]_vars => VoteInv'
  <1> SUFFICES ASSUME TypeInv, TypeInv', LogInv, VoteInv, [Next]_vars PROVE VoteInv'
    OBVIOUS
  <1>0. /\ Voters \subseteq Voters'
        /\ Cardinality(Voters) \in Nat /\ Cardinality(Voters') \in Nat
        /\ Cardinality(Voters) <= Cardinality(Voters')
    BY VotersStay
  <1>1. ASSUME NEW r \in Records, NEW act \in Acts, Commits(r, act)
        PROVE  VoteInv'
    <2>1. UNCHANGED <<row, count, pos, job>>
      BY <1>1 DEF Commits, stores
    <2>2. VotesCast'
      BY <1>0, <2>1 DEF VoteInv, VotesCast
    <2>3. ASSUME NEW c \in Consumers, NEW d \in Repos, job[c][d].step = "write_count"
          PROVE  log'[d][pos[c][d] + 1] = log[d][pos[c][d] + 1] /\ job[c][d].seen \in Nat
      BY <1>1, <2>3, Handled, Appended DEF TypeInv, JobsOK, Fits
    <2>4. SeenBounded'
      BY <1>0, <2>1, <2>3 DEF VoteInv, SeenBounded, Commit
    <2>5. count'["likes"] <= Cardinality(Voters')
      <3>1. count["likes"] \in Nat /\ count["likes"] <= Cardinality(Voters)
        BY DEF VoteInv, TypeInv, RestOK
      <3> QED
        BY <1>0, <2>1, <3>1
    <2> QED
      BY <2>2, <2>4, <2>5 DEF VoteInv
  <1>2. ASSUME NEW c \in Consumers, NEW d \in Repos, Handles(c, d)
        PROVE  VoteInv'
    <2>1. log' = log /\ Advances(c, d) /\ (job[c][d].step # "idle" \/ Begins(c, d))
      BY <1>2, HandlesAdvances
    <2>2. Voters' = Voters
      BY <2>1 DEF Voters
    <2>3. CASE row' # row
      <3>1. StorePut(c, d) \/ StoreMove(c, d) \/ StoreDelete(c, d)
        BY <1>2, <2>3 DEF Handles, Handling, Ignore, Take, ReadStatus, WriteStatus, ReadCount,
           WriteCount, Fail, stores
      <3>2. row' \in [Records -> {"none", "live", "moved", "deleted"}] /\ row \in [Records -> {"none", "live", "moved", "deleted"}]
        BY DEF TypeInv, RestOK
      <3>3. ASSUME NEW r \in Ratings, row'[r] = "live", row[r] # "live"
            PROVE  Author[r] \in Voters
        <4>1. StorePut(c, d) /\ r = Commit(c, d).rec /\ Commit(c, d).act = "put"
          BY <3>1, <3>2, <3>3 DEF StorePut, StoreMove, StoreDelete, Stores, Records
        <4>2. job[c][d].step = "store"
          BY <4>1, ProjectionAssumption DEF StorePut, Stores, Checked
        <4>3. Author[r] \notin Ineligible
          BY <4>1, <4>2 DEF LogInv, PastGate
        <4>4. /\ pos[c][d] + 1 \in 1..Len(log[d]) /\ log[d] \in Seq(Entries)
              /\ Commit(c, d) = log[d][pos[c][d] + 1]
          BY <2>1, Handled DEF Commit
        <4>5. Author[r] = d
          BY <4>1, <4>4, ProjectionAssumption DEF LogInv, Own, Repo
        <4>6. d \in Users \ Ineligible
          BY <4>3, <4>5, ProjectionAssumption
        <4>7. pos[c][d] + 1 \in DOMAIN log[d]
          BY <4>4
        <4> QED
          BY <4>1, <4>4, <4>5, <4>6, <4>7 DEF Voters
      <3>4. VotesCast'
        BY <2>2, <3>3 DEF VoteInv, VotesCast
      <3>5. count' = count /\ job'[c][d].step # "write_count"
        BY <2>1, <3>1, JobsAfter DEF StorePut, StoreMove, StoreDelete, Done, Then, Idle, TypeInv, JobsOK
      <3>6. SeenBounded'
        BY <2>1, <2>2, <3>5, JobsAfter DEF VoteInv, SeenBounded, Commit
      <3> QED
        BY <2>2, <3>4, <3>5, <3>6 DEF VoteInv
    <2>4. CASE row' = row
      <3>1. VotesCast'
        BY <2>2, <2>4 DEF VoteInv, VotesCast
      <3>2. ASSUME job'[c][d].step = "write_count", log'[d][pos'[c][d] + 1].rec \in Ratings
            PROVE  job'[c][d].seen <= Cardinality(Voters)
        <4>1. ReadCount(c, d)
          BY <1>2, <2>1, <3>2, JobsAfter DEF Handles, Handling, Ignore, Take, StorePut, StoreMove, StoreDelete,
             ReadStatus, WriteStatus, WriteCount, Fail, Done, Then, Idle, TypeInv, JobsOK
        <4>2. pos' = pos /\ job'[c][d].seen = Counted(Kind(Commit(c, d).rec))
          BY <4>1 DEF ReadCount, Then, TypeInv, JobsOK
        <4>3. Counted(Kind(Commit(c, d).rec)) = Cardinality(Raters)
          BY <2>1, <3>2, <4>2 DEF Commit, Kind, Counted
        <4> QED
          BY <4>2, <4>3, RatersBounded DEF VoteInv
      <3>3. SeenBounded'
        <4>1. ASSUME NEW b \in Consumers, NEW e \in Repos, job'[b][e].step = "write_count",
                     log'[e][pos'[b][e] + 1].rec \in Ratings
              PROVE  job'[b][e].seen <= Cardinality(Voters)
          <5>1. CASE b = c /\ e = d
            BY <3>2, <4>1, <5>1
          <5>2. CASE b # c \/ e # d
            BY <2>1, <4>1, <5>2, JobsAfter DEF VoteInv, SeenBounded, Commit
          <5> QED
            BY <5>1, <5>2
        <4> QED
          BY <2>2, <4>1 DEF SeenBounded, Commit
      <3>4. count'["likes"] <= Cardinality(Voters)
        <4>1. CASE count' = count
          BY <4>1 DEF VoteInv
        <4>2. CASE count' # count
          <5>1. WriteCount(c, d)
            BY <1>2, <4>2 DEF Handles, Handling, Ignore, Take, StorePut, StoreMove, StoreDelete, ReadStatus,
               WriteStatus, ReadCount, Fail, stores
          <5>2. count' = [count EXCEPT ![Kind(Commit(c, d).rec)] = job[c][d].seen]
            BY <4>2, <5>1 DEF WriteCount
          <5>3. Kind(Commit(c, d).rec) = "likes" => job[c][d].seen <= Cardinality(Voters)
            BY <5>1 DEF WriteCount, Kind, VoteInv, SeenBounded
          <5> QED
            BY <5>2, <5>3 DEF VoteInv, TypeInv, RestOK
        <4> QED
          BY <4>1, <4>2
      <3> QED
        BY <2>2, <3>1, <3>3, <3>4 DEF VoteInv
    <2> QED
      BY <2>3, <2>4
  <1>3. CASE RefreshCommunityDids \/ StartBackfill \/ EndBackfill \/ FinishBackfill \/ UNCHANGED vars
    <2>1. UNCHANGED <<log, pos, job, row, count>>
      BY <1>3 DEF RefreshCommunityDids, StartBackfill, EndBackfill, FinishBackfill, stores, vars
    <2> QED
      BY <2>1 DEF VoteInv, VotesCast, SeenBounded, Voters, Commit
  <1>4. CASE Crash
    <2>1. \A c \in Consumers, d \in Repos : job'[c][d].step = "idle"
      BY <1>4 DEF Crash, Idle
    <2>2. UNCHANGED <<log, row, count>>
      BY <1>4 DEF Crash, stores
    <2> QED
      BY <2>1, <2>2 DEF VoteInv, VotesCast, SeenBounded, Voters
  <1>5. CASE Writing
    <2>1. \E r \in Records, act \in Acts : Commits(r, act)
      BY <1>5, ProjectionAssumption
      DEF Writing, CreateLike, Retract, CreateComment, WriteDirectly, MoveAway,
       Translate, Records, Acts
    <2> QED
      BY <1>1, <2>1
  <1> QED
    BY <1>2, <1>3, <1>4, <1>5 DEF Next, Handles

\* OneVotePerUser for all constants: however often, under whatever keys and with
\* whatever replay, a like count is at most the number of eligible users who rated.
THEOREM VotesAreNotInflated == Spec => []OneVotePerUser
  <1>1. VoteInv => OneVotePerUser
    BY DEF VoteInv, OneVotePerUser, Voters
  <1> QED
    BY <1>1, TypeInvInit, TypeInvStep, LogInvInit, LogInvStep, VoteInvInit, VoteInvStep, PTL DEF Spec

-----------------------------------------------------------------------------
(***************************************************************************)
(* What readers see.  A row agrees with the last commit about its record,  *)
(* or a consumer that runs has that commit before it.                      *)
(***************************************************************************)
About(r) == {i \in DOMAIN log[Repo(r)] : log[Repo(r)][i].rec = r}
LastOf(r, i) == i \in About(r) /\ \A j \in About(r) : j <= i

Agrees(r, i) ==
  IF log[Repo(r)][i].act = "put"
  THEN row[r] = "live" \/ r \in Ratings \/ Repo(r) \in Ineligible
  ELSE row[r] # "live"

Before(c, d, i) ==
  /\ pos[c][d] < i
  /\ pos[c][d] + 1 = i => job[c][d].step \in {"idle", "store"}
  /\ c = Backfill => Active \/ log[d][i].rec \in unread

Settles(r) ==
  \A i \in About(r) : LastOf(r, i) =>
    Agrees(r, i) \/ \E c \in Consumers : Before(c, Repo(r), i)

HasLast == \A r \in Records : About(r) = {} \/ \E i \in About(r) : LastOf(r, i)
RowsKnown == \A r \in Records : row[r] # "none" => About(r) # {}

SettleInv == HasLast /\ RowsKnown /\ \A r \in Records \ lost : Settles(r)

LEMMA RepoType == \A r : Repo(r) \in Repos
  BY ProjectionAssumption DEF Repo, Repos

LEMMA AboutType ==
  ASSUME TypeInv, NEW r
  PROVE  /\ log[Repo(r)] \in Seq(Entries) /\ Len(log[Repo(r)]) \in Nat
         /\ About(r) = {i \in 1..Len(log[Repo(r)]) : log[Repo(r)][i].rec = r}
  BY RepoType DEF TypeInv, RestOK, About

\* The CHOOSE of InRepo is the last commit.
LEMMA InRepoOfLast ==
  ASSUME TypeInv, NEW r
  PROVE  /\ About(r) = {} => ~InRepo(r)
         /\ \A i \in About(r) : LastOf(r, i) => (InRepo(r) <=> log[Repo(r)][i].act = "put")
  <1>1. InRepo(r) <=>
          /\ About(r) # {}
          /\ log[Repo(r)][CHOOSE i \in About(r) : \A j \in About(r) : j <= i].act = "put"
    BY DEF InRepo, About
  <1>2. ASSUME NEW i \in About(r), LastOf(r, i)
        PROVE  (CHOOSE k \in About(r) : \A j \in About(r) : j <= k) = i
    <2>1. \A k \in About(r) : k \in Nat
      BY AboutType
    <2>2. \A k \in About(r) : (\A j \in About(r) : j <= k) => k = i
      BY <1>2, <2>1 DEF LastOf
    <2>3. \E k \in About(r) : \A j \in About(r) : j <= k
      BY <1>2 DEF LastOf
    <2> QED
      BY <2>2, <2>3
  <1> QED
    BY <1>1, <1>2

LEMMA SettleInvInit == Init => SettleInv
  <1> SUFFICES ASSUME Init PROVE SettleInv
    OBVIOUS
  <1>0. TypeInv
    BY TypeInvInit
  <1>1. \A d \in Repos : Len(log[d]) \in {0, 1}
    BY DEF Init
  <1>2. \A r : \A i \in About(r) : i = 1 /\ LastOf(r, i)
    BY <1>0, <1>1, AboutType, RepoType DEF LastOf
  <1>3. RowsKnown
    BY DEF Init, RowsKnown
  <1>4. Live \in Consumers /\ Live # Backfill /\ \A d \in Repos : pos[Live][d] = 0
                                                  /\ job[Live][d].step = "idle"
    BY ProjectionAssumption DEF Init, Consumers, Idle
  <1>5. ASSUME NEW r, NEW i \in About(r)
        PROVE  Before(Live, Repo(r), i)
    BY <1>2, <1>4, RepoType DEF Before
  <1> QED
    BY <1>2, <1>3, <1>4, <1>5 DEF SettleInv, HasLast, Settles

\* A commit is the last one of its record, and of no other.
LEMMA CommitsLast ==
  ASSUME TypeInv, NEW q \in Records, NEW act \in Acts, Commits(q, act),
         NEW r \in Records
  PROVE  /\ r # q => /\ About(r)' = About(r)
                     /\ \A i \in About(r) : log'[Repo(r)][i] = log[Repo(r)][i]
         /\ Len(log[Repo(q)]) + 1 \in About(q)'
         /\ \A i \in About(q)' : i <= Len(log[Repo(q)]) + 1
  <1>1. /\ Len(log[Repo(r)]) \in Nat
        /\ Len(log'[Repo(r)]) = IF Repo(r) = Repo(q) THEN Len(log[Repo(r)]) + 1 ELSE Len(log[Repo(r)])
        /\ \A i \in 1..Len(log[Repo(r)]) : log'[Repo(r)][i] = log[Repo(r)][i]
        /\ log'[Repo(q)][Len(log[Repo(q)]) + 1] = [rec |-> q, act |-> act]
        /\ Len(log[Repo(q)]) \in Nat
        /\ Len(log'[Repo(q)]) = Len(log[Repo(q)]) + 1
    BY Appended, RepoType
  <1>2. \A s \in Records : DOMAIN log'[Repo(s)] = 1..Len(log'[Repo(s)])
    <2>1. log' = [log EXCEPT ![Repo(q)] = Append(@, [rec |-> q, act |-> act])]
      BY DEF Commits
    <2>2. \A s \in Records : log'[Repo(s)] \in Seq(Entries)
      <3>1. [rec |-> q, act |-> act] \in Entries
        BY DEF Entries
      <3>2. log \in [Repos -> Seq(Entries)]
        BY DEF TypeInv, RestOK
      <3> QED
        BY <2>1, <3>1, <3>2, RepoType
    <2> QED
      BY <2>2
  <1>3. \A s \in Records : About(s)' = {i \in 1..Len(log'[Repo(s)]) : log'[Repo(s)][i].rec = s}
    BY <1>2 DEF About, Repo
  <1>4. About(r) = {i \in 1..Len(log[Repo(r)]) : log[Repo(r)][i].rec = r}
    BY AboutType
  <1>5. ASSUME r # q
        PROVE  About(r)' = About(r) /\ \A i \in About(r) : log'[Repo(r)][i] = log[Repo(r)][i]
    <2>1. ASSUME NEW i \in 1..Len(log'[Repo(r)]), i \notin 1..Len(log[Repo(r)])
          PROVE  log'[Repo(r)][i].rec = q
      <3>1. Repo(r) = Repo(q) /\ i = Len(log[Repo(q)]) + 1
        BY <1>1, <2>1
      <3>2. log'[Repo(r)][i] = [rec |-> q, act |-> act]
        BY <1>1, <3>1
      <3> QED
        BY <3>2
    <2>2. 1..Len(log[Repo(r)]) \subseteq 1..Len(log'[Repo(r)])
      BY <1>1
    <2> QED
      BY <1>1, <1>3, <1>4, <1>5, <2>1, <2>2
  <1>6. Len(log[Repo(q)]) + 1 \in About(q)' /\ \A i \in About(q)' : i <= Len(log[Repo(q)]) + 1
    <2>1. About(q)' = {i \in 1..(Len(log[Repo(q)]) + 1) : log'[Repo(q)][i].rec = q}
      BY <1>1, <1>3
    <2> QED
      BY <1>1, <2>1
  <1> QED
    BY <1>5, <1>6

LEMMA CommitsKeepSettleInv ==
  ASSUME TypeInv, SettleInv,
         NEW q \in Records, NEW act \in Acts, Commits(q, act)
  PROVE  SettleInv'
  <1>1. UNCHANGED <<row, pos, job, backfill, lost, unread>>
    BY DEF Commits, stores
  <1>2. PICK n : n = Len(log[Repo(q)]) + 1
    OBVIOUS
  <1>3. /\ n \in About(q)' /\ (\A i \in About(q)' : i <= n) /\ n \in Nat \ {0}
        /\ n - 1 = Len(log[Repo(q)])
    BY <1>2, CommitsLast, AboutType
  <1>4. ASSUME NEW r \in Records, r # q
        PROVE  /\ About(r)' = About(r)
               /\ \A i \in About(r) : log'[Repo(r)][i] = log[Repo(r)][i]
    BY <1>4, CommitsLast
  <1>5. HasLast'
    <2>1. LastOf(q, n)'
      BY <1>3 DEF LastOf
    <2> QED
      BY <1>3, <1>4, <2>1 DEF HasLast, LastOf, SettleInv
  <1>6. RowsKnown'
    BY <1>1, <1>3, <1>4 DEF RowsKnown, SettleInv
  <1>7. Before(Live, Repo(q), n)'
    <2>1. pos[Live][Repo(q)] \in Nat /\ pos[Live][Repo(q)] <= n - 1
          /\ (job[Live][Repo(q)].step # "idle" => pos[Live][Repo(q)] < n - 1)
      BY <1>3, RepoType DEF TypeInv, PosOK, Consumers
    <2>2. pos[Live][Repo(q)] < n /\ (pos[Live][Repo(q)] + 1 = n => job[Live][Repo(q)].step = "idle")
      BY <1>3, <2>1
    <2> QED
      BY <1>1, <2>2, ProjectionAssumption DEF Before, Repo
  <1>8. Settles(q)'
    <2>1. ASSUME NEW i \in About(q)', LastOf(q, i)'
          PROVE  i = n
      <3>1. i <= n /\ n <= i
        BY <1>3, <2>1 DEF LastOf
      <3>2. i \in Nat
        <4>1. log'[Repo(q)] \in Seq(Entries)
          <5>1. log \in [Repos -> Seq(Entries)] /\ [rec |-> q, act |-> act] \in Entries
            BY DEF TypeInv, RestOK, Entries
          <5> QED
            BY <5>1, RepoType DEF Commits
        <4> QED
          BY <2>1, <4>1 DEF About, Repo
      <3> QED
        BY <1>3, <3>1, <3>2
    <2> QED
      BY <1>7, <2>1 DEF Settles, Consumers, Repo
  <1>9. ASSUME NEW r \in Records \ lost, r # q
        PROVE  Settles(r)'
    <2>1. Settles(r)
      BY <1>9 DEF SettleInv
    <2> QED
      BY <1>1, <1>4, <1>9, <2>1 DEF Settles, LastOf, Agrees, Before, Active, Repo
  <1> QED
    BY <1>1, <1>5, <1>6, <1>8, <1>9 DEF SettleInv

\* A record none of whose commits is in hand, and whose row stays.
LEMMA OthersKeepSettling ==
  ASSUME TypeInv, LogInv, NEW c \in Consumers, NEW d \in Repos, Handles(c, d),
         NEW r \in Records, r # Commit(c, d).rec, row'[r] = row[r], Settles(r)
  PROVE  Settles(r)'
  <1>1. log' = log /\ Advances(c, d) /\ (job[c][d].step # "idle" \/ Begins(c, d))
    BY HandlesAdvances
  <1>2. ASSUME NEW b \in Consumers, NEW i \in About(r), Before(b, Repo(r), i)
        PROVE  Before(b, Repo(r), i)'
    <2>1. b = Backfill => Active' \/ log'[Repo(r)][i].rec \in unread'
      BY <1>2, HandlesAdvances DEF Before, Active
    <2>2. CASE b # c \/ Repo(r) # d
      BY <1>1, <1>2, <2>1, <2>2, JobsAfter, RepoType DEF Before, Repo
    <2>3. CASE b = c /\ Repo(r) = d
      <3>1. pos[c][d] \in Nat /\ i \in Nat /\ pos[c][d] < i
        BY <1>1, <1>2, <2>3, Handled, AboutType DEF Before
      <3>2. pos[c][d] + 1 # i
        BY <1>2, <2>3 DEF About, Commit
      <3>3. \/ pos'[c][d] = pos[c][d] + 1 /\ job'[c][d].step = "idle"
            \/ pos'[c][d] = pos[c][d]
        BY <1>1, JobsAfter
      <3> QED
        BY <2>1, <2>3, <3>1, <3>2, <3>3 DEF Before, Repo
    <2> QED
      BY <2>2, <2>3
  <1>3. About(r)' = About(r)
    BY <1>1 DEF About, Repo
  <1> QED
    BY <1>1, <1>2, <1>3 DEF Settles, LastOf, Agrees, Repo

\* The record of the commit in hand.
LEMMA HandledSettles ==
  ASSUME TypeInv, LogInv, NEW c \in Consumers, NEW d \in Repos, Handles(c, d),
         NEW q, q = Commit(c, d).rec, q \notin lost', Settles(q)
  PROVE  Settles(q)'
  <1>1. log' = log /\ Advances(c, d) /\ (job[c][d].step # "idle" \/ Begins(c, d))
    BY HandlesAdvances
  <1> DEFINE k == pos[c][d] + 1
  <1>2. /\ pos[c][d] \in Nat /\ k \in 1..Len(log[d]) /\ log[d][k] = Commit(c, d)
        /\ Commit(c, d) \in Entries
    BY <1>1, Handled DEF Commit
  <1>3. Repo(q) = d /\ k \in About(q) /\ q \in Records
    <2>1. Repo(q) = d
      BY <1>2 DEF LogInv, Own
    <2> QED
      BY <1>2, <2>1, AboutType DEF Entries
  <1>4. About(q)' = About(q)
    BY <1>1 DEF About, Repo
  <1>5. ASSUME NEW i \in About(q), LastOf(q, i)
        PROVE  Agrees(q, i)' \/ \E b \in Consumers : Before(b, d, i)'
    <2>1. i \in Nat /\ k <= i
      BY <1>3, <1>5, AboutType DEF LastOf
    <2>2. c = Backfill => Active'
      BY HandlesAdvances
    <2>3. CASE k < i
      <3>1. \/ pos'[c][d] = pos[c][d] + 1 /\ job'[c][d].step = "idle"
            \/ pos'[c][d] = pos[c][d]
        BY <1>1, JobsAfter
      <3> QED
        BY <1>2, <2>1, <2>2, <2>3, <3>1 DEF Before
    <2>4. CASE k = i
      <3>1. CASE Ignore(c, d)
        <4>1. Skipped(Commit(c, d)) /\ row' = row
          BY <3>1 DEF Ignore
        <4>2. CASE Commit(c, d).act = "put"
          <5>1. log'[Repo(q)][i].act = "put" /\ (q \in Ratings \/ Repo(q) \in Ineligible)
            BY <1>1, <1>2, <1>3, <2>4, <4>1, <4>2 DEF Skipped, Checked, Duplicate, Repo
          <5> QED
            BY <5>1 DEF Agrees, Repo
        <4>3. CASE Commit(c, d).act # "put"
          <5>1. row[q] # "live"
            BY <4>1, <4>3, ProjectionAssumption DEF Skipped, Checked, LogInv, Eligible
          <5>2. log'[Repo(q)][i].act # "put"
            BY <1>1, <1>2, <1>3, <2>4, <4>3 DEF Repo
          <5> QED
            BY <4>1, <5>1, <5>2 DEF Agrees, Repo
        <4> QED
          BY <4>2, <4>3
      <3>2. CASE Take(c, d)
        <4>1. pos' = pos /\ job'[c][d].step = "store"
          BY <3>2 DEF Take, Then, TypeInv, JobsOK
        <4> QED
          BY <1>2, <2>1, <2>2, <2>4, <4>1 DEF Before
      <3>3. CASE StorePut(c, d)
        <4>1. log'[Repo(q)][i].act = "put" /\ row'[q] = "live"
          BY <1>1, <1>2, <1>3, <2>4, <3>3 DEF StorePut, Stores, TypeInv, RestOK
        <4> QED
          BY <4>1 DEF Agrees, Repo
      <3>4. CASE StoreDelete(c, d)
        <4>1. log'[Repo(q)][i].act = "delete" /\ row'[q] # "live"
          BY <1>1, <1>2, <1>3, <2>4, <3>4 DEF StoreDelete, Stores, TypeInv, RestOK
        <4> QED
          BY <4>1 DEF Agrees, Repo
      <3>7. CASE StoreMove(c, d)
        <4>1. log'[Repo(q)][i].act = "move" /\ row'[q] # "live"
          BY <1>1, <1>2, <1>3, <2>4, <3>7 DEF StoreMove, Stores, TypeInv, RestOK
        <4> QED
          BY <4>1 DEF Agrees, Repo
      <3>5. CASE ReadStatus(c, d) \/ WriteStatus(c, d) \/ ReadCount(c, d) \/ WriteCount(c, d)
        <4>1. /\ row' = row
              /\ backfill' = backfill /\ unread' = unread
              /\ job[c][d].step \notin {"idle", "store"}
          BY <3>5 DEF ReadStatus, WriteStatus, ReadCount, WriteCount
        <4>2. CASE Agrees(q, i)
          BY <1>1, <4>1, <4>2 DEF Agrees, Repo
        <4>3. ASSUME NEW b \in Consumers, Before(b, d, i)
              PROVE  Before(b, d, i)'
          <5>1. b # c
            BY <2>4, <4>1, <4>3 DEF Before
          <5>2. pos'[b][d] = pos[b][d] /\ job'[b][d] = job[b][d]
            BY <1>1, <5>1, JobsAfter
          <5> QED
            BY <1>1, <4>1, <4>3, <5>2 DEF Before, Active
        <4> QED
          BY <1>3, <1>5, <4>2, <4>3 DEF Settles
      <3>6. CASE Fail(c, d)
        BY <3>6 DEF Fail
      <3> QED
        BY <3>1, <3>2, <3>3, <3>4, <3>5, <3>6, <3>7 DEF Handles, Handling
    <2> QED
      BY <2>1, <1>2, <2>3, <2>4
  <1> HIDE DEF k
  <1> QED
    BY <1>3, <1>4, <1>5 DEF Settles, LastOf, Repo

LEMMA SettleInvStep == TypeInv /\ LogInv /\ SettleInv /\ [Next]_vars => SettleInv'
  <1> SUFFICES ASSUME TypeInv, LogInv, SettleInv, [Next]_vars PROVE SettleInv'
    OBVIOUS
  <1>1. CASE Writing
    <2>1. \E r \in Records, act \in Acts : Commits(r, act)
      BY <1>1, ProjectionAssumption
      DEF Writing, CreateLike, Retract, CreateComment, WriteDirectly, MoveAway,
       Translate, Records, Acts
    <2> QED
      BY <2>1, CommitsKeepSettleInv
  <1>2. ASSUME NEW c \in Consumers, NEW d \in Repos, Handles(c, d)
        PROVE  SettleInv'
    <2>1. pos[c][d] + 1 \in About(Commit(c, d).rec)
      <3>1. /\ log' = log /\ Commit(c, d) \in Entries /\ pos[c][d] + 1 \in 1..Len(log[d])
            /\ Commit(c, d) = log[d][pos[c][d] + 1]
        BY <1>2, HandlesAdvances, Handled DEF Commit
      <3>2. Repo(Commit(c, d).rec) = d
        BY <3>1 DEF LogInv, Own
      <3> QED
        BY <3>1, <3>2, AboutType
    <2>2. \A r : About(r)' = About(r)
      BY <1>2, HandlesAdvances DEF About, Repo
    <2>3. HasLast'
      BY <2>2 DEF SettleInv, HasLast, LastOf
    <2>4. \A r \in Records : r # Commit(c, d).rec => row'[r] = row[r]
      BY <1>2 DEF Handles, Handling, Ignore, Take, StorePut, StoreMove, StoreDelete, ReadStatus, WriteStatus,
         ReadCount, WriteCount, Fail, stores, TypeInv, RestOK
    <2>5. lost \subseteq lost'
      BY <1>2 DEF Handles, Handling, Ignore, Take, StorePut, StoreMove, StoreDelete, ReadStatus, WriteStatus,
         ReadCount, WriteCount, Fail
    <2>6. RowsKnown'
      BY <2>1, <2>2, <2>4 DEF SettleInv, RowsKnown
    <2>7. ASSUME NEW r \in Records \ lost'
          PROVE  Settles(r)'
      <3>1. Settles(r)
        BY <2>5, <2>7 DEF SettleInv
      <3>2. CASE r = Commit(c, d).rec
        BY <1>2, <2>7, <3>1, <3>2, HandledSettles
      <3>3. CASE r # Commit(c, d).rec
        BY <1>2, <2>4, <2>7, <3>1, <3>3, OthersKeepSettling
      <3> QED
        BY <3>2, <3>3
    <2> QED
      BY <2>3, <2>6, <2>7 DEF SettleInv
  \* Who had a commit before it still has.
  <1>3. ASSUME log' = log, row' = row, lost' = lost,
               \A c \in Consumers, r \in Records : \A i \in About(r) :
                 Before(c, Repo(r), i) => Before(c, Repo(r), i)'
        PROVE  SettleInv'
    <2>1. \A r : About(r)' = About(r)
      BY <1>3 DEF About, Repo
    <2> QED
      BY <1>3, <2>1 DEF SettleInv, HasLast, RowsKnown, Settles, LastOf, Agrees, Repo
  <1>4. CASE RefreshCommunityDids \/ StartBackfill \/ EndBackfill \/ UNCHANGED vars
    BY <1>3, <1>4 DEF RefreshCommunityDids, StartBackfill, EndBackfill, vars, stores, Before, Active, Repo
  <1>5. CASE FinishBackfill
    <2>1. ASSUME NEW c \in Consumers, NEW r \in Records, NEW i \in About(r), Before(c, Repo(r), i)
          PROVE  Before(c, Repo(r), i)'
      <3>1. log'[Repo(r)][i].rec = r
        BY <1>5 DEF FinishBackfill, About
      <3>2. c = Backfill => r \in unread'
        <4>1. i \in DOMAIN log[Repo(r)] /\ i \in Nat /\ pos[Backfill][Repo(r)] \in Nat
          BY AboutType, RepoType DEF About, TypeInv, PosOK, Consumers
        <4>2. c = Backfill => i > pos[Backfill][Repo(r)]
          BY <2>1, <4>1 DEF Before
        <4> QED
          BY <1>5, <4>1, <4>2 DEF FinishBackfill, About
      <3> QED
        BY <1>5, <2>1, <3>1, <3>2 DEF FinishBackfill, Before, Repo
    <2> QED
      BY <1>3, <1>5, <2>1 DEF FinishBackfill, stores
  <1>6. CASE Crash
    <2>1. ASSUME NEW c \in Consumers, NEW r \in Records, NEW i \in About(r), Before(c, Repo(r), i)
          PROVE  Before(c, Repo(r), i)'
      <3>1. pos[c][Repo(r)] \in Nat /\ i \in Nat /\ i > 0
        BY AboutType, RepoType DEF TypeInv, PosOK
      <3>2. pos'[c][Repo(r)] \in {0, pos[c][Repo(r)]} /\ job'[c][Repo(r)].step = "idle"
        BY <1>6, RepoType DEF Crash, Idle
      <3>3. (Active => Active') /\ log' = log /\ unread' = unread
        BY <1>6 DEF Crash, Active
      <3> QED
        BY <2>1, <3>1, <3>2, <3>3 DEF Before, Repo
    <2> QED
      BY <1>3, <1>6, <2>1 DEF Crash, stores
  <1> QED
    BY <1>1, <1>2, <1>4, <1>5, <1>6 DEF Next, Handles

\* At rest no commit lies before a consumer.
LEMMA RestAgrees ==
  ASSUME TypeInv, SettleInv, AtRest, NEW r \in Records \ (lost \cup unread),
         NEW i \in About(r), LastOf(r, i)
  PROVE  Agrees(r, i)
  <1>1. i \in 1..Len(log[Repo(r)]) /\ Len(log[Repo(r)]) \in Nat
    BY AboutType
  <1>2. pos[Live][Repo(r)] = Len(log[Repo(r)]) /\ ~Active
    BY RepoType DEF AtRest, CaughtUp, Active
  <1>3. \A c \in Consumers : ~Before(c, Repo(r), i)
    BY <1>1, <1>2 DEF Before, Consumers, About
  <1> QED
    BY <1>3 DEF SettleInv, Settles

\* RetractionHolds for all constants: whatever is replayed, once the commits are
\* handled a rating, comment or sidecar that was retracted or moved away is hidden,
\* unless the backfill ended before the last commit about it.
THEOREM RetractionsHold == Spec => []RetractionHolds
  <1>1. TypeInv /\ SettleInv => RetractionHolds
    <2> SUFFICES ASSUME TypeInv, SettleInv, AtRest,
                        NEW r \in Records \ (lost \cup unread), row[r] = "live"
                 PROVE  InRepo(r)
      BY DEF RetractionHolds
    <2>1. PICK i \in About(r) : LastOf(r, i)
      BY DEF SettleInv, HasLast, RowsKnown
    <2>2. log[Repo(r)][i].act = "put"
      BY <2>1, RestAgrees DEF Agrees
    <2> QED
      BY <2>1, <2>2, InRepoOfLast
  <1> QED
    BY <1>1, TypeInvInit, TypeInvStep, LogInvInit, LogInvStep, SettleInvInit, SettleInvStep,
       PTL DEF Spec

\* NothingMissing for all constants: once the commits are handled, every argument,
\* comment and sidecar of an eligible author is shown that no error dropped and that
\* the backfill did not leave.
THEOREM NothingIsMissing == Spec => []NothingMissing
  <1>1. TypeInv /\ SettleInv => NothingMissing
    <2> SUFFICES ASSUME TypeInv, SettleInv, AtRest, NEW r \in Records \ (lost \cup unread \cup Ratings),
                        InRepo(r), Repo(r) \notin Ineligible
                 PROVE  row[r] = "live"
      BY DEF NothingMissing
    <2>1. PICK i \in About(r) : LastOf(r, i)
      BY InRepoOfLast DEF SettleInv, HasLast
    <2>2. log[Repo(r)][i].act = "put"
      BY <2>1, InRepoOfLast
    <2> QED
      BY <2>1, <2>2, RestAgrees DEF Agrees
  <1> QED
    BY <1>1, TypeInvInit, TypeInvStep, LogInvInit, LogInvStep, SettleInvInit, SettleInvStep,
       PTL DEF Spec

-----------------------------------------------------------------------------
(***************************************************************************)
(* The counts.  A count that is not what the rows say is due: somebody has *)
(* changed a row of its kind and has yet to count, or has yet to handle    *)
(* the commit again.                                                       *)
(***************************************************************************)
Of(k) == IF k = "likes" THEN Ratings ELSE Comments
Kinds == {"likes", "comments"}

StepsMatch ==
  \A c \in Consumers, d \in Repos :
    job[c][d].step \in {"status", "write_status"} =>
      /\ Commit(c, d).rec \in Comments \cup Sidecars
      /\ Commit(c, d).rec \in Comments => Commit(c, d).act # "delete"

\* A count that is about to be written, of a kind that is not spoilt, is the only
\* one, and there is a row to write it to.
Writes(c, d, k) == job[c][d].step = "write_count" /\ Kind(Commit(c, d).rec) = k

OneWriter ==
  \A k \in Kinds \ spoilt : \A c \in Consumers, d \in Repos : Writes(c, d, k) =>
    /\ row[Argument] # "none"
    /\ \A b \in Consumers, e \in Repos : Writes(b, e, k) => b = c /\ e = d

SupportInv == StepsMatch /\ OneWriter

Fresh(k) ==
  /\ count[k] = Counted(k)
  /\ \A c \in Consumers, d \in Repos : Writes(c, d, k) => job[c][d].seen = Counted(k)

Ready(d, i, k) ==
  LET r == log[d][i].rec IN
  /\ r \in Of(k)
  /\ \/ log[d][i].act = "put" /\ row[r] = "live"
     \/ log[d][i].act = "delete" /\ row[r] \in {"live", "deleted"}

Due(c, d, i, k) ==
  /\ Ready(d, i, k)
  /\ \/ Before(c, d, i)
     \/ /\ pos[c][d] + 1 = i
        /\ \/ job[c][d].step \in {"status", "write_status", "count"}
           \/ job[c][d].step = "write_count" /\ job[c][d].seen = Counted(k)

CountsInv ==
  lost = {} => \A k \in Kinds \ spoilt :
    \/ Fresh(k)
    \/ \E c \in Consumers, d \in Repos : \E i \in 1..Len(log[d]) : Due(c, d, i, k)

LEMMA KindOf ==
  ASSUME NEW k \in Kinds, NEW r \in Of(k)
  PROVE  Kind(r) = k /\ r \in Records /\ r \in DOMAIN Author /\ r \notin Sidecars /\ r # Argument
  BY ProjectionAssumption DEF Of, Kinds, Kind, Records

\* A row that was not on the argument may move or go; nobody counts it.
Keeps(r) == row'[r] = row[r] \/ (row[r] \notin {"live", "deleted"} /\ row'[r] # "live")

LEMMA CountedStays ==
  ASSUME NEW k \in Kinds, \A r \in Of(k) : row'[r] = "live" <=> row[r] = "live"
  PROVE  Counted(k)' = Counted(k)
  BY DEF Kinds, Of, Counted, Raters

\* A handler that is past the gate or done with storing does not touch a row.
LEMMA RowsTouched ==
  ASSUME TypeInv, NEW c \in Consumers, NEW d \in Repos, Handles(c, d)
  PROVE  /\ \A r \in Records : r # Commit(c, d).rec => row'[r] = row[r]
         /\ ~StorePut(c, d) /\ ~StoreMove(c, d) /\ ~StoreDelete(c, d) => row' = row
         /\ StoreMove(c, d) => row'[Commit(c, d).rec] = "moved"
         /\ StoreDelete(c, d) /\ row[Commit(c, d).rec] = "none" => row' = row
         /\ StorePut(c, d) => row'[Commit(c, d).rec] = "live"
         /\ StoreDelete(c, d) /\ row[Commit(c, d).rec] # "none" => row'[Commit(c, d).rec] = "deleted"
         /\ spoilt \subseteq spoilt' /\ lost \subseteq lost'
  <1>1. Commit(c, d).rec \in Records
    <2>1. job[c][d].step # "idle" \/ Begins(c, d)
      BY DEF Handles, Handling, Ignore, Take, StorePut, StoreMove, StoreDelete, Stores, ReadStatus, WriteStatus,
         ReadCount, WriteCount, Fail
    <2> QED
      BY <2>1, Handled DEF Entries
  <1>2. row \in [Records -> {"none", "live", "moved", "deleted"}]
    BY DEF TypeInv, RestOK
  <1>3. CASE StorePut(c, d)
    BY <1>1, <1>2, <1>3 DEF StorePut, StoreMove, StoreDelete, Stores
  <1>4. CASE StoreDelete(c, d)
    BY <1>1, <1>2, <1>4 DEF StorePut, StoreMove, StoreDelete, Stores
  <1>6. CASE StoreMove(c, d)
    BY <1>1, <1>2, <1>6 DEF StorePut, StoreMove, StoreDelete, Stores
  <1>5. CASE ~StorePut(c, d) /\ ~StoreMove(c, d) /\ ~StoreDelete(c, d)
    <2>1. row' = row
      BY <1>5 DEF Handles, Handling, Ignore, Take, ReadStatus, WriteStatus, ReadCount, WriteCount,
         Fail, stores
    <2>2. spoilt \subseteq spoilt' /\ lost \subseteq lost'
      BY <1>5 DEF Handles, Handling, Ignore, Take, ReadStatus, WriteStatus, ReadCount, WriteCount,
         Fail, stores
    <2> QED
      BY <1>5, <2>1, <2>2
  <1> QED
    BY <1>3, <1>4, <1>5, <1>6

LEMMA CountsInit == Init => SupportInv /\ CountsInv
  <1> SUFFICES ASSUME Init PROVE SupportInv /\ CountsInv
    OBVIOUS
  <1>1. \A c \in Consumers, d \in Repos : job[c][d].step = "idle"
    BY DEF Init, Idle
  <1>2. \A r \in Ratings \cup Comments : row[r] = "none"
    BY DEF Init, Records
  <1>3. \A k \in Kinds : Counted(k) = 0
    <2>1. Raters = {} /\ {x \in Comments : row[x] = "live"} = {}
      BY <1>2 DEF Raters
    <2> QED
      BY <2>1, FS_EmptySet DEF Counted
  <1>4. \A k \in Kinds : Fresh(k)
    BY <1>1, <1>3 DEF Init, Fresh, Writes, Kinds
  <1> QED
    BY <1>1, <1>2, <1>4 DEF SupportInv, StepsMatch, OneWriter, Writes, CountsInv

\* Only its own handler moves a consumer: a count that is about to be written has
\* just been read, or was there.
LEMMA WritesAfter ==
  ASSUME TypeInv, LogInv, NEW c \in Consumers, NEW d \in Repos, Handles(c, d),
         NEW k \in Kinds, NEW b \in Consumers, NEW e \in Repos, Writes(b, e, k)'
  PROVE  \/ /\ b = c /\ e = d
            /\ ReadCount(c, d) /\ Kind(Commit(c, d).rec) = k
            /\ job'[c][d].seen = Counted(k)
         \/ (b # c \/ e # d) /\ Writes(b, e, k) /\ job'[b][e] = job[b][e]
  <1>1. log' = log /\ Advances(c, d)
    BY HandlesAdvances
  <1>2. CASE b # c \/ e # d
    BY <1>1, <1>2, JobsAfter DEF Writes, Commit, Kind
  <1>3. CASE b = c /\ e = d
    <2>1. job'[c][d].step = "write_count"
      BY <1>3 DEF Writes
    <2>2. ReadCount(c, d)
      BY <2>1 DEF Handles, Handling, Ignore, Take, StorePut, StoreMove, StoreDelete, ReadStatus, WriteStatus,
         WriteCount, Fail, Done, Then, Idle, TypeInv, JobsOK
    <2>3. pos' = pos /\ job'[c][d].seen = Counted(Kind(Commit(c, d).rec))
      BY <2>2 DEF ReadCount, Then, TypeInv, JobsOK
    <2>4. Kind(Commit(c, d).rec) = k
      BY <1>1, <1>3, <2>3 DEF Writes, Commit, Kind
    <2> QED
      BY <1>3, <2>2, <2>3, <2>4
  <1> QED
    BY <1>2, <1>3

LEMMA HandlesKeepsSupport ==
  ASSUME TypeInv, LogInv, SupportInv, NEW c \in Consumers, NEW d \in Repos, Handles(c, d)
  PROVE  SupportInv'
  <1>1. log' = log /\ Advances(c, d) /\ (job[c][d].step # "idle" \/ Begins(c, d))
    BY HandlesAdvances
  <1>2. Commit(c, d) \in Entries
    BY <1>1, Handled
  <1>4. StepsMatch'
    <2>1. ASSUME NEW b \in Consumers, NEW e \in Repos,
                 job'[b][e].step \in {"status", "write_status"}
          PROVE  /\ log'[e][pos'[b][e] + 1].rec \in Comments \cup Sidecars
                 /\ log'[e][pos'[b][e] + 1].rec \in Comments =>
                      log'[e][pos'[b][e] + 1].act # "delete"
      <3>1. CASE b # c \/ e # d
        BY <1>1, <2>1, <3>1, JobsAfter DEF SupportInv, StepsMatch, Commit
      <3>2. CASE b = c /\ e = d
        <4>1. StorePut(c, d) \/ StoreMove(c, d) \/ StoreDelete(c, d) \/ ReadStatus(c, d)
          BY <2>1, <3>2 DEF Handles, Handling, Ignore, Take, WriteStatus, ReadCount, WriteCount,
             Fail, Done, Then, Idle, TypeInv, JobsOK
        <4>2. pos'[c][d] = pos[c][d]
          BY <1>1, <2>1, <3>2, JobsAfter
        <4>3. CASE StorePut(c, d)
          BY <1>1, <1>2, <2>1, <3>2, <4>2, <4>3
          DEF StorePut, Stores, Done, Then, Idle, TypeInv, JobsOK, Commit, Entries, Records
        <4>6. CASE StoreMove(c, d)
          <5>1. ~Done(c, d)
            BY <2>1, <3>2 DEF Done, Idle, TypeInv, JobsOK
          <5>2. Commit(c, d).rec \in Comments
            BY <4>6, <5>1, ProjectionAssumption DEF StoreMove, LogInv, PastGate, Checked
          <5>3. Commit(c, d).act = "move"
            BY <4>6 DEF StoreMove
          <5> QED
            BY <1>1, <3>2, <4>2, <5>2, <5>3 DEF Commit
        <4>4. CASE StoreDelete(c, d)
          BY <1>1, <2>1, <3>2, <4>2, <4>4, ProjectionAssumption
          DEF StoreDelete, Done, Then, Idle, TypeInv, JobsOK, Commit
        <4>5. CASE ReadStatus(c, d)
          BY <1>1, <3>2, <4>2, <4>5 DEF ReadStatus, SupportInv, StepsMatch, Commit
        <4> QED
          BY <4>1, <4>3, <4>4, <4>5, <4>6
      <3> QED
        BY <3>1, <3>2
    <2> QED
      BY <2>1 DEF StepsMatch, Commit
  <1>5. ASSUME NEW k \in Kinds \ spoilt', NEW b \in Consumers, NEW e \in Repos, Writes(b, e, k)'
        PROVE  /\ row'[Argument] # "none"
               /\ \A b2 \in Consumers, e2 \in Repos : Writes(b2, e2, k)' => b2 = b /\ e2 = e
    <2>1. k \in Kinds \ spoilt
      BY <1>5, RowsTouched
    <2>2. row[Argument] # "none" => row'[Argument] # "none"
      BY RowsTouched DEF Records
    <2>3. CASE ReadCount(c, d) /\ Kind(Commit(c, d).rec) = k
      <3>1. row[Argument] # "none" /\ ~Overlaps(c, d, {r \in Records : Kind(r) = k}, "write_count")
        BY <1>5, <2>3 DEF ReadCount
      <3>2. ASSUME NEW b2 \in Consumers, NEW e2 \in Repos, Writes(b2, e2, k)
            PROVE  b2 = c /\ e2 = d
        <4>1. Commit(b2, e2) \in Entries
          BY <3>2, Handled DEF Writes
        <4> QED
          BY <3>1, <3>2, <4>1 DEF Overlaps, Writes, Entries
      <3> QED
        BY <1>5, <2>2, <3>1, <3>2, WritesAfter
    <2>4. CASE ~(ReadCount(c, d) /\ Kind(Commit(c, d).rec) = k)
      BY <1>5, <2>1, <2>2, <2>4, WritesAfter DEF SupportInv, OneWriter
    <2> QED
      BY <2>3, <2>4
  <1>6. OneWriter'
    BY <1>5 DEF OneWriter
  <1> QED
    BY <1>4, <1>6 DEF SupportInv

\* A commit in hand is the same when others follow it.
LEMMA HandStays ==
  ASSUME TypeInv, NEW r \in Records, NEW act \in Acts, Commits(r, act),
         NEW c \in Consumers, NEW d \in Repos, job[c][d].step # "idle"
  PROVE  Commit(c, d)' = Commit(c, d)
  <1>1. log'[d][pos[c][d] + 1] = log[d][pos[c][d] + 1]
    BY Handled, Appended
  <1>2. pos' = pos
    BY DEF Commits
  <1> QED
    BY <1>1, <1>2 DEF Commit

LEMMA SupportInvStep == TypeInv /\ LogInv /\ SupportInv /\ [Next]_vars => SupportInv'
  <1> SUFFICES ASSUME TypeInv, LogInv, SupportInv, [Next]_vars PROVE SupportInv'
    OBVIOUS
  <1>1. ASSUME NEW r \in Records, NEW act \in Acts, Commits(r, act)
        PROVE  SupportInv'
    <2>1. UNCHANGED <<row, job, spoilt>>
      BY <1>1 DEF Commits, stores
    <2>2. \A c \in Consumers, d \in Repos : job[c][d].step # "idle" => Commit(c, d)' = Commit(c, d)
      BY <1>1, HandStays
    <2>3. \A c \in Consumers, d \in Repos, k \in Kinds : Writes(c, d, k)' => Writes(c, d, k)
      BY <2>1, <2>2 DEF Writes, Kind
    <2>4. OneWriter'
      BY <2>1, <2>3 DEF SupportInv, OneWriter
    <2> QED
      BY <2>1, <2>2, <2>4 DEF SupportInv, StepsMatch
  <1>2. ASSUME UNCHANGED <<log, pos, job, row, spoilt>>
        PROVE  SupportInv'
    BY <1>2 DEF SupportInv, StepsMatch, OneWriter, Writes, Commit, Kind
  <1>3. CASE RefreshCommunityDids \/ StartBackfill \/ EndBackfill \/ FinishBackfill \/ UNCHANGED vars
    BY <1>2, <1>3 DEF RefreshCommunityDids, StartBackfill, EndBackfill, FinishBackfill, vars, stores
  <1>4. CASE Crash
    <2>1. \A c \in Consumers, d \in Repos : job'[c][d].step = "idle"
      BY <1>4 DEF Crash, Idle
    <2> QED
      BY <1>4, <2>1 DEF Crash, stores, SupportInv, StepsMatch, OneWriter, Writes
  <1> QED
    BY <1>1, <1>3, <1>4, HandlesKeepsSupport, ProjectionAssumption
    DEF Next, Handles, Writing, CreateLike, Retract, CreateComment, WriteDirectly, MoveAway,
       Translate, Records, Acts

\* Who changes a row has yet to count.
LEMMA StoringIsDue ==
  ASSUME TypeInv, LogInv, NEW c \in Consumers, NEW d \in Repos,
         NEW k \in Kinds, Commit(c, d).rec \in Of(k),
         \/ StorePut(c, d)
         \/ StoreDelete(c, d) /\ row[Commit(c, d).rec] \in {"live", "deleted"},
         NEW n, n = pos[c][d] + 1
  PROVE  Due(c, d, n, k)'
  <1>1. Handles(c, d)
    BY DEF Handles, Handling
  <1>2. PICK r \in Of(k) : r = Commit(c, d).rec
    OBVIOUS
  <1>3. r \in Records /\ r \notin Sidecars /\ r # Argument
    BY <1>2, KindOf
  <1>4. log' = log /\ pos' = pos /\ job'[c][d].step \in {"status", "count"}
    BY <1>2, <1>3 DEF StorePut, StoreMove, StoreDelete, Then, TypeInv, JobsOK
  <1>5. \/ Commit(c, d).act = "put" /\ row'[r] = "live"
        \/ Commit(c, d).act = "delete" /\ row'[r] = "deleted"
    BY <1>1, <1>2, RowsTouched DEF StorePut, StoreDelete, Stores
  <1>6. Ready(d, n, k)'
    BY <1>2, <1>4, <1>5 DEF Ready, Commit, Of
  <1> QED
    BY <1>4, <1>6 DEF Due

\* Nothing of the kind changes: what was fresh is, and what was due is or has been done.
LEMMA FreshStays ==
  ASSUME TypeInv, LogInv, NEW c \in Consumers, NEW d \in Repos, Handles(c, d),
         NEW k \in Kinds, Counted(k)' = Counted(k), Fresh(k)
  PROVE  Fresh(k)'
  <1>1. ASSUME NEW b \in Consumers, NEW e \in Repos, Writes(b, e, k)'
        PROVE  job'[b][e].seen = Counted(k)
    BY <1>1, WritesAfter DEF Fresh
  <1>2. count'[k] = count[k] \/ count'[k] = Counted(k)
    <2>1. CASE WriteCount(c, d)
      <3>1. Kind(Commit(c, d).rec) = k => job[c][d].seen = Counted(k)
        BY <2>1 DEF Fresh, Writes, WriteCount
      <3> QED
        BY <2>1, <3>1 DEF WriteCount, TypeInv, RestOK, Kinds
    <2>2. CASE ~WriteCount(c, d)
      BY <2>2 DEF Handles, Handling, Ignore, Take, StorePut, StoreMove, StoreDelete, ReadStatus, WriteStatus,
         ReadCount, Fail, stores
    <2> QED
      BY <2>1, <2>2
  <1> QED
    BY <1>1, <1>2 DEF Fresh

\* The commit in hand, no row of its kind having changed.
LEMMA DueInHand ==
  ASSUME TypeInv, LogInv, SupportInv, SupportInv', NEW c \in Consumers, NEW d \in Repos,
         Handles(c, d), NEW k \in Kinds \ spoilt', Counted(k)' = Counted(k), lost' = {},
         \A q \in Of(k) : Keeps(q),
         NEW n, n = pos[c][d] + 1, Due(c, d, n, k)
  PROVE  Due(c, d, n, k)' \/ Fresh(k)'
  <1>1. /\ log' = log /\ Advances(c, d) /\ pos[c][d] \in Nat
        /\ Commit(c, d) \in Entries
        /\ c = Backfill => Active'
    BY HandlesAdvances, Handled
  <1>2. PICK r \in Of(k) : r = Commit(c, d).rec
    BY DEF Due, Ready, Commit
  <1>3. /\ Kind(r) = k /\ r \in Records /\ r \in DOMAIN Author /\ r \notin Sidecars
        /\ r # Argument
    BY <1>2, KindOf
  <1>4. \/ Commit(c, d).act = "put" /\ row[r] = "live"
        \/ Commit(c, d).act = "delete" /\ row[r] \in {"live", "deleted"}
    BY <1>2 DEF Due, Ready, Commit
  <1>5. Ready(d, n, k)'
    BY <1>1, <1>2 DEF Due, Ready, Commit, Of, Keeps
  <1>6. CASE Ignore(c, d)
    <2>1. ~Unknown(d)
      BY <1>6 DEF Ignore
    <2>2. Checked(Commit(c, d)) /\ (Author[r] \in Ineligible \/ Duplicate(r))
      BY <1>2, <1>6, <2>1 DEF Ignore, Skipped
    <2>3. row[r] = "live" /\ Author[r] \notin Ineligible
      BY <1>2, <1>4, <2>2 DEF Checked, LogInv, Eligible, Of
    <2>4. r \in Ratings
      BY <2>2, <2>3 DEF Duplicate
    <2>5. "likes" \in spoilt' /\ k = "likes"
      BY <1>2, <1>3, <1>6, <2>1, <2>3, <2>4 DEF Ignore, Kind
    <2> QED
      BY <2>5
  <1>7. CASE Take(c, d)
    <2>1. pos' = pos /\ job'[c][d].step = "store"
      BY <1>7 DEF Take, Then, TypeInv, JobsOK
    <2> QED
      BY <1>1, <1>5, <2>1 DEF Due, Before
  <1>8. CASE StorePut(c, d) \/ StoreMove(c, d) \/ StoreDelete(c, d)
    <2>1. ~StoreMove(c, d)
      BY <1>4 DEF StoreMove, Stores
    <2> QED
      BY <1>2, <1>4, <1>8, <2>1, StoringIsDue
  <1>9. CASE ReadStatus(c, d)
    <2>1. Then(c, d, "write_status", Derived(r))
      BY <1>2, <1>3, <1>4, <1>9 DEF ReadStatus, Parent
    <2>2. pos' = pos /\ job'[c][d].step = "write_status"
      BY <2>1 DEF Then, TypeInv, JobsOK
    <2> QED
      BY <1>5, <2>2 DEF Due
  <1>10. CASE WriteStatus(c, d)
    <2>1. r \in Comments /\ Commit(c, d).act = "put"
      BY <1>2, <1>3, <1>4, <1>10 DEF WriteStatus, SupportInv, StepsMatch
    <2>2. pos' = pos /\ job'[c][d].step = "count"
      BY <1>2, <1>10, <2>1 DEF WriteStatus, Then, TypeInv, JobsOK
    <2> QED
      BY <1>5, <2>2 DEF Due
  <1>11. CASE ReadCount(c, d)
    <2>1. pos' = pos /\ job'[c][d].step = "write_count" /\ job'[c][d].seen = Counted(k)
      BY <1>2, <1>3, <1>11 DEF ReadCount, Then, TypeInv, JobsOK
    <2> QED
      BY <1>5, <2>1 DEF Due
  <1>12. CASE WriteCount(c, d)
    <2>1. Writes(c, d, k) /\ k \in Kinds \ spoilt
      BY <1>2, <1>3, <1>12, RowsTouched DEF WriteCount, Writes
    <2>2. /\ row[Argument] # "none"
          /\ \A b \in Consumers, e \in Repos : Writes(b, e, k) => b = c /\ e = d
      BY <2>1 DEF SupportInv, OneWriter
    <2>3. job[c][d].seen = Counted(k)
      BY <1>1, <1>12 DEF WriteCount, Due, Before
    <2>4. count'[k] = Counted(k)
      BY <1>2, <1>3, <1>12, <2>2, <2>3 DEF WriteCount, TypeInv, RestOK, Kinds
    <2>5. \A b \in Consumers, e \in Repos : ~Writes(b, e, k)'
      <3>1. ~ReadCount(c, d)
        BY <1>12 DEF ReadCount, WriteCount
      <3> QED
        BY <2>1, <2>2, <3>1, WritesAfter
    <2> QED
      BY <2>4, <2>5 DEF Fresh
  <1>13. CASE Fail(c, d)
    BY <1>13 DEF Fail
  <1> QED
    BY <1>6, <1>7, <1>8, <1>9, <1>10, <1>11, <1>12, <1>13 DEF Handles, Handling

\* A commit somebody else has in hand, or that the handler has not come to.
LEMMA DueElsewhere ==
  ASSUME TypeInv, LogInv, NEW c \in Consumers, NEW d \in Repos, Handles(c, d), NEW k \in Kinds,
         Counted(k)' = Counted(k), \A q \in Of(k) : Keeps(q),
         NEW b \in Consumers, NEW e \in Repos, NEW i \in 1..Len(log[e]), Due(b, e, i, k),
         b # c \/ e # d \/ i # pos[c][d] + 1
  PROVE  Due(b, e, i, k)'
  <1>1. /\ log' = log /\ Advances(c, d) /\ pos[c][d] \in Nat
        /\ job[c][d].step # "idle" \/ Begins(c, d)
    BY HandlesAdvances, Handled
  <1>2. Ready(e, i, k)'
    BY <1>1 DEF Due, Ready, Of, Keeps
  <1>3. unread' = unread /\ (b = Backfill /\ Active => Active')
    BY HandlesAdvances DEF Active
  <1>4. CASE b # c \/ e # d
    BY <1>1, <1>2, <1>3, <1>4, JobsAfter DEF Due, Before
  <1>5. CASE b = c /\ e = d
    <2>1. Before(c, d, i) /\ pos[c][d] + 1 < i
      <3>1. log[d] \in Seq(Entries) /\ i \in Nat
        BY <1>5 DEF TypeInv, RestOK
      <3> QED
        BY <1>1, <1>5, <3>1 DEF Due, Before
    <2>2. \/ pos'[c][d] = pos[c][d] + 1 /\ job'[c][d].step = "idle"
          \/ pos'[c][d] = pos[c][d]
      BY <1>1, JobsAfter
    <2>3. Before(c, d, i)'
      BY <1>1, <1>3, <1>5, <2>1, <2>2 DEF Before
    <2> QED
      BY <1>2, <1>5, <2>3 DEF Due
  <1> QED
    BY <1>4, <1>5

LEMMA HandlesKeepsCounts ==
  ASSUME TypeInv, LogInv, SupportInv, SupportInv', CountsInv,
         NEW c \in Consumers, NEW d \in Repos, Handles(c, d)
  PROVE  CountsInv'
  <1> SUFFICES ASSUME lost' = {}, NEW k \in Kinds \ spoilt'
               PROVE  \/ Fresh(k)'
                      \/ \E b \in Consumers, e \in Repos : \E i \in 1..Len(log'[e]) : Due(b, e, i, k)'
    BY DEF CountsInv
  <1>1. k \in Kinds \ spoilt /\ lost = {}
    BY RowsTouched
  <1>2. log' = log /\ pos[c][d] + 1 \in 1..Len(log[d])
    BY HandlesAdvances, Handled
  <1>3. PICK n \in 1..Len(log[d]) : n = pos[c][d] + 1
    BY <1>2
  <1>4. CASE /\ Commit(c, d).rec \in Of(k)
             /\ \/ StorePut(c, d)
                \/ StoreDelete(c, d) /\ row[Commit(c, d).rec] \in {"live", "deleted"}
    <2>1. Due(c, d, n, k)'
      BY <1>1, <1>3, <1>4, StoringIsDue
    <2> QED
      BY <1>2, <1>3, <2>1
  <1>5. CASE ~(/\ Commit(c, d).rec \in Of(k)
               /\ \/ StorePut(c, d)
                  \/ StoreDelete(c, d) /\ row[Commit(c, d).rec] \in {"live", "deleted"})
    <2>1. \A q \in Of(k) : Keeps(q)
      <3>1. ASSUME StoreMove(c, d), Commit(c, d).rec \in Of(k)
            PROVE  row[Commit(c, d).rec] \notin {"live", "deleted"}
        BY <1>1, <3>1, KindOf DEF StoreMove
      <3> QED
        BY <1>1, <1>5, <3>1, RowsTouched, KindOf DEF Keeps
    <2>2. Counted(k)' = Counted(k)
      BY <1>1, <2>1, CountedStays DEF Keeps
    <2>3. CASE Fresh(k)
      BY <1>1, <2>2, <2>3, FreshStays
    <2>4. ASSUME NEW b \in Consumers, NEW e \in Repos, NEW i \in 1..Len(log[e]), Due(b, e, i, k)
          PROVE  Due(b, e, i, k)' \/ Fresh(k)'
      <3>1. CASE b = c /\ e = d /\ i = n
        BY <1>1, <1>3, <2>1, <2>2, <2>4, <3>1, DueInHand
      <3>2. CASE b # c \/ e # d \/ i # n
        BY <1>1, <1>3, <2>1, <2>2, <2>4, <3>2, DueElsewhere
      <3> QED
        BY <3>1, <3>2
    <2> QED
      BY <1>1, <1>2, <2>3, <2>4 DEF CountsInv
  <1> QED
    BY <1>4, <1>5

\* What is not a step of a handler leaves every commit with whoever had it.
LEMMA OtherSteps ==
  ASSUME TypeInv, LogInv, [Next]_vars, \A c \in Consumers, d \in Repos : ~Handles(c, d)
  PROVE  /\ UNCHANGED <<row, count, status, spoilt, lost>>
         /\ \A d \in Repos : /\ 1..Len(log[d]) \subseteq 1..Len(log'[d])
                             /\ \A i \in 1..Len(log[d]) : log'[d][i] = log[d][i]
         /\ \A c \in Consumers, d \in Repos : job'[c][d].step # "idle" =>
              job'[c][d] = job[c][d] /\ Commit(c, d)' = Commit(c, d)
         /\ \A c \in Consumers, d \in Repos : \A i \in 1..Len(log[d]) :
              /\ Before(c, d, i) => Before(c, d, i)'
              /\ pos[c][d] + 1 = i /\ job[c][d].step # "idle" =>
                   Before(c, d, i)' \/ (pos'[c][d] = pos[c][d] /\ job'[c][d] = job[c][d])
  <1>1. ASSUME NEW d \in Repos, NEW i \in 1..Len(log[d])
        PROVE  i \in Nat /\ i <= Len(log[d]) /\ Len(log[d]) \in Nat /\ i > 0
    <2>1. log[d] \in Seq(Entries)
      BY DEF TypeInv, RestOK
    <2> QED
      BY <2>1
  <1>2. CASE Writing
    <2>1. PICK r \in Records, act \in Acts : Commits(r, act)
      BY <1>2, ProjectionAssumption
      DEF Writing, CreateLike, Retract, CreateComment, WriteDirectly, MoveAway,
       Translate, Records, Acts
    <2>2. UNCHANGED <<row, count, status, spoilt, lost, job, pos, backfill, unread>>
      BY <2>1 DEF Commits, stores
    <2>3. \A c \in Consumers, d \in Repos : job[c][d].step # "idle" => Commit(c, d)' = Commit(c, d)
      BY <2>1, HandStays
    <2>4. \A d \in Repos : /\ Len(log[d]) \in Nat /\ Len(log'[d]) \in {Len(log[d]), Len(log[d]) + 1}
                           /\ \A i \in 1..Len(log[d]) : log'[d][i] = log[d][i]
      BY <2>1, Appended
    <2>5. \A d \in Repos : 1..Len(log[d]) \subseteq 1..Len(log'[d])
      BY <2>4
    <2>6. \A c \in Consumers, d \in Repos : \A i \in 1..Len(log[d]) :
            Before(c, d, i)' <=> Before(c, d, i)
      BY <2>2, <2>4 DEF Before, Active
    <2> QED
      BY <2>2, <2>3, <2>4, <2>5, <2>6
  <1>3. ASSUME UNCHANGED <<log, pos, job, stores, lost>>,
               \A d \in Repos : \A i \in 1..Len(log[d]) :
                 Before(Backfill, d, i) => Active' \/ log[d][i].rec \in unread'
        PROVE  /\ UNCHANGED <<row, count, status, spoilt, lost, log, pos, job>>
               /\ \A c \in Consumers, d \in Repos : Commit(c, d)' = Commit(c, d)
               /\ \A c \in Consumers, d \in Repos : \A i \in 1..Len(log[d]) :
                    Before(c, d, i) => Before(c, d, i)'
    BY <1>3 DEF stores, Commit, Before
  <1>4. CASE RefreshCommunityDids \/ StartBackfill \/ EndBackfill \/ UNCHANGED vars
    <2>1. UNCHANGED <<log, pos, job, stores, lost, unread>> /\ (Active => Active')
      BY <1>4 DEF RefreshCommunityDids, StartBackfill, EndBackfill, vars, stores, Active
    <2>2. \A d \in Repos : \A i \in 1..Len(log[d]) :
            Before(Backfill, d, i) => Active' \/ log[d][i].rec \in unread'
      BY <2>1 DEF Before
    <2> QED
      BY <1>3, <2>1, <2>2
  <1>5. CASE FinishBackfill
    <2>1. ASSUME NEW d \in Repos, NEW i \in 1..Len(log[d]), Before(Backfill, d, i)
          PROVE  log[d][i].rec \in unread'
      <3>1. log[d] \in Seq(Entries) /\ pos[Backfill][d] \in Nat
        BY DEF TypeInv, RestOK, PosOK, Consumers
      <3>2. i \in DOMAIN log[d] /\ i > pos[Backfill][d] /\ log[d][i] \in Entries
        BY <1>1, <2>1, <3>1 DEF Before
      <3>3. Repo(log[d][i].rec) = d /\ log[d][i].rec \in Records
        BY <3>2 DEF LogInv, Own, Entries
      <3> QED
        BY <1>5, <3>2, <3>3 DEF FinishBackfill
    <2> QED
      BY <1>3, <1>5, <2>1 DEF FinishBackfill
  <1>6. CASE Crash
    <2>1. \A c \in Consumers, d \in Repos : /\ job'[c][d].step = "idle"
                                            /\ pos'[c][d] \in {0, pos[c][d]}
      BY <1>6 DEF Crash, Idle
    <2>2. (Active => Active') /\ log' = log /\ unread' = unread
      BY <1>6 DEF Crash, Active
    <2>3. ASSUME NEW c \in Consumers, NEW d \in Repos, NEW i \in 1..Len(log[d]),
                 Before(c, d, i) \/ (pos[c][d] + 1 = i /\ job[c][d].step # "idle")
          PROVE  Before(c, d, i)'
      <3>1. pos[c][d] \in Nat /\ pos[c][d] < i
        BY <1>1, <2>3 DEF TypeInv, PosOK, Before
      <3>2. c = Backfill => Active \/ log[d][i].rec \in unread
        BY <2>3 DEF Before, LogInv, BackfillRuns
      <3> QED
        BY <1>1, <2>1, <2>2, <3>1, <3>2 DEF Before
    <2>4. UNCHANGED <<row, count, status, spoilt, lost, log>>
      BY <1>6 DEF Crash, stores
    <2> QED
      BY <2>1, <2>3, <2>4
  <1> QED
    BY <1>2, <1>4, <1>5, <1>6 DEF Next, Handles

LEMMA CountsInvStep ==
  TypeInv /\ LogInv /\ SupportInv /\ SupportInv' /\ CountsInv /\ [Next]_vars => CountsInv'
  <1> SUFFICES ASSUME TypeInv, LogInv, SupportInv, SupportInv', CountsInv, [Next]_vars
               PROVE  CountsInv'
    OBVIOUS
  <1>1. CASE \E c \in Consumers, d \in Repos : Handles(c, d)
    BY <1>1, HandlesKeepsCounts
  <1>2. CASE \A c \in Consumers, d \in Repos : ~Handles(c, d)
    <2> SUFFICES ASSUME lost' = {}, NEW k \in Kinds \ spoilt'
                 PROVE  \/ Fresh(k)'
                        \/ \E c \in Consumers, d \in Repos : \E i \in 1..Len(log'[d]) : Due(c, d, i, k)'
      BY DEF CountsInv
    <2>1. UNCHANGED <<row, count, spoilt, lost>>
      BY <1>2, OtherSteps
    <2>2. Counted(k)' = Counted(k)
      BY <2>1, CountedStays
    <2>3. CASE Fresh(k)
      <3>1. \A c \in Consumers, d \in Repos :
              Writes(c, d, k)' => Writes(c, d, k) /\ job'[c][d] = job[c][d]
        BY <1>2, OtherSteps DEF Writes, Kind
      <3> QED
        BY <2>1, <2>2, <2>3, <3>1 DEF Fresh
    <2>4. ASSUME NEW c \in Consumers, NEW d \in Repos, NEW i \in 1..Len(log[d]), Due(c, d, i, k)
          PROVE  Due(c, d, i, k)' /\ i \in 1..Len(log'[d])
      <3>1. Ready(d, i, k)' /\ i \in 1..Len(log'[d])
        BY <1>2, <2>1, <2>4, OtherSteps DEF Due, Ready, Of
      <3>2. /\ Before(c, d, i) => Before(c, d, i)'
            /\ pos[c][d] + 1 = i /\ job[c][d].step # "idle" =>
                 Before(c, d, i)' \/ (pos'[c][d] = pos[c][d] /\ job'[c][d] = job[c][d])
        BY <1>2, OtherSteps
      <3> QED
        BY <2>2, <2>4, <3>1, <3>2 DEF Due
    <2> QED
      BY <2>1, <2>3, <2>4 DEF CountsInv
  <1> QED
    BY <1>1, <1>2

\* CountsSettle for all constants: a count is exact at rest, however often a commit
\* is replayed, unless refreshes overlapped or one had no row to write to.
THEOREM CountsAreSettled == Spec => []CountsSettle
  <1>1. TypeInv /\ CountsInv => CountsSettle
    <2> SUFFICES ASSUME TypeInv, CountsInv, AtRest, lost = {}, NEW k \in Kinds \ spoilt,
                        \A r \in unread \cap DOMAIN Author : Kind(r) # k
                 PROVE  count[k] = Counted(k)
      BY DEF CountsSettle, Kinds
    <2>1. ASSUME NEW c \in Consumers, NEW d \in Repos, NEW i \in 1..Len(log[d])
          PROVE  ~Due(c, d, i, k)
      <3>1. log[d] \in Seq(Entries)
        BY DEF TypeInv, RestOK
      <3>2. job[c][d].step = "idle" /\ (c = Live => pos[c][d] = Len(log[d])) /\ ~Active
        BY DEF AtRest, CaughtUp, Active, Consumers
      <3> QED
        BY <3>1, <3>2, KindOf DEF Due, Ready, Before, Consumers
    <2> QED
      BY <2>1 DEF CountsInv, Fresh
  <1> QED
    BY <1>1, TypeInvInit, TypeInvStep, LogInvInit, LogInvStep, CountsInit, SupportInvStep,
       CountsInvStep, PTL DEF Spec

-----------------------------------------------------------------------------
(***************************************************************************)
(* The translation status.  In the same way: a comment whose status is not *)
(* that of its sidecars has a commit of its own or of a sidecar that       *)
(* somebody has yet to handle to the end.                                  *)
(***************************************************************************)
WritesOf(c, d, x) == job[c][d].step = "write_status" /\ Parent(Commit(c, d).rec) = x

OneStatusWriter ==
  "status" \notin spoilt =>
    \A c, b \in Consumers, d, e \in Repos :
      job[c][d].step = "write_status" /\ job[b][e].step = "write_status" => b = c /\ e = d

FreshStatus(x) ==
  /\ status[x] = Derived(x)
  /\ \A c \in Consumers, d \in Repos : WritesOf(c, d, x) => job[c][d].seen = Derived(x)

\* The handler of the commit ends with a recomputation.
Recomputes(d, i, x) ==
  LET r == log[d][i].rec IN
  /\ Parent(r) = x
  /\ \/ r = x /\ log[d][i].act # "delete" /\ Author[x] \notin Ineligible
     \/ r \in Sidecars /\ (log[d][i].act = "put" \/ row[r] # "none")

DueStatus(c, d, i, x) ==
  /\ Recomputes(d, i, x)
  /\ \/ Before(c, d, i)
     \/ /\ pos[c][d] + 1 = i
        /\ \/ job[c][d].step = "status"
           \/ job[c][d].step = "write_status" /\ job[c][d].seen = Derived(x)

StatusInv ==
  lost = {} /\ "status" \notin spoilt => \A x \in Comments :
    \/ row[x] = "none"
    \/ FreshStatus(x)
    \/ \E c \in Consumers, d \in Repos : \E i \in 1..Len(log[d]) : DueStatus(c, d, i, x)

LEMMA DerivedStays ==
  ASSUME NEW x \in Comments, \A s \in Sidecars : Subject[s] = x => row'[s] = row[s]
  PROVE  Derived(x)' = Derived(x)
  <1>1. {s \in Sidecars : Subject[s] = x /\ row'[s] = "live"} =
        {s \in Sidecars : Subject[s] = x /\ row[s] = "live"}
    OBVIOUS
  <1>2. /\ {s \in {q \in Sidecars : Subject[q] = x} : row[s] = "live"} =
           {s \in Sidecars : Subject[s] = x /\ row[s] = "live"}
        /\ {s \in {q \in Sidecars : Subject[q] = x} : row'[s] = "live"} =
           {s \in Sidecars : Subject[s] = x /\ row'[s] = "live"}
    OBVIOUS
  <1> QED
    BY <1>1, <1>2 DEF Derived

LEMMA StatusInit == Init => OneStatusWriter /\ StatusInv
  <1> SUFFICES ASSUME Init PROVE OneStatusWriter /\ StatusInv
    OBVIOUS
  <1>1. \A c \in Consumers, d \in Repos : job[c][d].step = "idle"
    BY DEF Init, Idle
  <1>2. \A x \in Comments : row[x] = "none"
    BY DEF Init, Records
  <1> QED
    BY <1>1, <1>2 DEF OneStatusWriter, StatusInv

LEMMA StatusWriteAfter ==
  ASSUME TypeInv, LogInv, NEW c \in Consumers, NEW d \in Repos, Handles(c, d),
         NEW b \in Consumers, NEW e \in Repos, job'[b][e].step = "write_status"
  PROVE  /\ Commit(b, e)' = Commit(b, e)
         /\ \/ /\ b = c /\ e = d /\ ReadStatus(c, d)
               /\ job'[c][d].seen = Derived(Parent(Commit(c, d).rec))
            \/ (b # c \/ e # d) /\ job'[b][e] = job[b][e]
  <1>1. log' = log /\ Advances(c, d)
    BY HandlesAdvances
  <1>2. CASE b # c \/ e # d
    BY <1>1, <1>2, JobsAfter DEF Commit
  <1>3. CASE b = c /\ e = d
    <2>1. ReadStatus(c, d)
      BY <1>3 DEF Handles, Handling, Ignore, Take, StorePut, StoreMove, StoreDelete, ReadCount, WriteStatus,
         WriteCount, Fail, Done, Then, Idle, TypeInv, JobsOK
    <2>2. ~Done(c, d)
      BY <1>3 DEF Done, Idle, TypeInv, JobsOK
    <2>3. pos' = pos /\ job'[c][d].seen = Derived(Parent(Commit(c, d).rec))
      BY <2>1, <2>2 DEF ReadStatus, Then, TypeInv, JobsOK
    <2> QED
      BY <1>1, <1>3, <2>1, <2>3 DEF Commit
  <1> QED
    BY <1>2, <1>3

LEMMA OneStatusWriterStep ==
  TypeInv /\ LogInv /\ SupportInv /\ OneStatusWriter /\ [Next]_vars => OneStatusWriter'
  <1> SUFFICES ASSUME TypeInv, LogInv, SupportInv, OneStatusWriter, [Next]_vars
               PROVE  OneStatusWriter'
    OBVIOUS
  <1>1. ASSUME NEW c \in Consumers, NEW d \in Repos, Handles(c, d)
        PROVE  OneStatusWriter'
    <2> SUFFICES ASSUME "status" \notin spoilt',
                        NEW b \in Consumers, NEW e \in Repos, job'[b][e].step = "write_status",
                        NEW b2 \in Consumers, NEW e2 \in Repos, job'[b2][e2].step = "write_status"
                 PROVE  b2 = b /\ e2 = e
      BY DEF OneStatusWriter
    <2>1. "status" \notin spoilt
      BY <1>1, RowsTouched
    <2>2. CASE ReadStatus(c, d)
      <3>1. ~Overlaps(c, d, Comments \cup Sidecars, "write_status")
        BY <2>2 DEF ReadStatus
      <3>2. ASSUME NEW f \in Consumers, NEW g \in Repos, job[f][g].step = "write_status"
            PROVE  f = c /\ g = d
        BY <3>1, <3>2 DEF Overlaps, SupportInv, StepsMatch
      <3> QED
        BY <1>1, <3>2, StatusWriteAfter
    <2>3. CASE ~ReadStatus(c, d)
      <3>1. job[b][e].step = "write_status" /\ job[b2][e2].step = "write_status"
        BY <1>1, <2>3, StatusWriteAfter
      <3> QED
        BY <2>1, <3>1 DEF OneStatusWriter
    <2> QED
      BY <2>2, <2>3
  <1>2. CASE \A c \in Consumers, d \in Repos : ~Handles(c, d)
    <2>1. /\ spoilt' = spoilt
          /\ \A c \in Consumers, d \in Repos :
               job'[c][d].step = "write_status" => job[c][d].step = "write_status"
      BY <1>2, OtherSteps
    <2> QED
      BY <2>1 DEF OneStatusWriter
  <1> QED
    BY <1>1, <1>2

\* A sidecar or a comment that was changed has its status recomputed.
LEMMA StoringIsDueStatus ==
  ASSUME TypeInv, LogInv, NEW c \in Consumers, NEW d \in Repos, NEW x \in Comments,
         \/ (StorePut(c, d) \/ StoreMove(c, d)) /\ Commit(c, d).rec = x
         \/ /\ StorePut(c, d) \/ (StoreDelete(c, d) /\ row[Commit(c, d).rec] # "none")
            /\ Commit(c, d).rec \in Sidecars /\ Subject[Commit(c, d).rec] = x,
         NEW n, n = pos[c][d] + 1
  PROVE  DueStatus(c, d, n, x)'
  <1>1. Handles(c, d)
    BY DEF Handles, Handling
  <1>2. PICK r : r = Commit(c, d).rec
    OBVIOUS
  <1>3. r \in Records /\ r \notin Ratings /\ r # Argument /\ Parent(r) = x
    BY <1>2, ProjectionAssumption DEF Records, Parent
  <1>4. log' = log /\ pos' = pos /\ job'[c][d].step = "status"
    <2>1. r \in Sidecars => row[r] # "moved"
      BY DEF LogInv, Eligible
    <2>2. log' = log /\ Then(c, d, "status", "nothing")
      BY <1>2, <1>3, <2>1, ProjectionAssumption DEF StorePut, StoreMove, StoreDelete
    <2> QED
      BY <2>2 DEF Then, TypeInv, JobsOK
  <1>5. CASE r = x
    <2>1. Commit(c, d).act # "delete" /\ r \in DOMAIN Author
      BY <1>2, <1>5, ProjectionAssumption DEF StorePut, StoreMove, StoreDelete, Stores
    <2>2. Author[x] \notin Ineligible
      BY <1>2, <1>5, <2>1 DEF StorePut, StoreMove, StoreDelete, Stores, Checked, LogInv, PastGate
    <2>3. Recomputes(d, n, x)'
      BY <1>2, <1>3, <1>4, <1>5, <2>1, <2>2 DEF Recomputes, Commit, Parent
    <2> QED
      BY <1>4, <2>3 DEF DueStatus
  <1>6. CASE r # x
    <2>1. r \in Sidecars /\ row'[r] # "none"
      BY <1>1, <1>2, <1>6, RowsTouched
    <2>2. Recomputes(d, n, x)'
      BY <1>2, <1>3, <1>4, <2>1 DEF Recomputes, Commit, Parent
    <2> QED
      BY <1>4, <2>2 DEF DueStatus
  <1> QED
    BY <1>5, <1>6

LEMMA FreshStatusStays ==
  ASSUME TypeInv, LogInv, NEW c \in Consumers, NEW d \in Repos, Handles(c, d),
         NEW x \in Comments, Derived(x)' = Derived(x), FreshStatus(x)
  PROVE  FreshStatus(x)'
  <1>1. ASSUME NEW b \in Consumers, NEW e \in Repos, WritesOf(b, e, x)'
        PROVE  job'[b][e].seen = Derived(x)
    <2>1. job'[b][e].step = "write_status" /\ Parent(Commit(b, e)'.rec) = x
      BY <1>1 DEF WritesOf, Parent
    <2>2. Parent(Commit(b, e).rec) = x
      BY <2>1, StatusWriteAfter
    <2> QED
      BY <2>1, <2>2, StatusWriteAfter DEF FreshStatus, WritesOf
  <1>2. status'[x] = Derived(x)
    <2>1. CASE WriteStatus(c, d)
      <3>1. Parent(Commit(c, d).rec) = x => job[c][d].seen = Derived(x)
        BY <2>1 DEF FreshStatus, WritesOf, WriteStatus
      <3> QED
        BY <2>1, <3>1 DEF WriteStatus, TypeInv, RestOK, FreshStatus
    <2>2. CASE ~WriteStatus(c, d)
      BY <2>2 DEF Handles, Handling, Ignore, Take, StorePut, StoreMove, StoreDelete, ReadStatus, ReadCount,
         WriteCount, Fail, stores, FreshStatus
    <2> QED
      BY <2>1, <2>2
  <1> QED
    BY <1>1, <1>2 DEF FreshStatus

LEMMA RecomputesStays ==
  ASSUME TypeInv, LogInv, NEW c \in Consumers, NEW d \in Repos, Handles(c, d),
         NEW e \in Repos, NEW i \in 1..Len(log[e]), NEW x, Recomputes(e, i, x)
  PROVE  Recomputes(e, i, x)'
  <1>1. log' = log
    BY HandlesAdvances
  <1>2. \A r \in Sidecars : row[r] # "none" => row'[r] # "none"
    BY RowsTouched DEF Records
  <1> QED
    BY <1>1, <1>2 DEF Recomputes, Parent

LEMMA DueStatusInHand ==
  ASSUME TypeInv, LogInv, SupportInv, OneStatusWriter, NEW c \in Consumers, NEW d \in Repos,
         Handles(c, d), NEW x \in Comments, row[x] # "none", Derived(x)' = Derived(x),
         lost' = {}, "status" \notin spoilt',
         NEW n \in 1..Len(log[d]), n = pos[c][d] + 1, DueStatus(c, d, n, x)
  PROVE  DueStatus(c, d, n, x)' \/ FreshStatus(x)'
  <1>1. log' = log /\ Advances(c, d) /\ pos[c][d] \in Nat /\ (c = Backfill => Active')
    BY HandlesAdvances, Handled
  <1>2. PICK r : r = Commit(c, d).rec
    OBVIOUS
  <1>3. /\ Parent(r) = x
        /\ \/ r = x /\ Commit(c, d).act # "delete" /\ Author[x] \notin Ineligible
           \/ r \in Sidecars /\ (Commit(c, d).act = "put" \/ row[r] # "none")
    BY <1>2 DEF DueStatus, Recomputes, Commit
  <1>4. Recomputes(d, n, x)'
    BY RecomputesStays DEF DueStatus
  <1>5. CASE Ignore(c, d)
    <2>1. ~Unknown(d) /\ Skipped(Commit(c, d))
      BY <1>5 DEF Ignore
    <2>2. r \notin Sidecars
      BY <1>2, <2>1, ProjectionAssumption DEF Skipped, Checked
    <2>3. r = x /\ Author[x] \notin Ineligible /\ x \notin Ratings
      BY <1>3, <2>2, ProjectionAssumption
    <2> QED
      BY <1>2, <2>1, <2>3 DEF Skipped, Duplicate
  <1>6. CASE Take(c, d)
    <2>1. pos' = pos /\ job'[c][d].step = "store"
      BY <1>6 DEF Take, Then, TypeInv, JobsOK
    <2> QED
      BY <1>1, <1>4, <2>1 DEF DueStatus, Before
  <1>7. CASE StorePut(c, d) \/ StoreMove(c, d) \/ StoreDelete(c, d)
    <2>1. CASE r = x
      <3>1. StorePut(c, d) \/ StoreMove(c, d)
        BY <1>3, <1>7, <2>1, ProjectionAssumption DEF StoreDelete, Stores
      <3> QED
        BY <1>2, <2>1, <3>1, StoringIsDueStatus
    <2>2. CASE r # x
      <3>1. r \in Sidecars /\ Subject[r] = x
        BY <1>3, <2>2 DEF Parent
      <3>2. StorePut(c, d) \/ (StoreDelete(c, d) /\ row[r] # "none")
        BY <1>2, <1>3, <1>7, <2>2, <3>1, ProjectionAssumption
        DEF StoreMove, StoreDelete, Stores, LogInv, PastGate, Checked
      <3> QED
        BY <1>2, <3>1, <3>2, StoringIsDueStatus
    <2> QED
      BY <2>1, <2>2
  <1>8. CASE ReadStatus(c, d)
    <2>1. Then(c, d, "write_status", Derived(x))
      BY <1>2, <1>3, <1>8 DEF ReadStatus
    <2>2. pos' = pos /\ job'[c][d].step = "write_status" /\ job'[c][d].seen = Derived(x)
      BY <2>1 DEF Then, TypeInv, JobsOK
    <2> QED
      BY <1>4, <2>2 DEF DueStatus
  <1>9. CASE WriteStatus(c, d)
    <2>1. job[c][d].step = "write_status" /\ job[c][d].seen = Derived(x)
      BY <1>9 DEF WriteStatus, DueStatus, Before
    <2>2. status'[x] = Derived(x)
      BY <1>2, <1>3, <1>9, <2>1 DEF WriteStatus, TypeInv, RestOK
    <2>3. ASSUME NEW b \in Consumers, NEW e \in Repos, job'[b][e].step = "write_status"
          PROVE  FALSE
      <3>1. ~ReadStatus(c, d)
        BY <1>9 DEF ReadStatus, WriteStatus
      <3>2. (b # c \/ e # d) /\ job[b][e].step = "write_status"
        BY <2>3, <3>1, StatusWriteAfter
      <3>3. "status" \notin spoilt
        BY RowsTouched
      <3> QED
        BY <2>1, <3>2, <3>3 DEF OneStatusWriter
    <2> QED
      BY <2>2, <2>3 DEF FreshStatus, WritesOf
  <1>10. CASE ReadCount(c, d) \/ WriteCount(c, d)
    BY <1>10 DEF ReadCount, WriteCount, DueStatus, Before
  <1>11. CASE Fail(c, d)
    BY <1>11 DEF Fail
  <1> QED
    BY <1>5, <1>6, <1>7, <1>8, <1>9, <1>10, <1>11 DEF Handles, Handling

LEMMA DueStatusElsewhere ==
  ASSUME TypeInv, LogInv, NEW c \in Consumers, NEW d \in Repos, Handles(c, d),
         NEW x \in Comments, Derived(x)' = Derived(x),
         NEW b \in Consumers, NEW e \in Repos, NEW i \in 1..Len(log[e]), DueStatus(b, e, i, x),
         b # c \/ e # d \/ i # pos[c][d] + 1
  PROVE  DueStatus(b, e, i, x)'
  <1>1. /\ log' = log /\ Advances(c, d) /\ pos[c][d] \in Nat
        /\ job[c][d].step # "idle" \/ Begins(c, d)
    BY HandlesAdvances, Handled
  <1>2. Recomputes(e, i, x)'
    BY RecomputesStays DEF DueStatus
  <1>3. unread' = unread /\ (b = Backfill /\ Active => Active')
    BY HandlesAdvances DEF Active
  <1>4. CASE b # c \/ e # d
    BY <1>1, <1>2, <1>3, <1>4, JobsAfter DEF DueStatus, Before
  <1>5. CASE b = c /\ e = d
    <2>1. Before(c, d, i) /\ pos[c][d] + 1 < i
      <3>1. log[d] \in Seq(Entries) /\ i \in Nat
        BY <1>5 DEF TypeInv, RestOK
      <3> QED
        BY <1>1, <1>5, <3>1 DEF DueStatus, Before
    <2>2. \/ pos'[c][d] = pos[c][d] + 1 /\ job'[c][d].step = "idle"
          \/ pos'[c][d] = pos[c][d]
      BY <1>1, JobsAfter
    <2>3. Before(c, d, i)'
      BY <1>1, <1>3, <1>5, <2>1, <2>2 DEF Before
    <2> QED
      BY <1>2, <1>5, <2>3 DEF DueStatus
  <1> QED
    BY <1>4, <1>5

LEMMA HandlesKeepsStatus ==
  ASSUME TypeInv, LogInv, SupportInv, OneStatusWriter, StatusInv,
         NEW c \in Consumers, NEW d \in Repos, Handles(c, d)
  PROVE  StatusInv'
  <1> SUFFICES ASSUME lost' = {}, "status" \notin spoilt', NEW x \in Comments, row'[x] # "none"
               PROVE  \/ FreshStatus(x)'
                      \/ \E b \in Consumers, e \in Repos :
                           \E i \in 1..Len(log'[e]) : DueStatus(b, e, i, x)'
    BY DEF StatusInv
  <1>1. "status" \notin spoilt /\ lost = {}
    BY RowsTouched
  <1>2. log' = log /\ pos[c][d] + 1 \in 1..Len(log[d])
    BY HandlesAdvances, Handled
  <1>3. PICK n \in 1..Len(log[d]) : n = pos[c][d] + 1
    BY <1>2
  <1> DEFINE Touches == \/ (StorePut(c, d) \/ StoreMove(c, d)) /\ Commit(c, d).rec = x
                        \/ /\ StorePut(c, d) \/ (StoreDelete(c, d) /\ row[Commit(c, d).rec] # "none")
                           /\ Commit(c, d).rec \in Sidecars /\ Subject[Commit(c, d).rec] = x
  <1>4. CASE Touches
    <2>1. DueStatus(c, d, n, x)'
      BY <1>3, <1>4, StoringIsDueStatus
    <2> QED
      BY <1>2, <1>3, <2>1
  <1>5. CASE ~Touches
    <2>1. \A s \in Sidecars : Subject[s] = x => row'[s] = row[s]
      <3>1. StoreMove(c, d) => Commit(c, d).rec \notin Sidecars
        BY ProjectionAssumption DEF StoreMove, LogInv, PastGate, Checked
      <3> QED
        BY <1>5, <3>1, RowsTouched DEF Records
    <2>2. row[x] # "none"
      BY <1>5, RowsTouched DEF Records
    <2>3. Derived(x)' = Derived(x)
      BY <2>1, DerivedStays
    <2>4. CASE FreshStatus(x)
      BY <2>3, <2>4, FreshStatusStays
    <2>5. ASSUME NEW b \in Consumers, NEW e \in Repos, NEW i \in 1..Len(log[e]),
                 DueStatus(b, e, i, x)
          PROVE  DueStatus(b, e, i, x)' \/ FreshStatus(x)'
      <3>1. CASE b = c /\ e = d /\ i = n
        BY <1>3, <2>2, <2>3, <2>5, <3>1, DueStatusInHand
      <3>2. CASE b # c \/ e # d \/ i # n
        BY <1>3, <2>3, <2>5, <3>2, DueStatusElsewhere
      <3> QED
        BY <3>1, <3>2
    <2> QED
      BY <1>1, <1>2, <2>2, <2>4, <2>5 DEF StatusInv
  <1> QED
    BY <1>4, <1>5

LEMMA StatusInvStep ==
  TypeInv /\ LogInv /\ SupportInv /\ OneStatusWriter /\ StatusInv /\ [Next]_vars => StatusInv'
  <1> SUFFICES ASSUME TypeInv, LogInv, SupportInv, OneStatusWriter, StatusInv, [Next]_vars
               PROVE  StatusInv'
    OBVIOUS
  <1>1. CASE \E c \in Consumers, d \in Repos : Handles(c, d)
    BY <1>1, HandlesKeepsStatus
  <1>2. CASE \A c \in Consumers, d \in Repos : ~Handles(c, d)
    <2> SUFFICES ASSUME lost' = {}, "status" \notin spoilt', NEW x \in Comments, row'[x] # "none"
                 PROVE  \/ FreshStatus(x)'
                        \/ \E c \in Consumers, d \in Repos :
                             \E i \in 1..Len(log'[d]) : DueStatus(c, d, i, x)'
      BY DEF StatusInv
    <2>1. UNCHANGED <<row, status, spoilt, lost>>
      BY <1>2, OtherSteps
    <2>2. Derived(x)' = Derived(x)
      BY <2>1, DerivedStays
    <2>3. CASE FreshStatus(x)
      <3>1. \A c \in Consumers, d \in Repos :
              WritesOf(c, d, x)' => WritesOf(c, d, x) /\ job'[c][d] = job[c][d]
        BY <1>2, OtherSteps DEF WritesOf, Parent
      <3> QED
        BY <2>1, <2>2, <2>3, <3>1 DEF FreshStatus
    <2>4. ASSUME NEW c \in Consumers, NEW d \in Repos, NEW i \in 1..Len(log[d]),
                 DueStatus(c, d, i, x)
          PROVE  DueStatus(c, d, i, x)' /\ i \in 1..Len(log'[d])
      <3>1. Recomputes(d, i, x)' /\ i \in 1..Len(log'[d])
        BY <1>2, <2>1, <2>4, OtherSteps DEF DueStatus, Recomputes, Parent
      <3>2. /\ Before(c, d, i) => Before(c, d, i)'
            /\ pos[c][d] + 1 = i /\ job[c][d].step # "idle" =>
                 Before(c, d, i)' \/ (pos'[c][d] = pos[c][d] /\ job'[c][d] = job[c][d])
        BY <1>2, OtherSteps
      <3> QED
        BY <2>2, <2>4, <3>1, <3>2 DEF DueStatus
    <2> QED
      BY <2>1, <2>3, <2>4 DEF StatusInv
  <1> QED
    BY <1>1, <1>2

\* StatusSettles for all constants: at rest a comment's status is that of its
\* sidecars, whichever of them was handled first and however often.
THEOREM StatusIsSettled == Spec => []StatusSettles
  <1>1. TypeInv /\ StatusInv => StatusSettles
    <2> SUFFICES ASSUME TypeInv, StatusInv, AtRest, lost = {}, "status" \notin spoilt,
                        NEW x \in Comments, row[x] # "none", \A r \in unread : Parent(r) # x
                 PROVE  status[x] = Derived(x)
      BY DEF StatusSettles
    <2>1. ASSUME NEW c \in Consumers, NEW d \in Repos, NEW i \in 1..Len(log[d])
          PROVE  ~DueStatus(c, d, i, x)
      <3>1. log[d] \in Seq(Entries)
        BY DEF TypeInv, RestOK
      <3>2. job[c][d].step = "idle" /\ (c = Live => pos[c][d] = Len(log[d])) /\ ~Active
        BY DEF AtRest, CaughtUp, Active, Consumers
      <3> QED
        BY <3>1, <3>2 DEF DueStatus, Recomputes, Before, Consumers
    <2> QED
      BY <2>1 DEF StatusInv, FreshStatus
  <1> QED
    BY <1>1, TypeInvInit, TypeInvStep, LogInvInit, LogInvStep, CountsInit, SupportInvStep,
       StatusInit, OneStatusWriterStep, StatusInvStep, PTL DEF Spec
=============================================================================
