--------------------------- MODULE AcceptanceProofs ---------------------------
(***************************************************************************)
(* The acceptance queue and the quota, for any number of requests,         *)
(* originals and writers and any caps: types, the agreement of the queue   *)
(* with the community repo, the caps on the ledger, and the cap on what is *)
(* published as long as no writer fails.                                   *)
(***************************************************************************)
EXTENDS Acceptance, FiniteSetTheorems, TLAPS

-----------------------------------------------------------------------------
(***************************************************************************)
(* Types.                                                                  *)
(***************************************************************************)
LEMMA TypeOKInit == Init => TypeOK
  BY AcceptanceAssumption DEF Init, TypeOK, NoJob, Rows

\* The steps of a writer that has claimed a row.
Works(w) ==
  \/ CheckLedger(w) \/ LockQuota(w) \/ RefuseQuota(w) \/ CountQuota(w)
  \/ Publish(w) \/ Commit(w) \/ WriterFails(w)

Jobs == [step : {"absent", "unledgered", "locked", "cleared", "published"},
         tid : Tids, counted : BOOLEAN]

LEMMA JobOfWriter ==
  ASSUME TypeOK, NEW w \in Writers, Works(w)
  PROVE  writer[w] \in Jobs
  <1>1. writer[w] # NoJob
    BY DEF Works, CheckLedger, LockQuota, RefuseQuota, CountQuota, Publish, Commit,
           WriterFails, NoJob
  <1> QED
    BY <1>1 DEF TypeOK, Jobs

LEMMA Bounds == /\ DailyLimit \in Nat /\ BallotLimit \in Nat
                /\ MaxFailures \in Nat /\ MaxCrashes \in Nat
  BY AcceptanceAssumption

LEMMA TypeOKStep == TypeOK /\ [Next]_vars => TypeOK'
  <1> SUFFICES ASSUME TypeOK, [Next]_vars PROVE TypeOK'
    OBVIOUS
  <1> USE DEF TypeOK, Rows, appview, Decide, Jobs
  <1>1. ASSUME NEW r \in Requests,
               \/ Reserve(r) \/ RefuseReserve(r) \/ FailWrite(r) \/ Release(r)
               \/ SetUri(r) \/ RequestDies(r)
        PROVE  TypeOK'
    <2>1. CASE Reserve(r)
      BY <2>1 DEF Reserve
    <2>2. CASE RefuseReserve(r)
      BY <2>2 DEF RefuseReserve
    <2>3. CASE FailWrite(r)
      <3>1. failures' \in 0..MaxFailures
        BY <2>3, Bounds DEF FailWrite
      <3>2. request' = [request EXCEPT ![r].step = "failed"]
        BY <2>3 DEF FailWrite
      <3>3. UNCHANGED <<row, uri, stage, queue, writer, lock, community, crashes>>
        BY <2>3 DEF FailWrite
      <3>4. [request[r] EXCEPT !.step = "failed"] \in
              [step : {"new", "reserved", "written", "failed", "answered", "refused",
                       "dead"},
               tid : Tids \cup {None}]
        OBVIOUS
      <3> HIDE DEF Rows
      <3> QED
        BY <3>1, <3>2, <3>3, <3>4
    <2>4. CASE Release(r)
      BY <2>4 DEF Release
    <2>5. CASE SetUri(r)
      BY <2>5 DEF SetUri
    <2>6. CASE RequestDies(r)
      <3>1. failures' \in 0..MaxFailures
        BY <2>6, Bounds DEF RequestDies
      <3>2. request' = [request EXCEPT ![r].step = "dead"]
        BY <2>6 DEF RequestDies
      <3>3. UNCHANGED <<row, uri, stage, queue, writer, lock, community, crashes>>
        BY <2>6 DEF RequestDies
      <3>4. [request[r] EXCEPT !.step = "dead"] \in
              [step : {"new", "reserved", "written", "failed", "answered", "refused",
                       "dead"},
               tid : Tids \cup {None}]
        OBVIOUS
      <3> HIDE DEF Rows
      <3> QED
        BY <3>1, <3>2, <3>3, <3>4
    <2> QED
      BY <1>1, <2>1, <2>2, <2>3, <2>4, <2>5, <2>6
  <1>2. ASSUME NEW r \in Requests, NEW t \in Tids, WriteRecord(r, t) \/ LoseAnswer(r, t)
        PROVE  TypeOK'
    <2>1. CASE WriteRecord(r, t)
      BY <2>1 DEF WriteRecord
    <2>2. CASE LoseAnswer(r, t)
      <3>1. failures' \in 0..MaxFailures
        BY <2>2, Bounds DEF LoseAnswer
      <3> QED
        BY <2>2, <3>1 DEF LoseAnswer
    <2> QED
      BY <1>2, <2>1, <2>2
  <1>3. ASSUME NEW t \in Tids, WriteDirectly(t) \/ Stage(t)
        PROVE  TypeOK'
    <2>1. CASE WriteDirectly(t)
      BY <2>1 DEF WriteDirectly
    <2>2. CASE Stage(t)
      BY <2>2 DEF Stage
    <2> QED
      BY <1>3, <2>1, <2>2
  <1>4. ASSUME NEW w \in Writers, NEW t \in Tids, RejectUnfit(w, t) \/ Claim(w, t)
        PROVE  TypeOK'
    <2>1. CASE RejectUnfit(w, t)
      BY <2>1 DEF RejectUnfit
    <2>2. CASE Claim(w, t)
      BY <2>2 DEF Claim
    <2> QED
      BY <1>4, <2>1, <2>2
  <1>5. ASSUME NEW x \in Rows, Age(x)
        PROVE  TypeOK'
    BY <1>5 DEF Age
  <1>6. ASSUME NEW w \in Writers, Works(w)
        PROVE  TypeOK'
    <2> USE JobOfWriter DEF Works
    <2>1. CASE CheckLedger(w)
      <3>1. PICK s \in {"cleared", "unledgered"} : writer' = [writer EXCEPT ![w].step = s]
        BY <2>1, Zenon DEF CheckLedger
      <3>2. [writer[w] EXCEPT !.step = s] \in Jobs
        BY <2>1
      <3>3. UNCHANGED <<request, row, uri, stage, queue, lock, community, crashes, failures>>
        BY <2>1 DEF CheckLedger
      <3> HIDE DEF Rows, Jobs
      <3> QED
        BY <3>1, <3>2, <3>3 DEF Jobs
    <2>2. CASE LockQuota(w)
      BY <2>2 DEF LockQuota
    <2>3. CASE RefuseQuota(w)
      BY <2>3 DEF RefuseQuota
    <2>4. CASE CountQuota(w)
      <3> DEFINE counts == ~Named(writer[w].tid)
      <3>1. counts \in BOOLEAN
        BY Zenon DEF Named
      <3> HIDE DEF counts
      <3>2. writer' = [writer EXCEPT ![w].step = "cleared", ![w].counted = counts]
        BY <2>4 DEF CountQuota, counts
      <3>3. [writer[w] EXCEPT !.step = "cleared", !.counted = counts] \in Jobs
        BY <2>4, <3>1
      <3>4. writer' = [writer EXCEPT ![w] = [writer[w] EXCEPT !.step = "cleared",
                                                              !.counted = counts]]
        BY <3>2
      <3>5. UNCHANGED <<request, row, uri, stage, queue, lock, community, failures, crashes>>
        BY <2>4 DEF CountQuota
      <3> HIDE DEF Rows, Jobs
      <3>6. writer' \in [Writers -> {NoJob} \cup Jobs]
        BY <3>3, <3>4 DEF Jobs
      <3> QED
        BY <3>5, <3>6 DEF Jobs
    <2>5. CASE Publish(w)
      BY <2>5 DEF Publish
    <2>6. CASE Commit(w)
      BY <2>6 DEF Commit
    <2>7. CASE WriterFails(w)
      BY <2>7, Bounds DEF WriterFails
    <2> QED
      BY <1>6, <2>1, <2>2, <2>3, <2>4, <2>5, <2>6, <2>7
  <1>7. ASSUME UNCHANGED vars
        PROVE  TypeOK'
    BY <1>7 DEF vars
  <1> QED
    BY <1>1, <1>2, <1>3, <1>4, <1>5, <1>6, <1>7 DEF Next, Creating, Draining, Works

\* TypeOK for all constants: no statement leaves a value its column refuses.
THEOREM TypeCorrect == Spec => []TypeOK
  BY TypeOKInit, TypeOKStep, PTL DEF Spec

-----------------------------------------------------------------------------
(***************************************************************************)
(* The queue and the community repo.                                       *)
(***************************************************************************)
\* A writer works on a pending original of its own, which is in the community
\* repo from the moment it has published it, and not before.
WorkInv ==
  \A w \in Writers : writer[w] # NoJob =>
    /\ stage[writer[w].tid] = "pending"
    /\ writer[w].tid \notin Unfit
    /\ writer[w].tid \in community <=> writer[w].step = "published"
    /\ \A v \in Writers : writer[v].tid = writer[w].tid => v = w

QueueInv ==
  /\ WorkInv
  /\ DoneIsPublished
  /\ RejectedIsUnpublished
  /\ community \cap Unfit = {}

LEMMA QueueInvInit == Init => QueueInv
  BY DEF Init, QueueInv, WorkInv, DoneIsPublished, RejectedIsUnpublished

\* Steps of the appview, of staging and of time: a pending row stays pending and
\* nothing becomes decided.
LEMMA StagingKeepsQueueInv ==
  ASSUME TypeOK, QueueInv, UNCHANGED <<writer, community>>,
         \A t \in Tids : \/ stage'[t] = stage[t]
                         \/ stage[t] # "pending" /\ stage'[t] \in {"in_repo", "pending"}
  PROVE  QueueInv'
  <1>1. \A w \in Writers : writer[w] # NoJob => writer[w].tid \in Tids
    BY DEF TypeOK
  <1> QED
    BY <1>1 DEF QueueInv, WorkInv, DoneIsPublished, RejectedIsUnpublished

\* One writer is free again: the others have rows of their own.
LEMMA FreedKeepsWorkInv ==
  ASSUME TypeOK, WorkInv, NEW w \in Writers,
         writer' = [writer EXCEPT ![w] = NoJob],
         \A t \in Tids : stage'[t] = stage[t] \/ t = writer[w].tid,
         UNCHANGED community
  PROVE  WorkInv'
  <1> SUFFICES ASSUME NEW v \in Writers, writer'[v] # NoJob
               PROVE  /\ stage'[writer'[v].tid] = "pending"
                      /\ writer'[v].tid \notin Unfit
                      /\ writer'[v].tid \in community' <=> writer'[v].step = "published"
                      /\ \A x \in Writers : writer'[x].tid = writer'[v].tid => x = v
    BY DEF WorkInv
  <1>1. /\ v # w /\ writer'[v] = writer[v] /\ writer[v] # NoJob
        /\ \A x \in Writers : writer'[x] = IF x = w THEN NoJob ELSE writer[x]
    BY DEF TypeOK
  <1>2. writer[v].tid \in Tids /\ writer[v].tid # None
    BY <1>1, AcceptanceAssumption DEF TypeOK
  <1>3. writer[v].tid # writer[w].tid
    BY <1>1 DEF WorkInv
  <1> QED
    BY <1>1, <1>2, <1>3 DEF WorkInv, NoJob

\* A writer moves on with its row, or gives it up, without touching the queue.
LEMMA MovingKeepsQueueInv ==
  ASSUME TypeOK, QueueInv, NEW w \in Writers, Works(w),
         UNCHANGED <<stage, community>>,
         \/ writer' = [writer EXCEPT ![w] = NoJob]
         \/ /\ \A v \in Writers \ {w} : writer'[v] = writer[v]
            /\ writer'[w].tid = writer[w].tid
            /\ writer'[w].step = "published" <=> writer[w].step = "published"
  PROVE  QueueInv'
  <1>1. writer[w] \in Jobs /\ writer[w] # NoJob
    BY JobOfWriter, AcceptanceAssumption DEF Jobs, NoJob
  <1>2. WorkInv'
    <2>1. CASE writer' = [writer EXCEPT ![w] = NoJob]
      BY <2>1, FreedKeepsWorkInv DEF QueueInv
    <2>2. CASE /\ \A v \in Writers \ {w} : writer'[v] = writer[v]
               /\ writer'[w].tid = writer[w].tid
               /\ writer'[w].step = "published" <=> writer[w].step = "published"
      <3>1. \A v \in Writers :
              /\ writer'[v] # NoJob => writer[v] # NoJob
              /\ writer'[v].tid = writer[v].tid
              /\ writer'[v].step = "published" <=> writer[v].step = "published"
        <4> TAKE v \in Writers
        <4>1. CASE v = w
          BY <2>2, <1>1, <4>1
        <4>2. CASE v # w
          BY <2>2, <4>2
        <4> QED
          BY <4>1, <4>2
      <3> QED
        BY <3>1 DEF QueueInv, WorkInv
    <2> QED
      BY <2>1, <2>2
  <1> QED
    BY <1>2 DEF QueueInv, DoneIsPublished, RejectedIsUnpublished

\* A writer decides its row and is free again: done if it has published the
\* original, rejected if it has not.
LEMMA DecidingKeepsQueueInv ==
  ASSUME TypeOK, QueueInv, NEW w \in Writers, Works(w), NEW decision,
         decision = (IF writer[w].step = "published" THEN "done" ELSE "rejected"),
         stage' = [stage EXCEPT ![writer[w].tid] = decision],
         writer' = [writer EXCEPT ![w] = NoJob],
         UNCHANGED community
  PROVE  QueueInv'
  <1>1. writer[w] \in Jobs /\ writer[w] # NoJob
    BY JobOfWriter, AcceptanceAssumption DEF Jobs, NoJob
  <1>2. WorkInv'
    BY <1>1, FreedKeepsWorkInv DEF TypeOK, QueueInv, WorkInv, Jobs
  <1>3. writer[w].tid \in community <=> writer[w].step = "published"
    BY <1>1 DEF QueueInv, WorkInv
  <1> QED
    BY <1>1, <1>2, <1>3 DEF TypeOK, QueueInv, DoneIsPublished, RejectedIsUnpublished, Jobs

LEMMA QueueInvStep == TypeOK /\ QueueInv /\ [Next]_vars => QueueInv'
  <1> SUFFICES ASSUME TypeOK, QueueInv, [Next]_vars PROVE QueueInv'
    OBVIOUS
  <1>1. ASSUME NEW r \in Requests,
               \/ Reserve(r) \/ RefuseReserve(r) \/ FailWrite(r) \/ Release(r)
               \/ SetUri(r) \/ RequestDies(r)
        PROVE  QueueInv'
    BY <1>1, StagingKeepsQueueInv
       DEF Reserve, RefuseReserve, FailWrite, Release, SetUri, RequestDies
  <1>2. ASSUME NEW r \in Requests, NEW t \in Tids, WriteRecord(r, t) \/ LoseAnswer(r, t)
        PROVE  QueueInv'
    BY <1>2, StagingKeepsQueueInv DEF WriteRecord, LoseAnswer, TypeOK
  <1>3. ASSUME NEW t \in Tids, WriteDirectly(t) \/ Stage(t)
        PROVE  QueueInv'
    BY <1>3, StagingKeepsQueueInv DEF WriteDirectly, Stage, TypeOK
  <1>4. ASSUME NEW x \in Rows, Age(x)
        PROVE  QueueInv'
    BY <1>4, StagingKeepsQueueInv DEF Age
  <1>5. ASSUME NEW w \in Writers, NEW t \in Tids, RejectUnfit(w, t)
        PROVE  QueueInv'
    <2>1. /\ t \in Unfit /\ ~Claimed(t)
          /\ stage' = [stage EXCEPT ![t] = "rejected"]
          /\ UNCHANGED <<writer, community>>
      BY <1>5 DEF RejectUnfit, Oldest, Free, Decide
    <2> QED
      BY <2>1 DEF TypeOK, Claimed, QueueInv, WorkInv, DoneIsPublished, RejectedIsUnpublished
  <1>6. ASSUME NEW w \in Writers, NEW t \in Tids, Claim(w, t)
        PROVE  QueueInv'
    <2>1. /\ stage[t] = "pending" /\ ~Claimed(t) /\ t \notin Unfit
          /\ UNCHANGED <<stage, community>>
      BY <1>6 DEF Claim, Oldest, Free
    <2>2. /\ writer'[w].tid = t
          /\ writer'[w].step = "published" <=> t \in community
          /\ \A v \in Writers \ {w} : writer'[v] = writer[v]
      BY <1>6 DEF Claim, TypeOK
    <2> QED
      BY <2>1, <2>2 DEF TypeOK, Claimed, QueueInv, WorkInv, DoneIsPublished,
                        RejectedIsUnpublished
  <1>7. ASSUME NEW w \in Writers, Works(w)
        PROVE  QueueInv'
    <2>1. CASE CheckLedger(w) \/ LockQuota(w) \/ CountQuota(w)
      <3>1. /\ \A v \in Writers \ {w} : writer'[v] = writer[v]
            /\ writer'[w].tid = writer[w].tid
            /\ writer'[w].step # "published" /\ writer[w].step # "published"
            /\ UNCHANGED <<stage, community>>
        BY <1>7, <2>1, JobOfWriter
           DEF CheckLedger, LockQuota, CountQuota, TypeOK, Jobs
      <3> QED
        BY <1>7, <3>1, MovingKeepsQueueInv
    <2>2. CASE WriterFails(w)
      BY <1>7, <2>2, MovingKeepsQueueInv DEF WriterFails
    <2>3. CASE RefuseQuota(w)
      BY <1>7, <2>3, DecidingKeepsQueueInv DEF RefuseQuota, Decide
    <2>4. CASE Commit(w)
      BY <1>7, <2>4, DecidingKeepsQueueInv DEF Commit, Decide
    <2>5. CASE Publish(w)
      <3>1. /\ writer[w] \in Jobs /\ writer[w] # NoJob
            /\ writer'[w].tid = writer[w].tid /\ writer'[w].step = "published"
            /\ \A v \in Writers \ {w} : writer'[v] = writer[v]
            /\ community' = community \cup {writer[w].tid}
            /\ UNCHANGED stage
        BY <1>7, <2>5, JobOfWriter, AcceptanceAssumption DEF Publish, TypeOK, Jobs, NoJob
      <3>2. \A v \in Writers \ {w} : writer[v] # NoJob =>
              writer[v].tid # writer[w].tid
        BY <3>1 DEF QueueInv, WorkInv
      <3>3. WorkInv'
        BY <3>1, <3>2 DEF QueueInv, WorkInv
      <3>4. stage[writer[w].tid] = "pending" /\ writer[w].tid \notin Unfit
        BY <3>1 DEF QueueInv, WorkInv
      <3> QED
        BY <3>1, <3>3, <3>4 DEF QueueInv, DoneIsPublished, RejectedIsUnpublished
    <2> QED
      BY <1>7, <2>1, <2>2, <2>3, <2>4, <2>5 DEF Works
  <1>8. ASSUME UNCHANGED vars
        PROVE  QueueInv'
    BY <1>8, StagingKeepsQueueInv DEF vars
  <1> QED
    BY <1>1, <1>2, <1>3, <1>4, <1>5, <1>6, <1>7, <1>8 DEF Next, Creating, Draining, Works

\* DoneIsPublished and RejectedIsUnpublished for all constants, however many
\* writers drain the queue and wherever they die.
THEOREM QueueIsRight == Spec => [](DoneIsPublished /\ RejectedIsUnpublished)
  <1>1. QueueInv => DoneIsPublished /\ RejectedIsUnpublished
    BY DEF QueueInv
  <1> QED
    BY <1>1, QueueInvInit, QueueInvStep, TypeCorrect, PTL DEF Spec

-----------------------------------------------------------------------------
(***************************************************************************)
(* The quota.  The advisory lock of the (user, ballot) key is held from    *)
(* the count to the commit, so at most one row is inserted and not         *)
(* committed, and none while the appview reserves.                         *)
(***************************************************************************)

\* The writers with a ledger row that is inserted and not committed.
Inserted == {w \in Writers : writer[w].counted}

LockInv ==
  \A w \in Writers :
    /\ writer[w].step = "locked" \/ writer[w].counted => lock = w
    /\ writer[w].counted => writer[w].step \in {"cleared", "published"}

-----------------------------------------------------------------------------
(***************************************************************************)
(* The lock.                                                               *)
(***************************************************************************)
LEMMA LockInvInit == Init => LockInv
  BY DEF Init, LockInv, NoJob

LEMMA LockInvStep == TypeOK /\ LockInv /\ [Next]_vars => LockInv'
  <1> SUFFICES ASSUME TypeOK, LockInv, [Next]_vars PROVE LockInv'
    OBVIOUS
  <1>1. ASSUME UNCHANGED writer, UNCHANGED lock
        PROVE  LockInv'
    BY <1>1 DEF LockInv
  <1>2. ASSUME NEW w \in Writers, NEW t \in Tids, Claim(w, t)
        PROVE  LockInv'
    <2>1. /\ writer'[w].step \in {"absent", "published"} /\ ~writer'[w].counted
          /\ \A v \in Writers \ {w} : writer'[v] = writer[v]
          /\ lock' = lock
      BY <1>2 DEF Claim, TypeOK
    <2> QED
      BY <2>1 DEF LockInv
  <1>3. ASSUME NEW w \in Writers, Works(w)
        PROVE  LockInv'
    <2>0. writer[w] \in Jobs
      BY <1>3, JobOfWriter
    <2>1. CASE CheckLedger(w)
      <3>1. /\ writer'[w].step \in {"cleared", "unledgered"}
            /\ writer'[w].counted = writer[w].counted
            /\ \A v \in Writers \ {w} : writer'[v] = writer[v]
            /\ lock' = lock /\ ~writer[w].counted
        BY <2>0, <2>1 DEF CheckLedger, TypeOK, Jobs, LockInv
      <3> QED
        BY <3>1 DEF LockInv
    <2>2. CASE LockQuota(w)
      <3>1. /\ writer'[w].step = "locked" /\ ~writer'[w].counted
            /\ \A v \in Writers \ {w} : writer'[v] = writer[v]
            /\ lock = None /\ lock' = w
        BY <2>0, <2>2 DEF LockQuota, TypeOK, Jobs, LockInv
      <3> QED
        BY <3>1, AcceptanceAssumption DEF LockInv
    <2>3. CASE CountQuota(w) \/ Publish(w)
      <3>1. /\ writer'[w].step \in {"cleared", "published"}
            /\ \A v \in Writers \ {w} : writer'[v] = writer[v]
            /\ lock' = lock
            /\ writer'[w].counted => lock = w
        BY <2>0, <2>3 DEF CountQuota, Publish, TypeOK, Jobs, LockInv
      <3> QED
        BY <3>1 DEF LockInv
    <2>4. CASE RefuseQuota(w) \/ Commit(w) \/ WriterFails(w)
      <3>1. /\ writer'[w] = NoJob
            /\ \A v \in Writers \ {w} : writer'[v] = writer[v]
            /\ lock' = lock \/ lock = w
        BY <2>0, <2>4 DEF RefuseQuota, Commit, WriterFails, TypeOK, LockInv
      <3> QED
        BY <3>1 DEF LockInv, NoJob
    <2> QED
      BY <1>3, <2>1, <2>2, <2>3, <2>4 DEF Works
  <1> QED
    BY <1>1, <1>2, <1>3
       DEF Next, Creating, Draining, Works, vars, appview, Reserve, RefuseReserve, FailWrite,
           Release, SetUri, RequestDies, WriteRecord, LoseAnswer, WriteDirectly, Stage, Age,
           RejectUnfit

-----------------------------------------------------------------------------
(***************************************************************************)
(* The ledger.                                                             *)
(***************************************************************************)
FiniteLedger ==
  /\ IsFiniteSet(Rows) /\ IsFiniteSet(Held) /\ IsFiniteSet(Recent) /\ IsFiniteSet(Inserted)
  /\ Cardinality(Held) \in Nat /\ Cardinality(Recent) \in Nat
  /\ Cardinality(Inserted) \in {0, 1}

LEMMA LedgerIsFinite == TypeOK /\ LockInv => FiniteLedger
  <1> SUFFICES ASSUME TypeOK, LockInv PROVE FiniteLedger
    OBVIOUS
  <1>1. IsFiniteSet(Rows)
    BY AcceptanceAssumption, FS_Union DEF Rows
  <1>2. /\ IsFiniteSet(Held) /\ IsFiniteSet(Recent)
        /\ Cardinality(Held) \in Nat /\ Cardinality(Recent) \in Nat
    <2>1. Held \in SUBSET Rows /\ Recent \in SUBSET Rows
      BY DEF Held, Recent
    <2> QED
      BY <1>1, <2>1, FS_Subset, FS_CardinalityType
  <1>3. IsFiniteSet(Inserted) /\ Cardinality(Inserted) \in {0, 1}
    <2>1. Inserted = {} \/ Inserted = {lock}
      BY DEF Inserted, LockInv
    <2> QED
      BY <2>1, FS_EmptySet, FS_Singleton
  <1> QED
    BY <1>1, <1>2, <1>3 DEF FiniteLedger

LEMMA LedgerStaysFinite == TypeOK' /\ LockInv' => FiniteLedger'
  BY LedgerIsFinite, PTL

\* No row is added and no insertion begins.
LEMMA ShrinkingKeepsCaps ==
  ASSUME TypeOK, TypeOK', LockInv, LockInv', LedgerWithinCaps,
         Held' \subseteq Held, Recent' \subseteq Recent, Inserted' \subseteq Inserted
  PROVE  LedgerWithinCaps'
  <1>1. /\ Cardinality(Held') <= Cardinality(Held)
        /\ Cardinality(Recent') <= Cardinality(Recent)
        /\ Cardinality(Inserted') <= Cardinality(Inserted)
    BY LedgerIsFinite, FS_Subset DEF FiniteLedger
  <1> QED
    BY <1>1, LedgerIsFinite, LedgerStaysFinite, Bounds
       DEF FiniteLedger, LedgerWithinCaps, Inserted

LEMMA OneMore ==
  ASSUME NEW S, IsFiniteSet(S), NEW x
  PROVE  /\ IsFiniteSet(S \cup {x})
         /\ Cardinality(S \cup {x}) \in Nat
         /\ Cardinality(S \cup {x}) <= Cardinality(S) + 1
  <1>1. Cardinality(S) \in Nat
    BY FS_CardinalityType
  <1>2. /\ IsFiniteSet(S \cup {x})
        /\ Cardinality(S \cup {x}) = IF x \in S THEN Cardinality(S) ELSE Cardinality(S) + 1
    BY FS_AddElement, Zenon
  <1> QED
    BY <1>1, <1>2

\* One row is added, by the appview or by the commit of the only insertion.
LEMMA AddingKeepsCaps ==
  ASSUME TypeOK, TypeOK', LockInv, LockInv', LedgerWithinCaps, NEW x \in Rows,
         Held' \subseteq Held \cup {x}, Recent' \subseteq Recent \cup {x},
         Inserted' = {},
         ~CapReached \/ Inserted # {}
  PROVE  LedgerWithinCaps'
  <1>1. /\ Cardinality(Held') <= Cardinality(Held) + 1
        /\ Cardinality(Recent') <= Cardinality(Recent) + 1
    <2>1. /\ IsFiniteSet(Held \cup {x}) /\ Cardinality(Held \cup {x}) <= Cardinality(Held) + 1
          /\ IsFiniteSet(Recent \cup {x})
          /\ Cardinality(Recent \cup {x}) <= Cardinality(Recent) + 1
          /\ Cardinality(Held \cup {x}) \in Nat /\ Cardinality(Recent \cup {x}) \in Nat
      BY LedgerIsFinite, OneMore DEF FiniteLedger
    <2>2. /\ Cardinality(Held') <= Cardinality(Held \cup {x})
          /\ Cardinality(Recent') <= Cardinality(Recent \cup {x})
      BY <2>1, FS_Subset
    <2> QED
      BY <2>1, <2>2, LedgerIsFinite, LedgerStaysFinite DEF FiniteLedger
  <1>2. /\ Cardinality(Held) + 1 <= BallotLimit
        /\ Cardinality(Recent) + 1 <= DailyLimit
    <2>1. CASE ~CapReached
      BY <2>1, LedgerIsFinite, Bounds DEF FiniteLedger, CapReached
    <2>2. CASE Inserted # {}
      <3>1. Cardinality(Inserted) = 1
        BY <2>2, LedgerIsFinite, FS_EmptySet DEF FiniteLedger
      <3> QED
        BY <3>1, LedgerIsFinite DEF FiniteLedger, LedgerWithinCaps, Inserted
    <2> QED
      BY <2>1, <2>2
  <1>3. Cardinality(Inserted') = 0
    BY FS_EmptySet
  <1> QED
    BY <1>1, <1>2, <1>3, LedgerIsFinite, LedgerStaysFinite, Bounds
       DEF FiniteLedger, LedgerWithinCaps, Inserted

\* A writer that holds the lock begins the only insertion.
LEMMA InsertingKeepsCaps ==
  ASSUME TypeOK, TypeOK', LockInv, LockInv', ~CapReached, UNCHANGED row
  PROVE  LedgerWithinCaps'
  <1>1. Held' = Held /\ Recent' = Recent
    BY DEF Held, Recent
  <1> QED
    BY <1>1, LedgerIsFinite, LedgerStaysFinite, Bounds
       DEF FiniteLedger, LedgerWithinCaps, Inserted, CapReached

LEMMA LedgerStep ==
  TypeOK /\ TypeOK' /\ LockInv /\ LockInv' /\ LedgerWithinCaps /\ [Next]_vars
    => LedgerWithinCaps'
  <1> SUFFICES ASSUME TypeOK, TypeOK', LockInv, LockInv', LedgerWithinCaps, [Next]_vars
               PROVE  LedgerWithinCaps'
    OBVIOUS
  <1>1. ASSUME UNCHANGED <<row, writer>>
        PROVE  LedgerWithinCaps'
    BY <1>1, ShrinkingKeepsCaps DEF Held, Recent, Inserted
  <1>2. ASSUME NEW x \in Rows, Age(x)
        PROVE  LedgerWithinCaps'
    BY <1>2, ShrinkingKeepsCaps DEF Age, Held, Recent, Inserted, TypeOK
  <1>3. ASSUME NEW r \in Requests, Release(r)
        PROVE  LedgerWithinCaps'
    BY <1>3, ShrinkingKeepsCaps DEF Release, Held, Recent, Inserted, TypeOK, Rows
  <1>4. ASSUME NEW r \in Requests, Reserve(r)
        PROVE  LedgerWithinCaps'
    <2>1. /\ r \in Rows /\ lock = None /\ ~CapReached /\ UNCHANGED writer
          /\ row' = [row EXCEPT ![r] = "recent"]
      BY <1>4 DEF Reserve, Rows
    <2>2. Inserted' = {}
      BY <2>1, AcceptanceAssumption DEF Inserted, LockInv
    <2>3. Held' \subseteq Held \cup {r} /\ Recent' \subseteq Recent \cup {r}
      BY <2>1 DEF Held, Recent, TypeOK
    <2> QED
      BY <2>1, <2>2, <2>3, AddingKeepsCaps
  <1>5. ASSUME NEW w \in Writers, NEW t \in Tids, Claim(w, t)
        PROVE  LedgerWithinCaps'
    BY <1>5, ShrinkingKeepsCaps DEF Claim, appview, Held, Recent, Inserted, TypeOK
  <1>6. ASSUME NEW w \in Writers, Works(w)
        PROVE  LedgerWithinCaps'
    <2>0. writer[w] \in Jobs
      BY <1>6, JobOfWriter
    <2>1. CASE CheckLedger(w) \/ LockQuota(w) \/ Publish(w)
      <3>1. /\ UNCHANGED row
            /\ writer'[w].counted = writer[w].counted
            /\ \A v \in Writers \ {w} : writer'[v] = writer[v]
        BY <2>0, <2>1 DEF CheckLedger, LockQuota, Publish, appview, TypeOK, Jobs
      <3> QED
        BY <3>1, ShrinkingKeepsCaps DEF Held, Recent, Inserted
    <2>2. CASE CountQuota(w)
      BY <2>2, InsertingKeepsCaps DEF CountQuota, appview
    <2>3. CASE RefuseQuota(w) \/ WriterFails(w)
      <3>1. /\ UNCHANGED row
            /\ writer'[w] = NoJob
            /\ \A v \in Writers \ {w} : writer'[v] = writer[v]
        BY <2>0, <2>3 DEF RefuseQuota, WriterFails, appview, TypeOK
      <3> QED
        BY <3>1, ShrinkingKeepsCaps DEF Held, Recent, Inserted, NoJob
    <2>4. CASE Commit(w)
      <3> DEFINE t == writer[w].tid
      <3>1. /\ t \in Rows
            /\ row' = [row EXCEPT ![t] = IF writer[w].counted THEN "recent" ELSE @]
            /\ writer'[w] = NoJob
            /\ \A v \in Writers \ {w} : writer'[v] = writer[v]
        BY <2>0, <2>4 DEF Commit, TypeOK, Jobs, Rows
      <3>2. CASE writer[w].counted
        <4>1. Inserted # {}
          BY <3>2 DEF Inserted
        <4>2. Inserted' = {}
          BY <3>1, <3>2 DEF Inserted, LockInv, NoJob
        <4>3. Held' \subseteq Held \cup {t} /\ Recent' \subseteq Recent \cup {t}
          BY <3>1 DEF Held, Recent, TypeOK
        <4> QED
          BY <3>1, <4>1, <4>2, <4>3, AddingKeepsCaps
      <3>3. CASE ~writer[w].counted
        <4>1. row' = row
          BY <3>1, <3>3 DEF TypeOK
        <4> QED
          BY <3>1, <4>1, ShrinkingKeepsCaps DEF Held, Recent, Inserted, NoJob
      <3> QED
        BY <3>2, <3>3
    <2> QED
      BY <1>6, <2>1, <2>2, <2>3, <2>4 DEF Works
  <1> QED
    BY <1>1, <1>2, <1>3, <1>4, <1>5, <1>6
       DEF Next, Creating, Draining, Works, vars, appview, RefuseReserve, FailWrite, SetUri,
           RequestDies, WriteRecord, LoseAnswer, WriteDirectly, Stage, RejectUnfit

LEMMA LedgerInit == Init => LedgerWithinCaps
  <1> SUFFICES ASSUME Init PROVE LedgerWithinCaps
    OBVIOUS
  <1>1. Held = {} /\ Recent = {} /\ Inserted = {}
    BY DEF Init, Held, Recent, Inserted, NoJob
  <1> QED
    BY <1>1, FS_EmptySet, Bounds DEF LedgerWithinCaps, Inserted

\* LedgerWithinCaps for all constants: however many requests and writers insert
\* into the ledger, no pair of count and insert exceeds a cap.
THEOREM LedgerKeepsCaps == Spec => []LedgerWithinCaps
  BY TypeOKInit, TypeOKStep, LockInvInit, LockInvStep, LedgerInit, LedgerStep, PTL DEF Spec

-----------------------------------------------------------------------------
(***************************************************************************)
(* What is published is counted.                                           *)
(***************************************************************************)
\* A row of the ledger names t, or is about to.
CountedFor(t) == Named(t) \/ BeingNamed(t)

\* A row with a name is never given back; and as long as no writer fails, an
\* original is counted before it is published and stays counted.
CountInv ==
  /\ \A r \in Requests : uri[r] # None => request[r].step = "answered"
  /\ crashes = 0 =>
       /\ \A w \in Writers, t \in Tids :
            writer[w].tid = t /\ writer[w].step \in {"cleared", "published"} => CountedFor(t)
       /\ \A t \in community : CountedFor(t)

LEMMA CountInvInit == Init => CountInv
  BY DEF Init, CountInv, NoJob

\* Rows that name an original stay, and so do the insertions under way.
LEMMA StayingKeepsCount ==
  ASSUME TypeOK,
         \A t \in Tids : row[t] # "none" => row'[t] # "none",
         \A r \in Requests : uri[r] # None /\ row[r] # "none"
                               => uri'[r] = uri[r] /\ row'[r] # "none",
         \A w \in Writers : writer[w].counted =>
           \/ writer'[w].counted /\ writer'[w].tid = writer[w].tid
           \/ row'[writer[w].tid] # "none",
         NEW t \in Tids, CountedFor(t)
  PROVE  CountedFor(t)'
  <1>1. CASE row[t] # "none"
    BY <1>1 DEF CountedFor, Named
  <1>2. ASSUME NEW r \in Requests, row[r] # "none", uri[r] = t
        PROVE  CountedFor(t)'
    BY <1>2, AcceptanceAssumption DEF CountedFor, Named
  <1>3. ASSUME NEW w \in Writers, writer[w].tid = t, writer[w].counted
        PROVE  CountedFor(t)'
    BY <1>3 DEF CountedFor, Named, BeingNamed
  <1> QED
    BY <1>1, <1>2, <1>3 DEF CountedFor, Named, BeingNamed

\* What a step has to show.
LEMMA CountInvKept ==
  ASSUME TypeOK', CountInv, crashes' = 0 => crashes = 0,
         crashes' = 0 => \A t \in Tids : CountedFor(t) => CountedFor(t)',
         \A r \in Requests : uri'[r] # None => request'[r].step = "answered",
         crashes' = 0 => \A w \in Writers, t \in Tids :
           writer'[w].tid = t /\ writer'[w].step \in {"cleared", "published"} =>
             \/ writer[w].tid = t /\ writer[w].step \in {"cleared", "published"}
             \/ CountedFor(t)',
         crashes' = 0 => \A t \in community' : t \in community \/ CountedFor(t)
  PROVE  CountInv'
  <1>1. community' \subseteq Tids
    BY DEF TypeOK
  <1>2. ASSUME crashes' = 0, NEW t \in community' PROVE CountedFor(t)'
    <2>1. CountedFor(t)
      BY <1>2 DEF CountInv
    <2> QED
      BY <1>1, <1>2, <2>1 DEF CountInv
  <1> QED
    BY <1>2 DEF CountInv

LEMMA CountInvStep ==
  TypeOK /\ TypeOK' /\ LockInv /\ CountInv /\ [Next]_vars => CountInv'
  <1> SUFFICES ASSUME TypeOK, TypeOK', LockInv, CountInv, [Next]_vars
               PROVE  CountInv'
    OBVIOUS
  \* Steps that leave the rows' names, the writers and the repo alone.
  <1>1. ASSUME UNCHANGED <<writer, community, crashes>>,
               \A t \in Tids : row[t] # "none" => row'[t] # "none",
               \A r \in Requests :
                 /\ uri[r] # None /\ row[r] # "none" => row'[r] # "none"
                 /\ \/ uri'[r] = uri[r] /\ (uri[r] # None => request'[r].step = "answered")
                    \/ uri[r] = None /\ request'[r].step = "answered"
        PROVE  CountInv'
    BY <1>1, StayingKeepsCount, CountInvKept
  <1>2. ASSUME NEW r \in Requests, Reserve(r) \/ RefuseReserve(r) \/ FailWrite(r)
                                   \/ Release(r) \/ SetUri(r) \/ RequestDies(r)
        PROVE  CountInv'
    <2>1. CASE Reserve(r)
      BY <1>1, <2>1, AcceptanceAssumption DEF Reserve, CountInv, TypeOK, Rows
    <2>2. CASE RefuseReserve(r) \/ FailWrite(r)
      BY <1>1, <2>2 DEF RefuseReserve, FailWrite, CountInv, TypeOK
    <2>3. CASE Release(r)
      BY <1>1, <2>3, AcceptanceAssumption DEF Release, CountInv, TypeOK, Rows
    <2>4. CASE SetUri(r)
      BY <1>1, <2>4, AcceptanceAssumption DEF SetUri, CountInv, TypeOK
    <2>5. CASE RequestDies(r)
      BY <1>1, <2>5 DEF RequestDies, CountInv, TypeOK
    <2> QED
      BY <1>2, <2>1, <2>2, <2>3, <2>4, <2>5
  <1>3. ASSUME NEW r \in Requests, NEW t \in Tids, WriteRecord(r, t) \/ LoseAnswer(r, t)
        PROVE  CountInv'
    BY <1>1, <1>3 DEF WriteRecord, LoseAnswer, CountInv, TypeOK
  <1>4. ASSUME NEW t \in Tids, WriteDirectly(t) \/ Stage(t)
        PROVE  CountInv'
    BY <1>1, <1>4 DEF WriteDirectly, Stage, appview, CountInv
  <1>5. ASSUME NEW x \in Rows, Age(x)
        PROVE  CountInv'
    BY <1>1, <1>5 DEF Age, CountInv, TypeOK, Rows
  <1>6. ASSUME NEW w \in Writers, NEW t \in Tids, RejectUnfit(w, t)
        PROVE  CountInv'
    BY <1>1, <1>6 DEF RejectUnfit, appview, CountInv
  <1>7. ASSUME UNCHANGED vars
        PROVE  CountInv'
    BY <1>1, <1>7 DEF vars, CountInv
  \* Steps of a writer leave the appview's columns alone.
  <1>8. ASSUME NEW w \in Writers, NEW t \in Tids, Claim(w, t)
        PROVE  CountInv'
    <2>1. /\ UNCHANGED <<request, row, uri, community, crashes>>
          /\ \A v \in Writers \ {w} : writer'[v] = writer[v]
          /\ writer[w] = NoJob /\ writer'[w].tid = t
          /\ writer'[w].step \in {"cleared", "published"} => t \in community
      BY <1>8 DEF Claim, appview, TypeOK
    <2>2. crashes' = 0 => \A x \in Tids : CountedFor(x) => CountedFor(x)'
      BY <2>1, StayingKeepsCount DEF NoJob
    <2>3. crashes = 0 /\ t \in community => CountedFor(t)
      BY DEF CountInv
    <2> QED
      BY <2>1, <2>2, <2>3, CountInvKept DEF CountInv
  <1>9. ASSUME NEW w \in Writers, Works(w)
        PROVE  CountInv'
    <2>0. writer[w] \in Jobs
      BY <1>9, JobOfWriter
    <2>1. \A r \in Requests : uri[r] # None => request[r].step = "answered"
      BY DEF CountInv
    <2>2. CASE CheckLedger(w)
      <3>1. /\ UNCHANGED <<request, row, uri, community, crashes>>
            /\ \A v \in Writers \ {w} : writer'[v] = writer[v]
            /\ writer'[w].tid = writer[w].tid /\ ~writer[w].counted
            /\ writer'[w].step \in {"cleared", "published"} => Named(writer[w].tid)
        BY <2>0, <2>2 DEF CheckLedger, appview, TypeOK, Jobs, LockInv
      <3>2. crashes' = 0 => \A t \in Tids : CountedFor(t) => CountedFor(t)'
        BY <3>1, StayingKeepsCount
      <3>3. \A t \in Tids : Named(t) => CountedFor(t)
        BY DEF CountedFor
      <3> QED
        BY <2>1, <3>1, <3>2, <3>3, CountInvKept
    <2>3. CASE LockQuota(w)
      <3>1. /\ UNCHANGED <<request, row, uri, community, crashes>>
            /\ \A v \in Writers \ {w} : writer'[v] = writer[v]
            /\ writer'[w].step = "locked" /\ ~writer[w].counted
        BY <2>0, <2>3 DEF LockQuota, appview, TypeOK, Jobs, LockInv
      <3>2. crashes' = 0 => \A t \in Tids : CountedFor(t) => CountedFor(t)'
        BY <3>1, StayingKeepsCount
      <3> QED
        BY <2>1, <3>1, <3>2, CountInvKept
    <2>4. CASE CountQuota(w)
      <3>1. /\ UNCHANGED <<request, row, uri, community, crashes>>
            /\ \A v \in Writers \ {w} : writer'[v] = writer[v]
            /\ writer'[w].tid = writer[w].tid /\ writer[w].tid \in Tids
            /\ ~writer[w].counted
            /\ Named(writer[w].tid) \/ writer'[w].counted
        BY <2>0, <2>4 DEF CountQuota, appview, TypeOK, Jobs, LockInv
      <3>2. \A t \in Tids : CountedFor(t) => CountedFor(t)'
        BY <3>1, StayingKeepsCount
      <3>3. \A t \in Tids : t = writer[w].tid => CountedFor(t)'
        BY <3>1, <3>2 DEF CountedFor, Named, BeingNamed
      <3> QED
        BY <2>1, <3>1, <3>2, <3>3, CountInvKept
    <2>5. CASE Publish(w)
      <3>1. /\ UNCHANGED <<request, row, uri, crashes>>
            /\ \A v \in Writers \ {w} : writer'[v] = writer[v]
            /\ writer'[w].tid = writer[w].tid /\ writer[w].tid \in Tids
            /\ writer[w].step = "cleared" /\ writer'[w].counted = writer[w].counted
            /\ community' = community \cup {writer[w].tid}
        BY <2>0, <2>5 DEF Publish, appview, TypeOK, Jobs
      <3>2. \A t \in Tids : CountedFor(t) => CountedFor(t)'
        BY <3>1, StayingKeepsCount
      <3>3. crashes = 0 => CountedFor(writer[w].tid)
        BY <3>1 DEF CountInv
      <3> QED
        BY <2>1, <3>1, <3>2, <3>3, CountInvKept
    <2>6. CASE RefuseQuota(w)
      <3>1. /\ UNCHANGED <<request, row, uri, community, crashes>>
            /\ \A v \in Writers \ {w} : writer'[v] = writer[v]
            /\ writer'[w] = NoJob /\ ~writer[w].counted
        BY <2>0, <2>6 DEF RefuseQuota, appview, TypeOK, Jobs, LockInv
      <3>2. \A t \in Tids : CountedFor(t) => CountedFor(t)'
        BY <3>1, StayingKeepsCount
      <3> QED
        BY <2>1, <3>1, <3>2, CountInvKept DEF NoJob
    <2>7. CASE Commit(w)
      <3>1. /\ UNCHANGED <<request, uri, community, crashes>>
            /\ writer[w].tid \in Tids
            /\ row' = [row EXCEPT ![writer[w].tid] =
                         IF writer[w].counted THEN "recent" ELSE @]
            /\ \A v \in Writers \ {w} : writer'[v] = writer[v]
            /\ writer'[w] = NoJob
        BY <2>0, <2>7 DEF Commit, TypeOK, Jobs
      <3>2. /\ \A x \in Rows : row[x] # "none" => row'[x] # "none"
            /\ writer[w].counted => row'[writer[w].tid] # "none"
        BY <3>1 DEF TypeOK, Rows
      <3>3. \A t \in Tids : CountedFor(t) => CountedFor(t)'
        BY <3>1, <3>2, StayingKeepsCount DEF Rows
      <3> QED
        BY <2>1, <3>1, <3>3, CountInvKept DEF NoJob
    <2>8. CASE WriterFails(w)
      <3>1. crashes' # 0 /\ UNCHANGED <<request, uri>>
        BY <2>8 DEF WriterFails, appview, TypeOK
      <3> QED
        BY <2>1, <3>1 DEF CountInv
    <2> QED
      BY <1>9, <2>2, <2>3, <2>4, <2>5, <2>6, <2>7, <2>8 DEF Works
  <1> QED
    BY <1>2, <1>3, <1>4, <1>5, <1>6, <1>7, <1>8, <1>9 DEF Next, Creating, Draining, Works

\* Every published original has a row of its own, committed or about to be.
LEMMA CountedIsBounded ==
  ASSUME TypeOK, LockInv, CountInv, crashes = 0
  PROVE  Cardinality(community) <= Cardinality(Held) + Cardinality(Inserted)
  <1> DEFINE Naming == {writer[w].tid : w \in Inserted}
             Slot(t) == IF row[t] # "none" \/ t \in Naming THEN t
                        ELSE CHOOSE r \in Requests : row[r] # "none" /\ uri[r] = t
             f == [t \in community |-> Slot(t)]
  <1>1. /\ IsFiniteSet(Held \cup Naming)
        /\ Cardinality(Held \cup Naming) \in Nat
        /\ Cardinality(Held \cup Naming) <= Cardinality(Held) + Cardinality(Inserted)
    <2>1. CASE Inserted = {}
      <3>1. Held \cup Naming = Held /\ Cardinality(Inserted) = 0
        BY <2>1, FS_EmptySet
      <3> QED
        BY <3>1, LedgerIsFinite DEF FiniteLedger
    <2>2. CASE Inserted # {}
      <3>1. PICK w \in Inserted : TRUE
        BY <2>2
      <3>2. Inserted = {w} /\ Naming = {writer[w].tid}
        BY <3>1 DEF Inserted, LockInv
      <3>3. Cardinality(Inserted) = 1
        BY <3>2, FS_Singleton
      <3> QED
        BY <3>2, <3>3, LedgerIsFinite, OneMore DEF FiniteLedger
    <2> QED
      BY <2>1, <2>2
  <1>2. ASSUME NEW t \in community
        PROVE  /\ Slot(t) \in Held \cup Naming
               /\ Slot(t) = t \/ (Slot(t) \in Requests /\ uri[Slot(t)] = t)
    <2>1. t \in Tids /\ CountedFor(t)
      BY DEF CountInv, TypeOK
    <2>2. CASE row[t] # "none" \/ t \in Naming
      BY <2>1, <2>2 DEF Held, Rows
    <2>3. CASE ~(row[t] # "none" \/ t \in Naming)
      <3>1. \E r \in Requests : row[r] # "none" /\ uri[r] = t
        BY <2>1, <2>3 DEF CountedFor, Named, BeingNamed, Inserted
      <3>2. Slot(t) \in Requests /\ row[Slot(t)] # "none" /\ uri[Slot(t)] = t
        BY <2>3, <3>1
      <3> QED
        BY <3>2 DEF Held, Rows
    <2> QED
      BY <2>2, <2>3
  <1>3. f \in Injection(community, Held \cup Naming)
    <2>1. f \in [community -> Held \cup Naming]
      BY <1>2
    <2>2. ASSUME NEW t \in community, NEW u \in community, f[t] = f[u]
          PROVE  t = u
      <3>1. Slot(t) = Slot(u)
        BY <2>2
      <3>2. t \in Tids /\ u \in Tids
        BY DEF TypeOK
      <3>3. /\ Slot(t) = t \/ (Slot(t) \in Requests /\ uri[Slot(t)] = t)
            /\ Slot(u) = u \/ (Slot(u) \in Requests /\ uri[Slot(u)] = u)
        BY <1>2
      <3> HIDE DEF Slot
      <3> QED
        BY <3>1, <3>2, <3>3, AcceptanceAssumption
    <2> HIDE DEF f
    <2> QED
      BY <2>1, <2>2 DEF Injection, IsInjective
  <1>4. Cardinality(community) <= Cardinality(Held \cup Naming)
    <2> HIDE DEF f, Naming
    <2> QED
      BY <1>1, <1>3, FS_Injection
  <1>5. Cardinality(community) \in Nat
    <2>1. IsFiniteSet(community)
      BY AcceptanceAssumption, FS_Subset DEF TypeOK
    <2> QED
      BY <2>1, FS_CardinalityType
  <1> QED
    BY <1>1, <1>4, <1>5, LedgerIsFinite DEF FiniteLedger

\* PublishedWithinCap for all constants: without a writer's failure the cap of a
\* ballot bounds what is published, however it was written and whatever happens
\* to the appview.  With a failure it does not: see CapHolds.
THEOREM PublishedKeepsCap == Spec => []PublishedWithinCap
  <1>1. TypeOK /\ LockInv /\ CountInv /\ LedgerWithinCaps => PublishedWithinCap
    <2> SUFFICES ASSUME TypeOK, LockInv, CountInv, LedgerWithinCaps, crashes = 0
                 PROVE  Cardinality(community) <= BallotLimit
      BY DEF PublishedWithinCap
    <2>1. Cardinality(community) <= Cardinality(Held) + Cardinality(Inserted)
      BY CountedIsBounded
    <2>2. Cardinality(Held) + Cardinality(Inserted) <= BallotLimit
      BY DEF LedgerWithinCaps, Inserted
    <2>3. Cardinality(community) \in Nat
      <3>1. IsFiniteSet(community)
        BY AcceptanceAssumption, FS_Subset DEF TypeOK
      <3> QED
        BY <3>1, FS_CardinalityType
    <2> QED
      BY <2>1, <2>2, <2>3, LedgerIsFinite, Bounds DEF FiniteLedger
  <1> QED
    BY <1>1, TypeOKInit, TypeOKStep, LockInvInit, LockInvStep, LedgerInit, LedgerStep,
       CountInvInit, CountInvStep, PTL DEF Spec
=============================================================================
