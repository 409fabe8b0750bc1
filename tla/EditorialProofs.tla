--------------------------- MODULE EditorialProofs ---------------------------
(***************************************************************************)
(* Safety of Editorial for any trees, editors and numbers of saves and     *)
(* failures: what is published stands on a stored account, what readers    *)
(* see of the argument and of the tree settles on what the editors         *)
(* decided, and posts are accounted for.                                   *)
(***************************************************************************)
EXTENDS Editorial, FiniteSetTheorems, TLAPS

(***************************************************************************)
(* The steps by the part of the state they belong to, and what they leave  *)
(* alone.                                                                  *)
(***************************************************************************)
BallotActs == CreateAccount \/ StoreAccount \/ PublishBallot \/ FailBallot

BeginActs(e) ==
  \/ \E status \in {"draft", "published"} :
       Create(e, status) \/ \E text \in Texts : Edit(e, status, text)
  \/ Delete(e) \/ \E publish \in BOOLEAN : Import(e, publish)

ReadActs(e) == Open(e) \/ Close(e) \/ ReadAgain(e)

CallActs(e) == CallHook(e) \/ FailHook(e) \/ DeleteRecord(e) \/ Sync(e) \/ FailSync(e)

CommitActs(e) == CommitSave(e) \/ CommitDelete(e) \/ CommitSync(e)

TreeActs(p) ==
  (\E t \in Trees : Persist(p, t)) \/ WriteSnapshot(p) \/ RecordVersion(p) \/ FailPersist(p)

ProjectActs == (\E c \in Consumers : Take(c)) \/ StartBackfill \/ FinishBackfill

WorkActs ==
  \/ \E u \in Uris : ReadArgument(u)
  \/ PutTranslated \/ FailPut \/ DropTranslation \/ ReadTopic \/ UpdateTopic

PostActs ==
  (\E u \in Uris : ReadUnposted(u)) \/ CreatePost \/ LinkPost \/ FailPost

LEMMA SavingKinds ==
  Saving => \E e \in Editors : BeginActs(e) \/ ReadActs(e) \/ CallActs(e) \/ CommitActs(e)
  BY DEF Saving, BeginActs, ReadActs, CallActs, CommitActs

LEMMA StepKinds ==
  [Next]_vars =>
    \/ BallotActs \/ (\E p \in Editors : TreeActs(p)) \/ CrashCMS \/ Saving
    \/ ProjectActs \/ WorkActs \/ PostActs \/ UNCHANGED vars
  BY DEF Next, Publishing, Working, BallotActs, TreeActs, ProjectActs, WorkActs, PostActs

CountersOK ==
  saves \in 0..MaxSaves /\ publications \in 0..MaxSaves /\ faults \in 0..MaxFaults

Counters ==
  /\ saves' \in {saves, saves + 1} /\ saves' \in 0..MaxSaves
  /\ publications' \in {publications, publications + 1} /\ publications' \in 0..MaxSaves
  /\ faults' \in {faults, faults + 1} /\ faults' \in 0..MaxFaults

LEMMA Bounds == MaxSaves \in Nat /\ MaxFaults \in Nat
  BY EditorialAssumption

LEMMA CountsOne ==
  CountersOK =>
    /\ Saves => saves' = saves + 1 /\ saves' \in 1..MaxSaves /\ publications' = publications
    /\ Publishes => /\ publications' = publications + 1 /\ publications' \in 1..MaxSaves
                    /\ saves' = saves
    /\ Fails => faults' = faults + 1 /\ faults' \in 0..MaxFaults
  <1> SUFFICES ASSUME CountersOK
               PROVE  /\ Saves => saves' = saves + 1 /\ saves' \in 1..MaxSaves
                                  /\ publications' = publications
                      /\ Publishes => /\ publications' = publications + 1
                                      /\ publications' \in 1..MaxSaves /\ saves' = saves
                      /\ Fails => faults' = faults + 1 /\ faults' \in 0..MaxFaults
    OBVIOUS
  <1>1. \A m, n : <<m, n>> \in Budgets => m \in 0..MaxSaves /\ n \in 0..MaxSaves
    BY EditorialAssumption
  <1>2. ASSUME Saves
        PROVE  saves' = saves + 1 /\ saves' \in 1..MaxSaves /\ publications' = publications
    BY <1>1, <1>2, Bounds DEF Saves, CountersOK
  <1>3. ASSUME Publishes
        PROVE  /\ publications' = publications + 1 /\ publications' \in 1..MaxSaves
               /\ saves' = saves
    BY <1>1, <1>3, Bounds DEF Publishes, CountersOK
  <1>4. ASSUME Fails
        PROVE  faults' = faults + 1 /\ faults' \in 0..MaxFaults
    BY <1>4, Bounds DEF Fails, CountersOK
  <1> QED
    BY <1>2, <1>3, <1>4

LEMMA BallotFrame ==
  CountersOK /\ BallotActs =>
    /\ UNCHANGED <<doc, save, mishaps, record, tree, readmodel, worker, crossposts, counts>>
    /\ Counters
  BY CountsOne
  DEF BallotActs, CreateAccount, StoreAccount, PublishBallot, FailBallot, BallotSteps, Fails,
      CountersOK, Counters, counts

LEMMA TreeFrame ==
  ASSUME CountersOK, NEW p \in Editors, TreeActs(p)
  PROVE  UNCHANGED <<cms, record, readmodel, worker, crossposts, saves>> /\ Counters
  BY CountsOne
  DEF TreeActs, Persist, WriteSnapshot, RecordVersion, FailPersist, TreeSteps, CountersOK, Counters,
      counts

LEMMA CrashFrame ==
  CountersOK /\ CrashCMS =>
    /\ UNCHANGED <<doc, record, snapshots, history, told, readmodel, worker, crossposts, counts>>
    /\ faults' = faults + 1 /\ Counters
  BY CountsOne DEF CrashCMS, CountersOK, Counters, counts

LEMMA BeginFrame ==
  ASSUME CountersOK, NEW e \in Editors, BeginActs(e)
  PROVE  /\ UNCHANGED <<ballot, record, worker, tree, readmodel, crossposts>> /\ Counters
         /\ saves' = saves + 1 /\ saves' \in 1..MaxSaves
  <1>1. /\ \E step, row : Begins(e, step, row)
        /\ UNCHANGED <<record, worker, faults>>
    BY DEF BeginActs, Create, Edit, Delete, Import
  <1>2. Saves /\ ArgumentSteps
    BY <1>1 DEF Begins
  <1> QED
    BY <1>1, <1>2, CountsOne DEF ArgumentSteps, CountersOK, Counters

LEMMA CallFrame ==
  ASSUME CountersOK, NEW e \in Editors, CallActs(e)
  PROVE  UNCHANGED <<ballot, doc, worker, tree, readmodel, crossposts, counts>> /\ Counters
  BY CountsOne
  DEF CallActs, CallHook, FailHook, DeleteRecord, Sync, FailSync, FailedCall, ArgumentSteps,
      CountersOK, Counters, counts

LEMMA RowFrame ==
  ASSUME CountersOK, NEW e \in Editors, ReadActs(e) \/ CommitActs(e)
  PROVE  UNCHANGED <<ballot, record, worker, tree, readmodel, crossposts, counts>> /\ Counters
  BY DEF ReadActs, Open, Close, ReadAgain, CommitActs, CommitSave, CommitDelete, CommitSync,
      ArgumentSteps, CountersOK, Counters, counts

LEMMA SaveFrame ==
  CountersOK /\ Saving => UNCHANGED <<ballot, worker, tree, readmodel, crossposts>> /\ Counters
  BY SavingKinds, BeginFrame, CallFrame, RowFrame

LEMMA ProjectFrame ==
  CountersOK /\ ProjectActs =>
    UNCHANGED <<cms, record, tree, crossposts, counts, faults>> /\ Counters
  BY DEF ProjectActs, Take, StartBackfill, FinishBackfill, CountersOK, Counters, counts

LEMMA WorkFrame ==
  CountersOK /\ WorkActs =>
    UNCHANGED <<cms, tree, pos, backfill, behind, shown, crossposts, counts>> /\ Counters
  BY CountsOne
  DEF WorkActs, ReadArgument, PutTranslated, FailPut, DropTranslation, ReadTopic, UpdateTopic,
      WorkerSteps, CountersOK, Counters, counts

LEMMA PostFrame ==
  CountersOK /\ PostActs =>
    UNCHANGED <<cms, record, tree, readmodel, worker, counts>> /\ Counters
  BY CountsOne
  DEF PostActs, ReadUnposted, CreatePost, LinkPost, FailPost, PostSteps, CountersOK, Counters,
      counts

LEMMA CountersStep == CountersOK /\ [Next]_vars => Counters /\ CountersOK'
  <1> SUFFICES ASSUME CountersOK, [Next]_vars PROVE Counters
    BY DEF Counters, CountersOK
  <1>1. CASE UNCHANGED vars
    BY <1>1 DEF vars, counts, Counters, CountersOK
  <1> QED
    BY <1>1, StepKinds, BallotFrame, TreeFrame, CrashFrame, SaveFrame, ProjectFrame, WorkFrame,
       PostFrame

-----------------------------------------------------------------------------
(***************************************************************************)
(* The argument: its row, the saves in progress and its records.           *)
(***************************************************************************)
Entries == [text : Texts, by : {"nobody", "cms", "worker"}, there : BOOLEAN]
SaveSteps == {"idle", "open", "hook", "called", "delete", "deleted", "sync", "call", "synced"}
Acting(e) == save[e].step \notin {"idle", "open"}
Known == 1..saves \cup {None}

SaveOK(e) ==
  /\ save[e] \in [step : SaveSteps, row : Rows, id : 0..MaxSaves]
  /\ save[e].row.uri \in Known
  /\ Acting(e) => save[e].id \in 1..saves
  /\ save[e].step \in {"delete", "deleted"} => save[e].row.status = "deleted"
  /\ save[e].step \in {"call", "synced"} => save[e].row.status = "published"
  /\ save[e].step = "synced" => save[e].row.uri = save[e].id

WorkerOK ==
  /\ worker \in [on : {"nothing", "argument", "topic", "halted"}, uri : Uris \cup {None},
                 saw : Texts \cup Trees \cup {None}, overtaken : BOOLEAN]
  /\ worker.on = "argument" => /\ worker.uri \in Uris /\ worker.saw \in Texts
                               /\ record[worker.uri].by # "nobody"

DocInv ==
  /\ doc \in Rows /\ doc.uri \in Known
  /\ save = [e \in Editors |-> save[e]] /\ \A e \in Editors : SaveOK(e)
  /\ record \in [Uris -> Entries]
  /\ WorkerOK

LEMMA NumbersAreNotNone == \A n \in Nat : n # None
  BY EditorialAssumption

LEMMA Numbers ==
  ASSUME CountersOK
  PROVE  /\ saves \in Nat /\ Known \subseteq Uris \cup {None} /\ 1..saves \subseteq Uris
         /\ None \notin Uris /\ Uris \subseteq Nat /\ Texts \subseteq Nat /\ 0 \in Texts
  BY Bounds, NumbersAreNotNone DEF CountersOK, Known, Uris, Texts

LEMMA NoSaveType ==
  ASSUME CountersOK
  PROVE  /\ NoSave \in [step : SaveSteps, row : Rows, id : 0..MaxSaves]
         /\ NoSave.step = "idle" /\ NoSave.row = NoRow
         /\ NoRow \in Rows /\ NoRow.uri = None /\ NoRow.status = "none"
  BY Numbers, Bounds DEF NoSave, NoRow, Rows, SaveSteps

LEMMA DocInvInit == Init => CountersOK /\ DocInv
  <1> SUFFICES ASSUME Init PROVE CountersOK /\ DocInv
    OBVIOUS
  <1>1. CountersOK /\ saves = 0
    BY Bounds DEF Init, CountersOK
  <1>2. \A e \in Editors : SaveOK(e)
    BY <1>1, NoSaveType DEF Init, SaveOK, Acting, Known
  <1>3. record \in [Uris -> Entries]
    BY <1>1, Numbers DEF Init, Entries, NoRecord
  <1>4. WorkerOK
    BY DEF Init, WorkerOK, Resting
  <1> QED
    BY <1>1, <1>2, <1>3, <1>4, NoSaveType DEF Init, DocInv, Known

\* A step of one save leaves the others.
Alone(e) == save' = [f \in Editors |-> save'[f]] /\ \A f \in Editors \ {e} : save'[f] = save[f]

LEMMA SaveChanges ==
  ASSUME DocInv, NEW e \in Editors, NEW s, save' = [save EXCEPT ![e] = s]
  PROVE  save'[e] = s /\ Alone(e)
  BY DEF DocInv, Alone

\* What the beginning of a save makes of the row it was read from.
BeginsWith(e) ==
  /\ save[e].step = "open" /\ \A f \in Editors : ~Locks(f)
  /\ Alone(e) /\ save'[e].id = saves + 1
  /\ save'[e] \in [step : SaveSteps, row : Rows, id : 0..MaxSaves]
  /\ \/ /\ save'[e].step = "called" /\ doc' = doc /\ mishaps' = mishaps
        /\ doc.status = "none" /\ save'[e].row.uri = None
     \/ /\ save'[e].step = "hook" /\ doc' = doc /\ mishaps' = mishaps
        /\ save'[e].row.uri = save[e].row.uri
     \/ /\ save'[e].step = "delete" /\ doc' = doc /\ mishaps' = mishaps
        /\ save'[e].row.uri = save[e].row.uri /\ save'[e].row.status = "deleted"
     \/ /\ save'[e].step = "sync" /\ doc' = save'[e].row
        /\ save'[e].row.uri = save[e].row.uri
        /\ save[e].row.status = "published" => doc'.status = "published"
        /\ mishaps' = mishaps + If(save[e].row.uri # doc.uri \/ save[e].row.status # doc.status)

LEMMA Beginning ==
  ASSUME CountersOK, DocInv, NEW e \in Editors, BeginActs(e)
  PROVE  BeginsWith(e)
  <1> DEFINE Shape(step, row) == [step |-> step, row |-> row, id |-> saves + 1]
  <1>0. /\ saves + 1 \in 1..MaxSaves /\ saves + 1 \in Texts /\ saves' = saves + 1
        /\ save[e].row \in Rows
    BY BeginFrame DEF Texts, DocInv, SaveOK
  <1>1. ASSUME NEW step \in SaveSteps, NEW row \in Rows, Begins(e, step, row)
        PROVE  /\ save[e].step = "open" /\ \A f \in Editors : ~Locks(f)
               /\ Alone(e) /\ save'[e].step = step /\ save'[e].row = row
               /\ save'[e].id = saves + 1
               /\ save'[e] \in [step : SaveSteps, row : Rows, id : 0..MaxSaves]
    <2>1. save' = [save EXCEPT ![e] = Shape(step, row)]
      BY <1>0, <1>1 DEF Begins
    <2>2. Shape(step, row) \in [step : SaveSteps, row : Rows, id : 0..MaxSaves]
      BY <1>0
    <2>3. /\ Shape(step, row).step = step /\ Shape(step, row).row = row
          /\ Shape(step, row).id = saves + 1
      OBVIOUS
    <2> HIDE DEF Shape
    <2> QED
      BY <1>1, <2>1, <2>2, <2>3, SaveChanges DEF Begins
  <1> HIDE DEF Shape
  <1>2. ASSUME NEW status \in {"draft", "published"}, Create(e, status)
        PROVE  BeginsWith(e)
    <2> DEFINE row == [status |-> status, text |-> saves + 1, uri |-> None]
    <2>1. Begins(e, "called", row) /\ row \in Rows /\ row.uri = None
      BY <1>0, <1>2 DEF Create, Rows
    <2>2. UNCHANGED <<doc, mishaps>> /\ doc.status = "none"
      BY <1>2 DEF Create
    <2> HIDE DEF row
    <2> QED
      BY <1>1, <2>1, <2>2 DEF BeginsWith, SaveSteps
  <1>3. ASSUME NEW status \in {"draft", "published"}, NEW text \in Texts, Edit(e, status, text)
        PROVE  BeginsWith(e)
    <2> DEFINE row == [save[e].row EXCEPT !.status = status, !.text = text]
    <2>1. Begins(e, "hook", row) /\ row \in Rows /\ row.uri = save[e].row.uri
      BY <1>0, <1>3 DEF Edit, Rows
    <2>2. UNCHANGED <<doc, mishaps>>
      BY <1>3 DEF Edit
    <2> HIDE DEF row
    <2> QED
      BY <1>1, <2>1, <2>2 DEF BeginsWith, SaveSteps
  <1>4. ASSUME Delete(e)
        PROVE  BeginsWith(e)
    <2> DEFINE row == [save[e].row EXCEPT !.status = "deleted"]
    <2>1. /\ Begins(e, "delete", row) /\ row \in Rows /\ row.uri = save[e].row.uri
          /\ row.status = "deleted"
      BY <1>0, <1>4 DEF Delete, Rows
    <2>2. UNCHANGED <<doc, mishaps>>
      BY <1>4 DEF Delete
    <2> HIDE DEF row
    <2> QED
      BY <1>1, <2>1, <2>2 DEF BeginsWith, SaveSteps
  <1>5. ASSUME NEW publish \in BOOLEAN, Import(e, publish)
        PROVE  BeginsWith(e)
    <2> DEFINE status == IF publish THEN "published"
                         ELSE IF save[e].row.status = "none" THEN "draft"
                         ELSE save[e].row.status
               row == [save[e].row EXCEPT !.text = saves + 1, !.status = status]
    <2>1. status \in {"none", "draft", "published", "deleted"}
          /\ (save[e].row.status = "published" => status = "published")
      BY <1>0 DEF Rows
    <2>2. Begins(e, "sync", row)
      BY <1>0, <1>5 DEF Import
    <2> HIDE DEF status
    <2>3. row \in Rows /\ row.uri = save[e].row.uri /\ row.status = status
      BY <1>0, <2>1 DEF Rows
    <2>4. /\ doc' = save'[e].row
          /\ mishaps' = mishaps + If(save[e].row.uri # doc.uri \/ save[e].row.status # doc.status)
      BY <1>5 DEF Import, Spoils
    <2> HIDE DEF row
    <2> QED
      BY <1>1, <2>1, <2>2, <2>3, <2>4 DEF BeginsWith, SaveSteps
  <1> QED
    BY <1>2, <1>3, <1>4, <1>5 DEF BeginActs

\* What a call to the PDS makes of the records.
Target(e) == IF save[e].row.uri = None THEN save[e].id ELSE save[e].row.uri

Puts(e) ==
  /\ Target(e) \in Uris /\ record' \in [Uris -> Entries]
  /\ \A u \in Uris \ {Target(e)} : record'[u] = record[u]
  /\ IF save[e].row.status = "published"
     THEN record'[Target(e)].there /\ record'[Target(e)].by = "cms"
     ELSE ~record'[Target(e)].there /\ record'[Target(e)].by = record[Target(e)].by

LEMMA Putting ==
  ASSUME CountersOK, DocInv, NEW e \in Editors, Acting(e), NEW text \in Texts,
         Synced(save[e].row, save[e].id, text)
  PROVE  Puts(e)
  <1> DEFINE t == Target(e)
             x == IF save[e].row.status = "published" THEN Built(text)
                  ELSE [record[t] EXCEPT !.there = FALSE]
  <1>1. t \in Uris
    BY Numbers DEF Target, DocInv, SaveOK
  <1>2. record' = [record EXCEPT ![t] = x]
    BY DEF Synced, Target
  <1>3. /\ x \in Entries
        /\ IF save[e].row.status = "published" THEN x.there /\ x.by = "cms"
           ELSE ~x.there /\ x.by = record[t].by
    BY <1>1 DEF DocInv, Entries, Built
  <1> HIDE DEF x
  <1>4. record' \in [Uris -> Entries] /\ record'[t] = x /\ \A u \in Uris \ {t} : record'[u] = record[u]
    BY <1>1, <1>2, <1>3 DEF DocInv
  <1> QED
    BY <1>1, <1>3, <1>4 DEF Puts

CallsWith(e) ==
  LET row == save[e].row  next == save'[e].row  late == If(save[e].row.uri # doc.uri) IN
  /\ Alone(e) /\ save'[e] \in [step : SaveSteps, row : Rows, id : 0..MaxSaves]
  /\ record' = record \/ Puts(e)
  /\ \/ /\ save[e].step = "hook" /\ save'[e].step = "called" /\ save'[e].id = save[e].id
        /\ \/ /\ next.status = row.status /\ next.uri = NewUri(row, save[e].id)
              /\ Puts(e) /\ mishaps' = mishaps + late
           \/ /\ next.uri = row.uri /\ (row.uri # None => next.status = row.status)
              /\ mishaps' = mishaps + (1 + late)
     \/ /\ save[e].step = "delete" /\ save'[e].step = "deleted" /\ save'[e].id = save[e].id
        /\ next = row
        /\ \/ Puts(e) /\ mishaps' = mishaps + late
           \/ mishaps' = mishaps + (1 + late)
     \/ /\ save[e].step = "call" /\ row.uri = None /\ Puts(e) /\ mishaps' = mishaps
        /\ save'[e].step = "synced" /\ save'[e].id = save[e].id
        /\ next.uri = save[e].id /\ next.status = "published"
     \/ /\ save[e].step = "call" /\ save'[e] = NoSave /\ row.uri # None /\ Puts(e)
        /\ mishaps' = mishaps + If(\/ \E f \in Editors : Locks(f)
                                   \/ doc.status # "published" \/ doc.uri # row.uri)
     \/ save[e].step = "call" /\ save'[e] = NoSave /\ mishaps' = mishaps + 1

LEMMA Calling ==
  ASSUME CountersOK, DocInv, mishaps \in Nat, NEW e \in Editors, CallActs(e)
  PROVE  CallsWith(e)
  <1> DEFINE row == save[e].row
             id == save[e].id
  <1>0. /\ doc.text \in Texts /\ row \in Rows /\ row.text \in Texts /\ id \in 0..MaxSaves
        /\ save[e] \in [step : SaveSteps, row : Rows, id : 0..MaxSaves]
    BY DEF DocInv, SaveOK, Rows
  <1>1. Acting(e) /\ save[e].step \in {"hook", "delete", "call"} /\ id \in Uris
    BY Numbers DEF CallActs, CallHook, FailHook, DeleteRecord, Sync, FailSync, Acting, DocInv, SaveOK
  <1>2. \A text \in Texts : /\ Synced(row, id, text) => Puts(e)
                            /\ FailedCall(row, id, text) => record' = record \/ Puts(e)
    BY <1>1, Putting DEF FailedCall
  <1>3. CASE CallHook(e)
    <2> DEFINE s == [save[e] EXCEPT !.step = "called", !.row.uri = NewUri(row, id)]
    <2>1. save' = [save EXCEPT ![e] = s]
      BY <1>3 DEF CallHook
    <2>2. /\ s.step = "called" /\ s.id = id /\ s.row.status = row.status
          /\ s.row.uri = NewUri(row, id) /\ s \in [step : SaveSteps, row : Rows, id : 0..MaxSaves]
      BY <1>0, <1>1 DEF NewUri, Rows, SaveSteps
    <2>3. save[e].step = "hook" /\ Puts(e) /\ mishaps' = mishaps + If(row.uri # doc.uri)
      BY <1>0, <1>2, <1>3 DEF CallHook, Spoils
    <2> HIDE DEF s
    <2> QED
      BY <2>1, <2>2, <2>3, SaveChanges DEF CallsWith
  <1>4. CASE FailHook(e)
    <2> DEFINE s == [save[e] EXCEPT !.step = "called",
                                    !.row.status = IF row.uri = None THEN "draft" ELSE row.status]
    <2>1. save' = [save EXCEPT ![e] = s]
      BY <1>4 DEF FailHook
    <2>2. /\ s.step = "called" /\ s.id = id /\ s.row.uri = row.uri
          /\ (row.uri # None => s.row.status = row.status)
          /\ s \in [step : SaveSteps, row : Rows, id : 0..MaxSaves]
      BY <1>0, <1>1 DEF Rows, SaveSteps
    <2>3. /\ save[e].step = "hook" /\ (record' = record \/ Puts(e))
          /\ mishaps' = mishaps + (1 + If(row.uri # doc.uri))
      BY <1>0, <1>2, <1>4 DEF FailHook, Spoils
    <2> HIDE DEF s
    <2> QED
      BY <2>1, <2>2, <2>3, SaveChanges DEF CallsWith
  <1>5. CASE DeleteRecord(e)
    <2> DEFINE s == [save[e] EXCEPT !.step = "deleted"]
    <2>1. save' = [save EXCEPT ![e] = s]
      BY <1>5 DEF DeleteRecord
    <2>2. /\ s.step = "deleted" /\ s.id = id /\ s.row = row
          /\ s \in [step : SaveSteps, row : Rows, id : 0..MaxSaves]
      BY <1>0 DEF SaveSteps
    <2>3. /\ save[e].step = "delete"
          /\ \/ Puts(e) /\ mishaps' = mishaps + If(row.uri # doc.uri)
             \/ /\ record' = record \/ Puts(e)
                /\ mishaps' = mishaps + (1 + If(row.uri # doc.uri))
      BY <1>0, <1>2, <1>5 DEF DeleteRecord, Spoils
    <2> HIDE DEF s
    <2> QED
      BY <2>1, <2>2, <2>3, SaveChanges DEF CallsWith
  <1>6. CASE Sync(e)
    <2>1. save[e].step = "call" /\ Puts(e) /\ row.status = "published"
      BY <1>0, <1>2, <1>6 DEF Sync, DocInv, SaveOK
    <2>2. CASE row.uri = None
      <3> DEFINE s == [save[e] EXCEPT !.step = "synced", !.row.uri = id]
      <3>1. save' = [save EXCEPT ![e] = s] /\ mishaps' = mishaps
        BY <1>6, <2>2 DEF Sync, Spoils, If
      <3>2. /\ s.step = "synced" /\ s.id = id /\ s.row.uri = id /\ s.row.status = "published"
            /\ s \in [step : SaveSteps, row : Rows, id : 0..MaxSaves]
        BY <1>0, <1>1, <2>1 DEF Rows, SaveSteps
      <3> HIDE DEF s
      <3> QED
        BY <2>1, <2>2, <3>1, <3>2, SaveChanges DEF CallsWith
    <2>3. CASE row.uri # None
      <3>1. /\ save' = [save EXCEPT ![e] = NoSave]
            /\ mishaps' = mishaps + If(\/ \E f \in Editors : Locks(f)
                                       \/ doc.status # "published" \/ doc.uri # row.uri)
        BY <1>6, <2>3 DEF Sync, Spoils
      <3> QED
        BY <2>1, <2>3, <3>1, SaveChanges, NoSaveType DEF CallsWith
    <2> QED
      BY <2>2, <2>3
  <1>7. CASE FailSync(e)
    <2>1. /\ save[e].step = "call" /\ save' = [save EXCEPT ![e] = NoSave]
          /\ (record' = record \/ Puts(e)) /\ mishaps' = mishaps + 1
      BY <1>0, <1>2, <1>7 DEF FailSync, Spoils
    <2>2. record' = record \/ Puts(e)
      BY <1>0, <1>2, <1>7 DEF FailSync
    <2> QED
      BY <2>1, <2>2, SaveChanges, NoSaveType DEF CallsWith
  <1> QED
    BY <1>3, <1>4, <1>5, <1>6, <1>7 DEF CallActs

\* Reading the row, and giving up.
ReadsWith(e) ==
  /\ Alone(e) /\ UNCHANGED <<doc, mishaps>>
  /\ save'[e] \in [step : SaveSteps, row : Rows, id : 0..MaxSaves]
  /\ \/ /\ save[e].step = "idle" /\ save'[e].step = "open" /\ save'[e].row = doc
     \/ save[e].step \in {"open", "sync"} /\ save'[e] = NoSave
     \/ /\ save[e].step = "sync" /\ save'[e].step = "call" /\ save'[e].id = save[e].id
        /\ save'[e].row = doc /\ doc.status = "published"

LEMMA Reading ==
  ASSUME CountersOK, DocInv, NEW e \in Editors, ReadActs(e)
  PROVE  ReadsWith(e)
  <1>0. doc \in Rows /\ save[e] \in [step : SaveSteps, row : Rows, id : 0..MaxSaves]
    BY DEF DocInv, SaveOK
  <1>1. CASE Open(e)
    <2> DEFINE s == [NoSave EXCEPT !.step = "open", !.row = doc]
    <2>1. /\ s.step = "open" /\ s.row = doc
          /\ s \in [step : SaveSteps, row : Rows, id : 0..MaxSaves]
      BY <1>0, NoSaveType DEF SaveSteps
    <2>2. /\ save' = [save EXCEPT ![e] = s] /\ save[e].step = "idle" /\ UNCHANGED <<doc, mishaps>>
      BY <1>1 DEF Open
    <2> HIDE DEF s
    <2> QED
      BY <2>1, <2>2, SaveChanges DEF ReadsWith
  <1>2. CASE Close(e)
    BY <1>2, SaveChanges, NoSaveType DEF Close, ReadsWith
  <1>3. CASE ReadAgain(e) /\ doc.status # "published"
    BY <1>3, SaveChanges, NoSaveType DEF ReadAgain, ReadsWith
  <1>4. CASE ReadAgain(e) /\ doc.status = "published"
    <2> DEFINE s == [save[e] EXCEPT !.step = "call", !.row = doc]
    <2>1. /\ s.step = "call" /\ s.row = doc /\ s.id = save[e].id
          /\ s \in [step : SaveSteps, row : Rows, id : 0..MaxSaves]
      BY <1>0 DEF SaveSteps
    <2>2. /\ save' = [save EXCEPT ![e] = s] /\ save[e].step = "sync" /\ UNCHANGED <<doc, mishaps>>
      BY <1>4 DEF ReadAgain
    <2> HIDE DEF s
    <2> QED
      BY <1>4, <2>1, <2>2, SaveChanges DEF ReadsWith
  <1> QED
    BY <1>1, <1>2, <1>3, <1>4 DEF ReadActs

\* The end of a save.
CommitsWith(e) ==
  /\ Alone(e) /\ save'[e] = NoSave
  /\ \/ save[e].step = "called" /\ doc' = save[e].row /\ mishaps' = mishaps
     \/ /\ save[e].step = "deleted" /\ mishaps' = mishaps
        /\ doc' \in Rows /\ doc'.status = "deleted" /\ doc'.uri = None
     \/ /\ save[e].step = "synced" /\ \A f \in Editors : ~Locks(f)
        /\ mishaps' = mishaps + If(doc.status # "published" \/ doc.uri # None)
        /\ doc' \in Rows /\ doc'.status = doc.status /\ doc'.uri \in {doc.uri, save[e].row.uri}
        /\ doc.status = "published" => doc'.uri = save[e].row.uri

LEMMA Committing ==
  ASSUME CountersOK, DocInv, NEW e \in Editors, CommitActs(e)
  PROVE  CommitsWith(e)
  <1>0. doc \in Rows /\ save[e].row \in Rows
    BY DEF DocInv, SaveOK
  <1>1. CASE CommitSave(e)
    BY <1>1, SaveChanges DEF CommitSave, CommitsWith
  <1>2. CASE CommitDelete(e)
    <2>1. /\ [NoRow EXCEPT !.status = "deleted"] \in Rows
          /\ [NoRow EXCEPT !.status = "deleted"].status = "deleted"
          /\ [NoRow EXCEPT !.status = "deleted"].uri = None
      BY NoSaveType DEF NoRow, Rows
    <2> QED
      BY <1>2, <2>1, SaveChanges DEF CommitDelete, CommitsWith
  <1>3. CASE CommitSync(e)
    <2> DEFINE named == [doc EXCEPT !.uri = save[e].row.uri]
    <2>1. named \in Rows /\ named.status = doc.status /\ named.uri = save[e].row.uri
      BY <1>0 DEF Rows
    <2>2. /\ save[e].step = "synced" /\ \A f \in Editors : ~Locks(f)
          /\ mishaps' = mishaps + If(doc.status # "published" \/ doc.uri # None)
          /\ save' = [save EXCEPT ![e] = NoSave]
          /\ doc' = IF doc.status = "deleted" THEN doc ELSE named
      BY <1>3 DEF CommitSync, Spoils
    <2> HIDE DEF named
    <2> QED
      BY <1>0, <2>1, <2>2, SaveChanges DEF CommitsWith
  <1> QED
    BY <1>1, <1>2, <1>3 DEF CommitActs

\* A record somebody wrote stays one.
Kept == \A u \in Uris : record'[u].by = "nobody" => record[u].by = "nobody"

LEMMA DocStays ==
  ASSUME CountersOK, Counters, DocInv, NEW e,
         doc' \in Rows, doc'.uri \in Known', record' \in [Uris -> Entries],
         Alone(e), e \in Editors => SaveOK(e)', Kept, worker' = worker
  PROVE  DocInv'
  <1>1. Known \subseteq Known' /\ 1..saves \subseteq 1..saves'
    BY DEF CountersOK, Counters, Known
  <1>2. ASSUME NEW f \in Editors \ {e}
        PROVE  SaveOK(f)'
    <2>1. save'[f] = save[f] /\ SaveOK(f)
      BY DEF Alone, DocInv
    <2> QED
      BY <1>1, <2>1 DEF SaveOK, Acting
  <1>3. WorkerOK'
    BY DEF WorkerOK, DocInv, Kept
  <1> QED
    BY <1>2, <1>3 DEF DocInv, Alone

LEMMA BeginKeepsDoc ==
  ASSUME CountersOK, DocInv, NEW e \in Editors, BeginActs(e)
  PROVE  DocInv'
  <1>1. /\ BeginsWith(e) /\ Counters /\ saves' = saves + 1 /\ record' = record /\ worker' = worker
        /\ saves + 1 \in 1..saves' /\ Known \subseteq Known'
    BY Beginning, BeginFrame, Numbers DEF Known
  <1>2. save[e].row.uri \in Known /\ None \in Known /\ doc.uri \in Known /\ doc \in Rows
    BY DEF DocInv, SaveOK, Known
  <1>3. SaveOK(e)'
    BY <1>1, <1>2 DEF BeginsWith, SaveOK
  <1>4. doc' \in Rows /\ doc'.uri \in Known'
    BY <1>1, <1>2 DEF BeginsWith
  <1>5. record' \in [Uris -> Entries] /\ Kept
    BY <1>1 DEF DocInv, Kept
  <1> QED
    BY <1>1, <1>3, <1>4, <1>5, DocStays DEF BeginsWith

LEMMA CallKeepsDoc ==
  ASSUME CountersOK, DocInv, mishaps \in Nat, NEW e \in Editors, CallActs(e)
  PROVE  DocInv' /\ Kept
  <1>1. CallsWith(e) /\ Counters /\ saves' = saves /\ doc' = doc /\ worker' = worker
    BY Calling, CallFrame DEF counts
  <1>2. /\ save[e].row.uri \in Known /\ None \in Known /\ doc.uri \in Known /\ doc \in Rows
        /\ Known' = Known /\ SaveOK(e)
    BY <1>1 DEF DocInv, SaveOK, Known
  <1>3. save[e].step \in {"hook", "delete", "call"} => save[e].id \in 1..saves /\ save[e].id \in Known
    BY <1>2 DEF SaveOK, Acting, Known
  <1>4. SaveOK(e)'
    <2>1. CASE save'[e] = NoSave
      BY <1>1, <1>2, <2>1, NoSaveType DEF SaveOK, Acting, CallsWith
    <2>2. CASE save'[e] # NoSave
      <3>1. /\ save'[e] \in [step : SaveSteps, row : Rows, id : 0..MaxSaves]
            /\ save'[e].id = save[e].id
            /\ save[e].step \in {"hook", "delete", "call"}
            /\ save'[e].step \in {"called", "deleted", "synced"}
        BY <1>1, <2>2 DEF CallsWith
      <3>2. save'[e].row.uri \in {save[e].row.uri, save[e].id, None}
        BY <1>1, <2>2 DEF CallsWith, NewUri
      <3>3. /\ save'[e].step = "deleted" => save'[e].row.status = "deleted"
            /\ save'[e].step = "synced" => /\ save'[e].row.status = "published"
                                           /\ save'[e].row.uri = save'[e].id
        <4>1. save[e].step = "delete" => save[e].row.status = "deleted"
          BY <1>2 DEF SaveOK
        <4>2. CASE save[e].step = "hook"
          BY <1>1, <2>2, <4>2 DEF CallsWith
        <4>3. CASE save[e].step = "delete"
          BY <1>1, <2>2, <4>1, <4>3 DEF CallsWith
        <4>4. CASE save[e].step = "call"
          BY <1>1, <2>2, <4>4 DEF CallsWith
        <4> QED
          BY <3>1, <4>2, <4>3, <4>4
      <3> QED
        BY <1>1, <1>2, <1>3, <3>1, <3>2, <3>3 DEF SaveOK, Acting
    <2> QED
      BY <2>1, <2>2
  <1>5. record' \in [Uris -> Entries] /\ Kept
    <2>1. CASE record' = record
      BY <2>1 DEF DocInv, Kept
    <2>2. CASE Puts(e)
      BY <2>2 DEF Puts, Kept
    <2> QED
      BY <1>1, <2>1, <2>2 DEF CallsWith
  <1> QED
    BY <1>1, <1>2, <1>4, <1>5, DocStays DEF CallsWith

LEMMA RowKeepsDoc ==
  ASSUME CountersOK, DocInv, NEW e \in Editors, ReadActs(e) \/ CommitActs(e)
  PROVE  DocInv'
  <1>1. /\ ReadsWith(e) \/ CommitsWith(e)
        /\ Counters /\ saves' = saves /\ record' = record /\ worker' = worker
    BY Reading, Committing, RowFrame DEF counts
  <1>2. /\ save[e].row.uri \in Known /\ None \in Known /\ doc.uri \in Known /\ doc \in Rows
        /\ Known' = Known /\ SaveOK(e) /\ save[e].row \in Rows
    BY <1>1 DEF DocInv, SaveOK, Known
  <1>3. SaveOK(e)'
    <2>1. CASE save'[e] = NoSave
      BY <1>1, <1>2, <2>1, NoSaveType DEF SaveOK, Acting
    <2>2. CASE save'[e] # NoSave
      BY <1>1, <1>2, <2>2 DEF SaveOK, Acting, ReadsWith, CommitsWith
    <2> QED
      BY <2>1, <2>2
  <1>4. doc' \in Rows /\ doc'.uri \in Known'
    BY <1>1, <1>2 DEF ReadsWith, CommitsWith
  <1>5. record' \in [Uris -> Entries] /\ Kept /\ Alone(e)
    BY <1>1 DEF DocInv, Kept, ReadsWith, CommitsWith
  <1> QED
    BY <1>1, <1>3, <1>4, <1>5, DocStays

LEMMA CrashKeepsDoc ==
  ASSUME CountersOK, DocInv, CrashCMS
  PROVE  DocInv'
  <1>1. /\ UNCHANGED <<doc, record, worker, saves>>
        /\ save' = [f \in Editors |-> IF save[f].step = "open" THEN save[f] ELSE NoSave]
    BY CrashFrame DEF CrashCMS, counts
  <1>2. ASSUME NEW f \in Editors
        PROVE  SaveOK(f)'
    <2>1. save'[f] = save[f] \/ save'[f] = NoSave
      BY <1>1
    <2>2. CASE save'[f] = NoSave
      BY <1>1, <2>2, NoSaveType DEF SaveOK, Acting, Known
    <2>3. CASE save'[f] = save[f]
      BY <1>1, <2>3 DEF DocInv, SaveOK, Acting, Known
    <2> QED
      BY <2>1, <2>2, <2>3
  <1> QED
    BY <1>1, <1>2 DEF DocInv, Known, WorkerOK

\* What the translation worker writes.
LEMMA Translating ==
  ASSUME DocInv, worker.on = "argument", record' = Translated
  PROVE  /\ worker.uri \in Uris /\ record' \in [Uris -> Entries]
         /\ record'[worker.uri].by = "worker" /\ record'[worker.uri].there
         /\ \A u \in Uris \ {worker.uri} : record'[u] = record[u]
  <1> DEFINE x == [text |-> worker.saw, by |-> "worker", there |-> TRUE]
  <1>1. x \in Entries /\ x.by = "worker" /\ x.there /\ worker.uri \in Uris
    BY DEF DocInv, WorkerOK, Entries
  <1>2. record' = [record EXCEPT ![worker.uri] = x]
    BY DEF Translated
  <1> HIDE DEF x
  <1> QED
    BY <1>1, <1>2 DEF DocInv

LEMMA WorkKeepsDoc ==
  ASSUME CountersOK, DocInv, WorkActs, shown \in Trees \cup {None}
  PROVE  /\ DocInv' /\ Kept
         /\ record' = record \/ (worker.on = "argument" /\ record' = Translated)
  <1>1. UNCHANGED <<doc, save, saves>>
    BY WorkFrame DEF cms, counts
  <1>2. record' = record \/ (worker.on = "argument" /\ record' = Translated)
    BY DEF WorkActs, ReadArgument, PutTranslated, FailPut, DropTranslation, ReadTopic, UpdateTopic
  <1>3. record' \in [Uris -> Entries] /\ Kept
    <2>1. CASE record' = record
      BY <2>1 DEF DocInv, Kept
    <2>2. CASE worker.on = "argument" /\ record' = Translated
      <3>1. /\ record' \in [Uris -> Entries] /\ record'[worker.uri].by # "nobody"
            /\ \A u \in Uris \ {worker.uri} : record'[u] = record[u]
        BY <2>2, Translating
      <3> QED
        BY <3>1 DEF Kept
    <2> QED
      BY <1>2, <2>1, <2>2
  <1>4. Resting \in [on : {"nothing", "argument", "topic", "halted"}, uri : Uris \cup {None},
                     saw : Texts \cup Trees \cup {None}, overtaken : BOOLEAN]
        /\ Resting.on = "nothing"
    BY DEF Resting
  <1>5. WorkerOK'
    <2>1. ASSUME NEW u \in Uris, ReadArgument(u)
          PROVE  WorkerOK'
      <3>1. record[u].text \in Texts /\ record[u].by = "cms" /\ record' = record
        BY <2>1 DEF DocInv, Entries, ReadArgument
      <3>2. worker' = [Resting EXCEPT !.on = "argument", !.uri = u, !.saw = record[u].text]
        BY <2>1 DEF ReadArgument
      <3>3. worker'.on = "argument" /\ worker'.uri = u /\ worker'.saw = record[u].text
        BY <3>2 DEF Resting
      <3> QED
        BY <1>4, <3>1, <3>2, <3>3 DEF WorkerOK
    <2>2. CASE ReadTopic
      <3>1. worker' = [Resting EXCEPT !.on = "topic", !.saw = shown]
        BY <2>2 DEF ReadTopic
      <3> QED
        BY <1>4, <3>1 DEF WorkerOK
    <2>3. CASE FailPut
      <3>1. worker' = [Resting EXCEPT !.on = "halted"]
        BY <2>3 DEF FailPut
      <3> QED
        BY <1>4, <3>1 DEF WorkerOK
    <2>4. CASE PutTranslated \/ DropTranslation \/ UpdateTopic
      <3>1. worker' = Resting
        BY <2>4 DEF PutTranslated, DropTranslation, UpdateTopic
      <3> QED
        BY <1>4, <3>1 DEF WorkerOK
    <2> QED
      BY <2>1, <2>2, <2>3, <2>4 DEF WorkActs
  <1> QED
    BY <1>1, <1>2, <1>3, <1>5 DEF DocInv, SaveOK, Acting, Known

LEMMA DocInvStep ==
  CountersOK /\ DocInv /\ mishaps \in Nat /\ shown \in Trees \cup {None} /\ [Next]_vars => DocInv'
  <1> SUFFICES ASSUME CountersOK, DocInv, mishaps \in Nat, shown \in Trees \cup {None}, [Next]_vars
               PROVE  DocInv'
    OBVIOUS
  <1>1. ASSUME UNCHANGED <<doc, save, record, saves>>, WorkerOK'
        PROVE  DocInv'
    BY <1>1 DEF DocInv, SaveOK, Acting, Known
  <1>2. worker' = worker /\ record' = record => WorkerOK'
    BY DEF DocInv, WorkerOK
  <1>3. CASE BallotActs \/ PostActs \/ UNCHANGED vars
    BY <1>1, <1>2, <1>3, BallotFrame, PostFrame DEF cms, vars, counts
  <1>4. CASE \E p \in Editors : TreeActs(p)
    BY <1>1, <1>2, <1>4, TreeFrame DEF cms
  <1>5. CASE Saving
    BY <1>5, SavingKinds, BeginKeepsDoc, CallKeepsDoc, RowKeepsDoc
  <1>6. CASE ProjectActs
    <2>1. UNCHANGED <<doc, save, record, saves>>
      BY <1>6, ProjectFrame DEF cms, counts
    <2>2. worker' = worker \/ worker' = [worker EXCEPT !.overtaken = (worker.on = "topic")]
      BY <1>6 DEF ProjectActs, Take, StartBackfill, FinishBackfill
    <2>3. WorkerOK'
      BY <2>1, <2>2 DEF DocInv, WorkerOK
    <2> QED
      BY <1>1, <2>1, <2>3
  <1> QED
    BY <1>3, <1>4, <1>5, <1>6, CrashKeepsDoc, WorkKeepsDoc, StepKinds


-----------------------------------------------------------------------------
(***************************************************************************)
(* A save has the row to itself once it wrote it, and its number to itself *)
(* until it ends: nobody else's row names the record it may create.        *)
(***************************************************************************)
IdInv ==
  /\ \A e, f \in Editors : Locks(e) /\ Locks(f) => e = f
  /\ \A f \in Editors : Acting(f) =>
       /\ doc.uri # save[f].id
       /\ \A e \in Editors \ {f} : /\ save[e].row.uri # save[f].id
                                   /\ Acting(e) => save[e].id # save[f].id

\* What a step of a save does to names and numbers.
MovesIds(e) ==
  /\ Alone(e) /\ doc'.uri \in {doc.uri, save[e].row.uri, None}
  /\ save'[e].row.uri \in {save[e].row.uri, doc.uri, None}
       \/ (Acting(e) /\ save'[e].row.uri = save[e].id)
  /\ Acting(e)' => \/ save'[e].id = saves + 1
                   \/ Acting(e) /\ save'[e].id = save[e].id /\ doc' = doc
  /\ Locks(e)' => Locks(e) \/ \A f \in Editors : ~Locks(f)

LEMMA SavesMoveIds ==
  ASSUME CountersOK, DocInv, mishaps \in Nat, NEW e \in Editors,
         BeginActs(e) \/ ReadActs(e) \/ CallActs(e) \/ CommitActs(e)
  PROVE  MovesIds(e)
  <1>1. CASE BeginActs(e)
    <2>1. BeginsWith(e)
      BY <1>1, Beginning
    <2> QED
      BY <2>1 DEF BeginsWith, MovesIds
  <1>2. CASE ReadActs(e)
    <2>1. ReadsWith(e)
      BY <1>2, Reading
    <2> QED
      BY <2>1, NoSaveType DEF ReadsWith, MovesIds, Acting, Locks
  <1>3. CASE CallActs(e)
    <2>1. CallsWith(e) /\ doc' = doc
      BY <1>3, Calling, CallFrame
    <2>2. CASE save'[e] = NoSave
      BY <2>1, <2>2, NoSaveType DEF CallsWith, MovesIds, Acting, Locks
    <2>3. CASE save'[e] # NoSave
      <3>1. /\ save[e].step \in {"hook", "delete", "call"} /\ save'[e].id = save[e].id
            /\ save'[e].step \in {"called", "deleted"} => save[e].step \in {"hook", "delete"}
            /\ save'[e].step \in {"called", "deleted", "synced"}
        BY <2>1, <2>3 DEF CallsWith
      <3>2. save'[e].row.uri \in {save[e].row.uri, save[e].id, None}
        BY <2>1, <2>3 DEF CallsWith, NewUri
      <3> QED
        BY <2>1, <3>1, <3>2 DEF CallsWith, MovesIds, Acting, Locks
    <2> QED
      BY <2>2, <2>3
  <1>4. CASE CommitActs(e)
    <2>1. CommitsWith(e)
      BY <1>4, Committing
    <2> QED
      BY <2>1, NoSaveType DEF CommitsWith, MovesIds, Acting, Locks
  <1> QED
    BY <1>1, <1>2, <1>3, <1>4

LEMMA MovesKeepIds ==
  ASSUME CountersOK, DocInv, IdInv, NEW e \in Editors, MovesIds(e)
  PROVE  IdInv'
  <1>1. saves \in Nat /\ doc.uri \in Known /\ \A f \in Editors : save[f].row.uri \in Known
    BY Numbers DEF DocInv, SaveOK
  <1>2. \A f \in Editors : Acting(f) => save[f].id \in 1..saves
    BY DEF DocInv, SaveOK
  <1>3. None \notin 1..saves /\ saves + 1 \notin Known /\ saves + 1 \notin 1..saves
    BY <1>1, Numbers, NumbersAreNotNone DEF Known
  <1>4. \A f \in Editors \ {e} : save'[f] = save[f] /\ (Acting(f)' <=> Acting(f)) /\ (Locks(f)' <=> Locks(f))
    BY DEF MovesIds, Alone, Acting, Locks
  <1>5. ASSUME NEW f \in Editors, NEW g \in Editors, Locks(f)', Locks(g)'
        PROVE  f = g
    BY <1>4, <1>5 DEF IdInv, MovesIds
  <1>6. ASSUME NEW f \in Editors, Acting(f)'
        PROVE  /\ doc'.uri # save'[f].id
               /\ \A g \in Editors \ {f} : /\ save'[g].row.uri # save'[f].id
                                           /\ Acting(g)' => save'[g].id # save'[f].id
    <2>1. CASE f # e
      <3>1. /\ Acting(f) /\ save'[f] = save[f] /\ save[f].id \in 1..saves
            /\ doc.uri # save[f].id /\ save[e].row.uri # save[f].id
            /\ Acting(e) => save[e].id # save[f].id
        BY <1>2, <1>4, <1>6, <2>1 DEF IdInv
      <3>2. doc'.uri # save[f].id /\ save'[e].row.uri # save[f].id
        BY <1>3, <3>1 DEF MovesIds
      <3>3. Acting(e)' => save'[e].id # save[f].id
        BY <1>3, <3>1 DEF MovesIds
      <3> QED
        BY <1>4, <2>1, <3>1, <3>2, <3>3 DEF IdInv
    <2>2. CASE f = e /\ save'[e].id = saves + 1
      BY <1>1, <1>2, <1>3, <1>4, <2>2 DEF MovesIds, Known
    <2>3. CASE f = e /\ Acting(e) /\ save'[e].id = save[e].id /\ doc' = doc
      BY <1>4, <2>3 DEF IdInv
    <2> QED
      BY <1>6, <2>1, <2>2, <2>3 DEF MovesIds
  <1> QED
    BY <1>5, <1>6 DEF IdInv

LEMMA IdInvStep == CountersOK /\ DocInv /\ mishaps \in Nat /\ IdInv /\ [Next]_vars => IdInv'
  <1> SUFFICES ASSUME CountersOK, DocInv, mishaps \in Nat, IdInv, [Next]_vars
               PROVE  IdInv'
    OBVIOUS
  <1>1. CASE Saving
    BY <1>1, SavingKinds, SavesMoveIds, MovesKeepIds
  <1>2. CASE CrashCMS
    <2>1. /\ doc' = doc
          /\ save' = [f \in Editors |-> IF save[f].step = "open" THEN save[f] ELSE NoSave]
      BY <1>2, CrashFrame DEF CrashCMS
    <2>2. \A f \in Editors : ~Acting(f)' /\ ~Locks(f)'
      BY <2>1, NoSaveType DEF Acting, Locks
    <2> QED
      BY <2>2 DEF IdInv
  <1>3. CASE UNCHANGED <<doc, save>>
    BY <1>3 DEF IdInv, Acting, Locks
  <1>4. CASE (\E p \in Editors : TreeActs(p)) \/ BallotActs \/ ProjectActs \/ WorkActs \/ PostActs
             \/ UNCHANGED vars
    BY <1>3, <1>4, BallotFrame, TreeFrame, ProjectFrame, WorkFrame, PostFrame DEF cms, vars
  <1> QED
    BY <1>1, <1>2, <1>4, StepKinds

LEMMA IdInvInit == Init => IdInv
  BY NoSaveType DEF Init, IdInv, Acting, Locks, NoSave, NoRow

-----------------------------------------------------------------------------
(***************************************************************************)
(* The ballot's account.  Nothing is written without the password.         *)
(***************************************************************************)
Written == (\E u \in Uris : record[u].by # "nobody") \/ Len(snapshots) > 0

BallotInv ==
  /\ ballot \in [published : BOOLEAN, account : BOOLEAN, password : BOOLEAN,
                 step : {"idle", "created", "stored"}]
  /\ ballot.step \in {"created", "stored"} => ballot.account
  /\ ballot.step = "stored" \/ ballot.published => ballot.password
  /\ Written => ballot.password
  /\ ballot.password => ballot.account
  /\ ballot.account /\ ~ballot.password => ballot.step = "created" \/ faults > 0

LEMMA BallotInvInit == Init => BallotInv
  BY DEF Init, BallotInv, Written, NoRecord

LEMMA CallsNeedPassword ==
  ASSUME CountersOK, DocInv, NEW e \in Editors, CallActs(e)
  PROVE  ballot.password \/ \A u \in Uris : record'[u].by = record[u].by
  <1> DEFINE row == save[e].row
             id == save[e].id
  <1>1. doc.text \in Texts /\ SaveOK(e)
    BY DEF DocInv, Rows
  <1>2. ASSUME NEW text \in Texts, FailedCall(row, id, text)
        PROVE  ballot.password \/ record' = record
    BY <1>2 DEF FailedCall
  <1>3. ASSUME Synced(row, id, doc.text), Acting(e), row.status # "published"
        PROVE  \A u \in Uris : record'[u].by = record[u].by
    <2>1. Puts(e)
      BY <1>1, <1>3, Putting
    <2> QED
      BY <1>3, <2>1 DEF Puts
  <1>4. CASE CallHook(e)
    BY <1>3, <1>4 DEF CallHook, Calls, Acting
  <1>5. CASE DeleteRecord(e)
    BY <1>1, <1>2, <1>3, <1>5 DEF DeleteRecord, Acting, SaveOK
  <1>6. CASE FailHook(e)
    BY <1>1, <1>2, <1>6 DEF FailHook
  <1>7. CASE FailSync(e)
    BY <1>7 DEF FailSync, FailedCall
  <1>8. CASE Sync(e)
    BY <1>8 DEF Sync
  <1> QED
    BY <1>4, <1>5, <1>6, <1>7, <1>8 DEF CallActs

LEMMA BallotInvStep ==
  CountersOK /\ DocInv /\ mishaps \in Nat /\ shown \in Trees \cup {None} /\ BallotInv /\ [Next]_vars
    => BallotInv'
  <1> SUFFICES ASSUME CountersOK, DocInv, mishaps \in Nat, shown \in Trees \cup {None}, BallotInv,
                      [Next]_vars
               PROVE  BallotInv'
    OBVIOUS
  <1>0. faults \in Nat /\ faults' \in {faults, faults + 1}
    BY CountersStep DEF CountersOK, Counters
  <1>1. ASSUME ballot' = ballot, Written' => Written \/ ballot.password
        PROVE  BallotInv'
    BY <1>0, <1>1 DEF BallotInv
  <1>2. CASE BallotActs
    <2>1. UNCHANGED <<record, snapshots>>
      BY <1>2, BallotFrame DEF tree
    <2>2. Written' <=> Written
      BY <2>1 DEF Written
    <2>3. CASE CreateAccount
      BY <2>2, <2>3 DEF CreateAccount, BallotInv
    <2>4. CASE StoreAccount
      BY <2>2, <2>4 DEF StoreAccount, BallotInv
    <2>5. CASE PublishBallot
      BY <2>2, <2>5 DEF PublishBallot, BallotInv
    <2>6. CASE FailBallot
      BY <1>0, <2>2, <2>6, CountsOne DEF FailBallot, BallotInv
    <2> QED
      BY <1>2, <2>3, <2>4, <2>5, <2>6 DEF BallotActs
  <1>3. CASE \E p \in Editors : TreeActs(p)
    <2>1. ballot' = ballot /\ record' = record
      BY <1>3, TreeFrame DEF cms
    <2>2. snapshots' = snapshots \/ ballot.password
      BY <1>3 DEF TreeActs, Persist, WriteSnapshot, RecordVersion, FailPersist
    <2> QED
      BY <1>1, <2>1, <2>2 DEF Written
  <1>4. CASE CrashCMS
    <2>1. /\ UNCHANGED <<record, snapshots>> /\ faults' = faults + 1
          /\ ballot' = [ballot EXCEPT !.step = "idle"]
      BY <1>4, CrashFrame DEF CrashCMS
    <2> QED
      BY <1>0, <2>1 DEF BallotInv, Written
  <1>5. CASE Saving
    <2>1. ballot' = ballot /\ snapshots' = snapshots
      BY <1>5, SaveFrame DEF tree
    <2>2. PICK e \in Editors : BeginActs(e) \/ ReadActs(e) \/ CallActs(e) \/ CommitActs(e)
      BY <1>5, SavingKinds
    <2>3. record' = record \/ CallActs(e)
      BY <2>2, BeginFrame, RowFrame
    <2> QED
      BY <1>1, <2>1, <2>3, CallsNeedPassword DEF Written
  <1>6. CASE ProjectActs \/ PostActs \/ UNCHANGED vars
    BY <1>1, <1>6, ProjectFrame, PostFrame DEF cms, tree, vars, Written
  <1>7. CASE WorkActs
    <2>1. ballot' = ballot /\ snapshots' = snapshots /\ Kept
      BY <1>7, WorkFrame, WorkKeepsDoc DEF cms, tree
    <2>2. Written' => Written
      <3>1. ASSUME NEW u \in Uris, record'[u].by # "nobody"
            PROVE  record[u].by # "nobody"
        <4>1. CASE record' = record
          BY <3>1, <4>1
        <4>2. CASE worker.on = "argument" /\ record' = Translated
          <5>1. record[worker.uri].by # "nobody" /\ \A v \in Uris \ {worker.uri} : record'[v] = record[v]
            BY <4>2, Translating DEF DocInv, WorkerOK
          <5> QED
            BY <3>1, <5>1
        <4> QED
          BY <1>7, <4>1, <4>2, WorkKeepsDoc
      <3> QED
        BY <2>1, <3>1 DEF Written
    <2> QED
      BY <1>1, <2>1, <2>2
  <1> QED
    BY <1>2, <1>3, <1>4, <1>5, <1>6, <1>7, StepKinds

-----------------------------------------------------------------------------
(***************************************************************************)
(* The strays.  A record that is there and written by the CMS is named by  *)
(* a save that is about to commit its name, or by the published row as     *)
(* long as no save called the PDS to change it; or it is astray.           *)
(***************************************************************************)
ByCMS(u) == record[u].there /\ record[u].by = "cms"
Names(e, u) ==
  save[e].step \in {"called", "synced"} /\ save[e].row.status = "published" /\ save[e].row.uri = u
Standing == \A e \in Editors : save[e].step \notin {"called", "deleted"}
RowNames(u) == Standing /\ doc.status = "published" /\ doc.uri = u

Astray == {u \in Uris : ByCMS(u) /\ (\A e \in Editors : ~Names(e, u)) /\ ~RowNames(u)}

StrayInv == mishaps \in Nat /\ Cardinality(Astray) <= mishaps

LEMMA UrisAreFinite == IsFiniteSet(Uris)
  BY Bounds, FS_Interval DEF Uris

LEMMA StrayInvInit == Init => StrayInv
  <1> SUFFICES ASSUME Init PROVE StrayInv
    OBVIOUS
  <1>1. Astray = {}
    BY DEF Init, Astray, ByCMS, NoRecord
  <1> QED
    BY <1>1, FS_EmptySet DEF Init, StrayInv

\* A step that leaves n records more astray at most, and counts them.
MoreStrays(n) ==
  /\ mishaps' = mishaps + n
  /\ \E W : /\ IsFiniteSet(W) /\ Cardinality(W) <= n
            /\ \A u \in Uris : u \in Astray' => u \in Astray \/ u \in W

LEMMA StraysAreCounted ==
  ASSUME StrayInv, NEW n \in Nat, MoreStrays(n)
  PROVE  StrayInv'
  <1>1. PICK W : /\ IsFiniteSet(W) /\ Cardinality(W) <= n
                 /\ \A u \in Uris : u \in Astray' => u \in Astray \/ u \in W
    BY DEF MoreStrays
  <1>2. IsFiniteSet(Astray) /\ Cardinality(Astray) \in Nat /\ Cardinality(W) \in Nat
    BY <1>1, UrisAreFinite, FS_Subset, FS_CardinalityType DEF Astray
  <1>3. Astray' \subseteq Astray \cup W
    BY <1>1 DEF Astray
  <1>4. /\ IsFiniteSet(Astray \cup W)
        /\ Cardinality(Astray \cup W) <= Cardinality(Astray) + Cardinality(W)
    <2>1. /\ IsFiniteSet(Astray \cup W)
          /\ Cardinality(Astray \cup W) = Cardinality(Astray) + Cardinality(W) - Cardinality(Astray \cap W)
      BY <1>1, <1>2, FS_Union
    <2>2. Cardinality(Astray \cap W) \in Nat
      BY <1>2, FS_Intersection, FS_CardinalityType
    <2> QED
      BY <1>2, <2>1, <2>2
  <1>5. Cardinality(Astray') <= Cardinality(Astray \cup W) /\ Cardinality(Astray') \in Nat
        /\ Cardinality(Astray \cup W) \in Nat
    BY <1>3, <1>4, FS_Subset, FS_CardinalityType
  <1> QED
    BY <1>1, <1>2, <1>4, <1>5 DEF StrayInv, MoreStrays

LEMMA NoMoreStrays ==
  ASSUME mishaps' = mishaps, mishaps \in Nat, \A u \in Uris : u \in Astray' => u \in Astray
  PROVE  MoreStrays(0)
  BY FS_EmptySet DEF MoreStrays

LEMMA OneMoreStray ==
  ASSUME NEW x, mishaps' = mishaps + 1, \A u \in Uris : u \in Astray' => u \in Astray \/ u = x
  PROVE  MoreStrays(1)
  <1>1. IsFiniteSet({x}) /\ Cardinality({x}) = 1
    BY FS_Singleton
  <1> QED
    BY <1>1 DEF MoreStrays

LEMMA TwoMoreStrays ==
  ASSUME NEW x, NEW y, mishaps' = mishaps + 2,
         \A u \in Uris : u \in Astray' => u \in Astray \/ u = x \/ u = y
  PROVE  MoreStrays(2)
  <1>1. IsFiniteSet({x}) /\ Cardinality({x}) = 1
    BY FS_Singleton
  <1>2. IsFiniteSet({x} \cup {y}) /\ Cardinality({x} \cup {y}) <= 2
    <2>1. /\ IsFiniteSet({x} \cup {y})
          /\ Cardinality({x} \cup {y}) = IF y \in {x} THEN Cardinality({x}) ELSE Cardinality({x}) + 1
      BY <1>1, FS_AddElement
    <2> QED
      BY <1>1, <2>1
  <1> QED
    BY <1>2 DEF MoreStrays

\* Without a failure, a fault or an overtaken save the records the rows name are there.
ThereInv ==
  mishaps = 0 =>
    /\ Standing /\ doc.uri # None => doc.status = "published" /\ record[doc.uri].there
    /\ \A e \in Editors :
         /\ save[e].step = "called" /\ save[e].row.uri # None =>
              save[e].row.status = "published" /\ record[save[e].row.uri].there
         /\ save[e].step = "synced" => record[save[e].id].there

LEMMA ThereInvInit == Init => ThereInv
  BY DEF Init, ThereInv, NoSave, NoRow

LEMMA BeginStrays ==
  ASSUME CountersOK, DocInv, StrayInv, ThereInv, NEW e \in Editors, BeginActs(e)
  PROVE  StrayInv' /\ ThereInv'
  <1>1. BeginsWith(e) /\ record' = record
    BY Beginning, BeginFrame
  <1>2. /\ Standing /\ \A u : ~Names(e, u)
        /\ \A f \in Editors \ {e} : save'[f] = save[f] /\ \A u : Names(f, u)' <=> Names(f, u)
    BY <1>1 DEF BeginsWith, Standing, Locks, Names, Alone
  <1>3. mishaps \in Nat
    BY DEF StrayInv
  <1>4. None \notin Uris
    BY Numbers
  <1>5. CASE save'[e].step = "called"
    <2>1. doc.status = "none" /\ save'[e].row.uri = None /\ doc' = doc /\ mishaps' = mishaps
      BY <1>1, <1>5 DEF BeginsWith
    <2>2. \A u \in Uris : u \in Astray' => u \in Astray
      BY <1>1, <1>2, <1>4, <2>1 DEF Astray, ByCMS, RowNames
    <2>3. ThereInv'
      BY <1>1, <1>2, <1>5, <2>1 DEF ThereInv, Standing
    <2> QED
      BY <1>3, <2>1, <2>2, <2>3, NoMoreStrays, StraysAreCounted
  <1>6. CASE save'[e].step \in {"hook", "delete"}
    <2>1. doc' = doc /\ mishaps' = mishaps /\ Standing'
      BY <1>1, <1>2, <1>6 DEF BeginsWith, Standing
    <2>2. \A u \in Uris : u \in Astray' => u \in Astray
      BY <1>1, <1>2, <1>6, <2>1 DEF Astray, ByCMS, RowNames
    <2>3. ThereInv'
      BY <1>1, <1>2, <1>6, <2>1 DEF ThereInv, Standing
    <2> QED
      BY <1>3, <2>1, <2>2, <2>3, NoMoreStrays, StraysAreCounted
  <1>7. CASE save'[e].step = "sync"
    <2> DEFINE late == save[e].row.uri # doc.uri \/ save[e].row.status # doc.status
    <2>1. /\ doc'.uri = save[e].row.uri /\ mishaps' = mishaps + If(late) /\ Standing'
          /\ save[e].row.status = "published" => doc'.status = "published"
      BY <1>1, <1>2, <1>7 DEF BeginsWith, Standing
    <2>2. CASE late
      <3>1. mishaps' = mishaps + 1
        BY <2>1, <2>2 DEF If
      <3> HIDE DEF late
      <3>2. \A u \in Uris : u \in Astray' => u \in Astray \/ u = doc.uri
        BY <1>1, <1>2 DEF Astray, ByCMS, RowNames
      <3> QED
        BY <1>3, <3>1, <3>2, OneMoreStray, StraysAreCounted DEF ThereInv
    <2>3. CASE ~late
      <3>1. mishaps' = mishaps /\ doc'.uri = doc.uri
        BY <1>3, <2>1, <2>3 DEF If
      <3>2. doc.status = "published" => doc'.status = "published"
        BY <2>1, <2>3
      <3> HIDE DEF late
      <3>3. \A u \in Uris : u \in Astray' => u \in Astray
        BY <1>1, <1>2, <2>1, <3>1, <3>2 DEF Astray, ByCMS, RowNames
      <3>4. ThereInv'
        BY <1>1, <1>2, <1>7, <2>1, <3>1, <3>2 DEF ThereInv
      <3> QED
        BY <1>3, <3>1, <3>3, <3>4, NoMoreStrays, StraysAreCounted
    <2> QED
      BY <2>2, <2>3
  <1> QED
    BY <1>1, <1>5, <1>6, <1>7 DEF BeginsWith

LEMMA ReadStrays ==
  ASSUME CountersOK, DocInv, StrayInv, ThereInv, NEW e \in Editors, ReadActs(e)
  PROVE  StrayInv' /\ ThereInv'
  <1>1. ReadsWith(e) /\ record' = record /\ doc' = doc /\ mishaps' = mishaps
    BY Reading, RowFrame DEF ReadsWith
  <1>2. /\ save[e].step \notin {"called", "deleted", "synced"}
        /\ save'[e].step \notin {"called", "deleted", "synced"}
    BY <1>1, NoSaveType DEF ReadsWith
  <1>3. /\ \A u : ~Names(e, u) /\ ~Names(e, u)'
        /\ \A f \in Editors \ {e} : save'[f] = save[f] /\ \A u : Names(f, u)' <=> Names(f, u)
        /\ Standing' <=> Standing
    BY <1>1, <1>2 DEF ReadsWith, Standing, Names, Alone
  <1>4. \A u \in Uris : u \in Astray' => u \in Astray
    BY <1>1, <1>3 DEF Astray, ByCMS, RowNames
  <1>5. ThereInv'
    BY <1>1, <1>2, <1>3 DEF ThereInv
  <1> QED
    BY <1>1, <1>4, <1>5, NoMoreStrays, StraysAreCounted DEF StrayInv

\* The records a call to the PDS may leave astray, and those a save had its name for.
LEMMA CallStrays ==
  ASSUME CountersOK, DocInv, IdInv, StrayInv, ThereInv, NEW e \in Editors, CallActs(e)
  PROVE  StrayInv' /\ ThereInv'
  <1> DEFINE row == save[e].row
             id == save[e].id
             t == Target(e)
  <1>0. mishaps \in Nat /\ None \notin Uris /\ doc.uri \in Uris \cup {None}
        /\ save[e].row.uri \in Uris \cup {None} /\ SaveOK(e)
    BY Numbers DEF StrayInv, DocInv, SaveOK
  <1>1. CallsWith(e) /\ doc' = doc
    BY <1>0, Calling, CallFrame
  <1>2. /\ save[e].step \in {"hook", "delete", "call"} /\ Acting(e)
        /\ \A u : ~Names(e, u)
        /\ \A f \in Editors \ {e} : save'[f] = save[f] /\ \A u : Names(f, u)' <=> Names(f, u)
        /\ id \in 1..saves
    BY <1>0, <1>1 DEF CallsWith, Names, Alone, Acting, SaveOK
  \* What is astray now was written now, or was the record the row named.
  <1>3. ASSUME NEW u \in Uris, u \in Astray', u \notin Astray
        PROVE  /\ ~Names(e, u)' /\ ~RowNames(u)' /\ ByCMS(u)'
               /\ \/ Puts(e) /\ u = t /\ row.status = "published"
                  \/ RowNames(u) /\ ~Standing'
    <2>1. ~Names(e, u)' /\ ~RowNames(u)' /\ ByCMS(u)' /\ (~ByCMS(u) \/ RowNames(u))
      BY <1>2, <1>3 DEF Astray
    <2>2. CASE RowNames(u)
      BY <1>1, <2>1, <2>2 DEF RowNames
    <2>3. CASE ~ByCMS(u)
      <3>1. Puts(e)
        BY <1>1, <2>1, <2>3 DEF CallsWith, ByCMS
      <3>2. u = t
        BY <2>1, <2>3, <3>1 DEF Puts, ByCMS
      <3> QED
        BY <2>1, <3>1, <3>2 DEF Puts, ByCMS
    <2> QED
      BY <2>1, <2>2, <2>3
  \* The others' records, and the row's, stay there unless a call takes the row's away.
  <1>4. ASSUME mishaps = 0, NEW f \in Editors \ {e}, save[f].step = "synced",
               row.status = "published" \/ row.uri = doc.uri \/ record' = record
        PROVE  record'[save[f].id].there
    <2>1. save[f].id \in Uris /\ record[save[f].id].there /\ Acting(f)
      BY <1>4, Numbers DEF ThereInv, DocInv, SaveOK, Acting
    <2>2. CASE record' = record
      BY <2>1, <2>2
    <2>3. CASE Puts(e) /\ row.status = "published"
      BY <2>1, <2>3 DEF Puts
    <2>4. CASE Puts(e) /\ row.uri = doc.uri
      <3>1. t # save[f].id
        BY <1>2, <2>1, <2>4 DEF IdInv, Target
      <3> QED
        BY <2>1, <2>4, <3>1 DEF Puts
    <2> QED
      BY <1>1, <1>4, <2>2, <2>3, <2>4 DEF CallsWith
  <1>5. CASE save[e].step \in {"hook", "delete"}
    <2> DEFINE late == row.uri # doc.uri
    <2>1. /\ Locks(e) /\ ~Standing' /\ save'[e].step \in {"called", "deleted"}
          /\ \A f \in Editors \ {e} : save[f].step \notin {"called", "deleted"}
      BY <1>1, <1>2, <1>5 DEF CallsWith, IdInv, Locks, Standing, NoSave
    <2>2. CASE /\ Puts(e) /\ mishaps' = mishaps + If(late)
               /\ save'[e].row.status = row.status
               /\ \/ save'[e].step = "called" /\ save'[e].row.uri = NewUri(row, id)
                  \/ row.status # "published" /\ save'[e].step = "deleted"
      <3>1. ASSUME row.status = "published"
            PROVE  /\ save'[e].step = "called" /\ save'[e].row.uri = t
                   /\ \A u \in Uris : u = t => Names(e, u)'
        BY <2>2, <3>1 DEF NewUri, Target, Names
      <3>2. \A u \in Uris : u \in Astray' /\ u \notin Astray => RowNames(u) /\ u = doc.uri
        BY <1>3, <3>1 DEF RowNames
      <3>3. CASE late
        <4>1. mishaps' = mishaps + 1
          BY <2>2, <3>3 DEF If
        <4> QED
          BY <1>0, <3>2, <4>1, OneMoreStray, StraysAreCounted DEF ThereInv
      <3>4. CASE ~late
        <4>1. mishaps' = mishaps
          BY <1>0, <2>2, <3>4 DEF If
        <4>2. ASSUME NEW u \in Uris, u \in Astray', u \notin Astray
              PROVE  FALSE
          <5>1. u = doc.uri /\ u = t
            BY <1>0, <3>2, <3>4, <4>2 DEF Target
          <5>2. row.status = "published"
            BY <1>3, <2>2, <4>2, <5>1 DEF Puts, ByCMS
          <5> QED
            BY <1>3, <3>1, <4>2, <5>1, <5>2
        <4>3. ThereInv'
          <5>1. ASSUME mishaps = 0, save'[e].step = "called", save'[e].row.uri # None
                PROVE  save'[e].row.status = "published" /\ record'[save'[e].row.uri].there
            <6>1. row.status = "published"
              BY <2>2, <5>1 DEF NewUri
            <6> QED
              BY <2>2, <3>1, <5>1, <6>1 DEF Puts
          <5>2. ASSUME mishaps = 0, NEW f \in Editors \ {e}, save'[f].step = "synced"
                PROVE  record'[save'[f].id].there
            BY <1>2, <1>4, <3>4, <5>2
          <5> QED
            BY <1>2, <2>1, <4>1, <5>1, <5>2 DEF ThereInv
        <4> QED
          BY <1>0, <4>1, <4>2, <4>3, NoMoreStrays, StraysAreCounted
      <3> QED
        BY <3>3, <3>4
    <2>3. CASE mishaps' = mishaps + (1 + If(late))
      <3>1. \A u \in Uris : u \in Astray' /\ u \notin Astray => u = t \/ RowNames(u)
        BY <1>3
      <3>2. ThereInv'
        BY <1>0, <2>3 DEF ThereInv, If
      <3>3. CASE late
        <4>1. mishaps' = mishaps + 2
          BY <1>0, <2>3, <3>3 DEF If
        <4>2. \A u \in Uris : u \in Astray' => u \in Astray \/ u = t \/ u = doc.uri
          BY <3>1 DEF RowNames
        <4> HIDE DEF t
        <4> QED
          BY <3>2, <4>1, <4>2, TwoMoreStrays, StraysAreCounted
      <3>4. CASE ~late
        <4>1. mishaps' = mishaps + 1
          BY <1>0, <2>3, <3>4 DEF If
        <4>2. \A u \in Uris : RowNames(u) => u = t
          BY <1>0, <3>4 DEF RowNames, Target
        <4> HIDE DEF t
        <4> QED
          BY <3>1, <3>2, <4>1, <4>2, OneMoreStray, StraysAreCounted
      <3> QED
        BY <3>3, <3>4
    <2>4. save[e].step = "delete" => row.status = "deleted"
      BY <1>0 DEF SaveOK
    <2> QED
      BY <1>1, <1>5, <2>2, <2>3, <2>4 DEF CallsWith
  <1>6. CASE save[e].step = "call"
    <2>1. row.status = "published" /\ (Standing' <=> Standing)
      BY <1>0, <1>1, <1>2, <1>6, NoSaveType DEF CallsWith, SaveOK, Standing
    <2>2. \A u \in Uris : u \in Astray' /\ u \notin Astray => Puts(e) /\ u = t
      BY <1>3, <2>1 DEF RowNames
    \* A call that only puts leaves what is there.
    <2>3. ASSUME mishaps' = mishaps,
                 save'[e].step # "called", save'[e].step = "synced" => record'[save'[e].id].there
          PROVE  ThereInv'
      <3>1. \A u \in Uris : record[u].there => record'[u].there
        BY <1>1, <2>1 DEF CallsWith, Puts
      <3>2. \A f \in Editors : save[f].row.uri \in Uris \cup {None}
        BY Numbers DEF DocInv, SaveOK
      <3> QED
        BY <1>0, <1>1, <1>2, <1>4, <2>1, <2>3, <3>1, <3>2 DEF ThereInv
    <2>4. CASE /\ row.uri = None /\ Puts(e) /\ mishaps' = mishaps
               /\ save'[e].step = "synced" /\ save'[e].id = id
               /\ save'[e].row.uri = id /\ save'[e].row.status = "published"
      <3>1. t = id /\ (\A u \in Uris : u = id => Names(e, u)') /\ record'[id].there
        BY <2>1, <2>4 DEF Target, Names, Puts
      <3>2. \A u \in Uris : u \in Astray' => u \in Astray
        BY <1>3, <2>2, <3>1
      <3> QED
        BY <1>0, <2>3, <2>4, <3>1, <3>2, NoMoreStrays, StraysAreCounted
    <2>5. CASE /\ save'[e] = NoSave /\ row.uri # None
               /\ mishaps' = mishaps + If(\/ \E f \in Editors : Locks(f)
                                          \/ doc.status # "published" \/ doc.uri # row.uri)
      <3> DEFINE c == \/ \E f \in Editors : Locks(f)
                      \/ doc.status # "published" \/ doc.uri # row.uri
      <3>1. CASE c
        <4>1. mishaps' = mishaps + 1
          BY <2>5, <3>1 DEF If
        <4>2. \A u \in Uris : u \in Astray' => u \in Astray \/ u = t
          BY <2>2
        <4> HIDE DEF t
        <4> QED
          BY <1>0, <4>1, <4>2, OneMoreStray, StraysAreCounted DEF ThereInv
      <3>2. CASE ~c
        <4>1. mishaps' = mishaps /\ doc.status = "published" /\ doc.uri = t
          BY <1>0, <2>5, <3>2 DEF If, Target
        <4>2. Standing'
          BY <2>1, <3>2 DEF Standing, Locks
        <4>3. \A u \in Uris : u \in Astray' => u \in Astray
          BY <1>1, <1>3, <2>2, <4>1, <4>2 DEF RowNames
        <4> QED
          BY <1>0, <2>3, <2>5, <4>1, <4>3, NoSaveType, NoMoreStrays, StraysAreCounted
      <3> QED
        BY <3>1, <3>2
    <2>6. CASE mishaps' = mishaps + 1
      <3>1. \A u \in Uris : u \in Astray' => u \in Astray \/ u = t
        BY <2>2
      <3> HIDE DEF t
      <3> QED
        BY <1>0, <2>6, <3>1, OneMoreStray, StraysAreCounted DEF ThereInv
    <2> QED
      BY <1>1, <1>6, <2>4, <2>5, <2>6 DEF CallsWith
  <1> QED
    BY <1>2, <1>5, <1>6

LEMMA CommitStrays ==
  ASSUME CountersOK, DocInv, IdInv, StrayInv, ThereInv, NEW e \in Editors, CommitActs(e)
  PROVE  StrayInv' /\ ThereInv'
  <1>0. mishaps \in Nat /\ None \notin Uris
    BY Numbers DEF StrayInv
  <1>1. CommitsWith(e) /\ record' = record /\ SaveOK(e)
    BY Committing, RowFrame DEF DocInv
  <1>2. /\ \A u : ~Names(e, u)'
        /\ \A f \in Editors \ {e} : save'[f] = save[f] /\ \A u : Names(f, u)' <=> Names(f, u)
    BY <1>1, NoSaveType DEF CommitsWith, Names, Alone
  <1>3. ASSUME NEW u \in Uris, u \in Astray', u \notin Astray
        PROVE  ~RowNames(u)' /\ (Names(e, u) \/ RowNames(u))
    BY <1>1, <1>2, <1>3 DEF Astray, ByCMS
  <1>4. \A f \in Editors : save'[f].step \in {"called", "synced"} => f # e /\ save'[f] = save[f]
    BY <1>1, <1>2, NoSaveType DEF CommitsWith
  <1>5. CASE save[e].step \in {"called", "deleted"}
    <2>1. mishaps' = mishaps /\ Standing' /\ ~Standing
      <3>1. \A f \in Editors \ {e} : save[f].step \notin {"called", "deleted"}
        BY <1>5 DEF IdInv, Locks
      <3> QED
        BY <1>1, <1>2, <1>5, <3>1, NoSaveType DEF CommitsWith, Standing
    <2>2. ASSUME NEW u \in Uris, Names(e, u)
          PROVE  RowNames(u)'
      BY <1>1, <1>5, <2>1, <2>2 DEF CommitsWith, Names, RowNames
    <2>3. \A u \in Uris : u \in Astray' => u \in Astray
      BY <1>3, <2>1, <2>2 DEF RowNames
    <2>4. ThereInv'
      <3>1. mishaps = 0 /\ doc'.uri # None => doc'.status = "published" /\ record'[doc'.uri].there
        BY <1>1, <1>5 DEF CommitsWith, ThereInv
      <3> QED
        BY <1>1, <1>4, <2>1, <3>1 DEF ThereInv
    <2> QED
      BY <1>0, <2>1, <2>3, <2>4, NoMoreStrays, StraysAreCounted
  <1>6. CASE save[e].step = "synced"
    <2> DEFINE c == doc.status # "published" \/ doc.uri # None
    <2>1. /\ mishaps' = mishaps + If(c) /\ Standing /\ Standing' /\ doc'.status = doc.status
          /\ doc.status = "published" => doc'.uri = save[e].row.uri
          /\ save[e].row.status = "published" /\ save[e].row.uri = save[e].id
      BY <1>1, <1>2, <1>6, NoSaveType DEF CommitsWith, Standing, Locks, SaveOK
    <2>2. \A u \in Uris : Names(e, u) => u = save[e].row.uri
      BY DEF Names
    <2>3. CASE c
      <3>1. mishaps' = mishaps + 1
        BY <2>1, <2>3 DEF If
      <3>2. CASE doc.status = "published"
        <4>1. \A u \in Uris : u \in Astray' => u \in Astray \/ u = doc.uri
          BY <1>3, <2>1, <2>2, <3>2 DEF RowNames
        <4> QED
          BY <1>0, <3>1, <4>1, OneMoreStray, StraysAreCounted DEF ThereInv
      <3>3. CASE doc.status # "published"
        <4>1. \A u \in Uris : u \in Astray' => u \in Astray \/ u = save[e].row.uri
          BY <1>3, <2>2, <3>3 DEF RowNames
        <4> QED
          BY <1>0, <3>1, <4>1, OneMoreStray, StraysAreCounted DEF ThereInv
      <3> QED
        BY <3>2, <3>3
    <2>4. CASE ~c
      <3>1. mishaps' = mishaps /\ doc'.uri = save[e].row.uri /\ doc'.status = "published"
            /\ doc.uri = None
        BY <1>0, <2>1, <2>4 DEF If
      <3>2. \A u \in Uris : u \in Astray' => u \in Astray
        BY <1>0, <1>3, <2>1, <2>2, <3>1 DEF RowNames
      <3>3. ThereInv'
        BY <1>1, <1>4, <1>6, <2>1, <3>1 DEF ThereInv
      <3> QED
        BY <1>0, <3>1, <3>2, <3>3, NoMoreStrays, StraysAreCounted
    <2> QED
      BY <2>3, <2>4
  <1> QED
    BY <1>1, <1>5, <1>6 DEF CommitsWith

\* A crash cuts the saves short that had a record named, and counts them.
LEMMA CrashStrays ==
  ASSUME CountersOK, DocInv, StrayInv, ThereInv, CrashCMS
  PROVE  StrayInv' /\ ThereInv'
  <1> DEFINE C == {e \in Editors : save[e].step \in {"called", "deleted", "synced"}}
             uriOf == [e \in C |-> save[e].row.uri]
             W == {uriOf[e] : e \in C}
  <1>1. /\ UNCHANGED <<doc, record>> /\ mishaps' = mishaps + Cardinality(C)
        /\ save' = [e \in Editors |-> IF save[e].step = "open" THEN save[e] ELSE NoSave]
    BY CrashFrame DEF CrashCMS, Spoils
  <1>2. IsFiniteSet(C) /\ Cardinality(C) \in Nat
    BY EditorialAssumption, FS_Subset, FS_CardinalityType
  <1>3. IsFiniteSet(W) /\ Cardinality(W) <= Cardinality(C)
    <2>1. uriOf \in Surjection(C, W)
      BY DEF Surjection
    <2> HIDE DEF uriOf, W, C
    <2> QED
      BY <1>2, <2>1, FS_Surjection
  <1>4. /\ \A e \in Editors : save'[e].step \notin {"called", "deleted", "synced"}
        /\ Standing' /\ \A u : \A e \in Editors : ~Names(e, u)'
    BY <1>1, NoSaveType DEF Standing, Names
  <1>5. ASSUME NEW u \in Uris, u \in Astray', u \notin Astray
        PROVE  u \in W
    <2>1. PICK e \in Editors : Names(e, u)
      BY <1>1, <1>4, <1>5 DEF Astray, ByCMS, RowNames
    <2>2. e \in C /\ u = uriOf[e]
      BY <2>1 DEF Names
    <2> QED
      BY <2>2
  <1>6. ThereInv'
    <2>1. ASSUME mishaps' = 0
          PROVE  mishaps = 0 /\ Standing
      <3>1. mishaps = 0 /\ Cardinality(C) = 0
        BY <1>1, <1>2, <2>1 DEF StrayInv
      <3>2. C = {}
        BY <1>2, <3>1, FS_EmptySet
      <3> QED
        BY <3>1, <3>2 DEF Standing
    <2> QED
      BY <1>1, <1>4, <2>1 DEF ThereInv
  <1>7. MoreStrays(Cardinality(C))
    <2> HIDE DEF C, W
    <2> QED
      BY <1>1, <1>3, <1>5 DEF MoreStrays
  <1> QED
    BY <1>2, <1>6, <1>7, StraysAreCounted

LEMMA StrayInvStep ==
  CountersOK /\ DocInv /\ IdInv /\ StrayInv /\ ThereInv /\ shown \in Trees \cup {None} /\ [Next]_vars
    => StrayInv' /\ ThereInv'
  <1> SUFFICES ASSUME CountersOK, DocInv, IdInv, StrayInv, ThereInv, shown \in Trees \cup {None},
                      [Next]_vars
               PROVE  StrayInv' /\ ThereInv'
    OBVIOUS
  <1>1. CASE Saving
    BY <1>1, SavingKinds, BeginStrays, ReadStrays, CallStrays, CommitStrays
  <1>2. CASE UNCHANGED <<doc, save, mishaps, record>>
    BY <1>2 DEF StrayInv, ThereInv, Astray, ByCMS, Names, RowNames, Standing
  <1>3. CASE (\E p \in Editors : TreeActs(p)) \/ BallotActs \/ ProjectActs \/ PostActs \/ UNCHANGED vars
    BY <1>2, <1>3, BallotFrame, TreeFrame, ProjectFrame, PostFrame DEF cms, vars
  <1>4. CASE WorkActs
    <2>1. UNCHANGED <<doc, save, mishaps>> /\ mishaps \in Nat
      BY <1>4, WorkFrame DEF cms, StrayInv
    <2>2. CASE worker.on = "argument" /\ record' = Translated
      <3>1. /\ worker.uri \in Uris /\ record'[worker.uri].by = "worker" /\ record'[worker.uri].there
            /\ \A u \in Uris \ {worker.uri} : record'[u] = record[u]
        BY <2>2, Translating
      <3>2. \A u \in Uris : /\ ByCMS(u)' => ByCMS(u)
                            /\ record[u].there => record'[u].there
        BY <3>1 DEF ByCMS
      <3>3. \A u \in Uris : u \in Astray' => u \in Astray
        BY <2>1, <3>2 DEF Astray, Names, RowNames, Standing
      <3>4. doc.uri \in Uris \cup {None} /\ \A e \in Editors : save[e].row.uri \in Uris \cup {None}
        BY Numbers DEF DocInv, SaveOK
      <3>5. \A e \in Editors : save[e].step = "synced" => save[e].id \in Uris
        BY Numbers DEF DocInv, SaveOK, Acting
      <3>6. ThereInv'
        BY <2>1, <3>2, <3>4, <3>5 DEF ThereInv, Standing
      <3> QED
        BY <2>1, <3>3, <3>6, NoMoreStrays, StraysAreCounted
    <2> QED
      BY <1>2, <1>4, <2>1, <2>2, WorkKeepsDoc DEF StrayInv
  <1> QED
    BY <1>1, <1>3, <1>4, CrashStrays, StepKinds
-----------------------------------------------------------------------------
(***************************************************************************)
(* The versions of the taxonomy.  A request that may still add a version   *)
(* has a record later than those of all versions, so the last version is   *)
(* always the one with the latest record.                                  *)
(***************************************************************************)
Requests == [step : {"idle", "read", "written"}, tree : Trees \cup {None},
             rec : 0..Len(snapshots), version : 0..MaxSaves]

IsLater(rec) == \A v \in 1..Len(history) : history[v] < rec

RequestOK(p) ==
  /\ request[p] \in Requests
  /\ request[p].version <= publications /\ request[p].version <= Len(history) + 1
  /\ request[p].step # "idle" => request[p].tree \in Trees
  /\ request[p].step = "written" =>
       /\ request[p].rec \in 1..Len(snapshots) /\ snapshots[request[p].rec] = request[p].tree
       /\ request[p].version > Len(history) => IsLater(request[p].rec)

VersionsOK ==
  /\ snapshots \in Seq(Trees)
  /\ history \in Seq(1..Len(snapshots)) /\ Len(history) <= publications
  /\ \A v \in 1..Len(history) : history[v] <= history[Len(history)]
  /\ told = IF history = << >> THEN None ELSE snapshots[history[Len(history)]]

VersionInv ==
  /\ VersionsOK
  /\ request = [p \in Editors |-> request[p]]
  /\ \A p \in Editors : RequestOK(p)

LEMMA VersionInvInit == Init => VersionInv
  <1> SUFFICES ASSUME Init PROVE VersionInv
    OBVIOUS
  <1>1. \A p \in Editors : request[p] = NoRequest
    BY DEF Init
  <1>2. snapshots = << >> /\ history = << >> /\ Len(snapshots) = 0 /\ Len(history) = 0 /\ publications = 0
    BY DEF Init
  <1>3. \A p \in Editors : RequestOK(p)
    BY <1>1, <1>2, Bounds DEF RequestOK, Requests, NoRequest
  <1>4. VersionsOK
    BY <1>2 DEF Init, VersionsOK
  <1> QED
    BY <1>3, <1>4 DEF Init, VersionInv

LEMMA LastVersion ==
  ASSUME VersionsOK, history # << >>
  PROVE  /\ Len(history) \in Nat \ {0} /\ Last(history) = history[Len(history)]
         /\ Last(history) \in 1..Len(snapshots) /\ snapshots[Last(history)] \in Trees
  <1>1. Len(history) \in Nat \ {0} /\ Len(history) \in 1..Len(history)
    BY DEF VersionsOK
  <1> QED
    BY <1>1 DEF VersionsOK, Last

\* A snapshot more or an edit elsewhere leaves the versions and a request as they are.
LEMMA RequestStays ==
  ASSUME CountersOK, VersionsOK, Counters,
         snapshots' = snapshots \/ \E t \in Trees : snapshots' = Append(snapshots, t),
         history' = history
  PROVE  /\ told' = told => VersionsOK'
         /\ \A p \in Editors : RequestOK(p) /\ request'[p] = request[p] => RequestOK(p)'
         /\ \A p \in Editors : request'[p] = NoRequest => RequestOK(p)'
         /\ Len(snapshots') \in Nat /\ Len(snapshots) <= Len(snapshots')
         /\ \A i \in 1..Len(snapshots) : i \in 1..Len(snapshots') /\ snapshots'[i] = snapshots[i]
  <1>1. /\ snapshots' \in Seq(Trees) /\ Len(snapshots) \in Nat /\ Len(snapshots') \in Nat
        /\ Len(snapshots) <= Len(snapshots')
        /\ \A i \in 1..Len(snapshots) : i \in 1..Len(snapshots') /\ snapshots'[i] = snapshots[i]
    <2>1. snapshots \in Seq(Trees) /\ Len(snapshots) \in Nat
      BY DEF VersionsOK
    <2>2. CASE snapshots' = snapshots
      BY <2>1, <2>2
    <2>3. ASSUME NEW t \in Trees, snapshots' = Append(snapshots, t)
          PROVE  <1>1
      BY <2>1, <2>3
    <2> QED
      BY <2>2, <2>3
  <1>2. /\ publications \in Nat /\ publications' \in Nat /\ publications <= publications'
        /\ publications' <= MaxSaves
    BY Bounds DEF CountersOK, Counters
  <1>3. Len(history) \in Nat /\ \A v \in 1..Len(history) : history[v] \in 1..Len(snapshots)
    BY DEF VersionsOK
  <1>4. ASSUME told' = told
        PROVE  VersionsOK'
    <2>1. history' \in Seq(1..Len(snapshots'))
      BY <1>1, <1>3 DEF VersionsOK
    <2>2. history # << >> => history[Len(history)] \in 1..Len(snapshots)
      BY LastVersion
    <2> QED
      BY <1>1, <1>2, <1>3, <1>4, <2>1, <2>2 DEF VersionsOK
  <1>5. ASSUME NEW p \in Editors, RequestOK(p), request'[p] = request[p]
        PROVE  RequestOK(p)'
    <2>1. request[p] \in Requests'
      BY <1>1, <1>5 DEF RequestOK, Requests
    <2> QED
      BY <1>1, <1>2, <1>5, <2>1 DEF RequestOK, IsLater, Requests
  <1>6. ASSUME NEW p \in Editors, request'[p] = NoRequest
        PROVE  RequestOK(p)'
    <2>1. NoRequest \in Requests' /\ NoRequest.step = "idle" /\ NoRequest.version = 0
      BY <1>1, Bounds DEF NoRequest, Requests
    <2>2. Len(history') \in Nat
      BY <1>3
    <2> QED
      BY <1>2, <1>6, <2>1, <2>2 DEF RequestOK
  <1> QED
    BY <1>1, <1>4, <1>5, <1>6

LEMMA PersistKeepsVersions ==
  ASSUME CountersOK, VersionInv, NEW p \in Editors, NEW t \in Trees, Persist(p, t)
  PROVE  VersionInv'
  <1>1. /\ publications' = publications + 1 /\ UNCHANGED <<snapshots, history, faults>> /\ Counters
        /\ request[p].step = "idle"
    BY CountsOne DEF Persist, Counters, CountersOK
  <1>2. CASE Unchanged(t)
    <2>1. told' = t /\ request' = request
      BY <1>2 DEF Persist
    <2>2. told' = told
      BY <1>2, <2>1, LastVersion DEF Unchanged, VersionInv, VersionsOK
    <2> QED
      BY <1>1, <2>1, <2>2, RequestStays DEF VersionInv
  <1>3. CASE ~Unchanged(t)
    <2> DEFINE r == [step |-> "read", tree |-> t, rec |-> 0, version |-> Len(history) + 1]
    <2>1. told' = told /\ request' = [request EXCEPT ![p] = r]
      BY <1>3 DEF Persist
    <2>2. /\ VersionsOK' /\ Len(snapshots') \in Nat
          /\ \A q \in Editors : RequestOK(q) /\ request'[q] = request[q] => RequestOK(q)'
      BY <1>1, <2>1, RequestStays DEF VersionInv
    <2>3. Len(history) \in Nat /\ Len(history) + 1 <= publications' /\ Len(history) + 1 \in 0..MaxSaves
      BY <1>1, Bounds DEF VersionInv, VersionsOK, Counters, CountersOK
    <2>4. r \in Requests' /\ r.step = "read" /\ r.tree = t /\ r.version = Len(history) + 1
      BY <2>2, <2>3 DEF Requests
    <2> HIDE DEF r
    <2>5. request'[p] = r /\ request' = [q \in Editors |-> request'[q]]
          /\ \A q \in Editors \ {p} : request'[q] = request[q]
      BY <2>1 DEF VersionInv
    <2>6. RequestOK(p)'
      BY <1>1, <2>3, <2>4, <2>5 DEF RequestOK
    <2> QED
      BY <2>2, <2>5, <2>6 DEF VersionInv
  <1> QED
    BY <1>2, <1>3

LEMMA WriteKeepsVersions ==
  ASSUME CountersOK, VersionInv, NEW p \in Editors, WriteSnapshot(p)
  PROVE  VersionInv'
  <1> DEFINE n == Len(snapshots) + 1
             r == [request[p] EXCEPT !.step = "written", !.rec = n]
  <1>1. /\ request[p].step = "read" /\ UNCHANGED <<history, told, publications, faults>> /\ Counters
        /\ snapshots' = Append(snapshots, request[p].tree)
        /\ request' = [request EXCEPT ![p].step = "written", ![p].rec = Len(snapshots')]
    BY DEF WriteSnapshot, Counters, CountersOK, counts
  <1>2. /\ RequestOK(p) /\ request[p].tree \in Trees /\ snapshots \in Seq(Trees)
        /\ history \in Seq(1..Len(snapshots))
    BY <1>1 DEF VersionInv, VersionsOK, RequestOK
  <1>3. /\ Len(snapshots') = n /\ n \in Nat /\ n \in 1..Len(snapshots')
        /\ snapshots'[n] = request[p].tree
    BY <1>1, <1>2
  <1>4. VersionsOK' /\ \A q \in Editors : RequestOK(q) /\ request'[q] = request[q] => RequestOK(q)'
    BY <1>1, <1>2, RequestStays DEF VersionInv
  <1>5. request' = [request EXCEPT ![p] = [request[p] EXCEPT !.step = "written", !.rec = n]]
    BY <1>1, <1>3
  <1>6. /\ r \in Requests' /\ r.step = "written" /\ r.rec = n /\ r.tree = request[p].tree
        /\ r.version = request[p].version
    <2>1. request[p] \in Requests /\ 0..Len(snapshots) \subseteq 0..Len(snapshots')
      BY <1>2, <1>3 DEF RequestOK
    <2>2. request[p] \in Requests' /\ n \in 0..Len(snapshots')
      BY <1>3, <2>1 DEF Requests
    <2> HIDE DEF n
    <2> QED
      BY <2>2 DEF Requests
  <1>7. \A v \in 1..Len(history) : history[v] < n
    BY <1>2
  <1>8. request' = [request EXCEPT ![p] = r]
    BY <1>5
  <1> HIDE DEF r, n
  <1>9. request'[p] = r /\ request' = [q \in Editors |-> request'[q]]
        /\ \A q \in Editors \ {p} : request'[q] = request[q]
    BY <1>8 DEF VersionInv
  <1>10. RequestOK(p)'
    <2>1. r.version <= publications' /\ r.version <= Len(history') + 1
      BY <1>1, <1>2, <1>6 DEF RequestOK
    <2>2. r.rec \in 1..Len(snapshots') /\ snapshots'[r.rec] = r.tree /\ r.tree \in Trees
      BY <1>2, <1>3, <1>6
    <2>3. \A v \in 1..Len(history') : history'[v] < r.rec
      BY <1>1, <1>6, <1>7
    <2> QED
      BY <1>6, <1>9, <2>1, <2>2, <2>3 DEF RequestOK, IsLater
  <1> QED
    BY <1>4, <1>9, <1>10 DEF VersionInv

LEMMA RecordKeepsVersions ==
  ASSUME CountersOK, VersionInv, NEW p \in Editors, RecordVersion(p)
  PROVE  VersionInv'
  <1>1. /\ request[p].step = "written" /\ request' = [request EXCEPT ![p] = NoRequest]
        /\ UNCHANGED <<snapshots, publications, faults>> /\ Counters
    BY DEF RecordVersion, Counters, CountersOK, counts
  <1>2. request' = [q \in Editors |-> request'[q]] /\ request'[p] = NoRequest
        /\ \A q \in Editors \ {p} : request'[q] = request[q]
    BY <1>1 DEF VersionInv
  <1>3. CASE request[p].version <= Len(history)
    <2>1. UNCHANGED <<history, told>>
      <3>1. request[p].version \in Nat /\ Len(history) \in Nat
        BY DEF VersionInv, VersionsOK, RequestOK, Requests
      <3> QED
        BY <1>3, <3>1 DEF RecordVersion
    <2> QED
      BY <1>1, <1>2, <2>1, RequestStays DEF VersionInv
  <1>4. CASE request[p].version > Len(history)
    <2> DEFINE rec == request[p].rec
    <2>1. history' = Append(history, rec) /\ told' = request[p].tree
      BY <1>4 DEF RecordVersion
    <2>2. /\ rec \in 1..Len(snapshots) /\ snapshots[rec] = request[p].tree
          /\ IsLater(rec) /\ request[p].version = Len(history) + 1
          /\ request[p].version <= publications
      BY <1>1, <1>4 DEF VersionInv, VersionsOK, RequestOK, Requests
    <2> HIDE DEF rec
    <2>3. /\ snapshots \in Seq(Trees) /\ history \in Seq(1..Len(snapshots)) /\ Len(history) \in Nat
      BY DEF VersionInv, VersionsOK
    <2>4. /\ history' \in Seq(1..Len(snapshots)) /\ Len(history') = Len(history) + 1
          /\ history'[Len(history) + 1] = rec
          /\ \A v \in 1..Len(history) : history'[v] = history[v]
          /\ history' # << >>
      <3>1. /\ history' \in Seq(1..Len(snapshots)) /\ history' # << >>
            /\ Len(history') = Len(history) + 1
        BY <2>1, <2>2, <2>3
      <3>2. history'[Len(history) + 1] = rec
        BY <2>1, <2>2, <2>3
      <3>3. \A v \in 1..Len(history) : history'[v] = history[v]
        BY <2>1, <2>2, <2>3
      <3> QED
        BY <3>1, <3>2, <3>3
    <2>5. VersionsOK'
      <3>1. \A v \in 1..Len(history') : v \in 1..Len(history) \/ v = Len(history) + 1
        BY <2>3, <2>4
      <3>2. rec \in Nat /\ \A v \in 1..Len(history) : history[v] \in Nat
        BY <2>2, <2>3
      <3>3. \A v \in 1..Len(history) : history'[v] <= rec
        BY <2>2, <2>4, <3>2 DEF IsLater
      <3>4. \A v \in 1..Len(history') : history'[v] <= rec
        BY <2>4, <3>1, <3>2, <3>3
      <3> QED
        BY <1>1, <2>1, <2>2, <2>3, <2>4, <3>4 DEF VersionsOK
    <2>6. ASSUME NEW q \in Editors \ {p}
          PROVE  RequestOK(q)'
      <3>1. RequestOK(q) /\ request'[q] = request[q]
        BY <1>2 DEF VersionInv
      <3>2. request[q].version \in Nat /\ ~(request[q].version > Len(history'))
        BY <2>3, <2>4, <3>1 DEF RequestOK, Requests
      <3>3. request[q] \in Requests' /\ request[q].version <= Len(history') + 1
        BY <1>1, <2>3, <2>4, <3>1, <3>2 DEF RequestOK, Requests
      <3> QED
        BY <1>1, <3>1, <3>2, <3>3 DEF RequestOK
    <2>7. RequestOK(p)'
      <3>1. NoRequest \in Requests' /\ NoRequest.step = "idle" /\ NoRequest.version = 0
        BY <1>1, <2>3, Bounds DEF NoRequest, Requests
      <3> QED
        BY <1>1, <1>2, <2>3, <2>4, <3>1 DEF RequestOK, CountersOK
    <2> QED
      BY <1>2, <2>5, <2>6, <2>7 DEF VersionInv
  <1>5. request[p].version \in Nat /\ Len(history) \in Nat
    BY DEF VersionInv, VersionsOK, RequestOK, Requests
  <1> QED
    BY <1>3, <1>4, <1>5

LEMMA VersionInvStep == CountersOK /\ VersionInv /\ [Next]_vars => VersionInv'
  <1> SUFFICES ASSUME CountersOK, VersionInv, [Next]_vars
               PROVE  VersionInv'
    OBVIOUS
  <1>1. Counters
    BY CountersStep
  <1>2. CASE UNCHANGED tree
    BY <1>1, <1>2, RequestStays DEF VersionInv, tree
  <1>3. CASE CrashCMS
    <2>1. /\ UNCHANGED <<snapshots, history, told>>
          /\ request' = [p \in Editors |-> NoRequest]
      BY <1>3 DEF CrashCMS
    <2> QED
      BY <1>1, <2>1, RequestStays DEF VersionInv
  <1>4. ASSUME NEW p \in Editors, FailPersist(p)
        PROVE  VersionInv'
    <2>1. /\ UNCHANGED <<history, told>> /\ request' = [request EXCEPT ![p] = NoRequest]
          /\ \/ snapshots' = snapshots
             \/ request[p].step = "read" /\ snapshots' = Append(snapshots, request[p].tree)
      BY <1>4 DEF FailPersist
    <2>2. request[p].step = "read" => request[p].tree \in Trees
      BY DEF VersionInv, RequestOK
    <2>3. request' = [q \in Editors |-> request'[q]] /\ request'[p] = NoRequest
          /\ \A q \in Editors \ {p} : request'[q] = request[q]
      BY <2>1 DEF VersionInv
    <2> QED
      BY <1>1, <2>1, <2>2, <2>3, RequestStays DEF VersionInv
  <1>5. CASE \E p \in Editors : TreeActs(p)
    BY <1>4, <1>5, PersistKeepsVersions, WriteKeepsVersions, RecordKeepsVersions DEF TreeActs
  <1> QED
    BY <1>2, <1>3, <1>5, StepKinds, BallotFrame, SaveFrame, ProjectFrame, WorkFrame, PostFrame
    DEF vars

-----------------------------------------------------------------------------
(***************************************************************************)
(* The projection of the tree.  Whoever projects the last snapshot shows   *)
(* it; the backfill may still show an older one until it is done, and      *)
(* leaves one shown when it ends behind the live consumer.                 *)
(***************************************************************************)
Latest == IF Len(snapshots) = 0 THEN None ELSE snapshots[Len(snapshots)]

ViewInv ==
  /\ pos \in [Consumers -> 0..Len(snapshots)]
  /\ backfill \in {"new", "running", "finished"}
  /\ backfill = "new" => pos[Backfill] = 0
  /\ shown \in Trees \cup {None}
  /\ behind \in BOOLEAN /\ (behind => backfill = "finished")
  /\ /\ pos[Live] = Len(snapshots) /\ ~behind
     /\ backfill # "finished" => pos[Backfill] \in {0, Len(snapshots)}
     => shown = Latest

TopicInv ==
  /\ topic \in [of : Trees \cup {None}, overtaken : BOOLEAN]
  /\ topic.of \in {None, shown} \/ topic.overtaken
  /\ worker.on = "topic" => worker.saw \in Trees /\ (worker.saw = shown \/ worker.overtaken)

LEMMA ViewInvInit == Init => ViewInv /\ TopicInv
  <1> SUFFICES ASSUME Init PROVE ViewInv /\ TopicInv
    OBVIOUS
  <1>1. snapshots = << >> /\ Len(snapshots) = 0
    BY DEF Init
  <1>2. ViewInv
    <2>1. /\ pos = [c \in Consumers |-> 0] /\ pos[Backfill] = 0
          /\ backfill = "new" /\ behind = FALSE /\ shown = None /\ Latest = None
      BY <1>1 DEF Init, Latest, Consumers
    <2>2. pos \in [Consumers -> 0..Len(snapshots)]
      BY <1>1, <2>1
    <2>3. behind \in BOOLEAN /\ ~behind
      BY <2>1
    <2>4. shown \in Trees \cup {None} /\ shown = Latest
      BY <2>1
    <2>5. backfill \in {"new", "running", "finished"}
      BY <2>1
    <2>6. (backfill = "new" => pos[Backfill] = 0) /\ (behind => backfill = "finished")
      BY <2>1, <2>3
    <2> QED
      BY <2>2, <2>3, <2>4, <2>5, <2>6 DEF ViewInv
  <1>3. TopicInv
    BY DEF Init, TopicInv, Resting
  <1> QED
    BY <1>2, <1>3

LEMMA TakeKeepsView ==
  ASSUME VersionsOK, ViewInv, NEW c \in Consumers, Take(c)
  PROVE  ViewInv' /\ shown' \in Trees
  <1>1. /\ snapshots \in Seq(Trees) /\ Len(snapshots) \in Nat /\ pos[c] \in Nat
        /\ pos[c] < Len(snapshots) /\ Live # Backfill
    BY EditorialAssumption DEF Take, VersionsOK, ViewInv
  <1>2. PICK n \in 1..Len(snapshots) : n = pos[c] + 1
    BY <1>1
  <1>3. /\ UNCHANGED <<snapshots, backfill>> /\ pos' = [pos EXCEPT ![c] = n]
        /\ (c = Backfill => backfill = "running") /\ behind' = (behind /\ c # Live)
    BY <1>2 DEF Take, tree
  <1>4. /\ pos' \in [Consumers -> 0..Len(snapshots)] /\ pos'[c] = n
        /\ \A d \in Consumers \ {c} : pos'[d] = pos[d]
    BY <1>1, <1>2, <1>3 DEF ViewInv
  <1>5. shown' = snapshots[n] /\ shown' \in Trees
    BY <1>1, <1>2, <1>4 DEF Take
  <1>6. ASSUME pos'[Live] = Len(snapshots),
               backfill # "finished" => pos'[Backfill] \in {0, Len(snapshots)}
        PROVE  shown' = snapshots[Len(snapshots)] /\ Len(snapshots) # 0
    <2>1. c = Live \/ c = Backfill
      BY DEF Consumers
    <2>2. n = Len(snapshots)
      BY <1>2, <1>3, <1>4, <1>6, <2>1
    <2> QED
      BY <1>1, <1>2, <1>5, <2>2
  <1> QED
    BY <1>1, <1>3, <1>4, <1>5, <1>6 DEF ViewInv, Latest, Consumers

LEMMA ViewInvStep == CountersOK /\ VersionInv /\ ViewInv /\ [Next]_vars => ViewInv'
  <1> SUFFICES ASSUME CountersOK, VersionInv, ViewInv, [Next]_vars
               PROVE  ViewInv'
    OBVIOUS
  <1>1. snapshots \in Seq(Trees) /\ Len(snapshots) \in Nat /\ Live \in Consumers /\ Backfill \in Consumers
    BY DEF VersionInv, VersionsOK, Consumers
  <1>2. CASE UNCHANGED <<snapshots, pos, backfill, behind, shown>>
    BY <1>2 DEF ViewInv, Latest
  <1>3. ASSUME NEW t \in Trees, snapshots' = Append(snapshots, t), UNCHANGED <<pos, backfill, behind, shown>>
        PROVE  ViewInv'
    <2>1. Len(snapshots') = Len(snapshots) + 1
      BY <1>1, <1>3
    <2>2. pos' \in [Consumers -> 0..Len(snapshots')] /\ pos'[Live] # Len(snapshots')
      BY <1>1, <1>3, <2>1 DEF ViewInv
    <2> QED
      BY <1>3, <2>2 DEF ViewInv
  <1>4. CASE \E p \in Editors : TreeActs(p)
    <2>1. UNCHANGED <<pos, backfill, behind, shown>>
      BY <1>4, TreeFrame DEF readmodel
    <2>2. PICK p \in Editors : TreeActs(p)
      BY <1>4
    <2>3. snapshots' = snapshots
          \/ (request[p].step = "read" /\ snapshots' = Append(snapshots, request[p].tree))
      BY <2>2 DEF TreeActs, Persist, WriteSnapshot, RecordVersion, FailPersist
    <2>4. request[p].step = "read" => request[p].tree \in Trees
      BY DEF VersionInv, RequestOK
    <2> QED
      BY <1>2, <1>3, <2>1, <2>3, <2>4
  <1>5. CASE StartBackfill
    <2>1. /\ backfill = "new" /\ backfill' = "running" /\ snapshots # << >>
          /\ UNCHANGED <<snapshots, pos, behind, shown>>
      BY <1>5 DEF StartBackfill, tree
    <2> QED
      BY <2>1 DEF ViewInv, Latest
  <1>6. CASE FinishBackfill
    <2>1. /\ backfill' = "finished" /\ backfill = "running"
          /\ behind' = (pos[Backfill] \in 1..pos[Live] - 1)
          /\ UNCHANGED <<snapshots, pos, shown>>
      BY <1>6 DEF FinishBackfill, tree
    <2>2. ASSUME pos[Live] = Len(snapshots), ~behind'
          PROVE  shown = Latest
      <3>1. pos[Backfill] \in 0..Len(snapshots) /\ pos[Backfill] \notin 1..Len(snapshots) - 1
        BY <1>1, <2>1, <2>2 DEF ViewInv
      <3>2. pos[Backfill] \in {0, Len(snapshots)}
        BY <1>1, <3>1
      <3> QED
        BY <2>1, <2>2, <3>2 DEF ViewInv
    <2> QED
      BY <2>1, <2>2 DEF ViewInv, Latest
  <1>7. CASE BallotActs \/ Saving \/ WorkActs \/ PostActs \/ CrashCMS \/ UNCHANGED vars
    BY <1>2, <1>7, BallotFrame, SaveFrame, WorkFrame, PostFrame, CrashFrame
    DEF tree, readmodel, vars
  <1> QED
    BY <1>4, <1>5, <1>6, <1>7, StepKinds, TakeKeepsView DEF ProjectActs, VersionInv

LEMMA TopicInvStep ==
  CountersOK /\ DocInv /\ VersionInv /\ ViewInv /\ TopicInv /\ [Next]_vars => TopicInv'
  <1> SUFFICES ASSUME CountersOK, DocInv, VersionInv, ViewInv, TopicInv, [Next]_vars
               PROVE  TopicInv'
    OBVIOUS
  <1>1. ASSUME UNCHANGED <<topic, shown>>, worker' = worker \/ worker'.on # "topic"
        PROVE  TopicInv'
    BY <1>1 DEF TopicInv
  <1>2. CASE BallotActs \/ PostActs \/ CrashCMS \/ (\E p \in Editors : TreeActs(p)) \/ UNCHANGED vars
    BY <1>1, <1>2, BallotFrame, PostFrame, CrashFrame, TreeFrame DEF readmodel, vars
  <1>3. CASE Saving
    BY <1>1, <1>3, SaveFrame DEF readmodel
  <1>4. ASSUME NEW c \in Consumers, Take(c)
        PROVE  TopicInv'
    <2>1. shown' = shown => TopicInv'
      BY <1>1, <1>4 DEF Take
    <2>2. CASE shown' # shown
      <3>1. /\ topic' = [of |-> None, overtaken |-> FALSE]
            /\ worker' = [worker EXCEPT !.overtaken = (worker.on = "topic")]
        BY <1>4, <2>2 DEF Take
      <3>2. worker'.on = worker.on /\ worker'.saw = worker.saw
            /\ worker'.overtaken = (worker.on = "topic")
        BY <3>1 DEF DocInv, WorkerOK
      <3> QED
        BY <3>1, <3>2 DEF TopicInv
    <2> QED
      BY <2>1, <2>2
  <1>5. CASE StartBackfill \/ FinishBackfill
    BY <1>1, <1>5 DEF StartBackfill, FinishBackfill
  <1>6. ASSUME WorkActs
        PROVE  TopicInv'
    <2>1. shown' = shown
      BY <1>6, WorkFrame
    <2>2. Resting.on = "nothing" /\ [Resting EXCEPT !.on = "halted"].on = "halted"
      BY DEF Resting
    <2>3. CASE PutTranslated \/ FailPut \/ DropTranslation
      BY <1>1, <2>1, <2>2, <2>3 DEF PutTranslated, FailPut, DropTranslation
    <2>4. ASSUME NEW u \in Uris, ReadArgument(u)
          PROVE  TopicInv'
      <3>1. topic' = topic /\ worker'.on = "argument"
        BY <2>4 DEF ReadArgument, Resting
      <3> QED
        BY <1>1, <2>1, <3>1
    <2>5. CASE ReadTopic
      <3>1. topic' = topic /\ worker' = [Resting EXCEPT !.on = "topic", !.saw = shown] /\ shown # None
        BY <2>5 DEF ReadTopic
      <3>2. worker'.saw = shown /\ worker'.on = "topic"
        BY <3>1 DEF Resting
      <3> QED
        BY <2>1, <3>1, <3>2 DEF TopicInv, ViewInv
    <2>6. CASE UpdateTopic
      <3>1. /\ topic' = [of |-> worker.saw, overtaken |-> worker.overtaken]
            /\ worker' = Resting /\ worker.on = "topic"
        BY <2>6 DEF UpdateTopic
      <3>2. worker.overtaken \in BOOLEAN
        BY DEF DocInv, WorkerOK
      <3> QED
        BY <2>1, <2>2, <3>1, <3>2 DEF TopicInv
    <2> QED
      BY <1>6, <2>3, <2>4, <2>5, <2>6 DEF WorkActs
  <1> QED
    BY <1>2, <1>3, <1>4, <1>5, <1>6, StepKinds DEF ProjectActs

-----------------------------------------------------------------------------
(***************************************************************************)
(* The posts.                                                              *)
(***************************************************************************)
Pending(u) == posting.step = "posted" /\ posting.uri = u
Allowed(u) == faults + (IF posts[u].linked \/ Pending(u) THEN 1 ELSE 0)

PostInv ==
  /\ posting \in [step : {"idle", "read", "posted"}, uri : Uris \cup {None}]
  /\ posts \in [Uris -> [made : Nat, linked : BOOLEAN]]
  /\ posting.step # "idle" => posting.uri \in Uris /\ ~posts[posting.uri].linked
  /\ \A u \in Uris : posts[u].made <= Allowed(u)

LEMMA PostInvInit == Init => PostInv
  BY DEF Init, PostInv, Allowed, Pending

\* Only the post in hand is made or linked.
LEMMA PostInvStep == CountersOK /\ DocInv /\ PostInv /\ [Next]_vars => PostInv'
  <1> SUFFICES ASSUME CountersOK, DocInv, PostInv, [Next]_vars
               PROVE  PostInv'
    OBVIOUS
  <1>1. faults \in Nat /\ faults' \in Nat /\ faults' \in {faults, faults + 1}
    BY CountersStep DEF CountersOK, Counters
  <1>2. CASE UNCHANGED crossposts
    <2>1. \A u \in Uris : posts[u].made \in Nat
      BY DEF PostInv
    <2> QED
      BY <1>1, <1>2, <2>1 DEF PostInv, Allowed, Pending, crossposts
  <1>3. CASE ~PostActs
    BY <1>2, <1>3, StepKinds, BallotFrame, TreeFrame, CrashFrame, SaveFrame, ProjectFrame, WorkFrame
    DEF vars
  <1>4. ASSUME NEW u \in Uris, ReadUnposted(u)
        PROVE  PostInv'
    <2>1. /\ posting' = [step |-> "read", uri |-> u] /\ posting.step = "idle" /\ ~posts[u].linked
          /\ UNCHANGED <<posts, faults>>
      BY <1>4 DEF ReadUnposted
    <2> QED
      BY <2>1 DEF PostInv, Allowed, Pending
  <1> DEFINE w == posting.uri
             more == [posts[w] EXCEPT !.made = posts[w].made + 1]
  <1>5. ASSUME posting.step # "idle"
        PROVE  /\ w \in Uris /\ posts[w] \in [made : Nat, linked : BOOLEAN] /\ ~posts[w].linked
               /\ more \in [made : Nat, linked : BOOLEAN] /\ ~more.linked
               /\ more.made = posts[w].made + 1
               /\ posting.step = "read" => posts[w].made <= faults
    BY <1>1, <1>5 DEF PostInv, Allowed, Pending
  <1>6. \A u \in Uris : posts[u].made \in Nat
    BY DEF PostInv
  <1>7. CASE CreatePost
    <2>1. /\ posting.step = "read" /\ faults' = faults
          /\ posts' = [posts EXCEPT ![w] = more] /\ posting' = [posting EXCEPT !.step = "posted"]
      BY <1>7 DEF CreatePost
    <2>2. w \in Uris /\ more \in [made : Nat, linked : BOOLEAN] /\ ~more.linked /\ more.made <= faults + 1
      BY <1>1, <1>5, <2>1
    <2>3. posting'.step = "posted" /\ posting'.uri = w
          /\ posting' \in [step : {"idle", "read", "posted"}, uri : Uris \cup {None}]
      BY <2>1 DEF PostInv
    <2> HIDE DEF more
    <2>4. posts'[w] = more /\ posts' \in [Uris -> [made : Nat, linked : BOOLEAN]]
          /\ \A u \in Uris \ {w} : posts'[u] = posts[u]
      BY <2>1, <2>2 DEF PostInv
    <2>5. \A u \in Uris \ {w} : ~Pending(u)
      BY DEF Pending
    <2> QED
      BY <1>1, <1>6, <2>1, <2>2, <2>3, <2>4, <2>5 DEF PostInv, Allowed, Pending
  <1>8. CASE LinkPost
    <2> DEFINE done == [posts[w] EXCEPT !.linked = TRUE]
    <2>1. /\ posting.step = "posted" /\ faults' = faults
          /\ posts' = [posts EXCEPT ![w] = done] /\ posting' = [step |-> "idle", uri |-> None]
      BY <1>8 DEF LinkPost
    <2>2. /\ w \in Uris /\ done \in [made : Nat, linked : BOOLEAN] /\ done.linked
          /\ done.made = posts[w].made /\ posts[w].made <= faults + 1
      BY <1>5, <2>1 DEF PostInv, Allowed, Pending
    <2> HIDE DEF done
    <2>3. posts'[w] = done /\ posts' \in [Uris -> [made : Nat, linked : BOOLEAN]]
          /\ \A u \in Uris \ {w} : posts'[u] = posts[u]
      BY <2>1, <2>2 DEF PostInv
    <2>4. \A u \in Uris \ {w} : ~Pending(u)
      BY DEF Pending
    <2> QED
      BY <1>1, <2>1, <2>2, <2>3, <2>4 DEF PostInv, Allowed, Pending
  <1>9. CASE FailPost
    <2>1. /\ posting.step # "idle" /\ posting' = [step |-> "idle", uri |-> None]
          /\ posts' = posts \/ (posting.step = "read" /\ posts' = [posts EXCEPT ![w] = more])
      BY <1>9 DEF FailPost
    <2>2. faults' = faults + 1
      BY <1>9, CountsOne DEF FailPost
    <2>3. CASE posts' = posts
      BY <1>1, <1>6, <2>1, <2>2, <2>3 DEF PostInv, Allowed, Pending
    <2>4. CASE posting.step = "read" /\ posts' = [posts EXCEPT ![w] = more]
      <3>1. w \in Uris /\ more \in [made : Nat, linked : BOOLEAN] /\ more.made <= faults + 1
        BY <1>1, <1>5, <2>4
      <3> HIDE DEF more
      <3>2. posts'[w] = more /\ posts' \in [Uris -> [made : Nat, linked : BOOLEAN]]
            /\ \A u \in Uris \ {w} : posts'[u] = posts[u]
        BY <2>4, <3>1 DEF PostInv
      <3>3. \A u \in Uris : ~Pending(u)
        BY <2>4 DEF Pending
      <3> QED
        BY <1>1, <1>6, <2>1, <2>2, <3>1, <3>2, <3>3 DEF PostInv, Allowed, Pending
    <2> QED
      BY <2>1, <2>3, <2>4
  <1> QED
    BY <1>3, <1>4, <1>7, <1>8, <1>9 DEF PostActs

-----------------------------------------------------------------------------
(***************************************************************************)
(* The inductive invariant and what follows from it.                       *)
(***************************************************************************)
EditorialInv ==
  /\ CountersOK /\ DocInv /\ IdInv /\ BallotInv /\ StrayInv /\ ThereInv
  /\ VersionInv /\ ViewInv /\ TopicInv /\ PostInv

LEMMA Invariance == Spec => []EditorialInv
  <1>1. Init => EditorialInv
    BY DocInvInit, IdInvInit, BallotInvInit, StrayInvInit, ThereInvInit, VersionInvInit, ViewInvInit, PostInvInit
    DEF EditorialInv
  <1>2. EditorialInv /\ [Next]_vars => EditorialInv'
    <2> SUFFICES ASSUME EditorialInv, [Next]_vars
                 PROVE  EditorialInv'
      OBVIOUS
    <2>1. shown \in Trees \cup {None} /\ mishaps \in Nat
      BY DEF EditorialInv, ViewInv, StrayInv
    <2> QED
      BY <2>1, CountersStep, DocInvStep, IdInvStep, BallotInvStep, StrayInvStep, VersionInvStep, ViewInvStep,
         TopicInvStep, PostInvStep DEF EditorialInv
  <1> QED
    BY <1>1, <1>2, PTL DEF Spec

LEMMA TypeCorrect == EditorialInv => TypeOK
  <1> SUFFICES ASSUME EditorialInv PROVE TypeOK
    OBVIOUS
  <1> USE DEF EditorialInv
  <1>1. /\ doc \in Rows /\ mishaps \in Nat
        /\ save \in [Editors -> [step : SaveSteps, row : Rows, id : 0..MaxSaves]]
    BY DEF DocInv, SaveOK, StrayInv
  <1>2. record \in [Uris -> Entries]
    BY DEF DocInv
  <1>3. snapshots \in Seq(Trees) /\ DOMAIN snapshots = 1..Len(snapshots)
        /\ history \in Seq(DOMAIN snapshots)
    BY DEF VersionInv, VersionsOK
  <1>4. request \in [Editors -> Requests]
    BY DEF VersionInv, RequestOK
  <1>5. told \in Trees \cup {None}
    BY LastVersion DEF VersionInv, VersionsOK, Last
  <1>6. posts \in [Uris -> [made : 0..(MaxFaults + 1), linked : BOOLEAN]]
    <2>1. ASSUME NEW u \in Uris
          PROVE  posts[u] \in [made : 0..(MaxFaults + 1), linked : BOOLEAN]
      <3>1. posts[u] \in [made : Nat, linked : BOOLEAN] /\ posts[u].made <= Allowed(u)
        BY DEF PostInv
      <3>2. posts[u].made <= MaxFaults + 1
        BY <3>1, Bounds DEF Allowed, CountersOK
      <3> QED
        BY <3>1, <3>2, Bounds
    <2> QED
      BY <2>1 DEF PostInv
  <1>7. ballot \in [published : BOOLEAN, account : BOOLEAN, password : BOOLEAN,
                    step : {"idle", "created", "stored"}]
    BY DEF BallotInv
  <1>8. /\ pos \in [Consumers -> 0..Len(snapshots)] /\ backfill \in {"new", "running", "finished"}
        /\ behind \in BOOLEAN /\ shown \in Trees \cup {None} /\ topic \in [of : Trees \cup {None}, overtaken : BOOLEAN]
    BY DEF ViewInv, TopicInv
  <1>9. worker \in [on : {"nothing", "argument", "topic", "halted"}, uri : Uris \cup {None},
                    saw : Texts \cup Trees \cup {None}, overtaken : BOOLEAN]
    BY DEF DocInv, WorkerOK
  <1>10. posting \in [step : {"idle", "read", "posted"}, uri : Uris \cup {None}]
         /\ saves \in 0..MaxSaves /\ publications \in 0..MaxSaves /\ faults \in 0..MaxFaults
    BY DEF PostInv, CountersOK
  <1> QED
    BY <1>1, <1>2, <1>3, <1>4, <1>5, <1>6, <1>7, <1>8, <1>9, <1>10
    DEF TypeOK, SaveSteps, Entries, Requests

\* The rows, the records, the requests, the projection, the worker and the posts
\* of the code keep their types, and no counter passes its bound.
THEOREM TypesAreCorrect == Spec => []TypeOK
  <1>1. EditorialInv => TypeOK
    BY TypeCorrect
  <1> QED
    BY <1>1, Invariance, PTL

\* A ballot is shown as published, and its repository written, only once the
\* password of its account is stored (ensureBallotAccount before the commit).
THEOREM PublicationIsBacked == Spec => []PublishedIsBacked
  <1>1. EditorialInv => PublishedIsBacked
    <2> SUFFICES ASSUME EditorialInv PROVE PublishedIsBacked
      OBVIOUS
    <2>1. (\E u \in Uris : record[u].by # "nobody") \/ snapshots # << >> => Written
      <3>1. snapshots \in Seq(Trees)
        BY DEF EditorialInv, VersionInv, VersionsOK
      <3> QED
        BY <3>1 DEF Written
    <2> QED
      BY <2>1 DEF EditorialInv, BallotInv, PublishedIsBacked
  <1> QED
    BY <1>1, Invariance, PTL

\* Between saves at most one record for each save that was overtaken, failed or
\* cut short is there that no published row names, and without any the record the
\* row names is there (the hook, the import and their calls to the PDS).
THEOREM ArgumentIsSettled == Spec => []ArgumentSettles
  <1>1. EditorialInv => ArgumentSettles
    <2> SUFFICES ASSUME EditorialInv, NoneIsSaving
                 PROVE  /\ Cardinality({u \in Uris : Stray(u)}) <= mishaps
                        /\ mishaps = 0 /\ doc.uri # None =>
                             doc.status = "published" /\ record[doc.uri].there
      BY DEF ArgumentSettles
    <2>1. Standing /\ \A u : \A e \in Editors : ~Names(e, u)
      BY DEF NoneIsSaving, Standing, Names
    <2>2. {u \in Uris : Stray(u)} = Astray
      BY <2>1 DEF Stray, Astray, ByCMS, RowNames
    <2> QED
      BY <2>1, <2>2 DEF EditorialInv, StrayInv, ThereInv
  <1> QED
    BY <1>1, Invariance, PTL

\* Once no publication is under way and the snapshots are projected, readers see
\* the tree an editor saw confirmed last, unless the last record is one whose
\* publisher got an error, or a backfill that ended behind the live consumer was
\* the last to show a tree; and its topic is translated as it is named, unless the
\* renaming overtook a translation (persistTaxonomy, the indexer's projection).
THEOREM TreeIsSettled == Spec => []TreeSettles
  <1>1. EditorialInv => TreeSettles
    <2> SUFFICES ASSUME EditorialInv PROVE TreeSettles
      OBVIOUS
    <2>1. /\ snapshots \in Seq(Trees) /\ history \in Seq(1..Len(snapshots)) /\ Len(snapshots) \in Nat
      BY DEF EditorialInv, VersionInv, VersionsOK
    <2>2. ASSUME pos[Live] = Len(snapshots), backfill # "running", ~behind,
                 Len(snapshots) \in Range(history)
          PROVE  shown = told
      <3>1. PICK v \in 1..Len(history) : history[v] = Len(snapshots)
        BY <2>1, <2>2 DEF Range
      <3>2. history # << >> /\ history[Len(history)] \in 1..Len(snapshots)
        BY <2>1, <3>1, LastVersion DEF EditorialInv, VersionInv
      <3>3. history[Len(history)] = Len(snapshots) /\ Len(snapshots) # 0
        BY <2>1, <3>1, <3>2 DEF EditorialInv, VersionInv, VersionsOK
      <3> QED
        BY <2>2, <3>2, <3>3 DEF EditorialInv, VersionInv, VersionsOK, ViewInv, Latest
    <2> QED
      BY <2>2 DEF TreeSettles, EditorialInv, TopicInv
  <1> QED
    BY <1>1, Invariance, PTL

\* However the cross-poster is interrupted, an argument is posted once, and once
\* more at most for each failure (the post, then the row that remembers it).
THEOREM PostsAreAccounted == Spec => []PostsAccounted
  <1>1. EditorialInv => PostsAccounted
    <2> SUFFICES ASSUME EditorialInv, NEW u \in Uris
                 PROVE  posts[u].made <= faults
                          + (IF posts[u].linked \/ posting = [step |-> "posted", uri |-> u]
                             THEN 1 ELSE 0)
      BY DEF PostsAccounted
    <2>1. Pending(u) => posting = [step |-> "posted", uri |-> u]
      BY DEF EditorialInv, PostInv, Pending
    <2>2. posts[u].made <= Allowed(u) /\ posts[u].made \in Nat /\ faults \in Nat
      BY DEF EditorialInv, PostInv, CountersOK
    <2> QED
      BY <2>1, <2>2 DEF Allowed
  <1> QED
    BY <1>1, Invariance, PTL
=============================================================================
