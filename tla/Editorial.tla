------------------------------ MODULE Editorial ------------------------------
(***************************************************************************)
(* What the editors of one ballot publish from the CMS: the community      *)
(* account, an official argument, and the taxonomy as a series of          *)
(* snapshots; and the workers that touch the same data afterwards: the     *)
(* indexer projects the snapshots, the translation worker rewrites         *)
(* argument records and topics, the cross-poster posts arguments to        *)
(* Bluesky.                                                                *)
(*                                                                         *)
(* An editor saves the argument from a row read before: the form, or what  *)
(* the update read before it waited for the row.  The save is a database   *)
(* transaction, which locks the row, around a hook that calls the PDS.     *)
(* The hook reads the texts without the request, outside the transaction,  *)
(* and finds what was committed before the save; the import endpoint       *)
(* commits first, reads afterwards and calls the PDS without the lock.  A  *)
(* call to the PDS is not undone by a rollback.                            *)
(*                                                                         *)
(* Simplifications: one argument, which is not created again; its text is  *)
(* the number of its last edit, the uri of a record that of the save that  *)
(* created it; a tree is its topic's name; the sync of an import reads the *)
(* texts with the row, and its last update reads and writes the row at     *)
(* once; the rows of the argument follow its record at once for the        *)
(* translation worker, which reads the record again anyhow, and at any     *)
(* later time for the cross-poster.                                        *)
(* Bounds: Budgets (the numbers of saves and publications a behaviour may  *)
(* have together, each up to MaxSaves), MaxFaults (failed calls and        *)
(* crashes), MaxPosted (records whose posts are followed).                 *)
(***************************************************************************)
EXTENDS Integers, FiniteSets, SequencesExt

CONSTANTS Trees, Editors, Live, Backfill, MaxSaves, Budgets, MaxFaults,
          MaxPosted, None

ASSUME EditorialAssumption ==
  /\ {MaxSaves, MaxFaults, MaxPosted} \subseteq Nat
  /\ Budgets \subseteq (0..MaxSaves) \X (0..MaxSaves)
  /\ Live # Backfill
  /\ None \notin Trees \cup Nat
  /\ IsFiniteSet(Editors)

Consumers == {Live, Backfill}

VARIABLES
  ballot,    \* its row (published), its account, the stored password, and
             \* how far the save that publishes it has come
  doc,       \* the committed row of the argument
  save,      \* an editor's save of the argument: its number, and the row it
             \* was read from, and later the one it will commit
  mishaps,   \* history: the saves overtaken by another, failed or cut short
  record,    \* the argument records: the text each holds, who wrote it last,
             \* whether it is there
  snapshots, \* the snapshot records of the community repo, as trees
  history,   \* app_taxonomy_snapshot: the record of each version
  request,   \* an editor's request to persist a tree
  told,      \* the tree whose publication an editor saw confirmed last
  pos,       \* the snapshots a consumer has handled
  backfill,  \* new, running or finished for good
  behind,    \* history: it ended short of what was shown, and was the last to show
  shown,     \* the tree in app_taxonomy_node
  topic,     \* the translation of its topic, and whether the topic was renamed
             \* while it was translated
  worker,    \* the translation in progress
  posting,   \* the argument the cross-poster works on
  posts,     \* how many posts an argument has, and whether its row names one
  saves, publications, faults

cms == <<ballot, doc, save, mishaps>>
tree == <<snapshots, history, request, told>>
readmodel == <<pos, backfill, behind, shown, topic>>
crossposts == <<posting, posts>>
counts == <<saves, publications>>
vars == <<cms, record, tree, readmodel, worker, crossposts, counts, faults>>

Uris == 1..MaxSaves
Texts == 0..MaxSaves
Rows == [status : {"none", "draft", "published", "deleted"}, text : Texts,
         uri : Uris \cup {None}]
NoRow == [status |-> "none", text |-> 0, uri |-> None]
NoSave == [step |-> "idle", row |-> NoRow, id |-> 0]
NoRecord == [text |-> 0, by |-> "nobody", there |-> FALSE]
NoRequest == [step |-> "idle", tree |-> None, rec |-> 0, version |-> 0]
Resting == [on |-> "nothing", uri |-> None, saw |-> None, overtaken |-> FALSE]

TypeOK ==
  /\ ballot \in [published : BOOLEAN, account : BOOLEAN, password : BOOLEAN,
                 step : {"idle", "created", "stored"}]
  /\ doc \in Rows
  /\ save \in [Editors -> [step : {"idle", "open", "hook", "called", "delete", "deleted",
                                    "sync", "call", "synced"},
                            row : Rows, id : 0..MaxSaves]]
  /\ mishaps \in Nat
  /\ record \in [Uris -> [text : Texts, by : {"nobody", "cms", "worker"}, there : BOOLEAN]]
  /\ snapshots \in Seq(Trees)
  /\ history \in Seq(DOMAIN snapshots)
  /\ request \in [Editors -> [step : {"idle", "read", "written"},
                                 tree : Trees \cup {None}, rec : 0..Len(snapshots),
                                 version : 0..MaxSaves]]
  /\ pos \in [Consumers -> 0..Len(snapshots)]
  /\ backfill \in {"new", "running", "finished"} /\ behind \in BOOLEAN
  /\ {told, shown} \subseteq Trees \cup {None}
  /\ topic \in [of : Trees \cup {None}, overtaken : BOOLEAN]
  /\ worker \in [on : {"nothing", "argument", "topic", "halted"}, uri : Uris \cup {None},
                 saw : Texts \cup Trees \cup {None}, overtaken : BOOLEAN]
  /\ posting \in [step : {"idle", "read", "posted"}, uri : Uris \cup {None}]
  /\ posts \in [Uris -> [made : 0..(MaxFaults + 1), linked : BOOLEAN]]
  /\ {saves, publications} \subseteq 0..MaxSaves /\ faults \in 0..MaxFaults

Init ==
  /\ ballot = [published |-> FALSE, account |-> FALSE, password |-> FALSE, step |-> "idle"]
  /\ doc = NoRow /\ save = [e \in Editors |-> NoSave] /\ mishaps = 0
  /\ record = [u \in Uris |-> NoRecord]
  /\ snapshots = << >> /\ history = << >>
  /\ request = [p \in Editors |-> NoRequest]
  /\ told = None
  /\ pos = [c \in Consumers |-> 0] /\ backfill = "new" /\ behind = FALSE
  /\ shown = None
  /\ topic = [of |-> None, overtaken |-> FALSE]
  /\ worker = Resting
  /\ posting = [step |-> "idle", uri |-> None]
  /\ posts = [u \in Uris |-> [made |-> 0, linked |-> FALSE]]
  /\ saves = 0 /\ publications = 0 /\ faults = 0

Saves == saves' = saves + 1 /\ <<saves', publications>> \in Budgets /\ UNCHANGED publications
Publishes ==
  publications' = publications + 1 /\ <<saves, publications'>> \in Budgets /\ UNCHANGED saves
Fails == faults < MaxFaults /\ faults' = faults + 1

-----------------------------------------------------------------------------
(***************************************************************************)
(* The ballot: the save that publishes it makes its community account.     *)
(***************************************************************************)
BallotSteps ==
  UNCHANGED <<doc, save, mishaps, record, tree, readmodel, worker, crossposts, counts>>

\* Refused for good once the handle is taken.
CreateAccount ==
  /\ ~ballot.published /\ ballot.step = "idle"
  /\ ~ballot.account
  /\ ballot' = [ballot EXCEPT !.account = TRUE, !.step = "created"]
  /\ BallotSteps /\ UNCHANGED faults

StoreAccount ==
  /\ ballot.step = "created"
  /\ ballot' = [ballot EXCEPT !.password = TRUE, !.step = "stored"]
  /\ BallotSteps /\ UNCHANGED faults

\* The hook names the account in the row, and the transaction commits.
PublishBallot ==
  /\ ballot.step = "stored"
  /\ ballot' = [ballot EXCEPT !.published = TRUE, !.step = "idle"]
  /\ BallotSteps /\ UNCHANGED faults

FailBallot ==
  /\ ballot.step # "idle" /\ Fails
  /\ ballot' = [ballot EXCEPT !.step = "idle"]
  /\ BallotSteps
-----------------------------------------------------------------------------
(***************************************************************************)
(* The official argument.                                                  *)
(***************************************************************************)
ArgumentSteps == UNCHANGED <<ballot, tree, readmodel, crossposts>>

Spoils(n) == mishaps' = mishaps + n
If(condition) == IF condition THEN 1 ELSE 0

\* From the UPDATE or DELETE to the commit.
Locks(e) == save[e].step \in {"hook", "called", "delete", "deleted"}

Open(e) ==
  /\ save[e].step = "idle" /\ doc.status # "deleted"
  /\ save' = [save EXCEPT ![e] = [NoSave EXCEPT !.step = "open", !.row = doc]]
  /\ ArgumentSteps /\ UNCHANGED <<doc, record, mishaps, worker, counts, faults>>

\* Given up, or refused because the row is gone.
Close(e) ==
  /\ save[e].step = "open"
  /\ save' = [save EXCEPT ![e] = NoSave]
  /\ ArgumentSteps /\ UNCHANGED <<doc, record, mishaps, worker, counts, faults>>

Begins(e, step, row) ==
  /\ save[e].step = "open" /\ doc.status # "deleted"
  /\ save[e].row.status = "none" <=> doc.status = "none"
  /\ ~\E f \in Editors : Locks(f)
  /\ Saves
  /\ save' = [save EXCEPT ![e] = [step |-> step, row |-> row, id |-> saves']]
  /\ ArgumentSteps

\* No row is found outside the transaction: the hook fails, which is logged,
\* and a row created as published has no record.
Create(e, status) ==
  /\ doc.status = "none"
  /\ Begins(e, "called", [status |-> status, text |-> saves', uri |-> None])
  /\ UNCHANGED <<doc, record, mishaps, worker, faults>>

Edit(e, status, text) ==
  /\ doc.status # "none"
  /\ Begins(e, "hook", [save[e].row EXCEPT !.status = status, !.text = text])
  /\ text \in {save[e].row.text, saves'}
  /\ UNCHANGED <<doc, record, mishaps, worker, faults>>

Built(text) == [text |-> text, by |-> "cms", there |-> TRUE]

\* What a row's status asks for: create, put or delete; NewUri is the uri
\* the row then has.
Calls(row) == row.status = "published" \/ row.uri # None

Synced(row, id, text) ==
  record' = [record EXCEPT ![IF row.uri = None THEN id ELSE row.uri] =
               IF row.status = "published" THEN Built(text) ELSE [@ EXCEPT !.there = FALSE]]

NewUri(row, id) ==
  IF row.status # "published" THEN None ELSE IF row.uri = None THEN id ELSE row.uri

\* Mutant: unpublishing forgets the uri without deleting the record.
CallHookForgetting(e) ==
  LET row == save[e].row IN
  /\ save[e].step = "hook" /\ (Calls(row) => ballot.password)
  /\ IF row.status = "published" THEN Synced(row, save[e].id, doc.text) ELSE UNCHANGED record
  /\ save' = [save EXCEPT ![e].step = "called", ![e].row.uri = NewUri(row, save[e].id)]
  /\ Spoils(If(row.uri # doc.uri))
  /\ ArgumentSteps /\ UNCHANGED <<doc, worker, counts, faults>>

\* The record is built from the committed row.  The uri is the one read before
\* the row was locked: another save may have changed it.
CallHook(e) ==
  LET row == save[e].row IN
  /\ save[e].step = "hook" /\ (Calls(row) => ballot.password)
  /\ Synced(row, save[e].id, doc.text)
  /\ save' = [save EXCEPT ![e].step = "called", ![e].row.uri = NewUri(row, save[e].id)]
  /\ Spoils(If(row.uri # doc.uri))
  /\ ArgumentSteps /\ UNCHANGED <<doc, worker, counts, faults>>

\* A call fails without the password, or by a fault, before or after the PDS
\* has done what it was asked.
FailedCall(row, id, text) ==
  \/ ~ballot.password /\ UNCHANGED <<record, faults>>
  \/ ballot.password /\ Fails /\ (UNCHANGED record \/ Synced(row, id, text))

\* Logged; only a first publication goes back to draft.
FailHook(e) ==
  LET row == save[e].row IN
  /\ save[e].step = "hook" /\ Calls(row) /\ FailedCall(row, save[e].id, doc.text)
  /\ save' = [save EXCEPT ![e].step = "called",
                          ![e].row.status = IF row.uri = None THEN "draft" ELSE @]
  /\ Spoils(1 + If(row.uri # doc.uri))
  /\ ArgumentSteps /\ UNCHANGED <<doc, worker, counts>>

CommitSave(e) ==
  /\ save[e].step = "called"
  /\ doc' = save[e].row /\ save' = [save EXCEPT ![e] = NoSave]
  /\ ArgumentSteps /\ UNCHANGED <<record, mishaps, worker, counts, faults>>

\* afterDelete, before the transaction of the delete commits.
Delete(e) ==
  /\ doc.status # "none"
  /\ Begins(e, "delete", [save[e].row EXCEPT !.status = "deleted"])
  /\ UNCHANGED <<doc, record, mishaps, worker, faults>>

DeleteRecord(e) ==
  LET row == save[e].row IN
  /\ save[e].step = "delete"
  /\ \/ Synced(row, save[e].id, doc.text) /\ Spoils(If(row.uri # doc.uri)) /\ UNCHANGED faults
     \/ row.uri # None /\ FailedCall(row, save[e].id, doc.text)
        /\ Spoils(1 + If(row.uri # doc.uri))
  /\ save' = [save EXCEPT ![e].step = "deleted"]
  /\ ArgumentSteps /\ UNCHANGED <<doc, worker, counts>>

CommitDelete(e) ==
  /\ save[e].step = "deleted"
  /\ doc' = [NoRow EXCEPT !.status = "deleted"] /\ save' = [save EXCEPT ![e] = NoSave]
  /\ ArgumentSteps /\ UNCHANGED <<record, mishaps, worker, counts, faults>>

\* The import of one item: an invalid file changes nothing; the row read is
\* committed without the hook, then read again and brought to the PDS.
Import(e, publish) ==
  LET row == save[e].row IN
  /\ Begins(e, "sync", [row EXCEPT !.text = saves',
                                   !.status = IF publish THEN "published"
                                              ELSE IF @ = "none" THEN "draft" ELSE @])
  /\ doc' = save'[e].row
  /\ Spoils(If(row.uri # doc.uri \/ row.status # doc.status))
  /\ UNCHANGED <<record, worker, faults>>

ReadAgain(e) ==
  /\ save[e].step = "sync"
  /\ save' = [save EXCEPT ![e] = IF doc.status = "published"
                                 THEN [@ EXCEPT !.step = "call", !.row = doc] ELSE NoSave]
  /\ ArgumentSteps /\ UNCHANGED <<doc, record, mishaps, worker, counts, faults>>

\* Overtaken when another save has the row, or had it since it was read.
Sync(e) ==
  LET row == save[e].row IN
  /\ save[e].step = "call" /\ ballot.password
  /\ Synced(row, save[e].id, row.text)
  /\ save' = [save EXCEPT ![e] = IF row.uri = None
                THEN [@ EXCEPT !.step = "synced", !.row.uri = save[e].id] ELSE NoSave]
  /\ Spoils(If(row.uri # None /\ (\/ \E f \in Editors : Locks(f)
                                  \/ doc.status # "published" \/ doc.uri # row.uri)))
  /\ ArgumentSteps /\ UNCHANGED <<doc, worker, counts, faults>>

FailSync(e) ==
  /\ save[e].step = "call" /\ FailedCall(save[e].row, save[e].id, save[e].row.text)
  /\ save' = [save EXCEPT ![e] = NoSave]
  /\ Spoils(1)
  /\ ArgumentSteps /\ UNCHANGED <<doc, worker, counts>>

\* By id: an error when the row is gone.
CommitSync(e) ==
  /\ save[e].step = "synced" /\ ~\E f \in Editors : Locks(f)
  /\ doc' = IF doc.status = "deleted" THEN doc ELSE [doc EXCEPT !.uri = save[e].row.uri]
  /\ save' = [save EXCEPT ![e] = NoSave]
  /\ Spoils(If(doc.status # "published" \/ doc.uri # None))
  /\ ArgumentSteps /\ UNCHANGED <<record, worker, counts, faults>>
-----------------------------------------------------------------------------
(***************************************************************************)
(* The taxonomy: persisting a tree reads the last version, writes the      *)
(* snapshot record and then the version's row.                             *)
(***************************************************************************)
TreeSteps == UNCHANGED <<cms, record, readmodel, worker, crossposts>>

\* Mutant: a tree that was ever published is taken for published.
PublishedBefore(t) == \E v \in DOMAIN history : snapshots[history[v]] = t

\* Only the last version's hash is compared.
Unchanged(t) == history # << >> /\ snapshots[Last(history)] = t

Persist(p, t) ==
  /\ request[p].step = "idle" /\ Publishes
  /\ IF Unchanged(t)
     THEN told' = t /\ UNCHANGED request
     ELSE /\ request' = [request EXCEPT ![p] = [step |-> "read", tree |-> t, rec |-> 0,
                                                version |-> Len(history) + 1]]
          /\ UNCHANGED told
  /\ TreeSteps /\ UNCHANGED <<snapshots, history, faults>>

WriteSnapshot(p) ==
  /\ request[p].step = "read" /\ ballot.password
  /\ snapshots' = Append(snapshots, request[p].tree)
  /\ request' = [request EXCEPT ![p].step = "written", ![p].rec = Len(snapshots')]
  /\ TreeSteps /\ UNCHANGED <<history, told, counts, faults>>

\* (ballot_rkey, version) is the key of the table: of two requests that read
\* the same last version the second gets an error, its record published.
RecordVersion(p) ==
  /\ request[p].step = "written"
  /\ request' = [request EXCEPT ![p] = NoRequest]
  /\ IF request[p].version > Len(history)
     THEN history' = Append(history, request[p].rec) /\ told' = request[p].tree
     ELSE UNCHANGED <<history, told>>
  /\ TreeSteps /\ UNCHANGED <<snapshots, counts, faults>>

\* The answer of the PDS can be lost, or the row not inserted.
FailPersist(p) ==
  /\ \/ request[p].step = "read" /\ ~ballot.password /\ UNCHANGED <<snapshots, faults>>
     \/ request[p].step = "read" /\ ballot.password /\ Fails
        /\ snapshots' \in {snapshots, Append(snapshots, request[p].tree)}
     \/ request[p].step = "written" /\ Fails /\ UNCHANGED snapshots
  /\ request' = [request EXCEPT ![p] = NoRequest]
  /\ TreeSteps /\ UNCHANGED <<history, told, counts>>

\* The CMS dies: open transactions roll back, requests end.
CrashCMS ==
  /\ Fails
  /\ \/ ballot.step # "idle"
     \/ \E e \in Editors : save[e].step \notin {"idle", "open"} \/ request[e] # NoRequest
  /\ ballot' = [ballot EXCEPT !.step = "idle"]
  /\ save' = [e \in Editors |-> IF save[e].step = "open" THEN save[e] ELSE NoSave]
  /\ Spoils(Cardinality({e \in Editors : save[e].step \in {"called", "deleted", "synced"}}))
  /\ request' = [p \in Editors |-> NoRequest]
  /\ UNCHANGED <<doc, record, snapshots, history, told, readmodel, worker, crossposts, counts>>
-----------------------------------------------------------------------------
(***************************************************************************)
(* The indexer projects each snapshot it takes, in one transaction, and    *)
(* whatever its version; a trigger drops the translations of a renamed     *)
(* topic.                                                                  *)
(***************************************************************************)
Take(c) ==
  /\ pos[c] < Len(snapshots)
  /\ c = Backfill => backfill = "running"
  /\ pos' = [pos EXCEPT ![c] = @ + 1]
  /\ shown' = snapshots[pos'[c]]
  /\ IF shown' = shown
     THEN UNCHANGED <<topic, worker>>
     ELSE /\ topic' = [of |-> None, overtaken |-> FALSE]
          /\ worker' = [worker EXCEPT !.overtaken = worker.on = "topic"]
  /\ behind' = (behind /\ c # Live)
  /\ UNCHANGED <<cms, record, tree, backfill, crossposts, counts, faults>>

StartBackfill ==
  /\ backfill = "new" /\ snapshots # << >>
  /\ backfill' = "running"
  /\ UNCHANGED <<cms, record, tree, pos, behind, shown, topic, worker, crossposts, counts, faults>>

\* After some seconds without an event, however far it has come.
FinishBackfill ==
  /\ backfill = "running"
  /\ backfill' = "finished"
  /\ behind' = (pos[Backfill] \in 1..pos[Live] - 1)
  /\ UNCHANGED <<cms, record, tree, pos, shown, topic, worker, crossposts, counts, faults>>
-----------------------------------------------------------------------------
(***************************************************************************)
(* The translation worker.  It reads a record or a row, asks the model for *)
(* minutes, and writes back what it read with the translations added.      *)
(***************************************************************************)
WorkerSteps == UNCHANGED <<cms, tree, pos, backfill, behind, shown, crossposts, counts>>

\* The CMS writes the record without the worker's translations.
ReadArgument(u) ==
  /\ worker.on = "nothing"
  /\ record[u].there /\ record[u].by = "cms"
  /\ worker' = [Resting EXCEPT !.on = "argument", !.uri = u, !.saw = record[u].text]
  /\ WorkerSteps /\ UNCHANGED <<record, topic, faults>>

\* No swap on the cid it read: an edit made meanwhile is undone, and a record
\* deleted meanwhile is there again.
Translated == [record EXCEPT ![worker.uri] = [text |-> worker.saw, by |-> "worker",
                                              there |-> TRUE]]

PutTranslated ==
  /\ worker.on = "argument"
  /\ record' = Translated
  /\ worker' = Resting
  /\ WorkerSteps /\ UNCHANGED <<topic, faults>>

\* A failed write halts the worker until it is restarted.
FailPut ==
  /\ worker.on = "argument" /\ Fails
  /\ record' \in {record, Translated}
  /\ worker' = [Resting EXCEPT !.on = "halted"]
  /\ WorkerSteps /\ UNCHANGED topic

\* The model does not answer, the update fails, or the process is restarted.
DropTranslation ==
  /\ worker # Resting
  /\ worker' = Resting
  /\ WorkerSteps /\ UNCHANGED <<record, topic, faults>>

ReadTopic ==
  /\ worker.on = "nothing" /\ shown # None /\ topic.of = None
  /\ worker' = [Resting EXCEPT !.on = "topic", !.saw = shown]
  /\ WorkerSteps /\ UNCHANGED <<record, topic, faults>>

\* By id, whatever the row says now.
UpdateTopic ==
  /\ worker.on = "topic"
  /\ topic' = [of |-> worker.saw, overtaken |-> worker.overtaken]
  /\ worker' = Resting
  /\ WorkerSteps /\ UNCHANGED <<record, faults>>
-----------------------------------------------------------------------------
(***************************************************************************)
(* The cross-poster.                                                       *)
(***************************************************************************)
PostSteps == UNCHANGED <<cms, record, tree, readmodel, worker, counts>>

\* The row may be behind the record: a deleted argument can still be read.
ReadUnposted(u) ==
  /\ posting.step = "idle" /\ record[u].by # "nobody" /\ ~posts[u].linked
  /\ Cardinality({u} \cup {v \in Uris : posts[v].made > 0}) <= MaxPosted
  /\ posting' = [step |-> "read", uri |-> u]
  /\ PostSteps /\ UNCHANGED <<posts, faults>>

\* Mutant: goes on posting the same argument.
CreatePostAgain ==
  /\ posting.step = "read"
  /\ posts' = [posts EXCEPT ![posting.uri].made = @ + 1]
  /\ PostSteps /\ UNCHANGED <<posting, faults>>

CreatePost ==
  /\ posting.step = "read"
  /\ posts' = [posts EXCEPT ![posting.uri].made = @ + 1]
  /\ posting' = [posting EXCEPT !.step = "posted"]
  /\ PostSteps /\ UNCHANGED faults

\* Mutant: the row that remembers the post is not written.
LinkNothing ==
  /\ posting.step = "posted"
  /\ posting' = [step |-> "idle", uri |-> None]
  /\ PostSteps /\ UNCHANGED <<posts, faults>>

LinkPost ==
  /\ posting.step = "posted"
  /\ posts' = [posts EXCEPT ![posting.uri].linked = TRUE]
  /\ posting' = [step |-> "idle", uri |-> None]
  /\ PostSteps /\ UNCHANGED faults

\* Before the post, after it, or in between: the answer is lost.
FailPost ==
  /\ posting.step # "idle" /\ Fails
  /\ \/ UNCHANGED posts
     \/ posting.step = "read" /\ posts' = [posts EXCEPT ![posting.uri].made = @ + 1]
  /\ posting' = [step |-> "idle", uri |-> None]
  /\ PostSteps
-----------------------------------------------------------------------------
Publishing ==
  \/ CreateAccount \/ StoreAccount \/ PublishBallot \/ FailBallot
  \/ \E p \in Editors : \/ \E t \in Trees : Persist(p, t)
                        \/ WriteSnapshot(p) \/ RecordVersion(p) \/ FailPersist(p)
  \/ CrashCMS

Saving == \E e \in Editors :
  \/ Open(e) \/ Close(e)
  \/ \E status \in {"draft", "published"} :
       Create(e, status) \/ \E text \in Texts : Edit(e, status, text)
  \/ CallHook(e) \/ FailHook(e) \/ CommitSave(e)
  \/ Delete(e) \/ DeleteRecord(e) \/ CommitDelete(e)
  \/ \E publish \in BOOLEAN : Import(e, publish)
  \/ ReadAgain(e) \/ Sync(e) \/ FailSync(e) \/ CommitSync(e)

Working ==
  \/ \E c \in Consumers : Take(c)
  \/ StartBackfill \/ FinishBackfill
  \/ \E u \in Uris : ReadArgument(u) \/ ReadUnposted(u)
  \/ PutTranslated \/ FailPut \/ DropTranslation \/ ReadTopic \/ UpdateTopic
  \/ CreatePost \/ LinkPost \/ FailPost

Next == Publishing \/ Saving \/ Working

Spec == Init /\ [][Next]_vars

-----------------------------------------------------------------------------
(***************************************************************************)
(* Properties.                                                             *)
(***************************************************************************)
\* Nothing is published on an account whose password is lost: a ballot is
\* shown as published, and its repo written, only once the password of its
\* account is stored; and an account without a password that no save is about
\* to store is what a failed save left behind (it blocks the handle for good).
PublishedIsBacked ==
  /\ ballot.published \/ (\E u \in Uris : record[u].by # "nobody") \/ snapshots # << >>
     => ballot.password
  /\ ballot.password => ballot.account
  /\ ballot.account /\ ~ballot.password => ballot.step = "created" \/ faults > 0

\* Between saves readers see the argument where the editors decided it to be,
\* up to what the translation worker put back: the records the CMS wrote that
\* are there although the row is gone, not published or names another are one
\* at most for each mishap, a save that was overtaken by another, failed or was
\* cut short; and without one the record the row names is there.
Stray(u) == record[u].there /\ record[u].by = "cms"
              /\ ~(doc.status = "published" /\ doc.uri = u)

NoneIsSaving == \A e \in Editors : save[e].step \in {"idle", "open"}

ArgumentSettles ==
  NoneIsSaving =>
    /\ Cardinality({u \in Uris : Stray(u)}) <= mishaps
    /\ mishaps = 0 /\ doc.uri # None => doc.status = "published" /\ record[doc.uri].there

\* "Keeps the public PDS record in sync with the CMS source of truth": between
\* saves, without a mishap, the record the row names holds the row's text,
\* unless the translation worker wrote it.
RecordInSync ==
  NoneIsSaving /\ mishaps = 0 =>
    \A u \in Uris : doc.uri = u /\ record[u].by = "cms" => record[u].text = doc.text

\* Once no request is under way and the snapshots are projected, readers see
\* the tree whose publication an editor saw confirmed last, unless the last
\* record is one whose publisher got an error, or a backfill that ended before
\* it had come as far as the live consumer was the last to show a tree;
\* whatever failed or raced.  Its topic is translated as it is named, unless
\* the renaming overtook a translation.
TreeSettles ==
  /\ /\ \A p \in Editors : request[p].step = "idle"
     /\ pos[Live] = Len(snapshots) /\ backfill # "running"
     => shown = told \/ Len(snapshots) \notin Range(history) \/ behind
  /\ topic.of \in {None, shown} \/ topic.overtaken

\* An argument is posted once, and once more at most for each failure.
PostsAccounted ==
  \A u \in Uris :
    posts[u].made <= faults
      + (IF posts[u].linked \/ posting = [step |-> "posted", uri |-> u] THEN 1 ELSE 0)
=============================================================================
