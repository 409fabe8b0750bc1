# TLA+ verification of POLTR

POLTR is a deliberation platform on the AT protocol: participants write
arguments on ballots into their own repositories, a trusted worker republishes
the accepted ones in the ballot's community repository, and a lottery of
participants reviews each argument blindly. This directory holds TLA+ modules
of its core protocols (peer review, acceptance under a quota), of the read model
the indexer keeps, of signing in, of what the editors publish, of the taxonomy
editor with its calculator, of the screens of the web client that keep state across
calls, and of the Bluesky poller; the TLC configurations that check them; and
theorems that TLAPS checks.

## 1. The system

### Parts and their state

| Part | Code | State it owns or writes | Operations |
|---|---|---|---|
| appview API | `services/appview/src` | sessions, pending logins and registrations, `app_content_creations` (the quota ledger), `app_peerreview_invitations.checked_in_at`, user repos through the PDS | `create_argument`, comments, ratings, checkIn / activity / submit of a review, magic links, account provisioning |
| indexer | `services/indexer/src` | every projection table (`app_arguments`, `app_peerreviews`, `app_peerreview_responses`, ...), `app_acceptance_queue` (insert), firehose cursor | one handler per record type, quorum check, backfill, the finaliser endpoint, Bluesky poller |
| community-writer | `services/community-writer/src` | community repos through the PDS, queue rows (`done`, `rejected`), ledger rows of direct writes | acceptance drain loop, assignment of reviewers, translation, cross-posting |
| PDS | external | user and community repositories | createRecord, getRecord, putRecord, firehose |
| Postgres | `infra/scripts/postgres/db-setup.sql` | all tables, `app_response_gate()`, NOTIFY triggers | row locks, advisory locks, unique keys |
| cron jobs | `infra/kube/cronjobs.yaml` | none | call the finaliser every minute, the backfill every hour |
| CMS | `services/cms` | ballots, official arguments, taxonomies and their versions; the tree in the taxonomy panel of a browser | creates community accounts; writes, rewrites and deletes records of community repos |
| calculator | `services/calculator` | none between calls | proposals for a taxonomy: induce, classify, grow, branch; the pre-check of an argument |
| web client | `services/frontend` | in the browser: query caches, drafts, the overlay's history | calls of the appview, answered late, in any order, or not at all |
| eidproto, archived code | `services/*` | identity prototype, old screens | no part in the protocols below |

### How they interact

    user ── appview ──(createRecord)──> user repo ──firehose──> indexer
                │                                                  │ stage
                │ reserve / set_uri / release                      v
                └──────────> quota ledger <──count── community-writer <─NOTIFY─ queue
                                                        │ createRecord
                                                        v
    projections <── indexer <──firehose── community repo

The appview, the indexer and the community-writer never call each other: they
meet in Postgres and through the repositories. A record is *true* once it is in
the community repo; the tables are a projection that lags behind. A review is
touched by all of them: the indexer seeds it and flips it to
`provisional_closed`, the appview guards check-ins by a row lock and slides the
grace window, the writer gates responses, the finaliser closes and decides.

### What is hard

* **Interleaving.** Autocommit statements of the indexer, transactions of the
  appview and of several writers, a backfill beside the live firehose consumer.
* **Two stores.** The writer creates a community record inside a Postgres
  transaction that can still roll back; the appview reserves in Postgres before
  it writes to the PDS and names the slot afterwards.
* **Delivery.** Firehose and queue deliver at least once.
* **Time.** A grace window that reviewers' activity slides; a PDS call that
  times out although it succeeded.
* **Stale reads.** The quorum check counts, then flips; the gate is evaluated at
  submit, and again when the response is drained; counters are counted, then
  written; the translation worker puts back a record it read minutes ago; a
  request extends a session it found valid in another statement.
* **Programs that meet on one row.** Two editors' saves of one argument: the second acts
  on what it read before the first committed, and the hook of either calls the PDS.
* **An end that is only assumed.** The backfill is over after ten seconds without an
  event, whether or not it has caught up.
* **Late answers in a browser.** Requests are rarely cancelled: an answer finds another
  filter, another comment, a closed dialog, or the tree of a later load. Values are
  shown before they are stored, and have to be taken back when the write fails.
* **Replay.** A backfill, and a restart behind the cursor, bring deleted rows back
  to life until they reach the deletion.
* **Steps without a transaction.** Nearly all of signing in, provisioning and
  publishing is a series of statements and PDS calls; none undoes the one before.

### What makes each component correct

* *Peer review*: every vote is the response of a drawn and checked-in participant,
  who has one, for good; a review leaves `open` only on decisive votes; nobody checks in after
  that; an outcome is the majority at a moment after the close, is written only
  on a closed review and never changes; in the absence of failures every
  decisive review closes and every closed one is decided.
* *Acceptance and quota*: a row marked `done` is published, one marked
  `rejected` is not; the ledger stays within both caps although two programs
  fill it; no more arguments are published than the cap; every original is
  decided, every written request answered.
* *Projection*: a user counts once, however often it rates; what was retracted
  stays hidden and nothing of an eligible author is missing once the commits are
  handled, up to what an early end of the backfill left unread; counters and status
  agree with the rows.
* *Signing in*: a code is compared with no more guesses than allowed and a row
  redeemed once; a registration stands on an account of the PDS; an account left
  behind has a failure to blame; an ended session stays ended.
* *Editorial*: nothing is published on an account without a password; the records of
  an argument are where the editors decided, up to saves that met or failed, with the
  text of its row (they are not: finding 3); readers see the tree confirmed last; an
  argument is posted once.
* *Taxonomy*: the topics are a tree whatever is moved, split or merged; no argument
  falls out or is doubled unseen; what the panel calls persisted was published, and
  readers see the newest snapshot.
* *Web client*: what rests is what is stored: ratings, hearts, the comments of a
  thread; the feed joins its pages without a gap; a reviewer's work survives
  refusals and reloads; only a text that was checked is sent; the back button leads to
  the view beneath.
* *Bluesky poller*: a reply that was walked is imported (it is not: finding 4).
* *Assignment caps*: daily and open invitations of a user stay within their limits
  (not modelled, section 6).

## 2. Modules

| Module | Role |
|---|---|
| `PeerReview` | the peer review: five programs as interleaved steps |
| `ReviewLifecycle` | what a peer review promises, without repositories, queues or locks |
| `Acceptance` | arguments from a user repo to the community repo, and the quota ledger |
| `Projection` | one argument's read model under a live consumer and a backfill |
| `Accounts` | starts, verifications, provisioning and sessions |
| `Editorial` | what the CMS publishes, and the workers that touch it afterwards |
| `TopicTree` | a topic tree, what editor and calculator do to it, and the passes that project it |
| `Taxonomy` | the taxonomy panel, the calculator's proposals, publishing, and the readers' tables |
| `Overlay`, `Feed`, `Composer`, `ReviewForm`, `Rating`, `Thread`, `Hearts` | one screen of the web client each, with the server side it meets |
| `Client` | the web client: its screens side by side |
| `BskyPoller` | passes of the Bluesky poller over one argument |
| `MCPeerReview`, `MCAcceptance`, `MCProjection`, `MCAccounts`, `MCEditorial`, `MCTaxonomy`, `MCClient`, `MCBskyPoller` | constants and symmetry for TLC |
| `PeerReviewProofs` | the inductive invariant of `PeerReview` and its theorems; the queue agrees with the community repo; without failures no decision is left lying |
| `PeerReviewRefinement` | `PeerReview` implements `ReviewLifecycle` |
| `AcceptanceProofs` | the queue agrees with the community repo; the ledger and the published arguments keep the caps |
| `ProjectionProofs`, `AccountsProofs`, `EditorialProofs`, `TaxonomyProofs`, `ClientProofs` | all properties of `Projection`, `Accounts`, `Editorial`, `Taxonomy` and of the screens of `Client` |

The definitions whose comment starts with *Mutant* are deliberate bugs. They
appear in no specification; each of them, put in the place of the definition it
precedes, makes a checked property fail. They document what the property is
sensitive to.

### PeerReview

| Variable | In the code |
|---|---|
| `argument`, `status` | `app_arguments`: row and `deleted` flag, `peerreview_status` |
| `review` | `app_peerreviews.state`; `"none"` before the row is seeded |
| `expired` | the arguments with `grace_until < NOW()` |
| `rowLock` | the `SELECT ... FOR UPDATE` lock a check-in holds on its review row |
| `invitation`, `checkedIn` | `app_peerreview_invitations.invited`, `.checked_in_at` |
| `original`, `stage` | the response in a participant's own repo, with the reviewer it names, and its `app_acceptance_queue` row |
| `writer` | where a writer's transaction stands (`gated`, `absent`, `published`) |
| `community`, `response` | the response record in the community repo, by the owner of the original; its row in `app_peerreview_responses`, by the reviewer the record names |
| `uncounted` | history: arguments with a row that a later invitation made count |
| `indexer` | what an indexer still has to do for the event in hand (`seed`, `count`, `flip`) |
| `finaliser` | per argument: nothing, closed but not counted, or counted with this outcome |
| `failures` | crashes and failed calls so far |

A step is one transaction, one autocommit statement or one PDS call. The
actions follow the programs:

* *Assignment*: `Assign` (`peer_review_assign.py`): the lottery draws or passes
  over a user who is not the author and has no row yet.
* *Appview* (`reviews.py`): `BeginCheckIn` / `CommitCheckIn` / `AbortCheckIn`
  (a transaction under the row lock), `Activity`, `Submit` (the transaction),
  `WriteOriginal` / `FailOriginal` (the PDS call after it). `WriteDirectly` is a
  record from another client of the PDS, which may name any reviewer, or one whose
  answer was lost.
* *Writer* (`acceptance.py`): `RejectResponse`, `GateResponse`, `FindResponse`
  (getRecord), `PublishResponse` / `LosePublication` (createRecord at the
  deterministic key, refused when the record exists), `CommitResponse`,
  `WriterFails`.
* *Indexer* (`record_handler.js`, `db.js`): `StageResponse`, `IndexArgument`
  then `SeedReview`, `DeleteArgument`, `IndexResponse` then `CountResponses`
  then `ProvisionalClose`, `IndexerFails`.
* *Finaliser* (`finalizeExpiredPeerReviews`): `GraceExpires`, `CloseExpired` (one
  UPDATE over all expired reviews), then per review `CountOutcome` and
  `WriteOutcome`, `FinaliserFails`.

Two identities meet here. The gate asks about the owner of the repo, and the record's
key is composed from it (`acceptance.py:217-230`); the indexer takes the voter from the
record's field `reviewer` (`db.js:906`), which nobody compares with the owner. So a row
can stand under another reviewer's name, or count for nobody until that one is
invited. What the properties claim is what remains: every row is the one response of a
participant who has checked in, whatever name it stands under.

`Triggers`, `LockedApprove`, `LockedReject`, `Outcome` and `GateAllows` are the
arithmetic of `checkReviewQuorum`, of the finaliser, and `app_response_gate()`.

### Acceptance

All state is that of one (user, ballot); the caps, ledger rows and the advisory
lock of different keys are disjoint, so they cannot influence each other.

| Variable | In the code |
|---|---|
| `request` | how far a call of `create_argument` is |
| `row`, `uri` | `app_content_creations`: row, younger than 24 h or older; its `uri` |
| `stage`, `queue` | the original and its queue row; all queue rows, oldest first |
| `writer`, `lock` | a writer's transaction; who holds `pg_advisory_xact_lock` |
| `community` | the originals that have their community record |
| `failures`, `crashes` | of the appview; of writers |

`Reserve` ... `RequestDies` are `create_argument` with
`reserve`, `set_uri` and `release` of `quota.py`, including a PDS call that
fails, one that fails after it wrote (`LoseAnswer`), and a lost process.
`Claim` ... `WriterFails` are `drain_once`, `_accept_argument` and
`_enforce_argument_quota`. A ledger row a writer has inserted is invisible until its commit
(`counted`), and blocks a `SetUri` on the same uri meanwhile.

### Projection

| Variable | In the code |
|---|---|
| `log` | the commits of each repo, in the order of the firehose |
| `pos`, `job` | how many of them a consumer has handled, and the next statement of the handler it is in |
| `row` | `app_arguments`, `app_likes`, `app_comments`, `app_comment_translations`: row, `deleted`, or moved to another subject |
| `status` | `app_comments.translation_status` |
| `count` | `app_arguments.like_count`, `.comment_count` |
| `backfill` | the `metadata` of the backfill's cursor row |
| `known` | whether `communityDids` holds the community |
| `spoilt`, `lost`, `unread` | history: derived values that nothing repairs any more; records of which a commit was dropped; records of which the backfill left a commit |

* *Repos* (`likes.py`, `comments.py`, `translator.py`): `CreateLike`,
  `CreateComment`, `Retract`, `Translate`; `WriteDirectly` and `MoveAway` are another
  client, which may put a record under any key or point it at another subject.
* *handleEvent* (`record_handler.js`, `db.js`), one action per statement that
  matters: `Ignore` or `Take` at the gate (eligibility, duplicate, community),
  `StorePut` / `StoreMove` / `StoreDelete` (`ON CONFLICT` rewrites the subject, and only
  the new one's counter is refreshed; a comment takes its ballot from the row of its
  argument; without that row the NOT NULL columns refuse it), `ReadStatus` /
  `WriteStatus`, `ReadCount` / `WriteCount`.
* *Process* (`main.js`, `backfill_handler.js`): `RefreshCommunityDids`,
  `StartBackfill`, `EndBackfill` (the pause, at any moment) and `FinishBackfill`,
  `Fail` (a statement fails: logged, the cursor moves on; a backfill stops), `Crash`
  (the cursor falls back).

### Accounts

| Variable | In the code |
|---|---|
| `creds` | `auth_creds`, by the peppered digest of the email |
| `pending` | `auth_pending_logins`, `auth_pending_registrations`: id, code, attempts, sends |
| `start`, `verif` | where a call of `start_handler`, or of a verification, stands |
| `account` | the account of the PDS a verification created |
| `session`, `checked` | `auth_sessions`; requests between the SELECT and the UPDATE of `verify_session_token` |
| `tries`, `redeemed` | history: comparisons with a code, redemptions of a row by code |

* *Start* (`magic_link_handler.py`): `Decide`, `Upsert`, `SendMail`, `FailMail`.
* *Verification*: `OpenLink` / `RedeemLink`; `TypeCode`, then `Try` or `TryGone`,
  then `Exhaust` or `RedeemCode`.
* *Provisioning* (`register.py`, `provisioning.py`): `Admit`, `CreateAccount` /
  `FailCreate`, `Provision` / `FailProvision`, `CleanUp`, `InsertCreds`, `Die`.
* *Sessions* (`login.py`, `middleware.py`): `OpenSession`, `CheckSession`,
  `ExtendSession`, `Expire`, `DropExpired`, `Logout`.

### Editorial

| Variable | In the code |
|---|---|
| `ballot` | the CMS row, the community account and its stored password, and the publishing save |
| `doc`, `save` | the committed row of the official argument; each editor's save, with the row it has read |
| `mishaps` | history: saves overtaken by another, failed or cut short |
| `record`, `snapshots` | argument and snapshot records of the community repo |
| `history`, `request`, `told` | `app_taxonomy_snapshot`; requests to persist a tree; the last confirmation |
| `pos`, `backfill`, `shown`, `topic` | the indexer's consumers; `app_taxonomy_node` and the translation of its topic |
| `behind` | history: the backfill ended early and was the last to show a tree |
| `worker` | what the translation worker has read and not yet written |
| `posting`, `posts` | the cross-poster, the posts made and the row that remembers one |

* *Ballot* (`atproto-publish.ts`, `Ballots.ts`): `CreateAccount`, `StoreAccount`,
  `PublishBallot`, `FailBallot`.
* *Argument* (`OfficialArguments.ts`), by each editor: `Open` reads the row, `Close`
  gives up; `Create`, `Edit`, then `CallHook` or `FailHook`, then `CommitSave`;
  `Delete`, `DeleteRecord`, `CommitDelete`; `Import`, `ReadAgain`, then `Sync` or
  `FailSync`, then `CommitSync`. A save locks the row from its UPDATE to its commit
  (`Locks`), but not while it is open, and an import not while it calls the PDS: so
  saves overlap.
* *Taxonomy*: `Persist`, `WriteSnapshot`, `RecordVersion`, `FailPersist`; `CrashCMS`.
* *Workers*: `Take` (the indexer), `StartBackfill`, `FinishBackfill`;
  `ReadArgument`, `PutTranslated`, `FailPut`, `DropTranslation`, `ReadTopic`,
  `UpdateTopic` (`translator.py`); `ReadUnposted`, `CreatePost`, `LinkPost`,
  `FailPost` (`crosspost.py`).

The import endpoint and the hook differ in the one thing its comment warns of
(`OfficialArguments.ts:249-257`): the hook runs inside the transaction of the save
and reads outside it, so an edit publishes the text before it (finding 3), and a row
created as published has no record.

### Taxonomy

`TopicTree` has the tree and pure operators on it: a topic is its stable key, a tree
its topics, their parents and the arguments at them. The recursions of the code over
a tree are smallest closed sets (`Path`, `Below`), so that nothing is recursive.

| Variable | In the code |
|---|---|
| `tree`, `dirty`, `listed` | state of `TaxonomyPanel.tsx`: the root, unsaved changes, "Nicht zugeordnet" |
| `opening`, `request` | what the first load still fetches; the request that locks the panel, with the tree it carries |
| `records`, `version` | snapshot records in the community repo; the newest row of `app_taxonomy_snapshot` |
| `handled`, `shown`, `live` | the records the indexer has handled; `app_taxonomy_node` / `_membership`; arguments not deleted |
| `suspect` | history: arguments put in from the list, or twice by a file or by topics of one name |

The panel can hang an argument on two nodes, although `TaxonomyPanel.tsx:10` says one
node each: the calculator's answers place arguments that the list of unplaced ones goes
on offering. `DoublesAccounted` does not deny it, it says where doubles come from; what
becomes of one is in `ShownIsPublished`: its projection violates the unique index and
is rolled back.

* *Panel*: `OpenTree`, `OpenList`, `ReloadTree`, `ReloadList`, `Edit`, `Indent`,
  `Outdent`, `HangFromList`, `ImportFile`. The panel is locked while a request runs,
  but not while it loads for the first time.
* *Calculator*: `AskCalculator`, then `AnswerInduce`, `AnswerClassify`, `AnswerGrow`
  or `AnswerBranch`: any answer that fits the form the language model has to fill in.
* *Persisting*: `Save`, then `SaveNothing`, or `Publish`, `RecordVersion`,
  `StopWaiting` and a reload; `FailRequest`.
* *Indexing*: `ProjectSnapshot` (upsert, reparent, delete orphans, replace members, in
  one transaction that a doubled argument rolls back), `FailProjection`,
  `DeleteArgument`.

### The web client

A tab is on one screen; `Client` puts the seven side by side, and a step of one
leaves the others alone. Each has its own server side.

| Module | In the code | State |
|---|---|---|
| `Overlay` | `lib/overlay` | the tab's history of stacks, the entry shown, `pushCount` |
| `Feed` | `feed/page.tsx`, `pageCache.ts`, `activity.py` | the list, its cursor and flags, requests under way, first pages in the cache |
| `Composer` | `add-argument-modal.tsx`, `precheck.py` | the step of the dialog, the text, the verdict held (an unavailable check has one too) and the key it was asked for, checks and creations under way |
| `ReviewForm` | `review-form.tsx`, `peer-review-detail.tsx` | the gate, the entries, the draft in localStorage (blanks between mount and rendering), submissions, the invitation list and its poll |
| `Rating` | `argument-detail.tsx`, `queries/arguments.ts`, `useDebouncedCallback.ts` | the rating in the repo and in the index, slider, cache, the value to roll back to, the write that waits and those under way |
| `Thread` | `comment-detail.tsx`, `commentThread.ts`, `useCommentThread.ts` | the cached list, the comment asked for and shown, the reply composer and its posts |
| `Hearts` | `useCommentThread.ts`, `likes.py` | the heart and the number in the list, writes under way, the list on its way |

Where the code promises nothing, the exemption is a history variable, and everything
else is held to: `jumped` (the browser went back several entries at once), `mixed`
(the feed's first page failed, or was asked for while answers to another one were to
come), ties in time at the end of a page, activities that carry another time than when
the list was begun (a milestone is dated by `indexed_at`, which every upsert of its
argument moves), texts with one key (the key joins title and body with a blank), `torn`
(a review form that went between the effects of its mount and the rendering of what
they restored: its draft is lost), `disturbed` (writes and queries of one rating
crossed, or a query read the index before the rating was in it),
`unread` and `crossed` (a list read before the indexer had the comment; overlapping
loads), `stirred` (overlapping clicks on one heart, or a lost answer).

A check that fails, or finds no calculator, lets the text pass: the dialog says "nicht
geladen" and asks for nothing. `SentWasChecked` therefore says that these words were
asked about, not that they were judged.

Left out: activities that are deleted while a list is shown, marks of what was seen,
scroll anchors, the countdown of the grace window, dragging, and all texts.

### BskyPoller

`answers` and `goneReplies` are Bluesky's (external); `passes` the passes of the timer,
which may overlap; `replyCount` is `bsky_reply_count`, `externs` the replies in
`app_comments`. `StartPass` counts `pollCycleCount`; `GetPosts` asks for the number of
replies and, when it has grown, `FetchThread` for the thread; `WalkReply` inserts reply
by reply, `WriteCount` ends the pass.

### Simplifications

* Every reviewer is eligible and active; the vote of a response is `APPROVE` or
  `REJECT`, its `reviewer` field some participant. Criteria and justifications
  are left out: nothing in the protocol reads them.
* One ballot. A record stands for its at-uri; keys that are composed from
  (argument, owner) are that pair.
* Time is only "in the past or not"; any length of a window is covered.
* `PeerReview` lets a writer take any unclaimed pending row; the order
  (`ORDER BY created_at FOR UPDATE SKIP LOCKED`) is kept in `Acceptance`.
* One finaliser pass at a time: `concurrencyPolicy: Forbid` in
  `cronjobs.yaml:46`. The tick is an HTTP call with a time-out and one retry, so
  a pass that is slower than 30 seconds could overlap the next one; the UPDATE
  hands every review to one of them only.
* `checkReviewQuorum` reads state and quorum, then counts; the two SELECTs are
  one step because the flip after them is guarded by the state again.
* Invitations are drawn without their caps (section 6).
* In `Projection` the sidecars of a comment are one per language it lacks;
  ratings of comments are handled like those of the argument and left out; the
  cursor of the MemoryRunner falls back to nothing replayed or everything. The pause
  that ends the backfill may come at any moment. A record that moves goes to an argument
  outside the model.
* In `Accounts` requests come from the browser that started, and an expired or
  refused link, which changes nothing, is left out. A code stands for the token,
  the short code and the mail of one start.
* In `Editorial` a text is the number of its edit and a tree the name of its topic;
  an argument that was deleted is not created again; the sync of an import reads the
  texts with the row.
* In `Taxonomy` a topic is its key, so that a file that uses a key twice, which "Export"
  never writes, is left out.
* In `Acceptance`, what the gate refuses for reasons other than the quota is a
  constant set `Unfit`.

## 3. Runs

Bounds are in the `.cfg` files; numbers of distinct states are of one run of TLC.

| Run | Instance | What it shows |
|---|---|---|
| `peer_review_races` (1,000,041 states) | 1 argument, 2 reviewers, quorum 2, 2 responses that name either reviewer, 2 writers, 2 indexers, deletion, 1 failure anywhere | whose votes count, what is undecided, that votes are final, and the refinement |
| `peer_review_progress` (156,200) | 1 argument, 2 reviewers, quorum 2, no failure, `FairSpec` | responses are resolved, decisive reviews close, grace windows end in an outcome |
| `acceptance` (35,968) | 2 requests for 2 originals of which 1 unfit, also written directly, daily cap 1, ballot cap 2, 2 writers, 1 appview failure, 1 writer crash, `FairSpec` | both caps hold in the ledger; queue and community repo agree; every original is decided, every written request answered |
| `projection` (2,703,466) | 1 argument, 3 ratings of 2 users (one without an account), 1 comment with 1 sidecar, 2 commits of users and 2 of the community, live consumer and a backfill that ends at any moment, 1 failure | votes are not inflated, retractions hold, counters and status settle |
| `accounts` (403,709) | 2 emails, 2 starts, 3 verifications, 2 attempts, 1 mail, at most 1 account, 1 failure | guesses, redemptions, accounts and sessions under every interleaving of statements |
| `editorial` (2,863,292) | 1 ballot, 2 editors with 3 saves of an argument, 3 publications of 2 trees, or one of each, 1 failure; the posts of 1 record | records without a row are accounted for, readers see the tree confirmed last; an argument is posted once |
| `taxonomy` (769,225) | 2 topics, 1 argument, files of one topic, topics of one name, 2 snapshots, 1 failure | trees stay trees, doubles are accounted for, clean means published, readers see the newest snapshot, nothing falls out |
| `client` (2,521,114) | 2 views, 2 activities, one of them a milestone that moves to the time of the other, on pages of 1 with 2 requests, texts of up to 3 words with a length of 2, 2 checks and creations, 1 criterion, 2 arguments with 1 value besides unrated and 2 writes, 3 comments of which the list holds 2, loaded one at a time, 2 hearts | all properties of the seven screens |
| `crashed_finaliser` | 1 argument, quorum 1, 1 failure | **violated**: finding 1 |
| `acceptance_lost_slot` | 1 writer failure, nothing else fails | **violated**: finding 2 |
| `editorial_out_of_sync` | 1 editor, 3 saves, nothing fails | **violated**: finding 3 |
| `unimported_replies` | 2 replies, 3 passes, 1 failure | **violated**: finding 4 |

*Why the bounds are enough.* Two reviewers with quorum 2 give a unanimous, a
tied and an early-locked review (a single rejection already locks it), two responses
of one reviewer, and two responses that are counted concurrently. Two writers and two indexers give each
pairwise race; a third one would only repeat a race of two. One failure may fall
between any two steps of any program, which covers every "crash, then retry".
Reviews of several arguments share nothing but the finaliser's UPDATE, and the
theorems cover any number of them. The caps are the smallest for which the daily cap
binds before the ballot cap. In `projection` one user has two rkeys for
one rating and a comment, so two commits of users give a second rating, a
retraction that overtakes a replay, and two refreshes of one counter at once; the
community's two commits are the argument and a sidecar, handled before or after
what they belong to. In `accounts` three verifications are two that race and one
whose attempts are used up meanwhile, and the second start replaces the code
between any two of their steps; one mail and one account make both caps bind. In
`editorial` three saves are a create and two that overlap, or create, edit and
unpublish (or delete); three snapshots of two trees are one that comes back after
another; saves and publications share nothing but the account and a crash of the CMS,
for which one of each is enough. In `taxonomy` two
topics are parent and child, or siblings that a proposal splits and merges; one
argument on both is the double; two snapshots are an old and a new one. In `client`
two requests, writes or checks under way are an early and a late answer; a third one
repeats a pair; two activities are a page and a next one, and a tie once the milestone has
moved; a length of two words makes one too short and three too long; three comments are a chain,
cut by the list. A rating is set or taken back, so one value is enough to tell the
stored one from the one shown. Comments are loaded one at a time: of a comment
shown after calls that overlapped `ThreadIsWhole` says nothing (`crossed`), and that the
rest holds with any number of calls is left to the proof. Symmetry is used in runs of invariants and
action properties only; the sets it permutes are model values no definition
tells apart.

*Deadlock* is not checked: with every original written and every review decided
the bounded instance has nothing left to do.

### Fairness

`FairSpec` assumes only what the programs do by themselves, never that a user acts.

* Weak fairness of the writer's loop (woken by NOTIFY, and polling besides), of
  each next statement of an indexer, of staging, of the finaliser's statements
  and of a grace window running out.
* Strong fairness where another actor may disable the step again and again but a
  queue exists: a waiting flip or close gets its row lock in the order of
  Postgres' lock queue; a response event is handled in the order of its repo; a
  writer, or `set_uri`, that waits for a transaction gets its turn.
* `GraceEndsInOutcome` additionally assumes that activity stops sliding the
  window (`ActivityStops`): the code sets no upper limit to it.

## 4. Findings

1. **A crashed finaliser leaves a closed review undecided** (`db.js:1085`). One
   UPDATE closes the reviews, later statements write the outcomes, and a closed
   review is never selected again. `db-setup.sql:280-282` says that the same SQL
   writes the status.
2. **The ballot cap can be exceeded after a writer's crash**
   (`acceptance.py:153`). The ledger row rolls back, the community record stays,
   and the retry returns `done` before it reaches the quota.
3. **The public record of an official argument lags one edit behind**
   (`atproto-publish.ts:367`). The hook hands over `req.payload` without `req`, so that
   the texts are read outside the transaction of the save, as they were committed before
   it. `atproto-publish.ts:511-513` says that the record is kept in sync with the CMS, and
   so does the hook itself (`OfficialArguments.ts:503`).
4. **Replies on Bluesky are never imported** (`bsky_poller.js:134`). `walkReplies`
   hands over no ballot, the columns are NOT NULL, the error is only logged, and the
   reply count is written all the same. `INTEROPERABILITY.md:200` says they are
   imported.

The other modules have no finding: what their properties exempt (a record dropped by
an error or left unread by a backfill that ended early, a rating stored before a crash
and taken for a duplicate after it, counters two refreshes of which overlapped or a
record of which moved away, records left by saves that met, what the translation worker
put back, the crossings of the web client) is promised nowhere in the repository, and
the exemptions are variables of the models, so that everything else is held to.

## 5. What is proved

Eight proof modules are checked by tlapm without gaps. Every invariant and every action
property of the passing runs is proved, and the refinement. A theorem without a run
(`DecidedWhenClosed`, `OutcomeAfterClose`, `NoCheckInAfterFlip`, `ForwardOnly`,
`DoneRowsArePublished`, `RejectedRowsAreUnpublished`, `ClosedReviewsAreDecided`,
`PublishedKeepsCap`, `RegistrationsAreBacked`, `NothingIsMissing`,
`PublicationIsBacked`) states a property for which no run is spent: the proof covers
its instances.

### Peer review

For all arguments, users, originals, writers, indexers, quorums and any number of
failures. The only assumption is `PeerReviewAssumption`: users are finite, quorums
are positive numbers, `None` is none of the other values.

| Theorem | Statement |
|---|---|
| `TypeCorrect` | `Spec => []TypeOK` |
| `CheckedInReviewersCount` | `Spec => []VotesComeFromCheckedIn` |
| `DecidedWhenClosed` | `Spec => []ClosedOnlyWhenDecided` |
| `OutcomeAfterClose` | `Spec => []OutcomeOnlyAfterClose` |
| `FinalVotes` | `Spec => VotesAreFinal` |
| `NoCheckInAfterFlip` | `Spec => NoLateCheckIn` |
| `ForwardOnly` | `Spec => LifecycleMovesForward` |
| `DoneRowsArePublished` | `Spec => []DoneIsPublished` |
| `RejectedRowsAreUnpublished` | `Spec => []RejectedIsUnpublished` |
| `OpenReviewsAreUndecided` | `Spec => []OpenMeansUndecided` |
| `ClosedReviewsAreDecided` | `Spec => []ClosedMeansDecided` |
| `Implements` | `Spec => ImplementsLifecycle` |

These include all invariants and action properties the passing runs of `PeerReview`
check.

The argument. The inductive invariant `IInv` is the conjunction of

* `TypeInv`: `TypeOK`, and `RecordsAgree`: an original exists exactly from the
  moment submit clears it, a row a writer works on is pending, and no two writers
  work on one row. Without it the step that publishes a record could refer to
  `None`.
* `VotesAuthorised`: authorisation is carried along the chain *gated writer job
  -> community record -> row*, by the owner of the original: a row leads back to the
  published record of its owner, whatever reviewer it names, and that record names the
  reviewer of the row, so that two rows have two owners. `VotesComeFromCheckedIn` by
  itself is not inductive, because it says nothing of the record the indexer is about to
  project; invitation and check-in never go away, so what the gate saw stays true.
* `CloseOrdered`: what the finaliser holds is closed, a held row lock means the
  review is open or the reviewer is checked in already, and an outcome exists
  only on a closed review.
* `ClosesDecided`: a review that has left `open`, or that an indexer is about to
  flip, is decisive. It rests on `DecisiveStays` (votes are only added and an
  invitation never loses its `invited`, so counts only grow) and on
  `TriggersMeansDecided`, the arithmetic that turns the condition of
  `checkReviewQuorum` into "the quorum is met or one side has its majority".

Three more invariants are inductive relative to `IInv`:

* `QueueAgrees` (queue and repo): a writer past its publication will find the
  record when it commits, and without failures only such a writer stands between
  a published response and its `done`. A rejected row has no writer, so it is not
  the published one; this is where the exclusion of `FOR UPDATE SKIP LOCKED`
  enters.
* `ClosedMeansDecided` is inductive with `CloseOrdered`: a pass begins only when
  the previous one holds nothing.
* `OpenMeansUndecided` needs `SeededBeforeCheckIn` (a review without its row has
  no check-ins, hence no votes, hence seeding it cannot open a decided review)
  and `TallyStands` (only a new response changes a tally, or an invitation of somebody a
  row names already: those reviews are `uncounted`).

The refinement maps `review` to the phase, `checkedIn` to the admitted reviewers, what
the finaliser holds to the verdict and `status` to the outcome. A vote is a response that
counts (its row is there and the reviewer it names is invited), and it is mapped to the
vote of the participant in whose repo it was written; `AsManyVotes` shows that there are
as many of these as rows that count. Everything of the repos, the queue and the writer is
a stutter; each remaining action is one abstract step or a stutter, one lemma each; an
invitation can be a vote, of the owner of the row that names the invitee.

### Acceptance

For all requests, originals, writers, caps and numbers of failures, under
`AcceptanceAssumption`.

| Theorem | Statement |
|---|---|
| `AcceptanceProofs!TypeCorrect` | `Spec => []TypeOK` |
| `QueueIsRight` | `Spec => [](DoneIsPublished /\ RejectedIsUnpublished)` |
| `LedgerKeepsCaps` | `Spec => []LedgerWithinCaps` |
| `PublishedKeepsCap` | `Spec => []PublishedWithinCap` |

* `QueueInv`: a writer works on a pending row that no other writer has, and its
  original has its community record exactly when the writer has published it
  (`WorkInv`). What a commit or a rejection finds is then what the writer knows.
* `LockInv`: whoever is between counting and inserting holds the advisory lock, and
  a row that is not committed belongs to the holder. With it an insertion finds the
  ledger as it was counted, and `LedgerWithinCaps` is inductive; cardinalities need
  `FiniteLedger`, which types do not give.
* `CountInv`: while no writer has crashed, each published original has a row of its
  own in the ledger. `PublishedWithinCap` follows by an injection into the rows. A
  crash breaks `CountInv`, which is finding 2.

### Accounts

For all emails, starts, verifications, caps and numbers of failures, under
`AccountsAssumption` (starts and verifications are finite).

| Theorem | Statement |
|---|---|
| `AccountsProofs!TypeCorrect` | `Spec => []TypeOK` |
| `GuessesAreBounded` | `Spec => []GuessesBounded` |
| `CodesAreRedeemedOnce` | `Spec => []RedeemedOnce` |
| `RegistrationsAreBacked` | `Spec => []RegisteredHasAccount` |
| `SessionsEndForGood` | `Spec => EndedStaysEnded` |
| `OrphansAreAccounted` | `Spec => []OrphansAccounted` |

* `RowsInv` ties the counters of a code to the row that carries it: a start that has
  not yet put its code into a row has no guesses, a row's attempts are at least the
  guesses at its code, and a row that was redeemed is in no table. `GuessesBounded`
  is not inductive without it, since a start replaces the code under a guess.
* `AccountInv`: an account that was created is there until its own verification
  cleans it up, and a verification whose credentials are stored no longer does.
* `SessionInv`: only a verification that is done has a session, so none opens twice,
  and a request extends only sessions that were opened; its UPDATE leaves an ended
  one ended.
* `OrphansStep`: a step adds at most one account that is left behind, and only
  together with a failure, by cases over the steps that end a verification.

### Projection

For all users, records, numbers of commits and failures, under
`ProjectionAssumption`.

| Theorem | Statement |
|---|---|
| `ProjectionProofs!TypeCorrect` | `Spec => []TypeOK` |
| `VotesAreNotInflated` | `Spec => []OneVotePerUser` |
| `RetractionsHold` | `Spec => []RetractionHolds` |
| `NothingIsMissing` | `Spec => []NothingMissing` |
| `CountsAreSettled` | `Spec => []CountsSettle` |
| `StatusIsSettled` | `Spec => []StatusSettles` |

* The properties speak of the end of a series of commits; what holds on the way is
  `SettleInv`: a row agrees with the last commit about its record, or a consumer has that
  commit before it: a consumer that still runs, or the backfill that ended and left it
  `unread`. A replay moves a consumer back and so can only put commits before it.
* `VoteInv`: a row of a rating belongs to a user who put it, and a count somebody has
  read or written is at most the users who ever did.
* `CountsInv`, `StatusInv`: a derived value is fresh, or some commit is *due*, with a
  handler that has yet to recompute it, or nothing repairs it any more (`spoilt`).
  `OneWriter` says that without such an overlap at most one refresh is under way.

### Editorial

For all trees, editors and numbers of saves, publications and failures, under
`EditorialAssumption` (editors are finite).

| Theorem | Statement |
|---|---|
| `TypesAreCorrect` | `Spec => []TypeOK` |
| `PublicationIsBacked` | `Spec => []PublishedIsBacked` |
| `ArgumentIsSettled` | `Spec => []ArgumentSettles` |
| `TreeIsSettled` | `Spec => []TreeSettles` |
| `PostsAreAccounted` | `Spec => []PostsAccounted` |

* `DocInv`: what a row, committed or in a save, names is a record that exists, and uris
  stay within bounds. `IdInv`: a save that has written the row has it to itself, and
  every save its number, so that no two create one record. `BallotInv`: nothing is
  written without the password.
* `StrayInv`: a record the CMS wrote is named by a save about to commit its name, or by
  the published row as long as no save has called the PDS to change it, or it is
  *astray*; and astray are at most as many as there were mishaps. The steps that bring a
  mishap (`Spoils`) are those at which a save acts on a uri it no longer has.
* `ThereInv`: without a mishap, what the rows name is there.
* `VersionInv`: a request that may still add a version has a record later than all
  versions have, so the version added last has the latest record although requests
  race. `ViewInv`: with the live consumer at the end and no backfill under way or ended
  behind it, the tree shown is the last snapshot's. `TreeSettles` combines the two;
  `TopicInv` is its second half.
* `PostInv` counts a post in hand before its row is written.

### Taxonomy

For all topics, arguments, files, thresholds and numbers of snapshots and failures,
under `TopicAssumption` and `TaxonomyAssumption` (what a file is read into is a tree).

| Theorem | Statement |
|---|---|
| `TreesStayTrees` | `Spec => []TypeOK` |
| `DoublesAreAccounted` | `Spec => []DoublesAccounted` |
| `CleanMeansPublished` | `Spec => []CleanIsPublished` |
| `PublishedIsShown` | `Spec => []ShownIsPublished` |
| `NothingIsDropped` | `Spec => NothingFallsOut` |

* Each operator of `TopicTree` has a lemma: it makes a tree of a tree, keeps what is
  placed, and doubles nothing (`IndentIsTree`, `OutdentIsTree`, `RemoveTopicFacts`,
  `SproutFacts`, `SplitFacts`, `ProjectShows`, ...). That a topic reaches the root is
  "it is in every set of topics closed under parents": a moved topic's path is shown
  by naming such a set, where a recursive definition would need induction.
* `SentIsCurrent`, `ReplacedIsClean`: the tree a request carries is the panel's unless a
  first load replaced it, and then nothing is unsaved. Without them
  `CleanIsPublished` is not inductive: a save that ends would clear the flag of edits it
  did not carry.
* `RecordIsSent`: between the record and its row the last record is the tree of the
  request. `NewestIsShown` is `ShownIsPublished` for the records handled so far, and
  rests on `ProjectShows`: the passes of the projection give the snapshot whatever the
  tables held before.

### The web client

For all views, activities, texts, criteria, arguments, comments and bounds, under the
assumptions of the screens (`FeedAssumption`, `ThreadAssumption`, ...).

| Theorem | Statement |
|---|---|
| `ScreensKeepTheirTypes` | `Spec => []TypeOK` |
| `FeedHasNoGaps` | `Spec => []FeedIsContiguous` |
| `BackLeadsBeneath` | `Spec => BackGoesBeneath` |
| `OnlyCheckedIsSent` | `Spec => SentWasChecked` |
| `WorkIsNotLost` | `Spec => []WorkIsKept` |
| `RatingsComeToRest` | `Spec => []RatingSettles` |
| `ThreadsAreWhole` | `Spec => []ThreadIsWhole` |
| `HeartsComeToRest` | `Spec => []HeartsSettle` |

`IInv` is the conjunction of one invariant for each screen, each kept by the steps of its
screen and untouched by the others (`OverlayKeep`, `FeedKeep`, ...).

* `FeedInv`: an answer on its way is right about what the app view knew when the list
  was begun and dates the same since (`AnswersOK`; a later page is read later and knows
  more); a list that is not
  mixed has at most one answer to come (`Alone`) and is complete down to its cursor
  (`Listing`). The join of two pages is `ListGoesOn`; that a full page ends where the
  next begins rests on `ReadingIsPage`, a counting argument.
* `OverlayInv`: with `pushCount` n there are n entries below the one shown, each with one
  view less, back to where the client began (`MayGoBack`); without it the button could
  leave the client.
* `ComposerInv`: a key that is held is that of a text a check was asked for, and the
  verdict is that check's.
* `FormInv`: while it is mounted the form shows what was entered, and once it has been
  rendered localStorage keeps the same; `WorkIsKept` alone is lost by the first change of
  a form that was mounted blank.
* `RatingInv`: for an undisturbed argument, which of cache, slider, value to roll back to
  and stored value agree while a write waits (`WaitsShown`), is under way
  (`WrittenShown`), or neither (`StoredShown`).
* `ThreadInv`: a cached list was read at some moment (`ReadFrom`): it is the first rows of
  what was live then, and what was written since is listed in `unread`. Threads are
  smallest closed sets, as the trees of `TopicTree`.
* `HeartInv`: on a heart nobody stirred there is at most one write, and that write has
  captured what is stored (`Pending`).

### What is only model-checked

* Liveness (`ResponsesAreResolved`, `DecidedReviewCloses`, `GraceEndsInOutcome`,
  `OriginalsAreDecided`, `WrittenIsAnswered`): out of reach of the prover.
* `BskyPoller`, whose one property is violated.

Also out of the prover's reach are induction over data and `RECURSIVE` operators.
No module declares one; where the code recurses over a tree or a thread, the models
take the smallest set closed under one step of the recursion.

## 6. What is not modelled, and the plan

The charts, maps, search and booklet of the web client, the visualisations of the CMS,
the clustering of the calculator and eidproto, by far the larger part of the lines, keep
no state that another program or a later step relies on; the infrastructure is used
for the facts the models assume (one replica, `Recreate`, `Forbid`). Of the programs
that are modelled, these parts are not:

* *Assignment caps* (`peer_review_assign.py:115`): the daily and open invitations of
  a user, counted before a series of PDS calls. One writer runs and mirrors each
  invitation into the table before the next candidate, so only a failed mirror or a
  restart can exceed them.
* *Overlapping finaliser passes*: a pass slower than the time-out of its tick. The
  UPDATE hands every review to one pass.
* *Signing in*: the hourly cap on all mails, `wait_status` and `check_link`, which
  read, and the binding to a device.
* *Bluesky poller*: likes and other counters of a third party, which it overwrites.
* *Taxonomy*: a second editor at the same time (`Editorial` has two), and the
  backfill of snapshots (`Editorial`).
* *Web client*: what is listed in section 2.
* *Projection* of ratings of comments and of ballots, and of the translation
  requests the indexer queues.
* *CMS*: the update of a published ballot (one record rewritten in place).

Next, in this order: the caps as a module that refines the `Assign` step of
`PeerReview`; the hourly cap in `Accounts`; an abstract specification of the
acceptance protocol that `Acceptance` implements.

## 7. Running

    tlc -workers 2 -config PeerReviewRaces.cfg MCPeerReview
    tlc -workers 2 -config Client.cfg MCClient
    tlapm PeerReviewProofs.tla        # and the other *Proofs, PeerReviewRefinement

The runs, their configurations, the mutants and the source lines each definition
stands for are listed in `PROJECT.json`.
