------------------------------ MODULE BskyPoller ------------------------------
(***************************************************************************)
(* The Bluesky poller of the indexer: passes of a timer, which may overlap,*)
(* ask for the number of replies to the post of an argument and, when it   *)
(* has grown, for the thread, and put each reply into app_comments.        *)
(* Bluesky is external: people answer there, and take answers back.  Ages, *)
(* texts and the other counts are left out; there is one argument.         *)
(***************************************************************************)
EXTENDS Integers, FiniteSets

CONSTANTS Reply,
          StalePollEveryN,  \* arguments that are not fresh: every Nth pass
          MaxPasses,        \* bound: passes begun
          MaxFailures       \* bound: calls and statements that fail

Post == "post"              \* the argument's own post on Bluesky
Null == "null"
Given == "given"

VARIABLES answers,          \* answers[r]: what r answers, Null: not written
          goneReplies,      \* taken back, or blocked
          fresh,            \* younger than FRESH_THRESHOLD_HOURS
          pollCycleCount,
          passes,           \* the passes at work on the argument
          replyCount,       \* bsky_reply_count
          externs,          \* replies in app_comments
          walked,           \* history: replies it was told to keep, and could
          pollFailures

vars == <<answers, goneReplies, fresh, pollCycleCount, passes, replyCount,
          externs, walked, pollFailures>>

bluesky == <<answers, goneReplies>>

Init ==
  /\ answers = [r \in Reply |-> Null] /\ goneReplies = {}
  /\ fresh = TRUE /\ pollCycleCount = 0
  /\ passes = {} /\ replyCount = 0
  /\ externs = {} /\ walked = {}
  /\ pollFailures = 0

PollFails == pollFailures < MaxFailures /\ pollFailures' = pollFailures + 1
-----------------------------------------------------------------------------
(***************************************************************************)
(* Bluesky.                                                                *)
(***************************************************************************)
Answer(r, to) ==
  /\ answers[r] = Null
  /\ to \in {Post} \cup {q \in Reply : answers[q] # Null}
  /\ answers' = [answers EXCEPT ![r] = to]
  /\ UNCHANGED <<goneReplies, fresh, pollCycleCount, passes, replyCount, externs,
                 walked, pollFailures>>

TakeBack(r) ==
  /\ answers[r] # Null /\ r \notin goneReplies
  /\ goneReplies' = goneReplies \cup {r}
  /\ UNCHANGED <<answers, fresh, pollCycleCount, passes, replyCount, externs,
                 walked, pollFailures>>

\* replyCount of a post: its direct replies.
ReplyCount == Cardinality({r \in Reply \ goneReplies : answers[r] = Post})

\* getPostThread: what is below a reply that is gone is not in it.
ThreadOf ==
  LET level[i \in 0 .. Cardinality(Reply)] ==
        IF i = 0 THEN {Post}
                 ELSE level[i - 1] \cup
                        {r \in Reply \ goneReplies : answers[r] \in level[i - 1]}
  IN  level[Cardinality(Reply)] \ {Post}
-----------------------------------------------------------------------------
(***************************************************************************)
(* app_comments.                                                           *)
(***************************************************************************)
\* What walkReplies hands over for a post.
Row(r) == [uri |-> r, did |-> Given, ballot_uri |-> Null, ballot_rkey |-> Given,
           created_at |-> Given]

NotNull == {"uri", "did", "ballot_uri", "ballot_rkey", "created_at"}

\* upsertBskyThreadPost: the insert, or the update of the counts of a row.
UpsertBskyThreadPost(row) ==
  externs' = IF \A column \in NotNull : row[column] # Null
               THEN externs \cup {row.uri} ELSE externs
-----------------------------------------------------------------------------
(***************************************************************************)
(* A pass.                                                                 *)
(***************************************************************************)
Age ==
  /\ fresh
  /\ fresh' = FALSE
  /\ UNCHANGED <<bluesky, pollCycleCount, passes, replyCount, externs, walked,
                 pollFailures>>

\* The timer: nobody looks whether the pass before has ended.
StartPass ==
  /\ pollCycleCount < MaxPasses
  /\ pollCycleCount' = pollCycleCount + 1
  /\ passes' = IF fresh \/ pollCycleCount' % StalePollEveryN = 0
                 THEN passes \cup {[cycle |-> pollCycleCount', step |-> "count",
                                    known |-> replyCount, current |-> 0,
                                    thread |-> {}]}
                 ELSE passes
  /\ UNCHANGED <<bluesky, fresh, replyCount, externs, walked, pollFailures>>

Goes(p, q) == passes' = (passes \ {p}) \cup {q}

\* batchGetPosts: without an answer, or without new replies, that was it.
GetPosts(p) ==
  /\ p.step = "count"
  /\ \/ /\ UNCHANGED pollFailures
        /\ IF ReplyCount > p.known
             THEN Goes(p, [p EXCEPT !.step = "fetch", !.current = ReplyCount])
             ELSE passes' = passes \ {p}
     \/ PollFails /\ passes' = passes \ {p}
  /\ UNCHANGED <<bluesky, fresh, pollCycleCount, replyCount, externs, walked>>

\* fetchThread: an error leaves the count as it is, a post that is not given
\* counts as a thread without replies.
FetchThread(p) ==
  /\ p.step = "fetch"
  /\ \/ /\ UNCHANGED pollFailures
        /\ \E thread \in {ThreadOf, {}} :
             Goes(p, [p EXCEPT !.step = "walk", !.thread = thread])
     \/ PollFails /\ passes' = passes \ {p}
  /\ UNCHANGED <<bluesky, fresh, pollCycleCount, replyCount, externs, walked>>

\* walkReplies: what a reply answers goes first, and an error is only logged.
WalkReply(p, r) ==
  /\ p.step = "walk"
  /\ r \in p.thread /\ answers[r] \notin p.thread
  /\ Goes(p, [p EXCEPT !.thread = @ \ {r}])
  /\ \/ /\ UpsertBskyThreadPost(Row(r))
        /\ walked' = walked \cup {r}
        /\ UNCHANGED pollFailures
     \/ PollFails /\ UNCHANGED <<externs, walked>>
  /\ UNCHANGED <<bluesky, fresh, pollCycleCount, replyCount>>

\* updateArgumentBskyReplyCount, with the number read before the thread was.
WriteCount(p) ==
  /\ p.step = "walk" /\ p.thread = {}
  /\ passes' = passes \ {p}
  /\ \/ replyCount' = p.current /\ UNCHANGED pollFailures
     \/ PollFails /\ UNCHANGED replyCount
  /\ UNCHANGED <<bluesky, fresh, pollCycleCount, externs, walked>>

Next ==
  \/ \E r \in Reply : (\E to \in Reply \cup {Post} : Answer(r, to)) \/ TakeBack(r)
  \/ Age \/ StartPass
  \/ \E p \in passes : GetPosts(p) \/ FetchThread(p) \/ WriteCount(p)
                         \/ \E r \in p.thread : WalkReply(p, r)

Spec == Init /\ [][Next]_vars
-----------------------------------------------------------------------------
\* INTEROPERABILITY.md: the reply thread of a post is imported into app_comments.
\* So every reply that a pass has walked, without an error of Bluesky or of the
\* connection to the database, is a row there.
ThreadIsImported == walked \subseteq externs
=============================================================================
