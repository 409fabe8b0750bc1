-------------------------------- MODULE Thread --------------------------------
(***************************************************************************)
(* The comments of an argument in the web client: the view of the argument *)
(* shows all of them, the view of a comment its ancestors and what answers *)
(* it.  Both read one list from the query cache, which a new comment       *)
(* invalidates.  The list follows the indexer, and the indexer follows the *)
(* user's repo.  The text typed, and the hearts (see Hearts), are left out.*)
(*                                                                         *)
(* A view of a comment that is opened from another one is the same         *)
(* component with another comment: composer and answers outlive the change.*)
(* Comments are all written here: none comes from Bluesky (see BskyPoller).*)
(***************************************************************************)
EXTENDS Integers, FiniteSets, SequencesExt

CONSTANTS Comment,
          Others,       \* comments other users may write
          HashOrder,    \* the comments in the order of md5(viewer:uri)
          MaxLoads,     \* bound: getComment calls under way at a time
          ListLimit     \* how many of them the server answers with

Top == "top"            \* no parent; the composer of the argument
Nothing == "none"

ASSUME ThreadAssumption ==
  /\ IsFiniteSet(Comment) /\ Others \subseteq Comment
  /\ {Top, Nothing} \cap Comment = {}
  /\ HashOrder \in SetToSeqs(Comment)

VARIABLES commentAt,    \* none, written in a repo, live or deleted in the index
          parentOf,
          own,          \* comments of this client that were acknowledged
          listStatus,   \* of its query: pending, error or success
          comments,     \* the cached list
          listing,      \* the query is under way
          unread,       \* history: own comments that list was read too early for
          shown, asked, \* the view, and the comment it is to show
          focal,        \* the comment it does show
          loading,      \* ... and whether a spinner hides it
          loads,        \* getComment calls under way
          crossed,      \* history: two of them were, or one failed
          initFor,      \* composerInitFor: the focal comment it was opened for
          replyTarget, submittingReply,
          posts         \* createComment calls under way

threadVars == <<commentAt, parentOf, own, listStatus, comments, listing, unread,
                shown, asked, focal, loading, loads, crossed, initFor, replyTarget, submittingReply, posts>>

storeVars == <<commentAt, parentOf, own>>
listVars == <<listStatus, comments, listing, unread>>
viewVars == <<shown, asked, focal, loading, loads, crossed, initFor>>
composeVars == <<replyTarget, submittingReply, posts>>

ThreadInit ==
  /\ commentAt = [c \in Comment |-> "none"]
  /\ parentOf = [c \in Comment |-> Top]
  /\ own = {}
  /\ listStatus = "pending" /\ comments = {}
  /\ listing = FALSE /\ unread = {}
  /\ shown = "closed" /\ asked = Nothing /\ focal = Nothing
  /\ loading = FALSE
  /\ loads = {} /\ crossed = FALSE /\ initFor = Nothing
  /\ replyTarget = Nothing /\ submittingReply = "no"
  /\ posts = {}
-----------------------------------------------------------------------------
(***************************************************************************)
(* What is shown.                                                          *)
(***************************************************************************)
\* buildCommentMap: the answers to c among the comments of S.
Answers(S, c) == {d \in S : parentOf[d] = c}

\* rootComments, with all their replies: what is in every set that has the
\* roots and the answers to its members.
Roots == {c \in comments : parentOf[c] = Top}
Tree ==
  {c \in comments : \A T \in SUBSET comments :
     Roots \subseteq T /\ (\A d \in T : Answers(comments, d) \subseteq T) => c \in T}

\* buildAncestorChain: f and what it answers, up to the first parent that is not
\* in S.
Chain(S, f) ==
  {c \in S : \A T \in SUBSET S :
     f \in T /\ (\A d \in T : S \cap {parentOf[d]} \subseteq T) => c \in T}

\* One level of replies more.
Deeper(S, R) == R \cup UNION {Answers(S, c) : c \in R}

\* The focal comment comes with getComment if the list lacks it; three levels of
\* replies are shown.
Spine ==
  IF focal = Nothing THEN {}
  ELSE LET S == comments \cup {focal}
       IN  Chain(S, focal) \cup Deeper(S, Deeper(S, Deeper(S, {focal})))

Visible ==
  IF shown = "argument" THEN Tree
  ELSE IF shown = "comment" /\ ~loading THEN Spine ELSE {}

\* The query of the list is enabled once the argument is known.
ListActive == shown = "argument" \/ (shown = "comment" /\ focal # Nothing)
-----------------------------------------------------------------------------
(***************************************************************************)
(* The server.                                                             *)
(***************************************************************************)
LiveComments == {c \in Comment : commentAt[c] = "live"}

\* Somebody else comments, and is indexed.
OthersComment(c, p) ==
  /\ c \in Others /\ commentAt[c] = "none"
  /\ commentAt' = [commentAt EXCEPT ![c] = "live"]
  /\ parentOf' = [parentOf EXCEPT ![c] = p]
  /\ UNCHANGED <<own, listVars, viewVars, composeVars>>

\* The indexer gets to a comment, or to its retraction by another user.
IndexComment(c) ==
  /\ \/ commentAt[c] = "written" /\ commentAt' = [commentAt EXCEPT ![c] = "live"]
     \/ /\ c \in Others /\ commentAt[c] = "live"
        /\ commentAt' = [commentAt EXCEPT ![c] = "deleted"]
  /\ UNCHANGED <<parentOf, own, listVars, viewVars, composeVars>>

\* rows are the first ListLimit comments, in an order that is as good as random.
FirstRows(rows) ==
  /\ rows \subseteq LiveComments
  /\ \/ Cardinality(rows) = ListLimit
     \/ rows = LiveComments /\ Cardinality(rows) < ListLimit
  /\ \A i, j \in DOMAIN HashOrder :
       HashOrder[i] \in rows /\ HashOrder[j] \in LiveComments \ rows => i < j
-----------------------------------------------------------------------------
(***************************************************************************)
(* The list.                                                               *)
(***************************************************************************)
Fetch ==
  /\ listing' = TRUE
  /\ listStatus' = IF listStatus = "success" THEN "success" ELSE "pending"

\* The query is stale, or there is nothing in the cache.
AskList ==
  /\ ListActive /\ ~listing
  /\ Fetch
  /\ UNCHANGED <<storeVars, comments, unread, viewVars, composeVars>>

\* The composer below a focal comment that nobody has answered opens by itself,
\* once per focal comment and not while the list is pending.
InitComposer(f, status, rows) ==
  IF f # Nothing /\ status # "pending" /\ initFor # f
    THEN /\ initFor' = f
         /\ replyTarget' = IF \E c \in rows : parentOf[c] = f THEN Nothing ELSE f
    ELSE UNCHANGED <<initFor, replyTarget>>

\* Whoever waits in submitComment for the list goes on: the composer closes.
Refreshed ==
  /\ submittingReply' = "no"
  /\ replyTarget' = Nothing

\* comment.list answers, and the server has read it just now.
Listed ==
  /\ listing
  /\ listing' = FALSE
  /\ listStatus' = "success"
  /\ \E rows \in SUBSET LiveComments : FirstRows(rows) /\ comments' = rows
  /\ unread' = {c \in own : commentAt[c] = "written"}
  /\ IF submittingReply = "refreshing"
       THEN /\ Refreshed
            /\ initFor' = IF shown = "comment" THEN focal ELSE initFor
       ELSE /\ InitComposer(focal, "success", comments')
            /\ UNCHANGED submittingReply
  /\ UNCHANGED <<storeVars, shown, asked, focal, loading, loads, crossed, posts>>

\* The old list stays.
ListFails ==
  /\ listing
  /\ listing' = FALSE
  /\ listStatus' = IF listStatus = "success" THEN "success" ELSE "error"
  /\ unread' = unread \cup (own \ comments)
  /\ IF submittingReply = "refreshing"
       THEN /\ Refreshed
            /\ initFor' = IF shown = "comment" THEN focal ELSE initFor
       ELSE /\ InitComposer(focal, "error", comments)
            /\ UNCHANGED submittingReply
  /\ UNCHANGED <<storeVars, comments, shown, asked, focal, loading, loads, crossed, posts>>
-----------------------------------------------------------------------------
(***************************************************************************)
(* The views.                                                              *)
(***************************************************************************)
Mounted(view, c) ==
  /\ shown' = view /\ asked' = c
  /\ focal' = Nothing /\ initFor' = Nothing /\ crossed' = FALSE
  /\ loads' = IF c = Nothing THEN {} ELSE {c}
  /\ loading' = (c # Nothing)
  /\ replyTarget' = Nothing /\ submittingReply' = "no"
  /\ posts' = {[p EXCEPT !.heard = FALSE] : p \in posts}
  /\ UNCHANGED <<storeVars, listVars>>

ShowArgument == shown # "argument" /\ Mounted("argument", Nothing)

CloseView == shown # "closed" /\ Mounted("closed", Nothing)

\* From a card, or from the view of the argument.
OpenComment(c) == shown # "comment" /\ Mounted("comment", c)

\* From the view of another comment, or back through the history of the overlay
\* while that one loads.
TurnToComment(c) ==
  /\ shown = "comment" /\ c # asked
  /\ Cardinality(loads) < MaxLoads
  /\ asked' = c
  /\ loads' = loads \cup {c}
  /\ loading' = TRUE
  /\ crossed' = (crossed \/ loads # {})
  /\ UNCHANGED <<storeVars, listVars, shown, focal, initFor, composeVars>>

\* comment.get answers, with 404 if there is none, or fails; nobody asks whether it
\* is still the comment to show.
CommentLoaded(c) ==
  /\ loads' = loads \ {c}
  /\ loading' = FALSE
  /\ \/ /\ commentAt[c] = "live"
        /\ focal' = c
        /\ UNCHANGED crossed
        /\ InitComposer(c, listStatus, comments)
     \/ /\ crossed' = TRUE
        /\ UNCHANGED <<focal, initFor, replyTarget>>
  /\ UNCHANGED <<storeVars, listVars, shown, asked, submittingReply, posts>>
-----------------------------------------------------------------------------
(***************************************************************************)
(* The composer.                                                           *)
(***************************************************************************)
Targets == Visible \cup (IF shown = "argument" THEN {Top} ELSE {})

SetReplyTarget(t) ==
  /\ t # replyTarget
  /\ replyTarget' = t
  /\ UNCHANGED <<storeVars, listVars, viewVars, submittingReply, posts>>

\* It stands below its target, if that is shown.
ComposerShown == replyTarget \in Targets

CancelReply ==
  /\ ComposerShown
  /\ replyTarget' = Nothing
  /\ UNCHANGED <<storeVars, listVars, viewVars, submittingReply, posts>>

\* submitComment.
SubmitComment ==
  /\ ComposerShown /\ submittingReply = "no"
  /\ posts = {}
  /\ submittingReply' = "sending"
  /\ posts' = {[to |-> replyTarget, heard |-> TRUE]}
  /\ UNCHANGED <<storeVars, listVars, viewVars, replyTarget>>

\* comment.create has written to the user's repo.
CreateComment(p, c) ==
  /\ c \notin Others /\ commentAt[c] = "none"
  /\ commentAt' = [commentAt EXCEPT ![c] = "written"]
  /\ parentOf' = [parentOf EXCEPT ![c] = p.to]
  /\ posts' = posts \ {p}

\* Mutant: the list is left as it is.
PostSucceedsOnly(p, c) ==
  /\ CreateComment(p, c)
  /\ own' = own \cup {c}
  /\ IF p.heard THEN replyTarget' = Nothing /\ submittingReply' = "no"
                ELSE UNCHANGED <<replyTarget, submittingReply>>
  /\ UNCHANGED <<listVars, viewVars>>

\* The list is invalidated: a query under way is dropped for a new one, if a view
\* is open.
PostSucceeds(p, c) ==
  /\ CreateComment(p, c)
  /\ own' = own \cup {c}
  /\ IF ListActive
       THEN /\ Fetch
            /\ submittingReply' = IF p.heard THEN "refreshing" ELSE submittingReply
            /\ UNCHANGED <<replyTarget, unread>>
       ELSE /\ UNCHANGED <<listing, listStatus>>
            /\ unread' = unread \cup {c}
            /\ IF p.heard THEN Refreshed ELSE UNCHANGED <<submittingReply, replyTarget>>
  /\ UNCHANGED <<comments, viewVars>>

\* It fails, or the answer is lost after the write.
PostFails(p) ==
  /\ \/ \E c \in Comment : CreateComment(p, c)
     \/ posts' = posts \ {p} /\ UNCHANGED <<commentAt, parentOf>>
  /\ submittingReply' = IF p.heard THEN "no" ELSE submittingReply
  /\ UNCHANGED <<own, listVars, viewVars, replyTarget>>

ThreadNext ==
  \/ \E c \in Comment : \/ \E p \in LiveComments \cup {Top} : OthersComment(c, p)
                        \/ IndexComment(c)
                        \/ \E p \in posts : PostSucceeds(p, c)
  \/ \E c \in LiveComments \cup Visible : OpenComment(c)
  \/ \E c \in Spine : TurnToComment(c)
  \/ \E c \in loads : CommentLoaded(c)
  \/ AskList \/ Listed \/ ListFails
  \/ ShowArgument \/ CloseView
  \/ \E t \in Targets : SetReplyTarget(t)
  \/ CancelReply \/ SubmitComment
  \/ \E p \in posts : PostFails(p)
-----------------------------------------------------------------------------
ThreadTypeOK ==
  /\ commentAt \in [Comment -> {"none", "written", "live", "deleted"}]
  /\ parentOf \in [Comment -> Comment \cup {Top}]
  /\ shown \in {"closed", "argument", "comment"}
  /\ asked # Nothing <=> shown = "comment"
  /\ listStatus \in {"pending", "error", "success"}
  /\ {listing, loading} \subseteq BOOLEAN /\ Cardinality(posts) < 2
  /\ submittingReply \in {"no", "sending", "refreshing"}
  /\ submittingReply = "refreshing" => listing
  /\ submittingReply = "sending" => \E p \in posts : p.heard

\* c, what it answers, and so on.
Line(c) ==
  {d \in Comment : \A T \in SUBSET Comment :
     c \in T /\ (\A e \in T : parentOf[e] \in T \cup {Top}) => d \in T}

\* Once the list has been read again, the view of the argument shows what this user
\* has said, however the comments are ordered: unless something it answers is gone
\* or was cut off, or the list was read before the indexer had it.  And the view
\* of a comment shows the one it was opened for, unless calls overlapped.
ThreadIsWhole ==
  /\ listStatus = "success" /\ ~listing =>
       \A c \in own \ unread :
         c \in Tree \/ \E d \in Line(c) \ comments :
                         commentAt[d] = "deleted" \/ Cardinality(comments) = ListLimit
  /\ shown = "comment" /\ loads = {} /\ ~crossed => focal = asked
=============================================================================
