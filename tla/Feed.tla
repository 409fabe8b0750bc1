--------------------------------- MODULE Feed ---------------------------------
(***************************************************************************)
(* The activity feed of a ballot: the page of the web client, which loads  *)
(* the activities of a filter page by page, the client's page cache, and   *)
(* activity.list of the app view.  Requests are never cancelled: what comes*)
(* back is put into whatever the page shows by then.                       *)
(***************************************************************************)
EXTENDS Integers, SequencesExt, FiniteSetsExt

CONSTANTS Filter,       \* values of the select: "all" and some kinds
          Activity,     \* what may happen on the ballot
          Kind,         \* Kind[x]: "arguments" or "comments"
          ActivityAt,   \* the time x first carries, from 1 on; several may
                        \* share one
          Milestone,    \* activities dated by indexed_at, not by created_at
          Moments,      \* bound: the times a milestone may be moved to
          PageSize,     \* limit of a page
          MaxFlights,   \* bound: requests under way at a time
          MaxShown      \* bound: activities shown when more are asked for

ASSUME FeedAssumption ==
  /\ "all" \in Filter
  /\ Kind \in [Activity -> {"arguments", "comments"}]
  /\ ActivityAt \in [Activity -> Nat \ {0}]
  /\ Milestone \subseteq Activity
  /\ Moments \subseteq Nat
  /\ PageSize \in Nat \ {0}

VARIABLES storedAt,     \* the time an activity carries in the index, 0: none
          filter,       \* the filter selected
          activities,   \* the list shown: activities with their times
          cursor,       \* time of the last activity, 0: undefined
          hasMore, activityLoading, loadingMore,
          requests,     \* requests under way
          pageCache,    \* first pages kept by loadCached, by filter; {}: none
          known,        \* history: storedAt as it was when the first page of
                        \* the list was read; NoTimes while mixed
          mixed         \* history: the last first page failed, or was asked for
                        \* while other answers were still to come, or for
                        \* another filter

feedVars == <<storedAt, filter, activities, cursor, hasMore, activityLoading,
              loadingMore, requests, pageCache, known, mixed>>

Fits(x, f) == f = "all" \/ Kind[x] = f

NoTimes == [x \in Activity |-> 0]

\* Mutant: the next page begins at the cursor, not after it.
OlderOrEqual(c, f) ==
  {x \in Activity : storedAt[x] # 0 /\ Fits(x, f) /\ (c # 0 => storedAt[x] <= c)}

\* What activity.list may return after time c: the newest PageSize of what
\* fits.  Only the time is sorted on, so ties come in any order.
Older(c, f) ==
  {x \in Activity : storedAt[x] # 0 /\ Fits(x, f) /\ (c # 0 => storedAt[x] < c)}

PageOf(s, older) ==
  /\ Len(s) = Min({PageSize, Cardinality(older)})
  /\ IsInjective(s)
  /\ \A i, j \in DOMAIN s : i < j => storedAt[s[i]] >= storedAt[s[j]]
  /\ \A x \in older \ Range(s) :
       s # <<>> => storedAt[x] <= storedAt[Last(s)]

\* An answer carries the activities with the times they had when it was read.
Dated(s) == [i \in DOMAIN s |-> [act |-> s[i], at |-> storedAt[s[i]]]]

\* The cursor of an answer: the time of its last activity when it is full.
CursorAfter(items) == IF Len(items) = PageSize THEN Last(items).at ELSE 0

\* A request: id tells equal ones apart, answer is {} until the app view has read
\* its page, live says whether the page that asked is still mounted.
Request(f, c, reset) ==
  [filter |-> f, after |-> c, reset |-> reset, answer |-> {}, live |-> TRUE,
   id |-> CHOOSE n \in 1 .. MaxFlights : \A q \in requests :
            <<q.filter, q.after, q.reset, q.id>> # <<f, c, reset, n>>]

ShowFirst(page) ==
  /\ activities' = page.items
  /\ cursor' = CursorAfter(page.items)
  /\ hasMore' = (CursorAfter(page.items) # 0)
  /\ known' = IF mixed' THEN NoTimes ELSE page.known

\* loadActivities(f, true): from the cache when the page is fresh, else from
\* the app view.  waiting: requests that will still be answered to this page.
LoadFirst(f, resetCursor, waiting) ==
  IF pageCache[f] # {}
    THEN /\ mixed' = (waiting # {} \/ f # filter')
         /\ \E page \in pageCache[f] : ShowFirst(page)
         /\ activityLoading' = FALSE
         /\ loadingMore' = FALSE
         /\ requests' = waiting \cup {q \in requests : ~q.live}
    ELSE /\ Cardinality(requests) < MaxFlights
         /\ activityLoading' = TRUE
         /\ requests' = waiting \cup {q \in requests : ~q.live}
                          \cup {Request(f, 0, TRUE)}
         /\ cursor' = IF resetCursor THEN 0 ELSE cursor
         /\ mixed' = (waiting # {} \/ f # filter')
         /\ known' = IF mixed' THEN NoTimes ELSE known
         /\ UNCHANGED <<activities, hasMore, loadingMore>>

Live == {q \in requests : q.live}

FeedInit ==
  /\ storedAt = NoTimes
  /\ filter = "all"
  /\ activities = <<>>
  /\ cursor = 0
  /\ hasMore = FALSE
  /\ activityLoading = TRUE
  /\ loadingMore = FALSE
  /\ requests = {[filter |-> "all", after |-> 0, reset |-> TRUE, answer |-> {},
                  live |-> TRUE, id |-> 1]}
  /\ pageCache = [f \in Filter |-> {}]
  /\ known = NoTimes
  /\ mixed = FALSE

\* The indexer makes an activity known; also one that is not the latest.
Happen(x) ==
  /\ storedAt[x] = 0
  /\ storedAt' = [storedAt EXCEPT ![x] = ActivityAt[x]]
  /\ UNCHANGED <<filter, activities, cursor, hasMore, activityLoading,
                 loadingMore, requests, pageCache, known, mixed>>

\* The argument of a milestone is written again, by a replay, a translation or
\* the finaliser: indexed_at = now() moves the milestone up the feed.
Touch(x, now) ==
  /\ storedAt[x] # 0
  /\ now > storedAt[x]
  /\ storedAt' = [storedAt EXCEPT ![x] = now]
  /\ UNCHANGED <<filter, activities, cursor, hasMore, activityLoading,
                 loadingMore, requests, pageCache, known, mixed>>

\* The select of the toolbar, and the effect on it.
SetFilter(f) ==
  /\ f # filter
  /\ filter' = f
  /\ LoadFirst(f, TRUE, Live)
  /\ UNCHANGED <<storedAt, pageCache>>

\* onCreated: an argument of one's own has been submitted.  The call still has
\* the filter of the moment at which the composer sent it.
Created(f) ==
  /\ UNCHANGED <<storedAt, filter, pageCache>>
  /\ LoadFirst(f, FALSE, Live)

\* The button under the list, with the cursor of the last answer.
LoadMore ==
  /\ Len(activities) \in 1 .. MaxShown
  /\ hasMore
  /\ ~activityLoading
  /\ ~loadingMore
  /\ Cardinality(requests) < MaxFlights
  /\ loadingMore' = TRUE
  /\ requests' = requests \cup {Request(filter, cursor, FALSE)}
  /\ UNCHANGED <<storedAt, filter, activities, cursor, hasMore, activityLoading,
                 pageCache, known, mixed>>

\* The app view reads a page.
ReadPage(q) ==
  /\ q.answer = {}
  /\ LET older == Older(q.after, q.filter)
     IN  \E n \in 0 .. PageSize : \E s \in [1 .. n -> older] :
           /\ PageOf(s, older)
           /\ requests' = (requests \ {q}) \cup
                {[q EXCEPT !.answer =
                    {[items |-> Dated(s),
                      known |-> IF q.reset THEN storedAt ELSE NoTimes]}]}
  /\ UNCHANGED <<storedAt, filter, activities, cursor, hasMore, activityLoading,
                 loadingMore, pageCache, known, mixed>>

\* An answer arrives.  A first page goes into the cache, whoever asked for
\* it; a page that is still mounted shows it, whatever its filter is by now.
Answered(q) ==
  \E page \in q.answer :
    /\ requests' = requests \ {q}
    /\ pageCache' = IF q.reset THEN [pageCache EXCEPT ![q.filter] = {page}]
                               ELSE pageCache
    /\ IF ~q.live
         THEN UNCHANGED <<activities, cursor, hasMore, activityLoading,
                          loadingMore, known, mixed>>
         ELSE /\ activityLoading' = FALSE
              /\ loadingMore' = FALSE
              /\ UNCHANGED mixed
              /\ IF q.reset
                   THEN ShowFirst(page)
                   ELSE /\ activities' = activities \o page.items
                        /\ cursor' = CursorAfter(page.items)
                        /\ hasMore' = (CursorAfter(page.items) # 0)
                        /\ UNCHANGED known
    /\ UNCHANGED <<storedAt, filter>>

\* A request fails: the list stays, only the flags are cleared.
RequestFails(q) ==
  /\ requests' = requests \ {q}
  /\ IF q.live
       THEN /\ activityLoading' = FALSE
            /\ loadingMore' = FALSE
            /\ mixed' = (mixed \/ q.reset)
            /\ known' = IF mixed' THEN NoTimes ELSE known
       ELSE UNCHANGED <<activityLoading, loadingMore, known, mixed>>
  /\ UNCHANGED <<storedAt, filter, activities, cursor, hasMore, pageCache>>

\* A cached page is older than TTL_MS.
PageExpires(f) ==
  /\ pageCache[f] # {}
  /\ pageCache' = [pageCache EXCEPT ![f] = {}]
  /\ UNCHANGED <<storedAt, filter, activities, cursor, hasMore, activityLoading,
                 loadingMore, requests, known, mixed>>

\* The reader leaves the page and comes back: a new component, the module's
\* cache, and requests nobody listens to.
Reopen ==
  /\ filter' = "all"
  /\ mixed' = FALSE
  /\ LET left == {[q EXCEPT !.live = FALSE] : q \in {r \in requests : r.reset}}
     IN  IF pageCache["all"] # {}
           THEN /\ \E page \in pageCache["all"] : ShowFirst(page)
                /\ activityLoading' = FALSE
                /\ requests' = left
           ELSE /\ Cardinality(requests) < MaxFlights
                /\ activities' = <<>>
                /\ cursor' = 0
                /\ hasMore' = FALSE
                /\ known' = NoTimes
                /\ activityLoading' = TRUE
                /\ requests' = left \cup {Request("all", 0, TRUE)}
  /\ loadingMore' = FALSE
  /\ UNCHANGED <<storedAt, pageCache>>

FeedNext ==
  \/ \E x \in Activity : Happen(x)
  \/ \E x \in Milestone, now \in Moments : Touch(x, now)
  \/ \E f \in Filter : SetFilter(f) \/ PageExpires(f) \/ Created(f)
  \/ LoadMore
  \/ \E q \in requests : ReadPage(q) \/ Answered(q) \/ RequestFails(q)
  \/ Reopen
-----------------------------------------------------------------------------
FeedTypeOK ==
  /\ storedAt \in [Activity -> Nat] /\ known \in [Activity -> Nat]
  /\ \A x \in Activity : known[x] <= storedAt[x]
  /\ filter \in Filter
  /\ \A i \in DOMAIN activities : activities[i].act \in Activity
  /\ cursor \in Nat
  /\ \A q \in requests : q.live /\ q.reset => activityLoading \/ mixed

\* Once every answer has come in, the list is what the filter asks for, without
\* an activity twice and without a gap in what the app view knew when the list
\* was begun and still dates the same, unless a first page failed, was asked
\* for while other answers were outstanding, or for a filter no longer selected.
\* (A milestone that was written again meanwhile has moved above the cursor, and
\* activities of the very instant at which a page ends can be lost: the next
\* page begins strictly before it.)
FeedIsContiguous ==
  (~mixed /\ Live = {}) =>
    /\ \A i, j \in DOMAIN activities :
         activities[i].act = activities[j].act => i = j
    /\ \A i \in DOMAIN activities : Fits(activities[i].act, filter)
    /\ \A x \in Activity :
         /\ known[x] # 0 /\ known[x] = storedAt[x]
         /\ Fits(x, filter)
         /\ hasMore => known[x] > Last(activities).at
         => \E i \in DOMAIN activities :
              activities[i].act = x \/ activities[i].at = known[x]
=============================================================================
