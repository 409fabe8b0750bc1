-------------------------------- MODULE Rating --------------------------------
(***************************************************************************)
(* Rating an argument in the web client.  The slider and the query cache   *)
(* change at once, the write follows after a second of quiet (or when the  *)
(* view is closed), and a failed write is rolled back to the value that is *)
(* believed to be stored.  The callbacks of a write run only while it is   *)
(* the latest of a view that is still mounted.                             *)
(***************************************************************************)
EXTENDS Integers, FiniteSets

CONSTANTS Rated,        \* arguments with a view of their own
          Relevance,    \* values of the slider, in 1 .. ; 0 stands for unrated
          MaxWrites     \* bound: writes under way at a time

Nowhere == "none"

ASSUME RatingAssumption == Relevance \subseteq Nat \ {0} /\ Nowhere \notin Rated

Preference == Relevance \cup {0}

VARIABLES preferenceAt, \* the record in the user's repo, by argument
          indexedAt,    \* the value of app_likes, which follows the record
          cachedAt,     \* viewer.preference in the query cache
          viewed,       \* the argument shown, or Nowhere
          relevance,    \* the slider
          committed,    \* the value to roll back to
          debounced,    \* {} or the write that waits for quiet
          writes,       \* writes under way
          refetch,      \* {} or a query under way with what it has read
          disturbed     \* history: arguments of which a write overlapped
                        \* another, failed where nobody listens or after it
                        \* was applied, or crossed a query, and those read
                        \* before their rating was indexed

ratingVars == <<preferenceAt, indexedAt, cachedAt, viewed, relevance, committed,
                debounced, writes, refetch, disturbed>>

RatingInit ==
  /\ preferenceAt = [a \in Rated |-> 0]
  /\ indexedAt = preferenceAt
  /\ cachedAt = preferenceAt
  /\ viewed = Nowhere
  /\ relevance = 0 /\ committed = 0
  /\ debounced = {}
  /\ writes = {}
  /\ refetch = {}
  /\ disturbed = {}

\* The effect on argument.uri seeds slider and baseline from the cache.
Seed(a) ==
  /\ viewed' = a
  /\ relevance' = cachedAt[a]
  /\ committed' = cachedAt[a]

\* A write of p; a number tells it from others.
WriteOf(p, heard) ==
  [arg |-> p.arg, value |-> p.value, heard |-> heard,
   prev |-> IF heard THEN committed ELSE 0,
   id |-> CHOOSE n \in 1 .. MaxWrites : \A w \in writes :
            <<w.arg, w.value, w.id>> # <<p.arg, p.value, n>>]

\* A write that is not heard any more needs no baseline.
Unheard == {[w EXCEPT !.heard = FALSE, !.prev = 0] : w \in writes}

\* The mutation: the baseline of the moment is the value to roll back to.
Send(p) ==
  /\ Cardinality(writes) < MaxWrites
  /\ debounced' = {}
  /\ writes' = Unheard \cup {WriteOf(p, TRUE)}
  /\ disturbed' = disturbed
       \cup (IF writes # {} THEN {w.arg : w \in writes} \cup {p.arg} ELSE {})
       \cup (IF viewed # p.arg THEN {p.arg} ELSE {})

\* An argument is opened, or shown by the same view instead of another one:
\* the write that waits goes on waiting.
OpenArgument(a) ==
  /\ viewed # a
  /\ Seed(a)
  /\ LET waiting == debounced \cup {w \in writes : w.heard}
     IN  disturbed' = disturbed \cup
           IF waiting = {} THEN {} ELSE {a} \cup {p.arg : p \in waiting}
  /\ UNCHANGED <<preferenceAt, indexedAt, cachedAt, debounced, writes, refetch>>

\* commitRelevance: the slider is let go.
CommitRelevance(v) ==
  /\ viewed # Nowhere
  /\ relevance' = v
  /\ cachedAt' = [cachedAt EXCEPT ![viewed] = v]
  /\ debounced' = {[arg |-> viewed, value |-> v]}
  /\ disturbed' = disturbed
       \cup {p.arg : p \in {q \in debounced : q.arg # viewed}}
       \cup (IF refetch # {} THEN {viewed} ELSE {})
  /\ UNCHANGED <<preferenceAt, indexedAt, viewed, committed, writes, refetch>>

\* RATE_DEBOUNCE_MS without another commit.
Quiet ==
  /\ \E p \in debounced : Send(p)
  /\ UNCHANGED <<preferenceAt, indexedAt, cachedAt, viewed, relevance, committed,
                 refetch>>

\* Mutant: the write that waits is cancelled, not flushed.
CloseDropping ==
  /\ viewed # Nowhere
  /\ viewed' = Nowhere
  /\ writes' = Unheard
  /\ debounced' = {}
  /\ relevance' = 0 /\ committed' = 0
  /\ UNCHANGED <<preferenceAt, indexedAt, cachedAt, refetch, disturbed>>

\* The view is closed; useDebouncedCallback flushes, and nobody listens.
CloseArgument ==
  /\ viewed # Nowhere
  /\ viewed' = Nowhere
  /\ IF debounced = {}
       THEN /\ writes' = Unheard
            /\ UNCHANGED <<debounced, disturbed>>
       ELSE /\ Cardinality(writes) < MaxWrites
            /\ debounced' = {}
            /\ \E p \in debounced :
                 /\ writes' = Unheard \cup {WriteOf(p, FALSE)}
                 /\ disturbed' = disturbed \cup
                      IF writes = {} THEN {} ELSE {w.arg : w \in writes} \cup {p.arg}
  /\ relevance' = 0 /\ committed' = 0
  /\ UNCHANGED <<preferenceAt, indexedAt, cachedAt, refetch>>

\* content.rating puts the record at its canonical key, and answers.
RateSucceeds(w) ==
  /\ preferenceAt' = [preferenceAt EXCEPT ![w.arg] = w.value]
  /\ committed' = IF w.heard THEN w.value ELSE committed
  /\ writes' = writes \ {w}
  /\ disturbed' = IF refetch # {} THEN disturbed \cup {w.arg} ELSE disturbed
  /\ UNCHANGED <<indexedAt, cachedAt, viewed, relevance, debounced, refetch>>

\* The write fails, or is applied and its answer lost.
RateFails(w) ==
  /\ \/ /\ UNCHANGED preferenceAt
        /\ disturbed' = disturbed \cup
             IF w.heard /\ refetch = {} /\ debounced = {} THEN {} ELSE {w.arg}
     \/ /\ preferenceAt' = [preferenceAt EXCEPT ![w.arg] = w.value]
        /\ disturbed' = disturbed \cup {w.arg}
  /\ IF w.heard
       THEN /\ relevance' = w.prev
            /\ cachedAt' = [cachedAt EXCEPT ![w.arg] = w.prev]
       ELSE UNCHANGED <<relevance, cachedAt>>
  /\ writes' = writes \ {w}
  /\ UNCHANGED <<indexedAt, viewed, committed, debounced, refetch>>

\* The indexer has the rating.
IndexRating(a) ==
  /\ indexedAt[a] # preferenceAt[a]
  /\ indexedAt' = [indexedAt EXCEPT ![a] = preferenceAt[a]]
  /\ UNCHANGED <<preferenceAt, cachedAt, viewed, relevance, committed,
                 debounced, writes, refetch, disturbed>>

\* A query whose data have gone stale reads the indexed value, and replaces the
\* cached one with it; the slider is not seeded again.
Refetch(a) ==
  /\ refetch = {}
  /\ refetch' = {[arg |-> a, value |-> indexedAt[a]]}
  /\ disturbed' = disturbed
       \cup {p.arg : p \in {q \in debounced \cup writes : q.arg = a}}
       \cup (IF indexedAt[a] # preferenceAt[a] THEN {a} ELSE {})
  /\ UNCHANGED <<preferenceAt, indexedAt, cachedAt, viewed, relevance, committed,
                 debounced, writes>>

\* Nothing is left of a disturbance when a query brings what is stored for an
\* argument that is not open and of which nothing is under way.
Refetched ==
  \E r \in refetch :
    /\ cachedAt' = [cachedAt EXCEPT ![r.arg] = r.value]
    /\ refetch' = {}
    /\ disturbed' =
         IF /\ r.value = preferenceAt[r.arg]
            /\ viewed # r.arg
            /\ \A p \in debounced \cup writes : p.arg # r.arg
           THEN disturbed \ {r.arg} ELSE disturbed
    /\ UNCHANGED <<preferenceAt, indexedAt, viewed, relevance, committed,
                   debounced, writes>>

RatingNext ==
  \/ \E a \in Rated : OpenArgument(a) \/ Refetch(a) \/ IndexRating(a)
  \/ \E v \in Relevance : CommitRelevance(v)
  \/ Quiet \/ CloseArgument
  \/ \E w \in writes : RateSucceeds(w) \/ RateFails(w)
  \/ Refetched
-----------------------------------------------------------------------------
RatingTypeOK ==
  /\ preferenceAt \in [Rated -> Preference]
  /\ indexedAt \in [Rated -> Preference]
  /\ cachedAt \in [Rated -> Preference]
  /\ relevance \in Preference /\ committed \in Preference
  /\ debounced # {} => viewed # Nowhere
  /\ disturbed \subseteq Rated

\* An argument whose writes and queries did not get into each other's way, and
\* that was not read before its rating was indexed, is shown, in the lists and on
\* the slider, with the rating that is stored once they are through: a failed
\* write leaves no trace of the optimistic value, a view that is closed loses
\* none.  Once a query has brought the stored value back, this holds again.
RatingSettles ==
  \A a \in Rated \ disturbed :
    (\A p \in debounced \cup writes \cup refetch : p.arg # a) =>
      /\ cachedAt[a] = preferenceAt[a]
      /\ viewed = a => relevance = preferenceAt[a] /\ committed = preferenceAt[a]
=============================================================================
