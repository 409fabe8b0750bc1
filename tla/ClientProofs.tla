----------------------------- MODULE ClientProofs -----------------------------
(***************************************************************************)
(* Proofs about the screens of the web client, for any number of views,    *)
(* arguments, comments and requests under way.  A screen's invariant is    *)
(* about its own variables: the steps of the others leave them alone.      *)
(***************************************************************************)
EXTENDS Client, FiniteSetTheorems, SequenceTheorems, TLAPS

-----------------------------------------------------------------------------
(***************************************************************************)
(* Hearts.  A heart is at rest, or there is one write on it and it shows   *)
(* what that write asks for and has captured what is stored; and a list on *)
(* its way is right about the hearts nobody touched.                       *)
(***************************************************************************)
HeartStates == {"no", "pending", "yes"}
HeartWrites == [on : Likeable, like : BOOLEAN, known : BOOLEAN, viewer : HeartStates, count : Int]

HeartTypes ==
  /\ likedIn \subseteq Likeable /\ likedRow \subseteq Likeable
  /\ inList \subseteq Likeable /\ stirred \subseteq Likeable
  /\ mine \in [Likeable -> HeartStates] /\ likes \in [Likeable -> Int]
  /\ reading \in {"no", "asked", "answered"}
  /\ read \in [rows : SUBSET Likeable, liked : SUBSET Likeable, hot : SUBSET Likeable]
  /\ reading # "answered" => read = NoList
  /\ hearts \subseteq HeartWrites
  /\ IsFiniteSet(hearts) /\ Cardinality(hearts) <= MaxLikes

Untouched(c) == \A w \in hearts : w.on # c

AtRest(c) ==
  /\ mine[c] = IF c \in likedIn THEN "yes" ELSE "no"
  /\ likes[c] = IF c \in likedIn THEN 1 ELSE 0

Pending(c, w) ==
  /\ \A v \in hearts : v.on = c => v = w
  /\ (w.like <=> c \notin likedIn) /\ (w.known <=> c \in likedIn)
  /\ w.viewer = (IF c \in likedIn THEN "yes" ELSE "no")
  /\ w.count = (IF c \in likedIn THEN 1 ELSE 0)
  /\ mine[c] = (IF w.like THEN "pending" ELSE "no")
  /\ likes[c] = (IF w.like THEN 1 ELSE 0)

HeartOK(c) ==
  /\ Untouched(c) => AtRest(c)
  /\ \A w \in hearts : w.on = c => Pending(c, w)

HeartInv ==
  /\ HeartTypes
  /\ \A c \in Likeable \ inList : mine[c] = "no"
  /\ \A c \in inList \ stirred : HeartOK(c)
  /\ reading = "answered" => \A c \in Likeable \ read.hot :
       Untouched(c) /\ (c \in likedIn <=> c \in read.liked)

LEMMA HeartInvMeans == HeartInv => HeartsTypeOK /\ HeartsSettle
<1> SUFFICES ASSUME HeartInv PROVE HeartsTypeOK /\ HeartsSettle
  OBVIOUS
<1>1. HeartsSettle
  BY DEF HeartInv, HeartOK, HeartsSettle, Untouched, AtRest
<1>2. ASSUME NEW c \in Likeable, mine[c] = "pending", c \notin stirred
      PROVE  \E w \in hearts : w.on = c /\ w.like
  <2>1. c \in inList /\ HeartOK(c)
    BY <1>2 DEF HeartInv
  <2>2. ~Untouched(c)
    BY <1>2, <2>1 DEF HeartOK, AtRest
  <2>3. PICK w \in hearts : w.on = c
    BY <2>2 DEF Untouched
  <2>4. Pending(c, w) /\ w.like \in BOOLEAN
    BY <2>1, <2>3 DEF HeartOK, HeartInv, HeartTypes, HeartWrites
  <2>5. w.like
    BY <1>2, <2>4 DEF Pending
  <2> QED BY <2>3, <2>5
<1> QED BY <1>1, <1>2 DEF HeartsTypeOK, HeartInv, HeartTypes, HeartStates

LEMMA HeartInvInit == HeartsInit => HeartInv
<1> SUFFICES ASSUME HeartsInit PROVE HeartInv
  OBVIOUS
<1>1. IsFiniteSet(hearts) /\ Cardinality(hearts) = 0
  BY FS_EmptySet DEF HeartsInit
<1>2. HeartTypes
  BY <1>1, HeartsAssumption DEF HeartsInit, HeartTypes, HeartStates, NoList
<1> QED BY <1>2 DEF HeartsInit, HeartInv, HeartOK, Untouched, AtRest

\* A write ends: what becomes of its heart is said by viewer and count.
LEMMA HeartEnds ==
  ASSUME HeartInv, NEW w \in hearts, NEW viewer \in HeartStates, NEW count \in Int,
         hearts' = hearts \ {w}, Patch(w.on, viewer, count),
         UNCHANGED <<likedRow, inList, reading, read>>,
         stirred' \in {stirred, stirred \cup {w.on}},
         likedIn' \subseteq Likeable, \A c \in Likeable \ {w.on} : c \in likedIn' <=> c \in likedIn,
         w.on \in inList \ stirred' =>
            /\ viewer = IF w.on \in likedIn' THEN "yes" ELSE "no"
            /\ count = IF w.on \in likedIn' THEN 1 ELSE 0
  PROVE  HeartInv'
<1>1. w \in HeartWrites /\ w.on \in Likeable
  BY DEF HeartInv, HeartTypes, HeartWrites
<1>2. /\ mine' \in [Likeable -> HeartStates] /\ likes' \in [Likeable -> Int]
      /\ \A c \in Likeable \ {w.on} : mine'[c] = mine[c] /\ likes'[c] = likes[c]
      /\ w.on \in inList => mine'[w.on] = viewer /\ likes'[w.on] = count
      /\ w.on \notin inList => mine' = mine
  BY <1>1 DEF Patch, HeartInv, HeartTypes
<1>3. IsFiniteSet(hearts') /\ Cardinality(hearts') <= MaxLikes
  <2>1. IsFiniteSet(hearts) /\ Cardinality(hearts) \in Nat /\ Cardinality(hearts) <= MaxLikes
    BY FS_CardinalityType DEF HeartInv, HeartTypes
  <2>2. IsFiniteSet(hearts \ {w}) /\ Cardinality(hearts \ {w}) = Cardinality(hearts) - 1
    BY <2>1, FS_RemoveElement
  <2> QED BY <2>1, <2>2, HeartsAssumption
<1>4. HeartTypes'
  BY <1>1, <1>2, <1>3 DEF HeartInv, HeartTypes
<1>5. ASSUME NEW c \in Likeable \ inList' PROVE mine'[c] = "no"
  BY <1>2, <1>5 DEF HeartInv
<1>6. ASSUME NEW c \in inList' \ stirred' PROVE HeartOK(c)'
  <2>1. c \in inList \ stirred /\ c \in Likeable
    BY DEF HeartInv, HeartTypes
  <2>2. HeartOK(c)
    BY <2>1 DEF HeartInv
  <2>3. CASE c # w.on
    <3>1. mine'[c] = mine[c] /\ likes'[c] = likes[c] /\ (c \in likedIn' <=> c \in likedIn)
      BY <1>2, <2>1, <2>3
    <3>2. Untouched(c)' => AtRest(c)'
      BY <2>2, <2>3, <3>1 DEF HeartOK, Untouched, AtRest
    <3>3. ASSUME NEW v \in hearts', v.on = c PROVE Pending(c, v)'
      <4>1. v \in hearts /\ Pending(c, v)
        BY <2>2, <3>3 DEF HeartOK
      <4> QED BY <3>1, <4>1 DEF Pending
    <3> QED BY <3>2, <3>3 DEF HeartOK
  <2>4. CASE c = w.on
    <3>1. Untouched(c)'
      BY <2>2, <2>4 DEF HeartOK, Pending, Untouched
    <3>2. AtRest(c)'
      BY <1>2, <1>6, <2>1, <2>4 DEF AtRest
    <3> QED BY <3>1, <3>2 DEF HeartOK, Untouched
  <2> QED BY <2>3, <2>4
<1>7. ASSUME reading' = "answered", NEW c \in Likeable \ read'.hot
      PROVE  Untouched(c)' /\ (c \in likedIn' <=> c \in read'.liked)
  <2>1. Untouched(c) /\ (c \in likedIn <=> c \in read.liked)
    BY <1>7 DEF HeartInv
  <2> QED BY <2>1 DEF Untouched
<1> QED BY <1>4, <1>5, <1>6, <1>7 DEF HeartInv

LEMMA LikeEnds ==
  ASSUME HeartInv, NEW w \in hearts, LikeSucceeds(w) \/ LikeFails(w)
  PROVE  HeartInv'
<1> DEFINE c == w.on
<1>1. /\ c \in Likeable /\ w.like \in BOOLEAN /\ w.known \in BOOLEAN
      /\ w.viewer \in HeartStates /\ w.count \in Int /\ likes[c] \in Int
      /\ likedIn \subseteq Likeable
  BY DEF HeartInv, HeartTypes, HeartWrites
<1>2. c \in inList \ stirred => Pending(c, w)
  BY DEF HeartInv, HeartOK
<1>3. Applied(w) => /\ likedIn' \subseteq Likeable
                    /\ \A d \in Likeable \ {c} : d \in likedIn' <=> d \in likedIn
                    /\ c \in inList \ stirred => (c \in likedIn' <=> w.like)
  BY <1>1, <1>2 DEF Applied, Pending
<1>4. CASE LikeSucceeds(w)
  <2>1. /\ Applied(w) /\ hearts' = hearts \ {w}
        /\ Patch(c, IF w.like THEN "yes" ELSE "no", likes[c])
        /\ UNCHANGED <<likedRow, inList, reading, read>> /\ stirred' = stirred
    BY <1>4 DEF LikeSucceeds
  <2>2. (IF w.like THEN "yes" ELSE "no") \in HeartStates
    BY DEF HeartStates
  <2>3. c \in inList \ stirred' =>
           /\ (IF w.like THEN "yes" ELSE "no") = IF c \in likedIn' THEN "yes" ELSE "no"
           /\ likes[c] = IF c \in likedIn' THEN 1 ELSE 0
    BY <1>2, <1>3, <2>1 DEF Pending
  <2> QED BY <1>1, <1>3, <2>1, <2>2, <2>3, HeartEnds
<1>5. CASE LikeFails(w)
  <2>1. /\ \/ likedIn' = likedIn /\ stirred' = stirred
           \/ Applied(w) /\ stirred' = stirred \cup {c}
        /\ hearts' = hearts \ {w}
        /\ Patch(c, w.viewer, w.count)
        /\ UNCHANGED <<likedRow, inList, reading, read>>
    BY <1>5 DEF LikeFails
  <2>2. c \in inList \ stirred' =>
           /\ w.viewer = IF c \in likedIn' THEN "yes" ELSE "no"
           /\ w.count = IF c \in likedIn' THEN 1 ELSE 0
    BY <1>2, <2>1 DEF Pending
  <2> QED BY <1>1, <1>3, <2>1, <2>2, HeartEnds
<1> QED BY <1>4, <1>5

LEMMA ToggleKeeps ==
  ASSUME HeartInv, NEW c \in Likeable, ToggleLike(c)
  PROVE  HeartInv'
<1> DEFINE liked == mine[c] # "no"
           inTheWay == reading # "no" \/ \E w \in hearts : w.on = c
<1>0. PICK write : write = [on |-> c, like |-> ~liked, known |-> mine[c] = "yes",
                            viewer |-> mine[c], count |-> likes[c]]
  OBVIOUS
<1>1. /\ c \in inList /\ Cardinality(hearts) < MaxLikes /\ write \notin hearts
      /\ hearts' = hearts \cup {write}
      /\ mine' = [mine EXCEPT ![c] = IF liked THEN "no" ELSE "pending"]
      /\ likes' = [likes EXCEPT ![c] = IF liked THEN @ - 1 ELSE @ + 1]
      /\ stirred' = IF inTheWay THEN stirred \cup {c} ELSE stirred
      /\ read' = IF reading = "answered" THEN [read EXCEPT !.hot = @ \cup {c}] ELSE read
      /\ UNCHANGED <<likedIn, likedRow, inList, reading>>
  BY <1>0 DEF ToggleLike
<1>2. /\ write \in HeartWrites /\ write.on = c
      /\ write.like = ~liked /\ write.known = (mine[c] = "yes")
      /\ write.viewer = mine[c] /\ write.count = likes[c]
  BY <1>0 DEF HeartWrites, HeartInv, HeartTypes
<1>3. /\ mine' \in [Likeable -> HeartStates] /\ likes' \in [Likeable -> Int]
      /\ \A d \in Likeable \ {c} : mine'[d] = mine[d] /\ likes'[d] = likes[d]
      /\ mine'[c] = (IF liked THEN "no" ELSE "pending")
      /\ likes'[c] = (IF liked THEN likes[c] - 1 ELSE likes[c] + 1)
  BY <1>1 DEF HeartInv, HeartTypes, HeartStates
<1>4. IsFiniteSet(hearts') /\ Cardinality(hearts') <= MaxLikes
  <2>1. IsFiniteSet(hearts) /\ Cardinality(hearts) \in Nat
    BY FS_CardinalityType DEF HeartInv, HeartTypes
  <2>2. IsFiniteSet(hearts \cup {write}) /\ Cardinality(hearts \cup {write}) = Cardinality(hearts) + 1
    BY <1>1, <2>1, FS_AddElement
  <2> QED BY <1>1, <2>1, <2>2, HeartsAssumption
<1>5. /\ read' \in [rows : SUBSET Likeable, liked : SUBSET Likeable, hot : SUBSET Likeable]
      /\ read'.liked = read.liked
      /\ read'.hot = IF reading = "answered" THEN read.hot \cup {c} ELSE read.hot
  BY <1>1 DEF HeartInv, HeartTypes
<1>6. HeartTypes'
  BY <1>1, <1>2, <1>3, <1>4, <1>5 DEF HeartInv, HeartTypes
<1>7. ASSUME NEW d \in Likeable \ inList' PROVE mine'[d] = "no"
  BY <1>1, <1>3, <1>7 DEF HeartInv
<1>8. ASSUME NEW d \in inList' \ stirred' PROVE HeartOK(d)'
  <2>1. d \in inList \ stirred /\ d \in Likeable /\ HeartOK(d)
    BY <1>1 DEF HeartInv, HeartTypes
  <2>2. CASE d # c
    <3>1. mine'[d] = mine[d] /\ likes'[d] = likes[d] /\ likedIn' = likedIn
      BY <1>1, <1>3, <2>1, <2>2
    <3>2. Untouched(d)' => AtRest(d)'
      BY <1>1, <2>1, <3>1 DEF HeartOK, Untouched, AtRest
    <3>3. ASSUME NEW v \in hearts', v.on = d PROVE Pending(d, v)'
      <4>1. v \in hearts /\ Pending(d, v)
        BY <1>1, <1>2, <2>1, <2>2, <3>3 DEF HeartOK
      <4> QED BY <1>1, <1>2, <2>2, <3>1, <4>1 DEF Pending
    <3> QED BY <3>2, <3>3 DEF HeartOK
  <2>3. CASE d = c
    <3>1. ~inTheWay /\ Untouched(c)
      BY <1>1, <1>8, <2>3 DEF Untouched
    <3>2. AtRest(c)
      BY <2>1, <2>3, <3>1 DEF HeartOK
    <3>3. liked <=> c \in likedIn
      BY <3>2 DEF AtRest
    <3>4. ASSUME NEW v \in hearts', v.on = c PROVE v = write
      BY <1>1, <3>1, <3>4 DEF Untouched
    <3>5. \A v \in hearts' : v.on = c => v = write
      BY <3>4
    <3>6. Pending(c, write)'
      <4>1. CASE c \in likedIn
        <5>1. mine[c] = "yes" /\ likes[c] = 1 /\ likedIn' = likedIn
          BY <1>1, <3>2, <4>1 DEF AtRest
        <5>2. mine'[c] = "no" /\ likes'[c] = 0
          BY <1>3, <5>1
        <5>3. /\ write.like = FALSE /\ write.known = TRUE
              /\ write.viewer = "yes" /\ write.count = 1
          BY <1>2, <5>1
        <5> QED BY <3>5, <4>1, <5>1, <5>2, <5>3 DEF Pending
      <4>2. CASE c \notin likedIn
        <5>1. mine[c] = "no" /\ likes[c] = 0 /\ likedIn' = likedIn
          BY <1>1, <3>2, <4>2 DEF AtRest
        <5>2. mine'[c] = "pending" /\ likes'[c] = 1
          BY <1>3, <5>1
        <5>3. /\ write.like = TRUE /\ write.known = FALSE
              /\ write.viewer = "no" /\ write.count = 0
          BY <1>2, <5>1
        <5>4. (write.like <=> c \notin likedIn') /\ (write.known <=> c \in likedIn')
          BY <4>2, <5>1, <5>3
        <5>5. /\ write.viewer = (IF c \in likedIn' THEN "yes" ELSE "no")
              /\ write.count = (IF c \in likedIn' THEN 1 ELSE 0)
              /\ mine'[c] = (IF write.like THEN "pending" ELSE "no")
              /\ likes'[c] = (IF write.like THEN 1 ELSE 0)
          BY <4>2, <5>1, <5>2, <5>3
        <5> QED BY <3>5, <5>4, <5>5 DEF Pending
      <4> QED BY <4>1, <4>2
    <3>7. ~Untouched(c)'
      BY <1>1, <1>2 DEF Untouched
    <3>8. \A v \in hearts' : v.on = c => Pending(c, v)'
      BY <3>5, <3>6 DEF Pending
    <3>9. HeartOK(c)'
      BY <3>7, <3>8 DEF HeartOK
    <3> QED BY <2>3, <3>9
  <2> QED BY <2>2, <2>3
<1>9. ASSUME reading' = "answered", NEW d \in Likeable \ read'.hot
      PROVE  Untouched(d)' /\ (d \in likedIn' <=> d \in read'.liked)
  <2>1. d # c /\ d \in Likeable \ read.hot /\ reading = "answered"
    BY <1>1, <1>5, <1>9
  <2>2. Untouched(d) /\ (d \in likedIn <=> d \in read.liked)
    BY <2>1 DEF HeartInv
  <2> QED BY <1>1, <1>2, <1>5, <2>1, <2>2 DEF Untouched
<1> QED BY <1>6, <1>7, <1>8, <1>9 DEF HeartInv

\* The list.
LEMMA HeartListKeeps ==
  ASSUME HeartInv, \/ AskHearts \/ ReadHearts \/ ShowHearts \/ HeartsUnread
                   \/ \E c \in Likeable : IndexLike(c)
  PROVE  HeartInv'
<1> USE DEF HeartOK, Untouched, AtRest, Pending
<1>1. CASE AskHearts
  BY <1>1 DEF AskHearts, HeartInv, HeartTypes
<1>2. CASE ReadHearts
  <2>1. PICK rows \in SUBSET Likeable :
          read' = [rows |-> rows, liked |-> likedRow,
                   hot |-> {w.on : w \in hearts} \cup (likedIn \ likedRow) \cup (likedRow \ likedIn)]
    BY <1>2 DEF ReadHearts
  <2>2. /\ reading' = "answered"
        /\ UNCHANGED <<likedIn, likedRow, inList, mine, likes, hearts, stirred>>
    BY <1>2 DEF ReadHearts
  <2>3. /\ read'.liked = likedRow
        /\ read'.hot = {w.on : w \in hearts} \cup (likedIn \ likedRow) \cup (likedRow \ likedIn)
    BY <2>1
  <2>4. {w.on : w \in hearts} \subseteq Likeable
    BY DEF HeartInv, HeartTypes, HeartWrites
  <2>5. HeartTypes'
    BY <2>1, <2>2, <2>4 DEF HeartInv, HeartTypes
  <2>6. ASSUME NEW c \in Likeable \ read'.hot
        PROVE  Untouched(c)' /\ (c \in likedIn' <=> c \in read'.liked)
    BY <2>2, <2>3, <2>6
  <2> QED BY <2>2, <2>5, <2>6 DEF HeartInv
<1>3. CASE ShowHearts
  <2>1. /\ reading = "answered" /\ reading' = "no" /\ read' = NoList
        /\ inList' = read.rows
        /\ mine' = [c \in Likeable |-> IF c \in read.rows \cap read.liked THEN "yes" ELSE "no"]
        /\ likes' = [c \in Likeable |-> IF c \in read.rows \cap read.liked THEN 1 ELSE 0]
        /\ stirred' = read.hot
        /\ UNCHANGED <<likedIn, likedRow, hearts>>
    BY <1>3 DEF ShowHearts
  <2>2. HeartTypes'
    BY <2>1 DEF HeartInv, HeartTypes, HeartStates, NoList
  <2>3. ASSUME NEW c \in inList' \ stirred' PROVE HeartOK(c)'
    <3>1. c \in Likeable \ read.hot /\ c \in read.rows
      BY <2>1, <2>3 DEF HeartInv, HeartTypes
    <3>2. Untouched(c) /\ (c \in likedIn <=> c \in read.liked)
      BY <2>1, <3>1 DEF HeartInv
    <3> QED BY <2>1, <3>1, <3>2
  <2>4. ASSUME NEW c \in Likeable \ inList' PROVE mine'[c] = "no"
    BY <2>1, <2>4
  <2> QED BY <2>1, <2>2, <2>3, <2>4 DEF HeartInv
<1>4. CASE HeartsUnread
  <2>1. NoList \in [rows : SUBSET Likeable, liked : SUBSET Likeable, hot : SUBSET Likeable]
    BY DEF NoList
  <2> QED BY <1>4, <2>1 DEF HeartsUnread, HeartInv, HeartTypes
<1>5. CASE \E c \in Likeable : IndexLike(c)
  BY <1>5 DEF IndexLike, HeartInv, HeartTypes
<1> QED BY <1>1, <1>2, <1>3, <1>4, <1>5

LEMMA HeartsKeep == HeartInv /\ (HeartsNext \/ UNCHANGED heartVars) => HeartInv'
<1>1. HeartInv /\ UNCHANGED heartVars => HeartInv'
  BY DEF heartVars, HeartInv, HeartTypes, HeartOK, Untouched, AtRest, Pending
<1> QED BY <1>1, LikeEnds, ToggleKeeps, HeartListKeeps DEF HeartsNext

-----------------------------------------------------------------------------
(***************************************************************************)
(* Ratings.  Of an argument nothing got into the way of, at most one write *)
(* is under way, the value that waits or is written is the one shown, and  *)
(* the baseline is what will be stored if that write fails.                *)
(***************************************************************************)
IsWrite(w) ==
  w \in [arg : Rated, value : Relevance, heard : BOOLEAN, prev : Preference, id : {w.id}]

RatingTypes ==
  /\ preferenceAt \in [Rated -> Preference] /\ indexedAt \in [Rated -> Preference]
  /\ cachedAt \in [Rated -> Preference]
  /\ relevance \in Preference /\ committed \in Preference
  /\ viewed \in Rated \cup {Nowhere}
  /\ \A p \in debounced : p.arg \in Rated /\ p.value \in Relevance
  /\ \A p, q \in debounced : p = q
  /\ debounced # {} => viewed # Nowhere
  /\ \A w \in writes : IsWrite(w)
  /\ \A r \in refetch : r.arg \in Rated /\ r.value \in Preference
  /\ \A r, q \in refetch : r = q
  /\ disturbed \subseteq Rated

\* Who waits or listens is the view of that argument, or one that was disturbed.
HeardHere ==
  /\ \A p \in debounced : viewed = p.arg \/ viewed \in disturbed
  /\ \A w \in writes : w.heard => viewed = w.arg \/ viewed \in disturbed

Waiting(a) == \E p \in debounced : p.arg = a
Writing(a) == \E w \in writes : w.arg = a

ReadAlone(a) == \A r \in refetch : r.arg = a =>
  r.value = preferenceAt[a] /\ ~Waiting(a) /\ ~Writing(a)

WritesAlone(a) == \A w, v \in writes : w.arg = a => v = w

WaitsShown(a) == \A p \in debounced : p.arg = a =>
  /\ viewed = a /\ cachedAt[a] = p.value /\ relevance = p.value
  /\ ~Writing(a) => committed = preferenceAt[a]
  /\ \A w \in writes : w.arg = a => committed = IF w.heard THEN preferenceAt[a] ELSE w.value

WrittenShown(a) == ~Waiting(a) => \A w \in writes : w.arg = a =>
  /\ cachedAt[a] = w.value
  /\ viewed = a => relevance = w.value
  /\ w.heard => viewed = a /\ w.prev = preferenceAt[a] /\ committed = preferenceAt[a]
  /\ ~w.heard /\ viewed = a => committed = w.value

StoredShown(a) == ~Waiting(a) /\ ~Writing(a) =>
  /\ cachedAt[a] = preferenceAt[a]
  /\ viewed = a => relevance = preferenceAt[a] /\ committed = preferenceAt[a]

RatedOK(a) == /\ ReadAlone(a) /\ WritesAlone(a) /\ WaitsShown(a)
              /\ WrittenShown(a) /\ StoredShown(a)

RatingInv == RatingTypes /\ HeardHere /\ \A a \in Rated \ disturbed : RatedOK(a)

LEMMA RatingInvMeans == RatingInv => RatingTypeOK /\ RatingSettles
BY DEF RatingInv, RatingTypes, RatedOK, StoredShown, Waiting, Writing, RatingTypeOK, RatingSettles

LEMMA RatingInvInit == RatingInit => RatingInv
BY DEF RatingInit, RatingInv, RatingTypes, HeardHere, RatedOK, ReadAlone, WritesAlone, WaitsShown,
   WrittenShown, StoredShown, Waiting, Writing, Preference

\* What becomes of a write nobody listens to any more.
LEMMA UnheardIs ==
  ASSUME RatingInv
  PROVE  /\ \A u \in Unheard : IsWrite(u) /\ u.heard = FALSE /\ u.prev = 0
                               /\ \E w \in writes : u.arg = w.arg /\ u.value = w.value
         /\ \A w \in writes : \E u \in Unheard : u.arg = w.arg /\ u.value = w.value
         /\ \A w \in writes : (\A v \in writes : v = w) => \A u, v \in Unheard : u = v
<1>1. ASSUME NEW w \in writes
      PROVE  /\ IsWrite([w EXCEPT !.heard = FALSE, !.prev = 0])
             /\ [w EXCEPT !.heard = FALSE, !.prev = 0].heard = FALSE
             /\ [w EXCEPT !.heard = FALSE, !.prev = 0].prev = 0
             /\ [w EXCEPT !.heard = FALSE, !.prev = 0].arg = w.arg
             /\ [w EXCEPT !.heard = FALSE, !.prev = 0].value = w.value
  <2>1. w \in [arg : Rated, value : Relevance, heard : BOOLEAN, prev : Preference, id : {w.id}]
    BY DEF RatingInv, RatingTypes, IsWrite
  <2>2. 0 \in Preference
    BY DEF Preference
  <2>3. [w EXCEPT !.heard = FALSE, !.prev = 0]
          \in [arg : Rated, value : Relevance, heard : BOOLEAN, prev : Preference, id : {w.id}]
    BY <2>1, <2>2
  <2>4. [w EXCEPT !.heard = FALSE, !.prev = 0].id = w.id
    BY <2>1
  <2>5. IsWrite([w EXCEPT !.heard = FALSE, !.prev = 0])
    BY <2>3, <2>4 DEF IsWrite
  <2> QED BY <2>1, <2>5
<1> QED BY <1>1 DEF Unheard

LEMMA WriteOfIs ==
  ASSUME RatingInv, NEW p \in debounced, NEW heard \in BOOLEAN
  PROVE  /\ IsWrite(WriteOf(p, heard))
         /\ WriteOf(p, heard).arg = p.arg /\ WriteOf(p, heard).value = p.value
         /\ WriteOf(p, heard).heard = heard
         /\ WriteOf(p, heard).prev = IF heard THEN committed ELSE 0
BY DEF WriteOf, IsWrite, RatingInv, RatingTypes, Preference

LEMMA OpenArgumentKeeps ==
  ASSUME RatingInv, NEW a \in Rated, OpenArgument(a)
  PROVE  RatingInv'
<1> USE RatingAssumption
<1> DEFINE waiting == debounced \cup {w \in writes : w.heard}
<1>1. /\ viewed # a /\ viewed' = a /\ relevance' = cachedAt[a] /\ committed' = cachedAt[a]
      /\ disturbed' = disturbed \cup IF waiting = {} THEN {} ELSE {a} \cup {p.arg : p \in waiting}
      /\ UNCHANGED <<preferenceAt, indexedAt, cachedAt, debounced, writes, refetch>>
  BY DEF OpenArgument, Seed
<1>2. {p.arg : p \in waiting} \subseteq Rated
  BY DEF RatingInv, RatingTypes, IsWrite
<1>3. RatingTypes'
  BY <1>1, <1>2 DEF RatingInv, RatingTypes
<1>4. HeardHere'
  BY <1>1 DEF HeardHere
<1>5. ASSUME NEW b \in Rated \ disturbed' PROVE RatedOK(b)'
  <2>1. RatedOK(b) /\ b \notin disturbed
    BY <1>1 DEF RatingInv
  <2>2. ~Waiting(b) /\ (\A w \in writes : w.arg = b => ~w.heard)
    BY <1>1, <1>5 DEF Waiting
  <2>3. cachedAt[b] \in Preference
    BY DEF RatingInv, RatingTypes
  <2> QED BY <1>1, <2>1, <2>2, <2>3 DEF RatedOK, ReadAlone, WritesAlone, WaitsShown, WrittenShown,
          StoredShown, Waiting, Writing
<1> QED BY <1>3, <1>4, <1>5 DEF RatingInv

LEMMA CommitKeeps ==
  ASSUME RatingInv, NEW v \in Relevance, CommitRelevance(v)
  PROVE  RatingInv'
<1> USE RatingAssumption
<1> PICK a \in Rated : a = viewed
  BY DEF CommitRelevance, RatingInv, RatingTypes
<1>1. /\ relevance' = v /\ cachedAt' = [cachedAt EXCEPT ![a] = v]
      /\ debounced' = {[arg |-> a, value |-> v]}
      /\ disturbed' = disturbed \cup {p.arg : p \in {q \in debounced : q.arg # a}}
                                \cup (IF refetch # {} THEN {a} ELSE {})
      /\ UNCHANGED <<preferenceAt, indexedAt, viewed, committed, writes, refetch>>
  BY DEF CommitRelevance
<1>2. disturbed' \subseteq Rated /\ disturbed \subseteq disturbed'
  BY <1>1 DEF RatingInv, RatingTypes
<1>3. RatingTypes'
  BY <1>1, <1>2 DEF RatingInv, RatingTypes, Preference
<1>4. HeardHere'
  BY <1>1, <1>2 DEF RatingInv, HeardHere
<1>5. ASSUME NEW b \in Rated \ disturbed' PROVE RatedOK(b)'
  <2>1. RatedOK(b) /\ b \notin disturbed
    BY <1>2 DEF RatingInv
  <2>2. CASE b # a
    <3>1. ~Waiting(b)
      BY <1>1, <1>5, <2>2 DEF Waiting
    <3>2. ~Waiting(b)' /\ cachedAt'[b] = cachedAt[b] /\ (Writing(b)' <=> Writing(b))
      BY <1>1, <2>2 DEF Waiting, Writing, RatingInv, RatingTypes
    <3> QED BY <1>1, <2>1, <2>2, <3>1, <3>2 DEF RatedOK, ReadAlone, WritesAlone, WaitsShown,
            WrittenShown, StoredShown, Waiting, Writing
  <2>3. CASE b = a
    <3>1. refetch = {} /\ cachedAt'[a] = v /\ viewed = a
      BY <1>1, <1>5, <2>3 DEF RatingInv, RatingTypes
    <3>2. \A p \in debounced' : p.arg = a /\ p.value = v
      BY <1>1
    <3>3. Waiting(a)' /\ (Writing(a)' <=> Writing(a))
      BY <1>1 DEF Waiting, Writing
    <3>4. ~Writing(a) => committed = preferenceAt[a]
      BY <2>1, <2>3, <3>1 DEF RatedOK, WaitsShown, StoredShown, Waiting
    <3>5. \A w \in writes : w.arg = a => committed = IF w.heard THEN preferenceAt[a] ELSE w.value
      BY <2>1, <2>3, <3>1 DEF RatedOK, WaitsShown, WrittenShown, Waiting, RatingInv, RatingTypes,
         IsWrite
    <3>6. WaitsShown(a)'
      BY <1>1, <3>1, <3>2, <3>3, <3>4, <3>5 DEF WaitsShown
    <3>7. ReadAlone(a)' /\ WritesAlone(a)' /\ WrittenShown(a)' /\ StoredShown(a)'
      BY <1>1, <2>1, <2>3, <3>1, <3>3 DEF RatedOK, ReadAlone, WritesAlone, WrittenShown, StoredShown
    <3>8. RatedOK(a)'
      BY <3>6, <3>7 DEF RatedOK
    <3> QED BY <2>3, <3>8
  <2> QED BY <2>2, <2>3
<1> QED BY <1>3, <1>4, <1>5 DEF RatingInv

\* A write begins: of p, heard or not, beside writes nobody listens to any more.
LEMMA BeginKeeps ==
  ASSUME RatingInv, NEW p \in debounced, NEW heard \in BOOLEAN,
         debounced' = {},
         writes' = Unheard \cup {WriteOf(p, heard)},
         disturbed \subseteq disturbed', disturbed' \subseteq Rated,
         writes # {} => p.arg \in disturbed' /\ \A w \in writes : w.arg \in disturbed',
         UNCHANGED <<preferenceAt, indexedAt, cachedAt, refetch>>,
         heard => /\ UNCHANGED <<viewed, relevance, committed>>
                  /\ viewed # p.arg => p.arg \in disturbed',
         ~heard => viewed' = Nowhere /\ relevance' = 0 /\ committed' = 0
  PROVE  RatingInv'
<1> USE RatingAssumption
<1> DEFINE u == WriteOf(p, heard)
<1>1. /\ IsWrite(u) /\ u.arg = p.arg /\ u.value = p.value /\ u.heard = heard
      /\ u.prev = IF heard THEN committed ELSE 0
  BY WriteOfIs
<1>2. \A v \in Unheard : IsWrite(v) /\ v.heard = FALSE /\ \E w \in writes : v.arg = w.arg
  BY UnheardIs
<1>3. writes' = Unheard \cup {u}
  OBVIOUS
<1>4. p.arg \in Rated /\ p.value \in Relevance /\ viewed # Nowhere
  BY DEF RatingInv, RatingTypes
<1> HIDE DEF u
<1>5. RatingTypes'
  <2>1. \A w \in writes' : IsWrite(w)
    BY <1>1, <1>2, <1>3 DEF IsWrite
  <2>2. relevance' \in Preference /\ committed' \in Preference /\ viewed' \in Rated \cup {Nowhere}
    BY DEF RatingInv, RatingTypes, Preference
  <2> QED BY <2>1, <2>2 DEF RatingInv, RatingTypes, IsWrite
<1>6. HeardHere'
  <2>1. viewed = p.arg \/ viewed \in disturbed
    BY DEF RatingInv, HeardHere
  <2>2. ASSUME NEW w \in writes', w.heard PROVE viewed' = w.arg \/ viewed' \in disturbed'
    <3>1. w = u /\ heard
      BY <1>1, <1>2, <1>3, <2>2
    <3> QED BY <1>1, <2>1, <3>1
  <2> QED BY <2>2 DEF HeardHere
<1>7. ASSUME NEW b \in Rated \ disturbed' PROVE RatedOK(b)'
  <2>1. RatedOK(b) /\ b \notin disturbed
    BY DEF RatingInv
  <2>2. \A v \in Unheard : v.arg # b
    BY <1>2, <1>7
  <2>3. ~Waiting(b)'
    BY DEF Waiting
  <2>4. ~Writing(b)
    <3>1. CASE writes = {}
      BY <3>1 DEF Writing
    <3>2. CASE writes # {}
      BY <3>2, <1>7 DEF Writing
    <3> QED BY <3>1, <3>2
  <2>5. CASE b # p.arg
    <3>1. ~Writing(b)' /\ ~Waiting(b)
      BY <1>1, <1>3, <2>2, <2>5 DEF Writing, Waiting, RatingInv, RatingTypes
    <3>2. ReadAlone(b)' /\ WritesAlone(b)' /\ WaitsShown(b)' /\ WrittenShown(b)'
      BY <2>1, <2>3, <3>1 DEF RatedOK, ReadAlone, WritesAlone, WaitsShown, WrittenShown, Waiting,
         Writing
    <3>3. StoredShown(b)'
      BY <2>1, <2>4, <3>1, <1>7 DEF RatedOK, StoredShown
    <3> QED BY <3>2, <3>3 DEF RatedOK
  <2>6. CASE b = p.arg
    <3>1. Waiting(b) /\ writes = {}
      BY <2>6, <1>7 DEF Waiting
    <3>2. \A w \in writes' : w = u
      BY <1>2, <1>3, <3>1
    <3>3. \A r \in refetch : r.arg # b
      BY <2>1, <3>1 DEF RatedOK, ReadAlone
    <3>4. viewed = b /\ cachedAt[b] = p.value /\ relevance = p.value /\ committed = preferenceAt[b]
      BY <2>1, <2>4, <2>6 DEF RatedOK, WaitsShown
    <3>5. Writing(b)'
      BY <1>1, <1>3, <2>6 DEF Writing
    <3>6. WrittenShown(b)'
      <4>1. cachedAt'[b] = u.value
        BY <1>1, <3>4
      <4>2. viewed' = b => heard /\ relevance' = u.value
        BY <1>1, <3>4, <1>7
      <4>3. u.heard => viewed' = b /\ u.prev = preferenceAt'[b] /\ committed' = preferenceAt'[b]
        BY <1>1, <3>4
      <4> QED BY <1>1, <3>2, <4>1, <4>2, <4>3 DEF WrittenShown
    <3>7. ReadAlone(b)' /\ WritesAlone(b)' /\ WaitsShown(b)' /\ StoredShown(b)'
      BY <3>2, <3>3, <3>5 DEF ReadAlone, WritesAlone, WaitsShown, StoredShown
    <3> QED BY <3>6, <3>7 DEF RatedOK
  <2> QED BY <2>5, <2>6
<1> QED BY <1>5, <1>6, <1>7 DEF RatingInv

LEMMA QuietKeeps == ASSUME RatingInv, Quiet PROVE RatingInv'
<1> PICK p \in debounced : Send(p)
  BY DEF Quiet
<1>1. /\ debounced' = {} /\ writes' = Unheard \cup {WriteOf(p, TRUE)}
      /\ disturbed' = disturbed
           \cup (IF writes # {} THEN {w.arg : w \in writes} \cup {p.arg} ELSE {})
           \cup (IF viewed # p.arg THEN {p.arg} ELSE {})
      /\ UNCHANGED <<preferenceAt, indexedAt, cachedAt, viewed, relevance, committed, refetch>>
  BY DEF Quiet, Send
<1>2. p.arg \in Rated /\ {w.arg : w \in writes} \subseteq Rated /\ disturbed \subseteq Rated
  BY DEF RatingInv, RatingTypes, IsWrite
<1>3. disturbed \subseteq disturbed' /\ disturbed' \subseteq Rated
  BY <1>1, <1>2
<1>4. writes # {} => p.arg \in disturbed' /\ \A w \in writes : w.arg \in disturbed'
  BY <1>1
<1> QED BY <1>1, <1>3, <1>4, BeginKeeps

LEMMA CloseArgumentKeeps == ASSUME RatingInv, CloseArgument PROVE RatingInv'
<1> USE RatingAssumption
<1>1. CASE debounced # {}
  <2> PICK p \in debounced :
        /\ writes' = Unheard \cup {WriteOf(p, FALSE)}
        /\ disturbed' = disturbed \cup
                      IF writes = {} THEN {} ELSE {w.arg : w \in writes} \cup {p.arg}
    BY <1>1 DEF CloseArgument
  <2>1. /\ debounced' = {} /\ viewed' = Nowhere /\ relevance' = 0 /\ committed' = 0
        /\ UNCHANGED <<preferenceAt, indexedAt, cachedAt, refetch>>
    BY <1>1 DEF CloseArgument
  <2>2. p.arg \in Rated /\ {w.arg : w \in writes} \subseteq Rated /\ disturbed \subseteq Rated
    BY DEF RatingInv, RatingTypes, IsWrite
  <2>3. disturbed \subseteq disturbed' /\ disturbed' \subseteq Rated
    BY <2>2
  <2>4. writes # {} => p.arg \in disturbed' /\ \A w \in writes : w.arg \in disturbed'
    OBVIOUS
  <2> QED BY <2>1, <2>3, <2>4, BeginKeeps
<1>2. CASE debounced = {}
  <2>1. /\ debounced' = {} /\ viewed' = Nowhere /\ relevance' = 0 /\ committed' = 0
        /\ writes' = Unheard
        /\ UNCHANGED <<preferenceAt, indexedAt, cachedAt, refetch, disturbed>>
    BY <1>2 DEF CloseArgument
  <2>2. \A v \in Unheard : /\ IsWrite(v) /\ v.heard = FALSE
                           /\ \E w \in writes : v.arg = w.arg /\ v.value = w.value
    BY UnheardIs
  <2>3. \A w \in writes' : IsWrite(w)
    BY <2>1, <2>2 DEF IsWrite
  <2>4. RatingTypes'
    BY <2>1, <2>3 DEF RatingInv, RatingTypes, Preference, IsWrite
  <2>5. HeardHere'
    BY <2>1, <2>2 DEF HeardHere
  <2>6. ASSUME NEW b \in Rated \ disturbed' PROVE RatedOK(b)'
    <3>1. RatedOK(b) /\ ~Waiting(b) /\ ~Waiting(b)'
      BY <1>2, <2>1, <2>6 DEF RatingInv, Waiting
    <3>2. Writing(b) <=> Writing(b)'
      BY <2>1, <2>2, UnheardIs DEF Writing
    <3>3. WritesAlone(b)'
      <4> SUFFICES ASSUME NEW w \in Unheard, NEW v \in Unheard, w.arg = b PROVE v = w
        BY <2>1 DEF WritesAlone
      <4>1. PICK o \in writes : o.arg = b
        BY <2>2
      <4>2. \A x \in writes : x = o
        BY <3>1, <4>1 DEF RatedOK, WritesAlone
      <4> QED BY <4>2, UnheardIs
    <3>4. WrittenShown(b)'
      <4> SUFFICES ASSUME NEW w \in Unheard, w.arg = b
                   PROVE  cachedAt[b] = w.value /\ w.heard = FALSE
        BY <2>1, <2>6 DEF WrittenShown
      <4> QED BY <2>2, <3>1 DEF RatedOK, WrittenShown
    <3>5. ReadAlone(b)' /\ WaitsShown(b)' /\ StoredShown(b)'
      BY <2>1, <2>6, <3>1, <3>2 DEF RatedOK, ReadAlone, WaitsShown, StoredShown, Waiting
    <3> QED BY <3>3, <3>4, <3>5 DEF RatedOK
  <2> QED BY <2>4, <2>5, <2>6 DEF RatingInv
<1> QED BY <1>1, <1>2

\* A write is answered: it leaves, and it was the only one on its argument.
LEMMA AnswerKeeps ==
  ASSUME RatingInv, NEW w \in writes,
         writes' = writes \ {w},
         disturbed \subseteq disturbed', disturbed' \subseteq Rated,
         \A b \in Rated \ {w.arg} :
           preferenceAt'[b] = preferenceAt[b] /\ cachedAt'[b] = cachedAt[b],
         preferenceAt' \in [Rated -> Preference], cachedAt' \in [Rated -> Preference],
         relevance' \in Preference, committed' \in Preference,
         ~w.heard => relevance' = relevance /\ committed' = committed,
         UNCHANGED <<indexedAt, viewed, debounced, refetch>>,
         w.arg \notin disturbed' => RatedOK(w.arg)'
  PROVE  RatingInv'
<1>1. IsWrite(w) /\ w.arg \in Rated
  BY DEF RatingInv, RatingTypes, IsWrite
<1>2. RatingTypes'
  BY DEF RatingInv, RatingTypes
<1>3. HeardHere'
  BY DEF RatingInv, HeardHere
<1>4. ASSUME NEW b \in Rated \ disturbed', b # w.arg PROVE RatedOK(b)'
  <2>1. RatedOK(b) /\ b \notin disturbed
    BY <1>4 DEF RatingInv
  <2>2. preferenceAt'[b] = preferenceAt[b] /\ cachedAt'[b] = cachedAt[b]
    BY <1>4
  <2>3. viewed = b => relevance' = relevance /\ committed' = committed
    BY <1>1, <1>4, <2>1 DEF RatingInv, HeardHere
  <2>4. (Waiting(b)' <=> Waiting(b)) /\ (Writing(b)' <=> Writing(b))
    BY <1>4 DEF Waiting, Writing
  <2>5. ReadAlone(b)' /\ WritesAlone(b)'
    BY <2>1, <2>2, <2>4 DEF RatedOK, ReadAlone, WritesAlone
  <2>6. WaitsShown(b)'
    BY <2>1, <2>2, <2>3, <2>4 DEF RatedOK, WaitsShown
  <2>7. WrittenShown(b)'
    BY <2>1, <2>2, <2>3, <2>4 DEF RatedOK, WrittenShown
  <2>8. StoredShown(b)'
    BY <2>1, <2>2, <2>3, <2>4 DEF RatedOK, StoredShown
  <2> QED BY <2>5, <2>6, <2>7, <2>8 DEF RatedOK
<1> QED BY <1>1, <1>2, <1>3, <1>4 DEF RatingInv

\* The argument of a write that is alone and undisturbed, once it is answered.
LEMMA AnsweredIs ==
  ASSUME RatingInv, NEW w \in writes, w.arg \notin disturbed, writes' = writes \ {w}
  PROVE  ~Writing(w.arg)' /\ WritesAlone(w.arg)' /\ WrittenShown(w.arg)' /\ Writing(w.arg)
BY DEF RatingInv, RatingTypes, IsWrite, RatedOK, WritesAlone, Writing, WrittenShown

LEMMA RateSucceedsKeeps == ASSUME RatingInv, NEW w \in writes, RateSucceeds(w) PROVE RatingInv'
<1>1. w \in [arg : Rated, value : Relevance, heard : BOOLEAN, prev : Preference, id : {w.id}]
  BY DEF RatingInv, RatingTypes, IsWrite
<1>2. /\ preferenceAt' = [preferenceAt EXCEPT ![w.arg] = w.value]
      /\ committed' = (IF w.heard THEN w.value ELSE committed)
      /\ writes' = writes \ {w}
      /\ disturbed' = (IF refetch # {} THEN disturbed \cup {w.arg} ELSE disturbed)
      /\ UNCHANGED <<indexedAt, cachedAt, viewed, relevance, debounced, refetch>>
  BY DEF RateSucceeds
<1>3. w.arg \in Rated /\ w.value \in Preference /\ w.heard \in BOOLEAN
  BY <1>1 DEF Preference
<1>4. /\ preferenceAt' \in [Rated -> Preference] /\ preferenceAt'[w.arg] = w.value
      /\ \A b \in Rated \ {w.arg} : preferenceAt'[b] = preferenceAt[b]
      /\ relevance \in Preference /\ committed' \in Preference
      /\ disturbed \subseteq disturbed' /\ disturbed' \subseteq Rated
  BY <1>2, <1>3 DEF RatingInv, RatingTypes
<1>5. ASSUME w.arg \notin disturbed' PROVE RatedOK(w.arg)'
  <2>1. refetch = {} /\ w.arg \notin disturbed /\ RatedOK(w.arg)
    BY <1>2, <1>3, <1>5 DEF RatingInv
  <2>2. ~Writing(w.arg)' /\ WritesAlone(w.arg)' /\ WrittenShown(w.arg)' /\ Writing(w.arg)
    BY <1>2, <2>1, AnsweredIs
  <2>3. ReadAlone(w.arg)'
    BY <1>2, <2>1 DEF ReadAlone
  <2>4. WaitsShown(w.arg)'
    BY <1>2, <1>3, <1>4, <2>1, <2>2 DEF RatedOK, WaitsShown, Writing
  <2>5. StoredShown(w.arg)'
    BY <1>2, <1>3, <1>4, <2>1 DEF RatedOK, WrittenShown, StoredShown, Waiting
  <2> QED BY <2>2, <2>3, <2>4, <2>5 DEF RatedOK
<1> QED BY <1>2, <1>3, <1>4, <1>5, AnswerKeeps DEF RatingInv, RatingTypes

LEMMA RateFailsKeeps == ASSUME RatingInv, NEW w \in writes, RateFails(w) PROVE RatingInv'
<1>1. w \in [arg : Rated, value : Relevance, heard : BOOLEAN, prev : Preference, id : {w.id}]
  BY DEF RatingInv, RatingTypes, IsWrite
<1>2. w.arg \in Rated /\ w.value \in Preference /\ w.heard \in BOOLEAN /\ w.prev \in Preference
  BY <1>1 DEF Preference
<1>3. /\ writes' = writes \ {w}
      /\ UNCHANGED <<indexedAt, viewed, committed, debounced, refetch>>
      /\ ~w.heard => relevance' = relevance /\ cachedAt' = cachedAt
      /\ w.heard => relevance' = w.prev /\ cachedAt' = [cachedAt EXCEPT ![w.arg] = w.prev]
      /\ preferenceAt' \in {preferenceAt, [preferenceAt EXCEPT ![w.arg] = w.value]}
  BY DEF RateFails
<1>4. disturbed' \in {disturbed, disturbed \cup {w.arg}}
  BY DEF RateFails
<1>5. /\ preferenceAt' \in [Rated -> Preference] /\ cachedAt' \in [Rated -> Preference]
      /\ \A b \in Rated \ {w.arg} :
           preferenceAt'[b] = preferenceAt[b] /\ cachedAt'[b] = cachedAt[b]
      /\ relevance' \in Preference /\ committed' \in Preference
      /\ disturbed \subseteq disturbed' /\ disturbed' \subseteq Rated
  BY <1>2, <1>3, <1>4 DEF RatingInv, RatingTypes
<1>6. ASSUME w.arg \notin disturbed' PROVE RatedOK(w.arg)'
  <2>1. UNCHANGED preferenceAt /\ w.heard /\ refetch = {} /\ debounced = {}
    BY <1>6 DEF RateFails
  <2>2. w.arg \notin disturbed /\ RatedOK(w.arg)
    BY <1>2, <1>5, <1>6 DEF RatingInv
  <2>3. ~Writing(w.arg)' /\ WritesAlone(w.arg)' /\ WrittenShown(w.arg)'
    BY <1>3, <2>2, AnsweredIs
  <2>4. viewed = w.arg /\ w.prev = preferenceAt[w.arg] /\ committed = preferenceAt[w.arg]
    BY <2>1, <2>2 DEF RatedOK, WrittenShown, Waiting
  <2>5. cachedAt'[w.arg] = w.prev /\ relevance' = w.prev
    BY <1>2, <1>3, <2>1 DEF RatingInv, RatingTypes
  <2>6. StoredShown(w.arg)'
    BY <1>3, <2>1, <2>4, <2>5 DEF StoredShown
  <2>7. ReadAlone(w.arg)' /\ WaitsShown(w.arg)'
    BY <1>3, <2>1 DEF ReadAlone, WaitsShown
  <2> QED BY <2>3, <2>6, <2>7 DEF RatedOK
<1> QED BY <1>2, <1>3, <1>5, <1>6, AnswerKeeps

LEMMA RefetchKeeps == ASSUME RatingInv, NEW a \in Rated, Refetch(a) PROVE RatingInv'
<1> DEFINE crossing == {q \in debounced \cup writes : q.arg = a}
<1> DEFINE stale == IF indexedAt[a] # preferenceAt[a] THEN {a} ELSE {}
<1>1. /\ refetch' = {[arg |-> a, value |-> indexedAt[a]]}
      /\ disturbed' = disturbed \cup {p.arg : p \in crossing} \cup stale
      /\ UNCHANGED <<preferenceAt, indexedAt, cachedAt, viewed, relevance, committed, debounced,
                      writes>>
  BY DEF Refetch
<1>2. {p.arg : p \in crossing} \subseteq {a} /\ stale \subseteq {a}
  OBVIOUS
<1>3. disturbed \subseteq disturbed' /\ disturbed' \subseteq Rated
  BY <1>1, <1>2 DEF RatingInv, RatingTypes
<1>4. a \notin disturbed' => ~Waiting(a) /\ ~Writing(a) /\ indexedAt[a] = preferenceAt[a]
  <2>1. a \notin disturbed' => indexedAt[a] = preferenceAt[a]
    BY <1>1
  <2> SUFFICES ASSUME Waiting(a) \/ Writing(a) PROVE a \in disturbed'
    BY <2>1
  <2> PICK p \in crossing : p.arg = a
    BY DEF Waiting, Writing
  <2> QED BY <1>1
<1>5. RatingTypes'
  BY <1>1, <1>3 DEF RatingInv, RatingTypes
<1>6. HeardHere'
  BY <1>1, <1>3 DEF RatingInv, HeardHere
<1>7. ASSUME NEW b \in Rated \ disturbed' PROVE RatedOK(b)'
  <2>1. RatedOK(b)
    BY <1>3 DEF RatingInv
  <2>2. (Waiting(b)' <=> Waiting(b)) /\ (Writing(b)' <=> Writing(b))
    BY <1>1 DEF Waiting, Writing
  <2>3. ReadAlone(b)'
    BY <1>1, <1>4, <1>7, <2>2 DEF ReadAlone
  <2>4. WritesAlone(b)' /\ WaitsShown(b)' /\ WrittenShown(b)' /\ StoredShown(b)'
    BY <1>1, <2>1, <2>2 DEF RatedOK, WritesAlone, WaitsShown, WrittenShown, StoredShown
  <2> QED BY <2>3, <2>4 DEF RatedOK
<1> QED BY <1>5, <1>6, <1>7 DEF RatingInv

\* Whatever was disturbed is settled again when the stored value is shown.
LEMMA RefetchedKeeps == ASSUME RatingInv, Refetched PROVE RatingInv'
<1> PICK r \in refetch :
      /\ cachedAt' = [cachedAt EXCEPT ![r.arg] = r.value]
      /\ refetch' = {}
      /\ disturbed' = IF /\ r.value = preferenceAt[r.arg] /\ viewed # r.arg
                         /\ \A p \in debounced \cup writes : p.arg # r.arg
                        THEN disturbed \ {r.arg} ELSE disturbed
      /\ UNCHANGED <<preferenceAt, indexedAt, viewed, relevance, committed, debounced, writes>>
  BY DEF Refetched
<1> DEFINE settled == /\ r.value = preferenceAt[r.arg] /\ viewed # r.arg
                      /\ ~Waiting(r.arg) /\ ~Writing(r.arg)
<1>0. disturbed' = disturbed \/ (settled /\ disturbed' = disturbed \ {r.arg})
  BY DEF Waiting, Writing
<1>1. r.arg \in Rated /\ r.value \in Preference
  BY DEF RatingInv, RatingTypes
<1>2. /\ cachedAt' \in [Rated -> Preference] /\ cachedAt'[r.arg] = r.value
      /\ \A b \in Rated \ {r.arg} : cachedAt'[b] = cachedAt[b]
  BY <1>1 DEF RatingInv, RatingTypes
<1>3. RatingTypes'
  BY <1>0, <1>2 DEF RatingInv, RatingTypes
<1>4. HeardHere'
  <2>1. viewed \in disturbed => viewed \in disturbed'
    BY <1>0
  <2> QED BY <2>1 DEF RatingInv, HeardHere
<1>5. ASSUME NEW b \in Rated \ disturbed', b \notin disturbed PROVE RatedOK(b)'
  <2>1. RatedOK(b)
    BY <1>5 DEF RatingInv
  <2>2. (Waiting(b)' <=> Waiting(b)) /\ (Writing(b)' <=> Writing(b))
    BY DEF Waiting, Writing
  <2>3. cachedAt'[b] = cachedAt[b] \/ (cachedAt'[b] = preferenceAt[b] /\ ~Waiting(b) /\ ~Writing(b))
    BY <1>2, <2>1 DEF RatedOK, ReadAlone
  <2>4. CASE cachedAt'[b] = cachedAt[b]
    BY <2>1, <2>2, <2>4 DEF RatedOK, ReadAlone, WritesAlone, WaitsShown, WrittenShown, StoredShown
  <2>5. CASE cachedAt'[b] = preferenceAt[b] /\ ~Waiting(b) /\ ~Writing(b)
    BY <2>1, <2>2, <2>5 DEF RatedOK, ReadAlone, WritesAlone, WaitsShown, WrittenShown, StoredShown,
       Waiting, Writing
  <2> QED BY <2>3, <2>4, <2>5
<1>6. ASSUME NEW b \in Rated \ disturbed', b \in disturbed PROVE RatedOK(b)'
  <2>1. b = r.arg /\ settled
    BY <1>0, <1>6
  <2>2. ~Waiting(b)' /\ ~Writing(b)' /\ cachedAt'[b] = preferenceAt'[b] /\ viewed' # b
    BY <1>2, <2>1 DEF Waiting, Writing
  <2> QED BY <2>2 DEF RatedOK, ReadAlone, WritesAlone, WaitsShown, WrittenShown, StoredShown,
          Waiting, Writing
<1> QED BY <1>3, <1>4, <1>5, <1>6 DEF RatingInv

LEMMA IndexRatingKeeps == ASSUME RatingInv, NEW a \in Rated, IndexRating(a) PROVE RatingInv'
BY DEF IndexRating, RatingInv, RatingTypes, HeardHere, RatedOK, ReadAlone, WritesAlone, WaitsShown,
   WrittenShown, StoredShown, Waiting, Writing

LEMMA RatingKeep == RatingInv /\ (RatingNext \/ UNCHANGED ratingVars) => RatingInv'
<1>1. RatingInv /\ UNCHANGED ratingVars => RatingInv'
  BY DEF ratingVars, RatingInv, RatingTypes, HeardHere, RatedOK, ReadAlone, WritesAlone,
     WaitsShown, WrittenShown, StoredShown, Waiting, Writing
<1> QED BY <1>1, OpenArgumentKeeps, CommitKeeps, QuietKeeps, CloseArgumentKeeps,
        RateSucceedsKeeps, RateFailsKeeps, IndexRatingKeeps, RefetchKeeps, RefetchedKeeps DEF RatingNext

-----------------------------------------------------------------------------
(***************************************************************************)
(* The form of a review.  Until a review was accepted, what localStorage   *)
(* keeps is what was entered, but for the blanks of a form that is being   *)
(* mounted, and the form, once mounted, shows it: without the second part  *)
(* a change of one field would overwrite the others.                       *)
(***************************************************************************)
Kept == [assessments : [Key -> Assessment], vote : Vote]

FormInv ==
  /\ ReviewFormTypeOK
  /\ accepted \in BOOLEAN /\ torn \in BOOLEAN
  /\ entered \in Kept /\ localDraft \subseteq Kept
  /\ ~accepted /\ ~torn =>
       /\ gate # "unmounted" => Entries = entered
       /\ gate # "mounting" =>
            localDraft \in {{entered}, {}} /\ (localDraft = {} => entered = Blank)
  /\ gate = "mounting" /\ ~accepted => localDraft = {Blank}

LEMMA BlankIsKept == Blank \in Kept
BY DEF Blank, Kept, Assessment, Vote

LEMMA FormInvInit == ReviewFormInit => FormInv
BY BlankIsKept DEF ReviewFormInit, FormInv, ReviewFormTypeOK, Blank, Kept

LEMMA FormTouched ==
  ASSUME FormInv, gate = "ready", UNCHANGED <<gate, accepted, projected>>,
         assessments' \in [Key -> Assessment], vote' \in Vote, Persist
  PROVE  FormInv'
<1>1. [assessments |-> assessments', vote |-> vote'] \in Kept
  BY DEF Kept
<1> QED BY <1>1 DEF FormInv, ReviewFormTypeOK, Persist, Entries

LEMMA FormMounts == ASSUME FormInv, Mount PROVE FormInv'
<1> DEFINE d == IF localDraft = {} THEN Blank ELSE CHOOSE x \in localDraft : TRUE
<1>1. /\ gate = "unmounted" /\ gate' = "mounting" /\ localDraft' = {Blank}
      /\ assessments' = d.assessments /\ vote' = d.vote
      /\ UNCHANGED <<accepted, projected, entered, torn>>
  BY DEF Mount, Restore, Server, History
<1>2. d \in Kept
  BY BlankIsKept DEF FormInv
<1>3. ~accepted /\ ~torn => d = entered
  BY <1>1 DEF FormInv
<1> HIDE DEF d
<1>4. assessments' \in [Key -> Assessment] /\ vote' \in Vote
  BY <1>1, <1>2 DEF Kept
<1>5. d = [assessments |-> assessments', vote |-> vote']
  BY <1>1, <1>2 DEF Kept
<1> QED BY <1>1, <1>3, <1>4, <1>5, BlankIsKept DEF FormInv, ReviewFormTypeOK, Entries

\* What is shown after the mount is what is kept.
LEMMA FormRenders == ASSUME FormInv, Render PROVE FormInv'
<1>1. /\ gate = "mounting" /\ gate' = "checking" /\ localDraft' = {Entries}
      /\ UNCHANGED <<assessments, vote, accepted, projected, entered, torn>>
  BY DEF Render, Server, History
<1>2. Entries \in Kept
  BY DEF FormInv, ReviewFormTypeOK, Entries, Kept
<1> QED BY <1>1, <1>2 DEF FormInv, ReviewFormTypeOK, Entries

\* A form that goes while it is mounting had nothing to lose, or is torn.
LEMMA FormGoes == ASSUME FormInv, Unmount PROVE FormInv'
<1>1. /\ gate' = "unmounted" /\ torn' = (torn \/ (gate = "mounting" /\ Entries # Blank))
      /\ UNCHANGED <<assessments, vote, localDraft, accepted, projected, entered>>
  BY DEF Unmount, Banner
<1> QED BY <1>1 DEF FormInv, ReviewFormTypeOK, Entries

LEMMA FormKeep == FormInv /\ (ReviewFormNext \/ UNCHANGED reviewVars) => FormInv'
<1> SUFFICES ASSUME FormInv, ReviewFormNext \/ UNCHANGED reviewVars PROVE FormInv'
  OBVIOUS
<1> USE DEF FormInv, ReviewFormTypeOK, Entries
<1>1. CASE UNCHANGED reviewVars
  BY <1>1 DEF reviewVars
<1>2. CASE Mount
  BY <1>2, FormMounts
<1>3. CASE CheckedIn \/ Candidate \/ ProjectResponse \/ AskPoll \/ AnswerPoll
  BY <1>3 DEF CheckedIn, Candidate, ProjectResponse, AskPoll, AnswerPoll, Server, Banner, History
<1>4. ASSUME NEW k \in Key, NEW v \in {"ok", "flagged"}, SetAssessment(k, v)
      PROVE  FormInv'
  <2>1. assessments' \in [Key -> Assessment] /\ vote' \in Vote
    BY <1>4 DEF SetAssessment, Assessment, Vote
  <2> QED BY <1>4, <2>1, FormTouched DEF SetAssessment, Server
<1>5. ASSUME NEW v \in {"APPROVE", "REJECT"}, ChooseVote(v) PROVE FormInv'
  <2>1. assessments' \in [Key -> Assessment] /\ vote' \in Vote
    BY <1>5 DEF ChooseVote, Vote
  <2> QED BY <1>5, <2>1, FormTouched DEF ChooseVote, Server
<1>6. ASSUME NEW n \in 1 .. MaxSubmits,
             SubmitReview(n) \/ SubmitSucceeds(n) \/ SubmitFails(n)
      PROVE  FormInv'
  <2>1. CASE SubmitReview(n)
    BY <2>1 DEF SubmitReview, Banner, History
  <2>2. CASE SubmitSucceeds(n)
    BY <2>2 DEF SubmitSucceeds, History
  <2>3. CASE SubmitFails(n)
    <3>1. /\ accepted' = accepted \/ accepted' = TRUE
          /\ UNCHANGED <<gate, assessments, vote, localDraft, projected, entered, torn>>
      BY <2>3 DEF SubmitFails, History
    <3> QED BY <3>1
  <2> QED BY <1>6, <2>1, <2>2, <2>3
<1> QED BY <1>1, <1>2, <1>3, <1>4, <1>5, <1>6, FormRenders, FormGoes DEF ReviewFormNext

-----------------------------------------------------------------------------
(***************************************************************************)
(* The composer.  The key that is held is that of the text the calculator  *)
(* had, whatever was written, closed or sent since.                        *)
(***************************************************************************)
ComposerInv ==
  /\ ComposerTypeOK
  /\ creations \in Nat
  /\ checkedKey # {} => checkedFor = checkedKey

LEMMA ComposerInvInit == ComposerInit => ComposerInv
BY ComposerAssumption DEF ComposerInit, ComposerInv, ComposerTypeOK, Stance

LEMMA ComposerTypeKeep == ComposerTypeOK /\ ComposerNext => ComposerTypeOK'
<1> SUFFICES ASSUME ComposerTypeOK, ComposerNext PROVE ComposerTypeOK'
  OBVIOUS
<1> USE ComposerAssumption DEF ComposerTypeOK, Written, Judgement
<1>1. CASE OpenComposer \/ KeepEditing \/ BackToReview \/ Check
  BY <1>1 DEF OpenComposer, KeepEditing, BackToReview, Check
<1>2. ASSUME NEW s \in Stance, ChooseStance(s) PROVE ComposerTypeOK'
  BY <1>2 DEF ChooseStance
<1>3. ASSUME NEW t \in Title, NEW b \in Body, Write(t, b) PROVE ComposerTypeOK'
  BY <1>3 DEF Write
<1>4. CASE Cancel \/ Discard \/ CreateDone
  BY <1>4 DEF Cancel, Discard, CreateDone, Reset, Stance
<1>5. CASE SubmitClick \/ SubmitAnyway \/ CreateFailed
  BY <1>5 DEF SubmitClick, SubmitAnyway, Create, CreateFailed
<1>6. ASSUME NEW q \in checks, Checked(q) PROVE ComposerTypeOK'
  BY <1>6 DEF Checked
<1> QED BY <1>1, <1>2, <1>3, <1>4, <1>5, <1>6 DEF ComposerNext

LEMMA ComposerKeep == ComposerInv /\ (ComposerNext \/ UNCHANGED composerVars) => ComposerInv'
<1> SUFFICES ASSUME ComposerInv, ComposerNext \/ UNCHANGED composerVars PROVE ComposerInv'
  OBVIOUS
<1>0. CASE UNCHANGED composerVars
  BY <1>0 DEF composerVars, ComposerInv, ComposerTypeOK
<1> SUFFICES ASSUME ComposerNext
             PROVE  /\ creations' \in Nat
                    /\ checkedKey' # {} => checkedFor' = checkedKey'
  BY <1>0, ComposerTypeKeep DEF ComposerInv
<1> USE DEF ComposerInv
<1>2. CASE OpenComposer \/ KeepEditing \/ BackToReview \/ Check
             \/ (\E s \in Stance : ChooseStance(s))
             \/ (\E t \in Title, b \in Body : Write(t, b))
  BY <1>2 DEF OpenComposer, KeepEditing, BackToReview, Check, ChooseStance, Write, Judgement,
     UnderWay
<1>3. CASE Cancel \/ Discard \/ CreateDone \/ CreateFailed
  BY <1>3 DEF Cancel, Discard, CreateDone, CreateFailed, Reset, Judgement, UnderWay
<1>4. CASE SubmitClick \/ SubmitAnyway
  BY <1>4 DEF SubmitClick, SubmitAnyway, Create, Judgement, UnderWay
<1>5. CASE \E q \in checks : Checked(q)
  BY <1>5 DEF Checked
<1> QED BY <1>2, <1>3, <1>4, <1>5 DEF ComposerNext

\* What a step of the composer that sends something may rely on.
Concern == verdict = "flagged" \/ TooShort \/ TooLong

LEMMA SendingMeans ==
  ComposerInv /\ ComposerNext /\ creations' > creations =>
    checkedFor = {KeyOf(Text)} /\ (Concern => step = "confirm")
<1> SUFFICES ASSUME ComposerInv, ComposerNext, creations' > creations
             PROVE  checkedFor = {KeyOf(Text)} /\ (Concern => step = "confirm")
  OBVIOUS
<1>1. Create /\ (step = "confirm" \/ ~HasConcerns)
  BY DEF ComposerInv, ComposerNext, OpenComposer, Cancel, KeepEditing, Discard, ChooseStance, Write,
     Check, Checked, SubmitClick, BackToReview, SubmitAnyway, CreateDone, CreateFailed, UnderWay,
     Judgement, Reset
<1>2. checkedKey = {KeyOf(Text)}
  BY <1>1 DEF Create, IsChecked
<1>3. checkedFor = {KeyOf(Text)}
  BY <1>2 DEF ComposerInv
<1> QED BY <1>1, <1>3 DEF HasConcerns, Concern

-----------------------------------------------------------------------------
(***************************************************************************)
(* The stack of views.  The entries above some entry b of the history each *)
(* either show no view, or the view above what the entry before them shows;*)
(* and of those between b and the one shown there are as many of the       *)
(* second sort as pushCount counts.                                        *)
(***************************************************************************)
Stacks == Seq(Entry)

IsAbove(h, j) == h[j] # <<>> /\ h[j - 1] = Front(h[j])

Grown(h, b) == \A j \in b + 1 .. Len(h) : h[j] = <<>> \/ IsAbove(h, j)

Aboves(h, b, i) == {j \in b + 1 .. i : IsAbove(h, j)}

MayGoBack(h, i, n) == \E b \in 1 .. i : Grown(h, b) /\ n <= Cardinality(Aboves(h, b, i))

OverlayInv ==
  /\ history \in Seq(Stacks) /\ history # <<>>
  /\ at \in 0 .. Len(history)
  /\ pushCount \in 0 .. MaxHistory
  /\ ~jumped /\ pushCount > 0 => MayGoBack(history, at, pushCount)

LEMMA AbovesAreFinite ==
  ASSUME NEW h, NEW b \in Int, NEW i \in Int
  PROVE  IsFiniteSet(Aboves(h, b, i)) /\ Cardinality(Aboves(h, b, i)) \in Nat
<1>1. Aboves(h, b, i) \in SUBSET (b + 1 .. i) /\ b + 1 \in Int
  BY DEF Aboves
<1> QED BY <1>1, FS_Interval, FS_Subset, FS_CardinalityType

\* An entry without a view, or with one above what was shown, is put on top.
LEMMA GrowsBy ==
  ASSUME NEW h \in Seq(Stacks), NEW g \in Seq(Stacks), NEW i \in 1 .. Len(h), NEW n \in Nat,
         Len(g) = i + 1, \A j \in 1 .. i : g[j] = h[j],
         n = 0 \/ MayGoBack(h, i, n)
  PROVE  /\ g[i + 1] = <<>> => n = 0 \/ MayGoBack(g, i + 1, n)
         /\ IsAbove(g, i + 1) => MayGoBack(g, i + 1, n + 1)
<1> PICK b \in 1 .. i : /\ n > 0 => Grown(h, b)
                        /\ n > 0 => n <= Cardinality(Aboves(h, b, i))
                        /\ n = 0 => b = i
  BY DEF MayGoBack
<1>1. Len(h) \in Nat /\ Len(g) \in Nat
  OBVIOUS
<1>2. \A j \in b + 1 .. i : g[j] = h[j] /\ g[j - 1] = h[j - 1]
  BY <1>1
<1>3. \A j \in b + 1 .. i : IsAbove(g, j) <=> IsAbove(h, j)
  BY <1>2 DEF IsAbove
<1>4. \A j \in b + 1 .. i : g[j] = <<>> \/ IsAbove(g, j)
  <2>1. CASE n = 0
    BY <2>1
  <2>2. CASE n > 0
    <3>1. \A j \in b + 1 .. i : j \in b + 1 .. Len(h)
      BY <1>1
    <3>2. \A j \in b + 1 .. i : h[j] = <<>> \/ IsAbove(h, j)
      BY <2>2, <3>1 DEF Grown
    <3> QED BY <1>2, <1>3, <3>2
  <2> QED BY <2>1, <2>2
<1>5. g[i + 1] = <<>> \/ IsAbove(g, i + 1) => Grown(g, b)
  BY <1>1, <1>4 DEF Grown
<1>6. Aboves(h, b, i) \subseteq Aboves(g, b, i + 1)
  BY <1>3 DEF Aboves
<1>7. n <= Cardinality(Aboves(h, b, i))
  BY AbovesAreFinite
<1>8. Cardinality(Aboves(h, b, i)) <= Cardinality(Aboves(g, b, i + 1))
  BY <1>1, <1>6, AbovesAreFinite, FS_Subset
<1>9. IsAbove(g, i + 1) => Cardinality(Aboves(g, b, i + 1)) = Cardinality(Aboves(h, b, i)) + 1
  <2> SUFFICES ASSUME IsAbove(g, i + 1)
               PROVE  Cardinality(Aboves(g, b, i + 1)) = Cardinality(Aboves(h, b, i)) + 1
    OBVIOUS
  <2>1. Aboves(g, b, i + 1) = Aboves(h, b, i) \cup {i + 1}
    BY <1>3 DEF Aboves
  <2>2. i + 1 \notin Aboves(h, b, i)
    BY DEF Aboves
  <2>3. IsFiniteSet(Aboves(h, b, i))
    BY AbovesAreFinite
  <2> QED BY <2>1, <2>2, <2>3, FS_AddElement
<1>10. /\ Cardinality(Aboves(h, b, i)) \in Nat /\ Cardinality(Aboves(g, b, i + 1)) \in Nat
  BY AbovesAreFinite
<1>11. b \in 1 .. i + 1
  OBVIOUS
<1> QED BY <1>5, <1>7, <1>8, <1>9, <1>10, <1>11 DEF MayGoBack

\* One entry back.
LEMMA GoesBackBy ==
  ASSUME NEW h \in Seq(Stacks), NEW i \in 1 .. Len(h), NEW n \in Nat \ {0}, MayGoBack(h, i, n)
  PROVE  /\ i > 1
         /\ h[i] = <<>> \/ IsAbove(h, i)
         /\ h[i] = <<>> => MayGoBack(h, i - 1, n)
         /\ MayGoBack(h, i - 1, n - 1)
<1> PICK b \in 1 .. i : Grown(h, b) /\ n <= Cardinality(Aboves(h, b, i))
  BY DEF MayGoBack
<1>1. Len(h) \in Nat
  OBVIOUS
<1>2. b # i
  <2> SUFFICES ASSUME b = i PROVE FALSE
    OBVIOUS
  <2>1. Aboves(h, b, i) = {}
    BY DEF Aboves
  <2> QED BY <2>1, FS_EmptySet
<1>3. b \in 1 .. i - 1 /\ i \in b + 1 .. Len(h) /\ i > 1
  BY <1>1, <1>2
<1>4. h[i] = <<>> \/ IsAbove(h, i)
  BY <1>3 DEF Grown
<1>5. Aboves(h, b, i - 1) = Aboves(h, b, i) \ {i}
  BY DEF Aboves
<1>6. IsFiniteSet(Aboves(h, b, i)) /\ Cardinality(Aboves(h, b, i)) \in Nat
      /\ Cardinality(Aboves(h, b, i - 1)) \in Nat
  BY AbovesAreFinite
<1>7. n - 1 <= Cardinality(Aboves(h, b, i - 1))
  <2>1. Cardinality(Aboves(h, b, i) \ {i})
          = IF i \in Aboves(h, b, i) THEN Cardinality(Aboves(h, b, i)) - 1
                                     ELSE Cardinality(Aboves(h, b, i))
    BY <1>6, FS_RemoveElement
  <2>2. Cardinality(Aboves(h, b, i - 1)) = Cardinality(Aboves(h, b, i)) - 1
          \/ Cardinality(Aboves(h, b, i - 1)) = Cardinality(Aboves(h, b, i))
    BY <1>5, <2>1, Zenon
  <2>3. n <= Cardinality(Aboves(h, b, i))
    OBVIOUS
  <2>4. ASSUME NEW c \in Nat, NEW d \in Nat, n <= c, d = c - 1 \/ d = c PROVE n - 1 <= d
    BY <2>4
  <2> HIDE DEF Aboves
  <2> QED BY <1>6, <2>2, <2>3, <2>4
<1>8. h[i] = <<>> => n <= Cardinality(Aboves(h, b, i - 1))
  <2> SUFFICES ASSUME h[i] = <<>> PROVE n <= Cardinality(Aboves(h, b, i - 1))
    OBVIOUS
  <2>1. i \notin Aboves(h, b, i)
    BY DEF Aboves, IsAbove
  <2> QED BY <1>5, <2>1
<1> QED BY <1>3, <1>4, <1>7, <1>8 DEF MayGoBack

\* Any number of entries forward, and counting fewer.
LEMMA GoesOn ==
  ASSUME NEW h \in Seq(Stacks), NEW i \in 1 .. Len(h), NEW k \in i .. Len(h),
         NEW n \in Nat, NEW m \in 0 .. n, MayGoBack(h, i, n)
  PROVE  MayGoBack(h, k, m)
<1> PICK b \in 1 .. i : Grown(h, b) /\ n <= Cardinality(Aboves(h, b, i))
  BY DEF MayGoBack
<1>1. b \in 1 .. k /\ k \in Int
  OBVIOUS
<1>2. Aboves(h, b, i) \in SUBSET Aboves(h, b, k)
  BY DEF Aboves
<1>3. Cardinality(Aboves(h, b, i)) <= Cardinality(Aboves(h, b, k))
  BY <1>1, <1>2, AbovesAreFinite, FS_Subset
<1>4. Cardinality(Aboves(h, b, i)) \in Nat /\ Cardinality(Aboves(h, b, k)) \in Nat
  BY <1>1, AbovesAreFinite
<1> QED BY <1>1, <1>3, <1>4 DEF MayGoBack

LEMMA StackIs ==
  ASSUME OverlayInv, at > 0
  PROVE  /\ at \in 1 .. Len(history) /\ Len(history) \in Nat
         /\ Stack = history[at] /\ Stack \in Stacks /\ Len(Stack) \in Nat
         /\ pushCount \in Nat
BY OverlayAssumption, ElementOfSeq DEF OverlayInv, Stack, StackOf, Stacks

LEMMA FrontIs ==
  ASSUME NEW s \in Stacks
  PROVE  /\ s # <<>> => Front(s) \in Stacks /\ Len(Front(s)) = Len(s) - 1 /\ Len(s) > 0
         /\ \A e \in Entry : /\ Append(s, e) \in Stacks /\ Append(s, e) # <<>>
                             /\ Len(Append(s, e)) = Len(s) + 1
                             /\ Front(Append(s, e)) = s
<1>1. s \in Seq(Entry) /\ Len(s) \in Nat
  BY DEF Stacks
<1>2. s # <<>> => Front(s) \in Stacks /\ Len(Front(s)) = Len(s) - 1 /\ Len(s) > 0
  <2> SUFFICES ASSUME s # <<>>
               PROVE  Front(s) \in Stacks /\ Len(Front(s)) = Len(s) - 1 /\ Len(s) > 0
    OBVIOUS
  <2>1. Len(s) > 0 /\ Len(s) - 1 \in Nat
    BY <1>1, EmptySeq
  <2>2. \A i \in 1 .. Len(s) - 1 : s[i] \in Entry
    BY <1>1, <2>1, ElementOfSeq
  <2>4. 1 \in Int /\ Len(s) - 1 \in Int
    BY <1>1
  <2>5. /\ SubSeq(s, 1, Len(s) - 1) \in Seq(Entry)
        /\ Len(SubSeq(s, 1, Len(s) - 1))
             = IF 1 <= Len(s) - 1 THEN (Len(s) - 1) - 1 + 1 ELSE 0
    BY <2>2, <2>4, SubSeqProperties
  <2>6. Len(SubSeq(s, 1, Len(s) - 1)) = Len(s) - 1
    <3>1. ASSUME NEW l \in Nat, l > 0, NEW k, k = IF 1 <= l - 1 THEN (l - 1) - 1 + 1 ELSE 0
          PROVE  k = l - 1
      BY <3>1
    <3> QED BY <1>1, <2>1, <2>5, <3>1, Zenon
  <2> QED BY <2>1, <2>5, <2>6 DEF Stacks, Front
<1>3. ASSUME NEW e \in Entry
      PROVE  /\ Append(s, e) \in Stacks /\ Append(s, e) # <<>>
             /\ Len(Append(s, e)) = Len(s) + 1
             /\ Front(Append(s, e)) = s
  <2>1. /\ Append(s, e) \in Seq(Entry) /\ Append(s, e) # <<>>
        /\ Len(Append(s, e)) = Len(s) + 1
        /\ \A i \in 1 .. Len(s) : Append(s, e)[i] = s[i]
    BY <1>1, AppendProperties
  <2>2. Front(Append(s, e)) = SubSeq(Append(s, e), 1, Len(s))
    BY <1>1, <2>1 DEF Front
  <2>3. \A i \in 1 .. Len(s) : Append(s, e)[i] \in Entry
    BY <1>1, <2>1
  <2>4. /\ Front(Append(s, e)) \in Seq(Entry) /\ Len(Front(Append(s, e))) = Len(s)
        /\ \A i \in 1 .. Len(s) : Front(Append(s, e))[i] = Append(s, e)[i]
    BY <1>1, <2>2, <2>3, SubSeqProperties
  <2>5. Front(Append(s, e)) = s
    BY <1>1, <2>1, <2>4, SeqEqual
  <2> QED BY <2>1, <2>5 DEF Stacks
<1> QED BY <1>2, <1>3

LEMMA PushedIs ==
  ASSUME OverlayInv, at > 0, NEW s \in Stacks
  PROVE  /\ Pushed(s) \in Seq(Stacks) /\ Len(Pushed(s)) = at + 1
         /\ \A j \in 1 .. at : Pushed(s)[j] = history[j]
         /\ Pushed(s)[at + 1] = s
<1>1. history \in Seq(Stacks) /\ at \in 1 .. Len(history) /\ Len(history) \in Nat
  BY StackIs DEF OverlayInv
<1>2. \A j \in 1 .. at : history[j] \in Stacks
  BY <1>1, ElementOfSeq
<1>3. /\ SubSeq(history, 1, at) \in Seq(Stacks) /\ Len(SubSeq(history, 1, at)) = at
      /\ \A j \in 1 .. at : SubSeq(history, 1, at)[j] = history[j]
  BY <1>1, <1>2, SubSeqProperties
<1> QED BY <1>1, <1>3, AppendProperties DEF Pushed

LEMMA OverlayInvInit == OverlayInit => OverlayInv
<1> SUFFICES ASSUME OverlayInit PROVE OverlayInv
  OBVIOUS
<1>1. PICK s \in UNION {[1 .. n -> Entry] : n \in 0 .. MaxDepth} : history = <<s>>
  BY DEF OverlayInit
<1>2. PICK n \in 0 .. MaxDepth : s \in [1 .. n -> Entry]
  BY <1>1
<1>3. s \in Stacks
  BY <1>2, OverlayAssumption DEF Stacks
<1>4. history \in Seq(Stacks) /\ Len(history) = 1 /\ history # <<>>
  BY <1>1, <1>3
<1> QED BY <1>4, OverlayAssumption DEF OverlayInit, OverlayInv

\* A new entry on top of the history.
LEMMA PushKeeps ==
  ASSUME OverlayInv, at > 0, NEW s \in Stacks, NEW n \in 0 .. MaxHistory,
         Land(Pushed(s), at + 1, n), UNCHANGED jumped,
         \/ s = <<>> /\ n = pushCount
         \/ s # <<>> /\ Front(s) = Stack /\ n = pushCount + 1
  PROVE  OverlayInv'
<1> USE OverlayAssumption
<1> DEFINE g == Pushed(s)
           m == IF Len(s) < Len(Stack) THEN IF n > 0 THEN n - 1 ELSE 0 ELSE n
<1>1. /\ g \in Seq(Stacks) /\ Len(g) = at + 1
      /\ \A j \in 1 .. at : g[j] = history[j]
      /\ g[at + 1] = s
  BY PushedIs
<1>2. /\ at \in 1 .. Len(history) /\ Len(history) \in Nat /\ Stack = history[at]
      /\ Stack \in Stacks /\ Len(Stack) \in Nat /\ pushCount \in Nat
  BY StackIs
<1>3. history' = g /\ at' = at + 1 /\ pushCount' = m /\ m \in 0 .. n
  BY <1>1, <1>2 DEF Land, StackOf
<1> HIDE DEF g, m
<1>4. ASSUME ~jumped', pushCount' > 0 PROVE MayGoBack(history', at', pushCount')
  <2>1. pushCount = 0 \/ MayGoBack(history, at, pushCount)
    BY <1>2, <1>4 DEF OverlayInv
  <2>2. /\ g[at + 1] = <<>> => pushCount = 0 \/ MayGoBack(g, at + 1, pushCount)
        /\ IsAbove(g, at + 1) => MayGoBack(g, at + 1, pushCount + 1)
    BY <1>1, <1>2, <2>1, GrowsBy DEF OverlayInv
  <2>3. MayGoBack(g, at + 1, n)
    <3>1. CASE s = <<>> /\ n = pushCount
      BY <1>1, <1>3, <1>4, <2>2, <3>1
    <3>2. CASE s # <<>> /\ Front(s) = Stack /\ n = pushCount + 1
      <4>1. IsAbove(g, at + 1)
        BY <1>1, <1>2, <3>2 DEF IsAbove
      <4> QED BY <2>2, <3>2, <4>1
    <3> QED BY <3>1, <3>2
  <2>4. MayGoBack(g, at + 1, m)
    BY <1>1, <1>2, <1>3, <2>3, GoesOn
  <2> QED BY <1>3, <2>4
<1> QED BY <1>1, <1>2, <1>3, <1>4 DEF OverlayInv

LEMMA BackButtonKeeps == ASSUME OverlayInv, BackButton PROVE OverlayInv'
<1> USE OverlayAssumption
<1>1. /\ at \in 1 .. Len(history) /\ Len(history) \in Nat /\ Stack = history[at]
      /\ Stack \in Stacks /\ Len(Stack) \in Nat /\ pushCount \in Nat
      /\ Stack # <<>> /\ jumped' = jumped
  BY StackIs DEF BackButton
<1>2. CASE pushCount = 0
  <2>1. /\ history' = [history EXCEPT ![at] = Front(Stack)] /\ at' = at /\ pushCount' = 0
    BY <1>2 DEF BackButton, Land
  <2>2. history' \in Seq(Stacks) /\ Len(history') = Len(history)
    BY <1>1, <2>1, FrontIs, ExceptSeq DEF OverlayInv
  <2> QED BY <1>1, <2>1, <2>2 DEF OverlayInv
<1>3. CASE pushCount > 0
  <2>1. /\ history' = history /\ at' = at - 1
        /\ pushCount' = IF Len(StackOf(history, at - 1)) < Len(Stack) THEN pushCount - 1 ELSE pushCount
    BY <1>1, <1>3 DEF BackButton, Land
  <2>2. ASSUME ~jumped, pushCount' > 0 PROVE MayGoBack(history, at - 1, pushCount')
    <3>1. MayGoBack(history, at, pushCount)
      BY <1>3, <2>2 DEF OverlayInv
    <3>2. at > 1 /\ IsAbove(history, at) /\ MayGoBack(history, at - 1, pushCount - 1)
      BY <1>1, <1>3, <3>1, GoesBackBy DEF OverlayInv
    <3>3. StackOf(history, at - 1) = Front(Stack)
      BY <1>1, <3>2 DEF IsAbove, StackOf
    <3>4. pushCount' = pushCount - 1
      BY <1>1, <2>1, <3>3, FrontIs
    <3> QED BY <3>2, <3>4
  <2> QED BY <1>1, <1>3, <2>1, <2>2 DEF OverlayInv
<1> QED BY <1>1, <1>2, <1>3

LEMMA BrowserGoKeeps == ASSUME OverlayInv, NEW i \in 1 .. MaxHistory, BrowserGo(i) PROVE OverlayInv'
<1> USE OverlayAssumption
<1>1. /\ at \in 1 .. Len(history) /\ Len(history) \in Nat /\ Stack = history[at]
      /\ Stack \in Stacks /\ Len(Stack) \in Nat /\ pushCount \in Nat
      /\ i \in 1 .. Len(history) /\ i # at
  BY StackIs DEF BrowserGo
<1>2. history[i] \in Stacks /\ StackOf(history, i) = history[i] /\ Len(history[i]) \in Nat
  BY <1>1, ElementOfSeq DEF OverlayInv, StackOf, Stacks
<1>3. /\ history' = history /\ at' = i /\ jumped' = (jumped \/ i < at - 1)
      /\ pushCount' = IF Len(history[i]) < Len(Stack)
                        THEN IF pushCount > 0 THEN pushCount - 1 ELSE 0
                        ELSE pushCount
  BY <1>2 DEF BrowserGo, Land
<1>4. pushCount' \in 0 .. pushCount
  BY <1>1, <1>3
<1>5. ASSUME ~jumped', pushCount' > 0 PROVE MayGoBack(history, i, pushCount')
  <2>1. pushCount > 0 /\ i >= at - 1 /\ MayGoBack(history, at, pushCount)
    <3>1. ~jumped /\ ~(i < at - 1)
      BY <1>3, <1>5
    <3>2. pushCount > 0
      BY <1>1, <1>4, <1>5
    <3> QED BY <1>1, <3>1, <3>2 DEF OverlayInv
  <2>2. CASE i > at
    BY <1>1, <1>4, <2>1, <2>2, GoesOn DEF OverlayInv
  <2>3. CASE i = at - 1
    <3>1. /\ history[at] = <<>> \/ IsAbove(history, at)
          /\ history[at] = <<>> => MayGoBack(history, at - 1, pushCount)
          /\ MayGoBack(history, at - 1, pushCount - 1)
      BY <1>1, <2>1, GoesBackBy DEF OverlayInv
    <3>2. CASE history[at] = <<>>
      <4>1. pushCount' = pushCount
        BY <1>1, <1>2, <1>3, <3>2
      <4> QED BY <2>3, <3>1, <3>2, <4>1
    <3>3. CASE history[at] # <<>>
      <4>1. history[i] = Front(Stack)
        BY <1>1, <2>3, <3>1, <3>3 DEF IsAbove
      <4>2. pushCount' = pushCount - 1
        BY <1>1, <1>3, <2>1, <3>3, <4>1, FrontIs
      <4> QED BY <2>3, <3>1, <4>2
    <3> QED BY <3>2, <3>3
  <2> QED BY <1>1, <2>1, <2>2, <2>3
<1> QED BY <1>1, <1>3, <1>4, <1>5 DEF OverlayInv

LEMMA OverlayKeep == OverlayInv /\ (OverlayNext \/ UNCHANGED overlayVars) => OverlayInv'
<1> SUFFICES ASSUME OverlayInv, OverlayNext \/ UNCHANGED overlayVars PROVE OverlayInv'
  OBVIOUS
<1> USE OverlayAssumption
<1>1. CASE UNCHANGED overlayVars
  BY <1>1 DEF overlayVars, OverlayInv
<1>2. ASSUME NEW e \in Entry, Navigate(e) PROVE OverlayInv'
  <2>1. at > 0 /\ pushCount < MaxHistory /\ UNCHANGED jumped
        /\ Land(Pushed(Append(Stack, e)), at + 1, pushCount + 1)
    BY <1>2 DEF Navigate
  <2>2. pushCount + 1 \in 0 .. MaxHistory
    BY <2>1 DEF OverlayInv
  <2>3. Append(Stack, e) \in Stacks /\ Append(Stack, e) # <<>> /\ Front(Append(Stack, e)) = Stack
    BY <2>1, StackIs, FrontIs
  <2> QED BY <2>1, <2>2, <2>3, PushKeeps
<1>3. CASE CloseAll \/ VisitPage
  <2>1. at > 0 /\ UNCHANGED jumped /\ Land(Pushed(<<>>), at + 1, pushCount)
    BY <1>3 DEF CloseAll, VisitPage
  <2>2. <<>> \in Stacks /\ pushCount \in 0 .. MaxHistory
    BY DEF Stacks, OverlayInv
  <2> QED BY <2>1, <2>2, PushKeeps
<1>4. CASE Load
  <2>1. history' = history /\ pushCount' = 0 /\ at' = IF at = 0 THEN 1 ELSE at
    BY <1>4 DEF Load
  <2>2. Len(history) \in Nat \ {0}
    BY DEF OverlayInv
  <2> QED BY <2>1, <2>2 DEF OverlayInv
<1> QED BY <1>1, <1>2, <1>3, <1>4, BackButtonKeeps, BrowserGoKeeps DEF OverlayNext

\* Where the button leads while the browser never went back by two.
LEMMA BackMeans ==
  OverlayInv /\ BackButton /\ ~jumped => at' > 0 /\ StackOf(history', at') = Front(Stack)
<1> SUFFICES ASSUME OverlayInv, BackButton, ~jumped
             PROVE  at' > 0 /\ StackOf(history', at') = Front(Stack)
  OBVIOUS
<1>1. /\ at \in 1 .. Len(history) /\ Len(history) \in Nat /\ Stack = history[at]
      /\ Stack # <<>> /\ pushCount \in Nat
  BY StackIs DEF BackButton
<1>2. CASE pushCount = 0
  <2>1. history' = [history EXCEPT ![at] = Front(Stack)] /\ at' = at
    BY <1>2 DEF BackButton, Land
  <2> QED BY <1>1, <2>1 DEF OverlayInv, StackOf
<1>3. CASE pushCount > 0
  <2>1. history' = history /\ at' = at - 1
    BY <1>3 DEF BackButton, Land
  <2>2. at > 1 /\ (history[at] = <<>> \/ IsAbove(history, at))
    BY <1>1, <1>3, GoesBackBy DEF OverlayInv
  <2> QED BY <1>1, <2>1, <2>2 DEF IsAbove, StackOf
<1> QED BY <1>1, <1>2, <1>3

-----------------------------------------------------------------------------
(***************************************************************************)
(* The thread.  What is answered was indexed before its answer was written,*)
(* so answers do not go round in circles; and when the list was read, what *)
(* the indexer had of the answered was in it, but for what was deleted or  *)
(* cut off.                                                                *)
(***************************************************************************)
Indexed == {c \in Comment : commentAt[c] \in {"live", "deleted"}}

ThreadTypes ==
  /\ commentAt \in [Comment -> {"none", "written", "live", "deleted"}]
  /\ parentOf \in [Comment -> Comment \cup {Top}]
  /\ own \subseteq Comment /\ comments \subseteq Indexed
  /\ listStatus \in {"pending", "error", "success"}
  /\ {listing, loading, crossed} \subseteq BOOLEAN
  /\ shown \in {"closed", "argument", "comment"}
  /\ asked \in Comment \cup {Nothing} /\ (asked # Nothing <=> shown = "comment")
  /\ focal \in Indexed \cup {Nothing}
  /\ loads \subseteq Comment
  /\ submittingReply \in {"no", "sending", "refreshing"}

Composing ==
  /\ replyTarget \in Indexed \cup {Top, Nothing}
  /\ posts \subseteq [to : Indexed \cup {Top}, heard : BOOLEAN]
  /\ \A p, q \in posts : p = q
  /\ submittingReply = "refreshing" => listing
  /\ submittingReply = "sending" => \E p \in posts : p.heard

\* An answer is written after what it answers was indexed.
Ordered ==
  /\ \A c \in Comment : parentOf[c] # Top =>
       commentAt[c] # "none" /\ parentOf[c] \in Indexed
  /\ \A B \in SUBSET Comment : B # {} => \E c \in B : parentOf[c] \notin B
  /\ \A c \in own : commentAt[c] # "none"

\* What the list was read from.
ReadFrom(I) ==
  /\ I \subseteq Indexed /\ comments \subseteq I
  /\ \A c \in I : parentOf[c] \in I \cup {Top}
  /\ Cardinality(comments) = ListLimit \/ \A c \in I \ comments : commentAt[c] = "deleted"
  /\ ~listing => own \ unread \subseteq I

Loaded ==
  shown = "comment" /\ ~crossed => loads = {asked} \/ (loads = {} /\ focal = asked)

ThreadInv ==
  /\ ThreadTypes
  /\ Composing
  /\ Ordered
  /\ listStatus = "success" => \E I \in SUBSET Comment : ReadFrom(I)
  /\ Loaded

LEMMA VisibleIs ==
  ASSUME ThreadInv
  PROVE  /\ Spine \subseteq Indexed /\ Visible \subseteq Indexed
         /\ Targets \subseteq Indexed \cup {Top} /\ Indexed \subseteq Comment
<1>1. comments \subseteq Indexed /\ (focal # Nothing => focal \in Indexed)
  BY DEF ThreadInv, ThreadTypes
<1>2. ASSUME NEW S, NEW R \in SUBSET S PROVE Deeper(S, R) \in SUBSET S
  BY DEF Deeper, Answers
<1>3. Spine \subseteq Indexed
  <2> SUFFICES ASSUME focal # Nothing PROVE Spine \subseteq Indexed
    BY DEF Spine
  <2> DEFINE S == comments \cup {focal}
  <2>1. S \subseteq Indexed
    BY <1>1
  <2>2. Chain(S, focal) \subseteq S
    BY DEF Chain
  <2>3. Deeper(S, Deeper(S, Deeper(S, {focal}))) \subseteq S
    <3>1. Deeper(S, {focal}) \in SUBSET S
      BY <1>2
    <3> HIDE DEF S
    <3> QED BY <3>1, <1>2
  <2>4. Spine = Chain(S, focal) \cup Deeper(S, Deeper(S, Deeper(S, {focal})))
    BY DEF Spine
  <2> HIDE DEF S
  <2> QED BY <2>1, <2>2, <2>3, <2>4
<1>4. Tree \subseteq Indexed
  BY <1>1 DEF Tree
<1> QED BY <1>3, <1>4 DEF Visible, Targets, Indexed

\* What holds of the list goes on holding while nothing is taken from the index.
LEMMA ReadingLasts ==
  ASSUME ThreadInv, listStatus' = "success" => listStatus = "success",
         UNCHANGED comments, Indexed \subseteq Indexed',
         \A c \in Indexed : /\ parentOf'[c] = parentOf[c]
                            /\ commentAt[c] = "deleted" => commentAt'[c] = "deleted",
         ~listing' => \A c \in own' \ unread' : c \in comments \/ (~listing /\ c \in own \ unread)
  PROVE  listStatus' = "success" => \E I \in SUBSET Comment : ReadFrom(I)'
<1> SUFFICES ASSUME listStatus = "success" PROVE \E I \in SUBSET Comment : ReadFrom(I)'
  OBVIOUS
<1> PICK I \in SUBSET Comment : ReadFrom(I)
  BY DEF ThreadInv
<1>1. I \subseteq Indexed
  BY DEF ReadFrom
<1>2. ReadFrom(I)'
  BY <1>1 DEF ReadFrom
<1> QED BY <1>2

\* A comment enters the store.
LEMMA CommentEnters ==
  ASSUME ThreadInv, NEW c \in Comment, NEW p \in Indexed \cup {Top}, NEW s \in {"written", "live"},
         commentAt[c] = "none",
         commentAt' = [commentAt EXCEPT ![c] = s],
         parentOf' = [parentOf EXCEPT ![c] = p],
         own' \in {own, own \cup {c}}
  PROVE  /\ commentAt' \in [Comment -> {"none", "written", "live", "deleted"}]
         /\ parentOf' \in [Comment -> Comment \cup {Top}] /\ own' \subseteq Comment
         /\ Indexed \subseteq Indexed' /\ Ordered'
         /\ \A d \in Indexed : /\ parentOf'[d] = parentOf[d]
                               /\ commentAt[d] = "deleted" => commentAt'[d] = "deleted"
<1> USE ThreadAssumption
<1>1. /\ commentAt \in [Comment -> {"none", "written", "live", "deleted"}]
      /\ parentOf \in [Comment -> Comment \cup {Top}] /\ own \subseteq Comment
      /\ c \notin Indexed /\ p # c
  BY DEF ThreadInv, ThreadTypes, Indexed
<1>2. /\ commentAt'[c] = s /\ parentOf'[c] = p
      /\ \A d \in Comment \ {c} : commentAt'[d] = commentAt[d] /\ parentOf'[d] = parentOf[d]
  BY <1>1
<1>3. Indexed \subseteq Indexed'
  BY <1>1, <1>2 DEF Indexed
<1>4. \A d \in Indexed : d \in Comment \ {c}
  BY <1>1 DEF Indexed
<1>5. ASSUME NEW d \in Comment, parentOf'[d] # Top
      PROVE  commentAt'[d] # "none" /\ parentOf'[d] \in Indexed'
  <2>1. CASE d = c
    BY <1>2, <1>3, <1>5, <2>1
  <2>2. CASE d # c
    BY <1>2, <1>3, <1>5, <2>2 DEF ThreadInv, Ordered
  <2> QED BY <2>1, <2>2
<1>6. ASSUME NEW B \in SUBSET Comment, B # {}
      PROVE  \E d \in B : parentOf'[d] \notin B
  <2>1. CASE B = {c}
    BY <1>1, <1>2, <2>1
  <2>2. CASE B # {c}
    <3>1. B \ {c} # {} /\ B \ {c} \in SUBSET Comment
      BY <1>6, <2>2
    <3>2. PICK d \in B \ {c} : parentOf[d] \notin B \ {c}
      BY <3>1 DEF ThreadInv, Ordered
    <3>3. parentOf[d] # c
      BY <1>1 DEF ThreadInv, Ordered
    <3> QED BY <1>2, <3>2, <3>3
  <2> QED BY <2>1, <2>2
<1>7. \A d \in own' : commentAt'[d] # "none"
  BY <1>1, <1>2 DEF ThreadInv, Ordered
<1>8. Ordered'
  BY <1>5, <1>6, <1>7 DEF Ordered
<1> QED BY <1>1, <1>2, <1>3, <1>4, <1>8

LEMMA OthersCommentKeeps ==
  ASSUME ThreadInv, NEW c \in Comment, NEW p \in LiveComments \cup {Top}, OthersComment(c, p)
  PROVE  ThreadInv'
<1>1. /\ commentAt[c] = "none"
      /\ commentAt' = [commentAt EXCEPT ![c] = "live"]
      /\ parentOf' = [parentOf EXCEPT ![c] = p]
      /\ UNCHANGED <<own, listStatus, comments, listing, unread, shown, asked, focal, loading, loads,
                     crossed, initFor, replyTarget, submittingReply, posts>>
  BY DEF OthersComment, listVars, viewVars, composeVars
<1>2. p \in Indexed \cup {Top}
  BY DEF LiveComments, Indexed
<1>3. /\ commentAt' \in [Comment -> {"none", "written", "live", "deleted"}]
      /\ parentOf' \in [Comment -> Comment \cup {Top}] /\ own' \subseteq Comment
      /\ Indexed \subseteq Indexed' /\ Ordered'
      /\ \A d \in Indexed : /\ parentOf'[d] = parentOf[d]
                            /\ commentAt[d] = "deleted" => commentAt'[d] = "deleted"
  BY <1>1, <1>2, CommentEnters
<1>4. ThreadTypes'
  BY <1>1, <1>3 DEF ThreadInv, ThreadTypes
<1>5. Composing'
  BY <1>1, <1>3 DEF ThreadInv, Composing
<1>6. listStatus' = "success" => \E I \in SUBSET Comment : ReadFrom(I)'
  BY <1>1, <1>3, ReadingLasts
<1>7. Loaded'
  BY <1>1 DEF ThreadInv, Loaded
<1> QED BY <1>3, <1>4, <1>5, <1>6, <1>7 DEF ThreadInv

LEMMA IndexCommentKeeps ==
  ASSUME ThreadInv, NEW c \in Comment, IndexComment(c)
  PROVE  ThreadInv'
<1>1. /\ commentAt[c] \in {"written", "live"}
      /\ \/ commentAt' = [commentAt EXCEPT ![c] = "live"]
         \/ commentAt' = [commentAt EXCEPT ![c] = "deleted"]
      /\ UNCHANGED <<parentOf, own, listStatus, comments, listing, unread, shown, asked, focal,
                     loading, loads, crossed, initFor, replyTarget, submittingReply, posts>>
  BY DEF IndexComment, listVars, viewVars, composeVars
<1>2. /\ commentAt' \in [Comment -> {"none", "written", "live", "deleted"}]
      /\ \A d \in Comment \ {c} : commentAt'[d] = commentAt[d]
      /\ commentAt'[c] \in {"live", "deleted"}
  BY <1>1 DEF ThreadInv, ThreadTypes
<1>3. Indexed \subseteq Indexed'
  BY <1>2 DEF Indexed
<1>4. \A d \in Indexed : /\ parentOf'[d] = parentOf[d]
                         /\ commentAt[d] = "deleted" => commentAt'[d] = "deleted"
  BY <1>1, <1>2 DEF Indexed
<1>5. ThreadTypes'
  BY <1>1, <1>2, <1>3 DEF ThreadInv, ThreadTypes
<1>6. Composing'
  BY <1>1, <1>3 DEF ThreadInv, Composing
<1>7. Ordered'
  BY <1>1, <1>2, <1>3 DEF ThreadInv, Ordered, ThreadTypes
<1>8. listStatus' = "success" => \E I \in SUBSET Comment : ReadFrom(I)'
  BY <1>1, <1>3, <1>4, ReadingLasts
<1>9. Loaded'
  BY <1>1 DEF ThreadInv, Loaded
<1> QED BY <1>5, <1>6, <1>7, <1>8, <1>9 DEF ThreadInv

\* A step that leaves the store alone.
LEMMA StoreStays ==
  ASSUME ThreadInv, UNCHANGED storeVars
  PROVE  Ordered' /\ Indexed' = Indexed
BY DEF ThreadInv, storeVars, Ordered, Indexed

LEMMA AskListKeeps == ASSUME ThreadInv, AskList PROVE ThreadInv'
<1>1. /\ listing' = TRUE /\ (listStatus' = "success" <=> listStatus = "success")
      /\ listStatus' \in {"pending", "error", "success"}
      /\ UNCHANGED <<commentAt, parentOf, own, comments, unread, shown, asked, focal, loading, loads,
                     crossed, initFor, replyTarget, submittingReply, posts>>
  BY DEF AskList, Fetch, storeVars, viewVars, composeVars
<1>2. Ordered' /\ Indexed' = Indexed
  BY <1>1, StoreStays DEF storeVars
<1>3. ThreadTypes'
  BY <1>1, <1>2 DEF ThreadInv, ThreadTypes
<1>4. Composing'
  BY <1>1, <1>2 DEF ThreadInv, Composing
<1>5. listStatus' = "success" => \E I \in SUBSET Comment : ReadFrom(I)'
  BY <1>1, <1>2, ReadingLasts
<1>6. Loaded'
  BY <1>1 DEF ThreadInv, Loaded
<1> QED BY <1>2, <1>3, <1>4, <1>5, <1>6 DEF ThreadInv

\* Whatever the list does to the composer.
LEMMA ComposerAnswers ==
  ASSUME ThreadInv, Indexed' = Indexed, UNCHANGED <<posts, focal>>, NEW status, NEW rows,
         IF submittingReply = "refreshing"
           THEN Refreshed
           ELSE /\ InitComposer(focal, status, rows)
                /\ UNCHANGED submittingReply
  PROVE  Composing' /\ submittingReply' \in {"no", "sending", "refreshing"}
<1>1. focal # Nothing => focal \in Indexed
  BY DEF ThreadInv, ThreadTypes
<1>2. CASE submittingReply = "refreshing"
  BY <1>2 DEF Refreshed, ThreadInv, Composing
<1>3. CASE submittingReply # "refreshing"
  <2>1. replyTarget' \in Indexed \cup {Top, Nothing}
    BY <1>1, <1>3 DEF InitComposer, ThreadInv, Composing
  <2>2. UNCHANGED submittingReply
    BY <1>3
  <2> QED BY <1>3, <2>1, <2>2 DEF ThreadInv, Composing, ThreadTypes
<1> QED BY <1>2, <1>3

LEMMA ListedKeeps == ASSUME ThreadInv, Listed PROVE ThreadInv'
<1>1. PICK rows \in SUBSET LiveComments : FirstRows(rows) /\ comments' = rows
  BY DEF Listed
<1>2. /\ listing' = FALSE /\ listStatus' = "success"
      /\ unread' = {c \in own : commentAt[c] = "written"}
      /\ UNCHANGED <<commentAt, parentOf, own, shown, asked, focal, loading, loads, crossed, posts>>
  BY DEF Listed, storeVars
<1>3. Ordered' /\ Indexed' = Indexed
  BY <1>2, StoreStays DEF storeVars
<1>4. Composing' /\ submittingReply' \in {"no", "sending", "refreshing"}
  <2>1. IF submittingReply = "refreshing"
          THEN Refreshed
          ELSE InitComposer(focal, "success", comments') /\ UNCHANGED submittingReply
    BY DEF Listed
  <2> QED BY <1>2, <1>3, <2>1, ComposerAnswers
<1>5. ThreadTypes'
  BY <1>1, <1>2, <1>3, <1>4 DEF ThreadInv, ThreadTypes, LiveComments, Indexed
<1>6. ReadFrom(Indexed)'
  <2>1. comments' \subseteq Indexed
    BY <1>1 DEF LiveComments, Indexed
  <2>2. \A c \in Indexed : parentOf[c] \in Indexed \cup {Top}
    BY DEF ThreadInv, Ordered, Indexed
  <2>3. Cardinality(comments') = ListLimit \/ comments' = LiveComments
    BY <1>1 DEF FirstRows
  <2>4. \A c \in Indexed \ LiveComments : commentAt[c] = "deleted"
    BY DEF Indexed, LiveComments
  <2>5. own \ unread' \subseteq Indexed
    BY <1>2 DEF ThreadInv, ThreadTypes, Ordered, Indexed
  <2> QED BY <1>2, <1>3, <2>1, <2>2, <2>3, <2>4, <2>5 DEF ReadFrom
<1>7. Indexed' \in SUBSET Comment
  BY <1>3 DEF Indexed
<1>8. \E I \in SUBSET Comment : ReadFrom(I)'
  BY <1>3, <1>6, <1>7 DEF ReadFrom
<1>9. Loaded'
  BY <1>2 DEF ThreadInv, Loaded
<1> QED BY <1>3, <1>4, <1>5, <1>8, <1>9 DEF ThreadInv

LEMMA ListFailsKeeps == ASSUME ThreadInv, ListFails PROVE ThreadInv'
<1>1. /\ listing' = FALSE /\ (listStatus' = "success" <=> listStatus = "success")
      /\ listStatus' \in {"pending", "error", "success"}
      /\ unread' = unread \cup (own \ comments)
      /\ UNCHANGED <<commentAt, parentOf, own, comments, shown, asked, focal, loading, loads, crossed,
                     posts>>
  BY DEF ListFails, storeVars
<1>2. Ordered' /\ Indexed' = Indexed
  BY <1>1, StoreStays DEF storeVars
<1>3. Composing' /\ submittingReply' \in {"no", "sending", "refreshing"}
  <2>1. IF submittingReply = "refreshing"
          THEN Refreshed
          ELSE InitComposer(focal, "error", comments) /\ UNCHANGED submittingReply
    BY DEF ListFails
  <2> QED BY <1>1, <1>2, <2>1, ComposerAnswers
<1>4. ThreadTypes'
  BY <1>1, <1>2, <1>3 DEF ThreadInv, ThreadTypes
<1>5. listStatus' = "success" => \E I \in SUBSET Comment : ReadFrom(I)'
  BY <1>1, <1>2, ReadingLasts
<1>6. Loaded'
  BY <1>1 DEF ThreadInv, Loaded
<1> QED BY <1>2, <1>3, <1>4, <1>5, <1>6 DEF ThreadInv

LEMMA MountedKeeps ==
  ASSUME ThreadInv, NEW view \in {"closed", "argument", "comment"},
         NEW c \in Comment \cup {Nothing}, c # Nothing <=> view = "comment", Mounted(view, c)
  PROVE  ThreadInv'
<1>1. /\ shown' = view /\ asked' = c /\ focal' = Nothing /\ crossed' = FALSE
      /\ loads' = (IF c = Nothing THEN {} ELSE {c}) /\ loading' \in BOOLEAN
      /\ replyTarget' = Nothing /\ submittingReply' = "no"
      /\ posts' = {[p EXCEPT !.heard = FALSE] : p \in posts}
      /\ UNCHANGED <<commentAt, parentOf, own, listStatus, comments, listing, unread>>
  BY DEF Mounted, storeVars, listVars
<1>2. Ordered' /\ Indexed' = Indexed
  BY <1>1, StoreStays DEF storeVars
<1>3. ThreadTypes'
  BY <1>1, <1>2 DEF ThreadInv, ThreadTypes
<1>4. \A p \in posts : [p EXCEPT !.heard = FALSE] \in [to : Indexed \cup {Top}, heard : BOOLEAN]
  BY DEF ThreadInv, Composing
<1>5. Composing'
  BY <1>1, <1>2, <1>4 DEF ThreadInv, Composing
<1>6. listStatus' = "success" => \E I \in SUBSET Comment : ReadFrom(I)'
  BY <1>1, <1>2, ReadingLasts
<1>7. Loaded'
  BY <1>1 DEF Loaded
<1> QED BY <1>2, <1>3, <1>5, <1>6, <1>7 DEF ThreadInv

LEMMA TurnKeeps == ASSUME ThreadInv, NEW c \in Spine, TurnToComment(c) PROVE ThreadInv'
<1> USE ThreadAssumption
<1>1. /\ shown = "comment" /\ asked' = c /\ loads' = loads \cup {c} /\ loading' = TRUE
      /\ crossed' = (crossed \/ loads # {})
      /\ UNCHANGED <<commentAt, parentOf, own, listStatus, comments, listing, unread, shown, focal,
                     initFor, replyTarget, submittingReply, posts>>
  BY DEF TurnToComment, storeVars, listVars, composeVars
<1>2. c \in Comment
  BY VisibleIs
<1>3. Ordered' /\ Indexed' = Indexed
  BY <1>1, StoreStays DEF storeVars
<1>4. ThreadTypes'
  <2>1. c # Nothing
    BY <1>2
  <2> QED BY <1>1, <1>2, <1>3, <2>1 DEF ThreadInv, ThreadTypes
<1>5. Composing'
  BY <1>1, <1>3 DEF ThreadInv, Composing
<1>6. listStatus' = "success" => \E I \in SUBSET Comment : ReadFrom(I)'
  BY <1>1, <1>3, ReadingLasts
<1>7. Loaded'
  BY <1>1 DEF Loaded
<1> QED BY <1>3, <1>4, <1>5, <1>6, <1>7 DEF ThreadInv

LEMMA CommentLoadedKeeps == ASSUME ThreadInv, NEW c \in loads, CommentLoaded(c) PROVE ThreadInv'
<1>1. /\ loads' = loads \ {c} /\ loading' = FALSE
      /\ UNCHANGED <<commentAt, parentOf, own, listStatus, comments, listing, unread, shown, asked,
                     submittingReply, posts>>
  BY DEF CommentLoaded, storeVars, listVars
<1>2. \/ /\ commentAt[c] = "live" /\ focal' = c /\ crossed' = crossed
         /\ InitComposer(c, listStatus, comments)
      \/ crossed' = TRUE /\ UNCHANGED <<focal, replyTarget>>
  BY DEF CommentLoaded
<1>3. Ordered' /\ Indexed' = Indexed
  BY <1>1, StoreStays DEF storeVars
<1>4. commentAt[c] = "live" => c \in Indexed
  BY DEF Indexed, ThreadInv, ThreadTypes
<1>5. ThreadTypes'
  BY <1>1, <1>2, <1>3, <1>4 DEF ThreadInv, ThreadTypes
<1>6. replyTarget' \in Indexed \cup {Top, Nothing}
  BY <1>2, <1>4 DEF InitComposer, ThreadInv, Composing
<1>7. Composing'
  BY <1>1, <1>3, <1>6 DEF ThreadInv, Composing
<1>8. listStatus' = "success" => \E I \in SUBSET Comment : ReadFrom(I)'
  BY <1>1, <1>3, ReadingLasts
<1>9. Loaded'
  BY <1>1, <1>2 DEF ThreadInv, Loaded
<1> QED BY <1>3, <1>5, <1>7, <1>8, <1>9 DEF ThreadInv

LEMMA ReplyKeeps ==
  ASSUME ThreadInv, CancelReply \/ SubmitComment \/ \E t \in Targets : SetReplyTarget(t)
  PROVE  ThreadInv'
<1>1. UNCHANGED <<commentAt, parentOf, own, listStatus, comments, listing, unread, shown, asked,
                  focal, loading, loads, crossed, initFor>>
  BY DEF CancelReply, SubmitComment, SetReplyTarget, storeVars, listVars, viewVars
<1>2. Ordered' /\ Indexed' = Indexed
  BY <1>1, StoreStays DEF storeVars
<1>3. Composing' /\ submittingReply' \in {"no", "sending", "refreshing"}
  <2>1. CASE CancelReply
    BY <1>2, <2>1 DEF CancelReply, ThreadInv, ThreadTypes, Composing, listVars
  <2>2. ASSUME NEW t \in Targets, SetReplyTarget(t)
        PROVE  Composing' /\ submittingReply' \in {"no", "sending", "refreshing"}
    <3>1. t \in Indexed \cup {Top}
      BY VisibleIs
    <3> QED BY <1>2, <2>2, <3>1 DEF SetReplyTarget, ThreadInv, ThreadTypes, Composing, listVars
  <2>3. CASE SubmitComment
    <3>1. /\ replyTarget \in Targets /\ submittingReply' = "sending" /\ replyTarget' = replyTarget
          /\ posts' = {[to |-> replyTarget, heard |-> TRUE]}
      BY <2>3 DEF SubmitComment, ComposerShown
    <3>2. replyTarget \in Indexed \cup {Top}
      BY <3>1, VisibleIs
    <3> QED BY <1>2, <3>1, <3>2 DEF Composing
  <2> QED BY <2>1, <2>2, <2>3
<1>4. ThreadTypes'
  BY <1>1, <1>2, <1>3 DEF ThreadInv, ThreadTypes
<1>5. listStatus' = "success" => \E I \in SUBSET Comment : ReadFrom(I)'
  BY <1>1, <1>2, ReadingLasts
<1>6. Loaded'
  BY <1>1 DEF ThreadInv, Loaded
<1> QED BY <1>2, <1>3, <1>4, <1>5, <1>6 DEF ThreadInv

LEMMA PostSucceedsKeeps ==
  ASSUME ThreadInv, NEW c \in Comment, NEW p \in posts, PostSucceeds(p, c)
  PROVE  ThreadInv'
<1>1. /\ commentAt[c] = "none"
      /\ commentAt' = [commentAt EXCEPT ![c] = "written"]
      /\ parentOf' = [parentOf EXCEPT ![c] = p.to]
      /\ own' = own \cup {c} /\ posts' = posts \ {p}
      /\ UNCHANGED <<comments, shown, asked, focal, loading, loads, crossed, initFor>>
  BY DEF PostSucceeds, CreateComment, viewVars
<1>2. \/ /\ listing' = TRUE /\ (listStatus' = "success" <=> listStatus = "success")
         /\ listStatus' \in {"pending", "error", "success"}
         /\ submittingReply' = (IF p.heard THEN "refreshing" ELSE submittingReply)
         /\ UNCHANGED <<replyTarget, unread>>
      \/ /\ UNCHANGED <<listing, listStatus>> /\ unread' = unread \cup {c}
         /\ IF p.heard THEN Refreshed ELSE UNCHANGED <<submittingReply, replyTarget>>
  BY DEF PostSucceeds, Fetch
<1>3. p \in [to : Indexed \cup {Top}, heard : BOOLEAN] /\ \A q \in posts : q = p
  BY DEF ThreadInv, Composing
<1>4. /\ commentAt' \in [Comment -> {"none", "written", "live", "deleted"}]
      /\ parentOf' \in [Comment -> Comment \cup {Top}] /\ own' \subseteq Comment
      /\ Indexed \subseteq Indexed' /\ Ordered'
      /\ \A d \in Indexed : /\ parentOf'[d] = parentOf[d]
                            /\ commentAt[d] = "deleted" => commentAt'[d] = "deleted"
  BY <1>1, <1>3, CommentEnters
<1>5. Composing' /\ submittingReply' \in {"no", "sending", "refreshing"}
  <2>1. posts' = {}
    BY <1>1, <1>3
  <2>2. replyTarget' \in Indexed' \cup {Top, Nothing}
    BY <1>2, <1>4 DEF ThreadInv, Composing, Refreshed
  <2>3. /\ submittingReply' \in {"no", "sending", "refreshing"}
        /\ submittingReply' = "refreshing" => listing'
        /\ submittingReply' # "sending"
    BY <1>2, <1>3 DEF ThreadInv, ThreadTypes, Composing, Refreshed
  <2> QED BY <2>1, <2>2, <2>3 DEF Composing
<1>6. ThreadTypes'
  BY <1>1, <1>2, <1>4, <1>5 DEF ThreadInv, ThreadTypes
<1>7. listStatus' = "success" => \E I \in SUBSET Comment : ReadFrom(I)'
  BY <1>1, <1>2, <1>4, ReadingLasts
<1>8. Loaded'
  BY <1>1 DEF ThreadInv, Loaded
<1> QED BY <1>4, <1>5, <1>6, <1>7, <1>8 DEF ThreadInv

LEMMA PostFailsKeeps == ASSUME ThreadInv, NEW p \in posts, PostFails(p) PROVE ThreadInv'
<1>1. /\ posts' = posts \ {p}
      /\ submittingReply' = (IF p.heard THEN "no" ELSE submittingReply)
      /\ UNCHANGED <<own, listStatus, comments, listing, unread, shown, asked, focal, loading, loads,
                     crossed, initFor, replyTarget>>
  BY DEF PostFails, CreateComment, listVars, viewVars
<1>2. p \in [to : Indexed \cup {Top}, heard : BOOLEAN] /\ \A q \in posts : q = p
  BY DEF ThreadInv, Composing
<1>3. /\ commentAt' \in [Comment -> {"none", "written", "live", "deleted"}]
      /\ parentOf' \in [Comment -> Comment \cup {Top}]
      /\ Indexed \subseteq Indexed' /\ Ordered'
      /\ \A d \in Indexed : /\ parentOf'[d] = parentOf[d]
                            /\ commentAt[d] = "deleted" => commentAt'[d] = "deleted"
  <2>1. CASE UNCHANGED <<commentAt, parentOf>>
    BY <1>1, <2>1, StoreStays DEF ThreadInv, ThreadTypes, storeVars
  <2>2. CASE \E c \in Comment : CreateComment(p, c)
    <3>1. PICK c \in Comment : CreateComment(p, c)
      BY <2>2
    <3> QED BY <1>1, <1>2, <3>1, CommentEnters DEF CreateComment
  <2> QED BY <2>1, <2>2 DEF PostFails
<1>4. Composing' /\ submittingReply' \in {"no", "sending", "refreshing"}
  <2>1. posts' = {} /\ replyTarget' \in Indexed' \cup {Top, Nothing}
    BY <1>1, <1>2, <1>3 DEF ThreadInv, Composing
  <2>2. /\ submittingReply' \in {"no", "sending", "refreshing"}
        /\ submittingReply' = "refreshing" => listing'
        /\ submittingReply' # "sending"
    BY <1>1, <1>2 DEF ThreadInv, ThreadTypes, Composing
  <2> QED BY <2>1, <2>2 DEF Composing
<1>5. ThreadTypes'
  BY <1>1, <1>3, <1>4 DEF ThreadInv, ThreadTypes
<1>6. listStatus' = "success" => \E I \in SUBSET Comment : ReadFrom(I)'
  BY <1>1, <1>3, ReadingLasts
<1>7. Loaded'
  BY <1>1 DEF ThreadInv, Loaded
<1> QED BY <1>3, <1>4, <1>5, <1>6, <1>7 DEF ThreadInv

LEMMA ThreadInvInit == ThreadInit => ThreadInv
BY ThreadAssumption DEF ThreadInit, ThreadInv, ThreadTypes, Composing, Ordered, Loaded, Indexed

LEMMA ThreadKeep == ThreadInv /\ (ThreadNext \/ UNCHANGED threadVars) => ThreadInv'
<1> SUFFICES ASSUME ThreadInv, ThreadNext \/ UNCHANGED threadVars PROVE ThreadInv'
  OBVIOUS
<1>1. CASE UNCHANGED threadVars
  <2>1. Ordered' /\ Indexed' = Indexed
    BY <1>1, StoreStays DEF threadVars, storeVars
  <2>2. listStatus' = "success" => \E I \in SUBSET Comment : ReadFrom(I)'
    BY <1>1, <2>1, ReadingLasts DEF threadVars
  <2> QED BY <1>1, <2>1, <2>2 DEF threadVars, ThreadInv, ThreadTypes, Composing, Loaded
<1>2. CASE ShowArgument \/ CloseView
  BY <1>2, MountedKeeps DEF ShowArgument, CloseView
<1>3. ASSUME NEW c \in LiveComments \cup Visible, OpenComment(c) PROVE ThreadInv'
  <2>1. c \in Comment /\ c # Nothing
    BY VisibleIs, ThreadAssumption DEF LiveComments
  <2> QED BY <1>3, <2>1, MountedKeeps DEF OpenComment
<1> QED BY <1>1, <1>2, <1>3, OthersCommentKeeps, IndexCommentKeeps, PostSucceedsKeeps, TurnKeeps,
        CommentLoadedKeeps, AskListKeeps, ListedKeeps, ListFailsKeeps, ReplyKeeps,
        PostFailsKeeps DEF ThreadNext

\* If all that c answers is in the list, the view of the argument has c.
LEMMA LineIsShown ==
  ASSUME ThreadInv, NEW c \in Comment, Line(c) \subseteq comments
  PROVE  c \in Tree
<1>1. c \in Line(c) /\ Line(c) \in SUBSET Comment
  BY DEF Line
<1>2. ASSUME NEW d \in Line(c) PROVE parentOf[d] \in Line(c) \cup {Top}
  <2>1. parentOf[d] \in Comment \cup {Top}
    BY <1>1 DEF ThreadInv, ThreadTypes
  <2> SUFFICES ASSUME parentOf[d] # Top,
                      NEW T \in SUBSET Comment, c \in T,
                      \A e \in T : parentOf[e] \in T \cup {Top}
               PROVE  parentOf[d] \in T
    BY <2>1 DEF Line
  <2>2. d \in T
    BY DEF Line
  <2> QED BY <2>2
<1> SUFFICES ASSUME NEW T \in SUBSET comments, Roots \subseteq T,
                    \A d \in T : Answers(comments, d) \subseteq T
             PROVE  c \in T
  BY <1>1 DEF Tree
<1>3. Line(c) \ T = {}
  <2> SUFFICES ASSUME Line(c) \ T # {} PROVE FALSE
    OBVIOUS
  <2>1. PICK d \in Line(c) \ T : parentOf[d] \notin Line(c) \ T
    BY <1>1 DEF ThreadInv, Ordered
  <2>2. parentOf[d] # Top
    BY <2>1 DEF Roots
  <2>3. parentOf[d] \in T
    BY <1>2, <2>1, <2>2
  <2> QED BY <2>1, <2>3 DEF Answers
<1> QED BY <1>1, <1>3

LEMMA ThreadInvMeans == ThreadInv => ThreadTypeOK /\ ThreadIsWhole
<1> SUFFICES ASSUME ThreadInv PROVE ThreadTypeOK /\ ThreadIsWhole
  OBVIOUS
<1>1. ThreadTypeOK
  <2>1. Cardinality(posts) < 2
    <3>1. CASE posts = {}
      BY <3>1, FS_EmptySet
    <3>2. CASE posts # {}
      <4>1. PICK p \in posts : posts = {p}
        BY <3>2 DEF ThreadInv, Composing
      <4>2. Cardinality({p}) = 1
        BY FS_Singleton
      <4> QED BY <4>1, <4>2
    <3> QED BY <3>1, <3>2
  <2> QED BY <2>1 DEF ThreadTypeOK, ThreadInv, ThreadTypes, Composing
<1>2. ASSUME listStatus = "success", ~listing, NEW c \in own \ unread, c \notin Tree
      PROVE  \E d \in Line(c) \ comments :
               commentAt[d] = "deleted" \/ Cardinality(comments) = ListLimit
  <2>1. c \in Comment
    BY DEF ThreadInv, ThreadTypes
  <2>2. PICK d \in Line(c) : d \notin comments
    BY <1>2, <2>1, LineIsShown
  <2>3. PICK I \in SUBSET Comment : ReadFrom(I)
    BY <1>2 DEF ThreadInv
  <2>4. c \in I /\ \A e \in I : parentOf[e] \in I \cup {Top}
    BY <1>2, <2>3 DEF ReadFrom
  <2>5. d \in I
    BY <2>4 DEF Line
  <2> QED BY <2>2, <2>3, <2>5 DEF ReadFrom
<1>3. shown = "comment" /\ loads = {} /\ ~crossed => focal = asked
  BY DEF ThreadInv, Loaded
<1> QED BY <1>1, <1>2, <1>3 DEF ThreadIsWhole
-----------------------------------------------------------------------------
(***************************************************************************)
(* The feed.  A page is right about what the app view knew when it read it,*)
(* as far as it still carries the same time; unless the list is mixed, at  *)
(* most one answer is to come to it, and what it has is right down to the  *)
(* cursor from which it goes on.  Times only grow: what a page shows at a  *)
(* time is stored at that time or a later one, so that it cannot be below  *)
(* the cursor again.                                                       *)
(***************************************************************************)
Item == [act : Activity, at : Nat]
TimesOf == [Activity -> Nat]

Dates(K, T) == \A x \in Activity : K[x] <= T[x]
Current(s, T) == \A i \in DOMAIN s : s[i].at <= T[s[i].act]
Unlike(s) == \A i, j \in DOMAIN s : s[i].act = s[j].act => i = j
Newest(s) == \A i, j \in DOMAIN s : i < j => s[i].at >= s[j].at

\* What was known, and carries the same time still.
Steady(x, K, T) == K[x] # 0 /\ K[x] = T[x]

\* s is what activity.list answers for f after time c, as far as K is concerned
\* and T is stored.
IsPage(s, f, c, K, T) ==
  /\ s \in Seq(Item) /\ Unlike(s) /\ Newest(s) /\ Current(s, T)
  /\ \A i \in DOMAIN s : Fits(s[i].act, f) /\ s[i].at # 0 /\ (c # 0 => s[i].at < c)
  /\ \A x \in Activity : /\ Steady(x, K, T) /\ Fits(x, f) /\ (c # 0 => K[x] < c)
                         /\ Len(s) = PageSize => K[x] > Last(s).at
                         => \E i \in DOMAIN s : s[i].act = x

IsList(s, f, more, K, T) ==
  /\ s \in Seq(Item) /\ Unlike(s) /\ Newest(s) /\ Current(s, T)
  /\ \A i \in DOMAIN s : Fits(s[i].act, f) /\ s[i].at # 0
  /\ more => s # <<>>
  /\ \A x \in Activity : Steady(x, K, T) /\ Fits(x, f) /\ (more => K[x] > Last(s).at)
       => \E i \in DOMAIN s : s[i].act = x \/ s[i].at = K[x]

\* Nothing of page t is already in list s.
Apart(s, t) == \A i \in DOMAIN s, j \in DOMAIN t : s[i].act # t[j].act

IsRequest(q) ==
  /\ q \in [filter : Filter, after : Nat, reset : BOOLEAN, answer : {q.answer},
            live : BOOLEAN, id : {q.id}]
  /\ q.reset => q.after = 0
  /\ ~q.reset => q.live

FeedTypes ==
  /\ storedAt \in TimesOf /\ IsFiniteSet({x \in Activity : storedAt[x] # 0})
  /\ known \in TimesOf /\ Dates(known, storedAt)
  /\ filter \in Filter /\ activities \in Seq(Item) /\ cursor \in Nat
  /\ {hasMore, activityLoading, loadingMore, mixed} \subseteq BOOLEAN
  /\ \A q \in requests : IsRequest(q)
  /\ pageCache = [f \in Filter |-> pageCache[f]]
  /\ mixed => known = NoTimes

AnswersOK ==
  \A q \in requests : \A page \in q.answer :
    /\ page.known \in TimesOf /\ Dates(page.known, storedAt)
    /\ IsPage(page.items, q.filter, q.after, IF q.reset THEN page.known ELSE known, storedAt)

CacheOK ==
  \A f \in Filter : \A page \in pageCache[f] :
    /\ page.known \in TimesOf /\ Dates(page.known, storedAt)
    /\ IsPage(page.items, f, 0, page.known, storedAt)

\* What is to come, and what is there.
Alone ==
  /\ \A q, r \in Live : q = r
  /\ \A q \in Live : /\ q.filter = filter
                     /\ q.reset => activityLoading
                     /\ ~q.reset => /\ loadingMore /\ hasMore /\ q.after = cursor
                                   /\ \A page \in q.answer : Apart(activities, page.items)

Listing ==
  (\A q \in Live : ~q.reset) =>
    /\ IsList(activities, filter, hasMore, known, storedAt)
    /\ hasMore => cursor = Last(activities).at

FeedInv == FeedTypes /\ AnswersOK /\ CacheOK /\ (~mixed => Alone /\ Listing)

LEMMA FeedConstants ==
  /\ "all" \in Filter /\ PageSize \in Nat \ {0} /\ NoTimes \in TimesOf
  /\ \A x \in Activity : ActivityAt[x] \in Nat /\ ActivityAt[x] # 0 /\ NoTimes[x] = 0
BY FeedAssumption DEF TimesOf, NoTimes

LEMMA LastIs ==
  ASSUME NEW s \in Seq(Item), s # <<>>
  PROVE  /\ Len(s) \in DOMAIN s /\ Last(s) = s[Len(s)] /\ Last(s) \in Item
         /\ Last(s).at \in Nat /\ Last(s).act \in Activity
<1>1. Len(s) \in Nat \ {0} /\ DOMAIN s = 1 .. Len(s)
  BY EmptySeq, LenProperties
<1>2. s[Len(s)] \in Item
  BY <1>1, ElementOfSeq
<1> QED BY <1>1, <1>2 DEF Last, Item

LEMMA ItemsAre ==
  ASSUME NEW s \in Seq(Item), NEW i \in DOMAIN s
  PROVE  s[i] \in Item /\ s[i].act \in Activity /\ s[i].at \in Nat
<1>1. s[i] \in Item
  BY ElementOfSeq, LenProperties
<1> QED BY <1>1 DEF Item

LEMMA CursorIs ==
  ASSUME NEW s \in Seq(Item), \A i \in DOMAIN s : s[i].at # 0
  PROVE  /\ CursorAfter(s) \in Nat
         /\ CursorAfter(s) # 0 <=> Len(s) = PageSize
         /\ Len(s) = PageSize => s # <<>> /\ CursorAfter(s) = Last(s).at
<1>1. Len(s) = PageSize => s # <<>>
  BY FeedConstants
<1> QED BY <1>1, LastIs, FeedConstants DEF CursorAfter

LEMMA CountIs == ASSUME NEW n \in Nat PROVE Cardinality(1 .. n) = n
BY FS_Interval

\* What the app view reads is right about all it knows.
LEMMA ReadingIsPage ==
  ASSUME FeedInv, NEW f \in Filter, NEW c \in Nat, NEW n \in Nat,
         NEW s \in [1 .. n -> Older(c, f)], PageOf(s, Older(c, f))
  PROVE  /\ IsPage(Dated(s), f, c, storedAt, storedAt)
         /\ \A i \in DOMAIN Dated(s) : Dated(s)[i].at = storedAt[Dated(s)[i].act]
<1> DEFINE older == Older(c, f)
           d == Dated(s)
<1> USE FeedConstants
<1>0. storedAt \in TimesOf /\ \A x \in Activity : storedAt[x] \in Nat
  BY DEF FeedInv, FeedTypes, TimesOf
<1>1. /\ IsFiniteSet({x \in Activity : storedAt[x] # 0}) /\ older \subseteq Activity
      /\ older \in SUBSET {x \in Activity : storedAt[x] # 0}
  BY DEF FeedInv, FeedTypes, Older
<1>2. IsFiniteSet(older) /\ Cardinality(older) \in Nat
  BY <1>1, FS_Subset, FS_CardinalityType
<1>3. s \in Seq(Activity) /\ Len(s) = n /\ DOMAIN s = 1 .. n /\ \A i \in DOMAIN s : s[i] \in older
  BY <1>1
<1>4. /\ d \in Seq(Item) /\ Len(d) = n /\ DOMAIN d = 1 .. n
      /\ \A i \in 1 .. n : d[i].act = s[i] /\ d[i].at = storedAt[s[i]]
  <2>1. d = [i \in 1 .. n |-> [act |-> s[i], at |-> storedAt[s[i]]]]
    BY <1>3 DEF Dated
  <2>2. \A i \in 1 .. n : [act |-> s[i], at |-> storedAt[s[i]]] \in Item
    BY <1>0, <1>1, <1>3 DEF Item
  <2> HIDE DEF d
  <2>3. d \in [1 .. n -> Item]
    BY <2>1, <2>2
  <2>4. d \in Seq(Item) /\ Len(d) = n /\ DOMAIN d = 1 .. n
    BY <2>3
  <2>5. \A i \in 1 .. n : d[i].act = s[i] /\ d[i].at = storedAt[s[i]]
    BY <2>1
  <2> QED BY <2>4, <2>5
<1> HIDE DEF d
<1>5. Unlike(d) /\ Newest(d) /\ Current(d, storedAt)
  <2>1. Unlike(d)
    BY <1>3, <1>4 DEF PageOf, IsInjective, Unlike
  <2>2. Newest(d)
    BY <1>3, <1>4 DEF PageOf, Newest
  <2>3. Current(d, storedAt)
    BY <1>0, <1>1, <1>3, <1>4 DEF Current
  <2> QED BY <2>1, <2>2, <2>3
<1>6. \A i \in DOMAIN d : Fits(d[i].act, f) /\ d[i].at # 0 /\ (c # 0 => d[i].at < c)
  BY <1>3, <1>4 DEF Older
<1>7. Len(s) = PageSize \/ Len(s) = Cardinality(older)
  <2>1. Len(s) = Min({PageSize, Cardinality(older)})
    BY DEF PageOf
  <2>2. \E x \in {PageSize, Cardinality(older)} : \A y \in {PageSize, Cardinality(older)} : x <= y
    BY <1>2
  <2> QED BY <2>1, <2>2 DEF Min
<1>8. ASSUME NEW x \in Activity, Steady(x, storedAt, storedAt), Fits(x, f), c # 0 => storedAt[x] < c,
             Len(d) = PageSize => storedAt[x] > Last(d).at
      PROVE  \E i \in DOMAIN d : d[i].act = x
  <2>1. x \in older
    BY <1>8 DEF Older, Steady
  <2>2. CASE Len(s) = PageSize
    <3>1. s # <<>> /\ Last(s) = s[n] /\ n \in 1 .. n
      BY <1>3, <2>2 DEF Last
    <3>2. d # <<>> /\ Last(d) = d[n]
      BY <1>4, <3>1 DEF Last
    <3>3. Last(d).at = storedAt[Last(s)] /\ storedAt[Last(s)] \in Nat /\ storedAt[x] \in Nat
      BY <1>0, <1>1, <1>3, <1>4, <3>1, <3>2
    <3>4. x \in older \ Range(s) => storedAt[x] <= storedAt[Last(s)]
      BY <3>1 DEF PageOf
    <3>5. x \in Range(s)
      BY <1>3, <1>4, <1>8, <2>1, <2>2, <3>3, <3>4
    <3>6. PICK i \in 1 .. n : s[i] = x
      BY <1>3, <3>5 DEF Range
    <3> QED BY <1>4, <3>6
  <2>3. CASE Len(s) = Cardinality(older)
    <3>1. s \in Injection(1 .. n, older)
      BY DEF PageOf, Injection, IsInjective
    <3>2. Cardinality(1 .. n) = n
      BY CountIs
    <3>3. s \in Surjection(1 .. n, older)
      BY <1>2, <1>3, <2>3, <3>1, <3>2, FS_Injection
    <3>4. PICK i \in 1 .. n : s[i] = x
      BY <2>1, <3>3 DEF Surjection
    <3> QED BY <1>4, <3>4
  <2> QED BY <1>7, <2>2, <2>3
<1>9. IsPage(d, f, c, storedAt, storedAt)
  BY <1>4, <1>5, <1>6, <1>8 DEF IsPage
<1>10. \A i \in DOMAIN d : d[i].at = storedAt[d[i].act]
  BY <1>4
<1> QED BY <1>9, <1>10 DEF d

\* A page is right about less: about what was known earlier.
LEMMA PageKnowsLess ==
  ASSUME NEW s, NEW f, NEW c, NEW T, NEW K, NEW L, IsPage(s, f, c, L, T),
         \A x \in Activity : Steady(x, K, T) => L[x] = K[x]
  PROVE  IsPage(s, f, c, K, T)
BY DEF IsPage, Steady

\* Pages and lists stay right when times grow.
LEMMA GrowingIs ==
  ASSUME NEW K \in TimesOf, NEW T \in TimesOf, NEW U \in TimesOf, Dates(K, T), Dates(T, U)
  PROVE  /\ Dates(K, U)
         /\ \A x \in Activity : Steady(x, K, U) => Steady(x, K, T)
         /\ \A s \in Seq(Item) : Current(s, T) => Current(s, U)
<1>1. \A x \in Activity : /\ K[x] \in Nat /\ T[x] \in Nat /\ U[x] \in Nat
                         /\ K[x] <= T[x] /\ T[x] <= U[x]
  BY DEF TimesOf, Dates
<1>2. ASSUME NEW s \in Seq(Item), Current(s, T), NEW i \in DOMAIN s PROVE s[i].at <= U[s[i].act]
  <2>1. s[i].act \in Activity /\ s[i].at \in Nat /\ s[i].at <= T[s[i].act]
    BY <1>2, ItemsAre DEF Current
  <2> QED BY <1>1, <2>1
<1> QED BY <1>1, <1>2 DEF Dates, Steady, Current

LEMMA PageStays ==
  ASSUME NEW s, NEW f, NEW c, NEW K \in TimesOf, NEW T \in TimesOf, NEW U \in TimesOf,
         Dates(K, T), Dates(T, U), IsPage(s, f, c, K, T)
  PROVE  IsPage(s, f, c, K, U)
BY GrowingIs DEF IsPage

LEMMA ListStays ==
  ASSUME NEW s, NEW f, NEW more, NEW K \in TimesOf, NEW T \in TimesOf, NEW U \in TimesOf,
         Dates(K, T), Dates(T, U), IsList(s, f, more, K, T)
  PROVE  IsList(s, f, more, K, U)
BY GrowingIs DEF IsList

\* What is read below the cursor is not in the list: it would have become older.
LEMMA ReadingIsApart ==
  ASSUME NEW T \in TimesOf, NEW s \in Seq(Item), s # <<>>, Newest(s), Current(s, T),
         NEW t \in Seq(Item), \A j \in DOMAIN t : t[j].at = T[t[j].act] /\ t[j].at < Last(s).at
  PROVE  Apart(s, t)
<1>1. DOMAIN s = 1 .. Len(s) /\ Len(s) \in Nat
  BY LenProperties
<1>2. Last(s) = s[Len(s)] /\ Last(s).at \in Nat /\ Len(s) \in DOMAIN s
  BY <1>1, LastIs
<1> SUFFICES ASSUME NEW i \in DOMAIN s, NEW j \in DOMAIN t, s[i].act = t[j].act PROVE FALSE
  BY DEF Apart
<1>3. s[i].at \in Nat /\ t[j].at \in Nat /\ s[i].at <= t[j].at
  BY ItemsAre DEF Current
<1>4. s[i].at >= Last(s).at
  BY <1>1, <1>2, <1>3 DEF Newest
<1> QED BY <1>2, <1>3, <1>4

\* A first page is a list.
LEMMA FirstIsList ==
  ASSUME NEW s, NEW f, NEW K, NEW T, IsPage(s, f, 0, K, T)
  PROVE  /\ IsList(s, f, CursorAfter(s) # 0, K, T) /\ CursorAfter(s) \in Nat
         /\ CursorAfter(s) # 0 => CursorAfter(s) = Last(s).at
<1>1. s \in Seq(Item) /\ \A i \in DOMAIN s : s[i].at # 0
  BY DEF IsPage
<1>2. /\ CursorAfter(s) \in Nat /\ (CursorAfter(s) # 0 <=> Len(s) = PageSize)
      /\ Len(s) = PageSize => s # <<>> /\ CursorAfter(s) = Last(s).at
  BY <1>1, CursorIs
<1> QED BY <1>1, <1>2 DEF IsPage, IsList

\* A list goes on with the page after its cursor.
LEMMA ListGoesOn ==
  ASSUME NEW s, NEW t, NEW f, NEW K \in TimesOf, NEW T \in TimesOf,
         IsList(s, f, TRUE, K, T), IsPage(t, f, Last(s).at, K, T), Apart(s, t)
  PROVE  /\ IsList(s \o t, f, CursorAfter(t) # 0, K, T)
         /\ CursorAfter(t) # 0 => CursorAfter(t) = Last(s \o t).at
<1> DEFINE c == Last(s).at
<1>1. /\ s \in Seq(Item) /\ Unlike(s) /\ Newest(s) /\ Current(s, T) /\ s # <<>>
      /\ \A i \in DOMAIN s : Fits(s[i].act, f) /\ s[i].at # 0
      /\ \A x \in Activity : Steady(x, K, T) /\ Fits(x, f) /\ K[x] > c
           => \E i \in DOMAIN s : s[i].act = x \/ s[i].at = K[x]
  BY DEF IsList
<1>2. c \in Nat /\ c # 0 /\ Len(s) \in DOMAIN s /\ c = s[Len(s)].at
  BY <1>1, LastIs
<1> HIDE DEF c
<1>3. /\ t \in Seq(Item) /\ Unlike(t) /\ Newest(t) /\ Current(t, T)
      /\ \A i \in DOMAIN t : Fits(t[i].act, f) /\ t[i].at # 0 /\ t[i].at < c
      /\ \A x \in Activity : /\ Steady(x, K, T) /\ Fits(x, f) /\ K[x] < c
                             /\ Len(t) = PageSize => K[x] > Last(t).at
                             => \E i \in DOMAIN t : t[i].act = x
  BY <1>2 DEF IsPage, c
<1> DEFINE m == Len(s)
           n == Len(t)
           u == s \o t
<1>4. /\ m \in Nat /\ n \in Nat /\ DOMAIN s = 1 .. m /\ DOMAIN t = 1 .. n
      /\ u \in Seq(Item) /\ Len(u) = m + n /\ DOMAIN u = 1 .. m + n
      /\ \A i \in 1 .. m : u[i] = s[i]
      /\ \A i \in m + 1 .. m + n : i - m \in 1 .. n /\ u[i] = t[i - m]
  BY <1>1, <1>3
<1>5. \A i \in 1 .. m : s[i].at \in Nat /\ s[i].at >= c
  <2> TAKE i \in 1 .. m
  <2>1. s[i].at \in Nat
    BY <1>1, <1>4, ItemsAre
  <2>2. CASE i = m
    BY <1>2, <2>1, <2>2
  <2>3. CASE i < m
    BY <1>1, <1>2, <1>4, <2>1, <2>3 DEF Newest
  <2> QED BY <1>4, <2>1, <2>2, <2>3
<1>6. \A i \in 1 .. n : t[i].at \in Nat /\ t[i].at < c
  BY <1>3, <1>4, ItemsAre
<1> HIDE DEF u
<1>7. Unlike(u)
  <2> SUFFICES ASSUME NEW i \in 1 .. m + n, NEW j \in 1 .. m + n, u[i].act = u[j].act PROVE i = j
    BY <1>4 DEF Unlike
  <2>1. CASE i <= m /\ j <= m
    BY <1>1, <1>4, <2>1 DEF Unlike
  <2>2. CASE i > m /\ j > m
    <3>1. t[i - m].act = t[j - m].act /\ i - m \in DOMAIN t /\ j - m \in DOMAIN t
      BY <1>4, <2>2
    <3>2. i - m = j - m
      BY <1>3, <3>1 DEF Unlike
    <3> QED BY <1>4, <3>2
  <2>3. CASE i <= m /\ j > m
    BY <1>4, <2>3 DEF Apart
  <2>4. CASE i > m /\ j <= m
    BY <1>4, <2>4 DEF Apart
  <2> QED BY <1>4, <2>1, <2>2, <2>3, <2>4
<1>8. Newest(u)
  <2> SUFFICES ASSUME NEW i \in 1 .. m + n, NEW j \in 1 .. m + n, i < j
               PROVE  u[i].at >= u[j].at
    BY <1>4 DEF Newest
  <2>1. CASE j <= m
    <3>1. i \in DOMAIN s /\ j \in DOMAIN s /\ u[i] = s[i] /\ u[j] = s[j]
      BY <1>4, <2>1
    <3> QED BY <1>1, <3>1 DEF Newest
  <2>2. CASE i > m
    <3>1. i - m \in DOMAIN t /\ j - m \in DOMAIN t /\ i - m < j - m
      BY <1>4, <2>2
    <3>2. u[i] = t[i - m] /\ u[j] = t[j - m]
      BY <1>4, <2>2
    <3> QED BY <1>3, <3>1, <3>2 DEF Newest
  <2>3. CASE i <= m /\ j > m
    <3>1. i \in 1 .. m /\ j - m \in 1 .. n /\ u[i] = s[i] /\ u[j] = t[j - m]
      BY <1>4, <2>3
    <3>2. u[i].at \in Nat /\ u[i].at >= c /\ u[j].at \in Nat /\ u[j].at < c
      BY <1>5, <1>6, <3>1
    <3> QED BY <1>2, <3>2
  <2> QED BY <1>4, <2>1, <2>2, <2>3
<1>9. \A i \in DOMAIN u : Fits(u[i].act, f) /\ u[i].at # 0 /\ u[i].at <= T[u[i].act]
  <2> TAKE i \in DOMAIN u
  <2>1. CASE i <= m
    <3>1. i \in DOMAIN s /\ u[i] = s[i]
      BY <1>4, <2>1
    <3> QED BY <1>1, <3>1 DEF Current
  <2>2. CASE i > m
    <3>1. i - m \in DOMAIN t /\ u[i] = t[i - m]
      BY <1>4, <2>2
    <3> QED BY <1>3, <3>1 DEF Current
  <2> QED BY <1>4, <2>1, <2>2
<1>10. CursorAfter(t) # 0 => u # <<>> /\ Last(u) = Last(t) /\ CursorAfter(t) = Last(u).at
  <2> SUFFICES ASSUME CursorAfter(t) # 0
               PROVE  u # <<>> /\ Last(u) = Last(t) /\ CursorAfter(t) = Last(u).at
    OBVIOUS
  <2>1. t # <<>> /\ CursorAfter(t) = Last(t).at /\ n > 0
    BY <1>3, <1>4, CursorIs, EmptySeq
  <2>2. u[m + n] = t[n] /\ m + n > 0
    BY <1>4, <2>1
  <2> QED BY <1>4, <2>1, <2>2 DEF Last
<1>11. ASSUME NEW x \in Activity, Steady(x, K, T), Fits(x, f), CursorAfter(t) # 0 => K[x] > Last(u).at
       PROVE  \E i \in DOMAIN u : u[i].act = x \/ u[i].at = K[x]
  <2>1. K[x] \in Nat
    BY DEF TimesOf
  <2>2. CASE K[x] > c
    <3>1. PICK i \in 1 .. m : s[i].act = x \/ s[i].at = K[x]
      BY <1>1, <1>4, <1>11, <2>2
    <3> QED BY <1>4, <3>1
  <2>3. CASE K[x] = c
    <3>1. m \in DOMAIN u /\ u[m] = s[m]
      BY <1>2, <1>4
    <3> QED BY <1>2, <2>3, <3>1
  <2>4. CASE K[x] < c
    <3>1. Len(t) = PageSize => K[x] > Last(t).at
      BY <1>3, <1>10, <1>11, CursorIs
    <3>2. PICK i \in 1 .. n : t[i].act = x
      BY <1>3, <1>4, <1>11, <2>4, <3>1
    <3>3. m + i \in m + 1 .. m + n /\ (m + i) - m = i
      BY <1>4
    <3>4. m + i \in DOMAIN u /\ u[m + i].act = x
      BY <1>4, <3>2, <3>3
    <3> QED BY <3>4
  <2> QED BY <1>2, <2>1, <2>2, <2>3, <2>4
<1>12. IsList(u, f, CursorAfter(t) # 0, K, T)
  BY <1>4, <1>7, <1>8, <1>9, <1>10, <1>11 DEF IsList, Current
<1> QED BY <1>10, <1>12 DEF u

LEMMA FeedInvInit == FeedInit => FeedInv
<1> SUFFICES ASSUME FeedInit PROVE FeedInv
  OBVIOUS
<1> USE FeedConstants
<1> PICK r : /\ r = [filter |-> "all", after |-> 0, reset |-> TRUE, answer |-> {},
                     live |-> TRUE, id |-> 1]
             /\ requests = {r}
  BY DEF FeedInit
<1>1. /\ r.filter = "all" /\ r.reset = TRUE /\ r.answer = {} /\ r.live = TRUE
      /\ IsRequest(r)
  BY DEF IsRequest
<1>2. FeedTypes
  <2>1. pageCache = [f \in Filter |-> pageCache[f]]
    BY DEF FeedInit
  <2>2. activities \in Seq(Item) /\ {x \in Activity : storedAt[x] # 0} = {}
    BY DEF FeedInit
  <2>3. Dates(known, storedAt)
    BY DEF FeedInit, Dates
  <2> QED BY <1>1, <2>1, <2>2, <2>3, FS_EmptySet DEF FeedInit, FeedTypes
<1>3. AnswersOK /\ CacheOK
  BY <1>1 DEF FeedInit, AnswersOK, CacheOK
<1>4. Live = {r}
  BY <1>1 DEF Live
<1>5. Alone /\ Listing
  BY <1>1, <1>4 DEF FeedInit, Alone, Listing
<1> QED BY <1>2, <1>3, <1>5 DEF FeedInv

\* What requests are, without naming the record set.
LEMMA RequestFields ==
  ASSUME FeedInv, NEW q \in requests
  PROVE  /\ q.filter \in Filter /\ q.after \in Nat /\ q.reset \in BOOLEAN /\ q.live \in BOOLEAN
         /\ q.reset => q.after = 0
         /\ ~q.reset => q.live
BY DEF FeedInv, FeedTypes, IsRequest

LEMMA NothingDates == FeedInv => NoTimes \in TimesOf /\ Dates(NoTimes, storedAt)
BY FeedConstants DEF FeedInv, FeedTypes, TimesOf, Dates

\* Answers stay right when what is known of the list is forgotten, or when only
\* first pages are to come.
LEMMA AnswersStay ==
  ASSUME FeedInv, requests' \subseteq requests \cup {q \in requests' : q.answer = {}},
         UNCHANGED storedAt, known' \in {NoTimes, known} \/ \A q \in requests : q.reset
  PROVE  AnswersOK'
<1> SUFFICES ASSUME NEW q \in requests, NEW page \in q.answer
             PROVE  /\ page.known \in TimesOf /\ Dates(page.known, storedAt)
                    /\ IsPage(page.items, q.filter, q.after,
                              IF q.reset THEN page.known ELSE known', storedAt)
  BY DEF AnswersOK
<1>1. /\ page.known \in TimesOf /\ Dates(page.known, storedAt)
      /\ IsPage(page.items, q.filter, q.after, IF q.reset THEN page.known ELSE known, storedAt)
  BY DEF FeedInv, AnswersOK
<1>2. CASE q.reset
  BY <1>1, <1>2
<1>3. CASE ~q.reset
  <2>1. known' \in {NoTimes, known}
    BY <1>3
  <2>2. IsPage(page.items, q.filter, q.after, known, storedAt)
    BY <1>1, <1>3
  <2>3. \A x \in Activity : Steady(x, known', storedAt) => known[x] = known'[x]
    BY <2>1, FeedConstants DEF Steady
  <2> QED BY <1>1, <1>3, <2>2, <2>3, PageKnowsLess
<1> QED BY <1>2, <1>3

LEMMA LoadFirstKeeps ==
  ASSUME FeedInv, NEW f \in Filter, NEW resetCursor \in BOOLEAN, LoadFirst(f, resetCursor, Live),
         filter' \in Filter, UNCHANGED <<storedAt, pageCache>>
  PROVE  FeedInv'
<1> USE FeedConstants
<1>1. Live \cup {q \in requests : ~q.live} = requests
  BY RequestFields DEF Live
<1>2. mixed' = (Live # {} \/ f # filter')
  BY DEF LoadFirst
<1>3. CacheOK'
  BY DEF FeedInv, CacheOK
<1>4. CASE pageCache[f] # {}
  <2>1. PICK page \in pageCache[f] : ShowFirst(page)
    BY <1>4 DEF LoadFirst
  <2>2. requests' = requests /\ activityLoading' = FALSE /\ loadingMore' = FALSE
    BY <1>1, <1>4 DEF LoadFirst
  <2>3. /\ activities' = page.items /\ cursor' = CursorAfter(page.items)
        /\ hasMore' = (CursorAfter(page.items) # 0)
        /\ known' = IF mixed' THEN NoTimes ELSE page.known
    BY <2>1 DEF ShowFirst
  <2>4. /\ page.known \in TimesOf /\ Dates(page.known, storedAt)
        /\ IsPage(page.items, f, 0, page.known, storedAt)
    BY DEF FeedInv, CacheOK
  <2>5. /\ IsList(page.items, f, CursorAfter(page.items) # 0, page.known, storedAt)
        /\ CursorAfter(page.items) \in Nat
        /\ CursorAfter(page.items) # 0 => CursorAfter(page.items) = Last(page.items).at
    BY <2>4, FirstIsList
  <2>6. FeedTypes'
    <3>1. known' \in TimesOf /\ Dates(known', storedAt)
      BY <2>3, <2>4, NothingDates
    <3> QED BY <1>2, <2>2, <2>3, <2>4, <2>5, <3>1 DEF FeedInv, FeedTypes, IsPage
  <2>7. known' \in {NoTimes, known} \/ \A q \in requests : q.reset
    BY <1>2, <2>3, RequestFields DEF Live
  <2>8. AnswersOK'
    BY <2>2, <2>7, AnswersStay
  <2>9. ASSUME ~mixed' PROVE Alone' /\ Listing'
    <3>1. Live' = {} /\ f = filter'
      BY <1>2, <2>2, <2>9 DEF Live
    <3>2. Listing'
      BY <2>3, <2>5, <2>9, <3>1 DEF Listing
    <3> QED BY <3>1, <3>2 DEF Alone
  <2> QED BY <1>3, <2>6, <2>8, <2>9 DEF FeedInv
<1>5. CASE pageCache[f] = {}
  <2> DEFINE q0 == Request(f, 0, TRUE)
  <2>1. /\ activityLoading' = TRUE /\ requests' = requests \cup {q0}
        /\ cursor' \in {0, cursor} /\ known' = IF mixed' THEN NoTimes ELSE known
        /\ UNCHANGED <<activities, hasMore, loadingMore>>
    BY <1>1, <1>5 DEF LoadFirst
  <2>2. /\ IsRequest(q0) /\ q0.filter = f /\ q0.reset = TRUE /\ q0.live = TRUE
        /\ q0.answer = {}
    BY DEF Request, IsRequest
  <2> HIDE DEF q0
  <2>3. FeedTypes'
    <3>1. \A q \in requests' : IsRequest(q)
      BY <2>1, <2>2 DEF FeedInv, FeedTypes
    <3>2. known' \in TimesOf /\ Dates(known', storedAt)
      BY <2>1, NothingDates DEF FeedInv, FeedTypes
    <3> QED BY <1>2, <2>1, <3>1, <3>2 DEF FeedInv, FeedTypes
  <2>4. AnswersOK'
    BY <2>1, <2>2, AnswersStay
  <2>5. ASSUME ~mixed' PROVE Alone' /\ Listing'
    <3>1. Live' = {q0} /\ f = filter'
      BY <1>2, <2>1, <2>2, <2>5 DEF Live
    <3> QED BY <2>1, <2>2, <3>1 DEF Alone, Listing
  <2> QED BY <1>3, <2>3, <2>4, <2>5 DEF FeedInv
<1> QED BY <1>4, <1>5

LEMMA LoadMoreKeeps == ASSUME FeedInv, LoadMore PROVE FeedInv'
<1> USE FeedConstants
<1> DEFINE q0 == Request(filter, cursor, FALSE)
<1>1. /\ hasMore /\ ~activityLoading /\ ~loadingMore /\ loadingMore' = TRUE
      /\ requests' = requests \cup {q0}
      /\ UNCHANGED <<storedAt, filter, activities, cursor, hasMore, activityLoading, pageCache, known,
                     mixed>>
  BY DEF LoadMore
<1>2. IsRequest(q0) /\ q0.filter = filter /\ q0.after = cursor /\ q0.reset = FALSE /\ q0.live = TRUE
      /\ q0.answer = {}
  <2>1. filter \in Filter /\ cursor \in Nat /\ FALSE \in BOOLEAN
    BY DEF FeedInv, FeedTypes
  <2>2. /\ IsRequest(Request(filter, cursor, FALSE))
        /\ Request(filter, cursor, FALSE).filter = filter
        /\ Request(filter, cursor, FALSE).after = cursor
        /\ Request(filter, cursor, FALSE).reset = FALSE
        /\ Request(filter, cursor, FALSE).live = TRUE
        /\ Request(filter, cursor, FALSE).answer = {}
    BY <2>1 DEF Request, IsRequest
  <2> QED BY <2>2
<1> HIDE DEF q0
<1>3. FeedTypes'
  <2>1. \A q \in requests' : IsRequest(q)
    BY <1>1, <1>2 DEF FeedInv, FeedTypes
  <2> QED BY <1>1, <2>1 DEF FeedInv, FeedTypes
<1>4. AnswersOK' /\ CacheOK'
  BY <1>1, <1>2, AnswersStay DEF FeedInv, CacheOK
<1>5. ASSUME ~mixed' PROVE Alone' /\ Listing'
  <2>1. Live = {}
    BY <1>1, <1>5, RequestFields DEF FeedInv, Alone, Live
  <2>2. Live' = {q0}
    BY <1>1, <1>2, <2>1 DEF Live
  <2>3. Listing'
    BY <1>1, <1>5, <2>1 DEF FeedInv, Listing
  <2> QED BY <1>1, <1>2, <2>2, <2>3 DEF Alone
<1> QED BY <1>3, <1>4, <1>5 DEF FeedInv

LEMMA ReadPageKeeps == ASSUME FeedInv, NEW q \in requests, ReadPage(q) PROVE FeedInv'
<1> USE FeedConstants
<1>1. /\ q.filter \in Filter /\ q.after \in Nat /\ q.reset \in BOOLEAN /\ q.live \in BOOLEAN
      /\ q.reset => q.after = 0
      /\ ~q.reset => q.live
  BY RequestFields
<1> DEFINE pageOf(s) == [items |-> Dated(s), known |-> IF q.reset THEN storedAt ELSE NoTimes]
<1> PICK n \in 0 .. PageSize : \E s \in [1 .. n -> Older(q.after, q.filter)] :
      /\ PageOf(s, Older(q.after, q.filter))
      /\ requests' = (requests \ {q}) \cup {[q EXCEPT !.answer = {pageOf(s)}]}
  BY DEF ReadPage
<1>2. PICK s \in [1 .. n -> Older(q.after, q.filter)] :
        /\ PageOf(s, Older(q.after, q.filter))
        /\ requests' = (requests \ {q}) \cup {[q EXCEPT !.answer = {pageOf(s)}]}
  OBVIOUS
<1> DEFINE d == Dated(s)
           page == [items |-> d, known |-> IF q.reset THEN storedAt ELSE NoTimes]
           p == [q EXCEPT !.answer = {page}]
<1>3. UNCHANGED <<storedAt, filter, activities, cursor, hasMore, activityLoading, loadingMore, pageCache,
                  known, mixed>>
  BY DEF ReadPage
<1>4. /\ p \in [filter : Filter, after : Nat, reset : BOOLEAN, answer : {{page}},
                live : BOOLEAN, id : {q.id}]
      /\ p.filter = q.filter /\ p.after = q.after /\ p.reset = q.reset /\ p.live = q.live
      /\ p.answer = {page} /\ p.id = q.id
  <2>1. q \in [filter : Filter, after : Nat, reset : BOOLEAN, answer : {q.answer},
               live : BOOLEAN, id : {q.id}]
    BY DEF FeedInv, FeedTypes, IsRequest
  <2> HIDE DEF page
  <2> QED BY <2>1
<1>5. page.items = d /\ page.known = IF q.reset THEN storedAt ELSE NoTimes
  OBVIOUS
<1>6. /\ IsPage(d, q.filter, q.after, storedAt, storedAt)
      /\ \A i \in DOMAIN d : d[i].at = storedAt[d[i].act]
  BY <1>1, <1>2, ReadingIsPage
<1>7. requests' = (requests \ {q}) \cup {p}
  BY <1>2
<1> HIDE DEF d, page, p
<1>8. IsRequest(p)
  BY <1>1, <1>4 DEF IsRequest
<1>9. FeedTypes'
  <2>1. \A r \in requests' : IsRequest(r)
    BY <1>7, <1>8 DEF FeedInv, FeedTypes
  <2> QED BY <1>3, <2>1 DEF FeedInv, FeedTypes
<1>10. AnswersOK'
  <2> SUFFICES ASSUME NEW r \in requests', NEW g \in r.answer
               PROVE  /\ g.known \in TimesOf /\ Dates(g.known, storedAt)
                      /\ IsPage(g.items, r.filter, r.after,
                                IF r.reset THEN g.known ELSE known, storedAt)
    BY <1>3 DEF AnswersOK
  <2>1. CASE r \in requests
    BY <2>1 DEF FeedInv, AnswersOK
  <2>2. CASE r = p
    <3>1. g.items = d /\ g.known = (IF q.reset THEN storedAt ELSE NoTimes)
      BY <1>4, <1>5, <2>2
    <3>2. storedAt \in TimesOf /\ \A x \in Activity : storedAt[x] \in Nat
      BY DEF FeedInv, FeedTypes, TimesOf
    <3>3. g.known \in TimesOf /\ Dates(g.known, storedAt)
      BY <3>1, <3>2 DEF Dates
    <3>4. CASE q.reset
      BY <1>4, <1>6, <2>2, <3>1, <3>3, <3>4
    <3>5. CASE ~q.reset
      <4>1. \A x \in Activity : Steady(x, known, storedAt) => storedAt[x] = known[x]
        BY DEF Steady
      <4>2. IsPage(d, q.filter, q.after, known, storedAt)
        BY <1>6, <4>1, PageKnowsLess
      <4> QED BY <1>4, <2>2, <3>1, <3>3, <3>5, <4>2
    <3> QED BY <1>1, <3>4, <3>5
  <2> QED BY <1>7, <2>1, <2>2
<1>11. CacheOK'
  BY <1>3 DEF FeedInv, CacheOK
<1>12. ASSUME ~mixed' PROVE Alone' /\ Listing'
  <2>1. Alone /\ Listing
    BY <1>3, <1>12 DEF FeedInv
  <2>2. Live' = IF q.live THEN (Live \ {q}) \cup {p} ELSE Live \ {q}
    BY <1>4, <1>7 DEF Live
  <2>3. q.live => q \in Live
    BY DEF Live
  <2>4. ASSUME q.live, ~q.reset PROVE Apart(activities, d)
    <3>1. Live = {q} /\ hasMore = TRUE /\ q.after = cursor
      BY <2>1, <2>3, <2>4 DEF Alone, FeedInv, FeedTypes
    <3>2. IsList(activities, filter, TRUE, known, storedAt) /\ cursor = Last(activities).at
      BY <2>1, <2>4, <3>1 DEF Listing
    <3>3. d \in Seq(Item) /\ \A j \in DOMAIN d : q.after # 0 => d[j].at < q.after
      BY <1>6 DEF IsPage
    <3>4. cursor # 0
      <4>1. /\ activities \in Seq(Item) /\ activities # <<>>
            /\ \A i \in DOMAIN activities : activities[i].at # 0
        BY <3>2 DEF IsList
      <4> QED BY <3>2, <4>1, LastIs
    <3>5. storedAt \in TimesOf
      BY DEF FeedInv, FeedTypes
    <3>6. \A j \in DOMAIN d : d[j].at = storedAt[d[j].act] /\ d[j].at < Last(activities).at
      BY <1>6, <3>1, <3>2, <3>3, <3>4
    <3>7. d \in Seq(Item)
      BY <3>3
    <3>8. /\ activities \in Seq(Item) /\ activities # <<>>
          /\ Newest(activities) /\ Current(activities, storedAt)
      BY <3>2 DEF IsList
    <3> QED BY <3>5, <3>6, <3>7, <3>8, ReadingIsApart
  <2>6. Alone'
    <3>1. \A r, t \in Live' : r = t
      BY <2>1, <2>2, <2>3 DEF Alone
    <3>2. ASSUME NEW r \in Live'
          PROVE  /\ r.filter = filter
                 /\ r.reset => activityLoading
                 /\ ~r.reset => /\ loadingMore /\ hasMore /\ r.after = cursor
                               /\ \A g \in r.answer : Apart(activities, g.items)
      <4>1. CASE r \in Live
        BY <2>1, <4>1 DEF Alone
      <4>2. CASE r = p /\ q.live
        BY <1>4, <1>5, <2>1, <2>3, <2>4, <4>2 DEF Alone
      <4> QED BY <2>2, <4>1, <4>2
    <3> QED BY <1>3, <3>1, <3>2 DEF Alone
  <2>5. (\A r \in Live' : ~r.reset) => (\A r \in Live : ~r.reset)
    BY <1>4, <2>2 DEF Live
  <2> QED BY <1>3, <2>1, <2>5, <2>6 DEF Listing
<1> QED BY <1>9, <1>10, <1>11, <1>12 DEF FeedInv

\* An answer comes to a page that has left: only the cache may take it.
LEMMA AnsweredKeeps == ASSUME FeedInv, NEW q \in requests, Answered(q) PROVE FeedInv'
<1> USE FeedConstants
<1>1. /\ q.filter \in Filter /\ q.after \in Nat /\ q.reset \in BOOLEAN /\ q.live \in BOOLEAN
      /\ q.reset => q.after = 0
      /\ ~q.reset => q.live
  BY RequestFields
<1>2. PICK page \in q.answer :
        /\ requests' = requests \ {q}
        /\ pageCache' = IF q.reset THEN [pageCache EXCEPT ![q.filter] = {page}] ELSE pageCache
        /\ IF ~q.live
             THEN UNCHANGED <<activities, cursor, hasMore, activityLoading, loadingMore, known, mixed>>
             ELSE /\ activityLoading' = FALSE
                  /\ loadingMore' = FALSE
                  /\ UNCHANGED mixed
                  /\ IF q.reset
                       THEN ShowFirst(page)
                       ELSE /\ activities' = activities \o page.items
                            /\ cursor' = CursorAfter(page.items)
                            /\ hasMore' = (CursorAfter(page.items) # 0)
                            /\ UNCHANGED known
        /\ UNCHANGED <<storedAt, filter>>
  BY DEF Answered
<1>3. /\ page.known \in TimesOf /\ Dates(page.known, storedAt)
      /\ IsPage(page.items, q.filter, q.after, IF q.reset THEN page.known ELSE known, storedAt)
  BY DEF FeedInv, AnswersOK
<1>4. page.items \in Seq(Item) /\ CursorAfter(page.items) \in Nat
  <2>1. page.items \in Seq(Item) /\ \A i \in DOMAIN page.items : page.items[i].at # 0
    BY <1>3 DEF IsPage
  <2> QED BY <2>1, CursorIs
<1>5. /\ pageCache' = [f \in Filter |-> pageCache'[f]]
      /\ \A f \in Filter : pageCache'[f] = IF q.reset /\ f = q.filter THEN {page} ELSE pageCache[f]
  BY <1>1, <1>2 DEF FeedInv, FeedTypes
<1>6. CacheOK'
  <2> SUFFICES ASSUME NEW f \in Filter, NEW g \in pageCache'[f]
               PROVE  /\ g.known \in TimesOf /\ Dates(g.known, storedAt)
                      /\ IsPage(g.items, f, 0, g.known, storedAt)
    BY <1>2 DEF CacheOK
  <2>1. CASE q.reset /\ f = q.filter
    BY <1>1, <1>3, <1>5, <2>1
  <2>2. CASE ~(q.reset /\ f = q.filter)
    BY <1>5, <2>2 DEF FeedInv, CacheOK
  <2> QED BY <2>1, <2>2
<1>7. CASE ~q.live
  <2>1. UNCHANGED <<storedAt, filter, activities, cursor, hasMore, activityLoading, loadingMore, known,
                    mixed>>
    BY <1>2, <1>7
  <2>2. Live' = Live
    BY <1>2, <1>7 DEF Live
  <2>3. FeedTypes'
    BY <1>2, <1>5, <2>1 DEF FeedInv, FeedTypes
  <2>4. AnswersOK'
    BY <1>2, <2>1, AnswersStay
  <2>5. ~mixed' => Alone' /\ Listing'
    BY <2>1, <2>2 DEF FeedInv, Alone, Listing
  <2> QED BY <1>6, <2>3, <2>4, <2>5 DEF FeedInv
<1>8. CASE q.live /\ q.reset
  <2>1. /\ activityLoading' = FALSE /\ loadingMore' = FALSE /\ mixed' = mixed
        /\ activities' = page.items /\ cursor' = CursorAfter(page.items)
        /\ hasMore' = (CursorAfter(page.items) # 0)
        /\ known' = IF mixed THEN NoTimes ELSE page.known
        /\ UNCHANGED <<storedAt, filter>>
    BY <1>2, <1>8 DEF ShowFirst
  <2>2. FeedTypes'
    <3>1. known' \in TimesOf /\ Dates(known', storedAt)
      BY <1>3, <2>1, NothingDates
    <3> QED BY <1>2, <1>3, <1>4, <1>5, <2>1, <3>1 DEF FeedInv, FeedTypes
  <2>3. ~mixed => Live = {q}
    BY <1>8 DEF FeedInv, Alone, Live
  <2>4. known' \in {NoTimes, known} \/ \A r \in requests : r.reset
    BY <1>8, <2>1, <2>3, RequestFields DEF Live
  <2>5. AnswersOK'
    BY <1>2, <2>1, <2>4, AnswersStay
  <2>6. ASSUME ~mixed' PROVE Alone' /\ Listing'
    <3>1. Live' = {} /\ q.filter = filter
      BY <1>2, <1>8, <2>1, <2>3, <2>6 DEF FeedInv, Alone, Live
    <3>2. IsPage(page.items, filter, 0, page.known, storedAt)
      BY <1>1, <1>3, <1>8, <3>1
    <3>3. /\ IsList(page.items, filter, CursorAfter(page.items) # 0, page.known, storedAt)
          /\ CursorAfter(page.items) # 0 => CursorAfter(page.items) = Last(page.items).at
      BY <3>2, FirstIsList
    <3>4. Listing'
      BY <2>1, <2>6, <3>3 DEF Listing
    <3> QED BY <3>1, <3>4 DEF Alone
  <2> QED BY <1>6, <2>2, <2>5, <2>6 DEF FeedInv
<1>9. CASE ~q.reset
  <2>1. /\ activityLoading' = FALSE /\ loadingMore' = FALSE /\ mixed' = mixed /\ known' = known
        /\ activities' = activities \o page.items /\ cursor' = CursorAfter(page.items)
        /\ hasMore' = (CursorAfter(page.items) # 0)
        /\ UNCHANGED <<storedAt, filter>>
    BY <1>1, <1>2, <1>9
  <2>2. activities' \in Seq(Item)
    BY <1>4, <2>1 DEF FeedInv, FeedTypes
  <2>3. FeedTypes'
    BY <1>2, <1>4, <1>5, <2>1, <2>2 DEF FeedInv, FeedTypes
  <2>4. AnswersOK'
    BY <1>2, <2>1, AnswersStay
  <2>5. ASSUME ~mixed' PROVE Alone' /\ Listing'
    <3>1. Live = {q} /\ Live' = {} /\ q.filter = filter /\ hasMore /\ q.after = cursor
      BY <1>1, <1>2, <1>9, <2>1, <2>5 DEF FeedInv, Alone, Live
    <3>2. /\ IsList(activities, filter, TRUE, known, storedAt) /\ cursor = Last(activities).at
      <4>1. IsList(activities, filter, hasMore, known, storedAt) /\ cursor = Last(activities).at
        BY <1>9, <2>1, <2>5, <3>1 DEF FeedInv, Listing
      <4> QED BY <3>1, <4>1 DEF IsList
    <3>3. IsPage(page.items, filter, cursor, known, storedAt)
      BY <1>3, <1>9, <3>1
    <3>4. known \in TimesOf /\ storedAt \in TimesOf /\ Apart(activities, page.items)
      BY <1>9, <2>1, <2>5, <3>1 DEF FeedInv, FeedTypes, Alone
    <3>5. /\ IsList(activities \o page.items, filter, CursorAfter(page.items) # 0, known, storedAt)
          /\ CursorAfter(page.items) # 0
               => CursorAfter(page.items) = Last(activities \o page.items).at
      BY <3>2, <3>3, <3>4, ListGoesOn
    <3>6. Listing'
      BY <2>1, <3>5 DEF Listing
    <3> QED BY <3>1, <3>6 DEF Alone
  <2> QED BY <1>6, <2>3, <2>4, <2>5 DEF FeedInv
<1> QED BY <1>1, <1>7, <1>8, <1>9

LEMMA RequestFailsKeeps == ASSUME FeedInv, NEW q \in requests, RequestFails(q) PROVE FeedInv'
<1>1. /\ q.reset \in BOOLEAN /\ q.live \in BOOLEAN /\ mixed \in BOOLEAN
      /\ ~q.reset => q.live
  BY RequestFields DEF FeedInv, FeedTypes
<1>2. /\ requests' = requests \ {q}
      /\ UNCHANGED <<storedAt, filter, activities, cursor, hasMore, pageCache>>
  BY DEF RequestFails
<1>3. /\ known' = NoTimes \/ known' = known
      /\ mixed' \in BOOLEAN
      /\ mixed' => known' = NoTimes
      /\ activityLoading' \in BOOLEAN /\ loadingMore' \in BOOLEAN
      /\ ~mixed' => ~mixed /\ known' = known
  BY <1>1 DEF RequestFails, FeedInv, FeedTypes
<1>4. FeedTypes'
  <2>1. FeedTypes
    BY DEF FeedInv
  <2>2. known' \in TimesOf /\ Dates(known', storedAt)
    BY <1>3, <2>1, NothingDates DEF FeedTypes
  <2>3. \A r \in requests' : IsRequest(r)
    BY <1>2, <2>1 DEF FeedTypes
  <2>4. /\ hasMore' \in BOOLEAN /\ filter' \in Filter /\ activities' \in Seq(Item)
        /\ cursor' \in Nat /\ pageCache' = [f \in Filter |-> pageCache'[f]]
        /\ storedAt' \in TimesOf /\ IsFiniteSet({x \in Activity : storedAt'[x] # 0})
        /\ storedAt' = storedAt
    BY <1>2, <2>1 DEF FeedTypes
  <2>5. {hasMore, activityLoading, loadingMore, mixed}' \subseteq BOOLEAN
    BY <1>3, <2>4
  <2> QED BY <1>3, <2>2, <2>3, <2>4, <2>5 DEF FeedTypes
<1>5. AnswersOK'
  <2>1. requests' \subseteq requests \cup {r \in requests' : r.answer = {}}
    BY <1>2
  <2>2. UNCHANGED storedAt
    BY <1>2
  <2>3. known' \in {NoTimes, known}
    BY <1>3
  <2> QED BY <2>1, <2>2, <2>3, AnswersStay
<1>7. CacheOK'
  BY <1>2 DEF FeedInv, CacheOK
<1>6. ASSUME ~mixed' PROVE Alone' /\ Listing'
  <2>1. Alone /\ Listing /\ known' = known
    BY <1>3, <1>6 DEF FeedInv
  <2>2. CASE ~q.live
    <3>1. Live' = Live /\ UNCHANGED <<activityLoading, loadingMore>>
      BY <1>2, <2>2 DEF RequestFails, Live
    <3> QED BY <1>2, <2>1, <3>1 DEF Alone, Listing
  <2>3. CASE q.live
    <3>1. ~q.reset
      BY <1>6, <2>3 DEF RequestFails
    <3>2. Live = {q} /\ Live' = {}
      BY <1>2, <2>1, <2>3 DEF Alone, Live
    <3> QED BY <1>2, <2>1, <3>1, <3>2 DEF Alone, Listing
  <2> QED BY <1>1, <2>2, <2>3
<1> QED BY <1>4, <1>5, <1>6, <1>7 DEF FeedInv

LEMMA ReopenKeeps == ASSUME FeedInv, Reopen PROVE FeedInv'
<1> USE FeedConstants
<1> DEFINE left == {[q EXCEPT !.live = FALSE] : q \in {r \in requests : r.reset}}
<1>1. filter' = "all" /\ mixed' = FALSE /\ loadingMore' = FALSE /\ UNCHANGED <<storedAt, pageCache>>
  BY DEF Reopen
<1>2. ASSUME NEW q \in left
      PROVE  /\ IsRequest(q) /\ q.reset = TRUE /\ q.live = FALSE
             /\ \A page \in q.answer :
                  /\ page.known \in TimesOf /\ Dates(page.known, storedAt)
                  /\ IsPage(page.items, q.filter, q.after, page.known, storedAt)
  <2>1. PICK r \in requests : r.reset /\ q = [r EXCEPT !.live = FALSE]
    OBVIOUS
  <2>2. /\ r \in [filter : Filter, after : Nat, reset : BOOLEAN, answer : {r.answer},
                  live : BOOLEAN, id : {r.id}]
        /\ r.after = 0
    BY <2>1 DEF FeedInv, FeedTypes, IsRequest
  <2>3. /\ q \in [filter : Filter, after : Nat, reset : BOOLEAN, answer : {r.answer},
                  live : BOOLEAN, id : {r.id}]
        /\ q.filter = r.filter /\ q.after = r.after /\ q.reset = r.reset /\ q.live = FALSE
        /\ q.answer = r.answer /\ q.id = r.id
    BY <2>1, <2>2
  <2>4. IsRequest(q) /\ q.reset = TRUE
    BY <2>1, <2>2, <2>3 DEF IsRequest
  <2> QED BY <2>1, <2>3, <2>4 DEF FeedInv, AnswersOK
<1> HIDE DEF left
<1>3. CacheOK'
  BY <1>1 DEF FeedInv, CacheOK
<1>4. CASE pageCache["all"] # {}
  <2>1. /\ \E page \in pageCache["all"] : ShowFirst(page)
        /\ activityLoading' = FALSE /\ requests' = left
    BY <1>4 DEF Reopen, left
  <2>2. PICK page \in pageCache["all"] : ShowFirst(page)
    BY <2>1
  <2>3. /\ activities' = page.items /\ cursor' = CursorAfter(page.items)
        /\ hasMore' = (CursorAfter(page.items) # 0) /\ known' = page.known
    BY <1>1, <2>2 DEF ShowFirst
  <2>4. /\ page.known \in TimesOf /\ Dates(page.known, storedAt)
        /\ IsPage(page.items, "all", 0, page.known, storedAt)
    BY DEF FeedInv, CacheOK
  <2>5. /\ IsList(page.items, "all", CursorAfter(page.items) # 0, page.known, storedAt)
        /\ CursorAfter(page.items) \in Nat
        /\ CursorAfter(page.items) # 0 => CursorAfter(page.items) = Last(page.items).at
    BY <2>4, FirstIsList
  <2>6. FeedTypes'
    <3>1. \A q \in requests' : IsRequest(q)
      BY <1>2, <2>1
    <3> QED BY <1>1, <2>1, <2>3, <2>4, <2>5, <3>1 DEF FeedInv, FeedTypes, IsPage
  <2>7. AnswersOK'
    BY <1>1, <1>2, <2>1 DEF AnswersOK
  <2>8. Live' = {}
    BY <1>2, <2>1 DEF Live
  <2>9. Alone' /\ Listing'
    BY <1>1, <2>3, <2>5, <2>8 DEF Alone, Listing
  <2> QED BY <1>3, <2>6, <2>7, <2>9 DEF FeedInv
<1>5. CASE pageCache["all"] = {}
  <2> DEFINE q0 == Request("all", 0, TRUE)
  <2>1. /\ activities' = <<>> /\ cursor' = 0 /\ hasMore' = FALSE /\ known' = NoTimes
        /\ activityLoading' = TRUE /\ requests' = left \cup {q0}
    BY <1>5 DEF Reopen, left
  <2>2. /\ IsRequest(q0) /\ q0.filter = "all" /\ q0.reset = TRUE /\ q0.live = TRUE
        /\ q0.answer = {}
    BY DEF Request, IsRequest
  <2> HIDE DEF q0
  <2>3. FeedTypes'
    <3>1. \A q \in requests' : IsRequest(q)
      BY <1>2, <2>1, <2>2
    <3>2. FeedTypes
      BY DEF FeedInv
    <3>3. <<>> \in Seq(Item) /\ 0 \in Nat
      OBVIOUS
    <3>4. /\ storedAt' \in TimesOf /\ IsFiniteSet({x \in Activity : storedAt'[x] # 0})
          /\ pageCache' = [f \in Filter |-> pageCache'[f]]
      BY <1>1, <3>2 DEF FeedTypes
    <3>5. known' \in TimesOf /\ Dates(known', storedAt')
      BY <1>1, <2>1, NothingDates
    <3> QED BY <1>1, <2>1, <3>1, <3>3, <3>4, <3>5 DEF FeedTypes
  <2>4. AnswersOK'
    BY <1>1, <1>2, <2>1, <2>2 DEF AnswersOK
  <2>5. Live' = {q0}
    BY <1>2, <2>1, <2>2 DEF Live
  <2>6. Alone' /\ Listing'
    BY <1>1, <2>1, <2>2, <2>5 DEF Alone, Listing
  <2> QED BY <1>3, <2>3, <2>4, <2>6 DEF FeedInv
<1> QED BY <1>4, <1>5

\* The indexer makes an activity known, or moves one up.
LEMMA TimesGrow ==
  ASSUME FeedInv, storedAt' \in TimesOf, Dates(storedAt, storedAt'),
         IsFiniteSet({x \in Activity : storedAt'[x] # 0}),
         UNCHANGED <<filter, activities, cursor, hasMore, activityLoading, loadingMore, requests,
                     pageCache, known, mixed>>
  PROVE  FeedInv'
<1>1. storedAt \in TimesOf /\ known \in TimesOf /\ Dates(known, storedAt)
  BY DEF FeedInv, FeedTypes
<1>2. FeedTypes'
  BY <1>1, GrowingIs DEF FeedInv, FeedTypes
<1>3. AnswersOK'
  <2> SUFFICES ASSUME NEW q \in requests, NEW page \in q.answer
               PROVE  /\ page.known \in TimesOf /\ Dates(page.known, storedAt')
                      /\ IsPage(page.items, q.filter, q.after,
                                IF q.reset THEN page.known ELSE known, storedAt')
    BY DEF AnswersOK
  <2>1. /\ page.known \in TimesOf /\ Dates(page.known, storedAt)
        /\ IsPage(page.items, q.filter, q.after, IF q.reset THEN page.known ELSE known, storedAt)
    BY DEF FeedInv, AnswersOK
  <2>2. Dates(page.known, storedAt')
    BY <1>1, <2>1, GrowingIs
  <2>3. CASE q.reset
    BY <1>1, <2>1, <2>2, <2>3, PageStays
  <2>4. CASE ~q.reset
    BY <1>1, <2>1, <2>2, <2>4, PageStays
  <2> QED BY <2>3, <2>4
<1>4. CacheOK'
  <2> SUFFICES ASSUME NEW f \in Filter, NEW page \in pageCache[f]
               PROVE  /\ page.known \in TimesOf /\ Dates(page.known, storedAt')
                      /\ IsPage(page.items, f, 0, page.known, storedAt')
    BY DEF CacheOK
  <2>1. /\ page.known \in TimesOf /\ Dates(page.known, storedAt)
        /\ IsPage(page.items, f, 0, page.known, storedAt)
    BY DEF FeedInv, CacheOK
  <2> QED BY <1>1, <2>1, GrowingIs, PageStays
<1>5. ASSUME ~mixed' PROVE Alone' /\ Listing'
  <2>1. Alone /\ Listing
    BY <1>5 DEF FeedInv
  <2>2. Alone' /\ Live' = Live
    BY <2>1 DEF Alone, Live
  <2>3. Listing'
    BY <1>1, <2>1, <2>2, ListStays DEF Listing
  <2> QED BY <2>2, <2>3
<1> QED BY <1>2, <1>3, <1>4, <1>5 DEF FeedInv

LEMMA FeedKeep == FeedInv /\ (FeedNext \/ UNCHANGED feedVars) => FeedInv'
<1> SUFFICES ASSUME FeedInv, FeedNext \/ UNCHANGED feedVars PROVE FeedInv'
  OBVIOUS
<1>1. CASE UNCHANGED feedVars
  BY <1>1 DEF feedVars, FeedInv, FeedTypes, AnswersOK, CacheOK, Alone, Listing, Live
<1>2. ASSUME NEW x \in Activity, Happen(x) PROVE FeedInv'
  <2>1. storedAt \in TimesOf /\ IsFiniteSet({y \in Activity : storedAt[y] # 0})
    BY DEF FeedInv, FeedTypes
  <2>2. storedAt' \in TimesOf /\ Dates(storedAt, storedAt')
    BY <1>2, <2>1, FeedConstants DEF Happen, TimesOf, Dates
  <2>3. {y \in Activity : storedAt'[y] # 0} = {y \in Activity : storedAt[y] # 0} \cup {x}
    BY <1>2, <2>1, FeedConstants DEF Happen, TimesOf
  <2>4. IsFiniteSet({y \in Activity : storedAt'[y] # 0})
    BY <2>1, <2>3, FS_AddElement
  <2> QED BY <1>2, <2>2, <2>4, TimesGrow DEF Happen
<1>5. ASSUME NEW x \in Milestone, NEW now \in Moments, Touch(x, now) PROVE FeedInv'
  <2>1. storedAt \in TimesOf /\ IsFiniteSet({y \in Activity : storedAt[y] # 0})
    BY DEF FeedInv, FeedTypes
  <2>2. x \in Activity /\ now \in Nat
    BY FeedAssumption
  <2>3. storedAt' \in TimesOf /\ Dates(storedAt, storedAt')
    BY <1>5, <2>1, <2>2 DEF Touch, TimesOf, Dates
  <2>4. {y \in Activity : storedAt'[y] # 0} = {y \in Activity : storedAt[y] # 0}
    BY <1>5, <2>1, <2>2 DEF Touch, TimesOf
  <2> QED BY <1>5, <2>1, <2>3, <2>4, TimesGrow DEF Touch
<1>3. ASSUME NEW f \in Filter, SetFilter(f) \/ Created(f) PROVE FeedInv'
  <2>1. filter' \in Filter /\ UNCHANGED <<storedAt, pageCache>>
    BY <1>3 DEF SetFilter, Created, FeedInv, FeedTypes
  <2> QED BY <1>3, <2>1, LoadFirstKeeps DEF SetFilter, Created
<1>4. ASSUME NEW f \in Filter, PageExpires(f) PROVE FeedInv'
  <2>1. /\ pageCache' = [pageCache EXCEPT ![f] = {}]
        /\ UNCHANGED <<storedAt, filter, activities, cursor, hasMore, activityLoading, loadingMore,
                       requests, known, mixed>>
    BY <1>4 DEF PageExpires
  <2>2. /\ pageCache' = [g \in Filter |-> pageCache'[g]]
        /\ \A g \in Filter : pageCache'[g] \subseteq pageCache[g]
    BY <2>1 DEF FeedInv, FeedTypes
  <2>3. CacheOK'
    BY <2>1, <2>2 DEF FeedInv, CacheOK
  <2>4. FeedTypes'
    BY <2>1, <2>2 DEF FeedInv, FeedTypes
  <2> QED BY <2>1, <2>3, <2>4 DEF FeedInv, AnswersOK, Alone, Listing, Live
<1> QED BY <1>1, <1>2, <1>3, <1>4, <1>5, LoadMoreKeeps, ReadPageKeeps, AnsweredKeeps, RequestFailsKeeps,
        ReopenKeeps DEF FeedNext

LEMMA FeedInvMeans == FeedInv => FeedTypeOK /\ FeedIsContiguous
<1> SUFFICES ASSUME FeedInv PROVE FeedTypeOK /\ FeedIsContiguous
  OBVIOUS
<1>1. FeedTypeOK
  <2>1. \A i \in DOMAIN activities : activities[i].act \in Activity
    BY ItemsAre DEF FeedInv, FeedTypes
  <2>2. \A q \in requests : q.live /\ q.reset => activityLoading \/ mixed
    BY DEF FeedInv, Alone, Live
  <2> QED BY <2>1, <2>2 DEF FeedInv, FeedTypes, TimesOf, Dates, FeedTypeOK
<1>2. FeedIsContiguous
  BY DEF FeedInv, Listing, Live, IsList, Unlike, Steady, FeedIsContiguous
<1> QED BY <1>1, <1>2

-----------------------------------------------------------------------------
(***************************************************************************)
(* The client.  Every screen's invariant holds all the time: on its own    *)
(* screen because its steps keep it, on the others because nothing moves.  *)
(***************************************************************************)
IInv ==
  /\ screen \in Screen
  /\ OverlayInv /\ FeedInv /\ ComposerInv /\ FormInv /\ RatingInv /\ ThreadInv /\ HeartInv

LEMMA IInvInit == Init => IInv
BY OverlayInvInit, FeedInvInit, ComposerInvInit, FormInvInit, RatingInvInit, ThreadInvInit,
   HeartInvInit DEF Init, IInv

LEMMA IInvKeep == IInv /\ [Next]_clientVars => IInv'
<1> SUFFICES ASSUME IInv, [Next]_clientVars PROVE IInv'
  OBVIOUS
<1>1. screen' = screen
  BY DEF Next, clientVars, OverlayScreen, FeedScreen, ComposerScreen, ReviewScreen, RatingScreen,
     ThreadScreen, HeartsScreen
<1>2. /\ OverlayNext \/ UNCHANGED overlayVars
      /\ FeedNext \/ UNCHANGED feedVars
      /\ ComposerNext \/ UNCHANGED composerVars
      /\ ReviewFormNext \/ UNCHANGED reviewVars
      /\ RatingNext \/ UNCHANGED ratingVars
      /\ ThreadNext \/ UNCHANGED threadVars
      /\ HeartsNext \/ UNCHANGED heartVars
  BY DEF Next, clientVars, OverlayScreen, FeedScreen, ComposerScreen, ReviewScreen, RatingScreen,
     ThreadScreen, HeartsScreen
<1>3. OverlayInv' /\ FeedInv' /\ ComposerInv' /\ FormInv'
  BY <1>2, OverlayKeep, FeedKeep, ComposerKeep, FormKeep DEF IInv
<1>4. RatingInv' /\ ThreadInv' /\ HeartInv'
  BY <1>2, RatingKeep, ThreadKeep, HeartsKeep DEF IInv
<1> QED BY <1>1, <1>3, <1>4 DEF IInv

\* The screens' invariants hold in every state the client can be in.
THEOREM IInvHolds == Spec => []IInv
<1>1. Init => IInv
  BY IInvInit
<1>2. IInv /\ [Next]_clientVars => IInv'
  BY IInvKeep
<1> QED BY <1>1, <1>2, PTL DEF Spec

LEMMA OverlayTypes == OverlayInv => OverlayTypeOK
<1> SUFFICES ASSUME OverlayInv PROVE OverlayTypeOK
  OBVIOUS
<1>1. ASSUME NEW i \in DOMAIN history PROVE Range(history[i]) \subseteq Entry
  <2>1. history[i] \in Stacks
    BY <1>1, ElementOfSeq DEF OverlayInv
  <2> QED BY <2>1 DEF Stacks, Range
<1> QED BY <1>1 DEF OverlayInv, OverlayTypeOK

\* On whichever screen the reader is, its state keeps its types: stances, drafts and verdicts in
\* the dialogs, ratings in the lists, counts of likes, the gate of the review form.
THEOREM ScreensKeepTheirTypes == Spec => []TypeOK
<1>1. IInv => TypeOK
  <2> SUFFICES ASSUME IInv PROVE TypeOK
    OBVIOUS
  <2>1. OverlayTypeOK /\ FeedTypeOK /\ ComposerTypeOK /\ ReviewFormTypeOK
    BY OverlayTypes, FeedInvMeans DEF IInv, ComposerInv, FormInv
  <2>2. RatingTypeOK /\ ThreadTypeOK /\ HeartsTypeOK
    BY RatingInvMeans, ThreadInvMeans, HeartInvMeans DEF IInv
  <2> QED BY <2>1, <2>2 DEF IInv, Screen, TypeOK
<1> QED BY <1>1, IInvHolds, PTL

\* The feed's pages join without a gap and without an activity twice, however the answers of
\* activity.list to filters, to "more" and to reopened pages are interleaved (feed/page.tsx).
THEOREM FeedHasNoGaps == Spec => []FeedIsContiguous
<1>1. IInv => FeedIsContiguous
  BY FeedInvMeans DEF IInv
<1> QED BY <1>1, IInvHolds, PTL

\* What a reviewer has entered stays in localStorage until a review was accepted, through late
\* check-ins, refusals, failures and reloads, unless the form goes between the two effects of its
\* mount and the rendering of what they restored (review-form.tsx).
THEOREM WorkIsNotLost == Spec => []WorkIsKept
<1>1. IInv => WorkIsKept
  BY DEF IInv, FormInv, WorkIsKept
<1> QED BY <1>1, IInvHolds, PTL

\* Lists and slider come to rest on the rating that is stored, after debounced, overtaken and
\* failed writes (argument-detail.tsx, queries/arguments.ts).
THEOREM RatingsComeToRest == Spec => []RatingSettles
<1>1. IInv => RatingSettles
  BY RatingInvMeans DEF IInv
<1> QED BY <1>1, IInvHolds, PTL

\* Once the list has been read again, the view of the argument shows what this user has said, and
\* the view of a comment shows the one it was opened for (comment-detail.tsx, argument-detail.tsx).
THEOREM ThreadsAreWhole == Spec => []ThreadIsWhole
<1>1. IInv => ThreadIsWhole
  BY ThreadInvMeans DEF IInv
<1> QED BY <1>1, IInvHolds, PTL

\* A heart at rest shows what is in the user's repository and is counted once, whatever became of
\* the writes (useCommentThread.ts).
THEOREM HeartsComeToRest == Spec => []HeartsSettle
<1>1. IInv => HeartsSettle
  BY HeartInvMeans DEF IInv
<1> QED BY <1>1, IInvHolds, PTL

\* The back button of an overlay shows the view beneath, inside the client (lib/overlay/context.tsx).
THEOREM BackLeadsBeneath == Spec => BackGoesBeneath
<1>1. IInv => [BackButton /\ ~jumped => at' > 0 /\ StackOf(history', at') = Front(Stack)]_overlayVars
  BY BackMeans DEF IInv
<1> QED BY <1>1, IInvHolds, PTL DEF BackGoesBeneath

\* Only a text that was checked in these words and this stance is sent, and its concerns were
\* confirmed; a check that was not to be had counts as one (add-argument-modal.tsx).
THEOREM OnlyCheckedIsSent == Spec => SentWasChecked
<1>1. IInv /\ [Next]_clientVars =>
        [creations' > creations =>
           /\ checkedFor = {KeyOf(Text)}
           /\ verdict = "flagged" \/ TooShort \/ TooLong => step = "confirm"]_composerVars
  <2> SUFFICES ASSUME IInv, [Next]_clientVars, ~UNCHANGED composerVars, creations' > creations
               PROVE  checkedFor = {KeyOf(Text)} /\ (Concern => step = "confirm")
    BY DEF Concern
  <2>1. ComposerNext
    BY DEF Next, clientVars, OverlayScreen, FeedScreen, ComposerScreen, ReviewScreen, RatingScreen,
       ThreadScreen, HeartsScreen
  <2> QED BY <2>1, SendingMeans DEF IInv
<1> QED BY <1>1, IInvHolds, PTL DEF Spec, SentWasChecked
=============================================================================
