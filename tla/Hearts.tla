-------------------------------- MODULE Hearts --------------------------------
(***************************************************************************)
(* The hearts on the comments of an argument: a click patches the list in  *)
(* the query cache, then a write goes to the user's repo; the list follows *)
(* the index, and the index follows the repo.  What the list is, and when  *)
(* it is read again, is the business of Thread: here it is read any time.  *)
(* Other users' likes are left out: likeCount is this user's share of it.  *)
(***************************************************************************)
EXTENDS Integers, FiniteSets

CONSTANTS Likeable,     \* comments whose heart is clicked
          MaxLikes,     \* bound: likes and unlikes under way at a time
          MaxDrift      \* bound: how far a number is off when it is clicked

ASSUME HeartsAssumption == MaxLikes \in Nat /\ MaxDrift \in Nat

VARIABLES likedIn,      \* comments with a like in this user's repo
          likedRow,     \* ... and in the index
          inList,       \* comments in the cached list
          mine, likes,  \* its viewer.like and likeCount
          reading,      \* no list is asked for, one is, or one is on its way
          read,         \* the comments and the likes of it, once it was read
          hearts,       \* writes of likes under way
          stirred     \* history: writes on it overlapped, the answer of one was
                        \* lost, or a list was read in the middle of one

heartVars == <<likedIn, likedRow, inList, mine, likes, reading, read, hearts, stirred>>

NoList == [rows |-> {}, liked |-> {}, hot |-> {}]

HeartsInit ==
  /\ likedIn = {} /\ likedRow = {}
  /\ inList = Likeable
  /\ mine = [c \in Likeable |-> "no"] /\ likes = [c \in Likeable |-> 0]
  /\ reading = "no" /\ read = NoList
  /\ hearts = {} /\ stirred = {}
-----------------------------------------------------------------------------
(***************************************************************************)
(* The list.                                                               *)
(***************************************************************************)
AskHearts ==
  /\ reading = "no"
  /\ reading' = "asked"
  /\ UNCHANGED <<likedIn, likedRow, inList, mine, likes, read, hearts, stirred>>

\* comment.list: some of the comments are gone, or cut off.  What is not yet in
\* the index, or not yet in the repo, is not in it.
ReadHearts ==
  /\ reading = "asked"
  /\ reading' = "answered"
  /\ \E rows \in SUBSET Likeable :
       read' = [rows |-> rows, liked |-> likedRow,
                hot |-> {w.on : w \in hearts} \cup (likedIn \ likedRow)
                          \cup (likedRow \ likedIn)]
  /\ UNCHANGED <<likedIn, likedRow, inList, mine, likes, hearts, stirred>>

ShowHearts ==
  /\ reading = "answered"
  /\ reading' = "no" /\ read' = NoList
  /\ inList' = read.rows
  /\ mine' = [c \in Likeable |-> IF c \in read.rows \cap read.liked THEN "yes" ELSE "no"]
  /\ likes' = [c \in Likeable |-> IF c \in read.rows \cap read.liked THEN 1 ELSE 0]
  /\ stirred' = read.hot
  /\ UNCHANGED <<likedIn, likedRow, hearts>>

\* The old list stays.
HeartsUnread ==
  /\ reading # "no"
  /\ reading' = "no" /\ read' = NoList
  /\ UNCHANGED <<likedIn, likedRow, inList, mine, likes, hearts, stirred>>

\* The indexer gets to a like, or to the deletion of one.
IndexLike(c) ==
  /\ likedRow' = IF c \in likedIn THEN likedRow \cup {c} ELSE likedRow \ {c}
  /\ likedRow' # likedRow
  /\ UNCHANGED <<likedIn, inList, mine, likes, reading, read, hearts, stirred>>
-----------------------------------------------------------------------------
(***************************************************************************)
(* A click.                                                                *)
(***************************************************************************)
\* toggleLike: the list is patched, then the write is sent.  A heart whose like
\* has not been answered is unliked under a key that no record has.
ToggleLike(c) ==
  LET liked == mine[c] # "no"
      write == [on |-> c, like |-> ~liked, known |-> mine[c] = "yes",
                viewer |-> mine[c], count |-> likes[c]]
      inTheWay == reading # "no" \/ \E w \in hearts : w.on = c
  IN  /\ c \in inList /\ likes[c] \in -MaxDrift .. 1 + MaxDrift
      /\ Cardinality(hearts) < MaxLikes /\ write \notin hearts
      /\ hearts' = hearts \cup {write}
      /\ mine' = [mine EXCEPT ![c] = IF liked THEN "no" ELSE "pending"]
      /\ likes' = [likes EXCEPT ![c] = IF liked THEN @ - 1 ELSE @ + 1]
      /\ stirred' = IF inTheWay THEN stirred \cup {c} ELSE stirred
      /\ read' = IF reading = "answered" THEN [read EXCEPT !.hot = @ \cup {c}] ELSE read
      /\ UNCHANGED <<likedIn, likedRow, inList, reading>>

\* content.rating puts the record at the key of its subject, content.unrating
\* deletes the one it was given the key of; there may be none.
Applied(w) ==
  likedIn' = IF w.like THEN likedIn \cup {w.on}
             ELSE IF w.known THEN likedIn \ {w.on} ELSE likedIn

\* patchComment: nothing, if the comment has left the list.
Patch(c, viewer, count) ==
  IF c \in inList THEN /\ mine' = [mine EXCEPT ![c] = viewer]
                       /\ likes' = [likes EXCEPT ![c] = count]
                  ELSE UNCHANGED <<mine, likes>>

LikeSucceeds(w) ==
  /\ Applied(w)
  /\ hearts' = hearts \ {w}
  /\ Patch(w.on, IF w.like THEN "yes" ELSE "no", likes[w.on])
  /\ UNCHANGED <<likedRow, inList, reading, read, stirred>>

\* Mutant: the heart is rolled back and the number is not.
LikeFailsHalfway(w) ==
  /\ \/ UNCHANGED <<likedIn, stirred>>
     \/ Applied(w) /\ stirred' = stirred \cup {w.on}
  /\ hearts' = hearts \ {w}
  /\ Patch(w.on, w.viewer, likes[w.on])
  /\ UNCHANGED <<likedRow, inList, reading, read>>

\* The write fails, or is applied and its answer lost: back to what was captured.
LikeFails(w) ==
  /\ \/ UNCHANGED <<likedIn, stirred>>
     \/ Applied(w) /\ stirred' = stirred \cup {w.on}
  /\ hearts' = hearts \ {w}
  /\ Patch(w.on, w.viewer, w.count)
  /\ UNCHANGED <<likedRow, inList, reading, read>>

HeartsNext ==
  \/ AskHearts \/ ReadHearts \/ ShowHearts \/ HeartsUnread
  \/ \E c \in Likeable : IndexLike(c) \/ ToggleLike(c)
  \/ \E w \in hearts : LikeSucceeds(w) \/ LikeFails(w)
-----------------------------------------------------------------------------
HeartsTypeOK ==
  /\ likedIn \cup likedRow \cup inList \cup stirred \subseteq Likeable
  /\ mine \in [Likeable -> {"no", "pending", "yes"}]
  /\ reading \in {"no", "asked", "answered"}
  /\ reading # "answered" => read = NoList
  /\ Cardinality(hearts) <= MaxLikes
  /\ \A c \in Likeable : mine[c] = "pending" =>
       c \in stirred \/ \E w \in hearts : w.on = c /\ w.like

\* A heart that is at rest says, and is counted, what is in the user's repo,
\* unless clicks on it overlapped, the answer to one was lost, or the list was
\* read before the index had it.
HeartsSettle ==
  \A c \in inList \ stirred :
    (\A w \in hearts : w.on # c) =>
      /\ mine[c] = IF c \in likedIn THEN "yes" ELSE "no"
      /\ likes[c] = IF c \in likedIn THEN 1 ELSE 0
=============================================================================
