-------------------------------- MODULE Client --------------------------------
(***************************************************************************)
(* The web client: a tab is on one of its screens, and the state of each   *)
(* screen is its own.  What they share is on the server: a screen meets it *)
(* through the answers to its requests.                                    *)
(***************************************************************************)
EXTENDS Overlay, Feed, Composer, ReviewForm, Rating, Thread, Hearts

VARIABLE screen         \* the part of the client under study

clientVars == <<screen, overlayVars, feedVars, composerVars, reviewVars,
                ratingVars, threadVars, heartVars>>

Screen == {"overlay", "feed", "composer", "review", "rating", "thread", "hearts"}

Init ==
  /\ screen \in Screen
  /\ OverlayInit
  /\ screen # "overlay" => Stack = <<>>
  /\ FeedInit
  /\ ComposerInit
  /\ ReviewFormInit
  /\ RatingInit
  /\ ThreadInit
  /\ HeartsInit

OverlayScreen ==
  /\ screen = "overlay"
  /\ OverlayNext
  /\ UNCHANGED <<screen, feedVars, composerVars, reviewVars, ratingVars,
                 threadVars, heartVars>>

FeedScreen ==
  /\ screen = "feed"
  /\ FeedNext
  /\ UNCHANGED <<screen, overlayVars, composerVars, reviewVars, ratingVars,
                 threadVars, heartVars>>

ComposerScreen ==
  /\ screen = "composer"
  /\ ComposerNext
  /\ UNCHANGED <<screen, overlayVars, feedVars, reviewVars, ratingVars,
                 threadVars, heartVars>>

ReviewScreen ==
  /\ screen = "review"
  /\ ReviewFormNext
  /\ UNCHANGED <<screen, overlayVars, feedVars, composerVars, ratingVars,
                 threadVars, heartVars>>

RatingScreen ==
  /\ screen = "rating"
  /\ RatingNext
  /\ UNCHANGED <<screen, overlayVars, feedVars, composerVars, reviewVars,
                 threadVars, heartVars>>

ThreadScreen ==
  /\ screen = "thread"
  /\ ThreadNext
  /\ UNCHANGED <<screen, overlayVars, feedVars, composerVars, reviewVars,
                 ratingVars, heartVars>>

HeartsScreen ==
  /\ screen = "hearts"
  /\ HeartsNext
  /\ UNCHANGED <<screen, overlayVars, feedVars, composerVars, reviewVars,
                 ratingVars, threadVars>>

Next ==
  OverlayScreen \/ FeedScreen \/ ComposerScreen \/ ReviewScreen
    \/ RatingScreen \/ ThreadScreen \/ HeartsScreen

Spec == Init /\ [][Next]_clientVars
-----------------------------------------------------------------------------
\* Types, and what every screen keeps consistent in itself.
TypeOK ==
  \/ screen = "overlay" /\ OverlayTypeOK
  \/ screen = "feed" /\ FeedTypeOK
  \/ screen = "composer" /\ ComposerTypeOK
  \/ screen = "review" /\ ReviewFormTypeOK
  \/ screen = "rating" /\ RatingTypeOK
  \/ screen = "thread" /\ ThreadTypeOK
  \/ screen = "hearts" /\ HeartsTypeOK
=============================================================================
