------------------------------ MODULE ReviewForm ------------------------------
(***************************************************************************)
(* The reviewer's form for one argument (components/review-form.tsx): what *)
(* is entered is kept in localStorage, the check-in decides whether the    *)
(* form may be used, the duplicate candidate comes late, and a review that *)
(* was accepted takes the invitation off the list of the banner, which     *)
(* polls.  The app view and the pipeline behind it appear as their answers.*)
(***************************************************************************)
EXTENDS Integers, FiniteSets

CONSTANTS Criterion,    \* keys of the template other than NON_DUP_KEY
          MaxSubmits    \* bound: submissions under way at a time

NonDup == "non_duplication"
Key == Criterion \cup {NonDup}
Assessment == {"none", "ok", "flagged"}
Vote == {"none", "APPROVE", "REJECT"}

VARIABLES gate,         \* "unmounted", "mounting", "checking", "ready",
                        \* "closed", "too_late" or "done"
          assessments, vote, voteTouched,
          dup,          \* the candidate: "asked", "shown" or "none"
          sending,      \* submitting of this instance of the form
          localDraft,   \* {} or what localStorage keeps
          submits,      \* calls of submitPeerreview; TRUE: of this instance
          accepted,     \* the app view has taken a review
          projected,    \* and the indexer has it
          listed,       \* the invitation is in the list of the banner
          poll,         \* {} or what the poll under way has read
          entered,      \* history: what the reviewer entered last
          torn          \* history: the form went while it was mounting, and
                        \* nothing has been entered since

reviewVars == <<gate, assessments, vote, voteTouched, dup, sending, localDraft,
                submits, accepted, projected, listed, poll, entered, torn>>

Blank == [assessments |-> [k \in Key |-> "none"], vote |-> "none"]
Entries == [assessments |-> assessments, vote |-> vote]

Shown == IF dup = "shown" THEN Key ELSE Criterion
AllAssessed == \A k \in Shown : assessments[k] # "none"

ReviewFormInit ==
  /\ gate = "unmounted"
  /\ assessments = Blank.assessments /\ vote = "none" /\ voteTouched = FALSE
  /\ dup = "none"
  /\ sending = FALSE
  /\ localDraft = {}
  /\ submits = [n \in 1 .. MaxSubmits |-> "idle"]
  /\ accepted = FALSE /\ projected = FALSE
  /\ listed = TRUE
  /\ poll = {}
  /\ entered = Blank
  /\ torn = FALSE

Server == <<submits, accepted, projected>>
Banner == <<listed, poll>>
History == <<entered, torn>>

\* The effects of the mount: the draft that was read is set, to be shown by the
\* next rendering; the persisting effect writes the blank entries of this one;
\* check-in and candidate are asked for.
Restore(d) ==
  /\ gate = "unmounted"
  /\ ~projected
  /\ gate' = "mounting"
  /\ assessments' = d.assessments
  /\ vote' = d.vote
  /\ voteTouched' = (d.vote # "none")
  /\ localDraft' = {Blank}
  /\ dup' = "asked"
  /\ sending' = FALSE
  /\ UNCHANGED <<Server, Banner, History>>

\* Mutant: the draft is read after the persisting effect has written.
MountBlank == Restore(Blank)

Mount ==
  Restore(IF localDraft = {} THEN Blank ELSE CHOOSE d \in localDraft : TRUE)

\* The rendering with the restored entries, and its persisting effect.
Render ==
  /\ gate = "mounting"
  /\ gate' = "checking"
  /\ localDraft' = {Entries}
  /\ UNCHANGED <<assessments, vote, voteTouched, dup, sending, Server, Banner,
                 History>>

\* The overlay is closed, the page left, reloaded or lost with the browser.
\* What is under way goes on without the form; a reload drops its answer.  A
\* form that goes before it was rendered has replaced its draft by blanks.
Unmount ==
  /\ gate # "unmounted"
  /\ gate' = "unmounted"
  /\ submits' = [n \in DOMAIN submits |->
                   IF submits[n] = "mine" THEN "orphan" ELSE submits[n]]
  /\ torn' = (torn \/ (gate = "mounting" /\ Entries # Blank))
  /\ UNCHANGED <<assessments, vote, voteTouched, dup, sending, localDraft,
                 accepted, projected, Banner, entered>>

\* The answer to the check-in; "not_invited", "not_found" and failures leave
\* the decision to the submission.
CheckedIn ==
  /\ gate = "checking"
  /\ gate' \in {"ready", "closed", "too_late"}
  /\ UNCHANGED <<assessments, vote, voteTouched, dup, sending, localDraft,
                 Server, Banner, History>>

\* The candidate, or none: the criterion may appear under the reviewer's hand.
Candidate ==
  /\ gate # "unmounted"
  /\ dup = "asked"
  /\ dup' \in {"shown", "none"}
  /\ UNCHANGED <<gate, assessments, vote, voteTouched, sending, localDraft,
                 Server, Banner, History>>

Persist ==
  /\ localDraft' = {[assessments |-> assessments', vote |-> vote']}
  /\ entered' = [assessments |-> assessments', vote |-> vote']
  /\ torn' = FALSE

\* setAssessment; a click on the active state takes it back.  A duplicate
\* preselects a "no" as long as no vote was chosen.
SetAssessment(k, v) ==
  /\ gate = "ready"
  /\ k \in Shown
  /\ assessments' = [assessments EXCEPT ![k] = IF @ = v THEN "none" ELSE v]
  /\ vote' = IF k = NonDup /\ assessments'[k] = "flagged" /\ ~voteTouched
               THEN "REJECT" ELSE vote
  /\ Persist
  /\ UNCHANGED <<gate, voteTouched, dup, sending, Server, Banner>>

\* chooseVote, once every shown criterion is assessed.
ChooseVote(v) ==
  /\ gate = "ready"
  /\ AllAssessed
  /\ vote' = v
  /\ voteTouched' = TRUE
  /\ UNCHANGED assessments
  /\ Persist
  /\ UNCHANGED <<gate, dup, sending, Server, Banner>>

\* handleSubmit.
SubmitReview(n) ==
  /\ gate = "ready"
  /\ vote # "none" /\ AllAssessed /\ ~sending
  /\ submits[n] = "idle"
  /\ sending' = TRUE
  /\ submits' = [submits EXCEPT ![n] = "mine"]
  /\ UNCHANGED <<gate, assessments, vote, voteTouched, dup, localDraft,
                 accepted, projected, Banner, History>>

\* The answer to a submission.  The draft goes and the invitation leaves the
\* list whether or not the form that sent it is still there.
SubmitSucceeds(n) ==
  /\ submits[n] # "idle"
  /\ accepted' = TRUE
  /\ localDraft' = {}
  /\ listed' = FALSE
  /\ IF submits[n] = "mine"
       THEN gate' = "done" /\ sending' = FALSE
       ELSE UNCHANGED <<gate, sending>>
  /\ submits' = [submits EXCEPT ![n] = "idle"]
  /\ UNCHANGED <<assessments, vote, voteTouched, dup, projected, poll, History>>

\* Refused (the review is closed, the quorum met), failed, or accepted with
\* an answer that is lost: the form shows an error and stays.
SubmitFails(n) ==
  /\ submits[n] # "idle"
  /\ accepted' \in {accepted, TRUE}
  /\ sending' = IF submits[n] = "mine" THEN FALSE ELSE sending
  /\ submits' = [submits EXCEPT ![n] = "idle"]
  /\ UNCHANGED <<gate, assessments, vote, voteTouched, dup, localDraft,
                 projected, Banner, History>>

\* The pipeline delivers the response.
ProjectResponse ==
  /\ accepted /\ ~projected
  /\ projected' = TRUE
  /\ UNCHANGED <<gate, assessments, vote, voteTouched, dup, sending, localDraft,
                 submits, accepted, Banner, History>>

\* The poll of the banner reads the open invitations, and its answer replaces
\* the list.
AskPoll ==
  /\ poll = {}
  /\ poll' = {~projected}
  /\ UNCHANGED <<gate, assessments, vote, voteTouched, dup, sending, localDraft,
                 Server, listed, History>>

AnswerPoll ==
  /\ poll # {}
  /\ listed' \in poll \cup {listed}
  /\ poll' = {}
  /\ UNCHANGED <<gate, assessments, vote, voteTouched, dup, sending, localDraft,
                 Server, History>>

ReviewFormNext ==
  \/ Mount \/ Render \/ Unmount \/ CheckedIn \/ Candidate
  \/ \E k \in Key, v \in {"ok", "flagged"} : SetAssessment(k, v)
  \/ \E v \in {"APPROVE", "REJECT"} : ChooseVote(v)
  \/ \E n \in 1 .. MaxSubmits :
       SubmitReview(n) \/ SubmitSucceeds(n) \/ SubmitFails(n)
  \/ ProjectResponse \/ AskPoll \/ AnswerPoll
-----------------------------------------------------------------------------
ReviewFormTypeOK ==
  /\ gate \in {"unmounted", "mounting", "checking", "ready", "closed",
              "too_late", "done"}
  /\ assessments \in [Key -> Assessment]
  /\ vote \in Vote
  /\ projected => accepted
  /\ gate = "done" => accepted

\* The reviewer's work is kept until a review was accepted: through a check-in
\* that comes too late, a candidate that appears late, a refused or failed
\* submission, a reload, and any number of returns, what was entered last is in
\* localStorage, or in a form that is just being mounted and has put blanks there.
\* Only a form that goes at that moment takes the work with it.
WorkIsKept ==
  ~accepted /\ ~torn =>
    CASE gate = "mounting"  -> Entries = entered
      [] localDraft = {}    -> entered = Blank
      [] OTHER              -> localDraft = {entered}
=============================================================================
