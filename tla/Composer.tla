------------------------------- MODULE Composer -------------------------------
(***************************************************************************)
(* The composer of an argument in the web client: a stance is chosen, a    *)
(* title and a body are written, the text is checked by the app view and   *)
(* the calculator (argument.precheck), and only a checked text can be      *)
(* submitted, after a confirmation when the check or the length has raised *)
(* concerns.  A check that fails, or a calculator that is not there, is a  *)
(* check too: its verdict is "unavailable" and raises no concern.  The     *)
(* dialog stays mounted when it is closed, so answers reach it however     *)
(* late, in whatever session it is by then.                                *)
(***************************************************************************)
EXTENDS Integers, SequencesExt, FiniteSetsExt

CONSTANTS Title, Body,  \* what is written: sequences of words, trimmed
          MinWords, MaxWords,   \* a shorter or a longer body raises a concern
          MaxAsked      \* bound: checks, and creations, under way at a time

ASSUME ComposerAssumption == <<>> \in Title /\ <<>> \in Body

Stance == {"PRO", "CONTRA"}

VARIABLES step,         \* what the dialog shows
          argType, title, body,
          checking, submitting,
          verdict,      \* the outcome of the check that is held
          checkedKey,   \* {} or the key of the text it was asked for
          checkedFor,   \* history: {} or the key of the text that verdict is
                        \* about
          checks,       \* checks under way
          creations     \* how many calls of createArgument are under way

composerVars == <<step, argType, title, body, checking, submitting, verdict,
                  checkedKey, checkedFor, checks, creations>>

Text == [type |-> argType, title |-> title, body |-> body]

\* currentKey joins the three with blanks: where the title ends is not in it.
KeyOf(t) == <<t.type, t.title \o t.body>>

IsChecked == checkedKey = {KeyOf(Text)}

HasContent == title # <<>> /\ body # <<>>

TooShort == body # <<>> /\ Len(body) < MinWords
TooLong == Len(body) > MaxWords

HasConcerns == verdict = "flagged" \/ TooShort \/ TooLong

ComposerInit ==
  /\ step = "closed"
  /\ argType = "PRO" /\ title = <<>> /\ body = <<>>
  /\ checking = FALSE /\ submitting = FALSE
  /\ verdict = "ok"
  /\ checkedKey = {}
  /\ checkedFor = {}
  /\ checks = {}
  /\ creations = 0

\* Mutant: the text stays in the closed dialog.
CloseOnly ==
  /\ step' = "closed"
  /\ checking' = FALSE /\ submitting' = FALSE
  /\ UNCHANGED <<argType, title, body, verdict, checkedKey, checkedFor>>

\* resetAndClose: everything but what is under way.
Reset ==
  /\ step' = "closed"
  /\ argType' = "PRO" /\ title' = <<>> /\ body' = <<>>
  /\ checking' = FALSE /\ submitting' = FALSE
  /\ verdict' = "ok"
  /\ checkedKey' = {}
  /\ checkedFor' = {}

Written == <<argType, title, body>>
Judgement == <<verdict, checkedKey, checkedFor>>
UnderWay == <<checks, creations>>

OpenComposer ==
  /\ step = "closed"
  /\ step' = "stance"
  /\ UNCHANGED <<Written, checking, submitting, Judgement, UnderWay>>

\* chooseStance: fixed from now on.
ChooseStance(s) ==
  /\ step = "stance"
  /\ step' = "write"
  /\ argType' = s
  /\ UNCHANGED <<title, body, checking, submitting, Judgement, UnderWay>>

\* The fields stay open while a check or a creation is under way.
Write(t, b) ==
  /\ step = "write"
  /\ <<t, b>> # <<title, body>>
  /\ t = title \/ b = body
  /\ title' = t
  /\ body' = b
  /\ UNCHANGED <<step, argType, checking, submitting, Judgement, UnderWay>>

\* handleCancel, and the question whether to discard.
Cancel ==
  /\ step \in {"stance", "write"}
  /\ IF title # <<>> \/ body # <<>>
       THEN /\ step' = "discard"
            /\ UNCHANGED <<Written, checking, submitting, Judgement>>
       ELSE Reset
  /\ UNCHANGED UnderWay

KeepEditing ==
  /\ step = "discard"
  /\ step' = "write"
  /\ UNCHANGED <<Written, checking, submitting, Judgement, UnderWay>>

Discard ==
  /\ step = "discard"
  /\ Reset
  /\ UNCHANGED UnderWay

\* A number tells checks of the same text apart.
Number(k) == CHOOSE n \in 1 .. MaxAsked : [key |-> k, id |-> n] \notin checks

\* handleCheck.
Check ==
  /\ step = "write"
  /\ HasContent
  /\ ~IsChecked
  /\ ~checking
  /\ Cardinality(checks) < MaxAsked
  /\ checking' = TRUE
  /\ checks' = checks \cup {[key |-> KeyOf(Text), id |-> Number(KeyOf(Text))]}
  /\ UNCHANGED <<step, Written, submitting, Judgement, creations>>

\* Mutant: the key is that of the text as it is when the answer comes.
CheckedAsShown(q) ==
  /\ checks' = checks \ {q}
  /\ verdict' \in {"ok", "flagged", "unavailable"}
  /\ checkedFor' = {q.key}
  /\ checking' = FALSE
  /\ checkedKey' = {KeyOf(Text)}
  /\ UNCHANGED <<step, Written, submitting, creations>>

\* The answer, or the failure, of a check: the bundle of verdicts replaces
\* the one that is held, and its key is the one taken when it was asked.
Checked(q) ==
  /\ checks' = checks \ {q}
  /\ verdict' \in {"ok", "flagged", "unavailable"}
  /\ checkedFor' = {q.key}
  /\ checking' = FALSE
  /\ checkedKey' = {q.key}
  /\ UNCHANGED <<step, Written, submitting, creations>>

\* handleSubmit: createArgument is called with the text as it stands.
Create ==
  /\ HasContent
  /\ IsChecked
  /\ ~submitting
  /\ creations < MaxAsked
  /\ submitting' = TRUE
  /\ creations' = creations + 1
  /\ UNCHANGED <<step, Written, checking, Judgement, checks>>

\* handleSubmitClick: confirm first when there are concerns.
SubmitClick ==
  /\ step = "write"
  /\ IsChecked
  /\ ~submitting
  /\ IF HasConcerns
       THEN /\ step' = "confirm"
            /\ UNCHANGED <<Written, checking, submitting, Judgement, UnderWay>>
       ELSE Create

\* The dialog of the concerns stays while the argument is being created.
BackToReview ==
  /\ step = "confirm"
  /\ ~submitting
  /\ step' = "write"
  /\ UNCHANGED <<Written, checking, submitting, Judgement, UnderWay>>

SubmitAnyway == step = "confirm" /\ Create

\* Success closes and empties the composer, whatever it holds by then.
CreateDone ==
  /\ creations > 0
  /\ creations' = creations - 1
  /\ Reset
  /\ UNCHANGED checks

CreateFailed ==
  /\ creations > 0
  /\ creations' = creations - 1
  /\ submitting' = FALSE
  /\ UNCHANGED <<step, Written, checking, Judgement, checks>>

ComposerNext ==
  \/ OpenComposer \/ Cancel \/ KeepEditing \/ Discard
  \/ \E s \in Stance : ChooseStance(s)
  \/ \E t \in Title, b \in Body : Write(t, b)
  \/ Check
  \/ \E q \in checks : Checked(q)
  \/ SubmitClick \/ BackToReview \/ SubmitAnyway
  \/ CreateDone \/ CreateFailed
-----------------------------------------------------------------------------
ComposerTypeOK ==
  /\ step \in {"closed", "stance", "write", "discard", "confirm"}
  /\ argType \in Stance /\ title \in Title /\ body \in Body
  /\ verdict \in {"ok", "flagged", "unavailable"}
  /\ step = "closed" => title = <<>> /\ body = <<>>

\* Whatever is sent was checked as it is: the verdict that is held, be it that
\* the check was not to be had, was given to a text of the same words in the
\* same stance, and a text that was flagged, or is too short or too long, was
\* confirmed.  (Not the very same text: the key cannot see a word moved from
\* the title to the body.)
SentWasChecked ==
  [][creations' > creations =>
       /\ checkedFor = {KeyOf(Text)}
       /\ verdict = "flagged" \/ TooShort \/ TooLong => step = "confirm"
    ]_composerVars
=============================================================================
