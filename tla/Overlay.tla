------------------------------- MODULE Overlay -------------------------------
(***************************************************************************)
(* The stack of detail views of the web client (lib/overlay).  The stack   *)
(* lives in the URL (?ov=...), so it is the business of two parties: the   *)
(* client, whose back button either walks the browser's history or rewrites*)
(* the current entry, and the browser, whose own buttons walk the history  *)
(* without asking.  pushCount is the client's memory of how many entries   *)
(* of the history it may walk back; the history itself cannot be asked.    *)
(***************************************************************************)
EXTENDS Integers, SequencesExt

CONSTANTS Entry,        \* the views that can be stacked
          MaxDepth,     \* bound: views stacked by a user
          MaxHistory    \* bound: entries of the history, and of pushCount

ASSUME OverlayAssumption == {MaxDepth, MaxHistory} \subseteq Nat

VARIABLES history,      \* stacks of the tab's history, oldest first
          at,           \* the entry shown; 0: a page before the client
          pushCount,    \* OverlayProvider.pushCount
          jumped        \* history variable: the browser went back by two or
                        \* more entries at once since the client was loaded

overlayVars == <<history, at, pushCount, jumped>>

StackOf(h, i) == IF i = 0 THEN <<>> ELSE h[i]

Stack == StackOf(history, at)

\* A link into the client opens it with any stack, also several views deep.
OverlayInit ==
  /\ history \in {<<s>> : s \in UNION {[1 .. n -> Entry] : n \in 0 .. MaxDepth}}
  /\ at = 1
  /\ pushCount = 0
  /\ jumped = FALSE

\* Mutant: the count does not follow what the browser does.
LandForgetting(h, i, count) ==
  /\ history' = h
  /\ at' = i
  /\ pushCount' = count

\* The URL changes to entry i of h.  The effect on stack.length runs once per
\* change and takes one off the count when the stack has shrunk.
Land(h, i, count) ==
  /\ history' = h
  /\ at' = i
  /\ pushCount' = IF Len(StackOf(h, i)) < Len(Stack)
                    THEN IF count > 0 THEN count - 1 ELSE 0
                    ELSE count

Pushed(s) == Append(SubSeq(history, 1, at), s)

\* navigate: a click on a card, an argument, a comment or a topic.
Navigate(e) ==
  /\ at > 0
  /\ at < MaxHistory
  /\ Len(Stack) < MaxDepth
  /\ pushCount < MaxHistory
  /\ Land(Pushed(Append(Stack, e)), at + 1, pushCount + 1)
  /\ UNCHANGED jumped

\* closeAll: the dialog is dismissed from outside or with Escape.
CloseAll ==
  /\ at \in 1 .. MaxHistory - 1
  /\ Stack # <<>>
  /\ Land(Pushed(<<>>), at + 1, pushCount)
  /\ UNCHANGED jumped

\* back: the button in the corner of a detail view, labelled with the view
\* beneath it.  The URL has changed before it is pressed again.
BackButton ==
  /\ at > 0
  /\ Stack # <<>>
  /\ IF pushCount > 0
       THEN Land(history, at - 1, pushCount)
       ELSE Land([history EXCEPT ![at] = Front(Stack)], at, 0)
  /\ UNCHANGED jumped

\* A page of the client without a stack is opened from one without a stack.
VisitPage ==
  /\ at \in 1 .. MaxHistory - 1
  /\ Stack = <<>>
  /\ Land(Pushed(<<>>), at + 1, pushCount)
  /\ UNCHANGED jumped

\* The browser's own buttons, by any number of entries inside the client.
BrowserGo(i) ==
  /\ at > 0
  /\ i \in 1 .. Len(history) \ {at}
  /\ Land(history, i, pushCount)
  /\ jumped' = (jumped \/ i < at - 1)

\* A reload, or coming back from a page outside: a new document, whose refs
\* start at zero.
Load ==
  /\ at' = IF at = 0 THEN 1 ELSE at
  /\ pushCount' = 0
  /\ jumped' = FALSE
  /\ UNCHANGED history

OverlayNext ==
  \/ \E e \in Entry : Navigate(e)
  \/ CloseAll
  \/ BackButton
  \/ VisitPage
  \/ \E i \in 1 .. MaxHistory : BrowserGo(i)
  \/ Load
-----------------------------------------------------------------------------
OverlayTypeOK ==
  /\ \A i \in DOMAIN history : Range(history[i]) \subseteq Entry
  /\ at \in 0 .. Len(history)
  /\ pushCount \in 0 .. MaxHistory

\* The back button shows the view beneath the one it leaves, inside the
\* client, whichever mixture of the client's and the browser's buttons led
\* here, as long as the browser went back entry by entry.  (A long press
\* that goes back over several entries is counted once, "user navigated back
\* via any means" in context.tsx notwithstanding; the button may then leave
\* the client.)
BackGoesBeneath ==
  [][BackButton /\ ~jumped => /\ at' > 0
                              /\ StackOf(history', at') = Front(Stack)]_overlayVars
=============================================================================
