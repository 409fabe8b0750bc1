------------------------------- MODULE Taxonomy -------------------------------
(***************************************************************************)
(* The taxonomy of a ballot from the CMS' editor to the readers' tables.   *)
(* The panel keeps the whole tree in its state.  Manual edits happen       *)
(* there; the calculator answers with proposals that are merged into it;   *)
(* "Persistieren" has the CMS publish it as a snapshot record, waits for   *)
(* the indexer for a while and loads the tree again.                       *)
(*                                                                         *)
(* The panel is locked while a request runs, but not while it loads for    *)
(* the first time.  What the language model answers is any answer that     *)
(* fits the form.  An answer of /grow splits one topic: one with several   *)
(* splits is several answers.                                              *)
(* Left out: a second editor at the same time (Editorial has two           *)
(* editors), the backfill (Editorial), the root's legacy memberships.      *)
(* The import takes any JSON: every node of it becomes one of the panel's, *)
(* so that it is always a tree, and an argument may stand in it twice. Two *)
(* nodes of one key, which only a file written by hand can have, are left  *)
(* out: a topic here is its key.                                           *)
(* Bounds: MaxSnapshots, after which the tree is only looked at, and       *)
(* MaxFailures.                                                            *)
(***************************************************************************)
EXTENDS TopicTree, Integers, Sequences, SequencesExt

CONSTANTS
  Official,       \* the arguments of the editors
  Files,          \* trees in JSON files, as "Export" writes them
  MinBranch,      \* missing arguments a new branch takes at least
  NoTree, MaxSnapshots, MaxFailures

ASSUME TaxonomyAssumption ==
  /\ Official \subseteq Arguments
  /\ Files \subseteq Shapes /\ \A t \in Files : IsTree(t)
  /\ {MinBranch, MaxSnapshots, MaxFailures} \subseteq Nat
  /\ NoTree \notin Shapes

VARIABLES
  tree,      \* the panel's root
  dirty,     \* it has changes that were not persisted
  listed,    \* "Nicht zugeordnet": the arguments without a topic when it was loaded
  opening,   \* what the first load still has to fetch
  request,   \* the request in progress: its kind, the tree it carries, the
             \* arguments it is about, and whether the tree was replaced meanwhile
  suspect,   \* history: the arguments put into this tree from the list, or twice
             \* by a file or by topics of one name
  records,   \* the snapshot records in the community repo, oldest first
  version,   \* the record of the newest row of app_taxonomy_snapshot
  handled,   \* the records the indexer has handled
  shown,     \* app_taxonomy_node and app_taxonomy_membership
  live,      \* the arguments that are not deleted
  failures

panel == <<tree, dirty, listed, suspect>>
repo == <<records, version>>
readmodel == <<handled, shown, live>>
vars == <<panel, opening, request, repo, readmodel, failures>>

Kinds == {"induce", "classify", "grow", "branch", "save", "record", "wait", "tree", "list"}
Idle == [kind |-> "none", sent |-> NoTree, about |-> {}, replaced |-> FALSE]

\* Types; and whatever is moved, split, merged or projected, every topic of the
\* panel and of the tables hangs below the root: the recursions over both trees
\* end and reach all of it.
TypeOK ==
  /\ {tree, shown} \subseteq Shapes \cup {NoTree}
  /\ \A t \in {tree, shown} \ {NoTree} : IsTree(t)
  /\ dirty \in BOOLEAN
  /\ {listed, suspect, live} \subseteq SUBSET Arguments
  /\ opening \in {"tree", "list", "done"}
  /\ request \in [kind : Kinds \cup {"none"}, sent : Shapes \cup {NoTree},
                  about : SUBSET Arguments, replaced : BOOLEAN]
  /\ records \in Seq(Shapes)
  /\ version \in 0..Len(records)
  /\ handled \in 0..Len(records)
  /\ failures \in 0..MaxFailures

Init ==
  /\ tree = NoTree /\ dirty = FALSE /\ listed = {} /\ suspect = {}
  /\ opening = "tree"
  /\ request = Idle
  /\ records = << >> /\ version = 0
  /\ handled = 0 /\ shown = NoTree /\ live = Arguments
  /\ failures = 0

Fails == failures < MaxFailures /\ failures' = failures + 1

-----------------------------------------------------------------------------
(***************************************************************************)
(* Loading: two fetches, and a failed one counts as nothing there.         *)
(***************************************************************************)
Stored == IF shown = NoTree THEN EmptyTree ELSE shown
Unplaced == {a \in live : \A n \in Stored.nodes : a \notin Stored.at[n]}

FetchTree ==
  /\ \/ tree' = shown /\ UNCHANGED failures
     \/ tree' = NoTree /\ Fails
  /\ dirty' = FALSE
  /\ suspect' = {}
  /\ UNCHANGED listed

FetchList ==
  /\ \/ listed' = Unplaced /\ UNCHANGED failures
     \/ listed' = {} /\ Fails
  /\ UNCHANGED <<tree, dirty, suspect>>

\* The first load does not lock the panel and replaces whatever is in it.
OpenTree ==
  /\ opening = "tree"
  /\ FetchTree
  /\ opening' = "list"
  /\ request' = [request EXCEPT !.replaced = request.kind # "none"]
  /\ UNCHANGED <<repo, readmodel>>

OpenList ==
  /\ opening = "list"
  /\ FetchList
  /\ opening' = "done"
  /\ UNCHANGED <<request, repo, readmodel>>

ReloadTree ==
  /\ request.kind = "tree"
  /\ FetchTree
  /\ request' = [Idle EXCEPT !.kind = "list"]
  /\ UNCHANGED <<opening, repo, readmodel>>

ReloadList ==
  /\ request.kind = "list"
  /\ FetchList
  /\ request' = Idle
  /\ UNCHANGED <<opening, repo, readmodel>>

-----------------------------------------------------------------------------
(***************************************************************************)
(* Manual edits, disabled while a request runs.                            *)
(***************************************************************************)
Unlocked == request.kind = "none"
Editable == Unlocked /\ tree # NoTree /\ Len(records) < MaxSnapshots
Put(t) == tree' = t /\ dirty' = TRUE
Elsewhere == UNCHANGED <<opening, request, repo, readmodel, failures>>

Edit ==
  /\ Editable
  /\ \/ Put([tree EXCEPT !.worded = TRUE])   \* rename, describe, introduce, up, down
     \/ \E n \in Topics \ tree.nodes, p \in tree.nodes \cup {Root} : Put(AddTopic(tree, n, p))
     \/ \E n \in tree.nodes : Put(RemoveTopic(tree, n))
     \/ Put(tree)   \* up at the top, out below the root
  /\ UNCHANGED <<listed, suspect>>
  /\ Elsewhere

\* Mutant: any other topic will do.
IndentAnywhere(n) ==
  /\ Editable
  /\ n \in tree.nodes
  /\ \E s \in tree.nodes \ {n} : Put(MoveTopic(tree, n, s))
  /\ UNCHANGED <<listed, suspect>>
  /\ Elsewhere

\* Under the sibling before it.
Indent(n) ==
  /\ Editable
  /\ n \in tree.nodes
  /\ \E s \in tree.nodes \ {n} : tree.parent[s] = tree.parent[n] /\ Put(MoveTopic(tree, n, s))
  /\ UNCHANGED <<listed, suspect>>
  /\ Elsewhere

\* To the level of its parent, unless that is the root.
Outdent(n) ==
  /\ Editable
  /\ n \in tree.nodes
  /\ tree.parent[n] # Root
  /\ Put(MoveTopic(tree, n, tree.parent[tree.parent[n]]))
  /\ UNCHANGED <<listed, suspect>>
  /\ Elsewhere

\* The list offers its arguments for every topic.  It still names what was placed
\* since it was loaded.
Offered(a, n) == a \in listed /\ n \in tree.nodes

HangFromList(a, n) ==
  /\ Editable
  /\ Offered(a, n)
  /\ Put(Hang(tree, [x \in {a} |-> n]))
  /\ listed' = listed \ {a}
  /\ suspect' = suspect \cup {a}
  /\ Elsewhere

ImportFile(t) ==
  /\ Unlocked /\ Len(records) < MaxSnapshots
  /\ Put([t EXCEPT !.worded = TRUE])
  /\ suspect' = Doubled(t)
  /\ UNCHANGED listed
  /\ Elsewhere

-----------------------------------------------------------------------------
(***************************************************************************)
(* Requests and their answers.                                             *)
(***************************************************************************)
Ask(kind, about) ==
  /\ request' = [kind |-> kind, sent |-> tree, about |-> about, replaced |-> FALSE]
  /\ UNCHANGED <<panel, opening, repo, readmodel, failures>>

AskCalculator ==
  \/ Unlocked /\ Len(records) < MaxSnapshots /\ live # {}
     /\ Ask("induce", live \cap Official)
  \/ Editable /\ Ask("classify", live)
  \/ Editable /\ Ask("grow", {})
  \/ Editable /\ Cardinality(listed) >= MinBranch /\ Ask("branch", listed)

AskReload == Unlocked /\ request' = [Idle EXCEPT !.kind = "tree"]
             /\ UNCHANGED <<panel, opening, repo, readmodel, failures>>

\* Mutant: the panel calls itself clean before the record is written.
SaveClean == Editable /\ dirty
  /\ request' = [kind |-> "save", sent |-> tree, about |-> {}, replaced |-> FALSE]
  /\ dirty' = FALSE
  /\ UNCHANGED <<tree, listed, suspect, opening, repo, readmodel, failures>>

Save == Editable /\ dirty /\ Ask("save", {})

Answered == request' = Idle /\ UNCHANGED <<opening, repo, readmodel>>

\* Every official argument is in the new tree.
AnswerInduce ==
  /\ request.kind = "induce"
  /\ \E t \in Inductions(request.about) : Put(t) /\ suspect' = Doubled(t)
  /\ UNCHANGED <<listed, failures>>
  /\ Answered

\* The topics of a tree that was loaded meanwhile have other uids.
AnswerClassify ==
  /\ request.kind = "classify"
  /\ \E f \in Placements(request.sent, request.about) :
       IF DOMAIN f = {} THEN UNCHANGED <<tree, dirty>>
       ELSE Put(IF request.replaced THEN tree ELSE Hang(tree, f))
  /\ UNCHANGED <<listed, suspect, failures>>
  /\ Answered

AnswerGrow ==
  /\ request.kind = "grow"
  /\ \/ UNCHANGED <<tree, dirty>>
     \/ \E t \in Splits(request.sent) : Put(IF request.replaced THEN tree ELSE t)
  /\ UNCHANGED <<listed, suspect, failures>>
  /\ Answered

FreeTopics == IF tree = NoTree THEN Topics ELSE Topics \ tree.nodes

\* New topics under the root, whatever tree is there now.
AnswerBranch ==
  /\ request.kind = "branch"
  /\ \/ UNCHANGED panel
     \/ \E f \in Assignments(request.about, FreeTopics) :
          /\ IF tree = NoTree THEN Put(tree)
             ELSE \E N \in NewTopics(tree, f) : Put(Sprout(tree, Root, f, N))
          /\ listed' = listed \ DOMAIN f
          /\ suspect' = suspect \cup DOMAIN f
  /\ UNCHANGED failures
  /\ Answered

\* A request that fails leaves the panel as it is and unlocks it.
FailRequest ==
  /\ request.kind \in Kinds \ {"wait", "tree", "list"}
  /\ Fails
  /\ UNCHANGED panel
  /\ Answered

-----------------------------------------------------------------------------
(***************************************************************************)
(* Persisting.                                                             *)
(***************************************************************************)
SameAsLast(t) == version # 0 /\ records[version] = Flatten(t)

Clean == dirty' = FALSE /\ UNCHANGED <<tree, listed, suspect, failures>>

SaveNothing ==
  /\ request.kind = "save"
  /\ \/ request.sent.nodes = {}
     \/ SameAsLast(request.sent)   \* and worded as it was
  /\ Clean
  /\ Answered

Publish ==
  /\ request.kind = "save"
  /\ request.sent.nodes # {}
  /\ request.sent.worded \/ ~SameAsLast(request.sent)
  /\ records' = Append(records, Flatten(request.sent))
  /\ request' = [request EXCEPT !.kind = "record"]
  /\ UNCHANGED <<panel, opening, version, readmodel, failures>>

RecordVersion ==
  /\ request.kind = "record"
  /\ version' = Len(records)
  /\ Clean
  /\ request' = [Idle EXCEPT !.kind = "wait"]
  /\ UNCHANGED <<opening, records, readmodel>>

\* Until the tables hold as many topics as the tree, as they may have before,
\* or until twelve seconds are over.
StopWaiting ==
  /\ request.kind = "wait"
  /\ request' = [Idle EXCEPT !.kind = "tree"]
  /\ UNCHANGED <<panel, opening, repo, readmodel, failures>>

-----------------------------------------------------------------------------
(***************************************************************************)
(* The indexer.                                                            *)
(***************************************************************************)
IndexerSteps == UNCHANGED <<panel, opening, request, repo>>

\* One transaction.  It is rolled back when the snapshot breaks the unique
\* index, and the record is not tried again.
ProjectSnapshot ==
  /\ handled < Len(records)
  /\ handled' = handled + 1
  /\ shown' = IF Clash(records[handled + 1], live) THEN shown
              ELSE Project(Stored, records[handled + 1], live)
  /\ UNCHANGED <<live, failures>>
  /\ IndexerSteps

FailProjection ==
  /\ handled < Len(records)
  /\ handled' = handled + 1
  /\ Fails
  /\ UNCHANGED <<shown, live>>
  /\ IndexerSteps

DeleteArgument(a) ==
  /\ a \in live
  /\ live' = live \ {a}
  /\ shown' = IF shown = NoTree THEN NoTree ELSE Visible(shown, live \ {a})
  /\ UNCHANGED <<handled, failures>>
  /\ IndexerSteps

-----------------------------------------------------------------------------
Panel ==
  \/ OpenTree \/ OpenList \/ ReloadTree \/ ReloadList
  \/ Edit
  \/ \E n \in Topics : Indent(n) \/ Outdent(n) \/ \E a \in Arguments : HangFromList(a, n)
  \/ \E t \in Files : ImportFile(t)

Calculator ==
  \/ AskCalculator \/ AnswerInduce \/ AnswerClassify \/ AnswerGrow \/ AnswerBranch
  \/ FailRequest

Persisting ==
  \/ AskReload \/ Save \/ SaveNothing \/ Publish \/ RecordVersion \/ StopWaiting

Indexing == ProjectSnapshot \/ FailProjection \/ \E a \in Arguments : DeleteArgument(a)

Next == Panel \/ Calculator \/ Persisting \/ Indexing

Spec == Init /\ [][Next]_vars

-----------------------------------------------------------------------------
(***************************************************************************)
(* Properties.                                                             *)
(***************************************************************************)
\* An argument that hangs on two nodes was put there from the list of
\* unplaced arguments, came so in a file, or belongs to two topics of one name
\* in a tree built anew: no edit, no other proposal of the calculator and no
\* load doubles one.
DoublesAccounted == tree # NoTree => Doubled(tree) \subseteq suspect

\* A panel that says it is persisted shows a published snapshot, except for
\* what was at the root and for arguments deleted since: there is nothing in it
\* that a reload would silently throw away.
CleanIsPublished ==
  (~dirty /\ tree # NoTree) =>
    \/ tree.nodes = {}
    \/ \E i \in 1..Len(records), A \in SUBSET Arguments :
         live \subseteq A /\ Visible(Flatten(tree), A) = Visible(records[i], A)

\* The readers' tables show the newest snapshot the indexer could take, whatever
\* trees and deletions came before it: its topics, its parents, its members.
ShownIsPublished ==
  (failures = 0 /\ handled = Len(records) /\ handled > 0 /\ Doubled(Last(records)) = {}) =>
    shown = Visible(Last(records), live)

\* No edit and no proposal loses an argument: only loading, importing and
\* building anew replace what the tree holds.
Replaces == OpenTree \/ ReloadTree \/ AnswerInduce \/ \E t \in Files : ImportFile(t)
NothingFallsOut ==
  [][(tree # NoTree /\ ~Replaces) => Placed(tree) \subseteq Placed(tree')]_vars
=============================================================================
