------------------------------ MODULE TopicTree ------------------------------
(***************************************************************************)
(* The topic tree of a ballot and what is done to it: the edits of the     *)
(* CMS' taxonomy panel, the proposals of the calculator merged into it,    *)
(* the flat list it is published as, and the passes that project such a    *)
(* list into app_taxonomy_node and app_taxonomy_membership.                *)
(*                                                                         *)
(* A topic is its stable key.  Names, descriptions, introductions and the  *)
(* order of siblings are one flag: whether they were touched since the     *)
(* tree was loaded.  Stance and confidence are left out.                   *)
(***************************************************************************)
EXTENDS Naturals, FiniteSets

CONSTANTS
  Topics, Arguments, Root,
  GrowThreshold,  \* direct arguments from which /grow splits a topic
  MaxDepth,       \* the depth from which it does not
  TwinTopics      \* whether the language model proposes two topics of one name

ASSUME TopicAssumption ==
  /\ Root \notin Topics
  /\ {GrowThreshold, MaxDepth} \subseteq Nat
  /\ TwinTopics \in BOOLEAN

Places == Topics \cup {Root}

\* A topic that is not in the tree hangs nowhere and holds nothing.
Shapes == [nodes : SUBSET Topics, parent : [Topics -> Places],
           at : [Places -> SUBSET Arguments], worded : BOOLEAN]

EmptyTree == [nodes |-> {}, parent |-> [n \in Topics |-> Root],
              at |-> [p \in Places |-> {}], worded |-> FALSE]

-----------------------------------------------------------------------------
(***************************************************************************)
(* Above and below.                                                        *)
(***************************************************************************)
UpClosed(t, S) == \A n \in S : t.parent[n] \in S \cup {Root}

\* A topic and the topics above it.
Path(t, n) == {m \in t.nodes :
  \A S \in SUBSET t.nodes : (n \in S /\ UpClosed(t, S)) => m \in S}

\* A topic and the topics below it.
Below(t, n) == {m \in t.nodes : n \in Path(t, m)}

\* Every topic hangs below the root: there is no loop of parents.
IsTree(t) ==
  /\ UpClosed(t, t.nodes)
  /\ \A S \in SUBSET t.nodes : S # {} => \E n \in S : t.parent[n] \notin S
  /\ \A n \in Topics \ t.nodes : t.parent[n] = Root /\ t.at[n] = {}

Placed(t) == UNION {t.at[p] : p \in Places}

\* The arguments that hang on more than one node.
Doubled(t) == {a \in Arguments :
  \E p, q \in Places : p # q /\ a \in t.at[p] /\ a \in t.at[q]}

\* The tree without the topics outside N and what they hold.
Only(t, N) ==
  [t EXCEPT !.nodes = N,
            !.parent = [n \in Topics |-> IF n \in N THEN t.parent[n] ELSE Root],
            !.at = [p \in Places |-> IF p \in N \cup {Root} THEN t.at[p] ELSE {}]]

-----------------------------------------------------------------------------
(***************************************************************************)
(* The edits of the panel.                                                 *)
(***************************************************************************)
AddTopic(t, n, p) == [t EXCEPT !.nodes = @ \cup {n}, !.parent[n] = p]

\* Mutant: the children that go with a topic take their arguments along.
RemoveWithChildren(t, n) ==
  [Only(t, t.nodes \ Below(t, n)) EXCEPT !.at[t.parent[n]] = @ \cup t.at[n]]

\* The arguments of the whole subtree move to the parent.
RemoveTopic(t, n) ==
  [Only(t, t.nodes \ Below(t, n)) EXCEPT
     !.at[t.parent[n]] = @ \cup UNION {t.at[m] : m \in Below(t, n)}]

MoveTopic(t, n, p) == [t EXCEPT !.parent[n] = p]

Hang(t, f) ==
  [t EXCEPT !.at = [p \in Places |-> t.at[p] \cup {a \in DOMAIN f : f[a] = p}]]

(***************************************************************************)
(* The calculator.  What the language model says is any answer of the form *)
(* asked for; what it calls 'andere', or forgets, is not in the assignment.*)
(* It may propose two topics of one name.                                  *)
(***************************************************************************)
Assignments(A, N) == UNION {[B -> N] : B \in SUBSET A}

Namings(N) == IF TwinTopics THEN [N -> N] ELSE {[n \in N |-> n]}

\* A tree of one level.  Topics of one name get the same arguments; the 'andere'
\* stay at the root.
Induced(A, N, name, f) ==
  [EmptyTree EXCEPT !.nodes = N, !.worded = TRUE,
     !.at = [p \in Places |-> IF p = Root THEN A \ DOMAIN f
                              ELSE {a \in DOMAIN f : p \in N /\ name[p] = f[a]}]]

\* /induce, from the official arguments.
Inductions(A) ==
  UNION {UNION {{Induced(A, N, name, f) : f \in Assignments(A, {name[n] : n \in N})} :
                name \in Namings(N)} : N \in SUBSET Topics}

\* Down the tree to a topic none below which fits; at the root it is not placed.
Descend(t, A) == Assignments(A, t.nodes)

\* /classify: the arguments the tree does not hold.
Placements(t, A) == Descend(t, A \ Placed(t))

\* A proposed topic nobody was assigned to is not created; of two with one name
\* the first stays empty.
Named(f) == {f[a] : a \in DOMAIN f}
NewTopics(t, f) ==
  {N \in SUBSET (Topics \ t.nodes) :
     /\ Named(f) \subseteq N
     /\ N # Named(f) => TwinTopics /\ Named(f) # {}}

\* New topics N under p that take their arguments from outside.
Sprout(t, p, f, N) ==
  [t EXCEPT !.nodes = @ \cup N,
            !.parent = [n \in Topics |-> IF n \in N THEN p ELSE t.parent[n]],
            !.at = [q \in Places |-> IF q \in N THEN {a \in DOMAIN f : f[a] = q}
                                     ELSE t.at[q]]]

\* Mutant: the arguments stay at the node that was split as well.
SplitKeeping(t, p, f, N) == Sprout(t, p, f, N)

\* New topics N under p that take their arguments from p.
Split(t, p, f, N) == Sprout([t EXCEPT !.at[p] = @ \ DOMAIN f], p, f, N)

Overfull(t) == {p \in t.nodes \cup {Root} :
  /\ Cardinality(t.at[p]) >= GrowThreshold
  /\ IF p = Root THEN MaxDepth > 0 ELSE Cardinality(Path(t, p)) < MaxDepth}

\* /grow: one of the nodes that hold too many arguments is split.
Splits(t) ==
  UNION {UNION {{Split(t, p, f, N) : N \in NewTopics(t, f)} :
                f \in Assignments(t.at[p], Topics \ t.nodes)} : p \in Overfull(t)}

-----------------------------------------------------------------------------
(***************************************************************************)
(* Publication and projection.                                             *)
(***************************************************************************)
\* The root and what hangs on it are not published.
Flatten(t) == [t EXCEPT !.at[Root] = {}, !.worded = FALSE]

\* The passes of the projection: topics are inserted or updated by key, new
\* ones under the root; ...
Upsert(db, s) ==
  [db EXCEPT !.nodes = @ \cup s.nodes]

\* ... then every topic of the snapshot gets its parent, ...
Reparent(db, s) ==
  [db EXCEPT !.parent = [n \in Topics |-> IF n \in s.nodes THEN s.parent[n]
                                          ELSE db.parent[n]]]

\* ... then the others are deleted, which cascades to all below them, ...
DeleteOrphans(db, s) == Only(db, {n \in db.nodes : Path(db, n) \subseteq s.nodes})

\* ... and the memberships are replaced, as far as the arguments live.
ReplaceMembers(db, s, live) ==
  [db EXCEPT !.at = [p \in Places |-> IF p \in db.nodes THEN s.at[p] \cap live ELSE {}]]

\* Mutant: the orphans are deleted before the parents are fixed.
ProjectDeletingFirst(db, s, live) ==
  ReplaceMembers(Reparent(DeleteOrphans(Upsert(db, s), s), s), s, live)

Project(db, s, live) ==
  ReplaceMembers(DeleteOrphans(Reparent(Upsert(db, s), s), s), s, live)

\* What the projection is to show of a snapshot.
Visible(s, live) == [s EXCEPT !.at = [p \in Places |-> s.at[p] \cap live]]

\* app_taxonomy_membership_arg_uidx: an argument has one row.
Clash(s, live) == Doubled(s) \cap live # {}
=============================================================================
