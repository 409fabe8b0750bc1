---------------------------- MODULE TaxonomyProofs ----------------------------
(***************************************************************************)
(* Proofs about Taxonomy: whatever is moved, split, merged, published or   *)
(* projected, the topics stay a tree; an argument is doubled only where    *)
(* the panel is known to allow it, and none falls out; what calls itself   *)
(* persisted was published; and the readers see the newest snapshot.       *)
(***************************************************************************)
EXTENDS Taxonomy, TLAPS

-----------------------------------------------------------------------------
(***************************************************************************)
(* Trees.                                                                  *)
(***************************************************************************)
LEMMA RootIsNoTopic == Root \notin Topics
BY TopicAssumption

LEMMA PlacedIs ==
  ASSUME NEW t
  PROVE  \A a : a \in Placed(t) <=> \E p \in Places : a \in t.at[p]
BY DEF Placed

LEMMA EmptyIsTree == EmptyTree \in Shapes /\ IsTree(EmptyTree)
BY DEF EmptyTree, Shapes, Places, IsTree, UpClosed

\* A topic, its parent and whatever is above it.
LEMMA PathFacts ==
  ASSUME NEW t \in Shapes, IsTree(t), NEW n \in t.nodes
  PROVE  /\ n \in Path(t, n)
         /\ \A m \in t.nodes : t.parent[n] \in t.nodes /\ m \in Path(t, t.parent[n])
                                => m \in Path(t, n)
         /\ \A m \in t.nodes : m \in Path(t, n) /\ m # n
                                => t.parent[n] \in t.nodes /\ m \in Path(t, t.parent[n])
<1>1. n \in Path(t, n)
  BY DEF Path
<1>2. ASSUME NEW m \in t.nodes, t.parent[n] \in t.nodes, m \in Path(t, t.parent[n])
      PROVE  m \in Path(t, n)
  <2> SUFFICES ASSUME NEW S \in SUBSET t.nodes, n \in S, UpClosed(t, S)
               PROVE  m \in S
    BY DEF Path
  <2>1. t.parent[n] \in S
    BY <1>2, RootIsNoTopic DEF UpClosed, Shapes
  <2> QED BY <1>2, <2>1 DEF Path
<1>3. ASSUME NEW m \in t.nodes, m \in Path(t, n), m # n
      PROVE  t.parent[n] \in t.nodes /\ m \in Path(t, t.parent[n])
  <2>1. t.parent[n] \in t.nodes
    <3> SUFFICES ASSUME t.parent[n] \notin t.nodes PROVE FALSE
      OBVIOUS
    <3>1. t.parent[n] = Root
      BY DEF IsTree, UpClosed
    <3>2. UpClosed(t, {n})
      BY <3>1 DEF UpClosed
    <3> QED BY <1>3, <3>2 DEF Path
  <2>2. ASSUME NEW S \in SUBSET t.nodes, t.parent[n] \in S, UpClosed(t, S)
        PROVE  m \in S
    <3>1. UpClosed(t, S \cup {n})
      BY <2>2 DEF UpClosed
    <3>2. S \cup {n} \in SUBSET t.nodes
      OBVIOUS
    <3> QED BY <1>3, <3>1, <3>2 DEF Path
  <2> QED BY <2>1, <2>2 DEF Path
<1> QED BY <1>1, <1>2, <1>3

\* What is not below a topic hangs on nothing below it; nor does the topic itself.
LEMMA BelowFacts ==
  ASSUME NEW t \in Shapes, IsTree(t), NEW n \in t.nodes
  PROVE  /\ n \in Below(t, n) /\ Below(t, n) \subseteq t.nodes
         /\ \A m \in t.nodes \ Below(t, n) : t.parent[m] \notin Below(t, n)
         /\ t.parent[n] \notin Below(t, n)
<1>1. n \in Below(t, n) /\ Below(t, n) \subseteq t.nodes
  BY PathFacts DEF Below
<1>2. ASSUME NEW m \in t.nodes \ Below(t, n), t.parent[m] \in Below(t, n) PROVE FALSE
  BY <1>1, <1>2, PathFacts DEF Below
<1>3. \A m \in Below(t, n) : m # n => t.parent[m] \in Below(t, n)
  BY PathFacts DEF Below
<1>4. PICK m \in Below(t, n) : t.parent[m] \notin Below(t, n)
  <2>1. Below(t, n) \in SUBSET t.nodes /\ Below(t, n) # {}
    BY <1>1
  <2> QED BY <2>1 DEF IsTree
<1> QED BY <1>1, <1>2, <1>3, <1>4

LEMMA OnlyIsTree ==
  ASSUME NEW t \in Shapes, IsTree(t), NEW N \in SUBSET t.nodes, UpClosed(t, N)
  PROVE  Only(t, N) \in Shapes /\ IsTree(Only(t, N))
<1>1. /\ Only(t, N) \in Shapes
      /\ Only(t, N).nodes = N
      /\ \A n \in Topics : Only(t, N).parent[n] = IF n \in N THEN t.parent[n] ELSE Root
      /\ \A n \in Topics \ N : Only(t, N).at[n] = {}
  BY RootIsNoTopic DEF Only, Shapes, Places
<1>2. UpClosed(Only(t, N), N)
  BY <1>1 DEF UpClosed, Shapes
<1>3. \A S \in SUBSET N : S # {} => \E n \in S : Only(t, N).parent[n] \notin S
  BY <1>1 DEF IsTree, Shapes
<1> QED BY <1>1, <1>2, <1>3 DEF IsTree

LEMMA AddTopicIsTree ==
  ASSUME NEW t \in Shapes, IsTree(t), NEW n \in Topics \ t.nodes, NEW p \in t.nodes \cup {Root}
  PROVE  AddTopic(t, n, p) \in Shapes /\ IsTree(AddTopic(t, n, p))
<1> DEFINE u == AddTopic(t, n, p)
<1>1. /\ u \in Shapes /\ u.nodes = t.nodes \cup {n} /\ u.parent[n] = p /\ u.at = t.at
      /\ \A m \in Topics : m # n => u.parent[m] = t.parent[m]
  BY DEF AddTopic, Shapes, Places
<1>2. UpClosed(u, u.nodes)
  BY <1>1 DEF IsTree, UpClosed, Shapes
<1>3. ASSUME NEW S \in SUBSET u.nodes, S # {}
      PROVE  \E m \in S : u.parent[m] \notin S
  <2>1. CASE S \ {n} = {}
    BY <1>1, <1>3, <2>1, RootIsNoTopic
  <2>2. CASE S \ {n} # {}
    <3>1. PICK m \in S \ {n} : t.parent[m] \notin S \ {n}
      <4>1. S \ {n} \in SUBSET t.nodes
        BY <1>1
      <4> QED BY <2>2, <4>1 DEF IsTree
    <3>2. t.parent[m] # n
      BY <1>1, RootIsNoTopic DEF IsTree, UpClosed
    <3> QED BY <1>1, <3>1, <3>2 DEF Shapes
  <2> QED BY <2>1, <2>2
<1>4. \A m \in Topics \ u.nodes : u.parent[m] = Root /\ u.at[m] = {}
  BY <1>1 DEF IsTree
<1> QED BY <1>1, <1>2, <1>3, <1>4 DEF IsTree

\* Removing a topic loses no argument, doubles none and leaves a tree.
LEMMA RemoveTopicFacts ==
  ASSUME NEW t \in Shapes, IsTree(t), NEW n \in t.nodes
  PROVE  /\ RemoveTopic(t, n) \in Shapes /\ IsTree(RemoveTopic(t, n))
         /\ Placed(t) \subseteq Placed(RemoveTopic(t, n))
         /\ Doubled(RemoveTopic(t, n)) \subseteq Doubled(t)
<1> DEFINE B == Below(t, n)
           o == Only(t, t.nodes \ B)
           p == t.parent[n]
           C == UNION {t.at[m] : m \in B}
           u == RemoveTopic(t, n)
<1>1. B \subseteq t.nodes /\ p \notin B /\ n \in B /\ t.nodes \subseteq Topics
  BY BelowFacts DEF Shapes
<1>2. UpClosed(t, t.nodes \ B)
  BY BelowFacts DEF IsTree, UpClosed
<1>3. o \in Shapes /\ IsTree(o) /\ o.nodes = t.nodes \ B
  <2>1. o.nodes = t.nodes \ B
    BY DEF Only, Shapes
  <2>2. t.nodes \ B \in SUBSET t.nodes
    OBVIOUS
  <2> HIDE DEF B
  <2> QED BY <1>2, <2>1, <2>2, OnlyIsTree
<1>4. \A q \in Places : o.at[q] = IF q \in (t.nodes \ B) \cup {Root} THEN t.at[q] ELSE {}
  BY DEF Only, Shapes
<1>5. p \in (t.nodes \ B) \cup {Root}
  BY <1>1 DEF IsTree, UpClosed
<1>6. C \subseteq Arguments
  BY <1>1 DEF Shapes, Places
<1>7. u = [o EXCEPT !.at[p] = @ \cup C]
  BY DEF RemoveTopic
<1>8. /\ u \in Shapes /\ u.nodes = o.nodes /\ u.parent = o.parent
      /\ u.at[p] = o.at[p] \cup C
      /\ \A q \in Places : q # p => u.at[q] = o.at[q]
  <2>1. p \in Places
    BY <1>1, <1>5 DEF Places
  <2> HIDE DEF u, o, C, p, B
  <2> QED BY <1>3, <1>6, <1>7, <2>1 DEF Shapes
<1>9. IsTree(u)
  <2> HIDE DEF u, o
  <2>1. \A m \in Topics \ u.nodes : u.at[m] = {}
    BY <1>3, <1>5, <1>8, RootIsNoTopic DEF IsTree, Places
  <2> QED BY <1>3, <1>8, <2>1 DEF IsTree, UpClosed
<1>10. Placed(t) \subseteq Placed(u)
  <2> SUFFICES ASSUME NEW q \in Places, NEW a \in t.at[q]
               PROVE  \E r \in Places : a \in u.at[r]
    BY DEF Placed
  <2> HIDE DEF u, o
  <2>1. CASE q \in B
    BY <1>5, <1>8, <2>1, <1>1 DEF Places
  <2>2. CASE q \in (t.nodes \ B) \cup {Root}
    BY <1>4, <1>8, <2>2
  <2> QED BY <2>1, <2>2 DEF IsTree, Places
<1>11. Doubled(u) \subseteq Doubled(t)
  <2> HIDE DEF u, o
  <2> SUFFICES ASSUME NEW a \in Arguments, NEW q \in Places, NEW r \in Places, q # r,
                      a \in u.at[q], a \in u.at[r]
               PROVE  \E x, y \in Places : x # y /\ a \in t.at[x] /\ a \in t.at[y]
    BY DEF Doubled
  <2>1. \A x \in Places : a \in o.at[x] => a \in t.at[x] /\ x \notin B
    BY <1>4, <1>1, RootIsNoTopic
  <2>2. ASSUME NEW x \in Places, x # p, a \in u.at[x], a \in u.at[p]
        PROVE  \E y \in Places : x # y /\ a \in t.at[x] /\ a \in t.at[y]
    <3>1. a \in t.at[x] /\ x \notin B
      BY <1>8, <2>1, <2>2
    <3>2. CASE a \in o.at[p]
      BY <1>1, <1>5, <2>1, <2>2, <3>1, <3>2 DEF Places
    <3>3. CASE a \in C
      BY <1>1, <3>1, <3>3 DEF Places
    <3> QED BY <1>8, <2>2, <3>2, <3>3
  <2>3. CASE q = p
    BY <2>2, <2>3
  <2>4. CASE r = p
    BY <2>2, <2>4
  <2>5. CASE q # p /\ r # p
    BY <1>8, <2>1, <2>5
  <2> QED BY <2>3, <2>4, <2>5
<1> QED BY <1>8, <1>9, <1>10, <1>11

\* Under a sibling.
LEMMA IndentIsTree ==
  ASSUME NEW t \in Shapes, IsTree(t), NEW n \in t.nodes, NEW s \in t.nodes \ {n},
         t.parent[s] = t.parent[n]
  PROVE  MoveTopic(t, n, s) \in Shapes /\ IsTree(MoveTopic(t, n, s))
<1> DEFINE u == MoveTopic(t, n, s)
<1>1. /\ u \in Shapes /\ u.nodes = t.nodes /\ u.at = t.at /\ u.parent[n] = s
      /\ \A m \in Topics : m # n => u.parent[m] = t.parent[m]
      /\ t.nodes \subseteq Topics
  BY DEF MoveTopic, Shapes, Places
<1> HIDE DEF u
<1>2. UpClosed(u, u.nodes)
  BY <1>1 DEF IsTree, UpClosed
<1>3. ASSUME NEW S \in SUBSET u.nodes, S # {}
      PROVE  \E m \in S : u.parent[m] \notin S
  <2>1. PICK m \in S : t.parent[m] \notin S
    BY <1>1, <1>3 DEF IsTree
  <2>2. CASE m # n
    BY <1>1, <2>1, <2>2
  <2>3. CASE m = n
    BY <1>1, <2>1, <2>3
  <2> QED BY <2>2, <2>3
<1>4. \A m \in Topics \ u.nodes : u.parent[m] = Root /\ u.at[m] = {}
  BY <1>1 DEF IsTree
<1> QED BY <1>1, <1>2, <1>3, <1>4 DEF IsTree, u

\* To the level of the parent.
LEMMA OutdentIsTree ==
  ASSUME NEW t \in Shapes, IsTree(t), NEW n \in t.nodes, t.parent[n] # Root
  PROVE  /\ MoveTopic(t, n, t.parent[t.parent[n]]) \in Shapes
         /\ IsTree(MoveTopic(t, n, t.parent[t.parent[n]]))
<1> DEFINE p == t.parent[n]
           q == t.parent[p]
           u == MoveTopic(t, n, q)
<1>1. p \in t.nodes /\ t.nodes \subseteq Topics
  BY DEF IsTree, UpClosed, Shapes
<1>2. q \in t.nodes \cup {Root}
  BY <1>1 DEF IsTree, UpClosed
<1>3. /\ u \in Shapes /\ u.nodes = t.nodes /\ u.at = t.at /\ u.parent[n] = q
      /\ \A m \in Topics : m # n => u.parent[m] = t.parent[m]
  BY <1>1, <1>2 DEF MoveTopic, Shapes, Places
<1> HIDE DEF u, p, q
<1>4. UpClosed(u, u.nodes)
  BY <1>1, <1>2, <1>3 DEF IsTree, UpClosed
<1>5. ASSUME NEW S \in SUBSET u.nodes, S # {}
      PROVE  \E m \in S : u.parent[m] \notin S
  <2>1. CASE n \notin S
    BY <1>1, <1>3, <1>5, <2>1 DEF IsTree
  <2>2. CASE n \in S
    <3>1. S \cup {p} \in SUBSET t.nodes
      BY <1>1, <1>3
    <3>2. PICK m \in S \cup {p} : t.parent[m] \notin S \cup {p}
      BY <2>2, <3>1 DEF IsTree
    <3>3. m # n
      BY <3>2 DEF p
    <3>4. CASE m \in S
      BY <1>1, <1>3, <3>2, <3>3, <3>4
    <3>5. CASE m = p
      BY <1>3, <2>2, <3>2, <3>5 DEF q
    <3> QED BY <3>2, <3>4, <3>5
  <2> QED BY <2>1, <2>2
<1>6. \A m \in Topics \ u.nodes : u.parent[m] = Root /\ u.at[m] = {}
  BY <1>3 DEF IsTree
<1>7. u \in Shapes /\ IsTree(u)
  BY <1>3, <1>4, <1>5, <1>6 DEF IsTree
<1> QED BY <1>7 DEF u, q, p

\* Hanging arguments on topics of the tree.
LEMMA HangFacts ==
  ASSUME NEW t \in Shapes, IsTree(t), NEW A \in SUBSET Arguments, NEW f \in [A -> t.nodes]
  PROVE  /\ Hang(t, f) \in Shapes /\ IsTree(Hang(t, f))
         /\ Placed(t) \subseteq Placed(Hang(t, f))
         /\ Doubled(Hang(t, f)) \subseteq Doubled(t) \cup A
         /\ A \cap Placed(t) = {} => Doubled(Hang(t, f)) \subseteq Doubled(t)
<1> DEFINE u == Hang(t, f)
<1>1. /\ u \in Shapes /\ u.nodes = t.nodes /\ u.parent = t.parent
      /\ \A p \in Places : u.at[p] = t.at[p] \cup {a \in A : f[a] = p}
  BY DEF Hang, Shapes, Places
<1> HIDE DEF u
<1>2. IsTree(u)
  BY <1>1 DEF IsTree, UpClosed, Places
<1>3. Placed(t) \subseteq Placed(u)
  BY <1>1 DEF Placed
<1>4. Doubled(u) \subseteq Doubled(t) \cup A
  BY <1>1 DEF Doubled
<1>5. A \cap Placed(t) = {} => Doubled(u) \subseteq Doubled(t)
  BY <1>1 DEF Doubled, Placed
<1> QED BY <1>1, <1>2, <1>3, <1>4, <1>5 DEF u

\* New topics that take arguments: from outside they may double them.
LEMMA SproutFacts ==
  ASSUME NEW t \in Shapes, IsTree(t), NEW p \in t.nodes \cup {Root},
         NEW A \in SUBSET Arguments, NEW f \in [A -> Topics \ t.nodes], NEW N \in NewTopics(t, f)
  PROVE  /\ Sprout(t, p, f, N) \in Shapes /\ IsTree(Sprout(t, p, f, N))
         /\ Placed(t) \cup A \subseteq Placed(Sprout(t, p, f, N))
         /\ Doubled(Sprout(t, p, f, N)) \subseteq Doubled(t) \cup A
         /\ A \cap Placed(t) = {} => Doubled(Sprout(t, p, f, N)) \subseteq Doubled(t)
<1> DEFINE u == Sprout(t, p, f, N)
<1>1. N \subseteq Topics \ t.nodes /\ (\A a \in A : f[a] \in N) /\ t.nodes \subseteq Topics
  BY DEF NewTopics, Named, Shapes
<1>2. /\ u \in Shapes /\ u.nodes = t.nodes \cup N
      /\ \A m \in Topics : u.parent[m] = IF m \in N THEN p ELSE t.parent[m]
      /\ \A q \in Places : u.at[q] = IF q \in N THEN {a \in A : f[a] = q} ELSE t.at[q]
  BY <1>1 DEF Sprout, Shapes, Places
<1> HIDE DEF u
<1>3. UpClosed(u, u.nodes)
  BY <1>1, <1>2 DEF IsTree, UpClosed
<1>4. ASSUME NEW S \in SUBSET u.nodes, S # {}
      PROVE  \E m \in S : u.parent[m] \notin S
  <2>1. CASE S \subseteq N
    BY <1>1, <1>2, <1>4, <2>1, RootIsNoTopic
  <2>2. CASE ~(S \subseteq N)
    <3>1. PICK m \in S \ N : t.parent[m] \notin S \ N
      <4>1. S \ N \in SUBSET t.nodes /\ S \ N # {}
        BY <1>2, <2>2
      <4> QED BY <4>1 DEF IsTree
    <3>2. t.parent[m] \notin N
      BY <1>1, <1>2, <3>1, RootIsNoTopic DEF IsTree, UpClosed
    <3> QED BY <1>1, <1>2, <3>1, <3>2
  <2> QED BY <2>1, <2>2
<1>5. \A m \in Topics \ u.nodes : u.parent[m] = Root /\ u.at[m] = {}
  BY <1>1, <1>2 DEF IsTree, Places
<1>6. Placed(t) \cup A \subseteq Placed(u)
  <2>1. \A q \in Places : q \in N => t.at[q] = {}
    BY <1>1 DEF IsTree
  <2>2. Placed(t) \subseteq Placed(u)
    <3> SUFFICES ASSUME NEW q \in Places, NEW a \in t.at[q] PROVE a \in u.at[q]
      BY PlacedIs
    <3> QED BY <1>2, <2>1
  <2>3. A \subseteq Placed(u)
    <3> SUFFICES ASSUME NEW a \in A PROVE \E q \in Places : a \in u.at[q]
      BY PlacedIs
    <3>1. f[a] \in N /\ f[a] \in Places
      BY <1>1 DEF Places
    <3> QED BY <1>2, <3>1
  <2> QED BY <2>2, <2>3
<1>7. Doubled(u) \subseteq Doubled(t) \cup A
  BY <1>2 DEF Doubled
<1>8. A \cap Placed(t) = {} => Doubled(u) \subseteq Doubled(t)
  <2> SUFFICES ASSUME A \cap Placed(t) = {}, NEW a \in Arguments,
                      NEW q \in Places, NEW r \in Places, q # r, a \in u.at[q], a \in u.at[r]
               PROVE  a \in t.at[q] /\ a \in t.at[r]
    BY DEF Doubled
  <2>1. a \in A => \A x \in Places : a \notin t.at[x]
    BY PlacedIs
  <2>2. a \notin A
    <3> SUFFICES ASSUME a \in A PROVE FALSE
      OBVIOUS
    <3>1. q \in N /\ r \in N
      BY <1>2, <2>1
    <3>2. a \in {b \in A : f[b] = q} /\ a \in {b \in A : f[b] = r}
      BY <1>2, <3>1
    <3> QED BY <3>2
  <2> QED BY <1>2, <2>2
<1> QED BY <1>2, <1>3, <1>4, <1>5, <1>6, <1>7, <1>8 DEF u, IsTree

\* Splitting a node neither loses nor doubles an argument.
LEMMA SplitFacts ==
  ASSUME NEW t \in Shapes, IsTree(t), NEW p \in t.nodes \cup {Root},
         NEW A \in SUBSET t.at[p], NEW f \in [A -> Topics \ t.nodes], NEW N \in NewTopics(t, f)
  PROVE  /\ Split(t, p, f, N) \in Shapes /\ IsTree(Split(t, p, f, N))
         /\ Placed(t) \subseteq Placed(Split(t, p, f, N))
         /\ Doubled(Split(t, p, f, N)) \subseteq Doubled(t)
<1> DEFINE o == [t EXCEPT !.at[p] = @ \ DOMAIN f]
           u == Split(t, p, f, N)
<1>1. p \in Places /\ A \subseteq Arguments /\ N \subseteq Topics \ t.nodes
  BY DEF Places, Shapes, NewTopics
<1>2. /\ o \in Shapes /\ o.nodes = t.nodes /\ o.parent = t.parent
      /\ o.at[p] = t.at[p] \ A
      /\ \A q \in Places : q # p => o.at[q] = t.at[q]
  BY <1>1 DEF Shapes
<1>3. u = Sprout(o, p, f, N)
  BY DEF Split
<1> HIDE DEF o, u
<1>4. IsTree(o)
  BY <1>1, <1>2 DEF IsTree, UpClosed, Places
<1>5. N \in NewTopics(o, f)
  BY <1>2 DEF NewTopics
<1>6. /\ u \in Shapes /\ IsTree(u)
      /\ Placed(o) \cup A \subseteq Placed(u)
      /\ Doubled(u) \subseteq Doubled(o) \cup A
  BY <1>1, <1>2, <1>3, <1>4, <1>5, SproutFacts
<1>7. Placed(t) \subseteq Placed(o) \cup A
  BY <1>1, <1>2 DEF Placed
<1>8. Doubled(u) \subseteq Doubled(t)
  <2>1. \A q \in Places : u.at[q] = IF q \in N THEN {a \in A : f[a] = q} ELSE o.at[q]
    BY <1>2, <1>3 DEF Sprout, Shapes
  <2>2. \A q \in Places : \A a \in u.at[q] : a \in A =>
          \/ q \in N /\ f[a] = q
          \/ q # p /\ a \in t.at[q]
    BY <1>2, <2>1
  <2>3. \A q \in Places : \A a \in u.at[q] : a \notin A => a \in t.at[q]
    BY <1>2, <2>1
  <2> SUFFICES ASSUME NEW a \in Arguments, NEW q \in Places, NEW r \in Places, q # r,
                      a \in u.at[q], a \in u.at[r]
               PROVE  \E x, y \in Places : x # y /\ a \in t.at[x] /\ a \in t.at[y]
    BY DEF Doubled
  <2> QED BY <1>1, <2>2, <2>3
<1> QED BY <1>6, <1>7, <1>8 DEF u

\* A tree built anew.
LEMMA InductionFacts ==
  ASSUME NEW A \in SUBSET Arguments, NEW t \in Inductions(A)
  PROVE  t \in Shapes /\ IsTree(t)
<1>a. PICK N \in SUBSET Topics :
        t \in UNION {{Induced(A, N, name, f) : f \in Assignments(A, {name[n] : n \in N})} :
                     name \in Namings(N)}
  BY DEF Inductions
<1>b. PICK name \in Namings(N) :
        t \in {Induced(A, N, name, f) : f \in Assignments(A, {name[n] : n \in N})}
  BY <1>a
<1>c. PICK f \in Assignments(A, {name[n] : n \in N}) : t = Induced(A, N, name, f)
  BY <1>b
<1>2. /\ t.nodes = N /\ t.parent = [n \in Topics |-> Root] /\ t.worded = TRUE
      /\ t.at = [p \in Places |-> IF p = Root THEN A \ DOMAIN f
                              ELSE {a \in DOMAIN f : p \in N /\ name[p] = f[a]}]
      /\ t = [nodes |-> t.nodes, parent |-> t.parent, at |-> t.at, worded |-> t.worded]
  BY <1>c DEF Induced, EmptyTree
<1>3. DOMAIN f \subseteq Arguments
  BY <1>c DEF Assignments
<1>4. t \in Shapes
  <2>1. t.parent \in [Topics -> Places] /\ t.at \in [Places -> SUBSET Arguments]
    BY <1>2, <1>3 DEF Places
  <2> QED BY <1>2, <2>1 DEF Shapes
<1>5. IsTree(t)
  BY <1>2, RootIsNoTopic DEF IsTree, UpClosed, Places
<1> QED BY <1>4, <1>5

LEMMA FlattenFacts ==
  ASSUME NEW t \in Shapes, IsTree(t)
  PROVE  /\ Flatten(t) \in Shapes /\ IsTree(Flatten(t))
         /\ Flatten(t).at[Root] = {} /\ Flatten(t).worded = FALSE
BY RootIsNoTopic DEF Flatten, Shapes, IsTree, UpClosed, Places

LEMMA VisibleFacts ==
  ASSUME NEW s \in Shapes, IsTree(s), NEW A \in SUBSET Arguments
  PROVE  /\ Visible(s, A) \in Shapes /\ IsTree(Visible(s, A))
         /\ Visible(s, A).at[Root] = s.at[Root] \cap A
         /\ Visible(s, A).worded = s.worded /\ Visible(s, A).nodes = s.nodes
         /\ Doubled(Visible(s, A)) \subseteq Doubled(s) \cap A
         /\ \A B \in SUBSET A : Visible(Visible(s, A), B) = Visible(s, B)
<1> DEFINE u == Visible(s, A)
<1>1. /\ u \in Shapes /\ u.nodes = s.nodes /\ u.parent = s.parent /\ u.worded = s.worded
      /\ u.at = [p \in Places |-> s.at[p] \cap A]
  BY DEF Visible, Shapes
<1>2. \A B \in SUBSET A : Visible(u, B) = Visible(s, B)
  <2> SUFFICES ASSUME NEW B \in SUBSET A PROVE Visible(u, B) = Visible(s, B)
    OBVIOUS
  <2>1. [p \in Places |-> u.at[p] \cap B] = [p \in Places |-> s.at[p] \cap B]
    BY <1>1
  <2> QED BY <1>1, <2>1 DEF Visible, Shapes
<1> HIDE DEF u
<1>3. IsTree(u)
  BY <1>1 DEF IsTree, UpClosed, Places
<1>4. u.at[Root] = s.at[Root] \cap A
  BY <1>1 DEF Places
<1>5. Doubled(u) \subseteq Doubled(s) \cap A
  BY <1>1 DEF Doubled
<1> QED BY <1>1, <1>2, <1>3, <1>4, <1>5 DEF u

\* The passes make the tables show the snapshot, whatever was in them.
LEMMA ProjectShows ==
  ASSUME NEW db \in Shapes, IsTree(db), NEW s \in Shapes, IsTree(s), NEW A \in SUBSET Arguments,
         s.at[Root] = {}, db.worded = s.worded
  PROVE  Project(db, s, A) = Visible(s, A)
<1> DEFINE u == Reparent(Upsert(db, s), s)
           o == Only(u, s.nodes)
<1>1. /\ u \in Shapes /\ u.nodes = db.nodes \cup s.nodes /\ u.worded = s.worded
      /\ \A n \in s.nodes : u.parent[n] = s.parent[n]
      /\ s.nodes \subseteq Topics
  BY DEF Upsert, Reparent, Shapes
<1> HIDE DEF u
<1>2. UpClosed(u, s.nodes)
  BY <1>1 DEF UpClosed, IsTree
<1>3. {n \in u.nodes : Path(u, n) \subseteq s.nodes} = s.nodes
  <2>1. \A n \in u.nodes : n \in Path(u, n)
    BY DEF Path
  <2>2. \A n \in s.nodes : Path(u, n) \subseteq s.nodes
    <3>1. s.nodes \in SUBSET u.nodes
      BY <1>1
    <3> QED BY <1>2, <3>1 DEF Path
  <2> QED BY <1>1, <2>1, <2>2
<1>4. DeleteOrphans(u, s) = o
  BY <1>3 DEF DeleteOrphans
<1>5. /\ o \in Shapes
      /\ o.nodes = s.nodes /\ o.worded = s.worded
      /\ o.parent = [n \in Topics |-> IF n \in s.nodes THEN u.parent[n] ELSE Root]
  BY <1>1 DEF Only, Shapes, Places
<1>6. o.parent = s.parent
  <2>1. \A n \in Topics : o.parent[n] = s.parent[n]
    BY <1>1, <1>5 DEF IsTree
  <2> HIDE DEF o
  <2> QED BY <1>5, <2>1 DEF Shapes
<1> HIDE DEF o
<1>7. Project(db, s, A) = ReplaceMembers(o, s, A)
  BY <1>4 DEF Project, u
<1>8. [p \in Places |-> IF p \in o.nodes THEN s.at[p] \cap A ELSE {}]
        = [p \in Places |-> s.at[p] \cap A]
  BY <1>5 DEF IsTree, Places
<1>9. ReplaceMembers(o, s, A) = Visible(s, A)
  BY <1>5, <1>6, <1>8 DEF ReplaceMembers, Visible, Shapes
<1> QED BY <1>7, <1>9

-----------------------------------------------------------------------------
(***************************************************************************)
(* What holds between the steps.                                           *)
(***************************************************************************)
TreesOK ==
  /\ tree # NoTree => tree \in Shapes /\ IsTree(tree)
  /\ shown # NoTree => shown \in Shapes /\ IsTree(shown)

\* Unless it was replaced, the tree a request carries is the one of the panel.
SentIsCurrent ==
  request.kind \in {"classify", "grow", "save", "record"} =>
    /\ request.sent \in Shapes /\ IsTree(request.sent)
    /\ ~request.replaced => tree = request.sent

ReplacedIsClean == request.replaced => ~dirty /\ request.kind # "none"

RecordsAreFlat == \A i \in 1..Len(records) :
  IsTree(records[i]) /\ records[i].at[Root] = {} /\ records[i].worded = FALSE

RecordIsSent == request.kind = "record" =>
  Len(records) > 0 /\ records[Len(records)] = Flatten(request.sent)

ShownIsARecord == shown # NoTree =>
  /\ Doubled(shown) = {}
  /\ \E i \in 1..Len(records) : shown = Visible(records[i], live)

NewestIsShown == (failures = 0 /\ handled > 0 /\ Doubled(records[handled]) = {}) =>
  shown = Visible(records[handled], live)

Requests == [kind : Kinds \cup {"none"}, sent : Shapes \cup {NoTree},
             about : SUBSET Arguments, replaced : BOOLEAN]

PanelInv == DoublesAccounted /\ CleanIsPublished
IInv == /\ TypeOK
        /\ SentIsCurrent /\ ReplacedIsClean
        /\ RecordsAreFlat /\ RecordIsSent /\ ShownIsARecord /\ NewestIsShown
        /\ PanelInv

LEMMA ShapeIsNoNoTree == NoTree \notin Shapes
BY TaxonomyAssumption

LEMMA TypeFacts ==
  ASSUME TypeOK
  PROVE  /\ TreesOK /\ dirty \in BOOLEAN
         /\ tree \in Shapes \cup {NoTree} /\ shown \in Shapes \cup {NoTree}
         /\ listed \subseteq Arguments /\ suspect \subseteq Arguments /\ live \subseteq Arguments
         /\ request \in Requests
         /\ records \in Seq(Shapes) /\ \A i \in 1..Len(records) : records[i] \in Shapes
         /\ Len(records) \in Nat /\ version \in 0..Len(records) /\ handled \in 0..Len(records)
         /\ failures \in Nat
BY TaxonomyAssumption, ShapeIsNoNoTree DEF TypeOK, TreesOK, Requests

LEMMA InitIInv == Init => IInv
<1> SUFFICES ASSUME Init PROVE IInv
  OBVIOUS
<1>1. Idle \in Requests /\ Idle.kind = "none" /\ Idle.replaced = FALSE
  BY DEF Idle, Requests
<1>2. records \in Seq(Shapes) /\ Len(records) = 0
  BY DEF Init
<1>3. TypeOK
  <2>1. {tree, shown} \subseteq Shapes \cup {NoTree} /\ \A t \in {tree, shown} \ {NoTree} : IsTree(t)
    BY DEF Init
  <2>2. version \in 0..Len(records) /\ handled \in 0..Len(records) /\ failures \in 0..MaxFailures
    BY <1>2, TaxonomyAssumption DEF Init
  <2>3. request \in Requests
    BY <1>1 DEF Init
  <2>4. dirty \in BOOLEAN /\ {listed, suspect, live} \subseteq SUBSET Arguments
        /\ opening \in {"tree", "list", "done"}
    BY DEF Init
  <2> QED BY <1>2, <2>1, <2>2, <2>3, <2>4 DEF TypeOK, Requests
<1>4. SentIsCurrent /\ ReplacedIsClean /\ RecordIsSent
  BY <1>1 DEF Init, SentIsCurrent, ReplacedIsClean, RecordIsSent
<1>5. RecordsAreFlat /\ ShownIsARecord /\ NewestIsShown
  BY <1>2 DEF Init, RecordsAreFlat, ShownIsARecord, NewestIsShown
<1>6. DoublesAccounted /\ CleanIsPublished
  BY DEF Init, DoublesAccounted, CleanIsPublished
<1> QED BY <1>3, <1>4, <1>5, <1>6 DEF IInv, PanelInv

-----------------------------------------------------------------------------
(***************************************************************************)
(* Steps by what they leave alone.                                         *)
(***************************************************************************)
\* Types where the trees are right and the rest is untouched or idle.
LEMMA PanelTypes ==
  ASSUME TypeOK, UNCHANGED <<repo, readmodel>>,
         tree' # NoTree => tree' \in Shapes /\ IsTree(tree'), dirty' \in BOOLEAN,
         listed' \subseteq Arguments, suspect' \subseteq Arguments,
         opening' \in {"tree", "list", "done"}, request' \in Requests,
         UNCHANGED failures \/ Fails
  PROVE  TypeOK'
<1>1. failures' \in 0..MaxFailures
  BY TaxonomyAssumption DEF TypeOK, Fails
<1> QED BY <1>1 DEF TypeOK, repo, readmodel, Requests

\* The repository and the tables are as they were.
LEMMA SameRecords ==
  ASSUME IInv, UNCHANGED <<repo, readmodel>>, UNCHANGED failures \/ Fails
  PROVE  RecordsAreFlat' /\ ShownIsARecord' /\ NewestIsShown'
<1>1. failures' = 0 => failures = 0
  BY TypeFacts DEF IInv, Fails
<1> QED BY <1>1 DEF IInv, RecordsAreFlat, ShownIsARecord, NewestIsShown, repo, readmodel

\* What the tables show is published, and nothing in it is doubled.
LEMMA ShownIsClean ==
  ASSUME IInv, shown # NoTree
  PROVE  /\ Doubled(shown) = {} /\ shown.worded = FALSE /\ shown.at[Root] = {}
         /\ shown \in Shapes /\ IsTree(shown)
         /\ \E i \in 1..Len(records) : Visible(Flatten(shown), live) = Visible(records[i], live)
<1>1. shown \in Shapes /\ IsTree(shown) /\ live \subseteq Arguments
  BY TypeFacts DEF IInv, TreesOK
<1>2. PICK i \in 1..Len(records) : shown = Visible(records[i], live)
  BY DEF IInv, ShownIsARecord
<1>3. /\ records[i] \in Shapes /\ IsTree(records[i])
      /\ records[i].at[Root] = {} /\ records[i].worded = FALSE
  BY TypeFacts DEF IInv, RecordsAreFlat
<1>4. shown.worded = FALSE /\ shown.at[Root] = {}
  BY <1>1, <1>2, <1>3, VisibleFacts
<1>5. Visible(shown, live) = shown
  BY <1>1, <1>2, <1>3, VisibleFacts
<1>6. Flatten(shown) = shown
  BY <1>1, <1>4 DEF Flatten, Shapes
<1> QED BY <1>1, <1>2, <1>4, <1>5, <1>6 DEF IInv, ShownIsARecord

\* Loading the tree, whatever becomes of the request.
LEMMA LoadKeeps ==
  ASSUME IInv, FetchTree, UNCHANGED <<repo, readmodel>>,
         opening' \in {"tree", "list", "done"}, request' \in Requests,
         SentIsCurrent', RecordIsSent', request'.replaced => request'.kind # "none"
  PROVE  IInv'
<1>1. dirty' = FALSE /\ suspect' = {} /\ listed' = listed
      /\ (UNCHANGED failures \/ Fails) /\ (tree' = shown \/ tree' = NoTree)
  BY DEF FetchTree, Fails
<1>2. TypeOK'
  BY <1>1, TypeFacts, PanelTypes DEF IInv, TreesOK
<1>3. RecordsAreFlat' /\ ShownIsARecord' /\ NewestIsShown'
  BY <1>1, SameRecords
<1>4. ReplacedIsClean'
  BY <1>1 DEF ReplacedIsClean
<1>5. DoublesAccounted'
  BY <1>1, ShownIsClean DEF DoublesAccounted
<1>6. CleanIsPublished'
  <2> SUFFICES ASSUME tree' # NoTree PROVE CleanIsPublished'
    BY DEF CleanIsPublished
  <2>1. PICK i \in 1..Len(records) : Visible(Flatten(shown), live) = Visible(records[i], live)
    BY <1>1, ShownIsClean
  <2>2. tree' = shown /\ records' = records /\ live' = live /\ live \in SUBSET Arguments
    BY <1>1, TypeFacts DEF repo, readmodel, IInv
  <2> QED BY <2>1, <2>2 DEF CleanIsPublished
<1> QED BY <1>2, <1>3, <1>4, <1>5, <1>6 DEF IInv, PanelInv

\* A change of the panel that makes it dirty; no request is under way after it.
LEMMA PutKeeps ==
  ASSUME IInv, NEW t, Put(t), t # NoTree => t \in Shapes /\ IsTree(t),
         t # NoTree => Doubled(t) \subseteq suspect',
         listed' \subseteq Arguments, suspect' \subseteq Arguments,
         UNCHANGED <<opening, repo, readmodel, failures>>,
         request' \in Requests, request'.kind = "none", ~request'.replaced
  PROVE  IInv'
<1>1. tree' = t /\ dirty' = TRUE /\ opening' = opening
  BY DEF Put
<1>3. TypeOK'
  <2>1. opening \in {"tree", "list", "done"}
    BY DEF IInv, TypeOK
  <2> QED BY <1>1, <2>1, PanelTypes DEF IInv
<1>4. RecordsAreFlat' /\ ShownIsARecord' /\ NewestIsShown'
  BY SameRecords
<1>5. SentIsCurrent' /\ RecordIsSent' /\ ReplacedIsClean'
  BY DEF SentIsCurrent, RecordIsSent, ReplacedIsClean
<1>6. DoublesAccounted' /\ CleanIsPublished'
  BY <1>1 DEF DoublesAccounted, CleanIsPublished
<1> QED BY <1>3, <1>4, <1>5, <1>6 DEF IInv, PanelInv

\* The request changes, the tree stays.
LEMMA RequestKeeps ==
  ASSUME IInv, UNCHANGED <<tree, dirty, suspect, repo, readmodel>>, listed' \subseteq Arguments,
         opening' \in {"tree", "list", "done"}, request' \in Requests,
         UNCHANGED failures \/ Fails,
         SentIsCurrent', RecordIsSent', ReplacedIsClean'
  PROVE  IInv'
<1>1. TypeOK'
  BY TypeFacts, PanelTypes DEF IInv, TreesOK
<1>2. RecordsAreFlat' /\ ShownIsARecord' /\ NewestIsShown'
  BY SameRecords
<1>3. DoublesAccounted' /\ CleanIsPublished'
  BY DEF IInv, PanelInv, DoublesAccounted, CleanIsPublished, repo, readmodel
<1> QED BY <1>1, <1>2, <1>3 DEF IInv, PanelInv

-----------------------------------------------------------------------------
(***************************************************************************)
(* The steps.                                                              *)
(***************************************************************************)
LEMMA IdleIsIdle ==
  Idle \in Requests /\ Idle.kind = "none" /\ Idle.replaced = FALSE /\ Idle.sent = NoTree
BY DEF Idle, Requests

LEMMA RequestIs ==
  ASSUME IInv
  PROVE  request = [kind |-> request.kind, sent |-> request.sent,
                    about |-> request.about, replaced |-> request.replaced]
BY TypeFacts DEF IInv, Requests

LEMMA OpenSteps == IInv /\ (OpenTree \/ OpenList \/ ReloadTree \/ ReloadList) => IInv'
<1> SUFFICES ASSUME IInv PROVE OpenTree \/ OpenList \/ ReloadTree \/ ReloadList => IInv'
  OBVIOUS
<1>1. ASSUME OpenTree PROVE IInv'
  <2>1. /\ FetchTree /\ opening' = "list" /\ UNCHANGED <<repo, readmodel>>
        /\ request' = [request EXCEPT !.replaced = request.kind # "none"]
    BY <1>1 DEF OpenTree
  <2>2. request' \in Requests /\ request'.kind = request.kind /\ request'.sent = request.sent
        /\ request'.replaced = (request.kind # "none")
    BY <2>1, TypeFacts DEF IInv, Requests
  <2>3. SentIsCurrent'
    BY <2>2 DEF IInv, SentIsCurrent
  <2>4. RecordIsSent'
    BY <2>1, <2>2 DEF IInv, RecordIsSent, repo
  <2> QED BY <2>1, <2>2, <2>3, <2>4, LoadKeeps
<1>2. ASSUME ReloadTree PROVE IInv'
  <2>1. /\ FetchTree /\ opening' = opening /\ UNCHANGED <<repo, readmodel>>
        /\ request' = [Idle EXCEPT !.kind = "list"]
    BY <1>2 DEF ReloadTree
  <2>2. request' \in Requests /\ request'.kind = "list" /\ request'.replaced = FALSE
    BY <2>1 DEF Idle, Requests, Kinds
  <2>3. SentIsCurrent' /\ RecordIsSent'
    BY <2>2 DEF SentIsCurrent, RecordIsSent
  <2>4. opening \in {"tree", "list", "done"}
    BY DEF IInv, TypeOK
  <2> QED BY <2>1, <2>2, <2>3, <2>4, LoadKeeps
<1>3. ASSUME FetchList PROVE listed' \subseteq Arguments /\ (UNCHANGED failures \/ Fails)
                             /\ UNCHANGED <<tree, dirty, suspect>>
  BY <1>3, TypeFacts DEF FetchList, Fails, Unplaced, IInv
<1>4. ASSUME OpenList PROVE IInv'
  <2>1. /\ FetchList /\ opening' = "done" /\ UNCHANGED <<request, repo, readmodel>>
    BY <1>4 DEF OpenList
  <2>2. SentIsCurrent' /\ RecordIsSent' /\ ReplacedIsClean'
    BY <1>3, <2>1 DEF IInv, SentIsCurrent, RecordIsSent, ReplacedIsClean, repo
  <2>3. request' \in Requests
    BY <2>1, TypeFacts DEF IInv
  <2> QED BY <1>3, <2>1, <2>2, <2>3, RequestKeeps
<1>5. ASSUME ReloadList PROVE IInv'
  <2>1. /\ FetchList /\ opening' = opening /\ request' = Idle /\ UNCHANGED <<repo, readmodel>>
    BY <1>5 DEF ReloadList
  <2>2. SentIsCurrent' /\ RecordIsSent' /\ ReplacedIsClean' /\ request' \in Requests
    BY <2>1, IdleIsIdle DEF SentIsCurrent, RecordIsSent, ReplacedIsClean
  <2>3. opening \in {"tree", "list", "done"}
    BY DEF IInv, TypeOK
  <2> QED BY <1>3, <2>1, <2>2, <2>3, RequestKeeps
<1> QED BY <1>1, <1>2, <1>4, <1>5

\* Manual edits happen while no request runs.
LEMMA ManualPut ==
  ASSUME IInv, Unlocked, NEW t, Put(t), t # NoTree => t \in Shapes /\ IsTree(t),
         t # NoTree => Doubled(t) \subseteq suspect',
         listed' \subseteq Arguments, suspect' \subseteq Arguments, Elsewhere
  PROVE  IInv'
<1>1. UNCHANGED <<opening, repo, readmodel, failures>> /\ request' = request
  BY DEF Elsewhere
<1>2. request \in Requests /\ request.kind = "none" /\ ~request.replaced
  BY TypeFacts DEF IInv, Unlocked, ReplacedIsClean
<1> QED BY <1>1, <1>2, PutKeeps

LEMMA SameAt ==
  ASSUME NEW t, NEW u, u.at = t.at
  PROVE  Doubled(u) = Doubled(t) /\ Placed(u) = Placed(t)
BY DEF Doubled, Placed

\* Touching the words of a tree.
LEMMA WordedFacts ==
  ASSUME NEW t \in Shapes, IsTree(t)
  PROVE  /\ [t EXCEPT !.worded = TRUE] \in Shapes /\ IsTree([t EXCEPT !.worded = TRUE])
         /\ Doubled([t EXCEPT !.worded = TRUE]) = Doubled(t)
         /\ Placed([t EXCEPT !.worded = TRUE]) = Placed(t)
<1> DEFINE u == [t EXCEPT !.worded = TRUE]
<1>1. u \in Shapes /\ u.nodes = t.nodes /\ u.parent = t.parent /\ u.at = t.at
  BY DEF Shapes
<1> HIDE DEF u
<1>2. IsTree(u)
  BY <1>1 DEF IsTree, UpClosed
<1> QED BY <1>1, <1>2, SameAt DEF u

LEMMA AssignmentIs ==
  ASSUME NEW A, NEW N, NEW f \in Assignments(A, N)
  PROVE  DOMAIN f \subseteq A /\ f \in [DOMAIN f -> N]
BY DEF Assignments

\* Every manual edit puts a tree in which nothing new is doubled and nothing is lost.
LEMMA EditPuts ==
  ASSUME IInv, Edit \/ \E n \in Topics : Indent(n) \/ Outdent(n)
  PROVE  /\ Unlocked /\ tree # NoTree /\ UNCHANGED <<listed, suspect>> /\ Elsewhere
         /\ \E t \in Shapes : /\ Put(t) /\ IsTree(t)
                              /\ Doubled(t) \subseteq Doubled(tree)
                              /\ Placed(tree) \subseteq Placed(t)
<1>1. Editable /\ UNCHANGED <<listed, suspect>> /\ Elsewhere
  BY DEF Edit, Indent, Outdent
<1>2. tree # NoTree /\ tree \in Shapes /\ IsTree(tree)
  BY <1>1, TypeFacts DEF IInv, TreesOK, Editable
<1> DEFINE Kept(t) == /\ t \in Shapes /\ IsTree(t) /\ Doubled(t) \subseteq Doubled(tree)
                      /\ Placed(tree) \subseteq Placed(t)
<1>3. ASSUME NEW n \in Topics \ tree.nodes, NEW p \in tree.nodes \cup {Root}
      PROVE  Kept(AddTopic(tree, n, p))
  <2>1. AddTopic(tree, n, p).at = tree.at
    BY <1>2 DEF AddTopic, Shapes
  <2> QED BY <1>2, <2>1, AddTopicIsTree, SameAt
<1>4. ASSUME NEW n \in tree.nodes PROVE Kept(RemoveTopic(tree, n))
  BY <1>2, RemoveTopicFacts
<1>5. ASSUME NEW n, NEW p PROVE MoveTopic(tree, n, p).at = tree.at
  BY <1>2 DEF MoveTopic, Shapes
<1>6. ASSUME NEW n \in tree.nodes, NEW s \in tree.nodes \ {n}, tree.parent[s] = tree.parent[n]
      PROVE  Kept(MoveTopic(tree, n, s))
  BY <1>2, <1>5, <1>6, IndentIsTree, SameAt
<1>7. ASSUME NEW n \in tree.nodes, tree.parent[n] # Root
      PROVE  Kept(MoveTopic(tree, n, tree.parent[tree.parent[n]]))
  BY <1>2, <1>5, <1>7, OutdentIsTree, SameAt
<1>8. Kept(tree) /\ Kept([tree EXCEPT !.worded = TRUE])
  BY <1>2, WordedFacts
<1> HIDE DEF Kept
<1>9. \E t : Kept(t) /\ Put(t)
  <2>1. CASE Edit
    BY <1>3, <1>4, <1>8, <2>1 DEF Edit
  <2>2. CASE \E n \in Topics : Indent(n)
    BY <1>6, <2>2 DEF Indent
  <2>3. CASE \E n \in Topics : Outdent(n)
    BY <1>7, <2>3 DEF Outdent
  <2> QED BY <2>1, <2>2, <2>3
<1> QED BY <1>1, <1>2, <1>9 DEF Kept, Editable

LEMMA HangPuts ==
  ASSUME IInv, NEW a \in Arguments, NEW n \in Topics, HangFromList(a, n)
  PROVE  /\ Unlocked /\ tree # NoTree /\ Elsewhere
         /\ listed' = listed \ {a} /\ suspect' = suspect \cup {a}
         /\ \E t \in Shapes : /\ Put(t) /\ IsTree(t)
                              /\ Doubled(t) \subseteq Doubled(tree) \cup {a}
                              /\ Placed(tree) \subseteq Placed(t)
<1>1. /\ Editable /\ Elsewhere /\ n \in tree.nodes
      /\ Put(Hang(tree, [x \in {a} |-> n]))
      /\ listed' = listed \ {a} /\ suspect' = suspect \cup {a}
  BY DEF HangFromList, Offered
<1>2. tree # NoTree /\ tree \in Shapes /\ IsTree(tree)
  BY <1>1, TypeFacts DEF IInv, TreesOK, Editable
<1>3. {a} \in SUBSET Arguments /\ [x \in {a} |-> n] \in [{a} -> tree.nodes]
  BY <1>1
<1>4. /\ Hang(tree, [x \in {a} |-> n]) \in Shapes /\ IsTree(Hang(tree, [x \in {a} |-> n]))
      /\ Doubled(Hang(tree, [x \in {a} |-> n])) \subseteq Doubled(tree) \cup {a}
      /\ Placed(tree) \subseteq Placed(Hang(tree, [x \in {a} |-> n]))
  BY <1>2, <1>3, HangFacts
<1> QED BY <1>1, <1>2, <1>4 DEF Editable

LEMMA ManualSteps ==
  ASSUME IInv, \/ Edit
               \/ \E n \in Topics : Indent(n) \/ Outdent(n) \/ \E a \in Arguments : HangFromList(a, n)
               \/ \E t \in Files : ImportFile(t)
  PROVE  IInv'
<1>1. CASE Edit \/ \E n \in Topics : Indent(n) \/ Outdent(n)
  <2>1. /\ Unlocked /\ tree # NoTree /\ listed' = listed /\ suspect' = suspect /\ Elsewhere
    BY <1>1, EditPuts
  <2>2. PICK t \in Shapes : Put(t) /\ IsTree(t) /\ Doubled(t) \subseteq Doubled(tree)
    BY <1>1, EditPuts
  <2>3. Doubled(tree) \subseteq suspect /\ listed \subseteq Arguments /\ suspect \subseteq Arguments
    BY <2>1, TypeFacts DEF IInv, PanelInv, DoublesAccounted
  <2> QED BY <2>1, <2>2, <2>3, ManualPut
<1>2. ASSUME NEW n \in Topics, NEW a \in Arguments, HangFromList(a, n) PROVE IInv'
  <2>1. /\ Unlocked /\ tree # NoTree /\ Elsewhere
        /\ listed' = listed \ {a} /\ suspect' = suspect \cup {a}
    BY <1>2, HangPuts
  <2>2. PICK t \in Shapes : Put(t) /\ IsTree(t) /\ Doubled(t) \subseteq Doubled(tree) \cup {a}
    BY <1>2, HangPuts
  <2>3. Doubled(tree) \subseteq suspect /\ listed \subseteq Arguments /\ suspect \subseteq Arguments
    BY <2>1, TypeFacts DEF IInv, PanelInv, DoublesAccounted
  <2> QED BY <2>1, <2>2, <2>3, ManualPut
<1>3. ASSUME NEW t \in Files, ImportFile(t) PROVE IInv'
  <2>1. /\ Unlocked /\ Put([t EXCEPT !.worded = TRUE]) /\ suspect' = Doubled(t)
        /\ listed' = listed /\ Elsewhere
    BY <1>3 DEF ImportFile
  <2>2. t \in Shapes /\ IsTree(t)
    BY TaxonomyAssumption
  <2>3. Doubled(t) \subseteq Arguments /\ listed \subseteq Arguments
    BY TypeFacts DEF Doubled, IInv
  <2> QED BY <2>1, <2>2, <2>3, WordedFacts, ManualPut
<1> QED BY <1>1, <1>2, <1>3

-----------------------------------------------------------------------------
LEMMA AskSteps ==
  ASSUME IInv, NEW kind \in Kinds, NEW about \in SUBSET Arguments, Unlocked, Ask(kind, about),
         kind # "record", kind = "induce" \/ tree # NoTree
  PROVE  IInv'
<1>1. /\ request' = [kind |-> kind, sent |-> tree, about |-> about, replaced |-> FALSE]
      /\ UNCHANGED <<panel, opening, repo, readmodel, failures>>
  BY DEF Ask
<1>2. request' \in Requests /\ request'.kind = kind /\ request'.sent = tree
      /\ request'.replaced = FALSE
  BY <1>1, TypeFacts DEF IInv, Requests
<1>3. UNCHANGED <<tree, dirty, suspect, listed>> /\ opening' \in {"tree", "list", "done"}
      /\ listed \subseteq Arguments
  BY <1>1, TypeFacts DEF panel, IInv, TypeOK
<1>4. SentIsCurrent'
  BY <1>2, <1>3, TypeFacts DEF SentIsCurrent, IInv, TreesOK
<1>5. RecordIsSent' /\ ReplacedIsClean'
  BY <1>2 DEF RecordIsSent, ReplacedIsClean
<1> QED BY <1>1, <1>2, <1>3, <1>4, <1>5, RequestKeeps

LEMMA AskAnySteps == IInv /\ (AskCalculator \/ AskReload \/ Save) => IInv'
<1> SUFFICES ASSUME IInv PROVE AskCalculator \/ AskReload \/ Save => IInv'
  OBVIOUS
<1>1. live \subseteq Arguments /\ listed \subseteq Arguments
  BY TypeFacts DEF IInv
<1>2. ASSUME AskCalculator PROVE IInv'
  <2>1. Unlocked /\ \/ Ask("induce", live \cap Official)
                    \/ tree # NoTree /\ Ask("classify", live)
                    \/ tree # NoTree /\ Ask("grow", {})
                    \/ tree # NoTree /\ Ask("branch", listed)
    BY <1>2 DEF AskCalculator, Editable
  <2> QED BY <1>1, <2>1, AskSteps DEF Kinds
<1>3. ASSUME Save PROVE IInv'
  BY <1>3, AskSteps DEF Save, Editable, Kinds
<1>4. ASSUME AskReload PROVE IInv'
  <2>1. /\ request' = [Idle EXCEPT !.kind = "tree"]
        /\ UNCHANGED <<panel, opening, repo, readmodel, failures>>
    BY <1>4 DEF AskReload
  <2>2. request' \in Requests /\ request'.kind = "tree" /\ request'.replaced = FALSE
    BY <2>1 DEF Idle, Requests, Kinds
  <2>3. SentIsCurrent' /\ RecordIsSent' /\ ReplacedIsClean'
    BY <2>2 DEF SentIsCurrent, RecordIsSent, ReplacedIsClean
  <2>4. UNCHANGED <<tree, dirty, suspect, listed>> /\ opening' \in {"tree", "list", "done"}
    BY <2>1 DEF panel, IInv, TypeOK
  <2> QED BY <1>1, <2>1, <2>2, <2>3, <2>4, RequestKeeps
<1> QED BY <1>2, <1>3, <1>4

\* An answer that leaves the panel as it is.
LEMMA QuietAnswer ==
  ASSUME IInv, UNCHANGED <<tree, dirty, suspect>>, listed' \subseteq Arguments, Answered,
         UNCHANGED failures \/ Fails
  PROVE  IInv'
<1>1. request' = Idle /\ UNCHANGED <<opening, repo, readmodel>>
  BY DEF Answered
<1>2. request' \in Requests /\ SentIsCurrent' /\ RecordIsSent' /\ ReplacedIsClean'
  BY <1>1, IdleIsIdle DEF SentIsCurrent, RecordIsSent, ReplacedIsClean
<1>3. opening' \in {"tree", "list", "done"}
  BY <1>1 DEF IInv, TypeOK
<1> QED BY <1>1, <1>2, <1>3, RequestKeeps

LEMMA AnswerPut ==
  ASSUME IInv, NEW t, Put(t), t # NoTree => t \in Shapes /\ IsTree(t),
         t # NoTree => Doubled(t) \subseteq suspect',
         listed' \subseteq Arguments, suspect' \subseteq Arguments, Answered, UNCHANGED failures
  PROVE  IInv'
BY IdleIsIdle, PutKeeps DEF Answered

LEMMA InduceStep ==
  ASSUME IInv, AnswerInduce
  PROVE  IInv'
<1>1. PICK t \in Inductions(request.about) : Put(t) /\ suspect' = Doubled(t)
  BY DEF AnswerInduce
<1>2. request.about \in SUBSET Arguments
  BY TypeFacts DEF IInv, Requests
<1>3. t \in Shapes /\ IsTree(t)
  BY <1>2, InductionFacts
<1>4. UNCHANGED <<listed, failures>> /\ Answered /\ listed \subseteq Arguments
  BY TypeFacts DEF AnswerInduce, IInv
<1>5. suspect' \subseteq Arguments
  BY <1>1 DEF Doubled
<1> QED BY <1>1, <1>3, <1>4, <1>5, AnswerPut

\* What the calculator puts into the tree of the panel.
LEMMA ClassifyPuts ==
  ASSUME IInv, AnswerClassify
  PROVE  \/ UNCHANGED <<tree, dirty>>
         \/ Put(tree)
         \/ \E t \in Shapes : /\ tree # NoTree /\ Put(t) /\ IsTree(t)
                              /\ Doubled(t) \subseteq Doubled(tree)
                              /\ Placed(tree) \subseteq Placed(t)
<1>1. PICK f \in Placements(request.sent, request.about) :
        IF DOMAIN f = {} THEN UNCHANGED <<tree, dirty>>
        ELSE Put(IF request.replaced THEN tree ELSE Hang(tree, f))
  BY DEF AnswerClassify
<1>2. CASE DOMAIN f = {} \/ request.replaced
  BY <1>1, <1>2
<1>3. CASE DOMAIN f # {} /\ ~request.replaced
  <2>1. tree = request.sent /\ tree \in Shapes /\ IsTree(tree) /\ tree # NoTree
    BY <1>3, ShapeIsNoNoTree DEF AnswerClassify, IInv, SentIsCurrent
  <2>2. DOMAIN f \subseteq request.about \ Placed(tree) /\ f \in [DOMAIN f -> tree.nodes]
    BY <2>1, AssignmentIs DEF Placements, Descend
  <2>3. request.about \subseteq Arguments
    BY TypeFacts DEF IInv, Requests
  <2>4. DOMAIN f \in SUBSET Arguments /\ DOMAIN f \cap Placed(tree) = {}
    BY <2>2, <2>3
  <2>5. /\ Hang(tree, f) \in Shapes /\ IsTree(Hang(tree, f))
        /\ Placed(tree) \subseteq Placed(Hang(tree, f))
        /\ Doubled(Hang(tree, f)) \subseteq Doubled(tree)
    BY <2>1, <2>2, <2>4, HangFacts
  <2> QED BY <1>1, <1>3, <2>1, <2>5
<1> QED BY <1>2, <1>3

LEMMA GrowPuts ==
  ASSUME IInv, AnswerGrow
  PROVE  \/ UNCHANGED <<tree, dirty>>
         \/ Put(tree)
         \/ \E t \in Shapes : /\ tree # NoTree /\ Put(t) /\ IsTree(t)
                              /\ Doubled(t) \subseteq Doubled(tree)
                              /\ Placed(tree) \subseteq Placed(t)
<1>1. CASE UNCHANGED <<tree, dirty>>
  BY <1>1
<1>2. ASSUME NEW t \in Splits(request.sent), Put(IF request.replaced THEN tree ELSE t),
             ~request.replaced
      PROVE  \E u \in Shapes : /\ tree # NoTree /\ Put(u) /\ IsTree(u)
                               /\ Doubled(u) \subseteq Doubled(tree)
                               /\ Placed(tree) \subseteq Placed(u)
  <2>1. tree = request.sent /\ tree \in Shapes /\ IsTree(tree) /\ tree # NoTree
    BY <1>2, ShapeIsNoNoTree DEF AnswerGrow, IInv, SentIsCurrent
  <2>2. PICK p \in Overfull(tree) :
          t \in UNION {{Split(tree, p, f, N) : N \in NewTopics(tree, f)} :
                       f \in Assignments(tree.at[p], Topics \ tree.nodes)}
    BY <1>2, <2>1 DEF Splits
  <2>3. PICK f \in Assignments(tree.at[p], Topics \ tree.nodes) :
          t \in {Split(tree, p, f, N) : N \in NewTopics(tree, f)}
    BY <2>2
  <2>4. PICK N \in NewTopics(tree, f) : t = Split(tree, p, f, N)
    BY <2>3
  <2>5. p \in tree.nodes \cup {Root}
    BY DEF Overfull
  <2>6. DOMAIN f \in SUBSET tree.at[p] /\ f \in [DOMAIN f -> Topics \ tree.nodes]
    BY AssignmentIs
  <2>7. t \in Shapes /\ IsTree(t) /\ Placed(tree) \subseteq Placed(t)
        /\ Doubled(t) \subseteq Doubled(tree)
    BY <2>1, <2>4, <2>5, <2>6, SplitFacts
  <2> QED BY <1>2, <2>1, <2>7
<1>3. ASSUME NEW t \in Splits(request.sent), Put(IF request.replaced THEN tree ELSE t),
             request.replaced
      PROVE  Put(tree)
  BY <1>3
<1> QED BY <1>1, <1>2, <1>3 DEF AnswerGrow

LEMMA BranchPuts ==
  ASSUME IInv, AnswerBranch
  PROVE  \/ UNCHANGED panel
         \/ tree = NoTree /\ Put(tree) /\ listed' \subseteq listed /\ suspect' \subseteq Arguments
         \/ \E t \in Shapes : /\ tree # NoTree /\ Put(t) /\ IsTree(t)
                              /\ Doubled(tree) \cup suspect \subseteq suspect'
                              /\ Doubled(t) \subseteq suspect' /\ suspect' \subseteq Arguments
                              /\ listed' \subseteq listed
                              /\ Placed(tree) \subseteq Placed(t)
<1>1. CASE UNCHANGED panel
  BY <1>1
<1>2. CASE ~UNCHANGED panel
  <2>1. PICK f \in Assignments(request.about, FreeTopics) :
          /\ IF tree = NoTree THEN Put(tree)
             ELSE \E N \in NewTopics(tree, f) : Put(Sprout(tree, Root, f, N))
          /\ listed' = listed \ DOMAIN f
          /\ suspect' = suspect \cup DOMAIN f
    BY <1>2 DEF AnswerBranch
  <2>2. request.about \subseteq Arguments /\ suspect \subseteq Arguments
    BY TypeFacts DEF IInv, Requests
  <2>3. DOMAIN f \in SUBSET Arguments /\ f \in [DOMAIN f -> FreeTopics]
    BY <2>2, AssignmentIs
  <2>4. CASE tree = NoTree
    BY <2>1, <2>2, <2>3, <2>4
  <2>5. CASE tree # NoTree
    <3>1. tree \in Shapes /\ IsTree(tree) /\ Doubled(tree) \subseteq suspect
      BY <2>5, TypeFacts DEF IInv, TreesOK, PanelInv, DoublesAccounted
    <3>2. PICK N \in NewTopics(tree, f) : Put(Sprout(tree, Root, f, N))
      BY <2>1, <2>5
    <3>3. f \in [DOMAIN f -> Topics \ tree.nodes] /\ Root \in tree.nodes \cup {Root}
      BY <2>3, <2>5 DEF FreeTopics
    <3>4. /\ Sprout(tree, Root, f, N) \in Shapes /\ IsTree(Sprout(tree, Root, f, N))
          /\ Placed(tree) \subseteq Placed(Sprout(tree, Root, f, N))
          /\ Doubled(Sprout(tree, Root, f, N)) \subseteq Doubled(tree) \cup DOMAIN f
      BY <2>3, <3>1, <3>3, SproutFacts
    <3> QED BY <2>1, <2>2, <2>3, <2>5, <3>1, <3>2, <3>4
  <2> QED BY <2>4, <2>5
<1> QED BY <1>1, <1>2

LEMMA AnswerSteps ==
  IInv /\ (AnswerInduce \/ AnswerClassify \/ AnswerGrow \/ AnswerBranch \/ FailRequest) => IInv'
<1> SUFFICES ASSUME IInv
             PROVE  AnswerInduce \/ AnswerClassify \/ AnswerGrow \/ AnswerBranch \/ FailRequest
                      => IInv'
  OBVIOUS
<1>1. /\ listed \subseteq Arguments /\ suspect \subseteq Arguments
      /\ tree # NoTree => tree \in Shapes /\ IsTree(tree) /\ Doubled(tree) \subseteq suspect
  BY TypeFacts DEF IInv, TreesOK, PanelInv, DoublesAccounted
<1>2. ASSUME AnswerClassify \/ AnswerGrow PROVE IInv'
  <2>1. UNCHANGED <<listed, suspect, failures>> /\ Answered
    BY <1>2 DEF AnswerClassify, AnswerGrow
  <2>2. CASE UNCHANGED <<tree, dirty>>
    BY <1>1, <2>1, <2>2, QuietAnswer
  <2>3. CASE Put(tree)
    BY <1>1, <2>1, <2>3, AnswerPut
  <2>4. ASSUME NEW t \in Shapes, tree # NoTree, Put(t), IsTree(t), Doubled(t) \subseteq Doubled(tree)
        PROVE  IInv'
    BY <1>1, <2>1, <2>4, AnswerPut
  <2> QED BY <1>2, <2>2, <2>3, <2>4, ClassifyPuts, GrowPuts
<1>3. ASSUME AnswerBranch PROVE IInv'
  <2>1. UNCHANGED failures /\ Answered
    BY <1>3 DEF AnswerBranch
  <2>2. CASE UNCHANGED panel
    BY <1>1, <2>1, <2>2, QuietAnswer DEF panel
  <2>3. CASE tree = NoTree /\ Put(tree) /\ listed' \subseteq listed /\ suspect' \subseteq Arguments
    BY <1>1, <2>1, <2>3, AnswerPut
  <2>4. ASSUME NEW t \in Shapes, Put(t), IsTree(t), Doubled(t) \subseteq suspect',
               suspect' \subseteq Arguments, listed' \subseteq listed
        PROVE  IInv'
    BY <1>1, <2>1, <2>4, AnswerPut
  <2> QED BY <1>3, <2>2, <2>3, <2>4, BranchPuts
<1>4. ASSUME FailRequest PROVE IInv'
  BY <1>1, <1>4, QuietAnswer DEF FailRequest, panel
<1> QED BY <1>2, <1>3, <1>4, InduceStep

-----------------------------------------------------------------------------
\* The tree that was saved is clean: what the last record shows is what it shows.
LEMMA SavedIsPublished ==
  ASSUME IInv, request.kind \in {"save", "record"}, tree' = tree, suspect' = suspect,
         records' = records, live' = live,
         \/ request.sent.nodes = {}
         \/ \E i \in 1..Len(records) : records[i] = Flatten(request.sent)
  PROVE  DoublesAccounted' /\ CleanIsPublished'
<1>1. DoublesAccounted'
  BY DEF IInv, PanelInv, DoublesAccounted
<1>2. CASE request.replaced
  <2>1. ~dirty
    BY <1>2 DEF IInv, ReplacedIsClean
  <2> QED BY <1>1, <2>1 DEF IInv, PanelInv, CleanIsPublished
<1>3. CASE ~request.replaced
  <2>1. tree = request.sent
    BY <1>3 DEF IInv, SentIsCurrent
  <2>2. live \in SUBSET Arguments /\ Arguments \in SUBSET Arguments
    BY TypeFacts DEF IInv
  <2> QED BY <1>1, <2>1, <2>2 DEF CleanIsPublished
<1> QED BY <1>2, <1>3

LEMMA PersistSteps == IInv /\ (SaveNothing \/ Publish \/ RecordVersion \/ StopWaiting) => IInv'
<1> SUFFICES ASSUME IInv PROVE SaveNothing \/ Publish \/ RecordVersion \/ StopWaiting => IInv'
  OBVIOUS
<1>1. /\ listed \subseteq Arguments /\ suspect \subseteq Arguments
      /\ opening \in {"tree", "list", "done"} /\ Len(records) \in Nat /\ version \in 0..Len(records)
      /\ tree # NoTree => tree \in Shapes /\ IsTree(tree)
  BY TypeFacts DEF IInv, TypeOK, TreesOK
<1>2. ASSUME SaveNothing PROVE IInv'
  <2>1. /\ request.kind = "save" /\ dirty' = FALSE /\ UNCHANGED <<tree, listed, suspect, failures>>
        /\ request' = Idle /\ UNCHANGED <<opening, repo, readmodel>>
        /\ request.sent.nodes = {} \/ SameAsLast(request.sent)
    BY <1>2 DEF SaveNothing, Clean, Answered
  <2>2. DoublesAccounted' /\ CleanIsPublished'
    <3>1. request.sent.nodes = {} \/ \E i \in 1..Len(records) : records[i] = Flatten(request.sent)
      BY <1>1, <2>1 DEF SameAsLast
    <3> QED BY <2>1, <3>1, SavedIsPublished DEF repo, readmodel
  <2>3. TypeOK'
    BY <1>1, <2>1, IdleIsIdle, PanelTypes DEF IInv
  <2>4. RecordsAreFlat' /\ ShownIsARecord' /\ NewestIsShown'
    BY <2>1, SameRecords
  <2>5. SentIsCurrent' /\ RecordIsSent' /\ ReplacedIsClean'
    BY <2>1, IdleIsIdle DEF SentIsCurrent, RecordIsSent, ReplacedIsClean
  <2> QED BY <2>2, <2>3, <2>4, <2>5 DEF IInv, PanelInv
<1>3. ASSUME Publish PROVE IInv'
  <2>1. /\ request.kind = "save" /\ records' = Append(records, Flatten(request.sent))
        /\ request' = [request EXCEPT !.kind = "record"]
        /\ UNCHANGED <<panel, opening, version, readmodel, failures>>
    BY <1>3 DEF Publish
  <2>2. request.sent \in Shapes /\ IsTree(request.sent)
        /\ (~request.replaced => tree = request.sent)
    BY <2>1 DEF IInv, SentIsCurrent
  <2>3. /\ Flatten(request.sent) \in Shapes /\ IsTree(Flatten(request.sent))
        /\ Flatten(request.sent).at[Root] = {} /\ Flatten(request.sent).worded = FALSE
    BY <2>2, FlattenFacts
  <2>4. /\ request' \in Requests /\ request'.kind = "record" /\ request'.sent = request.sent
        /\ request'.replaced = request.replaced
    BY <2>1, TypeFacts DEF IInv, Requests, Kinds
  <2>5. /\ records' \in Seq(Shapes) /\ Len(records') = Len(records) + 1
        /\ records'[Len(records')] = Flatten(request.sent)
        /\ \A i \in 1..Len(records) : records'[i] = records[i]
    BY <1>1, <2>1, <2>3, TypeFacts DEF IInv
  <2>6. UNCHANGED <<tree, dirty, listed, suspect, opening, version, handled, shown, live, failures>>
    BY <2>1 DEF panel, readmodel
  <2>7. TypeOK'
    <3>1. version' \in 0..Len(records') /\ handled' \in 0..Len(records')
      BY <1>1, <2>5, <2>6, TypeFacts DEF IInv
    <3> QED BY <2>4, <2>5, <2>6, <3>1 DEF IInv, TypeOK, Requests
  <2>8. SentIsCurrent' /\ ReplacedIsClean' /\ RecordIsSent'
    BY <1>1, <2>2, <2>4, <2>5, <2>6 DEF IInv, SentIsCurrent, ReplacedIsClean, RecordIsSent
  <2>9. RecordsAreFlat'
    BY <1>1, <2>3, <2>5 DEF IInv, RecordsAreFlat
  <2>10. ShownIsARecord' /\ NewestIsShown'
    BY <1>1, <2>5, <2>6, TypeFacts DEF IInv, ShownIsARecord, NewestIsShown
  <2>11. DoublesAccounted' /\ CleanIsPublished'
    BY <1>1, <2>5, <2>6 DEF IInv, PanelInv, DoublesAccounted, CleanIsPublished
  <2> QED BY <2>7, <2>8, <2>9, <2>10, <2>11 DEF IInv, PanelInv
<1>4. ASSUME RecordVersion PROVE IInv'
  <2>1. /\ request.kind = "record" /\ dirty' = FALSE
        /\ UNCHANGED <<tree, listed, suspect, failures>>
        /\ version' = Len(records) /\ request' = [Idle EXCEPT !.kind = "wait"]
        /\ UNCHANGED <<opening, records, readmodel>>
    BY <1>4 DEF RecordVersion, Clean
  <2>2. request' \in Requests /\ request'.kind = "wait" /\ request'.replaced = FALSE
    BY <2>1 DEF Idle, Requests, Kinds
  <2>3. DoublesAccounted' /\ CleanIsPublished'
    <3>1. \E i \in 1..Len(records) : records[i] = Flatten(request.sent)
      BY <1>1, <2>1 DEF IInv, RecordIsSent
    <3> QED BY <2>1, <3>1, SavedIsPublished DEF readmodel
  <2>4. TypeOK'
    <3>1. version' \in 0..Len(records') /\ records' = records /\ UNCHANGED <<handled, shown, live>>
      BY <1>1, <2>1 DEF readmodel
    <3>2. dirty' \in BOOLEAN
      BY <2>1
    <3> QED BY <2>1, <2>2, <3>1, <3>2 DEF IInv, TypeOK, Requests
  <2>5. RecordsAreFlat' /\ ShownIsARecord' /\ NewestIsShown'
    BY <2>1 DEF IInv, RecordsAreFlat, ShownIsARecord, NewestIsShown, readmodel
  <2>6. SentIsCurrent' /\ RecordIsSent' /\ ReplacedIsClean'
    BY <2>2 DEF SentIsCurrent, RecordIsSent, ReplacedIsClean
  <2> QED BY <2>3, <2>4, <2>5, <2>6 DEF IInv, PanelInv
<1>5. ASSUME StopWaiting PROVE IInv'
  <2>1. /\ request' = [Idle EXCEPT !.kind = "tree"]
        /\ UNCHANGED <<panel, opening, repo, readmodel, failures>>
    BY <1>5 DEF StopWaiting
  <2>2. request' \in Requests /\ request'.kind = "tree" /\ request'.replaced = FALSE
    BY <2>1 DEF Idle, Requests, Kinds
  <2>3. SentIsCurrent' /\ RecordIsSent' /\ ReplacedIsClean'
    BY <2>2 DEF SentIsCurrent, RecordIsSent, ReplacedIsClean
  <2>4. UNCHANGED <<tree, dirty, suspect, listed>> /\ opening' \in {"tree", "list", "done"}
    BY <1>1, <2>1 DEF panel
  <2> QED BY <1>1, <2>1, <2>2, <2>3, <2>4, RequestKeeps
<1> QED BY <1>2, <1>3, <1>4, <1>5

-----------------------------------------------------------------------------
\* The panel does not notice the indexer, nor that an argument is deleted.
LEMMA IndexerKeepsPanel ==
  ASSUME IInv, IndexerSteps, live' \subseteq live
  PROVE  SentIsCurrent' /\ ReplacedIsClean' /\ RecordsAreFlat' /\ RecordIsSent' /\ PanelInv'
BY DEF IndexerSteps, panel, repo, IInv, SentIsCurrent, ReplacedIsClean, RecordsAreFlat,
   RecordIsSent, PanelInv, DoublesAccounted, CleanIsPublished

LEMMA IndexerTypes ==
  ASSUME IInv, IndexerSteps, live' \subseteq live, handled' \in 0..Len(records),
         shown' # NoTree => shown' \in Shapes /\ IsTree(shown'),
         UNCHANGED failures \/ Fails
  PROVE  TypeOK'
<1>1. failures' \in 0..MaxFailures
  BY TaxonomyAssumption DEF IInv, TypeOK, Fails
<1> QED BY <1>1, TypeFacts DEF IInv, IndexerSteps, panel, repo, TypeOK, TreesOK, Requests

LEMMA ProjectStep ==
  ASSUME IInv, ProjectSnapshot
  PROVE  IInv'
<1> DEFINE h == handled + 1
           s == records[h]
<1>1. /\ handled < Len(records) /\ handled' = h
      /\ shown' = IF Clash(s, live) THEN shown ELSE Project(Stored, s, live)
      /\ UNCHANGED <<live, failures>> /\ IndexerSteps /\ records' = records
  BY DEF ProjectSnapshot, IndexerSteps, repo
<1>2. h \in 1..Len(records) /\ handled \in Nat /\ h > 0
  BY <1>1, TypeFacts DEF IInv
<1>3. s \in Shapes /\ IsTree(s) /\ s.at[Root] = {} /\ s.worded = FALSE
  BY <1>2, TypeFacts DEF IInv, RecordsAreFlat
<1>4. Stored \in Shapes /\ IsTree(Stored) /\ Stored.worded = FALSE
  BY ShownIsClean, EmptyIsTree DEF Stored, EmptyTree
<1>5. live \in SUBSET Arguments
  BY TypeFacts DEF IInv
<1>6. ~Clash(s, live) => shown' = Visible(s, live) /\ Doubled(shown') = {}
  <2> SUFFICES ASSUME ~Clash(s, live)
               PROVE  shown' = Visible(s, live) /\ Doubled(shown') = {}
    OBVIOUS
  <2>1. shown' = Visible(s, live)
    BY <1>1, <1>3, <1>4, <1>5, ProjectShows
  <2>2. Doubled(shown') \subseteq Doubled(s) \cap live
    BY <1>3, <1>5, <2>1, VisibleFacts
  <2> QED BY <2>1, <2>2 DEF Clash
<1>7. shown' # NoTree => shown' \in Shapes /\ IsTree(shown')
  BY <1>1, <1>3, <1>5, <1>6, TypeFacts, VisibleFacts DEF IInv, TreesOK
<1>8. TypeOK'
  BY <1>1, <1>2, <1>7, IndexerTypes
<1>9. ShownIsARecord'
  <2>1. CASE Clash(s, live)
    BY <1>1, <2>1 DEF IInv, ShownIsARecord
  <2>2. CASE ~Clash(s, live)
    BY <1>1, <1>2, <1>6, <2>2 DEF ShownIsARecord
  <2> QED BY <2>1, <2>2
<1>10. NewestIsShown'
  BY <1>1, <1>6 DEF NewestIsShown, Clash
<1> QED BY <1>1, <1>8, <1>9, <1>10, IndexerKeepsPanel DEF IInv

LEMMA FailProjectionStep ==
  ASSUME IInv, FailProjection
  PROVE  IInv'
<1>1. /\ handled < Len(records) /\ handled' = handled + 1 /\ failures' = failures + 1
      /\ UNCHANGED <<shown, live>> /\ IndexerSteps /\ records' = records /\ Fails
  BY DEF FailProjection, Fails, IndexerSteps, repo
<1>2. handled' \in 0..Len(records) /\ failures' > 0
  BY <1>1, TypeFacts DEF IInv
<1>3. TypeOK'
  BY <1>1, <1>2, IndexerTypes, TypeFacts DEF IInv, TreesOK
<1>4. ShownIsARecord' /\ NewestIsShown'
  BY <1>1, <1>2 DEF IInv, ShownIsARecord, NewestIsShown
<1> QED BY <1>1, <1>3, <1>4, IndexerKeepsPanel DEF IInv

LEMMA DeleteStep ==
  ASSUME IInv, NEW a \in Arguments, DeleteArgument(a)
  PROVE  IInv'
<1>1. /\ live' = live \ {a}
      /\ shown' = IF shown = NoTree THEN NoTree ELSE Visible(shown, live')
      /\ UNCHANGED <<handled, failures>> /\ IndexerSteps /\ records' = records
  BY DEF DeleteArgument, IndexerSteps, repo
<1>2. live \in SUBSET Arguments /\ live' \in SUBSET live /\ live' \in SUBSET Arguments
  BY <1>1, TypeFacts DEF IInv
<1>3. ASSUME NEW i \in 1..Len(records), shown = Visible(records[i], live)
      PROVE  shown' = Visible(records[i], live')
  <2>1. records[i] \in Shapes /\ IsTree(records[i])
    BY TypeFacts DEF IInv, RecordsAreFlat
  <2>2. shown # NoTree
    BY <1>2, <1>3, <2>1, VisibleFacts, ShapeIsNoNoTree
  <2> QED BY <1>1, <1>2, <1>3, <2>1, <2>2, VisibleFacts
<1>4. shown' # NoTree => shown # NoTree /\ shown' \in Shapes /\ IsTree(shown') /\ Doubled(shown') = {}
  BY <1>1, <1>2, ShownIsClean, VisibleFacts
<1>5. TypeOK'
  BY <1>1, <1>2, <1>4, IndexerTypes, TypeFacts DEF IInv
<1>6. ShownIsARecord'
  BY <1>1, <1>3, <1>4 DEF IInv, ShownIsARecord
<1>7. NewestIsShown'
  <2> SUFFICES ASSUME failures = 0, handled > 0, Doubled(records[handled]) = {}
               PROVE  shown' = Visible(records[handled], live')
    BY <1>1 DEF NewestIsShown
  <2>1. handled \in 1..Len(records)
    BY TypeFacts DEF IInv
  <2>2. shown = Visible(records[handled], live)
    BY DEF IInv, NewestIsShown
  <2> QED BY <1>3, <2>1, <2>2
<1> QED BY <1>1, <1>2, <1>5, <1>6, <1>7, IndexerKeepsPanel DEF IInv

LEMMA StepIInv == IInv /\ [Next]_vars => IInv'
<1> SUFFICES ASSUME IInv, [Next]_vars PROVE IInv'
  OBVIOUS
<1>1. CASE Panel
  BY <1>1, OpenSteps, ManualSteps DEF Panel
<1>2. CASE Calculator
  BY <1>2, AskAnySteps, AnswerSteps DEF Calculator
<1>3. CASE Persisting
  BY <1>3, AskAnySteps, PersistSteps DEF Persisting
<1>4. CASE Indexing
  BY <1>4, ProjectStep, FailProjectionStep, DeleteStep DEF Indexing
<1>5. CASE UNCHANGED vars
  <2>1. UNCHANGED <<tree, dirty, listed, suspect, opening, request, records, version, handled,
                    shown, live, failures>>
    BY <1>5 DEF vars, panel, repo, readmodel
  <2>2. TypeOK' /\ SentIsCurrent' /\ ReplacedIsClean'
    BY <2>1 DEF IInv, TypeOK, SentIsCurrent, ReplacedIsClean
  <2>3. RecordsAreFlat' /\ RecordIsSent' /\ ShownIsARecord' /\ NewestIsShown' /\ PanelInv'
    BY <2>1 DEF IInv, RecordsAreFlat, RecordIsSent, ShownIsARecord, NewestIsShown, PanelInv,
       DoublesAccounted, CleanIsPublished
  <2> QED BY <2>2, <2>3 DEF IInv
<1> QED BY <1>1, <1>2, <1>3, <1>4, <1>5 DEF Next

-----------------------------------------------------------------------------
(***************************************************************************)
(* The theorems.                                                           *)
(***************************************************************************)
THEOREM IInvHolds == Spec => []IInv
BY InitIInv, StepIInv, PTL DEF Spec

\* Every tree in the panel and in the tables is one: the recursions of TaxonomyPanel.tsx
\* and of the projection end and reach every topic, whatever was moved or proposed.
THEOREM TreesStayTrees == Spec => []TypeOK
BY IInvHolds, PTL DEF IInv

\* An argument on two nodes was put there from the list of TaxonomyPanel.tsx, came so in a
\* file or belongs to topics of one name; indenting, splitting and classifying double none.
THEOREM DoublesAreAccounted == Spec => []DoublesAccounted
BY IInvHolds, PTL DEF IInv, PanelInv

\* When the panel says it is persisted, what it shows is a published snapshot, even when the
\* first load replaced the tree during a save.
THEOREM CleanMeansPublished == Spec => []CleanIsPublished
BY IInvHolds, PTL DEF IInv, PanelInv

\* The passes of the projection end with the newest snapshot, whatever the tables held.
THEOREM PublishedIsShown == Spec => []ShownIsPublished
<1>1. IInv => ShownIsPublished
  <2> SUFFICES ASSUME IInv, failures = 0, handled = Len(records), handled > 0,
                      Doubled(Last(records)) = {}
               PROVE  shown = Visible(Last(records), live)
    BY DEF ShownIsPublished
  <2> QED BY DEF IInv, NewestIsShown, Last
<1> QED BY <1>1, IInvHolds, PTL

\* No edit and no proposal loses an argument of the panel's tree.
THEOREM NothingIsDropped == Spec => NothingFallsOut
<1>1. IInv /\ [Next]_vars => [(tree # NoTree /\ ~Replaces) => Placed(tree) \subseteq Placed(tree')]_vars
  <2> SUFFICES ASSUME IInv, Next, tree # NoTree, ~Replaces
               PROVE  Placed(tree) \subseteq Placed(tree')
    OBVIOUS
  <2>1. CASE Edit \/ \E n \in Topics : Indent(n) \/ Outdent(n)
    BY <2>1, EditPuts DEF Put
  <2>2. ASSUME NEW n \in Topics, NEW a \in Arguments, HangFromList(a, n)
        PROVE  Placed(tree) \subseteq Placed(tree')
    BY <2>2, HangPuts DEF Put
  <2>3. CASE AnswerClassify \/ AnswerGrow
    BY <2>3, ClassifyPuts, GrowPuts DEF Put
  <2>4. CASE AnswerBranch
    BY <2>4, BranchPuts DEF Put, panel
  <2>5. CASE OpenList \/ ReloadList \/ AskCalculator \/ FailRequest
    BY <2>5 DEF OpenList, ReloadList, FetchList, AskCalculator, Ask, FailRequest, panel
  <2>6. CASE Persisting
    BY <2>6 DEF Persisting, AskReload, Save, Ask, SaveNothing, Clean, Publish, RecordVersion,
       StopWaiting, panel
  <2>7. CASE Indexing
    BY <2>7 DEF Indexing, ProjectSnapshot, FailProjection, DeleteArgument, IndexerSteps, panel
  <2> QED BY <2>1, <2>2, <2>3, <2>4, <2>5, <2>6, <2>7 DEF Next, Panel, Calculator, Replaces
<1> QED BY <1>1, IInvHolds, PTL DEF Spec, NothingFallsOut
=============================================================================
