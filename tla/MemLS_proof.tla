---------------------------- MODULE MemLS_proof ----------------------------
(***************************************************************************)
(* The lock tree of memLS is consistent, no two locks conflict, and memLS  *)
(* implements the lock table, for every set of names and timeouts.         *)
(***************************************************************************)
EXTENDS MemLS, FiniteSetTheorems, TLAPS

-----------------------------------------------------------------------------
(* Two locks on the way to one name (LockNames).                            *)

\* Of two names on the way from x to the root, one is on the other's way.
LEMMA WalkChain ==
  ASSUME NEW x \in Name, NEW y \in Walk(x), NEW z \in Walk(x)
  PROVE  y \in Walk(z) \/ z \in Walk(y)
  <1>1. x \in Seq(Component)
    BY NameAssumption
  <1>2. PICK i \in 0..Len(x) : y = SubSeq(x, 1, i)
    BY DEF Walk
  <1>3. PICK j \in 0..Len(x) : z = SubSeq(x, 1, j)
    BY DEF Walk
  <1>4. ASSUME NEW a \in 0..Len(x), NEW b \in 0..Len(x), a <= b
        PROVE  SubSeq(x, 1, a) \in Walk(SubSeq(x, 1, b))
    <2>1. Len(SubSeq(x, 1, b)) = b /\ SubSeq(x, 1, b) \in Seq(Component)
      BY <1>1, <1>4
    <2>2. SubSeq(SubSeq(x, 1, b), 1, a) = SubSeq(x, 1, a)
      BY <1>1, <1>4, <2>1
    <2>3. a \in 0..Len(SubSeq(x, 1, b))
      BY <1>4, <2>1
    <2>4. QED
      BY <2>2, <2>3 DEF Walk
  <1>5. i <= j \/ j <= i
    OBVIOUS
  <1>6. QED
    BY <1>2, <1>3, <1>4, <1>5

\* Two locks that protect the same name may not exist together.
LEMMA CoversMeet ==
  ASSUME NEW l, NEW k, NEW x \in Name, Covers(l, x), Covers(k, x)
  PROVE  Conflict(l, k)
  <1>1. CASE x = l.root \/ x = k.root
    BY <1>1 DEF Conflict
  <1>2. CASE x # l.root /\ x # k.root
    <2>1. l.root \in Walk(x) /\ k.root \in Walk(x) /\ ~l.zeroDepth /\ ~k.zeroDepth
      BY <1>2 DEF Covers
    <2>2. l.root \in Walk(k.root) \/ k.root \in Walk(l.root)
      BY <2>1, WalkChain
    <2>3. QED
      BY <2>1, <2>2 DEF Conflict, Covers
  <1>3. QED
    BY <1>1, <1>2

(***************************************************************************)
(* The invariant, for any value of the variables, so that it can be stated *)
(* of the tree between the steps of one method. B is a tree, T its tokens, *)
(* g the last token and C the claims.                                      *)
(***************************************************************************)
Below(B, x) == {y \in DOMAIN B : B[y].token # NoToken /\ x \in Walk(y)}

Shape(B, T, g) ==
  /\ DOMAIN B \subseteq Name
  /\ B \in [DOMAIN B -> Node]
  /\ DOMAIN T \subseteq 1..g
  /\ T \in [DOMAIN T -> DOMAIN B]
Linked(B, T) ==
  /\ \A t \in DOMAIN T : B[T[t]].token = t
  /\ \A x \in DOMAIN B : B[x].token # NoToken => B[x].token \in DOMAIN T /\ T[B[x].token] = x
Rooted(B) == \A y \in DOMAIN B : B[y].token # NoToken => Walk(y) \subseteq DOMAIN B
Counted(B) ==
  \A x \in DOMAIN B : B[x].refCount = Cardinality(Below(B, x)) /\ Below(B, x) # {}
Tree(B, T, g) == Shape(B, T, g) /\ Linked(B, T) /\ Rooted(B) /\ Counted(B)

Queued(B) ==
  \A x \in DOMAIN B :
    B[x].queued <=> B[x].token # NoToken /\ B[x].finite /\ ~B[x].held
HeldFor(B, C) == \A x \in DOMAIN B : B[x].held <=> B[x].token \in UNION C
Disjoint(C) == \A c, d \in C : c # d => c \cap d = {}
Clear(B, T) ==
  \A t, u \in DOMAIN T : t # u => ~Conflict(LockAt(B, T[t]), LockAt(B, T[u]))

Good(B, T, g, C) ==
  /\ Tree(B, T, g) /\ Queued(B) /\ HeldFor(B, C) /\ Clear(B, T)
  /\ C \subseteq SUBSET DOMAIN T /\ Disjoint(C)

\* Every name is on its own way to the root.
LEMMA SelfWalk ==
  ASSUME NEW x \in Name
  PROVE  x \in Walk(x) /\ Walk(x) \subseteq Name
  <1>1. x \in Seq(Component) /\ Walk(x) \subseteq Name
    BY NameAssumption
  <1>2. SubSeq(x, 1, Len(x)) = x /\ Len(x) \in 0..Len(x)
    BY <1>1
  <1>3. QED
    BY <1>1, <1>2 DEF Walk

\* Only finitely many names are locked: each has a token of its own.
LEMMA BelowFinite ==
  ASSUME NEW B, NEW T, NEW g \in Nat, Shape(B, T, g), Linked(B, T), NEW x
  PROVE  IsFiniteSet(Below(B, x)) /\ Cardinality(Below(B, x)) \in Nat
  <1> DEFINE f == [y \in Below(B, x) |-> B[y].token]
  <1>1. f \in Injection(Below(B, x), 1..g)
    <2>1. \A y \in Below(B, x) : B[y].token \in 1..g /\ T[B[y].token] = y
      BY DEF Below, Shape, Linked
    <2>2. QED
      BY <2>1 DEF Injection, IsInjective
  <1>2. IsFiniteSet(1..g)
    BY FS_Interval
  <1>3. IsFiniteSet(Below(B, x))
    BY <1>1, <1>2, FS_Injection
  <1>4. QED
    BY <1>3, FS_CardinalityType

(***************************************************************************)
(* remove.                                                                 *)
(***************************************************************************)
Untouched(B, T, B1, T1) ==
  /\ DOMAIN T1 \subseteq DOMAIN T
  /\ \A t \in DOMAIN T1 :
       /\ T1[t] = T[t]
       /\ T[t] \in DOMAIN B /\ T[t] \in DOMAIN B1
       /\ LockAt(B1, T[t]) = LockAt(B, T[t])
       /\ B1[T[t]].held = B[T[t]].held

\* remove leaves exactly the nodes that still have a lock at or below them,
\* with the count of those.
LEMMA RemovedBelow ==
  ASSUME NEW B, NEW T, NEW g \in Nat, Tree(B, T, g),
         NEW G \in SUBSET DOMAIN B, \A x \in G : B[x].token # NoToken
  PROVE  /\ DOMAIN Removed(B, G) = {x \in DOMAIN B : Below(B, x) \ G # {}}
         /\ \A x \in DOMAIN Removed(B, G) :
              /\ Below(Removed(B, G), x) = Below(B, x) \ G
              /\ Removed(B, G)[x].refCount = Cardinality(Below(B, x) \ G)
  <1> DEFINE S(x) == {h \in G : x \in Walk(h)}
             R == Removed(B, G)
  <1>1. ASSUME NEW x \in DOMAIN B
        PROVE  /\ S(x) = Below(B, x) \cap G
               /\ IsFiniteSet(Below(B, x) \ G)
               /\ Cardinality(S(x)) \in Nat
               /\ B[x].refCount - Cardinality(S(x)) = Cardinality(Below(B, x) \ G)
               /\ B[x].refCount > Cardinality(S(x)) <=> Below(B, x) \ G # {}
    <2>1. S(x) = Below(B, x) \cap G
      BY DEF Below
    <2>2. IsFiniteSet(Below(B, x)) /\ Cardinality(Below(B, x)) \in Nat
      BY BelowFinite DEF Tree
    <2>3. IsFiniteSet(Below(B, x) \ G) /\ IsFiniteSet(Below(B, x) \cap G)
      BY <2>2, FS_Difference, FS_Intersection
    <2>4. Cardinality(Below(B, x) \ G) = Cardinality(Below(B, x)) - Cardinality(Below(B, x) \cap G)
      BY <2>2, FS_Difference
    <2>5. Cardinality(Below(B, x) \ G) \in Nat /\ Cardinality(Below(B, x) \cap G) \in Nat
      BY <2>3, FS_CardinalityType
    <2>6. Cardinality(Below(B, x) \ G) = 0 <=> Below(B, x) \ G = {}
      BY <2>3, FS_EmptySet
    <2>7. B[x].refCount = Cardinality(Below(B, x))
      BY DEF Tree, Counted
    <2>8. Cardinality(S(x)) = Cardinality(Below(B, x) \cap G)
      BY <2>1
    <2> HIDE DEF S
    <2>9. B[x].refCount - Cardinality(S(x)) = Cardinality(Below(B, x) \ G)
      BY <2>2, <2>4, <2>5, <2>7, <2>8
    <2>10. B[x].refCount > Cardinality(S(x)) <=> Cardinality(Below(B, x) \ G) # 0
      BY <2>2, <2>4, <2>5, <2>7, <2>8
    <2>11. QED
      BY <2>1, <2>3, <2>5, <2>6, <2>8, <2>9, <2>10
  <1>2. DOMAIN R = {x \in DOMAIN B : B[x].refCount > Cardinality(S(x))}
    BY DEF Removed
  <1>3. DOMAIN R = {x \in DOMAIN B : Below(B, x) \ G # {}}
    BY <1>1, <1>2
  <1>4. \A x \in DOMAIN R :
          /\ R[x].refCount = B[x].refCount - Cardinality(S(x))
          /\ R[x].token = IF x \in G THEN NoToken ELSE B[x].token
    BY DEF Removed
  <1>5. ASSUME NEW x \in DOMAIN R
        PROVE  Below(R, x) = Below(B, x) \ G
    <2>1. \A y \in DOMAIN B : B[y].token # NoToken /\ y \notin G => y \in DOMAIN R
      <3>1. \A y \in DOMAIN B : B[y].token # NoToken => y \in Below(B, y)
        BY SelfWalk DEF Below, Tree, Shape
      <3>2. QED
        BY <3>1, <1>3
    <2>2. QED
      BY <2>1, <1>3, <1>4 DEF Below
  <1>6. QED
    BY <1>1, <1>3, <1>4, <1>5

\* Nodes whose lock may be removed: nobody holds it.
Removable(B, G) == G \subseteq DOMAIN B /\ \A x \in G : B[x].token # NoToken /\ ~B[x].held

\* Removing locks that nobody holds keeps the invariant and touches no other lock.
LEMMA RemovedGood ==
  ASSUME NEW B, NEW T, NEW g \in Nat, NEW C, Good(B, T, g, C),
         NEW G, Removable(B, G)
  PROVE  /\ Good(Removed(B, G), Forgotten(T, G), g, C)
         /\ Untouched(B, T, Removed(B, G), Forgotten(T, G))
  <1> DEFINE R == Removed(B, G)
             F == Forgotten(T, G)
  <1>1. /\ Shape(B, T, g) /\ Linked(B, T) /\ Rooted(B) /\ Counted(B) /\ Tree(B, T, g)
        /\ G \in SUBSET DOMAIN B /\ \A x \in G : B[x].token # NoToken /\ ~B[x].held
    BY DEF Good, Tree, Removable
  <1>2. /\ DOMAIN R = {x \in DOMAIN B : Below(B, x) \ G # {}}
        /\ \A x \in DOMAIN R : /\ Below(R, x) = Below(B, x) \ G
                               /\ R[x].refCount = Cardinality(Below(B, x) \ G)
    BY <1>1, RemovedBelow
  <1>3. \A x \in DOMAIN R :
          /\ R[x].token = IF x \in G THEN NoToken ELSE B[x].token
          /\ R[x].queued = (B[x].queued /\ x \notin G)
          /\ R[x].held = B[x].held /\ R[x].finite = B[x].finite
          /\ R[x].zeroDepth = B[x].zeroDepth /\ R[x].expiry = B[x].expiry
    BY DEF Removed
  <1>4. \A x \in DOMAIN R : DOMAIN R[x] = {"token", "refCount", "zeroDepth", "finite", "expiry", "held", "queued"}
    BY DEF Removed
  <1>5. /\ DOMAIN F = {t \in DOMAIN T : T[t] \notin G}
        /\ \A t \in DOMAIN F : F[t] = T[t]
        /\ F = [t \in DOMAIN F |-> F[t]]
    BY DEF Forgotten
  <1>6. \A y \in DOMAIN B : B[y].token # NoToken /\ y \notin G => Walk(y) \subseteq DOMAIN R
    <2>1. SUFFICES ASSUME NEW y \in DOMAIN B, B[y].token # NoToken, y \notin G, NEW x \in Walk(y)
                   PROVE  x \in DOMAIN R
      OBVIOUS
    <2>2. x \in DOMAIN B /\ y \in Below(B, x)
      BY <1>1, <2>1 DEF Rooted, Below
    <2>3. QED
      BY <1>2, <2>1, <2>2
  <1>7. \A y \in DOMAIN B : B[y].token # NoToken /\ y \notin G => y \in DOMAIN R
    BY <1>1, <1>6, SelfWalk DEF Shape
  <1>8. \A t \in DOMAIN F : T[t] \in DOMAIN R /\ T[t] \notin G /\ B[T[t]].token = t /\ t # NoToken
    BY <1>1, <1>5, <1>7 DEF Shape, Linked, NoToken
  <1>9. Shape(R, F, g)
    <2>1. DOMAIN R \subseteq Name /\ DOMAIN F \subseteq 1..g
      BY <1>1, <1>2, <1>5 DEF Shape
    <2>2. F \in [DOMAIN F -> DOMAIN R]
      BY <1>5, <1>8
    <2>3. \A x \in DOMAIN R : R[x].refCount \in Nat
      BY <1>1, <1>2, BelowFinite, FS_Difference, FS_CardinalityType
    <2>4. \A x \in DOMAIN R : B[x] \in Node
      BY <1>1, <1>2 DEF Shape
    <2>5. \A x \in DOMAIN R : R[x] \in Node
      <3>1. TAKE x \in DOMAIN R
      <3>2. B[x] \in Node /\ R[x].refCount \in Nat
        BY <2>3, <2>4
      <3>3. R[x] = [token |-> R[x].token, refCount |-> R[x].refCount,
                    zeroDepth |-> R[x].zeroDepth, finite |-> R[x].finite,
                    expiry |-> R[x].expiry, held |-> R[x].held, queued |-> R[x].queued]
        BY DEF Removed
      <3>4. QED
        BY <3>2, <3>3, <1>1, <1>3 DEF Node, NoToken
    <2>6. R = [x \in DOMAIN R |-> R[x]]
      BY DEF Removed
    <2>7. QED
      BY <2>1, <2>2, <2>5, <2>6 DEF Shape
  <1>10. Linked(R, F)
    BY <1>1, <1>2, <1>3, <1>5, <1>8 DEF Linked, NoToken
  <1>11. Rooted(R)
    BY <1>2, <1>3, <1>6 DEF Rooted
  <1>12. Counted(R)
    BY <1>2 DEF Counted
  <1>13. Queued(R)
    BY <1>2, <1>3 DEF Good, Queued
  <1>14. C \subseteq SUBSET DOMAIN F
    <2>1. \A c \in C : \A t \in c : t \in DOMAIN T /\ B[T[t]].held
      BY <1>1 DEF Good, HeldFor, Linked, Shape
    <2>2. QED
      BY <2>1, <1>1, <1>5 DEF Good
  <1>15. HeldFor(R, C)
    <2>1. NoToken \notin UNION C
      BY <1>8, <1>14
    <2>2. QED
      BY <2>1, <1>1, <1>2, <1>3 DEF Good, HeldFor
  <1>16. Untouched(B, T, R, F)
    BY <1>1, <1>3, <1>5, <1>8 DEF Untouched, LockAt, Shape
  <1>17. Clear(R, F)
    BY <1>5, <1>16 DEF Good, Clear, Untouched
  <1>18. QED
    BY <1>2, <1>5, <1>9, <1>10, <1>11, <1>12, <1>13, <1>14, <1>15, <1>16, <1>17 DEF Good, Tree

(***************************************************************************)
(* create.                                                                 *)
(***************************************************************************)
\* What canCreate lets through conflicts with no lock: a lock on the same name
\* or below it has a node there, and one above it is met on the way to the root.
LEMMA CanCreateClear ==
  ASSUME NEW B, NEW T, NEW g \in Nat, Tree(B, T, g),
         NEW name \in Name, NEW l, l.root = name, CanCreate(B, name, l.zeroDepth),
         NEW t \in DOMAIN T
  PROVE  ~Conflict(LockAt(B, T[t]), l)
  <1> DEFINE x == T[t]
             k == LockAt(B, x)
  <1>1. /\ x \in DOMAIN B /\ x \in Name /\ B[x].token # NoToken
        /\ k.root = x /\ k.zeroDepth = B[x].zeroDepth /\ Walk(x) \subseteq DOMAIN B
    BY DEF Tree, Shape, Linked, Rooted, LockAt, NoToken
  <1>2. x \in Walk(x) /\ name \in Walk(name)
    BY <1>1, SelfWalk
  <1>3. \A y \in Walk(name) \cap DOMAIN B :
          IF y = name THEN B[y].token = NoToken /\ l.zeroDepth
                      ELSE B[y].token = NoToken \/ B[y].zeroDepth
    BY DEF CanCreate
  <1>4. x # name
    BY <1>1, <1>2, <1>3
  <1>5. ~Covers(k, name)
    BY <1>1, <1>3, <1>4 DEF Covers
  <1>6. ~Covers(l, x)
    BY <1>1, <1>2, <1>3, <1>4 DEF Covers
  <1>7. QED
    BY <1>1, <1>5, <1>6 DEF Conflict

\* create counts the new name in each of its ancestors and nowhere else.
LEMMA CreatedBelow ==
  ASSUME NEW B, NEW T, NEW g \in Nat, Tree(B, T, g),
         NEW name \in Name, NEW node \in Node, node.token = g + 1,
         name \in DOMAIN B => B[name].token = NoToken
  PROVE  \A x \in DOMAIN Created(B, name, node) :
           /\ Created(B, name, node)[x].refCount = Cardinality(Below(Created(B, name, node), x))
           /\ Below(Created(B, name, node), x) # {}
           /\ Created(B, name, node)[x].refCount \in Nat
  <1> DEFINE R == Created(B, name, node)
  <1> SUFFICES ASSUME NEW x \in DOMAIN R
               PROVE  /\ R[x].refCount = Cardinality(Below(R, x))
                      /\ Below(R, x) # {} /\ R[x].refCount \in Nat
    OBVIOUS
  <1>1. /\ DOMAIN R = DOMAIN B \cup Walk(name) /\ name \in Walk(name)
        /\ \A y \in DOMAIN R :
             /\ R[y].token = IF y = name THEN g + 1 ELSE NodeAt(B, y).token
             /\ R[y].refCount = NodeAt(B, y).refCount + IF y \in Walk(name) THEN 1 ELSE 0
    BY SelfWalk DEF Created
  <1>2. IsFiniteSet(Below(B, x)) /\ Cardinality(Below(B, x)) \in Nat
    BY BelowFinite DEF Tree
  <1>3. NodeAt(B, x).refCount = Cardinality(Below(B, x))
    <2>1. CASE x \in DOMAIN B
      BY <2>1 DEF NodeAt, Tree, Counted
    <2>2. CASE x \notin DOMAIN B
      <3>1. Below(B, x) = {}
        BY <2>2 DEF Below, Tree, Rooted
      <3>2. QED
        BY <2>2, <3>1, FS_EmptySet DEF NodeAt, FreshNode
    <2>3. QED
      BY <2>1, <2>2
  <1>4. Below(R, x) = Below(B, x) \cup (IF x \in Walk(name) THEN {name} ELSE {})
    <2>1. \A y \in DOMAIN R :
            R[y].token # NoToken <=> y = name \/ (y \in DOMAIN B /\ B[y].token # NoToken)
      BY <1>1 DEF NodeAt, FreshNode, NoToken
    <2>2. QED
      BY <1>1, <2>1 DEF Below
  <1>5. name \notin Below(B, x)
    BY DEF Below
  <1>6. CASE x \in Walk(name)
    <2>1. Cardinality(Below(R, x)) = Cardinality(Below(B, x)) + 1
      BY <1>2, <1>4, <1>5, <1>6, FS_AddElement
    <2>2. R[x].refCount = Cardinality(Below(B, x)) + 1
      BY <1>1, <1>3, <1>6
    <2>3. QED
      BY <1>2, <1>4, <1>6, <2>1, <2>2
  <1>7. CASE x \notin Walk(name)
    <2>1. x \in DOMAIN B /\ Below(R, x) = Below(B, x)
      BY <1>1, <1>4, <1>7
    <2>2. R[x].refCount = Cardinality(Below(B, x))
      BY <1>1, <1>2, <1>3, <1>7
    <2>3. QED
      BY <1>2, <2>1, <2>2 DEF Tree, Counted
  <1>8. QED
    BY <1>6, <1>7

\* The node of a new lock on name, and the tokens with it.
Admitted(B, g, name, node) ==
  /\ name \in Name /\ node \in Node /\ node.token = g + 1 /\ ~node.held
  /\ CanCreate(B, name, node.zeroDepth) /\ (node.queued <=> node.finite)
Grown(T, g, name) == [t \in DOMAIN T \cup {g + 1} |-> IF t = g + 1 THEN name ELSE T[t]]

\* The other locks stay as they are, and the new one is the node's.
Added(B, T, g, name, node) ==
  /\ DOMAIN Grown(T, g, name) = DOMAIN T \cup {g + 1} /\ Grown(T, g, name)[g + 1] = name
  /\ \A t \in DOMAIN T :
       /\ t # g + 1 /\ Grown(T, g, name)[t] = T[t]
       /\ LockAt(Created(B, name, node), T[t]) = LockAt(B, T[t])
  /\ LockAt(Created(B, name, node), name) =
       [root |-> name, zeroDepth |-> node.zeroDepth,
        deadline |-> IF node.finite THEN node.expiry ELSE Never]

\* A lock that canCreate lets through keeps the invariant.
LEMMA CreatedGood ==
  ASSUME NEW B, NEW T, NEW g \in Nat, NEW C, Good(B, T, g, C),
         NEW name, NEW node, Admitted(B, g, name, node)
  PROVE  Good(Created(B, name, node), Grown(T, g, name), g + 1, C) /\ Added(B, T, g, name, node)
  <1> DEFINE R == Created(B, name, node)
             T1 == Grown(T, g, name)
  <1>1. Shape(B, T, g) /\ Linked(B, T) /\ Rooted(B) /\ Counted(B) /\ Tree(B, T, g)
    BY DEF Good, Tree
  <1>0. /\ name \in Name /\ node \in Node /\ node.token = g + 1 /\ ~node.held
        /\ CanCreate(B, name, node.zeroDepth) /\ (node.queued <=> node.finite)
    BY DEF Admitted
  <1>2. name \in Walk(name) /\ Walk(name) \subseteq Name
    BY <1>0, SelfWalk
  <1>3. name \in DOMAIN B => B[name].token = NoToken
    BY <1>0, <1>2 DEF CanCreate
  <1>4. DOMAIN R = DOMAIN B \cup Walk(name) /\ name \in DOMAIN R
    BY <1>2 DEF Created
  <1>4a. \A x \in DOMAIN R : x # name =>
           /\ R[x].token = NodeAt(B, x).token /\ R[x].zeroDepth = NodeAt(B, x).zeroDepth
           /\ R[x].finite = NodeAt(B, x).finite /\ R[x].expiry = NodeAt(B, x).expiry
           /\ R[x].held = NodeAt(B, x).held /\ R[x].queued = NodeAt(B, x).queued
    BY DEF Created
  <1>4b. /\ R[name].token = g + 1 /\ R[name].zeroDepth = node.zeroDepth
         /\ R[name].finite = node.finite /\ R[name].expiry = node.expiry
         /\ R[name].held = node.held /\ R[name].queued = node.queued
    BY <1>0, <1>4 DEF Created
  <1>4c. /\ R = [x \in DOMAIN R |-> R[x]]
         /\ \A x \in DOMAIN R :
              R[x] = [token |-> R[x].token, refCount |-> R[x].refCount,
                      zeroDepth |-> R[x].zeroDepth, finite |-> R[x].finite,
                      expiry |-> R[x].expiry, held |-> R[x].held, queued |-> R[x].queued]
    BY DEF Created
  <1>5. \A x \in DOMAIN B : B[x] \in Node /\ NodeAt(B, x) = B[x]
    BY <1>1 DEF Shape, NodeAt
  <1>6. FreshNode \in Node /\ \A x \in DOMAIN R \ DOMAIN B : NodeAt(B, x) = FreshNode
    BY DEF NodeAt, FreshNode, Node, NoToken
  <1>7. \A x \in DOMAIN R : R[x].refCount \in Nat /\ R[x].refCount = Cardinality(Below(R, x)) /\ Below(R, x) # {}
    BY <1>0, <1>1, <1>3, CreatedBelow
  <1> HIDE DEF R
  <1>8. \A t \in DOMAIN T : t # g + 1 /\ t # NoToken /\ t \in Nat /\ T[t] # name /\ T[t] \in DOMAIN B
    BY <1>1, <1>3 DEF Shape, Linked, NoToken
  <1>9. /\ DOMAIN T1 = DOMAIN T \cup {g + 1} /\ T1[g + 1] = name
        /\ \A t \in DOMAIN T : T1[t] = T[t]
        /\ T1 = [t \in DOMAIN T1 |-> T1[t]]
    BY <1>8 DEF Grown
  <1> HIDE DEF T1
  <1>10. \A x \in DOMAIN R \ {name} : R[x].token # NoToken =>
           x \in DOMAIN B /\ R[x].token = B[x].token /\ B[x].token # NoToken
    BY <1>4, <1>4a, <1>4b, <1>5, <1>6 DEF FreshNode, NoToken
  <1>11. Shape(R, T1, g + 1)
    <2>1. DOMAIN R \subseteq Name
      BY <1>1, <1>2, <1>4, <1>4a, <1>4b DEF Shape
    <2>2. \A x \in DOMAIN R : R[x] \in Node
      <3>1. TAKE x \in DOMAIN R
      <3>2. NodeAt(B, x) \in Node
        BY <1>5, <1>6
      <3>3. QED
        BY <1>0, <1>4a, <1>4b, <1>4c, <1>7, <3>2 DEF Node
    <2>3. DOMAIN T1 \subseteq 1..(g + 1)
      BY <1>1, <1>9 DEF Shape
    <2>4. T1 \in [DOMAIN T1 -> DOMAIN R]
      BY <1>4, <1>4a, <1>4b, <1>8, <1>9
    <2>5. QED
      BY <1>4c, <2>1, <2>2, <2>3, <2>4 DEF Shape
  <1>12. Linked(R, T1)
    <2>1. \A t \in DOMAIN T1 : R[T1[t]].token = t
      BY <1>1, <1>4, <1>4a, <1>4b, <1>5, <1>8, <1>9 DEF Linked
    <2>2. \A x \in DOMAIN R : R[x].token # NoToken => R[x].token \in DOMAIN T1 /\ T1[R[x].token] = x
      BY <1>1, <1>4, <1>4a, <1>4b, <1>9, <1>10 DEF Linked
    <2>3. QED
      BY <2>1, <2>2 DEF Linked
  <1>13. Rooted(R)
    BY <1>1, <1>4, <1>4a, <1>4b, <1>10 DEF Rooted
  <1>14. Counted(R)
    BY <1>7 DEF Counted
  <1>15. Queued(R)
    <2>1. \A x \in DOMAIN R \cap DOMAIN B : x # name =>
            (R[x].queued <=> R[x].token # NoToken /\ R[x].finite /\ ~R[x].held)
      BY <1>4, <1>4a, <1>4b, <1>5 DEF Good, Queued
    <2>2. \A x \in DOMAIN R \ DOMAIN B : x # name => ~R[x].queued /\ R[x].token = NoToken
      BY <1>4, <1>4a, <1>4b, <1>6 DEF FreshNode
    <2>3. R[name].queued <=> R[name].token # NoToken /\ R[name].finite /\ ~R[name].held
      BY <1>0, <1>4, <1>4a, <1>4b DEF NoToken
    <2>4. QED
      BY <2>1, <2>2, <2>3 DEF Queued
  <1>16. C \subseteq SUBSET DOMAIN T1
    BY <1>9 DEF Good
  <1>17. HeldFor(R, C)
    <2>1. NoToken \notin UNION C /\ g + 1 \notin UNION C
      BY <1>8 DEF Good
    <2>2. \A x \in DOMAIN R \cap DOMAIN B : x # name => (R[x].held <=> R[x].token \in UNION C)
      BY <1>4, <1>4a, <1>4b, <1>5 DEF Good, HeldFor
    <2>3. \A x \in DOMAIN R \ DOMAIN B : x # name => ~R[x].held /\ R[x].token = NoToken
      BY <1>4, <1>4a, <1>4b, <1>6 DEF FreshNode
    <2>4. ~R[name].held /\ R[name].token = g + 1
      BY <1>0, <1>4, <1>4a, <1>4b
    <2>5. QED
      BY <2>1, <2>2, <2>3, <2>4 DEF HeldFor
  <1>18. \A t \in DOMAIN T : LockAt(R, T[t]) = LockAt(B, T[t])
    BY <1>4, <1>4a, <1>4b, <1>5, <1>8 DEF LockAt
  <1>19. LockAt(R, name) = [root |-> name, zeroDepth |-> node.zeroDepth,
                            deadline |-> IF node.finite THEN node.expiry ELSE Never]
    BY <1>4, <1>4a, <1>4b DEF LockAt
  <1>20. \A t \in DOMAIN T : ~Conflict(LockAt(B, T[t]), LockAt(R, name))
    <2>1. LockAt(R, name).root = name /\ LockAt(R, name).zeroDepth = node.zeroDepth
      BY <1>19
    <2>2. QED
      BY <1>0, <1>1, <2>1, CanCreateClear
  <1>21. Clear(R, T1)
    <2>1. \A t \in DOMAIN T : ~Conflict(LockAt(R, T1[t]), LockAt(R, T1[g + 1]))
      BY <1>9, <1>18, <1>20
    <2>2. \A t \in DOMAIN T : ~Conflict(LockAt(R, T1[g + 1]), LockAt(R, T1[t]))
      BY <2>1 DEF Conflict
    <2>3. \A t, u \in DOMAIN T : t # u => ~Conflict(LockAt(R, T1[t]), LockAt(R, T1[u]))
      BY <1>9, <1>18 DEF Good, Clear
    <2>4. QED
      BY <1>9, <2>1, <2>2, <2>3 DEF Clear
  <1>22. QED
    BY <1>8, <1>9, <1>11, <1>12, <1>13, <1>14, <1>15, <1>16, <1>17, <1>18, <1>19, <1>21
       DEF Good, Tree, Added, R, T1

(***************************************************************************)
(* hold, unhold and Refresh leave the tree and the roots as they are.      *)
(***************************************************************************)
\* A change of expiry, held and queued alone leaves the tree as it is.
LEMMA SameTree ==
  ASSUME NEW B, NEW T, NEW g \in Nat, Tree(B, T, g), Clear(B, T),
         NEW B1 \in [DOMAIN B -> Node],
         \A x \in DOMAIN B :
           /\ B1[x].token = B[x].token /\ B1[x].refCount = B[x].refCount
           /\ B1[x].zeroDepth = B[x].zeroDepth
  PROVE  Tree(B1, T, g) /\ Clear(B1, T)
  <1>1. DOMAIN B1 = DOMAIN B
    OBVIOUS
  <1>2. \A x : Below(B1, x) = Below(B, x)
    BY <1>1 DEF Below
  <1>3. Shape(B1, T, g) /\ Linked(B1, T) /\ Rooted(B1)
    BY <1>1 DEF Tree, Shape, Linked, Rooted
  <1>4. Counted(B1)
    BY <1>1, <1>2 DEF Tree, Counted
  <1>5. \A t \in DOMAIN T : T[t] \in DOMAIN B
    BY DEF Tree, Shape
  <1>6. \A x, y \in DOMAIN B :
          Conflict(LockAt(B1, x), LockAt(B1, y)) <=> Conflict(LockAt(B, x), LockAt(B, y))
    BY DEF Conflict, Covers, LockAt
  <1>7. Clear(B1, T)
    BY <1>5, <1>6 DEF Clear
  <1>8. QED
    BY <1>3, <1>4, <1>7 DEF Tree

\* The nodes of the tokens K, and tokens whose nodes nobody holds.
Nodes(T, K) == {T[t] : t \in K}
Unheld(B, T, K) == K \subseteq DOMAIN T /\ \A t \in K : ~B[T[t]].held

\* The nodes of a set of tokens are those with a token in the set.
LEMMA NodesOf ==
  ASSUME NEW B, NEW T, NEW g \in Nat, Shape(B, T, g), Linked(B, T), NEW K \in SUBSET DOMAIN T
  PROVE  \A x \in DOMAIN B : x \in Nodes(T, K) <=> B[x].token \in K
  <1>1. \A t \in K : T[t] \in DOMAIN B /\ B[T[t]].token = t /\ t # NoToken
    BY DEF Shape, Linked, NoToken
  <1>2. QED
    BY <1>1 DEF Linked, Nodes

\* Two trees with the same locks at the same nodes.
SameLocks(B, B1) == \A x \in DOMAIN B : LockAt(B1, x) = LockAt(B, x)

\* hold, of nodes that nobody holds yet, keeps the invariant.
LEMMA HoldGood ==
  ASSUME NEW B, NEW T, NEW g \in Nat, NEW C, Good(B, T, g, C),
         NEW K, Unheld(B, T, K)
  PROVE  Good(Hold(B, Nodes(T, K)), T, g, C \cup {K}) /\ SameLocks(B, Hold(B, Nodes(T, K)))
  <1> DEFINE H == Nodes(T, K)
             B1 == Hold(B, H)
  <1>1. Tree(B, T, g) /\ Shape(B, T, g) /\ Linked(B, T) /\ Clear(B, T)
    BY DEF Good, Tree
  <1>0. K \in SUBSET DOMAIN T /\ \A t \in K : ~B[T[t]].held
    BY DEF Unheld
  <1>2. \A x \in DOMAIN B : x \in H <=> B[x].token \in K
    BY <1>0, <1>1, NodesOf
  <1>3. /\ DOMAIN B1 = DOMAIN B /\ B1 = [x \in DOMAIN B |-> B1[x]]
        /\ \A x \in DOMAIN B :
             B1[x] = IF x \in H THEN [B[x] EXCEPT !.held = TRUE, !.queued = B[x].queued /\ ~B[x].finite]
                                ELSE B[x]
    BY DEF Hold
  <1> HIDE DEF B1, H
  <1>4. \A x \in DOMAIN B : B[x] \in Node
    BY <1>1 DEF Shape
  <1>5. \A x \in DOMAIN B :
          /\ B1[x] \in Node
          /\ B1[x].token = B[x].token /\ B1[x].refCount = B[x].refCount
          /\ B1[x].zeroDepth = B[x].zeroDepth
          /\ B1[x].finite = B[x].finite /\ B1[x].expiry = B[x].expiry
          /\ B1[x].held = (B[x].held \/ x \in H)
          /\ B1[x].queued = IF x \in H THEN B[x].queued /\ ~B[x].finite ELSE B[x].queued
    <2>1. TAKE x \in DOMAIN B
    <2>2. B[x] \in Node
      BY <1>4
    <2>3. CASE x \in H
      <3>1. B1[x] = [B[x] EXCEPT !.held = TRUE, !.queued = B[x].queued /\ ~B[x].finite]
        BY <1>3, <2>3
      <3>2. QED
        BY <2>2, <2>3, <3>1 DEF Node
    <2>4. CASE x \notin H
      BY <1>3, <2>2, <2>4 DEF Node
    <2>5. QED
      BY <2>3, <2>4
  <1>6. Tree(B1, T, g) /\ Clear(B1, T)
    <2>1. B1 \in [DOMAIN B -> Node]
      BY <1>3, <1>5
    <2>2. QED
      BY <1>1, <1>5, <2>1, SameTree
  <1>7. Queued(B1)
    BY <1>3, <1>5 DEF Good, Queued
  <1>8. HeldFor(B1, C \cup {K})
    BY <1>2, <1>3, <1>5 DEF Good, HeldFor
  <1>9. \A c \in C : c \cap K = {}
    BY <1>0, <1>1 DEF Good, HeldFor, Linked, Shape
  <1>10. C \cup {K} \subseteq SUBSET DOMAIN T /\ Disjoint(C \cup {K})
    BY <1>0, <1>9 DEF Good, Disjoint
  <1>11. \A x \in DOMAIN B : LockAt(B1, x) = LockAt(B, x)
    BY <1>5 DEF LockAt
  <1>12. QED
    BY <1>6, <1>7, <1>8, <1>10, <1>11 DEF Good, SameLocks, B1, H

\* unhold, of the nodes that one release function stands for, keeps the invariant.
LEMMA UnholdGood ==
  ASSUME NEW B, NEW T, NEW g \in Nat, NEW C, Good(B, T, g, C), NEW K \in C
  PROVE  Good(Unhold(B, Nodes(T, K)), T, g, C \ {K}) /\ SameLocks(B, Unhold(B, Nodes(T, K)))
  <1> DEFINE H == Nodes(T, K)
             B1 == Unhold(B, H)
  <1>1. Tree(B, T, g) /\ Shape(B, T, g) /\ Linked(B, T) /\ Clear(B, T) /\ K \in SUBSET DOMAIN T
    BY DEF Good, Tree
  <1>2. \A x \in DOMAIN B : x \in H <=> B[x].token \in K
    BY <1>1, NodesOf
  <1>3. /\ DOMAIN B1 = DOMAIN B /\ B1 = [x \in DOMAIN B |-> B1[x]]
        /\ \A x \in DOMAIN B :
             B1[x] = IF x \in H THEN [B[x] EXCEPT !.held = FALSE, !.queued = B[x].queued \/ B[x].finite]
                                ELSE B[x]
    BY DEF Unhold
  <1> HIDE DEF B1, H
  <1>4. \A x \in DOMAIN B : B[x] \in Node
    BY <1>1 DEF Shape
  <1>5. \A x \in DOMAIN B :
          /\ B1[x] \in Node
          /\ B1[x].token = B[x].token /\ B1[x].refCount = B[x].refCount
          /\ B1[x].zeroDepth = B[x].zeroDepth
          /\ B1[x].finite = B[x].finite /\ B1[x].expiry = B[x].expiry
          /\ B1[x].held = (B[x].held /\ x \notin H)
          /\ B1[x].queued = IF x \in H THEN B[x].queued \/ B[x].finite ELSE B[x].queued
    BY <1>3, <1>4, ZenonT(60) DEF Node
  <1>6. Tree(B1, T, g) /\ Clear(B1, T)
    <2>1. B1 \in [DOMAIN B -> Node]
      BY <1>3, <1>5
    <2>2. QED
      BY <1>1, <1>5, <2>1, SameTree
  <1>7. Queued(B1)
    <2>1. \A x \in DOMAIN B : x \in H => B[x].token # NoToken
      BY <1>1, <1>2 DEF Shape, NoToken
    <2>2. QED
      BY <1>3, <1>5, <2>1 DEF Good, Queued
  <1>8. HeldFor(B1, C \ {K})
    <2>1. \A t \in K : t \notin UNION (C \ {K})
      BY DEF Good, Disjoint
    <2>2. \A t : t \notin K => (t \in UNION C <=> t \in UNION (C \ {K}))
      OBVIOUS
    <2>3. SUFFICES ASSUME NEW x \in DOMAIN B
                   PROVE  B1[x].held <=> B1[x].token \in UNION (C \ {K})
      BY <1>3 DEF HeldFor
    <2>4. B1[x].token = B[x].token /\ B1[x].held = (B[x].held /\ x \notin H)
      BY <1>5
    <2>5. B[x].held <=> B[x].token \in UNION C
      BY DEF Good, HeldFor
    <2> DEFINE q == B[x].token
    <2>6. x \in H <=> q \in K
      BY <1>2
    <2> HIDE DEF q
    <2>7. CASE x \in H
      <3>1. q \notin UNION (C \ {K})
        BY <2>1, <2>6, <2>7
      <3>2. QED
        BY <2>4, <2>7, <3>1 DEF q
    <2>8. CASE x \notin H
      <3>1. q \in UNION C <=> q \in UNION (C \ {K})
        BY <2>2, <2>6, <2>8
      <3>2. QED
        BY <2>4, <2>5, <2>8, <3>1 DEF q
    <2>9. QED
      BY <2>7, <2>8
  <1>9. C \ {K} \subseteq SUBSET DOMAIN T /\ Disjoint(C \ {K})
    BY DEF Good, Disjoint
  <1>10. \A x \in DOMAIN B : LockAt(B1, x) = LockAt(B, x)
    BY <1>5 DEF LockAt
  <1>11. QED
    BY <1>6, <1>7, <1>8, <1>9, <1>10 DEF Good, SameLocks, B1, H

\* A node for a refreshed lock t, and the tree with it.
Renewal(B, T, t, node) ==
  /\ t \in DOMAIN T /\ ~B[T[t]].held /\ node \in Node
  /\ node.token = B[T[t]].token /\ node.refCount = B[T[t]].refCount
  /\ node.zeroDepth = B[T[t]].zeroDepth /\ node.held = B[T[t]].held
  /\ node.queued = node.finite
Renewed(B, x, node) == [y \in DOMAIN B |-> IF y = x THEN node ELSE B[y]]

\* Refresh changes when the lock of one free node expires.
LEMMA RefreshGood ==
  ASSUME NEW B, NEW T, NEW g \in Nat, NEW C, Good(B, T, g, C),
         NEW t, NEW node, Renewal(B, T, t, node)
  PROVE  Good(Renewed(B, T[t], node), T, g, C)
  <1> DEFINE B1 == Renewed(B, T[t], node)
  <1>1. Tree(B, T, g) /\ Shape(B, T, g) /\ Linked(B, T) /\ Clear(B, T)
    BY DEF Good, Tree
  <1>0. /\ t \in DOMAIN T /\ ~B[T[t]].held /\ node \in Node
        /\ node.token = B[T[t]].token /\ node.refCount = B[T[t]].refCount
        /\ node.zeroDepth = B[T[t]].zeroDepth /\ node.held = B[T[t]].held
        /\ node.queued = node.finite
    BY DEF Renewal
  <1>2. B1 \in [DOMAIN B -> Node] /\ DOMAIN B1 = DOMAIN B
    BY <1>0, <1>1 DEF Shape, Renewed
  <1>3. \A x \in DOMAIN B :
          /\ B1[x].token = B[x].token /\ B1[x].refCount = B[x].refCount
          /\ B1[x].zeroDepth = B[x].zeroDepth /\ B1[x].held = B[x].held
          /\ x # T[t] => B1[x] = B[x]
    BY <1>0 DEF Renewed
  <1>4. Tree(B1, T, g) /\ Clear(B1, T)
    BY <1>1, <1>2, <1>3, SameTree
  <1>5. Queued(B1)
    <2>1. T[t] \in DOMAIN B /\ B1[T[t]] = node /\ node.token # NoToken
      BY <1>0, <1>1 DEF Shape, Linked, NoToken, Renewed
    <2>2. QED
      BY <1>0, <1>2, <1>3, <2>1 DEF Good, Queued
  <1>6. HeldFor(B1, C)
    BY <1>2, <1>3 DEF Good, HeldFor
  <1>7. QED
    BY <1>4, <1>5, <1>6 DEF Good

(***************************************************************************)
(* The invariant of memLS and the lock table it stands for.                *)
(***************************************************************************)
Inv == gen \in 0..MaxGen /\ clock \in 0..MaxTime /\ Good(byName, byToken, gen, claims)
Bar(B, T) == [t \in DOMAIN T |-> LockAt(B, T[t])]

\* The table's definitions are those of this module.
LEMMA SameNames ==
  /\ Table!Never = Never
  /\ \A l, k : Table!Conflict(l, k) <=> Conflict(l, k)
  /\ \A l, x : Table!Covers(l, x) <=> Covers(l, x)
  BY DEF Table!Never, Never, Table!Conflict, Conflict, Table!Covers, Covers, Table!Walk, Walk

\* What canCreate refuses conflicts with a lock: a node means one at or below it.
LEMMA CannotCreate ==
  ASSUME NEW B, NEW T, NEW g \in Nat, Tree(B, T, g),
         NEW name \in Name, NEW l, l.root = name, ~CanCreate(B, name, l.zeroDepth)
  PROVE  \E t \in DOMAIN T : Conflict(LockAt(B, T[t]), l)
  <1>1. Shape(B, T, g) /\ Linked(B, T) /\ Counted(B)
    BY DEF Tree
  <1>2. SUFFICES \E x \in DOMAIN B : B[x].token # NoToken /\ Conflict(LockAt(B, x), l)
    BY <1>1 DEF Linked
  <1>3. PICK x \in Walk(name) \cap DOMAIN B :
          ~ IF x = name THEN B[x].token = NoToken /\ l.zeroDepth
                        ELSE B[x].token = NoToken \/ B[x].zeroDepth
    BY DEF CanCreate
  <1>4. CASE x = name /\ B[x].token # NoToken
    BY <1>3, <1>4 DEF Conflict, Covers, LockAt
  <1>5. CASE x = name /\ ~l.zeroDepth
    <2>1. PICK y \in Below(B, name) : TRUE
      BY <1>1, <1>3, <1>5 DEF Counted
    <2>2. y \in DOMAIN B /\ B[y].token # NoToken /\ name \in Walk(y)
      BY <2>1 DEF Below
    <2>3. QED
      BY <1>5, <2>2 DEF Conflict, Covers, LockAt
  <1>6. CASE x # name
    BY <1>3, <1>6 DEF Conflict, Covers, LockAt
  <1>7. QED
    BY <1>3, <1>4, <1>5, <1>6

\* Collecting expired nodes leaves the locks the table finds live at that time.
LEMMA CollectGood ==
  ASSUME Inv, NEW now \in Now
  PROVE  /\ Good(Fresh(now), FreshTokens(now), gen, claims)
         /\ Table!Live(now) = DOMAIN FreshTokens(now)
         /\ Table!Kept(now) = Bar(Fresh(now), FreshTokens(now))
         /\ \A t \in DOMAIN FreshTokens(now) :
              /\ t \in DOMAIN byToken /\ FreshTokens(now)[t] = byToken[t]
              /\ LockAt(Fresh(now), byToken[t]) = LockAt(byName, byToken[t])
              /\ byToken[t] \in DOMAIN Fresh(now)
              /\ Fresh(now)[byToken[t]].held <=> t \in UNION claims
         /\ gen \in Nat /\ now \in Nat
  <1> DEFINE B == Fresh(now)
             T == FreshTokens(now)
             G == Expired(now)
  <1>1. /\ gen \in Nat /\ now \in Nat /\ Good(byName, byToken, gen, claims)
        /\ Shape(byName, byToken, gen) /\ Linked(byName, byToken)
        /\ Queued(byName) /\ HeldFor(byName, claims)
    BY BoundAssumption DEF Inv, Now, Good, Tree
  <1>2. Removable(byName, G)
    BY <1>1 DEF Expired, Queued, Removable
  <1>3. /\ Good(B, T, gen, claims) /\ Untouched(byName, byToken, B, T)
        /\ DOMAIN T = {t \in DOMAIN byToken : byToken[t] \notin G}
    <2>1. /\ Good(Removed(byName, G), Forgotten(byToken, G), gen, claims)
          /\ Untouched(byName, byToken, Removed(byName, G), Forgotten(byToken, G))
      <3> HIDE DEF G
      <3>1. gen \in Nat /\ Good(byName, byToken, gen, claims)
        BY <1>1
      <3>2. QED
        BY <1>2, <3>1, RemovedGood
    <2>2. DOMAIN Forgotten(byToken, G) = {t \in DOMAIN byToken : byToken[t] \notin G}
      BY DEF Forgotten
    <2>3. QED
      BY <2>1, <2>2 DEF Fresh, FreshTokens
  <1>4. \A t \in DOMAIN byToken :
          /\ byToken[t] \in DOMAIN byName /\ byName[byToken[t]] \in Node
          /\ byName[byToken[t]].token = t /\ t # NoToken
    BY <1>1 DEF Shape, Linked, NoToken
  <1>5. \A t \in DOMAIN byToken : byName[byToken[t]].held <=> t \in UNION claims
    BY <1>1, <1>4 DEF HeldFor
  <1>6. \A t \in DOMAIN byToken :
          byToken[t] \notin G <=>
            \/ t \in UNION claims
            \/ LockAt(byName, byToken[t]).deadline = Never
            \/ now < LockAt(byName, byToken[t]).deadline
    <2>1. TAKE t \in DOMAIN byToken
    <2> DEFINE n == byName[byToken[t]]
    <2>2. n \in Node /\ n.expiry \in Nat /\ n.finite \in BOOLEAN
      BY <1>4 DEF Node
    <2>3. byToken[t] \in G <=> n.finite /\ ~n.held /\ n.expiry <= now
      BY <1>1, <1>4 DEF Expired, Queued
    <2>4. LockAt(byName, byToken[t]).deadline = IF n.finite THEN n.expiry ELSE Never
      BY DEF LockAt
    <2>5. n.held <=> t \in UNION claims
      BY <1>5
    <2> HIDE DEF n
    <2>6. CASE n.finite
      BY <1>1, <2>2, <2>3, <2>4, <2>5, <2>6 DEF Never
    <2>7. CASE ~n.finite
      BY <2>3, <2>4, <2>7
    <2>8. QED
      BY <2>6, <2>7
  <1>7. Table!Live(now) = DOMAIN T
    BY <1>3, <1>6, SameNames DEF Table!Live, Table!Held
  <1>8. Table!Kept(now) = Bar(B, T)
    BY <1>3, <1>7 DEF Table!Kept, Bar, Untouched
  <1>9. QED
    BY <1>1, <1>3, <1>5, <1>7, <1>8 DEF Untouched

(***************************************************************************)
(* Every method keeps the invariant and is the same method of the table.   *)
(***************************************************************************)
\* The locks of the table after a step, from those before it.
LEMMA BarStep ==
  ASSUME NEW B, NEW T, byName' = B, byToken' = T
  PROVE  [t \in DOMAIN byToken |-> LockAt(byName, byToken[t])]' = Bar(B, T)
  BY DEF Bar, LockAt

\* A call that only collects expired nodes is one in which locks only expire.
LEMMA CollectStep ==
  ASSUME Inv, NEW now \in Now, Collect(now)
  PROVE  Inv' /\ Table!OnlyExpire(now)
  <1>1. /\ Good(Fresh(now), FreshTokens(now), gen, claims)
        /\ Table!Kept(now) = Bar(Fresh(now), FreshTokens(now))
    BY CollectGood
  <1>2. /\ byName' = Fresh(now) /\ byToken' = FreshTokens(now)
        /\ gen' = gen /\ claims' = claims /\ clock' = clock
    BY DEF Collect
  <1>3. Inv'
    BY <1>1, <1>2 DEF Inv
  <1>4. [t \in DOMAIN byToken |-> LockAt(byName, byToken[t])]' = Table!Kept(now)
    BY <1>1, <1>2, BarStep
  <1>5. QED
    BY <1>2, <1>3, <1>4 DEF Table!OnlyExpire

Fields == {"token", "refCount", "zeroDepth", "finite", "expiry", "held", "queued"}

\* Create: the new lock conflicts with none that is still live.
LEMMA CreateStep ==
  ASSUME Inv, NEW now \in Now, NEW root \in Name, NEW zeroDepth \in BOOLEAN,
         NEW d \in Durations \cup {Never}, Create(now, root, zeroDepth, d)
  PROVE  /\ Inv'
         /\ Table!Create(now, [root |-> root, zeroDepth |-> zeroDepth,
                               deadline |-> Table!Deadline(now, d)])
  <1> DEFINE B == Fresh(now)
             T == FreshTokens(now)
             finite == d # Never
             old == NodeAt(B, root)
             node == [old EXCEPT !.token = gen + 1, !.zeroDepth = zeroDepth, !.finite = finite,
                                 !.expiry = IF finite THEN now + d ELSE @,
                                 !.queued = finite \/ @]
             l == [root |-> root, zeroDepth |-> zeroDepth, deadline |-> Table!Deadline(now, d)]
  <1>1. /\ Good(B, T, gen, claims) /\ Tree(B, T, gen) /\ Shape(B, T, gen) /\ gen \in Nat /\ now \in Nat
        /\ Table!Live(now) = DOMAIN T
        /\ \A t \in DOMAIN T : /\ t \in DOMAIN byToken /\ T[t] = byToken[t]
                               /\ LockAt(B, byToken[t]) = LockAt(byName, byToken[t])
    BY CollectGood DEF Good, Tree
  <1>2. /\ gen < MaxGen /\ CanCreate(B, root, zeroDepth)
        /\ gen' = gen + 1 /\ claims' = claims /\ clock' = clock
        /\ byName' = Created(B, root, node)
        /\ byToken' = [t \in DOMAIN T \cup {gen + 1} |-> IF t = gen + 1 THEN root ELSE byToken[t]]
    BY DEF Create
  <1>3. /\ old \in Node /\ old.token = NoToken /\ ~old.held /\ ~old.queued
    <2>1. CASE root \in DOMAIN B
      <3>1. old = B[root] /\ B[root] \in Node
        BY <1>1, <2>1 DEF NodeAt, Shape
      <3>2. B[root].token = NoToken
        BY <1>2, <2>1, SelfWalk DEF CanCreate
      <3>3. NoToken \notin UNION claims
        BY <1>1 DEF Good, Shape, NoToken
      <3>4. QED
        BY <1>1, <2>1, <3>1, <3>2, <3>3 DEF Good, HeldFor, Queued
    <2>2. CASE root \notin DOMAIN B
      BY <2>2 DEF NodeAt, FreshNode, Node, NoToken
    <2>3. QED
      BY <2>1, <2>2
  <1>4. now + d \in Nat \/ ~finite
    BY <1>1, BoundAssumption
  <1>5. /\ node \in Node /\ node.token = gen + 1 /\ node.zeroDepth = zeroDepth
        /\ node.finite = finite /\ ~node.held /\ node.queued = finite
        /\ finite => node.expiry = now + d
    <2>2. /\ old.token \in Nat /\ old.refCount \in Nat /\ old.zeroDepth \in BOOLEAN
          /\ old.finite \in BOOLEAN /\ old.expiry \in Nat /\ old.held \in BOOLEAN
      BY <1>3 DEF Node
    <2> HIDE DEF old
    <2> DEFINE expiry == IF finite THEN now + d ELSE old.expiry
    <2>3. expiry \in Nat /\ finite \in BOOLEAN /\ (finite => expiry = now + d)
      BY <1>4, <2>2
    <2> HIDE DEF finite, expiry
    <2>4. node = [token |-> gen + 1, refCount |-> old.refCount, zeroDepth |-> zeroDepth,
                  finite |-> finite, expiry |-> expiry, held |-> old.held, queued |-> finite]
      <3>1. (finite \/ old.queued) = finite
        BY <1>3, <2>3
      <3>2. node = [old EXCEPT !.token = gen + 1, !.zeroDepth = zeroDepth, !.finite = finite,
                               !.expiry = expiry, !.queued = finite]
        BY <3>1 DEF expiry
      <3>3. DOMAIN old = Fields
        BY <1>3 DEF Node, Fields
      <3>4. DOMAIN node = Fields /\ node = [f \in Fields |-> node[f]]
        BY <3>2, <3>3
      <3>5. node.token = gen + 1 /\ node.refCount = old.refCount /\ node.zeroDepth = zeroDepth
        BY <3>2, <3>3 DEF Fields
      <3>6. node.finite = finite /\ node.expiry = expiry /\ node.held = old.held /\ node.queued = finite
        BY <3>2, <3>3 DEF Fields
      <3> HIDE DEF node
      <3>7. QED
        BY <3>4, <3>5, <3>6 DEF Fields
    <2> HIDE DEF node
    <2>5. node \in Node
      BY <1>1, <2>2, <2>3, <2>4 DEF Node
    <2>6. QED
      BY <1>3, <2>3, <2>4, <2>5
  <1> HIDE DEF node
  <1>6. byToken' = Grown(T, gen, root)
    BY <1>1, <1>2 DEF Grown
  <1>7. /\ Good(Created(B, root, node), byToken', gen + 1, claims)
        /\ DOMAIN byToken' = DOMAIN T \cup {gen + 1} /\ byToken'[gen + 1] = root
        /\ \A t \in DOMAIN T :
             /\ t # gen + 1 /\ byToken'[t] = T[t]
             /\ LockAt(Created(B, root, node), T[t]) = LockAt(B, T[t])
        /\ LockAt(Created(B, root, node), root) =
             [root |-> root, zeroDepth |-> node.zeroDepth,
              deadline |-> IF node.finite THEN node.expiry ELSE Never]
    <2>1. Admitted(B, gen, root, node)
      BY <1>2, <1>5 DEF Admitted
    <2>2. Good(B, T, gen, claims) /\ gen \in Nat
      BY <1>1
    <2> HIDE DEF B, T
    <2>3. Good(Created(B, root, node), Grown(T, gen, root), gen + 1, claims) /\ Added(B, T, gen, root, node)
      BY <2>1, <2>2, CreatedGood
    <2>4. QED
      BY <1>6, <2>3 DEF Added
  <1>8. Inv'
    <2>1. gen' \in 0..MaxGen /\ clock' \in 0..MaxTime
      BY <1>1, <1>2, BoundAssumption DEF Inv
    <2>2. Good(byName', byToken', gen', claims')
      BY <1>2, <1>7
    <2>3. QED
      BY <2>1, <2>2 DEF Inv
  <1>9. LockAt(Created(B, root, node), root) = l
    BY <1>5, <1>7, SameNames DEF Table!Deadline
  <1>10. \A t \in DOMAIN T : ~Conflict(LockAt(byName, byToken[t]), l)
    <2>1. l.root = root /\ l.zeroDepth = zeroDepth
      OBVIOUS
    <2> HIDE DEF B, T, l
    <2>2. \A t \in DOMAIN T : ~Conflict(LockAt(B, T[t]), l)
      BY <1>1, <1>2, <2>1, CanCreateClear
    <2>3. QED
      BY <1>1, <2>2
  <1>11. [t \in DOMAIN byToken |-> LockAt(byName, byToken[t])]' =
           [t \in Table!Live(now) \cup {gen + 1} |->
              IF t = gen + 1 THEN l ELSE LockAt(byName, byToken[t])]
    <2>1. [t \in DOMAIN byToken |-> LockAt(byName, byToken[t])]' = Bar(Created(B, root, node), byToken')
      BY <1>2, BarStep
    <2>2. DOMAIN byToken' = DOMAIN T \cup {gen + 1} /\ byToken'[gen + 1] = root
      BY <1>7
    <2>3. \A t \in DOMAIN T : LockAt(Created(B, root, node), byToken'[t]) = LockAt(byName, byToken[t])
      BY <1>1, <1>7
    <2> HIDE DEF B, T, l
    <2>4. QED
      BY <1>1, <1>7, <1>9, <2>1, <2>2, <2>3 DEF Bar
  <1>12. QED
    <2>1. \A t \in Table!Live(now) :
            /\ t \in DOMAIN byToken
            /\ ~Table!Conflict([u \in DOMAIN byToken |-> LockAt(byName, byToken[u])][t], l)
      BY <1>1, <1>10, SameNames
    <2>2. [t \in Table!Live(now) \cup {gen + 1} |->
             IF t = gen + 1 THEN l ELSE LockAt(byName, byToken[t])] =
          [t \in Table!Live(now) \cup {gen + 1} |->
             IF t = gen + 1 THEN l ELSE [u \in DOMAIN byToken |-> LockAt(byName, byToken[u])][t]]
      BY <2>1
    <2>3. QED
      BY <1>2, <1>8, <1>11, <2>1, <2>2 DEF Table!Create

\* Create that answers ErrLocked: a live lock conflicts.
LEMMA CreateLockedStep ==
  ASSUME Inv, NEW now \in Now, NEW root \in Name, NEW zeroDepth \in BOOLEAN, NEW l,
         l.root = root, l.zeroDepth = zeroDepth, CreateLocked(now, root, zeroDepth)
  PROVE  Inv' /\ Table!CreateLocked(now, l)
  <1>1. Collect(now) /\ ~CanCreate(Fresh(now), root, l.zeroDepth)
    BY DEF CreateLocked
  <1>2. Inv' /\ Table!OnlyExpire(now)
    BY <1>1, CollectStep
  <1>3. /\ gen \in Nat /\ Tree(Fresh(now), FreshTokens(now), gen)
        /\ Table!Live(now) = DOMAIN FreshTokens(now)
        /\ \A t \in DOMAIN FreshTokens(now) :
             /\ t \in DOMAIN byToken /\ FreshTokens(now)[t] = byToken[t]
             /\ LockAt(Fresh(now), byToken[t]) = LockAt(byName, byToken[t])
    BY CollectGood DEF Good
  <1>4. PICK t \in DOMAIN FreshTokens(now) : Conflict(LockAt(Fresh(now), FreshTokens(now)[t]), l)
    BY <1>1, <1>3, CannotCreate
  <1>5. QED
    BY <1>2, <1>3, <1>4, SameNames DEF Table!CreateLocked

\* What lookup may return is what the table may claim.
LEMMA MatchesClaimable ==
  ASSUME Inv, NEW now \in Now, NEW tokens, NEW x
  PROVE  /\ Matches(Fresh(now), FreshTokens(now), tokens, x) = Table!Claimable(now, tokens, x)
         /\ \A t \in Matches(Fresh(now), FreshTokens(now), tokens, x) :
              t \in DOMAIN FreshTokens(now) /\ ~Fresh(now)[FreshTokens(now)[t]].held
  <1> DEFINE B == Fresh(now)
             T == FreshTokens(now)
  <1>1. /\ Table!Live(now) = DOMAIN T
        /\ \A t \in DOMAIN T :
             /\ t \in DOMAIN byToken /\ T[t] = byToken[t]
             /\ LockAt(B, byToken[t]) = LockAt(byName, byToken[t])
             /\ B[byToken[t]].held <=> t \in UNION claims
    BY CollectGood
  <1>2. Matches(B, T, tokens, x) =
          {t \in tokens \cap DOMAIN T : ~B[T[t]].held /\ Covers(LockAt(B, T[t]), x)}
    BY DEF Matches
  <1>3. Table!Claimable(now, tokens, x) =
          {t \in (tokens \cap DOMAIN T) \ UNION claims : Covers(LockAt(byName, byToken[t]), x)}
    BY <1>1, SameNames DEF Table!Claimable, Table!Held
  <1> HIDE DEF B, T
  <1>4. \A t \in DOMAIN T : /\ B[T[t]].held <=> t \in UNION claims
                            /\ LockAt(B, T[t]) = LockAt(byName, byToken[t])
    BY <1>1
  <1>5. QED
    BY <1>2, <1>3, <1>4 DEF B, T

\* Confirm: the nodes it holds are the locks the table claims.
LEMMA ConfirmStep ==
  ASSUME Inv, NEW now \in Now, NEW names, NEW tokens, Confirm(now, names, tokens)
  PROVE  Inv' /\ Table!Confirm(now, names, tokens)
  <1> DEFINE B == Fresh(now)
             T == FreshTokens(now)
  <1>1. PICK pick \in [names -> tokens] :
          /\ \A x \in names : pick[x] \in Matches(B, T, tokens, x)
          /\ byName' = Hold(B, {T[pick[x]] : x \in names})
          /\ byToken' = T
          /\ claims' = claims \cup {{pick[x] : x \in names}}
          /\ gen' = gen /\ clock' = clock
    BY DEF Confirm
  <1> DEFINE K == {pick[x] : x \in names}
  <1>2. /\ Good(B, T, gen, claims) /\ gen \in Nat
        /\ Table!Kept(now) = Bar(B, T) /\ T \in [DOMAIN T -> DOMAIN B]
    BY CollectGood DEF Good, Tree, Shape
  <1>3. /\ \A x \in names : pick[x] \in Table!Claimable(now, tokens, x)
        /\ Unheld(B, T, K)
    BY <1>1, MatchesClaimable DEF Unheld
  <1>4. byName' = Hold(B, Nodes(T, K))
    BY <1>1 DEF Nodes
  <1>5. Good(byName', byToken', gen', claims') /\ SameLocks(B, byName')
    <2> HIDE DEF B, T, K
    <2>1. Good(Hold(B, Nodes(T, K)), T, gen, claims \cup {K}) /\ SameLocks(B, Hold(B, Nodes(T, K)))
      BY <1>2, <1>3, HoldGood
    <2>2. QED
      BY <1>1, <1>4, <2>1 DEF K
  <1>6. Inv'
    BY <1>1, <1>5 DEF Inv
  <1>7. [t \in DOMAIN byToken |-> LockAt(byName, byToken[t])]' = Table!Kept(now)
    <2>1. [t \in DOMAIN byToken |-> LockAt(byName, byToken[t])]' = Bar(byName', T)
      BY <1>1 DEF Bar, LockAt
    <2>2. Bar(byName', T) = Bar(B, T)
      BY <1>2, <1>5 DEF Bar, SameLocks
    <2>3. QED
      BY <1>2, <2>1, <2>2
  <1>8. QED
    BY <1>1, <1>3, <1>6, <1>7 DEF Table!Confirm

\* Confirm that answers ErrConfirmationFailed: a name has no claimable lock.
LEMMA ConfirmFailedStep ==
  ASSUME Inv, NEW now \in Now, NEW names, NEW tokens, ConfirmFailed(now, names, tokens)
  PROVE  Inv' /\ Table!ConfirmFailed(now, names, tokens)
  <1>1. Collect(now) /\ \E x \in names : Matches(Fresh(now), FreshTokens(now), tokens, x) = {}
    BY DEF ConfirmFailed
  <1>2. \E x \in names : Table!Claimable(now, tokens, x) = {}
    BY <1>1, MatchesClaimable
  <1>3. QED
    BY <1>1, <1>2, CollectStep DEF Table!ConfirmFailed

\* The function Confirm returned gives its nodes back.
LEMMA ReleaseStep ==
  ASSUME Inv, NEW claim \in claims, Release(claim)
  PROVE  Inv' /\ Table!Release(claim)
  <1>1. /\ byName' = Unhold(byName, Nodes(byToken, claim))
        /\ byToken' = byToken /\ gen' = gen /\ clock' = clock /\ claims' = claims \ {claim}
    BY DEF Release, Nodes
  <1>2. gen \in Nat /\ Good(byName, byToken, gen, claims) /\ byToken \in [DOMAIN byToken -> DOMAIN byName]
    BY BoundAssumption DEF Inv, Good, Tree, Shape
  <1>3. /\ Good(Unhold(byName, Nodes(byToken, claim)), byToken, gen, claims \ {claim})
        /\ SameLocks(byName, Unhold(byName, Nodes(byToken, claim)))
    BY <1>2, UnholdGood
  <1>4. Inv'
    BY <1>1, <1>3 DEF Inv
  <1>5. [t \in DOMAIN byToken |-> LockAt(byName, byToken[t])]' =
          [t \in DOMAIN byToken |-> LockAt(byName, byToken[t])]
    <2>1. \A t \in DOMAIN byToken : LockAt(byName', byToken[t]) = LockAt(byName, byToken[t])
      BY <1>1, <1>2, <1>3 DEF SameLocks
    <2>2. [t \in DOMAIN byToken |-> LockAt(byName, byToken[t])]' =
            [t \in DOMAIN byToken |-> LockAt(byName', byToken[t])]
      BY <1>1 DEF LockAt
    <2>3. QED
      BY <2>1, <2>2
  <1>6. QED
    BY <1>1, <1>4, <1>5 DEF Table!Release

\* The locks that Refresh and Unlock find are those the table has unclaimed.
LEMMA FreeLive ==
  ASSUME Inv, NEW now \in Now, NEW t
  PROVE  Free(now, t) <=> t \in Table!Live(now) \ UNION claims
  <1>1. /\ Table!Live(now) = DOMAIN FreshTokens(now)
        /\ \A u \in DOMAIN FreshTokens(now) : Fresh(now)[byToken[u]].held <=> u \in UNION claims
    BY CollectGood
  <1>2. QED
    BY <1>1 DEF Free

\* Refresh or Unlock that answers an error: the lock is gone or claimed.
LEMMA RefusedStep ==
  ASSUME Inv, NEW now \in Now, NEW t, Refused(now, t)
  PROVE  Inv' /\ Table!Refused(now, t)
  <1>1. Collect(now) /\ ~Free(now, t)
    BY DEF Refused
  <1>2. t \notin Table!Live(now) \ Table!Held
    BY <1>1, FreeLive DEF Table!Held
  <1>3. QED
    BY <1>1, <1>2, CollectStep DEF Table!Refused

\* Unlock removes one lock that nobody claims.
LEMMA UnlockStep ==
  ASSUME Inv, NEW now \in Now, NEW t, Unlock(now, t)
  PROVE  Inv' /\ Table!Unlock(now, t)
  <1> DEFINE B == Fresh(now)
             T == FreshTokens(now)
             G == {byToken[t]}
  <1>1. /\ Free(now, t) /\ byName' = Removed(B, G) /\ byToken' = Forgotten(T, G)
        /\ gen' = gen /\ claims' = claims /\ clock' = clock
    BY DEF Unlock
  <1>2. /\ Good(B, T, gen, claims) /\ gen \in Nat /\ Table!Live(now) = DOMAIN T
        /\ \A u \in DOMAIN T : /\ u \in DOMAIN byToken /\ T[u] = byToken[u]
                               /\ LockAt(B, byToken[u]) = LockAt(byName, byToken[u])
    BY CollectGood
  <1>3. /\ t \in DOMAIN T /\ ~B[byToken[t]].held /\ t \in Table!Live(now) \ UNION claims
    BY <1>1, FreeLive DEF Free
  <1>4. \A u \in DOMAIN T : T[u] \in DOMAIN B /\ B[T[u]].token = u /\ u # NoToken
    BY <1>2 DEF Good, Tree, Shape, Linked, NoToken
  <1>5. Removable(B, G)
    BY <1>2, <1>3, <1>4 DEF Removable
  <1>6. /\ Good(Removed(B, G), Forgotten(T, G), gen, claims)
        /\ Untouched(B, T, Removed(B, G), Forgotten(T, G))
    <2>1. Good(B, T, gen, claims) /\ gen \in Nat
      BY <1>2
    <2> HIDE DEF B, T, G
    <2>2. QED
      BY <1>5, <2>1, RemovedGood
  <1>7. Inv'
    BY <1>1, <1>6 DEF Inv
  <1>8. [u \in DOMAIN byToken |-> LockAt(byName, byToken[u])]' =
          [u \in Table!Live(now) \ {t} |-> LockAt(byName, byToken[u])]
    <2>1. [u \in DOMAIN byToken |-> LockAt(byName, byToken[u])]' = Bar(Removed(B, G), Forgotten(T, G))
      BY <1>1, BarStep
    <2>2. DOMAIN Forgotten(T, G) = Table!Live(now) \ {t}
      <3>1. \A u \in DOMAIN T : T[u] \in G <=> u = t
        BY <1>2, <1>3, <1>4
      <3>2. DOMAIN Forgotten(T, G) = {u \in DOMAIN T : T[u] \notin G}
        BY DEF Forgotten
      <3> HIDE DEF T, G
      <3>3. QED
        BY <1>2, <3>1, <3>2
    <2>3. \A u \in DOMAIN Forgotten(T, G) :
            LockAt(Removed(B, G), Forgotten(T, G)[u]) = LockAt(byName, byToken[u])
      BY <1>2, <1>6 DEF Untouched
    <2>4. QED
      BY <2>1, <2>2, <2>3 DEF Bar
  <1>9. [u \in Table!Live(now) \ {t} |-> LockAt(byName, byToken[u])] =
          [u \in Table!Live(now) \ {t} |-> [v \in DOMAIN byToken |-> LockAt(byName, byToken[v])][u]]
    BY <1>2
  <1>10. QED
    BY <1>1, <1>3, <1>7, <1>8, <1>9 DEF Table!Unlock, Table!Held

\* Refresh changes the deadline of one lock that nobody claims.
LEMMA RefreshStep ==
  ASSUME Inv, NEW now \in Now, NEW t, NEW d \in Durations \cup {Never}, Refresh(now, t, d)
  PROVE  Inv' /\ Table!Refresh(now, t, d)
  <1> DEFINE B == Fresh(now)
             T == FreshTokens(now)
             finite == d # Never
             x == byToken[t]
             old == B[x]
             node == [old EXCEPT !.finite = finite, !.queued = finite,
                                 !.expiry = IF finite THEN now + d ELSE @]
             deadline == Table!Deadline(now, d)
  <1>1. /\ Free(now, t) /\ byToken' = T
        /\ byName' = [y \in DOMAIN B |-> IF y = x THEN node ELSE B[y]]
        /\ gen' = gen /\ claims' = claims /\ clock' = clock
    BY DEF Refresh
  <1>2. /\ Good(B, T, gen, claims) /\ gen \in Nat /\ now \in Nat
        /\ Table!Live(now) = DOMAIN T /\ Table!Kept(now) = Bar(B, T)
        /\ \A u \in DOMAIN T : u \in DOMAIN byToken /\ T[u] = byToken[u]
    BY CollectGood
  <1>3. /\ t \in DOMAIN T /\ ~old.held /\ t \in Table!Live(now) \ UNION claims /\ T[t] = x
    BY <1>1, <1>2, FreeLive DEF Free
  <1>4. /\ \A u \in DOMAIN T : T[u] \in DOMAIN B /\ B[T[u]].token = u
        /\ old \in Node
    BY <1>2, <1>3 DEF Good, Tree, Shape, Linked
  <1>5. now + d \in Nat \/ ~finite
    BY <1>2, BoundAssumption
  <1>6. /\ node \in Node /\ node.token = old.token /\ node.refCount = old.refCount
        /\ node.zeroDepth = old.zeroDepth /\ node.held = old.held
        /\ node.finite = finite /\ node.queued = finite /\ (finite => node.expiry = now + d)
    <2>1. /\ old.token \in Nat /\ old.refCount \in Nat /\ old.zeroDepth \in BOOLEAN
          /\ old.expiry \in Nat /\ old.held \in BOOLEAN /\ DOMAIN old = Fields
      BY <1>4 DEF Node, Fields
    <2> HIDE DEF old
    <2> DEFINE expiry == IF finite THEN now + d ELSE old.expiry
    <2>2. expiry \in Nat /\ finite \in BOOLEAN /\ (finite => expiry = now + d)
      BY <1>5, <2>1
    <2>3. node = [old EXCEPT !.finite = finite, !.queued = finite, !.expiry = expiry]
      BY DEF expiry
    <2> HIDE DEF finite, expiry, node
    <2>4. DOMAIN node = Fields /\ node = [f \in Fields |-> node[f]]
      BY <2>1, <2>3
    <2>5. /\ node.token = old.token /\ node.refCount = old.refCount
          /\ node.zeroDepth = old.zeroDepth /\ node.held = old.held
      BY <2>1, <2>3 DEF Fields
    <2>6. node.finite = finite /\ node.expiry = expiry /\ node.queued = finite
      BY <2>1, <2>3 DEF Fields
    <2>7. node = [token |-> old.token, refCount |-> old.refCount, zeroDepth |-> old.zeroDepth,
                  finite |-> finite, expiry |-> expiry, held |-> old.held, queued |-> finite]
      BY <2>4, <2>5, <2>6 DEF Fields
    <2>8. node \in Node
      BY <2>1, <2>2, <2>7 DEF Node
    <2>9. QED
      BY <2>2, <2>5, <2>6, <2>8
  <1> HIDE DEF node
  <1>7. byName' = Renewed(B, T[t], node) /\ Renewal(B, T, t, node)
    BY <1>1, <1>3, <1>6 DEF Renewed, Renewal
  <1>8. Inv'
    <2>1. Good(Renewed(B, T[t], node), T, gen, claims)
      <3>1. Good(B, T, gen, claims) /\ gen \in Nat
        BY <1>2
      <3> HIDE DEF B, T
      <3>2. QED
        BY <1>7, <3>1, RefreshGood
    <2>2. QED
      BY <1>1, <1>7, <2>1 DEF Inv
  <1>9. [u \in DOMAIN byToken |-> LockAt(byName, byToken[u])]' =
          [Table!Kept(now) EXCEPT ![t].deadline = deadline]
    <2>1. [u \in DOMAIN byToken |-> LockAt(byName, byToken[u])]' = Bar(byName', T)
      BY <1>1 DEF Bar, LockAt
    <2>2. \A u \in DOMAIN T : u # t => LockAt(byName', T[u]) = LockAt(B, T[u])
      BY <1>3, <1>4, <1>7 DEF Renewed, LockAt
    <2>3. LockAt(byName', T[t]) = [LockAt(B, T[t]) EXCEPT !.deadline = deadline]
      <3>1. byName'[T[t]] = node /\ B[T[t]] = old
        BY <1>3, <1>4, <1>7 DEF Renewed
      <3>2. deadline = IF node.finite THEN node.expiry ELSE Never
        BY <1>6, SameNames DEF Table!Deadline
      <3>3. LockAt(byName', T[t]) = [root |-> T[t], zeroDepth |-> old.zeroDepth, deadline |-> deadline]
        BY <1>6, <3>1, <3>2 DEF LockAt
      <3>4. QED
        BY <3>1, <3>3 DEF LockAt
    <2> HIDE DEF deadline, B, T
    <2>4. Bar(byName', T) = [Bar(B, T) EXCEPT ![t].deadline = deadline]
      BY <1>3, <2>2, <2>3 DEF Bar
    <2>5. QED
      BY <1>2, <2>1, <2>4
  <1>10. QED
    BY <1>1, <1>3, <1>8, <1>9 DEF Table!Refresh, Table!Held

(***************************************************************************)
(* The theorems.                                                           *)
(***************************************************************************)
\* NewMemLS makes an empty tree, which is the empty table.
LEMMA InitGood ==
  ASSUME Init
  PROVE  Inv /\ Table!Init
  <1>1. /\ DOMAIN byName = {} /\ DOMAIN byToken = {} /\ claims = {} /\ gen = 0 /\ clock = 0
        /\ byName \in [DOMAIN byName -> Node] /\ byToken \in [DOMAIN byToken -> DOMAIN byName]
    BY DEF Init
  <1>2. Tree(byName, byToken, gen)
    BY <1>1 DEF Tree, Shape, Linked, Rooted, Counted
  <1>3. Good(byName, byToken, gen, claims)
    BY <1>1, <1>2 DEF Good, Queued, HeldFor, Clear, Disjoint
  <1>4. Inv
    BY <1>1, <1>3, BoundAssumption DEF Inv
  <1>5. QED
    BY <1>1, <1>4 DEF Table!Init

\* Each step keeps the invariant and is a step of the table, or none of it.
LEMMA NextStep ==
  ASSUME Inv, [Next]_vars
  PROVE  Inv' /\ [Table!Next]_(Table!vars)
  <1>1. CASE UNCHANGED vars
    BY <1>1 DEF vars, Inv, Table!vars, LockAt
  <1>2. CASE Tick
    <2>1. /\ clock < MaxTime /\ clock' = clock + 1 /\ byName' = byName /\ byToken' = byToken
          /\ gen' = gen /\ claims' = claims
      BY <1>2 DEF Tick
    <2>2. Inv'
      BY <2>1, BoundAssumption DEF Inv
    <2>3. Table!Tick
      BY <2>1 DEF Table!Tick, LockAt
    <2>4. QED
      BY <2>2, <2>3 DEF Table!Next
  <1>3. CASE \E claim \in claims : Release(claim)
    BY <1>3, ReleaseStep DEF Table!Next
  <1>4. ASSUME NEW now \in Now, NEW root \in Name, NEW zeroDepth \in BOOLEAN,
               NEW d \in Durations \cup {Never}, Create(now, root, zeroDepth, d)
        PROVE  Inv' /\ [Table!Next]_(Table!vars)
    <2> DEFINE r == [root |-> root, zeroDepth |-> zeroDepth, duration |-> d]
    <2>1. r \in Table!Request /\ now \in Table!Now
      BY SameNames DEF Table!Request, Now, Table!Now
    <2>2. Inv' /\ Table!Create(now, Table!Requested(now, r))
      BY <1>4, CreateStep DEF Table!Requested
    <2>3. QED
      BY <2>1, <2>2 DEF Table!Next
  <1>5. ASSUME NEW now \in Now, NEW root \in Name, NEW zeroDepth \in BOOLEAN,
               CreateLocked(now, root, zeroDepth)
        PROVE  Inv' /\ [Table!Next]_(Table!vars)
    <2> DEFINE r == [root |-> root, zeroDepth |-> zeroDepth, duration |-> Never]
    <2>1. r \in Table!Request /\ now \in Table!Now
      BY SameNames DEF Table!Request, Now, Table!Now
    <2>2. Table!Requested(now, r).root = root /\ Table!Requested(now, r).zeroDepth = zeroDepth
      BY DEF Table!Requested
    <2>3. Inv' /\ Table!CreateLocked(now, Table!Requested(now, r))
      BY <1>5, <2>2, CreateLockedStep
    <2>4. QED
      BY <2>1, <2>3 DEF Table!Next
  <1>6. ASSUME NEW now \in Now, NEW names \in UpToTwo(Name), NEW tokens \in UpToTwo(1..MaxGen),
               Confirm(now, names, tokens) \/ ConfirmFailed(now, names, tokens)
        PROVE  Inv' /\ [Table!Next]_(Table!vars)
    <2>1. Inv' /\ (Table!Confirm(now, names, tokens) \/ Table!ConfirmFailed(now, names, tokens))
      BY <1>6, ConfirmStep, ConfirmFailedStep
    <2>2. now \in Table!Now /\ names \in Table!UpToTwo(Name) /\ tokens \in Table!UpToTwo(1..MaxGen)
      BY DEF Now, Table!Now, UpToTwo, Table!UpToTwo
    <2>3. QED
      BY <2>1, <2>2 DEF Table!Next
  <1>7. ASSUME NEW now \in Now, NEW t \in 1..MaxGen, NEW d \in Durations \cup {Never},
               Refresh(now, t, d)
        PROVE  Inv' /\ [Table!Next]_(Table!vars)
    <2>1. Inv' /\ Table!Refresh(now, t, d)
      BY <1>7, RefreshStep
    <2>2. now \in Table!Now /\ d \in Durations \cup {Table!Never}
      BY SameNames DEF Now, Table!Now
    <2>3. QED
      BY <2>1, <2>2 DEF Table!Next
  <1>8. ASSUME NEW now \in Now, NEW t \in 1..MaxGen, Unlock(now, t) \/ Refused(now, t)
        PROVE  Inv' /\ [Table!Next]_(Table!vars)
    <2>1. Inv' /\ (Table!Unlock(now, t) \/ Table!Refused(now, t))
      BY <1>8, UnlockStep, RefusedStep
    <2>2. now \in Table!Now
      BY DEF Now, Table!Now
    <2>3. QED
      BY <2>1, <2>2 DEF Table!Next
  <1>9. QED
    BY <1>1, <1>2, <1>3, <1>4, <1>5, <1>6, <1>7, <1>8 DEF Next

\* What the invariant says of the variables themselves.
LEMMA InvConsequences ==
  ASSUME Inv
  PROVE  TypeOK /\ RefCounts /\ TokensLink /\ HeapExact /\ HeldConsistent /\ NoConflict
  <1>1. /\ gen \in 0..MaxGen /\ clock \in 0..MaxTime
        /\ Shape(byName, byToken, gen) /\ Linked(byName, byToken) /\ Rooted(byName)
        /\ Counted(byName) /\ Queued(byName) /\ HeldFor(byName, claims)
        /\ Clear(byName, byToken) /\ claims \subseteq SUBSET DOMAIN byToken /\ Disjoint(claims)
    BY DEF Inv, Good, Tree
  <1>2. TypeOK
    BY <1>1 DEF TypeOK, Shape
  <1>3. \A x : LockedBelow(x) = Below(byName, x)
    BY DEF LockedBelow, Below
  <1>4. RefCounts
    BY <1>1, <1>3 DEF RefCounts, Rooted, Counted
  <1>5. TokensLink /\ HeapExact
    BY <1>1 DEF TokensLink, HeapExact, Linked, Queued
  <1>6. HeldConsistent
    BY <1>1 DEF HeldConsistent, HeldFor, Disjoint
  <1>7. NoConflict
    BY <1>1 DEF NoConflict, Clear
  <1>8. QED
    BY <1>2, <1>4, <1>5, <1>6, <1>7

\* The invariant is inductive.
LEMMA Invariance == Spec => []Inv
  <1>1. Init => Inv
    BY InitGood
  <1>2. Inv /\ [Next]_vars => Inv'
    BY NextStep
  <1>3. QED
    BY <1>1, <1>2, PTL DEF Spec

\* Every variable of memLS keeps its type: a token always names a node that is
\* in the tree.
THEOREM LocksTyped == Spec => []TypeOK
  <1>1. Inv => TypeOK
    BY InvConsequences
  <1>2. QED
    BY <1>1, Invariance, PTL

\* refCount (lock.go:327, :341) counts the locked names at or below each node,
\* whatever is created, expires and is removed: no node goes too early or stays.
THEOREM TreeCounts == Spec => []RefCounts
  <1>1. Inv => RefCounts
    BY InvConsequences
  <1>2. QED
    BY <1>1, Invariance, PTL

\* Tokens and nodes name each other, and the heap holds just the locks that can
\* expire, through every hold, unhold and Refresh.
THEOREM LinksAndHeap == Spec => [](TokensLink /\ HeapExact)
  <1>1. Inv => TokensLink /\ HeapExact
    BY InvConsequences
  <1>2. QED
    BY <1>1, Invariance, PTL

\* A node is held exactly while one release function for it is outstanding, so
\* the panics of hold and unhold (lock.go:214, :224) are never reached.
THEOREM HeldSafe == Spec => []HeldConsistent
  <1>1. Inv => HeldConsistent
    BY InvConsequences
  <1>2. QED
    BY <1>1, Invariance, PTL

\* canCreate lets no lock in that conflicts with another one, in any tree.
THEOREM NoConflicts == Spec => []NoConflict
  <1>1. Inv => NoConflict
    BY InvConsequences
  <1>2. QED
    BY <1>1, Invariance, PTL

\* memLS implements the lock table: each method, with the expiry it begins
\* with, is the same method of a plain set of locks.
THEOREM Implements == Spec => ImplementsTable
  <1>1. Init => Table!Init
    BY InitGood
  <1>2. Inv /\ [Next]_vars => [Table!Next]_(Table!vars)
    BY NextStep
  <1>3. QED
    BY <1>1, <1>2, Invariance, PTL DEF Spec, Table!Spec, ImplementsTable

\* Confirm promises exclusive access: no two release functions outstanding at a
\* time stand for locks that share a resource.
THEOREM ClaimsExclusive == Spec => []ExclusiveClaims
  <1>1. ASSUME Inv
        PROVE  ExclusiveClaims
    <2>1. HeldConsistent /\ NoConflict /\ TypeOK
      BY <1>1, InvConsequences
    <2>2. SUFFICES ASSUME NEW c \in claims, NEW d \in claims, c # d, NEW t \in c, NEW u \in d, NEW x \in Name,
                          Covers(LockAt(byName, byToken[t]), x), Covers(LockAt(byName, byToken[u]), x)
                   PROVE  FALSE
      BY DEF ExclusiveClaims
    <2> DEFINE l == LockAt(byName, byToken[t])
               k == LockAt(byName, byToken[u])
    <2>3. t \in DOMAIN byToken /\ u \in DOMAIN byToken /\ t # u
      BY <2>1, <2>2 DEF HeldConsistent, TypeOK
    <2>4. ~Conflict(l, k)
      BY <2>1, <2>3 DEF NoConflict
    <2> HIDE DEF l, k
    <2>5. Covers(l, x) /\ Covers(k, x)
      BY <2>2 DEF l, k
    <2>6. QED
      BY <2>4, <2>5, CoversMeet
  <1>2. QED
    BY <1>1, Invariance, PTL

\* A step of the table leaves a lock that is claimed as it is.
LEMMA ClaimedStays ==
  ASSUME Inv, [Next]_vars, NEW t \in UNION claims
  PROVE  t \in DOMAIN byToken' /\ LockAt(byName', byToken'[t]) = LockAt(byName, byToken[t])
  <1> DEFINE L == [u \in DOMAIN byToken |-> LockAt(byName, byToken[u])]
  <1>1. TypeOK
    BY InvConsequences
  <1>2. t \in DOMAIN byToken /\ t # gen + 1 /\ t \in Table!Held
    BY <1>1 DEF TypeOK, Table!Held
  <1>3. t \in DOMAIN L /\ L[t] = LockAt(byName, byToken[t])
    BY <1>2
  <1>4. [Table!Next]_(Table!vars)
    BY NextStep
  <1>5. \A now : t \in Table!Live(now) /\ t \in DOMAIN Table!Kept(now) /\ Table!Kept(now)[t] = L[t]
    BY <1>2 DEF Table!Live, Table!Kept
  <1>6. t \in DOMAIN L' /\ L'[t] = L[t]
    <2>1. CASE UNCHANGED Table!vars \/ Table!Tick \/ \E claim \in claims : Table!Release(claim)
      <3>1. L' = L
        BY <2>1 DEF Table!vars, Table!Tick, Table!Release
      <3>2. QED
        BY <1>3, <3>1
    <2>2. ASSUME NEW now, Table!OnlyExpire(now) \/ L' = Table!Kept(now)
          PROVE  t \in DOMAIN L' /\ L'[t] = L[t]
      BY <1>5, <2>2 DEF Table!OnlyExpire
    <2>3. ASSUME NEW now, NEW l, Table!Create(now, l)
          PROVE  t \in DOMAIN L' /\ L'[t] = L[t]
      <3>1. L' = [u \in Table!Live(now) \cup {gen + 1} |-> IF u = gen + 1 THEN l ELSE L[u]]
        BY <2>3 DEF Table!Create
      <3> HIDE DEF L
      <3>2. QED
        BY <1>2, <1>5, <3>1
    <2>4. ASSUME NEW now, NEW l, Table!CreateLocked(now, l)
          PROVE  t \in DOMAIN L' /\ L'[t] = L[t]
      BY <2>2, <2>4 DEF Table!CreateLocked
    <2>5. ASSUME NEW now, NEW names, NEW tokens,
                 Table!Confirm(now, names, tokens) \/ Table!ConfirmFailed(now, names, tokens)
          PROVE  t \in DOMAIN L' /\ L'[t] = L[t]
      BY <2>2, <2>5 DEF Table!Confirm, Table!ConfirmFailed
    <2>6. ASSUME NEW now, NEW u, NEW d, Table!Refresh(now, u, d)
          PROVE  t \in DOMAIN L' /\ L'[t] = L[t]
      <3>1. /\ u \notin Table!Held
            /\ L' = [Table!Kept(now) EXCEPT ![u].deadline = Table!Deadline(now, d)]
        BY <2>6 DEF Table!Refresh
      <3>2. t # u
        BY <1>2, <3>1
      <3> HIDE DEF L
      <3>3. QED
        BY <1>5, <3>1, <3>2
    <2>7. ASSUME NEW now, NEW u, Table!Unlock(now, u)
          PROVE  t \in DOMAIN L' /\ L'[t] = L[t]
      <3>1. u \notin Table!Held /\ L' = [v \in Table!Live(now) \ {u} |-> L[v]]
        BY <2>7 DEF Table!Unlock
      <3> HIDE DEF L
      <3>2. QED
        BY <1>2, <1>5, <3>1
    <2>8. ASSUME NEW now, NEW u, Table!Refused(now, u)
          PROVE  t \in DOMAIN L' /\ L'[t] = L[t]
      BY <2>2, <2>8 DEF Table!Refused
    <2>9. QED
      BY <1>4, <2>1, <2>3, <2>4, <2>5, <2>6, <2>7, <2>8 DEF Table!Next
  <1>7. QED
    BY <1>3, <1>6

\* What a caller was promised by Confirm holds until its release function is called: whatever
\* expires, is created, refreshed or unlocked meanwhile, the lock is there with the root, depth
\* and deadline it had.
THEOREM ClaimsLast == Spec => ClaimKept
  <1>1. Inv /\ [Next]_vars =>
          [\A t \in UNION claims :
             /\ t \in DOMAIN byToken'
             /\ LockAt(byName', byToken'[t]) = LockAt(byName, byToken[t])]_vars
    BY ClaimedStays
  <1>2. QED
    BY <1>1, Invariance, PTL DEF Spec, ClaimKept

\* A node that collectExpiredNodes takes is finite and its time is over.
LEMMA ExpiredGo ==
  ASSUME Inv, NEW now \in Now, NEW t \in DOMAIN byToken, t \notin DOMAIN FreshTokens(now)
  PROVE  byName[byToken[t]].finite /\ byName[byToken[t]].expiry <= clock
  <1>1. TypeOK /\ HeapExact
    BY InvConsequences
  <1>2. byToken[t] \in DOMAIN byName /\ byName[byToken[t]] \in Node /\ clock \in Nat
    BY <1>1, BoundAssumption DEF TypeOK
  <1>3. byName[byToken[t]].queued /\ byName[byToken[t]].expiry <= now
    BY DEF FreshTokens, Forgotten, Expired
  <1>4. byName[byToken[t]].finite
    BY <1>1, <1>2, <1>3 DEF HeapExact
  <1>5. byName[byToken[t]].expiry <= clock
    BY <1>2, <1>3 DEF Now, Node
  <1>6. QED
    BY <1>4, <1>5

\* A lock goes only by its own UNLOCK or once its time is over: neither the calls on other
\* locks nor the collection of what has expired takes a lock that is infinite or has time left.
THEOREM OnlyOverGo == Spec => OnlyExpiredGo
  <1>1. ASSUME Inv, [Next]_vars, NEW t \in DOMAIN byToken, t \notin DOMAIN byToken'
        PROVE  \/ \E now \in Now : Unlock(now, t)
               \/ byName[byToken[t]].finite /\ byName[byToken[t]].expiry <= clock
    <2>1. CASE UNCHANGED vars \/ Tick \/ \E claim \in claims : Release(claim)
      BY <1>1, <2>1 DEF vars, Tick, Release
    <2>2. ASSUME NEW now \in Now, t \notin DOMAIN FreshTokens(now)
          PROVE  byName[byToken[t]].finite /\ byName[byToken[t]].expiry <= clock
      BY <1>1, <2>2, ExpiredGo
    <2>3. ASSUME NEW now \in Now, NEW root, NEW zeroDepth,
                 (\E d : Create(now, root, zeroDepth, d)) \/ CreateLocked(now, root, zeroDepth)
          PROVE  t \notin DOMAIN FreshTokens(now)
      BY <1>1, <2>3 DEF Create, CreateLocked, Collect
    <2>4. ASSUME NEW now \in Now, NEW names, NEW tokens,
                 Confirm(now, names, tokens) \/ ConfirmFailed(now, names, tokens)
          PROVE  t \notin DOMAIN FreshTokens(now)
      BY <1>1, <2>4 DEF Confirm, ConfirmFailed, Collect
    <2>5. ASSUME NEW now \in Now, NEW u, (\E d : Refresh(now, u, d)) \/ Refused(now, u)
          PROVE  t \notin DOMAIN FreshTokens(now)
      BY <1>1, <2>5 DEF Refresh, Refused, Collect
    <2>6. ASSUME NEW now \in Now, NEW u \in 1..MaxGen, Unlock(now, u), t # u
          PROVE  t \notin DOMAIN FreshTokens(now)
      <3>1. TokensLink /\ TypeOK
        BY <1>1, InvConsequences
      <3>2. u \in DOMAIN FreshTokens(now) /\ byToken' = Forgotten(FreshTokens(now), {byToken[u]})
        BY <2>6 DEF Unlock, Free
      <3>3. u \in DOMAIN byToken /\ \A v \in DOMAIN FreshTokens(now) : FreshTokens(now)[v] = byToken[v]
        BY <3>2 DEF FreshTokens, Forgotten
      <3>4. byToken[t] # byToken[u]
        BY <1>1, <2>6, <3>1, <3>3 DEF TokensLink
      <3>5. QED
        BY <1>1, <3>2, <3>3, <3>4 DEF Forgotten
    <2>7. QED
      BY <1>1, <2>1, <2>2, <2>3, <2>4, <2>5, <2>6 DEF Next
  <1>2. Inv /\ [Next]_vars =>
          [\A t \in DOMAIN byToken :
             t \notin DOMAIN byToken' =>
               \/ \E now \in Now : Unlock(now, t)
               \/ byName[byToken[t]].finite /\ byName[byToken[t]].expiry <= clock]_vars
    BY <1>1
  <1>3. QED
    BY <1>2, Invariance, PTL DEF Spec, OnlyExpiredGo
=============================================================================
