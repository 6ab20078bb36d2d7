------------------------- MODULE SurfaceTreeProofs -------------------------
(***************************************************************************)
(* The surface tree stays a forest whose parent links and child lists      *)
(* agree, for any set of surfaces and any sequence of requests and         *)
(* destructions, and reorder never inserts out of range.                   *)
(***************************************************************************)
EXTENDS SurfaceTree, SubsequenceProofs, SequenceTheorems, TLAPS

\* The part of the type invariant the argument needs.
ParentTyped == parent \in [Surface -> Surface \cup {None}]

ForestInv == ParentTyped /\ Acyclic

\* AncestorsOrSelf(s) holds s and is closed under parent: the walk of
\* is_ancestor never leaves it.
LEMMA AncestorsClosed ==
    ASSUME NEW s \in Surface
    PROVE  /\ s \in AncestorsOrSelf(s)
           /\ \A x \in AncestorsOrSelf(s) :
                 parent[x] \in Surface => parent[x] \in AncestorsOrSelf(s)
  BY DEF AncestorsOrSelf

\* It is the least such set.
LEMMA AncestorsLeast ==
    ASSUME NEW s \in Surface, NEW S \in SUBSET Surface, s \in S,
           \A x \in S : parent[x] \in Surface => parent[x] \in S
    PROVE  AncestorsOrSelf(s) \subseteq S
  BY DEF AncestorsOrSelf

\* The ancestors of an ancestor are ancestors.
LEMMA AncestorsTransitive ==
    ASSUME NEW x \in Surface, NEW p \in AncestorsOrSelf(x)
    PROVE  p \in Surface /\ AncestorsOrSelf(p) \subseteq AncestorsOrSelf(x)
  <1>1. p \in Surface /\ AncestorsOrSelf(x) \in SUBSET Surface
    BY DEF AncestorsOrSelf
  <1>2. QED
    BY <1>1, AncestorsClosed, AncestorsLeast

\* The ancestors of a surface, one step up.
LEMMA AncestorsUnfold ==
    ASSUME NEW x \in Surface, NEW y \in AncestorsOrSelf(x), y # x
    PROVE  parent[x] \in Surface /\ y \in AncestorsOrSelf(parent[x])
  <1> DEFINE S == {x} \cup {z \in Surface : parent[x] \in Surface /\ z \in AncestorsOrSelf(parent[x])}
  <1>1. \A z \in S : parent[z] \in Surface => parent[z] \in S
    BY AncestorsClosed
  <1>2. S \in SUBSET Surface /\ x \in S
    OBVIOUS
  <1> HIDE DEF S
  <1>3. y \in S
    BY <1>1, <1>2, AncestorsLeast
  <1>4. QED
    BY <1>3 DEF S

\* Of two ancestors of a surface one is an ancestor of the other.
LEMMA AncestorsComparable ==
    ASSUME NEW x \in Surface, NEW p \in AncestorsOrSelf(x), NEW c \in AncestorsOrSelf(x)
    PROVE  p \in AncestorsOrSelf(c) \/ c \in AncestorsOrSelf(p)
  <1> DEFINE S == {y \in Surface : c \in AncestorsOrSelf(y)} \cup AncestorsOrSelf(c)
  <1>1. c \in Surface /\ p \in Surface
    BY AncestorsTransitive
  <1>2. AncestorsOrSelf(c) \in SUBSET Surface
    BY DEF AncestorsOrSelf
  <1>3. S \in SUBSET Surface /\ x \in S
    BY <1>2
  <1>4. ASSUME NEW y \in S, parent[y] \in Surface PROVE parent[y] \in S
    <2>1. CASE y \in AncestorsOrSelf(c)
      BY <2>1, <1>1, <1>4, AncestorsClosed
    <2>2. CASE y \notin AncestorsOrSelf(c)
      <3>1. c \in AncestorsOrSelf(y) /\ y \in Surface /\ c # y
        BY <2>2, <1>1, <1>4, AncestorsClosed
      <3>2. c \in AncestorsOrSelf(parent[y])
        BY <3>1, AncestorsUnfold
      <3>3. QED
        BY <3>2, <1>4
    <2>3. QED
      BY <2>1, <2>2
  <1> HIDE DEF S
  <1>5. p \in S
    BY <1>3, <1>4, AncestorsLeast
  <1>6. QED
    BY <1>5 DEF S

\* Ancestors are kept by a step that keeps the links between them.
LEMMA AncestorsKept ==
    ASSUME NEW x \in Surface,
           \A y \in AncestorsOrSelf(x) : parent[y] \in Surface => parent'[y] = parent[y]
    PROVE  AncestorsOrSelf(x) \subseteq AncestorsOrSelf(x)'
  <1> DEFINE S == AncestorsOrSelf(x) \cap AncestorsOrSelf(x)'
  <1>1. S \in SUBSET Surface /\ AncestorsOrSelf(x) \in SUBSET Surface
    BY DEF AncestorsOrSelf
  <1>2. /\ x \in AncestorsOrSelf(x)'
        /\ \A y \in AncestorsOrSelf(x)' :
              parent'[y] \in Surface => parent'[y] \in AncestorsOrSelf(x)'
    BY DEF AncestorsOrSelf
  <1>3. x \in S
    BY <1>2, AncestorsClosed
  <1>4. \A y \in S : parent[y] \in Surface => parent[y] \in S
    BY <1>2, AncestorsClosed
  <1> HIDE DEF S
  <1>5. AncestorsOrSelf(x) \subseteq S
    BY <1>1, <1>3, <1>4, AncestorsLeast
  <1>6. QED
    BY <1>5 DEF S

\* Cutting links cannot create a cycle.
LEMMA CuttingKeepsForest ==
    ASSUME ForestInv, NEW q \in [Surface -> Surface \cup {None}],
           \A s \in Surface : q[s] = parent[s] \/ q[s] = None,
           NEW S \in SUBSET Surface, S # {}
    PROVE  \E s \in S : q[s] \notin S
  <1>1. PICK s \in S : parent[s] \notin S
    BY DEF ForestInv, Acyclic
  <1>2. q[s] \notin S
    BY <1>1, NoneAssumption
  <1>3. QED
    BY <1>2

\* Linking c below p, where c is neither p nor an ancestor of p, cannot create
\* a cycle: the check in set_parent is enough.
LEMMA LinkingKeepsForest ==
    ASSUME ForestInv, NEW c \in Surface, NEW p \in Surface,
           c \notin AncestorsOrSelf(p),
           NEW S \in SUBSET Surface, S # {}
    PROVE  \E s \in S : [parent EXCEPT ![c] = p][s] \notin S
  <1> DEFINE q == [parent EXCEPT ![c] = p]
             A == S \cap AncestorsOrSelf(p)
  <1>1. \A s \in Surface : s # c => q[s] = parent[s]
    BY DEF ForestInv, ParentTyped
  <1>2. q[c] = p
    BY DEF ForestInv, ParentTyped
  \* Without p in S the new link leads out of S.
  <1>3. CASE p \notin S
    <2>1. PICK s \in S : parent[s] \notin S
      BY DEF ForestInv, Acyclic
    <2>2. q[s] \notin S
      BY <2>1, <1>1, <1>2, <1>3
    <2>3. QED
      BY <2>2
  \* With p in S, look at the ancestors of p in S; c is not among them.
  <1>4. CASE p \in S
    <2>1. p \in A /\ A \in SUBSET Surface
      BY <1>4, AncestorsClosed
    <2>2. PICK a \in A : parent[a] \notin A
      BY <2>1 DEF ForestInv, Acyclic
    <2>3. a # c /\ a \in Surface /\ a \in S /\ a \in AncestorsOrSelf(p)
      BY <2>2
    <2>4. parent[a] \notin S
      <3>1. SUFFICES ASSUME parent[a] \in S PROVE FALSE
        OBVIOUS
      <3>2. parent[a] \in AncestorsOrSelf(p)
        BY <3>1, <2>3, AncestorsClosed
      <3>3. QED
        BY <3>1, <3>2, <2>2
    <2>5. q[a] \notin S
      BY <2>3, <2>4, <1>1
    <2>6. QED
      BY <2>3, <2>5
  <1>5. QED
    BY <1>3, <1>4

\* Every request and every destruction keeps the tree a forest.
LEMMA ForestStep == ForestInv /\ [TreeNext]_treeVars => ForestInv'
  <1> SUFFICES ASSUME ForestInv, [TreeNext]_treeVars PROVE ForestInv'
    OBVIOUS
  <1>a. ASSUME parent' = parent PROVE ForestInv'
    BY <1>a DEF ForestInv, ParentTyped, Acyclic
  <1>b. ASSUME parent' \in [Surface -> Surface \cup {None}],
               \A s \in Surface : parent'[s] = parent[s] \/ parent'[s] = None
        PROVE  ForestInv'
    BY <1>b, CuttingKeepsForest DEF ForestInv, ParentTyped, Acyclic
  <1>1. ASSUME NEW s \in Surface, SetRole(s) PROVE ForestInv'
    BY <1>1, <1>a DEF SetRole
  <1>2. ASSUME NEW s \in Surface, DestroySurface(s) PROVE ForestInv'
    <2>1. /\ parent' \in [Surface -> Surface \cup {None}]
          /\ \A c \in Surface : parent'[c] = parent[c] \/ parent'[c] = None
      BY <1>2 DEF DestroySurface, Orphaned, ForestInv, ParentTyped
    <2>2. QED
      BY <2>1, <1>b
  <1>3. ASSUME NEW o \in Subsurface, NEW c \in Surface, NEW p \in Surface,
               GetSubsurface(o, c, p)
        PROVE  ForestInv'
    <2>1. parent' = [parent EXCEPT ![c] = p] /\ c \notin AncestorsOrSelf(p)
      BY <1>3 DEF GetSubsurface, CanSetParent
    <2>2. Acyclic'
      BY <2>1, LinkingKeepsForest DEF Acyclic
    <2>3. QED
      BY <2>1, <2>2 DEF ForestInv, ParentTyped
  <1>4. ASSUME NEW o \in Subsurface, NEW to \in {"Before", "After"}, NEW s \in Surface,
               Reorder(o, to, s)
        PROVE  ForestInv'
    BY <1>4, <1>a DEF Reorder
  <1>5. ASSUME NEW o \in Subsurface, SetSync(o) \/ SetDesync(o) PROVE ForestInv'
    BY <1>5, <1>a DEF SetSync, SetDesync
  <1>6. ASSUME NEW o \in Subsurface, DestroySubsurface(o) PROVE ForestInv'
    <2>1. /\ parent' \in [Surface -> Surface \cup {None}]
          /\ \A c \in Surface : parent'[c] = parent[c] \/ parent'[c] = None
      BY <1>6 DEF DestroySubsurface, ForestInv, ParentTyped
    <2>2. QED
      BY <2>1, <1>b
  <1>7. CASE UNCHANGED treeVars
    BY <1>7, <1>a DEF treeVars
  <1>8. QED
    BY <1>1, <1>2, <1>3, <1>4, <1>5, <1>6, <1>7 DEF TreeNext

\* The parent links never form a cycle, whatever requests clients send and in
\* whatever order objects are destroyed: the recursions of commit, is_ancestor
\* and is_effectively_sync end.
THEOREM TreeIsForest == TreeSpec => []Acyclic
  <1>1. TreeInit => ForestInv
    <2> SUFFICES ASSUME TreeInit PROVE ForestInv
      OBVIOUS
    <2>1. parent = [s \in Surface |-> None]
      BY DEF TreeInit
    <2>2. QED
      BY <2>1, NoneAssumption DEF ForestInv, ParentTyped, Acyclic
  <1>2. ForestInv => Acyclic
    BY DEF ForestInv
  <1>3. QED
    BY <1>1, <1>2, ForestStep, PTL DEF TreeSpec
-----------------------------------------------------------------------------
(* The operations on the child lists. *)

\* Retain removes every occurrence of s and nothing else.
LEMMA RetainProperties ==
    ASSUME NEW S, NEW q \in Seq(S), NEW s
    PROVE  /\ Retain(q, s) \in Seq(S)
           /\ ToSet(Retain(q, s)) = ToSet(q) \ {s}
           /\ IsInjective(q) => IsInjective(Retain(q, s))
  <1> DEFINE K == {k \in DOMAIN q : q[k] # s}
             r == Select(q, K)
  <1>1. Retain(q, s) = r
    BY DEF Retain
  <1>2. K \in SUBSET DOMAIN q
    OBVIOUS
  <1> HIDE DEF r
  <1>3. PICK m : /\ r \in Seq(S)
                 /\ Enumerates(m, Len(r), K)
                 /\ \A j \in DOMAIN r : r[j] = q[m[j]]
    <2> HIDE DEF K
    <2> QED
      BY <1>2, SelectIsSubsequence DEF r
  <1>4. DOMAIN r = 1 .. Len(r)
    BY <1>3
  <1>5. \A j \in DOMAIN r : m[j] \in DOMAIN q /\ q[m[j]] # s
    BY <1>3, <1>4 DEF Enumerates
  <1>6. \A k \in DOMAIN q : q[k] # s => \E j \in DOMAIN r : r[j] = q[k]
    BY <1>3, <1>4 DEF Enumerates
  <1>7. ToSet(r) = ToSet(q) \ {s}
    BY <1>3, <1>5, <1>6 DEF ToSet
  <1>8. ASSUME IsInjective(q) PROVE IsInjective(r)
    <2>1. \A j, k \in DOMAIN r : r[j] = r[k] => m[j] = m[k]
      BY <1>8, <1>3, <1>5 DEF IsInjective
    <2>2. \A j \in DOMAIN r : m[j] \in Int
      BY <1>5
    <2>3. \A j, k \in DOMAIN r : m[j] = m[k] => j = k
      BY <2>2, <1>3, <1>4 DEF Enumerates
    <2>4. QED
      BY <2>1, <2>3 DEF IsInjective
  <1>9. QED
    BY <1>1, <1>3, <1>7, <1>8

\* Append adds a child that is not in the list yet.
LEMMA AppendChild ==
    ASSUME NEW S, NEW q \in Seq(S), NEW c \in S
    PROVE  /\ Append(q, c) \in Seq(S)
           /\ ToSet(Append(q, c)) = ToSet(q) \cup {c}
           /\ IsInjective(q) /\ c \notin ToSet(q) => IsInjective(Append(q, c))
  <1>1. /\ Append(q, c) \in Seq(S) /\ DOMAIN Append(q, c) = 1 .. Len(q) + 1
        /\ \A k \in 1 .. Len(q) : Append(q, c)[k] = q[k]
        /\ Append(q, c)[Len(q) + 1] = c
    OBVIOUS
  <1>2. DOMAIN q = 1 .. Len(q) /\ Len(q) \in Nat
    OBVIOUS
  <1>3. \A k \in DOMAIN Append(q, c) : k \in DOMAIN q \/ k = Len(q) + 1
    BY <1>1, <1>2
  <1> DEFINE a == Append(q, c)
  <1> HIDE DEF a
  <1>4. /\ \A k \in DOMAIN q : k \in DOMAIN a /\ a[k] = q[k]
        /\ Len(q) + 1 \in DOMAIN a /\ a[Len(q) + 1] = c
        /\ \A k \in DOMAIN a : k \in DOMAIN q \/ k = Len(q) + 1
    BY <1>1, <1>2, <1>3 DEF a
  <1>5. ToSet(a) = ToSet(q) \cup {c}
    BY <1>4 DEF ToSet
  <1>6. IsInjective(q) /\ c \notin ToSet(q) => IsInjective(a)
    BY <1>4 DEF ToSet, IsInjective
  <1>7. QED
    BY <1>1, <1>5, <1>6 DEF a

\* IndexOf finds an element that is there.
LEMMA IndexOfFinds ==
    ASSUME NEW q, NEW s \in ToSet(q)
    PROVE  IndexOf(q, s) \in DOMAIN q /\ q[IndexOf(q, s)] = s
  BY DEF ToSet, IndexOf

\* Where reorder inserts is in range unless a surface is placed relative to
\* itself.
LEMMA NewIndexInRange ==
    ASSUME NEW n \in Nat, NEW me \in 1 .. n, NEW other \in 1 .. n, NEW to, me # other
    PROVE  NewIndex(me, other, to) \in 1 .. n
  BY DEF NewIndex

\* RemoveAt leaves out one position.
LEMMA RemoveAtElements ==
    ASSUME NEW S, NEW q \in Seq(S), NEW me \in DOMAIN q
    PROVE  /\ RemoveAt(q, me) \in Seq(S) /\ Len(RemoveAt(q, me)) = Len(q) - 1
           /\ \A k \in 1 .. Len(q) - 1 :
                 RemoveAt(q, me)[k] = IF k < me THEN q[k] ELSE q[k + 1]
  <1> DEFINE a == SubSeq(q, 1, me - 1)
             b == SubSeq(q, me + 1, Len(q))
             rest == RemoveAt(q, me)
  <1>1. a \in Seq(S) /\ Len(a) = me - 1 /\ b \in Seq(S) /\ Len(b) = Len(q) - me
    OBVIOUS
  <1>2. /\ \A k \in 1 .. me - 1 : a[k] = q[k]
        /\ \A k \in 1 .. Len(q) - me : b[k] = q[k + me]
    OBVIOUS
  <1>3. rest = a \o b
    BY DEF RemoveAt
  <1> HIDE DEF a, b, rest
  <1>4. rest \in Seq(S) /\ Len(rest) = Len(q) - 1
    BY <1>1, <1>3
  <1>5. ASSUME NEW k \in 1 .. Len(q) - 1
        PROVE  rest[k] = IF k < me THEN q[k] ELSE q[k + 1]
    <2>1. rest[k] = IF k <= Len(a) THEN a[k] ELSE b[k - Len(a)]
      BY <1>1, <1>3
    <2>2. QED
      BY <2>1, <1>1, <1>2
  <1>6. QED
    BY <1>4, <1>5 DEF rest

\* InsertAt moves the elements from position n on up by one.
LEMMA InsertAtElements ==
    ASSUME NEW S, NEW q \in Seq(S), NEW n \in 1 .. Len(q) + 1, NEW x \in S
    PROVE  /\ InsertAt(q, n, x) \in Seq(S) /\ Len(InsertAt(q, n, x)) = Len(q) + 1
           /\ \A k \in 1 .. Len(q) + 1 :
                 InsertAt(q, n, x)[k] = IF k < n THEN q[k] ELSE IF k = n THEN x ELSE q[k - 1]
  <1> DEFINE a == SubSeq(q, 1, n - 1)
             b == SubSeq(q, n, Len(q))
             e == <<x>>
             ae == a \o e
             r == InsertAt(q, n, x)
  <1>1. n \in Nat \ {0} /\ Len(q) \in Nat /\ n <= Len(q) + 1
    OBVIOUS
  <1>2. a \in Seq(S) /\ Len(a) = n - 1 /\ b \in Seq(S) /\ Len(b) = Len(q) - n + 1
    OBVIOUS
  <1>3. e \in Seq(S) /\ Len(e) = 1 /\ e[1] = x
    OBVIOUS
  <1>4. /\ \A k \in 1 .. n - 1 : a[k] = q[k]
        /\ \A k \in 1 .. Len(q) - n + 1 : b[k] = q[k + n - 1]
    OBVIOUS
  <1>5. r = ae \o b
    BY DEF InsertAt
  <1> HIDE DEF a, b, e, r
  <1>6. /\ ae \in Seq(S) /\ Len(ae) = Len(a) + Len(e)
        /\ \A k \in 1 .. Len(a) + Len(e) : ae[k] = IF k <= Len(a) THEN a[k] ELSE e[k - Len(a)]
    BY <1>2, <1>3, ConcatProperties
  <1> HIDE DEF ae
  <1>7. Len(ae) = n /\ \A k \in 1 .. n : ae[k] = IF k < n THEN q[k] ELSE x
    <2>1. Len(ae) = n
      BY <1>1, <1>2, <1>3, <1>6
    <2>2. ASSUME NEW k \in 1 .. n PROVE ae[k] = IF k < n THEN q[k] ELSE x
      <3>1. ae[k] = IF k <= Len(a) THEN a[k] ELSE e[k - Len(a)]
        BY <1>1, <1>2, <1>3, <1>6, SMTT(30)
      <3>2. QED
        BY <3>1, <1>1, <1>2, <1>3, <1>4, SMTT(30)
    <2>3. QED
      BY <2>1, <2>2
  <1>8. /\ r \in Seq(S) /\ Len(r) = Len(ae) + Len(b)
        /\ \A k \in 1 .. Len(ae) + Len(b) : r[k] = IF k <= Len(ae) THEN ae[k] ELSE b[k - Len(ae)]
    <2>1. ae \in Seq(S) /\ b \in Seq(S)
      BY <1>2, <1>6
    <2>2. QED
      BY <2>1, <1>5, ConcatProperties
  <1>9. Len(ae) + Len(b) = Len(q) + 1
    BY <1>1, <1>2, <1>7
  <1>10. ASSUME NEW k \in 1 .. Len(q) + 1
         PROVE  r[k] = IF k < n THEN q[k] ELSE IF k = n THEN x ELSE q[k - 1]
    <2>1. r[k] = IF k <= n THEN ae[k] ELSE b[k - n]
      BY <1>7, <1>8, <1>9
    <2>2. CASE k <= n
      BY <2>1, <2>2, <1>1, <1>7
    <2>3. CASE k > n
      <3>1. k - n \in 1 .. Len(q) - n + 1 /\ (k - n) + n - 1 = k - 1
        BY <2>3, <1>1
      <3>2. QED
        BY <2>1, <2>3, <3>1, <1>1, <1>4
    <2>4. QED
      BY <2>2, <2>3, <1>1
  <1>11. QED
    BY <1>8, <1>9, <1>10 DEF r

\* Where position k # me of a list is once me was removed and, then, something
\* was inserted at n.
PositionAfter(k, me, n) ==
    LET p == IF k < me THEN k ELSE k - 1 IN IF p < n THEN p ELSE p + 1

\* Removing an element and inserting it elsewhere in range permutes the list;
\* the other elements keep their order.
LEMMA MovePermutes ==
    ASSUME NEW S, NEW q \in Seq(S), NEW me \in DOMAIN q, NEW n \in 1 .. Len(q)
    PROVE  LET r == InsertAt(RemoveAt(q, me), n, q[me])
           IN  /\ r \in Seq(S) /\ Len(r) = Len(q)
               /\ ToSet(r) = ToSet(q)
               /\ IsInjective(q) => IsInjective(r)
               /\ r[n] = q[me]
               /\ \A k \in DOMAIN q \ {me} : r[PositionAfter(k, me, n)] = q[k]
               /\ RemoveAt(r, n) = RemoveAt(q, me)
  <1> DEFINE rest == RemoveAt(q, me)
             r == InsertAt(rest, n, q[me])
             \* where position k of q goes
             past(k) == IF k < me THEN k ELSE k - 1
             to(k) == IF k = me THEN n ELSE IF past(k) < n THEN past(k) ELSE past(k) + 1
  <1>1. /\ rest \in Seq(S) /\ Len(rest) = Len(q) - 1
        /\ \A k \in 1 .. Len(q) - 1 : rest[k] = IF k < me THEN q[k] ELSE q[k + 1]
    BY RemoveAtElements
  <1> HIDE DEF rest
  <1>2. /\ r \in Seq(S) /\ Len(r) = Len(q)
        /\ \A k \in 1 .. Len(q) :
              r[k] = IF k < n THEN rest[k] ELSE IF k = n THEN q[me] ELSE rest[k - 1]
    <2>1. q[me] \in S /\ n \in 1 .. Len(rest) + 1 /\ Len(rest) + 1 = Len(q)
      BY <1>1
    <2>2. QED
      BY <2>1, <1>1, InsertAtElements
  <1> HIDE DEF r
  <1>3. DOMAIN q = 1 .. Len(q) /\ DOMAIN r = 1 .. Len(q) /\ Len(q) \in Nat
    BY <1>2
  <1>4. \A k \in DOMAIN q : to(k) \in DOMAIN r /\ r[to(k)] = q[k]
    <2>1. TAKE k \in DOMAIN q
    <2>2. CASE k = me
      BY <2>2, <1>2, <1>3
    <2>3. CASE k < me
      BY <2>3, <1>1, <1>2, <1>3
    <2>4. CASE k > me
      <3>1. k - 1 \in 1 .. Len(q) - 1 /\ rest[k - 1] = q[k] /\ past(k) = k - 1
        BY <2>4, <1>1, <1>3, SMTT(30)
      <3>2. QED
        BY <2>4, <3>1, <1>2, <1>3
    <2>5. QED
      BY <2>2, <2>3, <2>4, <1>3
  <1>5. \A k \in DOMAIN r : \E j \in DOMAIN q : to(j) = k
    <2>1. TAKE k \in DOMAIN r
    <2> DEFINE h == IF k < n THEN k ELSE k - 1
               j == IF k = n THEN me ELSE IF h < me THEN h ELSE h + 1
    <2>2. j \in DOMAIN q /\ to(j) = k
      BY <1>3
    <2>3. QED
      BY <2>2
  <1> HIDE DEF to, past
  <1>6. ToSet(r) = ToSet(q)
    BY <1>4, <1>5 DEF ToSet
  <1>7. IsInjective(q) => IsInjective(r)
    BY <1>4, <1>5 DEF IsInjective
  <1>8. RemoveAt(r, n) = rest
    <2>1. n \in DOMAIN r
      BY <1>3
    <2>2. /\ RemoveAt(r, n) \in Seq(S) /\ Len(RemoveAt(r, n)) = Len(q) - 1
          /\ \A k \in 1 .. Len(q) - 1 : RemoveAt(r, n)[k] = IF k < n THEN r[k] ELSE r[k + 1]
      BY <2>1, <1>2, RemoveAtElements
    <2>3. \A k \in 1 .. Len(q) - 1 : RemoveAt(r, n)[k] = rest[k]
      <3>1. TAKE k \in 1 .. Len(q) - 1
      <3>2. CASE k < n
        BY <3>2, <2>2, <1>2, <1>3
      <3>3. CASE ~ (k < n)
        <4>1. k + 1 \in 1 .. Len(q) /\ ~ (k + 1 < n) /\ k + 1 # n /\ (k + 1) - 1 = k
          BY <3>3, <1>3
        <4>2. RemoveAt(r, n)[k] = r[k + 1]
          BY <3>3, <2>2
        <4>3. QED
          BY <4>1, <4>2, <1>2
      <3>4. QED
        BY <3>2, <3>3
    <2>4. QED
      BY <2>2, <2>3, <1>1, SeqEqual
  <1>9. r[n] = q[me]
    BY <1>2, <1>3
  <1>10. \A k \in DOMAIN q \ {me} : r[PositionAfter(k, me, n)] = q[k]
    BY <1>4 DEF to, past, PositionAfter
  <1>11. QED
    BY <1>2, <1>6, <1>7, <1>8, <1>9, <1>10 DEF r, rest
-----------------------------------------------------------------------------
(* Parent links and child lists agree. *)

TreeInv == TreeTypeOK /\ Acyclic /\ LinksAgree

\* Who is in whose list, for the states the invariant allows.
LEMMA KidsAreChildren ==
    ASSUME TreeInv
    PROVE  /\ \A p \in Surface : Kids(p) = {c \in Surface : parent[c] = p}
           /\ \A s \in Surface : parent[s] # s
           /\ \A s \in Surface : parent[s] # None => parent[s] \in alive /\ s \in alive
  <1>1. \A s \in Surface : parent[s] # s
    <2>1. TAKE s \in Surface
    <2>2. {s} \in SUBSET Surface /\ {s} # {}
      OBVIOUS
    <2>3. QED
      BY <2>2 DEF TreeInv, Acyclic
  <1>2. ASSUME NEW p \in Surface PROVE Kids(p) = {c \in Surface : parent[c] = p}
    <2>1. CASE p \in alive
      BY <2>1, <1>1 DEF TreeInv, LinksAgree, Kids
    <2>2. CASE p \notin alive
      <3>1. children[p] = <<>> /\ \A c \in Surface : parent[c] # p
        BY <2>2, NoneAssumption DEF TreeInv, LinksAgree
      <3>2. ToSet(<<>>) = {}
        BY DEF ToSet
      <3>3. QED
        BY <3>1, <3>2 DEF Kids
    <2>3. QED
      BY <2>1, <2>2
  <1>3. QED
    BY <1>1, <1>2 DEF TreeInv, LinksAgree

\* The lists once s has left the list of its parent.
LEMMA UnlinkedLists ==
    ASSUME TreeInv, NEW s \in Surface
    PROVE  /\ Unlinked(s) \in [Surface -> Seq(Surface)]
           /\ \A p \in alive : /\ ToSet(Unlinked(s)[p]) =
                                    {p} \cup {c \in Surface \ {s} : parent[c] = p}
                               /\ IsInjective(Unlinked(s)[p])
           /\ \A p \in Surface \ alive : Unlinked(s)[p] = <<>>
  <1>1. children \in [Surface -> Seq(Surface)] /\ alive \subseteq Surface
    BY DEF TreeInv, TreeTypeOK
  <1>2. \A p \in alive : /\ ToSet(children[p]) = {p} \cup {c \in Surface : parent[c] = p}
                         /\ IsInjective(children[p])
    BY DEF TreeInv, LinksAgree
  <1>3. \A p \in Surface \ alive : children[p] = <<>>
    BY DEF TreeInv, LinksAgree
  <1>4. CASE parent[s] = None
    <2>1. \A p \in alive : {c \in Surface \ {s} : parent[c] = p} = {c \in Surface : parent[c] = p}
      BY <1>4, <1>1, NoneAssumption
    <2>2. QED
      BY <1>1, <1>2, <1>3, <1>4, <2>1 DEF Unlinked
  <1>5. CASE parent[s] # None
    <2> DEFINE a == parent[s]
               u == [children EXCEPT ![a] = Retain(children[a], s)]
    <2>1. a \in alive /\ a # s /\ a \in Surface
      BY <1>1, <1>5, KidsAreChildren
    <2>2. Unlinked(s) = u
      BY <1>5 DEF Unlinked
    <2>3. /\ Retain(children[a], s) \in Seq(Surface)
          /\ ToSet(Retain(children[a], s)) = ToSet(children[a]) \ {s}
          /\ IsInjective(Retain(children[a], s))
      BY <1>1, <1>2, <2>1, RetainProperties
    <2>4. u \in [Surface -> Seq(Surface)] /\ u[a] = Retain(children[a], s)
          /\ \A p \in Surface : p # a => u[p] = children[p]
      BY <1>1, <2>1, <2>3
    <2>5. ASSUME NEW p \in alive
          PROVE  /\ ToSet(u[p]) = {p} \cup {c \in Surface \ {s} : parent[c] = p}
                 /\ IsInjective(u[p])
      <3>1. CASE p = a
        BY <3>1, <2>1, <2>3, <2>4, <1>2
      <3>2. CASE p # a
        <4>1. u[p] = children[p] /\ {c \in Surface \ {s} : parent[c] = p} = {c \in Surface : parent[c] = p}
          BY <3>2, <2>4, <1>1
        <4>2. QED
          BY <4>1, <1>2
      <3>3. QED
        BY <3>1, <3>2
    <2>6. QED
      BY <2>2, <2>4, <2>5, <2>1, <1>3
  <1>6. QED
    BY <1>4, <1>5

\* get_subsurface links both ways.
LEMMA GetSubsurfaceKeepsLinks ==
    ASSUME TreeInv, NEW o \in Subsurface, NEW c \in Surface, NEW p \in Surface,
           GetSubsurface(o, c, p)
    PROVE  TreeTypeOK' /\ LinksAgree'
  <1>1. /\ c \in alive /\ p \in alive /\ parent[c] = None /\ c # p
        /\ alive' = alive /\ panicked' = panicked
        /\ parent' = [parent EXCEPT ![c] = p]
        /\ children' = [children EXCEPT ![p] = Append(children[p], c)]
        /\ role' = [role EXCEPT ![c] = "subsurface"]
        /\ subsurface' = [subsurface EXCEPT ![o] = c]
        /\ sync' = [sync EXCEPT ![c] = IF sync[c] = "unset" THEN "sync" ELSE sync[c]]
    BY AncestorsClosed DEF GetSubsurface, CanSetParent, WithState
  <1>2. /\ children \in [Surface -> Seq(Surface)]
        /\ parent \in [Surface -> Surface \cup {None}]
        /\ alive \subseteq Surface
    BY DEF TreeInv, TreeTypeOK
  <1>3. /\ ToSet(children[p]) = {p} \cup {x \in Surface : parent[x] = p}
        /\ IsInjective(children[p])
    BY <1>1 DEF TreeInv, LinksAgree
  <1>4. c \notin ToSet(children[p])
    BY <1>1, <1>3, NoneAssumption
  <1>5. /\ Append(children[p], c) \in Seq(Surface)
        /\ ToSet(Append(children[p], c)) = ToSet(children[p]) \cup {c}
        /\ IsInjective(Append(children[p], c))
    BY <1>2, <1>3, <1>4, AppendChild
  <1>6. TreeTypeOK'
    <2>1. children' \in [Surface -> Seq(Surface)] /\ parent' \in [Surface -> Surface \cup {None}]
      BY <1>1, <1>2, <1>5
    <2>2. role' \in [Surface -> Role] /\ sync' \in [Surface -> Sync]
      BY <1>1 DEF TreeInv, TreeTypeOK, Role, Sync
    <2>3. subsurface' \in [Subsurface -> Surface \cup {None}]
      BY <1>1 DEF TreeInv, TreeTypeOK
    <2>4. \A x \in Subsurface : subsurface'[x] # None => sync'[subsurface'[x]] # "unset"
      BY <1>1 DEF TreeInv, TreeTypeOK, Sync
    <2>5. QED
      BY <2>1, <2>2, <2>3, <2>4, <1>1 DEF TreeInv, TreeTypeOK
  <1>7. ASSUME NEW a \in alive
        PROVE  /\ ToSet(children'[a]) = {a} \cup {x \in Surface : parent'[x] = a}
               /\ IsInjective(children'[a])
    <2>1. CASE a = p
      <3>1. {x \in Surface : parent'[x] = p} = {x \in Surface : parent[x] = p} \cup {c}
        BY <1>1, <1>2
      <3>2. children'[p] = Append(children[p], c)
        BY <1>1, <1>2
      <3>3. QED
        BY <2>1, <3>1, <3>2, <1>3, <1>5
    <2>2. CASE a # p
      <3>1. {x \in Surface : parent'[x] = a} = {x \in Surface : parent[x] = a}
        BY <2>2, <1>1, <1>2, NoneAssumption
      <3>2. children'[a] = children[a]
        BY <2>2, <1>1, <1>2
      <3>3. QED
        BY <3>1, <3>2 DEF TreeInv, LinksAgree
    <2>3. QED
      BY <2>1, <2>2
  <1>8. \A x \in Surface \ alive : parent'[x] = None /\ children'[x] = <<>>
    BY <1>1, <1>2 DEF TreeInv, LinksAgree
  <1>9. \A x \in Surface : parent'[x] \in alive \cup {None}
    BY <1>1, <1>2 DEF TreeInv, LinksAgree
  <1>10. QED
    BY <1>1, <1>6, <1>7, <1>8, <1>9 DEF LinksAgree

\* reorder permutes one list, or changes none; out of range only for a surface
\* placed relative to itself.
LEMMA ReorderKeepsLinks ==
    ASSUME TreeInv, NEW o \in Subsurface, NEW to \in {"Before", "After"},
           NEW r \in Surface, Reorder(o, to, r)
    PROVE  /\ TreeTypeOK' /\ LinksAgree'
           /\ r # subsurface[o] => UNCHANGED panicked
  <1> DEFINE s == subsurface[o]
             q == children[parent[s]]
             me == IndexOf(q, s)
             rest == RemoveAt(q, me)
             new == NewIndex(me, IndexOf(q, r), to)
  <1>1. /\ s # None /\ parent[s] # None /\ r \in ToSet(q)
        /\ UNCHANGED <<alive, parent, role, subsurface, sync>>
        /\ \/ /\ new <= Len(rest) + 1 /\ UNCHANGED panicked
              /\ children' = [children EXCEPT ![parent[s]] = InsertAt(rest, new, s)]
           \/ ~ (new <= Len(rest) + 1) /\ panicked' = TRUE /\ UNCHANGED children
    BY DEF Reorder
  <1>2. /\ children \in [Surface -> Seq(Surface)]
        /\ parent \in [Surface -> Surface \cup {None}]
        /\ alive \subseteq Surface /\ s \in Surface /\ panicked \in BOOLEAN
    BY <1>1 DEF TreeInv, TreeTypeOK
  <1>3. /\ parent[s] \in alive /\ parent[s] \in Surface
        /\ ToSet(q) = {parent[s]} \cup {c \in Surface : parent[c] = parent[s]}
        /\ IsInjective(q)
    BY <1>1, <1>2, KidsAreChildren DEF TreeInv, LinksAgree
  <1>4. s \in ToSet(q) /\ q \in Seq(Surface)
    BY <1>2, <1>3
  <1>5. me \in DOMAIN q /\ q[me] = s /\ IndexOf(q, r) \in DOMAIN q /\ q[IndexOf(q, r)] = r
    BY <1>1, <1>4, IndexOfFinds
  <1>6. DOMAIN q = 1 .. Len(q) /\ Len(q) \in Nat
    BY <1>4
  <1> HIDE DEF q, me, s
  <1>7. Len(rest) = Len(q) - 1
    <2>1. Len(SubSeq(q, 1, me - 1)) = me - 1 /\ SubSeq(q, 1, me - 1) \in Seq(Surface)
      BY <1>4, <1>5, <1>6
    <2>2. Len(SubSeq(q, me + 1, Len(q))) = Len(q) - me /\ SubSeq(q, me + 1, Len(q)) \in Seq(Surface)
      BY <1>4, <1>5, <1>6
    <2>3. Len(rest) = (me - 1) + (Len(q) - me)
      BY <2>1, <2>2, ConcatProperties DEF RemoveAt
    <2>4. QED
      BY <2>3, <1>5, <1>6
  <1>8. new \in Int /\ new >= 1
    BY <1>5, <1>6 DEF NewIndex
  <1>9. ASSUME r # s PROVE UNCHANGED panicked
    <2>1. new \in 1 .. Len(q)
      BY <1>5, <1>6, <1>9, NewIndexInRange
    <2>2. QED
      BY <2>1, <1>1, <1>6, <1>7
  <1>10. CASE UNCHANGED children
    <2>1. LinksAgree'
      BY <1>1, <1>10 DEF TreeInv, LinksAgree
    <2>2. panicked' \in BOOLEAN
      BY <1>1, <1>2
    <2>3. TreeTypeOK'
      BY <1>1, <1>10, <2>2 DEF TreeInv, TreeTypeOK
    <2>4. QED
      BY <1>9, <2>1, <2>3 DEF s
  <1>11. CASE /\ new <= Len(rest) + 1 /\ UNCHANGED panicked
              /\ children' = [children EXCEPT ![parent[s]] = InsertAt(rest, new, s)]
    <2> DEFINE w == InsertAt(rest, new, s)
    <2>1. new \in 1 .. Len(q)
      BY <1>6, <1>7, <1>8, <1>11
    <2>2. w \in Seq(Surface) /\ ToSet(w) = ToSet(q) /\ IsInjective(w)
      <3>1. w = InsertAt(RemoveAt(q, me), new, q[me])
        BY <1>5
      <3> HIDE DEF w, new
      <3>2. QED
        <4> DEFINE m == me
                   at == new
        <4>1. q \in Seq(Surface) /\ m \in DOMAIN q /\ at \in 1 .. Len(q)
          BY <2>1, <1>4, <1>5
        <4>2. /\ InsertAt(RemoveAt(q, m), at, q[m]) \in Seq(Surface)
              /\ ToSet(InsertAt(RemoveAt(q, m), at, q[m])) = ToSet(q)
              /\ IsInjective(q) => IsInjective(InsertAt(RemoveAt(q, m), at, q[m]))
          <5> HIDE DEF m, at
          <5> QED
            BY <4>1, MovePermutes
        <4>3. QED
          BY <3>1, <4>2, <1>3
    <2> HIDE DEF w
    <2>3. /\ children' \in [Surface -> Seq(Surface)] /\ children'[parent[s]] = w
          /\ \A p \in Surface : p # parent[s] => children'[p] = children[p]
      BY <2>2, <1>2, <1>3, <1>11 DEF w
    <2>4. \A p \in alive : ToSet(children'[p]) = ToSet(children[p]) /\ IsInjective(children'[p])
      BY <2>2, <2>3, <1>2 DEF TreeInv, LinksAgree, q
    <2>5. \A p \in Surface \ alive : children'[p] = <<>>
      BY <2>3, <1>3 DEF TreeInv, LinksAgree
    <2>6. LinksAgree'
      BY <2>4, <2>5, <1>1 DEF TreeInv, LinksAgree
    <2>7. TreeTypeOK'
      BY <2>3, <1>1, <1>11 DEF TreeInv, TreeTypeOK
    <2>8. QED
      BY <1>9, <2>6, <2>7 DEF s
  <1>12. QED
    BY <1>1, <1>10, <1>11

\* Destroying a wl_subsurface unlinks its surface on both sides.
LEMMA DestroySubsurfaceKeepsLinks ==
    ASSUME TreeInv, NEW o \in Subsurface, DestroySubsurface(o)
    PROVE  TreeTypeOK' /\ LinksAgree'
  <1> DEFINE s == subsurface[o]
  <1>1. /\ s # None /\ children' = Unlinked(s) /\ parent' = [parent EXCEPT ![s] = None]
        /\ sync' = [sync EXCEPT ![s] = "sync"]
        /\ subsurface' = [subsurface EXCEPT ![o] = None]
        /\ UNCHANGED <<alive, role, panicked>>
    BY DEF DestroySubsurface
  <1>2. /\ parent \in [Surface -> Surface \cup {None}] /\ s \in Surface
        /\ subsurface \in [Subsurface -> Surface \cup {None}]
        /\ sync \in [Surface -> Sync] /\ alive \subseteq Surface
    BY <1>1 DEF TreeInv, TreeTypeOK
  <1> HIDE DEF s
  <1>3. /\ children' \in [Surface -> Seq(Surface)]
        /\ \A p \in alive : /\ ToSet(children'[p]) =
                                 {p} \cup {c \in Surface \ {s} : parent[c] = p}
                            /\ IsInjective(children'[p])
        /\ \A p \in Surface \ alive : children'[p] = <<>>
    BY <1>1, <1>2, UnlinkedLists
  <1>4. \A p \in alive : {c \in Surface : parent'[c] = p} = {c \in Surface \ {s} : parent[c] = p}
    BY <1>1, <1>2, NoneAssumption
  <1>5. LinksAgree'
    <2>1. \A x \in Surface : parent'[x] \in alive \cup {None}
      BY <1>1, <1>2 DEF TreeInv, LinksAgree
    <2>2. \A x \in Surface \ alive : parent'[x] = None
      BY <1>1, <1>2 DEF TreeInv, LinksAgree
    <2>3. QED
      BY <1>1, <1>3, <1>4, <2>1, <2>2 DEF LinksAgree
  <1>6. TreeTypeOK'
    <2>1. \A x \in Subsurface : subsurface'[x] # None => sync'[subsurface'[x]] # "unset"
      BY <1>1, <1>2 DEF TreeInv, TreeTypeOK
    <2>2. /\ parent' \in [Surface -> Surface \cup {None}]
          /\ subsurface' \in [Subsurface -> Surface \cup {None}]
          /\ sync' \in [Surface -> Sync]
      BY <1>1, <1>2 DEF Sync
    <2>3. QED
      BY <1>1, <1>3, <2>1, <2>2 DEF TreeInv, TreeTypeOK
  <1>7. QED
    BY <1>5, <1>6

\* Destroying a wl_surface unlinks it from its parent and orphans its children.
LEMMA DestroySurfaceKeepsLinks ==
    ASSUME TreeInv, NEW s \in Surface, DestroySurface(s)
    PROVE  TreeTypeOK' /\ LinksAgree'
  <1>1. /\ s \in alive /\ alive' = alive \ {s}
        /\ children' = [Unlinked(s) EXCEPT ![s] = <<>>]
        /\ parent' = Orphaned(s)
        /\ UNCHANGED <<role, subsurface, sync, panicked>>
    BY DEF DestroySurface
  <1>2. parent \in [Surface -> Surface \cup {None}] /\ alive \subseteq Surface
    BY DEF TreeInv, TreeTypeOK
  <1>3. /\ Unlinked(s) \in [Surface -> Seq(Surface)]
        /\ \A p \in alive : /\ ToSet(Unlinked(s)[p]) =
                                 {p} \cup {c \in Surface \ {s} : parent[c] = p}
                            /\ IsInjective(Unlinked(s)[p])
        /\ \A p \in Surface \ alive : Unlinked(s)[p] = <<>>
    BY UnlinkedLists
  <1>4. \A c \in Surface : parent'[c] = IF c = s \/ parent[c] = s THEN None ELSE parent[c]
    BY <1>1, KidsAreChildren DEF Orphaned
  <1>5. /\ children' \in [Surface -> Seq(Surface)] /\ children'[s] = <<>>
        /\ \A p \in Surface : p # s => children'[p] = Unlinked(s)[p]
    <2>1. <<>> \in Seq(Surface)
      OBVIOUS
    <2>2. QED
      BY <1>1, <1>3, <2>1
  <1>6. \A p \in alive' : {c \in Surface : parent'[c] = p} = {c \in Surface \ {s} : parent[c] = p}
    BY <1>1, <1>2, <1>4, NoneAssumption
  <1>7. LinksAgree'
    <2>1. \A x \in Surface : parent'[x] \in alive' \cup {None}
      BY <1>1, <1>4 DEF TreeInv, LinksAgree
    <2>2. \A x \in Surface \ alive' : parent'[x] = None /\ children'[x] = <<>>
      BY <1>1, <1>3, <1>4, <1>5 DEF TreeInv, LinksAgree
    <2>3. \A p \in alive' : /\ ToSet(children'[p]) = {p} \cup {c \in Surface : parent'[c] = p}
                            /\ IsInjective(children'[p])
      BY <1>1, <1>2, <1>3, <1>5, <1>6
    <2>4. QED
      BY <2>1, <2>2, <2>3 DEF LinksAgree
  <1>8. TreeTypeOK'
    <2>1. parent' \in [Surface -> Surface \cup {None}]
      BY <1>1, <1>2 DEF Orphaned
    <2>2. QED
      BY <1>1, <1>5, <2>1 DEF TreeInv, TreeTypeOK
  <1>9. QED
    BY <1>7, <1>8

\* In a list without repetitions retain removes one position.
LEMMA RetainIsRemoveAt ==
    ASSUME NEW S, NEW q \in Seq(S), IsInjective(q), NEW me \in DOMAIN q
    PROVE  Retain(q, q[me]) = RemoveAt(q, me)
  <1> DEFINE K == {k \in DOMAIN q : q[k] # q[me]}
             n == Len(q) - 1
             m == [j \in 1 .. n |-> IF j < me THEN j ELSE j + 1]
  <1>1. DOMAIN q = 1 .. Len(q) /\ Len(q) \in Nat /\ n \in Nat /\ me \in 1 .. Len(q)
    OBVIOUS
  <1>2. K = 1 .. Len(q) \ {me}
    BY <1>1 DEF IsInjective
  <1>3. Enumerates(m, n, K)
    <2>1. m \in [1 .. n -> K]
      BY <1>1, <1>2
    <2>2. \A j, k \in 1 .. n : j < k => m[j] < m[k]
      BY <1>1
    <2>3. ASSUME NEW x \in K PROVE \E j \in 1 .. n : m[j] = x
      <3>1. CASE x < me
        <4>1. x \in 1 .. n /\ m[x] = x
          BY <3>1, <1>1, <1>2
        <4>2. QED
          BY <4>1
      <3>2. CASE x > me
        <4>1. x - 1 \in 1 .. n /\ m[x - 1] = x
          BY <3>2, <1>1, <1>2
        <4>2. QED
          BY <4>1
      <3>3. QED
        BY <3>1, <3>2, <1>1, <1>2
    <2> HIDE DEF m, K, n
    <2>4. QED
      BY <2>1, <2>2, <2>3 DEF Enumerates
  <1>4. Cardinality(K) = n /\ \A j \in 1 .. n : Nth(K, j) = m[j]
    <2>1. K \in SUBSET (1 .. Len(q))
      BY <1>2
    <2> HIDE DEF m, K, n
    <2>2. QED
      BY <2>1, <1>1, <1>3, EnumerationRanks
  <1>5. Retain(q, q[me]) = [j \in 1 .. n |-> q[m[j]]]
    <2>1. Retain(q, q[me]) = Select(q, K)
      BY DEF Retain
    <2> HIDE DEF m, K, n
    <2>2. QED
      BY <2>1, <1>4 DEF Select
  <1>6. /\ RemoveAt(q, me) \in Seq(S) /\ Len(RemoveAt(q, me)) = n
        /\ \A k \in 1 .. n : RemoveAt(q, me)[k] = q[m[k]]
    BY <1>1, RemoveAtElements
  <1> HIDE DEF m, n
  <1>7. \A j \in 1 .. n : q[m[j]] \in S
    BY <1>3 DEF Enumerates
  <1>8. Retain(q, q[me]) \in Seq(S) /\ Len(Retain(q, q[me])) = n
    BY <1>1, <1>5, <1>7
  <1>9. \A k \in 1 .. n : Retain(q, q[me])[k] = RemoveAt(q, me)[k]
    BY <1>5, <1>6
  <1>10. QED
    BY <1>6, <1>8, <1>9, SeqEqual

\* Where reorder puts the surface is next to where its reference ends up.
LEMMA NewIndexAdjacent ==
    ASSUME NEW n \in Nat, NEW me \in 1 .. n, NEW other \in 1 .. n, me # other,
           NEW to \in {"Before", "After"}, NEW new, new = NewIndex(me, other, to)
    PROVE  /\ PositionAfter(other, me, new) \in 1 .. n
           /\ new = PositionAfter(other, me, new) + (IF to = "After" THEN 1 ELSE -1)
  <1>1. CASE me < other /\ to = "After"
    BY <1>1 DEF PositionAfter, NewIndex
  <1>2. CASE me < other /\ to = "Before"
    BY <1>2 DEF PositionAfter, NewIndex
  <1>3. CASE me > other /\ to = "After"
    BY <1>3 DEF PositionAfter, NewIndex
  <1>4. CASE me > other /\ to = "Before"
    BY <1>4 DEF PositionAfter, NewIndex
  <1>5. QED
    BY <1>1, <1>2, <1>3, <1>4

\* A successful reorder moves the surface next to its reference and nothing else.
LEMMA ReorderPlaces ==
    ASSUME TreeInv, NEW o \in Subsurface, NEW to \in {"Before", "After"},
           NEW r \in Surface, Reorder(o, to, r), r # subsurface[o]
    PROVE  LET s == subsurface[o]
               q == children'[parent[s]]
           IN  /\ IndexOf(q, s) = IndexOf(q, r) + (IF to = "After" THEN 1 ELSE -1)
               /\ Retain(q, s) = Retain(children[parent[s]], s)
  <1> DEFINE s == subsurface[o]
             q == children[parent[s]]
             me == IndexOf(q, s)
             other == IndexOf(q, r)
             new == NewIndex(me, other, to)
             w == children'[parent[s]]
  <1>1. /\ s # None /\ parent[s] # None /\ r \in ToSet(q)
        /\ \/ children' = [children EXCEPT ![parent[s]] = InsertAt(RemoveAt(q, me), new, s)]
           \/ ~ (new <= Len(RemoveAt(q, me)) + 1)
    BY DEF Reorder
  <1>2. /\ children \in [Surface -> Seq(Surface)] /\ s \in Surface
        /\ parent \in [Surface -> Surface \cup {None}]
    BY <1>1 DEF TreeInv, TreeTypeOK
  <1>3. /\ parent[s] \in alive /\ parent[s] \in Surface
        /\ ToSet(q) = {parent[s]} \cup {c \in Surface : parent[c] = parent[s]}
        /\ IsInjective(q)
    BY <1>1, <1>2, KidsAreChildren DEF TreeInv, LinksAgree
  <1>4. s \in ToSet(q) /\ q \in Seq(Surface)
    BY <1>2, <1>3
  <1>5. me \in DOMAIN q /\ q[me] = s /\ other \in DOMAIN q /\ q[other] = r
    BY <1>1, <1>4, IndexOfFinds
  <1>6. DOMAIN q = 1 .. Len(q) /\ Len(q) \in Nat /\ me # other
    BY <1>4, <1>5
  <1> HIDE DEF q, me, other, s
  <1>7. new \in 1 .. Len(q)
    BY <1>5, <1>6, NewIndexInRange
  <1>8. Len(RemoveAt(q, me)) = Len(q) - 1
    BY <1>4, <1>5, RemoveAtElements
  <1>9. w = InsertAt(RemoveAt(q, me), new, q[me])
    <2>1. children' = [children EXCEPT ![parent[s]] = InsertAt(RemoveAt(q, me), new, s)]
      BY <1>1, <1>6, <1>7, <1>8
    <2>2. QED
      BY <2>1, <1>2, <1>3, <1>5
  <1> HIDE DEF new, w
  <1>10. /\ w \in Seq(Surface) /\ Len(w) = Len(q) /\ ToSet(w) = ToSet(q) /\ IsInjective(w)
         /\ w[new] = s /\ w[PositionAfter(other, me, new)] = r
         /\ RemoveAt(w, new) = RemoveAt(q, me)
    <2>1. LET v == InsertAt(RemoveAt(q, me), new, q[me])
          IN  /\ v \in Seq(Surface) /\ Len(v) = Len(q)
              /\ ToSet(v) = ToSet(q)
              /\ IsInjective(q) => IsInjective(v)
              /\ v[new] = q[me]
              /\ \A k \in DOMAIN q \ {me} : v[PositionAfter(k, me, new)] = q[k]
              /\ RemoveAt(v, new) = RemoveAt(q, me)
      BY <1>4, <1>5, <1>7, MovePermutes, ZenonT(60)
    <2>2. QED
      BY <2>1, <1>3, <1>5, <1>6, <1>9
  <1>11. /\ PositionAfter(other, me, new) \in 1 .. Len(q)
         /\ new = PositionAfter(other, me, new) + (IF to = "After" THEN 1 ELSE -1)
    <2>1. new = NewIndex(me, other, to)
      BY DEF new
    <2>2. me \in 1 .. Len(q) /\ other \in 1 .. Len(q) /\ me # other /\ Len(q) \in Nat
      BY <1>5, <1>6
    <2>3. QED
      BY <2>1, <2>2, NewIndexAdjacent, ZenonT(60)
  <1>12. DOMAIN w = 1 .. Len(q)
    BY <1>10
  <1>13. IndexOf(w, s) \in DOMAIN w /\ w[IndexOf(w, s)] = s
         /\ IndexOf(w, r) \in DOMAIN w /\ w[IndexOf(w, r)] = r
    <2>1. s \in ToSet(w) /\ r \in ToSet(w)
      BY <1>1, <1>4, <1>10 DEF q
    <2>2. QED
      BY <2>1, IndexOfFinds
  <1>14. IndexOf(w, s) = new /\ IndexOf(w, r) = PositionAfter(other, me, new)
    BY <1>7, <1>10, <1>11, <1>12, <1>13 DEF IsInjective
  <1>15. Retain(w, s) = RemoveAt(w, new)
    BY <1>7, <1>10, <1>12, RetainIsRemoveAt
  <1>16. Retain(q, s) = RemoveAt(q, me)
    BY <1>3, <1>4, <1>5, RetainIsRemoveAt
  <1>17. QED
    BY <1>10, <1>11, <1>14, <1>15, <1>16 DEF w, q, s

\* Every request and every destruction keeps links and lists in agreement.
LEMMA TreeStep == TreeInv /\ [TreeNext]_treeVars => TreeInv'
  <1> SUFFICES ASSUME TreeInv, [TreeNext]_treeVars PROVE TreeInv'
    OBVIOUS
  <1>1. Acyclic'
    BY ForestStep DEF TreeInv, TreeTypeOK, ForestInv, ParentTyped
  <1>2. SUFFICES TreeTypeOK' /\ LinksAgree'
    BY <1>1 DEF TreeInv
  <1>3. ASSUME NEW s \in Surface, SetRole(s) PROVE TreeTypeOK' /\ LinksAgree'
    <2>1. role' \in [Surface -> Role]
      BY <1>3 DEF SetRole, TreeInv, TreeTypeOK, Role
    <2>2. QED
      BY <1>3, <2>1 DEF SetRole, TreeInv, TreeTypeOK, LinksAgree
  <1>4. ASSUME NEW o \in Subsurface, SetSync(o) \/ SetDesync(o)
        PROVE  TreeTypeOK' /\ LinksAgree'
    <2>1. /\ sync' \in [Surface -> Sync]
          /\ \A x \in Subsurface : subsurface[x] # None => sync'[subsurface[x]] # "unset"
      BY <1>4 DEF SetSync, SetDesync, TreeInv, TreeTypeOK, Sync
    <2>2. QED
      BY <1>4, <2>1 DEF SetSync, SetDesync, TreeInv, TreeTypeOK, LinksAgree
  <1>5. CASE UNCHANGED treeVars
    BY <1>5 DEF treeVars, TreeInv, TreeTypeOK, LinksAgree
  <1>6. QED
    BY <1>3, <1>4, <1>5, GetSubsurfaceKeepsLinks, ReorderKeepsLinks,
       DestroySubsurfaceKeepsLinks, DestroySurfaceKeepsLinks DEF TreeNext

LEMMA TreeInitial == TreeInit => TreeInv
  <1> SUFFICES ASSUME TreeInit PROVE TreeInv
    OBVIOUS
  <1>1. \A s \in Surface : <<s>> \in Seq(Surface)
    OBVIOUS
  <1>2. TreeTypeOK
    BY <1>1 DEF TreeInit, TreeTypeOK, Role, Sync
  <1>3. \A s \in Surface : ToSet(<<s>>) = {s} /\ IsInjective(<<s>>)
    BY DEF ToSet, IsInjective
  <1>4. LinksAgree
    BY <1>3, NoneAssumption DEF TreeInit, LinksAgree
  <1>5. Acyclic
    BY NoneAssumption DEF TreeInit, Acyclic
  <1>6. QED
    BY <1>2, <1>4, <1>5 DEF TreeInv

\* Every variable of the tree keeps its type, and a wl_subsurface always finds
\* the SubsurfaceState that set_sync and set_desync unwrap.
THEOREM TreeTyped == TreeSpec => []TreeTypeOK
  <1>1. TreeInv => TreeTypeOK
    BY DEF TreeInv
  <1>2. QED
    BY <1>1, TreeInitial, TreeStep, PTL DEF TreeSpec

\* The child list of a live surface always holds itself and exactly the
\* surfaces whose parent it is, each once, and nothing refers to a destroyed
\* surface: the unwrap of reorder finds its child.
THEOREM TreeLinksAgree == TreeSpec => []LinksAgree
  <1>1. TreeInv => LinksAgree
    BY DEF TreeInv
  <1>2. QED
    BY <1>1, TreeInitial, TreeStep, PTL DEF TreeSpec

\* Unless a client names a surface as its own sibling, reorder inserts in range
\* whatever the length of the list and the two positions are.
THEOREM ReorderInRange ==
    ASSUME SelfSibling = FALSE
    PROVE  TreeSpec => []NeverPanics
  <1> DEFINE Inv == TreeInv /\ NeverPanics
  <1>1. TreeInit => Inv
    BY TreeInitial DEF TreeInit, NeverPanics
  <1>2. Inv /\ [TreeNext]_treeVars => Inv'
    <2> SUFFICES ASSUME TreeInv, NeverPanics, [TreeNext]_treeVars PROVE NeverPanics'
      BY TreeStep
    <2>1. ASSUME NEW o \in Subsurface, NEW to \in {"Before", "After"}, NEW r \in Surface,
                 Reorder(o, to, r)
          PROVE  NeverPanics'
      <3>1. r # subsurface[o]
        BY <2>1 DEF Reorder
      <3>2. QED
        BY <2>1, <3>1, ReorderKeepsLinks DEF NeverPanics
    <2>2. QED
      BY <2>1 DEF TreeNext, treeVars, NeverPanics, SetRole, DestroySurface, GetSubsurface,
                  SetSync, SetDesync, DestroySubsurface
  <1>3. Inv => NeverPanics
    OBVIOUS
  <1> HIDE DEF Inv
  <1>4. QED
    BY <1>1, <1>2, <1>3, PTL DEF TreeSpec

\* place_above and place_below do what they say for lists of any length: the
\* surface ends up directly above or below its reference, and the others keep
\* their order.
THEOREM ReorderIsPlacement == TreeSpec => PlacedNextTo
  <1> DEFINE Placed == \A o \in Subsurface, to \in {"Before", "After"}, r \in Surface :
                 LET s == subsurface[o]
                     q == children'[parent[s]]
                 IN  Reorder(o, to, r) /\ r # s =>
                       /\ IndexOf(q, s) = IndexOf(q, r) + (IF to = "After" THEN 1 ELSE -1)
                       /\ Retain(q, s) = Retain(children[parent[s]], s)
  <1>1. TreeInv => Placed
    BY ReorderPlaces
  <1>2. TreeInv => [Placed]_treeVars
    BY <1>1
  <1>3. PlacedNextTo <=> [][Placed]_treeVars
    BY DEF PlacedNextTo
  <1> HIDE DEF Placed
  <1>4. QED
    BY <1>2, <1>3, TreeInitial, TreeStep, PTL DEF TreeSpec
=============================================================================
