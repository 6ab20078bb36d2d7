---------------------------- MODULE RenderProofs ----------------------------
(***************************************************************************)
(* Proofs about DamageTracker, for any elements, buffers and width of the  *)
(* output and any limits of the bags and of the history; and about         *)
(* DrmCompositor, for any number of buffers, slots, changes and frames.    *)
(*                                                                         *)
(* Patient = TRUE is what the frames of the DrmCompositor on their way     *)
(* rest on: clear is not called while a flip is outstanding, so a vblank   *)
(* event always belongs to the pending frame.                              *)
(***************************************************************************)
EXTENDS MCRender, SubsequenceProofs, SequenceTheorems, TLAPS

-----------------------------------------------------------------------------
(* The damage tracker: what is drawn outside of the damage.                  *)
SceneType ==
    [stack : Arrangements(Element), mapped : SUBSET Element, mode : {1, 2},
     loc : [Element -> 0 .. Width], paint : [Element -> [Offset -> Paint]],
     opaque : [Element -> SUBSET Offset]]

\* Clients declare opaque only what is solid.
Honest(s) == \A e \in Element : \A o \in s.opaque[e] : s.paint[e][o] = "solid"

LEMMA SceneFields ==
    ASSUME NEW s \in SceneType
    PROVE  /\ s.stack \in Arrangements(Element) /\ s.mapped \in SUBSET Element
           /\ s.mode \in {1, 2} /\ s.loc \in [Element -> 0 .. Width]
           /\ s.paint \in [Element -> [Offset -> Paint]]
           /\ s.opaque \in [Element -> SUBSET Offset]
           /\ s = [stack |-> s.stack, mapped |-> s.mapped, mode |-> s.mode,
                   loc |-> s.loc, paint |-> s.paint, opaque |-> s.opaque]
  BY DEF SceneType

\* A stack lists its elements without repetition.
LEMMA StackPlaces ==
    ASSUME NEW T, NEW q \in Arrangements(T)
    PROVE  /\ \E n \in 0 .. MaxStack : q \in [1 .. n -> T]
           /\ \A i, j \in DOMAIN q : q[i] = q[j] => i = j
  BY DEF Arrangements, IsInjective

LEMMA StackIsSeq ==
    ASSUME NEW T, NEW q
    PROVE  q \in Arrangements(T) <=>
               /\ q \in Seq(T) /\ Len(q) <= MaxStack
               /\ \A i, j \in DOMAIN q : q[i] = q[j] => i = j
  <1>1. ASSUME q \in Arrangements(T)
        PROVE  /\ q \in Seq(T) /\ Len(q) <= MaxStack
               /\ \A i, j \in DOMAIN q : q[i] = q[j] => i = j
    <2>1. PICK n \in 0 .. MaxStack : q \in [1 .. n -> T]
      BY <1>1, StackPlaces
    <2>2. q \in Seq(T) /\ Len(q) = n
      BY <2>1, DamageConstants
    <2> QED BY <1>1, <2>1, <2>2, StackPlaces, DamageConstants
  <1>2. ASSUME q \in Seq(T), Len(q) <= MaxStack, \A i, j \in DOMAIN q : q[i] = q[j] => i = j
        PROVE  q \in Arrangements(T)
    <2>1. Len(q) \in 0 .. MaxStack /\ q \in [1 .. Len(q) -> T]
      BY <1>2, DamageConstants
    <2>2. IsInjective(q)
      BY <1>2 DEF IsInjective
    <2> QED BY <2>1, <2>2 DEF Arrangements
  <1> QED BY <1>1, <1>2

\* Above is a strict total order of the elements of the stack.
LEMMA AboveOrders ==
    ASSUME NEW s \in SceneType
    PROVE  /\ \A e, f : Above(s, e, f) => e \in ToSet(s.stack) /\ f \in ToSet(s.stack)
           /\ \A e : ~ Above(s, e, e)
           /\ \A e, f, g : Above(s, e, f) /\ Above(s, f, g) => Above(s, e, g)
           /\ \A e, f \in ToSet(s.stack) : e # f => Above(s, e, f) \/ Above(s, f, e)
           /\ ToSet(s.stack) \in SUBSET Element
  <1>1. s.stack \in Arrangements(Element)
    BY SceneFields
  <1>2. PICK n \in 0 .. MaxStack : s.stack \in [1 .. n -> Element]
    BY <1>1, StackPlaces
  <1>3. \A i, j \in DOMAIN s.stack : s.stack[i] = s.stack[j] => i = j
    BY <1>1, StackPlaces
  <1>4. n \in Nat /\ DOMAIN s.stack = 1 .. n
    BY <1>2, DamageConstants
  <1>5. ASSUME NEW e, NEW f, NEW g, Above(s, e, f), Above(s, f, g) PROVE Above(s, e, g)
    <2>1. PICK j, k \in 1 .. n : j < k /\ s.stack[j] = e /\ s.stack[k] = f
      BY <1>4, <1>5 DEF Above
    <2>2. PICK i, l \in 1 .. n : i < l /\ s.stack[i] = f /\ s.stack[l] = g
      BY <1>4, <1>5 DEF Above
    <2>3. k = i
      BY <2>1, <2>2, <1>3, <1>4
    <2> QED BY <2>1, <2>2, <2>3, <1>4 DEF Above
  <1>6. ASSUME NEW e, Above(s, e, e) PROVE FALSE
    BY <1>6, <1>3, <1>4 DEF Above
  <1>7. ASSUME NEW e \in ToSet(s.stack), NEW f \in ToSet(s.stack), e # f
        PROVE  Above(s, e, f) \/ Above(s, f, e)
    <2>1. PICK j \in 1 .. n : s.stack[j] = e
      BY <1>4 DEF ToSet
    <2>2. PICK k \in 1 .. n : s.stack[k] = f
      BY <1>4 DEF ToSet
    <2>3. j < k \/ k < j
      BY <2>1, <2>2, <1>7, <1>4
    <2> QED BY <2>1, <2>2, <2>3, <1>4 DEF Above
  <1>8. \A e, f : Above(s, e, f) => e \in ToSet(s.stack) /\ f \in ToSet(s.stack)
    BY DEF Above, ToSet
  <1>9. ToSet(s.stack) \in SUBSET Element
    BY <1>2, <1>4 DEF ToSet
  <1> QED BY <1>5, <1>6, <1>7, <1>8, <1>9

LEMMA StackFinite ==
    ASSUME NEW s \in SceneType
    PROVE  IsFiniteSet(ToSet(s.stack))
  <1>1. PICK n \in 0 .. MaxStack : s.stack \in [1 .. n -> Element]
    BY StackPlaces, SceneFields
  <1>2. n \in Int /\ IsFiniteSet(1 .. n)
    BY FS_Interval, DamageConstants
  <1>3. s.stack \in Surjection(1 .. n, ToSet(s.stack))
    BY <1>1 DEF Surjection, ToSet
  <1> QED BY <1>2, <1>3, FS_Surjection

\* The z index follows the order of the stack.
LEMMA ZIndexOrders ==
    ASSUME NEW s \in SceneType, NEW e \in RenderElements(s), NEW f \in RenderElements(s)
    PROVE  Above(s, e, f) <=> ZIndex(s, e) < ZIndex(s, f)
  <1> DEFINE Over(g) == {h \in RenderElements(s) : Above(s, h, g)}
  <1>1. \A g : IsFiniteSet(Over(g)) /\ ZIndex(s, g) = Cardinality(Over(g)) /\ ZIndex(s, g) \in Nat
    <2> TAKE g
    <2>1. Over(g) \in SUBSET ToSet(s.stack)
      BY DEF RenderElements
    <2>2. IsFiniteSet(Over(g))
      BY <2>1, StackFinite, FS_Subset
    <2> QED BY <2>2, FS_CardinalityType DEF ZIndex
  <1>2. ASSUME NEW g \in RenderElements(s), NEW h \in RenderElements(s), Above(s, g, h)
        PROVE  ZIndex(s, g) < ZIndex(s, h)
    <2>1. Over(g) \in SUBSET Over(h) /\ g \in Over(h) /\ g \notin Over(g)
      BY <1>2, AboveOrders
    <2>2. Cardinality(Over(g)) <= Cardinality(Over(h)) /\ Cardinality(Over(g)) # Cardinality(Over(h))
      <3> HIDE DEF Over
      <3> QED BY <2>1, <1>1, FS_Subset
    <2> QED BY <2>2, <1>1
  <1>3. e = f \/ Above(s, e, f) \/ Above(s, f, e)
    BY AboveOrders DEF RenderElements
  <1>4. ZIndex(s, e) \in Nat /\ ZIndex(s, f) \in Nat
    BY <1>1
  <1>5. ~ Above(s, e, e)
    BY AboveOrders
  <1>6. Above(s, e, f) => ZIndex(s, e) < ZIndex(s, f)
    BY <1>2
  <1>7. Above(s, f, e) => ZIndex(s, f) < ZIndex(s, e)
    BY <1>2
  <1> HIDE DEF Over
  <1> QED BY <1>3, <1>4, <1>5, <1>6, <1>7

\* An element that is not rendered lies behind a solid one wherever it would show.
LEMMA HiddenBehindSolid ==
    ASSUME NEW s \in SceneType, Honest(s), NEW p \in Output,
           NEW e \in On(s, p), e \notin RenderElements(s)
    PROVE  \E f \in On(s, p) : Above(s, f, e) /\ PaintAt(s, f, p) = "solid"
  <1>1. e \in ToSet(s.stack) /\ p \in Geometry(s.loc[e])
    BY DEF On
  <1>2. p \in OpaqueAbove(s, e)
    BY <1>1 DEF RenderElements, Visible
  <1>3. PICK f \in ToSet(s.stack) : Above(s, f, e) /\ p \in OpaqueArea(s, f)
    BY <1>2 DEF OpaqueAbove
  <1>4. PICK o \in s.opaque[f] : p = s.loc[f] + o
    BY <1>3 DEF OpaqueArea
  <1>5. f \in Element /\ s.loc[f] \in 0 .. Width /\ o \in Offset
    BY <1>3, <1>4, AboveOrders, SceneFields
  <1>6. p - s.loc[f] = o
    BY <1>4, <1>5, DamageConstants DEF Offset
  <1>7. f \in On(s, p)
    BY <1>3, <1>4, <1>5 DEF On, Geometry
  <1>8. PaintAt(s, f, p) = "solid"
    BY <1>4, <1>5, <1>6 DEF Honest, PaintAt
  <1> QED BY <1>3, <1>7, <1>8

\* The first solid element over a pixel is rendered.
LEMMA FirstSolidRendered ==
    ASSUME NEW s \in SceneType, Honest(s), NEW p \in Output, NEW e,
           NEW f \in On(s, p), Above(s, f, e), PaintAt(s, f, p) = "solid"
    PROVE  \E g \in On(s, p) : /\ g \in RenderElements(s)
                               /\ Above(s, g, e) /\ PaintAt(s, g, p) = "solid"
  <1> DEFINE Good(g) == g \in On(s, p) /\ Above(s, g, e) /\ PaintAt(s, g, p) = "solid"
             Places == {k \in DOMAIN s.stack : Good(s.stack[k])}
  <1>1. s.stack \in Arrangements(Element)
    BY SceneFields
  <1>2. PICK n \in 0 .. MaxStack : s.stack \in [1 .. n -> Element]
    BY <1>1, StackPlaces
  <1>3. \A i, j \in DOMAIN s.stack : s.stack[i] = s.stack[j] => i = j
    BY <1>1, StackPlaces
  <1>4. n \in Nat /\ DOMAIN s.stack = 1 .. n
    BY <1>2, DamageConstants
  <1>5. Places \in SUBSET Nat
    BY <1>4
  <1>6. PICK k0 \in DOMAIN s.stack : s.stack[k0] = f
    BY DEF On, ToSet
  <1>7. Places # {}
    BY <1>6
  <1>8. PICK k \in Places : \A j \in Places : k <= j
    <2> HIDE DEF Places
    <2> QED BY <1>5, <1>7, LeastNatural
  <1>9. SUFFICES s.stack[k] \in RenderElements(s)
    BY <1>8
  <1>10. SUFFICES ASSUME s.stack[k] \notin RenderElements(s) PROVE FALSE
    OBVIOUS
  <1>11. PICK g \in On(s, p) : Above(s, g, s.stack[k]) /\ PaintAt(s, g, p) = "solid"
    BY <1>8, <1>10, HiddenBehindSolid
  <1>12. Above(s, g, e)
    BY <1>8, <1>11, AboveOrders
  <1>13. PICK j, i \in DOMAIN s.stack : j < i /\ s.stack[j] = g /\ s.stack[i] = s.stack[k]
    BY <1>11 DEF Above
  <1>14. i = k
    BY <1>13, <1>3, <1>8
  <1>15. j \in Places
    BY <1>11, <1>12, <1>13
  <1> QED BY <1>8, <1>13, <1>14, <1>15, <1>4

\* What is drawn at a pixel is determined by the elements that are rendered.
OnRendered(s, p) == On(s, p) \cap RenderElements(s)

LEMMA DrawnAreRendered ==
    ASSUME NEW s \in SceneType, Honest(s), NEW p \in Output
    PROVE  Drawn(s, p) = {e \in OnRendered(s, p) :
              \A f \in OnRendered(s, p) : Above(s, f, e) => PaintAt(s, f, p) = "glass"}
  <1>1. \A f \in On(s, p) : PaintAt(s, f, p) \in Paint
    <2> TAKE f \in On(s, p)
    <2>1. f \in Element /\ s.loc[f] \in 0 .. Width
      BY AboveOrders, SceneFields DEF On
    <2>2. p - s.loc[f] \in Offset
      BY <2>1, DamageConstants DEF On, Geometry, Offset
    <2> QED BY <2>1, <2>2, SceneFields DEF PaintAt
  <1>2. ASSUME NEW e \in Drawn(s, p) PROVE e \in RenderElements(s)
    BY <1>2, HiddenBehindSolid DEF Drawn
  <1>3. ASSUME NEW e \in OnRendered(s, p),
               \A f \in OnRendered(s, p) : Above(s, f, e) => PaintAt(s, f, p) = "glass",
               NEW f \in On(s, p), Above(s, f, e)
        PROVE  PaintAt(s, f, p) = "glass"
    <2>1. SUFFICES ASSUME PaintAt(s, f, p) = "solid" PROVE FALSE
      BY <1>1 DEF Paint
    <2>2. PICK g \in On(s, p) : /\ g \in RenderElements(s)
                                /\ Above(s, g, e) /\ PaintAt(s, g, p) = "solid"
      BY <1>3, <2>1, FirstSolidRendered
    <2> QED BY <2>2, <1>3 DEF OnRendered
  <1> QED BY <1>2, <1>3 DEF Drawn, OnRendered

\* The damage an element collected since commit c is known.
BagReaches(e, c) == bag[e].commit - c <= Len(bag[e].damage)

\* What the bag of e says since commit c covers how its contents differ from
\* those it has in scene s.
BagCovers(s, e, c) ==
    /\ c \in Nat /\ c <= bag[e].commit
    /\ e \notin scene.mapped => ~ BagReaches(e, c)
    /\ \A o \in Offset \ DamageSince(e, c) : s.paint[e][o] = scene.paint[e][o]

\* The tracker describes scene s, and the buffer submitted last shows it.
Remembers(s) ==
    /\ s \in SceneType /\ Honest(s)
    /\ tracker.mode = s.mode
    /\ DOMAIN tracker.elements = RenderElements(s)
    /\ \A e \in RenderElements(s) :
           /\ tracker.elements[e].loc = s.loc[e]
           /\ tracker.elements[e].z = ZIndex(s, e)
           /\ BagCovers(s, e, tracker.elements[e].commit)
    /\ pixels[shown] = [p \in Output |-> Colour(s, p)]

\* Outside of the new damage the present scene looks like the one drawn last.
LEMMA SameOutsideDamage ==
    ASSUME scene \in SceneType, Honest(scene), NEW s, Remembers(s),
           NEW p \in Output, p \notin NewDamage
    PROVE  Colour(s, p) = Colour(scene, p)
  <1>0. s \in SceneType /\ Honest(s) /\ tracker.mode = s.mode /\ tracker.mode = scene.mode
    BY DEF Remembers, NewDamage
  <1>1. \A e \in RenderElements(scene) : p \notin ElementDamage(e)
    BY <1>0 DEF NewDamage
  <1>2. p \notin GoneDamage
    BY <1>0 DEF NewDamage
  <1>3. ASSUME NEW e \in OnRendered(scene, p) PROVE InstanceMatches(e)
    BY <1>1, <1>3 DEF OnRendered, On, ElementDamage
  <1>4. ASSUME NEW e \in OnRendered(s, p)
        PROVE  e \in RenderElements(scene) /\ InstanceMatches(e)
    <2>1. /\ e \in DOMAIN tracker.elements /\ tracker.elements[e].loc = s.loc[e]
          /\ p \in Geometry(s.loc[e])
      BY <1>4 DEF OnRendered, On, Remembers
    <2>2. e \in RenderElements(scene)
      BY <2>1, <1>2 DEF GoneDamage
    <2> QED BY <2>1, <2>2, <1>1 DEF ElementDamage
  <1>5. ASSUME NEW e \in RenderElements(scene), InstanceMatches(e)
        PROVE  /\ e \in RenderElements(s) /\ s.loc[e] = scene.loc[e]
               /\ ZIndex(s, e) = ZIndex(scene, e)
               /\ BagCovers(s, e, tracker.elements[e].commit)
    BY <1>5 DEF InstanceMatches, Remembers
  <1>6. OnRendered(s, p) = OnRendered(scene, p)
    <2>1. ASSUME NEW e \in OnRendered(s, p) PROVE e \in OnRendered(scene, p)
      BY <2>1, <1>4, <1>5 DEF OnRendered, On, RenderElements
    <2>2. ASSUME NEW e \in OnRendered(scene, p) PROVE e \in OnRendered(s, p)
      BY <2>2, <1>3, <1>5 DEF OnRendered, On, RenderElements
    <2> QED BY <2>1, <2>2
  <1>7. ASSUME NEW e \in OnRendered(scene, p)
        PROVE  PaintAt(s, e, p) = PaintAt(scene, e, p)
    <2>1. e \in RenderElements(scene) /\ InstanceMatches(e) /\ e \in Element
      BY <1>3, <1>0, AboveOrders DEF OnRendered, On
    <2>2. PICK o \in Offset : p = scene.loc[e] + o
      BY DEF OnRendered, On, Geometry
    <2>3. scene.loc[e] \in 0 .. Width
      BY <2>1, SceneFields
    <2>4. p - scene.loc[e] = o
      BY <2>2, <2>3, DamageConstants DEF Offset
    <2>5. o \notin DamageSince(e, tracker.elements[e].commit)
      BY <2>1, <2>2, <1>1 DEF ElementDamage
    <2>6. s.paint[e][o] = scene.paint[e][o]
      BY <2>1, <2>2, <2>5, <1>5 DEF BagCovers
    <2> QED BY <2>1, <2>4, <2>6, <1>5 DEF PaintAt
  <1>8. ASSUME NEW e \in OnRendered(scene, p), NEW f \in OnRendered(scene, p)
        PROVE  Above(s, e, f) <=> Above(scene, e, f)
    <2>1. /\ e \in RenderElements(scene) /\ f \in RenderElements(scene)
          /\ e \in RenderElements(s) /\ f \in RenderElements(s)
          /\ ZIndex(s, e) = ZIndex(scene, e) /\ ZIndex(s, f) = ZIndex(scene, f)
      BY <1>3, <1>5 DEF OnRendered
    <2>2. Above(s, e, f) <=> ZIndex(s, e) < ZIndex(s, f)
      BY <2>1, <1>0, ZIndexOrders
    <2>3. Above(scene, e, f) <=> ZIndex(scene, e) < ZIndex(scene, f)
      BY <2>1, <1>0, ZIndexOrders
    <2> QED BY <2>1, <2>2, <2>3
  <1>9. Drawn(s, p) = Drawn(scene, p)
    <2>1. Drawn(s, p) = {e \in OnRendered(s, p) :
             \A f \in OnRendered(s, p) : Above(s, f, e) => PaintAt(s, f, p) = "glass"}
      BY <1>0, DrawnAreRendered
    <2>2. Drawn(scene, p) = {e \in OnRendered(scene, p) :
             \A f \in OnRendered(scene, p) : Above(scene, f, e) => PaintAt(scene, f, p) = "glass"}
      BY <1>0, DrawnAreRendered
    <2> QED BY <2>1, <2>2, <1>6, <1>7, <1>8
  <1>10. Drawn(scene, p) \subseteq OnRendered(scene, p)
    BY <1>0, DrawnAreRendered
  <1>11. [e \in Drawn(s, p) |-> PaintAt(s, e, p)] = [e \in Drawn(scene, p) |-> PaintAt(scene, e, p)]
    BY <1>7, <1>9, <1>10
  <1>12. {ef \in Drawn(s, p) \X Drawn(s, p) : Above(s, ef[1], ef[2])}
           = {ef \in Drawn(scene, p) \X Drawn(scene, p) : Above(scene, ef[1], ef[2])}
    BY <1>8, <1>9, <1>10
  <1> QED BY <1>0, <1>11, <1>12 DEF Colour

\* Buffer b differs from the one submitted last only where the frames since
\* it was drawn were damaged.
HistoryHolds(b) ==
    \A p \in Output : (\A k \in 1 .. frameAge[b] - 1 : p \notin tracker.old[k])
                         => pixels[b][p] = pixels[shown][p]

SceneTyped ==
    /\ scene \in SceneType /\ Honest(scene)
    /\ scene.stack \in Arrangements(scene.mapped)

BagTyped ==
    /\ bag \in [Element -> [commit : Nat, damage : Seq(SUBSET Offset)]]
    /\ \A e \in Element : Len(bag[e].damage) <= BagLimit

TrackerTyped ==
    /\ tracker = [mode |-> tracker.mode, elements |-> tracker.elements,
                  opaque |-> tracker.opaque, old |-> tracker.old]
    /\ DOMAIN tracker.elements \subseteq Element
    /\ tracker.opaque \subseteq Output
    /\ tracker.old \in Seq(SUBSET Output)

TargetsTyped ==
    /\ pixels = [b \in Target |-> [p \in Output |-> pixels[b][p]]]
    /\ frameAge \in [Target -> Nat]
    /\ shown \in Target \cup {NoTarget}

DamageInv ==
    /\ SceneTyped /\ BagTyped /\ TrackerTyped /\ TargetsTyped
    /\ tracker.mode # 0 => shown # NoTarget /\ \E s \in SceneType : Remembers(s)
    /\ \A b \in Target : HistoryReaches(b) => HistoryHolds(b)
    /\ FrameIsWhole

LEMMA InitDamage == DamageInit => DamageInv
  <1> SUFFICES ASSUME DamageInit PROVE DamageInv
    OBVIOUS
  <1> USE DEF DamageInit
  <1>1. SceneTyped
    <2>1. scene.stack \in Arrangements(Element) /\ scene.mapped = Element
      OBVIOUS
    <2>2. scene \in SceneType
      BY DamageConstants DEF SceneType, Paint
    <2> QED BY <2>1, <2>2 DEF SceneTyped, Honest
  <1>2. BagTyped
    BY DamageConstants DEF BagTyped
  <1>3. TrackerTyped /\ tracker.mode = 0
    BY DEF TrackerTyped, NoState
  <1>4. TargetsTyped
    BY DEF TargetsTyped
  <1>5. FrameIsWhole /\ \A b \in Target : ~ HistoryReaches(b)
    BY DEF FrameIsWhole, HistoryReaches
  <1> QED BY <1>1, <1>2, <1>3, <1>4, <1>5 DEF DamageInv

\* A change of the scene keeps the invariant when the bags cover it.
LEMMA ChangeKeeps ==
    ASSUME DamageInv, Change, SceneTyped', BagTyped',
           \A s \in SceneType : \A e \in Element : \A c \in Nat :
               BagCovers(s, e, c) => BagCovers(s, e, c)'
    PROVE  DamageInv'
  <1> USE DEF Change
  <1>1. TrackerTyped' /\ TargetsTyped'
    BY DEF DamageInv, TrackerTyped, TargetsTyped
  <1>2. ASSUME NEW s \in SceneType, Remembers(s) PROVE Remembers(s)'
    <2>1. RenderElements(s) \in SUBSET Element
      BY AboveOrders DEF RenderElements
    <2>2. \A e \in RenderElements(s) : BagCovers(s, e, tracker.elements[e].commit)'
      BY <1>2, <2>1 DEF Remembers, BagCovers
    <2> QED BY <1>2, <2>2 DEF Remembers
  <1>3. tracker'.mode # 0 => shown' # NoTarget /\ \E s \in SceneType : Remembers(s)'
    BY <1>2 DEF DamageInv
  <1>4. \A b \in Target : HistoryReaches(b)' => HistoryHolds(b)'
    BY DEF DamageInv, HistoryReaches, HistoryHolds
  <1>5. FrameIsWhole'
    BY DEF FrameIsWhole
  <1> QED BY <1>1, <1>3, <1>4, <1>5 DEF DamageInv

LEMMA BagsUntouched ==
    ASSUME UNCHANGED bag, scene'.paint = scene.paint, scene'.mapped = scene.mapped
    PROVE  \A s \in SceneType : \A e \in Element : \A c \in Nat :
               BagCovers(s, e, c) => BagCovers(s, e, c)'
  BY DEF BagCovers, BagReaches, DamageSince

LEMMA ArrangeKeeps ==
    ASSUME DamageInv,
           \/ \E s \in Arrangements(scene.mapped) : Restack(s)
           \/ \E e \in Element, l \in 0 .. Width : Move(e, l)
           \/ ChangeMode
    PROVE  DamageInv'
  <1>0. SceneTyped /\ BagTyped
    BY DEF DamageInv
  <1> DEFINE Covered == /\ SceneTyped' /\ UNCHANGED bag /\ Change
                        /\ scene'.paint = scene.paint /\ scene'.mapped = scene.mapped
  <1>1. ASSUME NEW s \in Arrangements(scene.mapped), Restack(s) PROVE Covered
    <2>1. s \in Arrangements(Element)
      BY <1>0, SeqMonotonic, StackIsSeq, SceneFields DEF SceneTyped
    <2> QED BY <1>0, <1>1, <2>1 DEF Restack, SceneTyped, SceneType, Honest
  <1>2. ASSUME NEW e \in Element, NEW l \in 0 .. Width, Move(e, l) PROVE Covered
    BY <1>0, <1>2 DEF Move, SceneTyped, SceneType, Honest
  <1>3. ASSUME ChangeMode PROVE Covered
    BY <1>0, <1>3 DEF ChangeMode, SceneTyped, SceneType, Honest
  <1>4. Covered
    BY <1>1, <1>2, <1>3
  <1>5. BagTyped'
    BY <1>0, <1>4 DEF BagTyped
  <1> QED BY <1>4, <1>5, BagsUntouched, ChangeKeeps

LEMMA TruncateKeeps ==
    ASSUME NEW T, NEW q \in Seq(T), NEW n \in Nat
    PROVE  /\ Truncate(q, n) \in Seq(T)
           /\ Len(Truncate(q, n)) = IF n < Len(q) THEN n ELSE Len(q)
           /\ \A k \in 1 .. Len(Truncate(q, n)) : Truncate(q, n)[k] = q[k]
  <1> DEFINE m == IF n < Len(q) THEN n ELSE Len(q)
  <1>1. m \in Nat /\ m <= Len(q)
    OBVIOUS
  <1>2. \A i \in 1 .. m : q[i] \in T
    OBVIOUS
  <1>3. Truncate(q, n) = SubSeq(q, 1, m)
    BY DEF Truncate
  <1> HIDE DEF m
  <1>4. /\ SubSeq(q, 1, m) \in Seq(T) /\ Len(SubSeq(q, 1, m)) = m
        /\ \A k \in 1 .. m : SubSeq(q, 1, m)[k] = q[k]
    BY <1>1, <1>2, SubSeqProperties
  <1> QED BY <1>3, <1>4 DEF m

LEMMA PushFront ==
    ASSUME NEW T, NEW x \in T, NEW q \in Seq(T)
    PROVE  /\ <<x>> \o q \in Seq(T)
           /\ Len(<<x>> \o q) = Len(q) + 1
           /\ (<<x>> \o q)[1] = x
           /\ \A k \in 1 .. Len(q) : (<<x>> \o q)[k + 1] = q[k]
  <1>1. <<x>> \in Seq(T) /\ Len(<<x>>) = 1 /\ <<x>>[1] = x
    OBVIOUS
  <1> QED BY <1>1, ConcatProperties

\* What damage_since reports after one more commit.
LEMMA AddedCovers ==
    ASSUME SceneTyped, BagTyped, NEW e \in Element, NEW area \in SUBSET Offset, area # {}
    PROVE  /\ Added(e, area) \in [commit : Nat, damage : Seq(SUBSET Offset)]
           /\ Added(e, area).commit = bag[e].commit + 1
           /\ Len(Added(e, area).damage) <= BagLimit
           /\ Len(Added(e, area).damage) <= Len(bag[e].damage) + 1
           /\ \A k \in 1 .. Len(Added(e, area).damage) :
                  Added(e, area).damage[k] = IF k = 1 THEN area ELSE bag[e].damage[k - 1]
  <1> DEFINE D == bag[e].damage
             N == <<area>> \o D
  <1>1. D \in Seq(SUBSET Offset) /\ bag[e].commit \in Nat
    BY DEF BagTyped
  <1>2. /\ N \in Seq(SUBSET Offset) /\ Len(N) = Len(D) + 1
        /\ N[1] = area /\ \A k \in 1 .. Len(D) : N[k + 1] = D[k]
    BY <1>1, PushFront
  <1>3. Added(e, area) = [commit |-> bag[e].commit + 1, damage |-> Truncate(N, BagLimit)]
    BY DEF Added
  <1> HIDE DEF N
  <1>4. /\ Truncate(N, BagLimit) \in Seq(SUBSET Offset)
        /\ Len(Truncate(N, BagLimit)) = IF BagLimit < Len(N) THEN BagLimit ELSE Len(N)
        /\ \A k \in 1 .. Len(Truncate(N, BagLimit)) : Truncate(N, BagLimit)[k] = N[k]
    BY <1>2, DamageConstants, TruncateKeeps
  <1>5. ASSUME NEW k \in 1 .. Len(Truncate(N, BagLimit))
        PROVE  Truncate(N, BagLimit)[k] = IF k = 1 THEN area ELSE D[k - 1]
    <2>1. Len(N) \in Nat /\ Len(D) \in Nat /\ BagLimit \in Nat
      BY <1>1, <1>2, DamageConstants
    <2>2. k = 1 \/ k - 1 \in 1 .. Len(D)
      BY <2>1, <1>2, <1>4
    <2>3. k # 1 => N[(k - 1) + 1] = D[k - 1]
      BY <2>2, <1>2
    <2>4. (k - 1) + 1 = k
      OBVIOUS
    <2> QED BY <2>3, <2>4, <1>2, <1>4
  <1>6. Len(Truncate(N, BagLimit)) <= BagLimit /\ Len(Truncate(N, BagLimit)) <= Len(D) + 1
    <2>1. Len(N) \in Nat /\ BagLimit \in Nat
      BY <1>2, DamageConstants
    <2> QED BY <2>1, <1>2, <1>4
  <1> HIDE DEF D
  <1>7. bag[e].commit + 1 \in Nat
    BY <1>1
  <1> QED BY <1>3, <1>4, <1>5, <1>6, <1>7 DEF D

LEMMA CommitKeeps ==
    ASSUME DamageInv, NEW e \in Element, NEW area \in SUBSET Offset, NEW v \in Paint,
           NEW declared \in BOOLEAN, CommitBuffer(e, area, v, declared)
    PROVE  DamageInv'
  <1> DEFINE painted == [o \in Offset |->
                 IF o \in area \/ e \notin scene.mapped THEN v ELSE scene.paint[e][o]]
  <1>0. SceneTyped /\ BagTyped /\ scene \in SceneType
    BY DEF DamageInv, SceneTyped
  <1>1. /\ Change
        /\ scene' = [scene EXCEPT
               !.mapped = @ \cup {e}, !.paint[e] = painted,
               !.opaque[e] = IF declared THEN {o \in Offset : painted[o] = "solid"} ELSE {}]
        /\ bag' = [bag EXCEPT ![e] = Added(e, area)]
    BY DEF CommitBuffer
  <1>2. painted \in [Offset -> Paint]
    BY <1>0, SceneFields
  <1> HIDE DEF painted
  <1>3. /\ scene'.stack = scene.stack /\ scene'.mapped = scene.mapped \cup {e}
        /\ scene'.paint = [scene.paint EXCEPT ![e] = painted]
        /\ scene'.opaque = [scene.opaque EXCEPT
              ![e] = IF declared THEN {o \in Offset : painted[o] = "solid"} ELSE {}]
        /\ scene' \in SceneType
    BY <1>0, <1>1, <1>2 DEF SceneType
  <1>4. SceneTyped'
    <2>1. Honest(scene')
      BY <1>0, <1>3, SceneFields DEF SceneTyped, Honest
    <2>2. scene'.stack \in Arrangements(scene'.mapped)
      <3>1. scene.stack \in Seq(scene.mapped) /\ Len(scene.stack) <= MaxStack
        BY <1>0, StackIsSeq DEF SceneTyped
      <3>2. scene.stack \in Seq(scene'.mapped)
        BY <3>1, <1>3, SeqMonotonic
      <3>3. \A i, j \in DOMAIN scene.stack : scene.stack[i] = scene.stack[j] => i = j
        BY <1>0, StackIsSeq DEF SceneTyped
      <3> QED BY <3>1, <3>2, <3>3, <1>3, StackIsSeq
    <2> QED BY <2>1, <2>2, <1>3 DEF SceneTyped
  <1>5. CASE area = {}
    <2>1. bag' = bag
      BY <1>0, <1>1, <1>5 DEF Added, BagTyped
    <2>2. ASSUME NEW s \in SceneType, NEW x \in Element, NEW c \in Nat, BagCovers(s, x, c)
          PROVE  BagCovers(s, x, c)'
      <3>1. CASE x = e /\ e \notin scene.mapped
        <4>1. DamageSince(x, c) = Offset
          BY <2>2, <3>1 DEF BagCovers, BagReaches, DamageSince
        <4> QED BY <2>1, <2>2, <3>1, <4>1, <1>3 DEF BagCovers, BagReaches, DamageSince
      <3>2. CASE ~ (x = e /\ e \notin scene.mapped)
        <4>1. \A o \in Offset : scene'.paint[x][o] = scene.paint[x][o]
          BY <1>0, <1>3, <1>5, <3>2, SceneFields DEF painted
        <4>2. x \notin scene'.mapped => x \notin scene.mapped
          BY <1>3
        <4> QED BY <2>1, <2>2, <4>1, <4>2 DEF BagCovers, BagReaches, DamageSince
      <3> QED BY <3>1, <3>2
    <2>3. BagTyped'
      BY <2>1, <1>0 DEF BagTyped
    <2> QED BY <1>1, <1>4, <2>2, <2>3, ChangeKeeps
  <1>6. CASE area # {}
    <2> DEFINE N == Added(e, area)
    <2>1. /\ N \in [commit : Nat, damage : Seq(SUBSET Offset)]
          /\ N.commit = bag[e].commit + 1
          /\ Len(N.damage) <= BagLimit
          /\ Len(N.damage) <= Len(bag[e].damage) + 1
          /\ \A k \in 1 .. Len(N.damage) :
                 N.damage[k] = IF k = 1 THEN area ELSE bag[e].damage[k - 1]
      BY <1>0, <1>6, AddedCovers
    <2> HIDE DEF N
    <2>2. bag' = [bag EXCEPT ![e] = N]
      BY <1>1 DEF N
    <2>3. BagTyped' /\ bag'[e] = N /\ \A x \in Element : x # e => bag'[x] = bag[x]
      BY <2>1, <2>2, <1>0 DEF BagTyped
    <2>4. ASSUME NEW s \in SceneType, NEW x \in Element, NEW c \in Nat, BagCovers(s, x, c)
          PROVE  BagCovers(s, x, c)'
      <3>1. CASE x # e
        <4>1. scene'.paint[x] = scene.paint[x] /\ bag'[x] = bag[x]
          BY <3>1, <1>3, <1>0, <2>3, SceneFields
        <4>2. x \notin scene'.mapped => x \notin scene.mapped
          BY <1>3
        <4> QED BY <2>4, <4>1, <4>2 DEF BagCovers, BagReaches, DamageSince
      <3>2. CASE x = e
        <4>1. c <= bag[e].commit /\ bag[e].commit \in Nat /\ Len(bag[e].damage) \in Nat
          BY <2>4, <3>2, <1>0 DEF BagCovers, BagTyped
        <4>d. PICK d \in Nat : bag[e].commit - c = d
          BY <4>1
        <4>2. c <= N.commit /\ N.commit - c = d + 1 /\ Len(N.damage) \in Nat
          <5>1. N.commit = bag[e].commit + 1 /\ Len(N.damage) \in Nat
            BY <2>1
          <5> QED BY <4>1, <4>d, <5>1
        <4>3. e \in scene'.mapped
          BY <1>3
        <4>4. ASSUME NEW o \in Offset, o \notin DamageSince(e, c)' PROVE s.paint[e][o] = scene'.paint[e][o]
          <5>0. d + 1 <= Len(N.damage) /\ \A k \in 1 .. d + 1 : o \notin N.damage[k]
            BY <4>4, <4>2, <2>3 DEF DamageSince
          <5>1. d + 1 <= Len(N.damage)
            BY <5>0
          <5>2. bag[e].commit - c <= Len(bag[e].damage)
            <6>1. Len(N.damage) <= Len(bag[e].damage) + 1
              BY <2>1
            <6> QED BY <6>1, <5>1, <4>1, <4>d, <4>2
          <5>3. e \in scene.mapped
            BY <5>2, <2>4, <3>2 DEF BagCovers, BagReaches
          <5>4. o \notin area
            <6>1. 1 \in 1 .. d + 1 /\ 1 \in 1 .. Len(N.damage)
              BY <5>1, <4>2
            <6> QED BY <6>1, <5>0, <2>1
          <5>5. ASSUME NEW k \in 1 .. bag[e].commit - c PROVE o \notin bag[e].damage[k]
            <6>0. k \in 1 .. d
              BY <4>d
            <6>1. k + 1 \in 1 .. d + 1 /\ k + 1 \in 1 .. Len(N.damage)
                  /\ k + 1 # 1 /\ (k + 1) - 1 = k
              BY <6>0, <5>1, <4>2
            <6> QED BY <6>1, <5>0, <2>1
          <5>6. o \notin DamageSince(e, c)
            BY <5>2, <5>5 DEF DamageSince
          <5>7. s.paint[e][o] = scene.paint[e][o]
            BY <5>6, <2>4, <3>2 DEF BagCovers
          <5>8. scene'.paint[e][o] = scene.paint[e][o]
            BY <5>3, <5>4, <1>3, <1>0, SceneFields DEF painted
          <5> QED BY <5>7, <5>8
        <4> QED BY <3>2, <4>2, <4>3, <4>4, <2>3 DEF BagCovers
      <3> QED BY <3>1, <3>2
    <2> QED BY <1>1, <1>4, <2>3, <2>4, ChangeKeeps
  <1> QED BY <1>5, <1>6

LEMMA RemoveKeeps ==
    ASSUME DamageInv, NEW e \in Element, RemoveBuffer(e)
    PROVE  DamageInv'
  <1> DEFINE K == {k \in DOMAIN scene.stack : scene.stack[k] # e}
  <1>0. SceneTyped /\ BagTyped /\ scene \in SceneType
    BY DEF DamageInv, SceneTyped
  <1>1. /\ Change
        /\ scene' = [scene EXCEPT !.mapped = @ \ {e}, !.stack = Select(@, K)]
        /\ bag' = [bag EXCEPT ![e] = [commit |-> @.commit + 1, damage |-> <<>>]]
    BY <1>0 DEF RemoveBuffer, SceneType
  <1>2. /\ scene.stack \in Seq(scene.mapped) /\ Len(scene.stack) <= MaxStack
        /\ \A i, j \in DOMAIN scene.stack : scene.stack[i] = scene.stack[j] => i = j
    BY <1>0, StackIsSeq DEF SceneTyped
  <1> DEFINE q == Select(scene.stack, K)
  <1>3. q \in Seq(scene.mapped)
    BY <1>2, SelectIsSubsequence
  <1>4. /\ Len(q) <= Len(scene.stack)
        /\ \A j \in DOMAIN q : \E k \in K : q[j] = scene.stack[k]
        /\ \A i, j \in DOMAIN q : q[i] = q[j] => i = j
    BY <1>2, SelectKeepsDistinct
  <1>5. Len(q) <= MaxStack
    BY <1>2, <1>3, <1>4, DamageConstants
  <1>6. \A j \in 1 .. Len(q) : q[j] \in scene.mapped \ {e}
    BY <1>3, <1>4
  <1>7. q \in Seq(scene.mapped \ {e})
    <2> HIDE DEF q
    <2>1. q \in [1 .. Len(q) -> scene.mapped \ {e}] /\ Len(q) \in Nat
      BY <1>3, <1>6
    <2> QED BY <2>1
  <1>10. q \in Arrangements(scene.mapped \ {e}) /\ q \in Arrangements(Element)
    <2>1. scene.mapped \ {e} \subseteq Element
      BY <1>0, SceneFields
    <2>2. q \in Seq(Element)
      BY <2>1, <1>7, SeqMonotonic
    <2> HIDE DEF q
    <2> QED BY <2>2, <1>7, <1>4, <1>5, StackIsSeq
  <1> HIDE DEF q, K
  <1>11. SceneTyped'
    <2>1. scene' = [scene EXCEPT !.mapped = scene.mapped \ {e}, !.stack = q]
      BY <1>1 DEF q
    <2> QED BY <1>0, <1>10, <2>1 DEF SceneTyped, SceneType, Honest
  <1>12. /\ scene'.mapped = scene.mapped \ {e} /\ scene'.paint = scene.paint
    BY <1>1, <1>0 DEF SceneType
  <1>13. /\ BagTyped'
         /\ bag'[e].commit = bag[e].commit + 1 /\ bag'[e].damage = <<>>
         /\ \A x \in Element : x # e => bag'[x] = bag[x]
    BY <1>0, <1>1, DamageConstants DEF BagTyped
  <1>14. ASSUME NEW s \in SceneType, NEW x \in Element, NEW c \in Nat, BagCovers(s, x, c)
         PROVE  BagCovers(s, x, c)'
    <2>1. CASE x # e
      BY <2>1, <1>12, <1>13, <1>14 DEF BagCovers, BagReaches, DamageSince
    <2>2. CASE x = e
      <3>1. c <= bag[e].commit /\ bag[e].commit \in Nat
        BY <1>14, <2>2, <1>0 DEF BagCovers, BagTyped
      <3>2. ~ BagReaches(e, c)' /\ c <= bag'[e].commit
        BY <3>1, <1>13 DEF BagReaches
      <3>3. DamageSince(e, c)' = Offset
        BY <3>2 DEF DamageSince, BagReaches
      <3> QED BY <2>2, <3>2, <3>3 DEF BagCovers
    <2> QED BY <2>1, <2>2
  <1> QED BY <1>1, <1>11, <1>13, <1>14, ChangeKeeps

LEMMA DamageInOutput ==
    ASSUME DamageInv
    PROVE  NewDamage \in SUBSET Output
  <1>1. \A e : ElementDamage(e) \subseteq Output
    BY DEF ElementDamage, Geometry
  <1>2. GoneDamage \subseteq Output
    BY DEF GoneDamage, Geometry
  <1>3. tracker.opaque \subseteq Output
    BY DEF DamageInv, TrackerTyped
  <1> QED BY <1>1, <1>2, <1>3 DEF NewDamage

\* Outside of the new damage the buffer submitted last shows the present scene,
\* outside of the damage of the frame the buffer to draw does.
LEMMA ShownUpToDate ==
    ASSUME DamageInv, NEW p \in Output, p \notin NewDamage
    PROVE  shown \in Target /\ pixels[shown][p] = Colour(scene, p)
  <1>1. scene \in SceneType /\ Honest(scene)
    BY DEF DamageInv, SceneTyped
  <1>2. tracker.mode = scene.mode
    BY DEF NewDamage
  <1>3. tracker.mode # 0
    BY <1>1, <1>2, SceneFields
  <1>4. PICK s \in SceneType : Remembers(s)
    BY <1>3 DEF DamageInv
  <1>5. Colour(s, p) = Colour(scene, p)
    BY <1>1, <1>4, SameOutsideDamage
  <1>6. pixels[shown][p] = Colour(s, p)
    BY <1>4 DEF Remembers
  <1> QED BY <1>3, <1>5, <1>6 DEF DamageInv, TargetsTyped

LEMMA UndamagedUpToDate ==
    ASSUME DamageInv, NEW b \in Target, NEW p \in Output, p \notin FrameDamage(b)
    PROVE  /\ pixels[b][p] = Colour(scene, p)
           /\ shown \in Target /\ pixels[shown][p] = Colour(scene, p)
  <1>1. /\ HistoryReaches(b) /\ p \notin NewDamage
        /\ \A k \in 1 .. frameAge[b] - 1 : p \notin tracker.old[k]
    BY DEF FrameDamage
  <1>2. pixels[b][p] = pixels[shown][p]
    BY <1>1 DEF DamageInv, HistoryHolds
  <1> QED BY <1>1, <1>2, ShownUpToDate

LEMMA HistoryKeepsPrefix ==
    ASSUME DamageInv, NEW b \in Target
    PROVE  /\ History(b) \in Seq(SUBSET Output)
           /\ Len(History(b)) <= Len(tracker.old)
           /\ \A k \in 1 .. Len(History(b)) : History(b)[k] = tracker.old[k]
  <1> DEFINE n == IF HistoryReaches(b) THEN frameAge[b] ELSE MaxHistory
  <1>1. n \in Nat /\ tracker.old \in Seq(SUBSET Output)
    BY DamageConstants DEF DamageInv, TargetsTyped, TrackerTyped
  <1>2. History(b) = Truncate(tracker.old, n)
    BY DEF History
  <1> HIDE DEF n
  <1>3. /\ Truncate(tracker.old, n) \in Seq(SUBSET Output)
        /\ Len(Truncate(tracker.old, n)) = IF n < Len(tracker.old) THEN n ELSE Len(tracker.old)
        /\ \A k \in 1 .. Len(Truncate(tracker.old, n)) : Truncate(tracker.old, n)[k] = tracker.old[k]
    BY <1>1, TruncateKeeps
  <1>4. Len(tracker.old) \in Nat
    BY <1>1
  <1> QED BY <1>1, <1>2, <1>3, <1>4

\* render_output found nothing to draw: only the history is cut.
LEMMA NothingToDraw ==
    ASSUME DamageInv, NEW b \in Target, FrameDamage(b) = {},
           tracker' = [tracker EXCEPT !.old = History(b)],
           UNCHANGED <<scene, bag, pixels, frameAge, shown>>
    PROVE  DamageInv'
  <1>0. SceneTyped /\ BagTyped /\ TrackerTyped /\ TargetsTyped
    BY DEF DamageInv
  <1>1. /\ tracker'.mode = tracker.mode /\ tracker'.elements = tracker.elements
        /\ tracker'.opaque = tracker.opaque /\ tracker'.old = History(b)
        /\ tracker' = [mode |-> tracker'.mode, elements |-> tracker'.elements,
                       opaque |-> tracker'.opaque, old |-> tracker'.old]
    BY <1>0 DEF TrackerTyped
  <1>2. /\ History(b) \in Seq(SUBSET Output)
        /\ Len(History(b)) <= Len(tracker.old)
        /\ \A k \in 1 .. Len(History(b)) : History(b)[k] = tracker.old[k]
    BY HistoryKeepsPrefix
  <1>3. SceneTyped' /\ BagTyped' /\ TrackerTyped' /\ TargetsTyped'
    BY <1>0, <1>1, <1>2 DEF SceneTyped, BagTyped, TrackerTyped, TargetsTyped
  <1>4. ASSUME NEW s \in SceneType, Remembers(s) PROVE Remembers(s)'
    BY <1>1, <1>4 DEF Remembers, BagCovers, BagReaches, DamageSince
  <1>5. tracker'.mode # 0 => shown' # NoTarget /\ \E s \in SceneType : Remembers(s)'
    BY <1>1, <1>4 DEF DamageInv
  <1>6. ASSUME NEW x \in Target, HistoryReaches(x)' PROVE HistoryHolds(x)'
    <2>1. /\ frameAge[x] > 0 /\ Len(History(b)) >= frameAge[x] /\ frameAge[x] \in Nat
          /\ Len(History(b)) \in Nat /\ Len(tracker.old) \in Nat
      BY <1>0, <1>1, <1>2, <1>6 DEF HistoryReaches, TargetsTyped, TrackerTyped
    <2>2. HistoryReaches(x)
      BY <2>1, <1>2 DEF HistoryReaches
    <2>3. \A k \in 1 .. frameAge[x] - 1 : tracker'.old[k] = tracker.old[k]
      BY <2>1, <1>1, <1>2
    <2> QED BY <2>2, <2>3 DEF DamageInv, HistoryHolds
  <1>7. FrameIsWhole'
    <2>1. \A p \in Output : shown \in Target /\ pixels[shown][p] = Colour(scene, p)
      BY UndamagedUpToDate
    <2>2. 0 \in Output
      BY DamageConstants DEF Output
    <2>3. tracker.mode # 0
      <3>1. 0 \notin NewDamage
        BY <2>2 DEF FrameDamage
      <3>2. tracker.mode = scene.mode
        BY <2>2, <3>1 DEF NewDamage
      <3> QED BY <3>2, <1>0, SceneFields DEF SceneTyped
    <2>4. PICK s \in SceneType : Remembers(s)
      BY <2>3 DEF DamageInv
    <2>5. pixels[shown] = [p \in Output |-> Colour(s, p)]
      BY <2>4 DEF Remembers
    <2>6. pixels[shown] = [p \in Output |-> Colour(scene, p)]
      BY <2>1, <2>5
    <2> QED BY <2>6 DEF FrameIsWhole
  <1> QED BY <1>3, <1>5, <1>6, <1>7 DEF DamageInv

\* A frame that is drawn leaves the present scene in its buffer.
LEMMA FrameShowsScene ==
    ASSUME DamageInv, NEW b \in Target, RenderOutput(b), FrameDamage(b) # {}
    PROVE  pixels' = [pixels EXCEPT ![b] = [p \in Output |-> Colour(scene, p)]]
  <1>1. TargetsTyped
    BY DEF DamageInv
  <1>2. pixels' = [pixels EXCEPT ![b] = [p \in Output |->
              IF p \in FrameDamage(b) THEN Colour(scene, p) ELSE pixels[b][p]]]
    BY <1>1 DEF RenderOutput, TargetsTyped
  <1>3. \A p \in Output : p \notin FrameDamage(b) => pixels[b][p] = Colour(scene, p)
    BY UndamagedUpToDate
  <1>4. [p \in Output |-> IF p \in FrameDamage(b) THEN Colour(scene, p) ELSE pixels[b][p]]
          = [p \in Output |-> Colour(scene, p)]
    BY <1>3
  <1> QED BY <1>2, <1>4

\* A frame is drawn into b and submitted.
LEMMA FrameDrawn ==
    ASSUME DamageInv, NEW b \in Target, RenderOutput(b), FrameDamage(b) # {}
    PROVE  DamageInv'
  <1>0. SceneTyped /\ BagTyped /\ TrackerTyped /\ TargetsTyped
    BY DEF DamageInv
  <1>1. /\ tracker' = NextState(b)
        /\ frameAge' = [x \in Target |->
              IF x = b THEN 1 ELSE IF frameAge[x] > 0 THEN frameAge[x] + 1 ELSE 0]
        /\ shown' = b /\ scene' = scene /\ bag' = bag
    BY <1>0 DEF RenderOutput, TargetsTyped
  <1>2. /\ tracker'.mode = scene.mode
        /\ tracker'.elements = [e \in RenderElements(scene) |->
              [loc |-> scene.loc[e], commit |-> bag[e].commit, z |-> ZIndex(scene, e)]]
        /\ tracker'.opaque = OpaqueRegions(scene)
        /\ tracker'.old = <<NewDamage>> \o History(b)
        /\ tracker' = [mode |-> tracker'.mode, elements |-> tracker'.elements,
                       opaque |-> tracker'.opaque, old |-> tracker'.old]
    BY <1>1 DEF NextState
  <1>3. /\ History(b) \in Seq(SUBSET Output)
        /\ Len(History(b)) <= Len(tracker.old)
        /\ \A k \in 1 .. Len(History(b)) : History(b)[k] = tracker.old[k]
    BY HistoryKeepsPrefix
  <1>4. NewDamage \in SUBSET Output
    BY DamageInOutput
  <1>5. /\ tracker'.old \in Seq(SUBSET Output)
        /\ Len(tracker'.old) = Len(History(b)) + 1
        /\ tracker'.old[1] = NewDamage
        /\ \A k \in 1 .. Len(History(b)) : tracker'.old[k + 1] = History(b)[k]
    BY <1>2, <1>3, <1>4, PushFront
  <1>p. pixels' = [pixels EXCEPT ![b] = [p \in Output |-> Colour(scene, p)]]
    BY FrameShowsScene
  <1>6. pixels'[b] = [p \in Output |-> Colour(scene, p)]
    BY <1>0, <1>p DEF TargetsTyped
  <1>7. \A x \in Target : x # b => pixels'[x] = pixels[x]
    BY <1>0, <1>p DEF TargetsTyped
  <1>8. SceneTyped' /\ BagTyped' /\ TrackerTyped' /\ TargetsTyped'
    <2>1. SceneTyped' /\ BagTyped'
      BY <1>0, <1>1 DEF SceneTyped, BagTyped
    <2>2. RenderElements(scene) \subseteq Element
      BY <1>0, AboveOrders DEF RenderElements, SceneTyped
    <2>3. OpaqueRegions(scene) \subseteq Output
      BY DEF OpaqueRegions, OpaqueArea
    <2>4. TrackerTyped'
      BY <2>2, <2>3, <1>2, <1>5 DEF TrackerTyped
    <2>5. frameAge' \in [Target -> Nat]
      BY <1>0, <1>1 DEF TargetsTyped
    <2>6. TargetsTyped'
      BY <2>5, <1>0, <1>1, <1>p DEF TargetsTyped
    <2> QED BY <2>1, <2>4, <2>6
  <1>9. PICK s \in SceneType : s = scene
    BY <1>0 DEF SceneTyped
  <1>10. Remembers(s)'
    <2>1. Honest(s) /\ tracker'.mode = s.mode /\ DOMAIN tracker'.elements = RenderElements(s)
      BY <1>0, <1>2, <1>9 DEF SceneTyped
    <2>2. \A e \in RenderElements(s) :
             /\ tracker'.elements[e].loc = s.loc[e]
             /\ tracker'.elements[e].z = ZIndex(s, e)
             /\ tracker'.elements[e].commit = bag[e].commit
      BY <1>2, <1>9
    <2>3. ASSUME NEW e \in RenderElements(s) PROVE BagCovers(s, e, tracker.elements[e].commit)'
      <3>1. e \in Element /\ bag[e].commit \in Nat
        BY <1>0, <2>3, AboveOrders DEF RenderElements, BagTyped
      <3>2. e \in scene.mapped
        <4>1. scene.stack \in Seq(scene.mapped)
          BY <1>0, StackIsSeq DEF SceneTyped
        <4> QED BY <4>1, <2>3, <1>9 DEF RenderElements, ToSet
      <3>3. PICK c \in Nat : c = bag[e].commit
        BY <3>1
      <3>4. BagCovers(s, e, c)'
        BY <3>2, <3>3, <1>1, <1>9 DEF BagCovers
      <3>5. tracker'.elements[e].commit = c
        BY <2>2, <2>3, <3>3
      <3> QED BY <3>4, <3>5 DEF BagCovers
    <2>4. pixels'[shown'] = [p \in Output |-> Colour(s, p)]
      BY <1>1, <1>6, <1>9
    <2> QED BY <2>1, <2>2, <2>3, <2>4 DEF Remembers
  <1>11. shown' # NoTarget
    BY <1>1, DamageConstants
  <1>12. ASSUME NEW x \in Target, HistoryReaches(x)' PROVE HistoryHolds(x)'
    <2>1. CASE x = b
      BY <2>1, <1>1 DEF HistoryHolds
    <2>2. CASE x # b
      <3>0. frameAge[x] \in Nat /\ Len(tracker.old) \in Nat /\ Len(History(b)) \in Nat
        BY <1>0, <1>3 DEF TargetsTyped, TrackerTyped
      <3>1. frameAge'[x] > 0 /\ Len(tracker'.old) >= frameAge'[x]
        BY <1>12 DEF HistoryReaches
      <3>2. frameAge[x] > 0 /\ frameAge'[x] = frameAge[x] + 1
        BY <2>2, <3>0, <3>1, <1>1
      <3>3. Len(History(b)) >= frameAge[x]
        BY <3>0, <3>1, <3>2, <1>5
      <3>4. HistoryReaches(x)
        BY <3>0, <3>2, <3>3, <1>3 DEF HistoryReaches
      <3>5. ASSUME NEW p \in Output, \A k \in 1 .. frameAge'[x] - 1 : p \notin tracker'.old[k]
            PROVE  pixels'[x][p] = pixels'[shown'][p]
        <4>1. 1 \in 1 .. frameAge'[x] - 1
          BY <3>0, <3>2
        <4>2. p \notin NewDamage
          BY <4>1, <3>5, <1>5
        <4>3. ASSUME NEW k \in 1 .. frameAge[x] - 1 PROVE p \notin tracker.old[k]
          <5>1. k + 1 \in 1 .. frameAge'[x] - 1 /\ k \in 1 .. Len(History(b))
            BY <3>0, <3>2, <3>3
          <5> QED BY <5>1, <3>5, <1>3, <1>5
        <4>4. pixels[x][p] = pixels[shown][p]
          BY <3>4, <4>3 DEF DamageInv, HistoryHolds
        <4>5. pixels[shown][p] = Colour(scene, p)
          BY <4>2, ShownUpToDate
        <4> QED BY <4>4, <4>5, <2>2, <1>1, <1>6, <1>7
      <3> QED BY <3>5 DEF HistoryHolds
    <2> QED BY <2>1, <2>2
  <1>13. FrameIsWhole'
    BY <1>1, <1>6 DEF FrameIsWhole
  <1> QED BY <1>8, <1>10, <1>11, <1>12, <1>13 DEF DamageInv

LEMMA FailureKeeps ==
    ASSUME DamageInv, NEW b \in Target, RenderFails(b)
    PROVE  DamageInv'
  <1>0. SceneTyped /\ BagTyped /\ TargetsTyped
    BY DEF DamageInv
  <1>1. tracker' = NoState /\ b # shown /\ UNCHANGED <<scene, bag, frameAge, shown, rendered>>
    BY DEF RenderFails
  <1>2. pixels' = [pixels EXCEPT ![b] = [p \in Output |-> NoTarget]]
    BY DEF RenderFails
  <1>3. tracker'.mode = 0 /\ tracker'.old = <<>> /\ TrackerTyped'
    BY <1>1 DEF NoState, TrackerTyped
  <1>4. SceneTyped' /\ BagTyped' /\ TargetsTyped'
    BY <1>0, <1>1, <1>2 DEF SceneTyped, BagTyped, TargetsTyped
  <1>5. \A x \in Target : ~ HistoryReaches(x)'
    BY <1>0, <1>1, <1>3 DEF HistoryReaches, TargetsTyped
  <1>6. FrameIsWhole'
    BY <1>0, <1>1, <1>2 DEF DamageInv, FrameIsWhole, TargetsTyped
  <1> QED BY <1>3, <1>4, <1>5, <1>6 DEF DamageInv

LEMMA DamageKept == DamageInv /\ [DamageNext]_damageVars => DamageInv'
  <1> SUFFICES ASSUME DamageInv, [DamageNext]_damageVars PROVE DamageInv'
    OBVIOUS
  <1>1. ASSUME NEW e \in Element, NEW area \in SUBSET Offset, NEW v \in Paint,
               NEW declared \in BOOLEAN, CommitBuffer(e, area, v, declared)
        PROVE  DamageInv'
    BY <1>1, CommitKeeps
  <1>2. ASSUME NEW e \in Element, RemoveBuffer(e) PROVE DamageInv'
    BY <1>2, RemoveKeeps
  <1>3. ASSUME NEW s \in Arrangements(scene.mapped), Restack(s) PROVE DamageInv'
    BY <1>3, ArrangeKeeps
  <1>4. ASSUME NEW e \in Element, NEW l \in 0 .. Width, Move(e, l) PROVE DamageInv'
    BY <1>4, ArrangeKeeps
  <1>5. CASE ChangeMode
    BY <1>5, ArrangeKeeps
  <1>6. ASSUME NEW b \in Target, RenderOutput(b) PROVE DamageInv'
    <2>1. CASE FrameDamage(b) = {}
      BY <1>6, <2>1, NothingToDraw DEF RenderOutput
    <2>2. CASE FrameDamage(b) # {}
      BY <1>6, <2>2, FrameDrawn
    <2> QED BY <2>1, <2>2
  <1>7. ASSUME NEW b \in Target, RenderFails(b) PROVE DamageInv'
    BY <1>7, FailureKeeps
  <1>8. CASE UNCHANGED damageVars
    <2> USE <1>8 DEF damageVars
    <2>1. SceneTyped' /\ BagTyped' /\ TrackerTyped' /\ TargetsTyped' /\ FrameIsWhole'
      BY DEF DamageInv, SceneTyped, BagTyped, TrackerTyped, TargetsTyped, FrameIsWhole
    <2>2. \A s \in SceneType : Remembers(s) => Remembers(s)'
      BY DEF Remembers, BagCovers, BagReaches, DamageSince
    <2>3. \A b \in Target : HistoryReaches(b)' => HistoryHolds(b)'
      BY DEF DamageInv, HistoryReaches, HistoryHolds
    <2> QED BY <2>1, <2>2, <2>3 DEF DamageInv
  <1> QED BY <1>1, <1>2, <1>3, <1>4, <1>5, <1>6, <1>7, <1>8 DEF DamageNext

LEMMA DamageTypes == DamageInv => DamageTypeOK
  <1> SUFFICES ASSUME DamageInv PROVE DamageTypeOK
    OBVIOUS
  <1>1. \A k \in DOMAIN tracker.old : tracker.old[k] \subseteq Output
    BY DEF DamageInv, TrackerTyped
  <1> QED BY <1>1 DEF DamageInv, SceneTyped, BagTyped, TrackerTyped, TargetsTyped, DamageTypeOK

\* Buffer b is damaged wherever it does not show the present scene.
DamageSuffices(b) ==
    \A p \in Output \ FrameDamage(b) : pixels[b][p] = Colour(scene, p)

(***************************************************************************)
(* At any time, and for any buffer the compositor may be given, the damage *)
(* that damage_output_internal reports for its age is enough to draw: what *)
(* is left out is already there, even if other buffers were drawn, frames  *)
(* found nothing to draw or failed, and the scene changed any number of    *)
(* times since.                                                            *)
(***************************************************************************)
THEOREM DamageIsEnough == DamageSpec => [](\A b \in Target : DamageSuffices(b))
  <1>1. DamageInit => DamageInv
    BY InitDamage
  <1>2. DamageInv /\ [DamageNext]_damageVars => DamageInv'
    BY DamageKept
  <1>3. DamageInv => \A b \in Target : DamageSuffices(b)
    BY UndamagedUpToDate DEF DamageSuffices
  <1> QED BY <1>1, <1>2, <1>3, PTL DEF DamageSpec

(***************************************************************************)
(* Redrawing only what damage_output_internal reports leaves no old pixel: *)
(* after render_output the buffer shows the present scene, whatever the    *)
(* changes, the ages of the buffers and the failed frames before it.       *)
(***************************************************************************)
THEOREM FramesAreWhole == DamageSpec => []FrameIsWhole
  <1>1. DamageInit => DamageInv
    BY InitDamage
  <1>2. DamageInv /\ [DamageNext]_damageVars => DamageInv'
    BY DamageKept
  <1>3. DamageInv => FrameIsWhole
    BY DEF DamageInv
  <1> QED BY <1>1, <1>2, <1>3, PTL DEF DamageSpec

\* Every step of the tracker is one of a renderer that always redraws.
LEMMA RedrawStep ==
    ASSUME DamageInv, [DamageNext]_damageVars
    PROVE  [Redraw!RedrawNext]_(Redraw!redrawVars)
  <1> USE DEF Redraw!RedrawNext, Redraw!redrawVars
  <1>0. TargetsTyped
    BY DEF DamageInv
  <1>1. ASSUME Change PROVE Redraw!RedrawNext
    BY <1>1 DEF Change, Redraw!Repaint
  <1>2. ASSUME NEW b \in Target, RenderOutput(b), FrameDamage(b) = {}
        PROVE  Redraw!RedrawNext
    <2>1. /\ rendered' = TRUE
          /\ UNCHANGED <<pixels, shown, scene>>
      BY <1>2 DEF RenderOutput
    <2>2. \A p \in Output : /\ pixels[b][p] = Colour(scene, p)
                            /\ shown \in Target /\ pixels[shown][p] = Colour(scene, p)
      BY <1>2, UndamagedUpToDate
    <2>3. 0 \in Output
      BY DamageConstants DEF Output
    <2>4. shown \in Target
      BY <2>2, <2>3
    <2>5. \A x \in Target : pixels[x] = [p \in Output |-> pixels[x][p]]
      BY <1>0 DEF TargetsTyped
    <2>6. /\ pixels[b] = [p \in Output |-> Colour(scene, p)]
          /\ pixels[shown] = [p \in Output |-> Colour(scene, p)]
      BY <2>2, <2>4, <2>5
    <2>7. Redraw!LeaveOut(b)
      BY <2>1, <2>4, <2>6 DEF Redraw!LeaveOut
    <2> QED BY <2>7
  <1>3. ASSUME NEW b \in Target, RenderOutput(b), FrameDamage(b) # {}
        PROVE  Redraw!RedrawNext
    <2>1. pixels' = [pixels EXCEPT ![b] = [p \in Output |-> Colour(scene, p)]]
      BY <1>3, FrameShowsScene
    <2>2. rendered' = TRUE /\ shown' = b /\ scene' = scene
      BY <1>3 DEF RenderOutput
    <2>3. Redraw!Present(b)
      BY <2>1, <2>2 DEF Redraw!Present
    <2> QED BY <2>3
  <1>4. ASSUME NEW b \in Target, RenderFails(b) PROVE Redraw!RedrawNext
    <2>1. Redraw!Spoil(b)
      BY <1>4 DEF RenderFails, Redraw!Spoil
    <2> QED BY <2>1
  <1>5. CASE UNCHANGED damageVars
    BY <1>5 DEF damageVars
  <1>6. CASE DamageNext
    <2>1. \/ Change
          \/ \E b \in Target : RenderOutput(b) \/ RenderFails(b)
      BY <1>6 DEF DamageNext, CommitBuffer, RemoveBuffer, Restack, Move, ChangeMode
    <2> QED BY <2>1, <1>1, <1>2, <1>3, <1>4
  <1> QED BY <1>5, <1>6

(***************************************************************************)
(* The tracker implements a renderer that redraws all of every frame: a    *)
(* frame it draws leaves the whole scene in its buffer, and one it leaves  *)
(* out shows the scene already, on the screen and in that buffer.          *)
(***************************************************************************)
THEOREM DamageImplementsRedraw == DamageSpec => ImplementsRedraw
  <1>1. DamageInit => Redraw!RedrawInit
    BY DEF DamageInit, Redraw!RedrawInit
  <1>2. DamageInit => DamageInv
    BY InitDamage
  <1>3. DamageInv /\ [DamageNext]_damageVars => DamageInv'
    BY DamageKept
  <1>4. DamageInv /\ [DamageNext]_damageVars => [Redraw!RedrawNext]_(Redraw!redrawVars)
    BY RedrawStep
  <1> QED BY <1>1, <1>2, <1>3, <1>4, PTL DEF DamageSpec, ImplementsRedraw, Redraw!RedrawSpec

-----------------------------------------------------------------------------
(* The DrmCompositor: its frames, slots and planes.                          *)
FramesTyped ==
    /\ current \in FrameType
    /\ screen \in FrameType
    /\ pending \in FrameType \cup {None}
    /\ queued \in FrameType \cup {None}
    /\ next \in FrameType \cup {None}
    /\ flip \in FrameType \cup {None}
    /\ wanted \in [base : 0 .. MaxUpdates, top : Version]
    /\ spent.updates \in 0 .. MaxUpdates
    /\ spent = [updates |-> spent.updates, prepared |-> spent.prepared, session |-> spent.session]
    /\ resetPending \in BOOLEAN /\ modeset \in BOOLEAN /\ vblank \in BOOLEAN

\* A vblank event or a flip is always that of the pending frame, and a frame
\* waits in the queue only behind a pending one.
Owed ==
    /\ pending # None <=> flip # None \/ vblank
    /\ flip # None => flip = pending /\ ~ vblank
    /\ queued # None => pending # None

\* What the primary plane scans out: the buffer of the pending frame between
\* its flip and the event, otherwise that of the current one.
SlotOf(f) == IF f = None THEN None ELSE f.primary.slot

DrawnSlot(f) == IF f = None \/ f.primary.skip THEN None ELSE f.primary.slot

ScreenHeld ==
    /\ vblank => SlotOf(screen) \in {None, SlotOf(pending)}
    /\ ~ vblank => SlotOf(screen) \in {None, SlotOf(current)}


\* A frame to be queued was drawn into a slot of the swapchain.
DrawnIsChained == DrawnSlot(next) # None => DrawnSlot(next) \in Chained

\* The damage tracker and the contents of the buffers.
TrackTyped ==
    /\ picture \in [Buffer -> [Full -> Version]]
    /\ seen \in [Full -> Version] \cup {None}
    /\ oldDamage \in Seq(SUBSET Full)

FrameInv ==
    /\ DrmTypeOK
    /\ TrackTyped
    /\ FramesTyped
    /\ Owed
    /\ ScreenHeld
    /\ DrawnIsChained

\* The planes and frames of the model, field by field.
LEMMA PlaneFields ==
    ASSUME NEW slot \in Buffer \cup {None}, NEW elem \in Version, NEW skip \in BOOLEAN
    PROVE  /\ Plane(slot, elem, skip) \in PlaneType
           /\ Plane(slot, elem, skip).slot = slot
           /\ Plane(slot, elem, skip).elem = elem
           /\ Plane(slot, elem, skip).skip = skip
  BY DEF Plane, PlaneType

LEMMA FrameFields ==
    ASSUME NEW primary \in PlaneType, NEW overlay \in PlaneType, NEW partial \in BOOLEAN
    PROVE  /\ Frame(primary, overlay, partial) \in FrameType
           /\ Frame(primary, overlay, partial).primary = primary
           /\ Frame(primary, overlay, partial).overlay = overlay
           /\ Frame(primary, overlay, partial).partial = partial
  BY DEF Frame, FrameType

LEMMA TypedFields ==
    ASSUME NEW f \in FrameType
    PROVE  /\ f.primary \in PlaneType /\ f.overlay \in PlaneType /\ f.partial \in BOOLEAN
           /\ f.primary.slot \in Buffer \cup {None} /\ f.primary.elem \in Version
           /\ f.primary.skip \in BOOLEAN /\ f.overlay.elem \in Version
           /\ f.overlay.skip \in BOOLEAN
  BY DEF FrameType, PlaneType

LEMMA BlankFields ==
    /\ Blank \in FrameType
    /\ Blank.primary.slot = None /\ Blank.primary.elem = None /\ Blank.overlay.elem = None
  <1>1. None \in Buffer \cup {None} /\ None \in Version /\ TRUE \in BOOLEAN
    BY DEF Version
  <1>2. NoPlane \in PlaneType /\ NoPlane.slot = None /\ NoPlane.elem = None
    BY <1>1, PlaneFields DEF NoPlane
  <1> QED
    BY <1>1, <1>2, FrameFields DEF Blank

\* A frame in one of the fields of the compositor holds its slot.
LEMMA SlotsOfFrames ==
    ASSUME NEW S, \A f \in S : f \in FrameType \cup {None}
    PROVE  /\ SlotsOf(S) \subseteq Buffer
           /\ \A f \in S : SlotOf(f) # None => SlotOf(f) \in SlotsOf(S)
           /\ \A b \in SlotsOf(S) : \E f \in S : f # None /\ SlotOf(f) = b
           /\ None \notin SlotsOf(S)
  <1>1. \A f \in S : f # None => f.primary.slot \in Buffer \cup {None}
    BY TypedFields
  <1> QED
    BY <1>1 DEF SlotsOf, SlotOf

\* What the kernel reads is held by the current or the pending frame.
LEMMA ScannedOutHeld ==
    ASSUME FramesTyped, Owed, ScreenHeld
    PROVE  SlotsOf({screen, flip}) \subseteq SlotsOf({current, pending, queued})
  <1> SUFFICES ASSUME NEW b \in SlotsOf({screen, flip})
               PROVE  b \in SlotsOf({current, pending, queued})
    OBVIOUS
  <1>1. \A f \in {screen, flip} : f \in FrameType \cup {None}
    BY DEF FramesTyped
  <1>2. \A f \in {current, pending, queued} : f \in FrameType \cup {None}
    BY DEF FramesTyped
  <1> DEFINE S == {screen, flip}
             H == {current, pending, queued}
  <1>3. PICK f \in S : f # None /\ SlotOf(f) = b /\ b # None
    <2>1. \A f \in S : f \in FrameType \cup {None}
      BY <1>1
    <2>2. b \in SlotsOf(S)
      OBVIOUS
    <2> HIDE DEF S
    <2> QED
      BY <2>1, <2>2, SlotsOfFrames
  <1>4. SlotOf(current) = b \/ SlotOf(pending) = b
    BY <1>3 DEF Owed, ScreenHeld, FramesTyped
  <1>5. \A g \in H : SlotOf(g) # None => SlotOf(g) \in SlotsOf(H)
    <2>1. \A g \in H : g \in FrameType \cup {None}
      BY <1>2
    <2> HIDE DEF H
    <2> QED
      BY <2>1, SlotsOfFrames
  <1> QED
    BY <1>3, <1>4, <1>5

-----------------------------------------------------------------------------
\* The frame render_frame prepares for the present scene.
Overlaid(f, onPlane) ==
    /\ f.overlay.slot = None
    /\ f.overlay.elem = IF onPlane THEN wanted.top ELSE None
    /\ f.overlay.skip = (Previous.overlay.elem = f.overlay.elem)
    /\ f.partial = (~ resetPending /\ ~ modeset)

LEMMA OverlayFields ==
    ASSUME FramesTyped, Previous \in FrameType, NEW onPlane \in BOOLEAN
    PROVE  /\ Overlay(onPlane) \in PlaneType
           /\ Overlay(onPlane).elem = IF onPlane THEN wanted.top ELSE None
           /\ Overlay(onPlane).skip = (Previous.overlay.elem = Overlay(onPlane).elem)
           /\ Overlay(onPlane).slot = None
  <1> DEFINE e == IF onPlane THEN wanted.top ELSE None
             k == Previous.overlay.elem = e
  <1>1. None \in Buffer \cup {None} /\ e \in Version /\ k \in BOOLEAN
    BY DEF FramesTyped, Version
  <1>2. Overlay(onPlane) = Plane(None, e, k)
    BY DEF Overlay
  <1> HIDE DEF k, e
  <1>3. Overlay(onPlane) \in PlaneType /\ Overlay(onPlane).elem = e
        /\ Overlay(onPlane).skip = k /\ Overlay(onPlane).slot = None
    BY <1>1, <1>2, PlaneFields
  <1> QED
    BY <1>3 DEF e, k

LEMMA PreviousTyped == FramesTyped => Previous \in FrameType
  BY DEF FramesTyped, Previous

Image(onPlane) == [wanted EXCEPT !.top = IF onPlane THEN None ELSE @]

\* What render_frame draws or scans out on the primary plane.
Rendered(f, b, a, onPlane, direct) ==
    IF direct
    THEN /\ UNCHANGED trackVars
         /\ f.primary = Plane(None, wanted.base, Previous.primary.elem = wanted.base)
    ELSE /\ Draw(b, Image(onPlane), Damage(Image(onPlane), a))
         /\ f.primary = PrimaryOfDamage(b, Damage(Image(onPlane), a))

\* The primary plane of a rendered frame.
LEMMA PrimaryFields ==
    ASSUME FramesTyped, NEW b \in Buffer, NEW d
    PROVE  /\ PrimaryOfDamage(b, d) \in PlaneType
           /\ PrimaryOfDamage(b, d).elem = None
           /\ \/ /\ Previous.primary.elem # None \/ d.all # {}
                 /\ PrimaryOfDamage(b, d).slot = b /\ PrimaryOfDamage(b, d).skip = FALSE
              \/ /\ Previous.primary.elem = None /\ d.all = {}
                 /\ PrimaryOfDamage(b, d).slot =
                       IF Previous.primary.slot # None THEN Previous.primary.slot ELSE b
                 /\ PrimaryOfDamage(b, d).skip = TRUE
  <1>1. Previous \in FrameType
    BY PreviousTyped
  <1>2. Previous.primary.slot \in Buffer \cup {None}
    BY <1>1, TypedFields
  <1>3. None \in Version /\ b \in Buffer \cup {None}
    BY DEF Version
  <1>4. CASE Previous.primary.elem # None \/ d.all # {}
    <2>1. PrimaryOfDamage(b, d) = Plane(b, None, FALSE)
      BY <1>4 DEF PrimaryOfDamage
    <2>2. /\ Plane(b, None, FALSE) \in PlaneType /\ Plane(b, None, FALSE).elem = None
          /\ Plane(b, None, FALSE).slot = b /\ Plane(b, None, FALSE).skip = FALSE
      BY <1>3 DEF Plane, PlaneType
    <2> QED
      BY <1>4, <2>1, <2>2
  <1>5. CASE Previous.primary.elem = None /\ d.all = {}
    <2> DEFINE x == IF Previous.primary.slot # None THEN Previous.primary.slot ELSE b
    <2>1. PrimaryOfDamage(b, d) = Plane(x, None, TRUE)
      BY <1>5 DEF PrimaryOfDamage
    <2>2. x \in Buffer \cup {None}
      BY <1>2
    <2> HIDE DEF x
    <2>3. /\ Plane(x, None, TRUE) \in PlaneType /\ Plane(x, None, TRUE).elem = None
          /\ Plane(x, None, TRUE).slot = x /\ Plane(x, None, TRUE).skip = TRUE
      BY <1>3, <2>2 DEF Plane, PlaneType
    <2> QED
      BY <1>5, <2>1, <2>3 DEF x
  <1> QED
    BY <1>4, <1>5

\* render_frame takes a buffer that no frame on its way holds.
LEMMA RenderParts ==
    ASSUME FrameInv, NEW onPlane \in BOOLEAN, NEW direct \in BOOLEAN,
           RenderFrame(onPlane, direct)
    PROVE  \E b \in Buffer, a \in 0 .. MaxAge, f \in FrameType :
              /\ b \notin SlotsOf({current, pending, queued})
              /\ slots' \in [Position -> Buffer \cup {None}]
              /\ Chained' = Chained \cup {b}
              /\ age' = [age EXCEPT ![b] = a]
              /\ a = 0 \/ (b \in Chained /\ a = age[b])
              /\ next' = IF IsEmpty(f) THEN None ELSE f
              /\ acquired' = SlotsOf({current, pending, queued, next'})
              /\ Overlaid(f, onPlane)
              /\ Rendered(f, b, a, onPlane, direct)
  <1> USE BufferAssumption, MaxAgeAssumption
  <1>0. FramesTyped /\ SwapchainTypeOK /\ Previous \in FrameType
    BY PreviousTyped DEF FrameInv, DrmTypeOK
  <1> DEFINE img == Image(onPlane)
             partial == ~ resetPending /\ ~ modeset
  <1>1. PICK k \in Position :
          /\ FreeSlot(k)
          /\ slots[k] = None => Unallocated # {}
          /\ LET b == SlotBuffer(k)
                 a == IF slots[k] # None THEN age[b] ELSE 0
                 d == Damage(img, a)
             IN  /\ slots' = SlotsWith(k, b)
                 /\ age' = [age EXCEPT ![b] = a]
                 /\ IF direct
                    THEN /\ UNCHANGED trackVars
                         /\ Prepare(Frame(Plane(None, wanted.base, Previous.primary.elem = wanted.base),
                                          Overlay(onPlane), partial))
                    ELSE /\ Draw(b, img, d)
                         /\ Prepare(Frame(PrimaryOfDamage(b, d), Overlay(onPlane), partial))
    BY DEF RenderFrame, Image
  <1> DEFINE b == SlotBuffer(k)
             a == IF slots[k] # None THEN age[b] ELSE 0
             d == Damage(img, a)
  <1>2. b \in Buffer /\ b \notin SlotsOf({current, pending, queued})
        /\ (slots[k] # None => b = slots[k])
    <2>1. CASE slots[k] # None
      BY <1>0, <1>1, <2>1 DEF SlotBuffer, FreeSlot, SwapchainTypeOK
    <2>2. CASE slots[k] = None
      <3>1. b \in Unallocated
        BY <1>1, <2>2 DEF SlotBuffer
      <3>2. \A x : x \in SlotsOf({current, pending, queued})
                     => x \in SlotsOf({current, pending, queued, screen, flip})
        BY DEF SlotsOf
      <3> QED
        BY <2>2, <3>1, <3>2 DEF Unallocated
    <2> QED
      BY <2>1, <2>2
  <1>3. a \in 0 .. MaxAge /\ (a = 0 \/ (b \in Chained /\ a = age[b]))
    <2>1. CASE slots[k] # None
      BY <1>0, <1>2, <2>1 DEF SwapchainTypeOK, Chained
    <2>2. CASE slots[k] = None
      BY <2>2
    <2> QED
      BY <2>1, <2>2
  <1>4. slots' = SlotsWith(k, b) /\ age' = [age EXCEPT ![b] = a]
    BY <1>1
  <1>5. slots' \in [Position -> Buffer \cup {None}] /\ Chained' = Chained \cup {b}
    <2> HIDE DEF b
    <2>1. slots' = [slots EXCEPT ![k] = b]
      BY <1>4 DEF SlotsWith
    <2>2. slots \in [Position -> Buffer \cup {None}] /\ slots[k] \in {b, None} /\ b # None
      BY <1>0, <1>2 DEF SwapchainTypeOK
    <2>3. slots' \in [Position -> Buffer \cup {None}] /\ slots'[k] = b
          /\ \A j \in Position : j # k => slots'[j] = slots[j]
      BY <1>2, <2>1, <2>2
    <2>4. \A x : x \in Chained' => x \in Chained \cup {b}
      BY <2>3 DEF Chained
    <2>5. \A x : x \in Chained \cup {b} => x \in Chained'
      BY <2>2, <2>3 DEF Chained
    <2> QED
      BY <2>3, <2>4, <2>5
  <1>6. Overlay(onPlane) \in PlaneType /\ partial \in BOOLEAN
    BY <1>0, OverlayFields
  <1>7. CASE direct
    <2> DEFINE q == Plane(None, wanted.base, Previous.primary.elem = wanted.base)
               f == Frame(q, Overlay(onPlane), partial)
    <2>1. q \in PlaneType
      <3>1. None \in Buffer \cup {None} /\ wanted.base \in Version
            /\ (Previous.primary.elem = wanted.base) \in BOOLEAN
        BY <1>0 DEF FramesTyped, Version
      <3> QED
        BY <3>1, PlaneFields
    <2>2. UNCHANGED trackVars /\ Prepare(f)
      BY <1>1, <1>7
    <2>3. f \in FrameType /\ f.primary = q /\ f.overlay = Overlay(onPlane) /\ f.partial = partial
      <3> HIDE DEF q, partial
      <3> QED
        BY <1>6, <2>1, FrameFields
    <2>4. Overlaid(f, onPlane)
      <3> HIDE DEF f
      <3> QED
        BY <1>0, <2>3, OverlayFields DEF Overlaid
    <2>5. Rendered(f, b, a, onPlane, direct)
      BY <1>7, <2>2, <2>3 DEF Rendered
    <2>6. next' = (IF IsEmpty(f) THEN None ELSE f)
          /\ acquired' = SlotsOf({current, pending, queued, next'})
      BY <2>2 DEF Prepare
    <2> HIDE DEF f, b, a, d
    <2> QED
      BY <1>2, <1>3, <1>4, <1>5, <2>3, <2>4, <2>5, <2>6
  <1>8. CASE ~ direct
    <2> DEFINE q == PrimaryOfDamage(b, d)
               f == Frame(q, Overlay(onPlane), partial)
    <2>1. q \in PlaneType
      BY <1>0, <1>2, PrimaryFields
    <2>2. Draw(b, img, d) /\ Prepare(f)
      BY <1>1, <1>8
    <2>3. f \in FrameType /\ f.primary = q /\ f.overlay = Overlay(onPlane) /\ f.partial = partial
      <3> HIDE DEF q, partial
      <3> QED
        BY <1>6, <2>1, FrameFields
    <2>4. Overlaid(f, onPlane)
      <3> HIDE DEF f
      <3> QED
        BY <1>0, <2>3, OverlayFields DEF Overlaid
    <2>5. Rendered(f, b, a, onPlane, direct)
      BY <1>8, <2>2, <2>3 DEF Rendered
    <2>6. next' = (IF IsEmpty(f) THEN None ELSE f)
          /\ acquired' = SlotsOf({current, pending, queued, next'})
      BY <2>2 DEF Prepare
    <2> HIDE DEF f, b, a, d
    <2> QED
      BY <1>2, <1>3, <1>4, <1>5, <2>3, <2>4, <2>5, <2>6
  <1> QED
    BY <1>7, <1>8

-----------------------------------------------------------------------------
\* FrameInv is inductive, action by action.

LEMMA RolesHold ==
    ASSUME NEW p \in FrameType \cup {None}, NEW q \in FrameType \cup {None},
           NEW r \in FrameType \cup {None}, NEW s \in FrameType \cup {None}
    PROVE  /\ SlotsOf({p, q, r, s}) \subseteq Buffer
           /\ s = None => SlotsOf({p, q, r}) = SlotsOf({p, q, r, s})
  <1> DEFINE S == {p, q, r, s}
  <1>1. \A f \in S : f \in FrameType \cup {None}
    OBVIOUS
  <1>2. SlotsOf(S) \subseteq Buffer
    <2> HIDE DEF S
    <2> QED
      BY <1>1, SlotsOfFrames
  <1>3. s = None => {p, q, r} \ {None} = S \ {None}
    OBVIOUS
  <1> QED
    BY <1>2, <1>3 DEF SlotsOf

\* What of FrameInv speaks of the frames, the screen and the constants.
LEMMA ChainSubmitted ==
    ASSUME SwapchainTypeOK, NEW f \in FrameType, AgeSlot(f)
    PROVE  slots' \in [Position -> Buffer \cup {None}] /\ age' \in [Buffer -> 0 .. MaxAge]
  <1> USE BufferAssumption, MaxAgeAssumption
  <1>1. CASE UNCHANGED <<age, slots>>
    BY <1>1 DEF SwapchainTypeOK
  <1>2. CASE age' = Ages(f.primary.slot) /\ slots' = SlotsAged(f.primary.slot)
    BY <1>2 DEF SwapchainTypeOK, Ages, SlotsAged
  <1> QED
    BY <1>1, <1>2 DEF AgeSlot, Submitted

LEMMA TrackKept == ASSUME TrackTyped, UNCHANGED trackVars PROVE TrackTyped'
  BY DEF TrackTyped, trackVars

LEMMA DamageTyped ==
    ASSUME TrackTyped, NEW img \in [Full -> Version], NEW a \in 0 .. MaxAge
    PROVE  /\ Damage(img, a).new \in SUBSET Full /\ Damage(img, a).all \in SUBSET Full
           /\ Damage(img, a).kept \in Seq(SUBSET Full)
  <1> USE MaxAgeAssumption, DrmConstants
  <1> DEFINE new == IF seen = None THEN Full ELSE {p \in Full : img[p] # seen[p]}
             old == UNION {oldDamage[k] : k \in 1 .. a - 1}
             known == a > 0 /\ Len(oldDamage) >= a
             n == IF known THEN a ELSE KeepHistory
             m == IF n < Len(oldDamage) THEN n ELSE Len(oldDamage)
  <1>1. new \in SUBSET Full
    OBVIOUS
  <1>2. known => old \in SUBSET Full
    BY DEF TrackTyped
  <1>3. m \in 0 .. Len(oldDamage)
    BY DEF TrackTyped
  <1>4. SubSeq(oldDamage, 1, m) \in Seq(SUBSET Full)
    <2> HIDE DEF m
    <2> QED
      BY <1>3 DEF TrackTyped
  <1>5. Damage(img, a) = [new |-> new, all |-> IF known THEN new \cup old ELSE Full,
                          kept |-> SubSeq(oldDamage, 1, m)]
    BY DEF Damage
  <1> DEFINE all == IF known THEN new \cup old ELSE Full
  <1>6. all \in SUBSET Full
    BY <1>1, <1>2
  <1>7. Damage(img, a).new = new /\ Damage(img, a).all = all
        /\ Damage(img, a).kept = SubSeq(oldDamage, 1, m)
    BY <1>5
  <1> HIDE DEF new, all, m
  <1> QED
    BY <1>1, <1>4, <1>6, <1>7

LEMMA ImageTyped ==
    ASSUME FramesTyped, NEW onPlane \in BOOLEAN
    PROVE  Image(onPlane) \in [Full -> Version]
  BY DrmConstants DEF FramesTyped, Image, Version

LEMMA DrawTyped ==
    ASSUME TrackTyped, FramesTyped, NEW b \in Buffer, NEW a \in 0 .. MaxAge,
           NEW onPlane \in BOOLEAN, NEW direct \in BOOLEAN, NEW f,
           Rendered(f, b, a, onPlane, direct)
    PROVE  TrackTyped'
  <1>1. CASE direct
    BY <1>1 DEF Rendered, trackVars, TrackTyped
  <1>2. CASE ~ direct
    <2> DEFINE img == Image(onPlane)
               d == Damage(img, a)
    <2>1. img \in [Full -> Version]
      BY ImageTyped
    <2>2. d.new \in SUBSET Full /\ d.all \in SUBSET Full /\ d.kept \in Seq(SUBSET Full)
      BY <2>1, DamageTyped
    <2>3. Draw(b, img, d)
      BY <1>2 DEF Rendered
    <2> HIDE DEF img, d
    <2>4. CASE d.all = {}
      BY <2>2, <2>3, <2>4 DEF Draw, TrackTyped
    <2>5. CASE d.all # {}
      <3>1. oldDamage' \in Seq(SUBSET Full)
        <4>1. oldDamage' = <<d.new>> \o d.kept
          BY <2>3, <2>5 DEF Draw
        <4> QED
          BY <2>2, <4>1
      <3>2. seen' \in [Full -> Version]
        BY <2>1, <2>3, <2>5 DEF Draw
      <3>3. picture' \in [Buffer -> [Full -> Version]]
        <4> DEFINE pic == [p \in Full |-> IF p \in d.all THEN img[p] ELSE picture[b][p]]
        <4>1. picture' = [picture EXCEPT ![b] = pic]
          BY <2>3, <2>5 DEF Draw
        <4>2. pic \in [Full -> Version]
          BY <2>1 DEF TrackTyped
        <4> HIDE DEF pic
        <4> QED
          BY <4>1, <4>2 DEF TrackTyped
      <3> QED
        BY <3>1, <3>2, <3>3 DEF TrackTyped
    <2> QED
      BY <2>4, <2>5
  <1> QED
    BY <1>1, <1>2

LEMMA InitFrames == DrmInit => FrameInv
  <1> SUFFICES ASSUME DrmInit PROVE FrameInv
    OBVIOUS
  <1> USE BufferAssumption, MaxAgeAssumption, DrmConstants
  <1>1. Blank \in FrameType /\ Blank.primary.slot = None
    BY BlankFields
  <1>2. FramesTyped
    <2>1. 0 \in 0 .. MaxUpdates /\ None \in Version
      BY DEF Version
    <2>2. wanted \in [base : 0 .. MaxUpdates, top : Version]
      BY <2>1 DEF DrmInit
    <2>3. /\ spent.updates \in 0 .. MaxUpdates
          /\ spent = [updates |-> spent.updates, prepared |-> spent.prepared,
                      session |-> spent.session]
      BY <2>1 DEF DrmInit
    <2> QED
      BY <1>1, <2>2, <2>3 DEF DrmInit, FramesTyped
  <1>3. SlotsOf({current, pending, queued, next}) = {}
    <2>1. {current, pending, queued, next} \ {None} \subseteq {Blank}
      BY DEF DrmInit
    <2> QED
      BY <1>1, <2>1 DEF SlotsOf
  <1>4. DrmTypeOK
    <2>1. 0 \in 0 .. MaxAge
      OBVIOUS
    <2>2. SwapchainTypeOK
      BY <2>1 DEF DrmInit, SwapchainTypeOK, EmptySlots
    <2>3. acquired = SlotsOf({current, pending, queued, next})
      BY <1>3 DEF DrmInit
    <2> QED
      BY <2>2, <2>3 DEF DrmTypeOK, DrmInit
  <1>5. Owed /\ ScreenHeld /\ DrawnIsChained
    <2>1. Blank # None \/ Blank = None
      OBVIOUS
    <2> QED
      BY <1>1 DEF Owed, ScreenHeld, DrawnIsChained, DrmInit, SlotOf, DrawnSlot
  <1>9. TrackTyped
    <2>1. None \in Version /\ <<>> \in Seq(SUBSET Full)
      BY DEF Version
    <2> QED
      BY <2>1 DEF DrmInit, TrackTyped
  <1> QED
    BY <1>9, <1>2, <1>4, <1>5 DEF FrameInv

LEMMA ChangeFrames ==
    ASSUME FrameInv, NEW piece \in Full, NEW gone \in BOOLEAN, ChangeScene(piece, gone)
    PROVE  FrameInv'
  <1> USE DrmConstants
  <1>1. UNCHANGED <<slots, acquired, age, current, pending, queued, next, screen, flip, vblank,
                    resetPending, modeset>>
    BY DEF ChangeScene, chainVars, roleVars, kernelVars
  <1>2. spent'.updates \in 0 .. MaxUpdates
        /\ spent' = [updates |-> spent'.updates, prepared |-> spent'.prepared,
                     session |-> spent'.session]
    BY DEF ChangeScene, FrameInv, FramesTyped
  <1>3. wanted' \in [base : 0 .. MaxUpdates, top : Version]
    BY <1>2 DEF ChangeScene, FrameInv, FramesTyped, Version
  <1>4. FramesTyped'
    BY <1>1, <1>2, <1>3 DEF FrameInv, FramesTyped
  <1>5. DrmTypeOK' /\ Owed' /\ ScreenHeld' /\ DrawnIsChained'
    BY <1>1 DEF FrameInv, DrmTypeOK, SwapchainTypeOK, Owed, ScreenHeld, DrawnIsChained, Chained,
                SlotOf, DrawnSlot
  <1>9. TrackTyped'
    BY TrackKept DEF ChangeScene, FrameInv
  <1> QED
    BY <1>9, <1>4, <1>5 DEF FrameInv

LEMMA RenderFrames ==
    ASSUME FrameInv, NEW onPlane \in BOOLEAN, NEW direct \in BOOLEAN,
           RenderFrame(onPlane, direct)
    PROVE  FrameInv'
  <1> USE BufferAssumption, MaxAgeAssumption
  <1>1. PICK b \in Buffer, a \in 0 .. MaxAge, f \in FrameType :
              /\ b \notin SlotsOf({current, pending, queued})
              /\ slots' \in [Position -> Buffer \cup {None}]
              /\ Chained' = Chained \cup {b}
              /\ age' = [age EXCEPT ![b] = a]
              /\ next' = IF IsEmpty(f) THEN None ELSE f
              /\ acquired' = SlotsOf({current, pending, queued, next'})
              /\ Rendered(f, b, a, onPlane, direct)
    BY RenderParts
  <1>2. UNCHANGED <<current, pending, queued, screen, flip, vblank, wanted, resetPending, modeset>>
        /\ spent'.updates = spent.updates
        /\ spent' = [updates |-> spent'.updates, prepared |-> spent'.prepared,
                     session |-> spent'.session]
    BY DEF RenderFrame, FrameInv, FramesTyped, kernelVars
  <1>3. next' \in FrameType \cup {None}
    BY <1>1
  <1>4. FramesTyped'
    BY <1>2, <1>3 DEF FrameInv, FramesTyped
  <1>5. DrmTypeOK'
    <2>1. acquired' \subseteq Buffer
      BY <1>1, <1>3, RolesHold DEF FrameInv, FramesTyped
    <2> QED
      BY <1>1, <1>2, <2>1 DEF FrameInv, FramesTyped, DrmTypeOK, SwapchainTypeOK
  <1>6. Owed' /\ ScreenHeld'
    BY <1>2 DEF FrameInv, Owed, ScreenHeld, SlotOf
  <1>7. DrawnSlot(f) \in {None, b}
    <2>0. FramesTyped
      BY DEF FrameInv
    <2>1. CASE direct
      <3>1. f.primary.slot = None
        BY <1>1, <2>1 DEF Rendered, Plane
      <3> QED
        BY <3>1 DEF DrawnSlot
    <2>2. CASE ~ direct
      <3> DEFINE d == Damage(Image(onPlane), a)
      <3>1. f.primary = PrimaryOfDamage(b, d)
        BY <1>1, <2>2 DEF Rendered
      <3>2. f.primary.skip \/ f.primary.slot = b
        <4> HIDE DEF d
        <4> QED
          BY <3>1 DEF PrimaryOfDamage, Plane
      <3> QED
        BY <3>2 DEF DrawnSlot
    <2> QED
      BY <2>1, <2>2
  <1>8. DrawnIsChained'
    BY <1>1, <1>7 DEF DrawnIsChained, DrawnSlot
  <1>9. TrackTyped'
    BY <1>1, DrawTyped DEF FrameInv
  <1> QED
    BY <1>9, <1>4, <1>5, <1>6, <1>8 DEF FrameInv

LEMMA FailFrames == ASSUME FrameInv, RenderFrameFails PROVE FrameInv'
  <1>1. /\ UNCHANGED <<current, pending, queued, screen, flip, vblank, wanted, resetPending,
                       modeset, age>>
        /\ next' = None /\ slots' = EmptySlots
        /\ acquired' = SlotsOf({current, pending, queued})
        /\ spent'.updates = spent.updates
        /\ spent' = [updates |-> spent'.updates, prepared |-> spent'.prepared,
                     session |-> spent'.session]
    BY DEF RenderFrameFails, Spend, FrameInv, FramesTyped, kernelVars
  <1>2. FramesTyped'
    BY <1>1 DEF FrameInv, FramesTyped
  <1>3. DrmTypeOK'
    <2>1. /\ SlotsOf({current, pending, queued}) = SlotsOf({current, pending, queued, next'})
          /\ SlotsOf({current, pending, queued, next'}) \subseteq Buffer
      <3>1. current \in FrameType \cup {None} /\ pending \in FrameType \cup {None}
            /\ queued \in FrameType \cup {None} /\ next' \in FrameType \cup {None}
        BY <1>1 DEF FrameInv, FramesTyped
      <3> QED
        BY <1>1, <3>1, RolesHold
    <2> QED
      BY <1>1, <2>1 DEF FrameInv, FramesTyped, DrmTypeOK, SwapchainTypeOK, EmptySlots
  <1>9. TrackTyped'
    BY DEF FrameInv, TrackTyped, RenderFrameFails
  <1> QED
    BY <1>9, <1>1, <1>2, <1>3
    DEF FrameInv, Owed, ScreenHeld, DrawnIsChained, SlotOf, DrawnSlot

\* What a successful or a failed flip leaves behind.
LEMMA SubmitRoles ==
    ASSUME NEW f \in FrameType, Submit(f), FramesTyped, flip = None
    PROVE  /\ queued' = None /\ pending' \in {None, f} /\ flip' = pending'
           /\ resetPending' \in BOOLEAN /\ modeset' \in BOOLEAN
  BY DEF Submit, FramesTyped

LEMMA QueueFrames == ASSUME FrameInv, QueueFrame PROVE FrameInv'
  <1>1. /\ UNCHANGED <<current, screen, vblank, wanted, spent>>
        /\ next' = None /\ next \in FrameType /\ AgeSlot(next)
        /\ acquired' = SlotsOf({current, pending', queued'})
    BY DEF QueueFrame, FrameInv, FramesTyped
  <1>2. /\ pending' \in FrameType \cup {None} /\ queued' \in FrameType \cup {None}
        /\ flip' \in FrameType \cup {None}
        /\ resetPending' \in BOOLEAN /\ modeset' \in BOOLEAN
        /\ Owed' /\ (pending # None => pending' = pending) /\ (pending = None => ~ vblank)
    <2>1. CASE pending = None
      <3>1. Submit(next) /\ flip = None /\ ~ vblank /\ FramesTyped
        BY <2>1 DEF QueueFrame, FrameInv, Owed, FramesTyped
      <3>2. /\ queued' = None /\ pending' \in {None, next} /\ flip' = pending'
            /\ resetPending' \in BOOLEAN /\ modeset' \in BOOLEAN
        BY <1>1, <3>1, SubmitRoles
      <3> QED
        BY <1>1, <2>1, <3>1, <3>2 DEF Owed
    <2>2. CASE pending # None
      <3>1. queued' = next /\ UNCHANGED <<pending, flip, resetPending, modeset>>
        BY <2>2 DEF QueueFrame
      <3> QED
        BY <1>1, <2>2, <3>1 DEF FrameInv, FramesTyped, Owed
    <2> QED
      BY <2>1, <2>2
  <1>3. FramesTyped'
    BY <1>1, <1>2 DEF FrameInv, FramesTyped
  <1>4. DrmTypeOK'
    <2>1. /\ SlotsOf({current, pending', queued'}) = SlotsOf({current, pending', queued', next'})
          /\ SlotsOf({current, pending', queued', next'}) \subseteq Buffer
      <3>1. current \in FrameType \cup {None} /\ next' \in FrameType \cup {None}
        BY <1>1 DEF FrameInv, FramesTyped
      <3> QED
        <4> DEFINE p == pending'
                   q == queued'
        <4>1. p \in FrameType \cup {None} /\ q \in FrameType \cup {None}
          BY <1>2
        <4> HIDE DEF p, q
        <4>2. SlotsOf({current, p, q, next'}) \subseteq Buffer
          BY <3>1, <4>1, RolesHold
        <4>3. next' = None
          BY <1>1
        <4>4. SlotsOf({current, p, q}) = SlotsOf({current, p, q, next'})
          BY <3>1, <4>1, <4>3, RolesHold
        <4> QED
          BY <4>2, <4>4 DEF p, q
    <2>2. slots' \in [Position -> Buffer \cup {None}] /\ age' \in [Buffer -> 0 .. MaxAge]
      BY <1>1, ChainSubmitted DEF FrameInv, DrmTypeOK
    <2> QED
      BY <1>1, <1>2, <2>1, <2>2 DEF FrameInv, FramesTyped, DrmTypeOK, SwapchainTypeOK
  <1>5. ScreenHeld'
    BY <1>1, <1>2 DEF FrameInv, Owed, ScreenHeld, SlotOf
  <1>9. TrackTyped'
    BY TrackKept DEF QueueFrame, FrameInv
  <1> QED
    BY <1>9, <1>1, <1>2, <1>3, <1>4, <1>5 DEF FrameInv, DrawnIsChained, DrawnSlot

LEMMA SubmittedFrames == ASSUME FrameInv, FrameSubmitted, Patient = TRUE PROVE FrameInv'
  <1>1. /\ UNCHANGED <<slots, age, next, screen, wanted, spent>>
        /\ vblank = TRUE /\ vblank' = FALSE /\ next = None
        /\ acquired' = SlotsOf({current', pending', queued', next'})
    BY DEF FrameSubmitted, Loop, FrameInv, FramesTyped
  <1>2. pending # None /\ flip = None /\ current' = pending
    BY <1>1 DEF FrameSubmitted, FrameInv, Owed
  <1>3. /\ queued' = None /\ pending' \in {None, queued} /\ flip' = pending'
        /\ resetPending' \in BOOLEAN /\ modeset' \in BOOLEAN
    <2>1. CASE queued # None
      <3>1. Submit(queued) /\ queued \in FrameType
        BY <1>2, <2>1 DEF FrameSubmitted, FrameInv, FramesTyped
      <3> QED
        BY <1>2, <3>1, SubmitRoles DEF FrameInv
    <2>2. CASE queued = None
      BY <1>2, <2>2 DEF FrameSubmitted, FrameInv, FramesTyped
    <2> QED
      BY <2>1, <2>2
  <1>4. FramesTyped'
    BY <1>1, <1>2, <1>3 DEF FrameInv, FramesTyped
  <1>5. DrmTypeOK'
    <2>1. SlotsOf({current', pending', queued', next'}) \subseteq Buffer
      BY <1>4, RolesHold DEF FramesTyped
    <2> QED
      BY <1>1, <1>4, <2>1 DEF FrameInv, FramesTyped, DrmTypeOK, SwapchainTypeOK
  <1>6. Owed' /\ ScreenHeld' /\ DrawnIsChained'
    BY <1>1, <1>2, <1>3 DEF FrameInv, Owed, ScreenHeld, SlotOf, DrawnIsChained, DrawnSlot
  <1>9. TrackTyped'
    BY TrackKept DEF FrameSubmitted, FrameInv
  <1> QED
    BY <1>9, <1>4, <1>5, <1>6 DEF FrameInv

\* What the kernel shows has the primary plane of the frame.
LEMMA AppliedFields ==
    ASSUME NEW f \in FrameType, screen \in FrameType
    PROVE  Applied(f) \in FrameType /\ Applied(f).primary = f.primary
  BY DEF Applied, FrameType

LEMMA FlipFrames == ASSUME FrameInv, FlipDone PROVE FrameInv'
  <1>1. /\ UNCHANGED <<slots, acquired, age, current, pending, queued, next, wanted, resetPending,
                       modeset, spent>>
        /\ flip \in FrameType /\ flip # None /\ flip = pending
        /\ screen' = Applied(flip) /\ flip' = None /\ vblank' = TRUE
    BY DEF FlipDone, FrameInv, FramesTyped, Owed, chainVars, roleVars
  <1>2. screen' \in FrameType /\ screen'.primary = flip.primary
    BY <1>1, AppliedFields DEF FrameInv, FramesTyped
  <1>3. FramesTyped'
    BY <1>1, <1>2 DEF FrameInv, FramesTyped
  <1>4. DrmTypeOK'
    BY <1>1 DEF FrameInv, DrmTypeOK, SwapchainTypeOK
  <1>5. Owed' /\ ScreenHeld' /\ DrawnIsChained'
    BY <1>1, <1>2
    DEF FrameInv, Owed, ScreenHeld, SlotOf, DrawnIsChained, DrawnSlot, Chained
  <1>9. TrackTyped'
    BY TrackKept DEF FlipDone, FrameInv
  <1> QED
    BY <1>9, <1>3, <1>4, <1>5 DEF FrameInv

LEMMA SessionFrames == ASSUME FrameInv, Pause \/ Activate, Patient = TRUE PROVE FrameInv'
  <1>1. /\ UNCHANGED <<slots, acquired, age, current, pending, queued, next, wanted, modeset, flip,
                       vblank>>
        /\ screen' \in {screen, Blank} /\ resetPending' \in {resetPending, TRUE}
        /\ spent'.updates = spent.updates
        /\ spent' = [updates |-> spent'.updates, prepared |-> spent'.prepared,
                     session |-> spent'.session]
    BY DEF Pause, Activate, Spend, FrameInv, FramesTyped, chainVars, roleVars, kernelVars
  <1>2. Blank \in FrameType /\ Blank.primary.slot = None
    BY BlankFields
  <1>3. FramesTyped'
    BY <1>1, <1>2 DEF FrameInv, FramesTyped
  <1>4. DrmTypeOK'
    BY <1>1, <1>3 DEF FrameInv, FramesTyped, DrmTypeOK, SwapchainTypeOK
  <1>5. Owed' /\ ScreenHeld' /\ DrawnIsChained'
    BY <1>1, <1>2
    DEF FrameInv, Owed, ScreenHeld, SlotOf, DrawnIsChained, DrawnSlot, Chained
  <1>9. TrackTyped'
    BY TrackKept DEF Pause, Activate, FrameInv
  <1> QED
    BY <1>9, <1>3, <1>4, <1>5 DEF FrameInv

LEMMA ModeFrames == ASSUME FrameInv, UseMode, Patient = TRUE PROVE FrameInv'
  <1>1. /\ UNCHANGED <<acquired, age, current, pending, queued, next, screen, flip, vblank, wanted,
                       resetPending>>
        /\ next = None /\ slots' = EmptySlots /\ modeset' = TRUE
        /\ spent'.updates = spent.updates
        /\ spent' = [updates |-> spent'.updates, prepared |-> spent'.prepared,
                     session |-> spent'.session]
    BY DEF UseMode, Loop, Spend, FrameInv, FramesTyped, roleVars, kernelVars
  <1>2. FramesTyped' /\ DrmTypeOK'
    BY <1>1 DEF FrameInv, FramesTyped, DrmTypeOK, SwapchainTypeOK, EmptySlots
  <1>3. Owed' /\ ScreenHeld' /\ DrawnIsChained'
    BY <1>1 DEF FrameInv, Owed, ScreenHeld, SlotOf, DrawnIsChained, DrawnSlot
  <1>9. TrackTyped'
    BY TrackKept DEF UseMode, FrameInv
  <1> QED
    BY <1>9, <1>2, <1>3 DEF FrameInv

LEMMA ClearFrames == ASSUME FrameInv, Clear, Patient = TRUE PROVE FrameInv'
  <1>1. /\ UNCHANGED <<slots, age, wanted, resetPending>>
        /\ pending = None /\ modeset' = TRUE /\ acquired' = {}
        /\ screen' = Blank /\ flip' = None /\ vblank' = (vblank \/ flip # None)
        /\ current' = Blank /\ pending' = None /\ queued' = None /\ next' = None
        /\ spent'.updates = spent.updates
        /\ spent' = [updates |-> spent'.updates, prepared |-> spent'.prepared,
                     session |-> spent'.session]
    BY DEF Clear, Spend, FrameInv, FramesTyped
  <1>2. Blank \in FrameType /\ Blank.primary.slot = None
    BY BlankFields
  <1>3. vblank' = FALSE
    BY <1>1 DEF FrameInv, Owed, FramesTyped
  <1>4. FramesTyped'
    BY <1>1, <1>2, <1>3 DEF FrameInv, FramesTyped
  <1>5. SlotsOf({current', pending', queued', next'}) = {}
    <2>1. {current', pending', queued', next'} \ {None} \subseteq {Blank}
      BY <1>1
    <2> QED
      BY <1>2, <2>1 DEF SlotsOf
  <1>6. DrmTypeOK'
    BY <1>1, <1>3, <1>4, <1>5 DEF FrameInv, FramesTyped, DrmTypeOK, SwapchainTypeOK
  <1>7. Owed' /\ ScreenHeld' /\ DrawnIsChained'
    BY <1>1, <1>2, <1>3 DEF Owed, ScreenHeld, SlotOf, DrawnIsChained, DrawnSlot
  <1>9. TrackTyped'
    BY TrackKept DEF Clear, FrameInv
  <1> QED
    BY <1>9, <1>4, <1>6, <1>7 DEF FrameInv

LEMMA FramesKept == ASSUME FrameInv, [DrmNext]_drmVars, Patient = TRUE PROVE FrameInv'
  <1>1. CASE DrmNext
    BY <1>1, ChangeFrames, RenderFrames, FailFrames, QueueFrames, SubmittedFrames, FlipFrames,
       SessionFrames, ModeFrames, ClearFrames DEF DrmNext
  <1>2. CASE UNCHANGED drmVars
    BY <1>2
    DEF drmVars, chainVars, roleVars, trackVars, kernelVars, FrameInv, TrackTyped, FramesTyped, DrmTypeOK,
        SwapchainTypeOK, Owed, ScreenHeld, SlotOf, DrawnIsChained, DrawnSlot, Chained
  <1> QED
    BY <1>1, <1>2

-----------------------------------------------------------------------------
(***************************************************************************)
(* The slots of the swapchain that count as acquired are exactly those the *)
(* current, pending, queued and next frame hold, whatever the order of     *)
(* render_frame, queue_frame, vblank events, pauses and mode changes.      *)
(***************************************************************************)
THEOREM FramesHoldSlots == ASSUME Patient = TRUE PROVE DrmSpec => []DrmTypeOK
  <1>1. DrmInit => FrameInv
    BY InitFrames
  <1>2. FrameInv /\ [DrmNext]_drmVars => FrameInv'
    BY FramesKept
  <1>3. FrameInv => DrmTypeOK
    BY DEF FrameInv
  <1> QED
    BY <1>1, <1>2, <1>3, PTL DEF DrmSpec

(***************************************************************************)
(* render_frame never draws into a buffer that the crtc scans out or that  *)
(* an outstanding flip is about to show.                                   *)
(***************************************************************************)
THEOREM ScreenIsStable == ASSUME Patient = TRUE PROVE DrmSpec => ScannedOutIsStable
  <1>1. ASSUME FrameInv, [DrmNext]_drmVars
        PROVE  [\A b \in SlotsOf({screen, flip}) : picture'[b] = picture[b]]_drmVars
    <2> SUFFICES ASSUME DrmNext, NEW b \in SlotsOf({screen, flip})
                 PROVE  picture'[b] = picture[b]
      BY <1>1
    <2>1. ASSUME NEW onPlane \in BOOLEAN, NEW direct \in BOOLEAN, RenderFrame(onPlane, direct)
          PROVE  picture'[b] = picture[b]
      <3>1. PICK c \in Buffer, a \in 0 .. MaxAge, f \in FrameType :
                  /\ c \notin SlotsOf({current, pending, queued})
                  /\ Rendered(f, c, a, onPlane, direct)
        BY <1>1, <2>1, RenderParts
      <3>2. b # c
        BY <1>1, <3>1, ScannedOutHeld DEF FrameInv
      <3>3. CASE direct
        BY <3>1, <3>3 DEF Rendered, trackVars
      <3>4. CASE ~ direct
        <4>1. \/ picture' = picture
              \/ \E pic : picture' = [picture EXCEPT ![c] = pic]
          <5> DEFINE img == Image(onPlane)
                     d == Damage(img, a)
          <5>1. Draw(c, img, d)
            BY <3>1, <3>4 DEF Rendered
          <5> HIDE DEF d, img
          <5> QED
            BY <5>1 DEF Draw
        <4>2. b \in Buffer /\ picture \in [Buffer -> [Full -> Version]]
          <5>1. SlotsOf({current, pending, queued, next}) \subseteq Buffer
            BY <1>1 DEF FrameInv, DrmTypeOK, SwapchainTypeOK
          <5>2. b \in SlotsOf({current, pending, queued, next})
            BY <1>1, ScannedOutHeld DEF FrameInv, SlotsOf
          <5> QED
            BY <1>1, <5>1, <5>2 DEF FrameInv, TrackTyped
        <4> QED
          BY <3>2, <4>1, <4>2
      <3> QED
        BY <3>3, <3>4
    <2>2. CASE \/ \E piece \in Full, gone \in BOOLEAN : ChangeScene(piece, gone)
               \/ RenderFrameFails \/ QueueFrame \/ FrameSubmitted \/ FlipDone
               \/ Pause \/ Activate \/ UseMode \/ Clear
      BY <2>2
      DEF ChangeScene, RenderFrameFails, QueueFrame, FrameSubmitted, FlipDone, Pause, Activate,
          UseMode, Clear, trackVars
    <2> QED
      BY <2>1, <2>2 DEF DrmNext
  <1>2. DrmInit => FrameInv
    BY InitFrames
  <1>3. FrameInv /\ [DrmNext]_drmVars => FrameInv'
    BY FramesKept
  <1> QED
    BY <1>1, <1>2, <1>3, PTL DEF DrmSpec, ScannedOutIsStable

-----------------------------------------------------------------------------
\* What the screen shows

\* The frame render_frame prepared last.
Newest == IF next # None THEN next ELSE IF queued # None THEN queued ELSE Previous

\* A frame shows a buffer or an element on the primary plane, never both.
Shaped(f) ==
    /\ f.primary.slot # None \/ f.primary.elem # None
    /\ f.primary.slot = None \/ f.primary.elem = None

FramesShaped ==
    /\ next # None => Shaped(next)
    /\ queued # None => Shaped(queued)
    /\ pending # None => Shaped(pending)
    /\ ~ modeset \/ pending # None => Shaped(Previous)
    /\ current.primary.slot = None \/ current.primary.elem = None

\* One frame since the last change of the ages is drawn, but not queued.
Shift == IF DrawnSlot(next) = None THEN 0 ELSE 1

\* Buffer b is the tracker's picture but for the n - 1 newest damages.
Covered(b, n) ==
    \A p \in Full : (\A k \in 1 .. n - 1 : p \notin oldDamage[k]) => picture[b][p] = seen[p]

\* What a buffer of known age lacks is in the damage history.
AgesCover ==
    /\ \A b \in Chained :
          b # DrawnSlot(next) /\ age[b] > 0 /\ age[b] + Shift <= Len(oldDamage)
          => Covered(b, age[b] + Shift)
    /\ DrawnSlot(next) # None => Covered(DrawnSlot(next), 1)

\* The tracker knows the picture of the newest frame, or will draw all of it.
TrackerKnows ==
    \/ lost
    \/ \A b \in Chained : age[b] = 0
    \/ SlotOf(Newest) # None => Covered(SlotOf(Newest), 1)

\* A frame that leaves the overlay plane alone follows one that did not use it.
Follows(f, g) ==
    f # None /\ f.overlay.skip /\ f.overlay.elem = None => g.overlay.elem = None

OverlayChain ==
    /\ Follows(next, Previous)
    /\ Follows(queued, Previous)
    /\ Follows(pending, current)

Same(f, g) ==
    /\ f.primary.slot = g.primary.slot
    /\ f.primary.elem = g.primary.elem
    /\ f.overlay.elem = g.overlay.elem

\* The screen shows what the compositor takes to be shown, unless it is about
\* to reset everything.
ScreenKnown ==
    \/ resetPending
    \/ Same(screen, IF vblank THEN pending ELSE current)
    \/ flip # None /\ ~ flip.partial

\* The newest frame is the picture of the scene render_frame saw.
NewestShowsScene ==
    /\ looked /\ ~ lost
    /\ Newest.primary.slot # None \/ Newest.primary.elem # None
    => Shows(Newest) = wanted

SceneInv ==
    /\ FrameInv
    /\ FramesShaped
    /\ AgesCover
    /\ TrackerKnows
    /\ OverlayChain
    /\ ScreenKnown
    /\ NewestShowsScene

\* render_output: what is not damaged is as it was drawn.
LEMMA DamageParts ==
    ASSUME TrackTyped, NEW img \in [Full -> Version], NEW a \in 0 .. MaxAge
    PROVE  /\ \E m \in 0 .. Len(oldDamage) : Damage(img, a).kept = SubSeq(oldDamage, 1, m)
           /\ \A p \in Full : p \notin Damage(img, a).new => img[p] = seen[p]
           /\ \A p \in Full : p \notin Damage(img, a).all =>
                /\ a > 0 /\ a <= Len(oldDamage) /\ p \notin Damage(img, a).new
                /\ \A k \in 1 .. a - 1 : p \notin oldDamage[k]
  <1> USE MaxAgeAssumption, DrmConstants
  <1> DEFINE new == IF seen = None THEN Full ELSE {p \in Full : img[p] # seen[p]}
             old == UNION {oldDamage[k] : k \in 1 .. a - 1}
             known == a > 0 /\ Len(oldDamage) >= a
             all == IF known THEN new \cup old ELSE Full
             n == IF known THEN a ELSE KeepHistory
             m == IF n < Len(oldDamage) THEN n ELSE Len(oldDamage)
  <1>1. m \in 0 .. Len(oldDamage)
    BY DEF TrackTyped
  <1>2. Damage(img, a).new = new /\ Damage(img, a).all = all
        /\ Damage(img, a).kept = SubSeq(oldDamage, 1, m)
    BY DEF Damage
  <1>3. \A p \in Full : p \notin new => img[p] = seen[p]
    OBVIOUS
  <1>4. \A p \in Full : p \notin all =>
            a > 0 /\ a <= Len(oldDamage) /\ p \notin new /\ \A k \in 1 .. a - 1 : p \notin oldDamage[k]
    <2> HIDE DEF new
    <2> QED
      BY DEF TrackTyped
  <1> HIDE DEF new, all, m
  <1> QED
    BY <1>1, <1>2, <1>3, <1>4

\* A history that is cut off keeps its beginning.
LEMMA CutHistory ==
    ASSUME NEW D \in Seq(SUBSET Full), NEW m \in 0 .. Len(D), NEW x \in SUBSET Full
    PROVE  /\ Len(SubSeq(D, 1, m)) = m
           /\ \A k \in 1 .. m : SubSeq(D, 1, m)[k] = D[k]
           /\ Len(<<x>> \o SubSeq(D, 1, m)) = m + 1
           /\ (<<x>> \o SubSeq(D, 1, m))[1] = x
           /\ \A k \in 1 .. m : (<<x>> \o SubSeq(D, 1, m))[k + 1] = D[k]
  OBVIOUS

\* What drawing an image into b leaves of the picture of each buffer.
LEMMA DrawCovers ==
    ASSUME TrackTyped, NEW b \in Buffer, NEW a \in 0 .. MaxAge, NEW img \in [Full -> Version],
           Draw(b, img, Damage(img, a)),
           a > 0 /\ a <= Len(oldDamage) => Covered(b, a)
    PROVE  /\ \A p \in Full : picture'[b][p] = img[p] /\ seen'[p] = img[p]
           /\ \A x \in Buffer : x # b => picture'[x] = picture[x]
           /\ \A x \in Buffer, n \in 1 .. MaxAge :
                 x # b /\ (n <= Len(oldDamage) => Covered(x, n)) /\ n + 1 <= Len(oldDamage')
                 => \A p \in Full :
                      (\A k \in 1 .. n : p \notin oldDamage'[k]) => picture'[x][p] = seen'[p]
           /\ Damage(img, a).all = {} =>
                 /\ UNCHANGED <<seen, picture>> /\ a > 0 /\ a <= Len(oldDamage)
                 /\ \A x \in Buffer, n \in 1 .. MaxAge :
                      (n <= Len(oldDamage) => Covered(x, n)) /\ n <= Len(oldDamage')
                      => \A p \in Full :
                           (\A k \in 1 .. n - 1 : p \notin oldDamage'[k]) => picture'[x][p] = seen'[p]
  <1> USE MaxAgeAssumption
  <1> DEFINE d == Damage(img, a)
  <1>1. PICK m \in 0 .. Len(oldDamage) : d.kept = SubSeq(oldDamage, 1, m)
    BY DamageParts
  <1>2. \A p \in Full : p \notin d.new => img[p] = seen[p]
    BY DamageParts
  <1>3. \A p \in Full : p \notin d.all =>
            a > 0 /\ a <= Len(oldDamage) /\ p \notin d.new /\ \A k \in 1 .. a - 1 : p \notin oldDamage[k]
    BY DamageParts
  <1>4. Draw(b, img, d)
    OBVIOUS
  <1>5. d.new \in SUBSET Full /\ d.all \in SUBSET Full
    BY DamageTyped
  <1>6. "base" \in Full
    BY DrmConstants
  <1> HIDE DEF d
  <1>7. \A p \in Full : p \notin d.all => picture[b][p] = seen[p] /\ img[p] = seen[p]
    BY <1>2, <1>3 DEF Covered
  <1>8. /\ Len(SubSeq(oldDamage, 1, m)) = m
        /\ \A k \in 1 .. m : SubSeq(oldDamage, 1, m)[k] = oldDamage[k]
        /\ Len(<<d.new>> \o SubSeq(oldDamage, 1, m)) = m + 1
        /\ (<<d.new>> \o SubSeq(oldDamage, 1, m))[1] = d.new
        /\ \A k \in 1 .. m : (<<d.new>> \o SubSeq(oldDamage, 1, m))[k + 1] = oldDamage[k]
    BY <1>5, CutHistory DEF TrackTyped
  <1>9. CASE d.all = {}
    <2>1. oldDamage' = SubSeq(oldDamage, 1, m) /\ UNCHANGED <<seen, picture>>
      BY <1>1, <1>4, <1>9 DEF Draw
    <2>2. a > 0 /\ a <= Len(oldDamage)
      BY <1>3, <1>6, <1>9
    <2>3. \A p \in Full : picture'[b][p] = img[p] /\ seen'[p] = img[p]
      BY <1>7, <1>9, <2>1
    <2>4. Len(oldDamage') = m /\ \A k \in 1 .. m : oldDamage'[k] = oldDamage[k]
      BY <1>8, <2>1
    <2>5. ASSUME NEW x \in Buffer, NEW n \in 1 .. MaxAge, n <= Len(oldDamage) => Covered(x, n),
                 n <= Len(oldDamage'), NEW p \in Full, \A k \in 1 .. n - 1 : p \notin oldDamage'[k]
          PROVE  picture'[x][p] = seen'[p]
      <3>1. n <= m /\ n <= Len(oldDamage)
        BY <2>4, <2>5 DEF TrackTyped
      <3>2. \A k \in 1 .. n - 1 : p \notin oldDamage[k]
        BY <2>4, <2>5, <3>1
      <3> QED
        BY <2>1, <2>5, <3>1, <3>2 DEF Covered
    <2>6. ASSUME NEW x \in Buffer, NEW n \in 1 .. MaxAge, n <= Len(oldDamage) => Covered(x, n),
                 n + 1 <= Len(oldDamage'), NEW p \in Full, \A k \in 1 .. n : p \notin oldDamage'[k]
          PROVE  picture'[x][p] = seen'[p]
      <3>1. n <= Len(oldDamage')
        BY <2>4, <2>6
      <3>2. \A k \in 1 .. n - 1 : p \notin oldDamage'[k]
        BY <2>6
      <3> QED
        BY <2>5, <2>6, <3>1, <3>2
    <2>7. \A x \in Buffer : picture'[x] = picture[x]
      BY <2>1
    <2> QED
      BY <2>1, <2>2, <2>3, <2>5, <2>6, <2>7
  <1>10. CASE d.all # {}
    <2> DEFINE pic == [p \in Full |-> IF p \in d.all THEN img[p] ELSE picture[b][p]]
    <2>1. /\ oldDamage' = <<d.new>> \o SubSeq(oldDamage, 1, m) /\ seen' = img
          /\ picture' = [picture EXCEPT ![b] = pic]
      BY <1>1, <1>4, <1>10 DEF Draw
    <2>2. \A p \in Full : pic[p] = img[p]
      BY <1>7
    <2> HIDE DEF pic
    <2>3. picture'[b] = pic /\ \A x \in Buffer : x # b => picture'[x] = picture[x]
      BY <2>1 DEF TrackTyped
    <2>4. /\ Len(oldDamage') = m + 1 /\ oldDamage'[1] = d.new
          /\ \A k \in 1 .. m : oldDamage'[k + 1] = oldDamage[k]
      BY <1>8, <2>1
    <2>5. ASSUME NEW x \in Buffer, NEW n \in 1 .. MaxAge, n <= Len(oldDamage) => Covered(x, n),
                 n + 1 <= Len(oldDamage'), NEW p \in Full, \A k \in 1 .. n : p \notin oldDamage'[k],
                 x # b
          PROVE  picture'[x][p] = seen'[p]
      <3>1. n <= m /\ n <= Len(oldDamage)
        BY <2>4, <2>5 DEF TrackTyped
      <3>2. \A k \in 1 .. n - 1 : p \notin oldDamage[k]
        <4> SUFFICES ASSUME NEW k \in 1 .. n - 1 PROVE p \notin oldDamage[k]
          OBVIOUS
        <4>1. k \in 1 .. m /\ k + 1 \in 1 .. n
          BY <3>1
        <4> QED
          BY <2>4, <2>5, <4>1
      <3>3. img[p] = seen[p]
        <4>1. 1 \in 1 .. n
          OBVIOUS
        <4> QED
          BY <1>2, <2>4, <2>5, <4>1
      <3> QED
        BY <2>1, <2>3, <2>5, <3>1, <3>2, <3>3 DEF Covered
    <2>6. \A p \in Full : picture'[b][p] = img[p] /\ seen'[p] = img[p]
      BY <2>1, <2>2, <2>3
    <2> QED
      BY <1>10, <2>3, <2>5, <2>6 DEF d
  <1> QED
    BY <1>9, <1>10

\* What render_frame does with a free buffer b of age a and the frame f it
\* prepares, while no frame waits to be queued or submitted.
RenderStep(b, a, f, onPlane, direct) ==
    /\ next = None /\ queued = None
    /\ onPlane => wanted.top # None
    /\ direct => onPlane \/ wanted.top = None
    /\ b \notin SlotsOf({current, pending, queued})
    /\ Chained' = Chained \cup {b}
    /\ age' = [age EXCEPT ![b] = a]
    /\ a = 0 \/ (b \in Chained /\ a = age[b])
    /\ next' = IF IsEmpty(f) THEN None ELSE f
    /\ Overlaid(f, onPlane)
    /\ Rendered(f, b, a, onPlane, direct)
    /\ UNCHANGED <<current, pending, queued, screen, flip, vblank, wanted, resetPending, modeset,
                   lost>>

LEMMA RenderSteps ==
    ASSUME FrameInv, NEW onPlane \in BOOLEAN, NEW direct \in BOOLEAN,
           RenderFrame(onPlane, direct), Patient = TRUE
    PROVE  \E b \in Buffer, a \in 0 .. MaxAge, f \in FrameType :
              RenderStep(b, a, f, onPlane, direct)
  <1>1. /\ next = None /\ queued = None
        /\ onPlane => wanted.top # None
        /\ direct => onPlane \/ wanted.top = None
        /\ UNCHANGED <<current, pending, queued, screen, flip, vblank, wanted, resetPending,
                       modeset, lost>>
    BY DEF RenderFrame, Loop, kernelVars
  <1>2. PICK b \in Buffer, a \in 0 .. MaxAge, f \in FrameType :
              /\ b \notin SlotsOf({current, pending, queued})
              /\ Chained' = Chained \cup {b}
              /\ age' = [age EXCEPT ![b] = a]
              /\ a = 0 \/ (b \in Chained /\ a = age[b])
              /\ next' = IF IsEmpty(f) THEN None ELSE f
              /\ Overlaid(f, onPlane)
              /\ Rendered(f, b, a, onPlane, direct)
    BY RenderParts
  <1> QED
    BY <1>1, <1>2 DEF RenderStep

\* What the tracker knows of the buffers before render_frame.
LEMMA BeforeRender ==
    ASSUME FrameInv, AgesCover, next = None
    PROVE  \A b \in Chained :
              /\ b \in Buffer /\ age[b] \in 0 .. MaxAge
              /\ age[b] > 0 /\ age[b] <= Len(oldDamage) => Covered(b, age[b])
  <1>1. DrawnSlot(next) = None /\ Shift = 0
    BY DEF DrawnSlot, Shift
  <1>2. \A b \in Chained : b \in Buffer /\ b # None /\ age[b] \in 0 .. MaxAge
    BY BufferAssumption DEF FrameInv, DrmTypeOK, SwapchainTypeOK, Chained
  <1>3. ASSUME NEW b \in Chained, age[b] > 0, age[b] <= Len(oldDamage)
        PROVE  Covered(b, age[b])
    <2>1. age[b] + 0 = age[b]
      BY <1>2
    <2> QED
      BY <1>1, <1>2, <1>3, <2>1 DEF AgesCover
  <1> QED
    BY <1>2, <1>3

\* The frame that scans out an element on the primary plane.
LEMMA DirectScene ==
    ASSUME SceneInv, NEW b \in Buffer, NEW a \in 0 .. MaxAge, NEW f \in FrameType,
           NEW onPlane \in BOOLEAN, RenderStep(b, a, f, onPlane, TRUE)
    PROVE  /\ UNCHANGED <<seen, picture, oldDamage>>
           /\ f.primary.slot = None /\ f.primary.elem = wanted.base /\ wanted.base # None
           /\ f.primary.skip => Previous.primary.elem = wanted.base
  <1>1. /\ UNCHANGED <<seen, picture, oldDamage>>
        /\ f.primary = Plane(None, wanted.base, Previous.primary.elem = wanted.base)
    BY DEF RenderStep, Rendered, trackVars
  <1>2. wanted.base # None
    BY DrmConstants DEF SceneInv, FrameInv, FramesTyped
  <1>3. f.primary.slot = None /\ f.primary.elem = wanted.base
        /\ f.primary.skip = (Previous.primary.elem = wanted.base)
    BY <1>1 DEF Plane
  <1> QED
    BY <1>1, <1>2, <1>3

\* The frame whose primary plane was rendered.
LEMMA DrawnScene ==
    ASSUME SceneInv, NEW b \in Buffer, NEW a \in 0 .. MaxAge, NEW f \in FrameType,
           NEW onPlane \in BOOLEAN, RenderStep(b, a, f, onPlane, FALSE)
    PROVE  /\ f.primary.slot # None /\ f.primary.elem = None
           /\ f.primary.slot # b => f.primary.skip /\ f.primary.slot = Previous.primary.slot
           /\ f.primary.skip => /\ Previous.primary.elem = None /\ Damage(Image(onPlane), a).all = {}
                                /\ Previous.primary.slot # None
                                      => f.primary.slot = Previous.primary.slot
           /\ Draw(b, Image(onPlane), Damage(Image(onPlane), a))
           /\ Image(onPlane) \in [Full -> Version]
           /\ Image(onPlane).base = wanted.base
           /\ Image(onPlane).top = IF onPlane THEN None ELSE wanted.top
           /\ a > 0 /\ a <= Len(oldDamage) => Covered(b, a)
  <1> DEFINE img == Image(onPlane)
             d == Damage(img, a)
  <1>1. Draw(b, img, d) /\ f.primary = PrimaryOfDamage(b, d)
    BY DEF RenderStep, Rendered
  <1>2. FramesTyped /\ b # None
    BY BufferAssumption DEF SceneInv, FrameInv
  <1>3. Image(onPlane) \in [Full -> Version]
    BY <1>2, ImageTyped
  <1>4. /\ Image(onPlane).base = wanted.base
        /\ Image(onPlane).top = IF onPlane THEN None ELSE wanted.top
    BY <1>2 DEF Image, FramesTyped
  <1>5. /\ f.primary.slot # None /\ f.primary.elem = None
        /\ f.primary.slot # b => f.primary.skip /\ f.primary.slot = Previous.primary.slot
        /\ f.primary.skip => /\ Previous.primary.elem = None /\ d.all = {}
                             /\ Previous.primary.slot # None
                                   => f.primary.slot = Previous.primary.slot
    <2> HIDE DEF d
    <2> QED
      BY <1>1, <1>2 DEF PrimaryOfDamage, Plane
  <1>6. a > 0 /\ a <= Len(oldDamage) => Covered(b, a)
    BY BeforeRender DEF SceneInv, RenderStep
  <1> QED
    BY <1>1, <1>3, <1>4, <1>5, <1>6

LEMMA RenderAges ==
    ASSUME SceneInv, NEW b \in Buffer, NEW a \in 0 .. MaxAge, NEW f \in FrameType,
           NEW onPlane \in BOOLEAN, NEW direct \in BOOLEAN, RenderStep(b, a, f, onPlane, direct)
    PROVE  AgesCover' /\ \A x \in Chained' : age'[x] > 0 => x \in Chained /\ age'[x] = age[x]
  <1> USE MaxAgeAssumption, BufferAssumption
  <1>1. \A x \in Chained :
              /\ x \in Buffer /\ age[x] \in 0 .. MaxAge
              /\ age[x] > 0 /\ age[x] <= Len(oldDamage) => Covered(x, age[x])
    BY BeforeRender DEF SceneInv, RenderStep
  <1>2. age \in [Buffer -> 0 .. MaxAge] /\ Len(oldDamage) \in Nat /\ TrackTyped
    BY DEF SceneInv, FrameInv, DrmTypeOK, SwapchainTypeOK, TrackTyped
  <1>3. \A x \in Chained' : /\ x \in Buffer /\ age'[x] \in 0 .. MaxAge
                            /\ age'[x] > 0 => x \in Chained /\ age'[x] = age[x]
    BY <1>1, <1>2 DEF RenderStep
  <1>4. Len(oldDamage') \in Nat
    <2>1. TrackTyped'
      BY DrawTyped DEF SceneInv, FrameInv, RenderStep
    <2> QED
      BY <2>1 DEF TrackTyped
  <1>5. CASE direct
    <2>1. f.primary.slot = None /\ UNCHANGED <<seen, picture, oldDamage>>
      BY <1>5, DirectScene
    <2>2. DrawnSlot(next') = None
      BY <2>1 DEF RenderStep, DrawnSlot
    <2>3. ASSUME NEW x \in Chained', age'[x] > 0, age'[x] <= Len(oldDamage')
          PROVE  \A p \in Full : (\A k \in 1 .. age'[x] - 1 : p \notin oldDamage'[k])
                           => picture'[x][p] = seen'[p]
      BY <1>1, <1>3, <2>1, <2>3 DEF Covered
    <2>4. Shift' = 0
      BY <2>2 DEF Shift, DrawnSlot
    <2> QED
      BY <1>3, <2>2, <2>3, <2>4 DEF AgesCover, Covered, DrawnSlot
  <1>6. CASE ~ direct
    <2> DEFINE img == Image(onPlane)
               d == Damage(img, a)
    <2>1. /\ Draw(b, img, d) /\ img \in [Full -> Version]
          /\ a > 0 /\ a <= Len(oldDamage) => Covered(b, a)
          /\ f.primary.slot # b => f.primary.skip
          /\ f.primary.skip => d.all = {}
      <3>1. RenderStep(b, a, f, onPlane, FALSE)
        BY <1>6 DEF RenderStep, Rendered
      <3>2. Draw(b, img, d) /\ img \in [Full -> Version]
        BY <3>1, DrawnScene, ZenonT(60)
      <3>3. a > 0 /\ a <= Len(oldDamage) => Covered(b, a)
        BY <3>1, DrawnScene
      <3>4. f.primary.slot # b => f.primary.skip
        <4>1. f.primary = PrimaryOfDamage(b, d)
          BY <1>6 DEF RenderStep, Rendered
        <4> HIDE DEF d
        <4> QED
          BY <4>1 DEF PrimaryOfDamage, Plane
      <3>5. f.primary.skip => d.all = {}
        BY <3>1, DrawnScene, ZenonT(60)
      <3> QED
        BY <3>2, <3>3, <3>4, <3>5
    <2>2. /\ \A p \in Full : picture'[b][p] = img[p] /\ seen'[p] = img[p]
          /\ \A x \in Buffer, n \in 1 .. MaxAge :
                 x # b /\ (n <= Len(oldDamage) => Covered(x, n)) /\ n + 1 <= Len(oldDamage')
                 => \A p \in Full :
                      (\A k \in 1 .. n : p \notin oldDamage'[k]) => picture'[x][p] = seen'[p]
          /\ d.all = {} =>
                 \A x \in Buffer, n \in 1 .. MaxAge :
                      (n <= Len(oldDamage) => Covered(x, n)) /\ n <= Len(oldDamage')
                      => \A p \in Full :
                           (\A k \in 1 .. n - 1 : p \notin oldDamage'[k]) => picture'[x][p] = seen'[p]
      BY <1>2, <2>1, DrawCovers
    <2> HIDE DEF img, d
    <2>3. CASE DrawnSlot(next') = None
      <3>1. f.primary.skip
        BY <2>1, <2>3, FrameAssumption DEF RenderStep, DrawnSlot, IsEmpty
      <3>2. ASSUME NEW x \in Chained', age'[x] > 0, age'[x] <= Len(oldDamage')
            PROVE  \A p \in Full : (\A k \in 1 .. age'[x] - 1 : p \notin oldDamage'[k])
                           => picture'[x][p] = seen'[p]
        <4>1. age'[x] \in 1 .. MaxAge /\ x \in Buffer /\ x \in Chained /\ age'[x] = age[x]
          BY <1>3, <3>2
        <4>2. age'[x] <= Len(oldDamage) => Covered(x, age'[x])
          BY <1>1, <4>1
        <4> QED
          BY <2>1, <2>2, <3>1, <3>2, <4>1, <4>2
      <3>3. Shift' = 0
        BY <2>3 DEF Shift, DrawnSlot
      <3> QED
        BY <1>3, <2>3, <3>2, <3>3 DEF AgesCover, Covered, DrawnSlot
    <2>4. CASE DrawnSlot(next') # None
      <3>1. DrawnSlot(next') = b
        BY <2>1, <2>4 DEF RenderStep, DrawnSlot
      <3>2. ASSUME NEW x \in Chained', x # b, age'[x] > 0, age'[x] + 1 <= Len(oldDamage')
            PROVE  \A p \in Full : (\A k \in 1 .. age'[x] : p \notin oldDamage'[k])
                             => picture'[x][p] = seen'[p]
        <4>1. age'[x] \in 1 .. MaxAge /\ x \in Buffer /\ x \in Chained /\ age'[x] = age[x]
          BY <1>3, <3>2
        <4>2. age'[x] <= Len(oldDamage) => Covered(x, age'[x])
          BY <1>1, <4>1
        <4> QED
          BY <2>2, <3>2, <4>1, <4>2
      <3>3. Covered(b, 1)'
        BY <2>2 DEF Covered
      <3>4. Shift' = 1
        BY <2>4 DEF Shift, DrawnSlot
      <3> QED
        BY <1>3, <2>4, <3>1, <3>2, <3>3, <3>4 DEF AgesCover, Covered, DrawnSlot
    <2> QED
      BY <2>3, <2>4
  <1> QED
    BY <1>3, <1>5, <1>6

\* The image a rendered frame shows on its primary plane.
LEMMA RenderedImage ==
    ASSUME SceneInv, NEW b \in Buffer, NEW a \in 0 .. MaxAge, NEW f \in FrameType,
           NEW onPlane \in BOOLEAN, RenderStep(b, a, f, onPlane, FALSE), ~ lost
    PROVE  \A p \in Full : /\ picture'[f.primary.slot][p] = Image(onPlane)[p]
                           /\ picture'[f.primary.slot][p] = seen'[p]
  <1> DEFINE img == Image(onPlane)
             d == Damage(img, a)
  <1>1. /\ Draw(b, img, d) /\ img \in [Full -> Version]
        /\ a > 0 /\ a <= Len(oldDamage) => Covered(b, a)
    BY DrawnScene
  <1>2. /\ f.primary.slot # None
        /\ f.primary.slot # b => f.primary.skip /\ f.primary.slot = Previous.primary.slot
        /\ f.primary.skip => d.all = {}
    BY DrawnScene, ZenonT(60)
  <1>3. TrackTyped
    BY DEF SceneInv, FrameInv
  <1>4. \A p \in Full : picture'[b][p] = img[p] /\ seen'[p] = img[p]
    BY <1>1, <1>3, DrawCovers
  <1>5. d.all = {} => UNCHANGED <<seen, picture>> /\ a > 0
    BY <1>1, <1>3, DrawCovers
  <1> HIDE DEF img, d
  <1>6. CASE f.primary.slot = b
    BY <1>4, <1>6 DEF img
  <1>7. CASE f.primary.slot # b
    <2>1. d.all = {} /\ f.primary.slot = Previous.primary.slot
      BY <1>2, <1>7
    <2>2. UNCHANGED <<seen, picture>> /\ a > 0
      BY <1>5, <2>1
    <2>3. b \in Chained /\ age[b] # 0
      BY <2>2 DEF RenderStep
    <2>4. SlotOf(Newest) = f.primary.slot
      <3>1. Newest = Previous
        BY DEF Newest, RenderStep
      <3>2. Previous # None
        BY PreviousTyped, FrameAssumption DEF SceneInv, FrameInv
      <3> QED
        BY <2>1, <3>1, <3>2 DEF SlotOf
    <2>5. Covered(f.primary.slot, 1)
      BY <1>2, <2>3, <2>4 DEF SceneInv, TrackerKnows
    <2>6. \A p \in Full : picture[f.primary.slot][p] = seen[p]
      BY <2>5 DEF Covered
    <2> QED
      BY <1>4, <2>2, <2>6 DEF img
  <1> QED
    BY <1>6, <1>7

\* A frame without changes is the one before it.
LEMMA EmptyIsPrevious ==
    ASSUME SceneInv, NEW b \in Buffer, NEW a \in 0 .. MaxAge, NEW f \in FrameType,
           NEW onPlane \in BOOLEAN, NEW direct \in BOOLEAN, RenderStep(b, a, f, onPlane, direct),
           IsEmpty(f)
    PROVE  Same(f, Previous) /\ UNCHANGED <<seen, picture>>
  <1>1. f.overlay.elem = Previous.overlay.elem
    BY DEF RenderStep, Overlaid, IsEmpty
  <1>2. Shaped(Previous)
    BY DEF RenderStep, Overlaid, IsEmpty, SceneInv, FramesShaped
  <1>3. f.primary.skip
    BY DEF IsEmpty
  <1>4. CASE direct
    <2>1. RenderStep(b, a, f, onPlane, TRUE)
      BY <1>4 DEF RenderStep, Rendered
    <2>2. /\ UNCHANGED <<seen, picture>>
          /\ f.primary.slot = None /\ f.primary.elem = wanted.base /\ wanted.base # None
          /\ Previous.primary.elem = wanted.base
      BY <1>3, <2>1, DirectScene
    <2> QED
      BY <1>1, <1>2, <2>2 DEF Same, Shaped
  <1>5. CASE ~ direct
    <2> DEFINE img == Image(onPlane)
               d == Damage(img, a)
    <2>1. RenderStep(b, a, f, onPlane, FALSE)
      BY <1>5 DEF RenderStep, Rendered
    <2>2. f.primary.elem = None /\ Previous.primary.elem = None
      <3>1. f.primary = PrimaryOfDamage(b, d)
        BY <1>5 DEF RenderStep, Rendered
      <3> HIDE DEF d
      <3> QED
        BY <1>3, <3>1 DEF PrimaryOfDamage, Plane
    <2>3. Previous.primary.slot # None => f.primary.slot = Previous.primary.slot
      BY <1>3, <2>1, DrawnScene
    <2>4. d.all = {} /\ Draw(b, img, d)
      BY <1>3, <2>1, DrawnScene, ZenonT(60)
    <2>5. UNCHANGED <<seen, picture>>
      <3> HIDE DEF img, d
      <3> QED
        BY <2>4 DEF Draw
    <2> QED
      BY <1>1, <1>2, <2>2, <2>3, <2>5 DEF Same, Shaped
  <1> QED
    BY <1>4, <1>5

LEMMA WantedFields ==
    ASSUME FramesTyped, NEW base, NEW top, base = wanted.base, top = wanted.top
    PROVE  [base |-> base, top |-> top] = wanted
  BY DEF FramesTyped

\* The prepared frame is the picture of the scene.
LEMMA PreparedShows ==
    ASSUME SceneInv, NEW b \in Buffer, NEW a \in 0 .. MaxAge, NEW f \in FrameType,
           NEW onPlane \in BOOLEAN, NEW direct \in BOOLEAN, RenderStep(b, a, f, onPlane, direct)
    PROVE  /\ Shaped(f)
           /\ ~ lost => Shows(f)' = wanted
           /\ ~ lost /\ f.primary.slot # None
                 => \A p \in Full : picture'[f.primary.slot][p] = seen'[p]
  <1>0. FramesTyped /\ "base" \in Full /\ "top" \in Full
    BY DrmConstants DEF SceneInv, FrameInv
  <1>1. f.overlay.elem = (IF onPlane THEN wanted.top ELSE None) /\ (onPlane => wanted.top # None)
    BY DEF RenderStep, Overlaid
  <1>2. CASE direct
    <2>1. RenderStep(b, a, f, onPlane, TRUE)
      BY <1>2 DEF RenderStep, Rendered
    <2>2. f.primary.slot = None /\ f.primary.elem = wanted.base /\ wanted.base # None
      BY <2>1, DirectScene
    <2>3. onPlane \/ wanted.top = None
      BY <1>2 DEF RenderStep
    <2>4. Shows(f)' = wanted
      BY <1>0, <1>1, <2>2, <2>3, WantedFields DEF Shows
    <2> QED
      BY <2>2, <2>4 DEF Shaped
  <1>3. CASE ~ direct
    <2>1. RenderStep(b, a, f, onPlane, FALSE)
      BY <1>3 DEF RenderStep, Rendered
    <2>2. f.primary.slot # None /\ f.primary.elem = None
      BY <2>1, DrawnScene
    <2>3. /\ Image(onPlane).base = wanted.base
          /\ Image(onPlane).top = IF onPlane THEN None ELSE wanted.top
      BY <2>1, DrawnScene
    <2>4. ASSUME ~ lost
          PROVE  /\ \A p \in Full : picture'[f.primary.slot][p] = seen'[p]
                 /\ Shows(f)' = wanted
      <3>1. \A p \in Full : /\ picture'[f.primary.slot][p] = Image(onPlane)[p]
                            /\ picture'[f.primary.slot][p] = seen'[p]
        BY <2>1, <2>4, RenderedImage
      <3>2. /\ picture'[f.primary.slot].base = wanted.base
            /\ ~ onPlane => picture'[f.primary.slot].top = wanted.top
        BY <1>0, <2>3, <3>1
      <3>3. Shows(f)' = wanted
        BY <1>0, <1>1, <2>2, <3>2, WantedFields DEF Shows
      <3> QED
        BY <3>1, <3>3
    <2> QED
      BY <2>2, <2>4 DEF Shaped
  <1> QED
    BY <1>2, <1>3

LEMMA RenderScene ==
    ASSUME SceneInv, NEW onPlane \in BOOLEAN, NEW direct \in BOOLEAN,
           RenderFrame(onPlane, direct), Patient = TRUE
    PROVE  SceneInv'
  <1>1. PICK b \in Buffer, a \in 0 .. MaxAge, f \in FrameType : RenderStep(b, a, f, onPlane, direct)
    BY RenderSteps DEF SceneInv
  <1>2. FrameInv'
    BY RenderFrames DEF SceneInv
  <1>3. AgesCover' /\ \A x \in Chained' : age'[x] > 0 => x \in Chained /\ age'[x] = age[x]
    BY <1>1, RenderAges
  <1>4. /\ Shaped(f)
        /\ ~ lost => Shows(f)' = wanted
        /\ ~ lost /\ f.primary.slot # None
                 => \A p \in Full : picture'[f.primary.slot][p] = seen'[p]
    BY <1>1, PreparedShows
  <1>5. UNCHANGED <<current, pending, queued, screen, flip, vblank, wanted, resetPending, modeset,
                    lost>> /\ next = None /\ queued = None
    BY <1>1 DEF RenderStep
  <1>6. f # None /\ Previous # None /\ Previous' = Previous
    BY <1>5, FrameAssumption, PreviousTyped DEF SceneInv, FrameInv, Previous
  <1>7. \/ next' = f /\ Newest' = f
        \/ next' = None /\ Newest' = Previous /\ Same(f, Previous) /\ UNCHANGED <<seen, picture>>
    <2>1. CASE IsEmpty(f)
      <3>1. next' = None
        BY <1>1, <2>1 DEF RenderStep
      <3>2. Newest' = Previous
        BY <1>5, <1>6, <3>1 DEF Newest
      <3> QED
        BY <1>1, <2>1, <3>1, <3>2, EmptyIsPrevious
    <2>2. CASE ~ IsEmpty(f)
      <3>1. next' = f
        BY <1>1, <2>2 DEF RenderStep
      <3> QED
        BY <1>6, <3>1 DEF Newest
    <2> QED
      BY <2>1, <2>2
  <1>8. FramesShaped'
    BY <1>4, <1>5, <1>6, <1>7 DEF SceneInv, FramesShaped
  <1>9. TrackerKnows'
    <2>1. CASE next' = f /\ Newest' = f
      BY <1>4, <1>5, <1>6, <2>1 DEF TrackerKnows, Covered, SlotOf
    <2>2. CASE next' = None /\ Newest' = Previous /\ UNCHANGED <<seen, picture>>
      <3>1. Newest = Previous
        BY <1>5 DEF Newest
      <3>2. CASE \A x \in Chained : age[x] = 0
        <4>1. \A x \in Chained' : age'[x] \in Nat
          BY <1>2 DEF FrameInv, DrmTypeOK, SwapchainTypeOK, Chained
        <4>2. \A x \in Chained' : age'[x] = 0
          BY <1>3, <3>2, <4>1
        <4> QED
          BY <4>2 DEF TrackerKnows
      <3>3. CASE lost \/ (SlotOf(Newest) # None => Covered(SlotOf(Newest), 1))
        BY <1>5, <1>6, <2>2, <3>1, <3>3 DEF TrackerKnows, Covered, SlotOf
      <3> QED
        BY <3>2, <3>3 DEF SceneInv, TrackerKnows
    <2> QED
      BY <1>7, <2>1, <2>2
  <1>10. OverlayChain'
    <2>1. Follows(f, Previous)
      BY <1>1 DEF RenderStep, Overlaid, Follows
    <2> QED
      BY <1>5, <1>6, <1>7, <2>1 DEF SceneInv, OverlayChain, Follows
  <1>11. ScreenKnown'
    BY <1>5 DEF SceneInv, ScreenKnown, Same
  <1>12. NewestShowsScene'
    <2>1. CASE Newest' = f
      BY <1>4, <1>5, <2>1 DEF NewestShowsScene, Shows
    <2>2. CASE Newest' = Previous /\ Same(f, Previous) /\ UNCHANGED <<seen, picture>>
      <3>1. Shows(f)' = Shows(Newest)'
        BY <2>2 DEF Shows, Same
      <3> QED
        BY <1>4, <1>5, <3>1 DEF NewestShowsScene
    <2> QED
      BY <1>7, <2>1, <2>2
  <1> QED
    BY <1>2, <1>3, <1>8, <1>9, <1>10, <1>11, <1>12 DEF SceneInv

LEMMA AgesKept ==
    ASSUME AgesCover, UNCHANGED <<slots, age, next, seen, oldDamage, picture>>
    PROVE  AgesCover'
  BY DEF AgesCover, Covered, Shift, DrawnSlot, Chained

\* queue_frame: the drawn buffer becomes the newest, the others grow older.
LEMMA QueueAges ==
    ASSUME FrameInv, AgesCover, next # None, AgeSlot(next), next' = None, UNCHANGED trackVars
    PROVE  /\ AgesCover'
           /\ UNCHANGED <<age, slots>> \/ (SlotOf(next) # None /\ Covered(SlotOf(next), 1))
  <1> USE MaxAgeAssumption, BufferAssumption
  <1>1. UNCHANGED <<seen, oldDamage, picture>> /\ DrawnSlot(next') = None /\ Shift' = 0
    BY DEF trackVars, DrawnSlot, Shift
  <1>2. age \in [Buffer -> 0 .. MaxAge] /\ slots \in [Position -> Buffer \cup {None}]
        /\ Len(oldDamage) \in Nat
    BY DEF FrameInv, DrmTypeOK, SwapchainTypeOK, TrackTyped
  <1>3. CASE DrawnSlot(next) = None
    <2>1. UNCHANGED <<age, slots>>
      BY <1>3 DEF AgeSlot, DrawnSlot
    <2> QED
      BY <1>1, <1>3, <2>1 DEF AgesCover, Covered, Shift, DrawnSlot, Chained
  <1>4. CASE DrawnSlot(next) # None
    <2> DEFINE c == SlotOf(next)
    <2>1. c = DrawnSlot(next) /\ c # None /\ c \in Chained /\ Covered(c, 1) /\ Shift = 1
      BY <1>4 DEF FrameInv, DrawnIsChained, AgesCover, Shift, DrawnSlot, SlotOf
    <2>2. age' = Ages(c) /\ slots' = SlotsAged(c)
      BY <1>4, <2>1 DEF AgeSlot, Submitted, DrawnSlot, SlotOf
    <2>3. \A x \in Chained : x \in Buffer /\ x # None
      BY <1>2 DEF Chained
    <2> HIDE DEF c
    <2>4. \A x \in Chained' : x \in Chained /\ (x # c => age[x] # MaxAge)
      BY <1>2, <2>1, <2>2 DEF Chained, SlotsAged
    <2>5. ASSUME NEW x \in Chained', age'[x] > 0, age'[x] <= Len(oldDamage)
          PROVE  Covered(x, age'[x])
      <3>1. x \in Chained /\ x \in Buffer /\ age[x] \in 0 .. MaxAge
        BY <1>2, <2>3, <2>4, <2>5
      <3>2. CASE x = c
        <4>1. age'[x] = 1
          BY <2>2, <3>1, <3>2 DEF Ages
        <4> QED
          BY <2>1, <3>2, <4>1
      <3>3. CASE x # c
        <4>1. age[x] # MaxAge
          BY <2>4, <3>3
        <4>2. age[x] > 0 /\ age'[x] = age[x] + 1
          BY <2>2, <2>5, <3>1, <3>3, <4>1 DEF Ages
        <4> QED
          BY <2>1, <2>5, <3>1, <3>3, <4>2 DEF AgesCover
      <3> QED
        BY <3>2, <3>3
    <2>6. ASSUME NEW x \in Chained', age'[x] > 0, age'[x] <= Len(oldDamage')
          PROVE  \A p \in Full : (\A k \in 1 .. age'[x] - 1 : p \notin oldDamage'[k])
                                 => picture'[x][p] = seen'[p]
      BY <1>1, <2>5, <2>6 DEF Covered
    <2>7. \A x \in Chained' : age'[x] \in Nat
      BY <1>2, <2>2, <2>3, <2>4 DEF Ages
    <2>8. AgesCover'
      BY <1>1, <2>6, <2>7 DEF AgesCover, Covered, DrawnSlot
    <2> QED
      BY <2>1, <2>8 DEF c
  <1> QED
    BY <1>3, <1>4

\* A frame that the kernel takes or refuses.
LEMMA SubmitScene ==
    ASSUME NEW f \in FrameType, Submit(f), flip = None
    PROVE  /\ queued' = None
           /\ \/ /\ pending' = f /\ flip' = f /\ modeset' = FALSE
                 /\ ~ resetPending' => ~ resetPending \/ ~ f.partial
                 /\ UNCHANGED <<looked, lost>>
              \/ /\ pending' = None /\ flip' = None /\ lost' = TRUE
                 /\ UNCHANGED <<resetPending, modeset>>
  BY DEF Submit

LEMMA QueueScene == ASSUME SceneInv, QueueFrame PROVE SceneInv'
  <1>1. /\ next # None /\ AgeSlot(next) /\ next' = None
        /\ UNCHANGED <<current, seen, oldDamage, picture, screen, vblank, wanted>>
        /\ UNCHANGED trackVars
    BY DEF QueueFrame, trackVars
  <1>2. next \in FrameType /\ current \in FrameType /\ current # None /\ FrameInv
        /\ resetPending \in BOOLEAN
    BY <1>1, FrameAssumption DEF SceneInv, FrameInv, FramesTyped
  <1>3. FrameInv'
    BY QueueFrames DEF SceneInv
  <1>4. /\ AgesCover'
        /\ UNCHANGED <<age, slots>> \/ (SlotOf(next) # None /\ Covered(SlotOf(next), 1))
    BY <1>1, QueueAges DEF SceneInv
  <1>5. \/ lost' = TRUE
        \/ Newest' = next /\ UNCHANGED <<looked, lost>>
    <2>1. CASE pending = None
      <3>1. Submit(next) /\ flip = None
        BY <1>2, <2>1 DEF QueueFrame, FrameInv, Owed
      <3> QED
        BY <1>1, <1>2, <3>1, SubmitScene DEF Newest, Previous
    <2>2. CASE pending # None
      BY <1>1, <2>2 DEF QueueFrame, Newest
    <2> QED
      BY <2>1, <2>2
  <1>6. Newest = next
    BY <1>1 DEF Newest
  <1>7. TrackerKnows'
    <2>1. CASE lost' = TRUE
      BY <2>1 DEF TrackerKnows
    <2>2. CASE Newest' = next /\ UNCHANGED <<looked, lost>>
      <3>1. CASE SlotOf(next) # None /\ Covered(SlotOf(next), 1)
        BY <1>1, <2>2, <3>1 DEF TrackerKnows, Covered, SlotOf
      <3>2. CASE UNCHANGED <<age, slots>>
        BY <1>1, <1>6, <2>2, <3>2 DEF SceneInv, TrackerKnows, Covered, SlotOf, Chained
      <3> QED
        BY <1>4, <3>1, <3>2
    <2> QED
      BY <1>5, <2>1, <2>2
  <1>8. NewestShowsScene'
    <2>1. CASE lost' = TRUE
      BY <2>1 DEF NewestShowsScene
    <2>2. CASE Newest' = next /\ UNCHANGED <<looked, lost>>
      BY <1>1, <1>6, <2>2 DEF SceneInv, NewestShowsScene, Shows
    <2> QED
      BY <1>5, <2>1, <2>2
  <1>9. FramesShaped' /\ OverlayChain' /\ ScreenKnown'
    <2>1. CASE pending = None
      <3>1. Submit(next) /\ flip = None /\ vblank = FALSE /\ Previous = current
        BY <1>2, <2>1 DEF QueueFrame, FrameInv, Owed, Previous, FramesTyped
      <3>2. Same(screen, current) \/ resetPending
        BY <3>1 DEF SceneInv, ScreenKnown
      <3>3. CASE /\ queued' = None /\ pending' = next /\ flip' = next /\ modeset' = FALSE
                 /\ ~ resetPending' => ~ resetPending \/ ~ next.partial
        <4>1. FramesShaped'
          BY <1>1, <3>3 DEF SceneInv, FramesShaped, Previous
        <4>2. OverlayChain'
          BY <1>1, <3>1, <3>3 DEF SceneInv, OverlayChain, Follows
        <4>3. resetPending' \in BOOLEAN
          BY <1>3 DEF FrameInv, FramesTyped
        <4>4. ScreenKnown'
          BY <1>1, <1>2, <3>1, <3>2, <3>3, <4>3 DEF ScreenKnown, Same
        <4> QED
          BY <4>1, <4>2, <4>4
      <3>4. CASE queued' = None /\ pending' = None /\ UNCHANGED <<resetPending, modeset>>
        <4>1. FramesShaped'
          BY <1>1, <2>1, <3>4 DEF SceneInv, FramesShaped, Previous
        <4>2. OverlayChain' /\ ScreenKnown'
          BY <1>1, <3>1, <3>2, <3>4 DEF SceneInv, OverlayChain, Follows, ScreenKnown, Same
        <4> QED
          BY <4>1, <4>2
      <3> QED
        BY <1>2, <3>1, <3>3, <3>4, SubmitScene
    <2>2. CASE pending # None
      <3>1. queued' = next /\ UNCHANGED <<pending, flip, resetPending, modeset>>
        BY <2>2 DEF QueueFrame
      <3>2. Previous' = Previous
        BY <1>1, <3>1 DEF Previous
      <3> QED
        BY <1>1, <2>2, <3>1, <3>2
        DEF SceneInv, FramesShaped, OverlayChain, Follows, ScreenKnown, Same
    <2> QED
      BY <2>1, <2>2
  <1> QED
    BY <1>3, <1>4, <1>7, <1>8, <1>9 DEF SceneInv

LEMMA SubmittedScene == ASSUME SceneInv, FrameSubmitted, Patient = TRUE PROVE SceneInv'
  <1>1. /\ UNCHANGED <<slots, age, next, seen, oldDamage, picture, screen, wanted>>
        /\ vblank = TRUE /\ vblank' = FALSE /\ next = None /\ next' = None
    BY DEF FrameSubmitted, Loop, SceneInv, FrameInv, FramesTyped, trackVars
  <1>2. pending # None /\ flip = None /\ pending \in FrameType
        /\ Previous = pending /\ resetPending \in BOOLEAN
    BY <1>1 DEF SceneInv, FrameInv, Owed, FramesTyped, Previous
  <1>3. current' = pending
    BY <1>2 DEF FrameSubmitted
  <1>4. FrameInv' /\ AgesCover'
    BY <1>1, SubmittedFrames, AgesKept DEF SceneInv
  <1>5. Same(screen, pending) \/ resetPending
    BY <1>1, <1>2 DEF SceneInv, ScreenKnown
  <1>6. CASE queued # None
    <2>1. Submit(queued) /\ queued \in FrameType
      BY <1>2, <1>6 DEF FrameSubmitted, SceneInv, FrameInv, FramesTyped
    <2>2. Newest = queued
      BY <1>1, <1>6 DEF Newest
    <2>3. CASE /\ queued' = None /\ pending' = queued /\ flip' = queued /\ modeset' = FALSE
               /\ ~ resetPending' => ~ resetPending \/ ~ queued.partial
               /\ UNCHANGED <<looked, lost>>
      <3>1. Newest' = queued
        BY <1>1, <1>6, <2>3 DEF Newest, Previous
      <3>2. FramesShaped'
        BY <1>1, <1>2, <1>3, <1>6, <2>3 DEF SceneInv, FramesShaped, Previous, Shaped
      <3>3. OverlayChain'
        BY <1>1, <1>2, <1>3, <1>6, <2>3 DEF SceneInv, OverlayChain, Follows
      <3>4. TrackerKnows'
        BY <1>1, <2>2, <2>3, <3>1 DEF SceneInv, TrackerKnows, Covered, SlotOf, Chained
      <3>5. ScreenKnown'
        BY <1>1, <1>3, <1>5, <1>6, <2>3 DEF ScreenKnown, Same
      <3>6. NewestShowsScene'
        BY <1>1, <2>2, <2>3, <3>1 DEF SceneInv, NewestShowsScene, Shows
      <3> QED
        BY <1>4, <3>2, <3>3, <3>4, <3>5, <3>6 DEF SceneInv
    <2>4. CASE /\ queued' = None /\ pending' = None /\ flip' = None /\ lost' = TRUE
               /\ UNCHANGED <<resetPending, modeset>>
      <3>1. FramesShaped'
        BY <1>1, <1>2, <1>3, <2>4 DEF SceneInv, FramesShaped, Previous, Shaped
      <3>2. OverlayChain' /\ ScreenKnown'
        BY <1>1, <1>3, <1>5, <2>4 DEF SceneInv, OverlayChain, Follows, ScreenKnown, Same
      <3>3. TrackerKnows' /\ NewestShowsScene'
        BY <2>4 DEF TrackerKnows, NewestShowsScene
      <3> QED
        BY <1>4, <3>1, <3>2, <3>3 DEF SceneInv
    <2> QED
      BY <1>2, <2>1, <2>3, <2>4, SubmitScene
  <1>7. CASE queued = None
    <2>1. pending' = None /\ UNCHANGED <<queued, flip, resetPending, modeset, looked, lost>>
      BY <1>2, <1>7 DEF FrameSubmitted
    <2>2. Newest = pending /\ Newest' = pending
      BY <1>1, <1>2, <1>3, <1>7, <2>1 DEF Newest, Previous
    <2>3. FramesShaped'
      BY <1>1, <1>2, <1>3, <1>7, <2>1 DEF SceneInv, FramesShaped, Previous, Shaped
    <2>4. OverlayChain' /\ ScreenKnown'
      BY <1>1, <1>3, <1>5, <1>7, <2>1 DEF SceneInv, OverlayChain, Follows, ScreenKnown, Same
    <2>5. TrackerKnows'
      BY <1>1, <2>1, <2>2 DEF SceneInv, TrackerKnows, Covered, SlotOf, Chained
    <2>6. NewestShowsScene'
      BY <1>1, <2>1, <2>2 DEF SceneInv, NewestShowsScene, Shows
    <2> QED
      BY <1>4, <2>3, <2>4, <2>5, <2>6 DEF SceneInv
  <1> QED
    BY <1>6, <1>7

\* The overlay plane that a frame leaves alone is empty already.
LEMMA FlipScene == ASSUME SceneInv, FlipDone PROVE SceneInv'
  <1>1. /\ UNCHANGED <<slots, age, current, pending, queued, next, seen, oldDamage, picture, wanted,
                       resetPending, modeset, looked, lost>>
        /\ flip # None /\ screen' = Applied(flip) /\ flip' = None /\ vblank' = TRUE
    BY DEF FlipDone, chainVars, roleVars, trackVars
  <1>2. flip = pending /\ vblank = FALSE /\ flip \in FrameType /\ screen \in FrameType
    BY <1>1 DEF SceneInv, FrameInv, Owed, FramesTyped
  <1>3. FrameInv' /\ AgesCover'
    BY <1>1, FlipFrames, AgesKept DEF SceneInv
  <1>4. Newest' = Newest /\ Previous' = Previous
    BY <1>1 DEF Newest, Previous
  <1>5. FramesShaped' /\ OverlayChain'
    BY <1>1, <1>4 DEF SceneInv, FramesShaped, OverlayChain, Follows
  <1>6. TrackerKnows' /\ NewestShowsScene'
    BY <1>1, <1>4 DEF SceneInv, TrackerKnows, NewestShowsScene, Covered, SlotOf, Chained, Shows
  <1>7. ScreenKnown'
    <2>1. CASE flip.partial /\ flip.overlay.skip /\ flip.overlay.elem = None
      <3>1. screen' = [flip EXCEPT !.overlay = screen.overlay]
        BY <1>1, <2>1 DEF Applied
      <3>2. screen'.primary = flip.primary /\ screen'.overlay = screen.overlay
        BY <1>2, <3>1 DEF FrameType
      <3>3. current.overlay.elem = None
        BY <1>1, <1>2, <2>1 DEF SceneInv, OverlayChain, Follows
      <3>4. resetPending \/ screen.overlay.elem = None
        BY <1>2, <2>1, <3>3 DEF SceneInv, ScreenKnown, Same
      <3> QED
        BY <1>1, <1>2, <2>1, <3>2, <3>4 DEF ScreenKnown, Same
    <2>2. CASE ~ (flip.partial /\ flip.overlay.skip /\ flip.overlay.elem = None)
      BY <1>1, <1>2, <2>2 DEF Applied, ScreenKnown, Same
    <2> QED
      BY <2>1, <2>2
  <1> QED
    BY <1>3, <1>5, <1>6, <1>7 DEF SceneInv

LEMMA ChangeScenes ==
    ASSUME SceneInv, NEW piece \in Full, NEW gone \in BOOLEAN, ChangeScene(piece, gone)
    PROVE  SceneInv'
  <1>1. /\ UNCHANGED <<slots, age, current, pending, queued, next, seen, oldDamage, picture, screen,
                       flip, vblank, resetPending, modeset, lost>>
        /\ looked' = FALSE
    BY DEF ChangeScene, chainVars, roleVars, trackVars, kernelVars
  <1>2. FrameInv' /\ AgesCover'
    BY <1>1, ChangeFrames, AgesKept DEF SceneInv
  <1>3. Newest' = Newest /\ Previous' = Previous
    BY <1>1 DEF Newest, Previous
  <1>4. FramesShaped' /\ OverlayChain' /\ ScreenKnown'
    BY <1>1, <1>3 DEF SceneInv, FramesShaped, OverlayChain, Follows, ScreenKnown, Same
  <1>5. TrackerKnows' /\ NewestShowsScene'
    BY <1>1, <1>3 DEF SceneInv, TrackerKnows, NewestShowsScene, Covered, SlotOf, Chained
  <1> QED
    BY <1>2, <1>4, <1>5 DEF SceneInv

\* A chain without buffers knows nothing that could be wrong.
LEMMA EmptyChain ==
    ASSUME slots' = EmptySlots, next' = None
    PROVE  Chained' = {} /\ AgesCover' /\ TrackerKnows'
  <1>1. Chained' = {}
    BY DEF Chained, EmptySlots
  <1> QED
    BY <1>1 DEF AgesCover, TrackerKnows, DrawnSlot

LEMMA ResetScene == ASSUME SceneInv, RenderFrameFails \/ UseMode, Patient = TRUE PROVE SceneInv'
  <1>1. /\ UNCHANGED <<current, pending, queued, screen, flip, vblank, resetPending>>
        /\ slots' = EmptySlots /\ next' = None /\ looked' = FALSE /\ modeset' \in {modeset, TRUE}
    BY DEF RenderFrameFails, UseMode, Loop, roleVars, kernelVars
  <1>2. FrameInv' /\ AgesCover' /\ TrackerKnows'
    BY <1>1, FailFrames, ModeFrames, EmptyChain DEF SceneInv
  <1>3. Previous' = Previous
    BY <1>1 DEF Previous
  <1>4. FramesShaped' /\ OverlayChain' /\ ScreenKnown' /\ NewestShowsScene'
    BY <1>1, <1>3
    DEF SceneInv, FramesShaped, OverlayChain, Follows, ScreenKnown, Same, NewestShowsScene
  <1> QED
    BY <1>2, <1>4 DEF SceneInv

LEMMA SessionScene == ASSUME SceneInv, Pause \/ Activate, Patient = TRUE PROVE SceneInv'
  <1>1. /\ UNCHANGED <<slots, age, current, pending, queued, next, seen, oldDamage, picture, flip,
                       vblank, wanted, modeset, looked, lost>>
        /\ UNCHANGED <<screen, resetPending>> \/ resetPending' = TRUE
    BY DEF Pause, Activate, chainVars, roleVars, trackVars, kernelVars
  <1>2. FrameInv' /\ AgesCover'
    BY <1>1, SessionFrames, AgesKept DEF SceneInv
  <1>3. Newest' = Newest /\ Previous' = Previous
    BY <1>1 DEF Newest, Previous
  <1>4. FramesShaped' /\ OverlayChain' /\ ScreenKnown'
    BY <1>1, <1>3 DEF SceneInv, FramesShaped, OverlayChain, Follows, ScreenKnown, Same
  <1>5. TrackerKnows' /\ NewestShowsScene'
    BY <1>1, <1>3 DEF SceneInv, TrackerKnows, NewestShowsScene, Covered, SlotOf, Chained, Shows
  <1> QED
    BY <1>2, <1>4, <1>5 DEF SceneInv

LEMMA ClearScene == ASSUME SceneInv, Clear, Patient = TRUE PROVE SceneInv'
  <1>1. /\ UNCHANGED <<slots, age, seen, oldDamage, picture>>
        /\ next = None /\ modeset' = TRUE
        /\ screen' = Blank
        /\ current' = Blank /\ pending' = None /\ queued' = None /\ next' = None
    BY DEF Clear, Loop, trackVars
  <1>2. /\ Blank.primary.slot = None /\ Blank.primary.elem = None /\ Blank.overlay.elem = None
    BY BlankFields
  <1>3. FrameInv' /\ AgesCover' /\ vblank' = FALSE
    <2>1. FrameInv' /\ AgesCover'
      BY <1>1, ClearFrames, AgesKept DEF SceneInv
    <2> QED
      BY <1>1, <2>1 DEF FrameInv, Owed, FramesTyped
  <1>4. Newest' = Blank /\ Previous' = Blank
    BY <1>1 DEF Newest, Previous
  <1>5. FramesShaped' /\ OverlayChain'
    BY <1>1, <1>2 DEF FramesShaped, OverlayChain, Follows
  <1>6. TrackerKnows' /\ NewestShowsScene'
    BY <1>2, <1>4 DEF TrackerKnows, NewestShowsScene, SlotOf
  <1>7. ScreenKnown'
    BY <1>1, <1>3 DEF ScreenKnown, Same
  <1> QED
    BY <1>3, <1>5, <1>6, <1>7 DEF SceneInv

LEMMA InitScene == DrmInit => SceneInv
  <1> SUFFICES ASSUME DrmInit PROVE SceneInv
    OBVIOUS
  <1>1. /\ Blank.primary.slot = None /\ Blank.primary.elem = None
    BY BlankFields
  <1>2. FrameInv
    BY InitFrames
  <1>3. Chained = {}
    BY DEF DrmInit, Chained, EmptySlots
  <1>4. FramesShaped /\ OverlayChain /\ ScreenKnown /\ NewestShowsScene
    BY <1>1 DEF DrmInit, FramesShaped, OverlayChain, Follows, ScreenKnown, NewestShowsScene
  <1>5. AgesCover /\ TrackerKnows
    BY <1>3 DEF DrmInit, AgesCover, TrackerKnows, DrawnSlot
  <1> QED
    BY <1>2, <1>4, <1>5 DEF SceneInv

LEMMA SceneKept == ASSUME SceneInv, [DrmNext]_drmVars, Patient = TRUE PROVE SceneInv'
  <1>1. CASE DrmNext
    BY <1>1, ChangeScenes, RenderScene, ResetScene, QueueScene, SubmittedScene, FlipScene,
       SessionScene, ClearScene DEF DrmNext
  <1>2. CASE UNCHANGED drmVars
    <2>1. UNCHANGED <<slots, age, current, pending, queued, next, seen, oldDamage, picture, screen,
                      flip, vblank, wanted, resetPending, modeset, looked, lost>>
      BY <1>2 DEF drmVars, chainVars, roleVars, trackVars, kernelVars
    <2>2. FrameInv' /\ AgesCover'
      BY <1>2, <2>1, FramesKept, AgesKept DEF SceneInv
    <2>3. Newest' = Newest /\ Previous' = Previous
      BY <2>1 DEF Newest, Previous
    <2>4. FramesShaped' /\ OverlayChain' /\ ScreenKnown'
      BY <2>1, <2>3 DEF SceneInv, FramesShaped, OverlayChain, Follows, ScreenKnown, Same
    <2>5. TrackerKnows' /\ NewestShowsScene'
      BY <2>1, <2>3 DEF SceneInv, TrackerKnows, NewestShowsScene, Covered, SlotOf, Chained, Shows
    <2> QED
      BY <2>2, <2>4, <2>5 DEF SceneInv
  <1> QED
    BY <1>1, <1>2

(***************************************************************************)
(* When render_frame finds nothing to do and every frame has been shown,   *)
(* the screen shows the scene, whatever the damage history kept, however   *)
(* old the buffers are, whichever planes were skipped and whatever pauses, *)
(* mode changes and failed renderings came before, unless a frame that     *)
(* failed to flip was dropped since the buffers were reset.                *)
(***************************************************************************)
THEOREM SceneReachesScreen == ASSUME Patient = TRUE PROVE DrmSpec => []ScreenShowsScene
  <1>1. DrmInit => SceneInv
    BY InitScene
  <1>2. SceneInv /\ [DrmNext]_drmVars => SceneInv'
    BY SceneKept
  <1>3. SceneInv => ScreenShowsScene
    <2> SUFFICES ASSUME SceneInv, Settled, ~ lost PROVE Shows(screen) = wanted
      BY DEF ScreenShowsScene
    <2>1. Newest = current /\ Previous = current /\ vblank = FALSE
      BY DEF Settled, Newest, Previous, SceneInv, FrameInv, Owed, FramesTyped
    <2>2. Same(screen, current)
      BY <2>1 DEF Settled, SceneInv, ScreenKnown
    <2>3. Shows(current) = wanted
      BY <2>1 DEF Settled, SceneInv, FramesShaped, Shaped, NewestShowsScene
    <2>4. Shows(screen) = Shows(current)
      BY <2>2 DEF Shows, Same
    <2> QED
      BY <2>3, <2>4
  <1> QED
    BY <1>1, <1>2, <1>3, PTL DEF DrmSpec

-----------------------------------------------------------------------------
(* The states of both components have their types.                           *)

RenderInv ==
    /\ part \in {"tracker", "compositor"}
    /\ part = "tracker" => DamageInv
    /\ part = "compositor" => FrameInv

(***************************************************************************)
(* In every state of either component the values have their types: the bag *)
(* keeps at most MAX_DAMAGE_AGE damages, what is tracked and damaged lies  *)
(* in the output, and the slots the frames hold are acquired ones.         *)
(***************************************************************************)
THEOREM RenderTypes == ASSUME Patient = TRUE PROVE RenderSpec => []RenderTypeOK
  <1>1. RenderInit => RenderInv
    BY InitDamage, InitFrames DEF RenderInit, RenderInv
  <1>2. RenderInv /\ [RenderNext]_renderVars => RenderInv'
    <2> SUFFICES ASSUME RenderInv, [RenderNext]_renderVars PROVE RenderInv'
      OBVIOUS
    <2>1. part' = part
      BY DEF RenderNext, renderVars
    <2>2. CASE part = "tracker"
      <3>1. [DamageNext]_damageVars
        BY <2>2 DEF RenderNext, renderVars
      <3> QED BY <2>1, <2>2, <3>1, DamageKept DEF RenderInv
    <2>3. CASE part = "compositor"
      <3>1. [DrmNext]_drmVars
        BY <2>3 DEF RenderNext, renderVars
      <3> QED BY <2>1, <2>3, <3>1, FramesKept DEF RenderInv
    <2> QED BY <2>2, <2>3 DEF RenderInv
  <1>3. RenderInv => RenderTypeOK
    BY DamageTypes DEF RenderInv, RenderTypeOK, FrameInv
  <1> QED BY <1>1, <1>2, <1>3, PTL DEF RenderSpec
=============================================================================
