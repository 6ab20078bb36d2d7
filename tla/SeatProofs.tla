----------------------------- MODULE SeatProofs -----------------------------
(* What the parts of a seat promise, for any number of clients, surfaces,    *)
(* keys, buttons, devices, sources and popups: first the keyboard, then the  *)
(* pointer, the selections, and the popups with their grabs.  Each has its   *)
(* own specification and its own invariant.  The last theorem is about all   *)
(* of them and the XDG surfaces, in the form in which they are run together. *)
EXTENDS MCDesktop, XdgSurfaceProofs

-----------------------------------------------------------------------------
(* Keyboard: keys and focus.                                                 *)
LEMMA KbdTypeStep == KbdTypeOK /\ [KbdNext]_kbdVars => KbdTypeOK'
  <1> SUFFICES ASSUME KbdTypeOK, [KbdNext]_kbdVars PROVE KbdTypeOK'
    OBVIOUS
  <1> USE DEF KbdTypeOK
  <1>1. ASSUME NEW src \in Source, NEW k \in Key, KeyPress(src, k) PROVE KbdTypeOK'
    BY <1>1 DEF KeyPress, Forward, kbdFocusVars
  <1>2. ASSUME NEW src \in Source, NEW k \in Key, KeyRelease(src, k) PROVE KbdTypeOK'
    BY <1>2 DEF KeyRelease, Forward, kbdFocusVars
  <1>3. ASSUME NEW src \in Source, ReleaseSource(src) PROVE KbdTypeOK'
    BY <1>3 DEF ReleaseSource, UpWith, Forward, kbdFocusVars
  <1>4. ASSUME NEW f \in Client \cup {None}, SetFocus(f) PROVE KbdTypeOK'
    BY <1>4 DEF SetFocus, EnterKeys
  <1>5. ASSUME NEW c \in Client, NewKbd(c) PROVE KbdTypeOK'
    BY <1>5 DEF NewKbd, Pressed
  <1>6. ASSUME NEW c \in Client, ReleaseKbd(c) PROVE KbdTypeOK'
    BY <1>6 DEF ReleaseKbd
  <1>7. ASSUME NEW c \in Client, DestroySurface(c) PROVE KbdTypeOK'
    BY <1>7 DEF DestroySurface
  <1>8. ASSUME NEW c \in Client, NewSurface(c) PROVE KbdTypeOK'
    BY <1>8 DEF NewSurface
  <1>9. CASE SetImeGrab
    BY <1>9 DEF SetImeGrab, kbdFocusVars
  <1>10. CASE UNCHANGED kbdVars
    BY <1>10 DEF kbdVars
  <1> QED BY <1>1, <1>2, <1>3, <1>4, <1>5, <1>6, <1>7, <1>8, <1>9, <1>10 DEF KbdNext

LEMMA KbdTypeInit == KbdInit => KbdTypeOK
  BY DEF KbdInit, KbdTypeOK

(* The state of the keyboard has its type.                                   *)
THEOREM KbdTypeCorrect == KbdSpec => []KbdTypeOK
  BY KbdTypeInit, KbdTypeStep, PTL DEF KbdSpec

-----------------------------------------------------------------------------
(* Every key is up, forwarded or kept by the filter, one of the three,       *)
(* however many sources press, release and abandon it.                       *)
LEMMA AccountedStep == KbdTypeOK /\ KeysAccounted /\ [KbdNext]_kbdVars => KeysAccounted'
  <1> SUFFICES ASSUME KbdTypeOK, KeysAccounted, [KbdNext]_kbdVars PROVE KeysAccounted'
    OBVIOUS
  <1> USE DEF KeysAccounted, Pressed
  <1>1. ASSUME NEW src \in Source, NEW k \in Key, KeyPress(src, k) PROVE KeysAccounted'
    <2>1. \A x \in Key : x \in Pressed' <=> x = k \/ x \in Pressed
      BY <1>1 DEF KeyPress, KbdTypeOK
    <2>2. k \notin Pressed <=> keySources[k] = {}
      OBVIOUS
    <2> QED BY <1>1, <2>1, <2>2 DEF KeyPress, Forward, KbdTypeOK
  <1>2. ASSUME NEW src \in Source, NEW k \in Key, KeyRelease(src, k) PROVE KeysAccounted'
    <2>1. \A x \in Key \ {k} : x \in Pressed' <=> x \in Pressed
      BY <1>2 DEF KeyRelease, KbdTypeOK
    <2>2. k \in Pressed /\ (k \in Pressed' <=> keySources'[k] # {})
      BY <1>2 DEF KeyRelease
    <2> QED BY <1>2, <2>1, <2>2 DEF KeyRelease, Forward, KbdTypeOK
  <1>3. ASSUME NEW src \in Source, ReleaseSource(src) PROVE KeysAccounted'
    <2>1. \A x \in Key : x \in Pressed' <=> x \in Pressed /\ x \notin UpWith(src)
      BY <1>3 DEF ReleaseSource, UpWith, KbdTypeOK
    <2> QED BY <1>3, <2>1 DEF ReleaseSource, Forward, KbdTypeOK
  <1>4. ASSUME UNCHANGED <<keySources, forwardedKeys, withheld>> PROVE KeysAccounted'
    BY <1>4
  <1> QED
    BY <1>1, <1>2, <1>3, <1>4 DEF KbdNext, SetFocus, NewKbd, ReleaseKbd, DestroySurface,
       NewSurface, SetImeGrab, kbdVars

(* No key stays forwarded once its last source is gone (KeysAccounted).      *)
THEOREM NoKeyLeftBehind == KbdSpec => []KeysAccounted
  <1>1. KbdInit => KeysAccounted
    BY DEF KbdInit, KeysAccounted, Pressed
  <1> QED BY <1>1, AccountedStep, KbdTypeCorrect, PTL DEF KbdSpec

-----------------------------------------------------------------------------
(* A focus whose surface lives has the hook that will send its leave: what   *)
(* OnlyFocusEntered needs when a wl_keyboard is bound late.                  *)
Hooked == kbdFocus \in surfaceAlive => kbdFocus \in leaveHook

FocusInv == OnlyFocusEntered /\ Hooked

LEMMA FocusStep == KbdTypeOK /\ FocusInv /\ [KbdNext]_kbdVars => FocusInv'
  <1> SUFFICES ASSUME KbdTypeOK, FocusInv, [KbdNext]_kbdVars PROVE FocusInv'
    OBVIOUS
  <1> USE SeatConstants DEF FocusInv, OnlyFocusEntered, Hooked, KbdTypeOK
  <1>1. ASSUME NEW f \in Client \cup {None}, SetFocus(f) PROVE FocusInv'
    BY <1>1 DEF SetFocus
  <1>2. ASSUME NEW c \in Client, NewKbd(c) PROVE FocusInv'
    BY <1>2 DEF NewKbd
  <1>3. ASSUME NEW c \in Client, ReleaseKbd(c) PROVE FocusInv'
    BY <1>3 DEF ReleaseKbd
  <1>4. ASSUME NEW c \in Client, DestroySurface(c) PROVE FocusInv'
    BY <1>4 DEF DestroySurface
  <1>5. ASSUME NEW c \in Client, NewSurface(c) PROVE FocusInv'
    BY <1>5 DEF NewSurface
  <1>6. ASSUME UNCHANGED kbdFocusVars PROVE FocusInv'
    BY <1>6 DEF kbdFocusVars
  <1> QED
    BY <1>1, <1>2, <1>3, <1>4, <1>5, <1>6 DEF KbdNext, KeyPress, KeyRelease, ReleaseSource,
       SetImeGrab, kbdVars, kbdFocusVars

(* Only the focus is between enter and leave, and only while its surface     *)
(* lives (OnlyFocusEntered).                                                 *)
THEOREM EnterLeavePaired == KbdSpec => []OnlyFocusEntered
  <1>1. KbdInit => FocusInv
    BY SeatConstants DEF KbdInit, FocusInv, OnlyFocusEntered, Hooked
  <1>2. FocusInv => OnlyFocusEntered
    BY DEF FocusInv
  <1> QED BY <1>1, <1>2, FocusStep, KbdTypeCorrect, PTL DEF KbdSpec

-----------------------------------------------------------------------------
LEMMA ToldStep ==
    KbdTypeOK /\ KeysAccounted /\ FocusInv /\ FocusToldKeys /\ [KbdNext]_kbdVars
        => FocusToldKeys'
  <1> SUFFICES ASSUME KbdTypeOK, KeysAccounted, FocusInv, FocusToldKeys, [KbdNext]_kbdVars
               PROVE  FocusToldKeys'
    OBVIOUS
  <1> USE DEF FocusToldKeys, KbdTypeOK
  <1>1. \A c \in entered : c = kbdFocus
    BY DEF FocusInv, OnlyFocusEntered
  <1>2. ASSUME NEW keys \in SUBSET Key, NEW press \in BOOLEAN, Forward(keys, press),
               UNCHANGED entered
        PROVE  FocusToldKeys'
    BY <1>1, <1>2 DEF Forward
  <1>3. ASSUME UNCHANGED <<forwardedKeys, told, off, entered>> PROVE FocusToldKeys'
    BY <1>3
  <1>4. ASSUME NEW src \in Source, NEW k \in Key, KeyPress(src, k) PROVE FocusToldKeys'
    BY <1>2, <1>3, <1>4 DEF KeyPress, kbdFocusVars
  <1>5. ASSUME NEW src \in Source, NEW k \in Key, KeyRelease(src, k) PROVE FocusToldKeys'
    BY <1>2, <1>3, <1>5 DEF KeyRelease, kbdFocusVars
  <1>6. ASSUME NEW src \in Source, ReleaseSource(src) PROVE FocusToldKeys'
    BY <1>2, <1>6 DEF ReleaseSource, UpWith, kbdFocusVars
  <1>7. ASSUME NEW f \in Client \cup {None}, SetFocus(f) PROVE FocusToldKeys'
    <2>1. entered' \subseteq {f} \cap knownKbds
      BY <1>1, <1>7 DEF SetFocus
    <2> QED BY <1>7, <2>1 DEF SetFocus, EnterKeys
  <1>8. ASSUME NEW c \in Client, NewKbd(c) PROVE FocusToldKeys'
    <2>1. CASE c = kbdFocus /\ c \in surfaceAlive
      <3>1. entered' \subseteq {c}
        BY <1>1, <1>8, <2>1 DEF NewKbd
      <3>2. \A k \in Key \ withheld : k \in Pressed <=> k \in forwardedKeys
        BY DEF KeysAccounted
      <3>3. told'[c] = Pressed /\ off' = withheld /\ forwardedKeys' = forwardedKeys
        BY <1>8, <2>1 DEF NewKbd
      <3> QED BY <3>1, <3>2, <3>3
    <2>2. CASE ~ (c = kbdFocus /\ c \in surfaceAlive)
      BY <1>3, <1>8, <2>2 DEF NewKbd
    <2> QED BY <2>1, <2>2
  <1>9. ASSUME NEW c \in Client, ReleaseKbd(c) PROVE FocusToldKeys'
    BY <1>9 DEF ReleaseKbd
  <1>10. ASSUME NEW c \in Client, DestroySurface(c) PROVE FocusToldKeys'
    BY <1>10 DEF DestroySurface
  <1>11. ASSUME NEW c \in Client, NewSurface(c) PROVE FocusToldKeys'
    BY <1>3, <1>11 DEF NewSurface
  <1>12. CASE SetImeGrab
    BY <1>3, <1>12 DEF SetImeGrab, kbdFocusVars
  <1>13. CASE UNCHANGED kbdVars
    BY <1>3, <1>13 DEF kbdVars
  <1> QED
    BY <1>4, <1>5, <1>6, <1>7, <1>8, <1>9, <1>10, <1>11, <1>12, <1>13 DEF KbdNext

(* The focused client knows which keys are down, but for the keys whose last *)
(* event the input method got and those a late wl_keyboard was told too      *)
(* many (FocusToldKeys).                                                     *)
THEOREM FocusIsTold == KbdSpec => []FocusToldKeys
  <1>1. KbdInit => KeysAccounted /\ FocusInv /\ FocusToldKeys
    BY SeatConstants DEF KbdInit, KeysAccounted, Pressed, FocusInv, OnlyFocusEntered, Hooked,
       FocusToldKeys
  <1> QED BY <1>1, AccountedStep, FocusStep, ToldStep, KbdTypeCorrect, PTL DEF KbdSpec

-----------------------------------------------------------------------------
(* Pointer: the objects that follow the focus.                               *)
SeenType == [lastEnter : BOOLEAN,
             on : [Client -> PtrSurface \cup {None}],
             inProgress : [Client -> PtrSurface \cup {None}],
             constraint : [PtrSurface -> Constraint \cup {None}],
             active : SUBSET Constraint]

(* Leaving a surface, field by field.                                        *)
LEMMA LeaveFields ==
    ASSUME NEW v \in SeenType, NEW s \in PtrSurface
    PROVE  /\ Leave(v, s) \in SeenType
           /\ Leave(v, s).on = [v.on EXCEPT ![s.client] = None]
           /\ Leave(v, s).inProgress = [v.inProgress EXCEPT ![s.client] = None]
           /\ Leave(v, s).active = v.active \ {v.constraint[s]}
           /\ \A x \in PtrSurface \ {s} : Leave(v, s).constraint[x] = v.constraint[x]
           /\ Leave(v, s).constraint[s] =
                 IF v.constraint[s] \in v.active /\ v.constraint[s] \in oneShot
                 THEN None ELSE v.constraint[s]
  BY PointerConstants, ZenonT(60) DEF SeenType, Leave, Deactivate

(* Entering a surface, field by field.                                       *)
LEMMA EnterFields ==
    ASSUME NEW v \in SeenType, NEW s \in PtrSurface
    PROVE  /\ Enter(v, s) \in SeenType
           /\ Enter(v, s).lastEnter = TRUE
           /\ Enter(v, s).on = [v.on EXCEPT ![s.client] =
                 IF s.client \in wlPointers /\ s \in ptrAlive THEN s ELSE v.on[s.client]]
           /\ Enter(v, s).inProgress = v.inProgress
           /\ Enter(v, s).active = v.active
           /\ Enter(v, s).constraint = v.constraint
  BY PointerConstants DEF SeenType, Enter

-----------------------------------------------------------------------------
LEMMA PtrTypeInit == PtrInit => PtrTypeOK
  BY DEF PtrInit, PtrTypeOK, NoPtrGrab

(* The focus moves: the type of what a move changes.                         *)
LEMMA MoveType ==
    ASSUME PtrTypeOK, NEW f \in PtrSurface \cup {None}, MoveTo(f)
    PROVE  ptrFocus' \in PtrSurface \cup {None} /\ seen' \in SeenType
  <1>1. seen \in SeenType
    BY DEF PtrTypeOK, SeenType
  <1> DEFINE left == IF ptrFocus = None THEN seen ELSE Leave(seen, ptrFocus)
  <1>2. left \in SeenType
    BY <1>1, LeaveFields DEF PtrTypeOK
  <1>3. f # None => Enter(left, f) \in SeenType
    BY <1>2, EnterFields
  <1> QED BY <1>1, <1>2, <1>3 DEF MoveTo, Crossing

LEMMA GrabType ==
    ASSUME PtrTypeOK
    PROVE  /\ GrabInEffect \in [kind : {"none", "click", "move"}, focus : PtrSurface \cup {None}]
           /\ \A f \in PtrSurface \cup {None} :
                 FocusUnder(GrabInEffect, f) \in PtrSurface \cup {None}
  BY DEF PtrTypeOK, GrabInEffect, FocusUnder, NoPtrGrab

LEMMA DeactivateType ==
    ASSUME PtrTypeOK, NEW s \in PtrSurface
    PROVE  Deactivate(seen, s) \in SeenType
  BY DEF PtrTypeOK, Deactivate, SeenType

LEMMA PtrTypeStep == PtrTypeOK /\ [PtrNext]_ptrVars => PtrTypeOK'
  <1> SUFFICES ASSUME PtrTypeOK, [PtrNext]_ptrVars PROVE PtrTypeOK'
    OBVIOUS
  <1> USE DEF ptrObjects, conVars
  <1>1. ASSUME NEW f \in PtrSurface \cup {None}, PtrMotion(f) PROVE PtrTypeOK'
    BY <1>1, GrabType, MoveType DEF PtrMotion, PtrTypeOK, SeenType
  <1>2. ASSUME NEW b \in Button, PtrPress(b) PROVE PtrTypeOK'
    BY <1>2, GrabType DEF PtrPress, PtrTypeOK
  <1>3. ASSUME NEW b \in Button, PtrRelease(b) PROVE PtrTypeOK'
    BY <1>3, GrabType, MoveType DEF PtrRelease, PtrTypeOK, SeenType, NoPtrGrab
  <1>4. CASE StartMove
    BY <1>4, MoveType DEF StartMove, PtrTypeOK, SeenType
  <1>5. CASE GestureBegin
    BY <1>5, GrabType, PointerConstants DEF GestureBegin, PtrTypeOK
  <1>6. CASE GestureUpdate
    BY <1>6, GrabType, PointerConstants DEF GestureUpdate, PtrTypeOK
  <1>7. CASE GestureEnd
    BY <1>7, GrabType, PointerConstants DEF GestureEnd, PtrTypeOK
  <1>8. ASSUME NEW c \in Client, NewPointer(c) PROVE PtrTypeOK'
    BY <1>8 DEF NewPointer, PtrTypeOK
  <1>9. ASSUME NEW c \in Client, ReleasePointer(c) PROVE PtrTypeOK'
    BY <1>9 DEF ReleasePointer, PtrTypeOK
  <1>10. ASSUME NEW c \in Client, NewGesture(c) PROVE PtrTypeOK'
    BY <1>10 DEF NewGesture, PtrTypeOK
  <1>11. ASSUME NEW c \in Client, DestroyGesture(c) PROVE PtrTypeOK'
    BY <1>11 DEF DestroyGesture, PtrTypeOK
  <1>12. ASSUME NEW s \in PtrSurface, DestroyPtrSurface(s) PROVE PtrTypeOK'
    BY <1>12, PointerConstants DEF DestroyPtrSurface, PtrTypeOK
  <1>13. ASSUME NEW s \in PtrSurface, DeactivateConstraint(s) PROVE PtrTypeOK'
    BY <1>13, DeactivateType DEF DeactivateConstraint, PtrTypeOK, SeenType
  <1>14. ASSUME NEW s \in PtrSurface, NEW o \in Constraint, NEW once \in BOOLEAN,
                NewConstraint(o, s, once) PROVE PtrTypeOK'
    BY <1>14 DEF NewConstraint, PtrTypeOK
  <1>15. CASE ActivateConstraint
    BY <1>15 DEF ActivateConstraint, PtrTypeOK
  <1>16. ASSUME NEW o \in Constraint, DestroyConstraint(o) PROVE PtrTypeOK'
    BY <1>16 DEF DestroyConstraint, PtrTypeOK
  <1>17. CASE UNCHANGED ptrVars
    BY <1>17 DEF ptrVars, PtrTypeOK
  <1> QED
    BY <1>1, <1>2, <1>3, <1>4, <1>5, <1>6, <1>7, <1>8, <1>9, <1>10, <1>11, <1>12, <1>13,
       <1>14, <1>15, <1>16, <1>17 DEF PtrNext

-----------------------------------------------------------------------------
(* A click keeps the focus where it was pressed and never outlives its       *)
(* buttons (ClickHoldsFocus), with grabs discarded when their surface dies   *)
(* and replaced by a move.                                                   *)
THEOREM ClicksHoldTheFocus == PtrSpec => []ClickHoldsFocus
  <1>1. PtrInit => ClickHoldsFocus
    BY DEF PtrInit, ClickHoldsFocus, NoPtrGrab
  <1>2. PtrTypeOK /\ ClickHoldsFocus /\ [PtrNext]_ptrVars => ClickHoldsFocus'
    <2> SUFFICES ASSUME PtrTypeOK, ClickHoldsFocus, [PtrNext]_ptrVars PROVE ClickHoldsFocus'
      OBVIOUS
    <2>1. ASSUME NEW f \in PtrSurface \cup {None}, PtrMotion(f) PROVE ClickHoldsFocus'
      BY <2>1 DEF PtrMotion, MoveTo, FocusUnder, GrabInEffect, NoPtrGrab, ClickHoldsFocus
    <2>2. ASSUME NEW b \in Button, PtrPress(b) PROVE ClickHoldsFocus'
      BY <2>2 DEF PtrPress, GrabInEffect, NoPtrGrab, ClickHoldsFocus
    <2>3. ASSUME NEW b \in Button, PtrRelease(b) PROVE ClickHoldsFocus'
      BY <2>3 DEF PtrRelease, GrabInEffect, NoPtrGrab, ClickHoldsFocus
    <2>4. CASE StartMove
      BY <2>4 DEF StartMove, ClickHoldsFocus, PtrTypeOK
    <2>5. ASSUME ptrGrab' \in {GrabInEffect, ptrGrab}, UNCHANGED <<ptrFocus, buttons>>
          PROVE  ClickHoldsFocus'
      BY <2>5 DEF GrabInEffect, NoPtrGrab, ClickHoldsFocus
    <2> QED
      BY <2>1, <2>2, <2>3, <2>4, <2>5 DEF PtrNext, ptrVars, GestureBegin, GestureUpdate,
         GestureEnd, NewPointer, ReleasePointer, NewGesture, DestroyGesture, DestroyPtrSurface,
         DeactivateConstraint, NewConstraint, ActivateConstraint, DestroyConstraint
  <1> QED BY <1>1, <1>2, PtrTypeInit, PtrTypeStep, PTL DEF PtrSpec

-----------------------------------------------------------------------------
(* A move of the focus brings the wl_pointers along.                         *)
LEMMA MoveOn ==
    ASSUME PtrTypeOK, PointerOnFocus, NEW f \in PtrSurface \cup {None}, MoveTo(f),
           UNCHANGED <<ptrAlive, wlPointers>>
    PROVE  PointerOnFocus'
  <1> DEFINE left == IF ptrFocus = None THEN seen ELSE Leave(seen, ptrFocus)
  <1>0. seen \in SeenType
    BY DEF PtrTypeOK, SeenType
  <1>1. CASE f = ptrFocus
    BY <1>1 DEF MoveTo, Crossing, PointerOnFocus
  <1>2. CASE f # ptrFocus
    <2>1. left \in SeenType
      BY <1>0, LeaveFields DEF PtrTypeOK
    <2>2. \A c \in Client : left.on[c] = None
      <3>1. CASE ptrFocus = None
        BY <3>1, PointerConstants DEF PtrTypeOK, PointerOnFocus
      <3>2. CASE ptrFocus # None
        <4>1. ptrFocus \in PtrSurface /\ ptrFocus.client \in Client
          BY <3>2, PointerConstants DEF PtrTypeOK
        <4>2. left.on = [seen.on EXCEPT ![ptrFocus.client] = None]
          BY <1>0, <3>2, <4>1, LeaveFields
        <4>3. \A c \in Client \ {ptrFocus.client} : seen.on[c] = None
          BY DEF PointerOnFocus
        <4> QED BY <1>0, <4>1, <4>2, <4>3 DEF SeenType
      <3> QED BY <3>1, <3>2
    <2>3. seen' = IF f = None THEN left ELSE Enter(left, f)
      BY <1>2 DEF MoveTo, Crossing
    <2>4. ptrFocus' = f
      BY DEF MoveTo
    <2>5. CASE f = None
      BY <2>2, <2>3, <2>4, <2>5, PointerConstants DEF PointerOnFocus, PtrTypeOK
    <2>6. CASE f # None
      <3>1. /\ seen'.lastEnter
            /\ seen'.on = [left.on EXCEPT ![f.client] =
                  IF f.client \in wlPointers /\ f \in ptrAlive THEN f ELSE left.on[f.client]]
        BY <2>1, <2>3, <2>6, EnterFields
      <3>2. left.on \in [Client -> PtrSurface \cup {None}] /\ f.client \in Client
        BY <2>1, <2>6, PointerConstants DEF SeenType
      <3>3. \A c \in Client :
               seen'.on[c] = IF c = f.client /\ c \in wlPointers /\ f \in ptrAlive
                             THEN f ELSE None
        BY <2>2, <3>1, <3>2
      <3> QED BY <2>4, <3>1, <3>3 DEF PointerOnFocus
    <2> QED BY <2>5, <2>6
  <1> QED BY <1>1, <1>2

LEMMA DeactivateFields ==
    ASSUME PtrTypeOK, NEW s \in PtrSurface
    PROVE  /\ Deactivate(seen, s).on = seen.on
           /\ Deactivate(seen, s).lastEnter = seen.lastEnter
           /\ Deactivate(seen, s).inProgress = seen.inProgress
           /\ Deactivate(seen, s).active = seen.active \ {seen.constraint[s]}
           /\ \A x \in PtrSurface \ {s} :
                 Deactivate(seen, s).constraint[x] = seen.constraint[x]
           /\ Deactivate(seen, s).constraint[s] \in {None, seen.constraint[s]}
           /\ seen.constraint[s] \in oneShot /\ seen.constraint[s] \in seen.active
                 => Deactivate(seen, s).constraint[s] = None
           /\ seen.constraint[s] \notin oneShot
                 => Deactivate(seen, s).constraint[s] = seen.constraint[s]
  BY DEF PtrTypeOK, Deactivate

(* Each client's wl_pointer is on the focus if that is its own and alive,    *)
(* and last_enter is there whenever there is a focus (PointerOnFocus).       *)
THEOREM PointersAreOnTheFocus == PtrSpec => []PointerOnFocus
  <1>1. PtrInit => PointerOnFocus
    BY PointerConstants DEF PtrInit, PointerOnFocus
  <1>2. PtrTypeOK /\ PointerOnFocus /\ [PtrNext]_ptrVars => PointerOnFocus'
    <2> SUFFICES ASSUME PtrTypeOK, PointerOnFocus, [PtrNext]_ptrVars PROVE PointerOnFocus'
      OBVIOUS
    <2>0. ASSUME UNCHANGED <<ptrFocus, ptrAlive, wlPointers>>,
                 seen'.on = seen.on, seen'.lastEnter = seen.lastEnter
          PROVE  PointerOnFocus'
      BY <2>0 DEF PointerOnFocus
    <2>1. ASSUME NEW f \in PtrSurface \cup {None}, PtrMotion(f) PROVE PointerOnFocus'
      BY <2>1, GrabType, MoveOn DEF PtrMotion, ptrObjects
    <2>2. ASSUME NEW b \in Button, PtrPress(b) PROVE PointerOnFocus'
      BY <2>0, <2>2 DEF PtrPress, ptrObjects
    <2>3. ASSUME NEW b \in Button, PtrRelease(b) PROVE PointerOnFocus'
      BY <2>0, <2>3, MoveOn DEF PtrRelease, ptrObjects, PtrTypeOK
    <2>4. CASE StartMove
      BY <2>4, MoveOn DEF StartMove, ptrObjects
    <2>5. CASE GestureBegin \/ GestureUpdate \/ GestureEnd
      BY <2>0, <2>5 DEF GestureBegin, GestureUpdate, GestureEnd, ptrObjects, PtrTypeOK
    <2>6. ASSUME NEW c \in Client, NewPointer(c) PROVE PointerOnFocus'
      BY <2>6, PointerConstants DEF NewPointer, PointerOnFocus, PtrTypeOK
    <2>7. ASSUME NEW c \in Client, ReleasePointer(c) PROVE PointerOnFocus'
      BY <2>7 DEF ReleasePointer, PointerOnFocus, PtrTypeOK
    <2>8. ASSUME NEW c \in Client, NewGesture(c) \/ DestroyGesture(c) PROVE PointerOnFocus'
      BY <2>0, <2>8 DEF NewGesture, DestroyGesture, PtrTypeOK
    <2>9. ASSUME NEW s \in PtrSurface, DestroyPtrSurface(s) PROVE PointerOnFocus'
      BY <2>9, PointerConstants DEF DestroyPtrSurface, PointerOnFocus, PtrTypeOK
    <2>10. ASSUME NEW s \in PtrSurface, DeactivateConstraint(s) PROVE PointerOnFocus'
      BY <2>0, <2>10, DeactivateFields DEF DeactivateConstraint, ptrObjects
    <2>11. ASSUME NEW s \in PtrSurface, NEW o \in Constraint, NEW once \in BOOLEAN,
                  NewConstraint(o, s, once) PROVE PointerOnFocus'
      BY <2>0, <2>11 DEF NewConstraint, PtrTypeOK
    <2>12. CASE ActivateConstraint
      BY <2>0, <2>12 DEF ActivateConstraint, ptrObjects, PtrTypeOK
    <2>13. ASSUME NEW o \in Constraint, DestroyConstraint(o) PROVE PointerOnFocus'
      BY <2>0, <2>13 DEF DestroyConstraint, PtrTypeOK
    <2>14. CASE UNCHANGED ptrVars
      BY <2>0, <2>14 DEF ptrVars
    <2> QED
      BY <2>1, <2>2, <2>3, <2>4, <2>5, <2>6, <2>7, <2>8, <2>9, <2>10, <2>11, <2>12, <2>13,
         <2>14 DEF PtrNext
  <1> QED BY <1>1, <1>2, PtrTypeInit, PtrTypeStep, PTL DEF PtrSpec

-----------------------------------------------------------------------------
(* A gesture is on a surface of its client, a constraint on the surface its  *)
(* object was created for, and an active constraint is in place.             *)
Placed ==
    /\ \A c \in Client : seen.inProgress[c] # None => seen.inProgress[c].client = c
    /\ \A s \in PtrSurface :
          seen.constraint[s] # None => conObjects[seen.constraint[s]] = s
    /\ \A o \in seen.active :
          conObjects[o] \in PtrSurface /\ seen.constraint[conObjects[o]] = o

FollowInv == Placed /\ FollowsFocus

LEMMA MoveFollows ==
    ASSUME PtrTypeOK, FollowInv, NEW f \in PtrSurface \cup {None}, MoveTo(f),
           UNCHANGED conObjects
    PROVE  FollowInv'
  <1> DEFINE left == IF ptrFocus = None THEN seen ELSE Leave(seen, ptrFocus)
  <1>0. seen \in SeenType
    BY DEF PtrTypeOK, SeenType
  <1>1. CASE f = ptrFocus
    BY <1>1 DEF MoveTo, Crossing, FollowInv, Placed, FollowsFocus
  <1>2. CASE f # ptrFocus
    <2>1. left \in SeenType
      BY <1>0, LeaveFields DEF PtrTypeOK
    <2>2. /\ seen'.inProgress = left.inProgress /\ seen'.active = left.active
          /\ seen'.constraint = left.constraint
      BY <1>2, <2>1, EnterFields DEF MoveTo, Crossing
    <2>3. CASE ptrFocus = None
      <3>1. left = seen /\ \A x \in PtrSurface : x # ptrFocus
        BY <2>3, PointerConstants
      <3> QED BY <2>3, <3>1, <2>2 DEF FollowInv, Placed, FollowsFocus
    <2>4. CASE ptrFocus # None
      <3>1. ptrFocus \in PtrSurface /\ ptrFocus.client \in Client
        BY <2>4, PointerConstants DEF PtrTypeOK
      <3>2. /\ left.inProgress = [seen.inProgress EXCEPT ![ptrFocus.client] = None]
            /\ left.active = seen.active \ {seen.constraint[ptrFocus]}
            /\ \A x \in PtrSurface \ {ptrFocus} : left.constraint[x] = seen.constraint[x]
            /\ left.constraint[ptrFocus] \in {None, seen.constraint[ptrFocus]}
        <4>1. left = Leave(seen, ptrFocus)
          BY <2>4
        <4> HIDE DEF left
        <4>2. /\ left.inProgress = [seen.inProgress EXCEPT ![ptrFocus.client] = None]
              /\ left.active = seen.active \ {seen.constraint[ptrFocus]}
              /\ left.constraint[ptrFocus] =
                    IF seen.constraint[ptrFocus] \in seen.active
                       /\ seen.constraint[ptrFocus] \in oneShot
                    THEN None ELSE seen.constraint[ptrFocus]
          BY <1>0, <3>1, <4>1, LeaveFields
        <4>3. \A x \in PtrSurface \ {ptrFocus} : left.constraint[x] = seen.constraint[x]
          <5> SUFFICES ASSUME NEW x \in PtrSurface \ {ptrFocus}
                       PROVE  Leave(seen, ptrFocus).constraint[x] = seen.constraint[x]
            BY <4>1
          <5> QED BY <1>0, <3>1 DEF Leave, Deactivate, SeenType
        <4> QED BY <4>2, <4>3
      <3>3. \A c \in Client : left.inProgress[c] = None
        BY <1>0, <3>1, <3>2 DEF FollowInv, Placed, FollowsFocus, SeenType
      <3>4. \A x \in PtrSurface : left.constraint[x] \notin left.active
        BY <1>0, <3>1, <3>2, PointerConstants DEF FollowInv, FollowsFocus, SeenType
      <3>5. \A x \in PtrSurface :
               left.constraint[x] # None => conObjects[left.constraint[x]] = x
        BY <3>1, <3>2 DEF FollowInv, Placed
      <3>6. left.active = {}
        <4> SUFFICES ASSUME NEW o \in left.active PROVE FALSE
          OBVIOUS
        <4>1. conObjects[o] = ptrFocus
          BY <3>2 DEF FollowInv, Placed, FollowsFocus
        <4> QED BY <3>2, <4>1 DEF FollowInv, Placed
      <3> QED BY <2>2, <3>3, <3>4, <3>5, <3>6 DEF FollowInv, Placed, FollowsFocus
    <2> QED BY <2>3, <2>4
  <1> QED BY <1>1, <1>2

LEMMA FollowStep == PtrTypeOK /\ FollowInv /\ [PtrNext]_ptrVars => FollowInv'
  <1> SUFFICES ASSUME PtrTypeOK, FollowInv, [PtrNext]_ptrVars PROVE FollowInv'
    OBVIOUS
  <1>0. ASSUME UNCHANGED <<ptrFocus, conObjects>>, seen'.constraint = seen.constraint,
               seen'.active = seen.active, seen'.inProgress = seen.inProgress
        PROVE  FollowInv'
    BY <1>0 DEF FollowInv, Placed, FollowsFocus
  <1>1. ASSUME NEW f \in PtrSurface \cup {None}, PtrMotion(f) PROVE FollowInv'
    BY <1>1, GrabType, MoveFollows DEF PtrMotion, ptrObjects, conVars
  <1>2. ASSUME NEW b \in Button, PtrPress(b) PROVE FollowInv'
    BY <1>0, <1>2 DEF PtrPress, ptrObjects, conVars
  <1>3. ASSUME NEW b \in Button, PtrRelease(b) PROVE FollowInv'
    BY <1>0, <1>3, MoveFollows DEF PtrRelease, ptrObjects, conVars, PtrTypeOK
  <1>4. CASE StartMove
    BY <1>4, MoveFollows DEF StartMove, ptrObjects, conVars
  <1>5. CASE GestureBegin \/ GestureUpdate \/ GestureEnd
    BY <1>5, PointerConstants DEF GestureBegin, GestureUpdate, GestureEnd, ptrObjects, conVars,
       PtrTypeOK, FollowInv, Placed, FollowsFocus
  <1>6. ASSUME NEW c \in Client, NewPointer(c) \/ ReleasePointer(c) \/ NewGesture(c)
        PROVE  FollowInv'
    BY <1>0, <1>6 DEF NewPointer, ReleasePointer, NewGesture, conVars, PtrTypeOK
  <1>7. ASSUME NEW c \in Client, DestroyGesture(c) PROVE FollowInv'
    BY <1>7 DEF DestroyGesture, conVars, PtrTypeOK, FollowInv, Placed, FollowsFocus
  <1>8. ASSUME NEW s \in PtrSurface, DestroyPtrSurface(s) PROVE FollowInv'
    BY <1>0, <1>8 DEF DestroyPtrSurface, conVars, PtrTypeOK
  <1>9. ASSUME NEW s \in PtrSurface, DeactivateConstraint(s) PROVE FollowInv'
    BY <1>9, DeactivateFields, PointerConstants DEF DeactivateConstraint, ptrObjects, conVars,
       PtrTypeOK, FollowInv, Placed, FollowsFocus
  <1>10. ASSUME NEW s \in PtrSurface, NEW o \in Constraint, NEW once \in BOOLEAN,
                NewConstraint(o, s, once) PROVE FollowInv'
    <2>1. o \notin seen.active /\ \A x \in PtrSurface : seen.constraint[x] # o
      BY <1>10, PointerConstants DEF NewConstraint, FollowInv, Placed, PtrTypeOK
    <2>2. /\ seen'.constraint = [seen.constraint EXCEPT ![s] = o]
          /\ seen'.active = IF s = ptrFocus THEN seen.active \cup {o} ELSE seen.active
          /\ seen'.inProgress = seen.inProgress /\ ptrFocus' = ptrFocus
          /\ conObjects' = [conObjects EXCEPT ![o] = s]
      BY <1>10 DEF NewConstraint, PtrTypeOK
    <2>3. seen.constraint[s] = None
      BY <1>10 DEF NewConstraint
    <2>4. Placed'
      BY <2>1, <2>2, <2>3, PointerConstants DEF FollowInv, Placed, PtrTypeOK
    <2>5. FollowsFocus'
      BY <2>1, <2>2 DEF FollowInv, FollowsFocus, PtrTypeOK
    <2> QED BY <2>4, <2>5 DEF FollowInv
  <1>11. CASE ActivateConstraint
    <2>1. /\ seen'.constraint = seen.constraint /\ seen'.inProgress = seen.inProgress
          /\ seen'.active = seen.active \cup {seen.constraint[ptrFocus]}
          /\ ptrFocus \in PtrSurface /\ seen.constraint[ptrFocus] # None
          /\ UNCHANGED <<ptrFocus, conObjects>>
      BY <1>11 DEF ActivateConstraint, ptrObjects, conVars, PtrTypeOK
    <2> QED BY <2>1 DEF FollowInv, Placed, FollowsFocus, PtrTypeOK
  <1>12. ASSUME NEW o \in Constraint, DestroyConstraint(o) PROVE FollowInv'
    <2> DEFINE s == conObjects[o]
    <2>1. /\ s \in PtrSurface
          /\ seen'.constraint = [seen.constraint EXCEPT ![s] = None]
          /\ seen'.active = seen.active \ {seen.constraint[s]}
          /\ seen'.inProgress = seen.inProgress /\ ptrFocus' = ptrFocus
          /\ conObjects' = [conObjects EXCEPT ![o] = None]
      BY <1>12 DEF DestroyConstraint, PtrTypeOK
    <2>2. Placed'
      BY <2>1, PointerConstants DEF FollowInv, Placed, PtrTypeOK
    <2>3. FollowsFocus'
      BY <2>1, PointerConstants DEF FollowInv, FollowsFocus, PtrTypeOK
    <2> QED BY <2>2, <2>3 DEF FollowInv
  <1>13. CASE UNCHANGED ptrVars
    BY <1>0, <1>13 DEF ptrVars
  <1> QED
    BY <1>1, <1>2, <1>3, <1>4, <1>5, <1>6, <1>7, <1>8, <1>9, <1>10, <1>11, <1>12, <1>13
       DEF PtrNext

(* Leaving a surface ends its gesture and its constraint, whatever moved the *)
(* focus (FollowsFocus).                                                     *)
THEOREM LeavingEndsConstraints == PtrSpec => []FollowsFocus
  <1>1. PtrInit => FollowInv
    BY PointerConstants DEF PtrInit, FollowInv, Placed, FollowsFocus
  <1>2. FollowInv => FollowsFocus
    BY DEF FollowInv
  <1> QED BY <1>1, <1>2, PtrTypeInit, PtrTypeStep, FollowStep, PTL DEF PtrSpec

-----------------------------------------------------------------------------
(* Selection: providers and announcements.                                   *)
(* The functions of the state have their domains; SelTypeOK leaves them out. *)
SelFunctions ==
    /\ selection = [t \in SelTarget |-> selection[t]]
    /\ announced = [d \in SelObject |-> [t \in SelTarget |-> announced[d][t]]]

(* A selection of a client is provided by a source in used_sources, so that  *)
(* the destruction of the source finds it.                                   *)
Used == \A t \in SelTarget : selection[t] \in usedSources \cup {None, Compositor}

SelInv == SelTypeOK /\ SelFunctions /\ Used

LEMMA SelInvInit == SelInit => SelInv
  BY DEF SelInit, SelInv, SelTypeOK, SelFunctions, Used

LEMMA SetSelectionKeeps ==
    ASSUME SelInv, NEW t \in SelTarget, NEW s, SetSelection(t, s),
           usedSources' \subseteq sources', sources' = sources, born' = born,
           s \in usedSources' \cup {None, Compositor}, usedSources \subseteq usedSources',
           UNCHANGED <<seatFocus, selFocus, devices>>
    PROVE  SelInv'
  <1> USE DEF SelInv
  <1>1. SelTypeOK'
    BY DEF SelTypeOK, SetSelection
  <1>2. SelFunctions'
    BY DEF SelFunctions, SetSelection, SendSelection
  <1>3. Used'
    BY DEF Used, SelFunctions, SetSelection
  <1> QED BY <1>1, <1>2, <1>3

LEMMA SelInvStep == SelInv /\ [SelNext]_selVars => SelInv'
  <1> SUFFICES ASSUME SelInv, [SelNext]_selVars PROVE SelInv'
    OBVIOUS
  <1>1. ASSUME NEW c \in Client \cup {None}, FocusClient(c) PROVE SelInv'
    BY <1>1 DEF SelInv, FocusClient, SendSelection, SelTypeOK, SelFunctions, Used
  <1>2. ASSUME NEW d \in SelObject, GetDevice(d) PROVE SelInv'
    BY <1>2 DEF SelInv, GetDevice, SelTypeOK, SelFunctions, Used
  <1>3. ASSUME NEW d \in SelObject, ReleaseDevice(d) PROVE SelInv'
    BY <1>3 DEF SelInv, ReleaseDevice, SelTypeOK, SelFunctions, Used
  <1>4. ASSUME NEW d \in SelObject, CreateSource(d) PROVE SelInv'
    BY <1>4 DEF SelInv, CreateSource, SelTypeOK, SelFunctions, Used
  <1>5. ASSUME NEW d \in SelObject, DestroySource(d) PROVE SelInv'
    <2>1. SelTypeOK'
      BY <1>5 DEF SelInv, DestroySource, UsedWithout, SelTypeOK
    <2>2. SelFunctions'
      BY <1>5 DEF SelInv, DestroySource, SendSelection, SelFunctions
    <2>3. Used'
      BY <1>5 DEF SelInv, DestroySource, UsedWithout, Held, Used
    <2> QED BY <2>1, <2>2, <2>3 DEF SelInv
  <1>6. ASSUME NEW d \in SelObject, NEW t \in SelTarget, NEW s \in {None, d},
               ClientSetSelection(d, t, s) \/ ControlSetSelection(d, t, s)
        PROVE  SelInv'
    <2>1. s = None \/ s \in sources
      BY <1>6 DEF ClientSetSelection, ControlSetSelection
    <2>2. /\ SetSelection(t, s) /\ usedSources' = usedSources \cup ({s} \ {None})
          /\ UNCHANGED <<seatFocus, selFocus, devices, sources, born>>
      BY <1>6 DEF ClientSetSelection, ControlSetSelection
    <2> QED BY <2>1, <2>2, SetSelectionKeeps DEF SelInv, SelTypeOK
  <1>7. ASSUME NEW t \in SelTarget, NEW s \in {None, Compositor}, CompositorSetSelection(t, s)
        PROVE  SelInv'
    BY <1>7, SetSelectionKeeps DEF CompositorSetSelection, SelInv, SelTypeOK
  <1>8. CASE UNCHANGED selVars
    BY <1>8 DEF selVars, SelInv, SelTypeOK, SelFunctions, Used
  <1> QED BY <1>1, <1>2, <1>3, <1>4, <1>5, <1>6, <1>7, <1>8 DEF SelNext

(* The selection's provider exists, whichever of the protocols set it and in *)
(* whatever order objects are destroyed (SelectionProvided).                 *)
THEOREM SelectionsHaveProviders == SelSpec => []SelectionProvided
  <1>1. SelInv => SelectionProvided
    BY DEF SelInv, SelTypeOK, Used, SelectionProvided
  <1> QED BY <1>1, SelInvInit, SelInvStep, PTL DEF SelSpec

-----------------------------------------------------------------------------
(* Only devices that serve one selection are told late.                      *)
LateServeOne == \A d \in late : d.kind # "control"

AnnouncedInv == LateServeOne /\ SelectionAnnounced

(* A change of the selections in T, announced to everybody, leaves everybody *)
(* told.                                                                     *)
LEMMA ChangeIsTold ==
    ASSUME SelInv, AnnouncedInv, NEW T \in SUBSET SelTarget,
           SendSelection(selection', selFocus, T, TRUE),
           \A t \in SelTarget \ T : selection'[t] = selection[t],
           late' = {d \in late : ~\E t \in T : Serves(d, t) /\ d.client = selFocus},
           UNCHANGED <<selFocus, devices>>
    PROVE  AnnouncedInv'
  <1>1. LateServeOne'
    BY DEF AnnouncedInv, LateServeOne
  <1>2. SelectionAnnounced'
    <2> SUFFICES ASSUME NEW d \in devices, NEW t \in SelTarget, Serves(d, t),
                        d.kind = "control" \/ d.client = selFocus, d \notin late'
                 PROVE  announced'[d][t] = selection'[t]
      BY DEF SelectionAnnounced
    <2>1. d \in SelObject
      BY DEF SelInv, SelTypeOK
    <2>2. CASE t \in T
      BY <2>1, <2>2 DEF SendSelection
    <2>3. CASE t \notin T
      <3>1. d \notin late
        BY <2>3 DEF AnnouncedInv, LateServeOne, Serves
      <3>2. announced'[d][t] = announced[d][t]
        BY <2>1, <2>3 DEF SendSelection
      <3> QED BY <2>3, <3>1, <3>2 DEF AnnouncedInv, SelectionAnnounced
    <2> QED BY <2>2, <2>3
  <1> QED BY <1>1, <1>2 DEF AnnouncedInv

LEMMA AnnouncedStep == SelInv /\ AnnouncedInv /\ [SelNext]_selVars => AnnouncedInv'
  <1> SUFFICES ASSUME SelInv, AnnouncedInv, [SelNext]_selVars PROVE AnnouncedInv'
    OBVIOUS
  <1>1. ASSUME NEW t \in SelTarget, NEW s, SetSelection(t, s), UNCHANGED <<selFocus, devices>>
        PROVE  AnnouncedInv'
    <2>1. \A x \in SelTarget \ {t} : selection'[x] = selection[x]
      BY <1>1 DEF SetSelection, SelInv, SelFunctions
    <2>2. late' = {d \in late : ~\E x \in {t} : Serves(d, x) /\ d.client = selFocus}
      BY <1>1 DEF SetSelection
    <2>3. SendSelection(selection', selFocus, {t}, TRUE)
      BY <1>1 DEF SetSelection
    <2>4. {t} \in SUBSET SelTarget
      OBVIOUS
    <2>5. UNCHANGED <<selFocus, devices>>
      BY <1>1
    <2> HIDE DEF SendSelection
    <2> QED BY <2>1, <2>2, <2>3, <2>4, <2>5, ChangeIsTold
  <1>2. ASSUME NEW c \in Client \cup {None}, FocusClient(c) PROVE AnnouncedInv'
    <2>1. CASE c \in {None, selFocus}
      BY <1>2, <2>1 DEF FocusClient, AnnouncedInv, LateServeOne, SelectionAnnounced
    <2>2. CASE c \notin {None, selFocus}
      <3>1. LateServeOne'
        BY <1>2, <2>2 DEF FocusClient, AnnouncedInv, LateServeOne
      <3>2. SelectionAnnounced'
        <4> SUFFICES ASSUME NEW d \in devices, NEW t \in SelTarget, Serves(d, t),
                            d.kind = "control" \/ d.client = c, d \notin late'
                     PROVE  announced'[d][t] = selection[t]
          BY <1>2, <2>2 DEF FocusClient, SelectionAnnounced
        <4>1. d \in SelObject
          BY DEF SelInv, SelTypeOK
        <4>2. CASE d.kind # "control"
          BY <1>2, <2>2, <4>1, <4>2 DEF FocusClient, SendSelection
        <4>3. CASE d.kind = "control"
          <5>1. announced'[d][t] = announced[d][t]
            BY <1>2, <2>2, <4>1, <4>3 DEF FocusClient, SendSelection
          <5>2. d \notin late
            BY <4>3 DEF AnnouncedInv, LateServeOne
          <5> QED BY <4>3, <5>1, <5>2 DEF AnnouncedInv, SelectionAnnounced
        <4> QED BY <4>2, <4>3
      <3> QED BY <3>1, <3>2 DEF AnnouncedInv
    <2> QED BY <2>1, <2>2
  <1>3. ASSUME NEW d \in SelObject, GetDevice(d) PROVE AnnouncedInv'
    <2>1. d \notin late
      BY <1>3 DEF GetDevice, SelInv, SelTypeOK
    <2> QED BY <1>3, <2>1 DEF GetDevice, AnnouncedInv, LateServeOne, SelectionAnnounced, SelInv,
               SelFunctions, SelTypeOK
  <1>4. ASSUME NEW d \in SelObject, ReleaseDevice(d) PROVE AnnouncedInv'
    BY <1>4 DEF ReleaseDevice, AnnouncedInv, LateServeOne, SelectionAnnounced, SelInv,
       SelFunctions, SelTypeOK
  <1>5. ASSUME NEW d \in SelObject, DestroySource(d) PROVE AnnouncedInv'
    <2>1. Held(d) \in SUBSET SelTarget
      BY DEF Held
    <2>2. \A x \in SelTarget \ Held(d) : selection'[x] = selection[x]
      BY <1>5 DEF DestroySource
    <2> QED BY <1>5, <2>1, <2>2, ChangeIsTold DEF DestroySource
  <1>6. ASSUME UNCHANGED <<selFocus, selection, devices, announced, late>> PROVE AnnouncedInv'
    BY <1>6 DEF AnnouncedInv, LateServeOne, SelectionAnnounced
  <1> QED
    BY <1>1, <1>2, <1>3, <1>4, <1>5, <1>6 DEF SelNext, CreateSource, ClientSetSelection,
       ControlSetSelection, CompositorSetSelection, selVars

(* Whoever is entitled to know the selection has been told it as it is       *)
(* (SelectionAnnounced).                                                     *)
THEOREM SelectionsAreTold == SelSpec => []SelectionAnnounced
  <1>1. SelInit => AnnouncedInv
    BY DEF SelInit, AnnouncedInv, LateServeOne, SelectionAnnounced
  <1>2. AnnouncedInv => SelectionAnnounced
    BY DEF AnnouncedInv
  <1> QED BY <1>1, <1>2, SelInvInit, SelInvStep, AnnouncedStep, PTL DEF SelSpec

-----------------------------------------------------------------------------
(* Popups: the tree, the explicit grab and the devices that follow it.       *)

PopupGrabType ==
    [kind : {"none", "popup", "ime", "click"}, serial : Nat, prev : Nat, focus : Target]

PopupTyped ==
    /\ life \in [Popup \cup {Root} -> {"unborn", "alive", "dead"}]
    /\ parent \in [Popup -> Popup \cup {Root, None}]
    /\ node \in [Popup -> Popup \cup {Root, None}]
    /\ unmapped \subseteq Popup /\ killed \in BOOLEAN
    /\ active \in Seq(Popup) /\ dismissed \subseteq Popup
    /\ gserial \in 0 .. MaxSerial /\ serials \in 0 .. MaxSerial /\ listed \in BOOLEAN
    /\ kbd \in [focus : Target, grab : PopupGrabType]
    /\ ptr \in [focus : Target, pending : Target, grab : PopupGrabType, pressed : BOOLEAN]

(* Popups that were given a parent; the others are nowhere.                  *)
Heard == {p \in Popup : life[p] # "unborn" /\ p \notin unmapped}

OnlyHeard ==
    /\ \A p \in Popup \ Heard : node[p] = None /\ parent[p] = None
    /\ dismissed \subseteq Heard /\ \A i \in DOMAIN active : active[i] \in Heard
    /\ \A p \in unmapped : life[p] # "unborn"

(* A popup hangs below one that is in the tree, and that is its parent.      *)
TreeClosed == \A p \in Popup : node[p] \in Popup => node[node[p]] # None

HangsByParent == \A p \in Popup : node[p] \in {None, Root, parent[p]} \/ parent[p] = None

(* The grabs that are shown hang one below the other.                        *)
NestedIn(a) ==
    \A i, j \in DOMAIN a : i < j /\ node[a[j]] # None => a[j] \in Subtree(a[i]) \cup Misplaced

TreeInv == OnlyHeard /\ TreeClosed /\ HangsByParent /\ NestedIn(active) /\ DismissedNotShown

PopupInv == PopupTyped /\ TreeInv

(* The newest of some positions.                                             *)
LEMMA LastPosition ==
    ASSUME NEW N \in Nat, NEW K \in SUBSET (1 .. N), K # {}
    PROVE  Max(K) \in K /\ \A k \in K : k <= Max(K)
  <1> DEFINE T == {N - k : k \in K}
  <1>0. \A k \in K : k \in 1 .. N /\ N - k \in Nat
    OBVIOUS
  <1>1. T \in SUBSET Nat /\ T # {}
    BY <1>0
  <1>2. PICK x \in T : \A y \in T : x <= y
    BY <1>1, LeastNatural
  <1>3. PICK m \in K : x = N - m
    BY <1>2
  <1>4. \A k \in K : m >= k
    <2> SUFFICES ASSUME NEW k \in K PROVE m >= k
      OBVIOUS
    <2>1. N - m <= N - k
      BY <1>2, <1>3
    <2> QED
      BY <1>0, <2>1
  <1>5. \E y \in K : \A k \in K : y >= k
    BY <1>3, <1>4
  <1> QED
    BY <1>5 DEF Max

(* current_grab: the newest grab whose popup is alive.                       *)
LEMMA LastAliveIs ==
    ASSUME NEW a \in Seq(Popup)
    PROVE  \/ LastAlive(a) = None /\ \A i \in DOMAIN a : life[a[i]] # "alive"
           \/ \E i \in DOMAIN a : /\ LastAlive(a) = a[i] /\ life[a[i]] = "alive"
                                  /\ \A j \in DOMAIN a : j > i => life[a[j]] # "alive"
  <1> DEFINE K == {i \in 1 .. Len(a) : IsAlive(a[i])}
             m == Max(K)
  <1>1. K \in SUBSET (1 .. Len(a)) /\ Len(a) \in Nat /\ DOMAIN a = 1 .. Len(a)
    OBVIOUS
  <1>2. \A i \in DOMAIN a : a[i] \in Popup /\ (i \in K <=> life[a[i]] = "alive")
    BY DEF IsAlive
  <1>3. LastAlive(a) = IF K # {} THEN (IF m = 0 THEN None ELSE a[m]) ELSE None
    BY DEF LastAlive, SelectLastInSeq
  <1>4. K # {} => m \in K /\ \A k \in K : k <= m
    BY <1>1, LastPosition
  <1> HIDE DEF K, m
  <1>5. CASE K = {}
    BY <1>2, <1>3, <1>5
  <1>6. CASE K # {}
    <2>1. m \in K /\ m \in DOMAIN a /\ m # 0
      <3>1. m \in K
        BY <1>4, <1>6
      <3>2. \A k \in K : k \in 1 .. Len(a)
        BY <1>1
      <3>3. m \in 1 .. Len(a)
        BY <3>1, <3>2
      <3> QED
        BY <1>1, <3>1, <3>3
    <2>2. LastAlive(a) = a[m] /\ life[a[m]] = "alive"
      BY <1>2, <1>3, <1>6, <2>1
    <2>3. \A j \in DOMAIN a : j > m => life[a[j]] # "alive"
      <3> SUFFICES ASSUME NEW j \in DOMAIN a, j > m, life[a[j]] = "alive" PROVE FALSE
        OBVIOUS
      <3>1. j \in K /\ j \in Int /\ m \in Int
        BY <1>1, <1>2, <2>1
      <3> QED
        BY <1>4, <1>6, <3>1
    <2> QED
      BY <2>1, <2>2, <2>3
  <1> QED
    BY <1>5, <1>6

LEMMA LastAliveNext ==
    ASSUME NEW a \in Seq(Popup), active' = a
    PROVE  \/ LastAlive(active)' = None /\ \A i \in DOMAIN a : life'[a[i]] # "alive"
           \/ \E i \in DOMAIN a : /\ LastAlive(active)' = a[i] /\ life'[a[i]] = "alive"
                                  /\ \A j \in DOMAIN a : j > i => life'[a[j]] # "alive"
  <1> DEFINE K == {i \in 1 .. Len(a) : a[i] \in Popup \cup {Root} => life'[a[i]] = "alive"}
             m == Max(K)
  <1>1. K \in SUBSET (1 .. Len(a)) /\ Len(a) \in Nat /\ DOMAIN a = 1 .. Len(a)
    OBVIOUS
  <1>2. \A i \in DOMAIN a : a[i] \in Popup /\ (i \in K <=> life'[a[i]] = "alive")
    OBVIOUS
  <1>3. LastAlive(active)' = IF K # {} THEN (IF m = 0 THEN None ELSE a[m]) ELSE None
    BY DEF LastAlive, SelectLastInSeq, IsAlive
  <1>4. K # {} => m \in K /\ \A k \in K : k <= m
    BY <1>1, LastPosition
  <1> HIDE DEF K, m
  <1>5. CASE K = {}
    BY <1>2, <1>3, <1>5
  <1>6. CASE K # {}
    <2>1. m \in K /\ m \in DOMAIN a /\ m # 0
      <3>1. m \in K
        BY <1>4, <1>6
      <3>2. \A k \in K : k \in 1 .. Len(a)
        BY <1>1
      <3>3. m \in 1 .. Len(a)
        BY <3>1, <3>2
      <3> QED
        BY <1>1, <3>1, <3>3
    <2>2. LastAlive(active)' = a[m] /\ life'[a[m]] = "alive"
      BY <1>2, <1>3, <1>6, <2>1
    <2>3. \A j \in DOMAIN a : j > m => life'[a[j]] # "alive"
      <3> SUFFICES ASSUME NEW j \in DOMAIN a, j > m, life'[a[j]] = "alive" PROVE FALSE
        OBVIOUS
      <3>1. j \in K /\ j \in Int /\ m \in Int
        BY <1>1, <1>2, <2>1
      <3> QED
        BY <1>4, <1>6, <3>1
    <2> QED
      BY <2>1, <2>2, <2>3
  <1> QED
    BY <1>5, <1>6

(* cleanup: the living grabs stay, in their order.                           *)
LEMMA LivingIs ==
    ASSUME NEW a \in Seq(Popup)
    PROVE  /\ Living(a) \in Seq(Popup)
           /\ \E m : /\ \A j \in DOMAIN Living(a) :
                          /\ m[j] \in DOMAIN a /\ Living(a)[j] = a[m[j]]
                          /\ life[a[m[j]]] = "alive"
                     /\ \A j, k \in DOMAIN Living(a) : j < k => m[j] < m[k]
                     /\ \A i \in DOMAIN a : life[a[i]] = "alive"
                          => \E j \in DOMAIN Living(a) : m[j] = i
  <1> DEFINE K == {i \in DOMAIN a : IsAlive(a[i])}
             s == Select(a, K)
  <1>1. K \in SUBSET DOMAIN a /\ Living(a) = s
    BY DEF Living
  <1>2. \A i \in DOMAIN a : i \in K <=> life[a[i]] = "alive"
    BY DEF IsAlive
  <1>3. /\ s \in Seq(Popup)
        /\ \E m : /\ Enumerates(m, Len(s), K)
                  /\ \A j \in DOMAIN s : s[j] = a[m[j]]
    BY <1>1, SelectIsSubsequence
  <1> HIDE DEF K, s
  <1>4. PICK m : Enumerates(m, Len(s), K) /\ \A j \in DOMAIN s : s[j] = a[m[j]]
    BY <1>3
  <1>5. DOMAIN s = 1 .. Len(s)
    BY <1>3
  <1>6. \A j \in DOMAIN s : m[j] \in K /\ s[j] = a[m[j]]
    BY <1>4, <1>5 DEF Enumerates
  <1>7. \A j \in DOMAIN s : m[j] \in DOMAIN a /\ life[a[m[j]]] = "alive"
    BY <1>1, <1>2, <1>6
  <1>8. \A j, k \in DOMAIN s : j < k => m[j] < m[k]
    BY <1>4, <1>5 DEF Enumerates
  <1>9. \A i \in DOMAIN a : life[a[i]] = "alive" => \E j \in DOMAIN s : m[j] = i
    BY <1>2, <1>4, <1>5 DEF Enumerates
  <1>10. /\ \A j \in DOMAIN s : m[j] \in DOMAIN a /\ s[j] = a[m[j]] /\ life[a[m[j]]] = "alive"
         /\ \A j, k \in DOMAIN s : j < k => m[j] < m[k]
         /\ \A i \in DOMAIN a : life[a[i]] = "alive" => \E j \in DOMAIN s : m[j] = i
    BY ONLY <1>6, <1>7, <1>8, <1>9
  <1>11. \E n : /\ \A j \in DOMAIN s :
                       n[j] \in DOMAIN a /\ s[j] = a[n[j]] /\ life[a[n[j]]] = "alive"
                /\ \A j, k \in DOMAIN s : j < k => n[j] < n[k]
                /\ \A i \in DOMAIN a : life[a[i]] = "alive" => \E j \in DOMAIN s : n[j] = i
    <2> WITNESS m
    <2> QED
      BY <1>10
  <1> QED
    BY ONLY <1>1, <1>3, <1>11, SMTT(30)

(* The grab that is current stays so when the dead ones are dropped.         *)
LEMMA LivingLast ==
    ASSUME NEW a \in Seq(Popup), PopupTyped
    PROVE  LastAlive(Living(a)) = LastAlive(a)
  <1>1. Living(a) \in Seq(Popup)
    BY LivingIs
  <1>2. PICK m : /\ \A j \in DOMAIN Living(a) :
                          /\ m[j] \in DOMAIN a /\ Living(a)[j] = a[m[j]]
                          /\ life[a[m[j]]] = "alive"
                 /\ \A j, k \in DOMAIN Living(a) : j < k => m[j] < m[k]
                 /\ \A i \in DOMAIN a : life[a[i]] = "alive"
                          => \E j \in DOMAIN Living(a) : m[j] = i
    BY LivingIs
  <1> DEFINE b == Living(a)
  <1>3. /\ b \in Seq(Popup) /\ DOMAIN b = 1 .. Len(b) /\ DOMAIN a = 1 .. Len(a)
        /\ Len(a) \in Nat /\ Len(b) \in Nat
    BY <1>1
  <1> HIDE DEF b
  <1>4. \/ LastAlive(b) = None /\ \A i \in DOMAIN b : life[b[i]] # "alive"
        \/ \E i \in DOMAIN b : /\ LastAlive(b) = b[i] /\ life[b[i]] = "alive"
                               /\ \A j \in DOMAIN b : j > i => life[b[j]] # "alive"
    BY <1>3, LastAliveIs
  <1>5. CASE LastAlive(a) = None /\ \A i \in DOMAIN a : life[a[i]] # "alive"
    <2>1. \A j \in DOMAIN b : FALSE
      BY <1>2, <1>5 DEF b
    <2> QED
      BY <1>4, <1>5, <2>1 DEF b
  <1>6. ASSUME NEW i \in DOMAIN a, LastAlive(a) = a[i], life[a[i]] = "alive",
               \A j \in DOMAIN a : j > i => life[a[j]] # "alive"
        PROVE  LastAlive(b) = LastAlive(a)
    <2>1. PICK k \in DOMAIN b : m[k] = i
      BY <1>2, <1>6 DEF b
    <2>2. b[k] = a[i]
      BY <1>2, <2>1 DEF b
    <2>3. \A j \in DOMAIN b : life[b[j]] = "alive" /\ j <= k
      <3> SUFFICES ASSUME NEW j \in DOMAIN b PROVE life[b[j]] = "alive" /\ j <= k
        OBVIOUS
      <3>1. life[b[j]] = "alive" /\ m[j] \in DOMAIN a /\ life[a[m[j]]] = "alive"
        BY <1>2 DEF b
      <3>2. ~ (m[j] > i)
        BY <1>6, <3>1
      <3>3. k < j => m[k] < m[j]
        BY <1>2 DEF b
      <3> QED
        BY <1>3, <2>1, <3>1, <3>2, <3>3
    <2>4. PICK l \in DOMAIN b : /\ LastAlive(b) = b[l]
                                /\ \A j \in DOMAIN b : j > l => life[b[j]] # "alive"
      BY <1>4, <2>3
    <2>5. l = k
      BY <1>3, <2>3, <2>4
    <2> QED
      BY <1>6, <2>2, <2>4, <2>5
  <1> QED
    BY <1>5, <1>6, LastAliveIs DEF b

(* The tree loses the popups in gone, with all below them, and may win some. *)
TreeStep(gone) ==
    /\ gone \subseteq Popup
    /\ \A r \in Popup : node[r] \in gone => r \in gone
    /\ \A r \in Popup : r \notin gone /\ node[r] # None => node'[r] = node[r]
    /\ \A r \in Popup : node[r] = Root /\ parent[r] # Root => parent'[r] # Root

LEMMA SubtreeSelf == ASSUME NEW p \in Popup PROVE p \in Subtree(p)
  BY DEF Subtree

LEMMA SubtreeClosed ==
    ASSUME NEW p, NEW r \in Popup, node[r] \in Subtree(p)
    PROVE  r \in Subtree(p)
  BY DEF Subtree

LEMMA SubtreeBelow ==
    ASSUME NEW p, NEW q \in Subtree(p), NEW x \in Subtree(q)
    PROVE  x \in Subtree(p)
  <1> DEFINE S == Subtree(p)
  <1>1. S \in SUBSET Popup
    BY DEF Subtree
  <1>2. q \in S /\ \A r \in Popup : node[r] \in S => r \in S
    BY SubtreeClosed
  <1>3. \A T \in SUBSET Popup : (q \in T /\ \A r \in Popup : node[r] \in T => r \in T) => x \in T
    BY DEF Subtree
  <1> HIDE DEF S
  <1>4. x \in S
    BY <1>1, <1>2, <1>3
  <1> QED
    BY <1>4 DEF S

(* Whoever stays in the tree stays below the same popups.                    *)
LEMMA SubtreeKept ==
    ASSUME NEW gone, TreeStep(gone), NEW a \in Popup, NEW x \in Subtree(a), x \notin gone
    PROVE  x \in Subtree(a)'
  <1>1. x \in Popup
    BY DEF Subtree
  <1>2. ASSUME NEW S \in SUBSET Popup, a \in S, \A r \in Popup : node'[r] \in S => r \in S
        PROVE  x \in S
    <2> DEFINE T == S \cup gone
    <2>1. T \in SUBSET Popup /\ a \in T
      BY <1>2 DEF TreeStep
    <2>2. ASSUME NEW r \in Popup, node[r] \in T PROVE r \in T
      <3>1. CASE node[r] \in gone
        BY <3>1 DEF TreeStep
      <3>2. CASE node[r] \in S /\ r \notin gone
        <4>1. node[r] # None
          BY <3>2, PopupConstants
        <4>2. node'[r] \in S
          BY <3>2, <4>1 DEF TreeStep
        <4> QED
          BY <1>2, <4>2
      <3> QED
        BY <2>2, <3>1, <3>2
    <2>3. \A U \in SUBSET Popup : (a \in U /\ \A r \in Popup : node[r] \in U => r \in U) => x \in U
      BY DEF Subtree
    <2> HIDE DEF T
    <2>4. x \in T
      BY <2>1, <2>2, <2>3
    <2> QED
      BY <2>4 DEF T
  <1> QED
    BY <1>1, <1>2 DEF Subtree

LEMMA MisplacedKept ==
    ASSUME NEW gone, TreeStep(gone), NEW x \in Misplaced, x \notin gone
    PROVE  x \in Misplaced'
  <1>1. PICK q \in Popup : node[q] = Root /\ parent[q] # Root /\ x \in Subtree(q)
    BY DEF Misplaced
  <1>2. q \notin gone
    <2> SUFFICES ASSUME q \in gone PROVE FALSE
      OBVIOUS
    <2>1. gone \in SUBSET Popup /\ \A r \in Popup : node[r] \in gone => r \in gone
      BY DEF TreeStep
    <2> QED
      BY <1>1, <2>1 DEF Subtree
  <1>3. node'[q] = Root /\ parent'[q] # Root
    BY <1>1, <1>2, PopupConstants DEF TreeStep
  <1>4. x \in Subtree(q)'
    BY <1>1, SubtreeKept
  <1> QED
    BY <1>3, <1>4 DEF Misplaced

LEMMA MisplacedClosed ==
    ASSUME NEW r \in Popup, node[r] \in Misplaced
    PROVE  r \in Misplaced
  <1>1. PICK q \in Popup : node[q] = Root /\ parent[q] # Root /\ node[r] \in Subtree(q)
    BY DEF Misplaced
  <1>2. r \in Subtree(q)
    BY <1>1, SubtreeClosed
  <1> QED
    BY <1>1, <1>2 DEF Misplaced

(* dismiss_popup and cleanup take whole subtrees.                            *)
LEMMA DismissStep ==
    ASSUME NEW gone, gone \subseteq Popup, \A r \in Popup : node[r] \in gone => r \in gone,
           node' = Without(gone), UNCHANGED parent
    PROVE  /\ TreeStep(gone)
           /\ \A r \in Popup : node'[r] = IF r \in gone THEN None ELSE node[r]
  BY DEF TreeStep, Without

LEMMA FoundStep ==
    ASSUME NEW p, node' = Without(Found(p)), UNCHANGED parent
    PROVE  /\ TreeStep(Found(p))
           /\ \A r \in Popup : node'[r] = IF r \in Found(p) THEN None ELSE node[r]
  <1>1. Found(p) \subseteq Popup
    BY DEF Found, Subtree
  <1>2. \A r \in Popup : node[r] \in Found(p) => r \in Found(p)
    BY SubtreeClosed DEF Found
  <1> QED
    BY <1>1, <1>2, DismissStep

(* A popup that is not in the tree has nobody below it.                      *)
LEMMA NobodyBelow ==
    ASSUME TreeClosed, NEW p \in Popup, node[p] = None
    PROVE  Subtree(p) \subseteq {p}
  <1>1. {p} \in SUBSET Popup /\ \A r \in Popup : node[r] \in {p} => r \in {p}
    BY DEF TreeClosed
  <1> QED
    BY <1>1 DEF Subtree

(* What a step of the tree leaves of the invariant.                          *)
LEMMA NestedKept ==
    ASSUME NEW gone, TreeStep(gone), NEW a \in Seq(Popup), NestedIn(a),
           NEW b \in Seq(Popup), NEW m,
           \A j \in DOMAIN b : m[j] \in DOMAIN a /\ b[j] = a[m[j]],
           \A j, k \in DOMAIN b : j < k => m[j] < m[k],
           \A j \in DOMAIN b : node'[b[j]] # None => b[j] \notin gone /\ node[b[j]] # None,
           active' = b
    PROVE  NestedIn(active)'
  <1> SUFFICES ASSUME NEW i \in DOMAIN b, NEW j \in DOMAIN b, i < j, node'[b[j]] # None
               PROVE  b[j] \in Subtree(b[i])' \/ b[j] \in Misplaced'
    BY DEF NestedIn
  <1>1. b[j] \in Subtree(b[i]) \cup Misplaced
    BY DEF NestedIn
  <1>2. b[i] \in Popup /\ b[j] \notin gone
    OBVIOUS
  <1> QED
    BY <1>1, <1>2, SubtreeKept, MisplacedKept

-----------------------------------------------------------------------------
KbdState == [focus : Target, grab : PopupGrabType]
PtrState == [focus : Target, pending : Target, grab : PopupGrabType, pressed : BOOLEAN]

LEMMA KbdStates ==
    /\ NoGrab \in PopupGrabType
    /\ \A k \in KbdState : \A f \in Target : \A a : KbdSetFocus(k, a, f) \in KbdState
    /\ \A k \in KbdState : \A g : UnsetKeyboardGrab(k, g) \in KbdState
  <1>1. NoGrab \in PopupGrabType
    BY DEF NoGrab, PopupGrabType, Target
  <1>2. ASSUME NEW k \in KbdState, NEW f \in Target, NEW a
        PROVE  KbdSetFocus(k, a, f) \in KbdState
    <2>1. [k EXCEPT !.focus = f] \in KbdState
      BY DEF KbdState
    <2>2. [focus |-> f, grab |-> NoGrab] \in KbdState
      BY <1>1 DEF KbdState
    <2> QED
      BY <2>1, <2>2 DEF KbdSetFocus
  <1>3. ASSUME NEW k \in KbdState, NEW g PROVE UnsetKeyboardGrab(k, g) \in KbdState
    <2>1. [focus |-> Root, grab |-> NoGrab] \in KbdState
      BY <1>1 DEF KbdState, Target
    <2> QED
      BY <2>1 DEF UnsetKeyboardGrab
  <1> QED
    BY <1>1, <1>2, <1>3

LEMMA CurrentGrabTyped ==
    ASSUME NEW a \in Seq(Popup)
    PROVE  LastAlive(a) \in Popup \cup {None} /\ CurrentGrab(a) \in Popup \cup {Root}
  <1>1. LastAlive(a) \in Popup \cup {None}
    BY LastAliveIs
  <1> QED
    BY <1>1 DEF CurrentGrab

(* The lists and the tree an ungrab leaves.                                  *)
ListsTyped ==
    /\ node' \in [Popup -> Popup \cup {Root, None}]
    /\ active' \in Seq(Popup) /\ dismissed' \subseteq Popup

LEMMA UngrabTyped ==
    ASSUME PopupTyped, NEW p, NEW gone \in SUBSET Popup, NEW rest \in Seq(Popup),
           NEW d \in SUBSET Popup, Ungrab(p, gone, rest, d)
    PROVE  ListsTyped
  <1>1. Without(Found(p)) \in [Popup -> Popup \cup {Root, None}]
    BY DEF Without, PopupTyped
  <1>2. <<>> \in Seq(Popup)
    OBVIOUS
  <1> QED
    BY <1>1, <1>2, ZenonT(60) DEF Ungrab, ListsTyped, PopupTyped

LEMMA MembersOf == ASSUME NEW a \in Seq(Popup) PROVE ToSet(a) \in SUBSET Popup
  BY DEF ToSet

LEMMA UngrabAllTyped ==
    ASSUME PopupTyped, NEW a \in Seq(Popup), NEW d \in SUBSET Popup, UngrabAll(a, d)
    PROVE  ListsTyped
  <1>1. CASE a = <<>>
    BY <1>1 DEF UngrabAll, ListsTyped, PopupTyped
  <1>2. CASE a # <<>>
    <2>1. ToSet(a) \in SUBSET Popup /\ <<>> \in Seq(Popup) /\ Ungrab(a[1], ToSet(a), <<>>, d)
      BY <1>2, MembersOf DEF UngrabAll
    <2> QED
      BY <2>1, UngrabTyped
  <1> QED
    BY <1>1, <1>2

LEMMA InstallTyped ==
    ASSUME PopupTyped, NEW p \in Popup, NEW a \in Seq(Popup), NEW d \in SUBSET Popup,
           NEW g \in PopupGrabType, InstallGrab(p, a, d, g)
    PROVE  ListsTyped /\ kbd' \in KbdState /\ ptr' \in PtrState
  <1> DEFINE k == [focus |-> KbdSetFocus(kbd, a, p).focus, grab |-> g]
             mine(h) == h = NoGrab \/ h.serial \in {g.serial, g.prev}
  <1>1. kbd \in KbdState /\ ptr \in PtrState /\ p \in Target
    BY DEF PopupTyped, KbdState, PtrState, Target
  <1>2. KbdSetFocus(kbd, a, p) \in KbdState
    BY <1>1, KbdStates
  <1>3. k \in KbdState
    BY <1>2 DEF KbdState
  <1>4. UnsetKeyboardGrab(k, ptr.grab) \in KbdState
    BY <1>3, KbdStates
  <1>5. [ptr EXCEPT !.grab = g] \in PtrState
    BY <1>1 DEF PtrState
  <1>6. \/ UngrabAll(a, d) /\ UNCHANGED <<kbd, ptr>>
        \/ UngrabAll(a, d) /\ kbd' = k /\ UNCHANGED ptr
        \/ /\ kbd' = UnsetKeyboardGrab(k, ptr.grab) /\ ptr' = [ptr EXCEPT !.grab = g]
           /\ active' = a /\ dismissed' = d /\ UNCHANGED node
    BY DEF InstallGrab
  <1> HIDE DEF k
  <1>7. CASE UngrabAll(a, d)
    BY <1>1, <1>3, <1>4, <1>5, <1>6, <1>7, UngrabAllTyped
  <1>8. CASE active' = a /\ dismissed' = d /\ UNCHANGED node
    BY <1>1, <1>3, <1>4, <1>5, <1>6, <1>8 DEF ListsTyped, PopupTyped
  <1> QED
    BY <1>6, <1>7, <1>8

(* The grab anvil installs for a popup.                                      *)
PopupGrabOf(s) ==
    [kind |-> "popup", serial |-> s, focus |-> Root, prev |-> IF gserial = 0 THEN s ELSE gserial]

(* What GrabPopup comes to.                                                  *)
LEMMA GrabPopupIs ==
    ASSUME PopupTyped, NEW p \in Popup, NEW s \in 1 .. MaxSerial, GrabPopup(p, s)
    PROVE  /\ life[p] = "alive" /\ life[Root] = "alive" /\ p \in Rooted \ dismissed
           /\ s \in 1 .. serials /\ (ReuseSerials \/ s > gserial)
           /\ UNCHANGED <<life, parent, unmapped, serials>> /\ listed' \in BOOLEAN
           /\ \/ /\ LastAlive(active) \in {None, parent[p]} /\ gserial' = s /\ UNCHANGED killed
                 /\ InstallGrab(p, Append(Living(active), p), {q \in dismissed : IsAlive(q)},
                                PopupGrabOf(s))
              \/ /\ node' = Without(Found(p)) /\ active' = Living(active)
                 /\ dismissed' = {q \in dismissed : IsAlive(q)}
                 /\ UNCHANGED <<killed, gserial, kbd, ptr>>
              \/ /\ killed' = TRUE /\ active' = Living(active)
                 /\ dismissed' = {q \in dismissed : IsAlive(q)}
                 /\ UNCHANGED <<node, gserial, kbd, ptr>>
  BY DEF GrabPopup, PopupGrabOf, PopupTyped

LEMMA GrabTyped ==
    ASSUME PopupTyped, NEW p \in Popup, NEW s \in 1 .. MaxSerial, GrabPopup(p, s)
    PROVE  PopupTyped'
  <1>1. Living(active) \in Seq(Popup)
    BY LivingIs DEF PopupTyped
  <1>2. Append(Living(active), p) \in Seq(Popup)
    BY <1>1
  <1> DEFINE kept == {q \in dismissed : IsAlive(q)}
  <1>3. kept \in SUBSET Popup
    BY DEF PopupTyped
  <1>4. PopupGrabOf(s) \in PopupGrabType
    BY PopupConstants DEF PopupGrabOf, PopupGrabType, PopupTyped, Target
  <1>5. Without(Found(p)) \in [Popup -> Popup \cup {Root, None}]
    BY DEF Without, PopupTyped
  <1>6. life' = life /\ parent' = parent /\ unmapped' = unmapped /\ serials' = serials
        /\ listed' \in BOOLEAN
    BY GrabPopupIs
  <1>7. ListsTyped /\ kbd' \in KbdState /\ ptr' \in PtrState /\ gserial' \in 0 .. MaxSerial
        /\ killed' \in BOOLEAN
    <2>1. CASE InstallGrab(p, Append(Living(active), p), kept, PopupGrabOf(s)) /\ gserial' = s /\ UNCHANGED killed
      <3>1. ListsTyped /\ kbd' \in KbdState /\ ptr' \in PtrState
        BY <1>2, <1>3, <1>4, <2>1, InstallTyped
      <3>2. gserial' \in 0 .. MaxSerial
        BY <2>1, PopupConstants
      <3> QED
        BY <2>1, <3>1, <3>2 DEF PopupTyped
    <2>2. CASE /\ node' = Without(Found(p)) \/ node' = node
               /\ active' = Living(active) /\ dismissed' = kept
               /\ killed' \in {killed, TRUE} /\ UNCHANGED <<gserial, kbd, ptr>>
      BY <1>1, <1>3, <1>5, <2>2 DEF ListsTyped, PopupTyped, KbdState, PtrState
    <2> QED
      BY <2>1, <2>2, GrabPopupIs
  <1> QED
    BY <1>6, <1>7 DEF PopupTyped, ListsTyped, KbdState, PtrState

(* The steps of the devices that leave the tree and the lists alone.         *)
DeviceStep ==
    \/ \E f \in Target : SetKeyboardFocus(f)
    \/ \E f \in {Root, Other} : PointerMotion(f)
    \/ KeyInput \/ ImeGrab \/ ImeRelease \/ PointerRelease

LEMMA DeviceStepIs == DeviceStep => UNCHANGED <<clientVars, grabVars, serials>>
  BY DEF DeviceStep, SetKeyboardFocus, PointerMotion, KeyInput, ImeGrab, ImeRelease,
     PointerRelease

LEMMA DeviceTyped ==
    ASSUME PopupTyped, DeviceStep
    PROVE  PopupTyped'
  <1>1. kbd \in KbdState /\ ptr \in PtrState /\ active \in Seq(Popup)
    BY DEF PopupTyped, KbdState, PtrState
  <1>2. UNCHANGED <<clientVars, grabVars, serials>>
    BY DeviceStepIs
  <1>3. ASSUME NEW f \in Target, SetKeyboardFocus(f)
        PROVE  kbd' \in KbdState /\ ptr' \in PtrState
    BY <1>1, <1>3, KbdStates DEF SetKeyboardFocus
  <1>4. ASSUME NEW f \in {Root, Other}, PointerMotion(f)
        PROVE  kbd' \in KbdState /\ ptr' \in PtrState
    <2>1. kbd' \in {kbd, UnsetKeyboardGrab(kbd, ptr.grab)}
      BY <1>4 DEF PointerMotion
    <2>2. UnsetKeyboardGrab(kbd, ptr.grab) \in KbdState
      BY <1>1, KbdStates
    <2>3. f \in Target /\ ptr.grab.focus \in Target /\ None \in Target
      BY <1>1 DEF Target, PtrState, PopupGrabType
    <2>4. \E x \in {f, ptr.grab.focus, None} : \E g \in {ptr.grab, NoGrab} :
             ptr' = [ptr EXCEPT !.pending = f, !.focus = x, !.grab = g]
      BY <1>4 DEF PointerMotion
    <2>5. ptr' \in PtrState
      BY <1>1, <2>3, <2>4, KbdStates DEF PtrState
    <2> QED
      BY <1>1, <2>1, <2>2, <2>5
  <1>5. ASSUME KeyInput PROVE kbd' \in KbdState /\ ptr' \in PtrState
    <2>1. CurrentGrab(active) \in Target
      BY <1>1, CurrentGrabTyped DEF Target
    <2>2. \/ kbd' = kbd
          \/ kbd' = [kbd EXCEPT !.grab = NoGrab]
          \/ \E g \in {NoGrab, kbd.grab} : kbd' = [focus |-> CurrentGrab(active), grab |-> g]
      BY <1>5 DEF KeyInput, KbdInput
    <2>3. kbd' \in KbdState
      BY <1>1, <2>1, <2>2, KbdStates DEF KbdState
    <2> QED
      BY <1>1, <1>5, <2>3 DEF KeyInput
  <1>6. ASSUME ImeGrab PROVE kbd' \in KbdState /\ ptr' \in PtrState
    <2> DEFINE g == [NoGrab EXCEPT !.kind = "ime", !.serial = MaxSerial + 1]
    <2>1. g \in PopupGrabType
      <3>1. NoGrab \in PopupGrabType /\ MaxSerial + 1 \in Nat
        BY PopupConstants, KbdStates
      <3>2. [NoGrab EXCEPT !.kind = "ime"] \in PopupGrabType
        BY <3>1 DEF PopupGrabType
      <3>3. [[NoGrab EXCEPT !.kind = "ime"] EXCEPT !.serial = MaxSerial + 1] \in PopupGrabType
        BY <3>1, <3>2 DEF PopupGrabType
      <3>4. g = [[NoGrab EXCEPT !.kind = "ime"] EXCEPT !.serial = MaxSerial + 1]
        OBVIOUS
      <3> QED
        BY <3>3, <3>4
    <2>2. kbd' = [kbd EXCEPT !.grab = g] /\ ptr' = ptr
      BY <1>6 DEF ImeGrab
    <2> HIDE DEF g
    <2> QED
      BY <1>1, <2>1, <2>2 DEF KbdState
  <1>7. ASSUME ImeRelease PROVE kbd' \in KbdState /\ ptr' \in PtrState
    BY <1>1, <1>7, KbdStates DEF ImeRelease, KbdState
  <1>8. ASSUME PointerRelease PROVE kbd' \in KbdState /\ ptr' \in PtrState
    <2>1. kbd' \in {kbd, UnsetKeyboardGrab(kbd, ptr.grab)}
      BY <1>8 DEF PointerRelease
    <2>2. UnsetKeyboardGrab(kbd, ptr.grab) \in KbdState
      BY <1>1, KbdStates
    <2>3. \E x \in {ptr.pending, ptr.focus} : \E g \in {ptr.grab, NoGrab} :
             ptr' = [ptr EXCEPT !.pressed = FALSE, !.focus = x, !.grab = g]
      BY <1>8 DEF PointerRelease
    <2>4. ptr' \in PtrState
      BY <1>1, <2>3, KbdStates DEF PtrState
    <2> QED
      BY <1>1, <2>1, <2>2, <2>4
  <1>9. kbd' \in KbdState /\ ptr' \in PtrState
    BY <1>3, <1>4, <1>5, <1>6, <1>7, <1>8 DEF DeviceStep
  <1> QED
    BY <1>2, <1>9 DEF PopupTyped, KbdState, PtrState, clientVars, grabVars

LEMMA PressTyped ==
    ASSUME PopupTyped, PointerPress
    PROVE  PopupTyped'
  <1>1. kbd \in KbdState /\ ptr \in PtrState
    BY DEF PopupTyped, KbdState, PtrState
  <1>2. UngrabAll(active, dismissed) \/ UNCHANGED <<active, dismissed, node>>
    BY DEF PointerPress
  <1>3. ListsTyped
    BY <1>2, UngrabAllTyped DEF PopupTyped, ListsTyped
  <1>4. kbd' \in {kbd, UnsetKeyboardGrab(kbd, ptr.grab)}
    BY DEF PointerPress
  <1>5. kbd' \in KbdState
    BY <1>1, <1>4, KbdStates
  <1>6. serials' \in 0 .. MaxSerial
    BY PopupConstants DEF PointerPress, PopupTyped
  <1> DEFINE click == [kind |-> "click", serial |-> serials', prev |-> serials', focus |-> ptr.focus]
  <1>7. click \in PopupGrabType
    BY <1>1, <1>6, PopupConstants DEF PopupGrabType, PtrState
  <1>8. \E x \in {ptr.pending, ptr.focus} : \E g \in {ptr.grab, NoGrab, click} :
             ptr' = [ptr EXCEPT !.pressed = TRUE, !.focus = x, !.grab = g]
    <2>1. \/ ptr' = [ptr EXCEPT !.pressed = TRUE, !.focus = ptr.pending, !.grab = NoGrab]
          \/ ptr' = [ptr EXCEPT !.pressed = TRUE]
          \/ ptr' = [ptr EXCEPT !.pressed = TRUE, !.grab = click]
      BY DEF PointerPress
    <2> HIDE DEF click
    <2> QED
      BY <1>1, <2>1 DEF PtrState
  <1> HIDE DEF click
  <1>9. ptr' \in PtrState
    BY <1>1, <1>7, <1>8, KbdStates DEF PtrState
  <1>10. UNCHANGED <<life, parent, unmapped, killed, gserial, listed>>
    BY DEF PointerPress
  <1> QED
    BY <1>3, <1>5, <1>6, <1>9, <1>10 DEF PopupTyped, ListsTyped, KbdState, PtrState

LEMMA PopupTypedStep ==
    ASSUME PopupTyped, [PopupNext]_popupVars
    PROVE  PopupTyped'
  <1>1. ASSUME NEW p \in Popup, NEW par \in Popup \cup {Root, None}, TrackPopup(p, par)
        PROVE  PopupTyped'
    <2>1. Under(par) \in Popup \cup {Root, None}
      BY DEF Under
    <2> QED
      BY <1>1, <2>1 DEF TrackPopup, PopupTyped, grabVars
  <1>2. ASSUME NEW p \in Popup, CommitUnmapped(p) \/ UnmapPopup(p) \/ DestroyPopup(p)
        PROVE  PopupTyped'
    BY <1>2 DEF CommitUnmapped, UnmapPopup, DestroyPopup, PopupTyped, grabVars
  <1>3. CASE DestroyRoot
    <2>1. life' \in [Popup \cup {Root} -> {"unborn", "alive", "dead"}]
      BY <1>3 DEF DestroyRoot, PopupTyped
    <2> QED
      BY <1>3, <2>1 DEF DestroyRoot, PopupTyped, grabVars
  <1>4. CASE UngrabTopmost
    <2>1. active \in Seq(Popup) /\ active # <<>>
      BY <1>4 DEF UngrabTopmost, PopupTyped
    <2>2. Last(active) \in Popup /\ Front(active) \in Seq(Popup)
      BY <2>1 DEF Last, Front
    <2>3. Ungrab(Last(active), {Last(active)}, Front(active), dismissed)
      BY <1>4 DEF UngrabTopmost
    <2>4. {Last(active)} \in SUBSET Popup /\ dismissed \in SUBSET Popup
      BY <2>2 DEF PopupTyped
    <2>5. ListsTyped
      BY <2>2, <2>3, <2>4, UngrabTyped
    <2> QED
      BY <1>4, <2>5 DEF UngrabTopmost, ListsTyped, PopupTyped
  <1>5. CASE Cleanup
    <2>1. Living(active) \in Seq(Popup)
      BY LivingIs DEF PopupTyped
    <2>2. node' \in [Popup -> Popup \cup {Root, None}]
      BY <1>5 DEF Cleanup, Without, PopupTyped
    <2>3. active' \in Seq(Popup) /\ dismissed' \subseteq Popup /\ listed' \in BOOLEAN
      BY <1>5, <2>1 DEF Cleanup, PopupTyped
    <2>4. killed' \in BOOLEAN /\ unmapped' \subseteq Popup
      BY <1>5 DEF Cleanup, PopupTyped
    <2> QED
      BY <1>5, <2>2, <2>3, <2>4 DEF Cleanup, PopupTyped
  <1>6. CASE UNCHANGED popupVars
    BY <1>6 DEF popupVars, PopupTyped
  <1> QED
    BY <1>1, <1>2, <1>3, <1>4, <1>5, <1>6, GrabTyped, DeviceTyped, PressTyped
       DEF PopupNext, DeviceStep

-----------------------------------------------------------------------------
(* The tree and the lists, step by step.                                     *)

(* Nobody enters or leaves the tree; parents may be lost.                    *)
LEMMA ParentsStep ==
    ASSUME PopupInv, UNCHANGED <<node, unmapped, active, dismissed>>,
           \A q \in Popup : parent'[q] \in {parent[q], None},
           \A q \in Popup : life'[q] = "unborn" <=> life[q] = "unborn"
    PROVE  TreeInv'
  <1>1. TreeStep({})
    BY PopupConstants DEF TreeStep
  <1>2. OnlyHeard'
    BY DEF OnlyHeard, Heard, PopupInv, TreeInv, PopupTyped
  <1>3. TreeClosed' /\ HangsByParent'
    BY DEF TreeClosed, HangsByParent, PopupInv, TreeInv
  <1>4. NestedIn(active)'
    <2> DEFINE m == [j \in DOMAIN active |-> j]
    <2>1. active \in Seq(Popup) /\ NestedIn(active)
      BY DEF PopupInv, TreeInv, PopupTyped
    <2>2. \A j \in DOMAIN active : m[j] \in DOMAIN active /\ active[j] = active[m[j]]
      OBVIOUS
    <2>3. \A j, k \in DOMAIN active : j < k => m[j] < m[k]
      OBVIOUS
    <2>4. /\ active' = active
          /\ \A j \in DOMAIN active : node'[active[j]] # None
                => active[j] \notin {} /\ node[active[j]] # None
      OBVIOUS
    <2> HIDE DEF m
    <2> QED
      BY ONLY <1>1, <2>1, <2>2, <2>3, <2>4, NestedKept, SMTT(30)
  <1>5. DismissedNotShown'
    BY <1>1, MisplacedKept DEF DismissedNotShown, PopupInv, TreeInv
  <1> QED
    BY <1>2, <1>3, <1>4, <1>5 DEF TreeInv

(* A popup that was nowhere gets its place.                                  *)
LEMMA InsertStep ==
    ASSUME PopupInv, NEW p \in Popup \ Heard, UNCHANGED <<active, dismissed>>,
           \A q \in Popup \ {p} :
              /\ node'[q] = node[q] /\ parent'[q] = parent[q] /\ life'[q] = life[q]
              /\ q \in unmapped' <=> q \in unmapped,
           unmapped' \subseteq Popup, life'[p] # "unborn",
           p \in unmapped' => node'[p] = None /\ parent'[p] = None,
           \/ node'[p] \in {None, Root}
           \/ node'[p] = parent'[p] /\ parent'[p] \in Popup \ {p} /\ node[parent'[p]] # None
    PROVE  TreeInv'
  <1>1. /\ node[p] = None /\ parent[p] = None /\ p \notin dismissed
        /\ \A i \in DOMAIN active : active[i] # p
    BY DEF OnlyHeard, PopupInv, TreeInv
  <1>2. TreeStep({})
    BY <1>1, PopupConstants DEF TreeStep
  <1>3. OnlyHeard'
    <2>1. \A q \in Popup \ {p} : q \in Heard' <=> q \in Heard
      BY DEF Heard
    <2>2. \A q \in unmapped' : life'[q] # "unborn"
      BY DEF OnlyHeard, PopupInv, TreeInv
    <2>3. p \notin Heard' => p \in unmapped'
      BY DEF Heard
    <2>4. dismissed' \subseteq Heard'
      BY <1>1, <2>1 DEF OnlyHeard, PopupInv, TreeInv, PopupTyped
    <2>5. \A i \in DOMAIN active' : active'[i] \in Heard'
      <3>1. \A i \in DOMAIN active : active[i] \in Popup /\ active[i] \in Heard
        BY DEF PopupInv, PopupTyped, TreeInv, OnlyHeard
      <3> QED
        BY <1>1, <2>1, <3>1
    <2>6. \A q \in Popup \ Heard' : node'[q] = None /\ parent'[q] = None
      BY <2>1, <2>3 DEF OnlyHeard, PopupInv, TreeInv
    <2> QED
      BY <2>2, <2>4, <2>5, <2>6 DEF OnlyHeard
  <1>4. TreeClosed'
    <2> SUFFICES ASSUME NEW q \in Popup, node'[q] \in Popup PROVE node'[node'[q]] # None
      BY DEF TreeClosed
    <2>1. CASE q = p
      <3>1. node'[p] \in Popup \ {p} /\ node[node'[p]] # None
        BY <2>1, PopupConstants
      <3> QED
        BY <2>1, <3>1
    <2>2. CASE q # p
      <3>1. node'[q] = node[q] /\ node[node[q]] # None
        BY <2>2 DEF TreeClosed, PopupInv, TreeInv
      <3>2. node[q] # p
        BY <1>1, <3>1
      <3> QED
        BY <3>1, <3>2
    <2> QED
      BY <2>1, <2>2
  <1>5. HangsByParent'
    BY DEF HangsByParent, PopupInv, TreeInv
  <1>6. NestedIn(active)'
    <2> DEFINE m == [j \in DOMAIN active |-> j]
    <2>1. active \in Seq(Popup) /\ NestedIn(active)
      BY DEF PopupInv, TreeInv, PopupTyped
    <2>2. \A j \in DOMAIN active : m[j] \in DOMAIN active /\ active[j] = active[m[j]]
      OBVIOUS
    <2>3. \A j, k \in DOMAIN active : j < k => m[j] < m[k]
      OBVIOUS
    <2>4. \A j \in DOMAIN active : node'[active[j]] # None => node[active[j]] # None
      <3>1. \A j \in DOMAIN active : active[j] \in Popup \ {p}
        BY <1>1, <2>1
      <3> QED
        BY <3>1
    <2> HIDE DEF m
    <2> QED
      BY <1>2, <2>1, <2>2, <2>3, <2>4, NestedKept, SMTT(30)
  <1>7. DismissedNotShown'
    <2>1. \A q \in dismissed : q \in Popup \ {p}
      BY <1>1 DEF PopupInv, PopupTyped
    <2>2. \A q \in dismissed : node'[q] # None => node[q] # None
      BY <2>1
    <2> QED
      BY <1>2, <2>2, MisplacedKept DEF DismissedNotShown, PopupInv, TreeInv
  <1> QED
    BY <1>3, <1>4, <1>5, <1>6, <1>7 DEF TreeInv

(* A closed part of the tree goes; of the grabs in a some stay active, and   *)
(* others become dismissed.                                                  *)
LEMMA DropStep ==
    ASSUME PopupInv, NEW gone, gone \subseteq Popup,
           \A r \in Popup : node[r] \in gone => r \in gone,
           \A r \in Popup : node'[r] = IF r \in gone THEN None ELSE node[r],
           UNCHANGED <<life, parent>>, unmapped' \subseteq unmapped,
           NEW a \in Seq(Popup), NestedIn(a), \A i \in DOMAIN a : a[i] \in Heard,
           NEW b \in Seq(Popup), active' = b, NEW m,
           \A j \in DOMAIN b : m[j] \in DOMAIN a /\ b[j] = a[m[j]],
           \A j, k \in DOMAIN b : j < k => m[j] < m[k],
           dismissed' \subseteq Heard,
           \A x \in dismissed' : x \in dismissed \cup gone \cup Misplaced \/ node[x] = None
    PROVE  TreeInv'
  <1>1. TreeStep(gone)
    BY DEF TreeStep
  <1>2. OnlyHeard'
    <2>1. \A q \in Heard : q \in Heard'
      BY DEF Heard
    <2>2. \A q \in Popup \ Heard' : node'[q] = None /\ parent'[q] = None
      BY <2>1 DEF OnlyHeard, PopupInv, TreeInv
    <2>3. \A j \in DOMAIN b : b[j] \in Heard'
      BY <2>1
    <2> QED
      BY <2>1, <2>2, <2>3 DEF OnlyHeard, PopupInv, TreeInv
  <1>3. TreeClosed'
    <2> SUFFICES ASSUME NEW q \in Popup, node'[q] \in Popup PROVE node'[node'[q]] # None
      BY DEF TreeClosed
    <2>1. q \notin gone /\ node'[q] = node[q]
      BY PopupConstants
    <2>2. node[q] \notin gone /\ node[node[q]] # None
      BY <2>1 DEF TreeClosed, PopupInv, TreeInv
    <2> QED
      BY <2>1, <2>2
  <1>4. HangsByParent'
    BY DEF HangsByParent, PopupInv, TreeInv
  <1>5. NestedIn(active)'
    <2>1. \A j \in DOMAIN b : node'[b[j]] # None => b[j] \notin gone /\ node[b[j]] # None
      OBVIOUS
    <2>2. /\ \A j \in DOMAIN b : m[j] \in DOMAIN a /\ b[j] = a[m[j]]
          /\ \A j, k \in DOMAIN b : j < k => m[j] < m[k]
      OBVIOUS
    <2> QED
      BY ONLY <1>1, <2>1, <2>2, NestedKept, NestedIn(a),
              a \in Seq(Popup), b \in Seq(Popup), active' = b, SMTT(30)
  <1>6. DismissedNotShown'
    <2> SUFFICES ASSUME NEW x \in dismissed', node'[x] # None PROVE x \in Misplaced'
      BY DEF DismissedNotShown
    <2>1. x \in Popup /\ x \notin gone /\ node[x] # None
      BY DEF Heard
    <2>2. x \in Misplaced
      BY <2>1 DEF DismissedNotShown, PopupInv, TreeInv
    <2> QED
      BY <1>1, <2>1, <2>2, MisplacedKept
  <1> QED
    BY <1>2, <1>3, <1>4, <1>5, <1>6 DEF TreeInv

(* The grabs that live are nested as they were.                              *)
LEMMA LivingNested ==
    ASSUME PopupInv
    PROVE  /\ Living(active) \in Seq(Popup) /\ NestedIn(Living(active))
           /\ \A i \in DOMAIN Living(active) : Living(active)[i] \in Heard
  <1>1. active \in Seq(Popup) /\ NestedIn(active) /\ \A i \in DOMAIN active : active[i] \in Heard
    BY DEF PopupInv, PopupTyped, TreeInv, OnlyHeard
  <1> DEFINE b == Living(active)
  <1>2. b \in Seq(Popup)
    BY <1>1, LivingIs
  <1>3. PICK m : /\ \A j \in DOMAIN b : m[j] \in DOMAIN active /\ b[j] = active[m[j]]
                 /\ \A j, k \in DOMAIN b : j < k => m[j] < m[k]
    BY <1>1, LivingIs
  <1> HIDE DEF b
  <1>4. NestedIn(b)
    BY <1>1, <1>3 DEF NestedIn
  <1>5. \A i \in DOMAIN b : b[i] \in Heard
    BY <1>1, <1>3
  <1> QED
    BY <1>2, <1>4, <1>5 DEF b

(* A popup whose chain of parents reaches the root has a parent.             *)
LEMMA RootedHasParent == ASSUME NEW p \in Rooted, PopupTyped PROVE p \in Popup /\ parent[p] # None
  <1> DEFINE S == {q \in Popup : parent[q] # None}
  <1>1. S \in SUBSET Popup /\ \A q \in Popup : parent[q] \in S \cup {Root} => q \in S
    BY PopupConstants
  <1>2. p \in Popup /\ \A T \in SUBSET Popup :
           (\A q \in Popup : parent[q] \in T \cup {Root} => q \in T) => p \in T
    BY DEF Rooted
  <1> HIDE DEF S
  <1>3. p \in S
    BY <1>1, <1>2
  <1> QED
    BY <1>2, <1>3 DEF S

(* PopupGrabInternal::grab: the new grab is a child of the newest that lives *)
(* and hangs below it, so it hangs below all of them.                        *)
LEMMA AppendNested ==
    ASSUME PopupInv, NEW p \in Rooted, LastAlive(active) \in {None, parent[p]}
    PROVE  /\ Append(Living(active), p) \in Seq(Popup) /\ NestedIn(Append(Living(active), p))
           /\ \A i \in DOMAIN Append(Living(active), p) : Append(Living(active), p)[i] \in Heard
  <1> DEFINE b == Living(active)
             a == Append(b, p)
             n == Len(b)
  <1>1. b \in Seq(Popup) /\ NestedIn(b) /\ \A i \in DOMAIN b : b[i] \in Heard
    BY LivingNested
  <1>2. p \in Popup /\ parent[p] # None /\ p \in Heard
    BY RootedHasParent DEF PopupInv, TreeInv, OnlyHeard
  <1>3. LastAlive(b) = LastAlive(active)
    BY LivingLast DEF PopupInv, PopupTyped
  <1>4. \A i \in DOMAIN b : life[b[i]] = "alive"
    <2>1. active \in Seq(Popup)
      BY DEF PopupInv, PopupTyped
    <2> QED
      BY <2>1, LivingIs, SMTT(30)
  <1> HIDE DEF b
  <1>5. n \in Nat /\ DOMAIN b = 1 .. n /\ DOMAIN a = 1 .. n + 1 /\ a \in Seq(Popup)
        /\ a[n + 1] = p /\ \A i \in 1 .. n : a[i] = b[i]
    BY <1>1, <1>2
  <1>6. n > 0 => b[n] = parent[p]
    <2> SUFFICES ASSUME n > 0 PROVE b[n] = parent[p]
      OBVIOUS
    <2>1. n \in DOMAIN b
      BY <1>5
    <2>2. PICK i \in DOMAIN b : /\ LastAlive(b) = b[i]
                                /\ \A j \in DOMAIN b : j > i => life[b[j]] # "alive"
      BY <1>1, <1>4, <2>1, LastAliveIs
    <2>3. i = n
      BY <1>4, <1>5, <2>1, <2>2
    <2>4. b[i] # None
      BY <1>1, PopupConstants DEF Heard
    <2> QED
      BY <1>3, <2>2, <2>3, <2>4
  <1> HIDE DEF a
  <1>7. NestedIn(a)
    <2> SUFFICES ASSUME NEW i \in DOMAIN a, NEW j \in DOMAIN a, i < j, node[a[j]] # None
                 PROVE  a[j] \in Subtree(a[i]) \/ a[j] \in Misplaced
      BY DEF NestedIn
    <2>1. CASE j # n + 1
      <3>1. i \in DOMAIN b /\ j \in DOMAIN b /\ a[i] = b[i] /\ a[j] = b[j]
        BY <1>5, <2>1
      <3> QED
        BY <1>1, <3>1 DEF NestedIn
    <2>2. CASE j = n + 1
      <3>1. i \in DOMAIN b /\ n > 0 /\ a[i] = b[i] /\ a[j] = p /\ n \in DOMAIN b /\ i <= n
        BY <1>5, <2>2
      <3>2. b[n] = parent[p] /\ b[n] \in Popup
        BY <1>1, <1>6, <3>1
      <3>3. node[p] \in {Root, b[n]}
        BY <1>2, <3>1, <3>2 DEF HangsByParent, PopupInv, TreeInv
      <3>4. CASE node[p] = Root
        <4>1. parent[p] # Root
          BY <3>2, PopupConstants
        <4>2. p \in Subtree(p)
          BY <1>2, SubtreeSelf
        <4> QED
          BY <1>2, <3>1, <3>4, <4>1, <4>2 DEF Misplaced
      <3>5. CASE node[p] = b[n]
        <4>1. node[b[n]] # None
          BY <1>2, <3>2, <3>5 DEF TreeClosed, PopupInv, TreeInv
        <4>2. b[n] \in Subtree(b[i]) \/ b[n] \in Misplaced
          <5>1. CASE i = n
            BY <3>2, <5>1, SubtreeSelf
          <5>2. CASE i < n
            BY <1>1, <3>1, <4>1, <5>2 DEF NestedIn
          <5> QED
            BY <1>5, <3>1, <5>1, <5>2
        <4>3. p \in Subtree(b[i]) \/ p \in Misplaced
          BY <1>2, <3>5, <4>2, SubtreeClosed, MisplacedClosed
        <4> QED
          BY <3>1, <4>3
      <3> QED
        BY <3>3, <3>4, <3>5
    <2> QED
      BY <2>1, <2>2
  <1>8. \A i \in DOMAIN a : a[i] \in Heard
    BY <1>1, <1>2, <1>5
  <1> QED
    BY <1>5, <1>7, <1>8 DEF a, b

(* PopupGrab::ungrab of all grabs takes the first and all below it: those    *)
(* that are not below it were misplaced.                                     *)
LEMMA UngrabAllStep ==
    ASSUME PopupInv, NEW a \in Seq(Popup), NestedIn(a), \A i \in DOMAIN a : a[i] \in Heard,
           NEW d \in SUBSET dismissed, UngrabAll(a, d), UNCHANGED <<life, parent, unmapped>>
    PROVE  TreeInv'
  <1> DEFINE m == [j \in DOMAIN a |-> j]
  <1>0. dismissed \subseteq Heard /\ Heard \subseteq Popup /\ unmapped' \subseteq unmapped
    BY DEF PopupInv, TreeInv, OnlyHeard, Heard
  <1>1. CASE UNCHANGED node /\ dismissed' = d /\ active' \in {a, <<>>}
    <2>1. PICK b \in Seq(Popup) : active' = b /\ (b = a \/ b = <<>>)
      <3>1. active' \in Seq(Popup) /\ (active' = a \/ active' = <<>>)
        <4>1. active' = a \/ active' = <<>>
          BY <1>1
        <4>2. <<>> \in Seq(Popup)
          OBVIOUS
        <4> QED
          BY ONLY <4>1, <4>2, a \in Seq(Popup)
      <3> QED
        BY ONLY <3>1
    <2>2. /\ \A j \in DOMAIN b : m[j] \in DOMAIN a /\ b[j] = a[m[j]]
          /\ \A j, k \in DOMAIN b : j < k => m[j] < m[k]
      <3>1. CASE b = a
        BY <3>1
      <3>2. CASE b = <<>>
        <4>1. DOMAIN b = {}
          BY <3>2
        <4> QED
          BY <4>1
      <3> QED
        BY <2>1, <3>1, <3>2
    <2> DEFINE gone == {}
    <2>3. /\ gone \subseteq Popup /\ \A r \in Popup : node[r] \in gone => r \in gone
          /\ \A r \in Popup : node'[r] = IF r \in gone THEN None ELSE node[r]
      BY <1>1
    <2>4. /\ dismissed' \subseteq Heard
          /\ \A x \in dismissed' : x \in dismissed \cup gone \cup Misplaced \/ node[x] = None
      BY <1>0, <1>1
    <2>5. active' = b /\ UNCHANGED <<life, parent>>
      BY <2>1
    <2> HIDE DEF m, gone
    <2> QED
      BY ONLY PopupInv, b \in Seq(Popup), a \in Seq(Popup), NestedIn(a),
         \A i \in DOMAIN a : a[i] \in Heard, <1>0, <2>2, <2>3, <2>4, <2>5, DropStep, ZenonT(60)
  <1>2. CASE a # <<>> /\ life[Root] = "alive"
    <2> DEFINE gone == Found(a[1])
    <2>1. /\ active' = <<>> /\ dismissed' = d \cup ToSet(a) /\ node' = Without(gone)
      BY <1>2 DEF UngrabAll, Ungrab
    <2>2. /\ gone \subseteq Popup /\ \A r \in Popup : node[r] \in gone => r \in gone
          /\ \A r \in Popup : node'[r] = IF r \in gone THEN None ELSE node[r]
      BY <2>1, FoundStep DEF TreeStep
    <2>3. 1 \in DOMAIN a /\ a[1] \in Popup
      BY <1>2
    <2>4. ASSUME NEW x \in dismissed'
          PROVE  x \in Heard /\ (x \in dismissed \cup gone \cup Misplaced \/ node[x] = None)
      <3>1. CASE x \in d
        BY <1>0, <3>1
      <3>2. CASE x \in ToSet(a) /\ node[x] # None
        <4>1. PICK j \in DOMAIN a : x = a[j]
          BY <3>2 DEF ToSet
        <4>2. x \in Subtree(a[1]) \/ x \in Misplaced
          <5>1. CASE j = 1
            BY <2>3, <4>1, <5>1, SubtreeSelf
          <5>2. CASE j # 1
            <6>1. 1 < j
              BY <4>1, <5>2
            <6> QED
              BY <2>3, <3>2, <4>1, <6>1 DEF NestedIn
          <5> QED
            BY <5>1, <5>2
        <4>3. x \in Subtree(a[1]) => x \in gone
          <5>1. CASE node[a[1]] = None
            BY <2>3, <3>2, <5>1, NobodyBelow DEF PopupInv, TreeInv
          <5> QED
            BY <5>1 DEF Found
        <4> QED
          BY <4>1, <4>2, <4>3
      <3>3. CASE x \in ToSet(a) /\ node[x] = None
        BY <3>3 DEF ToSet
      <3> QED
        BY <2>1, <2>4, <3>1, <3>2, <3>3
    <2>5. PICK b \in Seq(Popup) : active' = b /\ DOMAIN b = {}
      <3>1. <<>> \in Seq(Popup) /\ DOMAIN <<>> = {}
        OBVIOUS
      <3>2. active' \in Seq(Popup) /\ DOMAIN active' = {}
        BY <2>1, <3>1
      <3> QED
        BY ONLY <3>2
    <2>7. /\ \A j \in DOMAIN b : m[j] \in DOMAIN a /\ b[j] = a[m[j]]
          /\ \A j, k \in DOMAIN b : j < k => m[j] < m[k]
      BY <2>5
    <2>6. /\ dismissed' \subseteq Heard
          /\ \A x \in dismissed' : x \in dismissed \cup gone \cup Misplaced \/ node[x] = None
      BY <2>4
    <2> HIDE DEF m, gone
    <2> QED
      BY ONLY PopupInv, a \in Seq(Popup), NestedIn(a), \A i \in DOMAIN a : a[i] \in Heard,
         UNCHANGED <<life, parent>>, <1>0, b \in Seq(Popup), <2>2, <2>5, <2>6, <2>7, DropStep
  <1> QED
    BY <1>1, <1>2 DEF UngrabAll, Ungrab

LEMMA UngrabTopmostStep == ASSUME PopupInv, UngrabTopmost PROVE TreeInv'
  <1> DEFINE m == [j \in DOMAIN active |-> j]
             top == Last(active)
  <1>1. active \in Seq(Popup) /\ NestedIn(active) /\ active # <<>>
        /\ \A i \in DOMAIN active : active[i] \in Heard
    BY DEF UngrabTopmost, PopupInv, PopupTyped, TreeInv, OnlyHeard
  <1>2. /\ dismissed \subseteq Heard /\ Heard \subseteq Popup /\ unmapped' \subseteq unmapped
        /\ life' = life /\ parent' = parent
    BY DEF UngrabTopmost, PopupInv, TreeInv, OnlyHeard, Heard
  <1>3. top \in Heard
    BY <1>1 DEF Last
  <1>4. /\ Front(active) \in Seq(Popup)
        /\ \A j \in DOMAIN Front(active) : m[j] \in DOMAIN active /\ Front(active)[j] = active[m[j]]
        /\ \A j, k \in DOMAIN Front(active) : j < k => m[j] < m[k]
    BY <1>1 DEF Front
  <1>6. Ungrab(top, {top}, Front(active), dismissed)
    BY DEF UngrabTopmost
  <1> HIDE DEF m, top
  <1>7. CASE life[Root] = "alive"
    <2> DEFINE gone == Found(top)
    <2>1. active' = Front(active) /\ dismissed' = dismissed \cup {top} /\ node' = Without(gone)
      BY <1>6, <1>7 DEF Ungrab
    <2>2. /\ gone \subseteq Popup /\ \A r \in Popup : node[r] \in gone => r \in gone
          /\ \A r \in Popup : node'[r] = IF r \in gone THEN None ELSE node[r]
      BY <1>2, <2>1, FoundStep DEF TreeStep
    <2>3. node[top] # None => top \in gone
      BY <1>2, <1>3, SubtreeSelf DEF Found
    <2> HIDE DEF gone
    <2>4. /\ dismissed' \subseteq Heard
          /\ \A x \in dismissed' : x \in dismissed \cup gone \cup Misplaced \/ node[x] = None
      BY <1>2, <1>3, <2>1, <2>3
    <2> QED
      BY ONLY PopupInv, <1>1, <1>2, <1>4, <2>1, <2>2, <2>4, DropStep
  <1>8. CASE life[Root] # "alive"
    <2>1. active' = <<>> /\ dismissed' = dismissed /\ node' = node
      BY <1>6, <1>8 DEF Ungrab
    <2>2. /\ {} \subseteq Popup /\ \A r \in Popup : node[r] \in {} => r \in {}
          /\ \A r \in Popup : node'[r] = IF r \in {} THEN None ELSE node[r]
      BY <2>1
    <2>3. /\ dismissed' \subseteq Heard
          /\ \A x \in dismissed' : x \in dismissed \cup {} \cup Misplaced \/ node[x] = None
      BY <1>2, <2>1
    <2>4. PICK b \in Seq(Popup) : active' = b /\ DOMAIN b = {}
      <3>1. <<>> \in Seq(Popup) /\ DOMAIN <<>> = {}
        OBVIOUS
      <3>2. active' \in Seq(Popup) /\ DOMAIN active' = {}
        BY <2>1, <3>1
      <3> QED
        BY ONLY <3>2
    <2>5. /\ \A j \in DOMAIN b : m[j] \in DOMAIN active /\ b[j] = active[m[j]]
          /\ \A j, k \in DOMAIN b : j < k => m[j] < m[k]
      BY <2>4
    <2> QED
      BY ONLY PopupInv, b \in Seq(Popup), <1>1, <1>2, <2>2, <2>3, <2>4, <2>5, DropStep
  <1> QED
    BY <1>7, <1>8

(* cleanup, and a grab that is denied.                                       *)
LEMMA LivingStep ==
    ASSUME PopupInv, NEW gone, gone \subseteq Popup,
           \A r \in Popup : node[r] \in gone => r \in gone,
           node' = Without(gone), UNCHANGED <<life, parent>>, unmapped' \subseteq unmapped,
           active' \in {active, Living(active)}, dismissed' \subseteq dismissed
    PROVE  TreeInv'
  <1>1. active \in Seq(Popup) /\ NestedIn(active)
        /\ \A i \in DOMAIN active : active[i] \in Heard
    BY DEF PopupInv, PopupTyped, TreeInv, OnlyHeard
  <1>2. \A r \in Popup : node'[r] = IF r \in gone THEN None ELSE node[r]
    BY DEF Without
  <1>3. /\ dismissed' \subseteq Heard
        /\ \A x \in dismissed' : x \in dismissed \cup gone \cup Misplaced \/ node[x] = None
    BY DEF PopupInv, TreeInv, OnlyHeard
  <1>4. \E m : /\ \A j \in DOMAIN active' : m[j] \in DOMAIN active /\ active'[j] = active[m[j]]
               /\ \A j, k \in DOMAIN active' : j < k => m[j] < m[k]
    <2>1. CASE active' = active
      <3> DEFINE m == [j \in DOMAIN active |-> j]
      <3>1. /\ \A j \in DOMAIN active : m[j] \in DOMAIN active /\ active[j] = active[m[j]]
            /\ \A j, k \in DOMAIN active : j < k => m[j] < m[k]
        OBVIOUS
      <3> HIDE DEF m
      <3> QED
        BY <2>1, <3>1
    <2>2. CASE active' = Living(active)
      <3> DEFINE b == Living(active)
      <3>1. \E m : /\ \A j \in DOMAIN b : m[j] \in DOMAIN active /\ b[j] = active[m[j]]
                   /\ \A j, k \in DOMAIN b : j < k => m[j] < m[k]
        BY <1>1, LivingIs
      <3>2. active' = b
        BY <2>2
      <3> HIDE DEF b
      <3> QED
        BY <3>1, <3>2
    <2> QED
      BY <2>1, <2>2
  <1>5. PICK m : /\ \A j \in DOMAIN active' : m[j] \in DOMAIN active /\ active'[j] = active[m[j]]
                 /\ \A j, k \in DOMAIN active' : j < k => m[j] < m[k]
    BY <1>4
  <1> DEFINE b == active'
  <1>6. b \in Seq(Popup) /\ active' = b
    BY <1>1, LivingIs
  <1>7. /\ \A j \in DOMAIN b : m[j] \in DOMAIN active /\ b[j] = active[m[j]]
        /\ \A j, k \in DOMAIN b : j < k => m[j] < m[k]
    BY <1>5
  <1> HIDE DEF b
  <1> QED
    BY ONLY PopupInv, gone \subseteq Popup, \A r \in Popup : node[r] \in gone => r \in gone,
       UNCHANGED <<life, parent>>, unmapped' \subseteq unmapped,
       <1>1, <1>2, <1>3, <1>6, <1>7, DropStep

LEMMA GrabStep ==
    ASSUME PopupInv, NEW p \in Popup, NEW s \in 1 .. MaxSerial, GrabPopup(p, s)
    PROVE  TreeInv'
  <1> DEFINE kept == {q \in dismissed : IsAlive(q)}
             a == Append(Living(active), p)
  <1>0. PopupTyped
    BY DEF PopupInv
  <1>1. p \in Rooted /\ UNCHANGED <<life, parent, unmapped>> /\ kept \subseteq dismissed
    BY <1>0, GrabPopupIs
  <1>2. CASE LastAlive(active) \in {None, parent[p]} /\ InstallGrab(p, a, kept, PopupGrabOf(s))
    <2>1. a \in Seq(Popup) /\ NestedIn(a) /\ \A i \in DOMAIN a : a[i] \in Heard
      BY <1>1, <1>2, AppendNested
    <2>2. UngrabAll(a, kept) \/ (active' = a /\ dismissed' = kept /\ UNCHANGED node)
      BY <1>2 DEF InstallGrab
    <2> HIDE DEF a, kept
    <2>3. CASE UngrabAll(a, kept)
      BY <1>1, <2>1, <2>3, UngrabAllStep
    <2>4. CASE active' = a /\ dismissed' = kept /\ UNCHANGED node
      <3> DEFINE m == [j \in DOMAIN a |-> j]
                 gone == {}
      <3>1. /\ \A j \in DOMAIN a : m[j] \in DOMAIN a /\ a[j] = a[m[j]]
            /\ \A j, k \in DOMAIN a : j < k => m[j] < m[k]
        OBVIOUS
      <3>2. /\ gone \subseteq Popup /\ \A r \in Popup : node[r] \in gone => r \in gone
            /\ \A r \in Popup : node'[r] = IF r \in gone THEN None ELSE node[r]
        BY <2>4
      <3>3. /\ dismissed' \subseteq Heard
            /\ \A x \in dismissed' : x \in dismissed \cup gone \cup Misplaced \/ node[x] = None
        BY <1>1, <2>4 DEF PopupInv, TreeInv, OnlyHeard
      <3>4. unmapped' \subseteq unmapped /\ UNCHANGED <<life, parent>> /\ active' = a
        BY <1>1, <2>4
      <3> HIDE DEF m, gone
      <3> QED
        BY ONLY PopupInv, <2>1, <3>1, <3>2, <3>3, <3>4, DropStep, ZenonT(60)
    <2> QED
      BY <2>2, <2>3, <2>4
  <1>3. CASE node' = Without(Found(p)) /\ active' = Living(active) /\ dismissed' = kept
    <2>1. Found(p) \subseteq Popup /\ \A r \in Popup : node[r] \in Found(p) => r \in Found(p)
      BY <1>1, <1>3, FoundStep DEF TreeStep
    <2> QED
      BY <1>1, <1>3, <2>1, LivingStep
  <1>4. CASE node' = node /\ active' = Living(active) /\ dismissed' = kept
    <2>1. node' = Without({})
      BY <1>4 DEF Without, PopupInv, PopupTyped
    <2> QED
      BY <1>1, <1>4, <2>1, LivingStep
  <1> QED
    BY <1>0, <1>2, <1>3, <1>4, GrabPopupIs

LEMMA CleanupStep == ASSUME PopupInv, Cleanup PROVE TreeInv'
  <1> DEFINE dead == {p \in Popup : node[p] # None /\ life[p] = "dead"}
             gone == UNION {Subtree(p) : p \in dead}
  <1>1. gone \subseteq Popup
    BY DEF Subtree
  <1>2. \A r \in Popup : node[r] \in gone => r \in gone
    BY SubtreeClosed
  <1>3. node' = Without(gone) /\ UNCHANGED <<life, parent>> /\ unmapped' \subseteq unmapped
    BY DEF Cleanup
  <1>4. active' \in {active, Living(active)} /\ dismissed' \subseteq dismissed
    BY DEF Cleanup
  <1> HIDE DEF gone
  <1> QED
    BY <1>1, <1>2, <1>3, <1>4, LivingStep

LEMMA PopupInvStep == ASSUME PopupInv, [PopupNext]_popupVars PROVE PopupInv'
  <1>0. PopupTyped'
    BY PopupTypedStep DEF PopupInv
  <1>1. ASSUME NEW p \in Popup, NEW par \in Popup \cup {Root, None}, TrackPopup(p, par)
        PROVE  TreeInv'
    <2>1. p \in Popup \ Heard /\ node[p] = None /\ parent[p] = None
      BY <1>1 DEF TrackPopup, Heard, PopupInv, TreeInv, OnlyHeard
    <2>2. p \notin unmapped
      BY <1>1 DEF TrackPopup, PopupInv, TreeInv, OnlyHeard
    <2>3. /\ UNCHANGED <<active, dismissed>> /\ unmapped' \subseteq Popup
          /\ \A q \in Popup \ {p} :
              /\ node'[q] = node[q] /\ parent'[q] = parent[q] /\ life'[q] = life[q]
              /\ q \in unmapped' <=> q \in unmapped
      BY <1>1 DEF TrackPopup, grabVars, PopupInv, PopupTyped
    <2>4. life'[p] # "unborn" /\ parent'[p] = par /\ par # p
      BY <1>1 DEF TrackPopup, PopupInv, PopupTyped
    <2>5. p \in unmapped' => node'[p] = None /\ parent'[p] = None
      BY <1>1, <2>1, <2>2, <2>4 DEF TrackPopup
    <2>6. \/ node'[p] \in {None, Root}
          \/ node'[p] = par /\ par \in Popup \ {p} /\ node[par] # None
      <3>1. node'[p] = Under(par) \/ node'[p] = node[p]
        BY <1>1 DEF TrackPopup, PopupInv, PopupTyped
      <3>2. Under(par) = Root \/ (Under(par) = par /\ par \in Popup /\ node[par] # None)
        BY DEF Under
      <3> QED
        BY <2>1, <2>4, <3>1, <3>2
    <2>7. \/ node'[p] \in {None, Root}
          \/ node'[p] = parent'[p] /\ parent'[p] \in Popup \ {p} /\ node[parent'[p]] # None
      BY <2>4, <2>6
    <2> QED
      BY ONLY PopupInv, <2>1, <2>3, <2>4, <2>5, <2>7, InsertStep
  <1>2. ASSUME NEW p \in Popup, CommitUnmapped(p) PROVE TreeInv'
    <2>1. p \in Popup \ Heard
      BY <1>2 DEF CommitUnmapped, Heard
    <2>2. /\ UNCHANGED <<active, dismissed>> /\ unmapped' \subseteq Popup
          /\ \A q \in Popup \ {p} :
              /\ node'[q] = node[q] /\ parent'[q] = parent[q] /\ life'[q] = life[q]
              /\ q \in unmapped' <=> q \in unmapped
      BY <1>2 DEF CommitUnmapped, grabVars, PopupInv, PopupTyped
    <2>3. life'[p] # "unborn" /\ p \notin unmapped' /\ node'[p] \in {None, Root}
      BY <1>2 DEF CommitUnmapped, PopupInv, PopupTyped
    <2> QED
      BY ONLY PopupInv, <2>1, <2>2, <2>3, InsertStep
  <1>3. ASSUME NEW p \in Popup, UnmapPopup(p) \/ DestroyPopup(p) PROVE TreeInv'
    <2>1. UNCHANGED <<node, unmapped, active, dismissed>>
      BY <1>3 DEF UnmapPopup, DestroyPopup, grabVars
    <2>2. \A q \in Popup : parent'[q] \in {parent[q], None}
      BY <1>3 DEF UnmapPopup, DestroyPopup, PopupInv, PopupTyped
    <2>3. \A q \in Popup : life'[q] = "unborn" <=> life[q] = "unborn"
      BY <1>3 DEF UnmapPopup, DestroyPopup, PopupInv, PopupTyped
    <2> QED
      BY <2>1, <2>2, <2>3, ParentsStep
  <1>4. ASSUME DestroyRoot PROVE TreeInv'
    <2>1. UNCHANGED <<node, unmapped, active, dismissed>>
      BY <1>4 DEF DestroyRoot, grabVars
    <2>2. \A q \in Popup : parent'[q] \in {parent[q], None}
      BY <1>4 DEF DestroyRoot, PopupInv, PopupTyped
    <2>3. \A q \in Popup : life'[q] = "unborn" <=> life[q] = "unborn"
      BY <1>4, PopupConstants DEF DestroyRoot, PopupInv, PopupTyped
    <2> QED
      BY <2>1, <2>2, <2>3, ParentsStep
  <1>5. ASSUME PointerPress PROVE TreeInv'
    <2>1. UNCHANGED <<life, parent, unmapped>>
      BY <1>5 DEF PointerPress
    <2>2. CASE UngrabAll(active, dismissed)
      <3>1. /\ active \in Seq(Popup) /\ NestedIn(active)
            /\ \A i \in DOMAIN active : active[i] \in Heard
        BY DEF PopupInv, PopupTyped, TreeInv, OnlyHeard
      <3> QED
        BY <2>1, <2>2, <3>1, UngrabAllStep
    <2>3. CASE UNCHANGED <<active, dismissed, node>>
      BY <2>1, <2>3, ParentsStep
    <2> QED
      BY <1>5, <2>2, <2>3 DEF PointerPress
  <1>6. ASSUME DeviceStep \/ UNCHANGED popupVars PROVE TreeInv'
    <2>1. UNCHANGED <<life, parent, node, unmapped, active, dismissed>>
      BY <1>6, DeviceStepIs DEF clientVars, grabVars, popupVars
    <2> QED
      BY <2>1, ParentsStep
  <1>7. TreeInv'
    BY <1>1, <1>2, <1>3, <1>4, <1>5, <1>6, GrabStep, UngrabTopmostStep, CleanupStep
       DEF PopupNext, DeviceStep
  <1> QED
    BY <1>0, <1>7 DEF PopupInv

LEMMA PopupInvInit == PopupInit => PopupInv
  <1> SUFFICES ASSUME PopupInit PROVE PopupInv
    OBVIOUS
  <1>1. PopupTyped
    <2>1. kbd \in KbdState /\ ptr \in PtrState
      BY KbdStates DEF PopupInit, KbdState, PtrState, Target
    <2>2. active \in Seq(Popup)
      BY DEF PopupInit
    <2>3. life \in [Popup \cup {Root} -> {"unborn", "alive", "dead"}]
      BY DEF PopupInit
    <2>4. /\ parent \in [Popup -> Popup \cup {Root, None}]
          /\ node \in [Popup -> Popup \cup {Root, None}]
          /\ unmapped \subseteq Popup /\ dismissed \subseteq Popup
      BY DEF PopupInit
    <2>5. killed \in BOOLEAN /\ listed \in BOOLEAN
      BY DEF PopupInit
    <2>6. gserial \in 0 .. MaxSerial /\ serials \in 0 .. MaxSerial
      <3>1. gserial = 0 /\ serials = 0
        BY DEF PopupInit
      <3> QED
        BY <3>1, PopupConstants
    <2> QED
      BY <2>1, <2>2, <2>3, <2>4, <2>5, <2>6 DEF PopupTyped, KbdState, PtrState
  <1>2. TreeInv
    BY PopupConstants DEF PopupInit, TreeInv, OnlyHeard, Heard, TreeClosed, HangsByParent,
       NestedIn, DismissedNotShown
  <1> QED
    BY <1>1, <1>2 DEF PopupInv

LEMMA PopupTypes == PopupInv => PopupTypeOK
  <1> SUFFICES ASSUME PopupInv PROVE PopupTypeOK
    OBVIOUS
  <1>1. PopupTyped
    BY DEF PopupInv
  <1>2. ToSet(active) \subseteq Popup
    BY <1>1, MembersOf DEF PopupTyped
  <1> QED
    BY <1>1, <1>2 DEF PopupTyped, PopupTypeOK

(* The state of the popups and their grabs has its type.                     *)
THEOREM PopupsTyped == PopupSpec => []PopupTypeOK
  BY PopupTypes, PopupInvInit, PopupInvStep, PTL DEF PopupSpec

(* A dismissed popup is out of the tree, unless it was misplaced in it       *)
(* (DismissedNotShown): all grabs hang below the first one that ungrab       *)
(* dismisses, since each was granted as a child of the newest before it.     *)
THEOREM DismissedPopupsGone == PopupSpec => []DismissedNotShown
  <1>1. PopupInv => DismissedNotShown
    BY DEF PopupInv, TreeInv
  <1> QED
    BY <1>1, PopupInvInit, PopupInvStep, PTL DEF PopupSpec

-----------------------------------------------------------------------------
(* Popups: who is the current grab after a step.                             *)

(* Grabs only die: the current one stays so, or is among the dead.           *)
LEMMA CurrentStays ==
    ASSUME PopupTyped, UNCHANGED active,
           \A i \in DOMAIN active : life'[active[i]] = "alive" => life[active[i]] = "alive"
    PROVE  \/ LastAlive(active)' = LastAlive(active)
           \/ /\ LastAlive(active) # None /\ LastAlive(active) \in Popup
              /\ life[LastAlive(active)] = "alive" /\ life'[LastAlive(active)] # "alive"
  <1>1. PICK a \in Seq(Popup) : active = a
    BY DEF PopupTyped
  <1>2. \/ LastAlive(active)' = None /\ \A i \in DOMAIN a : life'[a[i]] # "alive"
        \/ \E i \in DOMAIN a : /\ LastAlive(active)' = a[i] /\ life'[a[i]] = "alive"
                               /\ \A j \in DOMAIN a : j > i => life'[a[j]] # "alive"
    <2>1. active' = a
      BY <1>1
    <2> QED
      BY ONLY <1>1, <2>1, a \in Seq(Popup), LastAliveNext
  <1>3. \/ LastAlive(active) = None /\ \A i \in DOMAIN a : life[a[i]] # "alive"
        \/ \E i \in DOMAIN a : /\ LastAlive(active) = a[i] /\ life[a[i]] = "alive"
                               /\ \A j \in DOMAIN a : j > i => life[a[j]] # "alive"
    BY <1>1, LastAliveIs
  <1>4. CASE LastAlive(active) = None /\ \A i \in DOMAIN a : life[a[i]] # "alive"
    BY <1>1, <1>2, <1>4
  <1>5. ASSUME NEW i \in DOMAIN a, LastAlive(active) = a[i], life[a[i]] = "alive",
               \A j \in DOMAIN a : j > i => life[a[j]] # "alive", life'[a[i]] = "alive"
        PROVE  LastAlive(active)' = LastAlive(active)
    <2>1. PICK k \in DOMAIN a : /\ LastAlive(active)' = a[k] /\ life'[a[k]] = "alive"
                                /\ \A j \in DOMAIN a : j > k => life'[a[j]] # "alive"
      BY <1>2, <1>5
    <2>2. ~ (k > i) /\ ~ (i > k)
      BY <1>1, <1>5, <2>1
    <2>3. DOMAIN a = 1 .. Len(a)
      OBVIOUS
    <2>4. k = i
      BY <2>2, <2>3
    <2> QED
      BY <1>5, <2>1, <2>4
  <1>6. \A i \in DOMAIN a : a[i] \in Popup /\ a[i] # None
    BY PopupConstants
  <1> QED
    BY <1>3, <1>4, <1>5, <1>6

LEMMA CurrentOf ==
    ASSUME NEW a, active' = a, UNCHANGED life
    PROVE  LastAlive(active)' = LastAlive(a)
  BY DEF LastAlive, SelectLastInSeq, IsAlive

(* Without the newest grab the current one is as before, or was that grab.   *)
LEMMA CurrentOfFront ==
    ASSUME NEW a \in Seq(Popup), a # <<>>
    PROVE  LastAlive(Front(a)) = LastAlive(a) \/ LastAlive(a) = Last(a)
  <1> DEFINE b == Front(a)
             n == Len(a)
  <1>1. /\ b \in Seq(Popup) /\ n \in Nat /\ n > 0 /\ DOMAIN a = 1 .. n /\ DOMAIN b = 1 .. n - 1
        /\ \A i \in 1 .. n - 1 : b[i] = a[i]
    BY DEF Front
  <1>2. Last(a) = a[n]
    BY DEF Last
  <1> HIDE DEF b
  <1>3. \/ LastAlive(b) = None /\ \A i \in DOMAIN b : life[b[i]] # "alive"
        \/ \E i \in DOMAIN b : /\ LastAlive(b) = b[i] /\ life[b[i]] = "alive"
                               /\ \A j \in DOMAIN b : j > i => life[b[j]] # "alive"
    BY <1>1, LastAliveIs
  <1>4. CASE LastAlive(a) = None /\ \A i \in DOMAIN a : life[a[i]] # "alive"
    <2>1. \A i \in DOMAIN b : life[b[i]] # "alive"
      BY <1>1, <1>4
    <2> QED
      BY <1>3, <1>4, <2>1 DEF b
  <1>5. ASSUME NEW i \in DOMAIN a, LastAlive(a) = a[i], life[a[i]] = "alive",
               \A j \in DOMAIN a : j > i => life[a[j]] # "alive", i # n
        PROVE  LastAlive(b) = LastAlive(a)
    <2>1. i \in DOMAIN b /\ b[i] = a[i]
      BY <1>1, <1>5
    <2>2. PICK k \in DOMAIN b : /\ LastAlive(b) = b[k] /\ life[b[k]] = "alive"
                                /\ \A j \in DOMAIN b : j > k => life[b[j]] # "alive"
      BY <1>3, <1>5, <2>1
    <2>3. k \in DOMAIN a /\ a[k] = b[k]
      BY <1>1
    <2>4. k = i
      BY <1>1, <1>5, <2>1, <2>2, <2>3
    <2> QED
      BY <2>1, <2>2, <2>4, <1>5
  <1> QED
    BY <1>2, <1>4, <1>5, LastAliveIs DEF b

LEMMA CurrentOfAppend ==
    ASSUME NEW b \in Seq(Popup), NEW p \in Popup, life[p] = "alive"
    PROVE  LastAlive(Append(b, p)) = p
  <1> DEFINE a == Append(b, p)
             n == Len(b) + 1
  <1>1. a \in Seq(Popup) /\ n \in Nat /\ DOMAIN a = 1 .. n /\ a[n] = p /\ n \in DOMAIN a
    OBVIOUS
  <1> HIDE DEF a, n
  <1>2. PICK i \in DOMAIN a : /\ LastAlive(a) = a[i]
                              /\ \A j \in DOMAIN a : j > i => life[a[j]] # "alive"
    BY <1>1, LastAliveIs
  <1>3. i = n
    BY <1>1, <1>2
  <1> QED
    BY <1>1, <1>2, <1>3 DEF a

-----------------------------------------------------------------------------
(* Popups: the keyboard focus follows the current grab.                      *)

LEMMA RootIsNoPopup == Root \notin Popup /\ Root # None
  BY PopupConstants

(* A step of the client that leaves the lists alone.                         *)
ClientStep ==
    /\ UNCHANGED <<active, dismissed, kbd, ptr, gserial>> /\ life'[Root] = life[Root]
    /\ \A p \in Heard : life'[p] = life[p] \/ life'[p] = "dead"
    /\ \A p \in Popup : life[p] = "dead" => life'[p] = "dead"

LEMMA ClientSteps ==
    ASSUME PopupInv, NEW p \in Popup,
           \/ \E par \in Popup \cup {Root, None} : TrackPopup(p, par)
           \/ CommitUnmapped(p) \/ UnmapPopup(p) \/ DestroyPopup(p)
    PROVE  ClientStep
  <1>1. CASE \E par \in Popup \cup {Root, None} : TrackPopup(p, par)
    <2>1. life[p] = "unborn" /\ life' = [life EXCEPT ![p] = "alive"]
          /\ UNCHANGED <<active, dismissed, kbd, ptr, gserial>>
      BY <1>1 DEF TrackPopup, grabVars
    <2>2. p \notin Heard /\ Heard \subseteq Popup
      BY <2>1 DEF Heard
    <2>3. \A q \in Popup \cup {Root} : q # p => life'[q] = life[q]
      BY <2>1 DEF PopupInv, PopupTyped
    <2> QED
      BY <2>1, <2>2, <2>3, RootIsNoPopup DEF ClientStep
  <1>2. CASE CommitUnmapped(p) \/ UnmapPopup(p)
    BY <1>2 DEF CommitUnmapped, UnmapPopup, ClientStep, grabVars
  <1>3. CASE DestroyPopup(p)
    <2>1. UNCHANGED <<active, dismissed, kbd, ptr, gserial>> /\ life' = [life EXCEPT ![p] = "dead"]
      BY <1>3 DEF DestroyPopup, grabVars
    <2>2. \A q \in Popup \cup {Root} : life'[q] = IF q = p THEN "dead" ELSE life[q]
      BY <2>1 DEF PopupInv, PopupTyped
    <2> QED
      BY <2>1, <2>2, RootIsNoPopup DEF ClientStep, Heard
  <1> QED
    BY <1>1, <1>2, <1>3

(* Popups that are dead or dismissed.                                        *)
Over == dismissed \cup {p \in Popup : life[p] = "dead"}

LEMMA TopKept ==
    ASSUME PopupInv, KeyboardOnTopmost, ClientStep
    PROVE  KeyboardOnTopmost'
  <1> SUFFICES ASSUME kbd'.grab.kind = "popup", ~ HasEnded(active)'
               PROVE  kbd'.focus = CurrentGrab(active)' \/ kbd'.focus \in Over'
    BY DEF KeyboardOnTopmost, Over
  <1>1. kbd' = kbd /\ kbd.grab.kind = "popup" /\ ~ HasEnded(active)
    BY DEF ClientStep, HasEnded
  <1>2. kbd.focus = CurrentGrab(active) \/ kbd.focus \in Over
    BY <1>1 DEF KeyboardOnTopmost, Over
  <1>3. kbd.focus \in Over => kbd'.focus \in Over'
    BY <1>1 DEF Over, ClientStep
  <1>4. \A i \in DOMAIN active : active[i] \in Heard
    BY DEF PopupInv, TreeInv, OnlyHeard
  <1>5. \A i \in DOMAIN active : life'[active[i]] = "alive" => life[active[i]] = "alive"
    BY <1>4 DEF ClientStep
  <1>6. \/ LastAlive(active)' = LastAlive(active)
        \/ /\ LastAlive(active) # None /\ LastAlive(active) \in Popup
           /\ life[LastAlive(active)] = "alive" /\ life'[LastAlive(active)] # "alive"
    BY <1>5, CurrentStays DEF PopupInv, ClientStep
  <1>7. CASE LastAlive(active)' = LastAlive(active)
    BY <1>1, <1>2, <1>3, <1>7 DEF CurrentGrab
  <1>8. ASSUME LastAlive(active) # None, LastAlive(active) \in Popup,
               life[LastAlive(active)] = "alive", life'[LastAlive(active)] # "alive",
               kbd.focus = CurrentGrab(active)
        PROVE  kbd'.focus \in Over'
    <2>1. PICK i \in DOMAIN active : LastAlive(active) = active[i]
      <3>1. active \in Seq(Popup)
        BY DEF PopupInv, PopupTyped
      <3> QED
        BY <1>8, <3>1, LastAliveIs
    <2>2. life'[LastAlive(active)] = "dead"
      BY <1>4, <1>8, <2>1 DEF ClientStep
    <2> QED
      BY <1>1, <1>8, <2>2 DEF CurrentGrab, Over
  <1> QED
    BY <1>2, <1>3, <1>6, <1>7, <1>8

LEMMA TopLiving ==
    ASSUME PopupInv, KeyboardOnTopmost, UNCHANGED <<life, kbd>>,
           active' \in {active, Living(active)},
           dismissed' \in {dismissed, {q \in dismissed : IsAlive(q)}}
    PROVE  KeyboardOnTopmost'
  <1> SUFFICES ASSUME kbd'.grab.kind = "popup", ~ HasEnded(active)'
               PROVE  kbd'.focus = CurrentGrab(active)' \/ kbd'.focus \in Over'
    BY DEF KeyboardOnTopmost, Over
  <1>0. active \in Seq(Popup)
    BY DEF PopupInv, PopupTyped
  <1>1. kbd.grab.kind = "popup" /\ life[Root] = "alive" /\ active' # <<>>
    BY DEF HasEnded
  <1>2. active # <<>>
    <2> SUFFICES ASSUME active = <<>>, active' = Living(active) PROVE FALSE
      BY <1>1
    <2> DEFINE b == Living(active)
    <2>0. DOMAIN active = {}
      OBVIOUS
    <2>1. DOMAIN active = {} /\ b \in Seq(Popup)
      BY ONLY <1>0, <2>0, LivingIs
    <2>2. \A j \in DOMAIN b : FALSE
      BY <1>0, <2>1, LivingIs
    <2> HIDE DEF b
    <2>3. b = <<>>
      BY <2>1, <2>2
    <2> QED
      BY <1>1, <2>3 DEF b
  <1>3. LastAlive(active)' = LastAlive(active)
    <2>1. CASE active' = active
      BY <2>1 DEF LastAlive, SelectLastInSeq, IsAlive
    <2>2. CASE active' = Living(active)
      <3>1. LastAlive(active)' = LastAlive(Living(active))
        BY <2>2 DEF LastAlive, SelectLastInSeq, IsAlive
      <3> QED
        BY <1>0, <3>1, LivingLast DEF PopupInv
    <2> QED
      BY <2>1, <2>2
  <1>4. kbd.focus = CurrentGrab(active) \/ kbd.focus \in Over
    BY <1>1, <1>2 DEF KeyboardOnTopmost, HasEnded, Over
  <1>5. Over \subseteq Over'
    <2> SUFFICES ASSUME NEW q \in Over PROVE q \in Over'
      OBVIOUS
    <2>1. q \in Popup /\ (q \in dismissed => life[q] \in {"alive", "dead"})
      BY DEF Over, PopupInv, TreeInv, OnlyHeard, Heard, PopupTyped
    <2> QED
      BY <2>1 DEF Over, IsAlive
  <1> QED
    BY <1>3, <1>4, <1>5 DEF CurrentGrab

(* An ungrab of all popups leaves no grab.                                   *)
LEMMA UngrabAllEnds ==
    ASSUME NEW a, NEW d, UngrabAll(a, d)
    PROVE  active' = <<>>
  BY DEF UngrabAll, Ungrab

LEMMA EndedIsOnTop ==
    ASSUME active' = <<>> \/ life'[Root] # "alive" \/ kbd'.grab.kind # "popup"
    PROVE  KeyboardOnTopmost'
  BY DEF KeyboardOnTopmost, HasEnded

LEMMA TopGrab ==
    ASSUME PopupInv, KeyboardOnTopmost, NEW p \in Popup, NEW s \in 1 .. MaxSerial, GrabPopup(p, s)
    PROVE  KeyboardOnTopmost'
  <1> DEFINE kept == {q \in dismissed : IsAlive(q)}
             a == Append(Living(active), p)
             g == PopupGrabOf(s)
             k == [focus |-> KbdSetFocus(kbd, a, p).focus, grab |-> g]
  <1>0. PopupTyped
    BY DEF PopupInv
  <1>1. life[p] = "alive" /\ life[Root] = "alive" /\ UNCHANGED life
    BY <1>0, GrabPopupIs
  <1>2. CASE InstallGrab(p, a, kept, g)
    <2>1. a # <<>> /\ LastAlive(a) = p /\ p # None
      <3>1. Living(active) \in Seq(Popup)
        BY <1>0, LivingIs DEF PopupTyped
      <3>2. LastAlive(a) = p
        BY <1>1, <3>1, CurrentOfAppend
      <3>3. a # <<>>
        <4> DEFINE b == Living(active)
        <4> HIDE DEF b
        <4>1. Append(b, p) # <<>>
          BY <3>1 DEF b
        <4> QED
          BY <4>1 DEF b
      <3> QED
        BY <3>2, <3>3, PopupConstants
    <2>2. KbdSetFocus(kbd, a, p).focus = p
      <3>1. CurrentGrab(a) = p /\ ~ HasEnded(a)
        BY <1>1, <2>1 DEF CurrentGrab, HasEnded
      <3>2. kbd \in KbdState
        BY <1>0 DEF PopupTyped, KbdState
      <3> HIDE DEF a
      <3> QED
        BY <3>1, <3>2 DEF KbdSetFocus, KbdState
    <2>3. \/ UngrabAll(a, kept)
          \/ kbd' = UnsetKeyboardGrab(k, ptr.grab) /\ active' = a
      BY <1>2 DEF InstallGrab
    <2>4. CASE UngrabAll(a, kept)
      BY <2>4, UngrabAllEnds, EndedIsOnTop
    <2>5. CASE kbd' = UnsetKeyboardGrab(k, ptr.grab) /\ active' = a
      <3>1. kbd'.focus = p \/ kbd'.grab.kind # "popup"
        BY <2>2, <2>5 DEF UnsetKeyboardGrab, NoGrab
      <3>2. LastAlive(active)' = p
        BY <1>1, <2>1, <2>5, CurrentOf
      <3> QED
        BY <2>1, <3>1, <3>2 DEF KeyboardOnTopmost, CurrentGrab
    <2> QED
      BY <2>3, <2>4, <2>5
  <1>3. CASE active' = Living(active) /\ dismissed' = kept /\ UNCHANGED kbd
    BY <1>1, <1>3, TopLiving
  <1> QED
    BY <1>0, <1>2, <1>3, GrabPopupIs

LEMMA TopUngrab == ASSUME PopupInv, KeyboardOnTopmost, UngrabTopmost PROVE KeyboardOnTopmost'
  <1>1. UNCHANGED <<life, kbd>> /\ active # <<>> /\ active \in Seq(Popup)
    BY DEF UngrabTopmost, PopupInv, PopupTyped
  <1>2. CASE life[Root] # "alive"
    BY <1>1, <1>2, EndedIsOnTop
  <1>3. CASE life[Root] = "alive"
    <2>1. active' = Front(active) /\ dismissed' = dismissed \cup {Last(active)}
      BY <1>3 DEF UngrabTopmost, Ungrab
    <2>2. LastAlive(active)' = LastAlive(Front(active))
      BY <1>1, <2>1 DEF LastAlive, SelectLastInSeq, IsAlive
    <2>3. LastAlive(Front(active)) = LastAlive(active) \/ LastAlive(active) = Last(active)
      BY <1>1, CurrentOfFront
    <2>4. Last(active) # None
      BY <1>1, PopupConstants DEF Last
    <2>5. Over \cup {Last(active)} \subseteq Over'
      BY <1>1, <2>1 DEF Over
    <2> SUFFICES ASSUME kbd'.grab.kind = "popup", ~ HasEnded(active)'
                 PROVE  kbd'.focus = CurrentGrab(active)' \/ kbd'.focus \in Over'
      BY DEF KeyboardOnTopmost, Over
    <2>6. kbd.focus = CurrentGrab(active) \/ kbd.focus \in Over
      BY <1>1, <1>3 DEF KeyboardOnTopmost, HasEnded, Over
    <2> QED
      BY <1>1, <2>2, <2>3, <2>4, <2>5, <2>6 DEF CurrentGrab
  <1> QED
    BY <1>2, <1>3

LEMMA TopDevice == ASSUME PopupInv, KeyboardOnTopmost, DeviceStep PROVE KeyboardOnTopmost'
  <1>0. UNCHANGED <<life, active, dismissed>>
    BY DeviceStepIs DEF clientVars, grabVars
  <1>1. /\ HasEnded(active)' = HasEnded(active) /\ Over' = Over
        /\ CurrentGrab(active)' = CurrentGrab(active)
    BY <1>0 DEF HasEnded, Over, CurrentGrab, LastAlive, SelectLastInSeq, IsAlive
  <1>2. kbd \in KbdState
    BY DEF PopupInv, PopupTyped, KbdState
  <1>3. \/ kbd' = kbd \/ kbd'.grab.kind # "popup"
        \/ HasEnded(active) \/ kbd'.focus = CurrentGrab(active)
    <2>1. ASSUME NEW f \in Target, SetKeyboardFocus(f)
          PROVE  \/ kbd' = kbd \/ kbd'.grab.kind # "popup"
                 \/ HasEnded(active) \/ kbd'.focus = CurrentGrab(active)
      <3>1. kbd' = KbdSetFocus(kbd, active, f)
        BY <2>1 DEF SetKeyboardFocus
      <3> QED
        BY <1>2, <3>1 DEF KbdSetFocus, KbdState
    <2>2. KeyInput => \/ kbd' = kbd \/ kbd'.grab.kind # "popup"
                      \/ HasEnded(active) \/ kbd'.focus = CurrentGrab(active)
      BY <1>2 DEF KeyInput, KbdInput, KbdState, NoGrab
    <2>3. kbd' \in {kbd, UnsetKeyboardGrab(kbd, ptr.grab)} => kbd' = kbd \/ kbd'.grab.kind # "popup"
      BY DEF UnsetKeyboardGrab, NoGrab
    <2>4. \A f \in {Root, Other} : PointerMotion(f) =>
             kbd' \in {kbd, UnsetKeyboardGrab(kbd, ptr.grab)}
      BY DEF PointerMotion
    <2>5. PointerRelease => kbd' \in {kbd, UnsetKeyboardGrab(kbd, ptr.grab)}
      BY DEF PointerRelease
    <2>6. ImeGrab => kbd'.grab.kind # "popup"
      BY <1>2 DEF ImeGrab, NoGrab, KbdState
    <2>7. ImeRelease => kbd'.grab.kind # "popup"
      BY <1>2 DEF ImeRelease, NoGrab, KbdState
    <2> QED
      BY <2>1, <2>2, <2>3, <2>4, <2>5, <2>6, <2>7 DEF DeviceStep
  <1> QED
    BY <1>1, <1>3 DEF KeyboardOnTopmost, Over

(* The keyboard of a popup grab is on its topmost living popup, or on one    *)
(* that is dead or dismissed since (KeyboardOnTopmost), for any number of    *)
(* popups and whatever serials the client grabs with.                        *)
THEOREM KeyboardFollowsGrab == PopupSpec => []KeyboardOnTopmost
  <1>1. PopupInit => KeyboardOnTopmost
    BY DEF PopupInit, KeyboardOnTopmost, NoGrab
  <1>2. ASSUME PopupInv, KeyboardOnTopmost, [PopupNext]_popupVars PROVE KeyboardOnTopmost'
    <2>1. CASE DestroyRoot
      <3>1. life'[Root] # "alive"
        BY <1>2, <2>1 DEF DestroyRoot, PopupInv, PopupTyped
      <3> QED
        BY <3>1, EndedIsOnTop
    <2>2. CASE Cleanup
      BY <1>2, <2>2, TopLiving DEF Cleanup
    <2>3. CASE PointerPress
      <3>1. UNCHANGED life /\ kbd' \in {kbd, UnsetKeyboardGrab(kbd, ptr.grab)}
        BY <2>3 DEF PointerPress
      <3>2. CASE UngrabAll(active, dismissed)
        BY <3>2, UngrabAllEnds, EndedIsOnTop
      <3>3. CASE UNCHANGED <<active, dismissed>> /\ UNCHANGED kbd
        BY <1>2, <3>1, <3>3, TopLiving
      <3>4. CASE kbd' # kbd
        <4>1. kbd'.grab.kind # "popup"
          BY <3>1, <3>4 DEF UnsetKeyboardGrab, NoGrab
        <4> QED
          BY <4>1, EndedIsOnTop
      <3>5. UngrabAll(active, dismissed) \/ UNCHANGED <<active, dismissed>>
        BY <2>3 DEF PointerPress
      <3> QED
        BY <3>2, <3>3, <3>4, <3>5
    <2>4. CASE UNCHANGED popupVars
      BY <1>2, <2>4, TopLiving DEF popupVars
    <2>5. ASSUME NEW p \in Popup, NEW s \in 1 .. MaxSerial, GrabPopup(p, s) PROVE KeyboardOnTopmost'
      BY <1>2, <2>5, TopGrab
    <2>6. ASSUME NEW p \in Popup,
                 \/ \E par \in Popup \cup {Root, None} : TrackPopup(p, par)
                 \/ CommitUnmapped(p) \/ UnmapPopup(p) \/ DestroyPopup(p)
          PROVE  KeyboardOnTopmost'
      BY <1>2, <2>6, ClientSteps, TopKept
    <2> QED
      BY <1>2, <2>1, <2>2, <2>3, <2>4, <2>5, <2>6, TopUngrab, TopDevice DEF PopupNext, DeviceStep
  <1> QED
    BY <1>1, <1>2, PopupInvInit, PopupInvStep, PTL DEF PopupSpec

-----------------------------------------------------------------------------
(* Popups: both devices stay in the hands of the grab.                       *)

(* The grabs a device may have for popups: no newer than the newest serial,  *)
(* and started on the root.                                                  *)
OldGrab(g) == g.kind = "popup" => g.serial <= gserial /\ g.prev <= gserial /\ g.focus = Root

HeldInv == GrabHeld /\ OldGrab(kbd.grab) /\ OldGrab(ptr.grab)

(* The lists are as before or shorter, and the devices keep their grabs.     *)
LEMMA HeldKept ==
    ASSUME HeldInv, UNCHANGED gserial,
           kbd'.grab.kind = "popup" => kbd'.grab = kbd.grab,
           ptr'.grab.kind = "popup" => ptr'.grab = ptr.grab,
           life'[Root] = "alive" /\ LastAlive(active)' # None =>
              /\ life[Root] = "alive" /\ LastAlive(active) # None
              /\ (GrabHeld => kbd'.grab = kbd.grab /\ ptr'.grab = ptr.grab)
    PROVE  HeldInv'
  <1>1. OldGrab(kbd.grab)' /\ OldGrab(ptr.grab)'
    BY DEF OldGrab, HeldInv
  <1>2. GrabHeld'
    BY DEF GrabHeld, HeldInv
  <1> QED
    BY <1>1, <1>2 DEF HeldInv

LEMMA HeldGrab ==
    ASSUME PopupInv, HeldInv, ReuseSerials = FALSE, NEW p \in Popup, NEW s \in 1 .. MaxSerial,
           GrabPopup(p, s)
    PROVE  HeldInv'
  <1> DEFINE kept == {q \in dismissed : IsAlive(q)}
             a == Append(Living(active), p)
             f == KbdSetFocus(kbd, a, p).focus
  <1>0. PopupTyped /\ s \in Nat /\ gserial \in Nat
    BY PopupConstants DEF PopupInv, PopupTyped
  <1>1. UNCHANGED life /\ s > gserial
    BY <1>0, GrabPopupIs
  <1>2. PICK g : /\ g = PopupGrabOf(s) /\ g.kind = "popup" /\ g.serial = s /\ g.focus = Root
                 /\ g.prev \in {s, gserial}
    <2>1. /\ PopupGrabOf(s).kind = "popup" /\ PopupGrabOf(s).serial = s
          /\ PopupGrabOf(s).focus = Root /\ PopupGrabOf(s).prev \in {s, gserial}
      BY DEF PopupGrabOf
    <2> QED
      BY <2>1
  <1>3. CASE InstallGrab(p, a, kept, g) /\ gserial' = s
    <2> DEFINE k == [focus |-> f, grab |-> g]
    <2>1. g.serial <= s /\ g.prev <= s
      BY <1>0, <1>1, <1>2
    <2>2. /\ kbd.grab.kind = "popup" =>
               kbd.grab.serial <= s /\ kbd.grab.prev <= s /\ kbd.grab.focus = Root
          /\ ptr.grab.kind = "popup" => /\ ptr.grab.serial < s /\ ptr.grab.prev < s
                                        /\ ptr.grab.focus = Root
      <3>1. /\ kbd.grab.serial \in Nat /\ kbd.grab.prev \in Nat
            /\ ptr.grab.serial \in Nat /\ ptr.grab.prev \in Nat
        BY <1>0 DEF PopupTyped, PopupGrabType
      <3> QED
        BY <1>0, <1>1, <3>1 DEF HeldInv, OldGrab
    <2>3. \/ UngrabAll(a, kept) /\ kbd' \in {kbd, k} /\ UNCHANGED ptr
          \/ /\ kbd' = UnsetKeyboardGrab(k, ptr.grab) /\ ptr' = [ptr EXCEPT !.grab = g]
      BY <1>3 DEF InstallGrab
    <2>4. k.grab = g
      OBVIOUS
    <2> HIDE DEF k
    <2>5. CASE UngrabAll(a, kept) /\ kbd' \in {kbd, k} /\ UNCHANGED ptr
      <3>1. active' = <<>>
        BY <2>5, UngrabAllEnds
      <3>2. LastAlive(active)' = None
        BY <3>1 DEF LastAlive, SelectLastInSeq
      <3>3. GrabHeld'
        BY <3>2 DEF GrabHeld
      <3>4. OldGrab(kbd.grab)'
        BY <1>2, <1>3, <2>1, <2>2, <2>4, <2>5 DEF OldGrab
      <3>5. OldGrab(ptr.grab)'
        <4>1. ptr' = ptr /\ gserial' = s
          BY <1>3, <2>5
        <4>2. ptr.grab.kind = "popup" => ptr.grab.serial <= s /\ ptr.grab.prev <= s
          <5>1. ptr.grab.serial \in Nat /\ ptr.grab.prev \in Nat
            BY <1>0 DEF PopupTyped, PopupGrabType
          <5> QED
            BY <1>0, <2>2, <5>1
        <4> QED
          BY <2>2, <4>1, <4>2 DEF OldGrab
      <3> QED
        BY <3>3, <3>4, <3>5 DEF HeldInv
    <2>6. CASE kbd' = UnsetKeyboardGrab(k, ptr.grab) /\ ptr' = [ptr EXCEPT !.grab = g]
      <3>1. ptr.grab.kind = "popup" => s \notin {ptr.grab.serial, ptr.grab.prev}
        <4>1. ptr.grab.serial \in Nat /\ ptr.grab.prev \in Nat
          BY <1>0 DEF PopupTyped, PopupGrabType
        <4> QED
          BY <1>0, <2>2, <4>1
      <3>2. kbd' = k
        BY <1>2, <2>4, <2>6, <3>1 DEF UnsetKeyboardGrab
      <3>3. kbd'.grab = g /\ ptr'.grab = g
        BY <1>0, <2>4, <2>6, <3>2 DEF PopupTyped
      <3>4. GrabHeld'
        BY <1>2, <3>3 DEF GrabHeld
      <3>5. OldGrab(kbd.grab)' /\ OldGrab(ptr.grab)'
        BY <1>2, <1>3, <2>1, <3>3 DEF OldGrab
      <3> QED
        BY <3>4, <3>5 DEF HeldInv
    <2> QED
      BY <2>3, <2>5, <2>6
  <1>4. CASE active' = Living(active) /\ UNCHANGED <<gserial, kbd, ptr>>
    <2>1. LastAlive(active)' = LastAlive(Living(active))
      BY <1>1, <1>4 DEF LastAlive, SelectLastInSeq, IsAlive
    <2>2. LastAlive(active)' = LastAlive(active)
      BY <1>0, <2>1, LivingLast DEF PopupTyped
    <2> QED
      BY <1>1, <1>4, <2>2, HeldKept
  <1>5. \/ InstallGrab(p, a, kept, PopupGrabOf(s)) /\ gserial' = s
        \/ active' = Living(active) /\ UNCHANGED <<gserial, kbd, ptr>>
    BY <1>0, GrabPopupIs
  <1> QED
    BY <1>2, <1>3, <1>4, <1>5

(* A popup pointer grab is not dead while the root lives.                    *)
LEMMA HeldDevice == ASSUME PopupInv, HeldInv, DeviceStep PROVE HeldInv'
  <1> DEFINE held == life[Root] = "alive" /\ LastAlive(active) # None
  <1>0. UNCHANGED <<life, active, gserial>>
    BY DeviceStepIs DEF clientVars, grabVars
  <1>1. LastAlive(active)' = LastAlive(active)
    BY <1>0 DEF LastAlive, SelectLastInSeq, IsAlive
  <1>2. kbd \in KbdState /\ ptr \in PtrState
    BY DEF PopupInv, PopupTyped, KbdState, PtrState
  <1>3. held => /\ kbd.grab.kind = "popup" /\ ptr.grab.kind = "popup"
                /\ ~ PointerGrabDead /\ ~ HasEnded(active)
    <2> SUFFICES ASSUME held PROVE /\ kbd.grab.kind = "popup" /\ ptr.grab.kind = "popup"
                                   /\ ~ PointerGrabDead /\ ~ HasEnded(active)
      OBVIOUS
    <2>1. kbd.grab.kind = "popup" /\ ptr.grab.kind = "popup"
      BY DEF HeldInv, GrabHeld
    <2>2. ~ PointerGrabDead
      BY <2>1 DEF HeldInv, OldGrab, PointerGrabDead, IsAlive
    <2>3. active # <<>>
      <3> SUFFICES ASSUME active = <<>> PROVE FALSE
        OBVIOUS
      <3>1. LastAlive(active) = None
        BY DEF LastAlive, SelectLastInSeq
      <3> QED
        BY <3>1
    <2> QED
      BY <2>1, <2>2, <2>3 DEF HasEnded
  <1> HIDE DEF held
  <1>4. /\ kbd'.grab.kind = "popup" => kbd'.grab = kbd.grab
        /\ held => kbd'.grab = kbd.grab
    <2>1. ASSUME NEW f \in Target, SetKeyboardFocus(f)
          PROVE  /\ kbd'.grab.kind = "popup" => kbd'.grab = kbd.grab
                 /\ held => kbd'.grab = kbd.grab
      <3>1. kbd' = KbdSetFocus(kbd, active, f)
        BY <2>1 DEF SetKeyboardFocus
      <3> QED
        BY <1>2, <1>3, <3>1 DEF KbdSetFocus, KbdState, NoGrab
    <2>2. KeyInput => /\ kbd'.grab.kind = "popup" => kbd'.grab = kbd.grab
                      /\ held => kbd'.grab = kbd.grab
      BY <1>2, <1>3 DEF KeyInput, KbdInput, KbdState, NoGrab, HasEnded
    <2>3. kbd' = UnsetKeyboardGrab(kbd, ptr.grab) => kbd'.grab = kbd.grab \/ kbd'.grab.kind = "none"
      BY DEF UnsetKeyboardGrab, NoGrab
    <2>4. \A f \in {Root, Other} : PointerMotion(f) =>
             kbd' = kbd \/ (kbd' = UnsetKeyboardGrab(kbd, ptr.grab) /\ ~ held)
      BY <1>3 DEF PointerMotion
    <2>5. PointerRelease => kbd' = kbd \/ (kbd' = UnsetKeyboardGrab(kbd, ptr.grab) /\ ~ held)
      BY <1>3 DEF PointerRelease
    <2>6. ImeGrab => kbd'.grab.kind # "popup" /\ ~ held
      <3>1. ImeGrab => kbd'.grab.kind # "popup"
        BY <1>2 DEF ImeGrab, NoGrab, KbdState
      <3>2. ImeGrab => kbd.grab.kind = "none"
        BY DEF ImeGrab, NoGrab
      <3> QED
        BY <1>3, <3>1, <3>2
    <2>7. ImeRelease => kbd'.grab.kind # "popup" /\ ~ held
      BY <1>2, <1>3 DEF ImeRelease, NoGrab, KbdState
    <2> QED
      BY <2>1, <2>2, <2>3, <2>4, <2>5, <2>6, <2>7 DEF DeviceStep
  <1>5. /\ ptr'.grab.kind = "popup" => ptr'.grab = ptr.grab
        /\ held => ptr'.grab = ptr.grab
    <2>1. \A f \in {Root, Other} : PointerMotion(f) =>
             ptr'.grab = ptr.grab \/ (ptr'.grab = NoGrab /\ ~ held)
      BY <1>2, <1>3 DEF PointerMotion, PtrState
    <2>2. PointerRelease => ptr'.grab = ptr.grab \/ (ptr'.grab = NoGrab /\ ~ held)
      BY <1>2, <1>3 DEF PointerRelease, PtrState
    <2>3. NoGrab.kind = "none"
      BY DEF NoGrab
    <2> QED
      BY <2>1, <2>2, <2>3
         DEF DeviceStep, SetKeyboardFocus, KeyInput, ImeGrab, ImeRelease
  <1> QED
    BY <1>0, <1>1, <1>4, <1>5, HeldKept DEF held

LEMMA HeldPress == ASSUME PopupInv, HeldInv, PointerPress PROVE HeldInv'
  <1>1. UNCHANGED <<life, gserial>>
    BY DEF PointerPress
  <1>2. kbd \in KbdState /\ ptr \in PtrState
    BY DEF PopupInv, PopupTyped, KbdState, PtrState
  <1>3. kbd' \in {kbd, UnsetKeyboardGrab(kbd, ptr.grab)}
    BY DEF PointerPress
  <1>4. kbd'.grab.kind = "popup" => kbd'.grab = kbd.grab
    BY <1>3 DEF UnsetKeyboardGrab, NoGrab
  <1>5. ptr'.grab.kind = "popup" => ptr'.grab = ptr.grab
    <2> DEFINE click == [kind |-> "click", serial |-> serials', prev |-> serials',
                         focus |-> ptr.focus]
    <2>1. \/ ptr' = [ptr EXCEPT !.pressed = TRUE, !.focus = ptr.pending, !.grab = NoGrab]
          \/ ptr' = [ptr EXCEPT !.pressed = TRUE]
          \/ ptr' = [ptr EXCEPT !.pressed = TRUE, !.grab = click]
      BY DEF PointerPress
    <2>2. click.kind = "click" /\ NoGrab.kind = "none"
      BY DEF NoGrab
    <2> HIDE DEF click
    <2> QED
      BY <1>2, <2>1, <2>2 DEF PtrState
  <1>6. CASE UngrabAll(active, dismissed)
    <2>1. active' = <<>>
      BY <1>6, UngrabAllEnds
    <2>2. LastAlive(active)' = None
      BY <2>1 DEF LastAlive, SelectLastInSeq
    <2> QED
      BY <1>1, <1>4, <1>5, <2>2, HeldKept
  <1>7. CASE UNCHANGED active /\ ~ UngrabAll(active, dismissed)
    <2>1. LastAlive(active)' = LastAlive(active)
      BY <1>1, <1>7 DEF LastAlive, SelectLastInSeq, IsAlive
    <2>2. ASSUME life[Root] = "alive", LastAlive(active) # None
          PROVE  kbd'.grab = kbd.grab /\ ptr'.grab = ptr.grab
      <3>1. kbd.grab.kind = "popup" /\ ptr.grab.kind = "popup"
        BY <2>2 DEF HeldInv, GrabHeld
      <3>2. ~ PointerGrabDead
        BY <2>2, <3>1 DEF HeldInv, OldGrab, PointerGrabDead, IsAlive
      <3>3. active # <<>>
        <4> SUFFICES ASSUME active = <<>> PROVE FALSE
          OBVIOUS
        <4>1. LastAlive(active) = None
          BY DEF LastAlive, SelectLastInSeq
        <4> QED
          BY <2>2, <4>1
      <3>4. ~ HasEnded(active)
        BY <2>2, <3>3 DEF HasEnded
      <3>5. kbd' = kbd /\ ptr' = [ptr EXCEPT !.pressed = TRUE]
        BY <1>7, <3>1, <3>2, <3>4 DEF PointerPress
      <3> QED
        BY <1>2, <3>5 DEF PtrState
    <2> QED
      BY <1>1, <1>4, <1>5, <2>1, <2>2, HeldKept
  <1> QED
    BY <1>6, <1>7 DEF PointerPress

(* While a popup holds the explicit grab, keyboard and pointer are both in   *)
(* its hands (GrabHeld), if every grab comes with a newer serial than the    *)
(* grab before it, so that the pointer grab it replaces cannot take the new  *)
(* keyboard grab for its own.                                                *)
THEOREM DevicesStayGrabbed ==
    ASSUME ReuseSerials = FALSE PROVE PopupSpec => []GrabHeld
  <1>1. PopupInit => HeldInv
    <2> SUFFICES ASSUME PopupInit PROVE HeldInv
      OBVIOUS
    <2>1. LastAlive(active) = None
      BY DEF PopupInit, LastAlive, SelectLastInSeq
    <2>2. kbd.grab.kind # "popup" /\ ptr.grab.kind # "popup"
      BY DEF PopupInit, NoGrab
    <2> QED
      BY <2>1, <2>2 DEF HeldInv, GrabHeld, OldGrab
  <1>2. ASSUME PopupInv, HeldInv, [PopupNext]_popupVars PROVE HeldInv'
    <2>0. PopupTyped /\ active \in Seq(Popup)
      BY <1>2 DEF PopupInv, PopupTyped
    <2>1. CASE DestroyRoot
      <3>1. life'[Root] # "alive" /\ UNCHANGED <<gserial, kbd, ptr>>
        BY <2>0, <2>1 DEF DestroyRoot, PopupTyped, grabVars
      <3> QED
        BY <1>2, <3>1, HeldKept
    <2>2. CASE Cleanup
      <3>1. UNCHANGED <<life, gserial, kbd, ptr>> /\ active' \in {active, Living(active)}
        BY <2>2 DEF Cleanup
      <3>2. LastAlive(active)' \in {LastAlive(active), LastAlive(Living(active))}
        BY <3>1 DEF LastAlive, SelectLastInSeq, IsAlive
      <3>3. LastAlive(active)' = LastAlive(active)
        BY <2>0, <3>2, LivingLast
      <3> QED
        BY <1>2, <3>1, <3>3, HeldKept
    <2>3. CASE UngrabTopmost
      <3>1. UNCHANGED <<life, gserial, kbd, ptr>> /\ active # <<>>
        BY <2>3 DEF UngrabTopmost
      <3>2. LastAlive(active)' \in {None, LastAlive(Front(active))}
        <4>1. active' \in {<<>>, Front(active)}
          BY <2>3 DEF UngrabTopmost, Ungrab
        <4>2. CASE active' = <<>>
          BY <4>2 DEF LastAlive, SelectLastInSeq
        <4>3. CASE active' = Front(active)
          BY <3>1, <4>3 DEF LastAlive, SelectLastInSeq, IsAlive
        <4> QED
          BY <4>1, <4>2, <4>3
      <3>3. Last(active) # None
        BY <2>0, <3>1, PopupConstants DEF Last
      <3>4. LastAlive(active)' # None => LastAlive(active) # None
        BY <2>0, <3>1, <3>2, <3>3, CurrentOfFront
      <3> QED
        BY <1>2, <3>1, <3>4, HeldKept
    <2>4. CASE UNCHANGED popupVars
      <3>1. UNCHANGED <<life, active, gserial, kbd, ptr>>
        BY <2>4 DEF popupVars
      <3>2. LastAlive(active)' = LastAlive(active)
        BY <3>1 DEF LastAlive, SelectLastInSeq, IsAlive
      <3> QED
        BY <1>2, <3>1, <3>2, HeldKept
    <2>5. ASSUME NEW p \in Popup,
                 \/ \E par \in Popup \cup {Root, None} : TrackPopup(p, par)
                 \/ CommitUnmapped(p) \/ UnmapPopup(p) \/ DestroyPopup(p)
          PROVE  HeldInv'
      <3>1. ClientStep
        BY <1>2, <2>5, ClientSteps
      <3>2. \A i \in DOMAIN active : life'[active[i]] = "alive" => life[active[i]] = "alive"
        BY <1>2, <3>1 DEF ClientStep, PopupInv, TreeInv, OnlyHeard
      <3>3. LastAlive(active)' # None => LastAlive(active) # None
        BY <2>0, <3>1, <3>2, CurrentStays DEF ClientStep
      <3>4. UNCHANGED <<gserial, kbd, ptr>> /\ life'[Root] = life[Root]
        BY <3>1 DEF ClientStep
      <3> QED
        BY <1>2, <3>3, <3>4, HeldKept
    <2>6. ASSUME NEW p \in Popup, NEW s \in 1 .. MaxSerial, GrabPopup(p, s) PROVE HeldInv'
      BY <1>2, <2>6, HeldGrab
    <2> QED
      BY <1>2, <2>1, <2>2, <2>3, <2>4, <2>5, <2>6, HeldDevice, HeldPress DEF PopupNext, DeviceStep
  <1>3. HeldInv => GrabHeld
    BY DEF HeldInv
  <1> QED
    BY <1>1, <1>2, <1>3, PopupInvInit, PopupInvStep, PTL DEF PopupSpec

-----------------------------------------------------------------------------
(* The components of a seat and of the shell, each with its own invariant.   *)
DesktopInv ==
    /\ part \in {"keyboard", "pointer", "popups", "selection", "xdg"}
    /\ part = "keyboard" => KbdTypeOK
    /\ part = "pointer" => PtrTypeOK
    /\ part = "popups" => PopupInv
    /\ part = "selection" => SelInv
    /\ part = "xdg" => XdgInv

(* In every state of any of these components the values have their types:    *)
(* focuses, grabs and constraints name objects of their kind, what waits for *)
(* its turn is announced to a device that exists, a source that is used      *)
(* exists, and configures are within what was sent.                          *)
THEOREM DesktopTypes == DesktopSpec => []DesktopTypeOK
  <1>1. DesktopInit => DesktopInv
    BY KbdTypeInit, PtrTypeInit, PopupInvInit, SelInvInit, XdgInvInit DEF DesktopInit, DesktopInv
  <1>2. ASSUME DesktopInv, [DesktopNext]_desktopVars PROVE DesktopInv'
    <2>0. part' = part /\ part \in {"keyboard", "pointer", "popups", "selection", "xdg"}
      BY <1>2 DEF DesktopInv, DesktopNext, desktopVars
    <2>1. CASE part = "keyboard"
      <3>1. KbdTypeOK /\ [KbdNext]_kbdVars
        BY <1>2, <2>1 DEF DesktopInv, DesktopNext, desktopVars
      <3> QED BY <2>0, <2>1, <3>1, KbdTypeStep DEF DesktopInv
    <2>2. CASE part = "pointer"
      <3>1. PtrTypeOK /\ [PtrNext]_ptrVars
        BY <1>2, <2>2 DEF DesktopInv, DesktopNext, desktopVars
      <3> QED BY <2>0, <2>2, <3>1, PtrTypeStep DEF DesktopInv
    <2>3. CASE part = "popups"
      <3>1. PopupInv /\ [PopupNext]_popupVars
        BY <1>2, <2>3 DEF DesktopInv, DesktopNext, desktopVars
      <3> QED BY <2>0, <2>3, <3>1, PopupInvStep DEF DesktopInv
    <2>4. CASE part = "selection"
      <3>1. SelInv /\ [SelNext]_selVars
        BY <1>2, <2>4 DEF DesktopInv, DesktopNext, desktopVars
      <3> QED BY <2>0, <2>4, <3>1, SelInvStep DEF DesktopInv
    <2>5. CASE part = "xdg"
      <3>1. XdgInv /\ [XdgNext]_xdgVars
        BY <1>2, <2>5 DEF DesktopInv, DesktopNext, desktopVars
      <3> QED BY <2>0, <2>5, <3>1, XdgInvStep DEF DesktopInv
    <2> QED BY <2>0, <2>1, <2>2, <2>3, <2>4, <2>5
  <1>3. DesktopInv => DesktopTypeOK
    BY PopupTypes DEF DesktopInv, DesktopTypeOK, SelInv, XdgInv
  <1> QED BY <1>1, <1>2, <1>3, PTL DEF DesktopSpec
=============================================================================
