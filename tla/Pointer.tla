------------------------------- MODULE Pointer -------------------------------
(* PointerHandle, its default and click grabs and a compositor's move grab,  *)
(* and the protocol objects that follow the pointer focus: wl_pointer,       *)
(* gestures, and the lock or confinement of the pointer to a surface.        *)
(*                                                                           *)
(* A client has at most one wl_pointer and one gesture object (swipe, pinch  *)
(* and hold objects are alike and independent).  Coordinates, axes, cursor   *)
(* images, serials and constraint regions are left out.                      *)
EXTENDS Naturals, Seat

CONSTANTS
    PtrSurface,     \* surfaces, records with the field "client"
    Button,
    Constraint      \* zwp_locked_pointer / zwp_confined_pointer objects

ASSUME PointerConstants ==
    /\ \A s \in PtrSurface : s.client \in Client
    /\ None \notin PtrSurface \cup Constraint

VARIABLES
    ptrAlive,       \* surfaces that exist
    ptrFocus,       \* PointerInternal::focus
    ptrPending,     \* PointerInternal::pending_focus
    ptrGrab,        \* PointerInternal::grab: its kind and its start focus
    buttons,        \* PointerInternal::pressed_buttons
    wlPointers,     \* WlPointerHandle::known_pointers, by client
    gestures,       \* known gesture objects, by client
    conObjects,     \* constraint objects: the surface each is for
    oneShot,        \* those with the lifetime oneshot
    seen            \* what entering and leaving surfaces changes, a record of
                    \*   lastEnter: WlPointerHandle::last_enter is Some
                    \*   on: the surface each client's wl_pointer is on
                    \*   inProgress: PointerGestureUserData::in_progress_on
                    \*   constraint: PointerConstraintData, by surface
                    \*   active: the constraints that are active

ptrVars == <<ptrAlive, ptrFocus, ptrPending, ptrGrab, buttons, wlPointers, gestures,
             conObjects, oneShot, seen>>
conVars == <<conObjects, oneShot>>
ptrObjects == <<ptrAlive, wlPointers, gestures, conVars>>

NoPtrGrab == [kind |-> "none", focus |-> None]

PtrInit ==
    /\ ptrAlive = PtrSurface
    /\ ptrFocus = None /\ ptrPending = None /\ ptrGrab = NoPtrGrab /\ buttons = {}
    /\ wlPointers = {} /\ gestures = {} /\ conObjects = [o \in Constraint |-> None]
    /\ oneShot = {}
    /\ seen = [lastEnter |-> FALSE,
               on |-> [c \in Client |-> None],
               inProgress |-> [c \in Client |-> None],
               constraint |-> [s \in PtrSurface |-> None],
               active |-> {}]

-----------------------------------------------------------------------------
(* PointerConstraintRef::deactivate of the constraint of surface s: an       *)
(* active one is turned off, and a oneshot one is gone for good.             *)
Deactivate(v, s) ==
    LET o == v.constraint[s]
    IN  IF o \notin v.active THEN v
        ELSE [v EXCEPT !.active = @ \ {o},
                       !.constraint[s] = IF o \in oneShot THEN None ELSE @]

(* Wrong variant: leaving a surface keeps its constraint active.             *)
LeaveActive(v, s) ==
    [v EXCEPT !.inProgress[s.client] = None, !.on[s.client] = None, !.lastEnter = FALSE]

(* PointerTarget::leave and enter of a surface.  An event that names a dead  *)
(* object is not sent (external: the wayland backend refuses it).            *)
Leave(v, s) ==
    Deactivate([v EXCEPT !.inProgress[s.client] = None,
                         !.on[s.client] = None,
                         !.lastEnter = FALSE], s)

Enter(v, s) ==
    [v EXCEPT !.lastEnter = TRUE,
              !.on[s.client] = IF s.client \in wlPointers /\ s \in ptrAlive THEN s ELSE @]

(* Wrong variant: the new focus is entered before the old one is left.       *)
CrossingSwapped(old, new) ==
    IF old = new THEN seen
    ELSE LET in == IF new = None THEN seen ELSE Enter(seen, new)
         IN  IF old = None THEN in ELSE Leave(in, old)

(* PointerInternal::motion, with PointerTarget::replace: the new focus is    *)
(* entered after the old one was left.                                       *)
Crossing(old, new) ==
    IF old = new THEN seen
    ELSE LET left == IF old = None THEN seen ELSE Leave(seen, old)
         IN  IF new = None THEN left ELSE Enter(left, new)

MoveTo(f) == ptrFocus' = f /\ seen' = Crossing(ptrFocus, f)

(* PointerInternal::with_grab: the grab an event is handled by.  One whose   *)
(* start focus is dead is discarded.                                         *)
GrabInEffect ==
    IF ptrGrab.focus # None /\ ptrGrab.focus \notin ptrAlive THEN NoPtrGrab ELSE ptrGrab

(* Wrong variant: a click grab lets the focus follow the pointer.            *)
FocusUnderFree(grab, f) == IF grab.kind = "move" THEN None ELSE f

(* PointerHandle::motion over a surface or none, handled by the grab.        *)
FocusUnder(grab, f) ==
    CASE grab.kind = "none" -> f
      [] grab.kind = "click" -> grab.focus
      [] grab.kind = "move" -> None

PtrMotion(f) ==
    /\ f = None \/ f \in ptrAlive
    /\ ptrPending' = f
    /\ ptrGrab' = GrabInEffect
    /\ MoveTo(FocusUnder(GrabInEffect, f))
    /\ UNCHANGED <<buttons, ptrObjects>>

(* PointerHandle::button.  The press that finds no grab starts a click grab  *)
(* on the focus; the release of the last button ends either grab, and the    *)
(* move grab then restores the focus last seen under the pointer.            *)
PtrPress(b) ==
    /\ b \notin buttons
    /\ buttons' = buttons \cup {b}
    /\ ptrGrab' = IF GrabInEffect.kind # "none" THEN GrabInEffect
                  ELSE [kind |-> "click", focus |-> ptrFocus]
    /\ UNCHANGED <<ptrFocus, ptrPending, seen, ptrObjects>>

PtrRelease(b) ==
    /\ b \in buttons
    /\ buttons' = buttons \ {b}
    /\ ptrGrab' = IF buttons' = {} THEN NoPtrGrab ELSE GrabInEffect
    /\ IF buttons' = {} /\ GrabInEffect.kind = "move"
       THEN MoveTo(ptrPending)
       ELSE UNCHANGED <<ptrFocus, seen>>
    /\ UNCHANGED <<ptrPending, ptrObjects>>

(* PointerHandle::set_grab with Focus::Clear, as for an interactive move     *)
(* that a client asks for while its click lasts.                             *)
StartMove ==
    /\ ptrGrab.kind = "click" /\ ptrGrab.focus # None
    /\ ptrGrab' = [ptrGrab EXCEPT !.kind = "move"]
    /\ MoveTo(None)
    /\ UNCHANGED <<ptrPending, buttons, ptrObjects>>

(* Gesture begin, update and end, on the focus.                              *)
GestureBegin ==
    /\ ptrFocus # None /\ ptrFocus.client \in gestures
    /\ ptrGrab' = GrabInEffect
    /\ seen' = [seen EXCEPT !.inProgress[ptrFocus.client] = ptrFocus]
    /\ UNCHANGED <<ptrFocus, ptrPending, buttons, ptrObjects>>

GestureUpdate ==
    /\ ptrFocus # None /\ ptrFocus.client \in gestures
    /\ ptrGrab' = GrabInEffect
    /\ seen' = [seen EXCEPT !.inProgress[ptrFocus.client] =
                               IF @ = ptrFocus THEN @ ELSE None]
    /\ UNCHANGED <<ptrFocus, ptrPending, buttons, ptrObjects>>

GestureEnd ==
    /\ ptrFocus # None /\ ptrFocus.client \in gestures
    /\ ptrGrab' = GrabInEffect
    /\ seen' = [seen EXCEPT !.inProgress[ptrFocus.client] = None]
    /\ UNCHANGED <<ptrFocus, ptrPending, buttons, ptrObjects>>

-----------------------------------------------------------------------------
(* WlPointerHandle::new_pointer: a client binds its pointer, perhaps while   *)
(* it has the focus; the enter repeats the serial of the last one.           *)
NewPointer(c) ==
    /\ c \notin wlPointers
    /\ wlPointers' = wlPointers \cup {c}
    /\ seen' = IF ptrFocus \in ptrAlive /\ ptrFocus.client = c
               THEN [seen EXCEPT !.on[c] = ptrFocus] ELSE seen
    /\ UNCHANGED <<ptrAlive, ptrFocus, ptrPending, ptrGrab, buttons, gestures, conVars>>

ReleasePointer(c) ==
    /\ c \in wlPointers
    /\ wlPointers' = wlPointers \ {c}
    /\ seen' = [seen EXCEPT !.on[c] = None]
    /\ UNCHANGED <<ptrAlive, ptrFocus, ptrPending, ptrGrab, buttons, gestures, conVars>>

(* get_swipe_gesture and its like, and the object destroyed.                 *)
NewGesture(c) ==
    /\ c \notin gestures
    /\ gestures' = gestures \cup {c}
    /\ UNCHANGED <<ptrAlive, ptrFocus, ptrPending, ptrGrab, buttons, wlPointers,
                   conVars, seen>>

DestroyGesture(c) ==
    /\ c \in gestures
    /\ gestures' = gestures \ {c}
    /\ seen' = [seen EXCEPT !.inProgress[c] = None]
    /\ UNCHANGED <<ptrAlive, ptrFocus, ptrPending, ptrGrab, buttons, wlPointers, conVars>>

(* A surface is destroyed.  Nothing tells the pointer: focus, grab and       *)
(* constraint keep it until they are looked at again.                        *)
DestroyPtrSurface(s) ==
    /\ s \in ptrAlive
    /\ ptrAlive' = ptrAlive \ {s}
    /\ seen' = [seen EXCEPT !.on[s.client] = IF @ = s THEN None ELSE @]
    /\ UNCHANGED <<ptrFocus, ptrPending, ptrGrab, buttons, wlPointers, gestures, conVars>>

(* lock_pointer and confine_pointer, with add_constraint: a second           *)
(* constraint for a surface is a protocol error, which ends the client.      *)
(* new_constraint, as anvil implements it, activates it on the focus.        *)
NewConstraint(o, s, once) ==
    /\ conObjects[o] = None
    /\ s \in ptrAlive /\ seen.constraint[s] = None
    /\ conObjects' = [conObjects EXCEPT ![o] = s]
    /\ oneShot' = IF once THEN oneShot \cup {o} ELSE oneShot
    /\ seen' = [seen EXCEPT !.constraint[s] = o,
                            !.active = IF s = ptrFocus THEN @ \cup {o} ELSE @]
    /\ UNCHANGED <<ptrAlive, ptrFocus, ptrPending, ptrGrab, buttons, wlPointers, gestures>>

(* The compositor activates the constraint of the focus, or takes it away.   *)
ActivateConstraint ==
    /\ ptrFocus # None /\ seen.constraint[ptrFocus] \notin seen.active \cup {None}
    /\ seen' = [seen EXCEPT !.active = @ \cup {seen.constraint[ptrFocus]}]
    /\ UNCHANGED <<ptrFocus, ptrPending, ptrGrab, buttons, ptrObjects>>

DeactivateConstraint(s) ==
    /\ seen.constraint[s] \in seen.active
    /\ seen' = Deactivate(seen, s)
    /\ UNCHANGED <<ptrFocus, ptrPending, ptrGrab, buttons, ptrObjects>>

(* A constraint object is destroyed: remove_constraint drops whatever        *)
(* constraint its surface has.                                               *)
DestroyConstraint(o) ==
    LET s == conObjects[o]
    IN  /\ s # None
        /\ conObjects' = [conObjects EXCEPT ![o] = None]
        /\ oneShot' = oneShot \ {o}
        /\ seen' = [seen EXCEPT !.constraint[s] = None, !.active = @ \ {seen.constraint[s]}]
        /\ UNCHANGED <<ptrAlive, ptrFocus, ptrPending, ptrGrab, buttons, wlPointers, gestures>>

PtrNext ==
    \/ \E f \in PtrSurface \cup {None} : PtrMotion(f)
    \/ \E b \in Button : PtrPress(b) \/ PtrRelease(b)
    \/ StartMove \/ GestureBegin \/ GestureUpdate \/ GestureEnd
    \/ \E c \in Client :
          NewPointer(c) \/ ReleasePointer(c) \/ NewGesture(c) \/ DestroyGesture(c)
    \/ \E s \in PtrSurface :
          \/ DestroyPtrSurface(s) \/ DeactivateConstraint(s)
          \/ \E o \in Constraint, once \in BOOLEAN : NewConstraint(o, s, once)
    \/ ActivateConstraint
    \/ \E o \in Constraint : DestroyConstraint(o)

PtrSpec == PtrInit /\ [][PtrNext]_ptrVars

-----------------------------------------------------------------------------
PtrTypeOK ==
    /\ ptrAlive \subseteq PtrSurface
    /\ ptrFocus \in PtrSurface \cup {None} /\ ptrPending \in PtrSurface \cup {None}
    /\ ptrGrab \in [kind : {"none", "click", "move"}, focus : PtrSurface \cup {None}]
    /\ buttons \subseteq Button /\ wlPointers \subseteq Client /\ gestures \subseteq Client
    /\ conObjects \in [Constraint -> PtrSurface \cup {None}] /\ oneShot \subseteq Constraint
    /\ seen \in [lastEnter : BOOLEAN,
                 on : [Client -> PtrSurface \cup {None}],
                 inProgress : [Client -> PtrSurface \cup {None}],
                 constraint : [PtrSurface -> Constraint \cup {None}],
                 active : SUBSET Constraint]

(* Whatever order pointers are bound, surfaces die and the focus moves in,   *)
(* each client's wl_pointer is on the focus if that is its own and alive,    *)
(* and on nothing else; and last_enter is there for the wl_pointer that is   *)
(* bound next, whose enter unwraps it.                                       *)
PointerOnFocus ==
    /\ ptrFocus # None => seen.lastEnter
    /\ \A c \in Client :
          seen.on[c] = IF ptrFocus \in ptrAlive /\ ptrFocus.client = c /\ c \in wlPointers
                       THEN ptrFocus ELSE None

(* A click keeps the focus where it was pressed until the last button is up, *)
(* whatever the pointer crosses, and never outlives its buttons.             *)
ClickHoldsFocus ==
    ptrGrab.kind = "click" => buttons # {} /\ ptrFocus = ptrGrab.focus

(* A gesture in progress and an active constraint belong to the surface the  *)
(* pointer is on: leaving it ended every other one.                          *)
FollowsFocus ==
    /\ \A c \in Client : seen.inProgress[c] \in {None, ptrFocus}
    /\ \A s \in PtrSurface : seen.constraint[s] \in seen.active => s = ptrFocus

(* The comment on ConstraintRemove::Destroyed, "Client call destroy": only   *)
(* the constraint whose own object the client destroys goes away; one that   *)
(* has not been used up by its deactivation stays in place.                  *)
OnlyOwnConstraintDestroyed ==
    [][\A o \in Constraint : \A s \in PtrSurface :
          (seen.constraint[s] = o /\ conObjects'[o] = s /\ seen'.constraint[s] = None)
             => o \in seen.active]_ptrVars
=============================================================================
