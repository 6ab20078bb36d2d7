----------------------------- MODULE PopupGrabs -----------------------------
(* The popups of one toplevel and the explicit grab a seat holds for them:   *)
(* PopupManager and its PopupTree, the PopupGrabInternal kept in the seat,   *)
(* and the keyboard and the pointer of the seat as far as their focus and    *)
(* their grabs go (PopupKeyboardGrab, PopupPointerGrab, ClickGrab, the grab  *)
(* of an input method).  GrabPopup is the compositor's grab handler, taken   *)
(* from anvil, the compositor of the repository.                             *)
(*                                                                           *)
(* Key codes, locations and the objects the events travel on are left to     *)
(* Keyboard and Pointer: here an event is only the surface it goes to.       *)
EXTENDS Naturals, Sequences, SequencesExt, Subsequence, Seat

CONSTANTS
    Popup,          \* xdg_popups of the client
    Root,           \* the client's toplevel
    Other,          \* a surface of another client
    MaxSerial,      \* bound on the number of serials handed out
    ReuseSerials    \* the client may grab a nested popup with an old serial

ASSUME PopupConstants ==
    /\ Root # Other /\ None \notin Popup \cup {Root, Other}
    /\ {Root, Other} \cap Popup = {}
    /\ MaxSerial \in Nat /\ ReuseSerials \in BOOLEAN

VARIABLES
    life,       \* "unborn", "alive" or "dead", of the root and each popup
    parent,     \* XdgPopupSurfaceRoleAttributes::parent
    unmapped,   \* PopupManager::unmapped_popups
    node,       \* PopupTree of the root: the node each popup hangs under
    killed,     \* a protocol error was posted to the client
    active,     \* PopupGrabInternal::active_grabs
    dismissed,  \* PopupGrabInternal::dismissed_grabs
    gserial,    \* PopupGrabInternal::serial
    listed,     \* the seat's grabs are in PopupManager::popup_grabs
    serials,    \* how many serials the seat has handed out
    kbd,        \* KbdInternal: focus and grab
    ptr         \* PointerInternal: focus, pending_focus, grab, pressed_buttons

popupVars == <<life, parent, unmapped, node, killed, active, dismissed,
               gserial, listed, serials, kbd, ptr>>
clientVars == <<life, parent, unmapped, node, killed>>
grabVars == <<active, dismissed, gserial, listed>>

Target == Popup \cup {Root, Other, None}
NoGrab == [kind |-> "none", serial |-> 0, prev |-> 0, focus |-> None]

IsAlive(p) == p \in Popup \cup {Root} => life[p] = "alive"

SameClient(f, g) == f # None /\ (f = Other) = (g = Other)

-----------------------------------------------------------------------------
(* PopupTree.                                                               *)

(* The popups whose chain of parents reaches the root.  A popup that was     *)
(* destroyed or unmapped has lost its parent and breaks the chain.           *)
Rooted ==
    {p \in Popup : \A S \in SUBSET Popup :
        (\A q \in Popup : parent[q] \in S \cup {Root} => q \in S) => p \in S}

(* The popup and all that hang below it.                                     *)
Subtree(p) ==
    {q \in Popup : \A S \in SUBSET Popup :
        (p \in S /\ \A r \in Popup : node[r] \in S => r \in S) => q \in S}

(* PopupTree::insert: under the node of the parent, else at the top level.   *)
Under(par) == IF par \in Popup /\ node[par] # None THEN par ELSE Root

(* Wrong variant: the popups below stay.                                     *)
FoundAlone(p) == IF node[p] = None THEN {} ELSE {p}

(* PopupTree::dismiss_popup: the popup and all below it leave the tree, each *)
(* with a popup_done.                                                        *)
Found(p) == IF node[p] = None THEN {} ELSE Subtree(p)

Without(gone) == [p \in Popup |-> IF p \in gone THEN None ELSE node[p]]

-----------------------------------------------------------------------------
(* PopupGrabInternal and PopupGrab.  `a' is a value of active_grabs.         *)

LastAlive(a) ==
    LET i == SelectLastInSeq(a, IsAlive)
    IN  IF i = 0 THEN None ELSE a[i]

(* PopupGrabInternal::cleanup                                                *)
Living(a) == Select(a, {i \in DOMAIN a : IsAlive(a[i])})

CurrentGrab(a) == IF LastAlive(a) = None THEN Root ELSE LastAlive(a)

HasEnded(a) == life[Root] # "alive" \/ a = <<>>

(* PopupGrab::ungrab: the popup, with all below it in the tree, is told to   *)
(* go away, and gone becomes dismissed.  A dead root only drops the grabs.   *)
Ungrab(p, gone, rest, d) ==
    IF life[Root] = "alive"
    THEN /\ active' = rest
         /\ dismissed' = d \cup gone
         /\ node' = Without(Found(p))
    ELSE active' = <<>> /\ dismissed' = d /\ UNCHANGED node

UngrabAll(a, d) ==
    IF a # <<>> THEN Ungrab(a[1], ToSet(a), <<>>, d)
    ELSE active' = a /\ dismissed' = d /\ UNCHANGED node

-----------------------------------------------------------------------------
(* The keyboard.  k is a value of kbd.                                       *)

(* Wrong variant: the grab does not hold the focus.                          *)
KbdSetFocusFree(k, a, f) ==
    IF k.grab.kind = "popup" /\ HasEnded(a) THEN [focus |-> f, grab |-> NoGrab]
    ELSE [k EXCEPT !.focus = f]

(* KeyboardHandle::set_focus through the grab; a popup grab lets the focus   *)
(* move only to its topmost popup, or anywhere once it has ended.            *)
KbdSetFocus(k, a, f) ==
    IF k.grab.kind # "popup" THEN [k EXCEPT !.focus = f]
    ELSE IF HasEnded(a) THEN [focus |-> f, grab |-> NoGrab]
    ELSE IF CurrentGrab(a) = f THEN [k EXCEPT !.focus = f] ELSE k

(* A key event: a popup grab first moves the focus to its topmost popup.     *)
(* with_grab drops a grab whose root is dead before it gets there.           *)
KbdInput(k, a) ==
    IF k.grab.kind # "popup" THEN k
    ELSE IF life[Root] # "alive" THEN [k EXCEPT !.grab = NoGrab]
    ELSE [focus |-> CurrentGrab(a), grab |-> IF HasEnded(a) THEN NoGrab ELSE k.grab]

(* Wrong variant: whichever grab the keyboard has is unset.                  *)
UnsetAnyKeyboardGrab(k, g) ==
    IF g.kind = "popup" THEN [focus |-> Root, grab |-> NoGrab] ELSE k

(* PopupGrab::unset_keyboard_grab, run when the pointer grab g is unset.     *)
UnsetKeyboardGrab(k, g) ==
    IF g.kind = "popup" /\ k.grab # NoGrab /\ k.grab.serial \in {g.serial, g.prev}
    THEN [focus |-> Root, grab |-> NoGrab] ELSE k

-----------------------------------------------------------------------------
PopupInit ==
    /\ life = [x \in Popup \cup {Root} |-> IF x = Root THEN "alive" ELSE "unborn"]
    /\ parent = [p \in Popup |-> None] /\ node = [p \in Popup |-> None]
    /\ unmapped = {} /\ killed = FALSE
    /\ active = <<>> /\ dismissed = {} /\ gserial = 0 /\ listed = FALSE
    /\ serials = 0
    /\ kbd = [focus |-> Root, grab |-> NoGrab]
    /\ ptr = [focus |-> None, pending |-> None, grab |-> NoGrab, pressed |-> FALSE]

(* PopupManager::track_popup of a new popup, with its parent or still        *)
(* without one (a layer surface gives it later).                             *)
TrackPopup(p, par) ==
    /\ ~killed /\ life[p] = "unborn"
    /\ par # p /\ IsAlive(par)
    /\ life' = [life EXCEPT ![p] = "alive"]
    /\ parent' = [parent EXCEPT ![p] = par]
    /\ IF par = None THEN unmapped' = unmapped \cup {p} /\ node' = node
       ELSE /\ unmapped' = unmapped
            /\ node' = IF par = Root \/ par \in Rooted
                       THEN [node EXCEPT ![p] = Under(par)] ELSE node
    /\ UNCHANGED <<killed, grabVars, serials, kbd, ptr>>

(* The layer surface becomes the parent, and the popup is committed.         *)
CommitUnmapped(p) ==
    /\ ~killed /\ life[p] = "alive" /\ p \in unmapped
    /\ life[Root] = "alive"
    /\ parent' = [parent EXCEPT ![p] = Root]
    /\ node' = [node EXCEPT ![p] = Root]
    /\ unmapped' = unmapped \ {p}
    /\ UNCHANGED <<life, killed, grabVars, serials, kbd, ptr>>

(* A null buffer is committed: the role attributes are reset.                *)
UnmapPopup(p) ==
    /\ ~killed /\ life[p] = "alive" /\ parent[p] # None
    /\ parent' = [parent EXCEPT ![p] = None]
    /\ UNCHANGED <<life, unmapped, node, killed, grabVars, serials, kbd, ptr>>

(* xdg_popup::destroyed.  The tree and the grabs learn of it on cleanup.     *)
DestroyPopup(p) ==
    /\ life[p] = "alive"
    /\ life' = [life EXCEPT ![p] = "dead"]
    /\ parent' = [parent EXCEPT ![p] = None]
    /\ UNCHANGED <<unmapped, node, killed, grabVars, serials, kbd, ptr>>

(* The toplevel is destroyed, or the client is gone after a protocol error.  *)
DestroyRoot ==
    /\ life[Root] = "alive"
    /\ life' = IF killed
               THEN [x \in DOMAIN life |-> IF life[x] = "alive" THEN "dead" ELSE life[x]]
               ELSE [life EXCEPT ![Root] = "dead"]
    /\ parent' = IF killed THEN [p \in Popup |-> None] ELSE parent
    /\ UNCHANGED <<unmapped, node, killed, grabVars, serials, kbd, ptr>>

(* The keyboard and pointer part of anvil's grab handler: a and d are the    *)
(* active and dismissed grabs with p added, g is the grab to install, unless *)
(* the device is grabbed by somebody else: then all popups are dismissed.    *)
InstallGrab(p, a, d, g) ==
    LET mine(h) == h = NoGrab \/ h.serial \in {g.serial, g.prev}
        k == [focus |-> KbdSetFocus(kbd, a, p).focus, grab |-> g]
    IN  \/ /\ ~mine(kbd.grab)
           /\ UngrabAll(a, d) /\ UNCHANGED <<kbd, ptr>>
        \/ /\ mine(kbd.grab) /\ ~mine(ptr.grab)
           /\ UngrabAll(a, d) /\ kbd' = k /\ UNCHANGED ptr
        \/ /\ mine(kbd.grab) /\ mine(ptr.grab)
           /\ kbd' = UnsetKeyboardGrab(k, ptr.grab)
           /\ ptr' = [ptr EXCEPT !.grab = g]
           /\ active' = a /\ dismissed' = d
           /\ UNCHANGED node

(* A commit with xdg_popup.grab: PopupManager::grab_popup and, when it is    *)
(* granted, InstallGrab.  A client does not ask again for a popup that was   *)
(* told popup_done.                                                          *)
GrabPopup(p, s) ==
    LET alive == Living(active)
        kept == {q \in dismissed : IsAlive(q)}
        granted == LastAlive(active) \in {None, parent[p]}
    IN  /\ ~killed /\ life[p] = "alive" /\ life[Root] = "alive"
        /\ p \in Rooted \ dismissed
        /\ s \in 1..serials /\ (ReuseSerials \/ s > gserial)
        /\ listed' = (listed \/ (active = <<>> /\ dismissed = {}))
        /\ \/ /\ granted
              /\ gserial' = s
              /\ InstallGrab(p, Append(alive, p), kept,
                             [kind |-> "popup", serial |-> s, focus |-> Root,
                              prev |-> IF gserial = 0 THEN s ELSE gserial])
              /\ UNCHANGED killed
           \/ /\ ~granted /\ parent[p] \in kept
              /\ node' = Without(Found(p))
              /\ active' = alive /\ dismissed' = kept
              /\ UNCHANGED <<killed, gserial, kbd, ptr>>
           \/ /\ ~granted /\ parent[p] \notin kept
              /\ killed' = TRUE
              /\ active' = alive /\ dismissed' = kept
              /\ UNCHANGED <<node, gserial, kbd, ptr>>
        /\ UNCHANGED <<life, parent, unmapped, serials>>

(* The compositor dismisses the topmost popup (PopupUngrabStrategy::Topmost).*)
UngrabTopmost ==
    /\ active # <<>>
    /\ Ungrab(Last(active), {Last(active)}, Front(active), dismissed)
    /\ UNCHANGED <<life, parent, unmapped, killed, gserial, listed, serials, kbd, ptr>>

(* PopupManager::cleanup.  A node of a dead popup goes with all below it; a  *)
(* living popup directly below one is a protocol error.                      *)
Cleanup ==
    LET dead == {p \in Popup : node[p] # None /\ life[p] = "dead"}
        grabs == Living(active)
        kept == {q \in dismissed : IsAlive(q)}
    IN  /\ node' = Without(UNION {Subtree(p) : p \in dead})
        /\ killed' = (killed \/ \E p \in Popup : life[p] = "alive" /\ node[p] \in dead)
        /\ unmapped' = {p \in unmapped : IsAlive(p)}
        /\ IF listed THEN active' = grabs /\ dismissed' = kept
                         /\ listed' = (grabs # <<>> \/ kept # {})
           ELSE UNCHANGED <<active, dismissed, listed>>
        /\ UNCHANGED <<life, parent, gserial, serials, kbd, ptr>>

(* KeyboardHandle::set_focus, for example on a click on a window.            *)
SetKeyboardFocus(f) ==
    /\ IsAlive(f)
    /\ kbd' = KbdSetFocus(kbd, active, f)
    /\ UNCHANGED <<clientVars, grabVars, serials, ptr>>

(* KeyboardHandle::input; the key goes to the focus it leaves behind.        *)
KeyInput ==
    /\ kbd' = KbdInput(kbd, active)
    /\ UNCHANGED <<clientVars, grabVars, serials, ptr>>

(* An input method takes the keyboard while nobody has grabbed it, with a    *)
(* serial no client is told, and releases it.                                *)
ImeGrab ==
    /\ kbd.grab = NoGrab
    /\ kbd' = [kbd EXCEPT !.grab = [NoGrab EXCEPT !.kind = "ime", !.serial = MaxSerial + 1]]
    /\ UNCHANGED <<clientVars, grabVars, serials, ptr>>

ImeRelease ==
    /\ kbd.grab.kind = "ime"
    /\ kbd' = [kbd EXCEPT !.grab = NoGrab]
    /\ UNCHANGED <<clientVars, grabVars, serials, ptr>>

(* PointerInternal::with_grab drops a grab whose start focus is dead.        *)
PointerGrabDead == ptr.grab # NoGrab /\ ~IsAlive(ptr.grab.focus)

(* PointerHandle::motion over f, a surface of the client or not: a grab only *)
(* tells these two apart.                                                    *)
PointerMotion(f) ==
    LET ends == PointerGrabDead \/ (ptr.grab.kind = "popup" /\ HasEnded(active))
        focus == IF ends \/ ptr.grab = NoGrab THEN f
                 ELSE IF ptr.grab.kind = "click" THEN ptr.grab.focus
                 ELSE IF SameClient(f, CurrentGrab(active)) THEN f ELSE None
    IN  /\ IsAlive(f)
        /\ ptr' = [ptr EXCEPT !.pending = f, !.focus = focus,
                              !.grab = IF ends THEN NoGrab ELSE @]
        /\ kbd' = IF ends THEN UnsetKeyboardGrab(kbd, ptr.grab) ELSE kbd
        /\ UNCHANGED <<clientVars, grabVars, serials>>

(* PointerHandle::button, pressed.  A press outside the client dismisses all *)
(* its popups; without a grab the press starts a ClickGrab.                  *)
PointerPress ==
    LET popup == ptr.grab.kind = "popup" /\ ~PointerGrabDead
        ended == popup /\ HasEnded(active)
        outside == popup /\ ~ended /\ ~SameClient(ptr.focus, CurrentGrab(active))
        click == [kind |-> "click", serial |-> serials', prev |-> serials',
                  focus |-> ptr.focus]
    IN  /\ ~ptr.pressed /\ serials < MaxSerial
        /\ serials' = serials + 1
        /\ IF outside THEN UngrabAll(active, dismissed)
           ELSE UNCHANGED <<active, dismissed, node>>
        /\ kbd' = IF ended \/ outside \/ PointerGrabDead
                  THEN UnsetKeyboardGrab(kbd, ptr.grab) ELSE kbd
        /\ ptr' = IF ended \/ outside
                  THEN [ptr EXCEPT !.pressed = TRUE, !.focus = ptr.pending, !.grab = NoGrab]
                  ELSE IF popup \/ (ptr.grab.kind = "click" /\ ~PointerGrabDead)
                  THEN [ptr EXCEPT !.pressed = TRUE]
                  ELSE [ptr EXCEPT !.pressed = TRUE, !.grab = click]
        /\ UNCHANGED <<life, parent, unmapped, killed, gserial, listed>>

(* PointerHandle::button, released.                                          *)
PointerRelease ==
    LET ended == ptr.grab.kind = "popup" /\ HasEnded(active)
        over == PointerGrabDead \/ ended \/ ptr.grab.kind = "click"
    IN  /\ ptr.pressed
        /\ kbd' = IF PointerGrabDead \/ ended
                  THEN UnsetKeyboardGrab(kbd, ptr.grab) ELSE kbd
        /\ ptr' = [ptr EXCEPT !.pressed = FALSE,
                              !.focus = IF ended /\ ~PointerGrabDead THEN ptr.pending ELSE @,
                              !.grab = IF over THEN NoGrab ELSE @]
        /\ UNCHANGED <<clientVars, grabVars, serials>>

PopupNext ==
    \/ \E p \in Popup :
          \/ \E par \in Popup \cup {Root, None} : TrackPopup(p, par)
          \/ CommitUnmapped(p) \/ UnmapPopup(p) \/ DestroyPopup(p)
          \/ \E s \in 1..MaxSerial : GrabPopup(p, s)
    \/ DestroyRoot \/ UngrabTopmost \/ Cleanup
    \/ \E f \in Target : SetKeyboardFocus(f)
    \/ \E f \in {Root, Other} : PointerMotion(f)
    \/ KeyInput \/ ImeGrab \/ ImeRelease \/ PointerPress \/ PointerRelease

PopupSpec == PopupInit /\ [][PopupNext]_popupVars

-----------------------------------------------------------------------------
PopupTypeOK ==
    /\ life \in [Popup \cup {Root} -> {"unborn", "alive", "dead"}]
    /\ parent \in [Popup -> Popup \cup {Root, None}]
    /\ node \in [Popup -> Popup \cup {Root, None}]
    /\ unmapped \subseteq Popup /\ killed \in BOOLEAN
    /\ ToSet(active) \subseteq Popup /\ dismissed \subseteq Popup
    /\ gserial \in 0..MaxSerial /\ serials \in 0..MaxSerial /\ listed \in BOOLEAN
    /\ kbd.focus \in Target /\ ptr.focus \in Target /\ ptr.pending \in Target

(* The keyboard focus of a popup grab is on its topmost living popup, or     *)
(* still on a popup that was destroyed or dismissed since the last key: "The *)
(* focus of the keyboard will stay on the popup for as long as the grab is   *)
(* valid, that is as long as the compositor did not call ungrab or the       *)
(* client did not destroy the popup" (grab.rs, PopupGrab).                   *)
KeyboardOnTopmost ==
    (kbd.grab.kind = "popup" /\ ~HasEnded(active)) =>
        \/ kbd.focus = CurrentGrab(active)
        \/ kbd.focus \in dismissed \cup {p \in Popup : life[p] = "dead"}

(* While a popup holds the explicit grab, both devices are in its hands: the *)
(* keyboard grab is never lost to the pointer grab that replaces it.         *)
GrabHeld ==
    (life[Root] = "alive" /\ LastAlive(active) # None) =>
        kbd.grab.kind = "popup" /\ ptr.grab.kind = "popup"

(* Popups that were put at the top level of the tree since their own parent  *)
(* had left it, or never got into it, and all that hang below them.          *)
Misplaced ==
    UNION {Subtree(q) : q \in {p \in Popup : node[p] = Root /\ parent[p] # Root}}

(* A dismissed popup is not shown any more, although ungrab takes only the   *)
(* first of the grabs out of the tree and counts on the others to hang below *)
(* it; those that were misplaced do not.                                     *)
DismissedNotShown == \A p \in dismissed : node[p] # None => p \in Misplaced
=============================================================================
