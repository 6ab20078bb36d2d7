------------------------------ MODULE Keyboard ------------------------------
(* KeyboardHandle and the wl_keyboard objects it serves: which source holds  *)
(* which key, which presses were forwarded past the compositor's filter, the *)
(* focus, the grab of an input method, and what each client has been told.   *)
(*                                                                           *)
(* A client has one surface and at most one wl_keyboard.  Keymaps, modifier  *)
(* masks, leds, repeat rates and serials are left out; so is text-input.     *)
EXTENDS Naturals, Seat

CONSTANTS
    Key,        \* keycodes
    Source      \* KeyboardSource: the physical keyboard and virtual ones

VARIABLES
    keySources,     \* KbdInternal::key_sources
    forwardedKeys,  \* KbdInternal::forwarded_pressed_keys
    withheld,       \* keys whose press the compositor's filter intercepted
    kbdFocus,       \* KbdInternal::focus
    imeGrab,        \* an InputMethodKeyboardGrab is active
    knownKbds,      \* KbdRc::known_kbds, by client
    surfaceAlive,   \* clients whose surface exists
    leaveHook,      \* surfaces with a FocusDestroyHook
    entered,        \* clients between wl_keyboard enter and leave
    told,           \* keys each client takes to be pressed, from its events
    off             \* history: keys on which the focused client was passed by

kbdVars == <<keySources, forwardedKeys, withheld, kbdFocus, imeGrab, knownKbds,
             surfaceAlive, leaveHook, entered, told, off>>
kbdFocusVars == <<kbdFocus, knownKbds, surfaceAlive, leaveHook, entered>>

Pressed == {k \in Key : keySources[k] # {}}

KbdInit ==
    /\ keySources = [k \in Key |-> {}]
    /\ forwardedKeys = {} /\ withheld = {}
    /\ kbdFocus = None /\ imeGrab = FALSE
    /\ knownKbds = {} /\ surfaceAlive = Client /\ leaveHook = {}
    /\ entered = {} /\ told = [c \in Client |-> {}] /\ off = {}

-----------------------------------------------------------------------------
(* KeyboardHandle::forward of the events of several keys, all presses or all *)
(* releases: to the input method while its grab is active, else to the       *)
(* wl_keyboard of the focus.                                                 *)
Forward(keys, press) ==
    LET reached == IF imeGrab THEN {} ELSE {kbdFocus} \cap entered
    IN  /\ forwardedKeys' = IF press THEN forwardedKeys \cup keys ELSE forwardedKeys \ keys
        /\ told' = [c \in Client |-> IF c \notin reached THEN told[c]
                                     ELSE IF press THEN told[c] \cup keys
                                     ELSE told[c] \ keys]
        /\ off' = IF imeGrab THEN off \cup keys ELSE off \ keys

(* key_input and the filter on a press: only the first source to press a key *)
(* reaches the filter, which forwards it or keeps it for the compositor.     *)
KeyPress(src, k) ==
    /\ src \notin keySources[k]
    /\ keySources' = [keySources EXCEPT ![k] = @ \cup {src}]
    /\ \/ /\ keySources[k] # {}
          /\ UNCHANGED <<forwardedKeys, withheld, told, off>>
       \/ /\ keySources[k] = {}
          /\ Forward({k}, TRUE) /\ UNCHANGED withheld
       \/ /\ keySources[k] = {}
          /\ withheld' = withheld \cup {k}
          /\ UNCHANGED <<forwardedKeys, told, off>>
    /\ UNCHANGED <<kbdFocusVars, imeGrab>>

(* A release: only the last source to release a key reaches the filter,      *)
(* which keeps the releases of the presses it kept.                          *)
KeyRelease(src, k) ==
    /\ src \in keySources[k]
    /\ keySources' = [keySources EXCEPT ![k] = @ \ {src}]
    /\ \/ /\ keySources'[k] # {}
          /\ UNCHANGED <<forwardedKeys, withheld, told, off>>
       \/ /\ keySources'[k] = {} /\ k \notin withheld
          /\ Forward({k}, FALSE) /\ UNCHANGED withheld
       \/ /\ keySources'[k] = {} /\ k \in withheld
          /\ withheld' = withheld \ {k}
          /\ UNCHANGED <<forwardedKeys, told, off>>
    /\ UNCHANGED <<kbdFocusVars, imeGrab>>

(* Wrong variant: all keys of the source, whoever else holds them.           *)
UpWithAll(src) == {k \in Key : src \in keySources[k]}

(* release_source_keys: the keys no other source holds.                      *)
UpWith(src) == {k \in Key : keySources[k] = {src}}

(* release_source: the keys only this source holds go up, past the filter.   *)
ReleaseSource(src) ==
    LET up == UpWith(src)
    IN  /\ \E k \in Key : src \in keySources[k]
        /\ keySources' = [k \in Key |-> keySources[k] \ {src}]
        /\ withheld' = withheld \ up
        /\ Forward(up, FALSE)
        /\ UNCHANGED <<kbdFocusVars, imeGrab>>

(* Wrong variant: the enter lists the keys the filter kept, too.             *)
EnterKeysAll == Pressed

(* The keys a new focus is told with its enter.                              *)
EnterKeys == forwardedKeys

(* KeyboardInnerHandle::set_focus: leave for the old focus, enter with the   *)
(* forwarded keys for the new one.  The grab of an input method lets it      *)
(* through.                                                                  *)
SetFocus(f) ==
    /\ f = None \/ f \in surfaceAlive
    /\ f # kbdFocus
    /\ kbdFocus' = f
    /\ leaveHook' = (leaveHook \ {kbdFocus}) \cup ({f} \ {None})
    /\ entered' = (entered \ {kbdFocus}) \cup ({f} \cap knownKbds)
    /\ told' = [c \in Client |-> IF c \in {f} \cap knownKbds THEN EnterKeys ELSE {}]
    /\ off' = {}
    /\ UNCHANGED <<keySources, forwardedKeys, withheld, imeGrab, knownKbds, surfaceAlive>>

(* KeyboardHandle::new_kbd: a client binds its keyboard, perhaps while it    *)
(* has the focus; it is told all pressed keys, the withheld ones too.        *)
NewKbd(c) ==
    /\ c \notin knownKbds
    /\ knownKbds' = knownKbds \cup {c}
    /\ IF c = kbdFocus /\ c \in surfaceAlive
       THEN /\ entered' = entered \cup {c}
            /\ told' = [told EXCEPT ![c] = Pressed]
            /\ off' = withheld
       ELSE UNCHANGED <<entered, told, off>>
    /\ UNCHANGED <<keySources, forwardedKeys, withheld, kbdFocus, imeGrab,
                   surfaceAlive, leaveHook>>

(* The client destroys its wl_keyboard.                                      *)
ReleaseKbd(c) ==
    /\ c \in knownKbds
    /\ knownKbds' = knownKbds \ {c}
    /\ entered' = entered \ {c}
    /\ told' = [told EXCEPT ![c] = {}]
    /\ UNCHANGED <<keySources, forwardedKeys, withheld, kbdFocus, imeGrab,
                   surfaceAlive, leaveHook, off>>

(* Wrong variant: a surface that is gone is not left.                        *)
DestroySurfaceSilently(c) ==
    /\ c \in surfaceAlive
    /\ surfaceAlive' = surfaceAlive \ {c}
    /\ leaveHook' = leaveHook \ {c}
    /\ UNCHANGED <<keySources, forwardedKeys, withheld, kbdFocus, imeGrab, knownKbds,
                   entered, told, off>>

(* The surface is destroyed: the hook set on enter sends the leave.  The     *)
(* focus keeps the dead surface until it is set again.                       *)
DestroySurface(c) ==
    /\ c \in surfaceAlive
    /\ surfaceAlive' = surfaceAlive \ {c}
    /\ leaveHook' = leaveHook \ {c}
    /\ entered' = IF c \in leaveHook THEN entered \ {c} ELSE entered
    /\ told' = IF c \in leaveHook THEN [told EXCEPT ![c] = {}] ELSE told
    /\ UNCHANGED <<keySources, forwardedKeys, withheld, kbdFocus, imeGrab, knownKbds, off>>

(* The client creates another surface.                                       *)
NewSurface(c) ==
    /\ c \notin surfaceAlive /\ kbdFocus # c
    /\ surfaceAlive' = surfaceAlive \cup {c}
    /\ UNCHANGED <<keySources, forwardedKeys, withheld, kbdFocus, imeGrab, knownKbds,
                   leaveHook, entered, told, off>>

(* zwp_input_method_v2.grab_keyboard, and the grab object destroyed.         *)
SetImeGrab ==
    /\ imeGrab' = ~imeGrab
    /\ UNCHANGED <<keySources, forwardedKeys, withheld, kbdFocusVars, told, off>>

KbdNext ==
    \/ \E src \in Source :
          \/ \E k \in Key : KeyPress(src, k) \/ KeyRelease(src, k)
          \/ ReleaseSource(src)
    \/ \E f \in Client \cup {None} : SetFocus(f)
    \/ \E c \in Client : NewKbd(c) \/ ReleaseKbd(c) \/ DestroySurface(c) \/ NewSurface(c)
    \/ SetImeGrab

KbdSpec == KbdInit /\ [][KbdNext]_kbdVars

-----------------------------------------------------------------------------
KbdTypeOK ==
    /\ keySources \in [Key -> SUBSET Source]
    /\ forwardedKeys \subseteq Key /\ withheld \subseteq Key /\ off \subseteq Key
    /\ kbdFocus \in Client \cup {None} /\ imeGrab \in BOOLEAN
    /\ knownKbds \subseteq Client /\ surfaceAlive \subseteq Client
    /\ leaveHook \subseteq Client /\ entered \subseteq Client
    /\ told \in [Client -> SUBSET Key]

(* However many sources hold a key and however they let go of it, the seat   *)
(* has exactly the pressed keys down, each of them either forwarded or kept  *)
(* by the filter: a key cannot stay in forwarded_pressed_keys, to be         *)
(* announced as pressed to every later focus, after its last source is gone. *)
KeysAccounted ==
    forwardedKeys \cup withheld = Pressed /\ forwardedKeys \cap withheld = {}

(* The focused client's picture of the keyboard is the seat's, but for the   *)
(* keys whose last event went to the input method and those a late           *)
(* wl_keyboard was told although they were withheld.                         *)
FocusToldKeys ==
    \A c \in entered :
        \A k \in Key \ off : k \in told[c] <=> k \in forwardedKeys

(* Only the focus is entered, and only while its surface lives: every other  *)
(* client has been sent its leave.                                           *)
OnlyFocusEntered == entered \subseteq {kbdFocus} \cap surfaceAlive \cap leaveHook
=============================================================================
