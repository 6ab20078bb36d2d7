------------------------------ MODULE MCDesktop ------------------------------
(* Model-checking instance of the components of a seat and of the shell.  A  *)
(* behaviour is one of the component it starts with: they share no state, so *)
(* every one of them is checked as if it were alone.                         *)
EXTENDS Keyboard, Pointer, PopupGrabs, Selection, XdgSurface, TLC

CONSTANTS c1, c2, p1, p2, b1, b2, k1, k2, v1, v2, o1, reactive

VARIABLE part

desktopVars == <<kbdVars, ptrVars, popupVars, selVars, xdgVars, part>>

MCSurface == [client : {c1, c2}, nr : {1}] \cup {[client |-> c1, nr |-> 2]}

MCObject == [client : {c1, c2}, kind : {"clipboard"}] \cup {[client |-> c2, kind |-> "control"]}

DesktopInit ==
    /\ part \in {"keyboard", "pointer", "popups", "selection", "xdg"}
    /\ KbdInit /\ PtrInit /\ PopupInit /\ SelInit /\ XdgInit
    /\ part # "xdg" => xdgKind = "toplevel"

DesktopNext ==
    \/ /\ part = "keyboard" /\ KbdNext
       /\ UNCHANGED <<ptrVars, popupVars, selVars, xdgVars, part>>
    \/ /\ part = "pointer" /\ PtrNext
       /\ UNCHANGED <<kbdVars, popupVars, selVars, xdgVars, part>>
    \/ /\ part = "popups" /\ PopupNext
       /\ UNCHANGED <<kbdVars, ptrVars, selVars, xdgVars, part>>
    \/ /\ part = "selection" /\ SelNext
       /\ UNCHANGED <<kbdVars, ptrVars, popupVars, xdgVars, part>>
    \/ /\ part = "xdg" /\ XdgNext
       /\ UNCHANGED <<kbdVars, ptrVars, popupVars, selVars, part>>

DesktopSpec == DesktopInit /\ [][DesktopNext]_desktopVars

(* The state of each component has its type.                                 *)
DesktopTypeOK ==
    /\ part = "keyboard" => KbdTypeOK
    /\ part = "pointer" => PtrTypeOK
    /\ part = "popups" => PopupTypeOK
    /\ part = "selection" => SelTypeOK
    /\ part = "xdg" => XdgTypeOK

(* Popups are alike: it is enough to look at behaviours that create p1 first. *)
PopupsInOrder == life[p2] # "unborn" => life[p1] # "unborn"
=============================================================================
