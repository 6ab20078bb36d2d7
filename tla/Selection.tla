------------------------------ MODULE Selection ------------------------------
(* The selections of a seat: SeatData with the clipboard and the primary     *)
(* selection, the devices they are announced on, the sources that provide    *)
(* them, and the keyboard focus that decides who may set and who is told.    *)
(* wlr and ext data-control are one kind of device: they set and are told    *)
(* both selections whatever the focus.  Mime types and the transfer itself   *)
(* are left out.                                                             *)
EXTENDS Naturals, Seat

CONSTANTS
    SelObject,  \* the devices and sources they may create, one of a kind each
    Compositor, \* OfferReplySource::Compositor
    Unsent      \* a device that has been sent no selection event yet

SelTarget == {"clipboard", "primary"}

ASSUME SelectionConstants ==
    /\ SelObject \subseteq [client : Client, kind : SelTarget \cup {"control"}]
    /\ None # Compositor

VARIABLES
    seatFocus,      \* client of KbdInternal::focus
    selFocus,       \* clipboard_selection_focus and primary_selection_focus
    selection,      \* clipboard_selection and primary_selection
    devices,        \* SeatData::known_devices
    sources,        \* sources that exist
    born,           \* sources that ever existed
    usedSources,    \* used_sources of the three protocol states
    announced,      \* last selection event of each device and target
    late            \* history: devices created while their client was focused

selVars == <<seatFocus, selFocus, selection, devices, sources, born, usedSources,
             announced, late>>

Serves(d, t) == d.kind \in {t, "control"}

SelInit ==
    /\ seatFocus = None
    /\ selFocus = None
    /\ selection = [t \in SelTarget |-> None]
    /\ devices = {} /\ sources = {} /\ born = {} /\ usedSources = {}
    /\ announced = [d \in SelObject |-> [t \in SelTarget |-> Unsent]]
    /\ late = {}

(* SeatData::send_selection: the devices of the focused client, and the      *)
(* data-control devices if asked to.                                         *)
SendSelection(sel, focus, targets, control) ==
    announced' = [d \in SelObject |-> [t \in SelTarget |->
        IF /\ d \in devices /\ t \in targets /\ Serves(d, t)
           /\ IF d.kind = "control" THEN control ELSE d.client = focus
        THEN sel[t] ELSE announced[d][t]]]

(* Wrong variant: data-control devices are not told.                         *)
SetSelectionOfFocus(t, s) ==
    /\ selection' = [selection EXCEPT ![t] = s]
    /\ SendSelection(selection', selFocus, {t}, FALSE)
    /\ late' = {d \in late : ~(Serves(d, t) /\ d.client = selFocus)}

(* set_clipboard_selection, set_primary_selection: the provider changes and  *)
(* everybody entitled is told.                                               *)
SetSelection(t, s) ==
    /\ selection' = [selection EXCEPT ![t] = s]
    /\ SendSelection(selection', selFocus, {t}, TRUE)
    /\ late' = {d \in late : ~(Serves(d, t) /\ d.client = selFocus)}

-----------------------------------------------------------------------------
(* The keyboard focus moves to another client.  SeatHandler::focus_changed   *)
(* hands the focus on to set_data_device_focus and set_primary_focus; it is  *)
(* not called when the focus is unset.                                       *)
FocusClient(c) ==
    /\ c # seatFocus
    /\ seatFocus' = c
    /\ IF c \in {None, selFocus} THEN UNCHANGED <<selFocus, announced, late>>
       ELSE /\ selFocus' = c
            /\ SendSelection(selection, c, SelTarget, FALSE)
            /\ late' = {d \in late : d.client # c}
    /\ UNCHANGED <<selection, devices, sources, born, usedSources>>

(* get_data_device: a data-control device is told the selections at once,    *)
(* the other two only with the next change of the focus or the selection.    *)
GetDevice(d) ==
    /\ d \notin devices
    /\ devices' = devices \cup {d}
    /\ announced' = IF d.kind = "control" THEN [announced EXCEPT ![d] = selection] ELSE announced
    /\ late' = IF d.kind # "control" /\ d.client = selFocus THEN late \cup {d} ELSE late
    /\ UNCHANGED <<seatFocus, selFocus, selection, sources, born, usedSources>>

ReleaseDevice(d) ==
    /\ d \in devices
    /\ devices' = devices \ {d} /\ late' = late \ {d}
    /\ announced' = [announced EXCEPT ![d] = [t \in SelTarget |-> Unsent]]
    /\ UNCHANGED <<seatFocus, selFocus, selection, sources, born, usedSources>>

CreateSource(s) ==
    /\ s \notin born
    /\ born' = born \cup {s} /\ sources' = sources \cup {s}
    /\ UNCHANGED <<seatFocus, selFocus, selection, devices, usedSources, announced, late>>

(* set_selection of a wl_data_device or a primary device, by a client with   *)
(* the keyboard focus; the source may have been used before.                 *)
ClientSetSelection(d, t, s) ==
    /\ d \in devices /\ d.kind = t /\ d.client = seatFocus
    /\ s = None \/ (s = d /\ s \in sources)
    /\ usedSources' = usedSources \cup ({s} \ {None})
    /\ SetSelection(t, s)
    /\ UNCHANGED <<seatFocus, selFocus, devices, sources, born>>

(* set_selection and set_primary_selection of a data-control device: no      *)
(* focus is needed, but a source can be used only once.                      *)
ControlSetSelection(d, t, s) ==
    /\ d \in devices /\ d.kind = "control"
    /\ s = None \/ (s = d /\ s \in sources \ usedSources)
    /\ usedSources' = usedSources \cup ({s} \ {None})
    /\ SetSelection(t, s)
    /\ UNCHANGED <<seatFocus, selFocus, devices, sources, born>>

(* set_data_device_selection, clear_data_device_selection and the same for   *)
(* the primary selection.                                                    *)
CompositorSetSelection(t, s) ==
    /\ s \in {None, Compositor}
    /\ SetSelection(t, s)
    /\ UNCHANGED <<seatFocus, selFocus, devices, sources, born, usedSources>>

(* Wrong variant: a source is taken to provide only the selection of its own *)
(* protocol, and a data-control source none.                                 *)
HeldByKind(s) == {t \in SelTarget : s.kind = t /\ selection[t] = s}

(* The selections a source provides, if it is in used_sources.               *)
Held(s) == {t \in SelTarget : s \in usedSources /\ selection[t] = s}

(* Wrong variant: a destroyed source stays in used_sources.                  *)
UsedWithoutKept(s) == usedSources

(* used_sources once the source is destroyed.                                *)
UsedWithout(s) == usedSources \ {s}

(* A source is destroyed: a used one gives up the selections it provides.    *)
DestroySource(s) ==
    LET held == Held(s)
    IN  /\ s \in sources
        /\ sources' = sources \ {s} /\ usedSources' = UsedWithout(s)
        /\ selection' = [t \in SelTarget |-> IF t \in held THEN None ELSE selection[t]]
        /\ SendSelection(selection', selFocus, held, TRUE)
        /\ late' = {d \in late : ~\E t \in held : Serves(d, t) /\ d.client = selFocus}
        /\ UNCHANGED <<seatFocus, selFocus, devices, born>>

SelNext ==
    \/ \E c \in Client \cup {None} : FocusClient(c)
    \/ \E d \in SelObject :
          \/ GetDevice(d) \/ ReleaseDevice(d) \/ CreateSource(d) \/ DestroySource(d)
          \/ \E t \in SelTarget, s \in {None, d} :
                ClientSetSelection(d, t, s) \/ ControlSetSelection(d, t, s)
    \/ \E t \in SelTarget, s \in {None, Compositor} : CompositorSetSelection(t, s)

SelSpec == SelInit /\ [][SelNext]_selVars

-----------------------------------------------------------------------------
SelTypeOK ==
    /\ seatFocus \in Client \cup {None} /\ selFocus \in Client \cup {None}
    /\ devices \subseteq SelObject /\ late \subseteq devices
    /\ sources \subseteq born /\ usedSources \subseteq sources /\ born \subseteq SelObject

(* Nobody is offered data that nobody can provide any more: the selection's  *)
(* source exists, whichever protocol set it and in whatever order the        *)
(* objects of a client are destroyed.                                        *)
SelectionProvided ==
    \A t \in SelTarget : selection[t] \in sources \cup {None, Compositor}

(* The focused client and every data-control client have been told the       *)
(* selection as it is; only a device the focused client created after it got *)
(* the focus still waits for the next change.                                *)
SelectionAnnounced ==
    \A d \in devices, t \in SelTarget :
        (Serves(d, t) /\ (d.kind = "control" \/ d.client = selFocus) /\ d \notin late)
            => announced[d][t] = selection[t]
=============================================================================
