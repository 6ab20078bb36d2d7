---------------------------- MODULE DrmCompositor ----------------------------
(***************************************************************************)
(* DrmCompositor of backend/drm/compositor/mod.rs: how the frames of one   *)
(* output get from the scene to the planes of a crtc.                      *)
(*                                                                         *)
(* The scene is a base element that fills the output and a top element     *)
(* that may be absent, each with the number of its last change.  The crtc  *)
(* has a primary and an overlay plane.  Which elements the atomic tests    *)
(* let onto a plane of their own is left open; the others are rendered     *)
(* into a slot of the swapchain.  The damage tracker is taken at what      *)
(* DamageTracker shows of it: its damage are the parts that changed since  *)
(* it last ran.  The kernel is modelled from how the code uses it, as in   *)
(* GbmSurface.                                                             *)
(***************************************************************************)
EXTENDS Swapchain, Sequences

CONSTANTS
    Full,           \* all parts of the picture
    MaxUpdates,     \* bound: changes of the scene
    MaxPrepared,    \* bound: calls of render_frame
    MaxSession,     \* bound: pauses, mode changes, resets and failures
    KeepHistory,    \* MAX_AGE of the damage tracker
    Patient         \* frames are rendered and cleared one after the other

ASSUME DrmConstants ==
    /\ Full = {"base", "top"} /\ Patient \in BOOLEAN
    /\ MaxUpdates \in Nat /\ KeepHistory \in Nat /\ None \notin 0 .. MaxUpdates

VARIABLES
    wanted,         \* the scene: number of the last change of each part
    current, pending, queued, next,     \* the *_frame fields
    resetPending,   \* reset_pending
    modeset,        \* DrmSurface::commit_pending
    seen,           \* damage tracker: the picture it rendered last
    oldDamage,      \* damage tracker: old_damage
    picture,        \* contents of the buffers
    active,         \* DrmSurface::is_active
    screen,         \* kernel: the frame shown
    flip,           \* kernel: the outstanding flip
    vblank,         \* kernel: an event that is not delivered yet
    looked,         \* history: no change and no failure since the last render_frame
    lost,           \* history: a frame was dropped, and the buffers not reset since
    spent           \* [updates, prepared, session] so far

chainVars == <<slots, acquired, age>>
roleVars == <<current, pending, queued, next>>
trackVars == <<seen, oldDamage, picture>>
kernelVars == <<screen, flip, vblank>>
drmVars == <<chainVars, roleVars, trackVars, kernelVars, wanted, resetPending, modeset, active,
             looked, lost, spent>>

----------------------------------------------------------------------------
\* Frames

\* PlaneState: a slot of the swapchain, an element scanned out directly, or nothing
Plane(slot, elem, skip) == [slot |-> slot, elem |-> elem, skip |-> skip]
NoPlane == Plane(None, None, TRUE)

\* PreparedFrame, and FrameState::from_planes
Frame(primary, overlay, partial) == [primary |-> primary, overlay |-> overlay, partial |-> partial]
Blank == Frame(NoPlane, NoPlane, TRUE)

\* The values they take; a part of the scene is known by its last change.
Version == 0 .. MaxUpdates \cup {None}
PlaneType == [slot : Buffer \cup {None}, elem : Version, skip : BOOLEAN]
FrameType == [primary : PlaneType, overlay : PlaneType, partial : BOOLEAN]

ASSUME FrameAssumption == None \notin FrameType

SlotsOf(frames) == {f.primary.slot : f \in frames \ {None}} \ {None}

\* Wrong variant: a frame that changes only the overlay plane is taken as empty.
IsEmptyPrimary(f) == f.partial /\ f.primary.skip

\* PreparedFrame::is_empty
IsEmpty(f) == f.partial /\ f.primary.skip /\ f.overlay.skip

Previous == IF pending # None THEN pending ELSE current

\* What a frame looks like on the screen.
Shows(f) ==
    [base |-> IF f.primary.slot # None THEN picture[f.primary.slot].base ELSE f.primary.elem,
     top  |-> IF f.overlay.elem # None THEN f.overlay.elem
              ELSE IF f.primary.slot # None THEN picture[f.primary.slot].top ELSE None]

----------------------------------------------------------------------------
DrmInit ==
    /\ slots = EmptySlots /\ acquired = {} /\ age = [b \in Buffer |-> 0]
    /\ current = Blank /\ pending = None /\ queued = None /\ next = None
    /\ resetPending = TRUE /\ modeset = TRUE
    /\ seen = None /\ oldDamage = <<>>
    /\ picture = [b \in Buffer |-> [p \in Full |-> None]]
    /\ active = TRUE
    /\ screen = Blank /\ flip = None /\ vblank = FALSE
    /\ wanted = [base |-> 0, top |-> None]
    /\ looked = FALSE /\ lost = FALSE
    /\ spent = [updates |-> 0, prepared |-> 0, session |-> 0]

\* render_frame and queue_frame are called by one callback of the event loop.
Loop == Patient => next = None

\* A client commits, or the top element comes or goes.
ChangeScene(part, gone) ==
    /\ Loop /\ spent.updates < MaxUpdates
    /\ spent' = [spent EXCEPT !.updates = @ + 1]
    /\ gone => part = "top" /\ wanted.top # None
    /\ wanted' = [wanted EXCEPT ![part] = IF gone THEN None ELSE spent'.updates]
    /\ looked' = FALSE
    /\ UNCHANGED <<chainVars, roleVars, trackVars, kernelVars, resetPending, modeset, active, lost>>

\* Wrong variant: a slot is free once its frame is not the newest any more.
FreeSlotEarly(k) ==
    LET held == SlotsOf({pending, queued})
    IN  slots[k] \notin held /\ \A j \in 1 .. k - 1 : slots[j] \in held

\* render_frame drops a frame that was not queued and acquires the first free
\* slot, whose buffer is allocated if there is none.
FreeSlot(k) ==
    LET held == SlotsOf({current, pending, queued})
    IN  slots[k] \notin held /\ \A j \in 1 .. k - 1 : slots[j] \in held

\* A member of Buffer can stand for a new one while nobody uses it.
Unallocated == Buffer \ (Chained \cup SlotsOf({current, pending, queued, screen, flip}))

SlotBuffer(k) == IF slots[k] # None THEN slots[k] ELSE CHOOSE b \in Unallocated : TRUE

\* render_output of the damage tracker for the picture img into b
Damage(img, a) ==
    LET new == IF seen = None THEN Full ELSE {p \in Full : img[p] # seen[p]}
    IN  [new |-> new,
         all |-> IF a > 0 /\ Len(oldDamage) >= a
                 THEN new \cup UNION {oldDamage[k] : k \in 1 .. a - 1} ELSE Full,
         kept |-> SubSeq(oldDamage, 1,
                    LET n == IF a > 0 /\ Len(oldDamage) >= a THEN a ELSE KeepHistory
                    IN  IF n < Len(oldDamage) THEN n ELSE Len(oldDamage))]

Draw(b, img, d) ==
    IF d.all = {}
    THEN oldDamage' = d.kept /\ UNCHANGED <<seen, picture>>
    ELSE /\ oldDamage' = <<d.new>> \o d.kept
         /\ seen' = img
         /\ picture' = [picture EXCEPT ![b] = [p \in Full |-> IF p \in d.all THEN img[p] ELSE @[p]]]

\* The primary plane after rendering: without damage the previous configuration
\* stays, unless an element was scanned out on it.
PrimaryOfDamage(b, d) ==
    IF Previous.primary.elem # None THEN Plane(b, None, FALSE)
    ELSE IF d.all # {} THEN Plane(b, None, FALSE)
    ELSE Plane(IF Previous.primary.slot # None THEN Previous.primary.slot ELSE b, None, TRUE)

\* The overlay plane: "We want to set skip to false on all planes that
\* previously had something assigned so that they get cleared".
Overlay(onPlane) ==
    IF onPlane THEN Plane(None, wanted.top, Previous.overlay.elem = wanted.top)
    ELSE Plane(None, None, Previous.overlay.elem = None)

\* Set next_frame, "only if it actually contains any changes".
Prepare(f) ==
    /\ next' = IF IsEmpty(f) THEN None ELSE f
    /\ acquired' = SlotsOf({current, pending, queued, next'})
    /\ looked' = TRUE

\* render_frame, with the top element on the overlay plane or not, and the
\* rest scanned out on the primary plane or rendered.
RenderFrame(onPlane, direct) ==
    /\ active /\ Loop
    /\ Patient => queued = None
    /\ spent.prepared < MaxPrepared
    /\ spent' = [spent EXCEPT !.prepared = @ + 1]
    /\ onPlane => wanted.top # None
    /\ direct => onPlane \/ wanted.top = None
    /\ \E k \in Position :
          /\ FreeSlot(k)
          /\ slots[k] = None => Unallocated # {}
          /\ LET b       == SlotBuffer(k)
                 a       == IF slots[k] # None THEN age[b] ELSE 0
                 img     == [wanted EXCEPT !.top = IF onPlane THEN None ELSE @]
                 d       == Damage(img, a)
                 partial == ~ resetPending /\ ~ modeset
             IN  /\ slots' = SlotsWith(k, b)
                 /\ age' = [age EXCEPT ![b] = a]
                 /\ IF direct
                    THEN /\ UNCHANGED trackVars
                         /\ Prepare(Frame(Plane(None, wanted.base, Previous.primary.elem = wanted.base),
                                          Overlay(onPlane), partial))
                    ELSE /\ Draw(b, img, d)
                         /\ Prepare(Frame(PrimaryOfDamage(b, d), Overlay(onPlane), partial))
    /\ UNCHANGED <<current, pending, queued, kernelVars, wanted, resetPending, modeset, active, lost>>

Spend == spent.session < MaxSession /\ spent' = [spent EXCEPT !.session = @ + 1]

\* render_frame whose rendering fails: buffers and tracker are reset.
RenderFrameFails ==
    /\ active /\ Loop /\ Spend
    /\ Patient => queued = None
    /\ next' = None
    /\ acquired' = SlotsOf({current, pending, queued})
    /\ slots' = EmptySlots
    /\ seen' = None /\ oldDamage' = <<>>
    /\ looked' = FALSE /\ lost' = FALSE
    /\ UNCHANGED <<age, current, pending, queued, picture, kernelVars, wanted, resetPending, modeset,
                   active>>

\* handle_flip and submit: f is pending once the kernel took it, otherwise it
\* is dropped.
Submit(f) ==
    /\ queued' = None
    /\ \/ /\ active /\ flip = None
          /\ flip' = f /\ pending' = f
          /\ resetPending' = (resetPending /\ f.partial)
          /\ modeset' = FALSE
          /\ UNCHANGED <<looked, lost>>
       \/ /\ pending' = None
          /\ looked' = FALSE /\ lost' = TRUE
          /\ UNCHANGED <<flip, resetPending, modeset>>

\* queue_frame: only a slot that was drawn is the newest frame
AgeSlot(f) ==
    IF ~ f.primary.skip /\ f.primary.slot # None THEN Submitted(f.primary.slot)
    ELSE UNCHANGED <<age, slots>>

QueueFrame ==
    /\ active /\ next # None
    /\ AgeSlot(next)
    /\ next' = None
    /\ IF pending = None THEN Submit(next)
       ELSE queued' = next /\ UNCHANGED <<pending, flip, resetPending, modeset, looked, lost>>
    /\ acquired' = SlotsOf({current, pending', queued'})
    /\ UNCHANGED <<current, trackVars, screen, vblank, wanted, active, spent>>

\* frame_submitted, called for a vblank event
FrameSubmitted ==
    /\ vblank /\ Loop
    /\ vblank' = FALSE
    /\ IF pending = None THEN UNCHANGED <<current, pending, queued, flip, resetPending, modeset, looked, lost>>
       ELSE /\ current' = pending
            /\ IF queued # None THEN Submit(queued)
               ELSE pending' = None /\ UNCHANGED <<queued, flip, resetPending, modeset, looked, lost>>
    /\ acquired' = SlotsOf({current', pending', queued', next})
    /\ UNCHANGED <<slots, age, next, trackVars, screen, wanted, active, spent>>

\* build_planes sends every plane that has a configuration or is not skipped,
\* for a full update every plane.
Applied(f) ==
    IF f.partial /\ f.overlay.skip /\ f.overlay.elem = None
    THEN [f EXCEPT !.overlay = screen.overlay] ELSE f

\* kernel: the flip takes place
FlipDone ==
    /\ flip # None
    /\ screen' = Applied(flip)
    /\ flip' = None
    /\ vblank' = TRUE
    /\ UNCHANGED <<chainVars, roleVars, trackVars, wanted, resetPending, modeset, active, looked, lost, spent>>

\* Another session takes the display and gives it back; activate then calls
\* reset_state.
Pause ==
    /\ active /\ Loop /\ Spend
    /\ active' = FALSE
    /\ UNCHANGED <<chainVars, roleVars, trackVars, kernelVars, wanted, resetPending, modeset, looked, lost>>

Activate ==
    /\ ~ active /\ Loop /\ flip = None
    /\ active' = TRUE
    /\ resetPending' = TRUE
    /\ screen' = Blank
    /\ UNCHANGED <<chainVars, roleVars, trackVars, flip, vblank, wanted, modeset, looked, lost, spent>>

\* use_mode to another size, and reset_buffers
UseMode ==
    /\ active /\ Loop /\ Spend
    /\ modeset' = TRUE
    /\ slots' = EmptySlots
    /\ looked' = FALSE /\ lost' = FALSE
    /\ UNCHANGED <<acquired, age, roleVars, trackVars, kernelVars, wanted, resetPending, active>>

\* clear: the crtc is turned off and all frames are dropped; the kernel is done
\* with an outstanding flip by then.
Clear ==
    /\ active /\ Loop /\ Spend
    /\ Patient => pending = None
    /\ modeset' = TRUE
    /\ screen' = Blank /\ flip' = None /\ vblank' = (vblank \/ flip # None)
    /\ current' = Blank /\ pending' = None /\ queued' = None /\ next' = None
    /\ acquired' = {}
    /\ UNCHANGED <<slots, age, trackVars, wanted, resetPending, active, looked, lost>>

DrmNext ==
    \/ \E part \in Full, gone \in BOOLEAN : ChangeScene(part, gone)
    \/ \E onPlane, direct \in BOOLEAN : RenderFrame(onPlane, direct)
    \/ RenderFrameFails \/ QueueFrame \/ FrameSubmitted \/ FlipDone
    \/ Pause \/ Activate \/ UseMode \/ Clear

DrmSpec == DrmInit /\ [][DrmNext]_drmVars

----------------------------------------------------------------------------
DrmTypeOK ==
    /\ SwapchainTypeOK
    /\ acquired = SlotsOf({current, pending, queued, next})
    /\ vblank \in BOOLEAN /\ modeset \in BOOLEAN /\ resetPending \in BOOLEAN

\* render_frame found nothing to show, and every frame before has been shown.
Settled ==
    /\ looked /\ active /\ ~ resetPending /\ ~ modeset
    /\ next = None /\ queued = None /\ pending = None /\ flip = None
    /\ screen # Blank

(***************************************************************************)
(* When render_frame finds nothing left to show, the screen shows the      *)
(* scene: no change is lost between the damage history, the buffer ages,   *)
(* the planes that keep their configuration and the frames that are        *)
(* skipped, as long as every frame reached the kernel or the buffers were  *)
(* reset since.                                                            *)
(***************************************************************************)
ScreenShowsScene == Settled /\ ~ lost => Shows(screen) = wanted

(***************************************************************************)
(* After a flip failed, rendering again shows the scene: what anvil relies *)
(* on when it schedules another repaint "to re-test for damage".           *)
(***************************************************************************)
RetryShowsScene == Settled => Shows(screen) = wanted

(***************************************************************************)
(* render_frame never draws into a buffer the screen shows or is about to, *)
(* whichever frames were replaced, skipped or dropped before.              *)
(***************************************************************************)
ScannedOutIsStable ==
    [][\A b \in SlotsOf({screen, flip}) : picture'[b] = picture[b]]_drmVars
=============================================================================
