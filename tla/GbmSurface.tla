----------------------------- MODULE GbmSurface -----------------------------
(***************************************************************************)
(* GbmBufferedSurface of backend/drm/surface/gbm.rs: the frames of one     *)
(* output on their way from the renderer to the screen, on a Swapchain and *)
(* a DrmSurface.  The renderer draws into `next`, a drawn frame waits in   *)
(* `queued`, a frame given to the kernel is `pending` until its vblank     *)
(* event, and `current` is the frame on screen.                            *)
(*                                                                         *)
(* The kernel is modelled from how the code uses it: a page flip or commit *)
(* either fails, or is carried out at some later vblank, which sends one   *)
(* event.  It fails when the device is paused or a flip is outstanding,    *)
(* and may fail at any time.                                               *)
(***************************************************************************)
EXTENDS Swapchain, Sequences, SequencesExt

ASSUME RolesAssumption == SlotCap >= 4

VARIABLES
    current, pending, queued, next,     \* the four *_fb fields
    bare,       \* buffers whose userdata has no GbmFramebuffer
    active,     \* DrmSurface::is_active
    scanout,    \* kernel: the buffer it reads, None if it is not ours
    flip,       \* kernel: the outstanding flip
    vblank,     \* kernel: an event the event loop has not delivered yet
    history     \* history: the last MaxAge submitted frames, newest first

chainVars == <<slots, acquired, age>>
roleVars == <<current, pending, queued, next>>
kernelVars == <<active, scanout, flip, vblank>>
bufferVars == <<bare, history>>
vars == <<chainVars, roleVars, kernelVars, bufferVars>>

GbmTypeOK ==
    /\ SwapchainTypeOK
    /\ current \in Buffer
    /\ {pending, queued, next, scanout, flip} \subseteq Buffer \cup {None}
    /\ bare \subseteq Buffer
    /\ active \in BOOLEAN
    /\ vblank \in BOOLEAN
    /\ history \in Seq(Buffer \cup {None})

\* GbmBufferedSurface::new: the buffer the formats were tested with is current.
Init ==
    /\ current \in Buffer
    /\ slots = [k \in Position |-> IF k = 1 THEN current ELSE None]
    /\ acquired = {current}
    /\ age = [b \in Buffer |-> 0]
    /\ pending = None /\ queued = None /\ next = None
    /\ bare = {}
    /\ active = TRUE
    /\ scanout = None /\ flip = None /\ vblank = FALSE
    /\ history = <<>>
-----------------------------------------------------------------------------
\* The buffer of position k, allocated as b if there is none yet.
Allocated(k, b) ==
    \/ slots[k] # None /\ b = slots[k] /\ UNCHANGED <<slots, age, history>>
    \/ /\ slots[k] = None
       /\ Unused(b)
       /\ slots' = SlotsWith(k, b)
       /\ age' = [age EXCEPT ![b] = 0]
       /\ history' = [n \in DOMAIN history |-> IF history[n] = b THEN None ELSE history[n]]

\* Wrong variant: the slot is kept although its framebuffer is still missing.
TakeUnchecked(b, ok) ==
    /\ next' = b
    /\ acquired' = acquired \cup {b}
    /\ bare' = IF ok THEN bare \ {b} ELSE bare \cup {b}

\* The rest of next_buffer: with a framebuffer b is the next buffer, without
\* one it is dropped again.
Take(b, ok) ==
    IF ok THEN next' = b /\ acquired' = acquired \cup {b} /\ bare' = bare \ {b}
    ELSE UNCHANGED <<next, acquired>> /\ bare' = bare \cup {b}

\* next_buffer: a second call returns the same buffer, an allocation that fails
\* changes nothing.
NextBuffer ==
    /\ active
    /\ next = None
    /\ \E k \in Position, b \in Buffer :
          /\ FirstFree(k)
          /\ Allocated(k, b)
          /\ \E ok \in BOOLEAN : (b \in Chained \ bare => ok) /\ Take(b, ok)
    /\ UNCHANGED <<current, pending, queued, kernelVars>>

\* submit: on success b is pending, otherwise it and its user data are dropped.
\* `held` are the buffers the caller still holds, b included.
Submit(b, held) ==
    /\ queued' = None
    /\ \/ /\ active /\ flip = None
          /\ pending' = b /\ flip' = b /\ acquired' = held
       \/ pending' = None /\ acquired' = held \ {b} /\ UNCHANGED flip

\* Wrong variant: a replaced frame keeps its slot.
HeldLeaky == acquired

\* The frame in `queued` is dropped when another is queued.
HeldAfterReplace == acquired \ {queued}

QueueBuffer ==
    /\ active
    /\ next # None
    /\ Submitted(next)
    /\ next' = None
    /\ history' = SubSeq(<<next>> \o history, 1, Min({MaxAge, Len(history) + 1}))
    /\ IF pending = None THEN Submit(next, HeldAfterReplace)
       ELSE queued' = next /\ acquired' = HeldAfterReplace /\ UNCHANGED <<pending, flip>>
    /\ UNCHANGED <<current, bare, active, scanout, vblank>>

\* Wrong variants: the queued frame waits for the next queue_buffer; the frame
\* that was on screen is dropped before its successor is.
AdvanceOnly == pending' = None /\ acquired' = acquired \ {current} /\ UNCHANGED <<queued, flip>>
AdvanceEarly ==
    IF queued # None THEN Submit(queued, acquired \ {pending})
    ELSE pending' = None /\ acquired' = acquired \ {pending} /\ UNCHANGED <<queued, flip>>

\* What follows once the pending frame has become the current one.
Advance ==
    IF queued # None THEN Submit(queued, acquired \ {current})
    ELSE pending' = None /\ acquired' = acquired \ {current} /\ UNCHANGED <<queued, flip>>

\* frame_submitted, called for a vblank event.
FrameSubmitted ==
    /\ vblank
    /\ vblank' = FALSE
    /\ IF pending # None THEN current' = pending /\ Advance
       ELSE UNCHANGED <<acquired, current, pending, queued, flip>>
    /\ UNCHANGED <<slots, age, next, bufferVars, active, scanout>>
-----------------------------------------------------------------------------
ResetBuffers ==
    /\ slots' = EmptySlots
    /\ UNCHANGED <<acquired, age, roleVars, kernelVars, bufferVars>>

\* use_mode with a mode of another size: Swapchain::resize empties the chain.  A
\* mode of the same size, or one the kernel refuses, leaves it alone.
UseMode ==
    /\ active
    /\ slots' = EmptySlots
    /\ UNCHANGED <<acquired, age, roleVars, kernelVars, bufferVars>>

ResetBufferAges ==
    /\ slots' = SlotsReset
    /\ age' = AgesReset
    /\ UNCHANGED <<acquired, roleVars, kernelVars, bufferVars>>
-----------------------------------------------------------------------------
\* The kernel carries out the outstanding flip.
Vblank ==
    /\ flip # None
    /\ scanout' = flip
    /\ flip' = None
    /\ vblank' = TRUE
    /\ UNCHANGED <<chainVars, roleVars, bufferVars, active>>

\* DrmDevice::pause; another session may take over the screen meanwhile.
Pause ==
    /\ active
    /\ active' = FALSE
    /\ scanout' \in {scanout, None}
    /\ UNCHANGED <<chainVars, roleVars, bufferVars, flip, vblank>>

\* DrmDevice::activate, which may reset what the outputs show.
Activate ==
    /\ ~ active
    /\ active' = TRUE
    /\ scanout' \in {scanout, None}
    /\ UNCHANGED <<chainVars, roleVars, bufferVars, flip, vblank>>

Next ==
    \/ NextBuffer \/ QueueBuffer \/ FrameSubmitted
    \/ UseMode \/ ResetBuffers \/ ResetBufferAges
    \/ Vblank \/ Pause \/ Activate

Spec == Init /\ [][Next]_vars
-----------------------------------------------------------------------------
(* Properties. *)

Roles == {current, pending, queued, next} \ {None}

\* Every frame on its way has a buffer of its own, and the acquired flags say
\* exactly which buffers are in use: dropping one Slot never frees a buffer
\* another field still refers to, and no buffer stays acquired for ever.
SlotsExclusive ==
    /\ acquired = Roles
    /\ current \notin {pending, queued, next}
    /\ pending # None => pending \notin {queued, next}
    /\ queued # None => queued # next

\* The renderer is never given a buffer the kernel reads or is about to read,
\* whatever was reset, resized, replaced or failed since it was submitted.
ScanoutNotOverwritten ==
    /\ {scanout, flip} \subseteq acquired \cup {None}
    /\ next # None => next \notin {scanout, flip}

\* next_buffer never fails for want of a slot, even if vblank events stop.
AlwaysFreeSlot == next = None => \E k \in Position : Free(k)

\* An age the renderer is told is the number of frames since the buffer was
\* drawn: it redraws only what changed since, so a wrong age leaves stale
\* pixels on screen.
AgeIsTrue ==
    next # None /\ age[next] > 0 =>
        /\ age[next] <= Len(history)
        /\ history[age[next]] = next
        /\ \A n \in 1 .. age[next] - 1 : history[n] # next

\* submit unwraps the framebuffer of the queued slot ("both of these lines
\* should be safe in all cases").
FramebufferPresent == {next, queued} \cap bare = {}

\* While a frame is pending the kernel still owes an event for it, there is
\* never an event for no frame, and a frame only waits in the queue while
\* another is pending: an event that moves the queue on is always coming.
EventComing ==
    /\ pending # None <=> flip # None \/ vblank
    /\ flip # None => flip = pending /\ ~ vblank
    /\ queued # None => pending # None
=============================================================================
