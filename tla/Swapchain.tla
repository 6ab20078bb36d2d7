------------------------------ MODULE Swapchain ------------------------------
(***************************************************************************)
(* Swapchain of backend/allocator/swapchain.rs: a fixed number of slots    *)
(* that hand out reference-counted buffers and remember how many frames    *)
(* ago each was drawn.  A user of the chain (GbmSurface) combines these    *)
(* operations into its actions.                                            *)
(*                                                                         *)
(* A member of Buffer is one InternalSlot that owns a buffer.  A position  *)
(* of the chain that was never used, or was reset, holds None: an          *)
(* InternalSlot::default().  A buffer that was reset while somebody held   *)
(* it lives on outside of the chain until it is dropped.                   *)
(***************************************************************************)
EXTENDS Integers

CONSTANTS
    Buffer,     \* bound: buffers that exist at one time
    None,       \* no buffer
    SlotCap,    \* SLOT_CAP
    MaxAge      \* u8::MAX, the largest age

ASSUME BufferAssumption == None \notin Buffer
ASSUME SlotCapAssumption == SlotCap \in Nat
ASSUME MaxAgeAssumption == MaxAge \in Nat \ {0}

VARIABLES
    slots,      \* Swapchain::slots
    acquired,   \* buffers whose InternalSlot::acquired is set
    age         \* InternalSlot::age

Position == 1 .. SlotCap

Chained == {slots[k] : k \in Position} \ {None}

SwapchainTypeOK ==
    /\ slots \in [Position -> Buffer \cup {None}]
    /\ acquired \subseteq Buffer
    /\ age \in [Buffer -> 0 .. MaxAge]

Free(k) == slots[k] \notin acquired

\* acquire: "This function returns the first free one."
FirstFree(k) ==
    /\ k \in Position
    /\ Free(k)
    /\ \A j \in Position : j < k => ~ Free(j)

\* b can stand for a buffer that is about to be allocated.
Unused(b) == b \in Buffer \ (Chained \cup acquired)

\* The chain once position k holds b.
SlotsWith(k, b) == [slots EXCEPT ![k] = b]

\* Wrong variant: the addition is not checked for overflow.
AgesUnchecked(b) ==
    [x \in Buffer |->
        IF x = b THEN 1
        ELSE IF x \in Chained /\ age[x] > 0 THEN age[x] + 1
        ELSE age[x]]

\* submitted: b becomes the newest frame, known ages grow by one.
Ages(b) ==
    [x \in Buffer |->
        IF x = b THEN 1
        ELSE IF x \in Chained /\ age[x] > 0 /\ age[x] < MaxAge THEN age[x] + 1
        ELSE age[x]]

\* Wrong variant: a slot whose age overflows is kept.
SlotsKept(b) == slots

\* submitted: "If the age overflows the slot was not used for a long time. Lets
\* clear it", whether or not somebody holds the buffer.
SlotsAged(b) ==
    [k \in Position |->
        IF slots[k] \notin {b, None} /\ age[slots[k]] = MaxAge THEN None ELSE slots[k]]

\* A buffer that is not in the chain any more does not mess up the ages.
Submitted(b) ==
    IF b \in Chained
    THEN age' = Ages(b) /\ slots' = SlotsAged(b)
    ELSE UNCHANGED <<age, slots>>

\* resize to other dimensions, reset_buffers
EmptySlots == [k \in Position |-> None]

\* reset_buffer_ages: buffers somebody holds leave the chain, the others lose
\* their age (Arc::get_mut succeeds only on them).
AgesReset == [x \in Buffer |-> IF x \in Chained \ acquired THEN 0 ELSE age[x]]
SlotsReset == [k \in Position |-> IF slots[k] \in acquired THEN None ELSE slots[k]]
=============================================================================
