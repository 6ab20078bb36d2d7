-------------------------- MODULE GbmSurfaceProofs --------------------------
(***************************************************************************)
(* Proofs about GbmSurface, for any number of buffers, any SlotCap of at   *)
(* least four and any largest age.                                         *)
(*                                                                         *)
(* SlotsExclusive is preserved because FirstFree only returns a buffer     *)
(* without the acquired flag, and Submit and Advance drop exactly the      *)
(* buffer that loses its role.  ScanoutNotOverwritten is not inductive: it *)
(* needs ScanoutKnown, which ties what the kernel reads to a field of the  *)
(* surface, and that needs EventComing: there is an event exactly while    *)
(* the pending frame is on screen.  AlwaysFreeSlot also needs that no      *)
(* buffer is in the chain twice.                                           *)
(***************************************************************************)
EXTENDS GbmSurface, SequenceTheorems, TLAPS

FieldsOK ==
    /\ slots \in [Position -> Buffer \cup {None}]
    /\ acquired \subseteq Buffer
    /\ current \in Buffer
    /\ pending \in Buffer \cup {None}
    /\ queued \in Buffer \cup {None}
    /\ next \in Buffer \cup {None}
    /\ vblank \in BOOLEAN

\* Between its vblank and the handling of the event the pending frame is on
\* screen, otherwise the current one; unless another session took the screen.
ScanoutKnown ==
    /\ vblank => scanout \in {None, pending}
    /\ ~ vblank => scanout \in {None, current}

ChainInjective ==
    \A j, k \in Position : slots[j] = slots[k] /\ slots[j] # None => j = k

IndInv == FieldsOK /\ SlotsExclusive /\ EventComing /\ ScanoutKnown /\ ChainInjective

\* The initial state satisfies the inductive invariant.
LEMMA GbmInit == Init => IndInv
<1> SUFFICES ASSUME Init PROVE IndInv
  OBVIOUS
<1>1. FieldsOK
  BY DEF Init, FieldsOK
<1>2. SlotsExclusive
  BY BufferAssumption DEF Init, SlotsExclusive, Roles
<1>3. EventComing /\ ScanoutKnown
  BY DEF Init, EventComing, ScanoutKnown
<1>4. ChainInjective
  BY DEF Init, ChainInjective, Position
<1> QED
  BY <1>1, <1>2, <1>3, <1>4 DEF IndInv

\* next_buffer takes a buffer nobody holds.
LEMMA StepNextBuffer == IndInv /\ NextBuffer => IndInv'
<1> SUFFICES ASSUME IndInv, NextBuffer PROVE IndInv'
  OBVIOUS
<1> USE BufferAssumption DEF IndInv
<1>1. PICK k \in Position, b \in Buffer : \E ok \in BOOLEAN :
          FirstFree(k) /\ Allocated(k, b) /\ Take(b, ok)
  BY DEF NextBuffer
<1>2. PICK ok \in BOOLEAN : FirstFree(k) /\ Allocated(k, b) /\ Take(b, ok)
  BY <1>1
<1>3. next = None /\ UNCHANGED <<current, pending, queued, kernelVars>>
  BY DEF NextBuffer
<1>4. b \notin acquired
  BY <1>2 DEF FirstFree, Free, Allocated, Unused
<1>5. CASE ok
  <2>1. next' = b /\ acquired' = acquired \cup {b}
    BY <1>2, <1>5 DEF Take
  <2>2. SlotsExclusive'
    BY <2>1, <1>3, <1>4 DEF SlotsExclusive, Roles
  <2>3. (EventComing /\ ScanoutKnown)'
    BY <1>3 DEF EventComing, ScanoutKnown, kernelVars
  <2>4. slots' \in [Position -> Buffer \cup {None}] /\ ChainInjective'
    BY <1>2 DEF FieldsOK, ChainInjective, Allocated, Unused, SlotsWith, Chained
  <2>5. FieldsOK'
    BY <2>1, <2>4, <1>3 DEF FieldsOK, kernelVars
  <2> QED
    BY <2>2, <2>3, <2>4, <2>5
<1>6. CASE ~ ok
  <2>1. next' = next /\ acquired' = acquired
    BY <1>2, <1>6 DEF Take
  <2>2. SlotsExclusive'
    BY <2>1, <1>3 DEF SlotsExclusive, Roles
  <2>3. (EventComing /\ ScanoutKnown)'
    BY <1>3 DEF EventComing, ScanoutKnown, kernelVars
  <2>4. slots' \in [Position -> Buffer \cup {None}] /\ ChainInjective'
    BY <1>2 DEF FieldsOK, ChainInjective, Allocated, Unused, SlotsWith, Chained
  <2>5. FieldsOK'
    BY <2>1, <2>4, <1>3 DEF FieldsOK, kernelVars
  <2> QED
    BY <2>2, <2>3, <2>4, <2>5
<1> QED
  BY <1>5, <1>6

\* queue_buffer passes the drawn buffer on and drops the one it replaces.
LEMMA StepQueueBuffer == IndInv /\ QueueBuffer => IndInv'
<1> SUFFICES ASSUME IndInv, QueueBuffer PROVE IndInv'
  OBVIOUS
<1> USE BufferAssumption DEF IndInv
<1>1. /\ next # None
      /\ next' = None
      /\ UNCHANGED <<current, scanout, vblank>>
  BY DEF QueueBuffer
<1>2. slots' \in [Position -> Buffer \cup {None}] /\ ChainInjective'
  <2>1. slots' = slots \/ slots' = SlotsAged(next)
    BY DEF QueueBuffer, Submitted
  <2> QED
    BY <2>1 DEF SlotsAged, FieldsOK, ChainInjective
<1>3. CASE pending # None
  <2>1. /\ queued' = next
        /\ acquired' = acquired \ {queued}
        /\ UNCHANGED <<pending, flip>>
    BY <1>3 DEF QueueBuffer, HeldAfterReplace
  <2>2. SlotsExclusive'
    BY <1>1, <1>3, <2>1 DEF SlotsExclusive, Roles, FieldsOK
  <2>3. (EventComing /\ ScanoutKnown)'
    BY <1>1, <1>3, <2>1 DEF EventComing, ScanoutKnown
  <2>4. FieldsOK'
    BY <1>1, <1>2, <2>1 DEF FieldsOK
  <2> QED
    BY <1>2, <2>2, <2>3, <2>4
<1>4. CASE pending = None
  <2>1. queued = None /\ flip = None /\ ~ vblank
    BY <1>4 DEF EventComing
  <2>2. Submit(next, acquired \ {queued})
    BY <1>4 DEF QueueBuffer, HeldAfterReplace
  <2>3. queued' = None
    BY <2>2 DEF Submit
  <2>4. acquired \ {queued} = acquired
    BY <2>1 DEF FieldsOK
  <2>5. CASE pending' = next /\ flip' = next /\ acquired' = acquired \ {queued}
    <3>1. SlotsExclusive'
      BY <1>1, <1>4, <2>1, <2>3, <2>4, <2>5 DEF SlotsExclusive, Roles, FieldsOK
    <3>2. (EventComing /\ ScanoutKnown)'
      BY <1>1, <2>1, <2>3, <2>5 DEF EventComing, ScanoutKnown
    <3>3. FieldsOK'
      BY <1>1, <1>2, <2>3, <2>4, <2>5 DEF FieldsOK
    <3> QED
      BY <1>2, <3>1, <3>2, <3>3
  <2>6. CASE pending' = None /\ acquired' = (acquired \ {queued}) \ {next} /\ flip' = flip
    <3>1. SlotsExclusive'
      BY <1>1, <1>4, <2>1, <2>3, <2>4, <2>6 DEF SlotsExclusive, Roles, FieldsOK
    <3>2. (EventComing /\ ScanoutKnown)'
      BY <1>1, <2>1, <2>3, <2>6 DEF EventComing, ScanoutKnown
    <3>3. FieldsOK'
      BY <1>1, <1>2, <2>3, <2>4, <2>6 DEF FieldsOK
    <3> QED
      BY <1>2, <3>1, <3>2, <3>3
  <2> QED
    BY <2>2, <2>5, <2>6 DEF Submit
<1> QED
  BY <1>3, <1>4

\* frame_submitted turns the frame on screen over and submits the queued one.
LEMMA StepFrameSubmitted == IndInv /\ FrameSubmitted => IndInv'
<1> SUFFICES ASSUME IndInv, FrameSubmitted PROVE IndInv'
  OBVIOUS
<1> USE BufferAssumption DEF IndInv
<1>1. vblank /\ vblank' = FALSE /\ UNCHANGED <<slots, next, scanout>>
  BY DEF FrameSubmitted
<1>2. pending # None /\ flip = None /\ scanout \in {None, pending}
  BY <1>1 DEF EventComing, ScanoutKnown
<1>3. current' = pending /\ Advance
  BY <1>2 DEF FrameSubmitted
<1>4. ChainInjective'
  BY <1>1 DEF ChainInjective
<1>5. ScanoutKnown'
  BY <1>1, <1>2, <1>3 DEF ScanoutKnown
<1>6. CASE queued = None
  <2>1. /\ pending' = None
        /\ acquired' = acquired \ {current}
        /\ UNCHANGED <<queued, flip>>
    BY <1>3, <1>6 DEF Advance
  <2>2. SlotsExclusive'
    BY <1>1, <1>2, <1>3, <1>6, <2>1 DEF SlotsExclusive, Roles, FieldsOK
  <2>3. EventComing'
    BY <1>1, <1>2, <1>6, <2>1 DEF EventComing
  <2>4. FieldsOK'
    BY <1>1, <1>2, <1>3, <2>1 DEF FieldsOK
  <2> QED
    BY <1>4, <1>5, <2>2, <2>3, <2>4
<1>7. CASE queued # None
  <2>1. Submit(queued, acquired \ {current})
    BY <1>3, <1>7 DEF Advance
  <2>2. queued' = None
    BY <2>1 DEF Submit
  <2>3. CASE pending' = queued /\ flip' = queued /\ acquired' = acquired \ {current}
    <3>1. SlotsExclusive'
      BY <1>1, <1>2, <1>3, <1>7, <2>2, <2>3 DEF SlotsExclusive, Roles, FieldsOK
    <3>2. EventComing'
      BY <1>1, <1>7, <2>2, <2>3 DEF EventComing
    <3>3. FieldsOK'
      BY <1>1, <1>2, <1>3, <2>2, <2>3 DEF FieldsOK
    <3> QED
      BY <1>4, <1>5, <3>1, <3>2, <3>3
  <2>4. CASE pending' = None /\ acquired' = (acquired \ {current}) \ {queued} /\ flip' = flip
    <3>1. SlotsExclusive'
      BY <1>1, <1>2, <1>3, <1>7, <2>2, <2>4 DEF SlotsExclusive, Roles, FieldsOK
    <3>2. EventComing'
      BY <1>1, <1>2, <2>2, <2>4 DEF EventComing
    <3>3. FieldsOK'
      BY <1>1, <1>2, <1>3, <2>2, <2>4 DEF FieldsOK
    <3> QED
      BY <1>4, <1>5, <3>1, <3>2, <3>3
  <2> QED
    BY <2>1, <2>3, <2>4 DEF Submit
<1> QED
  BY <1>6, <1>7

\* Resets and mode changes only take buffers out of the chain.
LEMMA StepReset == IndInv /\ (UseMode \/ ResetBuffers \/ ResetBufferAges) => IndInv'
<1> SUFFICES ASSUME IndInv, UseMode \/ ResetBuffers \/ ResetBufferAges PROVE IndInv'
  OBVIOUS
<1> USE DEF IndInv
<1>1. UNCHANGED <<acquired, roleVars, kernelVars>>
  BY DEF UseMode, ResetBuffers, ResetBufferAges
<1>2. slots' = EmptySlots \/ slots' = SlotsReset
  BY DEF UseMode, ResetBuffers, ResetBufferAges
<1>3. slots' \in [Position -> Buffer \cup {None}] /\ ChainInjective'
  BY <1>2 DEF EmptySlots, SlotsReset, FieldsOK, ChainInjective
<1>4. FieldsOK' /\ SlotsExclusive'
  BY <1>1, <1>3 DEF FieldsOK, SlotsExclusive, Roles, roleVars, kernelVars
<1>5. (EventComing /\ ScanoutKnown)'
  BY <1>1 DEF EventComing, ScanoutKnown, roleVars, kernelVars
<1> QED
  BY <1>3, <1>4, <1>5

\* The kernel and the session leave the surface alone.
LEMMA StepOutside == IndInv /\ (Vblank \/ Pause \/ Activate \/ UNCHANGED vars) => IndInv'
<1> SUFFICES ASSUME IndInv, Vblank \/ Pause \/ Activate \/ UNCHANGED vars PROVE IndInv'
  OBVIOUS
<1> USE BufferAssumption DEF IndInv
<1>1. UNCHANGED <<slots, acquired, current, pending, queued, next>>
  BY DEF Vblank, Pause, Activate, vars, chainVars, roleVars
<1>2. vblank' \in BOOLEAN
  BY DEF Vblank, Pause, Activate, vars, kernelVars, FieldsOK
<1>3. FieldsOK' /\ SlotsExclusive' /\ ChainInjective'
  BY <1>1, <1>2 DEF FieldsOK, SlotsExclusive, Roles, ChainInjective
<1>4. CASE Vblank
  <2>1. flip # None /\ scanout' = flip /\ flip' = None /\ vblank'
    BY <1>4 DEF Vblank
  <2>2. flip = pending /\ pending # None
    BY <2>1 DEF EventComing
  <2> QED
    BY <1>1, <1>3, <2>1, <2>2 DEF EventComing, ScanoutKnown
<1>5. CASE Pause \/ Activate \/ UNCHANGED vars
  <2>1. UNCHANGED <<flip, vblank>> /\ scanout' \in {scanout, None}
    BY <1>5 DEF Pause, Activate, vars, kernelVars
  <2> QED
    BY <1>1, <1>3, <2>1 DEF EventComing, ScanoutKnown
<1> QED
  BY <1>4, <1>5

\* Every reachable state satisfies the inductive invariant.
LEMMA GbmInductive == Spec => []IndInv
<1>1. IndInv /\ [Next]_vars => IndInv'
  BY StepNextBuffer, StepQueueBuffer, StepFrameSubmitted, StepReset, StepOutside DEF Next
<1> QED
  BY <1>1, GbmInit, PTL DEF Spec

\* At most three of the four slots are taken when the renderer asks for one.
LEMMA Pigeonhole == IndInv => AlwaysFreeSlot
<1> SUFFICES ASSUME IndInv, next = None, \A k \in Position : ~ Free(k) PROVE FALSE
  BY DEF AlwaysFreeSlot
<1>1. 1 \in Position /\ 2 \in Position /\ 3 \in Position /\ 4 \in Position
  BY SlotCapAssumption, RolesAssumption DEF Position
<1>2. \A k \in Position : slots[k] \in {current, pending, queued} \ {None}
  BY DEF Free, IndInv, SlotsExclusive, Roles
<1>3. \A j, k \in Position : slots[j] = slots[k] => j = k
  BY <1>2 DEF IndInv, ChainInjective
<1>4. /\ slots[1] # slots[2] /\ slots[1] # slots[3] /\ slots[1] # slots[4]
      /\ slots[2] # slots[3] /\ slots[2] # slots[4] /\ slots[3] # slots[4]
  BY <1>1, <1>3
<1> QED
  BY <1>1, <1>2, <1>4

\* Every frame has a buffer of its own (queue_buffer, frame_submitted).
THEOREM FramesHaveOwnBuffers == Spec => []SlotsExclusive
<1>1. IndInv => SlotsExclusive
  BY DEF IndInv
<1> QED
  BY <1>1, GbmInductive, PTL

\* The renderer never draws into a buffer on screen or on its way there.
THEOREM ScreenIsNeverDrawnOn == Spec => []ScanoutNotOverwritten
<1>1. IndInv => ScanoutNotOverwritten
  <2> SUFFICES ASSUME IndInv PROVE ScanoutNotOverwritten
    OBVIOUS
  <2>1. scanout \in {None, current, pending} /\ flip \in {None, pending}
    BY DEF IndInv, ScanoutKnown, EventComing
  <2> QED
    BY <2>1, BufferAssumption
       DEF IndInv, SlotsExclusive, Roles, FieldsOK, ScanoutNotOverwritten
<1> QED
  BY <1>1, GbmInductive, PTL

\* A pending frame always has its event coming, a queued one waits only for it.
THEOREM QueueKeepsMoving == Spec => []EventComing
<1>1. IndInv => EventComing
  BY DEF IndInv
<1> QED
  BY <1>1, GbmInductive, PTL

\* next_buffer never returns NoFreeSlotsError.
THEOREM SlotsSuffice == Spec => []AlwaysFreeSlot
  BY Pigeonhole, GbmInductive, PTL
-----------------------------------------------------------------------------
(***************************************************************************)
(* What the renderer is told of its buffer.  AgeIsTrue speaks of `next`    *)
(* only, but the age was counted while the buffer was one of many in the   *)
(* chain: AgesKnown says it of every buffer that may become `next`.  A     *)
(* submit of a buffer outside of the chain is not counted, so the ages stay*)
(* true only because a reset forgets them all while `next` is held         *)
(* (LostForgets).                                                          *)
(***************************************************************************)

AgeKnown(x) ==
    age[x] > 0 => /\ age[x] <= Len(history)
                  /\ history[age[x]] = x
                  /\ \A n \in 1 .. age[x] - 1 : history[n] # x

AgesKnown == \A x \in Buffer : x \in Chained \/ x = next => AgeKnown(x)

LostForgets ==
    next # None /\ next \notin Chained => \A x \in Chained : age[x] = 0

AgeInv ==
    /\ IndInv
    /\ GbmTypeOK
    /\ Len(history) <= MaxAge
    /\ AgesKnown
    /\ LostForgets
    /\ FramebufferPresent

\* The history after a submit: one frame more, until MaxAge are remembered.
Remembered(h, b) == SubSeq(<<b>> \o h, 1, Min({MaxAge, Len(h) + 1}))

\* What queue_buffer remembers of the frames before.
LEMMA HistoryGrows ==
  ASSUME NEW S, NEW h \in Seq(S), Len(h) <= MaxAge, NEW b \in S
  PROVE  /\ Remembered(h, b) \in Seq(S)
         /\ Len(Remembered(h, b)) = IF Len(h) < MaxAge THEN Len(h) + 1 ELSE MaxAge
         /\ Remembered(h, b)[1] = b
         /\ \A n \in 2 .. Len(Remembered(h, b)) : Remembered(h, b)[n] = h[n - 1]
<1> DEFINE m == Min({MaxAge, Len(h) + 1})
<1> DEFINE c == <<b>> \o h
<1>1. Len(h) \in Nat /\ MaxAge \in Nat \ {0}
  BY MaxAgeAssumption
<1>2. \E x \in {MaxAge, Len(h) + 1} : \A y \in {MaxAge, Len(h) + 1} : x <= y
  BY <1>1
<1>3. m \in {MaxAge, Len(h) + 1} /\ m <= MaxAge /\ m <= Len(h) + 1
  BY <1>1, <1>2 DEF Min
<1>4. m = IF Len(h) < MaxAge THEN Len(h) + 1 ELSE MaxAge
  BY <1>1, <1>3
<1>5. c \in Seq(S) /\ Len(c) = Len(h) + 1 /\ c[1] = b
      /\ \A n \in 2 .. Len(c) : c[n] = h[n - 1]
  BY <1>1
<1>6. Remembered(h, b) = SubSeq(c, 1, m)
  BY DEF Remembered
<1> HIDE DEF m, c
<1>7. m \in Int /\ 1 <= m /\ \A n \in 1 .. m : c[n] \in S
  BY <1>1, <1>3, <1>5
<1>8. /\ SubSeq(c, 1, m) \in Seq(S)
      /\ Len(SubSeq(c, 1, m)) = m
      /\ \A n \in 1 .. m : SubSeq(c, 1, m)[n] = c[n]
  <2>1. /\ SubSeq(c, 1, m) \in Seq(S)
        /\ Len(SubSeq(c, 1, m)) = IF 1 <= m THEN m - 1 + 1 ELSE 0
        /\ \A n \in 1 .. m - 1 + 1 : SubSeq(c, 1, m)[n] = c[1 + n - 1]
    BY <1>7, SubSeqProperties
  <2>2. m - 1 + 1 = m /\ \A n \in 1 .. m : 1 + n - 1 = n
    BY <1>7
  <2> QED
    BY <1>7, <2>1, <2>2
<1>9. 1 \in 1 .. m /\ \A n \in 2 .. m : n \in 1 .. m /\ n \in 2 .. Len(c)
  BY <1>1, <1>3, <1>5, <1>7
<1> QED
  BY <1>4, <1>5, <1>6, <1>8, <1>9

\* The surface starts with nothing drawn.
LEMMA AgeInit == Init => AgeInv
<1> SUFFICES ASSUME Init PROVE AgeInv
  OBVIOUS
<1>1. IndInv
  BY GbmInit
<1>2. GbmTypeOK
  <2>1. SwapchainTypeOK
    BY MaxAgeAssumption DEF Init, SwapchainTypeOK
  <2>2. history \in Seq(Buffer \cup {None})
    BY DEF Init
  <2> QED
    BY <2>1, <2>2 DEF Init, GbmTypeOK
<1>3. Len(history) <= MaxAge
  BY MaxAgeAssumption DEF Init
<1>4. AgesKnown /\ LostForgets /\ FramebufferPresent
  BY BufferAssumption DEF Init, AgesKnown, AgeKnown, LostForgets, FramebufferPresent
<1> QED
  BY <1>1, <1>2, <1>3, <1>4 DEF AgeInv

\* next_buffer: a buffer that is allocated again has no age, and no frame of
\* its former life is remembered; a buffer without a framebuffer is nobody's.
LEMMA AgeNextBuffer == AgeInv /\ NextBuffer => AgeInv'
<1> SUFFICES ASSUME AgeInv, NextBuffer PROVE AgeInv'
  OBVIOUS
<1> USE BufferAssumption, MaxAgeAssumption
<1>1. PICK k \in Position, b \in Buffer : \E ok \in BOOLEAN :
          FirstFree(k) /\ Allocated(k, b) /\ Take(b, ok)
  BY DEF NextBuffer
<1>2. PICK ok \in BOOLEAN : FirstFree(k) /\ Allocated(k, b) /\ Take(b, ok)
  BY <1>1
<1>3. next = None /\ UNCHANGED <<current, pending, queued, kernelVars>>
  BY DEF NextBuffer
<1>4. IndInv'
  BY StepNextBuffer DEF AgeInv
<1>5. GbmTypeOK /\ Len(history) \in Nat
  BY DEF AgeInv, GbmTypeOK
<1>6. /\ history' \in Seq(Buffer \cup {None})
      /\ Len(history') = Len(history)
      /\ slots' \in [Position -> Buffer \cup {None}]
      /\ age' \in [Buffer -> 0 .. MaxAge]
      /\ slots'[k] = b
      /\ \A j \in Position \ {k} : slots'[j] = slots[j]
  <2>1. CASE slots[k] # None
    BY <1>2, <1>5, <2>1 DEF Allocated, GbmTypeOK, SwapchainTypeOK
  <2>2. CASE slots[k] = None
    <3>1. /\ slots' = [slots EXCEPT ![k] = b]
          /\ age' = [age EXCEPT ![b] = 0]
          /\ history' = [n \in DOMAIN history |-> IF history[n] = b THEN None ELSE history[n]]
      BY <1>2, <2>2 DEF Allocated, SlotsWith
    <3>2. DOMAIN history = 1 .. Len(history)
          /\ \A n \in DOMAIN history : history[n] \in Buffer \cup {None}
      BY <1>5 DEF GbmTypeOK
    <3>3. history' = [n \in 1 .. Len(history) |-> IF history[n] = b THEN None ELSE history[n]]
      BY <3>1, <3>2
    <3>4. history' \in Seq(Buffer \cup {None}) /\ Len(history') = Len(history)
      BY <1>5, <3>2, <3>3
    <3> QED
      BY <3>1, <3>4, <1>5 DEF GbmTypeOK, SwapchainTypeOK
  <2> QED
    BY <2>1, <2>2
<1>7. Chained' = Chained \cup {b}
  <2>1. slots[k] # None => slots[k] = b
    BY <1>2 DEF Allocated
  <2> QED
    BY <1>6, <2>1 DEF Chained
<1>8. next' \in {None, b} /\ acquired' \subseteq Buffer
  BY <1>2, <1>3, <1>5 DEF Take, GbmTypeOK, SwapchainTypeOK
<1>9. GbmTypeOK'
  <2>1. bare' \subseteq Buffer
    BY <1>2, <1>5 DEF Take, GbmTypeOK
  <2> QED
    BY <1>3, <1>5, <1>6, <1>8, <2>1 DEF GbmTypeOK, SwapchainTypeOK, kernelVars
<1>10. AgesKnown'
  <2> SUFFICES ASSUME NEW x \in Buffer, x \in Chained \cup {b} PROVE AgeKnown(x)'
    BY <1>7, <1>8 DEF AgesKnown
  <2>1. CASE slots[k] # None
    BY <1>2, <2>1 DEF Allocated, AgeInv, AgesKnown, AgeKnown, Chained
  <2>2. CASE slots[k] = None
    <3>1. /\ Unused(b)
          /\ age' = [age EXCEPT ![b] = 0]
          /\ history' = [n \in DOMAIN history |-> IF history[n] = b THEN None ELSE history[n]]
      BY <1>2, <2>2 DEF Allocated
    <3>2. DOMAIN history = 1 .. Len(history)
      BY <1>5 DEF GbmTypeOK
    <3>3. CASE x = b
      BY <1>5, <3>1, <3>3 DEF AgeKnown, GbmTypeOK, SwapchainTypeOK
    <3>4. CASE x # b
      <4>1. AgeKnown(x) /\ age'[x] = age[x] /\ age[x] \in Nat
        BY <1>5, <3>1, <3>4 DEF AgeInv, AgesKnown, GbmTypeOK, SwapchainTypeOK
      <4>2. \A n \in 1 .. Len(history) :
               /\ history[n] = x => history'[n] = x
               /\ history[n] # x => history'[n] # x
        BY <3>1, <3>2, <3>4
      <4>3. CASE age[x] > 0
        <5>1. /\ age[x] \in 1 .. Len(history) /\ history[age[x]] = x
              /\ \A n \in 1 .. age[x] - 1 : n \in 1 .. Len(history) /\ history[n] # x
          BY <1>5, <4>1, <4>3 DEF AgeKnown
        <5>2. /\ history'[age[x]] = x
              /\ \A n \in 1 .. age[x] - 1 : history'[n] # x
          BY <4>2, <5>1
        <5> QED
          BY <1>6, <4>1, <5>1, <5>2 DEF AgeKnown
      <4> QED
        BY <4>1, <4>3 DEF AgeKnown
    <3> QED
      BY <3>3, <3>4
  <2> QED
    BY <2>1, <2>2
<1>11. LostForgets'
  BY <1>7, <1>8 DEF LostForgets
<1>12. FramebufferPresent'
  <2>1. b \notin acquired
    BY <1>2 DEF FirstFree, Free, Allocated, Unused
  <2>2. queued # b
    BY <2>1, <1>3 DEF AgeInv, IndInv, SlotsExclusive, Roles
  <2>3. None \notin bare' /\ None \notin bare
    BY <1>5, <1>9 DEF GbmTypeOK
  <2> QED
    BY <1>2, <1>3, <2>2, <2>3 DEF Take, AgeInv, FramebufferPresent
<1> QED
  BY <1>4, <1>5, <1>6, <1>9, <1>10, <1>11, <1>12 DEF AgeInv

\* queue_buffer: every known age and the history grow by one together; a buffer
\* whose age would leave the history leaves the chain.
LEMMA AgeQueueBuffer == AgeInv /\ QueueBuffer => AgeInv'
<1> SUFFICES ASSUME AgeInv, QueueBuffer PROVE AgeInv'
  OBVIOUS
<1> USE BufferAssumption, MaxAgeAssumption
<1>1. /\ next \in Buffer
      /\ next' = None
      /\ Submitted(next)
      /\ history' = SubSeq(<<next>> \o history, 1, Min({MaxAge, Len(history) + 1}))
      /\ UNCHANGED <<current, bare, active, scanout, vblank>>
  BY DEF QueueBuffer, AgeInv, GbmTypeOK
<1>2. IndInv'
  BY StepQueueBuffer DEF AgeInv
<1>3. GbmTypeOK /\ Len(history) \in Nat /\ Len(history) <= MaxAge
  BY DEF AgeInv, GbmTypeOK
<1>4. /\ history' \in Seq(Buffer \cup {None}) /\ Len(history') <= MaxAge
      /\ Len(history') = IF Len(history) < MaxAge THEN Len(history) + 1 ELSE MaxAge
      /\ history'[1] = next
      /\ \A n \in 2 .. Len(history') : history'[n] = history[n - 1]
  <2>1. history \in Seq(Buffer \cup {None}) /\ next \in Buffer \cup {None}
    BY <1>1, <1>3 DEF GbmTypeOK
  <2> QED
    <3>1. history' = Remembered(history, next)
      BY <1>1 DEF Remembered
    <3>2. /\ Remembered(history, next) \in Seq(Buffer \cup {None})
          /\ Len(Remembered(history, next)) =
                IF Len(history) < MaxAge THEN Len(history) + 1 ELSE MaxAge
          /\ Remembered(history, next)[1] = next
          /\ \A n \in 2 .. Len(Remembered(history, next)) :
                Remembered(history, next)[n] = history[n - 1]
      <4> DEFINE S == Buffer \cup {None}
      <4>1. history \in Seq(S) /\ next \in S
        BY <2>1
      <4> HIDE DEF S
      <4>2. /\ Remembered(history, next) \in Seq(S)
            /\ Len(Remembered(history, next)) =
                  IF Len(history) < MaxAge THEN Len(history) + 1 ELSE MaxAge
            /\ Remembered(history, next)[1] = next
            /\ \A n \in 2 .. Len(Remembered(history, next)) :
                  Remembered(history, next)[n] = history[n - 1]
        BY <1>3, <4>1, HistoryGrows
      <4> QED
        BY <4>2 DEF S
    <3> QED
      BY <1>3, <3>1, <3>2
<1>5. slots' \in [Position -> Buffer \cup {None}] /\ age' \in [Buffer -> 0 .. MaxAge]
  <2>1. CASE next \in Chained
    <3>1. \A x \in Buffer : Ages(next)[x] \in 0 .. MaxAge
      BY <1>3 DEF Ages, GbmTypeOK, SwapchainTypeOK
    <3>2. age' \in [Buffer -> 0 .. MaxAge]
      BY <1>1, <2>1, <3>1 DEF Submitted, Ages
    <3> QED
      BY <1>1, <1>3, <2>1, <3>2 DEF Submitted, SlotsAged, GbmTypeOK, SwapchainTypeOK
  <2>2. CASE next \notin Chained
    BY <1>1, <1>3, <2>2 DEF Submitted, GbmTypeOK, SwapchainTypeOK
  <2> QED
    BY <2>1, <2>2
<1>6. GbmTypeOK'
  <2>1. acquired' \subseteq Buffer /\ pending' \in Buffer \cup {None}
        /\ queued' \in Buffer \cup {None} /\ next' \in Buffer \cup {None}
    BY <1>2 DEF IndInv, FieldsOK
  <2>2. flip' \in Buffer \cup {None}
    BY <1>2, <2>1 DEF IndInv, EventComing
  <2> QED
    BY <1>1, <1>3, <1>4, <1>5, <2>1, <2>2 DEF GbmTypeOK, SwapchainTypeOK
<1>7. AgesKnown'
  <2> SUFFICES ASSUME NEW x \in Buffer, x \in Chained', age'[x] > 0 PROVE AgeKnown(x)'
    BY <1>1 DEF AgesKnown, AgeKnown
  <2>1. CASE next \in Chained
    <3>1. age' = Ages(next) /\ slots' = SlotsAged(next)
      BY <1>1, <2>1 DEF Submitted
    <3>2. CASE x = next
      BY <1>4, <3>1, <3>2 DEF Ages, AgeKnown
    <3>3. CASE x # next
      <4>1. x \in Chained /\ age[x] # MaxAge
        BY <3>1, <3>3 DEF Chained, SlotsAged
      <4>2. age[x] \in 0 .. MaxAge
        BY <1>3 DEF GbmTypeOK, SwapchainTypeOK
      <4>3. age'[x] = IF age[x] > 0 THEN age[x] + 1 ELSE age[x]
        BY <3>1, <3>3, <4>1, <4>2 DEF Ages
      <4>4. age[x] > 0 /\ age'[x] = age[x] + 1
        BY <4>2, <4>3
      <4>5. /\ age[x] <= Len(history) /\ history[age[x]] = x
            /\ \A n \in 1 .. age[x] - 1 : history[n] # x
        BY <4>1, <4>4 DEF AgeInv, AgesKnown, AgeKnown
      <4>6. age[x] + 1 <= Len(history')
        BY <1>3, <1>4, <4>1, <4>2, <4>5
      <4>7. history'[age[x] + 1] = x
        BY <1>3, <1>4, <4>2, <4>4, <4>5, <4>6
      <4>8. ASSUME NEW n \in 1 .. age[x] PROVE history'[n] # x
        <5>1. CASE n = 1
          BY <1>4, <3>3, <5>1
        <5>2. CASE n # 1
          <6>1. n \in 2 .. Len(history') /\ n - 1 \in 1 .. age[x] - 1
            BY <1>4, <4>2, <4>6, <5>2
          <6> QED
            BY <1>4, <4>5, <6>1
        <5> QED
          BY <5>1, <5>2
      <4> QED
        BY <4>2, <4>4, <4>6, <4>7, <4>8 DEF AgeKnown
    <3> QED
      BY <3>2, <3>3
  <2>2. CASE next \notin Chained
    <3>1. age' = age /\ slots' = slots
      BY <1>1, <2>2 DEF Submitted
    <3> QED
      BY <1>1, <2>2, <3>1 DEF AgeInv, LostForgets, Chained
  <2> QED
    BY <2>1, <2>2
<1>8. LostForgets'
  BY <1>1 DEF LostForgets
<1>9. FramebufferPresent'
  <2>1. queued' \in {None, next}
    BY DEF QueueBuffer, Submit
  <2>2. None \notin bare
    BY <1>3 DEF GbmTypeOK
  <2> QED
    BY <1>1, <2>1, <2>2 DEF AgeInv, FramebufferPresent
<1> QED
  BY <1>2, <1>4, <1>6, <1>7, <1>8, <1>9 DEF AgeInv

\* frame_submitted touches neither the chain nor the ages.
LEMMA AgeFrameSubmitted == AgeInv /\ FrameSubmitted => AgeInv'
<1> SUFFICES ASSUME AgeInv, FrameSubmitted PROVE AgeInv'
  OBVIOUS
<1> USE BufferAssumption
<1>1. UNCHANGED <<slots, age, next, bare, history, active, scanout>>
  BY DEF FrameSubmitted, bufferVars
<1>2. IndInv'
  BY StepFrameSubmitted DEF AgeInv
<1>3. GbmTypeOK'
  <2>1. current' \in Buffer /\ acquired' \subseteq Buffer /\ pending' \in Buffer \cup {None}
        /\ queued' \in Buffer \cup {None} /\ next' \in Buffer \cup {None} /\ vblank' \in BOOLEAN
    BY <1>2 DEF IndInv, FieldsOK
  <2>2. flip' \in Buffer \cup {None}
    BY <1>2, <2>1 DEF IndInv, EventComing
  <2> QED
    BY <1>1, <2>1, <2>2 DEF AgeInv, GbmTypeOK, SwapchainTypeOK
<1>4. AgesKnown' /\ LostForgets' /\ Len(history') <= MaxAge
  BY <1>1 DEF AgeInv, AgesKnown, AgeKnown, LostForgets, Chained
<1>5. FramebufferPresent'
  <2>1. queued' \in {None, queued}
    BY DEF FrameSubmitted, Advance, Submit
  <2>2. None \notin bare
    BY DEF AgeInv, GbmTypeOK
  <2> QED
    BY <1>1, <2>1, <2>2 DEF AgeInv, FramebufferPresent
<1> QED
  BY <1>2, <1>3, <1>4, <1>5 DEF AgeInv

\* A reset leaves no age behind in the chain, except that of nobody.
LEMMA AgeReset == AgeInv /\ (UseMode \/ ResetBuffers \/ ResetBufferAges) => AgeInv'
<1> SUFFICES ASSUME AgeInv, UseMode \/ ResetBuffers \/ ResetBufferAges PROVE AgeInv'
  OBVIOUS
<1> USE BufferAssumption, MaxAgeAssumption
<1>1. UNCHANGED <<acquired, roleVars, kernelVars, bufferVars>>
  BY DEF UseMode, ResetBuffers, ResetBufferAges
<1>2. UNCHANGED <<acquired, current, pending, queued, next, active, scanout, flip, vblank,
                  bare, history>>
  BY <1>1 DEF roleVars, kernelVars, bufferVars
<1>3. IndInv'
  BY StepReset DEF AgeInv
<1>4. \/ slots' = EmptySlots /\ age' = age
      \/ slots' = SlotsReset /\ age' = AgesReset
  BY DEF UseMode, ResetBuffers, ResetBufferAges
<1>5. age' \in [Buffer -> 0 .. MaxAge]
  BY <1>4 DEF AgesReset, AgeInv, GbmTypeOK, SwapchainTypeOK
<1>6. GbmTypeOK'
  <2>1. slots' \in [Position -> Buffer \cup {None}]
    BY <1>3 DEF IndInv, FieldsOK
  <2> QED
    BY <1>2, <1>5, <2>1 DEF AgeInv, GbmTypeOK, SwapchainTypeOK
<1>7. \A x \in Chained' : x \in Buffer /\ age'[x] = 0
  <2>1. CASE slots' = EmptySlots
    BY <2>1 DEF EmptySlots, Chained
  <2>2. CASE slots' = SlotsReset /\ age' = AgesReset
    BY <2>2 DEF SlotsReset, AgesReset, Chained, AgeInv, GbmTypeOK, SwapchainTypeOK
  <2> QED
    BY <1>4, <2>1, <2>2
<1>8. \A x \in Buffer : x = next => age'[x] = age[x]
  <2>1. next # None => next \in acquired
    BY DEF AgeInv, IndInv, SlotsExclusive, Roles
  <2> QED
    BY <1>4, <2>1 DEF AgesReset
<1>9. AgesKnown' /\ LostForgets'
  BY <1>2, <1>7, <1>8 DEF AgeInv, AgesKnown, AgeKnown, LostForgets
<1>10. FramebufferPresent' /\ Len(history') <= MaxAge
  BY <1>2 DEF AgeInv, FramebufferPresent
<1> QED
  BY <1>3, <1>6, <1>9, <1>10 DEF AgeInv

\* The kernel and the session know nothing of ages.
LEMMA AgeOutside == AgeInv /\ (Vblank \/ Pause \/ Activate \/ UNCHANGED vars) => AgeInv'
<1> SUFFICES ASSUME AgeInv, Vblank \/ Pause \/ Activate \/ UNCHANGED vars PROVE AgeInv'
  OBVIOUS
<1>1. UNCHANGED <<chainVars, roleVars, bufferVars>>
  BY DEF Vblank, Pause, Activate, vars
<1>2. UNCHANGED <<slots, acquired, age, current, pending, queued, next, bare, history>>
  BY <1>1 DEF chainVars, roleVars, bufferVars
<1>3. IndInv'
  BY StepOutside DEF AgeInv
<1>4. /\ active' \in BOOLEAN /\ vblank' \in BOOLEAN
      /\ scanout' \in Buffer \cup {None} /\ flip' \in Buffer \cup {None}
  BY DEF Vblank, Pause, Activate, vars, kernelVars, AgeInv, GbmTypeOK
<1>5. GbmTypeOK'
  BY <1>2, <1>4 DEF AgeInv, GbmTypeOK, SwapchainTypeOK
<1>6. AgesKnown' /\ LostForgets' /\ Len(history') <= MaxAge /\ FramebufferPresent'
  BY <1>2 DEF AgeInv, AgesKnown, AgeKnown, LostForgets, Chained, FramebufferPresent
<1> QED
  BY <1>3, <1>5, <1>6 DEF AgeInv

\* Every reachable state satisfies the stronger invariant.
LEMMA AgeInductive == Spec => []AgeInv
<1>1. AgeInv /\ [Next]_vars => AgeInv'
  BY AgeNextBuffer, AgeQueueBuffer, AgeFrameSubmitted, AgeReset, AgeOutside DEF Next
<1> QED
  BY <1>1, AgeInit, PTL DEF Spec

\* The fields of the surface and of its swapchain keep their types.
THEOREM SurfaceTyped == Spec => []GbmTypeOK
<1>1. AgeInv => GbmTypeOK
  BY DEF AgeInv
<1> QED
  BY <1>1, AgeInductive, PTL

\* The age next_buffer returns is the number of frames since the buffer was
\* drawn, whatever was replaced, refused, reset or allocated again since.
THEOREM AgesAreTrue == Spec => []AgeIsTrue
<1>1. AgeInv => AgeIsTrue
  <2> SUFFICES ASSUME AgeInv, next # None PROVE AgeKnown(next)
    BY DEF AgeIsTrue, AgeKnown
  <2> QED
    BY DEF AgeInv, AgesKnown, GbmTypeOK
<1> QED
  BY <1>1, AgeInductive, PTL

\* submit always finds the framebuffer it unwraps.
THEOREM SubmitUnwrapsSafely == Spec => []FramebufferPresent
<1>1. AgeInv => FramebufferPresent
  BY DEF AgeInv
<1> QED
  BY <1>1, AgeInductive, PTL
=============================================================================
