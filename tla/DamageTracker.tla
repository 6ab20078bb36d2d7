---------------------------- MODULE DamageTracker ----------------------------
(***************************************************************************)
(* OutputDamageTracker of backend/renderer/damage/mod.rs, the DamageBag of *)
(* every element (backend/renderer/utils/mod.rs) and the buffers they      *)
(* render into.                                                            *)
(*                                                                         *)
(* The output is a row of pixels, an element an interval of them.  What a  *)
(* pixel shows is the list of elements that reach it from the front, down  *)
(* to the first solid one.  Clients declare opaque only what is solid, and *)
(* damage what they repaint.  The buffers have the ages an EGL surface or  *)
(* a Swapchain reports: frames since the buffer was last submitted.        *)
(***************************************************************************)
EXTENDS Integers, Sequences, SequencesExt, Subsequence

CONSTANTS
    Element,        \* Id of the render elements
    Target,         \* buffers of the output
    NoTarget,
    Width,          \* pixels of the output, and of an element
    BagLimit,       \* MAX_DAMAGE_AGE
    MaxHistory,     \* MAX_AGE: old damage kept while every age is 0
    MaxStack,       \* bound: elements shown at a time
    MaxChanges,     \* bound: changes of the scene
    MaxFrames       \* bound: frames submitted

ASSUME DamageConstants ==
    /\ Width \in Nat \ {0} /\ BagLimit \in Nat \ {0} /\ MaxHistory \in Nat
    /\ MaxStack \in Nat
    /\ NoTarget \notin Target

VARIABLES
    scene,      \* what the compositor wants to show
    bag,        \* DamageBag of each element
    tracker,    \* OutputDamageTracker::last_state
    pixels,     \* contents of each buffer
    frameAge,   \* age of each buffer, 0 when unknown
    shown,      \* the buffer submitted last
    rendered,   \* the scene did not change since the last render_output
    work        \* [changes, frames] so far

damageVars == <<scene, bag, tracker, pixels, frameAge, shown, rendered, work>>

Output == 0 .. Width - 1
Offset == 0 .. Width - 1
Geometry(l) == {l + o : o \in Offset} \cap Output

Paint == {"solid", "glass"}

----------------------------------------------------------------------------
\* What a pixel of scene s shows.

Above(s, e, f) == \E j, k \in DOMAIN s.stack : j < k /\ s.stack[j] = e /\ s.stack[k] = f
On(s, p) == {e \in ToSet(s.stack) : p \in Geometry(s.loc[e])}
PaintAt(s, e, p) == s.paint[e][p - s.loc[e]]

Drawn(s, p) ==
    {e \in On(s, p) : \A f \in On(s, p) : Above(s, f, e) => PaintAt(s, f, p) = "glass"}

Colour(s, p) ==
    [mode   |-> s.mode,
     layers |-> [e \in Drawn(s, p) |-> PaintAt(s, e, p)],
     order  |-> {ef \in Drawn(s, p) \X Drawn(s, p) : Above(s, ef[1], ef[2])}]

----------------------------------------------------------------------------
\* damage_output_internal

\* damage_since: the whole element when the bag does not reach back to commit.
DamageSince(e, commit) ==
    LET distance == bag[e].commit - commit
    IN  IF distance <= Len(bag[e].damage)
        THEN UNION {bag[e].damage[k] : k \in 1 .. distance}
        ELSE Offset

OpaqueArea(s, e) == {s.loc[e] + o : o \in s.opaque[e]} \cap Output

OpaqueAbove(s, e) == UNION {OpaqueArea(s, f) : f \in {f \in ToSet(s.stack) : Above(s, f, e)}}

\* An element off the output or behind opaque regions is not rendered.
Visible(s, e) == Geometry(s.loc[e]) \ OpaqueAbove(s, e) # {}

RenderElements(s) == {e \in ToSet(s.stack) : Visible(s, e)}

ZIndex(s, e) == Cardinality({f \in RenderElements(s) : Above(s, f, e)})

OpaqueRegions(s) == UNION {OpaqueArea(s, e) : e \in ToSet(s.stack)}

\* ElementState::instance_matches
InstanceMatches(e) ==
    /\ e \in DOMAIN tracker.elements
    /\ tracker.elements[e].loc = scene.loc[e]
    /\ tracker.elements[e].z = ZIndex(scene, e)

ElementDamage(e) ==
    IF InstanceMatches(e)
    THEN {scene.loc[e] + o : o \in DamageSince(e, tracker.elements[e].commit)} \cap Output
    ELSE Geometry(scene.loc[e])
         \cup (IF e \in DOMAIN tracker.elements THEN Geometry(tracker.elements[e].loc) ELSE {})

\* Elements rendered before that now are gone, off the output or hidden.
GoneDamage ==
    UNION {Geometry(tracker.elements[e].loc) : e \in DOMAIN tracker.elements \ RenderElements(scene)}

NewDamage ==
    IF tracker.mode # scene.mode THEN Output
    ELSE (UNION {ElementDamage(e) : e \in RenderElements(scene)})
         \cup GoneDamage
         \cup (tracker.opaque \ OpaqueRegions(scene))

Truncate(s, n) == SubSeq(s, 1, IF n < Len(s) THEN n ELSE Len(s))

\* The age is known and recent enough for the damage that is kept.
HistoryReaches(b) == frameAge[b] > 0 /\ Len(tracker.old) >= frameAge[b]

\* Wrong variant: the damage of the frame right after the buffer's is left out.
FrameDamageShort(b) ==
    IF HistoryReaches(b)
    THEN NewDamage \cup UNION {tracker.old[k] : k \in 1 .. frameAge[b] - 2}
    ELSE Output

\* "We now add old damage states, if we have an age value"
FrameDamage(b) ==
    IF HistoryReaches(b)
    THEN NewDamage \cup UNION {tracker.old[k] : k \in 1 .. frameAge[b] - 1}
    ELSE Output

History(b) ==
    Truncate(tracker.old, IF HistoryReaches(b) THEN frameAge[b] ELSE MaxHistory)

NextState(b) ==
    [mode     |-> scene.mode,
     elements |-> [e \in RenderElements(scene) |->
                     [loc |-> scene.loc[e], commit |-> bag[e].commit, z |-> ZIndex(scene, e)]],
     opaque   |-> OpaqueRegions(scene),
     old      |-> <<NewDamage>> \o History(b)]

\* RendererState::default()
NoState == [mode |-> 0, elements |-> [e \in {} |-> 0], opaque |-> {}, old |-> <<>>]

----------------------------------------------------------------------------
Arrangements(S) == {s \in UNION {[1 .. n -> S] : n \in 0 .. MaxStack} : IsInjective(s)}

\* The compositor starts with as many elements as it may show, in any order.
DamageInit ==
    /\ \E s \in Arrangements(Element) :
           /\ Len(s) = MaxStack
           /\ scene = [stack |-> s, mapped |-> Element, mode |-> 1,
                       loc |-> [e \in Element |-> 0],
                       paint |-> [e \in Element |-> [o \in Offset |-> "glass"]],
                       opaque |-> [e \in Element |-> {}]]
    /\ bag = [e \in Element |-> [commit |-> 0, damage |-> <<>>]]
    /\ tracker = NoState
    /\ pixels = [b \in Target |-> [p \in Output |-> NoTarget]]
    /\ frameAge = [b \in Target |-> 0]
    /\ shown = NoTarget
    /\ rendered = FALSE
    /\ work = [changes |-> 0, frames |-> 0]

Change ==
    /\ work.changes < MaxChanges
    /\ work' = [work EXCEPT !.changes = @ + 1]
    /\ rendered' = FALSE
    /\ UNCHANGED <<tracker, pixels, frameAge, shown>>

\* Wrong variant: the damage of every commit is kept.
AddedUnbounded(e, area) ==
    IF area = {} THEN bag[e]
    ELSE [commit |-> bag[e].commit + 1, damage |-> <<area>> \o bag[e].damage]

\* DamageSnapshot::add: "do not track empty damage"
Added(e, area) ==
    IF area = {} THEN bag[e]
    ELSE [commit |-> bag[e].commit + 1,
          damage |-> Truncate(<<area>> \o bag[e].damage, BagLimit)]

\* RendererSurfaceState::update_buffer with a new buffer: the client repaints
\* area and damages it; a surface without a buffer gets all of its contents.
CommitBuffer(e, area, v, declared) ==
    LET painted == [o \in Offset |->
            IF o \in area \/ e \notin scene.mapped THEN v ELSE scene.paint[e][o]]
    IN
    /\ Change
    /\ scene' = [scene EXCEPT
           !.mapped = @ \cup {e},
           !.paint[e] = painted,
           !.opaque[e] = IF declared THEN {o \in Offset : painted[o] = "solid"} ELSE {}]
    /\ bag' = [bag EXCEPT ![e] = Added(e, area)]

\* update_buffer with BufferAssignment::Removed: the bag is reset, and the
\* surface yields no element any more.
RemoveBuffer(e) ==
    /\ Change
    /\ e \in scene.mapped
    /\ scene' = [scene EXCEPT !.mapped = @ \ {e},
                              !.stack = Select(@, {k \in DOMAIN @ : @[k] # e})]
    /\ bag' = [bag EXCEPT ![e] = [commit |-> @.commit + 1, damage |-> <<>>]]

\* The compositor shows, hides and restacks elements as it likes.
Restack(s) ==
    /\ Change
    /\ s # scene.stack
    /\ scene' = [scene EXCEPT !.stack = s]
    /\ UNCHANGED bag

Move(e, l) ==
    /\ Change
    /\ l # scene.loc[e]
    /\ scene' = [scene EXCEPT !.loc[e] = l]
    /\ UNCHANGED bag

\* The size, transform or clear colour of the output changes.
ChangeMode ==
    /\ Change
    /\ scene' = [scene EXCEPT !.mode = 3 - @]
    /\ UNCHANGED bag

\* render_output draws the damaged pixels of b, which is then submitted; with
\* no damage it leaves early, after it cut the history.
RenderOutput(b) ==
    LET damage == FrameDamage(b)
    IN
    /\ work.frames < MaxFrames
    /\ rendered' = TRUE
    /\ IF damage = {}
       THEN /\ tracker' = [tracker EXCEPT !.old = History(b)]
            /\ UNCHANGED <<pixels, frameAge, shown, work>>
       ELSE /\ tracker' = NextState(b)
            /\ pixels' = [pixels EXCEPT ![b] = [p \in Output |->
                  IF p \in damage THEN Colour(scene, p) ELSE @[p]]]
            /\ frameAge' = [x \in Target |->
                  IF x = b THEN 1 ELSE IF frameAge[x] > 0 THEN frameAge[x] + 1 ELSE 0]
            /\ shown' = b
            /\ work' = [work EXCEPT !.frames = @ + 1]
    /\ UNCHANGED <<scene, bag>>

\* render_output_internal fails half way: "this whole buffer was partially
\* updated and thus now unusable".  The frame is not submitted.
RenderFails(b) ==
    /\ work.frames < MaxFrames
    /\ b # shown
    /\ FrameDamage(b) # {}
    /\ pixels' = [pixels EXCEPT ![b] = [p \in Output |-> NoTarget]]
    /\ tracker' = NoState
    /\ work' = [work EXCEPT !.frames = @ + 1]
    /\ UNCHANGED <<scene, bag, frameAge, shown, rendered>>

DamageNext ==
    \/ \E e \in Element, area \in SUBSET Offset, v \in Paint, declared \in BOOLEAN :
           CommitBuffer(e, area, v, declared)
    \/ \E e \in Element : RemoveBuffer(e)
    \/ \E s \in Arrangements(scene.mapped) : Restack(s)
    \/ \E e \in Element, l \in 0 .. Width : Move(e, l)
    \/ ChangeMode
    \/ \E b \in Target : RenderOutput(b)
    \/ \E b \in Target : RenderFails(b)

DamageSpec == DamageInit /\ [][DamageNext]_damageVars

----------------------------------------------------------------------------
DamageTypeOK ==
    /\ DOMAIN tracker.elements \subseteq Element
    /\ tracker.opaque \subseteq Output
    /\ \A k \in DOMAIN tracker.old : tracker.old[k] \subseteq Output
    /\ \A e \in Element : Len(bag[e].damage) <= BagLimit
    /\ scene.stack \in Arrangements(scene.mapped)
    /\ shown \in Target \cup {NoTarget}

(***************************************************************************)
(* Once render_output returned for the present scene, whether it drew or   *)
(* found nothing to draw, every pixel of the buffer submitted last shows   *)
(* that scene: redrawing only the damage of the frames since the buffer    *)
(* was used never leaves an old pixel, over moves, restacking, hidden and  *)
(* reappearing elements, short damage bags and failed frames.              *)
(***************************************************************************)
FrameIsWhole ==
    rendered /\ shown # NoTarget => pixels[shown] = [p \in Output |-> Colour(scene, p)]

(***************************************************************************)
(* Seen through its buffers, the tracker draws all of every frame: what it *)
(* saves, whole frames included, is nowhere missed.                        *)
(***************************************************************************)
Redraw == INSTANCE FullRedraw WITH
    picture <- [p \in Output |-> Colour(scene, p)], Pixel <- Output

ImplementsRedraw == Redraw!RedrawSpec
=============================================================================
