# Smithay: a TLA+ verification project

Smithay is a library of building blocks for Wayland compositors. This directory
models the parts of it whose correctness depends on the order in which clients,
the compositor, the kernel and other threads act, model-checks them with TLC on
small instances, and proves the main results with TLAPS for every instance.
Paths below are relative to the repository; the library is in `src/`, the
example compositor in `anvil/`. In `PROJECT.json` they carry one more leading
`src/`, the directory the repository is kept in.

## 1. The system

| Component | State | Operations | Correct when |
|---|---|---|---|
| Surface tree (`wayland/compositor/tree.rs`, `handlers.rs`) | parent, ordered children, role, sync mode of every `wl_surface` | create, `get_subsurface`, `place_above/below`, `set_sync/desync`, destroy of surface and subsurface | a forest; both directions of links agree; stacking as requested |
| Double-buffered state (`cache.rs`, `tree.rs`) | pending, cached and current state, commit ids, pending transaction per surface | state requests, `commit`, `apply_state` | a synchronised state appears with its parent's, never before its blockers resolve |
| Transaction queue (`transaction.rs`) | per client: transactions with surfaces and blockers | `append`, `take_ready`, `apply`, `blocker_cleared` | per-surface order, atomicity, no transaction stuck |
| Fifo, commit timing, explicit sync (`fifo`, `commit_timing`, `drm_syncobj`) | barriers and timelines per surface | pre-commit hooks that add blockers, signalling | every barrier is released; acquire before release |
| Swapchain (`backend/allocator/swapchain.rs`) | four slots, acquired flag, age | `acquire`, `submitted`, `resize`, resets, drop | no buffer given out twice; true ages |
| Gbm surface (`backend/drm/surface/gbm.rs`) | current, pending, queued, next frame | `next_buffer`, `queue_buffer`, `frame_submitted`, `use_mode`, resets | screen contents never overwritten; frames move on at each vblank |
| DRM compositor, device, outputs (`backend/drm`) | planes, claims, frames, atomic state | render, queue, vblank, pause, activate, lease | as above, per plane; a paused device is left alone |
| XDG shell, layer shell, session lock (`wayland/shell`, `session_lock`) | configures sent, acked, committed; popups; lock state | configure, ack, commit, grab, reposition, lock, unlock | the state applied is the last acked; no buffer before a configure; no content while locked |
| Seat (`input`, `wayland/seat`) | focus, grabs, pressed keys and buttons, serials | events, grabs set or unset from inside grabs, focus change | enter and leave pair up; every press has its release; grabs end |
| Selections and drag and drop (`wayland/selection`, `input/dnd`) | sources, offers, current selection | set, receive, drop, cancel | offers of a replaced source die; one drag at a time |
| Popups and space (`desktop`) | popup trees, grabs, element maps | track, grab, dismiss, refresh | popups dismissed top to bottom |
| Image capture, DRM lease, idle, activation, output and other globals (`wayland/*`) | per-object protocol state | requests, timers, hot-plug | per protocol |
| XWayland (`xwayland`) | X11 windows, associations, selections | X events, surface serials | each window meets its surface once |
| Renderers (`backend/renderer`) | damage history, element states, buffer ages | `damage_output`, `render_output`, commits of surfaces | redrawing the damage alone gives the whole picture |
| Pointer constraints and gestures (`pointer_constraints.rs`, `pointer_gestures.rs`) | constraint per surface and pointer, gesture in progress | lock, confine, activate, begin, end, destroy | ended when the focus leaves |
| EGL, Vulkan, allocators, input and session backends, utilities | drivers, geometry | | |

How they interact. All Wayland requests of all clients, vblank events, session
events and blocker notifications are dispatched by one event loop thread. A
`wl_surface.commit` runs the pre-commit hooks (which may add blockers), caches
the pending state under the surface's current commit id, and either parks it in
the surface's pending transaction (effectively synchronised subsurface) or
collects the subtree, appends one transaction to the client's queue and
triggers it. The ready transactions are applied, surface by surface, each
followed by post-commit hooks and the compositor's `commit` handler, which may
do anything, triggering the queue again included. Blockers are polled fds or
atomics that other threads change at any time; the compositor calls
`blocker_cleared` afterwards. On the output side the compositor draws into
`next_buffer`, queues it, and calls `frame_submitted` for each vblank event; the
`DrmCompositor` does the same with a damage tracker and several planes. On the
input side events pass the filter and the grab of a device before they reach its
focus; grabs and the compositor's handlers move the focus, and leaving a surface
ends the gestures and constraints on it. A change of the keyboard focus moves
the selections along. Popups hold both devices with a pair of grabs that share
one state. The shells answer commits with configures, which the client
acknowledges before its next commit, both sides seeing the other's messages
late.

What is hard: blockers changing in the middle of a scan; handlers that re-enter
the queue; surfaces destroyed while their states are cached, parked, queued or
half applied; focus, grabs and constraints that keep a surface after its death;
grabs that replace one another and clean up after themselves; acknowledgements
that cross an unmapping; tree changes while a state is parked in another
surface; removal from a vector during iteration and index arithmetic; failing
page flips, resets, mode changes and pauses between any two steps of a frame;
counters at their limit. `PROJECT.json` lists these hazards at their lines.

## 2. Modules

| Module | Models | Builds on |
|---|---|---|
| `TransactionQueue` | `TransactionQueue`, `Transaction`, `blocker_cleared`, tail of `commit` | |
| `TransactionQueueProofs` | theorems | `TransactionQueue` |
| `Subsequence` | `Vec::retain`: what is left of a list, by position | |
| `SubsequenceProofs` | lemmas | `Subsequence` |
| `SurfaceTree` | tree, stacking, sync mode | `Subsequence` |
| `SurfaceTreeProofs` | theorems | `SurfaceTree`, `SubsequenceProofs` |
| `SurfaceTransactions` | `commit`, `commit_sync_surface_tree`, `PendingTransaction`, `CachedState` | extends `SurfaceTree`, instantiates `TransactionQueue` |
| `SurfaceTransactionsProofs` | theorems | `SurfaceTransactions`, `SurfaceTreeProofs`, instantiates `TransactionQueueProofs` |
| `Swapchain` | `Swapchain`, `Slot` | |
| `GbmSurface` | `GbmBufferedSurface` and the kernel it talks to | extends `Swapchain` |
| `GbmSurfaceProofs` | theorems | `GbmSurface` |
| `Seat` | constants shared by the next four | |
| `Keyboard` | `KeyboardHandle`, `wl_keyboard` objects, input method grab | `Seat` |
| `Pointer` | `PointerHandle`, click and move grab, `wl_pointer`, gestures, constraints | `Seat` |
| `PopupGrabs` | `PopupManager`, `PopupTree`, `PopupGrab` and its keyboard and pointer grabs | `Seat` |
| `Selection` | `SeatData`, data devices, primary selection, data control | `Seat` |
| `XdgSurface` | configure, ack and commit of toplevels and popups, both ends | `Subsequence` |
| `XdgSurfaceProofs` | theorems | `XdgSurface`, `SubsequenceProofs` |
| `SeatProofs` | theorems | `MCDesktop` (with the four above), `XdgSurfaceProofs` |
| `FullRedraw` | abstract: a renderer that redraws all of every frame | |
| `DamageTracker` | `OutputDamageTracker`, `DamageBag` | `Subsequence`, instantiates `FullRedraw` |
| `DrmCompositor` | frames, planes and slots of `DrmCompositor`, and the kernel | extends `Swapchain` |
| `RenderProofs` | theorems | `MCRender` (with the two above), `SubsequenceProofs` |
| `MC*` | TLC instances: symmetry sets, the initial chain of subsurfaces; `MCDesktop` and `MCRender` hold several components | |

Definitions marked *Wrong variant* are not part of any specification: each is
the form a plausible mistake in the code would give the definition that follows
it, and shows that a property notices.

### TransactionQueue

A transaction is a function from surfaces to commit ids plus a set of blockers.
Because `apply_state` merges every cached state up to an id, what a surface
shows is one number, `applied`. `take_ready` is a loop whose body is three
actions, `ScanCancelled`, `ScanSkip`, `ScanReady`, and whose end is `ScanDone`;
`pc`, `i`, `seen`, `ready` are its locals. It is split because `Resolve` (another
thread) may act between iterations. `ApplySurface` and `ApplyDone` are the two
loops around `apply`; a nested trigger (`BlockerCleared` while `applying` is not
empty, only if `Reentrant`) puts its transactions in front of what the caller
has left. `issued`, `due` and `dropped` are history variables. `AppendTx` states
what the queue relies on, a live surface and growing ids; `SurfaceTransactions`
shows that `commit` provides it.

### SurfaceTree

One action per request. A request answered with a protocol error changes
nothing; the client's disconnection is then a sequence of destroy actions, which
are always enabled. `panicked` records an out-of-range `Vec::insert`, after
which nothing happens. `SelfSibling` says whether clients name a surface as its
own sibling.

### SurfaceTransactions

The contents of a state are abstracted to the number of requests that went into
it (`edits`, `upto`, `shown`), which is enough to say which of two states is
newer and whether a state is visible. `Commit(s, B)` is the whole handler:
hooks that add the blockers `B` for a state with something new in it, caching,
taking the children's transactions, advancing the ids, and queueing. The
recursion of `commit_sync_surface_tree` is the set of descendants. `Orderly`
restricts clients to tree changes that do not touch a subtree whose state is
parked with an ancestor; one run lifts it. `BlockersRespected` leaves out the
surfaces of a dropped transaction: if one blocker of a transaction is cancelled
while another is pending, the states stay in the cache and the next commit shows
them (the behaviour `queue_cancelled` is about).

### Swapchain and GbmSurface

A member of `Buffer` is an `InternalSlot` that owns a buffer; a default slot is
`None`; a slot reset while it is held lives on outside of the chain until it is
dropped, after which its name is reused. Dropping a `Slot` clears its acquired
flag explicitly, so sharing a buffer between two fields would show. The kernel
(`scanout`, `flip`, `vblank`) either refuses a flip or carries it out at a later
vblank and sends one event. `history` remembers the last frames to say what an
age must be. Buffer sizes, formats and fences are left out.

### Keyboard

`keySources` is `key_sources`; a press or release reaches the filter only for
the first or last source of a key. The filter's answer is a choice on a press,
and it keeps the release of what it kept (`withheld`), as `anvil` does. `told`
is what a client concludes from its enter, leave and key events; `off` collects
the keys for which the code itself lets that picture differ from
`forwarded_pressed_keys`: events that went to an input method, and withheld keys
a keyboard bound late is told (`new_kbd` sends all pressed keys, `set_focus`
only the forwarded ones). The hook that sends the leave of a destroyed focus is
`leaveHook`. One surface and one `wl_keyboard` per client; keymaps, modifiers
and repeat are left out.

### Pointer

`seen` holds what entering and leaving a surface changes, because
`PointerTarget::replace` does both in one handler: `Crossing` is their
composition. Grabs are the default one, `ClickGrab` and a move grab like the one
of `anvil`, set with `Focus::Clear`. A destroyed surface stays in focus, grab
and constraint until an event looks at it; an event naming a dead object is
dropped by the Wayland backend, which is external. The compositor activates only
the constraint of the surface under the pointer. Regions, cursor hints, axes
and locations are left out.

### PopupGrabs

`node` is the parent of a popup in its `PopupTree`, `active` and `dismissed` the
lists of `PopupGrabInternal`, `kbd` and `ptr` focus and grab of the two devices.
`GrabPopup` is `grab_popup` followed by what `anvil`'s `grab` handler does:
install the keyboard grab, then the pointer grab, whose installation unsets the
pointer grab it replaces, whose `unset` in turn looks for a keyboard grab to
unset. `killed` is a protocol error. A client asks for a grab with a serial
newer than that of its last one (`ReuseSerials` is false) and does not grab a
popup it was told is done. `Rooted` and `Subtree` are least closed sets, the
form in which the two recursions of the code can be reasoned about.

`DismissedNotShown` excepts `Misplaced` popups. `PopupTree::insert` puts a popup
whose parent is not in the tree at the top level: one that is created below a
popup that has not got its own parent yet, or below one that has already left
the tree. `ungrab` takes only the first grab's subtree out of the tree, so such a
popup is told nothing and stays, although it counts as dismissed. It takes three
popups to happen, and the attempt to prove the invariant without the exception
found it.

### Selection

Clipboard and primary selection are two entries of `selection`; wlr and ext data
control are one kind of device. `announced` is the last selection event of a
device. `late` marks devices that were created after their client got the focus:
`get_data_device` sends them nothing until the next change. `anvil` passes the
focus on only when there is one, so `seatFocus` and `selFocus` can differ. Mime
types, offers and transfers are left out, as is drag and drop.

### XdgSurface

`xdgRole` holds the fields of the role attributes that the exchange uses;
a configure state is a set of flags. `Commit` is the pre-commit hook of the role
and caching the state, `Apply` the later application with the compositor's
commit handler, which sends the initial configure; commits of a surface are
applied in order, the result of `TransactionQueue`. The client is `stage`,
`received` and `obeyed`: it may do anything, and `obeyed` remembers whether it
kept to the protocol. `ReuseXdgSurface` is false in the run: events for a
destroyed `xdg_surface` are not delivered.

### DamageTracker and DrmCompositor

In `DamageTracker` the output is a row of pixels and an element an interval that
may stick out of it; rectangles of damage are sets of pixels, so rounding and
the merging of rectangles are left out. A pixel's colour is what is drawn at it:
the elements that reach it from the front, down to the first solid one, with
their paint and their order. At most `MaxStack` elements are shown at a time;
the others are hidden by the compositor or have no buffer. Buffers report the
age a swapchain would.

`FullRedraw` is what the tracker promises: a renderer without damage, ages or
history that redraws all of every frame, and leaves a frame out only when the
picture is both on the screen and in the buffer it would have been drawn into.
`ImplementsRedraw` says that `DamageTracker` is one, seen through its buffers.

`DrmCompositor` takes a buffer that is neither in the chain nor on its way to
the screen (`Unallocated`) when a slot has none; with five buffers for four slots
one is always there. It has two parts of a scene, `base` and `top`, a primary and an
overlay plane. Whether the kernel's test lets `top` onto the overlay plane, and
`base` directly onto the primary plane, is a choice of each `RenderFrame`. The
damage tracker appears as `seen` and `oldDamage`, with the rule for damage that
`DamageTracker` spells out. `Submit` succeeds or drops the frame. `Patient` says
that the caller waits for its frames before it renders over a queued one or
calls `clear`. Cursor plane, underlays, fences, formats and the element
conditions are left out.

## 3. Runs

| Run | Instance | What it shows |
|---|---|---|
| `queue_safety` | 3 surfaces, 1 blocker, ids 0..1, re-entrant, any surface may die | waiting states hidden; applied is exactly what was handed out |
| `queue_progress` | 2 surfaces, 2 blockers, ids 0..1, not re-entrant | order per surface; unblocked transactions leave |
| `surface_tree` | 4 surfaces, 3 subsurface objects | forest, links agree, reorder |
| `commit_to_queue` | chain of 3 surfaces, 1 blocker, ids 0..3, 4 commits, 2 tree changes, orderly | parked and blocked states hidden; refines `TransactionQueue` |
| `gbm_surface` | 4 slots, 5 buffers, ages up to 3 | exclusive buffers, true ages, event always coming |
| `desktop` | 2 clients, 2 keys, 2 keyboards, 3 surfaces, 2 buttons, 1 constraint, 2 popups, 3 serials, 3 selection objects, 1 flag, 3 configures, 2 held commits | keyboard, pointer, popups, selections and XDG surfaces, each on its own |
| `render` | tracker: 2 elements, 2 buffers, 2 pixels, bag of 1, 3 changes, 3 frames; compositor: 4 slots, 5 buffers, 2 scene changes, 4 renderings, 1 session event | damage leaves no old pixel; the screen ends up showing the scene; nothing on screen is drawn on |

`desktop` and `render` bundle components: a behaviour picks one (`part`) and the
others stay in their initial state, so each is explored as if it were alone.

Five more runs end in a violation and document a disagreement between the code
and its documentation (`findings` in `PROJECT.json`):

* `queue_cancelled`: a cancelled transaction is dropped but its cached state is
  merged by the surface's next transaction, although `add_blocker` documents
  that cancelling discards all changes. (The header of `transaction.rs`
  describes the actual behaviour as intended.)
* `surface_tree_self`: `place_above` of the topmost child relative to itself
  inserts out of range.
* `commit_detached`: when the tree changes while a blocked state is parked with
  an intermediate parent, the state can be shown before its blocker resolves.
* `drm_retry`: when a flip fails, `queue_frame` has already aged the slot and
  `render_frame` has advanced the damage history; the retry that `anvil`
  schedules finds no damage, and the screen keeps the old picture until
  something else changes.
* `constraint_destroy`: destroying the object of a oneshot constraint that was
  used up removes the constraint the surface has got since.

Two behaviours are worth knowing although no run asks for them. A commit handler
that triggers the queue again may see an older transaction applied after a newer
one, whose caller still held it; what is visible stays right (`AllOrNothing`, which
`queue_safety` checks with re-entrancy), while the order (`AppliedInOrder`) is
claimed only without. And a parent's commit takes a synchronised child's
uncommitted requests without running the child's pre-commit hooks.

Bounds. Two transactions per surface, two surfaces in common and a third that is
not, are what a dependency between transactions needs; a second blocker is
needed for one transaction to become ready while another stays blocked. Four
surfaces give a list of four entries, so a reference can be in front of, behind
or next to a surface, and chains of depth three. The chain of `commit_to_queue`
is the shortest with an intermediate synchronised parent; four commits let leaf,
middle and root commit and one of them again. The swapchain has its real number
of slots; the largest age is scaled from 255 to 3 so that it overflows; five
buffers let a buffer that left the chain stay in use while the chain is
refilled. Two keyboards and two keys let one key be shared and one not; two
surfaces of one client and one of another give every kind of crossing; two
popups nest or stand side by side, and three serials let the second grab replace
the first and a click come between (the two are alike, so `PopupsInOrder` leaves
out the behaviours that create them the other way round). Three configures allow
one to be on its way, one received and one acknowledged across an unmapping; one
flag tells the state asked for from the one a reset leaves. The selection
objects are a clipboard device and source for each client and a data-control
one. Two buffers, a history of two and three frames give ages of 1 and 2 and a
history that is too short; a bag of one commit overflows with the second, and
two elements, both shown, are what hiding and restacking need. For the
compositor four renderings put a frame in every role and a slot back in use.
Deadlock is not checked where a behaviour may simply end: clients need not
commit, and bounded ids and surfaces run out.

Fairness. Only `TransactionQueue` has a liveness property. `take_ready` and
`apply` are loops the dispatch thread runs to their end: weak fairness of `Scan`
and `Apply`. The documentation of `blocker_cleared` obliges the compositor to
call it after a blocker resolved: weak fairness of `BlockerCleared`. Nothing is
assumed of blockers, clients or the destruction of surfaces. The other modules
state safety only: their handlers run to the end within one dispatch, and what
would have to happen next depends on clients, the user or the kernel.

`AlwaysFreeSlot` also shows that the warnings of `queue_buffer` and
`frame_submitted`, that the swapchain runs out of buffers if vblanks are not
reported, are stricter than the code: a newer frame replaces the queued one.

## 4. Proofs

Eight modules hold theorems; `PROJECT.json` lists the main ones with the
property each states. Every theorem holds for all values of the constants under
the named assumptions: `MaxId` and the other bounds are natural numbers; `None`,
`NoConfigure` and the like are not members of the sets they stand outside of;
`SlotCap` is at least 4 and `MaxAge` at least 1; `Width` and `BagLimit` are at
least 1; every surface of `Pointer` belongs to a client; `Root` and `Other` are
no popups. The sets of surfaces, blockers, buffers, clients, keys, popups,
configure flags and so on are arbitrary. Where a theorem needs more of the
clients or of the compositor, it says so:

| Hypothesis | Theorems | Why |
|---|---|---|
| `Reentrant = FALSE` | `OrderWithoutReentrancy` | nested triggers apply out of order |
| `SelfSibling = FALSE` | `ReorderInRange` | `surface_tree_self` panics otherwise |
| `Orderly = TRUE` | `CommitsImplementQueue`, `ParkedStaysHidden`, `BlockersHoldBack`, `SyncTyped` | `commit_detached` shows a parked state otherwise |
| `ReuseXdgSurface = FALSE` | `ObedientClientsLive` | acknowledging a configure of an earlier role object is an error |
| `Patient = TRUE` | `ScreenIsStable`, `SceneReachesScreen`, `RenderTypes` | the caller waits for its frames, as `anvil` does |
| `ReuseSerials = FALSE` | `DevicesStayGrabbed` | a repeated serial lets the old pointer grab take the new keyboard grab for its own |

* `TransactionQueueProofs`. `BlockedStateNotApplied` is not inductive: a step of
  `take_ready` moves a transaction to `ready`, from there to `applying`, and only
  then is it applied. The invariant `IndInv` therefore says of each of the three
  places that what is there is older than what is queued, for every live surface
  (`ReadyBeforeQueued`, `ApplyingBeforeQueued`, `AppliedBeforeQueued`). That a
  ready transaction is older than those skipped before it follows from
  `SeenCoversSkipped`, that it is older than those behind it from
  `QueueOrdered`, which appending keeps because of `QueueIssued`. `AllOrNothing`
  adds `OwedInv`: the newest id handed out for a surface is visible or still to
  be applied. `OrderWithoutReentrancy` adds that handed-out transactions are
  ordered, which holds only without nested triggers.
* `SubsequenceProofs`. `SelectIsSubsequence`: what `retain` leaves of a list is
  its elements at the kept positions, each once and in order. It is proved from
  the cardinality of initial segments of the kept positions, by induction over
  natural numbers in the form "a set of numbers has a least element", which
  needs no operator parameter.
* `SurfaceTreeProofs`. `Acyclic` says every non-empty set of surfaces has a
  member whose parent is outside. Linking `c` below `p` keeps it because `c` is
  not among the ancestors of `p`: a set without such a member would contain `c`,
  `p` and all of `p`'s ancestors. Destruction only removes links. `LinksAgree`
  needs that lists hold no surface twice; with `SelectIsSubsequence`, removing a
  surface and inserting it elsewhere keeps that, and `NeverPanics` and
  `PlacedNextTo` are about the two positions involved.
* `SurfaceTransactionsProofs`. That `commit` implements the queue's `AppendTx`
  needs that the ids it hands over are newer than all ids issued (`IdsFresh`),
  that a state is parked with its own surface or with an effectively
  synchronised ancestor (`ParkedBelow`), and the
  queue's own `IndInv`, which is carried along through the refinement.
  `ParkedBelow` makes `CommitTakesAll` true, that a commit that queues takes
  every parked state of the surfaces it records. `ParkedStateHidden` is a
  consequence. `BlockersRespected` needs `WaitsHeld`: as long as a blocker is
  pending, a transaction carries it, parked with some surface (`HeldParked`) or at
  some place of the queue (`HeldQueued`), and no transaction before that one, no
  ready one and none being applied has an id that reaches the cached states from
  the blocked one on. The id of the carrying transaction may itself be larger than that of the
  blocked state, because commits above it merge later states into it; so the
  invariant is about what lies before the carrier and not about its own id.
  `CacheInOrder` says that cached states lie between the current and the pending
  one in the order of their ids, so that what `apply_state` merges is older than
  what it leaves.
* `GbmSurfaceProofs`. `SlotsExclusive` is proved together with `EventComing`,
  `ScanoutKnown` (the kernel reads the pending frame between vblank and event,
  otherwise the current one) and `ChainInjective` (no buffer twice in the
  chain). `AlwaysFreeSlot` is a pigeonhole argument: three roles, four slots.
  `AgeIsTrue` follows from its own statement for every buffer of the chain, not
  only the one in use.
* `SeatProofs`, keyboard. `KeysAccounted` is inductive with the types.
  `OnlyFocusEntered` needs `Hooked`: a living focus has its hook, so the death of
  an entered surface finds one. `FocusToldKeys` uses both.
* `SeatProofs`, pointer. `ClickHoldsFocus` and `PointerOnFocus` are inductive
  with the types; the second rests on `MoveOn`, that leaving one surface and
  entering another brings every client's `wl_pointer` along, also when the
  surface is dead. `FollowsFocus` needs `Placed`: an active constraint is in place
  on the surface its object was made for, and a gesture is on a surface of its
  client; otherwise leaving the focus could miss one.
* `SeatProofs`, selections. `SelectionProvided` is proved from `Used`: a client's
  selection is provided by a source in `used_sources`, where its destruction
  looks for it. `SelectionAnnounced` needs that only devices for one selection
  are ever told late (`LateServeOne`).
* `SeatProofs`, popups. `DismissedNotShown` needs `NestedIn(active)`: a grab that
  is in the tree hangs below every older grab, or is misplaced. A new grab is
  granted as a child of the newest living one, and hangs below it
  (`HangsByParent`) if it is in the tree, whose node is there as well
  (`TreeClosed`); so it hangs below all of them (`AppendNested`), and whatever
  leaves the tree leaves with all below it (`SubtreeKept`). `OnlyHeard` says that
  popups without a parent are neither in the tree nor in the lists.
  `KeyboardOnTopmost` follows step by step from what happens to the newest living
  grab (`CurrentStays`, `CurrentOfFront`, `LivingLast`). `GrabHeld` adds that the
  grabs of both devices are no newer than the last serial and started on the
  root (`OldGrab`).
* `XdgSurfaceProofs`. `StateNotLost` needs the order of the serials among sent,
  acknowledged and received configures (`RoleInOrder`, `EventsInOrder`).
  `ShownInv` relates the commits that are still to be applied to the cached
  state, `StageTrue` the client's stage to the role attributes: from them follow
  `ShownIsConfigured` and `KilledOnlyIfWrong`.
* `RenderProofs`, damage tracker. `FrameIsWhole` speaks of the scene of the last
  `render_output`; what the tracker goes by is the scene of the last frame it
  drew, which is no variable. The invariant `DamageInv` says that one exists: a
  scene `s` that the tracker describes, whose every pixel is on the screen, and
  from which each element's bag leads to the present contents
  (`Remembers`, `BagCovers`). An element that lost its buffer is the hard case:
  its bag is reset, so it must not reach back to the commit the tracker knows,
  also not after the client commits again. From this, `SameOutsideDamage`: where
  the new damage leaves a pixel out, `s` and the present scene look the same.
  It rests on three facts about the scene. An element that is not rendered lies
  behind a solid one that is, wherever it would show (`HiddenBehindSolid`,
  `FirstSolidRendered`), so the elements the tracker keeps determine the picture
  (`DrawnAreRendered`); and the z index, counted among the rendered elements
  only, gives their order (`ZIndexOrders`). `HistoryHolds` extends this to older
  buffers: what a buffer of age `n` does not share with the screen is in the
  last `n - 1` damages. `DamageIsEnough` states the consequence for every state
  and buffer, before anything is drawn, and `FramesAreWhole` for every frame.
  `DamageImplementsRedraw` maps each step to one of `FullRedraw`: a change of
  the scene to `Repaint`, a frame to `Present`, one without damage to
  `LeaveOut`, a failed one to `Spoil`.
* `RenderProofs`, compositor. `FrameInv`: frames hold typed planes and slots; a slot on screen
  or on its way is held by one of the frames (`ScreenHeld`, `Owed`), so
  `FreeSlot` cannot return it: `ScannedOutIsStable`. `SceneInv`: for every slot in
  the chain the damage of its last `age` frames covers what differs between its
  picture and what the tracker has seen (`AgesCover`); what the tracker has seen
  is what the newest frame shows on the primary plane (`TrackerKnows`); a plane
  that keeps its configuration does so along the chain of frames
  (`OverlayChain`); so the newest frame shows the scene (`NewestShowsScene`),
  and it is on screen when nothing is left to show.

* `DesktopTypes` and `RenderTypes` are about the instances that bundle several
  components: whichever a behaviour picks, its own invariant holds.

Only model-checked: liveness (`UnblockedLeaves`; outside the proof system's
reach). Every other property of the passing runs is a theorem. Two theorems
state more than a run lists: `DamageIsEnough` and `DamageImplementsRedraw`. The
runs that find a violation are not touched by the theorems: each hypothesis in
the table excludes one of them, or a behaviour noted in section 2.

## 5. Not modelled, and the plan

The models cover about a twentieth of the implementation's lines. Most of the
rest is not behaviour a model of this kind can say anything about: bindings to
EGL, Vulkan, GBM, DRM and X11, shaders and texture import, geometry, format
tables, memory mapping, protocol enums, delegate macros, and globals whose
requests store a value the compositor reads. Renderers beyond the damage tracker,
multi-GPU copies, input and session backends, the X11 and winit backends and
the utilities belong here. `current_txid` does not wrap in the model; it is
bounded by `MaxId`. `PROJECT.json` gives the reason for every component.

Left, in this order:

1. `Fifo`, `CommitTiming`, `Syncobj`: the blockers these protocols add,
   composed with `SurfaceTransactions` in place of arbitrary ones (a barrier of
   a cancelled commit; one syncobj object per surface; release points of cached
   states). `Serial`: the counter at the wrap and the circular comparison.
2. `SessionLock` and layer surfaces, touch and drag and drop, the association of
   X11 windows and surfaces, `IdleNotify`, `DrmLease`, image capture.
3. Several outputs in `DamageTracker`: elements shown on more than one share
   their damage bags.
