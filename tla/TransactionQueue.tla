-------------------------- MODULE TransactionQueue --------------------------
(***************************************************************************)
(* The per-client queue of surface transactions of smithay                 *)
(* (wayland/compositor/transaction.rs) together with its two callers:      *)
(* the tail of PrivateSurfaceData::commit, which appends a transaction and *)
(* triggers the queue, and CompositorClientState::blocker_cleared, which   *)
(* only triggers it.                                                       *)
(*                                                                         *)
(* A transaction names, for some surfaces, the id of the newest cached     *)
(* state it carries.  Applying it to a surface merges every cached state   *)
(* up to that id (cache.rs, apply_state), so what a surface shows is       *)
(* described by one number: the highest id merged so far.                  *)
(*                                                                         *)
(* Commits, triggers, destruction and application all happen on the        *)
(* dispatch thread.  Blockers do not: they are polled file descriptors or  *)
(* atomics other threads store to, so they can resolve between any two     *)
(* iterations of the loop in take_ready, which is why that loop is a       *)
(* sequence of steps here.                                                 *)
(***************************************************************************)
EXTENDS Integers, Sequences

CONSTANTS
    Surface,        \* the surfaces of one client
    Blocker,        \* the blockers compositor code may add to a transaction
    Mortal,         \* bound: the surfaces the client may destroy
    MaxId,          \* bound: commit ids are 0..MaxId
    Reentrant       \* may CompositorHandler::commit call blocker_cleared?

ASSUME BoundAssumption == MaxId \in Nat
ASSUME ReentrantAssumption == Reentrant \in BOOLEAN

VARIABLES
    alive,      \* surfaces whose object still exists
    blocker,    \* state of each blocker
    wake,       \* a blocker resolved and blocker_cleared has yet to be called
    queue,      \* TransactionQueue::transactions
    pc,         \* is take_ready running?
    i,          \* loop index of take_ready (1-based)
    seen,       \* seen_surfaces of take_ready
    ready,      \* ready_transactions of take_ready
    applying,   \* transactions handed to Transaction::apply, not yet applied;
                \* a nested trigger puts its own in front
    applied,    \* per surface, the highest commit id merged into current
    issued,     \* history: the highest id ever queued for a surface
    due,        \* history: the highest id take_ready returned for a surface
    dropped     \* history: ids of the transactions dropped as cancelled

txVars == <<queue, pc, i, seen, ready, applying, applied, issued, due, dropped>>
vars == <<alive, blocker, wake, txVars>>

BlockerState == {"Pending", "Released", "Cancelled"}

NoId == -1
Id == 0 .. MaxId

\* A surface with NoId is not in the transaction.
Transaction == [id : [Surface -> Id \cup {NoId}], blockers : SUBSET Blocker]

Members(t) == {s \in Surface : t.id[s] # NoId}

Larger(m, n) == IF m < n THEN n ELSE m

\* Transaction::state: no live surface left counts as cancelled.
TxState(t) ==
    IF Members(t) \cap alive = {} \/ \E b \in t.blockers : blocker[b] = "Cancelled"
    THEN "Cancelled"
    ELSE IF \E b \in t.blockers : blocker[b] = "Pending" THEN "Pending" ELSE "Released"

\* What is left of a transaction once it has been applied to s.
Without(t, s) == [id |-> [t.id EXCEPT ![s] = NoId], blockers |-> t.blockers]

RemoveAt(q, k) == [j \in 1 .. Len(q) - 1 |-> IF j < k THEN q[j] ELSE q[j + 1]]
-----------------------------------------------------------------------------
TypeOK ==
    /\ alive \subseteq Surface
    /\ blocker \in [Blocker -> BlockerState]
    /\ wake \in BOOLEAN
    /\ queue \in Seq(Transaction)
    /\ pc \in {"idle", "scan"}
    /\ i \in Nat \ {0}
    /\ seen \subseteq Surface
    /\ ready \in Seq(Transaction)
    /\ applying \in Seq(Transaction)
    /\ applied \in [Surface -> Id \cup {NoId}]
    /\ issued \in [Surface -> Id \cup {NoId}]
    /\ due \in [Surface -> Id \cup {NoId}]
    /\ dropped \in [Surface -> SUBSET Id]

Init ==
    /\ alive = Surface
    /\ blocker = [b \in Blocker |-> "Pending"]
    /\ wake = FALSE
    /\ queue = <<>>
    /\ pc = "idle"
    /\ i = 1
    /\ seen = {}
    /\ ready = <<>>
    /\ applying = <<>>
    /\ applied = [s \in Surface |-> NoId]
    /\ issued = [s \in Surface |-> NoId]
    /\ due = [s \in Surface |-> NoId]
    /\ dropped = [s \in Surface |-> {}]
-----------------------------------------------------------------------------
(* What happens around the queue. *)

\* A fence signals, a barrier is released, a client's buffer wait is abandoned.
Resolve(b, st) ==
    /\ blocker[b] = "Pending"
    /\ blocker' = [blocker EXCEPT ![b] = st]
    /\ wake' = TRUE
    /\ UNCHANGED <<alive, txVars>>

\* wl_surface destroyed: the weak handles in transactions stop upgrading.  It
\* does not trigger the queue.
Destroy(s) ==
    /\ pc = "idle"
    /\ s \in alive \cap Mortal
    /\ alive' = alive \ {s}
    /\ UNCHANGED <<blocker, wake, txVars>>
-----------------------------------------------------------------------------
(* Triggering the queue. *)

StartScan ==
    /\ pc' = "scan"
    /\ i' = 1
    /\ seen' = {}
    /\ ready' = <<>>

\* The tail of PrivateSurfaceData::commit.
Enqueue(t) ==
    /\ pc = "idle"
    /\ applying = <<>>
    /\ StartScan
    /\ queue' = Append(queue, t)
    /\ issued' = [s \in Surface |-> Larger(issued[s], t.id[s])]
    /\ UNCHANGED <<alive, blocker, wake, applying, applied, due, dropped>>

\* What the queue relies on: the committing surface is alive, and the ids of a
\* surface only grow (SurfaceTransactions says when commit guarantees it).
AppendTx(t) ==
    /\ Enqueue(t)
    /\ Members(t) \cap alive # {}
    /\ \A s \in Members(t) : issued[s] < t.id[s]

\* blocker_cleared, called from the event source of the blocker or, when
\* Reentrant, from a handler that runs while transactions are being applied.
BlockerCleared ==
    /\ pc = "idle"
    /\ wake
    /\ Reentrant \/ applying = <<>>
    /\ wake' = FALSE
    /\ StartScan
    /\ UNCHANGED <<alive, blocker, queue, applying, applied, issued, due, dropped>>
-----------------------------------------------------------------------------
(* The iterations of take_ready. *)

LiveMembers(t) == Members(t) \cap alive

ScanCancelled ==
    /\ pc = "scan"
    /\ i <= Len(queue)
    /\ TxState(queue[i]) = "Cancelled"
    /\ queue' = RemoveAt(queue, i)
    /\ dropped' = [s \in Surface |->
                     dropped[s] \cup ({queue[i].id[s]} \ {NoId})]
    /\ UNCHANGED <<alive, blocker, wake, pc, i, seen, ready, applying, applied,
                   issued, due>>

\* Wrong variant: earlier transactions on the same surface are ignored.
MustWaitAlone(t) == TxState(t) = "Pending"

\* Pending, or dependent on a transaction left in the queue before it.
MustWait(t) ==
    \/ TxState(t) = "Pending"
    \/ TxState(t) = "Released" /\ LiveMembers(t) \cap seen # {}

ScanSkip ==
    /\ pc = "scan"
    /\ i <= Len(queue)
    /\ MustWait(queue[i])
    /\ seen' = seen \cup LiveMembers(queue[i])
    /\ i' = i + 1
    /\ UNCHANGED <<alive, blocker, wake, queue, pc, ready, applying, applied,
                   issued, due, dropped>>

\* Wrong variants of ScanReady: the index moves on although the element was
\* removed; the ready list is built back to front.
ScanReadyAndAdvance ==
    /\ pc = "scan"
    /\ i <= Len(queue)
    /\ TxState(queue[i]) = "Released"
    /\ ~ MustWait(queue[i])
    /\ ready' = Append(ready, queue[i])
    /\ queue' = RemoveAt(queue, i)
    /\ i' = i + 1
    /\ due' = [s \in Surface |-> Larger(due[s], queue[i].id[s])]
    /\ UNCHANGED <<alive, blocker, wake, pc, seen, applying, applied, issued,
                   dropped>>

ScanReadyInFront ==
    /\ pc = "scan"
    /\ i <= Len(queue)
    /\ TxState(queue[i]) = "Released"
    /\ ~ MustWait(queue[i])
    /\ ready' = <<queue[i]>> \o ready
    /\ queue' = RemoveAt(queue, i)
    /\ due' = [s \in Surface |-> Larger(due[s], queue[i].id[s])]
    /\ UNCHANGED <<alive, blocker, wake, pc, i, seen, applying, applied, issued,
                   dropped>>

ScanReady ==
    /\ pc = "scan"
    /\ i <= Len(queue)
    /\ TxState(queue[i]) = "Released"
    /\ ~ MustWait(queue[i])
    /\ ready' = Append(ready, queue[i])
    /\ queue' = RemoveAt(queue, i)
    /\ due' = [s \in Surface |-> Larger(due[s], queue[i].id[s])]
    /\ UNCHANGED <<alive, blocker, wake, pc, i, seen, applying, applied, issued,
                   dropped>>

\* Wrong variant: a nested trigger forgets what its caller had left to apply.
HandOutOnly(r) == r

\* What is left to apply once the transactions r have been handed out.
HandOut(r) == r \o applying

\* The loop ends; the caller releases the queue lock and starts applying.
ScanDone ==
    /\ pc = "scan"
    /\ i > Len(queue)
    /\ pc' = "idle"
    /\ i' = 1
    /\ seen' = {}
    /\ ready' = <<>>
    /\ applying' = HandOut(ready)
    /\ UNCHANGED <<alive, blocker, wake, queue, applied, issued, due, dropped>>
-----------------------------------------------------------------------------
(* Transaction::apply, one surface at a time: the post-commit hooks and the *)
(* commit handler run after each.                                           *)

\* Wrong variant: one cached state too many is merged.
MergeOnePast(s, id) == [applied EXCEPT ![s] = Larger(@, id + 1)]

\* apply_state: every cached state up to the id.
MergeUpTo(s, id) == [applied EXCEPT ![s] = Larger(@, id)]

ApplySurface(s) ==
    /\ pc = "idle"
    /\ applying # <<>>
    /\ s \in LiveMembers(Head(applying))
    /\ applied' = MergeUpTo(s, Head(applying).id[s])
    /\ applying' = [applying EXCEPT ![1] = Without(Head(applying), s)]
    /\ UNCHANGED <<alive, blocker, wake, queue, pc, i, seen, ready, issued, due,
                   dropped>>

\* Surfaces that died in the meantime are skipped.
ApplyDone ==
    /\ pc = "idle"
    /\ applying # <<>>
    /\ LiveMembers(Head(applying)) = {}
    /\ applying' = Tail(applying)
    /\ UNCHANGED <<alive, blocker, wake, queue, pc, i, seen, ready, applied,
                   issued, due, dropped>>
-----------------------------------------------------------------------------
Scan == ScanCancelled \/ ScanSkip \/ ScanReady \/ ScanDone
Apply == (\E s \in Surface : ApplySurface(s)) \/ ApplyDone

Next ==
    \/ \E b \in Blocker, st \in {"Released", "Cancelled"} : Resolve(b, st)
    \/ \E s \in Surface : Destroy(s)
    \/ BlockerCleared
    \/ Scan
    \/ Apply
    \/ \E t \in Transaction : AppendTx(t)

\* take_ready and apply run to completion; add_blocker's documentation obliges
\* the compositor to call blocker_cleared after a blocker resolved.  Nothing
\* obliges a blocker to resolve or a client to commit.
Fairness == WF_vars(Scan) /\ WF_vars(Apply) /\ WF_vars(BlockerCleared)

SafetySpec == Init /\ [][Next]_vars
Spec == SafetySpec /\ Fairness
-----------------------------------------------------------------------------
(* Properties. *)

\* A state waiting in the queue is not visible: no transaction applied before,
\* however the queue was scanned, has merged the cached states it waits with
\* ("all transactions wait before all their blockers are resolved").
BlockedStateNotApplied ==
    \A k \in DOMAIN queue : \A s \in LiveMembers(queue[k]) :
        applied[s] < queue[k].id[s]

\* Every call of Transaction::apply makes a newer state of the surface visible
\* ("for each surface, states are applied in the correct order").
AppliedInOrder ==
    [][\A s \in Surface :
          ApplySurface(s) => applied[s] < Head(applying).id[s]]_vars

\* Once nothing is being applied, everything take_ready handed out is visible
\* on every live surface of its transaction, and nothing else is: applying a
\* transaction is all or nothing across its surfaces.
AllOrNothing ==
    pc = "idle" /\ applying = <<>> =>
        \A s \in alive : applied[s] = due[s]

\* The state of a dropped transaction never becomes visible (documentation of
\* add_blocker: any blocker returning Cancelled will discard all changes).
CancelledIsDiscarded ==
    \A s \in alive : \A id \in dropped[s] : applied[s] < id

\* The k-th queued transaction and all it transitively depends on have no
\* unresolved blocker left.
Unblocked(k) ==
    \E D \in SUBSET (1 .. k) :
        /\ k \in D
        /\ \A j \in D : \A b \in queue[j].blockers : blocker[b] # "Pending"
        /\ \A j \in D, h \in 1 .. k :
              h < j /\ Members(queue[h]) \cap Members(queue[j]) # {} => h \in D

\* A queued transaction whose blockers, and those of the transactions it
\* depends on, have resolved leaves the queue, whatever other blockers do and
\* even if the last blocker resolves in the middle of a scan.
UnblockedLeaves ==
    \A s \in Surface, n \in Id :
        (\E k \in DOMAIN queue : queue[k].id[s] = n /\ Unblocked(k))
            ~> ~ \E k \in DOMAIN queue : queue[k].id[s] = n
=============================================================================
