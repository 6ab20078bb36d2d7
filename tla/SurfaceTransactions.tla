------------------------ MODULE SurfaceTransactions ------------------------
(***************************************************************************)
(* How wl_surface.commit builds transactions (PrivateSurfaceData::commit   *)
(* and commit_sync_surface_tree in tree.rs, PendingTransaction in          *)
(* transaction.rs, CachedState in cache.rs), composed with the surface     *)
(* tree it walks and the queue it feeds.                                   *)
(*                                                                         *)
(* The double-buffered state of a surface is abstracted to the number of   *)
(* requests of the client that went into it: `edits` counts the requests,  *)
(* a cached state says up to which request it reaches, `shown` is the      *)
(* current state.                                                          *)
(***************************************************************************)
EXTENDS SurfaceTree

CONSTANTS
    Blocker,        \* blockers that pre-commit hooks may add
    MaxId,          \* bound: commit ids are 0..MaxId
    Edited,         \* bound: the surfaces that receive state requests
    MaxEdit,        \* bound: state requests per surface
    MaxCommit,      \* bound: commit requests
    MaxChange,      \* bound: requests that change the tree or a mode
    Reentrant,      \* may CompositorHandler::commit call blocker_cleared?
    Orderly         \* do clients leave a subtree's mode and place alone while
                    \* one of its states is parked with an ancestor?

ASSUME SyncConstants ==
    /\ {MaxId, MaxEdit, MaxCommit, MaxChange} \subseteq Nat
    /\ Edited \subseteq Surface
    /\ Reentrant \in BOOLEAN /\ Orderly \in BOOLEAN

VARIABLES
    blocker, wake, queue, pc, i, seen, ready, applying, applied, issued, due,
    dropped,        \* see TransactionQueue
    txid,           \* PrivateSurfaceData::current_txid
    pendingTx,      \* PrivateSurfaceData::pending_transaction
    edits,          \* requests recorded in the pending state
    cache,          \* CachedState::cache: commit id and extent of each state
    shown,          \* extent of CachedState::current
    waits,          \* history: extents for which hooks added a blocker
    commits,        \* number of commit requests so far
    changes         \* number of requests that changed the tree so far

TQ == INSTANCE TransactionQueue WITH Mortal <- Surface

queueVars == <<blocker, wake, queue, pc, i, seen, ready, applying, applied,
               issued, due, dropped>>
stateVars == <<txid, pendingTx, edits, cache, shown, waits, commits, changes>>
allVars == <<treeVars, queueVars, stateVars>>

NoTx == [id |-> [s \in Surface |-> TQ!NoId], blockers |-> {}]

\* The surfaces commit_sync_surface_tree visits below and including s.
Descendants(s) == {x \in Surface : s \in AncestorsOrSelf(x)}

\* An entry of CachedState::cache.
CachedType == [id : 0 .. MaxId, upto : 0 .. MaxEdit]

SyncTypeOK ==
    /\ TreeTypeOK
    /\ TQ!TypeOK
    /\ txid \in [Surface -> 0 .. MaxId + 1]
    /\ pendingTx \in [Surface -> TQ!Transaction]
    /\ edits \in [Surface -> 0 .. MaxEdit]
    /\ cache \in [Surface -> Seq(CachedType)]
    /\ shown \in [Surface -> 0 .. MaxEdit]
    /\ waits \subseteq [surface : Surface, upto : 0 .. MaxEdit, blocker : Blocker]
    /\ commits \in 0 .. MaxCommit
    /\ changes \in 0 .. MaxChange

StateInit ==
    /\ txid = [s \in Surface |-> 0]
    /\ pendingTx = [s \in Surface |-> NoTx]
    /\ edits = [s \in Surface |-> 0]
    /\ cache = [s \in Surface |-> <<>>]
    /\ shown = [s \in Surface |-> 0]
    /\ waits = {}
    /\ commits = 0
    /\ changes = 0

SyncInit == TreeInit /\ TQ!Init /\ StateInit
-----------------------------------------------------------------------------
\* The dispatch thread runs a request to its end before it takes the next.
DispatchIdle == pc = "idle" /\ applying = <<>> /\ ~ panicked

\* A state request (attach, damage, ...) writes the pending state.
Edit(s) ==
    /\ DispatchIdle
    /\ s \in alive \cap Edited
    /\ edits[s] < MaxEdit
    /\ edits' = [edits EXCEPT ![s] = @ + 1]
    /\ UNCHANGED <<treeVars, queueVars, txid, pendingTx, cache, shown, waits,
                   commits, changes>>

\* CachedState::commit: cache the pending state under the id, merging it into
\* the last cached state if that has the same id.
Cached(q, id, upto) ==
    IF q # <<>> /\ Last(q).id = id THEN Front(q) \o <<[id |-> id, upto |-> upto]>>
    ELSE Append(q, [id |-> id, upto |-> upto])

\* Wrong variant: the blockers of the merged transactions are forgotten.
MergedNoBlockers(first, T, own) ==
    [id |-> [s \in Surface |->
               Max({first.id[s]}
                   \cup (IF s \in alive THEN {t.id[s] : t \in T} ELSE {})
                   \cup (IF s \in own THEN {txid[s]} ELSE {}))],
     blockers |-> first.blockers]

\* PendingTransaction::merge_into for every transaction of T, the surfaces in
\* `own` being recorded under their current txid (insert_state).  Handles of
\* destroyed surfaces do not survive the merge.
Merged(first, T, own) ==
    [id |-> [s \in Surface |->
               Max({first.id[s]}
                   \cup (IF s \in alive THEN {t.id[s] : t \in T} ELSE {})
                   \cup (IF s \in own THEN {txid[s]} ELSE {}))],
     blockers |-> first.blockers \cup UNION {t.blockers : t \in T}]

\* The pending state holds something no commit has taken yet.
HasNewState(s) ==
    edits[s] > (IF cache[s] = <<>> THEN shown[s] ELSE Last(cache[s]).upto)

\* Wrong variants: an id is used twice, the ids count down.
KeepTxid(n) == n
BackTxid(n) == n - 1

\* current_txid.wrapping_add(1)
NextTxid(n) == n + 1

\* Wrong variant: the transactions taken from the children stay with them.
PendingTxKept(s, taken, tx) == [pendingTx EXCEPT ![s] = tx]

\* The pending transactions once s has the transaction tx and those of the
\* surfaces in `taken` have been taken (std::mem::take).
PendingTxAfter(s, taken, tx) ==
    [x \in Surface |-> IF x = s THEN tx ELSE IF x \in taken THEN NoTx ELSE pendingTx[x]]

SyncKids(s) == {c \in Kids(s) : sync[c] = "sync"}

\* wl_surface.commit: the pre-commit hooks may add blockers for a new state, then
\* PrivateSurfaceData::commit.  A surface that is not effectively sync takes
\* the trees of its sync children, pending states included, and queues the
\* result; a surface that is only takes its children's pending transactions.
Commit(s, B) ==
    LET isSync == EffectivelySync(s)
        tree == UNION {Descendants(c) : c \in SyncKids(s)}
        taken == IF isSync THEN Kids(s) ELSE tree
        own == {s} \cup (IF isSync THEN {} ELSE tree)
        mine == [pendingTx[s] EXCEPT !.blockers = @ \cup B]
        tx == Merged(mine, {pendingTx[x] : x \in taken}, own)
    IN  /\ DispatchIdle
        /\ s \in alive
        /\ B # {} => HasNewState(s)
        /\ commits < MaxCommit
        /\ \A x \in taken \cup {s} : txid[x] <= MaxId
        /\ cache' = [x \in Surface |->
                       IF x \in own THEN Cached(cache[x], txid[x], edits[x]) ELSE cache[x]]
        /\ txid' = [x \in Surface |->
                      IF x \in taken \cup {s} THEN NextTxid(txid[x]) ELSE txid[x]]
        /\ pendingTx' = PendingTxAfter(s, taken, IF isSync THEN tx ELSE NoTx)
        /\ commits' = commits + 1
        /\ waits' = waits \cup [surface : {s}, upto : {edits[s]}, blocker : B]
        /\ IF isSync THEN UNCHANGED <<alive, queueVars>> ELSE TQ!Enqueue(tx)
        /\ UNCHANGED <<parent, children, role, subsurface, sync, panicked, edits, shown,
                       changes>>
-----------------------------------------------------------------------------
\* A state of x waits in the pending transaction of another surface.
ParkedElsewhere(x) == \E p \in alive \ {x} : pendingTx[p].id[x] # TQ!NoId

MayRetree(s) == Orderly => \A x \in Descendants(s) : ~ ParkedElsewhere(x)

TreeChange ==
    /\ DispatchIdle
    /\ changes < MaxChange
    /\ \/ \E o \in Subsurface, c, p \in Surface : GetSubsurface(o, c, p)
       \/ \E o \in Subsurface : SetSync(o)
       \/ \E o \in Subsurface :
             /\ subsurface[o] # None /\ MayRetree(subsurface[o])
             /\ SetDesync(o) \/ DestroySubsurface(o)
    /\ changes' = changes + 1
    /\ UNCHANGED <<queueVars, txid, pendingTx, edits, cache, shown, waits, commits>>

SurfaceDestroyed(s) ==
    /\ DispatchIdle
    /\ changes < MaxChange
    /\ MayRetree(s)
    /\ DestroySurface(s)
    /\ changes' = changes + 1
    /\ UNCHANGED <<queueVars, txid, pendingTx, edits, cache, shown, waits, commits>>

ResolveBlocker(b, st) ==
    /\ ~ panicked
    /\ TQ!Resolve(b, st)
    /\ UNCHANGED <<treeVars, stateVars>>

Trigger == TQ!BlockerCleared /\ UNCHANGED <<treeVars, stateVars>>

ScanQueue == TQ!Scan /\ UNCHANGED <<treeVars, stateVars>>

\* The cached states in front of the first one newer than the id.
UpTo(q, id) == {k \in DOMAIN q : \A j \in 1 .. k : q[j].id <= id}

\* CachedState::apply_state: take the cached states up to the id from the front
\* and merge them, in order, into the current state.
ApplyState(s) ==
    LET merged == UpTo(cache[s], Head(applying).id[s])
    IN  /\ TQ!ApplySurface(s)
        /\ cache' = [cache EXCEPT ![s] = Select(@, DOMAIN @ \ merged)]
        /\ shown' = [shown EXCEPT ![s] = IF merged = {} THEN @
                                        ELSE cache[s][Max(merged)].upto]
        /\ UNCHANGED <<parent, children, role, subsurface, sync, panicked,
                       txid, pendingTx, edits, waits, commits, changes>>

TransactionDone == TQ!ApplyDone /\ UNCHANGED <<treeVars, stateVars>>

SyncNext ==
    \/ \E s \in Surface : Edit(s) \/ SurfaceDestroyed(s) \/ ApplyState(s)
    \/ \E s \in Surface, B \in {{}} \cup {{b} : b \in Blocker} : Commit(s, B)
    \/ TreeChange
    \/ \E b \in Blocker, st \in {"Released", "Cancelled"} : ResolveBlocker(b, st)
    \/ Trigger
    \/ ScanQueue
    \/ TransactionDone

SyncSpec == SyncInit /\ [][SyncNext]_allVars
-----------------------------------------------------------------------------
(* Properties. *)

\* The state of a synchronized subsurface that waits for its parent's commit is
\* not visible, however deep the tree and whoever committed in between.
ParkedStateHidden ==
    \A p \in alive : \A s \in alive :
        pendingTx[p].id[s] # TQ!NoId => applied[s] < pendingTx[p].id[s]

\* No state is visible while a blocker its own pre-commit hooks added for it is
\* pending ("Blockers will delay the pending state to be applied on the next
\* commit until all of them return the state `Released`").  The states of a
\* transaction that was dropped because another of its blockers was cancelled
\* stay in the cache, where the next commit finds them: those are excepted.
BlockersRespected ==
    \A w \in waits :
        /\ w.surface \in alive
        /\ blocker[w.blocker] = "Pending"
        /\ dropped[w.surface] = {}
        => shown[w.surface] < w.upto

\* Commits feed the queue the way the queue relies on: the composed system is
\* an implementation of TransactionQueue.
ImplementsQueue == TQ!SafetySpec
=============================================================================
