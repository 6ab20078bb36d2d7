--------------------- MODULE SurfaceTransactionsProofs ---------------------
(***************************************************************************)
(* Commits feed the transaction queue the way the queue relies on: the     *)
(* composition of surface tree, commit and queue implements                *)
(* TransactionQueue, so what is proved of the queue holds of it.           *)
(* States that wait for an ancestor's commit or for a blocker stay hidden. *)
(***************************************************************************)
EXTENDS SurfaceTransactions, SurfaceTreeProofs

TQP == INSTANCE TransactionQueueProofs WITH Mortal <- Surface

\* The assumptions of TransactionQueue hold of the instance.
LEMMA QueueAssumptions == TQP!BoundAssumption /\ TQP!ReentrantAssumption
  BY SyncConstants DEF TQP!BoundAssumption, TQP!ReentrantAssumption

LEMMA QueueInitial == TQ!Init => TQP!IndInv
  <1>1. TQ!Init => TQP!Init
    BY DEF TQ!Init, TQP!Init, TQ!NoId, TQP!NoId
  <1>2. TQP!Init => TQP!IndInv
    BY QueueAssumptions, TQP!IndInit
  <1>3. QED
    BY <1>1, <1>2

LEMMA QueueStep == TQP!IndInv /\ [TQ!Next]_(TQ!vars) => TQP!IndInv'
  <1>1. [TQ!Next]_(TQ!vars) => [TQP!Next]_(TQP!vars)
    BY DEF TQ!Next, TQP!Next, TQ!Resolve, TQP!Resolve, TQ!Destroy, TQP!Destroy, 
             TQ!StartScan, TQP!StartScan, TQ!Enqueue, TQP!Enqueue, TQ!AppendTx, 
             TQP!AppendTx, TQ!BlockerCleared, TQP!BlockerCleared, TQ!ScanCancelled, 
             TQP!ScanCancelled, TQ!ScanSkip, TQP!ScanSkip, TQ!ScanReady, 
             TQP!ScanReady, TQ!ScanDone, TQP!ScanDone, TQ!Scan, TQP!Scan, TQ!Apply, 
             TQP!Apply, TQ!ApplySurface, TQP!ApplySurface, TQ!ApplyDone, 
             TQP!ApplyDone, TQ!MustWait, TQP!MustWait, TQ!TxState, TQP!TxState, 
             TQ!LiveMembers, TQP!LiveMembers, TQ!Members, TQP!Members, TQ!HandOut, 
             TQP!HandOut, TQ!MergeUpTo, TQP!MergeUpTo, TQ!RemoveAt, TQP!RemoveAt, 
             TQ!Larger, TQP!Larger, TQ!Without, TQP!Without, TQ!Transaction, 
             TQP!Transaction, TQ!NoId, TQP!NoId, TQ!Id, TQP!Id, TQ!vars, TQP!vars, 
             TQ!txVars, TQP!txVars
  <1>2. TQP!IndInv /\ [TQP!Next]_(TQP!vars) => TQP!IndInv'
    BY QueueAssumptions, TQP!IndStep
  <1>3. QED
    BY <1>1, <1>2
-----------------------------------------------------------------------------
(* The inductive invariant. *)

ParkTyped ==
    /\ txid \in [Surface -> 0 .. MaxId + 1]
    /\ pendingTx \in [Surface -> TQ!Transaction]

\* A state waits only with its own surface or with an effectively synchronized
\* ancestor, so the commit that will take it has to come from above.
ParkedBelow ==
    \A p, x \in Surface :
        pendingTx[p].id[x] # TQ!NoId /\ p # x =>
            /\ p \in alive /\ x \in alive
            /\ p \in AncestorsOrSelf(x) /\ EffectivelySync(p)

\* Ids that wait are newer than all that were queued and older than the next.
IdsFresh ==
    \A x \in Surface :
        /\ issued[x] < txid[x]
        /\ \A p \in Surface : pendingTx[p].id[x] # TQ!NoId =>
              issued[x] < pendingTx[p].id[x] /\ pendingTx[p].id[x] < txid[x]

ParkInv == TreeInv /\ TQP!IndInv /\ ParkTyped /\ ParkedBelow /\ IdsFresh
-----------------------------------------------------------------------------
(* Merging pending transactions. *)

\* Max is the largest member of a set of ids.
LEMMA MaxOfIds ==
    ASSUME NEW N \in Nat, NEW S \in SUBSET (-1 .. N), S # {}
    PROVE  Max(S) \in S /\ \A y \in S : y <= Max(S)
  <1> DEFINE T == {N - y : y \in S}
  <1>1. T \in SUBSET Nat /\ T # {}
    <2>1. \A y \in S : y \in Int /\ N - y \in Nat
      OBVIOUS
    <2>2. QED
      BY <2>1
  <1>2. PICK x \in T : \A y \in T : x <= y
    BY <1>1, LeastNatural
  <1>3. PICK m \in S : x = N - m
    OBVIOUS
  <1>4. \A y \in S : m >= y
    BY <1>2, <1>3
  <1>5. \E z \in S : \A y \in S : z >= y
    BY <1>4
  <1>6. Max(S) \in S /\ \A y \in S : Max(S) >= y
    BY <1>5 DEF Max
  <1>7. QED
    BY <1>6

\* Pending transactions hold ids.
LEMMA PendingIds ==
    ASSUME ParkTyped, NEW p \in Surface, NEW x \in Surface
    PROVE  /\ pendingTx[p].id \in [Surface -> -1 .. MaxId]
           /\ pendingTx[p].blockers \subseteq Blocker
           /\ pendingTx[p].id[x] \in -1 .. MaxId
           /\ pendingTx[p].id[x] # TQ!NoId <=> pendingTx[p].id[x] >= 0
           /\ txid[x] \in 0 .. MaxId + 1 /\ MaxId \in Nat
  <1>1. MaxId \in Nat /\ TQ!Id \cup {TQ!NoId} = -1 .. MaxId
    BY SyncConstants DEF TQ!Id, TQ!NoId
  <1>2. pendingTx[p] \in [id : [Surface -> -1 .. MaxId], blockers : SUBSET Blocker]
    BY <1>1 DEF ParkTyped, TQ!Transaction
  <1>3. QED
    BY <1>1, <1>2 DEF ParkTyped, TQ!NoId

\* The pending transactions of `taken` and s, with the states of `own`.
Collected(s, B, taken, own) ==
    Merged([pendingTx[s] EXCEPT !.blockers = @ \cup B], {pendingTx[x] : x \in taken}, own)

\* What a merged transaction says of a surface comes from one of the merged
\* transactions or from the commit itself, and nothing newer is left out.
LEMMA MergedIds ==
    ASSUME ParkTyped, NEW s \in Surface, NEW B \in SUBSET Blocker,
           NEW taken \in SUBSET Surface, NEW own \in SUBSET Surface,
           \A x \in own : txid[x] <= MaxId
    PROVE  LET tx == Collected(s, B, taken, own)
           IN  /\ tx \in TQ!Transaction
               /\ tx.id \in [Surface -> -1 .. MaxId]
               /\ B \subseteq tx.blockers
               /\ \A t \in taken \cup {s} : pendingTx[t].blockers \subseteq tx.blockers
               /\ \A x \in Surface :
                     /\ x \in own => txid[x] <= tx.id[x]
                     /\ \A t \in taken \cup {s} :
                           x \in alive => pendingTx[t].id[x] <= tx.id[x]
                     /\ \/ x \in own /\ tx.id[x] = txid[x]
                        \/ tx.id[x] = pendingTx[s].id[x]
                        \/ x \in alive /\ \E t \in taken : tx.id[x] = pendingTx[t].id[x]
  <1> DEFINE tx == Collected(s, B, taken, own)
             first == [pendingTx[s] EXCEPT !.blockers = @ \cup B]
             T == {pendingTx[x] : x \in taken}
             M(x) == {first.id[x]}
                     \cup (IF x \in alive THEN {t.id[x] : t \in T} ELSE {})
                     \cup (IF x \in own THEN {txid[x]} ELSE {})
  <1>1. first.id = pendingTx[s].id /\ first.blockers = pendingTx[s].blockers \cup B
    <2>1. pendingTx[s] \in [id : [Surface -> TQ!Id \cup {TQ!NoId}], blockers : SUBSET Blocker]
      BY DEF ParkTyped, TQ!Transaction
    <2>2. QED
      BY <2>1
  <1>2. /\ tx.id = [x \in Surface |-> Max(M(x))]
        /\ tx.blockers = first.blockers \cup UNION {t.blockers : t \in T}
        /\ tx = [id |-> tx.id, blockers |-> tx.blockers]
    BY DEF Merged, Collected
  <1> HIDE DEF tx
  <1>3. ASSUME NEW x \in Surface
        PROVE  /\ M(x) \in SUBSET (-1 .. MaxId) /\ M(x) # {}
    <2>1. first.id[x] \in -1 .. MaxId
      BY <1>1, PendingIds
    <2>2. \A t \in T : t.id[x] \in -1 .. MaxId
      BY PendingIds
    <2>3. x \in own => txid[x] \in -1 .. MaxId
      BY PendingIds
    <2>4. QED
      BY <2>1, <2>2, <2>3
  <1>4. ASSUME NEW x \in Surface
        PROVE  tx.id[x] = Max(M(x)) /\ tx.id[x] \in M(x) /\ \A y \in M(x) : y <= tx.id[x]
    <2>1. tx.id[x] = Max(M(x))
      BY <1>2
    <2> HIDE DEF M
    <2>2. QED
      BY <2>1, <1>3, SyncConstants, MaxOfIds
  <1>5. tx.id \in [Surface -> -1 .. MaxId]
    <2>1. \A x \in Surface : Max(M(x)) \in -1 .. MaxId
      BY <1>3, <1>4
    <2> HIDE DEF M
    <2>2. QED
      BY <2>1, <1>2
  <1>6. tx \in TQ!Transaction
    <2>1. TQ!Id \cup {TQ!NoId} = -1 .. MaxId
      BY SyncConstants DEF TQ!Id, TQ!NoId
    <2>2. first.blockers \subseteq Blocker /\ \A t \in T : t.blockers \subseteq Blocker
      BY <1>1, PendingIds
    <2>3. tx.blockers \subseteq Blocker
      BY <1>2, <2>2
    <2> HIDE DEF first, T, M
    <2>4. QED
      BY <1>2, <1>5, <2>1, <2>3 DEF TQ!Transaction
  <1>7. \A x \in Surface : x \in own => txid[x] <= tx.id[x]
    BY <1>4
  <1>8. \A x \in Surface : \/ x \in own /\ tx.id[x] = txid[x]
                           \/ tx.id[x] = pendingTx[s].id[x]
                           \/ x \in alive /\ \E t \in taken : tx.id[x] = pendingTx[t].id[x]
    <2>1. TAKE x \in Surface
    <2>2. tx.id[x] \in M(x)
      BY <1>4
    <2>3. QED
      BY <2>2, <1>1
  <1>9. /\ B \subseteq tx.blockers
        /\ \A t \in taken \cup {s} : pendingTx[t].blockers \subseteq tx.blockers
    BY <1>1, <1>2
  <1>10. \A x \in Surface : \A t \in taken \cup {s} :
            x \in alive => pendingTx[t].id[x] <= tx.id[x]
    <2> SUFFICES ASSUME NEW x \in Surface, NEW t \in taken \cup {s}, x \in alive
                 PROVE  pendingTx[t].id[x] <= tx.id[x]
      OBVIOUS
    <2>1. pendingTx[t].id[x] \in M(x)
      BY <1>1
    <2> QED
      BY <1>4, <2>1
  <1>11. QED
    BY <1>5, <1>6, <1>7, <1>8, <1>9, <1>10 DEF tx
-----------------------------------------------------------------------------
(* Commits. *)

\* What commit_sync_surface_tree visits on behalf of s.
SyncTree(s) == UNION {Descendants(c) : c \in SyncKids(s)}

\* A commit that reaches the queue takes every pending
\* transaction that says something of a surface in it.
LEMMA CommitTakesAll ==
    ASSUME ParkInv, NEW s \in Surface, ~ EffectivelySync(s),
           NEW x \in Surface, NEW t \in SyncTree(s) \cup {s},
           x \in SyncTree(s) \cup {s} \/ pendingTx[t].id[x] # TQ!NoId
    PROVE  /\ x \in SyncTree(s) \cup {s}
           /\ \A p \in Surface : pendingTx[p].id[x] # TQ!NoId => p \in SyncTree(s) \cup {s}
  <1> DEFINE tree == SyncTree(s)
  <1> USE DEF SyncTree
  <1>1. tree \in SUBSET Surface /\ SyncKids(s) \subseteq Surface
        /\ \A c \in SyncKids(s) : parent[c] = s /\ sync[c] = "sync"
    BY KidsAreChildren DEF Descendants, SyncKids, ParkInv
  <1>2. ASSUME NEW a \in tree, NEW y \in Surface, a \in AncestorsOrSelf(y)
        PROVE  y \in tree
    <2>1. PICK c \in SyncKids(s) : a \in Descendants(c)
      OBVIOUS
    <2>2. c \in AncestorsOrSelf(a)
      BY <2>1 DEF Descendants
    <2>3. c \in AncestorsOrSelf(y)
      BY <1>2, <2>2, AncestorsTransitive
    <2>4. QED
      BY <2>1, <2>3 DEF Descendants
  <1>3. ASSUME NEW a \in AncestorsOrSelf(s) PROVE ~ EffectivelySync(a)
    BY AncestorsTransitive DEF EffectivelySync
  <1>4. x \in tree \cup {s}
    <2>1. SUFFICES ASSUME pendingTx[t].id[x] # TQ!NoId, t # x PROVE x \in tree \cup {s}
      OBVIOUS
    <2>2. t \in AncestorsOrSelf(x) /\ EffectivelySync(t)
      BY <2>1, <1>1 DEF ParkInv, ParkedBelow
    <2>3. t # s
      BY <2>2
    <2>4. QED
      BY <2>2, <2>3, <1>2
  <1>5. ASSUME NEW p \in Surface, pendingTx[p].id[x] # TQ!NoId PROVE p \in tree \cup {s}
    <2>1. SUFFICES ASSUME p # x PROVE p \in tree \cup {s}
      BY <1>4
    <2>2. p \in AncestorsOrSelf(x) /\ EffectivelySync(p)
      BY <1>5, <2>1 DEF ParkInv, ParkedBelow
    <2>3. x # s
      BY <2>2, <1>3
    <2>4. PICK c \in SyncKids(s) : x \in Descendants(c)
      BY <1>4, <2>3
    <2>5. c \in AncestorsOrSelf(x) /\ c \in Surface
      BY <2>4, <1>1 DEF Descendants
    <2>6. CASE c \in AncestorsOrSelf(p)
      <3>1. p \in Descendants(c)
        BY <2>6 DEF Descendants
      <3>2. QED
        BY <3>1, <2>4
    <2>7. CASE p \in AncestorsOrSelf(c) /\ p # c
      <3>1. p \in AncestorsOrSelf(s)
        BY <2>5, <2>7, <1>1, AncestorsUnfold
      <3>2. QED
        BY <3>1, <2>2, <1>3
    <2>8. CASE p = c
      BY <2>8, <2>5, AncestorsClosed, <2>4 DEF Descendants
    <2>9. QED
      BY <2>2, <2>5, <2>6, <2>7, <2>8, AncestorsComparable
  <1>6. QED
    BY <1>4, <1>5

\* A commit that is not synchronized passes the queue a transaction that is newer
\* than all it has seen, and leaves nothing of it parked elsewhere.
LEMMA CommitQueued ==
    ASSUME ParkInv, NEW s \in Surface, NEW B \in SUBSET Blocker, Commit(s, B),
           ~ EffectivelySync(s)
    PROVE  /\ ParkTyped' /\ ParkedBelow' /\ IdsFresh' /\ UNCHANGED treeVars
           /\ \E t \in TQ!Transaction :
                 /\ TQ!AppendTx(t)
                 /\ t.id[s] # TQ!NoId /\ B \subseteq t.blockers
                 /\ \A p, x \in Surface : pendingTx[p].id[x] # TQ!NoId =>
                       \/ pendingTx'[p] = pendingTx[p] /\ t.id[x] = TQ!NoId
                       \/ t.id[x] # TQ!NoId /\ pendingTx[p].blockers \subseteq t.blockers
  <1> DEFINE tree == SyncTree(s)
             own == {s} \cup tree
             tx == Collected(s, B, tree, own)
  <1>1. /\ s \in alive
        /\ \A x \in own : txid[x] <= MaxId
        /\ txid' = [x \in Surface |-> IF x \in own THEN txid[x] + 1 ELSE txid[x]]
        /\ pendingTx' = [x \in Surface |-> IF x \in own THEN NoTx ELSE pendingTx[x]]
        /\ TQ!Enqueue(tx)
        /\ UNCHANGED <<parent, children, role, subsurface, sync, panicked>>
    BY DEF Commit, PendingTxAfter, NextTxid, Collected, SyncTree
  <1>2. tree \in SUBSET Surface /\ own \in SUBSET Surface
    BY DEF Descendants, SyncTree
  <1>3. /\ tx \in TQ!Transaction /\ tx.id \in [Surface -> -1 .. MaxId]
        /\ B \subseteq tx.blockers
        /\ \A t \in tree \cup {s} : pendingTx[t].blockers \subseteq tx.blockers
        /\ \A x \in Surface :
              /\ x \in own => txid[x] <= tx.id[x]
              /\ \A t \in tree \cup {s} : x \in alive => pendingTx[t].id[x] <= tx.id[x]
              /\ \/ x \in own /\ tx.id[x] = txid[x]
                 \/ tx.id[x] = pendingTx[s].id[x]
                 \/ x \in alive /\ \E t \in tree : tx.id[x] = pendingTx[t].id[x]
    <2>1. ParkTyped
      BY DEF ParkInv
    <2>2. \A x \in own : txid[x] <= MaxId
      BY <1>1
    <2> HIDE DEF tree, own
    <2>3. QED
      BY <1>2, <2>1, <2>2, MergedIds
  <1>4. ASSUME NEW x \in Surface, NEW t \in tree \cup {s},
               x \in tree \cup {s} \/ pendingTx[t].id[x] # TQ!NoId
        PROVE  /\ x \in own
               /\ \A p \in Surface : pendingTx[p].id[x] # TQ!NoId => p \in own
    BY <1>4, CommitTakesAll
  <1>5. /\ issued' = [x \in Surface |-> TQ!Larger(issued[x], tx.id[x])]
        /\ alive' = alive /\ pc = "idle" /\ applying = <<>>
    BY <1>1 DEF TQ!Enqueue
  <1> HIDE DEF tree, tx
  <1>6. ASSUME NEW x \in Surface
        PROVE  /\ issued[x] \in -1 .. MaxId /\ issued[x] < txid[x]
               /\ txid[x] \in 0 .. MaxId + 1
               /\ \A p \in Surface : pendingTx[p].id[x] # TQ!NoId =>
                     issued[x] < pendingTx[p].id[x] /\ pendingTx[p].id[x] < txid[x]
    <2>1. TQP!TypeOK
      BY DEF ParkInv, TQP!IndInv
    <2>2. issued[x] \in -1 .. MaxId
      BY <2>1, SyncConstants DEF TQP!TypeOK, TQP!Id, TQP!NoId
    <2>3. QED
      BY <2>2 DEF ParkInv, IdsFresh, ParkTyped
  <1>7. ASSUME NEW x \in Surface
        PROVE  IF x \in own THEN tx.id[x] = txid[x] ELSE tx.id[x] = TQ!NoId
    <2>1. tx.id[x] \in -1 .. MaxId /\ MaxId \in Nat
      BY <1>3, SyncConstants
    <2>2. CASE x \in own
      <3>1. txid[x] <= tx.id[x]
        BY <2>2, <1>3
      <3>2. SUFFICES ASSUME tx.id[x] # txid[x] PROVE FALSE
        BY <2>2
      <3>3. PICK t \in tree \cup {s} : tx.id[x] = pendingTx[t].id[x]
        BY <3>2, <1>3
      <3>4. t \in Surface /\ pendingTx[t].id[x] # TQ!NoId
        BY <3>1, <3>3, <1>2, <1>6, <2>1 DEF TQ!NoId
      <3>5. QED
        BY <3>1, <3>3, <3>4, <1>6, <2>1
    <2>3. CASE x \notin own
      <3>1. SUFFICES ASSUME tx.id[x] # TQ!NoId PROVE FALSE
        BY <2>3
      <3>2. PICK t \in tree \cup {s} : tx.id[x] = pendingTx[t].id[x]
        BY <2>3, <1>3
      <3>3. QED
        BY <3>1, <3>2, <2>3, <1>4
    <2>4. QED
      BY <2>2, <2>3
  <1>8. \A p, x \in Surface : pendingTx'[p].id[x] # TQ!NoId =>
           /\ pendingTx'[p] = pendingTx[p] /\ p \notin own /\ x \notin own
    <2>1. TAKE p, x \in Surface
    <2>2. HAVE pendingTx'[p].id[x] # TQ!NoId
    <2>3. NoTx.id[x] = TQ!NoId
      BY DEF NoTx
    <2>4. p \notin own /\ pendingTx'[p] = pendingTx[p]
      BY <2>2, <2>3, <1>1
    <2>5. x \notin own
      BY <2>2, <2>4, <1>4
    <2>6. QED
      BY <2>4, <2>5
  <1>9. ParkTyped'
    <2>1. NoTx \in TQ!Transaction
      BY DEF NoTx, TQ!Transaction
    <2>2. pendingTx' \in [Surface -> TQ!Transaction]
      BY <2>1, <1>1 DEF ParkInv, ParkTyped
    <2>3. txid' \in [Surface -> 0 .. MaxId + 1]
      BY <1>1, <1>6, SyncConstants
    <2>4. QED
      BY <2>2, <2>3 DEF ParkTyped
  <1>10. UNCHANGED treeVars
    BY <1>1, <1>5 DEF treeVars
  <1>11. ParkedBelow'
    <2>1. \A p \in Surface : AncestorsOrSelf(p)' = AncestorsOrSelf(p)
                             /\ (EffectivelySync(p)' <=> EffectivelySync(p))
      BY <1>1 DEF EffectivelySync, AncestorsOrSelf
    <2>2. ASSUME NEW p \in Surface, NEW x \in Surface, pendingTx'[p].id[x] # TQ!NoId, p # x
          PROVE  p \in alive' /\ x \in alive' /\ p \in AncestorsOrSelf(x)' /\ EffectivelySync(p)'
      <3>1. p \in alive /\ x \in alive /\ p \in AncestorsOrSelf(x) /\ EffectivelySync(p)
        BY <2>2, <1>8 DEF ParkInv, ParkedBelow
      <3>2. QED
        BY <3>1, <2>1, <1>5
    <2>3. QED
      BY <2>2 DEF ParkedBelow
  <1>12. IdsFresh'
    <2>1. ASSUME NEW x \in Surface
          PROVE  /\ issued'[x] < txid'[x]
                 /\ \A p \in Surface : pendingTx'[p].id[x] # TQ!NoId =>
                       issued'[x] < pendingTx'[p].id[x] /\ pendingTx'[p].id[x] < txid'[x]
      <3>1. CASE x \in own
        <4>1. issued'[x] = txid[x] /\ txid'[x] = txid[x] + 1
          BY <3>1, <1>1, <1>5, <1>6, <1>7 DEF TQ!Larger
        <4>2. QED
          BY <3>1, <4>1, <1>6, <1>8, SyncConstants
      <3>2. CASE x \notin own
        <4>1. issued'[x] = issued[x] /\ txid'[x] = txid[x]
          BY <3>2, <1>1, <1>5, <1>6, <1>7 DEF TQ!Larger, TQ!NoId
        <4>2. QED
          BY <4>1, <1>6, <1>8
      <3>3. QED
        BY <3>1, <3>2
    <2>2. QED
      BY <2>1 DEF IdsFresh
  <1>13. TQ!AppendTx(tx)
    <2>1. s \in TQ!Members(tx)
      BY <1>2, <1>6, <1>7 DEF TQ!Members, TQ!NoId
    <2>2. \A x \in TQ!Members(tx) : issued[x] < tx.id[x]
      BY <1>6, <1>7 DEF TQ!Members
    <2>3. QED
      BY <2>1, <2>2, <1>1 DEF TQ!AppendTx
  <1>14. tx.id[s] # TQ!NoId /\ B \subseteq tx.blockers
    BY <1>2, <1>3, <1>6, <1>7 DEF TQ!NoId
  <1>15. ASSUME NEW p \in Surface, NEW x \in Surface, pendingTx[p].id[x] # TQ!NoId
         PROVE  \/ pendingTx'[p] = pendingTx[p] /\ tx.id[x] = TQ!NoId
                \/ tx.id[x] # TQ!NoId /\ pendingTx[p].blockers \subseteq tx.blockers
    <2>1. CASE x \in own
      <3>1. p \in own
        BY <2>1, <1>4, <1>15
      <3>2. tx.id[x] # TQ!NoId
        BY <2>1, <1>6, <1>7 DEF TQ!NoId
      <3> QED
        BY <3>1, <3>2, <1>3
    <2>2. CASE x \notin own
      <3>1. p \notin own
        BY <2>2, <1>4, <1>15
      <3> QED
        BY <2>2, <3>1, <1>1, <1>7
    <2> QED
      BY <2>1, <2>2
  <1>16. QED
    BY <1>3, <1>9, <1>10, <1>11, <1>12, <1>13, <1>14, <1>15

\* A synchronized commit collects the transactions of the children it holds.
LEMMA CommitParked ==
    ASSUME ParkInv, NEW s \in Surface, NEW B \in SUBSET Blocker, Commit(s, B),
           EffectivelySync(s)
    PROVE  /\ ParkTyped' /\ ParkedBelow' /\ IdsFresh' /\ UNCHANGED treeVars
           /\ UNCHANGED TQ!vars
           /\ pendingTx'[s].id[s] # TQ!NoId /\ B \subseteq pendingTx'[s].blockers
           /\ \A p \in Surface, x \in alive : pendingTx[p].id[x] # TQ!NoId =>
                 \E c \in Surface : /\ pendingTx'[c].id[x] # TQ!NoId
                                    /\ pendingTx[p].blockers \subseteq pendingTx'[c].blockers
  <1> DEFINE kids == Kids(s)
             own == {s}
             tx == Collected(s, B, kids, own)
  <1>1. /\ s \in alive
        /\ \A x \in kids \cup {s} : txid[x] <= MaxId
        /\ txid' = [x \in Surface |-> IF x \in kids \cup {s} THEN txid[x] + 1 ELSE txid[x]]
        /\ pendingTx' = [x \in Surface |-> IF x = s THEN tx
                                           ELSE IF x \in kids THEN NoTx ELSE pendingTx[x]]
        /\ UNCHANGED <<alive, queueVars>>
        /\ UNCHANGED <<parent, children, role, subsurface, sync, panicked>>
    BY DEF Commit, PendingTxAfter, NextTxid, Collected, SyncTree
  <1>2. kids \in SUBSET Surface /\ \A k \in kids : parent[k] = s
    BY KidsAreChildren DEF ParkInv
  <1>3. /\ tx \in TQ!Transaction /\ tx.id \in [Surface -> -1 .. MaxId]
        /\ B \subseteq tx.blockers
        /\ \A t \in kids \cup {s} : pendingTx[t].blockers \subseteq tx.blockers
        /\ \A x \in Surface :
              /\ x \in own => txid[x] <= tx.id[x]
              /\ \A t \in kids \cup {s} : x \in alive => pendingTx[t].id[x] <= tx.id[x]
              /\ \/ x \in own /\ tx.id[x] = txid[x]
                 \/ tx.id[x] = pendingTx[s].id[x]
                 \/ x \in alive /\ \E t \in kids : tx.id[x] = pendingTx[t].id[x]
    <2>1. ParkTyped /\ own \in SUBSET Surface
      BY DEF ParkInv
    <2>2. \A x \in own : txid[x] <= MaxId
      BY <1>1
    <2> HIDE DEF kids, own
    <2>3. QED
      BY <1>2, <2>1, <2>2, MergedIds
  <1> HIDE DEF kids, tx
  <1>4. ASSUME NEW x \in Surface
        PROVE  /\ issued[x] \in -1 .. MaxId /\ issued[x] < txid[x] /\ issued'[x] = issued[x]
               /\ txid[x] \in 0 .. MaxId + 1 /\ txid'[x] \in {txid[x], txid[x] + 1}
               /\ \A p \in Surface : pendingTx[p].id[x] # TQ!NoId =>
                     issued[x] < pendingTx[p].id[x] /\ pendingTx[p].id[x] < txid[x]
    <2>1. TQP!TypeOK
      BY DEF ParkInv, TQP!IndInv
    <2>2. issued[x] \in -1 .. MaxId
      BY <2>1, SyncConstants DEF TQP!TypeOK, TQP!Id, TQP!NoId
    <2>3. QED
      BY <2>2, <1>1 DEF ParkInv, IdsFresh, ParkTyped, queueVars
  \* Everything that is parked was parked before, or is the state of s.
  <1>5. ASSUME NEW p \in Surface, NEW x \in Surface, pendingTx'[p].id[x] # TQ!NoId
        PROVE  \/ p = s /\ x = s /\ pendingTx'[p].id[x] = txid[x]
               \/ p = s /\ \E t \in kids : /\ x \in alive
                                           /\ pendingTx'[p].id[x] = pendingTx[t].id[x]
               \/ pendingTx'[p].id[x] = pendingTx[p].id[x]
    <2>1. NoTx.id[x] = TQ!NoId
      BY DEF NoTx
    <2>2. CASE p = s
      BY <2>2, <1>1, <1>3
    <2>3. CASE p # s
      BY <2>1, <2>3, <1>5, <1>1
    <2>4. QED
      BY <2>2, <2>3
  <1>6. ParkTyped'
    <2>1. NoTx \in TQ!Transaction
      BY DEF NoTx, TQ!Transaction
    <2>2. pendingTx' \in [Surface -> TQ!Transaction]
      BY <2>1, <1>1, <1>3 DEF ParkInv, ParkTyped
    <2>3. txid' \in [Surface -> 0 .. MaxId + 1]
      BY <1>1, <1>4, SyncConstants
    <2>4. QED
      BY <2>2, <2>3 DEF ParkTyped
  <1>7. ParkedBelow'
    <2>1. \A p \in Surface : AncestorsOrSelf(p)' = AncestorsOrSelf(p)
                             /\ (EffectivelySync(p)' <=> EffectivelySync(p))
      BY <1>1 DEF EffectivelySync, AncestorsOrSelf
    <2>2. ASSUME NEW p \in Surface, NEW x \in Surface, pendingTx'[p].id[x] # TQ!NoId, p # x
          PROVE  p \in alive /\ x \in alive /\ p \in AncestorsOrSelf(x) /\ EffectivelySync(p)
      <3>1. CASE pendingTx'[p].id[x] = pendingTx[p].id[x]
        BY <2>2, <3>1 DEF ParkInv, ParkedBelow
      <3>2. CASE p = s /\ \E t \in kids : /\ x \in alive
                                          /\ pendingTx'[p].id[x] = pendingTx[t].id[x]
        <4>1. PICK t \in kids : x \in alive /\ pendingTx[t].id[x] # TQ!NoId
          BY <2>2, <3>2
        <4>2. t \in Surface /\ parent[t] = s
          BY <1>2
        <4>3. t \in AncestorsOrSelf(x)
          BY <4>1, <4>2, AncestorsClosed DEF ParkInv, ParkedBelow
        <4>4. s \in AncestorsOrSelf(x)
          BY <4>2, <4>3, AncestorsClosed
        <4>5. QED
          BY <3>2, <4>1, <4>4, <1>1
      <3>3. QED
        BY <2>2, <3>1, <3>2, <1>5
    <2>3. QED
      BY <2>1, <2>2, <1>1 DEF ParkedBelow
  <1>8. IdsFresh'
    <2>1. ASSUME NEW x \in Surface
          PROVE  /\ issued'[x] < txid'[x]
                 /\ \A p \in Surface : pendingTx'[p].id[x] # TQ!NoId =>
                       issued'[x] < pendingTx'[p].id[x] /\ pendingTx'[p].id[x] < txid'[x]
      <3>1. issued'[x] < txid'[x]
        BY <1>4, SyncConstants
      <3>2. ASSUME NEW p \in Surface, pendingTx'[p].id[x] # TQ!NoId
            PROVE  issued'[x] < pendingTx'[p].id[x] /\ pendingTx'[p].id[x] < txid'[x]
        <4>1. CASE p = s /\ x = s /\ pendingTx'[p].id[x] = txid[x]
          <5>1. txid'[x] = txid[x] + 1
            BY <4>1, <1>1
          <5>2. QED
            BY <4>1, <5>1, <1>4, SyncConstants
        <4>2. ASSUME NEW t \in Surface, pendingTx'[p].id[x] = pendingTx[t].id[x]
              PROVE  issued'[x] < pendingTx'[p].id[x] /\ pendingTx'[p].id[x] < txid'[x]
          <5>1. pendingTx[t].id[x] \in Int
            BY PendingIds DEF ParkInv
          <5>2. QED
            BY <4>2, <5>1, <3>2, <1>4, SyncConstants
        <4>3. QED
          BY <3>2, <4>1, <4>2, <1>2, <1>5
      <3>3. QED
        BY <3>1, <3>2
    <2>2. QED
      BY <2>1 DEF IdsFresh
  <1>9. UNCHANGED treeVars /\ UNCHANGED TQ!vars
    BY <1>1 DEF treeVars, TQ!vars, TQ!txVars, queueVars
  <1>10. pendingTx'[s].id[s] # TQ!NoId /\ B \subseteq pendingTx'[s].blockers
    BY <1>1, <1>3, <1>4 DEF TQ!NoId
  <1>11. ASSUME NEW p \in Surface, NEW x \in alive, pendingTx[p].id[x] # TQ!NoId
         PROVE  \E c \in Surface : /\ pendingTx'[c].id[x] # TQ!NoId
                                   /\ pendingTx[p].blockers \subseteq pendingTx'[c].blockers
    <2>1. x \in Surface
      BY DEF ParkInv, TreeInv, TreeTypeOK
    <2>2. CASE p \in kids \cup {s}
      <3>1. pendingTx[p].id[x] >= 0 /\ pendingTx[p].id[x] \in Int
        BY <2>1, <1>11, PendingIds DEF ParkInv
      <3>2. tx.id[x] \in Int /\ tx.id[x] # TQ!NoId
        BY <2>1, <2>2, <3>1, <1>3, SyncConstants DEF TQ!NoId
      <3> QED
        BY <2>2, <3>2, <1>1, <1>3
    <2>3. CASE p \notin kids \cup {s}
      BY <2>3, <1>1, <1>11
    <2> QED
      BY <2>2, <2>3
  <1>12. QED
    BY <1>6, <1>7, <1>8, <1>9, <1>10, <1>11
-----------------------------------------------------------------------------
(* Changes of the tree. *)

\* Parking survives a step that keeps, for every parked state, the links and the
\* synchronized modes above its surface.
LEMMA ParkingKept ==
    ASSUME ParkInv, UNCHANGED <<txid, pendingTx, issued>>,
           \A p, x \in Surface :
               /\ pendingTx[p].id[x] # TQ!NoId /\ p # x
               /\ p \in alive /\ x \in alive /\ p \in AncestorsOrSelf(x)
               => /\ p \in alive' /\ x \in alive'
                  /\ \A y \in AncestorsOrSelf(x) :
                        /\ parent[y] \in Surface => parent'[y] = parent[y]
                        /\ sync[y] = "sync" => sync'[y] = "sync"
    PROVE  ParkTyped' /\ ParkedBelow' /\ IdsFresh'
  <1>1. ParkTyped' /\ IdsFresh'
    BY DEF ParkInv, ParkTyped, IdsFresh
  <1>2. ASSUME NEW p \in Surface, NEW x \in Surface, pendingTx[p].id[x] # TQ!NoId, p # x
        PROVE  p \in alive' /\ x \in alive' /\ p \in AncestorsOrSelf(x)' /\ EffectivelySync(p)'
    <2>1. p \in alive /\ x \in alive /\ p \in AncestorsOrSelf(x) /\ EffectivelySync(p)
      BY <1>2 DEF ParkInv, ParkedBelow
    <2>2. /\ p \in alive' /\ x \in alive'
          /\ \A y \in AncestorsOrSelf(x) : /\ parent[y] \in Surface => parent'[y] = parent[y]
                                           /\ sync[y] = "sync" => sync'[y] = "sync"
      BY <1>2, <2>1
    <2>3. p \in AncestorsOrSelf(x)'
      BY <2>1, <2>2, AncestorsKept
    <2>4. AncestorsOrSelf(p) \subseteq AncestorsOrSelf(x)
      BY <2>1, AncestorsTransitive
    <2>5. AncestorsOrSelf(p) \subseteq AncestorsOrSelf(p)'
      BY <2>2, <2>4, AncestorsKept
    <2>6. PICK a \in AncestorsOrSelf(p) : sync[a] = "sync"
      BY <2>1 DEF EffectivelySync
    <2>7. a \in AncestorsOrSelf(p)' /\ sync'[a] = "sync"
      BY <2>2, <2>4, <2>5, <2>6
    <2>8. EffectivelySync(p)'
      BY <2>7 DEF EffectivelySync
    <2>9. QED
      BY <2>2, <2>3, <2>8
  <1>3. ParkedBelow'
    BY <1>2 DEF ParkedBelow
  <1>4. QED
    BY <1>1, <1>3

\* An orderly client changes nothing above a parked state.
LEMMA RetreeAvoidsParked ==
    ASSUME Orderly = TRUE, NEW s, MayRetree(s), NEW p \in Surface, NEW x \in Surface,
           pendingTx[p].id[x] # TQ!NoId, p # x, p \in alive
    PROVE  s \notin AncestorsOrSelf(x)
  BY DEF MayRetree, ParkedElsewhere, Descendants

\* Requests that change the tree leave the queue alone and the parking intact.
LEMMA TreeChangeStep ==
    ASSUME Orderly = TRUE, ParkInv, TreeChange
    PROVE  /\ ParkTyped' /\ ParkedBelow' /\ IdsFresh'
           /\ [TreeNext]_treeVars /\ UNCHANGED TQ!vars
  <1>1. ~ panicked /\ UNCHANGED <<queueVars, txid, pendingTx>>
    BY DEF TreeChange, DispatchIdle
  <1>2. UNCHANGED <<txid, pendingTx, issued>>
    BY <1>1 DEF queueVars
  <1>3. \/ \E o \in Subsurface, c, p \in Surface : GetSubsurface(o, c, p)
        \/ \E o \in Subsurface : SetSync(o)
        \/ \E o \in Subsurface : /\ subsurface[o] # None /\ MayRetree(subsurface[o])
                                 /\ SetDesync(o) \/ DestroySubsurface(o)
    BY DEF TreeChange
  <1>4. [TreeNext]_treeVars
    BY <1>1, <1>3 DEF TreeNext
  <1>5. alive' = alive
    BY <1>3 DEF GetSubsurface, SetSync, SetDesync, DestroySubsurface
  <1>6. UNCHANGED TQ!vars
    BY <1>1, <1>5 DEF queueVars, TQ!vars, TQ!txVars
  <1>7. /\ parent \in [Surface -> Surface \cup {None}] /\ sync \in [Surface -> Sync]
        /\ subsurface \in [Subsurface -> Surface \cup {None}]
    BY DEF ParkInv, TreeInv, TreeTypeOK
  <1>8. ASSUME NEW p \in Surface, NEW x \in Surface, pendingTx[p].id[x] # TQ!NoId, p # x,
               p \in alive, x \in alive,
               NEW y \in AncestorsOrSelf(x)
        PROVE  /\ parent[y] \in Surface => parent'[y] = parent[y]
               /\ sync[y] = "sync" => sync'[y] = "sync"
    <2>1. y \in Surface
      BY AncestorsTransitive
    <2>2. ASSUME NEW o \in Subsurface, NEW c \in Surface, NEW q \in Surface,
                 GetSubsurface(o, c, q)
          PROVE  /\ parent[y] \in Surface => parent'[y] = parent[y]
                 /\ sync[y] = "sync" => sync'[y] = "sync"
      BY <2>1, <2>2, <1>7, NoneAssumption DEF GetSubsurface, CanSetParent, WithState
    <2>3. ASSUME NEW o \in Subsurface, SetSync(o)
          PROVE  parent'[y] = parent[y] /\ (sync[y] = "sync" => sync'[y] = "sync")
      BY <2>1, <2>3, <1>7 DEF SetSync
    <2>4. ASSUME NEW o \in Subsurface, subsurface[o] # None, MayRetree(subsurface[o]),
                 SetDesync(o) \/ DestroySubsurface(o)
          PROVE  parent'[y] = parent[y] /\ (sync[y] = "sync" => sync'[y] = "sync")
      <3>1. subsurface[o] \notin AncestorsOrSelf(x)
        BY <2>4, <1>8, RetreeAvoidsParked
      <3>2. y # subsurface[o]
        BY <3>1
      <3>3. QED
        BY <2>1, <2>4, <3>2, <1>7 DEF SetDesync, DestroySubsurface
    <2>5. QED
      BY <2>2, <2>3, <2>4, <1>3
  <1>9. ParkTyped' /\ ParkedBelow' /\ IdsFresh'
    BY <1>2, <1>5, <1>8, ParkingKept
  <1>10. QED
    BY <1>4, <1>6, <1>9

\* The destruction of a surface is the Destroy of the queue.
LEMMA SurfaceDestroyedStep ==
    ASSUME Orderly = TRUE, ParkInv, NEW s \in Surface, SurfaceDestroyed(s)
    PROVE  /\ ParkTyped' /\ ParkedBelow' /\ IdsFresh'
           /\ [TreeNext]_treeVars /\ TQ!Destroy(s)
  <1>1. /\ ~ panicked /\ pc = "idle" /\ DestroySurface(s) /\ MayRetree(s)
        /\ UNCHANGED <<queueVars, txid, pendingTx>>
    BY DEF SurfaceDestroyed, DispatchIdle
  <1>2. UNCHANGED <<txid, pendingTx, issued>>
    BY <1>1 DEF queueVars
  <1>3. [TreeNext]_treeVars
    BY <1>1 DEF TreeNext
  <1>4. /\ s \in alive /\ alive' = alive \ {s} /\ UNCHANGED sync
        /\ \A y \in Surface : y # s /\ parent[y] # s => parent'[y] = parent[y]
    BY <1>1, KidsAreChildren DEF DestroySurface, Orphaned, ParkInv
  <1>5. TQ!Destroy(s)
    BY <1>1, <1>4 DEF TQ!Destroy, TQ!txVars, queueVars
  <1>6. ASSUME NEW p \in Surface, NEW x \in Surface, pendingTx[p].id[x] # TQ!NoId, p # x,
               p \in alive, x \in alive, p \in AncestorsOrSelf(x)
        PROVE  /\ p \in alive' /\ x \in alive'
               /\ \A y \in AncestorsOrSelf(x) :
                     /\ parent[y] \in Surface => parent'[y] = parent[y]
                     /\ sync[y] = "sync" => sync'[y] = "sync"
    <2>1. s \notin AncestorsOrSelf(x)
      BY <1>1, <1>6, RetreeAvoidsParked
    <2>2. p # s /\ x # s
      BY <2>1, <1>6, AncestorsClosed
    <2>3. ASSUME NEW y \in AncestorsOrSelf(x) PROVE y \in Surface /\ y # s /\ parent[y] # s
      <3>1. y \in Surface
        BY AncestorsTransitive
      <3>2. QED
        BY <3>1, <2>1, AncestorsClosed
    <2>4. QED
      BY <2>2, <2>3, <1>4, <1>6
  <1>7. ParkTyped' /\ ParkedBelow' /\ IdsFresh'
    BY <1>2, <1>6, ParkingKept
  <1>8. QED
    BY <1>3, <1>5, <1>7
-----------------------------------------------------------------------------
(* All steps. *)

\* Every step of the composed system keeps the invariant and is a step of the
\* queue or leaves it alone.
LEMMA SyncStep ==
    ASSUME Orderly = TRUE, ParkInv, [SyncNext]_allVars
    PROVE  ParkInv' /\ [TQ!Next]_(TQ!vars)
  <1>1. SUFFICES /\ ParkTyped' /\ ParkedBelow' /\ IdsFresh'
                 /\ [TreeNext]_treeVars /\ [TQ!Next]_(TQ!vars)
    BY TreeStep, QueueStep DEF ParkInv
  <1>2. ASSUME UNCHANGED treeVars, UNCHANGED <<txid, pendingTx, issued>>
        PROVE  ParkTyped' /\ ParkedBelow' /\ IdsFresh' /\ [TreeNext]_treeVars
    <2>1. UNCHANGED <<alive, parent, sync>>
      BY <1>2 DEF treeVars
    <2>2. QED
      BY <1>2, <2>1, ParkingKept
  <1>3. ASSUME NEW s \in Surface, Edit(s)
        PROVE  UNCHANGED treeVars /\ UNCHANGED <<txid, pendingTx, issued>> /\ UNCHANGED TQ!vars
    BY <1>3 DEF Edit, treeVars, queueVars, TQ!vars, TQ!txVars
  <1>4. ASSUME NEW s \in Surface, ApplyState(s)
        PROVE  UNCHANGED treeVars /\ UNCHANGED <<txid, pendingTx, issued>> /\ TQ!Next
    <2>1. TQ!ApplySurface(s) /\ UNCHANGED <<parent, children, role, subsurface, sync, panicked,
                                            txid, pendingTx>>
      BY <1>4 DEF ApplyState
    <2>2. UNCHANGED <<alive, issued>>
      BY <2>1 DEF TQ!ApplySurface
    <2>3. QED
      BY <2>1, <2>2 DEF treeVars, TQ!Next, TQ!Apply
  <1>5. ASSUME NEW b \in Blocker, NEW st \in {"Released", "Cancelled"}, ResolveBlocker(b, st)
        PROVE  UNCHANGED treeVars /\ UNCHANGED <<txid, pendingTx, issued>> /\ TQ!Next
    BY <1>5 DEF ResolveBlocker, stateVars, TQ!Next, TQ!Resolve, TQ!txVars
  <1>6. ASSUME Trigger
        PROVE  UNCHANGED treeVars /\ UNCHANGED <<txid, pendingTx, issued>> /\ TQ!Next
    BY <1>6 DEF Trigger, stateVars, TQ!Next, TQ!BlockerCleared
  <1>7. ASSUME ScanQueue
        PROVE  UNCHANGED treeVars /\ UNCHANGED <<txid, pendingTx, issued>> /\ TQ!Next
    BY <1>7 DEF ScanQueue, stateVars, TQ!Next, TQ!Scan, TQ!ScanCancelled, TQ!ScanSkip,
                TQ!ScanReady, TQ!ScanDone
  <1>8. ASSUME TransactionDone
        PROVE  UNCHANGED treeVars /\ UNCHANGED <<txid, pendingTx, issued>> /\ TQ!Next
    BY <1>8 DEF TransactionDone, stateVars, TQ!Next, TQ!Apply, TQ!ApplyDone
  <1>9. ASSUME NEW s \in Surface, SurfaceDestroyed(s)
        PROVE  /\ ParkTyped' /\ ParkedBelow' /\ IdsFresh'
               /\ [TreeNext]_treeVars /\ TQ!Next
    BY <1>9, SurfaceDestroyedStep DEF TQ!Next
  <1>10. ASSUME NEW s \in Surface, NEW B \in {{}} \cup {{b} : b \in Blocker}, Commit(s, B)
         PROVE  /\ ParkTyped' /\ ParkedBelow' /\ IdsFresh'
                /\ [TreeNext]_treeVars /\ [TQ!Next]_(TQ!vars)
    <2>1. B \in SUBSET Blocker
      OBVIOUS
    <2>2. CASE EffectivelySync(s)
      BY <1>10, <2>1, <2>2, CommitParked
    <2>3. CASE ~ EffectivelySync(s)
      BY <1>10, <2>1, <2>3, CommitQueued DEF TQ!Next
    <2>4. QED
      BY <2>2, <2>3
  <1>11. CASE UNCHANGED allVars
    <2>1. UNCHANGED treeVars /\ UNCHANGED <<txid, pendingTx, issued>> /\ UNCHANGED TQ!vars
      BY <1>11 DEF allVars, treeVars, queueVars, stateVars, TQ!vars, TQ!txVars
    <2>2. QED
      BY <2>1, <1>2
  <1>12. QED
    BY <1>2, <1>3, <1>4, <1>5, <1>6, <1>7, <1>8, <1>9, <1>10, <1>11, TreeChangeStep DEF SyncNext

LEMMA SyncInitial == SyncInit => ParkInv
  <1> SUFFICES ASSUME SyncInit PROVE ParkInv
    OBVIOUS
  <1>1. TreeInv /\ TQP!IndInv
    BY TreeInitial, QueueInitial DEF SyncInit
  <1>2. /\ txid = [s \in Surface |-> 0] /\ pendingTx = [s \in Surface |-> NoTx]
        /\ issued = [s \in Surface |-> -1]
    BY DEF SyncInit, StateInit, TQ!Init, TQ!NoId
  <1>3. NoTx \in TQ!Transaction /\ \A x \in Surface : NoTx.id[x] = TQ!NoId
    BY DEF NoTx, TQ!Transaction
  <1>4. ParkTyped
    BY <1>2, <1>3, SyncConstants DEF ParkTyped
  <1>5. ParkedBelow /\ IdsFresh
    BY <1>2, <1>3 DEF ParkedBelow, IdsFresh
  <1>6. QED
    BY <1>1, <1>4, <1>5 DEF ParkInv

\* Commits feed the queue as it relies on: the composition of tree, commits and
\* queue implements TransactionQueue, for any tree, any number of surfaces and
\* blockers, and handlers that are re-entered or not.
THEOREM CommitsImplementQueue ==
    ASSUME Orderly = TRUE
    PROVE  SyncSpec => ImplementsQueue
  <1>1. SyncInit => TQ!Init
    BY DEF SyncInit
  <1>2. ParkInv /\ [SyncNext]_allVars => ParkInv' /\ [TQ!Next]_(TQ!vars)
    BY SyncStep
  <1>3. QED
    BY <1>1, <1>2, SyncInitial, PTL DEF SyncSpec, ImplementsQueue, TQ!SafetySpec

\* The state of a synchronized subsurface stays hidden until the commit above it
\* that takes it has been applied, however deep the tree is.
THEOREM ParkedStaysHidden ==
    ASSUME Orderly = TRUE
    PROVE  SyncSpec => []ParkedStateHidden
  <1>1. ParkInv => ParkedStateHidden
    <2> SUFFICES ASSUME ParkInv, NEW p \in alive, NEW s \in alive,
                        pendingTx[p].id[s] # TQ!NoId
                 PROVE  applied[s] < pendingTx[p].id[s]
      BY DEF ParkedStateHidden
    <2>1. p \in Surface /\ s \in Surface
      BY DEF ParkInv, TreeInv, TreeTypeOK
    <2>2. issued[s] < pendingTx[p].id[s] /\ pendingTx[p].id[s] \in Int
      BY <2>1, PendingIds DEF ParkInv, IdsFresh
    <2>3. applied[s] <= issued[s]
      BY <2>1 DEF ParkInv, TQP!IndInv, TQP!HandedOutIssued
    <2>4. applied[s] \in Int /\ issued[s] \in Int
      BY <2>1, SyncConstants DEF ParkInv, TQP!IndInv, TQP!TypeOK, TQP!Id, TQP!NoId
    <2>5. QED
      BY <2>2, <2>3, <2>4
  <1>2. ParkInv /\ [SyncNext]_allVars => ParkInv'
    BY SyncStep
  <1>3. QED
    BY <1>1, <1>2, SyncInitial, PTL DEF SyncSpec
-----------------------------------------------------------------------------
(* The cached states. *)

CacheTyped ==
    /\ edits \in [Surface -> 0 .. MaxEdit]
    /\ cache \in [Surface -> Seq(CachedType)]
    /\ shown \in [Surface -> 0 .. MaxEdit]
    /\ waits \subseteq [surface : Surface, upto : 0 .. MaxEdit, blocker : Blocker]
    /\ commits \in 0 .. MaxCommit
    /\ changes \in 0 .. MaxChange

\* The states in q are older than the id n and lie, in order, between the current
\* state lo and the pending state hi.
Between(q, lo, hi, n) ==
    /\ \A j, k \in DOMAIN q : j < k => q[j].id < q[k].id /\ q[j].upto <= q[k].upto
    /\ \A k \in DOMAIN q : q[k].id < n /\ lo <= q[k].upto /\ q[k].upto <= hi
    /\ lo <= hi

CacheInOrder == \A s \in Surface : Between(cache[s], shown[s], edits[s], txid[s])

LEMMA CachedFields ==
    ASSUME NEW e \in CachedType
    PROVE  e.id \in Int /\ e.id \in 0 .. MaxId /\ e.upto \in Int /\ e.upto \in 0 .. MaxEdit
  BY SyncConstants DEF CachedType

\* A commit puts the pending state behind all cached ones; it is never merged
\* with the last, because every commit takes a new id.
LEMMA CommitBetween ==
    ASSUME NEW q \in Seq(CachedType), NEW lo \in 0 .. MaxEdit, NEW hi \in 0 .. MaxEdit,
           NEW n \in 0 .. MaxId, Between(q, lo, hi, n)
    PROVE  LET r == Cached(q, n, hi)
           IN  /\ r \in Seq(CachedType) /\ Between(r, lo, hi, n + 1)
               /\ \A k \in DOMAIN r :
                     \/ k \in DOMAIN q /\ r[k] = q[k]
                     \/ r[k].id = n /\ r[k].upto = hi
  <1> DEFINE e == [id |-> n, upto |-> hi]
             r == Append(q, e)
  <1>1. e \in CachedType /\ e.id = n /\ e.upto = hi
    BY DEF CachedType
  <1>2. /\ DOMAIN q = 1 .. Len(q) /\ Len(q) \in Nat
        /\ r \in Seq(CachedType) /\ DOMAIN r = 1 .. Len(q) + 1
        /\ r[Len(q) + 1] = e /\ \A k \in 1 .. Len(q) : r[k] = q[k]
    BY <1>1
  <1>3. \A k \in DOMAIN q : /\ q[k].id \in Int /\ q[k].upto \in Int
                            /\ q[k].id < n /\ lo <= q[k].upto /\ q[k].upto <= hi
    BY CachedFields, <1>2 DEF Between
  <1>4. q # <<>> => Last(q).id # n
    <2>1. q # <<>> => Len(q) \in DOMAIN q
      BY <1>2
    <2> QED
      BY <1>3, <2>1 DEF Last
  <1>5. Cached(q, n, hi) = r
    BY <1>4 DEF Cached
  <1> HIDE DEF e, r
  <1>6. \A k \in DOMAIN r :
           \/ k \in DOMAIN q /\ r[k] = q[k]
           \/ k = Len(q) + 1 /\ r[k] = e
    BY <1>2
  <1>7. ASSUME NEW j \in DOMAIN r, NEW k \in DOMAIN r, j < k
        PROVE  r[j].id < r[k].id /\ r[j].upto <= r[k].upto
    <2>1. j \in DOMAIN q /\ r[j] = q[j]
      BY <1>2, <1>7
    <2>2. CASE k \in DOMAIN q /\ r[k] = q[k]
      BY <1>7, <2>1, <2>2 DEF Between
    <2>3. CASE r[k] = e
      BY <1>1, <1>3, <2>1, <2>3
    <2> QED
      BY <1>6, <2>2, <2>3
  <1>8. \A k \in DOMAIN r : r[k].id < n + 1 /\ lo <= r[k].upto /\ r[k].upto <= hi
    <2>1. lo <= hi
      BY DEF Between
    <2> QED
      BY <1>1, <1>3, <1>6, <2>1
  <1>9. Between(r, lo, hi, n + 1)
    BY <1>7, <1>8 DEF Between
  <1> QED
    BY <1>1, <1>2, <1>5, <1>6, <1>9

\* What apply_state leaves in the cache, and what it makes current.
Rest(q, id) == Select(q, DOMAIN q \ UpTo(q, id))
NowShown(q, lo, id) == IF UpTo(q, id) = {} THEN lo ELSE q[Max(UpTo(q, id))].upto

Applicable(q, lo, hi, n, id) ==
    /\ q \in Seq(CachedType) /\ lo \in 0 .. MaxEdit /\ id \in Int
    /\ Between(q, lo, hi, n)

ApplyGives(q, lo, hi, n, id) ==
    /\ Rest(q, id) \in Seq(CachedType) /\ NowShown(q, lo, id) \in 0 .. MaxEdit
    /\ Between(Rest(q, id), NowShown(q, lo, id), hi, n)
    /\ \A k \in DOMAIN Rest(q, id) : \E j \in DOMAIN q : Rest(q, id)[k] = q[j]
    /\ NowShown(q, lo, id) # lo =>
          \E j \in DOMAIN q : q[j].id <= id /\ NowShown(q, lo, id) = q[j].upto

\* apply_state shows a state of the cache that is not newer than the id, or
\* nothing new, and keeps the rest.
LEMMA ApplyBetween ==
    ASSUME NEW q, NEW lo, NEW hi, NEW n, NEW id, Applicable(q, lo, hi, n, id)
    PROVE  ApplyGives(q, lo, hi, n, id)
  <1> DEFINE M == UpTo(q, id)
             K == DOMAIN q \ M
             r == Select(q, K)
             l == IF M = {} THEN lo ELSE q[Max(M)].upto
  <1>0. /\ q \in Seq(CachedType) /\ lo \in 0 .. MaxEdit /\ id \in Int
        /\ Between(q, lo, hi, n)
    BY DEF Applicable
  <1>1. DOMAIN q = 1 .. Len(q) /\ Len(q) \in Nat /\ M \in SUBSET (1 .. Len(q))
    BY <1>0 DEF UpTo
  <1>2. \A k \in DOMAIN q : q[k].id \in Int /\ q[k].upto \in Int /\ q[k].upto \in 0 .. MaxEdit
    BY <1>0, <1>1, CachedFields
  <1>3. M # {} => Max(M) \in M
    <2>1. M \in SUBSET (-1 .. Len(q))
      BY <1>1
    <2> HIDE DEF M
    <2> QED
      BY <1>1, <2>1, MaxOfIds
  <1>4. \A k \in M : k \in DOMAIN q /\ q[k].id <= id
    BY <1>1 DEF UpTo
  <1>5. \A j \in M, k \in K : j < k
    BY <1>1 DEF UpTo
  <1>6. /\ r \in Seq(CachedType)
        /\ \E m : /\ Enumerates(m, Len(r), K)
                  /\ \A j \in DOMAIN r : r[j] = q[m[j]]
    <2>1. K \in SUBSET DOMAIN q
      OBVIOUS
    <2> HIDE DEF K
    <2> QED
      BY <1>0, <2>1, SelectIsSubsequence
  <1> HIDE DEF r, K
  <1>7. PICK m : Enumerates(m, Len(r), K) /\ \A j \in DOMAIN r : r[j] = q[m[j]]
    BY <1>6
  <1>8. DOMAIN r = 1 .. Len(r)
    BY <1>6
  <1>9. \A j \in DOMAIN r : m[j] \in K /\ m[j] \in DOMAIN q /\ r[j] = q[m[j]]
    BY <1>7, <1>8 DEF Enumerates, K
  <1>10. \A j, k \in DOMAIN r : j < k => m[j] < m[k]
    BY <1>7, <1>8 DEF Enumerates
  <1>11. l \in 0 .. MaxEdit /\ l <= hi /\ \A k \in K : l <= q[k].upto
    <2>1. CASE M = {}
      BY <1>0, <2>1 DEF Between, K
    <2>2. CASE M # {}
      <3> DEFINE x == Max(M)
      <3>1. x \in M /\ x \in DOMAIN q /\ l = q[x].upto
        BY <1>3, <1>4, <2>2
      <3> HIDE DEF x, M, l
      <3>2. \A k \in K : x < k /\ k \in DOMAIN q
        BY <1>5, <3>1 DEF K
      <3>3. q[x].upto <= hi /\ \A k \in K : q[x].upto <= q[k].upto
        BY <1>0, <3>1, <3>2 DEF Between
      <3> QED
        BY <1>2, <3>1, <3>3
    <2> QED
      BY <2>1, <2>2
  <1>12. l # lo => \E j \in DOMAIN q : q[j].id <= id /\ l = q[j].upto
    BY <1>3, <1>4
  <1> HIDE DEF l
  <1>13. ASSUME NEW j \in DOMAIN r, NEW k \in DOMAIN r, j < k
         PROVE  r[j].id < r[k].id /\ r[j].upto <= r[k].upto
    BY <1>0, <1>9, <1>10, <1>13 DEF Between
  <1>14. \A k \in DOMAIN r : r[k].id < n /\ l <= r[k].upto /\ r[k].upto <= hi
    BY <1>0, <1>9, <1>11 DEF Between
  <1>15. Between(r, l, hi, n)
    BY <1>11, <1>13, <1>14 DEF Between
  <1>16. \A k \in DOMAIN r : \E j \in DOMAIN q : r[k] = q[j]
    BY <1>9
  <1> QED
    <2>1. Rest(q, id) = r /\ NowShown(q, lo, id) = l
      BY DEF Rest, NowShown, r, l, K
    <2> QED
      BY <1>6, <1>11, <1>12, <1>15, <1>16, <2>1 DEF ApplyGives
-----------------------------------------------------------------------------
(* States that wait for a blocker. *)

CacheInv == CacheTyped /\ CacheInOrder

\* The ids of the cached states that reach as far as the state w is about.
LateIds(w) ==
    {cache[w.surface][k].id : k \in {j \in DOMAIN cache[w.surface] :
                                        w.upto <= cache[w.surface][j].upto}}

StillWaits(w) ==
    /\ w.surface \in alive
    /\ blocker[w.blocker] = "Pending"
    /\ dropped[w.surface] = {}

\* A parked transaction carries the blocker, and no transaction that was queued
\* so far reaches the state.
HeldParked(w) ==
    /\ \E p \in Surface : /\ pendingTx[p].id[w.surface] # TQ!NoId
                          /\ w.blocker \in pendingTx[p].blockers
    /\ \A n \in LateIds(w) : issued[w.surface] < n

\* The k-th transaction in the queue carries the blocker, and nothing that is
\* before it or has left the queue reaches the state.
HeldQueued(w, k) ==
    /\ queue[k].id[w.surface] # TQ!NoId
    /\ w.blocker \in queue[k].blockers
    /\ \A n \in LateIds(w) :
          /\ \A j \in 1 .. Len(queue) : j < k => queue[j].id[w.surface] < n
          /\ \A j \in 1 .. Len(ready) : ready[j].id[w.surface] < n
          /\ \A j \in 1 .. Len(applying) : applying[j].id[w.surface] < n

Held(w) == HeldParked(w) \/ \E k \in 1 .. Len(queue) : HeldQueued(w, k)

WaitsHeld == \A w \in waits : StillWaits(w) => shown[w.surface] < w.upto /\ Held(w)

BlockInv == ParkInv /\ CacheInv /\ WaitsHeld

LEMMA WaitFields ==
    ASSUME CacheTyped, NEW w \in waits
    PROVE  w.surface \in Surface /\ w.upto \in 0 .. MaxEdit /\ w.upto \in Int /\ w.blocker \in Blocker
  <1>1. w \in [surface : Surface, upto : 0 .. MaxEdit, blocker : Blocker]
    BY DEF CacheTyped
  <1> QED
    BY <1>1, SyncConstants

LEMMA LateIdsInt ==
    ASSUME CacheTyped, NEW w \in waits, NEW n \in LateIds(w)
    PROVE  n \in Int
  <1>1. w.surface \in Surface
    BY WaitFields
  <1>2. cache[w.surface] \in Seq(CachedType)
    BY <1>1 DEF CacheTyped
  <1>3. PICK k \in DOMAIN cache[w.surface] : n = cache[w.surface][k].id
    BY DEF LateIds
  <1>4. cache[w.surface][k] \in CachedType
    BY <1>2
  <1> QED
    BY <1>3, <1>4, CachedFields

\* What the invariant of the queue says of the ids of one surface.
LEMMA QueueIds ==
    ASSUME ParkInv, NEW s \in Surface
    PROVE  /\ queue \in Seq(TQ!Transaction) /\ ready \in Seq(TQ!Transaction)
           /\ applying \in Seq(TQ!Transaction) /\ i \in Nat \ {0}
           /\ issued[s] \in Int
           /\ \A k \in 1 .. Len(queue) : queue[k].id[s] \in Int /\ queue[k].id[s] <= issued[s]
           /\ \A k \in 1 .. Len(ready) : ready[k].id[s] \in Int /\ ready[k].id[s] <= issued[s]
           /\ \A k \in 1 .. Len(applying) :
                 applying[k].id[s] \in Int /\ applying[k].id[s] <= issued[s]
  <1>1. /\ queue \in Seq(TQ!Transaction) /\ ready \in Seq(TQ!Transaction)
        /\ applying \in Seq(TQ!Transaction) /\ i \in Nat \ {0}
        /\ issued \in [Surface -> TQ!Id \cup {TQ!NoId}]
    BY DEF ParkInv, TQP!IndInv, TQP!TypeOK, TQP!Transaction, TQ!Transaction,
           TQP!Id, TQ!Id, TQP!NoId, TQ!NoId
  <1>2. \A t \in TQ!Transaction : t.id[s] \in Int
    BY SyncConstants DEF TQ!Transaction, TQ!Id, TQ!NoId
  <1>3. issued[s] \in Int
    BY <1>1, SyncConstants DEF TQ!Id, TQ!NoId
  <1>4. /\ \A k \in 1 .. Len(queue) : queue[k] \in TQ!Transaction
        /\ \A k \in 1 .. Len(ready) : ready[k] \in TQ!Transaction
        /\ \A k \in 1 .. Len(applying) : applying[k] \in TQ!Transaction
    BY <1>1
  <1>5. /\ \A k \in 1 .. Len(queue) : queue[k].id[s] <= issued[s]
        /\ \A k \in 1 .. Len(ready) : ready[k].id[s] <= issued[s]
        /\ \A k \in 1 .. Len(applying) : applying[k].id[s] <= issued[s]
    BY DEF ParkInv, TQP!IndInv, TQP!QueueIssued, TQP!HandedOutIssued
  <1> QED
    BY <1>1, <1>2, <1>3, <1>4, <1>5

\* The steps of the queue that leave the transactions where they are.
LEMMA HeldStays ==
    ASSUME NEW w, Held(w), LateIds(w)' \subseteq LateIds(w),
           UNCHANGED <<pendingTx, issued, queue>>,
           Len(ready') = 0 \/ ready' = ready,
           Len(applying') <= Len(applying), Len(applying) \in Nat, Len(applying') \in Nat,
           \A j \in 1 .. Len(applying') :
               \E k \in 1 .. Len(applying) :
                   applying'[j].id[w.surface] \in {applying[k].id[w.surface], TQ!NoId},
           \A n \in LateIds(w) : n \in Nat
    PROVE  Held(w)'
  <1>1. CASE HeldParked(w)
    BY <1>1 DEF HeldParked, Held
  <1>2. ASSUME NEW k \in 1 .. Len(queue), HeldQueued(w, k)
        PROVE  HeldQueued(w, k)'
    <2>1. \A n \in LateIds(w)' : n \in LateIds(w) /\ n \in Nat
      OBVIOUS
    <2>2. \A n \in LateIds(w)' : \A j \in 1 .. Len(queue') : j < k => queue'[j].id[w.surface] < n
      BY <1>2, <2>1 DEF HeldQueued
    <2>3. \A n \in LateIds(w)' : \A j \in 1 .. Len(ready') : ready'[j].id[w.surface] < n
      BY <1>2, <2>1 DEF HeldQueued
    <2>4. \A n \in LateIds(w)' : \A j \in 1 .. Len(applying') : applying'[j].id[w.surface] < n
      <3> SUFFICES ASSUME NEW n \in LateIds(w)', NEW j \in 1 .. Len(applying')
                   PROVE  applying'[j].id[w.surface] < n
        OBVIOUS
      <3>1. PICK h \in 1 .. Len(applying) :
                   applying'[j].id[w.surface] \in {applying[h].id[w.surface], TQ!NoId}
        OBVIOUS
      <3>2. applying[h].id[w.surface] < n
        BY <1>2, <2>1 DEF HeldQueued
      <3>3. TQ!NoId < n
        BY <2>1 DEF TQ!NoId
      <3> QED
        BY <3>1, <3>2, <3>3
    <2>5. queue'[k].id[w.surface] # TQ!NoId /\ w.blocker \in queue'[k].blockers
      BY <1>2 DEF HeldQueued
    <2> QED
      BY <2>2, <2>3, <2>4, <2>5 DEF HeldQueued
  <1>3. \A k \in 1 .. Len(queue) : k \in 1 .. Len(queue')
    OBVIOUS
  <1> QED
    BY <1>1, <1>2, <1>3 DEF Held

\* A transaction before the one that carries the blocker leaves the queue.
LEMMA HeldRemoved ==
    ASSUME ParkInv, NEW w, w.surface \in Surface, NEW k \in 1 .. Len(queue), HeldQueued(w, k),
           NEW r \in 1 .. Len(queue), r # k, queue' = TQ!RemoveAt(queue, r),
           UNCHANGED <<applying, cache>>, \A n \in LateIds(w) : n \in Nat,
           \/ ready' = ready
           \/ /\ ready' = Append(ready, queue[r])
              /\ r < k \/ queue[r].id[w.surface] = TQ!NoId
    PROVE  \E h \in 1 .. Len(queue') : HeldQueued(w, h)'
  <1> DEFINE s == w.surface
             h == IF k < r THEN k ELSE k - 1
  <1>1. queue \in Seq(TQ!Transaction) /\ ready \in Seq(TQ!Transaction)
    BY QueueIds
  <1>2. /\ Len(queue') = Len(queue) - 1 /\ Len(queue) \in Nat
        /\ \A j \in 1 .. Len(queue) - 1 : queue'[j] = IF j < r THEN queue[j] ELSE queue[j + 1]
    <2>1. queue' = TQP!RemoveAt(queue, r)
      BY DEF TQ!RemoveAt, TQP!RemoveAt
    <2> QED
      BY <1>1, <2>1, QueueAssumptions, TQP!RemoveAtProps, SMTT(30)
  <1>3. h \in 1 .. Len(queue') /\ queue'[h] = queue[k]
    BY <1>2
  <1>4. LateIds(w)' = LateIds(w)
    BY DEF LateIds
  <1>5. queue'[h].id[s] # TQ!NoId /\ w.blocker \in queue'[h].blockers
    BY <1>3 DEF HeldQueued
  <1>6. ASSUME NEW n \in LateIds(w), NEW j \in 1 .. Len(queue'), j < h
        PROVE  queue'[j].id[s] < n
    <2>1. \E x \in 1 .. Len(queue) : x < k /\ queue'[j] = queue[x]
      <3>1. CASE j < r
        BY <1>2, <1>6, <3>1
      <3>2. CASE ~ (j < r)
        <4>1. j + 1 \in 1 .. Len(queue) /\ j + 1 < k
          BY <1>2, <1>6, <3>2
        <4> QED
          BY <1>2, <3>2, <4>1
      <3> QED
        BY <3>1, <3>2
    <2> QED
      BY <2>1 DEF HeldQueued
  <1>7. ASSUME NEW n \in LateIds(w), NEW j \in 1 .. Len(ready') PROVE ready'[j].id[s] < n
    <2>1. CASE ready' = ready
      BY <2>1 DEF HeldQueued
    <2>2. CASE ready' = Append(ready, queue[r]) /\ (r < k \/ queue[r].id[s] = TQ!NoId)
      <3>1. \/ j \in 1 .. Len(ready) /\ ready'[j] = ready[j]
            \/ ready'[j] = queue[r]
        BY <1>1, <2>2
      <3>2. CASE j \in 1 .. Len(ready) /\ ready'[j] = ready[j]
        BY <3>2 DEF HeldQueued
      <3>3. CASE ready'[j] = queue[r]
        BY <2>2, <3>3 DEF HeldQueued, TQ!NoId
      <3> QED
        BY <3>1, <3>2, <3>3
    <2> QED
      BY <2>1, <2>2
  <1>8. ASSUME NEW n \in LateIds(w), NEW j \in 1 .. Len(applying') PROVE applying'[j].id[s] < n
    BY DEF HeldQueued
  <1> HIDE DEF h
  <1>9. HeldQueued(w, h)'
    BY <1>4, <1>5, <1>6, <1>7, <1>8 DEF HeldQueued
  <1> QED
    BY <1>3, <1>9

LEMMA LateIdsNat ==
    ASSUME CacheTyped, NEW w \in waits
    PROVE  \A n \in LateIds(w) : n \in Nat
  <1> SUFFICES ASSUME NEW n \in LateIds(w) PROVE n \in Nat
    OBVIOUS
  <1>1. w.surface \in Surface
    BY WaitFields
  <1>2. cache[w.surface] \in Seq(CachedType)
    BY <1>1 DEF CacheTyped
  <1>3. PICK k \in DOMAIN cache[w.surface] : n = cache[w.surface][k].id
    BY DEF LateIds
  <1>4. cache[w.surface][k] \in CachedType
    BY <1>2
  <1> QED
    BY <1>3, <1>4, CachedFields, SyncConstants

\* The iterations of take_ready: a transaction that carries a pending blocker is
\* neither ready nor passed by one of the same surface; it may be dropped.
LEMMA HeldScan ==
    ASSUME BlockInv, TQ!Scan, NEW w \in waits, Held(w), StillWaits(w), StillWaits(w)',
           UNCHANGED <<pendingTx, cache>>
    PROVE  Held(w)'
  <1> DEFINE s == w.surface
  <1>0. ParkInv /\ CacheTyped
    BY DEF BlockInv, CacheInv
  <1>1. s \in Surface /\ w.blocker \in Blocker /\ \A n \in LateIds(w) : n \in Nat
    BY <1>0, WaitFields, LateIdsNat
  <1>2. /\ queue \in Seq(TQ!Transaction) /\ ready \in Seq(TQ!Transaction)
        /\ applying \in Seq(TQ!Transaction) /\ i \in Nat \ {0}
    BY <1>0, <1>1, QueueIds
  <1>3. UNCHANGED issued /\ LateIds(w)' = LateIds(w)
    BY DEF TQ!Scan, TQ!ScanCancelled, TQ!ScanSkip, TQ!ScanReady, TQ!ScanDone, LateIds
  <1>4. CASE HeldParked(w)
    BY <1>3, <1>4 DEF HeldParked, Held
  <1>5. ASSUME NEW k \in 1 .. Len(queue), HeldQueued(w, k)
        PROVE  Held(w)'
    <2>1. CASE TQ!ScanSkip
      <3>1. UNCHANGED <<queue, ready, applying>>
        BY <2>1 DEF TQ!ScanSkip
      <3> QED
        BY <1>3, <1>5, <3>1 DEF HeldQueued, Held
    <2>2. CASE TQ!ScanDone
      <3>1. queue' = queue /\ ready' = <<>> /\ applying' = ready \o applying
        BY <2>2 DEF TQ!ScanDone, TQ!HandOut
      <3>2. ASSUME NEW n \in LateIds(w), NEW j \in 1 .. Len(applying')
            PROVE  applying'[j].id[s] < n
        <4>1. \/ j \in 1 .. Len(ready) /\ applying'[j] = ready[j]
              \/ j - Len(ready) \in 1 .. Len(applying) /\ applying'[j] = applying[j - Len(ready)]
          BY <1>2, <3>1
        <4> QED
          BY <1>5, <4>1 DEF HeldQueued
      <3>3. HeldQueued(w, k)'
        BY <1>3, <1>5, <3>1, <3>2 DEF HeldQueued
      <3> QED
        BY <3>1, <3>3 DEF Held
    <2>3. CASE TQ!ScanCancelled
      <3>1. /\ i \in 1 .. Len(queue) /\ queue' = TQ!RemoveAt(queue, i)
            /\ UNCHANGED <<ready, applying>>
            /\ dropped' = [x \in Surface |-> dropped[x] \cup ({queue[i].id[x]} \ {TQ!NoId})]
        BY <1>2, <2>3 DEF TQ!ScanCancelled
      <3>2. i # k
        BY <1>1, <1>5, <3>1 DEF HeldQueued, StillWaits
      <3> QED
        BY <1>0, <1>1, <1>5, <3>1, <3>2, HeldRemoved DEF Held
    <2>4. CASE TQ!ScanReady
      <3>1. /\ i \in 1 .. Len(queue) /\ queue' = TQ!RemoveAt(queue, i)
            /\ UNCHANGED applying /\ ready' = Append(ready, queue[i])
            /\ TQ!TxState(queue[i]) = "Released" /\ ~ TQ!MustWait(queue[i]) /\ pc = "scan"
        BY <1>2, <2>4 DEF TQ!ScanReady
      <3>2. i # k
        BY <1>5, <3>1 DEF HeldQueued, StillWaits, TQ!TxState
      <3>3. ASSUME k < i PROVE queue[i].id[s] = TQ!NoId
        <4>1. TQP!LiveMembers(queue[k]) \subseteq seen
          BY <1>0, <3>1, <3>3 DEF ParkInv, TQP!IndInv, TQP!SeenCoversSkipped
        <4>2. s \in seen
          BY <1>1, <1>5, <4>1 DEF HeldQueued, StillWaits, TQP!LiveMembers, TQP!Members,
                                  TQP!NoId, TQ!NoId
        <4>3. s \notin TQ!LiveMembers(queue[i])
          BY <3>1, <4>2 DEF TQ!MustWait
        <4> QED
          BY <1>1, <4>3 DEF StillWaits, TQ!LiveMembers, TQ!Members
      <3>4. i < k \/ queue[i].id[s] = TQ!NoId
        BY <1>2, <3>1, <3>2, <3>3
      <3> QED
        BY <1>0, <1>1, <1>5, <3>1, <3>2, <3>4, HeldRemoved DEF Held
    <2> QED
      BY <2>1, <2>2, <2>3, <2>4 DEF TQ!Scan
  <1> QED
    BY <1>4, <1>5 DEF Held

\* A new transaction that carries the blocker is behind all that do not reach
\* the state.
LEMMA HeldAppended ==
    ASSUME ParkInv, NEW w, w.surface \in Surface, NEW t, TQ!Enqueue(t),
           t.id[w.surface] # TQ!NoId, w.blocker \in t.blockers,
           \A n \in LateIds(w)' : n \in Int /\ issued[w.surface] < n
    PROVE  Held(w)'
  <1> DEFINE s == w.surface
  <1>1. queue \in Seq(TQ!Transaction) /\ issued[s] \in Int
        /\ \A j \in 1 .. Len(queue) : queue[j].id[s] \in Int /\ queue[j].id[s] <= issued[s]
    BY QueueIds
  <1>2. queue' = Append(queue, t) /\ ready' = <<>> /\ applying' = <<>>
    BY DEF TQ!Enqueue, TQ!StartScan
  <1>k. PICK k \in Nat : k = Len(queue) + 1
    BY <1>1
  <1>3. /\ k \in 1 .. Len(queue') /\ queue'[k] = t
        /\ \A j \in 1 .. Len(queue') : j < k => j \in 1 .. Len(queue) /\ queue'[j] = queue[j]
    BY <1>1, <1>2, <1>k
  <1>4. ASSUME NEW n \in LateIds(w)', NEW j \in 1 .. Len(queue'), j < k
        PROVE  queue'[j].id[s] < n
    BY <1>1, <1>3, <1>4
  <1>5. Len(ready') = 0 /\ Len(applying') = 0
    BY <1>2
  <1>6. HeldQueued(w, k)'
    BY <1>3, <1>4, <1>5 DEF HeldQueued
  <1> QED
    BY <1>3, <1>6 DEF Held

\* What a commit does to the cached states and to the commit ids.
LEMMA CommitCaches ==
    ASSUME ParkInv, CacheInv, NEW s \in Surface, NEW B \in SUBSET Blocker, Commit(s, B)
    PROVE  /\ CacheInv'
           /\ \A x \in Surface : \A k \in DOMAIN cache'[x] :
                 \/ k \in DOMAIN cache[x] /\ cache'[x][k] = cache[x][k]
                 \/ cache'[x][k].id = txid[x] /\ cache'[x][k].upto = edits[x]
           /\ UNCHANGED <<edits, shown, alive, blocker, dropped>>
           /\ waits' = waits \cup [surface : {s}, upto : {edits[s]}, blocker : B]
           /\ B # {} => /\ shown[s] < edits[s]
                        /\ \A k \in DOMAIN cache[s] : cache[s][k].upto < edits[s]
  <1> DEFINE isSync == EffectivelySync(s)
             tree == UNION {Descendants(c) : c \in SyncKids(s)}
             taken == IF isSync THEN Kids(s) ELSE tree
             own == {s} \cup (IF isSync THEN {} ELSE tree)
  <1>1. /\ B # {} => HasNewState(s)
        /\ commits < MaxCommit /\ commits' = commits + 1
        /\ \A x \in taken \cup {s} : txid[x] <= MaxId
        /\ cache' = [x \in Surface |->
                       IF x \in own THEN Cached(cache[x], txid[x], edits[x]) ELSE cache[x]]
        /\ txid' = [x \in Surface |-> IF x \in taken \cup {s} THEN txid[x] + 1 ELSE txid[x]]
        /\ waits' = waits \cup [surface : {s}, upto : {edits[s]}, blocker : B]
        /\ UNCHANGED <<edits, shown, changes>>
    BY DEF Commit, NextTxid
  <1>2. UNCHANGED <<alive, blocker, dropped>>
    BY DEF Commit, TQ!Enqueue, queueVars
  <1>3. own \subseteq taken \cup {s}
    OBVIOUS
  <1> HIDE DEF own, taken
  <1>4. /\ txid \in [Surface -> 0 .. MaxId + 1] /\ MaxId \in Nat /\ MaxCommit \in Nat
        /\ MaxEdit \in Nat
        /\ edits \in [Surface -> 0 .. MaxEdit] /\ cache \in [Surface -> Seq(CachedType)]
        /\ shown \in [Surface -> 0 .. MaxEdit] /\ commits \in 0 .. MaxCommit
        /\ waits \subseteq [surface : Surface, upto : 0 .. MaxEdit, blocker : Blocker]
        /\ \A x \in Surface : Between(cache[x], shown[x], edits[x], txid[x])
    BY SyncConstants DEF ParkInv, ParkTyped, CacheInv, CacheTyped, CacheInOrder
  <1>5. ASSUME NEW x \in Surface
        PROVE  /\ cache'[x] \in Seq(CachedType)
               /\ Between(cache'[x], shown[x], edits[x], txid'[x])
               /\ \A k \in DOMAIN cache'[x] :
                     \/ k \in DOMAIN cache[x] /\ cache'[x][k] = cache[x][k]
                     \/ cache'[x][k].id = txid[x] /\ cache'[x][k].upto = edits[x]
    <2>1. CASE x \in own
      <3>1. /\ txid[x] \in 0 .. MaxId /\ txid'[x] = txid[x] + 1
            /\ cache'[x] = Cached(cache[x], txid[x], edits[x])
        BY <2>1, <1>1, <1>3, <1>4
      <3> QED
        BY <3>1, <1>4, CommitBetween
    <2>2. CASE x \notin own
      <3>1. cache'[x] = cache[x] /\ txid'[x] \in {txid[x], txid[x] + 1} /\ txid[x] \in Int
        BY <2>2, <1>1, <1>4
      <3>2. \A k \in DOMAIN cache[x] : cache[x][k].id \in Int
        BY <1>4, CachedFields
      <3>3. Between(cache[x], shown[x], edits[x], txid'[x])
        BY <3>1, <3>2, <1>4, SMTT(30) DEF Between
      <3> QED
        BY <3>1, <3>3, <1>4
    <2> QED
      BY <2>1, <2>2
  <1>6. CacheInOrder'
    BY <1>1, <1>5 DEF CacheInOrder
  <1>7. CacheTyped'
    <2>1. cache' \in [Surface -> Seq(CachedType)]
      BY <1>1, <1>5
    <2>2. waits' \subseteq [surface : Surface, upto : 0 .. MaxEdit, blocker : Blocker]
      BY <1>1, <1>4
    <2>3. commits' \in 0 .. MaxCommit
      BY <1>1, <1>4
    <2> QED
      BY <2>1, <2>2, <2>3, <1>1 DEF CacheInv, CacheTyped
  <1>8. ASSUME B # {}
        PROVE  /\ shown[s] < edits[s] /\ \A k \in DOMAIN cache[s] : cache[s][k].upto < edits[s]
    <2>1. /\ cache[s] \in Seq(CachedType) /\ edits[s] \in Int /\ shown[s] \in Int
          /\ Between(cache[s], shown[s], edits[s], txid[s])
      BY <1>4
    <2>2. CASE cache[s] = <<>>
      BY <1>1, <1>8, <2>1, <2>2 DEF HasNewState
    <2>3. CASE cache[s] # <<>>
      <3> DEFINE m == Len(cache[s])
      <3>1. m \in DOMAIN cache[s] /\ DOMAIN cache[s] = 1 .. m /\ m \in Nat
        BY <2>1, <2>3
      <3>2. cache[s][m].upto < edits[s]
        <4>1. Last(cache[s]).upto < edits[s] /\ Last(cache[s]) = cache[s][m]
          BY <1>1, <1>8, <2>3 DEF HasNewState, Last
        <4> QED
          BY <4>1
      <3>3. \A k \in DOMAIN cache[s] : cache[s][k].upto \in Int
        BY <2>1, CachedFields
      <3>4. \A k \in DOMAIN cache[s] : k = m \/ cache[s][k].upto <= cache[s][m].upto
        <4>1. \A k \in DOMAIN cache[s] : k = m \/ k < m
          BY <3>1
        <4> QED
          BY <2>1, <3>1, <4>1 DEF Between
      <3>5. shown[s] <= cache[s][m].upto
        BY <2>1, <3>1 DEF Between
      <3> QED
        BY <2>1, <3>1, <3>2, <3>3, <3>4, <3>5, SMTT(30)
    <2> QED
      BY <2>2, <2>3
  <1> QED
    BY <1>1, <1>2, <1>5, <1>6, <1>7, <1>8 DEF CacheInv

\* A commit adds its blockers to the transaction that takes the new state, and
\* passes on those it finds.
LEMMA CommitHolds ==
    ASSUME BlockInv, NEW s \in Surface, NEW B \in SUBSET Blocker, Commit(s, B)
    PROVE  CacheInv' /\ WaitsHeld'
  <1>1. ParkInv /\ CacheInv /\ CacheTyped /\ WaitsHeld
    BY DEF BlockInv, CacheInv
  <1>2. /\ CacheInv'
        /\ \A x \in Surface : \A k \in DOMAIN cache'[x] :
              \/ k \in DOMAIN cache[x] /\ cache'[x][k] = cache[x][k]
              \/ cache'[x][k].id = txid[x] /\ cache'[x][k].upto = edits[x]
        /\ UNCHANGED <<edits, shown, alive, blocker, dropped>>
        /\ waits' = waits \cup [surface : {s}, upto : {edits[s]}, blocker : B]
        /\ B # {} => /\ shown[s] < edits[s]
                     /\ \A k \in DOMAIN cache[s] : cache[s][k].upto < edits[s]
    BY <1>1, CommitCaches
  <1>3. \A x \in Surface : issued[x] \in Int /\ txid[x] \in Int /\ issued[x] < txid[x]
    BY <1>1, QueueIds, SyncConstants DEF ParkInv, IdsFresh, ParkTyped
  <1>4. ASSUME NEW w, w.surface \in Surface
        PROVE  \A n \in LateIds(w)' : n \in LateIds(w) \/ n = txid[w.surface]
    <2> SUFFICES ASSUME NEW n \in LateIds(w)' PROVE n \in LateIds(w) \/ n = txid[w.surface]
      OBVIOUS
    <2>1. PICK k \in DOMAIN cache'[w.surface] : /\ n = cache'[w.surface][k].id
                                                /\ w.upto <= cache'[w.surface][k].upto
      BY DEF LateIds
    <2>2. CASE k \in DOMAIN cache[w.surface] /\ cache'[w.surface][k] = cache[w.surface][k]
      BY <2>1, <2>2 DEF LateIds
    <2>3. CASE cache'[w.surface][k].id = txid[w.surface]
      BY <2>1, <2>3
    <2> QED
      BY <1>2, <1>4, <2>2, <2>3
  <1>5. ASSUME NEW w \in waits, StillWaits(w)'
        PROVE  shown'[w.surface] < w.upto /\ Held(w)'
    <2>1. StillWaits(w)
      BY <1>2, <1>5 DEF StillWaits
    <2>2. shown[w.surface] < w.upto /\ Held(w)
      BY <1>1, <2>1 DEF WaitsHeld
    <2>3. w.surface \in Surface /\ w.surface \in alive /\ \A n \in LateIds(w) : n \in Int
      BY <1>1, <2>1, WaitFields, LateIdsInt DEF StillWaits
    <2>4. \A n \in LateIds(w)' : n \in Int /\ (n \in LateIds(w) \/ issued[w.surface] < n)
      BY <1>3, <1>4, <2>3
    <2>5. /\ issued[w.surface] \in Int
          /\ \A j \in 1 .. Len(queue) :
                queue[j].id[w.surface] \in Int /\ queue[j].id[w.surface] <= issued[w.surface]
          /\ \A j \in 1 .. Len(ready) :
                ready[j].id[w.surface] \in Int /\ ready[j].id[w.surface] <= issued[w.surface]
          /\ \A j \in 1 .. Len(applying) :
                applying[j].id[w.surface] \in Int /\ applying[j].id[w.surface] <= issued[w.surface]
      BY <1>1, <2>3, QueueIds
    <2>6. CASE EffectivelySync(s)
      <3>1. /\ UNCHANGED <<issued, queue, ready, applying>>
            /\ \A p \in Surface, x \in alive : pendingTx[p].id[x] # TQ!NoId =>
                 \E c \in Surface : /\ pendingTx'[c].id[x] # TQ!NoId
                                    /\ pendingTx[p].blockers \subseteq pendingTx'[c].blockers
        BY <1>1, <2>6, CommitParked DEF TQ!vars, TQ!txVars
      <3>2. CASE HeldParked(w)
        <4>1. \A n \in LateIds(w)' : issued'[w.surface] < n
          BY <2>4, <3>1, <3>2 DEF HeldParked
        <4>2. \E p \in Surface : /\ pendingTx'[p].id[w.surface] # TQ!NoId
                                 /\ w.blocker \in pendingTx'[p].blockers
          BY <2>3, <3>1, <3>2 DEF HeldParked
        <4> QED
          BY <1>2, <2>2, <4>1, <4>2 DEF HeldParked, Held
      <3>3. ASSUME NEW k \in 1 .. Len(queue), HeldQueued(w, k)
            PROVE  Held(w)'
        <4>1. \A n \in LateIds(w)' :
                /\ \A j \in 1 .. Len(queue) : j < k => queue[j].id[w.surface] < n
                /\ \A j \in 1 .. Len(ready) : ready[j].id[w.surface] < n
                /\ \A j \in 1 .. Len(applying) : applying[j].id[w.surface] < n
          BY <2>4, <2>5, <3>3, SMTT(30) DEF HeldQueued
        <4>2. HeldQueued(w, k)'
          BY <3>1, <3>3, <4>1 DEF HeldQueued
        <4> QED
          BY <3>1, <4>2 DEF Held
      <3> QED
        BY <1>2, <2>2, <3>2, <3>3 DEF Held
    <2>7. CASE ~ EffectivelySync(s)
      <3>1. PICK t \in TQ!Transaction :
              /\ TQ!AppendTx(t)
              /\ \A p, x \in Surface : pendingTx[p].id[x] # TQ!NoId =>
                    \/ pendingTx'[p] = pendingTx[p] /\ t.id[x] = TQ!NoId
                    \/ t.id[x] # TQ!NoId /\ pendingTx[p].blockers \subseteq t.blockers
        BY <1>1, <2>7, CommitQueued
      <3>2. TQ!Enqueue(t)
        BY <3>1 DEF TQ!AppendTx
      <3>3. /\ queue' = Append(queue, t) /\ ready' = <<>> /\ applying' = <<>>
            /\ issued' = [x \in Surface |-> TQ!Larger(issued[x], t.id[x])]
        BY <3>2 DEF TQ!Enqueue, TQ!StartScan
      <3>4. CASE HeldParked(w)
        <4>1. PICK p \in Surface : /\ pendingTx[p].id[w.surface] # TQ!NoId
                                   /\ w.blocker \in pendingTx[p].blockers
          BY <3>4 DEF HeldParked
        <4>2. \A n \in LateIds(w)' : n \in Int /\ issued[w.surface] < n
          BY <2>4, <3>4 DEF HeldParked
        <4>3. CASE pendingTx'[p] = pendingTx[p] /\ t.id[w.surface] = TQ!NoId
          <5>1. issued'[w.surface] = issued[w.surface] \/ issued'[w.surface] = -1
            BY <2>3, <3>3, <4>3 DEF TQ!Larger, TQ!NoId
          <5>2. -1 <= issued[w.surface]
            <6>1. issued \in [Surface -> TQP!Id \cup {TQP!NoId}]
              BY <1>1 DEF ParkInv, TQP!IndInv, TQP!TypeOK
            <6>2. \A n \in TQP!Id \cup {TQP!NoId} : -1 <= n
              BY SyncConstants DEF TQP!Id, TQP!NoId
            <6> QED
              BY <2>3, <6>1, <6>2
          <5>3. \A n \in LateIds(w)' : issued'[w.surface] < n
            BY <2>5, <4>2, <5>1, <5>2
          <5> QED
            BY <1>2, <2>2, <4>1, <4>3, <5>3 DEF HeldParked, Held
        <4>4. CASE t.id[w.surface] # TQ!NoId /\ pendingTx[p].blockers \subseteq t.blockers
          <5>1. w.blocker \in t.blockers
            BY <4>1, <4>4
          <5> QED
            BY <1>1, <1>2, <2>2, <2>3, <3>2, <4>2, <4>4, <5>1, HeldAppended
        <4> QED
          BY <2>3, <3>1, <4>1, <4>3, <4>4
      <3>5. ASSUME NEW k \in 1 .. Len(queue), HeldQueued(w, k)
            PROVE  Held(w)'
        <4>1. queue \in Seq(TQ!Transaction)
          BY <1>1, <2>3, QueueIds
        <4>2. /\ k \in 1 .. Len(queue') /\ queue'[k] = queue[k]
              /\ \A j \in 1 .. Len(queue') : j < k => j \in 1 .. Len(queue) /\ queue'[j] = queue[j]
          BY <3>3, <4>1
        <4>3. \A n \in LateIds(w)' : \A j \in 1 .. Len(queue) : j < k => queue[j].id[w.surface] < n
          BY <2>4, <2>5, <3>5 DEF HeldQueued
        <4>4. Len(ready') = 0 /\ Len(applying') = 0
          BY <3>3
        <4>5. HeldQueued(w, k)'
          BY <3>5, <4>2, <4>3, <4>4 DEF HeldQueued
        <4> QED
          BY <4>2, <4>5 DEF Held
      <3> QED
        BY <1>2, <2>2, <3>4, <3>5 DEF Held
    <2> QED
      BY <2>6, <2>7
  <1>6. ASSUME NEW w \in [surface : {s}, upto : {edits[s]}, blocker : B]
        PROVE  shown'[w.surface] < w.upto /\ Held(w)'
    <2>1. w.surface = s /\ w.upto = edits[s] /\ w.blocker \in B
      BY <1>6
    <2>2. shown[s] < edits[s] /\ \A k \in DOMAIN cache[s] : cache[s][k].upto < edits[s]
      BY <1>2, <2>1
    <2>3. \A n \in LateIds(w)' : n = txid[s]
      <3>1. \A k \in DOMAIN cache[s] : ~ (edits[s] <= cache[s][k].upto)
        <4>1. cache[s] \in Seq(CachedType) /\ edits[s] \in Int
          BY <1>1, SyncConstants DEF CacheTyped
        <4>2. \A k \in DOMAIN cache[s] : cache[s][k].upto \in Int
          BY <4>1, CachedFields
        <4> QED
          BY <2>2, <4>1, <4>2
      <3>2. LateIds(w) = {}
        BY <2>1, <3>1 DEF LateIds
      <3> QED
        BY <1>4, <2>1, <3>2
    <2>4. \A n \in LateIds(w)' : n \in Int /\ issued[s] < n
      BY <1>3, <2>3
    <2>5. CASE EffectivelySync(s)
      <3>1. /\ issued' = issued
            /\ pendingTx'[s].id[s] # TQ!NoId /\ B \subseteq pendingTx'[s].blockers
        BY <1>1, <2>5, CommitParked DEF TQ!vars, TQ!txVars
      <3> QED
        BY <1>2, <2>1, <2>2, <2>4, <3>1 DEF HeldParked, Held
    <2>6. CASE ~ EffectivelySync(s)
      <3>1. PICK t \in TQ!Transaction :
              TQ!AppendTx(t) /\ t.id[s] # TQ!NoId /\ B \subseteq t.blockers
        BY <1>1, <2>6, CommitQueued
      <3>2. TQ!Enqueue(t) /\ w.blocker \in t.blockers
        BY <2>1, <3>1 DEF TQ!AppendTx
      <3> QED
        BY <1>1, <1>2, <2>1, <2>2, <2>4, <3>1, <3>2, HeldAppended
    <2> QED
      BY <2>5, <2>6
  <1> QED
    BY <1>2, <1>5, <1>6 DEF WaitsHeld

\* apply_state shows no state that waits: the transaction being applied does not
\* reach it.
LEMMA ApplyHolds ==
    ASSUME BlockInv, NEW s \in Surface, ApplyState(s)
    PROVE  CacheInv' /\ WaitsHeld'
  <1> DEFINE id == Head(applying).id[s]
  <1>1. ParkInv /\ CacheInv /\ CacheTyped /\ CacheInOrder /\ WaitsHeld
    BY DEF BlockInv, CacheInv
  <1>2. /\ TQ!ApplySurface(s)
        /\ cache' = [cache EXCEPT ![s] = Rest(cache[s], id)]
        /\ shown' = [shown EXCEPT ![s] = NowShown(cache[s], shown[s], id)]
        /\ UNCHANGED <<txid, pendingTx, edits, waits, commits, changes>>
    BY DEF ApplyState, Rest, NowShown
  <1>3. /\ applying # <<>> /\ applying' = [applying EXCEPT ![1] = TQ!Without(Head(applying), s)]
        /\ UNCHANGED <<alive, blocker, queue, ready, issued, dropped>>
    BY <1>2 DEF TQ!ApplySurface
  <1>4. applying \in Seq(TQ!Transaction) /\ applying \in Seq(TQP!Transaction)
    BY <1>1, QueueIds DEF TQ!Transaction, TQP!Transaction, TQ!Id, TQP!Id, TQ!NoId, TQP!NoId
  <1>5. id = applying[1].id[s] /\ 1 \in 1 .. Len(applying) /\ id \in Int
    <2>1. Head(applying) = applying[1] /\ 1 \in 1 .. Len(applying)
      BY <1>3, <1>4
    <2> QED
      BY <1>1, <2>1, QueueIds
  <1>6. /\ Len(applying') = Len(applying) /\ Len(applying) \in Nat
        /\ \A j \in 1 .. Len(applying) : \A u \in Surface :
              applying'[j].id[u] = applying[j].id[u] \/ applying'[j].id[u] = TQ!NoId
    <2>1. applying' = [applying EXCEPT ![1] = TQP!Without(Head(applying), s)]
      BY <1>3 DEF TQ!Without, TQP!Without, TQ!NoId, TQP!NoId
    <2>2. TQP!NoId = TQ!NoId
      BY DEF TQ!NoId, TQP!NoId
    <2>3. /\ Len(applying') = Len(applying)
          /\ \A j \in 1 .. Len(applying) : \A u \in Surface :
                applying'[j].id[u] = applying[j].id[u] \/ applying'[j].id[u] = TQP!NoId
      BY <1>3, <1>4, <2>1, QueueAssumptions, TQP!ClearHeadProps
    <2> QED
      BY <1>4, <2>2, <2>3
  <1>7. /\ cache[s] \in Seq(CachedType) /\ shown[s] \in 0 .. MaxEdit
        /\ Between(cache[s], shown[s], edits[s], txid[s])
        /\ cache \in [Surface -> Seq(CachedType)] /\ shown \in [Surface -> 0 .. MaxEdit]
    BY <1>1 DEF CacheTyped, CacheInOrder
  <1>8. /\ cache'[s] = Rest(cache[s], id) /\ shown'[s] = NowShown(cache[s], shown[s], id)
        /\ \A x \in Surface \ {s} : cache'[x] = cache[x] /\ shown'[x] = shown[x]
    BY <1>2, <1>7
  <1> HIDE DEF id
  <1>9. /\ cache'[s] \in Seq(CachedType) /\ shown'[s] \in 0 .. MaxEdit
        /\ Between(cache'[s], shown'[s], edits[s], txid[s])
        /\ \A k \in DOMAIN cache'[s] : \E j \in DOMAIN cache[s] : cache'[s][k] = cache[s][j]
        /\ shown'[s] # shown[s] =>
              \E j \in DOMAIN cache[s] : cache[s][j].id <= id /\ shown'[s] = cache[s][j].upto
    <2>1. Applicable(cache[s], shown[s], edits[s], txid[s], id)
      BY <1>5, <1>7 DEF Applicable
    <2>2. ApplyGives(cache[s], shown[s], edits[s], txid[s], id)
      BY ONLY <2>1, ApplyBetween
    <2> QED
      BY <1>8, <2>2 DEF ApplyGives
  <1>10. CacheInv'
    <2>1. cache' \in [Surface -> Seq(CachedType)] /\ shown' \in [Surface -> 0 .. MaxEdit]
      BY <1>2, <1>7, <1>8, <1>9
    <2>2. CacheTyped'
      BY <1>1, <1>2, <2>1 DEF CacheTyped
    <2>3. \A x \in Surface : Between(cache'[x], shown'[x], edits[x], txid[x])
      BY <1>1, <1>8, <1>9 DEF CacheInOrder
    <2>4. CacheInOrder'
      BY <1>2, <2>3 DEF CacheInOrder
    <2> QED
      BY <2>2, <2>4 DEF CacheInv
  <1>11. ASSUME NEW w \in waits, StillWaits(w)
         PROVE  shown'[w.surface] < w.upto /\ Held(w)'
    <2>1. /\ w.surface \in Surface /\ w.upto \in Int /\ \A n \in LateIds(w) : n \in Nat
          /\ shown[w.surface] < w.upto /\ Held(w)
      BY <1>1, <1>11, WaitFields, LateIdsNat DEF WaitsHeld
    <2>2. LateIds(w)' \subseteq LateIds(w)
      <3> SUFFICES ASSUME NEW n \in LateIds(w)' PROVE n \in LateIds(w)
        OBVIOUS
      <3>1. PICK k \in DOMAIN cache'[w.surface] : /\ n = cache'[w.surface][k].id
                                                  /\ w.upto <= cache'[w.surface][k].upto
        BY DEF LateIds
      <3>2. \E j \in DOMAIN cache[w.surface] : cache'[w.surface][k] = cache[w.surface][j]
        <4>1. CASE w.surface = s
          BY <1>9, <4>1
        <4>2. CASE w.surface # s
          BY <1>8, <2>1, <4>2
        <4> QED
          BY <4>1, <4>2
      <3> QED
        BY <3>1, <3>2 DEF LateIds
    <2>3. \A n \in LateIds(w) : applying[1].id[w.surface] < n
      <3>1. /\ applying[1].id[w.surface] \in Int /\ issued[w.surface] \in Int
            /\ applying[1].id[w.surface] <= issued[w.surface]
        BY <1>1, <1>5, <2>1, QueueIds
      <3> QED
        BY <1>5, <2>1, <3>1 DEF Held, HeldParked, HeldQueued
    <2>4. shown'[w.surface] < w.upto
      <3> SUFFICES ASSUME w.surface = s, shown'[s] # shown[s] PROVE shown'[s] < w.upto
        BY <1>8, <2>1
      <3>1. PICK j \in DOMAIN cache[s] : cache[s][j].id <= id /\ shown'[s] = cache[s][j].upto
        BY <1>9
      <3>2. cache[s][j] \in CachedType
        BY <1>7
      <3>3. cache[s][j].id \in Int /\ cache[s][j].upto \in Int
        BY <3>2, CachedFields
      <3>4. cache[s][j].id \notin LateIds(w)
        BY <1>5, <2>3, <3>1, <3>3
      <3>5. ~ (w.upto <= cache[s][j].upto)
        BY <3>4 DEF LateIds
      <3> QED
        BY <2>1, <3>1, <3>3, <3>5
    <2>5. \A j \in 1 .. Len(applying') : \E k \in 1 .. Len(applying) :
             applying'[j].id[w.surface] \in {applying[k].id[w.surface], TQ!NoId}
      BY <1>6, <2>1
    <2>6. Held(w)'
      <3>1. Len(applying') <= Len(applying) /\ Len(applying') \in Nat
        BY <1>6
      <3> QED
        BY <1>2, <1>3, <1>6, <2>1, <2>2, <2>5, <3>1, HeldStays
    <2> QED
      BY <2>4, <2>6
  <1>12. waits' = waits /\ \A w \in waits : StillWaits(w)' => StillWaits(w)
    BY <1>2, <1>3 DEF StillWaits
  <1>13. WaitsHeld'
    BY <1>11, <1>12 DEF WaitsHeld
  <1> QED
    BY <1>10, <1>13

\* The steps that neither commit nor apply a state.
LEMMA QuietHolds ==
    ASSUME BlockInv, UNCHANGED <<pendingTx, cache, shown, waits>>, alive' \subseteq alive,
           \A b \in Blocker : blocker'[b] = "Pending" => blocker[b] = "Pending",
           \A x \in Surface : dropped'[x] = {} => dropped[x] = {},
           \/ TQ!Scan
           \/ /\ UNCHANGED <<issued, queue>>
              /\ ready' = <<>> \/ ready' = ready
              /\ applying' = applying \/ (applying # <<>> /\ applying' = Tail(applying))
    PROVE  WaitsHeld'
  <1>1. ParkInv /\ CacheTyped /\ WaitsHeld
    BY DEF BlockInv, CacheInv
  <1> SUFFICES ASSUME NEW w \in waits, StillWaits(w)' PROVE shown[w.surface] < w.upto /\ Held(w)'
    BY DEF WaitsHeld
  <1>2. w.surface \in Surface /\ w.blocker \in Blocker /\ \A n \in LateIds(w) : n \in Nat
    BY <1>1, WaitFields, LateIdsNat
  <1>3. StillWaits(w)
    BY <1>2 DEF StillWaits
  <1>4. shown[w.surface] < w.upto /\ Held(w)
    BY <1>1, <1>3 DEF WaitsHeld
  <1>5. CASE TQ!Scan
    BY <1>3, <1>4, <1>5, HeldScan
  <1>6. CASE /\ UNCHANGED <<issued, queue>>
             /\ ready' = <<>> \/ ready' = ready
             /\ applying' = applying \/ (applying # <<>> /\ applying' = Tail(applying))
    <2>1. applying \in Seq(TQ!Transaction)
      BY <1>1, <1>2, QueueIds
    <2>2. /\ Len(applying) \in Nat /\ Len(applying') \in Nat /\ Len(applying') <= Len(applying)
          /\ \A j \in 1 .. Len(applying') :
                \E k \in 1 .. Len(applying) : applying'[j] = applying[k]
      <3>1. CASE applying' = applying
        BY <2>1, <3>1
      <3>2. CASE applying # <<>> /\ applying' = Tail(applying)
        <4>1. Len(applying) \in Nat /\ Len(applying') = Len(applying) - 1
              /\ \A j \in 1 .. Len(applying') : applying'[j] = applying[j + 1]
          BY <2>1, <3>2
        <4>2. Len(applying) > 0
          BY <2>1, <3>2
        <4>3. \A j \in 1 .. Len(applying') : j + 1 \in 1 .. Len(applying)
          BY <4>1
        <4> QED
          BY <4>1, <4>2, <4>3
      <3> QED
        BY <1>6, <3>1, <3>2
    <2>3. Len(ready') = 0 \/ ready' = ready
      BY <1>6
    <2>4. LateIds(w)' \subseteq LateIds(w)
      BY DEF LateIds
    <2>5. \A j \in 1 .. Len(applying') : \E k \in 1 .. Len(applying) :
             applying'[j].id[w.surface] \in {applying[k].id[w.surface], TQ!NoId}
      BY <2>2
    <2>6. Held(w)'
      BY <1>2, <1>4, <1>6, <2>2, <2>3, <2>4, <2>5, HeldStays
    <2> QED
      BY <1>4, <2>6
  <1> QED
    BY <1>5, <1>6

\* Every step of the composed system keeps waiting states hidden.
LEMMA BlockStep ==
    ASSUME Orderly = TRUE, BlockInv, [SyncNext]_allVars
    PROVE  BlockInv'
  <1>1. ParkInv /\ CacheInv /\ CacheTyped /\ CacheInOrder
    BY DEF BlockInv, CacheInv
  <1>2. ParkInv'
    BY <1>1, SyncStep
  <1>3. SUFFICES CacheInv' /\ WaitsHeld'
    BY <1>2 DEF BlockInv
  \* Steps that leave the cached and the current states alone.
  <1>4. ASSUME UNCHANGED <<txid, pendingTx, edits, cache, shown, waits, commits>>,
               changes' \in 0 .. MaxChange, alive' \subseteq alive,
               \A b \in Blocker : blocker'[b] = "Pending" => blocker[b] = "Pending",
               \A x \in Surface : dropped'[x] = {} => dropped[x] = {},
               \/ TQ!Scan
               \/ /\ UNCHANGED <<issued, queue>>
                  /\ ready' = <<>> \/ ready' = ready
                  /\ applying' = applying \/ (applying # <<>> /\ applying' = Tail(applying))
        PROVE  CacheInv' /\ WaitsHeld'
    <2>1. CacheInv'
      BY <1>1, <1>4 DEF CacheInv, CacheTyped, CacheInOrder
    <2> QED
      BY <1>4, <2>1, QuietHolds
  <1>5. changes \in 0 .. MaxChange /\ MaxChange \in Nat
    BY <1>1, SyncConstants DEF CacheTyped
  <1>6. ASSUME NEW s \in Surface, Edit(s)
        PROVE  CacheInv' /\ WaitsHeld'
    <2>1. /\ edits[s] < MaxEdit /\ edits' = [edits EXCEPT ![s] = @ + 1]
          /\ UNCHANGED <<treeVars, queueVars, txid, pendingTx, cache, shown, waits,
                         commits, changes>>
      BY <1>6 DEF Edit
    <2>2. edits \in [Surface -> 0 .. MaxEdit] /\ MaxEdit \in Nat
      BY <1>1, SyncConstants DEF CacheTyped
    <2>3. edits' \in [Surface -> 0 .. MaxEdit] /\ \A x \in Surface : edits[x] <= edits'[x]
      BY <2>1, <2>2
    <2>4. ASSUME NEW x \in Surface
          PROVE  Between(cache[x], shown[x], edits'[x], txid[x])
      <3>1. /\ Between(cache[x], shown[x], edits[x], txid[x]) /\ cache[x] \in Seq(CachedType)
            /\ shown[x] \in Int /\ edits[x] \in Int /\ edits'[x] \in Int /\ edits[x] <= edits'[x]
        BY <1>1, <2>2, <2>3 DEF CacheTyped, CacheInOrder
      <3>2. \A k \in DOMAIN cache[x] : cache[x][k].upto \in Int
        BY <3>1, CachedFields
      <3> QED
        BY <3>1, <3>2 DEF Between
    <2>5. CacheInv'
      BY <1>1, <2>1, <2>3, <2>4 DEF CacheInv, CacheTyped, CacheInOrder
    <2>6. UNCHANGED <<alive, blocker, dropped, issued, queue, ready, applying>>
      BY <2>1 DEF treeVars, queueVars
    <2>7. WaitsHeld'
      BY <2>1, <2>6, QuietHolds
    <2> QED
      BY <2>5, <2>7
  <1>7. ASSUME NEW s \in Surface, SurfaceDestroyed(s)
        PROVE  CacheInv' /\ WaitsHeld'
    <2>1. /\ changes < MaxChange /\ changes' = changes + 1 /\ alive' \subseteq alive
          /\ UNCHANGED <<queueVars, txid, pendingTx, edits, cache, shown, waits, commits>>
      BY <1>7 DEF SurfaceDestroyed, DestroySurface
    <2>2. UNCHANGED <<blocker, dropped, issued, queue, ready, applying>>
      BY <2>1 DEF queueVars
    <2> QED
      BY <1>4, <1>5, <2>1, <2>2
  <1>8. ASSUME TreeChange
        PROVE  CacheInv' /\ WaitsHeld'
    <2>1. /\ changes < MaxChange /\ changes' = changes + 1 /\ alive' = alive
          /\ UNCHANGED <<queueVars, txid, pendingTx, edits, cache, shown, waits, commits>>
      BY <1>8 DEF TreeChange, GetSubsurface, SetSync, SetDesync, DestroySubsurface
    <2>2. UNCHANGED <<blocker, dropped, issued, queue, ready, applying>>
      BY <2>1 DEF queueVars
    <2> QED
      BY <1>4, <1>5, <2>1, <2>2
  <1>9. ASSUME NEW b \in Blocker, NEW st \in {"Released", "Cancelled"}, ResolveBlocker(b, st)
        PROVE  CacheInv' /\ WaitsHeld'
    <2>1. /\ blocker' = [blocker EXCEPT ![b] = st] /\ blocker[b] = "Pending"
          /\ UNCHANGED <<dropped, issued, queue, ready, applying>>
          /\ UNCHANGED <<treeVars, stateVars>>
      BY <1>9 DEF ResolveBlocker, TQ!Resolve, TQ!txVars
    <2>2. \A c \in Blocker : blocker'[c] = "Pending" => blocker[c] = "Pending"
      BY <2>1
    <2>3. UNCHANGED <<alive, txid, pendingTx, edits, cache, shown, waits, commits, changes>>
      BY <2>1 DEF treeVars, stateVars
    <2> QED
      BY <1>4, <1>5, <2>1, <2>2, <2>3
  <1>10. CASE Trigger
    <2>1. /\ UNCHANGED <<blocker, dropped, issued, queue, applying>> /\ ready' = <<>>
          /\ UNCHANGED <<treeVars, stateVars>>
      BY <1>10 DEF Trigger, TQ!BlockerCleared, TQ!StartScan
    <2>2. UNCHANGED <<alive, txid, pendingTx, edits, cache, shown, waits, commits, changes>>
      BY <2>1 DEF treeVars, stateVars
    <2> QED
      BY <1>4, <1>5, <2>1, <2>2
  <1>11. CASE ScanQueue
    <2>1. TQ!Scan /\ UNCHANGED <<treeVars, stateVars>>
      BY <1>11 DEF ScanQueue
    <2>2. UNCHANGED <<alive, txid, pendingTx, edits, cache, shown, waits, commits, changes>>
      BY <2>1 DEF treeVars, stateVars
    <2>3. /\ blocker' = blocker
          /\ \/ dropped' = dropped
             \/ dropped' = [x \in Surface |-> dropped[x] \cup ({queue[i].id[x]} \ {TQ!NoId})]
      BY <2>1 DEF TQ!Scan, TQ!ScanCancelled, TQ!ScanSkip, TQ!ScanReady, TQ!ScanDone
    <2>4. \A x \in Surface : dropped'[x] = {} => dropped[x] = {}
      BY <2>3
    <2> QED
      BY <1>4, <1>5, <2>1, <2>2, <2>3, <2>4
  <1>12. CASE TransactionDone
    <2>1. /\ UNCHANGED <<blocker, dropped, issued, queue, ready>>
          /\ applying # <<>> /\ applying' = Tail(applying)
          /\ UNCHANGED <<treeVars, stateVars>>
      BY <1>12 DEF TransactionDone, TQ!ApplyDone
    <2>2. UNCHANGED <<alive, txid, pendingTx, edits, cache, shown, waits, commits, changes>>
      BY <2>1 DEF treeVars, stateVars
    <2> QED
      BY <1>4, <1>5, <2>1, <2>2
  <1>13. CASE UNCHANGED allVars
    <2>1. UNCHANGED <<alive, txid, pendingTx, edits, cache, shown, waits, commits, changes,
                      blocker, dropped, issued, queue, ready, applying>>
      BY <1>13 DEF allVars, treeVars, queueVars, stateVars
    <2> QED
      BY <1>4, <1>5, <2>1
  <1>14. ASSUME NEW s \in Surface, NEW B \in {{}} \cup {{b} : b \in Blocker}, Commit(s, B)
         PROVE  CacheInv' /\ WaitsHeld'
    <2>1. B \in SUBSET Blocker
      OBVIOUS
    <2> QED
      BY <1>14, <2>1, CommitHolds
  <1>15. ASSUME NEW s \in Surface, ApplyState(s) PROVE CacheInv' /\ WaitsHeld'
    BY <1>15, ApplyHolds
  <1> QED
    BY <1>6, <1>7, <1>8, <1>9, <1>10, <1>11, <1>12, <1>13, <1>14, <1>15 DEF SyncNext

LEMMA BlockInitial == SyncInit => BlockInv
  <1> SUFFICES ASSUME SyncInit PROVE BlockInv
    OBVIOUS
  <1>1. /\ edits = [s \in Surface |-> 0] /\ cache = [s \in Surface |-> <<>>]
        /\ shown = [s \in Surface |-> 0] /\ waits = {} /\ commits = 0 /\ changes = 0
    BY DEF SyncInit, StateInit
  <1>2. CacheTyped
    BY <1>1, SyncConstants DEF CacheTyped
  <1>3. CacheInOrder
    <2>1. \A s \in Surface : DOMAIN cache[s] = {} /\ shown[s] = 0 /\ edits[s] = 0
      BY <1>1
    <2> QED
      BY <2>1 DEF CacheInOrder, Between
  <1> QED
    BY <1>1, <1>2, <1>3, SyncInitial DEF BlockInv, CacheInv, WaitsHeld

\* The trees, the queue, the pending transactions and the cached states keep
\* their types.
THEOREM SyncTyped ==
    ASSUME Orderly = TRUE
    PROVE  SyncSpec => []SyncTypeOK
  <1>1. BlockInv => SyncTypeOK
    <2> SUFFICES ASSUME BlockInv PROVE SyncTypeOK
      OBVIOUS
    <2>1. TreeTypeOK /\ ParkTyped /\ CacheTyped /\ TQP!TypeOK
      BY DEF BlockInv, ParkInv, TreeInv, TQP!IndInv, CacheInv
    <2>2. TQ!TypeOK
      BY <2>1 DEF TQ!TypeOK, TQP!TypeOK, TQ!Transaction, TQP!Transaction, TQ!Id, TQP!Id,
                  TQ!NoId, TQP!NoId, TQ!BlockerState, TQP!BlockerState
    <2> QED
      BY <2>1, <2>2 DEF SyncTypeOK, ParkTyped, CacheTyped
  <1>2. BlockInv /\ [SyncNext]_allVars => BlockInv'
    BY BlockStep
  <1> QED
    BY <1>1, <1>2, BlockInitial, PTL DEF SyncSpec

\* A state for which a pre-commit hook added a blocker is not shown while the
\* blocker is pending, whoever commits the surface or its ancestors in between,
\* however the commits are merged and whatever else leaves the queue; unless a
\* transaction of the surface was dropped.
THEOREM BlockersHoldBack ==
    ASSUME Orderly = TRUE
    PROVE  SyncSpec => []BlockersRespected
  <1>1. BlockInv => BlockersRespected
    BY DEF BlockInv, WaitsHeld, StillWaits, BlockersRespected
  <1>2. BlockInv /\ [SyncNext]_allVars => BlockInv'
    BY BlockStep
  <1> QED
    BY <1>1, <1>2, BlockInitial, PTL DEF SyncSpec
=============================================================================
