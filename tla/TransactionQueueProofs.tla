----------------------- MODULE TransactionQueueProofs -----------------------
(***************************************************************************)
(* Proofs about TransactionQueue for any set of surfaces and blockers and  *)
(* any bound on commit ids.                                                *)
(***************************************************************************)
EXTENDS TransactionQueue, TLAPS

(* The inductive invariant. *)

\* For each surface, commit ids grow along the queue.
QueueOrdered ==
    \A j, k \in 1 .. Len(queue) : j < k =>
        \A s \in Members(queue[j]) \cap Members(queue[k]) :
            queue[j].id[s] < queue[k].id[s]

\* No id in the queue is newer than the newest one issued.
QueueIssued ==
    \A k \in 1 .. Len(queue) : \A s \in Surface : queue[k].id[s] <= issued[s]

\* take_ready has recorded the surfaces of every transaction it left behind.
SeenCoversSkipped ==
    pc = "scan" =>
        \A k \in 1 .. Len(queue) : k < i => LiveMembers(queue[k]) \subseteq seen

\* What take_ready has handed out is older than what it left in the queue.
ReadyBeforeQueued ==
    \A r \in 1 .. Len(ready), k \in 1 .. Len(queue) :
        \A s \in LiveMembers(queue[k]) : ready[r].id[s] < queue[k].id[s]

ApplyingBeforeQueued ==
    \A r \in 1 .. Len(applying), k \in 1 .. Len(queue) :
        \A s \in LiveMembers(queue[k]) : applying[r].id[s] < queue[k].id[s]

AppliedBeforeQueued ==
    \A k \in 1 .. Len(queue) : \A s \in LiveMembers(queue[k]) :
        applied[s] < queue[k].id[s]

HandedOutIssued ==
    \A s \in Surface :
        /\ applied[s] <= issued[s]
        /\ \A r \in 1 .. Len(ready) : ready[r].id[s] <= issued[s]
        /\ \A r \in 1 .. Len(applying) : applying[r].id[s] <= issued[s]

IndInv ==
    /\ TypeOK
    /\ QueueOrdered
    /\ QueueIssued
    /\ SeenCoversSkipped
    /\ ReadyBeforeQueued
    /\ ApplyingBeforeQueued
    /\ AppliedBeforeQueued
    /\ HandedOutIssued
-----------------------------------------------------------------------------
(* Sequences of transactions. *)

\* What removing the k-th element of the queue leaves, and where.
LEMMA RemoveAtProps ==
    ASSUME NEW T, NEW q \in Seq(T), NEW k \in 1 .. Len(q)
    PROVE  /\ RemoveAt(q, k) \in Seq(T)
           /\ Len(RemoveAt(q, k)) = Len(q) - 1
           /\ \A j \in 1 .. Len(q) - 1 :
                 RemoveAt(q, k)[j] = IF j < k THEN q[j] ELSE q[j + 1]
  <1> DEFINE r == [j \in 1 .. Len(q) - 1 |-> IF j < k THEN q[j] ELSE q[j + 1]]
  <1>1. Len(q) \in Nat /\ Len(q) - 1 \in Nat
    OBVIOUS
  <1>2. \A j \in 1 .. Len(q) - 1 : r[j] \in T
    OBVIOUS
  <1>3. r \in Seq(T) /\ Len(r) = Len(q) - 1
    BY <1>1, <1>2
  <1>4. QED
    BY <1>3 DEF RemoveAt

\* Transaction::apply clears one entry of the transaction it works on.
LEMMA ClearHeadProps ==
    ASSUME NEW q \in Seq(Transaction), q # <<>>, NEW s \in Surface
    PROVE  LET r == [q EXCEPT ![1] = Without(Head(q), s)]
           IN  /\ r \in Seq(Transaction)
               /\ Len(r) = Len(q)
               /\ \A j \in 1 .. Len(q) : \A u \in Surface :
                     r[j].id[u] = q[j].id[u] \/ r[j].id[u] = NoId
               /\ \A j \in 1 .. Len(q) : \A u \in Surface :
                     j # 1 \/ u # s => r[j].id[u] = q[j].id[u]
               /\ r[1].id[s] = NoId
  <1> DEFINE h == Without(Head(q), s)
             r == [q EXCEPT ![1] = h]
  <1>1. Len(q) \in Nat /\ 1 \in 1 .. Len(q) /\ q[1] \in Transaction /\ Head(q) = q[1]
    OBVIOUS
  <1>2. q[1].id \in [Surface -> Id \cup {NoId}] /\ q[1].blockers \subseteq Blocker
    BY <1>1 DEF Transaction
  <1>3. h.id = [q[1].id EXCEPT ![s] = NoId] /\ h.blockers = q[1].blockers
    BY <1>1 DEF Without
  <1>4. h \in Transaction
    BY <1>1, <1>2 DEF Transaction, Without
  <1> HIDE DEF h
  <1>5. /\ r \in Seq(Transaction) /\ Len(r) = Len(q)
        /\ r[1] = h /\ \A j \in 1 .. Len(q) : j # 1 => r[j] = q[j]
    BY <1>1, <1>4
  <1>6. h.id[s] = NoId /\ \A u \in Surface : u # s => h.id[u] = q[1].id[u]
    BY <1>3, <1>2
  <1>7. QED
    BY <1>5, <1>6, <1>1 DEF h
-----------------------------------------------------------------------------
\* What TypeOK says of one transaction.
LEMMA TransactionType ==
    ASSUME NEW t \in Transaction
    PROVE  /\ t.id \in [Surface -> Id \cup {NoId}]
           /\ \A s \in Surface : t.id[s] \in Int
           /\ \A s \in Surface : s \in Members(t) <=> 0 <= t.id[s]
  BY BoundAssumption DEF Transaction, Id, NoId, Members

\* Larger is the maximum.
LEMMA LargerProps ==
    ASSUME NEW m \in Id \cup {NoId}, NEW n \in Id \cup {NoId}
    PROVE  /\ Larger(m, n) \in Id \cup {NoId}
           /\ m <= Larger(m, n) /\ n <= Larger(m, n)
           /\ Larger(m, n) = m \/ Larger(m, n) = n
  BY BoundAssumption DEF Larger, Id, NoId

\* The empty queue is well typed.
LEMMA TypeInit == Init => TypeOK
  <1> SUFFICES ASSUME Init PROVE TypeOK
    OBVIOUS
  <1>1. wake \in BOOLEAN
    BY DEF Init
  <1>2. /\ alive \subseteq Surface
        /\ blocker \in [Blocker -> BlockerState]
        /\ dropped \in [Surface -> SUBSET Id]
    BY DEF Init, BlockerState
  <1>3. [s \in Surface |-> NoId] \in [Surface -> Id \cup {NoId}]
    OBVIOUS
  <1>4. queue = <<>> /\ ready = <<>> /\ applying = <<>> /\ pc = "idle" /\ i = 1 /\ seen = {}
    BY DEF Init
  <1>5. /\ queue \in Seq(Transaction) /\ ready \in Seq(Transaction)
        /\ applying \in Seq(Transaction)
        /\ pc \in {"idle", "scan"} /\ i \in Nat \ {0} /\ seen \subseteq Surface
    BY <1>4
  <1>6. QED
    BY <1>1, <1>2, <1>3, <1>5 DEF Init, TypeOK

\* Every step keeps the state well typed.
LEMMA TypeStep == TypeOK /\ [Next]_vars => TypeOK'
  <1> SUFFICES ASSUME TypeOK, [Next]_vars PROVE TypeOK'
    OBVIOUS
  <1> USE DEF TypeOK
  <1>1. ASSUME NEW b \in Blocker, NEW st \in {"Released", "Cancelled"}, Resolve(b, st)
        PROVE  TypeOK'
    BY <1>1 DEF Resolve, txVars, BlockerState
  <1>2. ASSUME NEW s \in Surface, Destroy(s) PROVE TypeOK'
    BY <1>2 DEF Destroy, txVars
  <1>3. ASSUME NEW t \in Transaction, AppendTx(t) PROVE TypeOK'
    <2>1. issued' \in [Surface -> Id \cup {NoId}]
      <3>1. issued' = [s \in Surface |-> Larger(issued[s], t.id[s])]
        BY <1>3 DEF AppendTx, Enqueue
      <3>2. \A s \in Surface :
               issued[s] \in Id \cup {NoId} /\ t.id[s] \in Id \cup {NoId}
        BY TransactionType
      <3>3. \A s \in Surface : Larger(issued[s], t.id[s]) \in Id \cup {NoId}
        BY <3>2, LargerProps
      <3>4. QED
        BY <3>1, <3>3
    <2>2. QED
      BY <1>3, <2>1 DEF AppendTx, Enqueue, StartScan
  <1>4. CASE BlockerCleared
    <2>1. wake' \in BOOLEAN
      BY <1>4 DEF BlockerCleared
    <2>2. /\ pc' = "scan" /\ i' = 1 /\ seen' = {} /\ ready' = <<>>
          /\ UNCHANGED <<alive, blocker, queue, applying, applied, issued, due, dropped>>
      BY <1>4 DEF BlockerCleared, StartScan
    <2>3. QED
      BY <2>1, <2>2
  <1>5. CASE ScanCancelled
    <2>1. i \in 1 .. Len(queue) /\ queue[i] \in Transaction
      BY <1>5 DEF ScanCancelled
    <2>2. queue' \in Seq(Transaction)
      BY <1>5, <2>1, RemoveAtProps DEF ScanCancelled
    <2>3. dropped' \in [Surface -> SUBSET Id]
      BY <1>5, <2>1, TransactionType DEF ScanCancelled
    <2>4. QED
      BY <1>5, <2>2, <2>3 DEF ScanCancelled
  <1>6. CASE ScanSkip
    BY <1>6 DEF ScanSkip, LiveMembers, Members
  <1>7. CASE ScanReady
    <2>1. i \in 1 .. Len(queue) /\ queue[i] \in Transaction
      BY <1>7 DEF ScanReady
    <2>2. queue' \in Seq(Transaction)
      BY <1>7, <2>1, RemoveAtProps DEF ScanReady
    <2>3. ready' \in Seq(Transaction)
      BY <1>7, <2>1 DEF ScanReady
    <2>4. due' \in [Surface -> Id \cup {NoId}]
      BY <1>7, <2>1, LargerProps, TransactionType DEF ScanReady
    <2>5. QED
      BY <1>7, <2>2, <2>3, <2>4 DEF ScanReady
  <1>8. CASE ScanDone
    BY <1>8 DEF ScanDone, HandOut
  <1>9. ASSUME NEW s \in Surface, ApplySurface(s) PROVE TypeOK'
    <2>1. Head(applying) \in Transaction
      BY <1>9 DEF ApplySurface
    <2>2. applying' \in Seq(Transaction)
      BY <1>9, ClearHeadProps DEF ApplySurface
    <2>3. applied' \in [Surface -> Id \cup {NoId}]
      <3>1. applied' = [applied EXCEPT ![s] = Larger(applied[s], Head(applying).id[s])]
        BY <1>9 DEF ApplySurface, MergeUpTo
      <3>2. applied[s] \in Id \cup {NoId} /\ Head(applying).id[s] \in Id \cup {NoId}
        BY <2>1, TransactionType
      <3>3. Larger(applied[s], Head(applying).id[s]) \in Id \cup {NoId}
        BY <3>2, LargerProps
      <3>4. QED
        BY <3>1, <3>3
    <2>4. QED
      BY <1>9, <2>2, <2>3 DEF ApplySurface
  <1>10. CASE ApplyDone
    BY <1>10 DEF ApplyDone
  <1>11. CASE UNCHANGED vars
    BY <1>11 DEF vars, txVars
  <1>12. QED
    BY <1>1, <1>2, <1>3, <1>4, <1>5, <1>6, <1>7, <1>8, <1>9, <1>10, <1>11
       DEF Next, Scan, Apply

\* The variables keep their types in every behaviour: in particular no id
\* leaves the range the committing surfaces hand out.
THEOREM TypeCorrect == Spec => []TypeOK
  BY TypeInit, TypeStep, PTL DEF Spec, SafetySpec
-----------------------------------------------------------------------------
(* The queue never lets a waiting state through. *)

\* The empty queue satisfies the inductive invariant.
LEMMA IndInit == Init => IndInv
  <1> SUFFICES ASSUME Init PROVE IndInv
    OBVIOUS
  <1>1. TypeOK
    BY TypeInit
  <1>2. queue = <<>> /\ ready = <<>> /\ applying = <<>>
    BY DEF Init
  <1>a. applied = [s \in Surface |-> NoId] /\ issued = [s \in Surface |-> NoId]
    BY DEF Init
  <1>3. HandedOutIssued
    <2>1. 1 .. Len(ready) = {} /\ 1 .. Len(applying) = {}
      BY <1>2
    <2>2. \A s \in Surface : applied[s] = NoId /\ issued[s] = NoId
      BY <1>a
    <2>3. NoId <= NoId
      BY DEF NoId
    <2>4. QED
      BY <2>1, <2>2, <2>3, Zenon DEF HandedOutIssued
  <1>4. QED
    BY <1>1, <1>2, <1>3 DEF IndInv, QueueOrdered, QueueIssued, SeenCoversSkipped,
       ReadyBeforeQueued, ApplyingBeforeQueued, AppliedBeforeQueued

\* Removing a queued transaction keeps every fact about the ones left, and the
\* transactions before the removed one keep their places.
LEMMA RemovalKeeps ==
    ASSUME IndInv, TypeOK', NEW k \in 1 .. Len(queue), pc = "scan", k = i,
           queue' = RemoveAt(queue, k),
           UNCHANGED <<alive, pc, i, seen, applying, applied, issued>>
    PROVE  /\ QueueOrdered' /\ QueueIssued' /\ SeenCoversSkipped'
           /\ ApplyingBeforeQueued' /\ AppliedBeforeQueued'
  <1> DEFINE old(j) == IF j < k THEN j ELSE j + 1
  <1>1. TypeOK /\ Len(queue) \in Nat /\ k \in Nat
    BY DEF IndInv, TypeOK
  <1>2. /\ Len(queue') = Len(queue) - 1
        /\ \A j \in 1 .. Len(queue') : old(j) \in 1 .. Len(queue) /\ queue'[j] = queue[old(j)]
    <2>1. queue \in Seq(Transaction)
      BY <1>1 DEF TypeOK
    <2>2. /\ Len(queue') = Len(queue) - 1
          /\ \A j \in 1 .. Len(queue) - 1 :
                queue'[j] = IF j < k THEN queue[j] ELSE queue[j + 1]
      BY <2>1, RemoveAtProps
    <2>3. QED
      BY <2>2, <1>1
  <1>4. QueueOrdered'
    BY <1>1, <1>2 DEF IndInv, QueueOrdered, Members
  <1>5. QueueIssued'
    BY <1>1, <1>2 DEF IndInv, QueueIssued
  <1>6. SeenCoversSkipped'
    BY <1>1, <1>2 DEF IndInv, SeenCoversSkipped, LiveMembers, Members
  <1>7. ApplyingBeforeQueued'
    BY <1>1, <1>2 DEF IndInv, ApplyingBeforeQueued, LiveMembers, Members
  <1>8. AppliedBeforeQueued'
    BY <1>1, <1>2 DEF IndInv, AppliedBeforeQueued, LiveMembers, Members
  <1>9. QED
    BY <1>4, <1>5, <1>6, <1>7, <1>8

\* Every step of the code keeps the inductive invariant.
LEMMA IndStep == IndInv /\ [Next]_vars => IndInv'
  <1> SUFFICES ASSUME IndInv, [Next]_vars PROVE IndInv'
    OBVIOUS
  <1>t. TypeOK /\ TypeOK'
    BY TypeStep DEF IndInv
  <1> USE <1>t
  <1>1. ASSUME NEW b \in Blocker, NEW st \in {"Released", "Cancelled"}, Resolve(b, st)
        PROVE  IndInv'
    BY <1>1 DEF Resolve, txVars, IndInv, QueueOrdered, QueueIssued, SeenCoversSkipped,
       ReadyBeforeQueued, ApplyingBeforeQueued, AppliedBeforeQueued, HandedOutIssued,
       LiveMembers, Members
  <1>2. ASSUME NEW s \in Surface, Destroy(s) PROVE IndInv'
    BY <1>2 DEF Destroy, txVars, IndInv, QueueOrdered, QueueIssued, SeenCoversSkipped,
       ReadyBeforeQueued, ApplyingBeforeQueued, AppliedBeforeQueued, HandedOutIssued,
       LiveMembers, Members
  <1>3. ASSUME NEW t \in Transaction, AppendTx(t) PROVE IndInv'
    <2> DEFINE n == Len(queue)
    <2>1. /\ n \in Nat /\ Len(queue') = n + 1 /\ queue'[n + 1] = t
          /\ \A k \in 1 .. n : queue'[k] = queue[k] /\ queue[k] \in Transaction
      BY <1>3 DEF AppendTx, Enqueue, TypeOK
    <2>2. \A k \in 1 .. n + 1 : k \in 1 .. n \/ k = n + 1
      BY <2>1
    <2>3. \A s \in Surface : /\ issued[s] \in Int /\ issued'[s] \in Int
                             /\ issued[s] <= issued'[s] /\ t.id[s] <= issued'[s]
      <3> SUFFICES ASSUME NEW s \in Surface
                   PROVE  /\ issued[s] \in Int /\ issued'[s] \in Int
                          /\ issued[s] <= issued'[s] /\ t.id[s] <= issued'[s]
        OBVIOUS
      <3>1. issued[s] \in Id \cup {NoId} /\ t.id[s] \in Id \cup {NoId}
        BY TransactionType DEF TypeOK
      <3>2. issued'[s] = Larger(issued[s], t.id[s])
        BY <1>3 DEF AppendTx, Enqueue
      <3>3. Id \cup {NoId} \subseteq Int
        BY BoundAssumption DEF Id, NoId
      <3>4. QED
        BY <3>1, <3>2, <3>3, LargerProps
    <2>4. \A s \in Members(t) : s \in Surface /\ issued[s] < t.id[s]
      BY <1>3 DEF AppendTx, Enqueue, Members
    <2>5. QueueIssued'
      <3> SUFFICES ASSUME NEW k \in 1 .. n + 1, NEW s \in Surface
                   PROVE  queue'[k].id[s] <= issued'[s]
        BY <2>1 DEF QueueIssued
      <3>1. CASE k \in 1 .. n
        <4>1. queue'[k] = queue[k] /\ queue[k].id[s] \in Int
          BY <3>1, <2>1, TransactionType
        <4>2. queue[k].id[s] <= issued[s]
          BY <3>1 DEF IndInv, QueueIssued
        <4>3. QED
          BY <4>1, <4>2, <2>3
      <3>2. CASE k = n + 1
        BY <3>2, <2>1, <2>3
      <3>3. QED
        BY <3>1, <3>2, <2>2
    <2>6. QueueOrdered'
      <3> SUFFICES ASSUME NEW j \in 1 .. n + 1, NEW k \in 1 .. n + 1, j < k,
                          NEW s \in Members(queue'[j]) \cap Members(queue'[k])
                   PROVE  queue'[j].id[s] < queue'[k].id[s]
        BY <2>1 DEF QueueOrdered, Members
      <3>1. CASE k \in 1 .. n
        BY <3>1, <2>1 DEF IndInv, QueueOrdered, Members
      <3>2. CASE k = n + 1
        <4>1. j \in 1 .. n /\ s \in Surface /\ s \in Members(t)
          BY <3>2, <2>1 DEF Members
        <4>2. queue[j].id[s] <= issued[s] /\ queue[j].id[s] \in Int
          BY <4>1, <2>1, TransactionType DEF IndInv, QueueIssued
        <4>3. t.id[s] \in Int
          BY <4>1, TransactionType
        <4>4. QED
          BY <4>1, <4>2, <4>3, <3>2, <2>1, <2>3, <2>4
      <3>3. QED
        BY <3>1, <3>2, <2>2
    <2>7. HandedOutIssued'
      <3> SUFFICES ASSUME NEW s \in Surface
                   PROVE  /\ applied[s] <= issued'[s]
                          /\ \A r \in 1 .. Len(applying) : applying[r].id[s] <= issued'[s]
        BY <1>3 DEF AppendTx, Enqueue, StartScan, HandedOutIssued
      <3>1. applied[s] \in Int
        BY BoundAssumption DEF TypeOK, Id, NoId
      <3>2. \A r \in 1 .. Len(applying) : applying[r].id[s] \in Int
        BY TransactionType DEF TypeOK
      <3>3. QED
        BY <3>1, <3>2, <2>3 DEF IndInv, HandedOutIssued
    <2>8. ready' = <<>> /\ applying' = <<>> /\ i' = 1
      BY <1>3 DEF AppendTx, Enqueue, StartScan
    <2>9. AppliedBeforeQueued'
      <3> SUFFICES ASSUME NEW k \in 1 .. n + 1, NEW s \in LiveMembers(queue'[k])
                   PROVE  applied[s] < queue'[k].id[s]
        BY <1>3, <2>1 DEF AppendTx, Enqueue, AppliedBeforeQueued, LiveMembers, Members
      <3>1. CASE k \in 1 .. n
        BY <3>1, <2>1 DEF IndInv, AppliedBeforeQueued, LiveMembers, Members
      <3>2. CASE k = n + 1
        <4>1. s \in Surface /\ s \in Members(t)
          BY <3>2, <2>1 DEF LiveMembers, Members
        <4>2. applied[s] <= issued[s] /\ applied[s] \in Int /\ t.id[s] \in Int
          BY <4>1, TransactionType, BoundAssumption
             DEF IndInv, HandedOutIssued, TypeOK, Id, NoId
        <4>3. QED
          BY <4>1, <4>2, <3>2, <2>1, <2>3, <2>4
      <3>3. QED
        BY <3>1, <3>2, <2>2
    <2>10. QED
      BY <2>5, <2>6, <2>7, <2>8, <2>9, <2>1 DEF IndInv, SeenCoversSkipped,
         ReadyBeforeQueued, ApplyingBeforeQueued
  <1>4. CASE BlockerCleared
    <2>1. UNCHANGED <<alive, queue, applying, applied, issued>> /\ ready' = <<>> /\ i' = 1
      BY <1>4 DEF BlockerCleared, StartScan
    <2>2. Len(queue) \in Nat
      BY DEF TypeOK
    <2>3. QED
      BY <2>1, <2>2 DEF IndInv, QueueOrdered, QueueIssued, SeenCoversSkipped,
         ReadyBeforeQueued, ApplyingBeforeQueued, AppliedBeforeQueued, HandedOutIssued,
         LiveMembers, Members
  <1>5. CASE ScanCancelled
    <2>1. i \in 1 .. Len(queue)
      BY <1>5 DEF ScanCancelled, TypeOK
    <2>2. /\ QueueOrdered' /\ QueueIssued' /\ SeenCoversSkipped'
          /\ ApplyingBeforeQueued' /\ AppliedBeforeQueued'
      BY <1>5, <2>1, RemovalKeeps DEF ScanCancelled
    <2>3. \A j \in 1 .. Len(queue') : \E k \in 1 .. Len(queue) : queue'[j] = queue[k]
      <3>0. queue \in Seq(Transaction) /\ Len(queue) \in Nat
        BY DEF TypeOK
      <3>1. /\ Len(queue') = Len(queue) - 1
            /\ \A j \in 1 .. Len(queue) - 1 :
                  queue'[j] = IF j < i THEN queue[j] ELSE queue[j + 1]
        BY <1>5, <2>1, <3>0, RemoveAtProps DEF ScanCancelled
      <3>2. \A j \in 1 .. Len(queue) - 1 : j \in 1 .. Len(queue) /\ j + 1 \in 1 .. Len(queue)
        BY <3>0
      <3>3. QED
        BY <3>1, <3>2
    <2>4. ReadyBeforeQueued'
      BY <1>5, <2>3 DEF ScanCancelled, IndInv, ReadyBeforeQueued, LiveMembers, Members
    <2>5. HandedOutIssued'
      BY <1>5 DEF ScanCancelled, IndInv, HandedOutIssued
    <2>6. QED
      BY <2>2, <2>4, <2>5 DEF IndInv
  <1>6. CASE ScanSkip
    <2>1. UNCHANGED <<alive, queue, ready, applying, applied, issued, pc>>
      BY <1>6 DEF ScanSkip
    <2>2. SeenCoversSkipped'
      <3>1. \A k \in 1 .. Len(queue) : k < i + 1 => k < i \/ k = i
        BY DEF TypeOK
      <3>2. QED
        BY <3>1, <1>6 DEF ScanSkip, IndInv, SeenCoversSkipped, LiveMembers, Members
    <2>3. QueueOrdered' /\ QueueIssued'
      BY <2>1 DEF IndInv, QueueOrdered, QueueIssued, Members
    <2>4. ReadyBeforeQueued' /\ ApplyingBeforeQueued' /\ AppliedBeforeQueued'
      BY <2>1 DEF IndInv, ReadyBeforeQueued, ApplyingBeforeQueued, AppliedBeforeQueued,
         LiveMembers, Members
    <2>5. HandedOutIssued'
      BY <2>1 DEF IndInv, HandedOutIssued
    <2>6. QED
      BY <2>2, <2>3, <2>4, <2>5 DEF IndInv
  <1>7. CASE ScanReady
    <2>1. i \in 1 .. Len(queue) /\ queue[i] \in Transaction /\ Len(queue) \in Nat
      BY <1>7 DEF ScanReady, TypeOK
    <2>2. /\ QueueOrdered' /\ QueueIssued' /\ SeenCoversSkipped'
          /\ ApplyingBeforeQueued' /\ AppliedBeforeQueued'
      BY <1>7, <2>1, RemovalKeeps DEF ScanReady
    <2>3. \A j \in 1 .. Len(queue') :
             \E k \in 1 .. Len(queue) : k # i /\ queue'[j] = queue[k]
      <3>1. /\ Len(queue') = Len(queue) - 1
            /\ \A j \in 1 .. Len(queue) - 1 :
                  queue'[j] = IF j < i THEN queue[j] ELSE queue[j + 1]
        <4>1. queue' = RemoveAt(queue, i)
          BY <1>7 DEF ScanReady
        <4>2. queue \in Seq(Transaction)
          BY DEF TypeOK
        <4>3. QED
          BY <4>1, <4>2, <2>1, RemoveAtProps
      <3>2. \A j \in 1 .. Len(queue) - 1 :
               j \in 1 .. Len(queue) /\ j + 1 \in 1 .. Len(queue)
               /\ (j < i => j # i) /\ (~ (j < i) => j + 1 # i)
        BY <2>1
      <3>3. QED
        BY <3>1, <3>2
    <2>4. /\ Len(ready') = Len(ready) + 1 /\ Len(ready) \in Nat
          /\ ready'[Len(ready) + 1] = queue[i]
          /\ \A r \in 1 .. Len(ready) : ready'[r] = ready[r]
      BY <1>7, <2>1 DEF ScanReady, TypeOK
    <2>5. LiveMembers(queue[i]) \cap seen = {}
      BY <1>7 DEF ScanReady, MustWait
    \* Nothing left in the queue is older than the transaction taken.
    <2>6. ASSUME NEW k \in 1 .. Len(queue), k # i, NEW s \in LiveMembers(queue[k])
          PROVE  queue[i].id[s] < queue[k].id[s]
      <3>0. /\ s \in Surface /\ s \in alive /\ 0 <= queue[k].id[s]
            /\ queue[k].id[s] \in Int /\ queue[i].id[s] \in Int
        BY <2>1, TransactionType DEF LiveMembers, Members, TypeOK
      <3>1. CASE s \notin Members(queue[i])
        BY <3>0, <3>1, <2>1 DEF Members, NoId
      <3>2. CASE s \in Members(queue[i]) /\ k < i
        <4>1. s \in seen
          BY <3>2, <1>7 DEF ScanReady, IndInv, SeenCoversSkipped
        <4>2. QED
          BY <4>1, <3>0, <3>2, <2>5 DEF LiveMembers
      <3>3. CASE s \in Members(queue[i]) /\ i < k
        BY <3>0, <3>3, <2>1 DEF IndInv, QueueOrdered, LiveMembers
      <3>4. QED
        BY <3>1, <3>2, <3>3, <2>1, <2>6
    <2>7. ReadyBeforeQueued'
      <3> SUFFICES ASSUME NEW r \in 1 .. Len(ready) + 1, NEW j \in 1 .. Len(queue'),
                          NEW s \in LiveMembers(queue'[j])
                   PROVE  ready'[r].id[s] < queue'[j].id[s]
        BY <1>7, <2>4 DEF ScanReady, ReadyBeforeQueued, LiveMembers, Members
      <3>1. PICK k \in 1 .. Len(queue) : k # i /\ queue'[j] = queue[k]
        BY <2>3
      <3>2. CASE r \in 1 .. Len(ready)
        BY <3>1, <3>2, <2>4 DEF IndInv, ReadyBeforeQueued
      <3>3. CASE r = Len(ready) + 1
        BY <3>1, <3>3, <2>4, <2>6
      <3>4. QED
        BY <3>2, <3>3, <2>4
    <2>8. HandedOutIssued'
      <3> SUFFICES ASSUME NEW s \in Surface, NEW r \in 1 .. Len(ready) + 1
                   PROVE  ready'[r].id[s] <= issued[s]
        BY <1>7, <2>4 DEF ScanReady, IndInv, HandedOutIssued
      <3>1. CASE r \in 1 .. Len(ready)
        BY <3>1, <2>4 DEF IndInv, HandedOutIssued
      <3>2. CASE r = Len(ready) + 1
        BY <3>2, <2>4, <2>1 DEF IndInv, QueueIssued
      <3>3. QED
        BY <3>1, <3>2, <2>4
    <2>9. QED
      BY <2>2, <2>7, <2>8 DEF IndInv
  <1>8. CASE ScanDone
    <2>1. UNCHANGED <<alive, queue, applied, issued>> /\ ready' = <<>> /\ pc' = "idle"
      BY <1>8 DEF ScanDone, HandOut
    <2>2. \A r \in 1 .. Len(applying') :
             \/ \E k \in 1 .. Len(ready) : applying'[r] = ready[k]
             \/ \E k \in 1 .. Len(applying) : applying'[r] = applying[k]
      <3>1. /\ applying' = ready \o applying
            /\ ready \in Seq(Transaction) /\ applying \in Seq(Transaction)
        BY <1>8 DEF ScanDone, HandOut, TypeOK
      <3>2. \A r \in 1 .. Len(applying') :
               \/ r \in 1 .. Len(ready) /\ applying'[r] = ready[r]
               \/ /\ r - Len(ready) \in 1 .. Len(applying)
                  /\ applying'[r] = applying[r - Len(ready)]
        BY <3>1
      <3>3. QED
        BY <3>2
    <2>3. ApplyingBeforeQueued'
      BY <2>1, <2>2 DEF IndInv, ApplyingBeforeQueued, ReadyBeforeQueued, LiveMembers, Members
    <2>4. HandedOutIssued'
      BY <2>1, <2>2 DEF IndInv, HandedOutIssued
    <2>5. QED
      BY <2>1, <2>3, <2>4 DEF IndInv, QueueOrdered, QueueIssued, SeenCoversSkipped,
         ReadyBeforeQueued, AppliedBeforeQueued, LiveMembers, Members
  <1>9. ASSUME NEW s \in Surface, ApplySurface(s) PROVE IndInv'
    <2>1. UNCHANGED <<alive, queue, pc, ready, issued, i, seen>>
      BY <1>9 DEF ApplySurface
    <2>2. /\ applying # <<>> /\ Head(applying) = applying[1] /\ Head(applying) \in Transaction
          /\ 1 \in 1 .. Len(applying)
      BY <1>9 DEF ApplySurface, TypeOK
    <2>3. /\ Len(applying') = Len(applying)
          /\ \A j \in 1 .. Len(applying) : \A u \in Surface :
                applying'[j].id[u] = applying[j].id[u] \/ applying'[j].id[u] = NoId
      BY <1>9, <2>2, ClearHeadProps DEF ApplySurface, TypeOK
    <2>4. \A u \in Surface : applied'[u] = applied[u] \/ applied'[u] = applying[1].id[u]
      BY <1>9, <2>2 DEF ApplySurface, MergeUpTo, Larger, TypeOK
    <2>5. AppliedBeforeQueued'
      BY <2>1, <2>2, <2>4 DEF IndInv, AppliedBeforeQueued, ApplyingBeforeQueued,
         LiveMembers, Members
    <2>6. ApplyingBeforeQueued'
      <3> SUFFICES ASSUME NEW r \in 1 .. Len(applying), NEW k \in 1 .. Len(queue),
                          NEW u \in LiveMembers(queue[k])
                   PROVE  applying'[r].id[u] < queue[k].id[u]
        BY <2>1, <2>3 DEF ApplyingBeforeQueued, LiveMembers, Members
      <3>1. u \in Surface /\ 0 <= queue[k].id[u] /\ queue[k].id[u] \in Int
        BY TransactionType DEF LiveMembers, Members, TypeOK
      <3>2. QED
        BY <3>1, <2>3 DEF IndInv, ApplyingBeforeQueued, NoId
    <2>7. HandedOutIssued'
      <3> SUFFICES ASSUME NEW u \in Surface
                   PROVE  /\ applied'[u] <= issued[u]
                          /\ \A r \in 1 .. Len(applying) : applying'[r].id[u] <= issued[u]
        BY <2>1, <2>3 DEF IndInv, HandedOutIssued
      <3>1. issued[u] \in Int /\ NoId <= issued[u]
        BY BoundAssumption DEF TypeOK, Id, NoId
      <3>2. QED
        BY <3>1, <2>2, <2>3, <2>4 DEF IndInv, HandedOutIssued
    <2>8. QED
      BY <2>1, <2>5, <2>6, <2>7 DEF IndInv, QueueOrdered, QueueIssued,
         SeenCoversSkipped, ReadyBeforeQueued, LiveMembers, Members
  <1>10. CASE ApplyDone
    <2>1. UNCHANGED <<alive, queue, pc, ready, issued, i, seen, applied>>
      BY <1>10 DEF ApplyDone
    <2>2. /\ Len(applying') = Len(applying) - 1 /\ Len(applying) \in Nat
          /\ \A r \in 1 .. Len(applying') :
                r + 1 \in 1 .. Len(applying) /\ applying'[r] = applying[r + 1]
      BY <1>10 DEF ApplyDone, TypeOK
    <2>3. QueueOrdered' /\ QueueIssued'
      BY <2>1 DEF IndInv, QueueOrdered, QueueIssued, Members
    <2>4. SeenCoversSkipped'
      BY <2>1 DEF IndInv, SeenCoversSkipped, LiveMembers, Members
    <2>5. ReadyBeforeQueued' /\ AppliedBeforeQueued'
      BY <2>1 DEF IndInv, ReadyBeforeQueued, AppliedBeforeQueued, LiveMembers, Members
    <2>6. ApplyingBeforeQueued'
      BY <2>1, <2>2 DEF IndInv, ApplyingBeforeQueued, LiveMembers, Members
    <2>7. HandedOutIssued'
      BY <2>1, <2>2 DEF IndInv, HandedOutIssued
    <2>8. QED
      BY <2>3, <2>4, <2>5, <2>6, <2>7 DEF IndInv
  <1>11. CASE UNCHANGED vars
    BY <1>11 DEF vars, txVars, IndInv, QueueOrdered, QueueIssued, SeenCoversSkipped,
       ReadyBeforeQueued, ApplyingBeforeQueued, AppliedBeforeQueued, HandedOutIssued,
       LiveMembers, Members
  <1>12. QED
    BY <1>1, <1>2, <1>3, <1>4, <1>5, <1>6, <1>7, <1>8, <1>9, <1>10, <1>11
       DEF Next, Scan, Apply

\* A state that waits in the queue is not visible on any live surface: no
\* interleaving of commits, resolving blockers, nested triggers and destroyed
\* surfaces lets another transaction merge it (take_ready and apply_state).
THEOREM WaitingStatesStayHidden == Spec => []BlockedStateNotApplied
  <1>1. IndInv => BlockedStateNotApplied
    <2> SUFFICES ASSUME IndInv PROVE BlockedStateNotApplied
      OBVIOUS
    <2>1. DOMAIN queue = 1 .. Len(queue)
      BY DEF IndInv, TypeOK
    <2>2. QED
      BY <2>1 DEF IndInv, AppliedBeforeQueued, BlockedStateNotApplied
  <1>2. QED
    BY IndInit, IndStep, <1>1, PTL DEF Spec, SafetySpec
-----------------------------------------------------------------------------
(* What take_ready hands out is applied completely. *)

\* Nothing newer than what was handed out is visible or about to be.
DueBounds ==
    \A s \in Surface :
        /\ applied[s] <= due[s]
        /\ \A r \in 1 .. Len(ready) : ready[r].id[s] <= due[s]
        /\ \A r \in 1 .. Len(applying) : applying[r].id[s] <= due[s]

\* The newest id handed out for a live surface is visible or still owed.
DueOwed ==
    \A s \in alive :
        \/ applied[s] = due[s]
        \/ \E r \in 1 .. Len(ready) : ready[r].id[s] = due[s]
        \/ \E r \in 1 .. Len(applying) : applying[r].id[s] = due[s]

ReadyOnlyInScan == pc = "idle" => ready = <<>>

OwedInv == TypeOK /\ DueBounds /\ DueOwed /\ ReadyOnlyInScan

\* Nothing is owed to any surface initially.
LEMMA OwedInit == Init => OwedInv
  <1> SUFFICES ASSUME Init PROVE OwedInv
    OBVIOUS
  <1>1. 1 .. Len(ready) = {} /\ 1 .. Len(applying) = {} /\ ready = <<>>
    BY DEF Init
  <1>2. \A s \in Surface : applied[s] = NoId /\ due[s] = NoId
    BY DEF Init
  <1>3. NoId <= NoId
    BY DEF NoId
  <1>4. DueBounds
    BY <1>1, <1>2, <1>3, Zenon DEF DueBounds
  <1>5. DueOwed
    BY <1>2 DEF DueOwed, Init
  <1>6. QED
    BY <1>1, <1>4, <1>5, TypeInit DEF OwedInv, ReadyOnlyInScan

\* Every step keeps account of what is owed to the live surfaces.
LEMMA OwedStep == OwedInv /\ [Next]_vars => OwedInv'
  <1> SUFFICES ASSUME OwedInv, [Next]_vars PROVE OwedInv'
    OBVIOUS
  <1>t. TypeOK /\ TypeOK'
    BY TypeStep DEF OwedInv
  <1>n. /\ Id \cup {NoId} \subseteq Int
        /\ \A s \in Surface : applied[s] \in Id \cup {NoId} /\ due[s] \in Id \cup {NoId}
    BY <1>t, BoundAssumption DEF TypeOK, Id, NoId
  <1> USE <1>t
  <1>1. ASSUME NEW b \in Blocker, NEW st \in {"Released", "Cancelled"}, Resolve(b, st)
        PROVE  OwedInv'
    BY <1>1 DEF Resolve, txVars, OwedInv, DueBounds, DueOwed, ReadyOnlyInScan
  <1>2. ASSUME NEW s \in Surface, Destroy(s) PROVE OwedInv'
    BY <1>2 DEF Destroy, txVars, OwedInv, DueBounds, DueOwed, ReadyOnlyInScan
  <1>3. ASSUME NEW t \in Transaction, AppendTx(t) PROVE OwedInv'
    BY <1>3 DEF AppendTx, Enqueue, StartScan, OwedInv, DueBounds, DueOwed, ReadyOnlyInScan
  <1>4. CASE BlockerCleared
    <2>1. /\ UNCHANGED <<alive, applying, applied, due>>
          /\ ready = <<>> /\ ready' = <<>> /\ pc' = "scan"
      BY <1>4 DEF BlockerCleared, StartScan, OwedInv, ReadyOnlyInScan
    <2>2. QED
      BY <2>1 DEF OwedInv, DueBounds, DueOwed, ReadyOnlyInScan
  <1>5. CASE ScanCancelled
    BY <1>5 DEF ScanCancelled, OwedInv, DueBounds, DueOwed, ReadyOnlyInScan
  <1>6. CASE ScanSkip
    BY <1>6 DEF ScanSkip, OwedInv, DueBounds, DueOwed, ReadyOnlyInScan
  <1>7. CASE ScanReady
    <2>1. i \in 1 .. Len(queue) /\ queue[i] \in Transaction
      BY <1>7 DEF ScanReady, TypeOK
    <2>2. /\ Len(ready') = Len(ready) + 1 /\ Len(ready) \in Nat
          /\ ready'[Len(ready) + 1] = queue[i]
          /\ \A r \in 1 .. Len(ready) : ready'[r] = ready[r]
      BY <1>7, <2>1 DEF ScanReady, TypeOK
    <2>3. UNCHANGED <<alive, applied, applying, pc>> /\ pc = "scan"
      BY <1>7 DEF ScanReady
    <2>4. ASSUME NEW s \in Surface
          PROVE  /\ due[s] \in Int /\ due'[s] \in Int /\ applied[s] \in Int
                 /\ due[s] <= due'[s] /\ queue[i].id[s] <= due'[s]
                 /\ due'[s] = due[s] \/ due'[s] = queue[i].id[s]
      <3>1. due[s] \in Id \cup {NoId} /\ queue[i].id[s] \in Id \cup {NoId}
        BY <2>1, <1>n, TransactionType
      <3>2. due'[s] = Larger(due[s], queue[i].id[s])
        BY <1>7 DEF ScanReady
      <3>3. QED
        BY <3>1, <3>2, <1>n, LargerProps
    <2>5. \A s \in Surface : /\ \A r \in 1 .. Len(ready) : ready[r].id[s] \in Int
                             /\ \A r \in 1 .. Len(applying) : applying[r].id[s] \in Int
      BY TransactionType DEF TypeOK
    <2>6. DueBounds'
      <3> SUFFICES ASSUME NEW s \in Surface
                   PROVE  /\ applied[s] <= due'[s]
                          /\ \A r \in 1 .. Len(ready) + 1 : ready'[r].id[s] <= due'[s]
                          /\ \A r \in 1 .. Len(applying) : applying[r].id[s] <= due'[s]
        BY <2>2, <2>3 DEF DueBounds
      <3>1. \A r \in 1 .. Len(ready) : ready'[r].id[s] <= due'[s]
        BY <2>2, <2>4, <2>5 DEF OwedInv, DueBounds
      <3>2. ready'[Len(ready) + 1].id[s] <= due'[s]
        BY <2>2, <2>4
      <3>3. \A r \in 1 .. Len(ready) + 1 : r \in 1 .. Len(ready) \/ r = Len(ready) + 1
        BY <2>2
      <3>4. QED
        BY <3>1, <3>2, <3>3, <2>4, <2>5 DEF OwedInv, DueBounds
    <2>7. DueOwed'
      <3> SUFFICES ASSUME NEW s \in alive
                   PROVE  \/ applied[s] = due'[s]
                          \/ \E r \in 1 .. Len(ready) + 1 : ready'[r].id[s] = due'[s]
                          \/ \E r \in 1 .. Len(applying) : applying[r].id[s] = due'[s]
        BY <2>2, <2>3 DEF DueOwed
      <3>1. s \in Surface
        BY DEF TypeOK
      <3>2. CASE due'[s] = queue[i].id[s]
        BY <3>2, <2>2
      <3>3. CASE due'[s] = due[s]
        BY <3>3, <2>2 DEF OwedInv, DueOwed
      <3>4. QED
        BY <3>1, <3>2, <3>3, <2>4
    <2>8. QED
      BY <2>3, <2>6, <2>7 DEF OwedInv, ReadyOnlyInScan
  <1>8. CASE ScanDone
    <2>1. UNCHANGED <<alive, applied, due>> /\ ready' = <<>> /\ pc' = "idle"
      BY <1>8 DEF ScanDone, HandOut
    <2>2. /\ applying' = ready \o applying
          /\ ready \in Seq(Transaction) /\ applying \in Seq(Transaction)
      BY <1>8 DEF ScanDone, HandOut, TypeOK
    <2>3. /\ Len(ready) \in Nat /\ Len(applying) \in Nat
          /\ \A r \in 1 .. Len(applying') :
               \/ r \in 1 .. Len(ready) /\ applying'[r] = ready[r]
               \/ /\ r - Len(ready) \in 1 .. Len(applying)
                  /\ applying'[r] = applying[r - Len(ready)]
      BY <2>2
    <2>4. /\ \A r \in 1 .. Len(ready) :
                r \in 1 .. Len(applying') /\ applying'[r] = ready[r]
          /\ \A r \in 1 .. Len(applying) :
                /\ r + Len(ready) \in 1 .. Len(applying')
                /\ applying'[r + Len(ready)] = applying[r]
      BY <2>2, <2>3
    <2>5. DueBounds'
      <3> SUFFICES ASSUME NEW s \in Surface
                   PROVE  /\ applied[s] <= due[s]
                          /\ \A r \in 1 .. Len(applying') : applying'[r].id[s] <= due[s]
        BY <2>1 DEF DueBounds
      <3>1. /\ \A r \in 1 .. Len(ready) : ready[r].id[s] <= due[s]
            /\ \A r \in 1 .. Len(applying) : applying[r].id[s] <= due[s]
            /\ applied[s] <= due[s]
        BY DEF OwedInv, DueBounds
      <3>2. QED
        BY <3>1, <2>3
    <2>6. DueOwed'
      <3> SUFFICES ASSUME NEW s \in alive
                   PROVE  \/ applied[s] = due[s]
                          \/ \E r \in 1 .. Len(applying') : applying'[r].id[s] = due[s]
        BY <2>1 DEF DueOwed
      <3>1. \/ applied[s] = due[s]
            \/ \E r \in 1 .. Len(ready) : ready[r].id[s] = due[s]
            \/ \E r \in 1 .. Len(applying) : applying[r].id[s] = due[s]
        BY DEF OwedInv, DueOwed
      <3>2. ASSUME NEW r \in 1 .. Len(ready), ready[r].id[s] = due[s]
            PROVE  \E q \in 1 .. Len(applying') : applying'[q].id[s] = due[s]
        BY <3>2, <2>4, Zenon
      <3>3. ASSUME NEW r \in 1 .. Len(applying), applying[r].id[s] = due[s]
            PROVE  \E q \in 1 .. Len(applying') : applying'[q].id[s] = due[s]
        BY <3>3, <2>4, Zenon
      <3>4. QED
        BY <3>1, <3>2, <3>3, Zenon
    <2>7. QED
      BY <2>1, <2>5, <2>6 DEF OwedInv, ReadyOnlyInScan
  <1>9. ASSUME NEW s \in Surface, ApplySurface(s) PROVE OwedInv'
    <2>1. UNCHANGED <<alive, due, pc, ready>> /\ s \in alive
      BY <1>9 DEF ApplySurface, LiveMembers
    <2>2. /\ applying # <<>> /\ Head(applying) = applying[1] /\ Head(applying) \in Transaction
          /\ 1 \in 1 .. Len(applying)
      BY <1>9 DEF ApplySurface, TypeOK
    <2>3. /\ Len(applying') = Len(applying)
          /\ \A j \in 1 .. Len(applying) : \A u \in Surface :
                applying'[j].id[u] = applying[j].id[u] \/ applying'[j].id[u] = NoId
          /\ \A j \in 1 .. Len(applying) : \A u \in Surface :
                j # 1 \/ u # s => applying'[j].id[u] = applying[j].id[u]
      BY <1>9, <2>2, ClearHeadProps DEF ApplySurface, TypeOK
    <2>4. /\ applied'[s] = Larger(applied[s], applying[1].id[s])
          /\ \A u \in Surface : u # s => applied'[u] = applied[u]
      BY <1>9, <2>2 DEF ApplySurface, MergeUpTo, TypeOK
    <2>5. /\ applied[s] \in Int /\ applying[1].id[s] \in Int /\ due[s] \in Int
          /\ applied[s] <= applied'[s] /\ applying[1].id[s] <= applied'[s]
          /\ applied'[s] = applied[s] \/ applied'[s] = applying[1].id[s]
      <3>1. applied[s] \in Id \cup {NoId} /\ applying[1].id[s] \in Id \cup {NoId}
        BY <2>2, <1>n, TransactionType
      <3>2. QED
        BY <3>1, <2>4, <1>n, LargerProps
    <2>6. DueBounds'
      <3> SUFFICES ASSUME NEW u \in Surface
                   PROVE  /\ applied'[u] <= due[u]
                          /\ \A r \in 1 .. Len(ready) : ready[r].id[u] <= due[u]
                          /\ \A r \in 1 .. Len(applying) : applying'[r].id[u] <= due[u]
        BY <2>1, <2>3 DEF DueBounds
      <3>1. applied'[u] <= due[u]
        BY <2>2, <2>4, <2>5 DEF OwedInv, DueBounds
      <3>2. NoId <= due[u]
        BY <1>n, BoundAssumption DEF Id, NoId
      <3>3. QED
        BY <3>1, <3>2, <2>3 DEF OwedInv, DueBounds
    <2>7. DueOwed'
      <3> SUFFICES ASSUME NEW u \in alive
                   PROVE  \/ applied'[u] = due[u]
                          \/ \E r \in 1 .. Len(ready) : ready[r].id[u] = due[u]
                          \/ \E r \in 1 .. Len(applying) : applying'[r].id[u] = due[u]
        BY <2>1, <2>3 DEF DueOwed
      <3>1. u \in Surface
        BY DEF TypeOK
      <3>2. CASE u # s
        BY <3>1, <3>2, <2>3, <2>4 DEF OwedInv, DueOwed
      <3>3. CASE u = s
        <4>1. CASE applied[s] = due[s] \/ applying[1].id[s] = due[s]
          <5>1. applied[s] <= due[s] /\ applying[1].id[s] <= due[s]
            BY <2>2 DEF OwedInv, DueBounds
          <5>2. QED
            BY <4>1, <5>1, <3>3, <2>5
        <4>2. CASE \E r \in 1 .. Len(ready) : ready[r].id[s] = due[s]
          BY <4>2, <3>3
        <4>3. CASE \E r \in 1 .. Len(applying) : r # 1 /\ applying[r].id[s] = due[s]
          BY <4>3, <3>3, <2>3
        <4>4. QED
          BY <4>1, <4>2, <4>3, <3>3 DEF OwedInv, DueOwed
      <3>4. QED
        BY <3>2, <3>3
    <2>8. QED
      BY <2>1, <2>6, <2>7 DEF OwedInv, ReadyOnlyInScan
  <1>10. CASE ApplyDone
    <2>1. UNCHANGED <<alive, due, pc, ready, applied>>
      BY <1>10 DEF ApplyDone
    <2>2. /\ Len(applying') = Len(applying) - 1 /\ Len(applying) \in Nat
          /\ \A r \in 1 .. Len(applying') :
                r + 1 \in 1 .. Len(applying) /\ applying'[r] = applying[r + 1]
      BY <1>10 DEF ApplyDone, TypeOK
    <2>3. /\ Head(applying) = applying[1] /\ 1 \in 1 .. Len(applying)
          /\ \A s \in alive : applying[1].id[s] = NoId
      BY <1>10 DEF ApplyDone, LiveMembers, Members, TypeOK
    <2>4. DueBounds'
      BY <2>1, <2>2 DEF OwedInv, DueBounds
    <2>5. DueOwed'
      <3> SUFFICES ASSUME NEW s \in alive
                   PROVE  \/ applied[s] = due[s]
                          \/ \E r \in 1 .. Len(ready) : ready[r].id[s] = due[s]
                          \/ \E r \in 1 .. Len(applying') : applying'[r].id[s] = due[s]
        BY <2>1 DEF DueOwed
      <3>1. s \in Surface
        BY DEF TypeOK
      <3>2. CASE applying[1].id[s] = due[s]
        <4>1. due[s] = NoId /\ applied[s] <= due[s]
          BY <3>1, <3>2, <2>3 DEF OwedInv, DueBounds
        <4>2. applied[s] \in Int /\ NoId <= applied[s]
          BY <3>1, <1>n, BoundAssumption DEF Id, NoId
        <4>3. QED
          BY <4>1, <4>2 DEF NoId
      <3>3. CASE \E r \in 1 .. Len(applying) : r # 1 /\ applying[r].id[s] = due[s]
        <4>1. PICK r \in 1 .. Len(applying) : r # 1 /\ applying[r].id[s] = due[s]
          BY <3>3
        <4>2. r - 1 \in 1 .. Len(applying') /\ (r - 1) + 1 = r
          BY <4>1, <2>2
        <4>3. applying'[r - 1] = applying[r]
          BY <4>2, <2>2
        <4>4. QED
          BY <4>1, <4>2, <4>3
      <3>4. QED
        BY <3>2, <3>3 DEF OwedInv, DueOwed
    <2>6. QED
      BY <2>1, <2>4, <2>5 DEF OwedInv, ReadyOnlyInScan
  <1>11. CASE UNCHANGED vars
    BY <1>11 DEF vars, txVars, OwedInv, DueBounds, DueOwed, ReadyOnlyInScan
  <1>12. QED
    BY <1>1, <1>2, <1>3, <1>4, <1>5, <1>6, <1>7, <1>8, <1>9, <1>10, <1>11
       DEF Next, Scan, Apply

\* When the dispatch thread is done applying, the live surfaces show exactly
\* what take_ready handed out: no transaction is left half applied.
THEOREM TransactionsAreAtomic == Spec => []AllOrNothing
  <1>1. OwedInv => AllOrNothing
    <2> SUFFICES ASSUME OwedInv, pc = "idle", applying = <<>>, NEW s \in alive
                 PROVE  applied[s] = due[s]
      BY DEF AllOrNothing
    <2>1. 1 .. Len(ready) = {} /\ 1 .. Len(applying) = {}
      BY DEF OwedInv, ReadyOnlyInScan
    <2>2. QED
      BY <2>1 DEF OwedInv, DueOwed
  <1>2. QED
    BY OwedInit, OwedStep, <1>1, PTL DEF Spec, SafetySpec
-----------------------------------------------------------------------------
(* Without handlers that trigger the queue, application is in order. *)

\* Handed-out transactions are in commit order, and newer than what is shown.
ReadyInOrder ==
    \A k \in 1 .. Len(ready) : \A s \in LiveMembers(ready[k]) :
        /\ applied[s] < ready[k].id[s]
        /\ \A j \in 1 .. Len(ready) : j < k => ready[j].id[s] < ready[k].id[s]

ApplyingInOrder ==
    \A k \in 1 .. Len(applying) : \A s \in LiveMembers(applying[k]) :
        /\ applied[s] < applying[k].id[s]
        /\ \A j \in 1 .. Len(applying) : j < k => applying[j].id[s] < applying[k].id[s]

\* The queue is only scanned when nothing is left to apply.
ScanFromTop == pc = "scan" => applying = <<>>

OrderInv == ReadyInOrder /\ ApplyingInOrder /\ ScanFromTop

\* Without nested triggers every step keeps the handed-out transactions ordered.
LEMMA OrderStep ==
    ASSUME Reentrant = FALSE, IndInv, OwedInv, OrderInv, [Next]_vars
    PROVE  OrderInv'
  <1>t. TypeOK /\ TypeOK'
    BY TypeStep DEF IndInv
  <1> USE <1>t
  <1>1. ASSUME NEW b \in Blocker, NEW st \in {"Released", "Cancelled"}, Resolve(b, st)
        PROVE  OrderInv'
    BY <1>1 DEF Resolve, txVars, OrderInv, ReadyInOrder, ApplyingInOrder, ScanFromTop,
       LiveMembers, Members
  <1>2. ASSUME NEW s \in Surface, Destroy(s) PROVE OrderInv'
    BY <1>2 DEF Destroy, txVars, OrderInv, ReadyInOrder, ApplyingInOrder, ScanFromTop,
       LiveMembers, Members
  <1>3. ASSUME NEW t \in Transaction, AppendTx(t) PROVE OrderInv'
    <2>1. ready' = <<>> /\ applying' = <<>>
      BY <1>3 DEF AppendTx, Enqueue, StartScan
    <2>2. QED
      BY <2>1 DEF OrderInv, ReadyInOrder, ApplyingInOrder, ScanFromTop
  <1>4. CASE BlockerCleared
    <2>1. ready' = <<>> /\ applying' = <<>>
      BY <1>4 DEF BlockerCleared, StartScan
    <2>2. QED
      BY <2>1 DEF OrderInv, ReadyInOrder, ApplyingInOrder, ScanFromTop
  <1>5. CASE ScanCancelled
    BY <1>5 DEF ScanCancelled, OrderInv, ReadyInOrder, ApplyingInOrder, ScanFromTop,
       LiveMembers, Members
  <1>6. CASE ScanSkip
    BY <1>6 DEF ScanSkip, OrderInv, ReadyInOrder, ApplyingInOrder, ScanFromTop,
       LiveMembers, Members
  <1>7. CASE ScanReady
    <2>1. i \in 1 .. Len(queue)
      BY <1>7 DEF ScanReady, TypeOK
    <2>2. /\ Len(ready') = Len(ready) + 1 /\ Len(ready) \in Nat
          /\ ready'[Len(ready) + 1] = queue[i]
          /\ \A r \in 1 .. Len(ready) : ready'[r] = ready[r]
      BY <1>7, <2>1 DEF ScanReady, TypeOK
    <2>3. UNCHANGED <<alive, applied, applying, pc>>
      BY <1>7 DEF ScanReady
    <2>4. ReadyInOrder'
      <3> SUFFICES ASSUME NEW k \in 1 .. Len(ready) + 1, NEW s \in LiveMembers(ready'[k])
                   PROVE  /\ applied[s] < ready'[k].id[s]
                          /\ \A j \in 1 .. Len(ready) + 1 :
                                j < k => ready'[j].id[s] < ready'[k].id[s]
        BY <2>2, <2>3 DEF ReadyInOrder, LiveMembers, Members
      <3>1. CASE k \in 1 .. Len(ready)
        BY <3>1, <2>2 DEF OrderInv, ReadyInOrder
      <3>2. CASE k = Len(ready) + 1
        <4>1. s \in LiveMembers(queue[i])
          BY <3>2, <2>2
        <4>2. applied[s] < queue[i].id[s]
          BY <4>1, <2>1 DEF IndInv, AppliedBeforeQueued
        <4>3. \A j \in 1 .. Len(ready) : ready[j].id[s] < queue[i].id[s]
          BY <4>1, <2>1 DEF IndInv, ReadyBeforeQueued
        <4>4. QED
          BY <4>2, <4>3, <3>2, <2>2
      <3>3. QED
        BY <3>1, <3>2, <2>2
    <2>5. QED
      BY <2>3, <2>4 DEF OrderInv, ApplyingInOrder, ScanFromTop, LiveMembers, Members
  <1>8. CASE ScanDone
    <2>1. applying' = ready
      BY <1>8 DEF ScanDone, HandOut, OrderInv, ScanFromTop, TypeOK
    <2>2. UNCHANGED <<alive, applied>> /\ ready' = <<>> /\ pc' = "idle"
      BY <1>8 DEF ScanDone, HandOut
    <2>3. QED
      BY <2>1, <2>2 DEF OrderInv, ReadyInOrder, ApplyingInOrder, ScanFromTop,
         LiveMembers, Members
  <1>9. ASSUME NEW s \in Surface, ApplySurface(s) PROVE OrderInv'
    <2>1. UNCHANGED <<alive, pc, ready>> /\ pc = "idle"
      BY <1>9 DEF ApplySurface
    <2>2. /\ applying # <<>> /\ Head(applying) = applying[1] /\ Head(applying) \in Transaction
          /\ 1 \in 1 .. Len(applying) /\ s \in LiveMembers(applying[1])
      BY <1>9 DEF ApplySurface, TypeOK
    <2>3. /\ Len(applying') = Len(applying)
          /\ \A j \in 1 .. Len(applying) : \A u \in Surface :
                applying'[j].id[u] = applying[j].id[u] \/ applying'[j].id[u] = NoId
          /\ applying'[1].id[s] = NoId
      BY <1>9, <2>2, ClearHeadProps DEF ApplySurface, TypeOK
    <2>4. \A u \in Surface :
             applied'[u] = applied[u] \/ (u = s /\ applied'[u] = applying[1].id[u])
      BY <1>9, <2>2 DEF ApplySurface, MergeUpTo, Larger, TypeOK
    <2>5. ApplyingInOrder'
      <3> SUFFICES ASSUME NEW k \in 1 .. Len(applying), NEW u \in Surface, u \in alive,
                          applying'[k].id[u] # NoId
                   PROVE  /\ applied'[u] < applying'[k].id[u]
                          /\ \A j \in 1 .. Len(applying) :
                                j < k => applying'[j].id[u] < applying'[k].id[u]
        BY <2>1, <2>3 DEF ApplyingInOrder, LiveMembers, Members
      <3>1. applying'[k].id[u] = applying[k].id[u] /\ u \in LiveMembers(applying[k])
        BY <2>3 DEF LiveMembers, Members
      <3>2. k = 1 => u # s
        BY <2>3
      <3>3. applying[k].id[u] \in Int /\ 0 <= applying[k].id[u]
        BY <3>1, TransactionType DEF TypeOK, LiveMembers
      <3>4. applied'[u] < applying[k].id[u]
        <4>1. CASE applied'[u] = applied[u]
          BY <4>1, <3>1 DEF OrderInv, ApplyingInOrder
        <4>2. CASE u = s /\ applied'[u] = applying[1].id[u]
          <5>1. 1 < k
            BY <4>2, <3>2, <2>2
          <5>2. QED
            BY <5>1, <4>2, <3>1, <2>2 DEF OrderInv, ApplyingInOrder
        <4>3. QED
          BY <4>1, <4>2, <2>4
      <3>5. \A j \in 1 .. Len(applying) : j < k => applying'[j].id[u] < applying[k].id[u]
        BY <3>1, <3>3, <2>3 DEF OrderInv, ApplyingInOrder, NoId
      <3>6. QED
        BY <3>1, <3>4, <3>5
    <2>6. ready' = <<>>
      BY <2>1 DEF OwedInv, ReadyOnlyInScan
    <2>7. QED
      BY <2>1, <2>5, <2>6 DEF OrderInv, ReadyInOrder, ScanFromTop
  <1>10. CASE ApplyDone
    <2>1. UNCHANGED <<alive, pc, ready, applied>>
      BY <1>10 DEF ApplyDone
    <2>2. /\ Len(applying') = Len(applying) - 1 /\ Len(applying) \in Nat
          /\ \A r \in 1 .. Len(applying') :
                r + 1 \in 1 .. Len(applying) /\ applying'[r] = applying[r + 1]
      BY <1>10 DEF ApplyDone, TypeOK
    <2>3. pc' # "scan"
      BY <1>10 DEF ApplyDone
    <2>4. ApplyingInOrder'
      <3> SUFFICES ASSUME NEW k \in 1 .. Len(applying'), NEW s \in LiveMembers(applying'[k])
                   PROVE  /\ applied[s] < applying'[k].id[s]
                          /\ \A j \in 1 .. Len(applying') :
                                j < k => applying'[j].id[s] < applying'[k].id[s]
        BY <2>1 DEF ApplyingInOrder, LiveMembers, Members
      <3>1. /\ k + 1 \in 1 .. Len(applying) /\ applying'[k] = applying[k + 1]
            /\ s \in LiveMembers(applying[k + 1])
        BY <2>2
      <3>2. applied[s] < applying'[k].id[s]
        BY <3>1 DEF OrderInv, ApplyingInOrder
      <3>3. ASSUME NEW j \in 1 .. Len(applying'), j < k
            PROVE  applying'[j].id[s] < applying'[k].id[s]
        <4>1. j + 1 \in 1 .. Len(applying) /\ applying'[j] = applying[j + 1] /\ j + 1 < k + 1
          BY <2>2, <3>3
        <4>2. QED
          BY <4>1, <3>1 DEF OrderInv, ApplyingInOrder
      <3>4. QED
        BY <3>2, <3>3
    <2>5. QED
      BY <2>1, <2>3, <2>4 DEF OrderInv, ReadyInOrder, ScanFromTop, LiveMembers, Members
  <1>11. CASE UNCHANGED vars
    BY <1>11 DEF vars, txVars, OrderInv, ReadyInOrder, ApplyingInOrder, ScanFromTop,
       LiveMembers, Members
  <1>12. QED
    BY <1>1, <1>2, <1>3, <1>4, <1>5, <1>6, <1>7, <1>8, <1>9, <1>10, <1>11
       DEF Next, Scan, Apply

\* If no commit handler calls blocker_cleared, every application of a
\* transaction to a surface makes a newer state visible: states are applied in
\* commit order.  (With such handlers the property fails, as a run shows.)
THEOREM OrderWithoutReentrancy ==
    ASSUME Reentrant = FALSE
    PROVE  Spec => AppliedInOrder
  <1>1. Init => OrderInv
    <2> SUFFICES ASSUME Init PROVE OrderInv
      OBVIOUS
    <2>1. ready = <<>> /\ applying = <<>>
      BY DEF Init
    <2>2. QED
      BY <2>1 DEF OrderInv, ReadyInOrder, ApplyingInOrder, ScanFromTop
  <1>2. IndInv /\ OwedInv /\ OrderInv /\ [Next]_vars => OrderInv'
    BY OrderStep
  <1>3. IndInv /\ OrderInv => \A s \in Surface :
            ApplySurface(s) => applied[s] < Head(applying).id[s]
    <2> SUFFICES ASSUME IndInv, OrderInv, NEW s \in Surface, ApplySurface(s)
                 PROVE  applied[s] < Head(applying).id[s]
      OBVIOUS
    <2>1. /\ Head(applying) = applying[1] /\ 1 \in 1 .. Len(applying)
          /\ s \in LiveMembers(applying[1])
      BY DEF ApplySurface, IndInv, TypeOK
    <2>2. QED
      BY <2>1 DEF OrderInv, ApplyingInOrder
  <1>4. QED
    BY IndInit, IndStep, OwedInit, OwedStep, <1>1, <1>2, <1>3, PTL DEF Spec, SafetySpec, AppliedInOrder
=============================================================================
