--------------------------- MODULE EtcdLockProofs ---------------------------
(***************************************************************************)
(* What EtcdLock guarantees for every set of keys and callers.  LockInv is *)
(* the conjunction of the types, the bookkeeping of the loop (LoopInv),    *)
(* the order of the queues in etcd (QueueInv) and mutual exclusion; it is  *)
(* inductive, and the other properties follow from it.                     *)
(***************************************************************************)
EXTENDS EtcdLock, TLAPS

\* Every step of a call, of Unlock and of the environment keeps the types.
LEMMA TypeStep == TypeOK /\ [Next]_vars => TypeOK'
<1> SUFFICES ASSUME TypeOK, [Next]_vars PROVE TypeOK'
    OBVIOUS
<1> USE DEF TypeOK, PC
<1>1. ASSUME NEW s \in Sess, Call(s) PROVE TypeOK'
    BY <1>1 DEF Call, NewSession
<1>2. ASSUME NEW s \in Sess, NEW k \in Keys, TryAcquire(s, k) PROVE TypeOK'
    BY <1>2 DEF TryAcquire, Acquired
<1>3. ASSUME NEW s \in Sess, NEW k \in Keys, Undo(s, k) \/ WaitError(s, k) PROVE TypeOK'
    BY <1>3 DEF Undo, WaitError, DropKey, KeepKeys, Fail
<1>4. ASSUME NEW s \in Sess, NEW k \in Keys, WaitDone(s, k) PROVE TypeOK'
    BY <1>4 DEF WaitDone, Acquired, Fail
<1>5. ASSUME NEW s \in Sess, NEW k \in Keys, UnlockKey(s, k) PROVE TypeOK'
    BY <1>5 DEF UnlockKey, DropKey, KeepKeys
<1>6. ASSUME NEW s \in Sess, Close(s) PROVE TypeOK'
  <2>1. CASE Free(s)
    BY <2>1 DEF Free, DropLease
  <2>2. CASE pc' = [pc EXCEPT ![s] = "closed"] /\ UNCHANGED <<try, req, todo, mutexes, lease, present, ahead>>
    BY <2>2
  <2> QED
    BY <1>6, <2>1, <2>2 DEF Close
<1>7. ASSUME NEW s \in Sess, NEW k \in Keys, AcquireError(s, k) PROVE TypeOK'
    BY <1>7 DEF AcquireError, Fail
<1>8. ASSUME NEW s \in Sess, Unlock(s) \/ Crash(s) PROVE TypeOK'
    BY <1>8 DEF Unlock, Crash, KeepKeys
<1>9. ASSUME NEW s \in Sess, Expire(s) PROVE TypeOK'
    BY <1>9 DEF Expire, Free, DropLease
<1>10. ASSUME NEW s \in Sess, Lapse(s) PROVE TypeOK'
    BY <1>10 DEF Lapse
<1>11. CASE UNCHANGED vars
    BY <1>11 DEF vars
<1> QED
    BY <1>1, <1>2, <1>3, <1>4, <1>5, <1>6, <1>7, <1>8, <1>9, <1>10, <1>11
    DEF Next, Step, CtxOrNetError

\* Every step keeps the bookkeeping of the loop of lockBatch: what a session has
\* put in etcd is what it acquired plus the key it is about to get.
LEMMA LoopStep == TypeOK /\ LoopInv /\ [Next]_vars => LoopInv'
<1> SUFFICES ASSUME TypeOK, LoopInv, [Next]_vars PROVE LoopInv'
    OBVIOUS
<1>0. TypeOK'
    BY TypeStep
<1> USE KeysAssumption DEF TypeOK, PC, LoopInv, InLoop, Queued, IsNext
<1>1. ASSUME NEW s \in Sess, Call(s) PROVE LoopInv'
    BY <1>0, <1>1 DEF Call, NewSession
<1>2. ASSUME NEW s \in Sess, NEW k \in Keys, TryAcquire(s, k) PROVE LoopInv'
    BY <1>0, <1>2 DEF TryAcquire, Acquired
<1>3. ASSUME NEW s \in Sess, NEW k \in Keys, Undo(s, k) \/ WaitError(s, k) PROVE LoopInv'
    BY <1>0, <1>3 DEF Undo, WaitError, DropKey, KeepKeys, Fail
<1>4. ASSUME NEW s \in Sess, NEW k \in Keys, WaitDone(s, k) PROVE LoopInv'
    BY <1>0, <1>4 DEF WaitDone, Acquired, Fail
<1>5. ASSUME NEW s \in Sess, NEW k \in Keys, UnlockKey(s, k) PROVE LoopInv'
    BY <1>0, <1>5 DEF UnlockKey, DropKey, KeepKeys
<1>6. ASSUME NEW s \in Sess, Close(s) PROVE LoopInv'
    BY <1>0, <1>6 DEF Close, Free, DropLease
<1>7. ASSUME NEW s \in Sess, NEW k \in Keys, AcquireError(s, k) PROVE LoopInv'
    BY <1>0, <1>7 DEF AcquireError, Fail
<1>8. ASSUME NEW s \in Sess, Unlock(s) \/ Crash(s) PROVE LoopInv'
    BY <1>0, <1>8 DEF Unlock, Crash, KeepKeys
<1>9. ASSUME NEW s \in Sess, Expire(s) PROVE LoopInv'
    BY <1>0, <1>9 DEF Expire, Free, DropLease
<1>10. ASSUME NEW s \in Sess, Lapse(s) PROVE LoopInv'
    BY <1>0, <1>10 DEF Lapse
<1>11. CASE UNCHANGED vars
    BY <1>11 DEF vars
<1> QED
    BY <1>1, <1>2, <1>3, <1>4, <1>5, <1>6, <1>7, <1>8, <1>9, <1>10, <1>11
    DEF Next, Step, CtxOrNetError

\* A step in which s stops being queued, nobody else moves, and the keys of s
\* that disappear from etcd disappear from what others wait for.
Leaves(s) ==
    /\ pc'[s] \notin {"wait", "undo"}
    /\ mutexes'[s] \subseteq mutexes[s]
    /\ \A x \in Sess \ {s} :
        pc'[x] = pc[x] /\ todo'[x] = todo[x] /\ mutexes'[x] = mutexes[x]
    /\ \A j \in Keys : present'[j] \in {present[j], present[j] \ {s}}
    /\ \A x \in Sess \ {s}, j \in Keys :
        Queued(x, j) => \/ ahead'[x] = ahead[x] /\ present'[j] = present[j]
                        \/ ahead'[x] = ahead[x] \ {s} /\ present'[j] = present[j] \ {s}

\* A session that leaves a queue, by deleting its key, giving up or losing its
\* lease, leaves the order of the others as it was.
LEMMA LeavesQueueInv ==
    ASSUME TypeOK, TypeOK', QueueInv, NEW s \in Sess, Leaves(s)
    PROVE  QueueInv'
<1>1. \A x \in Sess, j \in Keys : Queued(x, j)' => x # s /\ Queued(x, j)
    BY DEF Leaves, Queued, IsNext
<1>2. \A j \in Keys : Owners(j)' \subseteq Owners(j)
    BY DEF Leaves, Owners, TypeOK
<1>3. AheadPresent'
    BY <1>1 DEF AheadPresent, QueueInv, Leaves
<1>4. QueueOrder'
  <2> SUFFICES ASSUME NEW x \in Sess, NEW q \in Sess, NEW j \in Keys,
                      Queued(x, j)', (x \in present[j])', q # x
               PROVE  /\ q \in Owners(j)' => q \in ahead'[x]
                      /\ Queued(q, j)' /\ q \in present'[j] => q \in ahead'[x] \/ x \in ahead'[q]
    BY DEF QueueOrder
  <2>1. x # s /\ Queued(x, j) /\ x \in present[j]
    BY <1>1 DEF Leaves
  <2>2. q \in Owners(j)' => q \in ahead'[x]
    BY <1>2, <2>1 DEF QueueInv, QueueOrder, Leaves, Owners
  <2>3. Queued(q, j)' /\ q \in present'[j] => q \in ahead'[x] \/ x \in ahead'[q]
    BY <1>1, <2>1 DEF QueueInv, QueueOrder, Leaves
  <2> QED
    BY <2>2, <2>3
<1>5. AheadNested'
  <2> SUFFICES ASSUME NEW x \in Sess, NEW q \in Sess, NEW j \in Keys,
                      Queued(x, j)', Queued(q, j)', q \in ahead'[x]
               PROVE  ahead'[q] \subseteq ahead'[x] \ {q}
    BY DEF AheadNested
  <2>1. x # s /\ Queued(x, j) /\ q # s /\ Queued(q, j) /\ q \in ahead[x]
    BY <1>1 DEF Leaves
  <2>2. ahead[q] \subseteq ahead[x] \ {q}
    BY <2>1 DEF QueueInv, AheadNested
  <2>3. s \notin ahead'[q] \/ ahead'[x] = ahead[x]
    BY <1>3, <2>1 DEF Leaves, QueueInv, AheadPresent
  <2> QED
    BY <2>1, <2>2, <2>3 DEF Leaves
<1> QED
    BY <1>3, <1>4, <1>5 DEF QueueInv

\* Two different keys are not both the next one.
LEMMA NextUnique ==
    ASSUME TypeOK, NEW s \in Sess, NEW j \in Keys, NEW k \in Keys, IsNext(s, j), IsNext(s, k)
    PROVE  j = k
    BY KeysAssumption DEF IsNext

\* Deleting the key of a session that is no longer queued is such a departure.
LEMMA DropKeyLeaves ==
    ASSUME TypeOK, TypeOK', NEW s \in Sess, NEW k \in Keys, DropKey(s, k),
           pc'[s] \notin {"wait", "undo"}, mutexes'[s] \subseteq mutexes[s],
           \A x \in Sess \ {s} :
               pc'[x] = pc[x] /\ todo'[x] = todo[x] /\ mutexes'[x] = mutexes[x]
    PROVE  Leaves(s)
    BY NextUnique DEF Leaves, DropKey, TypeOK, Queued

\* Every step keeps the queues of etcd in the order of their create revisions.
LEMMA QueueStep ==
    TypeOK /\ LoopInv /\ QueueInv /\ MutualExclusion /\ [Next]_vars => QueueInv'
<1> SUFFICES ASSUME TypeOK, LoopInv, QueueInv, MutualExclusion, [Next]_vars PROVE QueueInv'
    OBVIOUS
<1>0. TypeOK' /\ LoopInv'
    BY TypeStep, LoopStep
<1>1. ASSUME NEW s \in Sess, Call(s) PROVE QueueInv'
  <2> Leaves(s)
    BY <1>1 DEF Call, NewSession, Leaves, TypeOK
  <2> QED
    BY <1>0, LeavesQueueInv
<1>3. ASSUME NEW s \in Sess, NEW k \in Keys, Undo(s, k) \/ WaitError(s, k) PROVE QueueInv'
  <2> Leaves(s)
    <3>1. CASE DropKey(s, k)
      BY <1>0, <1>3, <3>1, DropKeyLeaves DEF Undo, WaitError, Fail, TypeOK
    <3>2. CASE KeepKeys(s)
      BY <1>3, <3>2 DEF Undo, WaitError, KeepKeys, Fail, Leaves, TypeOK
    <3> QED
      BY <1>3, <3>1, <3>2 DEF Undo, WaitError
  <2> QED
    BY <1>0, LeavesQueueInv
<1>5. ASSUME NEW s \in Sess, NEW k \in Keys, UnlockKey(s, k) PROVE QueueInv'
  <2> Leaves(s)
    <3>1. CASE DropKey(s, k)
      BY <1>0, <1>5, <3>1, DropKeyLeaves DEF UnlockKey, TypeOK
    <3>2. CASE KeepKeys(s)
      BY <1>5, <3>2 DEF UnlockKey, KeepKeys, Leaves, TypeOK
    <3> QED
      BY <1>5, <3>1, <3>2 DEF UnlockKey
  <2> QED
    BY <1>0, LeavesQueueInv
<1>6. ASSUME NEW s \in Sess, Close(s) PROVE QueueInv'
  <2> Leaves(s)
    <3>1. CASE Free(s)
      BY <3>1 DEF Free, DropLease, Leaves, TypeOK
    <3>2. CASE pc' = [pc EXCEPT ![s] = "closed"] /\ UNCHANGED <<try, req, todo, mutexes, lease, present, ahead>>
      BY <3>2 DEF Leaves, TypeOK
    <3> QED
      BY <1>6, <3>1, <3>2 DEF Close
  <2> QED
    BY <1>0, LeavesQueueInv
<1>8. ASSUME NEW s \in Sess, Unlock(s) \/ Crash(s) PROVE QueueInv'
  <2> Leaves(s)
    BY <1>8 DEF Unlock, Crash, KeepKeys, Leaves, TypeOK
  <2> QED
    BY <1>0, LeavesQueueInv
<1>9. ASSUME NEW s \in Sess, Expire(s) PROVE QueueInv'
  <2> Leaves(s)
    BY <1>9 DEF Expire, Free, DropLease, Leaves, TypeOK
  <2> QED
    BY <1>0, LeavesQueueInv
<1> USE KeysAssumption DEF TypeOK, PC, QueueInv, Queued, IsNext, Owners
<1>2. ASSUME NEW s \in Sess, NEW k \in Keys, TryAcquire(s, k) PROVE QueueInv'
  <2>1. k \notin mutexes[s] /\ s \notin present[k]
    BY <1>2 DEF TryAcquire, LoopInv, InLoop
  <2>2. AheadPresent'
    BY <1>0, <1>2, <2>1 DEF TryAcquire, Acquired, AheadPresent
  <2>3. QueueOrder'
    BY <1>0, <1>2, <2>1 DEF TryAcquire, Acquired, AheadPresent, QueueOrder
  <2>4. AheadNested'
    BY <1>0, <1>2, <2>1 DEF TryAcquire, Acquired, AheadPresent, AheadNested
  <2> QED
    BY <2>2, <2>3, <2>4
<1>4. ASSUME NEW s \in Sess, NEW k \in Keys, WaitDone(s, k) PROVE QueueInv'
  <2>2. AheadPresent'
    BY <1>0, <1>4 DEF WaitDone, Acquired, Fail, AheadPresent
  <2>3. QueueOrder'
    BY <1>0, <1>4 DEF WaitDone, Acquired, Fail, AheadPresent, QueueOrder
  <2>4. AheadNested'
    BY <1>0, <1>4 DEF WaitDone, Acquired, Fail, AheadPresent, AheadNested
  <2> QED
    BY <2>2, <2>3, <2>4
<1>7. ASSUME NEW s \in Sess, NEW k \in Keys, AcquireError(s, k) PROVE QueueInv'
  <2>1. k \notin mutexes[s]
    BY <1>7 DEF AcquireError, LoopInv, InLoop
  <2>2. AheadPresent'
    BY <1>0, <1>7 DEF AcquireError, Fail, AheadPresent
  <2>3. QueueOrder'
    BY <1>0, <1>7, <2>1 DEF AcquireError, Fail, AheadPresent, QueueOrder
  <2>4. AheadNested'
    BY <1>0, <1>7 DEF AcquireError, Fail, AheadPresent, AheadNested
  <2> QED
    BY <2>2, <2>3, <2>4
<1>10. ASSUME NEW s \in Sess, Lapse(s) PROVE QueueInv'
  <2>2. AheadPresent'
    BY <1>0, <1>10 DEF Lapse, AheadPresent
  <2>3. QueueOrder'
    BY <1>0, <1>10 DEF Lapse, AheadPresent, QueueOrder
  <2>4. AheadNested'
    BY <1>0, <1>10 DEF Lapse, AheadPresent, AheadNested
  <2> QED
    BY <2>2, <2>3, <2>4
<1>11. CASE UNCHANGED vars
    BY <1>11 DEF vars, AheadPresent, QueueOrder, AheadNested
<1> QED
    BY <1>1, <1>2, <1>3, <1>4, <1>5, <1>6, <1>7, <1>8, <1>9, <1>10, <1>11
    DEF Next, Step, CtxOrNetError

\* If only k changes hands and s is the only one to get it, locks still exclude.
LEMMA OneKeyChanged ==
    ASSUME MutualExclusion, NEW s \in Sess, NEW k \in Keys, Owners(k)' \subseteq {s},
           \A j \in Keys : j # k => Owners(j)' = Owners(j)
    PROVE  MutualExclusion'
    BY DEF MutualExclusion

\* Every step keeps every lock at one owner at most: a session acquires a mutex
\* only when nobody is in front of it, and an owner is in front of everybody.
LEMMA MutexStep ==
    TypeOK /\ LoopInv /\ QueueInv /\ MutualExclusion /\ [Next]_vars => MutualExclusion'
<1> SUFFICES ASSUME TypeOK, LoopInv, QueueInv, MutualExclusion, [Next]_vars
             PROVE  MutualExclusion'
    OBVIOUS
<1> USE KeysAssumption DEF TypeOK, MutualExclusion, Owners
<1>1. ASSUME NEW s \in Sess, Call(s) PROVE MutualExclusion'
    BY <1>1 DEF Call, NewSession
<1>2. ASSUME NEW s \in Sess, NEW k \in Keys, TryAcquire(s, k) PROVE MutualExclusion'
  <2>1. CASE present[k] \subseteq {s}
    <3>1. \A j \in Keys : j # k => Owners(j)' = Owners(j)
      BY <1>2, <2>1 DEF TryAcquire, Acquired
    <3>2. Owners(k)' \subseteq {s}
      BY <1>2, <2>1 DEF TryAcquire, Acquired
    <3> QED
      BY <3>1, <3>2, OneKeyChanged
  <2>2. CASE ~(present[k] \subseteq {s})
    <3>1. k \notin mutexes[s]
      BY <1>2 DEF TryAcquire, LoopInv, InLoop, IsNext
    <3> QED
      BY <1>2, <2>2, <3>1 DEF TryAcquire
  <2> QED
    BY <2>1, <2>2
<1>3. ASSUME NEW s \in Sess, NEW k \in Keys, Undo(s, k) \/ WaitError(s, k) PROVE MutualExclusion'
    BY <1>3 DEF Undo, WaitError, DropKey, KeepKeys, Fail
<1>4. ASSUME NEW s \in Sess, NEW k \in Keys, WaitDone(s, k) PROVE MutualExclusion'
  <2>1. CASE s \in present[k] /\ Acquired(s, k)
    <3>1. \A j \in Keys : j # k => Owners(j)' = Owners(j)
      BY <1>4, <2>1 DEF WaitDone, Acquired
    <3>2. Owners(k) \subseteq {s}
      BY <1>4, <2>1 DEF WaitDone, QueueInv, QueueOrder, Queued
    <3>3. Owners(k)' \subseteq {s}
      BY <1>4, <2>1, <3>2 DEF WaitDone, Acquired
    <3> QED
      BY <3>1, <3>3, OneKeyChanged
  <2>2. CASE Fail(s)
    BY <1>4, <2>2 DEF WaitDone, Fail
  <2> QED
    BY <1>4, <2>1, <2>2 DEF WaitDone
<1>5. ASSUME NEW s \in Sess, NEW k \in Keys, UnlockKey(s, k) PROVE MutualExclusion'
    BY <1>5 DEF UnlockKey, DropKey, KeepKeys
<1>6. ASSUME NEW s \in Sess, Close(s) PROVE MutualExclusion'
    BY <1>6 DEF Close, Free, DropLease
<1>7. ASSUME NEW s \in Sess, NEW k \in Keys, AcquireError(s, k) PROVE MutualExclusion'
  <2>1. k \notin mutexes[s]
    BY <1>7 DEF AcquireError, LoopInv, InLoop, IsNext
  <2> QED
    BY <1>7, <2>1 DEF AcquireError, Fail
<1>8. ASSUME NEW s \in Sess, Unlock(s) \/ Crash(s) PROVE MutualExclusion'
    BY <1>8 DEF Unlock, Crash, KeepKeys
<1>9. ASSUME NEW s \in Sess, Expire(s) PROVE MutualExclusion'
    BY <1>9 DEF Expire, Free, DropLease
<1>10. ASSUME NEW s \in Sess, Lapse(s) PROVE MutualExclusion'
    BY <1>10 DEF Lapse
<1>11. CASE UNCHANGED vars
    BY <1>11 DEF vars
<1> QED
    BY <1>1, <1>2, <1>3, <1>4, <1>5, <1>6, <1>7, <1>8, <1>9, <1>10, <1>11
    DEF Next, Step, CtxOrNetError

\* LockInv holds in every behaviour, for any keys, callers and lapsing leases.
THEOREM LockInvariant == Spec => []LockInv
<1>1. Init => LockInv
    BY DEF Init, LockInv, TypeOK, PC, LoopInv, InLoop, QueueInv, AheadPresent, QueueOrder,
           AheadNested, Queued, MutualExclusion, Owners
<1>2. LockInv /\ [Next]_vars => LockInv'
    BY TypeStep, LoopStep, QueueStep, MutexStep DEF LockInv
<1> QED
    BY <1>1, <1>2, PTL DEF Spec

\* The variables of EtcdLock always have their types.
THEOREM TypeCorrect == Spec => []TypeOK
<1>1. LockInv => TypeOK
    BY DEF LockInv
<1> QED
    BY <1>1, LockInvariant, PTL

\* No lock ever has two owners (lock.go 96-151).
THEOREM LocksExclude == Spec => []MutualExclusion
<1>1. LockInv => MutualExclusion
    BY DEF LockInv
<1> QED
    BY <1>1, LockInvariant, PTL

\* A successful lockBatch owns all its keys while its lease lives (lock.go 118-150).
THEOREM BatchesAreWhole == Spec => []BatchIsWhole
<1>1. LockInv => BatchIsWhole
  <2> SUFFICES ASSUME LockInv, NEW s \in Sess, pc[s] = "held", lease[s] = "alive",
                      NEW k \in req[s]
               PROVE  Owners(k) = {s}
    BY DEF BatchIsWhole
  <2>1. k \in Keys /\ k \in mutexes[s] /\ s \in present[k]
    BY DEF LockInv, TypeOK, LoopInv, InLoop
  <2> QED
    BY <2>1 DEF LockInv, MutualExclusion, Owners
<1> QED
    BY <1>1, LockInvariant, PTL

\* A slot that is free again has no key in etcd: rollback, Unlock and Close leak
\* nothing, whichever of their calls fail (lock.go 163-187).
THEOREM NothingIsLeftBehind == Spec => []NothingLeftBehind
<1>1. LockInv => NothingLeftBehind
    BY DEF LockInv, LoopInv, NothingLeftBehind
<1> QED
    BY <1>1, LockInvariant, PTL

\* Whoever a waiter waits for waits further up, or for the same key further in
\* front: the sort of lock.go 104 excludes deadlock between batches.
THEOREM NoCircularWait == Spec => []WaitsAscend
<1>1. LockInv => WaitsAscend
  <2> SUFFICES ASSUME LockInv, NEW s \in Sess, NEW q \in Sess, NEW k \in Keys, NEW j \in Keys,
                      pc[s] = "wait", Queued(s, k), q \in ahead[s], pc[q] = "wait", Queued(q, j)
               PROVE  k < j \/ (k = j /\ ahead[q] \subseteq ahead[s] \ {q})
    BY DEF WaitsAscend
  <2>1. q \in present[k]
    BY DEF LockInv, QueueInv, AheadPresent
  <2>2. CASE k \in mutexes[q]
    BY <2>2 DEF LockInv, LoopInv, InLoop, Queued, IsNext
  <2>3. CASE Queued(q, k)
    <3>1. j = k
      BY <2>3, NextUnique DEF Queued, LockInv
    <3> QED
      BY <3>1 DEF LockInv, QueueInv, AheadNested
  <2> QED
    BY <2>1, <2>2, <2>3 DEF LockInv, LoopInv, InLoop
<1> QED
    BY <1>1, LockInvariant, PTL

-----------------------------------------------------------------------------
(* EtcdLock implements LockService. *)

\* Giving back any part of what s owns, nothing included.
LEMMA ShrinkImplementsRelease ==
    ASSUME NEW s \in Sess, \A j \in Keys : Owners(j)' \in {Owners(j), Owners(j) \ {s}}
    PROVE  [Service!Next]_([k \in Keys |-> Owners(k)])
<1> DEFINE K == {j \in Keys : s \in Owners(j) /\ s \notin Owners(j)'}
<1>1. CASE K = {}
  <2>1. \A j \in Keys : Owners(j)' = Owners(j)
    BY <1>1
  <2> QED
    BY <2>1
<1>2. CASE K # {}
  <2>1. \A j \in Keys : Owners(j)' = IF j \in K THEN Owners(j) \ {s} ELSE Owners(j)
    OBVIOUS
  <2>2. Service!Release(s, K)
    BY <1>2, <2>1 DEF Service!Release
  <2> QED
    BY <2>2 DEF Service!Next
<1> QED
    BY <1>1, <1>2

\* The key of k is put in a queue that was empty, or reaches its front.
LEMMA GrantImplementsGrant ==
    ASSUME NEW s \in Sess, NEW k \in Keys, Owners(k) = {}, Owners(k)' = {s},
           \A j \in Keys : j # k => Owners(j)' = Owners(j)
    PROVE  [Service!Next]_([j \in Keys |-> Owners(j)])
<1>1. Service!Grant(s, k)
    BY DEF Service!Grant
<1> QED
    BY <1>1 DEF Service!Next

\* Every step of EtcdLock grants one free key, gives back keys of one owner, or
\* changes no owner.
LEMMA StepImplements ==
    LockInv /\ [Next]_vars => [Service!Next]_([k \in Keys |-> Owners(k)])
<1> SUFFICES ASSUME LockInv, [Next]_vars
             PROVE  [Service!Next]_([k \in Keys |-> Owners(k)])
    OBVIOUS
<1> DEFINE Shrinks(s) == \A j \in Keys : Owners(j)' \in {Owners(j), Owners(j) \ {s}}
<1>1. ASSUME NEW s \in Sess, Call(s) PROVE Shrinks(s)
  <2>1. \A j \in Keys : s \notin present[j]
    BY <1>1 DEF Call, NewSession, LockInv, LoopInv
  <2> QED
    BY <1>1, <2>1 DEF Call, NewSession, LockInv, TypeOK, Owners
<1>2. ASSUME NEW s \in Sess, NEW k \in Keys, TryAcquire(s, k)
      PROVE  [Service!Next]_([j \in Keys |-> Owners(j)])
  <2>1. k \notin mutexes[s] /\ s \notin present[k]
    BY <1>2, KeysAssumption DEF TryAcquire, LockInv, LoopInv, InLoop, IsNext, Queued
  <2>2. CASE present[k] \subseteq {s}
    <3>1. Owners(k) = {} /\ Owners(k)' = {s} /\ \A j \in Keys : j # k => Owners(j)' = Owners(j)
      BY <1>2, <2>1, <2>2 DEF TryAcquire, Acquired, LockInv, TypeOK, Owners
    <3> QED
      BY <3>1, GrantImplementsGrant
  <2>3. CASE ~(present[k] \subseteq {s})
    <3>1. Shrinks(s)
      BY <1>2, <2>1, <2>3 DEF TryAcquire, LockInv, TypeOK, Owners
    <3> QED
      BY <3>1, ShrinkImplementsRelease
  <2> QED
    BY <2>2, <2>3
<1>3. ASSUME NEW s \in Sess, NEW k \in Keys, Undo(s, k) \/ WaitError(s, k) PROVE Shrinks(s)
    BY <1>3 DEF Undo, WaitError, DropKey, KeepKeys, Fail, LockInv, TypeOK, Owners
<1>4. ASSUME NEW s \in Sess, NEW k \in Keys, WaitDone(s, k)
      PROVE  [Service!Next]_([j \in Keys |-> Owners(j)])
  <2>1. k \notin mutexes[s]
    BY <1>4, KeysAssumption DEF WaitDone, LockInv, LoopInv, InLoop, IsNext
  <2>2. CASE s \in present[k] /\ Acquired(s, k)
    <3>1. Owners(k) = {}
      BY <1>4, <2>1, <2>2 DEF WaitDone, LockInv, QueueInv, QueueOrder, Queued, Owners
    <3>2. Owners(k)' = {s} /\ \A j \in Keys : j # k => Owners(j)' = Owners(j)
      BY <1>4, <2>2, <3>1 DEF WaitDone, Acquired, LockInv, TypeOK, Owners
    <3> QED
      BY <3>1, <3>2, GrantImplementsGrant
  <2>3. CASE Fail(s)
    <3>1. Shrinks(s)
      BY <1>4, <2>3 DEF WaitDone, Fail, Owners
    <3> QED
      BY <3>1, ShrinkImplementsRelease
  <2> QED
    BY <1>4, <2>2, <2>3 DEF WaitDone
<1>5. ASSUME NEW s \in Sess, NEW k \in Keys, UnlockKey(s, k) PROVE Shrinks(s)
    BY <1>5 DEF UnlockKey, DropKey, KeepKeys, LockInv, TypeOK, Owners
<1>6. ASSUME NEW s \in Sess, Close(s) PROVE Shrinks(s)
  <2>1. CASE Free(s)
    BY <2>1 DEF Free, DropLease, LockInv, TypeOK, Owners
  <2>2. CASE UNCHANGED <<mutexes, present>>
    BY <2>2 DEF Owners
  <2> QED
    BY <1>6, <2>1, <2>2 DEF Close
<1>7. ASSUME NEW s \in Sess, NEW k \in Keys, AcquireError(s, k) PROVE Shrinks(s)
  <2>1. k \notin mutexes[s]
    BY <1>7, KeysAssumption DEF AcquireError, LockInv, LoopInv, InLoop, IsNext
  <2> QED
    BY <1>7, <2>1 DEF AcquireError, Fail, LockInv, TypeOK, Owners
<1>8. ASSUME NEW s \in Sess, Unlock(s) \/ Crash(s) PROVE Shrinks(s)
    BY <1>8 DEF Unlock, Crash, KeepKeys, Owners
<1>9. ASSUME NEW s \in Sess, Expire(s) PROVE Shrinks(s)
    BY <1>9 DEF Expire, Free, DropLease, LockInv, TypeOK, Owners
<1>10. ASSUME NEW s \in Sess, Lapse(s) PROVE Shrinks(s)
    BY <1>10 DEF Lapse, LockInv, TypeOK, Owners
<1>11. CASE UNCHANGED vars
  <2>1. \A j \in Keys : Owners(j)' = Owners(j)
    BY <1>11 DEF vars, Owners
  <2> QED
    BY <2>1
<1> QED
    BY <1>1, <1>2, <1>3, <1>4, <1>5, <1>6, <1>7, <1>8, <1>9, <1>10, <1>11,
       ShrinkImplementsRelease
    DEF Next, Step, CtxOrNetError

\* EtcdLock implements LockService, so CronManager may use the latter.
THEOREM Refinement == Spec => ImplementsLockService
<1>1. Init => Service!Init
    BY DEF Init, Service!Init, Owners
<1>2. LockInv /\ [Next]_vars => [Service!Next]_([k \in Keys |-> Owners(k)])
    BY StepImplements
<1> QED
    BY <1>1, <1>2, LockInvariant, PTL DEF Spec, ImplementsLockService, Service!Spec

\* A lock becomes free before it changes its owner, and only by its owner's
\* Unlock, crash or lapsed lease (lock.go 163-178).
THEOREM OwnersReleaseOnly == Spec => OnlyOwnerReleases
<1> DEFINE Rel(s, k) == s \in Owners(k) /\ s \notin Owners(k)' =>
                            /\ Owners(k)' = {}
                            /\ pc[s] \in {"unlock", "crashed"} \/ lease'[s] = "gone"
           Act == \A s \in Sess, k \in Keys : Rel(s, k)
<1>1. LockInv /\ [Next]_vars => [Act]_vars
  <2> SUFFICES ASSUME LockInv, Next, NEW s \in Sess, NEW k \in Keys,
                      s \in Owners(k), s \notin Owners(k)'
               PROVE  /\ Owners(k)' = {}
                      /\ pc[s] \in {"unlock", "crashed"} \/ lease'[s] = "gone"
    OBVIOUS
  <2>1. Owners(k) = {s}
    BY DEF LockInv, MutualExclusion, Owners
  <2>2. Owners(k)' = {}
    <3>1. [Service!Next]_([j \in Keys |-> Owners(j)])
      BY StepImplements
    <3>2. Owners(k)' # Owners(k)
      OBVIOUS
    <3> DEFINE own == [j \in Keys |-> Owners(j)]
    <3>3. own[k] = Owners(k) /\ own'[k] = Owners(k)'
      OBVIOUS
    <3>4. ASSUME NEW t \in Sess, NEW j \in Keys, Service!Grant(t, j) PROVE Owners(k)' = {}
      BY <2>1, <3>2, <3>3, <3>4 DEF Service!Grant
    <3>5. ASSUME NEW t \in Sess, NEW K \in SUBSET Keys, Service!Release(t, K) PROVE Owners(k)' = {}
      BY <2>1, <3>2, <3>3, <3>5 DEF Service!Release
    <3> QED
      BY <3>1, <3>2, <3>3, <3>4, <3>5 DEF Service!Next
  <2>3. pc[s] \in {"unlock", "crashed"} \/ lease'[s] = "gone"
    <3> SUFFICES ASSUME pc[s] \notin {"unlock", "crashed"} PROVE lease'[s] = "gone"
      OBVIOUS
    <3>0. s \in present[k] /\ k \in mutexes[s] /\ InLoop(s)
      BY DEF Owners, LockInv, TypeOK, PC, LoopInv, InLoop
    <3> USE DEF LockInv, TypeOK, Owners
    <3>1. ASSUME NEW t \in Sess, Call(t) PROVE FALSE
      BY <3>0, <3>1 DEF Call, NewSession, LoopInv, InLoop
    <3>2. ASSUME NEW t \in Sess, NEW j \in Keys, TryAcquire(t, j) PROVE FALSE
      BY <3>0, <3>2 DEF TryAcquire, Acquired
    <3>3. ASSUME NEW t \in Sess, NEW j \in Keys, Undo(t, j) \/ WaitError(t, j) PROVE FALSE
      BY <3>0, <3>3, KeysAssumption
      DEF Undo, WaitError, DropKey, KeepKeys, Fail, LoopInv, InLoop, IsNext
    <3>4. ASSUME NEW t \in Sess, NEW j \in Keys, WaitDone(t, j) PROVE FALSE
      BY <3>0, <3>4 DEF WaitDone, Acquired, Fail
    <3>5. ASSUME NEW t \in Sess, NEW j \in Keys, UnlockKey(t, j) PROVE FALSE
      BY <3>0, <3>5 DEF UnlockKey, DropKey, KeepKeys, InLoop
    <3>6. ASSUME NEW t \in Sess, Close(t) PROVE FALSE
      BY <3>0, <3>6 DEF Close, Free, DropLease, InLoop
    <3>7. ASSUME NEW t \in Sess, NEW j \in Keys, AcquireError(t, j) PROVE FALSE
      BY <3>0, <3>7 DEF AcquireError, Fail
    <3>8. ASSUME NEW t \in Sess, Unlock(t) \/ Crash(t) PROVE FALSE
      BY <3>0, <3>8 DEF Unlock, Crash, KeepKeys
    <3>9. ASSUME NEW t \in Sess, Expire(t) PROVE FALSE
      BY <3>0, <3>9 DEF Expire, Free, DropLease, InLoop
    <3>10. ASSUME NEW t \in Sess, Lapse(t) PROVE lease'[s] = "gone"
      BY <3>0, <3>10 DEF Lapse
    <3> QED
      BY <3>1, <3>2, <3>3, <3>4, <3>5, <3>6, <3>7, <3>8, <3>9, <3>10
      DEF Next, Step, CtxOrNetError
  <2> QED
    BY <2>2, <2>3
<1> QED
    BY <1>1, LockInvariant, PTL DEF Spec, OnlyOwnerReleases
=============================================================================
