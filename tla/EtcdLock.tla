------------------------------ MODULE EtcdLock ------------------------------
(***************************************************************************)
(* pkg/etcd/lock.go: Locker.lockBatch, LockResult.Unlock and rollback, on  *)
(* top of the etcd client's concurrency.Session and concurrency.Mutex.     *)
(*                                                                         *)
(* A member of Sess is a slot for one LockResult: the goroutine that calls *)
(* lockBatch, the session (lease) the call creates, and the caller that    *)
(* later unlocks it.  A slot is free again once its lease is gone.  Every  *)
(* round trip to etcd is a step, so that calls, cancellations, crashes and *)
(* lease expiry interleave between any two of them.                        *)
(*                                                                         *)
(* etcd keeps, per lock path, one key per session ordered by its create    *)
(* revision.  Only that order matters, so the store is the set of sessions *)
(* that have a key (present) and, for a session that found others there    *)
(* when it put its own, the ones still in front of it (ahead).  The keys   *)
(* of one batch are a set: a repeated key is re-entrant for its session.   *)
(***************************************************************************)
EXTENDS Integers, FiniteSets

CONSTANTS Keys,       \* lock paths; their order stands for sort.Strings
          Sess,       \* slots for LockResults, in any process
          Lapsing     \* slots whose keepalive may be cut off for longer than the TTL

ASSUME KeysAssumption    == Keys \subseteq Int
ASSUME LapsingAssumption == Lapsing \subseteq Sess

VARIABLES
    pc,        \* where the slot's goroutine is
    try,       \* the call is TryLock / TryLockBatch
    req,       \* keys of the call
    todo,      \* keys lockBatch has still to acquire
    mutexes,   \* keys acquired and not yet unlocked (LockResult.mutexes)
    lease,     \* the session's lease: "none", "alive" or "gone"
    present,   \* present[k]: sessions that have a key under k in etcd
    ahead      \* ahead[s]: sessions whose key under k is older than s's

vars == <<pc, try, req, todo, mutexes, lease, present, ahead>>

PC == {"idle", "acquire", "undo", "wait", "held", "unlock", "closed", "crashed"}

-----------------------------------------------------------------------------
(* Helpers *)

\* (Mutation: the batch is acquired in the order the caller gave.)
IsNextUnsorted(s, k) == k \in todo[s]

\* sorted[i]: the batch is acquired in ascending order of the keys.
IsNext(s, k) == k \in todo[s] /\ \A j \in todo[s] : k =< j

\* Unlock walks the acquired mutexes backwards.
IsLast(s, k) == k \in mutexes[s] /\ \A j \in mutexes[s] : j =< k

\* The slot has put its key under k, behind other sessions.
Queued(s, k) == pc[s] \in {"wait", "undo"} /\ IsNext(s, k)

\* etcd deletes the key of s under k; whoever waits behind it notices.
DropKey(s, k) ==
    /\ present' = [present EXCEPT ![k] = @ \ {s}]
    /\ ahead' = [q \in Sess |->
                    IF q = s THEN {}
                    ELSE IF Queued(q, k) THEN ahead[q] \ {s} ELSE ahead[q]]

\* etcd deletes every key bound to the lease of s.
DropLease(s) ==
    /\ present' = [k \in Keys |-> present[k] \ {s}]
    /\ ahead' = [q \in Sess |-> IF q = s THEN {} ELSE ahead[q] \ {s}]

\* (Mutation: the keys are not bound to the session's lease.)
FreeWithoutRevoke(s) ==
    /\ pc' = [pc EXCEPT ![s] = "idle"]
    /\ try' = [try EXCEPT ![s] = FALSE]
    /\ req' = [req EXCEPT ![s] = {}]
    /\ todo' = [todo EXCEPT ![s] = {}]
    /\ mutexes' = [mutexes EXCEPT ![s] = {}]
    /\ lease' = [lease EXCEPT ![s] = "none"]
    /\ UNCHANGED <<present, ahead>>

\* The slot is free: the locals of the call and the session are gone.
Free(s) ==
    /\ pc' = [pc EXCEPT ![s] = "idle"]
    /\ try' = [try EXCEPT ![s] = FALSE]
    /\ req' = [req EXCEPT ![s] = {}]
    /\ todo' = [todo EXCEPT ![s] = {}]
    /\ mutexes' = [mutexes EXCEPT ![s] = {}]
    /\ lease' = [lease EXCEPT ![s] = "none"]
    /\ DropLease(s)

\* The client gives up on what it waits for; its key, if any, stays in etcd.
KeepKeys(s) ==
    /\ ahead' = [ahead EXCEPT ![s] = {}]
    /\ UNCHANGED present

Init ==
    /\ pc = [s \in Sess |-> "idle"]
    /\ try = [s \in Sess |-> FALSE]
    /\ req = [s \in Sess |-> {}]
    /\ todo = [s \in Sess |-> {}]
    /\ mutexes = [s \in Sess |-> {}]
    /\ lease = [s \in Sess |-> "none"]
    /\ present = [k \in Keys |-> {}]
    /\ ahead = [s \in Sess |-> {}]

-----------------------------------------------------------------------------
(* lockBatch *)

\* lockBatch creates the session and starts on the sorted keys.  A call that
\* returns before this point (no keys, NewSession failed) changes nothing.
NewSession(s, K, t) ==
    /\ pc[s] = "idle"
    /\ K # {}
    /\ pc' = [pc EXCEPT ![s] = "acquire"]
    /\ try' = [try EXCEPT ![s] = t]
    /\ req' = [req EXCEPT ![s] = K]
    /\ todo' = [todo EXCEPT ![s] = K]
    /\ mutexes' = [mutexes EXCEPT ![s] = {}]
    /\ lease' = [lease EXCEPT ![s] = "alive"]
    /\ UNCHANGED <<present, ahead>>

\* The mutex of k is acquired; after the last one lockBatch returns the result.
Acquired(s, k) ==
    /\ mutexes' = [mutexes EXCEPT ![s] = @ \cup {k}]
    /\ todo' = [todo EXCEPT ![s] = @ \ {k}]
    /\ pc' = [pc EXCEPT ![s] = IF todo[s] = {k} THEN "held" ELSE "acquire"]

\* (Mutation: ErrLocked of TryLock is taken for success.)
TryAcquireIgnoresLocked(s, k) ==
    /\ pc[s] = "acquire"
    /\ IsNext(s, k)
    /\ lease[s] = "alive"
    /\ present' = [present EXCEPT ![k] = @ \cup {s}]
    /\ Acquired(s, k)
    /\ UNCHANGED <<try, req, lease, ahead>>

\* mutex.tryAcquire: one transaction puts the key of s and reads the oldest
\* key under k.  Another session's key there means TryLock takes its own key
\* back and Lock waits.
TryAcquire(s, k) ==
    /\ pc[s] = "acquire"
    /\ IsNext(s, k)
    /\ lease[s] = "alive"
    /\ present' = [present EXCEPT ![k] = @ \cup {s}]
    /\ \/ /\ present[k] \subseteq {s}
          /\ Acquired(s, k)
          /\ UNCHANGED ahead
       \/ /\ ~(present[k] \subseteq {s})
          /\ ahead' = [ahead EXCEPT ![s] = present[k] \ {s}]
          /\ pc' = [pc EXCEPT ![s] = IF try[s] THEN "undo" ELSE "wait"]
          /\ UNCHANGED <<todo, mutexes>>
    /\ UNCHANGED <<try, req, lease>>

\* lockBatch leaves the loop with an error and rolls back what it acquired.
Fail(s) ==
    /\ pc' = [pc EXCEPT ![s] = "unlock"]
    /\ UNCHANGED <<try, req, todo, mutexes, lease>>

\* (Mutation: the loop goes on with the next key after an error.)
AcquireErrorContinues(s, k) ==
    /\ pc[s] = "acquire"
    /\ IsNext(s, k)
    /\ todo' = [todo EXCEPT ![s] = @ \ {k}]
    /\ pc' = [pc EXCEPT ![s] = IF todo[s] = {k} THEN "held" ELSE "acquire"]
    /\ UNCHANGED <<try, req, mutexes, lease, present, ahead>>

\* The transaction fails at the client: the context ended, etcd is out of
\* reach, or the lease is gone.  Without an answer the client cannot know
\* whether etcd has put the key.
AcquireError(s, k) ==
    /\ pc[s] = "acquire"
    /\ IsNext(s, k)
    /\ Fail(s)
    /\ \/ UNCHANGED present
       \/ lease[s] = "alive" /\ present' = [present EXCEPT ![k] = @ \cup {s}]
    /\ UNCHANGED ahead

\* (Mutation: the whole prefix of the lock is deleted.)
UndoDeletesAll(s, k) ==
    /\ pc[s] = "undo"
    /\ IsNext(s, k)
    /\ present' = [present EXCEPT ![k] = {}]
    /\ ahead' = [ahead EXCEPT ![s] = {}]
    /\ Fail(s)

\* TryLock found the lock taken and deletes the key it has just put; if the
\* delete fails the key stays.
Undo(s, k) ==
    /\ pc[s] = "undo"
    /\ IsNext(s, k)
    /\ DropKey(s, k) \/ KeepKeys(s)
    /\ Fail(s)

\* mutex.Lock: waitDeletes has seen every older key go, and the key of s is
\* read again: it may have gone with the lease meanwhile (ErrSessionExpired).
WaitDone(s, k) ==
    /\ pc[s] = "wait"
    /\ IsNext(s, k)
    /\ ahead[s] = {}
    /\ \/ /\ s \in present[k]
          /\ Acquired(s, k)
          /\ UNCHANGED <<try, req, lease>>
       \/ /\ s \notin present[k]
          /\ Fail(s)
    /\ UNCHANGED <<present, ahead>>

\* (Mutation: the error of mutex.Lock is dropped.)
WaitErrorIgnored(s, k) ==
    /\ pc[s] = "wait"
    /\ IsNext(s, k)
    /\ Acquired(s, k)
    /\ UNCHANGED <<try, req, lease, present, ahead>>

\* The context of a waiting Lock ends; mutex.Lock deletes its own key with the
\* client's context, ignoring a failure, and returns the context's error.
WaitError(s, k) ==
    /\ pc[s] = "wait"
    /\ IsNext(s, k)
    /\ DropKey(s, k) \/ KeepKeys(s)
    /\ Fail(s)

-----------------------------------------------------------------------------
(* LockResult.Unlock, rollback and session.Close *)

\* The caller of a successful lockBatch unlocks; the CAS on done makes every
\* later call return at once, so it is no step of this slot.
Unlock(s) ==
    /\ pc[s] = "held"
    /\ pc' = [pc EXCEPT ![s] = "unlock"]
    /\ UNCHANGED <<try, req, todo, mutexes, lease, present, ahead>>

\* The loop of Unlock: delete the key of the last mutex left.  The delete may
\* fail (the job's context is often already cancelled); the loop goes on.
UnlockKey(s, k) ==
    /\ pc[s] = "unlock"
    /\ IsLast(s, k)
    /\ mutexes' = [mutexes EXCEPT ![s] = @ \ {k}]
    /\ DropKey(s, k) \/ KeepKeys(s)
    /\ UNCHANGED <<pc, try, req, todo, lease>>

\* session.Close after the loop, or at once when rollback finds no mutex: the
\* keepalive stops and the lease is revoked with the client's own context, so
\* a cancelled job context does not matter; if etcd is out of reach the lease
\* stays until its TTL.
Close(s) ==
    /\ pc[s] = "unlock"
    /\ mutexes[s] = {}
    /\ \/ Free(s)
       \/ /\ lease[s] = "alive"
          /\ pc' = [pc EXCEPT ![s] = "closed"]
          /\ UNCHANGED <<try, req, todo, mutexes, lease, present, ahead>>

-----------------------------------------------------------------------------
(* The environment *)

\* The process dies with the call or the lock in any state.
Crash(s) ==
    /\ pc[s] \in PC \ {"idle", "closed", "crashed"}
    /\ pc' = [pc EXCEPT ![s] = "crashed"]
    /\ KeepKeys(s)
    /\ UNCHANGED <<try, req, todo, mutexes, lease>>

\* Nobody keeps the lease alive any more and its TTL runs out: etcd deletes
\* all keys of the session at once, and the slot can be used again.
Expire(s) ==
    /\ pc[s] \in {"closed", "crashed"}
    /\ Free(s)

\* The keepalive of a live session is cut off (partition, stalled process)
\* for longer than the TTL.  Nothing in lock.go watches session.Done, so the
\* goroutine goes on as if nothing had happened.
Lapse(s) ==
    /\ s \in Lapsing
    /\ lease[s] = "alive"
    /\ pc[s] \in PC \ {"idle", "closed", "crashed"}
    /\ lease' = [lease EXCEPT ![s] = "gone"]
    /\ present' = [k \in Keys |-> present[k] \ {s}]
    /\ ahead' = [q \in Sess |-> ahead[q] \ {s}]
    /\ UNCHANGED <<pc, try, req, todo, mutexes>>

-----------------------------------------------------------------------------

\* Steps lockBatch and Unlock take by themselves.
Step(s) ==
    \/ \E k \in Keys :
        \/ TryAcquire(s, k)
        \/ Undo(s, k)
        \/ WaitDone(s, k)
        \/ UnlockKey(s, k)
    \/ Close(s)

Call(s) ==
    \E K \in SUBSET Keys, t \in BOOLEAN : NewSession(s, K, t)

CtxOrNetError(s) == \E k \in Keys : AcquireError(s, k) \/ WaitError(s, k)

Next ==
    \E s \in Sess :
        \/ Call(s)
        \/ Step(s)
        \/ CtxOrNetError(s)
        \/ Unlock(s)
        \/ Crash(s)
        \/ Expire(s)
        \/ Lapse(s)

Spec == Init /\ [][Next]_vars

\* Goroutines run, a holder unlocks some day, and a lease nobody renews ends.
\* Nothing forces a call, an error, a crash or a lapse to happen.
Fairness ==
    \A s \in Sess :
        /\ WF_vars(Step(s) \/ \E k \in Keys : AcquireError(s, k) /\ lease[s] = "gone")
        /\ WF_vars(Unlock(s))
        /\ WF_vars(Expire(s))

FairSpec == Spec /\ Fairness

-----------------------------------------------------------------------------
(* Properties *)

\* Everything has its type.
TypeOK ==
    /\ pc \in [Sess -> PC]
    /\ try \in [Sess -> BOOLEAN]
    /\ req \in [Sess -> SUBSET Keys]
    /\ todo \in [Sess -> SUBSET Keys]
    /\ mutexes \in [Sess -> SUBSET Keys]
    /\ lease \in [Sess -> {"none", "alive", "gone"}]
    /\ present \in [Keys -> SUBSET Sess]
    /\ ahead \in [Sess -> SUBSET Sess]

\* The sessions that own k: they acquired its mutex and etcd still has their key.
Owners(k) == {s \in Sess : k \in mutexes[s] /\ s \in present[k]}

\* A lock never has two owners, whatever crashes, cancelled contexts, lost
\* answers and lapsed leases do in between (lock.go 96-151: the mutex is taken
\* before lockBatch returns it, and only the owner's steps give it back).
MutualExclusion == \A k \in Keys : \A s, t \in Owners(k) : s = t

\* A successful call owns every key of its batch until it unlocks or
\* its lease lapses (lock.go 118-150: one failure and nothing is kept).
BatchIsWhole ==
    \A s \in Sess :
        pc[s] = "held" /\ lease[s] = "alive" => \A k \in req[s] : Owners(k) = {s}

\* A slot that is free again left no key in etcd: no path through rollback,
\* Unlock, a delete that failed or a put whose answer was lost leaks a lock
\* once the session is closed or has expired (lock.go 163-187).
NothingLeftBehind ==
    \A s \in Sess : pc[s] = "idle" => \A k \in Keys : s \notin present[k]

\* Waiting always goes up: whoever stands in front of a waiter and waits
\* itself waits for a greater key, or for the same key with strictly fewer
\* sessions in front.  Hence no circle of LockBatch calls waits for itself
\* (lock.go 86: "keys 按字典序排序后依次加锁防止死锁").
WaitsAscend ==
    \A s, q \in Sess : \A k, j \in Keys :
        /\ pc[s] = "wait" /\ Queued(s, k)
        /\ q \in ahead[s]
        /\ pc[q] = "wait" /\ Queued(q, j)
        => \/ k < j
           \/ k = j /\ ahead[q] \subseteq ahead[s] \ {q}

\* No step hands a lock from one owner to another one, and a key in use goes
\* away only by its owner's Unlock, its crash or the end of its lease
\* (lock.go 163-178; two LockResults never release each other's keys).
OnlyOwnerReleases ==
    [][\A s \in Sess, k \in Keys :
        s \in Owners(k) /\ s \notin Owners(k)' =>
            /\ Owners(k)' = {}
            /\ pc[s] \in {"unlock", "crashed"} \/ lease'[s] = "gone"]_vars

\* The locks of etcd implement the abstract lock service.
Service == INSTANCE LockService WITH owners <- [k \in Keys |-> Owners(k)]
ImplementsLockService == Service!Spec

\* Why the above hold: the inductive invariant the proofs rest on.
\* lockBatch works through its keys in ascending order and has put a key in
\* etcd for nothing but the mutexes it has and the one it is about to get.
InLoop(s) == pc[s] \in {"acquire", "undo", "wait", "held"}

LoopInv ==
    \A s \in Sess :
        /\ pc[s] = "idle" <=> lease[s] = "none"
        /\ InLoop(s) => /\ req[s] = mutexes[s] \cup todo[s]
                        /\ \A k \in mutexes[s], j \in todo[s] : k < j
        /\ pc[s] = "held" => todo[s] = {}
        /\ pc[s] = "closed" => mutexes[s] = {}
        /\ \A k \in Keys :
            /\ lease[s] # "alive" => s \notin present[k]
            /\ InLoop(s) /\ s \in present[k] => k \in mutexes[s] \/ Queued(s, k)
            /\ InLoop(s) /\ lease[s] = "alive" /\ k \in mutexes[s] => s \in present[k]

\* The sessions in front of a queued one have a key in etcd.
AheadPresent ==
    \A s \in Sess, k \in Keys : Queued(s, k) => ahead[s] \subseteq present[k] \ {s}

\* An owner is in front of everybody who is queued, and of two queued sessions
\* one is in front of the other: the order of their keys' create revisions.
QueueOrder ==
    \A s, q \in Sess, k \in Keys :
        Queued(s, k) /\ s \in present[k] /\ q # s =>
            /\ q \in Owners(k) => q \in ahead[s]
            /\ Queued(q, k) /\ q \in present[k] => q \in ahead[s] \/ s \in ahead[q]

\* Whoever is in front of a session in front of s is in front of s.
AheadNested ==
    \A s, q \in Sess, k \in Keys :
        Queued(s, k) /\ Queued(q, k) /\ q \in ahead[s] => ahead[q] \subseteq ahead[s] \ {q}

QueueInv == AheadPresent /\ QueueOrder /\ AheadNested

LockInv == TypeOK /\ LoopInv /\ QueueInv /\ MutualExclusion

\* Every call returns, blocking or not and with no timeout set, provided
\* holders unlock: no deadlock between batches, no lost wake-up, and no
\* waiting for ever behind a crashed process (lock.go 86, 153-154).
EveryCallReturns ==
    \A s \in Sess : pc[s] = "acquire" ~> pc[s] \in {"held", "idle", "closed", "crashed"}

\* The keys of a process that died, or whose session could not be revoked,
\* go away with the lease (lock.go 153-154: "进程崩溃时 session 过期会原子释放所有锁").
OrphansReclaimed ==
    \A s \in Sess : pc[s] \in {"closed", "crashed"} ~> \A k \in Keys : s \notin present[k]

=============================================================================
