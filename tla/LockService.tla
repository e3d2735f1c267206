----------------------------- MODULE LockService -----------------------------
(***************************************************************************)
(* What pkg/etcd/lock.go promises its callers: every key has at most one   *)
(* owner, an owner gets a key only while nobody has it, and an owner gives *)
(* up any part of what it has at once (Unlock drops one key at a time, a   *)
(* lease that ends drops all of them).  Sessions, leases, queues, retries  *)
(* and errors are invisible here; EtcdLock implements this module.         *)
(***************************************************************************)
CONSTANTS Keys,     \* lock paths, /gapi/lock/{prefix}/{key}
          Sess      \* callers: one LockResult, hence one etcd session, each

VARIABLE owners     \* owners[k]: the callers that own the lock k

Init == owners = [k \in Keys |-> {}]

\* Lock, TryLock and the batch forms obtain one more key.
Grant(s, k) ==
    /\ owners[k] = {}
    /\ owners' = [owners EXCEPT ![k] = {s}]

\* Unlock, rollback, session.Close or the end of the lease give keys back.
Release(s, K) ==
    /\ K # {}
    /\ \A k \in K : s \in owners[k]
    /\ owners' = [k \in Keys |-> IF k \in K THEN owners[k] \ {s} ELSE owners[k]]

Next ==
    \E s \in Sess :
        \/ \E k \in Keys : Grant(s, k)
        \/ \E K \in SUBSET Keys : Release(s, K)

Spec == Init /\ [][Next]_owners

\* No lock has two owners (lock.go: "任一 key 加锁失败则回滚", the lock of a
\* key is exclusive).
AtMostOneOwner == \A k \in Keys : \A s, t \in owners[k] : s = t

=============================================================================
