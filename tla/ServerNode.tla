----------------------------- MODULE ServerNode -----------------------------
(***************************************************************************)
(* The life of a server process: internal/server/server.go runs the hooks  *)
(* [discovery, jobManager, registry] of internal/provider/hook.go around   *)
(* the HTTP server, and pkg/etcd/registry.go, the last hook, enters the    *)
(* process in etcd's directory.                                            *)
(*                                                                         *)
(* A process has three goroutines that matter: main (Run), the one of      *)
(* invokeOnReady, and Registry.keepAlive.  A member of Servers is a slot   *)
(* for a process; a restarted server is a new process with a new key.      *)
(***************************************************************************)
EXTENDS Naturals

CONSTANTS Servers,
          Faults      \* a subset of AllFaults

AllFaults == {"etcd",    \* a call of the etcd client fails
              "cut",     \* the keepalive is cut off for longer than the TTL
              "crash"}   \* the process dies, or an OnStart or the listener fails

ASSUME FaultsAssumption == Faults \subseteq AllFaults

VARIABLES
    main,       \* where Run is
    port,       \* the HTTP server listens
    ready,      \* where the goroutine of invokeOnReady is
    keeper,     \* where the goroutine of keepAlive is
    rcancel,    \* r.cancel is not nil
    found,      \* what Deregister found: nothing (yet), a registration, or one
                \* that etcd refused to revoke
    lease,      \* etcd has the lease of the process
    key         \* etcd has the key of the process

process == <<main, port, ready, keeper, rcancel, found>>
vars == <<main, port, ready, keeper, rcancel, found, lease, key>>

\* The hooks in the order of OnStart, and then in the reverse order of OnStop.
Main == {"down", "discovery", "jobs", "serving", "draining",
         "deregister", "wait", "delete", "revoke", "stopJobs", "stopDiscovery", "close"}

Ready == {"none", "dial", "grant", "put", "cancel", "spawn", "return", "returned"}

Keeper == {"none", "start", "renewing", "ended"}

Found == {"nothing", "registration", "refused"}

-----------------------------------------------------------------------------

Goto(s, m) == main' = [main EXCEPT ![s] = m]

Deregistered(s) == main[s] \in {"stopJobs", "stopDiscovery", "close"}

\* The context of keepAlive descends from the one that invokeOnReady cancels
\* when it returns; Deregister cancels it as well.
CtxDone(s) ==
    ready[s] = "returned" \/ main[s] \in {"wait", "delete", "revoke"}

Renewed(s) == keeper[s] = "renewing" /\ ~CtxDone(s)

\* os.Exit, a crash or the end of main: the goroutines are gone, the lease is not.
Gone(s) ==
    /\ main' = [main EXCEPT ![s] = "down"]
    /\ port' = [port EXCEPT ![s] = FALSE]
    /\ ready' = [ready EXCEPT ![s] = "none"]
    /\ keeper' = [keeper EXCEPT ![s] = "none"]
    /\ rcancel' = [rcancel EXCEPT ![s] = FALSE]
    /\ found' = [found EXCEPT ![s] = "nothing"]

Init ==
    /\ main = [s \in Servers |-> "down"]
    /\ port = [s \in Servers |-> FALSE]
    /\ ready = [s \in Servers |-> "none"]
    /\ keeper = [s \in Servers |-> "none"]
    /\ rcancel = [s \in Servers |-> FALSE]
    /\ found = [s \in Servers |-> "nothing"]
    /\ lease = [s \in Servers |-> FALSE]
    /\ key = [s \in Servers |-> FALSE]

-----------------------------------------------------------------------------
(* Run *)

\* A new process in a slot of which etcd remembers nothing.
Launch(s) ==
    /\ main[s] = "down"
    /\ ~lease[s]
    /\ Goto(s, "discovery")
    /\ UNCHANGED <<port, ready, keeper, rcancel, found, lease, key>>

\* OnStart of the discovery and of the job manager (the registry has none);
\* after the last one the goroutine of invokeOnReady starts.
OnStart(s) ==
    \/ /\ main[s] = "discovery"
       /\ Goto(s, "jobs")
       /\ UNCHANGED <<port, ready, keeper, rcancel, found, lease, key>>
    \/ /\ main[s] = "jobs"
       /\ Goto(s, "serving")
       /\ ready' = [ready EXCEPT ![s] = "dial"]
       /\ UNCHANGED <<port, keeper, rcancel, found, lease, key>>

\* An error of OnStart is fatal.
OnStartFails(s) ==
    /\ "crash" \in Faults
    /\ main[s] \in {"discovery", "jobs"}
    /\ Gone(s)
    /\ UNCHANGED <<lease, key>>

\* ListenAndServe, or the listeners of gracehttp.
Listen(s) ==
    /\ main[s] = "serving"
    /\ ~port[s]
    /\ port' = [port EXCEPT ![s] = TRUE]
    /\ UNCHANGED <<main, ready, keeper, rcancel, found, lease, key>>

\* SIGINT or SIGTERM: the listeners close at once, then the requests in
\* flight are waited for, five seconds at most.
Signal(s) ==
    /\ main[s] = "serving"
    /\ Goto(s, "draining")
    /\ port' = [port EXCEPT ![s] = FALSE]
    /\ UNCHANGED <<ready, keeper, rcancel, found, lease, key>>

Drained(s) ==
    /\ main[s] = "draining"
    /\ Goto(s, "deregister")
    /\ UNCHANGED <<port, ready, keeper, rcancel, found, lease, key>>

\* (Mutation: Deregister does not look whether there is a cancel function.)
DeregisterAlways(s) ==
    /\ main[s] = "deregister"
    /\ Goto(s, "wait")
    /\ found' = [found EXCEPT ![s] = "registration"]
    /\ UNCHANGED <<port, ready, keeper, rcancel, lease, key>>

\* Deregister, the first OnStop: without a cancel function it returns at once,
\* even if Register is under way in the other goroutine.
Deregister(s) ==
    /\ main[s] = "deregister"
    /\ Goto(s, IF rcancel[s] THEN "wait" ELSE "stopJobs")
    /\ found' = [found EXCEPT ![s] = IF rcancel[s] THEN "registration" ELSE "nothing"]
    /\ UNCHANGED <<port, ready, keeper, rcancel, lease, key>>

\* <-r.done
DeregisterWait(s) ==
    /\ main[s] = "wait"
    /\ keeper[s] = "ended"
    /\ Goto(s, "delete")
    /\ UNCHANGED <<port, ready, keeper, rcancel, found, lease, key>>

\* The delete and the revocation may fail, and nobody looks.
DeleteKey(s) ==
    /\ main[s] = "delete"
    /\ Goto(s, "revoke")
    /\ \/ key' = [key EXCEPT ![s] = FALSE]
       \/ "etcd" \in Faults /\ UNCHANGED key
    /\ UNCHANGED <<port, ready, keeper, rcancel, found, lease>>

\* (Mutation: the lease is not revoked.)
RevokeForgotten(s) ==
    /\ main[s] = "revoke"
    /\ Goto(s, "stopJobs")
    /\ UNCHANGED <<port, ready, keeper, rcancel, found, lease, key>>

Revoke(s) ==
    /\ main[s] = "revoke"
    /\ Goto(s, "stopJobs")
    /\ \/ /\ lease' = [lease EXCEPT ![s] = FALSE]
          /\ key' = [key EXCEPT ![s] = FALSE]
          /\ UNCHANGED found
       \/ /\ "etcd" \in Faults
          /\ found' = [found EXCEPT ![s] = "refused"]
          /\ UNCHANGED <<lease, key>>
    /\ UNCHANGED <<port, ready, keeper, rcancel>>

\* OnStop of the job manager and of the discovery, App.Close, end of main.
StopRest(s) ==
    \/ /\ main[s] = "stopJobs"
       /\ Goto(s, "stopDiscovery")
       /\ UNCHANGED <<port, ready, keeper, rcancel, found, lease, key>>
    \/ /\ main[s] = "stopDiscovery"
       /\ Goto(s, "close")
       /\ UNCHANGED <<port, ready, keeper, rcancel, found, lease, key>>
    \/ /\ main[s] = "close"
       /\ Gone(s)
       /\ UNCHANGED <<lease, key>>

Crash(s) ==
    /\ "crash" \in Faults
    /\ main[s] # "down"
    /\ Gone(s)
    /\ UNCHANGED <<lease, key>>

-----------------------------------------------------------------------------
(* invokeOnReady and Registry.Register *)

\* (Mutation: OnReady does not wait for the port.)
DialSkipped(s) ==
    /\ ready[s] = "dial"
    /\ ready' = [ready EXCEPT ![s] = "grant"]
    /\ UNCHANGED <<main, port, keeper, rcancel, found, lease, key>>

\* A connection to the own address succeeds; the first two OnReady do nothing.
Dial(s) ==
    /\ ready[s] = "dial"
    /\ port[s]
    /\ ready' = [ready EXCEPT ![s] = "grant"]
    /\ UNCHANGED <<main, port, keeper, rcancel, found, lease, key>>

\* Ten seconds without a connection: OnReady is skipped for good.
ReadyTimeout(s) ==
    /\ ready[s] = "dial"
    /\ ready' = [ready EXCEPT ![s] = "returned"]
    /\ UNCHANGED <<main, port, keeper, rcancel, found, lease, key>>

Grant(s) ==
    /\ ready[s] = "grant"
    /\ ready' = [ready EXCEPT ![s] = "put"]
    /\ lease' = [lease EXCEPT ![s] = TRUE]
    /\ UNCHANGED <<main, port, keeper, rcancel, found, key>>

\* (Mutation: the key is put without the lease.)
PutUnleased(s) ==
    /\ ready[s] = "put"
    /\ key' = [key EXCEPT ![s] = TRUE]
    /\ ready' = [ready EXCEPT ![s] = "cancel"]
    /\ UNCHANGED <<main, port, keeper, rcancel, found, lease>>

\* The key bound to the lease.
Put(s) ==
    /\ ready[s] = "put"
    /\ lease[s]
    /\ key' = [key EXCEPT ![s] = TRUE]
    /\ ready' = [ready EXCEPT ![s] = "cancel"]
    /\ UNCHANGED <<main, port, keeper, rcancel, found, lease>>

\* An error of OnReady is fatal; etcd refuses the key if the lease has ended,
\* and may have put it although the client saw an error.
RegisterFails(s) ==
    /\ \/ ready[s] = "grant" /\ "etcd" \in Faults /\ UNCHANGED key
       \/ ready[s] = "put" /\ ~lease[s] /\ UNCHANGED key
       \/ ready[s] = "put" /\ "etcd" \in Faults /\ key' = [key EXCEPT ![s] = lease[s]]
    /\ Gone(s)
    /\ UNCHANGED lease

\* (Mutation: the goroutine starts before r.cancel is set.)
SetCancelLate(s) ==
    /\ ready[s] = "cancel"
    /\ ready' = [ready EXCEPT ![s] = "spawn"]
    /\ UNCHANGED <<main, port, rcancel, keeper, found, lease, key>>

SetCancel(s) ==
    /\ ready[s] = "cancel"
    /\ rcancel' = [rcancel EXCEPT ![s] = TRUE]
    /\ ready' = [ready EXCEPT ![s] = "spawn"]
    /\ UNCHANGED <<main, port, keeper, found, lease, key>>

\* go r.keepAlive(ctx)
Spawn(s) ==
    /\ ready[s] = "spawn"
    /\ keeper' = [keeper EXCEPT ![s] = "start"]
    /\ ready' = [ready EXCEPT ![s] = "return"]
    /\ UNCHANGED <<main, port, rcancel, found, lease, key>>

\* invokeOnReady returns, and its deferred cancel ends the context of keepAlive.
ReadyReturns(s) ==
    /\ ready[s] = "return"
    /\ ready' = [ready EXCEPT ![s] = "returned"]
    /\ UNCHANGED <<main, port, keeper, rcancel, found, lease, key>>

-----------------------------------------------------------------------------
(* Registry.keepAlive and the lease *)

KeepAlive(s) ==
    /\ keeper[s] = "start"
    /\ \/ keeper' = [keeper EXCEPT ![s] = "renewing"]
       \/ "etcd" \in Faults /\ keeper' = [keeper EXCEPT ![s] = "ended"]
    /\ UNCHANGED <<main, port, ready, rcancel, found, lease, key>>

\* The context is done, or the channel is closed because the lease is gone.
\* Nothing registers the process again.
KeepAliveEnds(s) ==
    /\ keeper[s] = "renewing"
    /\ CtxDone(s) \/ ~lease[s]
    /\ keeper' = [keeper EXCEPT ![s] = "ended"]
    /\ UNCHANGED <<main, port, ready, rcancel, found, lease, key>>

\* A lease nobody renews ends by its TTL, and its key with it.
Expire(s) ==
    /\ lease[s]
    /\ ~Renewed(s) \/ "cut" \in Faults
    /\ lease' = [lease EXCEPT ![s] = FALSE]
    /\ key' = [key EXCEPT ![s] = FALSE]
    /\ UNCHANGED process

-----------------------------------------------------------------------------

\* What the process does by itself once it is signalled.
StopStep(s) ==
    Drained(s) \/ Deregister(s) \/ DeregisterWait(s) \/ DeleteKey(s) \/ Revoke(s) \/ StopRest(s)

ReadyStep(s) ==
    \/ Dial(s) \/ ReadyTimeout(s) \/ Grant(s) \/ Put(s) \/ RegisterFails(s)
    \/ SetCancel(s) \/ Spawn(s) \/ ReadyReturns(s)

KeeperStep(s) == KeepAlive(s) \/ KeepAliveEnds(s)

ServerStep(s) ==
    \/ Launch(s) \/ OnStart(s) \/ OnStartFails(s) \/ Listen(s) \/ Signal(s) \/ Crash(s)
    \/ StopStep(s) \/ ReadyStep(s) \/ KeeperStep(s) \/ Expire(s)

Next == \E s \in Servers : ServerStep(s)

Spec == Init /\ [][Next]_vars

\* Goroutines run and leases nobody renews end; nobody need start or stop a
\* process.
ServerFairness(s) ==
    /\ WF_vars(StopStep(s)) /\ WF_vars(ReadyStep(s)) /\ WF_vars(KeeperStep(s))
    /\ WF_vars(Expire(s) /\ ~Renewed(s))

-----------------------------------------------------------------------------
(* Properties *)

TypeOK ==
    /\ main \in [Servers -> Main]
    /\ port \in [Servers -> BOOLEAN]
    /\ ready \in [Servers -> Ready]
    /\ keeper \in [Servers -> Keeper]
    /\ rcancel \in [Servers -> BOOLEAN]
    /\ found \in [Servers -> Found]
    /\ lease \in [Servers -> BOOLEAN]
    /\ key \in [Servers -> BOOLEAN]

\* A process that serves and can be discovered has its port open: it enters
\* the directory from invokeOnReady only, after a connection to itself
\* (server.go 96-113).
DiscoverableListens == \A s \in Servers : key[s] /\ main[s] = "serving" => port[s]

\* No key outlives its lease, so that no crash, failed delete or late Put can
\* leave a process in the directory for ever (registry.go 63 and 86).
KeyHasLease == \A s \in Servers : key[s] => lease[s]

\* When Deregister found a registration and etcd revoked its lease, the process
\* is out of the directory and stays out, although Register and keepAlive ran
\* in other goroutines (registry.go 103-119, done closed before the delete).
DeregisteredForGood ==
    \A s \in Servers :
        Deregistered(s) /\ found[s] = "registration" => ~key[s] /\ ~lease[s]

\* A signalled process ends, whatever moment of Register or keepAlive the
\* signal meets: Deregister never waits for a goroutine that will not start
\* (registry.go 104-108).
ShutdownCompletes == \A s \in Servers : main[s] = "draining" ~> main[s] = "down"

\* Behind them: what the three goroutines of a process know of each other.
GoroutinesAgree(s) ==
    /\ main[s] = "down" => ready[s] = "none"
    /\ main[s] \in {"discovery", "jobs"} => ready[s] = "none" /\ ~lease[s]
    /\ ready[s] \in {"none", "dial", "grant"} => ~lease[s] \/ main[s] = "down"
    /\ ready[s] \notin {"none", "dial", "returned"} /\ main[s] = "serving" => port[s]
    /\ key[s] /\ main[s] = "serving" => port[s]
    /\ rcancel[s] <=> ready[s] = "spawn" \/ keeper[s] # "none"
    /\ ready[s] = "return" => keeper[s] # "none"
    /\ keeper[s] # "none" => ready[s] \in {"return", "returned"}
    /\ found[s] # "nothing" =>
        rcancel[s] /\ (Deregistered(s) \/ main[s] \in {"wait", "delete", "revoke"})
    /\ main[s] \in {"wait", "delete", "revoke"} => found[s] = "registration"
    /\ Deregistered(s) /\ found[s] = "registration" => ~key[s] /\ ~lease[s]

NodeInv == TypeOK /\ KeyHasLease /\ \A s \in Servers : GoroutinesAgree(s)

-----------------------------------------------------------------------------
(* What the documentation says and the code does not do *)

\* README 96, registry.go 134: once Register has succeeded, a process that
\* serves stays registered, its lease being renewed.
StaysRegistered ==
    [][\A s \in Servers :
        key[s] /\ ready[s] = "returned" /\ main[s] = "serving" /\ main'[s] = "serving" =>
            key'[s]]_vars

=============================================================================
