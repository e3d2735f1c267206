----------------------- MODULE ServiceDirectoryProofs -----------------------
(***************************************************************************)
(* Servers, the directory and what observers know of it, for any number of *)
(* servers, other instances and observers, whichever calls fail.  NodeInv  *)
(* ties the three goroutines of a process together: r.cancel is set        *)
(* exactly from the moment keepAlive is bound to run, so Deregister waits  *)
(* only for a goroutine that ends, and deletes after it has ended.         *)
(* D!DiscoveryInv is inductive for any change of the directory: what a     *)
(* server or another instance does to it reaches the observers through     *)
(* D!Notify only.                                                          *)
(***************************************************************************)
EXTENDS ServiceDirectory, TLAPS

-----------------------------------------------------------------------------
(* One server *)

\* Every step of the goroutines, and every end of a lease, keeps NodeInv.
LEMMA NodeStep == NodeInv /\ [Next]_vars => NodeInv'
<1> SUFFICES ASSUME NodeInv, [Next]_vars PROVE NodeInv'
    OBVIOUS
<1> USE FaultsAssumption DEF NodeInv, GoroutinesAgree, TypeOK, Main, Ready, Keeper, Found, KeyHasLease, Deregistered,
        Goto, process
<1>1. ASSUME NEW s \in Servers, Gone(s), UNCHANGED <<lease, key>> PROVE NodeInv'
    BY <1>1 DEF Gone
<1>2. ASSUME NEW s \in Servers, RegisterFails(s) PROVE NodeInv'
    BY <1>2 DEF RegisterFails, Gone
<1>3. ASSUME NEW s \in Servers, Launch(s) PROVE NodeInv'
    BY <1>3 DEF Launch
<1>4. ASSUME NEW s \in Servers, OnStart(s) PROVE NodeInv'
    BY <1>4 DEF OnStart
<1>5. ASSUME NEW s \in Servers, Listen(s) PROVE NodeInv'
    BY <1>5 DEF Listen
<1>6. ASSUME NEW s \in Servers, Signal(s) PROVE NodeInv'
    BY <1>6 DEF Signal
<1>7. ASSUME NEW s \in Servers, Drained(s) PROVE NodeInv'
    BY <1>7 DEF Drained
<1>8. ASSUME NEW s \in Servers, Deregister(s) PROVE NodeInv'
    BY <1>8 DEF Deregister
<1>9. ASSUME NEW s \in Servers, DeregisterWait(s) PROVE NodeInv'
    BY <1>9 DEF DeregisterWait
<1>10. ASSUME NEW s \in Servers, DeleteKey(s) PROVE NodeInv'
    <2>1. main' = [main EXCEPT ![s] = "revoke"] /\ main[s] = "delete"
          /\ UNCHANGED <<port, ready, keeper, rcancel, found, lease>>
        BY <1>10 DEF DeleteKey
    <2>2. CASE key' = [key EXCEPT ![s] = FALSE]
        BY <2>1, <2>2
    <2>3. CASE UNCHANGED key
        BY <2>1, <2>3
    <2> QED
        BY <1>10, <2>2, <2>3 DEF DeleteKey
<1>11. ASSUME NEW s \in Servers, Revoke(s) PROVE NodeInv'
    <2>1. main' = [main EXCEPT ![s] = "stopJobs"] /\ main[s] = "revoke"
          /\ UNCHANGED <<port, ready, keeper, rcancel>>
        BY <1>11 DEF Revoke
    <2>2. CASE lease' = [lease EXCEPT ![s] = FALSE] /\ key' = [key EXCEPT ![s] = FALSE]
               /\ UNCHANGED found
        BY <2>1, <2>2
    <2>3. CASE found' = [found EXCEPT ![s] = "refused"] /\ UNCHANGED <<lease, key>>
        BY <2>1, <2>3
    <2> QED
        BY <1>11, <2>2, <2>3 DEF Revoke
<1>12. ASSUME NEW s \in Servers, StopRest(s) PROVE NodeInv'
    BY <1>1, <1>12 DEF StopRest
<1>13. ASSUME NEW s \in Servers, Dial(s) PROVE NodeInv'
    BY <1>13 DEF Dial
<1>14. ASSUME NEW s \in Servers, ReadyTimeout(s) PROVE NodeInv'
    BY <1>14 DEF ReadyTimeout
<1>15. ASSUME NEW s \in Servers, Grant(s) PROVE NodeInv'
    BY <1>15 DEF Grant
<1>16. ASSUME NEW s \in Servers, Put(s) PROVE NodeInv'
    BY <1>16 DEF Put
<1>17. ASSUME NEW s \in Servers, SetCancel(s) PROVE NodeInv'
    BY <1>17 DEF SetCancel
<1>18. ASSUME NEW s \in Servers, Spawn(s) PROVE NodeInv'
    BY <1>18 DEF Spawn
<1>19. ASSUME NEW s \in Servers, ReadyReturns(s) PROVE NodeInv'
    BY <1>19 DEF ReadyReturns
<1>20. ASSUME NEW s \in Servers, KeepAlive(s) PROVE NodeInv'
    BY <1>20 DEF KeepAlive
<1>21. ASSUME NEW s \in Servers, KeepAliveEnds(s) PROVE NodeInv'
    BY <1>21 DEF KeepAliveEnds
<1>22. ASSUME NEW s \in Servers, Expire(s) PROVE NodeInv'
    BY <1>22 DEF Expire
<1>23. CASE UNCHANGED vars
    BY <1>23 DEF vars
<1> QED
    BY <1>1, <1>2, <1>3, <1>4, <1>5, <1>6, <1>7, <1>8, <1>9, <1>10, <1>11, <1>12,
       <1>13, <1>14, <1>15, <1>16, <1>17, <1>18, <1>19, <1>20, <1>21, <1>22, <1>23
    DEF Next, ServerStep, StopStep, ReadyStep, KeeperStep, OnStartFails, Crash

\* The processes start with NodeInv.
LEMMA NodeInit == Init => NodeInv
<1>1. Init => TypeOK /\ KeyHasLease
    BY DEF Init, TypeOK, Main, Ready, Keeper, Found, KeyHasLease
<1>2. Init => \A s \in Servers : /\ main[s] = "down" /\ ready[s] = "none" /\ keeper[s] = "none"
                               /\ ~rcancel[s] /\ found[s] = "nothing" /\ ~lease[s] /\ ~key[s]
    BY DEF Init
<1> QED
    BY <1>1, <1>2 DEF NodeInv, GoroutinesAgree, Deregistered

\* NodeInv holds in every behaviour, for any servers and faults.
THEOREM NodeInvariant == Spec => []NodeInv
    BY NodeInit, NodeStep, PTL DEF Spec

\* A serving process is in the directory only with its port open (server.go 96-113).
THEOREM DiscoverableServersListen == Spec => []DiscoverableListens
<1>1. NodeInv => DiscoverableListens
    BY DEF NodeInv, GoroutinesAgree, DiscoverableListens
<1> QED
    BY <1>1, NodeInvariant, PTL

\* No key of a process outlives its lease (registry.go 63 and 86).
THEOREM KeysHaveLeases == Spec => []KeyHasLease
<1>1. NodeInv => KeyHasLease
    BY DEF NodeInv
<1> QED
    BY <1>1, NodeInvariant, PTL

\* A registration that Deregister found and etcd removed does not come back
\* (registry.go 103-119).
THEOREM DeregistrationLasts == Spec => []DeregisteredForGood
<1>1. NodeInv => DeregisteredForGood
    BY DEF NodeInv, GoroutinesAgree, DeregisteredForGood
<1> QED
    BY <1>1, NodeInvariant, PTL

-----------------------------------------------------------------------------
(* Servers and observers *)

\* What the servers do beside observers and other instances they could do alone.
LEMMA DirStep == [DirNext]_dirVars => [Next]_vars
    BY DEF DirNext, ServerActs, OtherActs, ObserverActs, dirVars, keyVars

\* The directory with its observers implements the servers by themselves: an
\* observer never holds a server up, nor moves it.
THEOREM DirectoryRunsServers == DirSpec => Spec
<1>1. DirInit => Init
    BY DEF DirInit
<1> QED
    BY <1>1, DirStep, PTL DEF DirSpec, Spec

\* So whatever holds of the servers by themselves holds of them in the directory.
THEOREM ServersInDirectory ==
    DirSpec => [](NodeInv /\ DiscoverableListens /\ KeyHasLease /\ DeregisteredForGood)
    BY DirectoryRunsServers, NodeInvariant, DiscoverableServersListen, KeysHaveLeases,
       DeregistrationLasts, PTL

Instances == Servers \cup Others

\* A change of the directory, whoever makes it, keeps what the observers know:
\* an open watch has an answer, and one that is not open has missed it.
LEMMA NotifyStep ==
    ASSUME D!DiscoveryInv, D!Notify, directory' \subseteq Instances
    PROVE  D!DiscoveryInv'
<1> USE MaxUnreadAssumption DEF D!DiscoveryInv, D!TypeOK, D!Watcher, D!IdleKnows, D!StoreKnows,
        D!LoadKnows, Instances
<1>1. D!TypeOK'
    BY DEF D!Notify
<1>2. CASE directory' = directory
    BY <1>1, <1>2 DEF D!Notify
<1>3. CASE directory' # directory
    <2>1. \A o \in Observers : D!WatchOpen(o) => unread'[o] > 0
        BY <1>3 DEF D!Notify, D!WatchOpen
    <2>2. \A o \in Observers : watcher[o] = "loaded" => missed'[o]
        BY <1>3 DEF D!Notify
    <2> QED
        BY <1>1, <2>1, <2>2 DEF D!Notify, D!WatchOpen
<1> QED
    BY <1>2, <1>3

\* A step of an observer keeps what all of them know.
LEMMA ObserveStep ==
    ASSUME D!DiscoveryInv, UNCHANGED directory, NEW o \in Observers, D!Observe(o)
    PROVE  D!DiscoveryInv'
<1> USE DEF D!DiscoveryInv, D!TypeOK, D!Watcher, D!IdleKnows, D!StoreKnows, D!LoadKnows, D!Goto
<1>1. CASE D!Load(o)
    BY <1>1 DEF D!Load
<1>2. CASE D!Watch(o)
    BY <1>2 DEF D!Watch
<1>3. CASE D!Receive(o)
    BY <1>3, MaxUnreadAssumption DEF D!Receive
<1>4. CASE D!Get(o)
    BY <1>4 DEF D!Get
<1>5. CASE D!Store(o)
    BY <1>5 DEF D!Store
<1>6. CASE D!WatchFails(o) \/ D!Stop(o)
    BY <1>6, MaxUnreadAssumption DEF D!WatchFails, D!Stop
<1> QED
    BY <1>1, <1>2, <1>3, <1>4, <1>5, <1>6 DEF D!Observe, D!ObserverStep

\* No change is lost between the answer of a watch and the Store that follows
\* it, while servers register, lapse and deregister (discovery.go 95-147,
\* registry.go 57-155).
THEOREM ObserversAlwaysKnow == DirSpec => []ObserversKnow
<1>1. DirInit => ObserversKnow
    BY MaxUnreadAssumption
    DEF DirInit, ObserversKnow, Init, directory, D!ObserversInit, D!DiscoveryInv, D!TypeOK, D!Watcher,
        D!IdleKnows, D!StoreKnows, D!LoadKnows
<1>2. ObserversKnow /\ [DirNext]_dirVars => ObserversKnow'
    <2> SUFFICES ASSUME ObserversKnow, [DirNext]_dirVars PROVE ObserversKnow'
        OBVIOUS
    <2>1. others' \subseteq Others
        BY DEF ObserversKnow, DirNext, ServerActs, OtherActs, ObserverActs, dirVars, keyVars
    <2>2. directory' \subseteq Instances
        BY <2>1 DEF directory, Instances
    <2>3. CASE ServerActs \/ OtherActs
        BY <2>1, <2>2, <2>3, NotifyStep DEF ObserversKnow, ServerActs, OtherActs
    <2>4. ASSUME UNCHANGED keyVars PROVE UNCHANGED directory
        BY <2>4 DEF keyVars, vars, directory
    <2>5. CASE ObserverActs
        BY <2>1, <2>4, <2>5, ObserveStep DEF ObserversKnow, ObserverActs
    <2>6. CASE UNCHANGED dirVars
        BY <2>1, <2>4, <2>6
        DEF ObserversKnow, dirVars, observerVars, D!DiscoveryInv, D!TypeOK, D!IdleKnows, D!StoreKnows,
            D!LoadKnows
    <2> QED
        BY <2>3, <2>5, <2>6 DEF DirNext
<1> QED
    BY <1>1, <1>2, PTL DEF DirSpec

=============================================================================
