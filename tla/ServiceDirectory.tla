-------------------------- MODULE ServiceDirectory --------------------------
(***************************************************************************)
(* The servers of ServerNode and the processes that discover them, joined  *)
(* by etcd's directory: every change of a server's key, by Register,       *)
(* Deregister or the end of a lease, is seen by the watches of Discovery.  *)
(***************************************************************************)
EXTENDS ServerNode

CONSTANTS Observers,
          Others,       \* instances of the service that are not in Servers
          MaxUnread,    \* bound: answers of a watch that wait in its channel
          WatchFaults   \* a subset of {"get", "watch"}: calls that fail

ASSUME MaxUnreadAssumption == MaxUnread \in Nat \ {0}

VARIABLES others,       \* the members of Others whose keys etcd has
          watcher, cache, got, unread, missed

\* The keys under the prefix of Registry.buildKey.
directory == {s \in Servers : key[s]} \cup others

D == INSTANCE Discovery WITH Insts <- Servers \cup Others

observerVars == <<watcher, cache, got, unread, missed>>
keyVars == <<vars, others>>
dirVars == <<keyVars, observerVars>>

DirInit == Init /\ others = {} /\ D!ObserversInit

ServerActs == Next /\ UNCHANGED others /\ D!Notify

\* Another instance of the service comes or goes.
OtherActs ==
    /\ \E i \in Others : others' = IF i \in others THEN others \ {i} ELSE others \cup {i}
    /\ UNCHANGED vars
    /\ D!Notify

ObserverActs == UNCHANGED keyVars /\ \E o \in Observers : D!Observe(o)

DirNext == ServerActs \/ OtherActs \/ ObserverActs

DirSpec == DirInit /\ [][DirNext]_dirVars

ObserverSteps(o) == UNCHANGED keyVars /\ D!ObserverStep(o)

\* The goroutine of an observer runs; nobody need start, stop or break it.
DirFairness ==
    /\ \A s \in Servers : ServerFairness(s)
    /\ \A o \in Observers : WF_dirVars(ObserverSteps(o))

DirFairSpec == DirSpec /\ DirFairness

-----------------------------------------------------------------------------
(* Properties *)

\* What a cache, a pending read and a fresh load know of the directory,
\* whatever servers and other instances do meanwhile: each is out of date only
\* if an answer is still to be received or a change is known to have been
\* missed (discovery.go 95-147).
ObserversKnow == others \subseteq Others /\ D!DiscoveryInv

\* After any change the watch has answered, the cache follows as soon as the
\* directory rests, while the watch lives and no reload fails
\* (discovery.go 115-133).
CacheFollows ==
    \A o \in Observers, S \in SUBSET (Servers \cup Others) :
        unread[o] > 0 /\ directory = S
            ~> cache[o] = S \/ directory # S \/ ~D!WatchOpen(o) \/ missed[o]

\* Traffic moves away: a process that is gone, cleanly or not, leaves the
\* cache of every observer whose watch was open when its key disappeared, or
\* which failed to read (registry.go 86 and 103-119, discovery.go 95-133).
GoneLeaveCaches ==
    \A o \in Observers, s \in Servers :
        D!WatchOpen(o) /\ key[s] /\ main[s] = "down"
            ~> s \notin cache[o] \/ ~D!WatchOpen(o) \/ missed[o] \/ main[s] # "down"

=============================================================================
