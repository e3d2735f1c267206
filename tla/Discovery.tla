------------------------------ MODULE Discovery ------------------------------
(***************************************************************************)
(* pkg/etcd/discovery.go: a Discovery loads the instances of a prefix from *)
(* etcd's directory, watches the prefix in a goroutine, and reads all of   *)
(* it again after every answer of the watch.                               *)
(*                                                                         *)
(* The module has no behaviours of its own: who changes the directory is   *)
(* ServiceDirectory's part.                                                *)
(*                                                                         *)
(* A member of Observers is one prefix of one Discovery: prefixes have     *)
(* their own map and their own goroutine, and GetInstances only appends    *)
(* what they have.  Listeners (OnChange) hear what Store stores; no code   *)
(* of the repository registers one, so they are left out.                  *)
(***************************************************************************)
EXTENDS Naturals

CONSTANTS Observers,
          Insts,        \* the instances that can be in the directory
          MaxUnread,    \* bound: answers of a watch that wait in its channel
          WatchFaults   \* a subset of {"get", "watch"}: calls that fail

VARIABLES
    directory,  \* instances whose keys etcd has
    watcher,    \* where an observer is: Start, then its goroutine
    cache,      \* prefixData[prefix]
    got,        \* what the Get of a reload read
    unread,     \* answers of the watch that nobody has received
    missed      \* the cache lacks a change that no answer of the watch is left for

Watcher == {"new", "loaded", "watching", "get", "store", "dead", "stopped"}

-----------------------------------------------------------------------------

WatchOpen(o) == watcher[o] \in {"watching", "get", "store"}

Goto(o, p) == watcher' = [watcher EXCEPT ![o] = p]

ObserversInit ==
    /\ watcher = [o \in Observers |-> "new"]
    /\ cache = [o \in Observers |-> {}]
    /\ got = [o \in Observers |-> {}]
    /\ unread = [o \in Observers |-> 0]
    /\ missed = [o \in Observers |-> FALSE]

\* What a change of the directory does to the observers: a watch that is open
\* answers, and one that is not yet open will never know.
Notify ==
    /\ unread' = [o \in Observers |->
                    IF directory' # directory /\ WatchOpen(o) /\ unread[o] < MaxUnread
                    THEN unread[o] + 1 ELSE unread[o]]
    /\ missed' = [o \in Observers |->
                    missed[o] \/ (directory' # directory /\ watcher[o] = "loaded")]
    /\ UNCHANGED <<watcher, cache, got>>

-----------------------------------------------------------------------------

\* Start: loadPrefix reads the prefix.  (An error ends Start, and with it the
\* process: ServerNode!OnStartFails.)
Load(o) ==
    /\ watcher[o] = "new"
    /\ Goto(o, "loaded")
    /\ cache' = [cache EXCEPT ![o] = directory]
    /\ missed' = [missed EXCEPT ![o] = FALSE]
    /\ UNCHANGED <<directory, got, unread>>

\* The goroutine opens the watch, from the directory's present revision on.
Watch(o) ==
    /\ watcher[o] = "loaded"
    /\ Goto(o, "watching")
    /\ UNCHANGED <<directory, cache, got, unread, missed>>

Receive(o) ==
    /\ watcher[o] = "watching"
    /\ unread[o] > 0
    /\ Goto(o, "get")
    /\ unread' = [unread EXCEPT ![o] = @ - 1]
    /\ UNCHANGED <<directory, cache, got, missed>>

\* reloadPrefix reads the prefix again; if that fails the cache stays as it is
\* until the next answer.
Get(o) ==
    /\ watcher[o] = "get"
    /\ \/ Goto(o, "store") /\ got' = [got EXCEPT ![o] = directory] /\ UNCHANGED missed
       \/ /\ "get" \in WatchFaults
          /\ Goto(o, "watching")
          /\ missed' = [missed EXCEPT ![o] = TRUE]
          /\ UNCHANGED got
    /\ UNCHANGED <<directory, cache, unread>>

\* (Mutation: instances are only added.)
StoreMerges(o) ==
    /\ watcher[o] = "store"
    /\ Goto(o, "watching")
    /\ cache' = [cache EXCEPT ![o] = @ \cup got[o]]
    /\ got' = [got EXCEPT ![o] = {}]
    /\ missed' = [missed EXCEPT ![o] = FALSE]
    /\ UNCHANGED <<directory, unread>>

\* (Mutation: after a reload the waiting answers are thrown away.)
StoreDrains(o) ==
    /\ watcher[o] = "store"
    /\ Goto(o, "watching")
    /\ cache' = [cache EXCEPT ![o] = got[o]]
    /\ got' = [got EXCEPT ![o] = {}]
    /\ missed' = [missed EXCEPT ![o] = FALSE]
    /\ unread' = [unread EXCEPT ![o] = 0]
    /\ UNCHANGED directory

\* ... and replaces the prefix's instances under the lock.
Store(o) ==
    /\ watcher[o] = "store"
    /\ Goto(o, "watching")
    /\ cache' = [cache EXCEPT ![o] = got[o]]
    /\ got' = [got EXCEPT ![o] = {}]
    /\ missed' = [missed EXCEPT ![o] = FALSE]
    /\ UNCHANGED <<directory, unread>>

\* The watch answers with an error (a compacted revision, a lost leader) or its
\* channel closes: the goroutine returns, and nobody starts another one.
WatchFails(o) ==
    /\ "watch" \in WatchFaults
    /\ watcher[o] = "watching"
    /\ Goto(o, "dead")
    /\ unread' = [unread EXCEPT ![o] = 0]
    /\ UNCHANGED <<directory, cache, got, missed>>

\* Stop cancels the goroutine and waits for it; in the middle of a reload it
\* comes back to the select first.
Stop(o) ==
    /\ watcher[o] \in {"loaded", "watching", "dead"}
    /\ Goto(o, "stopped")
    /\ unread' = [unread EXCEPT ![o] = 0]
    /\ UNCHANGED <<directory, cache, got, missed>>

ObserverStep(o) == Watch(o) \/ Receive(o) \/ Get(o) \/ Store(o)

Observe(o) == Load(o) \/ ObserverStep(o) \/ WatchFails(o) \/ Stop(o)

-----------------------------------------------------------------------------
(* Properties *)

TypeOK ==
    /\ directory \subseteq Insts
    /\ watcher \in [Observers -> Watcher]
    /\ cache \in [Observers -> SUBSET Insts]
    /\ got \in [Observers -> SUBSET Insts]
    /\ unread \in [Observers -> 0 .. MaxUnread]
    /\ missed \in [Observers -> BOOLEAN]

\* A watcher with nothing left to read has the truth: no change that happens
\* while it receives, reads or stores is lost, because each answer leads to a
\* Get of its own (discovery.go 98-133).  Missed is only what changed before
\* the watch was open and what a failed Get would have read, until the next Get.
IdleKnows ==
    \A o \in Observers :
        watcher[o] = "watching" /\ unread[o] = 0 /\ ~missed[o] => cache[o] = directory

\* What a reload has read and is about to store is out of date only if another
\* answer waits behind it.
StoreKnows ==
    \A o \in Observers :
        watcher[o] = "store" /\ unread[o] = 0 => got[o] = directory

LoadKnows ==
    \A o \in Observers : watcher[o] = "loaded" /\ ~missed[o] => cache[o] = directory

DiscoveryInv == TypeOK /\ IdleKnows /\ StoreKnows /\ LoadKnows

=============================================================================
