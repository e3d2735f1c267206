CONSTANTS
    Servers = {s1}
    Faults = {"etcd", "cut", "crash"}
    Observers = {o1}
    Others = {i1}
    MaxUnread = 3
    WatchFaults = {"get", "watch"}

SPECIFICATION DirFairSpec

INVARIANTS NodeInv ObserversKnow DiscoverableListens DeregisteredForGood
PROPERTIES ShutdownCompletes CacheFollows GoneLeaveCaches
