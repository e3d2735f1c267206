CONSTANTS
    Inst = {i1}
    Off = {}
    Runs = {r1, r2}
    Reqs = {q1}
    Ops = {"disable", "force_disable", "trigger"}
    Entries = {e1}
    Mode = "delay"
    Faults = {"etcd", "db"}
    Job = job
    None = none
SPECIFICATION FairSpec
INVARIANTS Cancellable
PROPERTIES EveryRunEnds StopReturns
