CONSTANTS
    Inst = {i1}
    Off = {i1}
    Runs = {r1, r2, r3}
    Reqs = {q1}
    Ops = {"enable", "disable", "force_disable", "trigger", "force_trigger"}
    Entries = {e1, e2}
    Mode = "skip"
    Faults = {"etcd", "crash"}
    Job = job
    None = none
SPECIFICATION Spec
INVARIANTS NoStaleCancel SchedulerMatchesDB
SYMMETRY SlotSymmetry
