CONSTANTS
    Inst = {i1, i2}
    Off = {}
    Runs = {r1, r2, r3}
    Reqs = {}
    Ops = {"trigger"}
    Entries = {e1}
    Mode = "skip"
    Faults = {"lapse", "crash"}
    Job = job
    None = none
SPECIFICATION Spec
INVARIANTS CronInv ScheduledExclusive NoLeakedLock OutcomeRecorded
SYMMETRY InstSymmetry
