CONSTANTS
    Inst = {i1}
    Off = {}
    Runs = {r1, r2}
    Reqs = {}
    Ops = {"trigger"}
    Entries = {e1}
    Mode = "skip"
    Faults = {}
    Job = job
    None = none
SPECIFICATION Spec
INVARIANTS OneCopy
