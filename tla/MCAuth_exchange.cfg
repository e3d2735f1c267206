CONSTANTS
    Reqs = {q1, q2}
    maxLoginFailCount = 2
    MaxNow = 1
    Faults = {}
    None = None
SPECIFICATION Spec
INVARIANTS OneExchange
