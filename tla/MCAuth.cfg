CONSTANTS
    Reqs = {q1, q2, q3}
    maxLoginFailCount = 3
    MaxNow = 1
    Faults = {"db", "redis"}
    None = None
SPECIFICATION Spec
INVARIANTS AuthInv GuessesBounded LogoutSticks
PROPERTIES DeadTokensStayDead
SYMMETRY SlotSymmetry
