CONSTANTS
    Reqs = {r1}
    Emails = {e1}
    Names = {n1}
    Codes = {c1}
    Tokens = {t1}
    MaxUsers = 1
    Faults = {}
    None = None
SPECIFICATION Spec
INVARIANT ActivatedByEmail
