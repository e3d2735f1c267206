CONSTANTS
    Reqs = {r1, r2}
    Emails = {e1, e2}
    Names = {n1, n2}
    Codes = {c1, c2}
    Tokens = {t1}
    MaxUsers = 2
    Faults = {"db", "redis", "mail", "crash"}
    None = None

    Challenges = {h1}
    Solvers = {s1, s2, s3}
    MaxTries = 4
    Dots = 2
    RedisFails = TRUE

    Editors = {d1, d2}
    Tours = {u1, u2, u3}
    ValidTours = {u1, u2}
    TourLimit = 2
    MaxEdits = 2
    RowFails = TRUE

    Roles = {a1, a2}
    Perms = {m1, m2}
    MenuPerms = {m1}
    RoutePerms = {m2}
    ModulePerms = {m2}

    Releases = {i1}
    Runs = {x1}
    Outcomes = {"failed"}
    MaxRows = 3
    MaxPageSize = 2
    DefaultPageSize = 1

    Pickers = {p1, p2}
    Weights = {0, 2}
    MaxInstances = 3
    MaxPicks = 2
    W = 2

    Procs = {v1, v2}
    MaxWrites = 1
    LocalSecret = FALSE

    Clients = {q1, q2}
    Limit = 1
    MaxCount = 2
    DefaultLang = "cn"

SPECIFICATION Spec

INVARIANTS
    BackendTypeOK
    OneAccountEach PromisesKept
    CaptchaSafe ProfileSafe PermissionsTrue RecordsSafe BalancersFair
    StartupSafe RequestsSafe FailuresTraced
SYMMETRY Symmetry
CHECK_DEADLOCK FALSE
