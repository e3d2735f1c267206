CONSTANTS
    Procs = {v1}
    MaxWrites = 1
    LocalSecret = FALSE
SPECIFICATION StartupSpec
INVARIANT RemoteCovers
CHECK_DEADLOCK FALSE
