CONSTANTS
    LogSize = 3
    SeqWrap = 8
    BOOT_MAX_ATTEMPTS = 3
    MaxFailures = 0
    LogCuts = TRUE
SPECIFICATION UpdateSpec
INVARIANTS
    PowerCutLosesLastOnly
