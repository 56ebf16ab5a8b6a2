CONSTANTS
    b1 = b1 r1 = r1 r2 = r2
    Builds = {b1}
    Requests = {r1, r2}
    Concurrency = 2
    MaxQuick = 1
    Leftover = {b1}
    Faults = {"crash", "reject", "wipe"}
    EarlyRequests = TRUE
    None = None
    MaxAttempts = 3
    MaxFaults = 1
SPECIFICATION FairSpec
CHECK_DEADLOCK FALSE
INVARIANTS IInv QueuedScheduledUnlessStranded SingleRunUnlessOvertaken DoneHasArtifact
PROPERTIES BuildsEndUnlessStranded RetryWindowUnlessStale
