CONSTANTS
    MaxLoginAttempts = 3
    MaxSignals = 2
    MaxJobs = 2
    MaxRuns = 2
    Nobody = Nobody
    Values = {v1, v2}
    Default = v1
    Scopes <- SomeScopes
SPECIFICATION ClientSpec
INVARIANTS ClientTypeOK ActiveIsShown RunsLeaveNoMount MountsWhatIsShown
PROPERTIES TimelySignalsStop LeavesNoMount StartConcludes StopEnds OverlayEnds
CHECK_DEADLOCK FALSE
