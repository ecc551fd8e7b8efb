SPECIFICATION FairSpec
CONSTANTS
    Process = {d1, d2}
    Supported = TRUE
    MaxFailures = 1
    MaxKills = 1
    MaxStops = 1
INVARIANTS TypeOK NobodyShutOut
PROPERTIES OnlyKillsCutWork EveryStackListens StopReturns
