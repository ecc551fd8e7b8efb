SPECIFICATION FairSpec
CONSTANTS
    Process = {d1}
    Supported = FALSE
    MaxFailures = 0
    MaxKills = 0
    MaxStops = 0
PROPERTY SingleStackListens
