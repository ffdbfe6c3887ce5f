SPECIFICATION FairSpec
CONSTANTS
    Jobs = {j1, j2}
    DownAfter = 2
    UpAfter = 2
    BusyGrace = 2
    FlapThreshold = 2
    MaxFlaps = 2
    Weather = {"up", "busy", "down"}
    MayFail = {"kill", "list", "resume"}
PROPERTIES HealthyFleetRuns LastingOutagePauses
