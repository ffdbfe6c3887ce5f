SPECIFICATION FairSpec
CONSTANTS
    t1 = t1
    t2 = t2
    Tasks = {t1, t2}
    NoTask = NoTask
    Eligible = {t1, t2}
    Parents <- NoParents
    Columns <- AllColumns
    MaxIntake = 1
    Readings = {"up", "busy"}
    OperatorMay = {}
    MayFail = {"refuse"}
INVARIANTS IInv BoardAgrees
PROPERTIES OneReportPerPickup NobodyStarves
