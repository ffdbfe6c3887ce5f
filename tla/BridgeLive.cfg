SPECIFICATION FairSpec
CONSTANTS
    t1 = t1
    t2 = t2
    Tasks = {t1}
    NoTask = NoTask
    Eligible = {t1}
    Parents <- NoParents
    Columns <- AllColumns
    MaxIntake = 1
    Readings = {"up", "busy"}
    OperatorMay = {"finish"}
    MayFail = {"abort", "refuse", "unread"}
PROPERTY HandoversGoOn
