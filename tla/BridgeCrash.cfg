SPECIFICATION Spec
CONSTANTS
    t1 = t1
    t2 = t2
    Tasks = {t1, t2}
    NoTask = NoTask
    Eligible = {t1, t2}
    Parents <- Chain
    Columns <- NarrowBoard
    MaxIntake = 1
    Readings = {"up", "busy"}
    OperatorMay = {"finish", "delete", "discard_ledger"}
    MayFail = {"abort"}
INVARIANT HardDepRespected
