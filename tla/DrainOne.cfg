SPECIFICATION Spec
CONSTANTS
    Stores = {s1, s2}
    DefaultStore = s1
    NoStore = NoStore
    Runs = {r1}
    OperatorMay = {"pause"}
    MayFail = {"signal", "kill", "torn", "restart_fails"}
INVARIANTS IInv
PROPERTIES DrainedRestartHurtsNobody OperatorPauseKept
