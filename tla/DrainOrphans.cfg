SPECIFICATION FairSpec
CONSTANTS
    Stores = {s1, s2}
    DefaultStore = s1
    NoStore = NoStore
    Runs = {r1, r2}
    OperatorMay = {"clear"}
    MayFail = {"signal", "kill", "restart_fails", "unread"}
PROPERTIES OrphansAreReclaimed
