SPECIFICATION Spec
CONSTANTS
    Stores = {s1, s2}
    DefaultStore = s1
    NoStore = NoStore
    Runs = {r1}
    OperatorMay = {}
    MayFail = {"signal"}
INVARIANTS AbortLiftsThePause
