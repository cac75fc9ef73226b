SPECIFICATION Spec
CONSTANTS
    a1 = a1  a2 = a2  a3 = a3
    s1 = s1  s2 = s2  s3 = s3
    Accounts = {a1, a2, a3}
    Sessions = {s1, s2, s3}
    NoSession = NoSession
    NoAccount = NoAccount
    SkipQueue = {}
    Limit = 1
    Tolerance = 1
    MaxTime = 1
INVARIANTS NoDanglingSession NoIdleSlot LimitRespected PositionTold
PROPERTIES NoOvertaking
SYMMETRY MCSymmetry
CHECK_DEADLOCK FALSE
