SPECIFICATION Spec
CONSTANTS
    c1 = c1  c2 = c2  t0 = t0  t1 = t1  t2 = t2
    Connections = {c1, c2}
    Tasks = {t0, t1, t2}
    Length <- MCLength
    None = None
    MaxLosses = 1
    Refusals = TRUE
PROPERTIES FinalEffect RefinesAtomic Settles
CHECK_DEADLOCK FALSE
