SPECIFICATION Spec
CONSTANTS
    n1 = n1  n2 = n2  n3 = n3  p1 = p1  p2 = p2
    Nodes = {n1, n2, n3}
    Producers = {p1, p2}
    Dummy = Dummy
    Null = Null
    Nobody = Nobody
INVARIANT PrevHeadAlive
PROPERTIES RefinesFifo Drains
