SPECIFICATION Spec
CONSTANTS
    a = a  b = b  u1 = u1  u2 = u2  u3 = u3  x1 = x1
    Players = {a, b}
    Items = {u1, u2, u3, x1}
    None = None
    Kind <- MCKind
    MaxCount <- MCLimit
    Room <- MCRoom
    NumSlots = 2
    MaxMoney = 2
    Amounts = {0, 1}
    MaxEvents = 1
INVARIANTS TypeOK TradeSymmetric AcceptedAsAgreed ItemsConserved ExchangeAsAgreed
PROPERTIES PaidAsAgreed
SYMMETRY MCSymmetry
CHECK_DEADLOCK FALSE
