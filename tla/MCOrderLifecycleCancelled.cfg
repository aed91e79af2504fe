SPECIFICATION Spec
CONSTANTS
    f1 = f1
    f2 = f2
    r1 = r1
    r2 = r2
    h1 = h1
    h2 = h2
    NoEvent = NoEvent
    Qty = 2
    Fulfilments = {f1, f2}
    Refunds = {r1, r2}
    Kinds <- MCKinds
    Handlers = {h1, h2}
    MaxRepeats = 1
    MaxSales = 4
SYMMETRY Symmetry
CHECK_DEADLOCK FALSE
INVARIANTS
    CancelledOrderReservesNothing
