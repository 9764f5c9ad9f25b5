SPECIFICATION Spec
CONSTANTS
    Orders = {o1, o2, o3}
    PlaceCommands <- MCCommands
    Funds = 81
    One = 3
    Fine = 3
SYMMETRY MCOrders
CHECK_DEADLOCK FALSE
INVARIANTS
    DriftIsBounded
    ResidueIsBounded
