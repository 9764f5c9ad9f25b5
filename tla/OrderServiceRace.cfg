SPECIFICATION Spec
CONSTANTS
    Scale = 2
    Requests = {r1, r2, r3, r4}
    k1 = k1
    NoKey = NoKey
    Accounts <- MCAccounts
    InitialFunds <- MCFunds
    Keys <- MCKeys
    PlaceCommands <- RaceCommands
SYMMETRY MCRequests
INVARIANTS
    LockedMatchesOrders
    OneOrderPerKey
    OutboxMatchesTables
PROPERTIES
    OutboxGrowsInKeyOrder
    OrdersAreCancelledOnce
    ImplementsLedger
