SPECIFICATION FairSpec
CONSTANTS
    Scale = 2
    Requests = {r1, r2, r3}
    k1 = k1
    NoKey = NoKey
    Accounts <- MCAccounts
    InitialFunds <- MCFunds
    Keys <- MCKeys
    PlaceCommands <- MCCommands
INVARIANTS
    TypeOK
    Conservation
    HeldBalanceIsCurrent
    SuccessIsDurable
    BalanceEventsReplay
PROPERTIES
    EveryRequestIsAnswered
