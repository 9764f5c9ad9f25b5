SPECIFICATION Spec
CONSTANTS
    Scale = 2
    Funds = 5
    Drafts <- MCDrafts
INVARIANTS
    StatusMatchesFill
    EventsTellTheHistory
    NoMoneyCreated
PROPERTIES
    TerminalIsFinal
\* The order ends and everything is settled: nothing is left to call.
CHECK_DEADLOCK FALSE
