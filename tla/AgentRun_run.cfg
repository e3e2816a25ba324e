SPECIFICATION Spec
CONSTANTS
    Slots = {0, 1, 4, 5}
    MaxTurns = 4
    MaxCost = 3
    TurnCosts = {0, 1, 2}
    MaxUses = 2
INVARIANTS RollingPoint WellFormedRequest Capped ReportArrives FailureAlerts LockReturned
PROPERTY RunsOut
CHECK_DEADLOCK FALSE
