SPECIFICATION Spec
CONSTANTS
    Agents = {a}
    Flattener = f
    Symbols = {s, t}
    None = None
    MaxPerRun = 2
    MaxPerDay = 2
    MaxPositions = 1
    MaxCalls = 2
    Polls = 1
    Overlap = FALSE
    FillsInRead = TRUE
    LostAnswers = FALSE
    Crashes = FALSE
INVARIANT PositionLimit
CHECK_DEADLOCK FALSE
