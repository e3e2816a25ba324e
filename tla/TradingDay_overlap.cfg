SPECIFICATION Spec
CONSTANTS
    Agents = {a}
    Flattener = f
    Symbols = {s, t}
    None = None
    MaxPerRun = 2
    MaxPerDay = 2
    MaxPositions = 2
    MaxCalls = 1
    Polls = 1
    Overlap = TRUE
    FillsInRead = FALSE
    LostAnswers = FALSE
    Crashes = FALSE
INVARIANT WriteAhead
CHECK_DEADLOCK FALSE
