SPECIFICATION FairSpec
CONSTANTS
    Agents = {a, b}
    Flattener = f
    Symbols = {s, t}
    None = None
    MaxPerRun = 1
    MaxPerDay = 2
    MaxPositions = 1
    MaxCalls = 3
    Polls = 1
    Overlap = FALSE
    FillsInRead = FALSE
    LostAnswers = FALSE
    Crashes = FALSE
PROPERTIES FlattenDecides RefinesRules
CHECK_DEADLOCK FALSE
