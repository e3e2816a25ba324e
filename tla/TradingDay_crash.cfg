SPECIFICATION Spec
CONSTANTS
    Agents = {a}
    Flattener = f
    Symbols = {s, t, u}
    None = None
    MaxPerRun = 1
    MaxPerDay = 2
    MaxPositions = 1
    MaxCalls = 3
    Polls = 1
    Overlap = FALSE
    FillsInRead = TRUE
    LostAnswers = TRUE
    Crashes = TRUE
SYMMETRY SymbolSymmetry
INVARIANTS WriteAhead DayLimit WorkingBounded UnprotectedIsReported ExcessIsUnresolved
PROPERTIES JournalKept FlatMeansFlat
CHECK_DEADLOCK FALSE
