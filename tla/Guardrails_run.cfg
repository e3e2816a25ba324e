SPECIFICATION Spec
CONSTANTS
    Configs <- MCConfigs
    Prices <- MCPrices
    Equities <- MCEquities
    Times <- MCTimes
INVARIANTS LargestSize RiskBound SaneExposure
PROPERTIES BracketOrdered StopRatchets
