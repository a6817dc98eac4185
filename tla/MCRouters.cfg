CONSTANTS
    Configs <- MCConfigs
    Supported = {"openai", "anthropic"}
    SDK = "openai"
    Served = {"chat"}
    ChanCap = 3
SPECIFICATION Spec
INVARIANT OneBalancerFed
PROPERTIES
    StaysUp
    RoundsEnd
CHECK_DEADLOCK FALSE
