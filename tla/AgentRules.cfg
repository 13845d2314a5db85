SPECIFICATION Spec
CONSTANTS
    LHR = LHR
    leg = leg
    None = None
    Located = {LHR}
CHECK_DEADLOCK FALSE
INVARIANTS
    WorseWeatherNeverLowersRisk
    NewDelayIsReported
    ReplayTellsOnce
    OnlyFactsTold
