SPECIFICATION LiveSpec
CONSTANTS
    Sessions <- MCSessions
    ScopeOf <- MCScopeOf
    Projects <- MCProjects
    ClientBuffer = 1
    MaxInputs = 3
    MaxBreaks = 1
    MaxSwitches = 1
PROPERTIES
    RowsGrow
    CatchesUp
\* The spans are bounded.
CHECK_DEADLOCK FALSE
