\* One change of the active project: two requests may be in flight.
SPECIFICATION SessionSpec
CONSTANTS
    DelegateOf <- MCDelegateOf
    Traces <- MCTraces
    MaxSwitches = 1
INVARIANTS
    GraphIsWhole
    PanelAgrees
    NothingIsStuck
CHECK_DEADLOCK FALSE
