SPECIFICATION Spec
CONSTANTS
    Names <- MCNames
    Known <- MCKnown
    Checked <- MCChecked
    Texts <- MCTexts
    MaxSaves = 2
    MaxFaults = 1
    Projects <- MCProjects
    Bindings <- MCBindings
    Thresholds <- MCThresholds
    Unfit <- MCUnfit
    Overridden <- MCOverridden
    Defaulted <- MCDefaulted
    MaxSteps = 3
    Servers <- MCServers
    Places <- MCPlaces
    Configured <- MCConfigured
    Registered <- MCRegistered
    MaxClicks = 2
    MaxNews = 1
    Scopes <- MCScopes
    Drifted <- MCDrifted
    Windows <- MCWindows
    Callers <- MCCallers
    MaxTurns = 4
    Happened <- MCHappened
    Coming <- MCComing
    Lookbacks <- MCLookbacks
    Within <- MCWithin
    MaxListed = 2
    MaxMoves = 3
INVARIANTS
    EditsKept
    FormsAreTrue
    PagesAreTrue
    AgentsAreTrue
\* A page waits for its user, whose clicks are bounded.
CHECK_DEADLOCK FALSE
