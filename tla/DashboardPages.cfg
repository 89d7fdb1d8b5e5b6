SPECIFICATION DashboardSpec
CONSTANTS
    Tabs <- MCTabs
    Early <- MCEarly
    Late <- MCLate
    MaxActs = 2
    Views <- MCViews
    SessionRows <- MCRows
    Words <- MCWords
    PageSize = 1
    MaxInputs = 3
    Screens <- MCScreens
    Invites <- MCInvites
    Passwords <- MCPasswords
    MaxFailures = 2
    MaxSubmits = 3
    Ledger <- MCLedger
    Unset = "unset"
    Priced <- MCPriced
    Periods <- MCPeriods
    Payers <- MCPayers
    TopSessions = 1
    MaxPicks = 2
    Spans <- MCSpans
    NoParent = "none"
    Resent <- MCResent
    MaxFetches = 2
    MaxToggles = 2
    HomeCalls <- MCHomeCalls
    HomeServers <- MCHomeServers
    HomeProjects <- MCHomeProjects
    Hours <- MCHours
    Week = 168
    AgentsKnown <- MCAgentsKnown
    MaxHomeClicks = 1
    MaxScanClicks = 4
    MaxRows = 3
    MaxEvents = 4
    MaxSaves = 3
    Users = {"alice", "bob"}
    MaxMemberActs = 5
INVARIANTS
    ChoiceKept
    NobodyStranded
    PageExists
    InviteOnce
    LocksInTime
    CostsAddUp
    TreeIsWhole
    ReportsAreTrue
    ShownIsStored
\* A page waits for its user, whose clicks are bounded.
CHECK_DEADLOCK FALSE
