SPECIFICATION FairSpec
CONSTANTS
    Checkers = {"monitor", "request"}
    Loops = {"monitor"}
    Scopes = {"global", "project"}
    FirstTools <- MCFirstTools
    Tools = {"query"}
    Params = {"limit"}
    Types = {"int", "string"}
    MaxChanges = 2
    MaxDisturbed = 1
INVARIANTS HistoryHasNoGaps NoBreakMissed BeforeWasBefore
PROPERTY Settles
