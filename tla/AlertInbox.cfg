\* An alert of the whole instance, seen from a project; two clicks, changes by others or failures.
SPECIFICATION FairSpec
CONSTANTS
    Alerts = {a1}
    Tabs = {"active", "all"}
    InstanceWide = {a1}
    HomeProject = "p"
    Projects = {"p"}
    MaxEvents = 2
PROPERTIES
    NoGhost
    CatchesUp
