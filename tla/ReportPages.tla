------------------------------ MODULE ReportPages ------------------------------
(***************************************************************************)
(* The two pages that report on a project as a whole: the overview         *)
(* (DashboardPage in src/dashboard/app/(dashboard)/page.tsx, with the      *)
(* cards and tables of components/ui/monitoring-content.tsx) and the       *)
(* security page (SecurityPage in app/(dashboard)/security/page.tsx).      *)
(*                                                                         *)
(* Left out: the error categories, which are fetched as the health of the  *)
(* servers is; what is in a chart; latencies, rates and prices; and the    *)
(* alerts that the API sends for what a scan finds.                        *)
(***************************************************************************)
EXTENDS Naturals, FiniteSets, Functions, Fetching

CONSTANTS
    HomeCalls,      \* [project, age, server, session, kind, model, failed, tokens]: the spans
    HomeServers,    \* [project, name, status, reachable, configured, findings]: the servers
    HomeProjects,   \* of which the null project "all" is one, for an administrator
    Hours,          \* windows of time
    Week,           \* that of the trends, in hours
    AgentsKnown,    \* names in the catalog of agents
    MaxHomeClicks,  \* bound: clicks on the overview
    MaxScanClicks   \* bound: those on the security page

AllProjects == "all"
HomeTabs == {"overview", "models", "tools"}
ByWindow == {"series", "models", "tools"}
HomeKeys == (ByWindow \X HomeProjects \X Hours)
                \cup ({"trends", "health", "agents"} \X HomeProjects \X {Week})

NotOpen == "closed"
Severities == {"critical", "high", "medium", "low", "info"}
\* The enumerations of the API, and what it counts.
ASSUME ReportAssumption ==
    /\ IsFiniteSet(HomeCalls) /\ IsFiniteSet(HomeServers)
    /\ Hours \subseteq Nat /\ Week \in Nat
    /\ \A c \in HomeCalls : c.age \in Nat /\ c.tokens \in Nat
    /\ \A v \in HomeServers :
          /\ v.status \in {"up", "degraded", "down", "stale", "unknown"}
          /\ IsFiniteSet(v.findings) /\ \A f \in v.findings : f.severity \in Severities
    /\ NotOpen \notin HomeProjects

VARIABLES
    ready,          \* the project list has been loaded
    place, window, homeTab, \* what is looked at
    home,           \* what the page holds of each address
    homeClicks,
    scanned,        \* the security page: its project, or "closed"
    visit,          \* how often it has been opened
    scanning,       \* its button is off
    scans,          \* scans under way
    switched,       \* the project was, since the scan that was asked for last
    results,        \* the report of the scan that it shows, or {}
    scanClicks

homeVars == <<ready, place, window, homeTab, home, homeClicks>>
scanVars == <<scanned, visit, scanning, scans, switched, results, scanClicks>>

-----------------------------------------------------------------------------
\* The overview

NoSession == "no session"
NoModel   == "no model"
CallsOf(p, h) == {c \in HomeCalls : (p = AllProjects \/ c.project = p) /\ c.age <= h}
\* Of all projects, those of the configuration and those once checked.
ServersOf(p)  == {v \in HomeServers : IF p = AllProjects THEN v.configured \/ v.status # "unknown"
                                      ELSE v.project = p}
ToolCallsIn(S) == {c \in S : c.kind = "tool_call"}
GroupsBy(S, Key(_)) == {{d \in S : Key(d) = Key(c)} : c \in S}
ModelGroups(S) == GroupsBy({c \in S : c.model # NoModel}, LAMBDA c : c.model)
ToolGroups(S)  == GroupsBy(ToolCallsIn(S), LAMBDA c : c.server)
HomeAnswer(k) ==
    CASE k[1] = "agents" -> AgentsKnown
      [] k[1] = "health" -> ServersOf(k[2])
      [] k[1] = "models" -> ModelGroups(CallsOf(k[2], k[3]))
      [] k[1] = "tools"  -> ToolGroups(CallsOf(k[2], k[3]))
      [] OTHER           -> {c \in CallsOf(k[2], k[3]) : c.session # NoSession}

KeyOf(kind, p, h) == <<kind, p, IF kind \in ByWindow THEN h ELSE Week>>
KindsOn(t) == {"series", "agents"} \cup (CASE t = "models" -> {"models"}
                                           [] t = "tools" -> {"tools"}
                                           [] t = "overview" -> {"trends", "health"})
Wanted(p, h, t) == {KeyOf(kind, p, h) : kind \in KindsOn(t)}
Held(kind) == home[KeyOf(kind, place, window)]
Displays(kind) == ready /\ kind \in KindsOn(homeTab) /\ Loaded(Held(kind))

\* The cards.  The sessions are those of the week as soon as the trends are
\* there; until then they are summed over the intervals, here the ages.
SessionsIn(S) == {c.session : c \in S} \ {NoSession}
FailuresIn(S) == {c \in S : c.failed}
SummedOver(S) == SumFunction([a \in {c.age : c \in S} |->
                                Cardinality(SessionsIn({c \in S : c.age = a}))])
SessionsCard == IF Displays("trends") THEN Cardinality(SessionsIn(Data(Held("trends"))))
                ELSE SummedOver(Data(Held("series")))
CallsCard == LET calls == ToolCallsIn(Data(Held("series")))
             IN  [calls |-> Cardinality(calls), errors |-> Cardinality(FailuresIn(calls))]
\* The servers that are stale count as healthy.
OfStatus(S)  == {v \in Data(Held("health")) : v.status \in S}
Issues       == OfStatus({"down", "degraded"})
HealthCard   == [ up |-> Cardinality(OfStatus({"up"})), degraded |-> Cardinality(OfStatus({"degraded"})),
                  down |-> Cardinality(OfStatus({"down"})),
                  stale |-> Cardinality(OfStatus({"stale", "unknown"})),
                  allOk |-> Issues = {} /\ Data(Held("health")) # {} ]
TokensOf(S) == SumFunction([c \in S |-> c.tokens])
ModelRows   == {[model |-> (CHOOSE c \in g : TRUE).model, calls |-> Cardinality(g),
                 tokens |-> TokensOf(g), errors |-> Cardinality(FailuresIn(g))] :
                    g \in Data(Held("models"))}
ModelCards  == [models |-> Cardinality(ModelRows), tokens |-> SumFunction([m \in ModelRows |-> m.tokens])]
\* A server with the name of an agent is no server, once the agents are known.
RealTools == {g \in Data(Held("tools")) :
                Loaded(Held("agents")) => \A c \in g : c.server \notin Data(Held("agents"))}
ToolRows  == {[server |-> (CHOOSE c \in g : TRUE).server, calls |-> Cardinality(g),
               errors |-> Cardinality(FailuresIn(g))] : g \in RealTools}
ToolCards == [ tools  |-> Cardinality(ToolRows),
               calls  |-> SumFunction([t \in ToolRows |-> t.calls]),
               errors |-> SumFunction([t \in ToolRows |-> t.errors]) ]

HomeInit ==
    /\ ready = FALSE
    /\ place \in HomeProjects /\ window \in Hours /\ homeTab \in HomeTabs
    /\ home = [k \in HomeKeys |-> Closed]
    /\ homeClicks = 0

Mounts(keys) == [k \in HomeKeys |-> IF k \in keys THEN Joining(home[k]) ELSE home[k]]
ProjectsLoaded ==
    /\ ~ready /\ ready' = TRUE
    /\ home' = Mounts(Wanted(place, window, homeTab))
    /\ UNCHANGED <<place, window, homeTab, homeClicks>>
\* What is fetched anew is what was not looked at before.
HomeView(p, h, t) ==
    /\ ready /\ homeClicks < MaxHomeClicks /\ homeClicks' = homeClicks + 1
    /\ place' = p /\ window' = h /\ homeTab' = t
    /\ home' = Mounts(Wanted(p, h, t) \ Wanted(place, window, homeTab))
    /\ UNCHANGED ready
ChangeHours(h) == h # window /\ HomeView(place, h, homeTab)
ChangeTab(t) == t # homeTab /\ HomeView(place, window, t)
ChangePlace(p) == p # place /\ HomeView(p, window, homeTab)

HomeKept == UNCHANGED <<ready, place, window, homeTab, homeClicks>>
\* A poll of what is held already brings the same calls: it is left out.
HomePoll(k) ==
    /\ ready /\ k \in Wanted(place, window, homeTab) /\ Quiet(home[k]) /\ ~Loaded(home[k])
    /\ home' = [home EXCEPT ![k] = Asking(@)] /\ HomeKept
HomeRead(k) == IsSent(home[k]) /\ home' = [home EXCEPT ![k] = Reading(@, HomeAnswer(k))] /\ HomeKept
HomeArrives(k) == IsAnswered(home[k]) /\ home' = [home EXCEPT ![k] = Arrived(@)] /\ HomeKept
\* A request fails before it is read, or after: it is the same to the page.
HomeFails(k) == IsSent(home[k]) /\ home' = [home EXCEPT ![k] = Lost(@)] /\ HomeKept

HomeNext ==
    \/ ProjectsLoaded
    \/ \E h \in Hours : ChangeHours(h)
    \/ \E t \in HomeTabs : ChangeTab(t)
    \/ \E p \in HomeProjects : ChangePlace(p)
    \/ \E k \in HomeKeys : HomePoll(k) \/ HomeRead(k) \/ HomeArrives(k) \/ HomeFails(k)

-----------------------------------------------------------------------------
\* The security page

\* Of a project, those of its catalog that can be reached; if there is none, and
\* for no project, those of the configuration.
ScanOf(p) ==
    LET own == {v \in HomeServers : v.project = p /\ v.reachable}
    IN  IF p = AllProjects \/ own = {} THEN {v \in HomeServers : v.configured} ELSE own
ServersScanned == UNION {ScanOf(r.project) : r \in results}
\* A server whose scan broke off is reported with an error, which no part of the page
\* shows, and without findings.
ScansFailed == UNION {r.unscanned : r \in results}
FoundIn(v) == IF v \in ScansFailed THEN {} ELSE v.findings
ShowsScan == ServersScanned # {}
AllFindings == UNION {{<<v.name, f>> : f \in FoundIn(v)} : v \in ServersScanned}
BySeverity(severity) == {g \in AllFindings : g[2].severity = severity}
ScanCards == [ servers  |-> Cardinality(ServersScanned),
               clean    |-> Cardinality({v \in ServersScanned : FoundIn(v) = {}}),
               critical |-> Cardinality(BySeverity("critical")),
               high     |-> Cardinality(BySeverity("high")) ]
SaysClean == AllFindings = {}

ScanInit ==
    /\ scanned \in HomeProjects /\ visit = 0
    /\ scanning = FALSE /\ scans = {} /\ switched = FALSE /\ results = {} /\ scanClicks = 0

ScanClick == scanClicks < MaxScanClicks /\ scanClicks' = scanClicks + 1
RunScan ==
    /\ scanned # NotOpen /\ ~scanning /\ ScanClick
    /\ scanning' = TRUE /\ switched' = FALSE
    /\ scans' = scans \cup {[number |-> scanClicks, project |-> scanned, visit |-> visit]}
    /\ UNCHANGED <<scanned, visit, results>>
\* The results of another project are dropped; the scan goes on.
ScanAnew(p) ==              \* Mutant: the button is on again, too.
    /\ scanned # NotOpen /\ p # scanned /\ ScanClick
    /\ scanned' = p /\ results' = {} /\ scanning' = FALSE /\ switched' = TRUE
    /\ UNCHANGED <<visit, scans>>
ScanElsewhere(p) ==
    /\ scanned # NotOpen /\ p # scanned /\ ScanClick
    /\ scanned' = p /\ results' = {} /\ switched' = TRUE
    /\ UNCHANGED <<visit, scanning, scans>>
\* A page that is left forgets what it waits for.
LeaveScans ==
    /\ scanned # NotOpen /\ ScanClick
    /\ scanned' = NotOpen /\ scanning' = FALSE /\ results' = {}
    /\ UNCHANGED <<visit, scans, switched>>
OpenScans(p) ==
    /\ scanned = NotOpen /\ ScanClick
    /\ scanned' = p /\ visit' = visit + 1
    /\ UNCHANGED <<scanning, scans, switched, results>>
Waits(s) == scanned # NotOpen /\ s.visit = visit
\* Each server is scanned by itself, and a scan that breaks off fails no other.
\* The answer is taken for the project that is looked at, whichever that is by now.
ReportOf(s, failing) == [number |-> s.number, project |-> s.project, unscanned |-> failing,
                         crossed |-> switched]
ScanEnds(s, failing) ==
    /\ scans' = scans \ {s}
    /\ IF Waits(s) THEN results' = {ReportOf(s, failing)} /\ scanning' = FALSE
                   ELSE UNCHANGED <<results, scanning>>
    /\ UNCHANGED <<scanned, visit, switched, scanClicks>>
ScanFails(s) ==
    /\ scans' = scans \ {s}
    /\ IF Waits(s) THEN scanning' = FALSE ELSE UNCHANGED scanning
    /\ UNCHANGED <<scanned, visit, switched, results, scanClicks>>

ScanNext ==
    \/ RunScan \/ LeaveScans
    \/ \E p \in HomeProjects : ScanElsewhere(p) \/ OpenScans(p)
    \/ \E s \in scans : \/ \E failing \in SUBSET ScanOf(s.project) : ScanEnds(s, failing)
                       \/ ScanFails(s)

-----------------------------------------------------------------------------
\* What the overview reports is of the project and of the window it names,
\* whatever was looked at before and whichever answer came last: its cards and
\* its tables count every span of them once, no session of them is missing from
\* the sessions card (unless the address asks for more hours than the week that
\* the trends have), no tool from the table but those of agents, and every server
\* is in one count of the health card, which calls none of them healthy that is
\* down or degraded.
HomeIsOfTheView ==
    LET calls  == CallsOf(place, window)
        traced == {c \in calls : c.session # NoSession}
        ofModels == {c \in calls : c.model # NoModel}
        ofTools  == {c \in ToolCallsIn(calls) : c.server \notin AgentsKnown}
    IN  /\ Displays("series") =>
              /\ CallsCard.calls = Cardinality(ToolCallsIn(traced))
              /\ CallsCard.errors = Cardinality(FailuresIn(ToolCallsIn(traced)))
              /\ homeTab = "overview" /\ window <= Week
                    => SessionsCard >= Cardinality(SessionsIn(traced))
        /\ Displays("models") =>
              /\ ModelCards.tokens = TokensOf(ofModels)
              /\ SumFunction([m \in ModelRows |-> m.calls]) = Cardinality(ofModels)
        /\ Displays("tools") =>
              /\ ToolCards.calls >= Cardinality(ofTools)
              /\ Loaded(Held("agents")) =>
                    /\ ToolCards.calls = Cardinality(ofTools)
                    /\ ToolCards.errors = Cardinality(FailuresIn(ofTools))
        /\ Displays("health") =>
              /\ HealthCard.up + HealthCard.degraded + HealthCard.down + HealthCard.stale
                    = Cardinality(ServersOf(place))
              /\ HealthCard.allOk => \A v \in ServersOf(place) : v.status \notin {"down", "degraded"}

\* "Auto-scanning on page load was removed: ... it caused concurrent scan
\* storms": a visit to the page has one scan under way at most, and while it
\* has, the button is off; the results are of the scan that ended last.
OneScanAtATime ==
    /\ Cardinality({s \in scans : Waits(s)}) <= 1
    /\ (\E s \in scans : Waits(s)) <=> scanning
    /\ \A r \in results, s \in scans : Waits(s) => r.number < s.number

\* What is shown is of the servers of the project that the page is in, however often
\* that was switched, the page left and other scans waited for; unless it was
\* switched while the very scan was under way, whose answer the page takes for the
\* new project's.
ScanIsOfTheProject ==
    \A r \in results : r.crossed \/ ServersScanned = ScanOf(scanned)

\* The cards, the chart and the list of a scan are of one set of findings: each
\* has one severity of those that are counted, and "All servers clean" is said
\* when every server is counted as clean; which a server with findings is only if
\* its scan broke off.
ScanAddsUp ==
    ShowsScan =>
        /\ SumFunction([x \in Severities |-> Cardinality(BySeverity(x))]) = Cardinality(AllFindings)
        /\ SaysClean <=> ScanCards.clean = ScanCards.servers
        /\ ScanCards.critical + ScanCards.high > 0 => ScanCards.clean < ScanCards.servers
        /\ SaysClean => \A v \in ServersScanned : v.findings = {} \/ v \in ScansFailed

\* What the two pages report is of what they name, but for the scan of a project that
\* is left meanwhile; and it is asked for once at a time.
ReportsAreTrue == HomeIsOfTheView /\ OneScanAtATime /\ ScanIsOfTheProject /\ ScanAddsUp
=============================================================================
