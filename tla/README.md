# LangSight in TLA+

LangSight watches AI agents that call tools of MCP servers.  An SDK runs inside
the agent's process; it wraps the MCP client, refuses calls that look like a loop,
a broken budget or a dead server, and sends a span for every call to an API
server, which stores the spans, checks the health of servers, and tells a
dashboard what happened.

This directory holds TLA+ models of the parts of that code whose correctness
depends on the order of events, TLC configurations that check them on small
instances, and proofs for TLAPS of what matters most for every instance.
`PROJECT.json` maps every definition to the lines it models and lists the
components, runs, mutants, hazards, findings and theorems.

Paths that begin with `sdk/`, `api/`, `health/`, `costs/`, `alerts/`, `storage/`
or `cli/` are under `src/src/langsight/`; those that begin with `app/`, `lib/` or
`components/` are under `src/dashboard/`.

## How to run

    tlc -config CircuitBreaker.cfg CircuitBreaker        # or a .cfg with its MC module
    tlc -config CallGuardSequential.cfg MCCallGuard      # CallGuard has two
    tlc -config SharedConvergence.cfg SharedBreaker      # ... and so has SharedBreaker
    tlapm SpanDeliveryProofs.tla                         # any *Proofs.tla

## Inventory

The parts in the order of the data's flow.  "Modelled" says which module has it.

| Part | State | Operations | Modelled |
|---|---|---|---|
| Circuit breaker, `sdk/circuit_breaker.py` | CLOSED / OPEN / HALF_OPEN, failures in a row, time of opening, two counters of the test phase; one per server | `should_allow`, `record_success`, `record_failure` | `BreakerOps`, `CircuitBreaker` |
| Shared breaker, same file | the above in each process, a Redis hash with a time to live, tasks that save | load once, decide on the copy, save a snapshot after each result | `SharedBreaker` |
| Loop detector, `sdk/loop_detector.py` | a window of the last calls, per session | `check_pre_call`, `record_call` | `LoopOps`, `CallGuard` |
| Session budget, `sdk/budget.py` | steps, cost, start time, warnings given, per session | `check_pre_call`, `record_step_and_cost`, `check_soft_thresholds` | `BudgetOps`, `CallGuard` |
| Call guard, `MCPClientProxy` of `sdk/client.py` | LRU tables of detectors and budgets, calls in flight | `call_tool` = `_check_prevention`, the call, `_post_call_update` | `CallGuard` |
| Span buffer, `LangSightClient` of `sdk/client.py` | buffer under a lock, flush task, flush thread, closed flag | `buffer_span`, `flush`, `_flush_loop`, `_thread_flush_loop`, `_flush_on_exit`, `close` | `SpanDelivery`, and its promise `SpanPromise` |
| Ingestion, `api/routers/traces.py` | the names registered since the process started; tags | store, register, publish; tag, alert | the first three, in `CatalogEditor` and `LivePage` |
| Health checker and schema tracker, `health/` | checks in flight; per server and scope the last snapshot, the drift history, the tools | `check`, `check_many`, `check_and_update` | `SchemaDrift` |
| Broadcast, `api/broadcast.py` | a bounded queue per subscriber | publish, subscribe | `LivePage` |
| Accounts, `api/routers/users.py`, `projects.py`, `auth.py`, `api/main.py` | users, invitations, keys, members, settings | invite, accept, verify, revoke, save | `SignIn`, `SettingsTables`, `SettingsRecords`, `ProjectMembers` |
| Alerts, `api/routers/alerts_config.py`, `storage/postgres.py` | fired alerts and their life cycle, the alert rules | acknowledge, snooze, resolve, count; save rules | `AlertInbox`, `SettingsRecords` |
| Prevention configuration, `api/routers/prevention_config.py` | a default of each project, an override of each agent | list, effective configuration, save, delete; the project a request is about | `PreventionTab` |
| Cost engine, `costs/engine.py` | none | groups, prices, adds up | `CostPage` |
| Security scan, `api/routers/security.py` | none | chooses the servers, scans | which servers and what is made of the findings, in `ReportPages` |
| Session page, `app/(dashboard)/sessions/[id]/page.tsx`, `lib/session-graph.ts` | a trace, expanded groups and calls, a selection, rows that are open | requests per project, clicks | `SessionGraph`, `SessionPage`, `SpanTree` |
| Alerts page | a list for each tab, counts | polls, three updates | `AlertInbox` |
| Settings page | rows, drafts and dialogs of every section | requests, clicks | `SettingsTables`, `SettingsRecords`, `ProjectMembers`, `SettingsPage`; the prevention section in `PreventionTab` |
| Agents and servers pages | lists with filters, the selected entry, its tabs with forms, panels and jobs | requests, clicks, polls | `CatalogEditor`, `PreventionTab`, `ServerTable`, `ServerPanels`, `AgentList`, `CatalogPage` |
| Live page | rows, a stream | seed, events, reconnection | `LivePage` |
| Session list, costs, overview, security page | answers, filters, a page, windows of time | requests, clicks | `SessionList`, `CostPage`, `ReportPages` |
| Active project, `lib/project-context.tsx`, sidebar | one project per tab, one in the browser's storage | restore, recheck, choose, create | `ActiveProject` |
| Sign-in pages, `app/(auth)/` | a form per window | accept an invitation, sign in | `SignIn` |
| Alert engine and monitor, alert dispatcher, LLM wrappers, framework integrations, remote configuration of the SDK, session tagging, rate limits, scanner and investigation, CLI, website | | | no: see the end |

How they interact.  A tool call enters `call_tool`, which asks the breaker of the
server, then the loop detector and the budget of the session, then awaits the
server; its `finally` block reports the result to all three, and a span goes to
the buffer.  With a `redis_url` the breakers of all processes meet in one Redis
hash.  The buffer is emptied by whichever flusher comes first.  The API stores the
spans, registers the agents and servers they name, and publishes them to the
subscribers of the live page; apart from it, the monitor and requests run health
checks, which write the same catalogue.  The dashboard's pages poll the API and
change it, each for the project that is active in its tab.

What is hard in it:

* Checks come before an `await` and updates after it, so calls of one session
  overlap between the two, and results come back to a breaker that is in another
  phase than the one that let the call through.
* `CancelledError` is no `Exception`: it goes past the handlers that record a
  failure or put a batch back.
* The shared breaker's copies are loaded once and saved by tasks that nobody
  waits for, to a Redis that may fail between two commands.
* Spans are moved by three kinds of asyncio tasks, a daemon thread and an
  `atexit` handler, around event loops that the application starts and ends.
* A health check compares, then writes event, snapshot, result and tools one after
  the other, and is cancelled by a timeout between any two of them.
* The API reads a record, merges a request into it and writes the whole of it.
* Requests of a page overlap: polls, updates, jobs, those of an earlier project.
  Some go through a library that keeps the answer to the latest request only, others
  through plain effects that show whatever answer comes last.
* Tables, windows, queues, buffers and histories are bounded.

What makes each part correct:

* *Breaker*: it opens at the threshold and not before, rests a whole cooldown,
  closes after the successes asked for, cuts a dead server off, and lets a healthy
  one back in.
* *Shared breaker*: no mixture of remote and local state is one that refuses for
  ever, or else one sees exactly when; when the outage is over every other copy closes.
* *Guard*: loops are stopped at the threshold, the step limit holds up to the
  concurrency of the session, each call counts once.
* *Delivery*: a span is never duplicated or forgotten within the client, leaves
  the buffer when the API answers, and after `close` none is left.
* *Drift*: the history has no gaps, a breaking change is classified as one, and once
  disturbances end the snapshot is what the server has.
* *Pages*: at rest a page shows what the API has for the project it names, and what
  the user saved or chose last stays, for every order of the answers that the code
  takes care of.
* *Numbers*: what is counted in several places, by rules written apart, agrees.
* *Live*: counts never fall, and the last event of every session arrives.

## Modules

| Module | Stands for |
|---|---|
| `BreakerOps` | `CircuitBreaker`: its methods as operators on the record of its fields |
| `CircuitBreaker` | one breaker, concurrent callers, clock, server |
| `LoopOps`, `BudgetOps` | `LoopDetector` and `SessionBudget` as operators |
| `CallGuard` | `call_tool` over a breaker, detectors and budgets: composes the three modules of operators |
| `SharedBreaker` | several processes' `BreakerOps` records, Redis |
| `SpanPromise` | what the client promises of a span, with no flusher in it: the abstract specification |
| `SpanDelivery` | the buffer and its five flushers: the implementation of `SpanPromise` |
| `SchemaDrift` | health checks, snapshots, the drift history, the tools that the SDK writes too |
| `Fetching` | what a page holds of one address of the API: the last answer and the request under way; used by the pages below |
| `SessionGraph`, `SessionPage` | the graph made of a trace; the page that draws it |
| `AlertInbox` | fired alerts, the alerts page, other administrators |
| `SettingsTables`, `SettingsRecords`, `ProjectMembers`, `SettingsPage` | the settings page: rows, records, the members of a project; the page that mounts one of them |
| `CatalogEditor`, `PreventionTab`, `ServerTable`, `ServerPanels`, `AgentList`, `CatalogPage` | the pages of agents and servers: About, Guards (with the settings' section on the same records), the list of servers, the panels of a server, the list of agents; the pages that mount them |
| `LivePage` | ingestion, broadcaster, stream and page |
| `ActiveProject`, `SessionList`, `SignIn`, `CostPage`, `SpanTree`, `ReportPages`, `DashboardPages` | the active project in the tabs of a browser, the list of sessions, the sign-in pages, the costs, a trace as a tree, the overview and the security page; and all of them side by side |
| `Dashboard` | `DashboardPages` and `SettingsPage`, of which a browser shows one, for one run |
| `MC*` | instances for TLC |
| `BreakerProofs` | lemmas on the operators of `BreakerOps`, and theorems about `CircuitBreaker` and `SharedBreaker`, the two state machines made of them |
| `CallGuardProofs`, `SchemaDriftProofs` | theorems about the module of that name |
| `SpanDeliveryProofs` | theorems about `SpanDelivery` and about `LivePage`, where the spans end up |
| `PageProofs` | theorems about `SessionPage`, with the operators of `SessionGraph`, and about `AlertInbox` |
| `SumProofs` | lemmas on sums over finite sets, for `PageProofs` and `DashboardProofs` |
| `DashboardProofs` | theorems about `SignIn`, `ActiveProject`, `SessionList`, `CostPage`, `SpanTree` and `ReportPages`, as parts of `DashboardPages`, and about `SettingsPage` |
| `CatalogProofs` | theorems about `CatalogEditor`, `PreventionTab`, `ServerTable`, `ServerPanels` and `AgentList`, as parts of `CatalogPage` |

Operators whose comment begins with "Mutant" are not part of a model.  Each is a
definition as a plausible bug would have it; `PROJECT.json` says which property
TLC finds broken when the mutant replaces the original.

`SettingsPage`, `CatalogPage`, `DashboardPages` and `Dashboard` each hold parts that never
run at once, because a page mounts one of them: a state has the part that is looked at, and
the variables of the others rest at one value.  One run then checks several
components without multiplying their states.

### BreakerOps and CircuitBreaker

A record has the five fields of the object.  The code stores `_opened_at` and only
compares `now - _opened_at` with the cooldown; the record stores the difference,
saturated at `Cooldown`, and `Age` is a tick of the clock.  `AfterShouldAllow`
shows that asking is a state change: it is the question that moves OPEN to
HALF_OPEN.  The module `CircuitBreaker` has the actions `Call` (the check),
`Succeed`, `Fail` and `Cancel` (the `finally` block; a cancelled call counts as a
success because `status` is initialised to SUCCESS), `Tick`, and `Settle` for the
server, which is flaky until it recovers or dies for good.  The variables `failRun`,
`goodRun`, `rest` and `probes` are history: no guard reads them, and the properties
compare the object's fields with them.

### LoopOps, BudgetOps and CallGuard

Without Redis neither half of `call_tool` awaits anything, so the checks are one
action (`StoppedByLoop`, `StoppedByBudget`, `Start`; a refusal by the breaker
changes nothing) and the updates another (`Finish`).  The order of the checks is
kept: a call stopped by the loop detector has asked the breaker, which may have
become HALF_OPEN, and has touched the detector's table but not the budget's.  A
table is a sequence of sessions, oldest first, with a value for each; dropping an
entry sets its value back to the fresh one, because an absent entry and a fresh one
behave alike.  The wall clock of a budget is three phases.  `LlmCall` is a call
through `wrap_llm`, which buffers a span and touches no budget.

### SharedBreaker

A process has its copy, a load in one of four phases, a number of calls in flight
and its saves.  A load is sent, read by Redis and applied in three steps, between
which other calls go on, as in `_ensure_loaded`: the flag is set before the await.
A save is HSET and EXPIRE; the saves of a process are tasks and overtake one
another.  The half-open counters are not saved, and a load leaves those of the copy
as they are.  `waited` is history: how long the load took, which nothing in the code
bounds, as the Redis client has a timeout for connecting only.  Of `opened_at` the hash keeps only
whether it is there: it is a reading of another machine's monotonic clock, so its
age for the reader is any value from 0 to the cooldown.  Its specification and its
actions are named apart from those of `CircuitBreaker` (`SharedSpec`, `StartCall`,
`ClockTicks`), as one module of proofs extends both.

### SpanDelivery and SpanPromise

Spans are numbered.  `fate` is history: where each span ended.  `Take` is the swap
under the lock with which every flusher begins; a POST ends with `AsyncOk`,
`AsyncFail`, `ThreadDone`, `ExitDone`, or is cut off by a cancellation.  `task` has
"parked" for a task that is unfinished on a loop that does not run.  `LoopEnds` is
the end of `asyncio.run`, which cancels tasks; `LoopStops` is
`run_until_complete` returning, which does not.

`SpanPromise` knows only a place for each span: not yet recorded, with a flusher,
in the buffer, or gone with a fate.  `SpanDelivery` implements it under the mapping
`Promise == INSTANCE SpanPromise WITH place <- ..., over <- (exit = "gone")`, where
a span's place is computed from the buffer, the batches and `fate`: a batch that
is put back is a set of spans that move from a flusher to the buffer in one step, a
trim one in which some of them are dropped, and a task that is cancelled takes its
batch to the fate "cancelled".  Where the code's steps are finer than the promise's they
map to stutters.  `KeepsPromise`, the abstract specification as a property, is
checked by TLC and proved.

### SchemaDrift

A check is the sequence of its awaits: ping, read the snapshot, save the event, save
the snapshot, save the result, save the tools.  Scopes are a project and none; the
tool lists of both are in one table, whose reads and writes name them as the code
does, and differently for reads and writes.  A hash is the tools it is taken of.
`Disturb` is what fails: storage, or the batch timeout that cancels a check.

### The pages

`Fetching` is shared: an address has the answer last kept and at most one request,
which the API reads some time before the answer arrives.  A poll asks anew and drops
the older request; joining shares the one under way.  Where the code uses plain
effects or posts instead, each request is a record of its own in a set, so that
answers arrive in any order.  "At rest" in the comments of properties means that
no request is under way and no poll is due.

What each property excepts is in its comment, and is what the code does not take
care of: two saves of one record that overlap, a load overtaken by another of
another project, a request that failed.  Four exceptions are single steps of the user
after which the page is wrong: a removal whose row is opened meanwhile (`hasty`), a
reload before the search has caught up (`tooSoon`), a switch during a scan (`crossed`),
and the unnamed agents of a trace.  Each is a finding.  Where the code's own text promises more,
that is a finding.

## Runs

Every bound is a constant of the module or the `.cfg`.  A property that is a
conjunction of named parts is listed with the parts.

| Run | Instance | Shows |
|---|---|---|
| `circuit_breaker` | 3 callers, both thresholds and cooldown 2 | the counters mean what they should in CLOSED; when the breaker opens, rests and closes; a healthy server is let in for good, a dead one cut off |
| `guard_concurrent` | tasks t1, t2 of one session, t3 of another; tables for one session; 2 steps; loop threshold 2 | the exact amount by which concurrent calls exceed the limits; every call counted once, except by sessions whose entry was dropped |
| `guard_sequential` | 1 session, 5 calls, 1 error, threshold 3, window 4, 6 steps, wall limit | neither a ping-pong nor a retry storm runs to its end (`NoPingPong`, `NoRetryStorm`) |
| `shared_breaker` | 2 processes with 2 calls and 1 save each, threshold and cooldown 1, 2 tests | a load that lands among other calls leaves no copy that counts past its threshold (`ClosedBelowThreshold`), and none that refuses every test unless it took a whole cooldown (`HalfOpenAdmits`); nothing is OPEN without a date |
| `shared_convergence` | 2 processes with 1 call and 2 saves each, all thresholds 1 | after the outage every copy and the hash close for good, whichever save is the last (`Converges`) |
| `span_delivery` | 3 spans, buffer for 2 | the client keeps its promise; `close` leaves none behind; spans leave the buffer |
| `session_page` | sessions of one and two spans of nine kinds and thirteen larger ones, which may grow into one another while they are looked at, some of them with equal times; 1 switch of project | however the graph is folded, every call is counted once and leads back to its caller (`CallsConserved`), every later agent has an arrow that is drawn (`NoOrphans`), the panels of nodes and edges agree with their nodes, and what was unfolded can be folded; with the exceptions for spans without an agent's name that the comments give |
| `alert_inbox` | one alert of the whole instance, a project, 2 tabs, 2 events by others | an alert that left a list does not come back; lists and counts end up saying what is stored (the module itself; no MC module) |
| `schema_drift` | the monitor and a request, in a project or in none; a tool with one parameter of two types; 2 changes, 1 disturbance | the history has no gaps; breaking changes are found; of the schema of before the page rebuilds what no later change concerns; after disturbances the snapshot settles |
| `catalog` | 2 servers, 2 projects, an agent; 2 saves, 1 fault, an API bound to a project or not, 3 steps of either form, of whose contents the API refuses one, 2 clicks and 4 turns of the lists, 3 moves of a panel, a list of agents that asks for 2 sessions | no save undoes another; the banner tells whose configuration it is; the settings' section changes the list that it shows, and shows what is stored (`FormsAreTrue`); lists and panels at rest show what the API has (`ListIsTrue`, `NeverBlank`, `PanelIsTrue` in `PagesAreTrue`; `AgentsAreTrue`) |
| `live_page` | 2 sessions, a queue of one event, 3 inputs, 1 break, 1 switch | rows never lose spans; the last span published arrives |
| `pages` | 2 tabs with 2 choices; 3 rows on pages of one; 2 windows with 2 invitations, 3 attempts, 2 failures to the lockout; 3 calls to price, one of them without tokens, and 2 picks; 4 spans of which one is sent twice, 2 fetches; 6 spans and 3 servers of two projects; of the settings 3 rows, 4 events, 3 saves and 5 changes of members by 2 users | the choice of a project is kept and nobody is left without one; the page of a list exists; an invitation is used once; the lockout comes in time; the costs add up; a trace is whole; the overview and the scan say what they name (`HomeIsOfTheView`, `OneScanAtATime`, `ScanIsOfTheProject`, `ScanAddsUp`); each section of the settings at rest shows and stores what was saved (`TableIsTrue`, `SavesKept`, `ViewIsTrue`, `MembersTrue`) |

A mutant exercises one part of a conjunction: the other parts were seen to fail by
mutants of their own while the modules were written.

Why the bounds are enough.  Three callers are one more than either threshold, so in
every phase a call of an earlier one can still be running.  Two tasks of one session
show a check and an update that interleave; the second session exists to drop the
first one's entry from a table of size one, also while its calls are in flight.  A
history of five calls is the length of a ping-pong at threshold 3, and the window of
four the shortest that shows it.  Two processes are the fewest that can disagree, two
calls the fewest with one call during another's load, and two tests the fewest with
which HALF_OPEN is saved.  How it ends is checked apart, with two saves in each
process, so that a process's own saves overtake one another, too.  Three spans through a buffer of two fill two batches
at once, put both back, and trim the result.  Two checks are the fewest that can
replace each other's snapshot; two changes of a server the fewest with one between
two steps of a check.  The pages need one action more than there are answers that can
overlap it: a change, a poll that was read before it, and a switch of project or a
second change.  The sessions of `session_page` were chosen so that every rule of
`session-graph.ts` that splits, joins or hides a call applies to one of them; all
pairs of kinds of spans are among them, agents that hand over in a circle, and spans
that start at one time.  A page of one row makes every change of a
filter move the last page.

Symmetry is used only in `guard_concurrent` and `shared_breaker`, which check
invariants.  Deadlock is
checked wherever the system cannot stop; a page waits for its user, whose clicks are
bounded, and a client process ends.

### Fairness

Weak fairness only, in the six runs with liveness properties or fair specifications.

* *Breaker*: the clock ticks; each caller calls again when it is allowed; each call
  that was let through ends, since agents' tool calls are awaited and the event loop
  runs what is ready.  No fairness on `Settle` or `Cancel`: `Recovers` starts from a
  server that has recovered, and `DeadServerIsCutOff` excepts callers that cancel
  for ever, because each cancellation counts as a success.
* *Shared breaker*: the same for each process, and loads end and the oldest save goes
  on, since they are tasks of a running loop.  No fairness on `Recovery`, `Restart`,
  or on a failure.
* *Delivery*: threads wake, tasks of a running loop run, POSTs end because the HTTP
  client has a timeout.  None on what the application decides: recording, closing,
  starting and ending loops, exiting; none on `Recovery`.
* *Alert inbox*: the polls are timers, requests are read and answered.  None on the
  user or on others; `CatchesUp` speaks of a user who stops changing tabs.
* *Schema drift*: the monitor is a loop that pings again and again, and the steps of a
  check are awaits of a running loop.  None on the server's changes, on requests for
  a check, or on disturbances, which are bounded.
* *Live page*: publishing follows storing in one handler; the stream is read by its
  consumers; the browser's `EventSource` reconnects by itself.  None on spans, breaks
  or switches.

### Findings

Statements of the repository's own text that are not what the code does;
`PROJECT.json` has each with both lines.  The ones about the SDK and the API:

1. "Limited calls" in HALF_OPEN (`sdk/circuit_breaker.py:7`): a test is counted when
   it ends, so every call that starts before the first test ends is let through.
2. "Hard stop on cumulative LLM + tool cost" (`sdk/budget.py:7`): only spans of tool
   calls reach the budget, and they carry no tokens.
3. "Prevents Workers B and C from continuing to hammer it"
   (`sdk/circuit_breaker.py:269`): workers load the shared state once.
4. "All test calls succeed → CLOSED" (`sdk/circuit_breaker.py:12`): a load that takes a
   whole cooldown can leave a copy that admits no test at all.
5. "If the HTTP send fails (e.g. event loop is closing), spans are returned to the
   buffer" (`sdk/client.py:557`): not when the POST is cancelled.
6. The flush thread "works regardless of whether an asyncio event loop is running"
   (`sdk/client.py:140`): not after a loop stopped with the flush task unfinished.
7. Registering what was not seen since the process started is not "safe because
   upsert is idempotent" (`api/routers/traces.py:45`): it empties the entry.
8. In a project the drift is compared with the tools of no project; without one the
   tools cannot be stored and the server is recorded as down.
9. A password can never be changed: `get_user_by_id` does not read its hash.  An
   address whose account was deactivated can be invited, and never accept.
10. The token totals of a tool are multiplied by its calls, which a comment forbids.
11. A scan of a project without usable servers covers those of the configuration;
    listing a project's servers registers again the one that was just removed.
12. A snoozed alert stays snoozed; two saves of the instance's settings at once lose
    a key; keys of deactivated users keep working; invitations last 72 hours and not
    48; accounts are locked after 10 failures for 5 minutes, not 5 for 15.

About the dashboard: "Expand all" closes a group that is open with all its calls
split; the fold button of an edge is never drawn; timed parents are by starts and not
by ends; fields are not saved on blur; live rows expire while their span runs, and
undercount when an event precedes the seed; the Sessions tile shows a week under any
window; failed requests are shown as "No drift detected" and as a blast radius of
zero; in the settings, a prevention configuration cannot be saved unless the API is
bound to a project, and adding an override opens no form; "All servers
healthy" includes those never checked; the fallback to the stored
project is not reached when the API is down; costs of all agents are labelled
"(filtered)"; an arrow from a span without an agent's name is not drawn, and its target
hangs loose; edges to a caller's share have "No data"; the schemas "before and after" a
change are made of today's; the page of servers goes blank when a row is opened while
its removal is under way, and keeps the histories of another project's servers of the
same name; the agents "of the last hours" are those of the newest 100 sessions; a reload
in the midst of a search can open an empty page; a scan answered after a switch is shown
as the new project's, and a server whose scan failed counts as clean; a blank soft alert
makes the API refuse the whole form.

Some of these statements are definitions of the modules, kept for a reader who wants
the steps: `LimitedTestCalls` (CircuitBreaker), `CostIsStopped` (CallGuard),
`OpeningStopsOthers` (SharedBreaker), `CancelledPostReturns` and `ThreadDelivers`
(SpanDelivery), `ExpandAllExpands` (SessionPage), `SnoozeIsTemporary` (AlertInbox),
`BreakingIsReported` (SchemaDrift), `RegistrationIsSafe` (CatalogEditor).  No run
names them; put in the place of a run's properties in its `.cfg`, TLC finds each
violated.

## Theorems

For every value of the constants that satisfies the named assumptions:

* `BreakerAssumption`: the three limits of the breaker are positive, as
  `PreventionConfigRequest` demands.
* `GuardAssumption`, `LoopAssumption`, `BudgetAssumption`: types, that the tasks are
  finitely many, that a call is a record of a tool and its arguments and `Idle` is no
  call, that the window and the number of sessions kept are positive, and that
  `NoError` is no error.
* `SharedAssumption`, `DeliveryAssumption`: the bounds are natural numbers, those of
  the buffer and of the calls and saves in flight positive.  Nothing is assumed of how
  long a load takes.
* `CheckersAssumption`: the checkers that loop are checkers, and the server begins
  with a list of tools.
* `SignAssumption`, `ProjectAssumption`, `ListAssumption`, `EditorAssumption`,
  `PreventionAssumption`: the bounds are natural numbers, the projects and the rows
  of a list finitely many, some project there from the start, the size of a page and
  the limit of failures positive, and the value that stands for "none" is none of
  the others.
* `PanelAssumption`: what a panel shows when a request failed is not the name of a
  project.
* `InboxAssumption`: the tab on which the alerts page opens is one of its tabs, and the
  alerts of the whole instance are alerts.
* `CostAssumption`: the page opens with the last 24 hours, for somebody who pays, and
  the tokens of a call are a natural number.  A call may be without counts of tokens.
* `TreeAssumption`: the spans of a trace are finitely many, the clients give each an
  identifier of its own and a parent that it does not descend to, and send the spans
  that the page hides (the topology and the agent span "session") without parents,
  children, errors or tokens.
* `SpanAssumption`: the spans of a session are a sequence, each with an identifier of
  its own and a natural number for the time it started; two may have the same.
* `ReportAssumption`: calls, servers and the findings of a server are finitely many,
  statuses and severities are the API's, ages and tokens natural numbers.
* `AgentAssumption`: a history is a sequence of sessions that names agents, and one of
  the windows on offer is the longest; the number of sessions that are asked for is a
  natural number.

TLC evaluates each of them in the runs.

* **Breaker** (`BreakerProofs`): `TypeCorrect`, `CountsTheRun`, `OpensRight`,
  `ClosesRight`, `RestsRight`, all from the inductive invariant `IInv` of theorem
  `Invariance`.  None of its parts is inductive alone.  That the
  breaker closes after a run of `HalfOpenMax` successes needs `TrialIsUnblemished`
  (no result of the phase was a failure, so its successes are the end of `goodRun`);
  that it opens at a run of failures needs `ClosedCountsTheRun`; that it rests needs
  `CooldownFromLastOpening` (the age that the object measures is the time since it
  last opened); and each needs the types.  The action properties follow from what a
  single step does to the phase in a state that satisfies `IInv`.
* **Guard** (`CallGuardProofs`).  `StepsAreLimited`: the steps counted plus the
  calls in flight stay at or below the limit plus the number of tasks less one.  The
  proof adds to `StepLimit` only the shape of the tables and of the calls.  A `Start`
  is granted when `steps + 1 <= MaxSteps`, and then every other task has at most one
  call in flight, which bounds the calls in flight after it by the tasks of the
  session; a `Finish` moves one unit from one summand to the other; an entry that is
  dropped only takes the sum back.  `CallsAreCounted` has the same two summands, of a
  session whose entry was never dropped, equal to the calls it started (`CountInv`);
  the step limit is what keeps the bounded counter of the model from saturating.
  `RunsAreBounded` and `LoopsEnd` follow from `LoopInv`, which relates what happened
  in the session to the detector's window: the window is the end of the history, as
  far as it reaches (`Recalled`), so that a loop as long as the threshold less one is
  in the window when the next call is checked, and that call is refused.  With
  several tasks a run can grow by the calls that were checked before its last calls
  ended, at most one for each other task.  The lemmas say of the sequences what a
  window and a history have at each place, counted from the end, after one more
  element (`RecentOnes`).
* **Shared breaker** (`BreakerProofs`).  `AlwaysDated`: no copy is OPEN without
  its opening time, a state that would refuse for ever.  The property is inductive
  once it also speaks of what is under way: the snapshots in the saves, the hash, and
  the data a load has read.  The proof needs nothing about how loads and saves
  interleave, which is why it holds for any number of processes.  `NothingSticks`:
  a copy that is CLOSED counts below the threshold, and one in HALF_OPEN admits a call
  unless its load took a whole cooldown and brought that state (`Overtaken`).  Its
  invariant `MoveInv` says so of each copy and of what a load can bring.  The link is
  time: a process begins CLOSED, and before its other calls can have opened the copy,
  rested and counted tests, a cooldown has passed since the load was sent; a load that
  has waited less than that finds counters at zero (`Young` in `LoadInv`).
* **Delivery** (`SpanDeliveryProofs`): `Refines`, that `SpanDelivery` implements
  `SpanPromise`, for any number of spans and any size of the buffer; and
  `DeliveryTypes`.  The inductive invariant has four parts.  `Typed` and
  `TypedControl` give the shapes.  `Control` says which flusher may hold a batch in
  which state of task, thread, `close` and exit, so that no two of them use one place
  at once.  `Spread` says that a recorded span is in exactly one of the buffer, the
  batches and the fates, and once in it: a sequence has no duplicates, and two
  sequences no common element.  `Spread` is what makes the mapping a function and
  what each step must preserve; it needs `Control`, because a flusher that took a
  second batch would forget its first.  The proof has lemmas on sequences without
  duplicates (`Taken`, `Joined`, `Recorded`: a swap, a batch put back and trimmed, an
  append with a trim), lemmas on what each does to the mapped places (`TakeMoves`,
  `PutBackMoves`, `EndMoves`), and one step lemma for each kind of action, from which
  `StepKeeps` shows for every action that the invariant holds after it and that it is
  a step of the promise or a stutter.  `CloseLeavesNothing` (`CloseEmpties`) adds
  `Closing` and `Emptying`: where a span recorded before `close` began can still be,
  stage by stage of its `await`s, and that the flush task is over before the last
  flush swaps the buffer.
* **Drift** (`SchemaDriftProofs`).  `HistoryIsWhole`: the property is inductive with
  what each check is about to store, at the step it has reached: the snapshot it read
  is known, and once its event is saved so is the snapshot it will save
  (`Announced`).  Nothing is needed about the order of the checks, which is the point.
  `BreaksAreReported` and `SchemasAreRebuilt` are about the pure functions, and need
  of the state only that events are made of catalogs: a call that the old schema
  takes and the new one does not is traced to a change of a required parameter, a type
  or a tool, each of which `classify_drift` finds; and what the page shows as the schema
  of before is the schema of today with the event's change undone, so it is right of
  each parameter that is today as it was after the event, and that no other change of
  the event concerns.  Nothing more holds: the page has no schema but today's.
* **Sign-in** (`DashboardProofs`).  `OneAccount`: an invitation is used in one
  statement of the database, and of all requests under way one at most has made the
  account and not been answered (`MadeOnce`).  `Locks`: the passwords found wrong
  plus those that are being hashed stay below the limit plus the most that were
  hashed at once (`LockCounts`).
* **Active project** (`DashboardProofs`): `ChoiceLasts`, `NoOneStranded`.  The
  invariant ties the stored project and every answer under way to the choice made
  last (`ChoiceStored`): an answer that was read before it is either marked late or
  would be discarded.  `SoundAnswers` does the same for the projects that are visible.
* **Session list** (`DashboardProofs`): `OpenPageExists`.  Whatever the list may show
  next, be it the answer on its way or the rows for the search that is typed but not
  yet applied, reaches the page that is open (`ReachedByRows`); with arithmetic of
  the rounded-up number of pages.  A reload while the search lags breaks that, and is
  the exception (`tooSoon`): then the address has the new search with the old page.
* **Editors** (`CatalogProofs`): `SavesAreKept`.  Of the saves of an entry at most
  one is on its way to the API, and it has what is wanted; until it is there page, API
  and answers agree on the entry, and afterwards what is on its way back is what the
  page shows or what is wanted (`Settled`).
* **Prevention forms** (`CatalogProofs`): `FormsTell`.  In the Guards tab the form is
  true or a request is under way that will make it true, and every answer on its way
  is still right when it arrives (`Unhurried`); the two resets that may overlap are the
  hard case, as the second's answer says there was nothing to remove while the first
  loads the default.  In the settings' section what is stored is listed, or about to
  be: by an answer that was read since, or by a change whose answer will have the list
  read again (`ListSoon`).
* **List of servers and panels** (`CatalogProofs`): `PagesTell`.  Of every place whose
  list nobody else touched since it was read: the answer to a job that will have that
  list asked for again is on its way, or else what the answer to the list on its way
  says is what the API would say now, and the list that is looked at and waits for
  nothing says so too (`ListStands`).  It must speak of the lists of all places, as
  the user comes back to one with an answer to it under way, and of the jobs, each of
  which leaves the list of every place but its own.  That the page does not go blank
  needs the server that is picked to be listed by the API, by the page, and by the
  answer on its way, with no removal of it under way (`Stays`).  A row that is
  picked after the click that removes it is the exception, and the page does go blank
  (`hasty`).  For a panel
  (`PanelStands`): while the project was never switched under a request, all requests
  are about the project that is active, and what the panel does not yet show is asked
  for, in two stages for the impact of a change of schema.
* **Settings** (`DashboardProofs`): `SettingsAreStored`, from an invariant for each
  kind of section.  A table (`TableInv`): unless the answer to a change is still on its
  way, which will have the rows read again, the rows it holds and those on their way
  are the rows there are.  A form (`RecordInv`): a save under way, merged into the
  record as it stands, gives what the user wants, and once written the record is that
  (`SaveStands`); the hard part is what the form holds meanwhile, because it sends
  along what it shows of the other fields: it must be true but for the key of a
  provider, which is never sent back (`ViewTrue`).  The members of a project
  (`MemberInv`): of every user the list says what the table says, or the answer that
  will correct the list is on its way; one user's changes do not disturb another's
  rows, in whatever order they are served and answered.
* **Costs** (`DashboardProofs`): `CostsAlwaysAddUp`.  The invariant says that every
  cell of the page, and every answer on its way to one, holds breakdowns that add up
  (`CostInv`); the work is in the sums.  A sum over a finite set is proved to be the
  number of its units, pairs of an element and a number up to its value; then what is
  counted group by group is counted once (`SumOfGroups`, `EntriesAddUp`), which is said
  of the engine's rows, of the tables made of them, and of the page's filters.
* **Trace** (`DashboardProofs`): `TreesAreWhole`.  The rows are the least set that has
  the roots and, of each row that is open, the children; the invariant `TreeInv` says
  that what is collapsed or has its payload open is a row.  `RowsGrow`, `RowsMeet` and
  `RowCollapses` compare the rows of different sets of open rows: those of a larger set
  are more, a row under either of two sets is one under what they have in common, and
  collapsing a row leaves it a row.  With every row open, every span that is not hidden
  is a row (`AllRows`), because no span descends from itself.
* **Overview and scans** (`DashboardProofs`): `ReportsStayTrue`.  Every cell of SWR's
  cache holds the answer to its own address (`HomeInv`), so what is shown is of the
  window and project looked at, whatever arrives late.  The card of the sessions is
  compared with the spans for windows up to the week of the trends; an address may name
  a longer one, though no button does.  A visit waits for one scan at most, and shows the results of an earlier one, of the
  project it names unless that was switched while that scan was under way (`ScanInv`);
  its findings, counted by severity, are as many, and a server that is called clean has
  none or its scan broke off.
* **List of agents** (`CatalogProofs`): `AgentsAreTold`.  What SWR holds of a window is
  the history as it was when the window was read, and unless that window is marked as
  behind it is what the API would say (`AgentInv`, `WindowTells`): of more sessions than
  the page asks for, the newest, which are sessions like others (`NewestIsWork`).  The page adds up
  sessions in a fold over a sequence; the fold is proved to be the only function that
  satisfies its recursion on the prefixes, and so to be the sum (`Summed`).
* **Session page** (`PageProofs`): `GraphsAreWhole`, `PanelsAlwaysAgree`,
  `NothingEverSticks`. All three are about what is drawn of one trace with any groups
  and paths open, so the invariant says no more than that the page shows a trace that
  was recorded or none (`ShowsTrace`); the argument is counting. `HeadOf` is the node
  that counts a call: the server's, the caller's share or the call's own, as the server
  is folded. It groups the calls of a server, each group is what its node counts, and
  the heads are the nodes that hang behind no other node of the server, in the drawing
  and not only in the list of edges, so their counts add up to the server's calls and
  their errors to the failed ones.  Calls without an agent's name have no caller in the
  drawing; they are counted, but no arrow leads to them.  An agent to which only such
  spans hand over is the one that has no arrow. The panels group the same calls by
  caller and by the edge that leads to the node. The edge to a call drawn by itself has
  the button that folds its path (`ShownCanFold`); a path of several calls that is not
  drawn has a line on the node of its caller's share, or of the server if it has one
  caller, and else the server is a group that can be opened (`HiddenCanUnfold`).  This is of
  every caller, with or without a name; only the calls without a name of a group that
  is open hang on no node, and have no button of their own (`Unanchored`).
* **Alert inbox** (`PageProofs`): `NothingComesBack`.  Nothing makes an alert that
  was acknowledged, resolved or snoozed active again (`Gone`; a snooze that ends leaves
  the stored status), so what the API reads afterwards cannot show it.  What was read
  before is the danger, and the invariant says that no such answer is on its way
  (`NotComing`): the success of a change asks anew for the list of the tab and for the
  counts, and SWR drops what was under way for the same address.
* **Live page** (`SpanDeliveryProofs`): `RowsNeverFallBack`.  That what is counted is a
  number, in the store, in every answer and on the page (`Counted`), is inductive by
  itself; then a merge adds one to a row and drops idle rows only, and a seed goes under
  what is there.

The first lemmas of `BreakerProofs` say what each method does to the phase and to the
counters, and are stated for records, without reference to who holds them.  The parts
of `DashboardPages` and of `CatalogPage` share no variable but the one that says which
part is looked at; each invariant is proved of its part's own actions, and one lemma
(`PartSteps`) carries it over to the composition.  Most of the inductive
invariants were invariants of a TLC run on a small instance before they were proved.

Induction over data is beyond the prover as a rule of inference, so it is done in the
logic of sets: of the subsets of a finite set that lack a property there is a smallest
(`SmallestBad`, from the well-foundedness of the subset ordering), of the prefixes of
a sequence that lack it a shortest, and either has an element whose removal leaves the
property true.

Only model-checked is every liveness property (`Recovers`, `DeadServerIsCutOff`,
`Converges`, `LeavesTheBuffer`, `Settles`, both `CatchesUp`), because fairness is
beyond the prover.

## What the models leave out

* An `opened_at` that lies in the reader's future (processes on machines with
  different boot times) only makes the cooldown longer; negative ages are not modelled.
* The client's limit on breakers: beyond it the oldest is forgotten, and a server whose
  breaker was forgotten starts CLOSED again.
* Signing in while the database fails: the lockout then does not hold, by design.
* What the page of servers keeps of another project (histories, an investigation): it
  is in `ServerTable` and `ServerPanels`, but no property speaks of it.
* `CallGuard` has the in-process breaker.  With Redis, the first check of a process
  awaits the load; the interleavings this adds to the breaker are in `SharedBreaker`.
* `close` is called once, the application awaits it before its loop ends, and
  `LoopStops` happens with no integration's flush in flight.
* Duplicates at the server: a POST that timed out but arrived counts as failed in
  `SpanDelivery`; that the span is then stored twice is in `SpanTree`.
* Hashing, redaction, wording, logging, and the HTTP layer.
* On the pages: charts, formats, the order of rows where nothing depends on it,
  latencies and prices, and what the header comment of each module lists.

## Not modelled

* The website (`src/website`): static pages, about a third of the TypeScript of the
  repository, without state.
* The dashboard's charts, markdown, health page and layout, which show what they are
  given.
* The alert engine and its monitor loop, the alert dispatcher, and the accumulated
  tags of sessions: sequential state machines of their own, not yet written.
* The LLM wrappers with their queue of announced tools, and the frameworks' callbacks:
  parsing of other libraries' objects; their flushes are in `SpanDelivery`.
* `_apply_remote_config` of the SDK, which replaces thresholds mid-session.
* Storage: SQL, as far as no module above relies on a query.
* Rate limits (the slowapi library's), reliability, replay and lineage (queries
  without state), the scanner and the investigation (one pass over external data), the
  CLI (arguments).

## Plan

Done: the breaker, the guard that every call goes through, the shared breaker,
delivery and its refinement, the schema tracker, and the pages of the dashboard with
the routes behind them.  Next, by what they would add:

1. `HealthMonitor`: the alert engine over `SchemaDrift`'s checks, restarts seeded from
   history, one alert per incident and one recovery, the dispatcher's deduplication.
2. `SessionTagging`: workers that accumulate spans, the tag in the database, one alert
   per session.
3. Remote configuration: `CallGuard` with thresholds that change mid-session, among
   them loop thresholds larger than the window.
4. Proofs: that the processes of `SharedBreaker`, once loaded, implement
   `CircuitBreaker`.
