-------------------------- MODULE PreventionTab -------------------------------
(***************************************************************************)
(* The two places where the prevention configuration of an agent is edited:*)
(* an override of the project's default, both kept by the API              *)
(* (api/routers/prevention_config.py), either of which may be missing.     *)
(* One is the Guards tab of the agent (PreventionTab in                    *)
(* src/dashboard/app/(dashboard)/agents/page.tsx), the other the section   *)
(* of the settings that lists them all (PreventionSection in               *)
(* settings/page.tsx).                                                     *)
(*                                                                         *)
(* The tab loads the effective configuration when it is mounted, when the  *)
(* project changes and after a reset.  A load does not end an earlier one, *)
(* and whatever answer arrives last fills the form.                        *)
(*                                                                         *)
(* The section has one form for all its rows, and its requests name no     *)
(* project: they are refused unless the API is bound to one, by its        *)
(* configuration or by the key of the dashboard's proxy.                   *)
(*                                                                         *)
(* Left out: the fields, which are one value here; other agents; the list  *)
(* of known agents, from which a name is chosen, or typed when it is empty;*)
(* users that are no administrators, whose changes are refused.            *)
(***************************************************************************)
EXTENDS Naturals, Fetching

CONSTANTS
    Projects,       \* the projects the agent is in
    Bindings,       \* what the API may be bound to: projects, AllProjects if to none
    Thresholds,     \* the configurations there can be
    Unfit,          \* forms that the API refuses, as one whose soft alert is left blank
    Overridden,     \* the overrides that the section may start with
    Defaulted,      \* ... and the defaults
    MaxSteps        \* bound: edits, clicks, switches, failures, changes by others

Unset == "unset"
Forms == Thresholds \cup Unfit
AllProjects == "all"
NoRow   == "none"
TabForm == "tab"
Rows  == {"*", "agent"}

ASSUME PreventionAssumption ==
    /\ AllProjects \notin Projects /\ Bindings \subseteq Projects \cup {AllProjects}
    /\ Unset \notin Thresholds \cup Unfit /\ Thresholds \cap Unfit = {}
    /\ Overridden \subseteq [Projects -> Thresholds \cup {Unset}]
    /\ Defaulted \subseteq [Projects -> Thresholds \cup {Unset}]
    /\ MaxSteps \in Nat

VARIABLES
    overrides,      \* prevention_config: the agent's in each project, or Unset
    defaults,       \* ... and the one of "*"
    binding,        \* the project the API is bound to, or AllProjects
    project,        \* the active project
    values,         \* the form
    isDefault,
    loading,
    saving,
    tasks,          \* requests under way
    configs,        \* of the section: what SWR holds of each project's list
    editing,        \* ... and the row whose form is open; of the tab, its own
    edited,         \* the form was edited since it was filled
    clashed,        \* a switch, a save or a reset met another request, or one failed
    steps

sectionVars == <<configs, editing>>
guardVars == <<overrides, defaults, binding, project, values, isDefault, loading, saving, tasks,
               sectionVars, edited, clashed, steps>>

-----------------------------------------------------------------------------
\* The project a request is about: the binding goes before what it names.
NamedFirst(p) == IF p = AllProjects THEN binding ELSE p     \* Mutant: after it.
Resolve(p) == IF binding = AllProjects THEN p ELSE binding

\* The API: the override, or else the default; 404 when there is neither.
Config(v, default) == [value |-> v, is_default |-> default]
Default(p) == IF defaults[p] = Unset THEN {} ELSE {Config(defaults[p], TRUE)}
Effective(p) == IF overrides[p] = Unset THEN Default(p) ELSE {Config(overrides[p], FALSE)}
Stored(p, r) == IF r = "*" THEN defaults[p] ELSE overrides[p]
\* All that are stored; none when no project is known.
ListConfigs(p) == IF p = AllProjects THEN <<>>
                  ELSE [r \in {r \in Rows : Stored(p, r) # Unset} |-> Stored(p, r)]

Task(kind) == [id |-> steps, kind |-> kind, row |-> NoRow, page |-> project, project |-> project,
               value |-> values, answered |-> FALSE, found |-> {}]

GuardInit ==
    /\ overrides \in [Projects -> Thresholds \cup {Unset}]
    /\ defaults \in [Projects -> Thresholds \cup {Unset}]
    /\ binding \in Bindings
    /\ project \in Projects
    /\ values = "initial" /\ isDefault = FALSE
    /\ loading = TRUE /\ saving = FALSE
    /\ configs = [p \in Projects \cup {AllProjects} |-> Closed] /\ editing = TabForm
    /\ steps = 0
    /\ tasks = {Task("load")}
    /\ edited = FALSE /\ clashed = FALSE

Step == steps < MaxSteps /\ steps' = steps + 1
Meets == clashed' = (clashed \/ tasks # {})

-----------------------------------------------------------------------------
\* The user: the form is there unless it is loading.

Edit(v) ==
    /\ ~loading /\ v # values /\ Step
    /\ values' = v /\ edited' = TRUE
    /\ UNCHANGED <<overrides, defaults, project, isDefault, loading, saving, tasks, clashed>>
HandleSave ==
    /\ ~loading /\ ~saving /\ Step
    /\ saving' = TRUE
    /\ tasks' = tasks \cup {Task("save")}
    /\ Meets
    /\ UNCHANGED <<overrides, defaults, project, values, isDefault, loading, edited>>
\* Nothing disables the link, which can be clicked twice.
HandleReset ==
    /\ ~loading /\ ~isDefault /\ Step
    /\ tasks' = tasks \cup {Task("delete")}
    /\ clashed' = (clashed \/ \E t \in tasks : t.kind # "delete")
    /\ UNCHANGED <<overrides, defaults, project, values, isDefault, loading, saving, edited>>
SwitchProject(p) ==
    /\ p # project /\ Step
    /\ project' = p
    /\ loading' = TRUE
    /\ tasks' = tasks \cup {[Task("load") EXCEPT !.project = p, !.page = p]}
    /\ Meets
    /\ UNCHANGED <<overrides, defaults, values, isDefault, saving, edited>>

-----------------------------------------------------------------------------
\* The API answers.

Found(t) ==
    LET p == Resolve(t.project)
    IN  IF p = AllProjects THEN {}      \* refused
        ELSE CASE t.kind = "load"     -> Effective(p)
               [] t.kind = "fallback" -> Default(p)
               [] t.kind = "save"     -> IF t.value \in Unfit THEN {} ELSE {Config(t.value, FALSE)}
               [] t.kind = "delete"   -> IF overrides[p] = Unset THEN {} ELSE {Config(Unset, TRUE)}
Writes(t, row, old) ==
    IF Found(t) = {} \/ (t.row = "*") # (row = "*") THEN old
    ELSE CASE t.kind = "save"   -> [old EXCEPT ![Resolve(t.project)] = t.value]
           [] t.kind = "delete" -> [old EXCEPT ![Resolve(t.project)] = Unset]
           [] OTHER -> old
Answer(t) ==
    /\ ~t.answered
    /\ tasks' = (tasks \ {t}) \cup {[t EXCEPT !.answered = TRUE, !.found = Found(t)]}
    /\ overrides' = Writes(t, "agent", overrides)
    /\ defaults' = Writes(t, "*", defaults)
    /\ UNCHANGED <<project, values, isDefault, loading, saving, edited, clashed, steps>>

\* applyConfig fills the whole form and says where it is from.
ApplyConfig(config) ==
    /\ values' = config.value /\ isDefault' = config.is_default
    /\ edited' = FALSE
Continues(t, kind) == (tasks \ {t}) \cup {[t EXCEPT !.kind = kind, !.answered = FALSE, !.found = {}]}

\* load: whatever goes wrong with the effective configuration, the default is
\* tried; without one the form stays as it is, as a default's.
LoadEnds(t, found) ==
    /\ t.kind \in {"load", "fallback"}
    /\ \/ \E config \in found :
            /\ ApplyConfig([config EXCEPT !.is_default = @ \/ t.kind = "fallback"])
            /\ loading' = FALSE
            /\ tasks' = tasks \ {t}
       \/ /\ found = {} /\ t.kind = "load"
          /\ tasks' = Continues(t, "fallback")
          /\ UNCHANGED <<values, isDefault, loading, edited>>
       \/ /\ found = {} /\ t.kind = "fallback"
          /\ isDefault' = TRUE
          /\ loading' = FALSE
          /\ tasks' = tasks \ {t}
          /\ UNCHANGED <<values, edited>>
    /\ UNCHANGED saving
SaveEnds(t, found) ==
    /\ t.kind = "save"
    /\ \/ \E config \in found : ApplyConfig(config)
       \/ found = {} /\ UNCHANGED <<values, isDefault, edited>>
    /\ saving' = FALSE
    /\ tasks' = tasks \ {t}
    /\ UNCHANGED loading
\* handleReset loads again when the override is removed.
ResetEnds(t, found) ==
    /\ t.kind = "delete"
    /\ IF found # {}
       THEN tasks' = Continues(t, "load") /\ loading' = TRUE
       ELSE tasks' = tasks \ {t} /\ UNCHANGED loading
    /\ UNCHANGED <<values, isDefault, saving, edited>>
Ends(t, found) == LoadEnds(t, found) \/ SaveEnds(t, found) \/ ResetEnds(t, found)
Arrives(t) ==
    /\ t.answered
    /\ Ends(t, t.found)
    /\ UNCHANGED <<overrides, defaults, project, clashed, steps>>
Fails(t) ==
    /\ Step
    /\ clashed' = TRUE
    /\ Ends(t, {})
    /\ UNCHANGED <<overrides, defaults, project>>

OthersSave(p, v) ==
    /\ Step
    /\ v # overrides[p]
    /\ overrides' = [overrides EXCEPT ![p] = v]
    /\ clashed' = (clashed \/ p = Resolve(project))
    /\ UNCHANGED <<defaults, project, values, isDefault, loading, saving, tasks, edited>>

GuardNext ==
    /\ UNCHANGED <<binding, sectionVars>>
    /\ \/ \E v \in Forms : Edit(v)
       \/ HandleSave \/ HandleReset
       \/ \E p \in Projects : SwitchProject(p) \/ \E v \in Thresholds \cup {Unset} : OthersSave(p, v)
       \/ \E t \in tasks : Answer(t) \/ Arrives(t) \/ Fails(t)

-----------------------------------------------------------------------------
\* The settings' section

SectionInit ==
    /\ overrides \in Overridden
    /\ defaults \in Defaulted
    /\ binding \in Bindings
    /\ project \in Projects \cup {AllProjects}
    /\ values = "initial" /\ isDefault = FALSE
    /\ loading = FALSE /\ saving = FALSE
    /\ configs = [p \in Projects \cup {AllProjects} |-> IF p = project THEN Fresh ELSE Closed]
    /\ editing = NoRow
    /\ tasks = {} /\ steps = 0
    /\ edited = FALSE /\ clashed = FALSE

ConfigsCell == configs[project]
ShownRows == IF Loaded(ConfigsCell) THEN Data(ConfigsCell) ELSE <<>>
\* The default has its place in the list, stored or not; an override only when
\* it is listed.
HasPlace(r) == \/ r \in DOMAIN ShownRows
               \/ r = "*" /\ (Loaded(ConfigsCell) \/ Quiet(ConfigsCell))
FormOpen == HasPlace(editing)
Unedited == UNCHANGED <<isDefault, loading, edited>>

StartEdit(r) ==
    /\ r # editing /\ HasPlace(r)
    /\ Step
    /\ editing' = r
    /\ values' = IF r \in DOMAIN ShownRows THEN ShownRows[r] ELSE "initial"
    /\ UNCHANGED <<overrides, defaults, project, saving, tasks, configs, clashed>> /\ Unedited
\* The name chosen or typed, which gets no place in the list: with a new one no
\* form opens.
AddAgent(r) ==
    /\ Step
    /\ editing' = r /\ values' = "initial"
    /\ UNCHANGED <<overrides, defaults, project, saving, tasks, configs, clashed>> /\ Unedited
SetForm(v) ==
    /\ FormOpen /\ v # values /\ Step
    /\ values' = v
    /\ UNCHANGED <<overrides, defaults, project, saving, tasks, sectionVars, clashed>> /\ Unedited
CancelEdit ==
    /\ FormOpen
    /\ editing' = NoRow
    /\ UNCHANGED <<overrides, defaults, project, values, saving, tasks, configs, clashed, steps>>
    /\ Unedited
\* Without the project's id.
Nameless(kind, r, v) == [Task(kind) EXCEPT !.row = r, !.project = AllProjects, !.value = v]
SaveRow ==
    /\ FormOpen /\ ~saving /\ Step
    /\ saving' = TRUE
    /\ tasks' = tasks \cup {Nameless("save", editing, values)}
    /\ UNCHANGED <<overrides, defaults, project, values, sectionVars, clashed>> /\ Unedited
RemoveRow ==
    /\ "agent" \in DOMAIN ShownRows /\ editing # "agent" /\ Step
    /\ tasks' = tasks \cup {Nameless("delete", "agent", Unset)}
    /\ UNCHANGED <<overrides, defaults, project, values, saving, sectionVars, clashed>> /\ Unedited
\* The form stays open, as it is.
ShowProject(p) ==
    /\ p # project /\ Step
    /\ project' = p
    /\ configs' = [configs EXCEPT ![p] = Joining(@)]
    /\ clashed' = (clashed \/ tasks # {} \/ ~Quiet(ConfigsCell))
    /\ UNCHANGED <<overrides, defaults, values, saving, tasks, editing>> /\ Unedited

\* mutate() asks for the list of the project that is active now, and is awaited.
RowAnswered(t) ==
    /\ t.row # NoRow /\ t.answered
    /\ IF t.found # {}
       THEN /\ tasks' = (tasks \ {t}) \cup
                    {[t EXCEPT !.kind = IF @ = "save" THEN "saved" ELSE "removed",
                               !.project = project, !.answered = FALSE]}
            /\ configs' = [configs EXCEPT ![project] = Asking(@)]
            /\ UNCHANGED saving
       ELSE /\ tasks' = tasks \ {t}
            /\ saving' = (saving /\ t.kind # "save")
            /\ UNCHANGED configs
    /\ UNCHANGED <<overrides, defaults, project, values, editing, clashed, steps>> /\ Unedited
\* A save closes the form that is open by now, of whichever row.
RowDone(t) ==
    /\ t.kind \in {"saved", "removed"} /\ Quiet(configs[t.project])
    /\ tasks' = tasks \ {t}
    /\ saving' = (saving /\ t.kind # "saved")
    /\ editing' = IF t.kind = "saved" THEN NoRow ELSE editing
    /\ UNCHANGED <<overrides, defaults, project, values, configs, clashed, steps>> /\ Unedited
RowFails(t) ==
    /\ t.kind \in {"save", "delete"} /\ Step
    /\ tasks' = tasks \ {t}
    /\ saving' = (saving /\ t.kind # "save")
    /\ clashed' = TRUE
    /\ UNCHANGED <<overrides, defaults, project, values, sectionVars>> /\ Unedited

\* The browser comes back online.
ConfigsChange(p, cell) ==
    /\ configs' = [configs EXCEPT ![p] = cell]
    /\ UNCHANGED <<overrides, defaults, project, values, saving, tasks, editing>> /\ Unedited
ConfigsRefresh == /\ Quiet(ConfigsCell) /\ ConfigsCell.data # {ListConfigs(Resolve(project))}
                  /\ ConfigsChange(project, Asking(ConfigsCell))
                  /\ UNCHANGED <<clashed, steps>>
ConfigsRead(p) == /\ IsSent(configs[p])
                  /\ ConfigsChange(p, Reading(configs[p], ListConfigs(Resolve(p))))
                  /\ UNCHANGED <<clashed, steps>>
ConfigsArrive(p) == /\ IsAnswered(configs[p])
                    /\ ConfigsChange(p, Arrived(configs[p]))
                    /\ UNCHANGED <<clashed, steps>>
ConfigsFail(p) == /\ ~Quiet(configs[p]) /\ Step
                  /\ ConfigsChange(p, Lost(configs[p]))
                  /\ clashed' = TRUE

SectionNext ==
    /\ UNCHANGED binding
    /\ \/ \E r \in Rows : StartEdit(r) \/ AddAgent(r)
       \/ \E v \in Forms : SetForm(v)
       \/ CancelEdit \/ SaveRow \/ RemoveRow \/ ConfigsRefresh
       \/ \E p \in Projects \cup {AllProjects} :
              ShowProject(p) \/ ConfigsRead(p) \/ ConfigsArrive(p) \/ ConfigsFail(p)
       \/ \E p \in Projects, v \in Thresholds \cup {Unset} :
              OthersSave(p, v) /\ UNCHANGED sectionVars
       \/ \E t \in tasks : \/ t.kind \in {"save", "delete"} /\ Answer(t) /\ UNCHANGED sectionVars
                           \/ RowAnswered(t) \/ RowDone(t) \/ RowFails(t)

-----------------------------------------------------------------------------
\* At rest the tab says which configuration the agent has in the active project
\* and whether it is its own ("Agent-specific config") or not ("Using project
\* default"), after any edits, saves, resets and switches of project, as long
\* as they do not overlap and no request fails.
BannerIsTrue ==
    editing = TabForm /\ tasks = {} /\ ~clashed
        => /\ isDefault = (overrides[Resolve(project)] = Unset)
           /\ \A config \in Effective(Resolve(project)) : edited \/ values = config.value

\* Although its requests name no project, what the section changes is the list
\* that the user was looking at; and at rest the list is what is stored, however
\* saves, removals and their answers overlapped, as long as no request failed, no
\* one else acted there, and the project was not switched meanwhile.
SectionIsTrue ==
    /\ \A t \in tasks : t.row # NoRow /\ t.found # {} => Resolve(AllProjects) = Resolve(t.page)
    /\ editing # TabForm /\ tasks = {} /\ ~clashed /\ Quiet(ConfigsCell)
           => \A d \in ConfigsCell.data : d = ListConfigs(Resolve(project))

\* Both forms tell, at rest, what is stored in the project they show.
FormsAreTrue == BannerIsTrue /\ SectionIsTrue
=============================================================================
