-------------------------------- MODULE Teams --------------------------------
(***************************************************************************)
(* The team a run works with: the check before a run is made               *)
(* (runtime/orchestrator.py, precheck), the agents a user selects and      *)
(* those the Master recommends (runtime/team_selection.py), the snapshot   *)
(* of both that the run keeps while the configuration is edited, and what  *)
(* a resume or a fork makes of it.                                         *)
(*                                                                         *)
(* An agent has its tools, prompts and connection with its id; of its      *)
(* settings the model and whether it is enabled can be edited here.  A     *)
(* plan is the set of the owners of its tasks (Plans has the graph).       *)
(***************************************************************************)
EXTENDS Naturals, Sequences, FiniteSets

CONSTANTS
    Agents, Role, Locked, Name, Conn,   \* the configured agents
    TeamIds,        \* ids of generated members, in order; an agent may have one of them
    Given,          \* names that the Master gives to members
    Connections, Models,
    ReviewRequired,
    Kinds,          \* ways to choose a team: "fixed", "selected", "adaptive"
    MaxMembers,
    MaxEdits, MaxCrashes    \* (bounds)

Runs == {"first", "fork"}
Coordinators == {"master", "reporter"}
NoTeam == [members |-> {}, probed |-> [c \in Connections |-> "none"]]

VARIABLES
    config,     \* AppService.config: team mode, enabled agents, models, probed models
    runs,       \* the rows of the runs
    live,       \* RunRuntime.config of the runs that execute
    chosen,     \* (history) the run that made the plan of a run, and its team then
    base,       \* (history) the configuration from which the team was made
    edits, crashes

vars == <<config, runs, live, chosen, base, edits, crashes>>
historyVars == <<chosen, base>>

Executing(r) == runs[r].at \in {"choosing", "chosen", "planning", "working"}

TypeOK ==
    /\ config.single \in BOOLEAN /\ config.on \subseteq Agents
    /\ config.model \in [Agents -> Models]
    /\ config.probed \in [Connections -> Models \cup {"none"}]
    /\ \A r \in Runs :
         /\ runs[r].at \in {"none", "blocked", "queued", "choosing", "chosen", "planning",
                            "working", "completed", "partial", "failed", "interrupted"}
         /\ runs[r].rec \in BOOLEAN /\ runs[r].tries \in 0..3
         /\ Executing(r) <=> live[r] # NoTeam
    /\ edits \in 0..MaxEdits /\ crashes \in 0..MaxCrashes

NoRun == [at |-> "none", kind |-> "fixed", sel |-> {}, team |-> NoTeam, rec |-> FALSE,
          owners |-> {}, tries |-> 0]

Init ==
    /\ \E single \in BOOLEAN :
         config = [single |-> single,
                   on |-> IF single THEN {a \in Agents : Role[a] = "builder" /\ ~Locked[a]} ELSE Agents,
                   model |-> [a \in Agents |-> CHOOSE m \in Models : TRUE],
                   probed |-> [c \in Connections |-> CHOOSE m \in Models : TRUE]]
    /\ runs = [r \in Runs |-> NoRun] /\ live = [r \in Runs |-> NoTeam]
    /\ chosen = [r \in Runs |-> [by |-> r, team |-> NoTeam]] /\ base = [r \in Runs |-> config]
    /\ edits = 0 /\ crashes = 0
-----------------------------------------------------------------------------
(* Edits of the configuration *)

Edit ==
    /\ edits < MaxEdits /\ edits' = edits + 1
    /\ \/ \E a \in Agents :
            config' = [config EXCEPT !.on = IF a \in @ THEN @ \ {a} ELSE @ \cup {a}]
       \/ \E a \in Agents, m \in Models : config' = [config EXCEPT !.model[a] = m]
       \/ \E c \in Connections, m \in Models \cup {"none"} : config' = [config EXCEPT !.probed[c] = m]
    /\ UNCHANGED <<runs, live, historyVars, crashes>>
-----------------------------------------------------------------------------
(* Teams *)

Member(a, id, name, on) == [id |-> id, of |-> a, name |-> name, on |-> on, model |-> config.model[a]]
Configured == [members |-> {Member(a, a, Name[a], a \in config.on) : a \in Agents},
               probed |-> config.probed]

On(team) == {m \in team.members : m.on}
Ids(members) == {m.id : m \in members}
Of(team, roles) == {m \in On(team) : Role[m.of] \in roles}
Specialists(team) == On(team) \ Of(team, Coordinators)

\* precheck: the shape of the team, and each agent's model passed on its connection.
\* (mutant of Precheck) Any probe of the connection counts.
PrecheckAnyProbe(team, single) ==
    /\ IF single THEN Cardinality(Of(team, {"builder"})) = 1 /\ On(team) = Of(team, {"builder", "reporter"})
       ELSE Of(team, {"master"}) # {}
    /\ \A m \in On(team) : team.probed[Conn[m.of]] # "none"
Precheck(team, single) ==
    /\ IF single THEN Cardinality(Of(team, {"builder"})) = 1 /\ On(team) = Of(team, {"builder", "reporter"})
       ELSE Of(team, {"master"}) # {}
    /\ \A m \in On(team) : team.probed[Conn[m.of]] = m.model

\* compile_roster and choose_roster both end with these.
Staffed(members) ==
    /\ \E m \in members : Role[m.of] # "reviewer"
    /\ ReviewRequired => \E m \in members : Role[m.of] = "reviewer"

\* choose_roster: the other specialists are disabled.
Selectable(team, sel) ==
    sel # {} /\ sel \subseteq Ids(Specialists(team)) /\ Staffed({m \in team.members : m.id \in sel})
Selected(team, sel) ==
    [team EXCEPT !.members =
        {IF Role[m.of] \in Coordinators THEN m ELSE [m EXCEPT !.on = m.id \in sel] : m \in @}]

\* compile_roster: a locked template stays who it is, others are copied under the
\* first free id from the place of the member on.
\* (mutant of NameOf) The proposed name is the one that is looked at.
NameAsGiven(p) == p.name
NameOf(p) == IF Locked[p.of] THEN Name[p.of] ELSE p.name
FreeId(i, used) == TeamIds[CHOOSE j \in i..Len(TeamIds) :
                             TeamIds[j] \notin used /\ \A k \in i..(j - 1) : TeamIds[k] \in used]
IdsOf(ps) ==
    LET used[i \in 0..Len(ps)] ==
            IF i = 0 THEN Agents
            ELSE used[i - 1] \cup {FreeId(i, used[i - 1]) : x \in {1} \ {IF Locked[ps[i].of] THEN 1 ELSE 0}}
    IN [i \in 1..Len(ps) |-> IF Locked[ps[i].of] THEN ps[i].of ELSE FreeId(i, used[i - 1])]

\* The first enabled master; names and ids are distinct, its own included.
TheMaster(team) == CHOOSE m \in Of(team, {"master"}) : TRUE
Distinct(f) == \A i, j \in DOMAIN f : f[i] = f[j] => i = j
Recommendable(team, ps) ==
    /\ Of(team, {"master"}) # {}
    /\ \A i \in 1..Len(ps) : ps[i].of \in {m.of : m \in Specialists(team)}
    /\ LET names == [i \in 1..Len(ps) |-> NameOf(ps[i])] IN
         Distinct(names) /\ \A i \in 1..Len(ps) : names[i] # TheMaster(team).name
    /\ Distinct(IdsOf(ps)) /\ \A i \in 1..Len(ps) : IdsOf(ps)[i] # TheMaster(team).id
    /\ Staffed({[of |-> ps[i].of] : i \in 1..Len(ps)})
Compiled(team, ps) ==
    LET template(a) == CHOOSE m \in team.members : m.of = a
        member(i) == [template(ps[i].of) EXCEPT
                        !.id = IdsOf(ps)[i],
                        !.name = IF Locked[ps[i].of] THEN @ ELSE ps[i].name]
    IN [team EXCEPT !.members = {TheMaster(team)} \cup {member(i) : i \in 1..Len(ps)}]

\* As many members as the run may have tasks.
Proposals == UNION {[1..n -> [of : Agents, name : Given]] : n \in 1..MaxMembers}
-----------------------------------------------------------------------------
(* A run is made *)

NewRun(kind, sel, team, owners, at) ==
    [NoRun EXCEPT !.at = at, !.kind = kind, !.sel = sel, !.team = team, !.owners = owners]

\* create_run: a run with problems is stored as blocked.
Create ==
    /\ runs["first"].at = "none"
    /\ \E kind \in Kinds, sel \in SUBSET Agents :
         LET ok == kind # "selected" \/ (~config.single /\ Selectable(Configured, sel))
             team == IF kind = "selected" /\ ok THEN Selected(Configured, sel) ELSE Configured
             at == IF ok /\ Precheck(team, config.single) THEN "queued" ELSE "blocked"
         IN
         /\ kind = "selected" <=> sel # {}
         /\ runs' = [runs EXCEPT !["first"] = NewRun(kind, sel, team, {}, at)]
    /\ base' = [base EXCEPT !["first"] = config]
    /\ UNCHANGED <<config, live, chosen, edits, crashes>>

\* fork: an explicit selection keeps its snapshot, all others take the configuration
\* in force; the plan is the one of the source, and nothing looks at its owners.
\* (mutant of ForkTeam) Every fork keeps the snapshot.
ForkTeamOfSource(src) == src.team
ForkTeam(src) == IF src.kind = "selected" THEN src.team ELSE Configured
Overridden(team, a, m) ==
    [team EXCEPT !.members = {IF x.id = a THEN [x EXCEPT !.model = m] ELSE x : x \in @}]
Fork ==
    LET src == runs["first"] IN
    /\ src.at # "none" /\ runs["fork"].at = "none"
    /\ src.kind = "selected" => ~config.single /\ Selectable(ForkTeam(src), src.sel)
    /\ \E a \in Agents, m \in Models :
         LET kept == IF src.kind = "selected" THEN Selected(ForkTeam(src), src.sel) ELSE ForkTeam(src)
             team == Overridden(kept, a, m)
         IN
         /\ Precheck(team, config.single)
         /\ runs' = [runs EXCEPT !["fork"] = NewRun(src.kind, src.sel, team, src.owners, "queued")]
         /\ chosen' = [chosen EXCEPT !["fork"] = IF src.owners # {} THEN chosen["first"] ELSE @]
    /\ base' = [base EXCEPT !["fork"] = IF src.kind = "selected" THEN base["first"] ELSE config]
    /\ UNCHANGED <<config, live, edits, crashes>>
-----------------------------------------------------------------------------
(* A run executes *)

\* The configuration of a run is the one of its snapshot.
\* (mutant of Loaded) It is the one in force.
LoadedCurrent(r) == Configured
Loaded(r) == runs[r].team

Moved(r, at) == runs' = [runs EXCEPT ![r].at = at, ![r].tries = 0]
Ends(r, at) == Moved(r, at) /\ live' = [live EXCEPT ![r] = NoTeam]

\* _execute; a run that has a plan resumes it.
Execute(r) ==
    LET recommends == runs[r].kind = "adaptive" /\ ~config.single /\ ~runs[r].rec IN
    /\ runs[r].at = "queued"
    /\ live' = [live EXCEPT ![r] = Loaded(r)]
    /\ Moved(r, IF runs[r].owners # {} THEN "working" ELSE IF recommends THEN "choosing" ELSE "planning")
    /\ UNCHANGED <<config, historyVars, edits, crashes>>

\* A proposal that is refused, as some always are, may be corrected twice.
Refused(r) ==
    IF runs[r].tries = 2 THEN Ends(r, "failed")
    ELSE runs' = [runs EXCEPT ![r].tries = @ + 1] /\ UNCHANGED live

Recommend(r) ==
    /\ runs[r].at = "choosing"
    /\ \/ \E ps \in Proposals :
            /\ Recommendable(live[r], ps)
            /\ live' = [live EXCEPT ![r] = Compiled(live[r], ps)]
            /\ Moved(r, "chosen")
       \/ Refused(r)
    /\ UNCHANGED <<config, historyVars, edits, crashes>>

\* (mutant of SavedTeam) The recommendation is stored, and not what it makes.
SavedTeamOld(r) == runs[r].team
SavedTeam(r) == live[r]
SaveTeam(r) ==
    /\ runs[r].at = "chosen"
    /\ runs' = [runs EXCEPT ![r].at = "planning", ![r].rec = TRUE, ![r].team = SavedTeam(r)]
    /\ UNCHANGED <<config, live, historyVars, edits, crashes>>

\* The owners of an acceptable plan (plan_team, single_agent_plan): the plan ends in
\* review where that is required (Plans), and all recommended members are needed.
\* (mutant of Plannable) Owners need not be enabled.
PlannableAnyOwner(r, owners) == owners # {} /\ owners \subseteq Ids(live[r].members)
Plannable(r, owners) ==
    IF config.single THEN owners = Ids(Of(live[r], {"builder"}))
    ELSE /\ owners # {} /\ owners \subseteq Ids(On(live[r]))
         /\ ReviewRequired =>
              owners \subseteq Ids(Specialists(live[r])) /\ Staffed({m \in On(live[r]) : m.id \in owners})
         /\ runs[r].kind = "adaptive" => Ids(Specialists(live[r])) \subseteq owners

MayPlan(r) ==
    config.single \/ (ReviewRequired => Of(live[r], {"reviewer"}) # {})

PlanTeam(r) ==
    /\ runs[r].at = "planning"
    /\ \/ ~MayPlan(r) /\ Ends(r, "failed") /\ UNCHANGED chosen
       \/ /\ MayPlan(r)
          /\ \E owners \in SUBSET Ids(live[r].members) :
               /\ Plannable(r, owners)
               /\ runs' = [runs EXCEPT ![r].at = "working", ![r].owners = owners, ![r].tries = 0]
          /\ chosen' = [chosen EXCEPT ![r] = [by |-> r, team |-> live[r]]]
          /\ UNCHANGED live
       \/ MayPlan(r) /\ ~config.single /\ Refused(r) /\ UNCHANGED chosen
    /\ UNCHANGED <<config, base, edits, crashes>>

\* A call of the model fails, or the work of the run ends.
Fail(r) ==
    /\ runs[r].at \in {"choosing", "planning"} /\ Ends(r, "failed")
    /\ UNCHANGED <<config, historyVars, edits, crashes>>
End(r) ==
    /\ runs[r].at = "working"
    /\ \E status \in {"completed", "partial", "failed"} : Ends(r, status)
    /\ UNCHANGED <<config, historyVars, edits, crashes>>

\* The process ends, and every run it executes is interrupted.
Crash ==
    /\ crashes < MaxCrashes /\ crashes' = crashes + 1
    /\ runs' = [r \in Runs |-> IF Executing(r) THEN [runs[r] EXCEPT !.at = "interrupted", !.tries = 0]
                               ELSE runs[r]]
    /\ live' = [r \in Runs |-> NoTeam]
    /\ UNCHANGED <<config, historyVars, edits>>

Resume(r) ==
    /\ runs[r].at \in {"partial", "failed", "interrupted"} /\ runs[r].owners # {}
    /\ Moved(r, "queued")
    /\ UNCHANGED <<config, live, historyVars, edits, crashes>>

Step(r) ==
    \/ Execute(r) \/ Recommend(r) \/ SaveTeam(r) \/ PlanTeam(r) \/ Fail(r) \/ End(r)
    \/ Resume(r)

Next == Edit \/ Create \/ Fork \/ Crash \/ \E r \in Runs : Step(r)

Spec == Init /\ [][Next]_vars
-----------------------------------------------------------------------------
(* Properties *)

\* Who is on a team: all of it but the models, which a fork may override.
Who(team) == {[id |-> m.id, of |-> m.of, name |-> m.name] : m \in On(team)}

\* A fork has the plan of its source, and takes a team of other agents for it: some
\* were enabled or disabled since, or the source's team was one recommended to it.
\* Its tasks may then have an owner that is disabled, who works, or one that the team
\* does not have, whose tasks fail (runtime/scheduler.py, _run_task).
Diverged(r) ==
    /\ chosen[r].by # r /\ runs[r].kind # "selected"
    /\ base[r].on # base[chosen[r].by].on \/ runs[chosen[r].by].rec

\* The team that works is made of agents that were enabled when it was made, with
\* their models, each under an id of its own and, where the Master recommended it, a name
\* of its own, locked ones as they are; each model has passed a probe; and a Master is
\* on it.
TeamIsProper(r) ==
    LET team == live[r] IN
    /\ \A m \in On(team) :
         /\ m.of \in base[r].on
         /\ r = "first" => m.model = base[r].model[m.of]
         /\ Locked[m.of] => m.id = m.of /\ m.name = Name[m.of]
    /\ \A m, n \in On(team) : m.id = n.id \/ (runs[r].rec /\ m.name = n.name) => m = n
    /\ \A m \in On(team) : team.probed[Conn[m.of]] = m.model
    /\ config.single \/ Of(team, {"master"}) # {}

\* Those who own its tasks are on it, a reviewer among them where one is required.
PlanFits(r) ==
    /\ runs[r].owners \subseteq Ids(On(live[r]))
    /\ ReviewRequired /\ ~config.single =>
         \E m \in On(live[r]) : m.id \in runs[r].owners /\ Role[m.of] = "reviewer"

\* A run works with a proper team; from the acceptance of its plan on with no other,
\* whatever is edited meanwhile and however often it is interrupted and resumed; and
\* a fork with the plan of its source has the agents for which it was made and fits
\* it, unless the two diverged.
TeamsHold ==
    \A r \in Runs : runs[r].at = "working" =>
        /\ TeamIsProper(r)
        /\ chosen[r].by = r => live[r] = chosen[r].team
        /\ ~Diverged(r) => Who(live[r]) = Who(chosen[r].team) /\ PlanFits(r)
=============================================================================
