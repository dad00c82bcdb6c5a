--------------------------- MODULE ConfigRevisions ---------------------------
(***************************************************************************)
(* The configuration of an installation under concurrent edits: the        *)
(* handlers of api/app.py that change it, AppService.save_config, which    *)
(* assigns the new configuration before it awaits its row, and the start   *)
(* of the service, which loads the last row.                               *)
(*                                                                         *)
(* An edit is identified with what it writes: agents and limits are one    *)
(* setting ("team"), the connection another ("conn").  The capability      *)
(* check of the connection is the settings its last probe passed with, or  *)
(* NotRun.  Edits that fail validation change nothing and are left out.    *)
(***************************************************************************)
EXTENDS Naturals, Sequences, SequencesExt

CONSTANTS
    TeamEdits,      \* requests: PATCH and POST /api/agents, PUT /api/limits
    ConnEdits,      \* requests: PUT /api/connections
    First,          \* the settings of the seed
    NotRun,         \* no check that passed
    MaxProbes,      \* (bound) probes of the connection
    MaxCrashes      \* (bound)

Edits == TeamEdits \cup ConnEdits
Probes == 1..MaxProbes
Setting(e) == IF e \in TeamEdits THEN "team" ELSE "conn"

VARIABLES
    config,     \* AppService.config
    revision,   \* AppService.config_revision
    stored,     \* the rows of config_revisions
    saving,     \* calls of save_config waiting for write_lock, in its order
    client,     \* where each edit is
    read,       \* GET /api/config: the revision each author saw
    probe,      \* where each probe is
    tested,     \* the settings each probe tests
    latest,     \* (history) the last accepted edit of each setting
    replaced,   \* (history) what was in force of its setting when an edit was accepted
    blind,      \* (history) edits that were accepted while that was in no row
    unwritten,  \* (history) the row of the configuration in force failed
    overtaken,  \* (history) probes during which the connection was edited
    up, crashes

historyVars == <<latest, replaced, blind, unwritten, overtaken>>
vars == <<config, revision, stored, saving, client, read, probe, tested, historyVars, up, crashes>>

Versions == {First} \cup Edits
Configs == [team : Versions, conn : Versions, check : Versions \cup {NotRun}]
Seed == [team |-> First, conn |-> First, check |-> NotRun]

TypeOK ==
    /\ config \in Configs /\ revision \in Nat
    /\ stored \in Seq(Configs)
    /\ \A i \in DOMAIN saving : saving[i].config \in Configs
    /\ client \in [Edits -> {"new", "read", "saving", "done", "refused", "failed", "gone"}]
    /\ probe \in [Probes -> {"new", "testing", "saving", "done", "gone"}]
    /\ tested \in [Probes -> Versions] /\ overtaken \subseteq Probes
    /\ replaced \in [Edits -> Versions] /\ blind \subseteq Edits /\ unwritten \in BOOLEAN
    /\ up \in BOOLEAN /\ crashes \in 0..MaxCrashes

Init ==
    /\ config = Seed /\ stored = <<Seed>> /\ revision = 1
    /\ saving = <<>>
    /\ client = [e \in Edits |-> "new"]
    /\ read = [e \in Edits |-> 0]
    /\ probe = [p \in Probes |-> "new"] /\ tested = [p \in Probes |-> First]
    /\ latest = [team |-> First, conn |-> First]
    /\ replaced = [e \in Edits |-> First] /\ blind = {} /\ unwritten = FALSE /\ overtaken = {}
    /\ up = TRUE /\ crashes = 0

Read(e) ==
    /\ up /\ client[e] = "new"
    /\ read' = [read EXCEPT ![e] = revision]
    /\ client' = [client EXCEPT ![e] = "read"]
    /\ UNCHANGED <<config, revision, stored, saving, probe, tested, historyVars, up, crashes>>

\* The configuration an edit makes of the present one.
\* (mutant of Edited) A new connection keeps the check of the old one.
EditedKeepingCheck(cfg, e) ==
    IF e \in TeamEdits THEN [cfg EXCEPT !.team = e] ELSE [cfg EXCEPT !.conn = e]
Edited(cfg, e) ==
    IF e \in TeamEdits THEN [cfg EXCEPT !.team = e]
    ELSE [cfg EXCEPT !.conn = e, !.check = NotRun]

Accepted(e) == client[e] \in {"saving", "done", "failed", "gone"}

\* Accepted, and in no row yet, or never.
Unwritten(v) == v \in Edits /\ client[v] \in {"saving", "failed"}

\* save_config: assigned at once, its row awaited.
\* (mutant of Assigned) Assigned when the row is there.
AssignedLate(cfg) == config
Assigned(cfg) == cfg
Save(cfg, by) ==
    /\ config' = Assigned(cfg)
    /\ saving' = Append(saving, [config |-> cfg, by |-> by])
    /\ unwritten' = FALSE

\* expected_revision is compared with the number of the last row.
\* (mutant of Expected) It is not looked at.
ExpectedOrNot(e) == TRUE
Expected(e) == read[e] = revision

Edit(e) ==
    /\ up /\ client[e] = "read" /\ Expected(e)
    /\ Save(Edited(config, e), e)
    /\ client' = [client EXCEPT ![e] = "saving"]
    /\ latest' = [latest EXCEPT ![Setting(e)] = e]
    /\ replaced' = [replaced EXCEPT ![e] = config[Setting(e)]]
    /\ blind' = IF Unwritten(config[Setting(e)]) THEN blind \cup {e} ELSE blind
    /\ overtaken' = IF e \in ConnEdits THEN overtaken \cup {p \in Probes : probe[p] = "testing"}
                    ELSE overtaken
    /\ UNCHANGED <<revision, stored, read, probe, tested, up, crashes>>

Conflict(e) ==
    /\ up /\ client[e] = "read" /\ ~Expected(e)
    /\ client' = [client EXCEPT ![e] = "refused"]
    /\ UNCHANGED <<config, revision, stored, saving, read, probe, tested, historyVars, up, crashes>>

\* A probe tests the settings of its start and marks those of its end.
ProbeStart(p) ==
    /\ up /\ probe[p] = "new"
    /\ probe' = [probe EXCEPT ![p] = "testing"]
    /\ tested' = [tested EXCEPT ![p] = config.conn]
    /\ UNCHANGED <<config, revision, stored, saving, client, read, historyVars, up, crashes>>

Marked(cfg, p, ok) == [cfg EXCEPT !.check = IF ok THEN tested[p] ELSE NotRun]

\* (mutant of Present) The configuration is copied before the provider is asked.
PresentAtStart(p) == [config EXCEPT !.conn = tested[p]]
Present(p) == config

ProbeEnd(p) ==
    /\ up /\ probe[p] = "testing"
    /\ \E ok \in BOOLEAN : Save(Marked(Present(p), p, ok), p)
    /\ probe' = [probe EXCEPT ![p] = "saving"]
    /\ UNCHANGED <<revision, stored, client, read, tested, latest, replaced, blind, overtaken,
                   up, crashes>>

\* The call of the head of the queue is over.
Answered(by, status) ==
    IF by \in Edits THEN client' = [client EXCEPT ![by] = status] /\ UNCHANGED probe
    ELSE probe' = [probe EXCEPT ![by] = "done"] /\ UNCHANGED client

\* add_config_revision; the caller of the lock's holder continues with its number.
StoreRow ==
    LET first == Head(saving) IN
    /\ up /\ saving # <<>>
    /\ saving' = Tail(saving)
    /\ stored' = Append(stored, first.config)
    /\ revision' = Len(stored')
    /\ Answered(first.by, "done")
    /\ UNCHANGED <<config, read, tested, historyVars, up, crashes>>

\* The row cannot be written: its caller gets the error, the configuration stays.
RowFails ==
    /\ up /\ saving # <<>>
    /\ saving' = Tail(saving)
    /\ unwritten' = (saving' = <<>>)
    /\ Answered(Head(saving).by, "failed")
    /\ UNCHANGED <<config, revision, stored, read, tested, latest, replaced, blind, overtaken,
                   up, crashes>>

Crash ==
    /\ up /\ crashes < MaxCrashes
    /\ up' = FALSE /\ crashes' = crashes + 1
    /\ saving' = <<>>
    /\ client' = [e \in Edits |-> IF client[e] = "saving" THEN "gone" ELSE client[e]]
    /\ probe' = [p \in Probes |-> IF probe[p] \in {"testing", "saving"} THEN "gone" ELSE probe[p]]
    /\ UNCHANGED <<config, revision, stored, read, tested, historyVars>>

Start ==
    /\ ~up /\ up' = TRUE
    /\ config' = Last(stored) /\ revision' = Len(stored)
    /\ latest' = [team |-> config'.team, conn |-> config'.conn] /\ unwritten' = FALSE
    /\ UNCHANGED <<stored, saving, client, read, probe, tested, replaced, blind, overtaken, crashes>>

Next ==
    \/ \E e \in Edits : Read(e) \/ Edit(e) \/ Conflict(e)
    \/ \E p \in Probes : ProbeStart(p) \/ ProbeEnd(p)
    \/ StoreRow \/ RowFails \/ Crash \/ Start

Spec == Init /\ [][Next]_vars
-----------------------------------------------------------------------------
(* Properties *)

\* However edits, probes and their rows interleave, no writer undoes another
\* setting: what is in force is the last accepted edit of each setting, also of one
\* whose row failed; it is the last row as soon as nothing waits to be written,
\* unless its own row failed; and an edit that was answered is in the rows,
\* whatever crash follows.
LatestEditStands ==
    /\ up => config.team = latest.team /\ config.conn = latest.conn
    /\ (up /\ saving = <<>>) => (unwritten \/ config = Last(stored)) /\ revision = Len(stored)
    /\ \A e \in Edits : client[e] = "done" =>
        \E i \in DOMAIN stored : stored[i][Setting(e)] = e

\* An accepted edit replaced the setting that the revision its author named has, unless
\* that was replaced already by an edit in no row: expected_revision is the number of
\* the last row, so of two edits that name one revision both are accepted until
\* the row of the first is written.
EditsReplaceWhatTheyRead ==
    \A e \in Edits : Accepted(e) /\ e \notin blind => replaced[e] = stored[read[e]][Setting(e)]

\* A check of the connection is one of the settings in force, but for a probe during
\* which the connection was edited: that one marks what it did not test.
ChecksAreOfTheirSettings ==
    config.check \notin {NotRun, config.conn} =>
        \E p \in overtaken : tested[p] = config.check
=============================================================================
