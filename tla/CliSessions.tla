---------------------------- MODULE CliSessions ----------------------------
(***************************************************************************)
(* Sessions that Claude Code runs (runtime/worker.py, _run_cli_session;    *)
(* providers/claude_cli_driver.py): a process of its own owns the loop and *)
(* calls the tools of its session through the broker, a small server of    *)
(* this process (runtime/session_broker.py), which knows sessions by their *)
(* tokens.  A session starts its process at most twice; the process may    *)
(* end by itself, be stopped at its time limit or by the cancellation of   *)
(* the run, or its session may be abandoned at any await.  A call looks    *)
(* its token up, then awaits its body, then enters the gateway; from the   *)
(* lookup on it goes on whatever becomes of the process and the session.   *)
(*                                                                         *)
(* A token stands for its session.  Usage and cost are in Session.         *)
(***************************************************************************)
EXTENDS Naturals, FiniteSets

CONSTANTS
    Workers,        \* sessions of agents
    Probes,         \* capability checks of a connection
    MaxCalls,       \* (bound) tool calls of a session
    Nobody

Sessions == Workers \cup Probes
Calls == 1..MaxCalls
Signs == {"finish", "block", "approval"}

VARIABLES
    server,     \* SessionBroker: its server and whether its port is known
    starter,    \* the session that holds the broker's lock
    registry,   \* SessionBroker._sessions
    at, round,
    proc,       \* the process of each session
    calls,      \* its tool calls
    did,        \* what its calls left in its SessionContext
    result,     \* how its process ended
    outcome,
    cancelled,  \* policy.cancel_event
    earned      \* (history) finish_task was answered while its process lived

vars == <<server, starter, registry, at, round, proc, calls, did, result, outcome,
          cancelled, earned>>
brokerVars == <<server, starter>>
callVars == <<calls, did, earned>>

TypeOK ==
    /\ server \in {"none", "starting", "up", "deaf"}
    /\ starter \in Sessions \cup {Nobody} /\ registry \subseteq Sessions
    /\ at \in [Sessions -> {"new", "starting", "ready", "running", "settling", "asking", "over"}]
    /\ round \in [Sessions -> 0..2]
    /\ proc \in [Sessions -> {"none", "alive", "dead"}]
    /\ calls \in [Sessions -> [Calls -> {"idle", "sent", "known", "inside", "done", "refused"}]]
    /\ did \in [Sessions -> SUBSET Signs]
    /\ result \in [Sessions -> {"none", "ok", "turns", "budget", "error", "timeout", "cancelled"}]
    /\ outcome \in [Sessions -> {"none", "finished", "blocked", "approval_pending", "failed",
                                 "ended", "cancelled", "abandoned", "passed"}]
    /\ cancelled \in BOOLEAN

Init ==
    /\ server = "none" /\ starter = Nobody /\ registry = {}
    /\ at = [s \in Sessions |-> "new"] /\ round = [s \in Sessions |-> 0]
    /\ proc = [s \in Sessions |-> "none"]
    /\ calls = [s \in Sessions |-> [i \in Calls |-> "idle"]]
    /\ did = [s \in Sessions |-> {}]
    /\ result = [s \in Sessions |-> "none"] /\ outcome = [s \in Sessions |-> "none"]
    /\ cancelled = FALSE
    /\ earned = [s \in Sessions |-> FALSE]
-----------------------------------------------------------------------------
(* The broker *)

\* A session that finds the server started takes its port as known.
\* (mutant of BrokerFree) The lock is not waited for.
BrokerFreeAnyway == server # "none"
BrokerFree == server \in {"up", "deaf"}

GetBroker(s) ==
    /\ at[s] = "new"
    /\ \/ /\ server = "none"
          /\ server' = "starting" /\ starter' = s
          /\ at' = [at EXCEPT ![s] = "starting"]
          /\ UNCHANGED registry
       \/ /\ BrokerFree
          /\ registry' = registry \cup {s}
          /\ at' = [at EXCEPT ![s] = "ready"]
          /\ UNCHANGED brokerVars
    /\ UNCHANGED <<callVars, round, proc, result, outcome, cancelled>>

BrokerUp ==
    /\ server = "starting"
    /\ server' = "up" /\ starter' = Nobody
    /\ registry' = registry \cup {starter}
    /\ at' = [at EXCEPT ![starter] = "ready"]
    /\ UNCHANGED <<callVars, round, proc, result, outcome, cancelled>>

\* The port does not show in time, or the starter is cancelled: the server stays
\* set, and its port unknown.
BrokerFails ==
    /\ server = "starting"
    /\ server' = "deaf" /\ starter' = Nobody
    /\ at' = [at EXCEPT ![starter] = "over"]
    /\ outcome' = [outcome EXCEPT ![starter] = "failed"]
    /\ UNCHANGED <<callVars, registry, round, proc, result, cancelled>>

Call(s, i) ==
    /\ proc[s] = "alive" /\ at[s] = "running" /\ server = "up"
    /\ calls[s][i] = "idle"
    /\ calls' = [calls EXCEPT ![s][i] = "sent"]
    /\ UNCHANGED <<brokerVars, registry, at, round, proc, did, result, outcome, cancelled, earned>>

\* A token that is not registered is answered 404.
LookUp(s, i) ==
    /\ calls[s][i] = "sent"
    /\ calls' = [calls EXCEPT ![s][i] = IF s \in registry THEN "known" ELSE "refused"]
    /\ UNCHANGED <<brokerVars, registry, at, round, proc, did, result, outcome, cancelled, earned>>

\* The body has come, or does not because the process is gone; a cancelled run
\* denies calls.  The token is not looked at again.
Enter(s, i) ==
    /\ calls[s][i] = "known"
    /\ \/ /\ s \in Probes \/ ~cancelled
          /\ calls' = [calls EXCEPT ![s][i] = "inside"]
       \/ /\ proc[s] = "dead" \/ (s \in Workers /\ cancelled)
          /\ calls' = [calls EXCEPT ![s][i] = "refused"]
    /\ UNCHANGED <<brokerVars, registry, at, round, proc, did, result, outcome, cancelled, earned>>

Leave(s, i) ==
    /\ calls[s][i] = "inside"
    /\ calls' = [calls EXCEPT ![s][i] = "done"]
    /\ \E signs \in {{}} \cup {{x} : x \in Signs} :
         /\ did' = [did EXCEPT ![s] = @ \cup signs]
         /\ earned' = [earned EXCEPT ![s] = @ \/ ("finish" \in signs /\ proc[s] = "alive")]
    /\ UNCHANGED <<brokerVars, registry, at, round, proc, result, outcome, cancelled>>
-----------------------------------------------------------------------------
(* The process and its session *)

\* Every way out of a session takes its token back.
\* (mutant of Unregistered) Only a session that ends by itself does.
UnregisteredAtEnd(s, why) == IF why = "abandoned" THEN registry ELSE registry \ {s}
Unregistered(s, why) == registry \ {s}
End(s, why) ==
    /\ at' = [at EXCEPT ![s] = "over"]
    /\ outcome' = [outcome EXCEPT ![s] = why]
    /\ registry' = Unregistered(s, why)

\* A round begins unless the run is cancelled, out of time or out of budget.
Launch(s) ==
    /\ at[s] = "ready"
    /\ \/ /\ s \in Probes \/ ~cancelled
          /\ round' = [round EXCEPT ![s] = @ + 1]
          /\ proc' = [proc EXCEPT ![s] = "alive"]
          /\ at' = [at EXCEPT ![s] = "running"]
          /\ UNCHANGED <<registry, outcome>>
       \/ /\ s \in Workers
          /\ End(s, IF cancelled THEN "cancelled" ELSE "failed")
          /\ UNCHANGED <<round, proc>>
    /\ UNCHANGED <<brokerVars, callVars, result, cancelled>>

\* The process ends, or is stopped with all its helpers; "error" is one with a
\* reason that is neither the turns nor the budget.
Exit(s) ==
    /\ at[s] = "running"
    /\ \E r \in {"ok", "turns", "budget", "error", "timeout"} \cup {x \in {"cancelled"} : cancelled /\ s \in Workers} :
         result' = [result EXCEPT ![s] = r]
    /\ proc' = [proc EXCEPT ![s] = "dead"]
    /\ at' = [at EXCEPT ![s] = "settling"]
    /\ UNCHANGED <<brokerVars, callVars, registry, round, outcome, cancelled>>

\* What its calls left, in the order of their weight.
Signed(s) ==
    IF "finish" \in did[s] THEN "finished"
    ELSE IF "block" \in did[s] THEN "blocked"
    ELSE IF "approval" \in did[s] THEN "approval_pending"
    ELSE "none"

\* The order in which _run_cli_session looks at what happened.
\* (mutant of Verdict) How the process ended comes first.
VerdictOfProcess(s) ==
    IF result[s] = "cancelled" \/ cancelled THEN "cancelled"
    ELSE IF result[s] \in {"timeout", "error"} THEN "failed"
    ELSE Signed(s)
Verdict(s) ==
    IF result[s] = "cancelled" \/ cancelled THEN "cancelled"
    ELSE IF Signed(s) # "none" THEN Signed(s)
    ELSE IF result[s] \in {"timeout", "error"} \/ (result[s] = "budget" /\ round[s] = 2) THEN "failed"
    ELSE "none"

\* auto_finish_if_outputs_published: what a task declared may be there anyway.
Classify(s) ==
    /\ s \in Workers /\ at[s] = "settling"
    /\ \/ Verdict(s) # "none" /\ End(s, Verdict(s))
       \/ /\ Verdict(s) = "none" /\ round[s] = 1
          /\ at' = [at EXCEPT ![s] = "ready"]
          /\ UNCHANGED <<registry, outcome>>
       \/ /\ Verdict(s) = "none" /\ round[s] = 2
          /\ \E why \in {"finished", "ended"} : End(s, why)
    /\ UNCHANGED <<brokerVars, callVars, round, proc, result, cancelled>>

\* A probe gives its token back, then asks once more without tools.
Ask(p) ==
    /\ p \in Probes /\ at[p] = "settling"
    /\ at' = [at EXCEPT ![p] = "asking"]
    /\ proc' = [proc EXCEPT ![p] = "alive"]
    /\ registry' = registry \ {p}
    /\ UNCHANGED <<brokerVars, callVars, round, result, outcome, cancelled>>

Pinged(p) == \E i \in Calls : calls[p][i] = "done"
Answered(p) ==
    /\ at[p] = "asking"
    /\ \E ok \in BOOLEAN : End(p, IF ok /\ Pinged(p) THEN "passed" ELSE "failed")
    /\ proc' = [proc EXCEPT ![p] = "dead"]
    /\ UNCHANGED <<brokerVars, callVars, round, result, cancelled>>

\* The deadline of the run or a shutdown cancels the session where it waits.
\* (mutant of Stopped) Only a process that has a verdict is stopped.
StoppedNever(s) == proc
Stopped(s) == [proc EXCEPT ![s] = IF @ = "alive" THEN "dead" ELSE @]
Abandon(s) ==
    /\ at[s] \in {"running", "settling", "asking"}
    /\ proc' = Stopped(s)
    /\ End(s, "abandoned")
    /\ UNCHANGED <<brokerVars, callVars, round, result, cancelled>>

Cancel ==
    /\ ~cancelled /\ cancelled' = TRUE
    /\ UNCHANGED <<brokerVars, callVars, registry, at, round, proc, result, outcome>>

Step(s) ==
    \/ GetBroker(s) \/ Launch(s) \/ Exit(s) \/ Classify(s) \/ Ask(s) \/ Answered(s)
    \/ Abandon(s)
    \/ \E i \in Calls : Call(s, i) \/ LookUp(s, i) \/ Enter(s, i) \/ Leave(s, i)

Next == BrokerUp \/ BrokerFails \/ Cancel \/ \E s \in Sessions : Step(s)

Spec == Init /\ [][Next]_vars
-----------------------------------------------------------------------------
(* Properties *)

\* A session that is over has no process and no token, however it ended: a call that
\* comes later is answered 404.  (One whose token was looked up before goes on: its
\* work may be done, but nobody reads what it leaves in its context.)  A session that
\* runs has a broker that answers, unless the start of the broker failed.
SessionsLeaveNothing ==
    /\ \A s \in Sessions : at[s] = "over" => proc[s] # "alive" /\ s \notin registry
    /\ \A s \in Sessions : at[s] \in {"ready", "running"} => s \in registry /\ server # "starting"

\* A session whose finish_task was answered is not reported as failed or unfinished,
\* however its process ended, unless its run is cancelled or it was abandoned; and a
\* probe passes only with a tool call of its own.
FinishedIsReported ==
    /\ \A s \in Workers : earned[s] /\ at[s] = "over" =>
         outcome[s] \in {"finished", "cancelled", "abandoned"}
    /\ \A p \in Probes : outcome[p] = "passed" => Pinged(p)
=============================================================================
